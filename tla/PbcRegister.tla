----------------------------- MODULE PbcRegister -----------------------------
(* Registering files of message types (register.c, proto.c, bootstrap.c). A *)
(* name is a sequence of words, so the name of a type in a package and a    *)
(* scope is their concatenation. An environment has the tables              *)
(*   files    names of files; NULL for the file that pbc_new registers      *)
(*   enums    names of enums -> index in enum                               *)
(*   msgs     names of messages -> index in message                         *)
(* and what their pointers lead to, objects that calls change in place:     *)
(*   enum     [key, id, name, default_v]                                    *)
(*   message  [key, pooled, id, name]: `name` is a table of indexes in      *)
(*            field; pooled says that the key lies in a string pool         *)
(*   field    [id, name, type, label, type_name, default_v]; type_name is a *)
(*            name first, then an index in message or enum                  *)
(*   queue    the fields of the current file whose type_name is a name      *)
EXTENDS PbcBytes

CONSTANTS
  Files,      \* file name -> its descriptor: [package, dependency,
              \*   enum_type, message_type, extension]
  Bootstrap,  \* the descriptor of descriptors: [name, enum_type, message_type]
  MaxFiles,   \* files in a set
  MaxCalls    \* calls of pbc_register

VARIABLES
  env,     \* the environment
  call,    \* NULL, or the call under way: [set, files, i, r, rr]
  answer,  \* what the last call returned; NULL before
  calls    \* calls so far

vars == <<env, call, answer, calls>>

-----------------------------------------------------------------------------
(* proto.c *)

(* A name that is there keeps its enum. *)
_pbcP_push_enum(e, name, table) ==
  IF sp_query(e.enums, name) # NULL THEN e
  ELSE [e EXCEPT
          !.enum = Append(@, [key |-> name, id |-> ip_new(table), name |-> si_new(table),
                              default_v |-> [id |-> table[1].id,
                                             name |-> table[1].pointer]]),
          !.enums = sp_insert(@, name, Len(e.enum) + 1)]

NewMessage(e, name, pooled) ==
  [e EXCEPT
     !.message = Append(@, [key |-> name, pooled |-> pooled,
                            id |-> NULL, name |-> sp_new(0)]),
     !.msgs = sp_insert(@, name, Len(e.message) + 1)]

_pbcP_push_message(e, name, pooled, f) ==
  LET known == sp_query(e.msgs, name) # NULL
      there == IF known THEN e ELSE NewMessage(e, name, pooled)
      p == Len(e.field) + 1
  IN [there EXCEPT
        !.field = Append(@, f),
        !.message[sp_query(there.msgs, name)].name = sp_insert(@, f.name, p),
        !.queue = IF f.type \in {"MESSAGE", "ENUM"} THEN Append(@, p) ELSE @]

(* The id map is made from the fields there are. *)
_pbcP_init_message(e, name) ==
  LET i == sp_query(e.msgs, name)
      fields == sp_foreach(e.message[i].name)
  IN IF i = NULL THEN NewMessage(e, name, TRUE)
     ELSE [e EXCEPT !.message[i].id =
             ip_new([k \in DOMAIN fields |->
                       [id |-> e.field[fields[k]].id, pointer |-> fields[k]]])]

pbc_enum_id(e, type, name) ==
  LET i == sp_query(e.enums, type)
      id == IF i = NULL THEN NULL ELSE si_query(e.enum[i].name, name)
  IN IF id = NULL THEN -1 ELSE id

-----------------------------------------------------------------------------
(* The fields of a file, once all its types are there. A default that is    *)
(* written in a file is one of the enum's names, and the enum is declared:  *)
(* a type that is not there is kept as NULL for a message, and dereferenced *)
(* for an enum.                                                             *)

(* Mutant: an enum's default is its first value. *)
set_field_one_first(e, p) ==
  LET f == e.field[p]
      type == sp_query(IF f.type = "ENUM" THEN e.enums ELSE e.msgs, f.type_name)
  IN [e EXCEPT !.field[p].type_name = type,
               !.field[p].default_v = IF f.type = "ENUM"
                                      THEN e.enum[type].default_v ELSE @]

set_field_one(e, p) ==
  LET f == e.field[p]
      type == sp_query(IF f.type = "ENUM" THEN e.enums ELSE e.msgs, f.type_name)
      id == si_query(e.enum[type].name, f.default_v)
      default == IF f.default_v = NULL THEN e.enum[type].default_v
                 ELSE [id |-> id, name |-> ip_query(e.enum[type].id, id)]
  IN [e EXCEPT !.field[p].type_name = type,
               !.field[p].default_v = IF f.type = "ENUM" THEN default ELSE @]

_pbcB_register_fields(e) ==
  [FoldLeft(set_field_one, e, e.queue) EXCEPT !.queue = <<>>]

-----------------------------------------------------------------------------
(* register.c: a file *)

_concat_name(prefix, name) == Append(prefix, name)

_register_enum(e, prefix, d) ==
  _pbcP_push_enum(e, _concat_name(prefix, d.name), d.value)

Half(n) == W ^ n \div 2

(* The text of a default is taken for what it says: a number, a word, NULL  *)
(* if there is none. strtoll stops at its largest number; FIXED64 is not    *)
(* provided for.                                                            *)
_set_default(type, text) ==
  CASE type \in {"STRING", "BYTES"} -> IF text = NULL \/ type = "BYTES" THEN <<>> ELSE text
    [] type = "ENUM" -> text
    [] type \in {"DOUBLE", "FLOAT"} /\ text # NULL -> text
    [] type = "BOOL" /\ text # NULL -> [low |-> IF text = "true" THEN 1 ELSE 0, hi |-> 0]
    [] type \in {"UINT64", "INT64", "SFIXED64", "SINT64"} /\ text # NULL ->
         Pair(Min({text, Half(2) - 1}))
    [] type \in {"INT32", "FIXED32", "SFIXED32", "SINT32"} /\ text # NULL ->
         [low |-> text % W, hi |-> IF text % W >= Half(1) THEN W - 1 ELSE 0]
    [] type = "UINT32" /\ text # NULL -> [low |-> text % W, hi |-> 0]
    [] OTHER -> [low |-> 0, hi |-> 0]

_register_field(d, name) ==
  [id |-> d.number, name |-> name, type |-> d.type,
   label |-> IF d.packed THEN "PACKED" ELSE d.label,
   type_name |-> d.type_name,
   default_v |-> _set_default(d.type, d.default_value)]

(* Mutant: only the message that was extended last gets a new id map. *)
_register_extension_last(e, prefix, extensions) ==
  LET Push(s, x) ==
        _pbcP_push_message(s, x.extendee, FALSE,
                           _register_field(x, _concat_name(prefix, x.name)))
      all == FoldLeft(Push, e, extensions)
  IN IF extensions = <<>> THEN e
     ELSE _pbcP_init_message(all, extensions[Len(extensions)].extendee)

(* The name of an extended message is not copied to a pool.                 *)
_register_extension(e, prefix, extensions) ==
  LET Push(s, x) ==
        LET pushed ==
              _pbcP_push_message(s.env, x.extendee, FALSE,
                                 _register_field(x, _concat_name(prefix, x.name)))
        IN [env |-> IF s.last \in {NULL, x.extendee} THEN pushed
                    ELSE _pbcP_init_message(pushed, s.last),
            last |-> x.extendee]
      all == FoldLeft(Push, [env |-> e, last |-> NULL], extensions)
  IN IF extensions = <<>> THEN e ELSE _pbcP_init_message(all.env, all.last)

RECURSIVE _register_message(_, _, _)
_register_message(e, prefix, d) ==
  LET key == _concat_name(prefix, d.name)
      Push(s, f) == _pbcP_push_message(s, key, TRUE, _register_field(f, <<f.name>>))
      Enum(s, t) == _register_enum(s, key, t)
      Nested(s, t) == _register_message(s, key, t)
      own == _pbcP_init_message(FoldLeft(Push, e, d.field), key)
      extended == _register_extension(own, key, d.extension)
  IN FoldLeft(Nested, FoldLeft(Enum, extended, d.enum_type), d.nested_type)

_register(e, d) ==
  LET Enum(s, t) == _register_enum(s, d.package, t)
      Message(s, t) == _register_message(s, d.package, t)
      types == FoldLeft(Message, FoldLeft(Enum, e, d.enum_type), d.message_type)
  IN _pbcB_register_fields(_register_extension(types, d.package, d.extension))

-----------------------------------------------------------------------------
(* pbc_new: bootstrap.c registers the descriptor of descriptors. Defaults   *)
(* of integers get no high word; nothing reads it.                          *)

set_default(type, text) ==
  IF type \in {"DOUBLE", "FLOAT", "STRING", "ENUM"} THEN text ELSE [low |-> text]

set_msg_one(e, d) ==
  LET Push(s, f) ==
        _pbcP_push_message(s, <<d.name>>, TRUE,
          [id |-> f.number, name |-> <<f.name>>, type |-> f.type, label |-> f.label,
           type_name |-> f.type_name, default_v |-> set_default(f.type, f.default_value)])
  IN _pbcP_init_message(FoldLeft(Push, e, d.field), <<d.name>>)

register_internal(e, d) ==
  LET Enum(s, t) == _pbcP_push_enum(s, <<t.name>>, t.value)
      file == [e EXCEPT !.files = sp_insert(@, d.name, NULL)]
  IN _pbcB_register_fields(
       FoldLeft(set_msg_one, FoldLeft(Enum, file, d.enum_type), d.message_type))

pbc_new ==
  register_internal([files |-> sp_new(0), enums |-> sp_new(0), msgs |-> sp_new(0),
                     enum |-> <<>>, message |-> <<>>, field |-> <<>>, queue |-> <<>>],
                    Bootstrap)

Init ==
  /\ env = pbc_new
  /\ call = NULL
  /\ answer = NULL
  /\ calls = 0

-----------------------------------------------------------------------------
(* pbc_register: the files of a set, in rounds. *)

_check_file_name(f) ==
  LET Known(name) == sp_query(env.files, name) # NULL
      deps == Files[f].dependency
  IN IF Known(f) THEN "EXIST"
     ELSE IF \E i \in DOMAIN deps : ~Known(deps[i]) THEN "DEPENDENCY"
     ELSE "OK"

pbc_register(set) ==
  /\ call = NULL /\ calls < MaxCalls
  /\ calls' = calls + 1
  /\ IF set = <<>>
     THEN answer' = 1 /\ call' = NULL
     ELSE /\ answer' = NULL
          /\ call' = [set |-> set, files |-> set, i |-> 1, r |-> Len(set), rr |-> 0]
  /\ UNCHANGED env

(* What becomes of the file a round is at. *)
Verdict ==
  IF call.files[call.i] = NULL THEN "GONE" ELSE _check_file_name(call.files[call.i])

Advance ==
  /\ call # NULL /\ call.i <= Len(call.files)
  /\ call' = [call EXCEPT
                !.i = @ + 1,
                !.rr = IF Verdict = "DEPENDENCY" THEN @ + 1 ELSE @,
                !.files[call.i] = IF Verdict = "OK" THEN NULL ELSE @]

(* One file of a round. *)
_register_no_dependency ==
  /\ Advance
  /\ LET f == call.files[call.i]
     IN env' = IF Verdict # "OK" THEN env
               ELSE _register([env EXCEPT !.files = sp_insert(@, f, TRUE)], Files[f])
  /\ UNCHANGED <<answer, calls>>

(* Mutant: gives up unless the round registered all that was left. *)
NextRound_once ==
  /\ call # NULL /\ call.i > Len(call.files)
  /\ call' = NULL
  /\ answer' = IF call.rr = 0 THEN 0 ELSE 1
  /\ UNCHANGED <<env, calls>>

(* The end of a round: the call returns, or goes round again. *)
NextRound ==
  /\ call # NULL /\ call.i > Len(call.files)
  /\ LET done == call.rr \in {0, call.r} IN
     /\ call' = IF done THEN NULL
                ELSE [call EXCEPT !.i = 1, !.r = call.rr, !.rr = 0]
     /\ answer' = IF ~done THEN NULL ELSE IF call.rr = 0 THEN 0 ELSE 1
  /\ UNCHANGED <<env, calls>>

Next ==
  \/ \E n \in 0..MaxFiles : \E set \in [1..n -> DOMAIN Files] : pbc_register(set)
  \/ _register_no_dependency
  \/ NextRound

Spec ==
  /\ Init /\ [][Next]_vars
  /\ WF_call(Advance) /\ WF_vars(NextRound)

-----------------------------------------------------------------------------
(* The properties. *)

Pointers(m) == {p \in ToSet(sp_foreach(m)) : p # NULL}

Registered == {f \in DOMAIN Files : sp_query(env.files, f) # NULL}

(* The messages a descriptor declares, with their names: [key, d].          *)
RECURSIVE Scopes(_, _)
Scopes(prefix, ds) ==
  UNION {{[key |-> Append(prefix, d.name), d |-> d]}
           \cup Scopes(Append(prefix, d.name), d.nested_type) : d \in ToSet(ds)}

DeclaredMessages == UNION {Scopes(Files[f].package, Files[f].message_type) : f \in Registered}

(* The enums, and the fields of a message with their names.                 *)
DeclaredEnums ==
  UNION {{[key |-> Append(Files[f].package, t.name), d |-> t] : t \in ToSet(Files[f].enum_type)}
           : f \in Registered}
    \cup UNION {{[key |-> Append(s.key, t.name), d |-> t] : t \in ToSet(s.d.enum_type)}
                  : s \in DeclaredMessages}

ExtensionsOf(key) ==
  LET In(prefix, xs) == {[name |-> Append(prefix, x.name), d |-> x]
                           : x \in {y \in ToSet(xs) : y.extendee = key}}
  IN UNION {In(Files[f].package, Files[f].extension) : f \in Registered}
       \cup UNION {In(s.key, s.d.extension) : s \in DeclaredMessages}

DeclaredFields(s) ==
  {[name |-> <<x.name>>, d |-> x] : x \in ToSet(s.d.field)} \cup ExtensionsOf(s.key)

(* What a declared default means. *)
MeansDefault(d, f) ==
  CASE d.type = "ENUM" ->
         f.default_v.name = IF d.default_value = NULL
                            THEN env.enum[f.type_name].default_v.name ELSE d.default_value
    [] d.type \in {"INT32", "SINT64", "INT64"} ->
         f.default_v = Pair(IF d.default_value = NULL THEN 0 ELSE d.default_value)
    [] d.type = "STRING" -> f.default_v = IF d.default_value = NULL THEN <<>> ELSE d.default_value
    [] OTHER -> TRUE

(* The field a declaration became: its type was found, whichever file and   *)
(* place in the file it comes from, and its default is what was declared.   *)
Became(f, d) ==
  /\ f.id = d.number /\ f.type = d.type
  /\ f.label = IF d.packed THEN "PACKED" ELSE d.label
  /\ d.type \in {"MESSAGE", "ENUM"} => f.type_name # NULL
  /\ d.type = "MESSAGE" => env.message[f.type_name].key = d.type_name
  /\ d.type = "ENUM" => env.enum[f.type_name].key = d.type_name
  /\ MeansDefault(d, f)

(* Whatever order the files came in, the environment has the enums, the     *)
(* messages and the fields, extensions among them, that the registered      *)
(* files declare, and those alone (register.c:148-249, bootstrap.c:166-200).*)
(* The names of messages outlive the set they were read from: a file that   *)
(* extends a message comes after the one that declares it. (One that        *)
(* extends, inside a message, a message further down is not among Files.)   *)
CatalogueKept ==
  /\ \A s \in DeclaredMessages :
       LET i == sp_query(env.msgs, s.key)
           fields == DeclaredFields(s)
       IN /\ i # NULL /\ env.message[i].pooled
          /\ Cardinality(Pointers(env.message[i].name)) = Cardinality(fields)
          /\ \A x \in fields :
               LET p == sp_query(env.message[i].name, x.name)
               IN p # NULL /\ Became(env.field[p], x.d)
  /\ \A t \in DeclaredEnums : \A v \in ToSet(t.d.value) :
       pbc_enum_id(env, t.key, v.pointer) = v.id
  /\ Len(env.message) = Cardinality(DeclaredMessages) + Len(Bootstrap.message_type)
  /\ Len(env.enum) = Cardinality(DeclaredEnums) + Len(Bootstrap.enum_type)

(* A message is known by the ids of its fields as it is by their names,     *)
(* after every extension by any file (proto.c:134-163, register.c:148-178). *)
IdMapAgrees ==
  \A i \in DOMAIN env.message :
    LET m == env.message[i] IN
    /\ m.id = NULL => Pointers(m.name) = {}
    /\ \A p \in Pointers(m.name) : ip_query(m.id, env.field[p].id) = p

(* It does what RegisterPromise says: it registers what it can and answers, *)
(* with files whose dependencies never come as well (register.c:277-342).   *)
Promise ==
  INSTANCE RegisterPromise WITH
    Dependencies <- [f \in DOMAIN Files |-> ToSet(Files[f].dependency)],
    Unanswered <- NULL,
    registered <- Registered,
    asked <- IF call = NULL THEN {} ELSE ToSet(call.set)
KeepsPromise == Promise!Spec
=============================================================================

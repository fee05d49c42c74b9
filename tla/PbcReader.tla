----------------------------- MODULE PbcReader -------------------------------
(* Reading a message: into a table of values (rmessage.c) or by calls of a  *)
(* function of the program (decode.c). A pbc_rmessage is its type `msg` and *)
(* `index`, a map_sp from the names of its fields to [type, v]: v is a      *)
(* sequence for a field that may be repeated.                               *)
EXTENDS PbcSchema

Zeros == [i \in 1..MaxBytes |-> 0]

(* A number of field type ptype, as it is in an atom. *)
Number(ptype, v) ==
  CASE ptype = "SINT32" -> _pbcV_dezigzag32(v)
    [] ptype = "SINT64" -> _pbcV_dezigzag64(v)
    [] OTHER -> [low |-> v.low, hi |-> v.hi]

(* _pbcP_unpack_packed (pattern.c): what is pushed, and the number of       *)
(* values or -1. Bytes after b do not matter: a number that needs them is   *)
(* refused.                                                                 *)
_pbcP_unpack_packed(b, ptype) ==
  LET width == IF ptype \in Bit64 THEN 2 * FixedBytes ELSE FixedBytes
      fixed == [k \in 1..(Len(b) \div width) |->
                  IF ptype \in Bit64 THEN Fixed64(b, (k - 1) * width)
                                     ELSE Fixed32(b, (k - 1) * width)]
      Varint(s) == _pbcV_decode(SubSeq(b, s + 1, Len(b)) \o Zeros)
      From[s \in 0..Len(b)] ==
        LET d == Varint(s)
        IN IF s = Len(b) THEN [whole |-> TRUE, data |-> <<>>]
           ELSE IF s + d.len > Len(b) THEN [whole |-> FALSE, data |-> <<>>]
           ELSE [From[s + d.len] EXCEPT !.data = <<Number(ptype, d)>> \o @]
  IN IF ptype \in Varints
     THEN [n |-> IF From[0].whole THEN Len(From[0].data) ELSE -1,
           data |-> From[0].data]
     ELSE IF Len(b) % width = 0 THEN [n |-> Len(fixed), data |-> fixed]
     ELSE [n |-> -1, data |-> <<>>]

-----------------------------------------------------------------------------
(* rmessage.c *)

RECURSIVE _pbc_rmessage_new(_, _, _)

(* The value of an atom for field f: NULL if it cannot be one. *)
Item(f, a, b, tail) ==
  LET spans == Wiretype(a) = WT_LEND IN
  CASE f.type = "ENUM" -> EnumOf(f, a.v.low)
    [] f.type \in Numbers \cup Reals -> Number(f.type, a.v)
    [] f.type \in Texts -> IF spans THEN Slice(b, a) ELSE NULL
    [] OTHER -> IF spans
                THEN _pbc_rmessage_new(f.type_name, Slice(b, a), tail)
                ELSE NULL

(* The first n entries of an array as enums, whichever of them were pushed  *)
(* last; an entry that is one already has its id where a number has low.    *)
Enumerated(f, array, n) ==
  LET Low(v) == IF "id" \in DOMAIN v THEN v.id ELSE v.low
  IN [i \in DOMAIN array |->
        IF i <= n THEN EnumOf(f, Low(array[i])) ELSE array[i]]

(* The array of a packed or a repeated field with what an atom adds to it. *)
push_value_packed(array, f, a, b) ==
  LET u == _pbcP_unpack_packed(Slice(b, a), f.type)
      all == array \o u.data
  IN IF f.type = "ENUM" /\ u.n > 0 THEN Enumerated(f, all, u.n) ELSE all

push_value_array(array, f, a, b, tail) ==
  LET v == Item(f, a, b, tail) IN IF v = NULL THEN array ELSE Append(array, v)

PushArray(index, f, a, b, tail) ==
  LET t == sp_query_insert(index, f.name)
      old == IF sp_query(t, f.name) = NULL THEN <<>> ELSE sp_query(t, f.name).v
      array == IF f.label = "PACKED" THEN push_value_packed(old, f, a, b)
               ELSE push_value_array(old, f, a, b, tail)
  IN sp_write(t, f.name,
              IF array = <<>> THEN NULL ELSE [type |-> f, v |-> array])

(* A message in a message that cannot be decoded is there, without fields   *)
(* to ask for.                                                              *)
PushScalar(index, f, a, b, tail) ==
  LET v == Item(f, a, b, tail)
  IN IF v = NULL /\ Wiretype(a) # WT_LEND THEN index
     ELSE sp_insert(index, f.name, [type |-> f, v |-> v])

_pbc_rmessage_new(type, b, tail) ==
  LET ctx == _pbcC_open(b, tail)
      Add(index, a) ==
        LET f == FieldById(type, Id(a))
        IN CASE f = NULL -> index
             [] f # NULL /\ IsArray(f) -> PushArray(index, f, a, b, tail)
             [] OTHER -> PushScalar(index, f, a, b, tail)
  IN IF b = <<>> THEN [msg |-> type, index |-> sp_new(0)]
     ELSE IF ctx.count <= 0 THEN NULL
     ELSE [msg |-> type, index |-> FoldLeft(Add, sp_new(ctx.count), ctx.a)]

ValueOf(r, key) == IF r.index = NULL THEN NULL ELSE sp_query(r.index, key)

pbc_rmessage_size(r, key) ==
  LET v == ValueOf(r, key)
  IN IF v = NULL THEN 0 ELSE IF IsArray(v.type) THEN Len(v.v) ELSE 1

(* pbc_rmessage_integer, _real and _string: the default if the key has no   *)
(* value; index counts from 0 and is ignored unless there is an array.      *)
ReadItem(r, key, index) ==
  LET v == ValueOf(r, key)
  IN IF v = NULL THEN _pbcP_message_default(r.msg, key)
     ELSE IF IsArray(v.type) THEN v.v[index + 1] ELSE v.v

(* One that is not there has the defaults of its type. *)
pbc_rmessage_message(r, key, index) ==
  IF ValueOf(r, key) = NULL
  THEN [msg |-> FieldByName(r.msg, key).type_name, index |-> NULL]
  ELSE ReadItem(r, key, index)

(* The keys an iteration visits, with their types. *)
pbc_rmessage_next(r, key) ==
  LET k == sp_next(r.index, key)
  IN [key |-> k, type |-> IF k = NULL THEN NULL ELSE _pbcP_type(ValueOf(r, k).type)]

-----------------------------------------------------------------------------
(* decode.c: the calls of the program's function are a sequence of          *)
(* [id, key, type, v]. An atom leads to calls, and to n < 0 if it fails.    *)

Call(f, v) == [id |-> f.id, key |-> f.name, type |-> _pbcP_type(f), v |-> v]
One(c) == [n |-> 1, calls |-> <<c>>]
Refused == [n |-> -1, calls |-> <<>>]

(* Mutant: the id with the wire type in it. *)
call_unknown_raw(a, b) ==
  One([id |-> a.wire_id, key |-> NULL, type |-> NULL,
       v |-> IF Wiretype(a) = WT_LEND THEN Slice(b, a) ELSE a.v])

call_unknown(a, b) ==
  One([id |-> Id(a), key |-> NULL, type |-> NULL,
       v |-> IF Wiretype(a) = WT_LEND THEN Slice(b, a) ELSE a.v])

(* Types of one word have no high word, except SINT32. *)
call_type(f, a, b) ==
  CASE f.type = "ENUM" -> One(Call(f, EnumOf(f, a.v.low)))
    [] f.type \in OneWord -> One(Call(f, [low |-> a.v.low, hi |-> 0]))
    [] f.type \in (Numbers \cup Reals) \ OneWord -> One(Call(f, Number(f.type, a.v)))
    [] OTHER -> IF Wiretype(a) = WT_LEND THEN One(Call(f, Slice(b, a))) ELSE Refused

call_array(f, b) ==
  LET Calls(u) ==
        [n |-> u.n,
         calls |-> [i \in DOMAIN u.data |->
                      Call(f, IF f.type = "ENUM" THEN EnumOf(f, u.data[i].low)
                              ELSE u.data[i])]]
  IN Calls(_pbcP_unpack_packed(b, f.type))

CallsOf(f, a, b) ==
  CASE f = NULL -> call_unknown(a, b)
    [] f # NULL /\ f.label = "PACKED" -> call_array(f, Slice(b, a))
    [] OTHER -> call_type(f, a, b)

(* The result of a decoder: `at` atoms went well. *)
Handled(r, c) ==
  [at |-> r.at + 1, calls |-> r.calls \o c.calls,
   ret |-> IF c.n < 0 THEN -r.at - 1 ELSE r.ret]
NotHandled(ret) == [at |-> 0, calls |-> <<>>, ret |-> ret]

(* Mutant: what could be decoded is passed on, then the failure is seen. *)
pbc_decode_eager(type, b, tail) ==
  LET Step(r, a) == IF r.ret < 0 /\ r.at > 0 THEN r
                    ELSE Handled(r, CallsOf(FieldById(type, Id(a)), a, b))
      Atoms(ctx) == FoldLeft(Step, NotHandled(ctx.count), ctx.a)
  IN IF b = <<>> THEN NotHandled(0) ELSE Atoms(_pbcC_open(b, tail))

(* The number of atoms, or less than 0. *)
pbc_decode(type, b, tail) ==
  LET Step(r, a) == IF r.ret < 0 THEN r
                    ELSE Handled(r, CallsOf(FieldById(type, Id(a)), a, b))
      Atoms(ctx) == IF ctx.count <= 0 THEN NotHandled(ctx.count - 1)
                    ELSE FoldLeft(Step, NotHandled(ctx.count), ctx.a)
  IN IF b = <<>> THEN NotHandled(0) ELSE Atoms(_pbcC_open(b, tail))
=============================================================================

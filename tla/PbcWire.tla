------------------------------- MODULE PbcWire -------------------------------
(* From one program to another through the bytes of a message: it is        *)
(* written with a pbc_wmessage or packed from a C struct, arrives whole or  *)
(* cut off, and is read into a pbc_rmessage, by a decoder's calls or into a *)
(* C struct, maybe as another version of its type.                          *)
EXTENDS PbcPattern

CONSTANTS
  Roots,          \* the types of whole messages
  ReadAs,         \* root -> the types a reader may take it for
  NumberSamples,  \* field type -> the numbers written to such fields
  EnumNames,      \* the names written to enum fields
  TextSamples,    \* [v, len] written to fields of strings and bytes
  Formats,        \* root -> the formats of patterns on it
  Structs(_),     \* pattern -> the structs packed with it
  Rooms,          \* the sizes of buffers packed into
  Tails,          \* what may stand in memory that is not initialised; no
                  \* length that wraps round (context.c:68)
  MaxWrites,      \* root -> the values written in a message
  MaxMessages     \* messages in a message, and itself

ASSUME HashesOK ==
  \A t \in DOMAIN Schema : \A f \in FieldsOf(t) : calc_hash(f.name) # 0

VARIABLES
  ms,      \* the pbc_wmessages; the first one is the whole message
  wrote,   \* for each of them: key -> the values written, in order
  packer,  \* NULL, or what was packed: [pat, room, ret]
  wire,    \* the bytes of the message; NULL before there are any
  got      \* NULL, or what a reader has: [by, as, cut] and its result

vars == <<ms, wrote, packer, wire, got>>

Nothing(type) == [k \in {f.name : f \in FieldsOf(type)} |-> <<>>]

Init ==
  \E t \in Roots :
    /\ ms = <<_wmessage_new(t)>>
    /\ wrote = <<Nothing(t)>>
    /\ packer = NULL
    /\ wire = NULL
    /\ got = NULL

-----------------------------------------------------------------------------
(* Writing. A caller writes a field that is not repeated at most once.      *)

Root == ms[1].type

Total ==
  FoldLeft(LAMBDA n, w : n + FoldFunction(LAMBDA s, k : Len(s) + k, 0, w), 0, wrote)

MayWrite(i, f) ==
  /\ wire = NULL /\ packer = NULL
  /\ Total < MaxWrites[Root]
  /\ IsArray(f) \/ wrote[i][f.name] = <<>>

Noted(i, f, v) == wrote' = [wrote EXCEPT ![i][f.name] = Append(@, v)]

WriteNumber(i, f) ==
  /\ MayWrite(i, f)
  /\ \E v \in NumberSamples[f.type] :
       /\ IF f.type \in Reals
          THEN ms' = [ms EXCEPT ![i] = pbc_wmessage_real(@, f, v)]
          ELSE ms' = [ms EXCEPT ![i] = pbc_wmessage_integer(@, f, v)]
       /\ Noted(i, f, CASE f.type = "ENUM" -> EnumOf(f, v.low)
                        [] f.type = "FLOAT" -> ToFloat(v)
                        [] OTHER -> v)
  /\ UNCHANGED <<packer, wire, got>>

WriteName(i, f) ==
  /\ MayWrite(i, f)
  /\ f.type = "ENUM"
  /\ \E name \in EnumNames :
       LET id == si_query(EnumName[f.type_name], name) IN
       /\ ms' = [ms EXCEPT ![i] = WriteEnumName(@, f, name)]
       /\ IF id = NULL THEN UNCHANGED wrote ELSE Noted(i, f, EnumOf(f, id))
  /\ UNCHANGED <<packer, wire, got>>

WriteString(i, f) ==
  /\ MayWrite(i, f)
  /\ f.type \in Texts
  /\ \E t \in TextSamples :
       /\ ms' = [ms EXCEPT ![i] = WriteText(@, f, t.v, t.len)]
       /\ Noted(i, f, Text(t.v, t.len))
  /\ UNCHANGED <<packer, wire, got>>

WriteMessage(i, f) ==
  /\ MayWrite(i, f)
  /\ f.type = "MESSAGE"
  /\ Len(ms) < MaxMessages
  /\ ms' = pbc_wmessage_message(ms, i, f)
  /\ wrote' = Append([wrote EXCEPT ![i][f.name] = Append(@, Len(ms) + 1)],
                     Nothing(f.type_name))
  /\ UNCHANGED <<packer, wire, got>>

Send ==
  /\ wire = NULL /\ packer = NULL
  /\ LET b == pbc_wmessage_buffer(ms, 1)
     IN ms' = [ms EXCEPT ![1] = b] /\ wire' = b.buf
  /\ UNCHANGED <<wrote, packer, got>>

(* A value of a struct as the other ways to write have it. *)
AsValue(pf, c) ==
  CASE pf.ptype = "ENUM" -> EnumOf(FieldByName(Root, pf.key), c)
    [] pf.ptype \in Texts ->
         IF c.buffer = NULL THEN <<>> ELSE SliceBytes(pf.ptype, c)
    [] OTHER -> Loaded(pf.ctype, c)

AsWritten(pf, c) ==
  CASE pf.ctype = "ARRAY" /\ pf.ptype \in Texts ->
         [j \in DOMAIN c |-> SliceBytes(pf.ptype, c[j])]
    [] pf.ctype \in Arrays /\ pf.ptype = "ENUM" ->
         [j \in DOMAIN c |-> EnumOf(FieldByName(Root, pf.key), c[j].low)]
    [] pf.ctype \in Arrays /\ pf.ptype = "FLOAT" -> [j \in DOMAIN c |-> ToFloat(c[j])]
    [] pf.ctype \in Arrays /\ pf.ptype \notin Texts \cup {"ENUM", "FLOAT"} -> c
    [] OTHER -> <<AsValue(pf, c)>>

PackStruct ==
  /\ wire = NULL /\ packer = NULL /\ Total = 0
  /\ \E format \in Formats[Root], room \in Rooms :
       LET pat == pbc_pattern_new(Root, format) IN
       /\ pat # NULL
       /\ \E in \in Structs(pat) :
            LET r == pbc_pattern_pack(pat, in, room) IN
            /\ packer' = [pat |-> pat, in |-> in, room |-> room, ret |-> r.ret]
            /\ wire' = IF r.ret < 0 THEN NULL ELSE r.out
            /\ wrote' = <<[k \in DOMAIN wrote[1] |->
                 LET at == {j \in DOMAIN pat : pat[j].key = k} IN
                 IF at = {} THEN <<>>
                 ELSE AsWritten(pat[CHOOSE j \in at : TRUE], in[k])]>>
  /\ UNCHANGED <<ms, got>>

-----------------------------------------------------------------------------
(* Reading what arrived: the first `cut` bytes. *)

Arrivals ==
  {[cut |-> Len(wire), tail |-> Zeros]}
    \cup [cut : 0..(Len(wire) - 1), tail : Tails]

Bytes(arrival) == SubSeq(wire, 1, arrival.cut)

(* A reader, what it takes the message for, and what it makes of it. *)
Reads(by, as, arrival, result) ==
  /\ got' = [by |-> by, as |-> as, cut |-> arrival.cut, result |-> result]
  /\ UNCHANGED <<ms, wrote, packer, wire>>

ReadMessage ==
  /\ wire # NULL /\ got = NULL
  /\ \E as \in ReadAs[Root], a \in Arrivals :
       Reads("rmessage", as, a, _pbc_rmessage_new(as, Bytes(a), a.tail))

Decode ==
  /\ wire # NULL /\ got = NULL
  /\ \E as \in ReadAs[Root], a \in Arrivals :
       Reads("decode", as, a, pbc_decode(as, Bytes(a), a.tail))

Zero(ctype) ==
  CASE ctype \in CInts \cup {"BOOL"} -> 0
    [] ctype \in {"DOUBLE", "FLOAT"} -> Pair(0)
    [] ctype \in Arrays -> <<>>
    [] ctype = "VAR" -> [buffer |-> NULL, len |-> 0]

ZeroStruct(pat) ==
  [k \in {pat[i].key : i \in DOMAIN pat} |->
     Zero(pat[CHOOSE i \in DOMAIN pat : pat[i].key = k].ctype)]

Unpack ==
  /\ wire # NULL /\ got = NULL
  /\ \E format \in Formats[Root], a \in Arrivals :
       LET pat == pbc_pattern_new(Root, format) IN
       /\ pat # NULL
       /\ Reads("unpack", pat, a,
                pbc_pattern_unpack(pat, Bytes(a), a.tail, ZeroStruct(pat)))

Next ==
  \/ \E i \in DOMAIN ms : \E f \in FieldsOf(ms[i].type) :
       \/ f.type \in Numbers \cup Reals \cup {"ENUM"} /\ WriteNumber(i, f)
       \/ WriteName(i, f)
       \/ WriteString(i, f)
       \/ WriteMessage(i, f)
  \/ Send
  \/ PackStruct
  \/ ReadMessage
  \/ Decode
  \/ Unpack

Spec == Init /\ [][Next]_vars

-----------------------------------------------------------------------------
(* The properties. *)

(* A message with several values in a packed field of 32 bits, fixed, that  *)
(* was written with a wmessage: _pack_packed_32 makes room for 4 bytes a    *)
(* value and writes the values 8 bytes apart (wmessage.c:376, 383, 389),    *)
(* past the room and, where that ends, past the buffer. What is read back   *)
(* has bytes in it that were never written.                                 *)
Strided ==
  /\ packer = NULL
  /\ \E i \in DOMAIN ms : \E f \in FieldsOf(ms[i].type) :
       f.label = "PACKED" /\ f.type \in Bit32 /\ Len(wrote[i][f.name]) > 1

(* What _expand_message makes room for is enough for all that is written    *)
(* before it is called again, by every writer but _pack_packed_32           *)
(* (wmessage.c:160-506, its estimates 20, 18, 10 + len and end_len_len).    *)
WithinBuffer == ~Strided => \A i \in DOMAIN ms : ~ms[i].over

(* What was written to a field of message i; a writer may not know the      *)
(* reader's fields.                                                         *)
WrittenTo(i, f) ==
  IF f.name \in DOMAIN wrote[i] THEN wrote[i][f.name] ELSE <<>>

(* The keys an iteration over r visits. *)
Visited(r) ==
  LET More[n \in 0..Cardinality(FieldsOf(r.msg)), k \in {NULL} \cup {f.name : f \in FieldsOf(r.msg)}] ==
        LET next == pbc_rmessage_next(r, k).key
        IN IF n = 0 \/ next = NULL THEN <<>> ELSE <<next>> \o More[n - 1, next]
  IN More[Cardinality(FieldsOf(r.msg)), NULL]

(* A number of one word in a struct has no sign to extend. *)
Same(f, a, b) ==
  IF packer # NULL /\ f.type \in OneWord THEN a.low = b.low ELSE a = b

RECURSIVE Shows(_, _)
Shows(r, i) ==
  /\ \A f \in FieldsOf(r.msg) :
       LET vs == WrittenTo(i, f)
           n == pbc_rmessage_size(r, f.name)
       IN CASE f.type = "MESSAGE" ->
                 /\ n = Len(vs)
                 /\ \A k \in 1..n : Shows(pbc_rmessage_message(r, f.name, k - 1), vs[k])
            [] f.type # "MESSAGE" /\ IsArray(f) ->
                 /\ n = Len(vs)
                 /\ \A k \in 1..n : Same(f, ReadItem(r, f.name, k - 1), vs[k])
            [] OTHER ->
                 Same(f, ReadItem(r, f.name, 0),
                         IF vs = <<>> THEN f.default_v ELSE vs[1])
  /\ LET visited == Visited(r)
     IN /\ IsInjective(visited)
        /\ ToSet(visited) =
             {f.name : f \in {g \in FieldsOf(r.msg) : pbc_rmessage_size(r, g.name) > 0}}

(* A message that arrives whole reads as it was written, in every message   *)
(* in it: a value left out because it is the default, a packed array whose  *)
(* header was moved, a repeated field and a field only one side knows       *)
(* (wmessage.c, rmessage.c, pattern.c, varint.c). Not so packed numbers of  *)
(* 32 bits, fixed (Strided), and the negative numbers of packed INT32 and   *)
(* SINT32 fields, which no sample has.                                      *)
ReadsBack ==
  got # NULL /\ got.by = "rmessage" /\ got.cut = Len(wire) /\ ~Strided =>
    got.result # NULL /\ Shows(got.result, 1)

(* A message that is cut off is refused as a whole, by every reader, unless *)
(* it ends where a field does; then its fields so far are there, and a      *)
(* decoder makes no call before it knows (context.c:16-85, decode.c:313).   *)
TruncationSeen ==
  got # NULL /\ packer = NULL =>
    LET ended == got.cut \in ms[1].ends
    IN CASE got.by = "rmessage" ->
              /\ (got.result # NULL) <=> ended
              /\ ended => \A f \in FieldsOf(got.as) : IsArray(f) =>
                   LET n == pbc_rmessage_size(got.result, f.name)
                   IN /\ n <= Len(WrittenTo(1, f))
                      /\ f.type # "MESSAGE" /\ ~Strided => \A k \in 1..n :
                           ReadItem(got.result, f.name, k - 1) = WrittenTo(1, f)[k]
         [] got.by = "decode" ->
              IF ended THEN got.result.ret >= 0
              ELSE got.result.ret < 0 /\ got.result.calls = <<>>
         [] got.by = "unpack" -> (got.result.ret = 0) <=> ended

(* What a decoder's function is called with for values of field f. *)
Passed(f, v) == IF f.type \in OneWord /\ f.label # "PACKED" THEN ToFloat(v) ELSE v

(* An optional value that is the default is not written. *)
LeftOut(f, vs) ==
  /\ f.label = "OPTIONAL" /\ f.type # "MESSAGE" /\ vs # <<>>
  /\ Same(f, vs[1], f.default_v)

(* The calls of a decoder name each field it knows with the values in the   *)
(* order they were written, and every other field by its id (decode.c).     *)
CallsMatch ==
  got # NULL /\ got.by = "decode" /\ got.cut = Len(wire) /\ ~Strided =>
    LET calls(key) == SelectSeq(got.result.calls, LAMBDA c : c.key = key)
        known == {f.name : f \in FieldsOf(got.as)}
    IN /\ \A f \in FieldsOf(got.as) :
            LET vs == WrittenTo(1, f)
                cs == calls(f.name)
            IN /\ Len(cs) = IF LeftOut(f, vs) THEN 0 ELSE Len(vs)
               /\ f.type # "MESSAGE" => \A k \in DOMAIN cs : cs[k].v = Passed(f, vs[k])
       /\ {c.id : c \in ToSet(calls(NULL))} =
            {f.id : f \in {g \in FieldsOf(Root) :
                             /\ g.name \notin known
                             /\ wrote[1][g.name] # <<>>
                             /\ ~LeftOut(g, wrote[1][g.name])}}

(* A struct unpacked from a whole message holds what was written or packed, *)
(* cut to its C types, and the defaults of the rest (pattern.c).            *)
StructHolds ==
  got # NULL /\ got.by = "unpack" /\ got.cut = Len(wire) /\ ~Strided =>
    /\ got.result.ret = 0
    /\ \A j \in DOMAIN got.as :
         LET pf == got.as[j]
             vs == wrote[1][pf.key]
             c == got.result.out[pf.key]
         IN CASE pf.ctype \in Arrays /\ pf.ptype \in Texts \cup {"MESSAGE"} ->
                   Len(c) = Len(vs) /\
                   (pf.ptype # "MESSAGE" => \A k \in DOMAIN c : c[k] = Cut(vs[k]))
              [] pf.ctype \in Arrays /\ pf.ptype = "ENUM" ->
                   c = [k \in DOMAIN vs |-> Pair(vs[k].id)]
              [] pf.ctype \in Arrays /\ pf.ptype \notin Texts \cup {"MESSAGE", "ENUM"} ->
                   c = vs
              [] OTHER ->
                   c = IF vs = <<>> THEN Default(pf)
                       ELSE CASE pf.ptype \in Texts -> Cut(vs[1])
                              [] pf.ptype = "ENUM" -> Held(pf.ctype, Pair(vs[1].id))
                              [] OTHER -> Held(pf.ctype, vs[1])

(* Packing fails only for want of room, never writes more than the caller   *)
(* gave, and says how much is left. The fields of packed fixed numbers ask  *)
(* for the length of their header twice (pattern.c:639).                    *)
PackFits ==
  packer # NULL =>
    LET all == pbc_pattern_pack(packer.pat, packer.in, 2 * W).out
        fixed == \E j \in DOMAIN packer.pat :
                   packer.pat[j].ctype = "PACKED" /\ packer.pat[j].ptype \notin Varints
    IN IF packer.ret < 0
       THEN Len(all) + (IF fixed THEN MaxBytes ELSE 0) > packer.room
       ELSE wire = all /\ packer.ret = packer.room - Len(all) /\ packer.ret >= 0
=============================================================================

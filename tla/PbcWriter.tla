----------------------------- MODULE PbcWriter -------------------------------
(* Writing a message (wmessage.c): a pbc_wmessage is                        *)
(*   type, buf (what is written), cap (the size of its buffer), sub (the    *)
(*   messages in it: an index and a field each) and packed (a map_sp from   *)
(*   the names of packed fields to [id, ptype, data]).                      *)
(* Two ghost components record what the properties are about: over, that    *)
(* something was written past the end of the buffer, and ends, the offsets  *)
(* at which a field is complete.                                            *)
EXTENDS PbcSchema

CONSTANTS WMESSAGE_SIZE   \* the size of a new buffer: 64

_wmessage_new(type) ==
  [type |-> type, buf |-> <<>>, cap |-> WMESSAGE_SIZE, sub |-> <<>>,
   packed |-> NULL, over |-> FALSE, ends |-> {0}]

(* Mutant: what is written already does not count. *)
_expand_message_blind(m, sz) ==
  IF sz > m.cap THEN [m EXCEPT !.cap = Doubled(@, sz)] ELSE m

_expand_message(m, sz) ==
  IF Len(m.buf) + sz > m.cap
  THEN [m EXCEPT !.cap = Doubled(@, Len(m.buf) + sz)] ELSE m

(* bytes written at the end. *)
Written(m, bytes) ==
  [m EXCEPT !.buf = @ \o bytes,
            !.over = @ \/ Len(m.buf) + Len(bytes) > m.cap]

Ended(m) == [m EXCEPT !.ends = @ \cup {Len(m.buf)}]

Key(id, wiretype) == _pbcV_encode32(id * 8 + wiretype)

(* A number as field type ptype has it on the wire. *)
Encoded(ptype, v) ==
  CASE ptype \in Varint64 -> _pbcV_encode(Unsigned(v))
    [] ptype \in Varint32 -> _pbcV_encode32(v.low)
    [] ptype = "SINT32" -> _pbcV_zigzag32(v.low)
    [] ptype = "SINT64" -> _pbcV_zigzag(v)
    [] ptype \in Bit64 -> int64_encode(v)
    [] ptype \in Bit32 -> int32_encode(v.low)

-----------------------------------------------------------------------------
(* Packed fields are collected in a table. *)

_get_packed(m, f) ==
  LET old == IF m.packed = NULL THEN sp_new(4) ELSE m.packed
      t == sp_query_insert(old, f.name)
  IN IF sp_query(t, f.name) # NULL THEN t
     ELSE sp_write(t, f.name, [id |-> f.id, ptype |-> f.type, data |-> <<>>])

_packed_integer(m, f, v) ==
  LET t == _get_packed(m, f)
      p == sp_query(t, f.name)
  IN [m EXCEPT !.packed = sp_write(t, f.name, [p EXCEPT !.data = Append(@, v)])]

-----------------------------------------------------------------------------
(* The calls that write one value of field f. *)

IsDefault(f, v) ==
  /\ f.label = "OPTIONAL"
  /\ IF f.type = "ENUM" THEN v.low = f.default_v.id ELSE v = f.default_v

pbc_wmessage_integer(m, f, v) ==
  IF f.label = "PACKED" THEN _packed_integer(m, f, v)
  ELSE IF IsDefault(f, v) THEN m
  ELSE Ended(Written(_expand_message(m, 2 * MaxBytes),
                     Key(f.id, WireTypeOf(f.type)) \o Encoded(f.type, v)))

pbc_wmessage_real(m, f, v) ==
  IF f.label = "PACKED" THEN _packed_integer(m, f, v)
  ELSE IF f.label = "OPTIONAL" /\ v = f.default_v THEN m
  ELSE Ended(Written(_expand_message(m, MaxBytes + 2 * FixedBytes),
                     Key(f.id, WireTypeOf(f.type))
                       \o Encoded(f.type,
                                  IF f.type = "FLOAT" THEN ToFloat(v) ELSE v)))

(* The bytes the caller means: v is a C string without its '\0'; a len of 0 *)
(* or less asks for strlen(v) and -len bytes more, the '\0' first.          *)
Text(v, len) ==
  IF len <= 0 THEN v \o [i \in 1..(-len) |-> 0] ELSE SubSeq(v, 1, len)

TextIsDefault(f, v, text) ==
  /\ f.label = "OPTIONAL"
  /\ \/ f.type = "STRING" /\ Len(text) = Len(f.default_v) /\ v = f.default_v
     \/ f.type = "BYTES" /\ text = <<>>

WriteText(m, f, v, len) ==
  LET text == Text(v, len)
      header == Written(_expand_message(m, 2 * MaxBytes),
                        Key(f.id, WT_LEND) \o _pbcV_encode32(Len(text)))
  IN IF f.label = "PACKED" \/ TextIsDefault(f, v, text) THEN m
     ELSE Ended(Written(_expand_message(header, Len(text)), text))

(* An enum by its name; nothing is written for a name it does not have.    *)
WriteEnumName(m, f, name) ==
  LET id == si_query(EnumName[f.type_name], name)
      room == _expand_message(m, 2 * MaxBytes)
  IN CASE f.label = "PACKED" ->
            IF id = NULL THEN m ELSE _packed_integer(m, f, Pair(id))
       [] f.label = "OPTIONAL" /\ name = f.default_v.name -> m
       [] OTHER ->
            IF id = NULL THEN room
            ELSE Ended(Written(room, Key(f.id, WT_VARINT) \o _pbcV_encode32(id)))

(* A message in message i of ms: its index is that of the new message. *)
pbc_wmessage_message(ms, i, f) ==
  Append([ms EXCEPT ![i].sub = Append(@, [m |-> Len(ms) + 1, f |-> f])],
         _wmessage_new(f.type_name))

-----------------------------------------------------------------------------
(* The end of writing: packed fields, then the messages in the message.     *)

(* Packed numbers, each `stride` bytes after the one before it, of which    *)
(* len bytes count; what is not written there is taken for 0.               *)
AtStride(p, stride, len) ==
  [k \in 1..len |->
     LET i == ((k - 1) \div stride) + 1
         at == ((k - 1) % stride) + 1
         e == Encoded(p.ptype, p.data[i])
     IN IF i \in DOMAIN p.data /\ at \in DOMAIN e THEN e[at] ELSE 0]

PackFixed(m, p, width) ==
  LET len == Len(p.data) * width
      stride == 2 * FixedBytes
      w == Written(_expand_message(m, MaxBytes + len), _pbcV_encode32(len))
      past == Len(w.buf) + (Len(p.data) - 1) * stride + width > w.cap
  IN [Written(w, AtStride(p, stride, len)) EXCEPT !.over = @ \/ past]

_pack_packed_64(m, p) == PackFixed(m, p, 2 * FixedBytes)

(* The stride is that of eight bytes here too. *)
_pack_packed_32(m, p) == PackFixed(m, p, FixedBytes)

(* Mutant: the numbers are not moved when their length takes another byte.  *)
Relocated_in_place(m, offset, old, new) ==
  [m EXCEPT !.buf = SubSeq(@, 1, offset) \o new
                      \o SubSeq(@, offset + Len(new) + 1, Len(@))]

(* What follows the first `offset` bytes, a header of old bytes and then    *)
(* the numbers, with the header new.                                        *)
Relocated(m, offset, old, new) ==
  LET e == IF Len(new) = old THEN m ELSE _expand_message(m, Len(new))
  IN [e EXCEPT !.buf = SubSeq(@, 1, offset) \o new
                         \o SubSeq(@, offset + old + 1, Len(@)),
               !.over = @ \/ Len(m.buf) + Len(new) - old > e.cap]

_pack_packed_varint(m, p) ==
  LET n == Len(p.data)
      offset == Len(m.buf)
      guess == IF p.ptype = "BOOL" THEN n ELSE 2 * n
      header == _pbcV_encode32(guess)
      narrow(v) == IF p.ptype = "INT32" THEN [low |-> v.low, hi |-> 0] ELSE v
      all == FoldLeft(LAMBDA r, v : Written(_expand_message(r, MaxBytes),
                                            Encoded(p.ptype, narrow(v))),
                      Written(_expand_message(m, MaxBytes + guess), header),
                      p.data)
      len == Len(all.buf) - offset - Len(header)
  IN IF len = guess THEN all
     ELSE Relocated(all, offset, Len(header), _pbcV_encode32(len))

_pack_packed(m, p) ==
  LET k == Written(_expand_message(m, MaxBytes), Key(p.id, WT_LEND))
  IN Ended(CASE p.ptype \in Bit64 -> _pack_packed_64(k, p)
             [] p.ptype \in Bit32 -> _pack_packed_32(k, p)
             [] OTHER -> _pack_packed_varint(k, p))

(* pbc_wmessage_buffer of message i of ms. *)
RECURSIVE pbc_wmessage_buffer(_, _)
pbc_wmessage_buffer(ms, i) ==
  LET Packed == IF ms[i].packed = NULL THEN ms[i]
                ELSE FoldLeft(_pack_packed, ms[i], sp_foreach(ms[i].packed))
      Sub(m, s) ==
        LET b == pbc_wmessage_buffer(ms, s.m)
            e == _expand_message(m, 2 * MaxBytes + Len(b.buf))
            w == Written(e, Key(s.f.id, WT_LEND)
                              \o _pbcV_encode32(Len(b.buf)) \o b.buf)
        IN Ended([w EXCEPT !.over = @ \/ b.over])
  IN FoldLeft(Sub, Packed, ms[i].sub)
=============================================================================

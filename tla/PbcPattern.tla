----------------------------- MODULE PbcPattern ------------------------------
(* Patterns (pattern.c): packing a C struct into a buffer of the caller and *)
(* unpacking it. A pattern is a sequence of fields ordered by id; the       *)
(* offset of a field in the struct is its key. A struct maps keys to what   *)
(* the C types hold: a number from 0 on for integers and bool, [low, hi]    *)
(* for double and float, [buffer, len] for a slice, a sequence of values    *)
(* for an array.                                                            *)
EXTENDS PbcWriter, PbcReader

CONSTANTS EnumPadding   \* the bytes between an enum's id and its name

(* Bits of the integers of C. *)
Bits(ctype) ==
  CASE ctype = "INT8" -> Word \div 4
    [] ctype = "INT16" -> Word \div 2
    [] ctype = "INT32" -> Word
    [] ctype = "INT64" -> 2 * Word

CInts == {"INT8", "INT16", "INT32", "INT64"}
Arrays == {"ARRAY", "PACKED"}

-----------------------------------------------------------------------------
(* pbc_pattern_new: a format is a sequence of [key, ctype]. *)

_check_ctype(f, ctype) ==
  CASE f.label = "REPEATED" -> ctype = "ARRAY"
    [] f.label = "PACKED" -> ctype = "PACKED"
    [] ~IsArray(f) /\ f.type \in Texts \cup {"MESSAGE"} -> ctype = "VAR"
    [] ~IsArray(f) /\ f.type \in Reals -> ctype \in {"DOUBLE", "FLOAT"}
    [] ~IsArray(f) /\ f.type = "ENUM" -> ctype \in CInts
    [] OTHER -> ctype \in CInts \cup {"BOOL"}

PatternField(type, e) ==
  LET f == FieldByName(type, e.key)
      packed == e.ctype = "ARRAY" /\ f.label = "PACKED"
  IN [id |-> f.id, key |-> e.key, ptype |-> f.type, label |-> f.label,
      defv |-> f.default_v,
      ctype |-> IF packed THEN "PACKED" ELSE e.ctype]

(* Mutant: the fields stay in the order of the format. *)
pbc_pattern_new_unsorted(type, format) ==
  LET fields == [i \in DOMAIN format |-> PatternField(type, format[i])]
      known == \A i \in DOMAIN format : FieldByName(type, format[i].key) # NULL
      fit == \A i \in DOMAIN format :
               _check_ctype(FieldByName(type, format[i].key), fields[i].ctype)
  IN IF known /\ fit THEN fields ELSE NULL

(* NULL if a field does not exist or does not go with its C type. *)
pbc_pattern_new(type, format) ==
  LET fields == [i \in DOMAIN format |-> PatternField(type, format[i])]
      known == \A i \in DOMAIN format : FieldByName(type, format[i].key) # NULL
      fit == \A i \in DOMAIN format :
               _check_ctype(FieldByName(type, format[i].key), fields[i].ctype)
  IN IF known /\ fit THEN SortSeq(fields, LAMBDA f, g : f.id < g.id) ELSE NULL

-----------------------------------------------------------------------------
(* What the C types hold of a value. *)

Held(ctype, v) ==
  CASE ctype = "BOOL" -> IF v.low # 0 THEN 1 ELSE 0
    [] ctype = "INT64" -> Unsigned(v)
    [] ctype \in CInts \ {"INT64"} -> v.low % 2 ^ Bits(ctype)
    [] ctype = "FLOAT" -> ToFloat(v)
    [] OTHER -> v

Cut(b) == [buffer |-> b, len |-> Len(b)]

(* The union of an enum taken for a number: its id is the low word. *)
RawEnum(e) == [low |-> e.id % W, hi |-> EnumPadding]

(* The default of an enum is set twice, the second time from the union.     *)
Default(pf) ==
  CASE pf.ctype \in Arrays -> <<>>
    [] pf.ptype = "ENUM" -> Held(pf.ctype, RawEnum(pf.defv))
    [] pf.ptype \in Texts -> Cut(pf.defv)
    [] OTHER -> Held(pf.ctype, pf.defv)

pbc_pattern_set_default(pat) ==
  [k \in {pat[i].key : i \in DOMAIN pat} |->
     Default(pat[CHOOSE i \in DOMAIN pat : pat[i].key = k])]

(* Of an INT16 only the low byte is written; the other stays as it was.     *)
write_longlong(ctype, v, old) ==
  LET byte == 2 ^ Bits("INT8")
  IN IF ctype = "INT16" THEN (old \div byte) * byte + (v.low % byte)
     ELSE Held(ctype, v)

-----------------------------------------------------------------------------
(* Unpacking. *)

(* The index of the field with the given id; 0 if there is none. *)
bsearch_pattern(pat, id) ==
  LET In[begin, end \in 1..(Len(pat) + 1)] ==
        LET mid == (begin + end) \div 2
        IN IF begin >= end THEN 0
           ELSE IF id = pat[mid].id THEN mid
           ELSE IF id < pat[mid].id THEN In[begin, mid] ELSE In[mid + 1, end]
  IN In[1, Len(pat) + 1]

(* The value of an atom as C type ctype; NULL if it is refused. A scalar    *)
(* SINT64 is asked to be a span of bytes.                                   *)
unpack_value(ctype, ptype, b, a, old) ==
  LET spans == Wiretype(a) = WT_LEND IN
  CASE ptype \in Reals -> Held(ctype, Number(ptype, a.v))
    [] ptype = "SINT64" ->
         IF spans THEN write_longlong(ctype, Number(ptype, a.v), old) ELSE NULL
    [] ptype \in (Numbers \cup {"ENUM"}) \ {"SINT64"} ->
         write_longlong(ctype, Number(ptype, a.v), old)
    [] OTHER -> IF spans THEN Cut(Slice(b, a)) ELSE NULL

unpack_field(pf, b, a, old) ==
  CASE pf.ctype = "ARRAY" ->
         LET v == unpack_value("VAR", pf.ptype, b, a, old)
         IN IF v = NULL THEN NULL ELSE Append(old, v)
    [] pf.ctype = "PACKED" ->
         LET u == _pbcP_unpack_packed(Slice(b, a), pf.ptype)
         IN IF u.n < 0 THEN NULL ELSE old \o u.data
    [] OTHER -> unpack_value(pf.ctype, pf.ptype, b, a, old)

(* An atom of field i of pat becomes v. *)
Unpacked(pat, r, i, v) ==
  IF v = NULL THEN [r EXCEPT !.ret = -r.at - 1]
  ELSE [at |-> r.at + 1, ret |-> 0, seen |-> r.seen \cup {i},
        out |-> [r.out EXCEPT ![pat[i].key] = v]]

UnpackAtom(pat, b, r, a, i) ==
  IF i = 0 THEN [r EXCEPT !.at = @ + 1]
  ELSE Unpacked(pat, r, i,
                unpack_field(pat[i], b, a,
                             IF pat[i].ctype \in Arrays /\ i \notin r.seen THEN <<>>
                             ELSE r.out[pat[i].key]))

(* The fields that had no atom get their defaults. *)
WithDefaults(pat, r) ==
  LET defaults == pbc_pattern_set_default(pat)
      unseen == {pat[i].key : i \in DOMAIN pat \ r.seen}
  IN IF r.ret < 0 THEN r
     ELSE [r EXCEPT !.out = [k \in DOMAIN @ |-> IF k \in unseen THEN defaults[k] ELSE @[k]]]

(* Into the struct `out`, which is filled with zeros before. *)
pbc_pattern_unpack(pat, b, tail, out) ==
  LET Step(r, a) == IF r.ret < 0 THEN r
                    ELSE UnpackAtom(pat, b, r, a, bsearch_pattern(pat, Id(a)))
      begin == [at |-> 0, ret |-> 0, seen |-> {}, out |-> out]
      Atoms(ctx) == IF ctx.count <= 0 THEN [begin EXCEPT !.ret = ctx.count - 1]
                    ELSE WithDefaults(pat, FoldLeft(Step, begin, ctx.a))
  IN IF b = <<>> THEN WithDefaults(pat, begin) ELSE Atoms(_pbcC_open(b, tail))

-----------------------------------------------------------------------------
(* Packing, into a slice: what is written, the bytes that are left, and -1  *)
(* once something did not fit.                                              *)

Put(s, bytes) ==
  IF s.ret < 0 \/ Len(bytes) > s.room THEN [s EXCEPT !.ret = -1]
  ELSE [s EXCEPT !.out = @ \o bytes, !.room = @ - Len(bytes)]

(* The number in a C variable. *)
Loaded(ctype, in) ==
  IF ctype \in CInts \cup {"BOOL"} THEN Pair(in) ELSE in

_pack_number(s, ptype, ctype, in) ==
  LET v == Loaded(ctype, in)
  IN Put(s, Encoded(ptype, IF ptype = "FLOAT" THEN ToFloat(v) ELSE v))

(* The bytes of a slice; a negative len asks for strlen and more. *)
SliceBytes(ptype, in) ==
  IF ptype = "STRING" /\ in.len < 0
  THEN in.buffer \o [i \in 1..(-in.len) |-> 0] ELSE SubSeq(in.buffer, 1, in.len)

_pack_field(s, pf, ctype, in) ==
  LET k == Put(s, Key(pf.id, WireTypeOf(pf.ptype)))
      b == SliceBytes(pf.ptype, in)
  IN IF WireTypeOf(pf.ptype) # WT_LEND
     THEN _pack_number(k, pf.ptype, ctype, in)
     ELSE Put(Put(k, _pbcV_encode32(Len(b))), b)

_pack_repeated(s, pf, array) ==
  FoldLeft(LAMBDA r, v : _pack_field(r, pf, "VAR", v), s, array)

(* The length of the header is asked for twice. *)
PackPackedFixed(s, pf, width, array) ==
  LET header == _pbcV_encode32(Len(array) * width)
      h == Put(s, header)
  IN IF h.room - Len(header) < Len(array) * width THEN [s EXCEPT !.ret = -1]
     ELSE FoldLeft(LAMBDA r, v : _pack_number(r, pf.ptype, "VAR", v), h, array)

(* Mutant: a header that is moved is not taken off the room. *)
PackPackedVarint_header_free(s, pf, array) ==
  LET estimate == _pbcV_encode32(Len(array))
      all == FoldLeft(LAMBDA r, v : _pack_number(r, pf.ptype, "VAR", v),
                      Put(s, estimate), array)
      data == SubSeq(all.out, Len(s.out) + Len(estimate) + 1, Len(all.out))
      header == _pbcV_encode32(Len(data))
  IN IF all.ret < 0 THEN all
     ELSE IF Len(header) = Len(estimate) THEN Put(s, header \o data)
     ELSE [s EXCEPT !.out = @ \o header \o data, !.room = @ - Len(data)]

PackPackedVarint(s, pf, array) ==
  LET estimate == _pbcV_encode32(Len(array))
      all == FoldLeft(LAMBDA r, v : _pack_number(r, pf.ptype, "VAR", v),
                      Put(s, estimate), array)
      data == SubSeq(all.out, Len(s.out) + Len(estimate) + 1, Len(all.out))
  IN IF all.ret < 0 THEN all
     ELSE Put(s, _pbcV_encode32(Len(data)) \o data)

PackPacked(s, pf, array) ==
  LET k == Put(s, Key(pf.id, WT_LEND))
  IN IF array = <<>> THEN s
     ELSE IF k.ret < 0 THEN k
     ELSE CASE pf.ptype \in Bit64 -> PackPackedFixed(k, pf, 2 * FixedBytes, array)
            [] pf.ptype \in Bit32 -> PackPackedFixed(k, pf, FixedBytes, array)
            [] OTHER -> PackPackedVarint(k, pf, array)

_is_default(pf, in) ==
  CASE pf.ptype = "STRING" ->
         IF in.buffer = NULL THEN pf.defv = <<>>
         ELSE IF in.len <= 0 THEN in.buffer = pf.defv
         ELSE in.len = Len(pf.defv) /\ SubSeq(in.buffer, 1, in.len) = pf.defv
    [] pf.ptype = "BYTES" -> in.buffer = NULL
    [] pf.ptype = "MESSAGE" -> FALSE
    [] OTHER -> in = Default(pf)

(* What is written of a struct, and the bytes left over or -1. *)
pbc_pattern_pack(pat, in, room) ==
  LET Step(s, pf) ==
        LET v == in[pf.key]
        IN CASE s.ret < 0 -> s
             [] s.ret >= 0 /\ pf.label = "OPTIONAL" ->
                  IF _is_default(pf, v) THEN s ELSE _pack_field(s, pf, pf.ctype, v)
             [] s.ret >= 0 /\ pf.label = "REQUIRED" -> _pack_field(s, pf, pf.ctype, v)
             [] s.ret >= 0 /\ pf.label = "REPEATED" -> _pack_repeated(s, pf, v)
             [] s.ret >= 0 /\ pf.label = "PACKED" -> PackPacked(s, pf, v)
      all == FoldLeft(Step, [out |-> <<>>, room |-> room, ret |-> 0], pat)
  IN [out |-> all.out, ret |-> IF all.ret < 0 THEN all.ret ELSE all.room]
=============================================================================

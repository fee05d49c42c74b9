----------------------------- MODULE PbcSchema -------------------------------
(* The message types the other modules of pbc read and write: what a        *)
(* registered environment holds (proto.c, proto.h). A value in memory (a    *)
(* pbc_var) is [low, hi] for numbers, [id, name] for enums and the bytes of *)
(* a string or of bytes; a float or a double is its bit pattern.            *)
EXTENDS PbcBytes

CONSTANTS
  Schema,  \* message type -> its fields: sequences of
           \* [id, name, type, label, default_v, type_name]
  Enums    \* enum type -> the sequence of its [id, pointer], pointer a name

(* The field types, by how they are written. *)
Varint64 == {"INT64", "UINT64", "INT32"}
Varint32 == {"UINT32", "ENUM", "BOOL"}
Zigzags == {"SINT32", "SINT64"}
Varints == Varint64 \cup Varint32 \cup Zigzags
Bit64 == {"FIXED64", "SFIXED64", "DOUBLE"}
Bit32 == {"FIXED32", "SFIXED32", "FLOAT"}
Reals == {"DOUBLE", "FLOAT"}
Texts == {"STRING", "BYTES"}
Numbers == (Varints \cup Bit64 \cup Bit32) \ (Reals \cup {"ENUM"})
OneWord == {"INT32", "UINT32", "BOOL"} \cup Bit32   \* no high word

WireTypeOf(ptype) ==
  CASE ptype \in Varints -> WT_VARINT
    [] ptype \in Bit64 -> WT_BIT64
    [] ptype \in Bit32 -> WT_BIT32
    [] OTHER -> WT_LEND

IsArray(f) == f.label \in {"REPEATED", "PACKED"}

FieldsOf(type) == ToSet(Schema[type])

(* The maps of a type and of an enum. *)
FieldByName(type, key) ==
  LET named == {f \in FieldsOf(type) : f.name = key}
  IN IF named = {} THEN NULL ELSE CHOOSE f \in named : TRUE

IdMap ==
  [t \in DOMAIN Schema |->
     ip_new([i \in DOMAIN Schema[t] |->
               [id |-> Schema[t][i].id, pointer |-> Schema[t][i]]])]
EnumId == [e \in DOMAIN Enums |-> ip_new(Enums[e])]
EnumName == [e \in DOMAIN Enums |-> si_new(Enums[e])]

FieldById(type, id) == ip_query(IdMap[type], id)

EnumOf(f, id) == [id |-> id, name |-> ip_query(EnumId[f.type_name], id)]

(* What a key that has no value reads as. *)
_pbcP_message_default(type, key) == FieldByName(type, key).default_v

(* The type a decoder or an iteration is told; "ENUM" and "MESSAGE" come    *)
(* with the name of their type.                                             *)
_pbcP_type(f) ==
  [type |-> CASE f.type \in Reals -> "REAL"
              [] f.type \in {"INT64", "SINT64"} -> "INT64"
              [] f.type \in {"INT32", "SINT32"} -> "INT"
              [] f.type \in {"UINT32", "UINT64"} -> "UINT"
              [] f.type \in {"FIXED32", "SFIXED32"} -> "FIXED32"
              [] f.type \in {"FIXED64", "SFIXED64"} -> "FIXED64"
              [] OTHER -> f.type,
   repeated |-> IsArray(f),
   type_name |-> f.type_name]

(* float_encode and read_float: a number loses what one word cannot hold.   *)
ToFloat(v) == [low |-> v.low, hi |-> 0]
=============================================================================

----------------------------- MODULE MCPbcWire -------------------------------
(* PbcWire with words of 8 bits, bytes of 4 and small message types.        *)
EXTENDS PbcWire

F(id, name, type, label, default, of) ==
  [id |-> id, name |-> name, type |-> type, label |-> label,
   default_v |-> default, type_name |-> of]
N(low, hi) == [low |-> low, hi |-> hi]
E(i) == EnumOf([type_name |-> "Color"], i)

MCSchema ==
  [Ints |-> <<F(1, "i", "INT32", "OPTIONAL", N(255, 255), NULL),
              F(15, "z", "SINT64", "REPEATED", N(0, 0), NULL),
              F(2, "u", "UINT64", "REQUIRED", N(0, 0), NULL)>>,
   IntsOld |-> <<F(1, "i", "INT32", "OPTIONAL", N(255, 255), NULL),
                 F(3, "x", "SINT32", "OPTIONAL", N(4, 0), NULL)>>,
   Packs |-> <<F(1, "p", "UINT32", "PACKED", N(0, 0), NULL),
               F(2, "q", "SINT64", "PACKED", N(0, 0), NULL)>>,
   Fixed |-> <<F(1, "a", "FIXED32", "OPTIONAL", N(7, 0), NULL),
               F(2, "d", "DOUBLE", "PACKED", N(0, 0), NULL),
               F(15, "b", "SFIXED64", "REPEATED", N(0, 0), NULL)>>,
   Floats |-> <<F(1, "f", "FLOAT", "PACKED", N(0, 0), NULL)>>,
   Texts |-> <<F(1, "s", "STRING", "OPTIONAL", <<1>>, NULL),
               F(3, "y", "BYTES", "OPTIONAL", <<>>, NULL),
               F(2, "r", "STRING", "REPEATED", <<>>, NULL)>>,
   Enums |-> <<F(1, "e", "ENUM", "OPTIONAL", [id |-> 3, name |-> "green"], "Color"),
               F(2, "g", "ENUM", "PACKED", [id |-> 0, name |-> "red"], "Color"),
               F(3, "b", "BOOL", "PACKED", N(0, 0), NULL)>>,
   Tree |-> <<F(1, "one", "MESSAGE", "OPTIONAL", NULL, "Leaf"),
              F(2, "many", "MESSAGE", "REPEATED", NULL, "Leaf"),
              F(3, "x", "FLOAT", "OPTIONAL", N(5, 0), NULL)>>,
   Leaf |-> <<F(1, "v", "SINT32", "OPTIONAL", N(0, 0), NULL),
              F(2, "sub", "MESSAGE", "REPEATED", NULL, "Leaf")>>]

MCEnums == [Color |-> <<[id |-> 3, pointer |-> "green"], [id |-> 0, pointer |-> "red"]>>]

HashOf == [k \in {"i", "z", "u", "x", "p", "q", "a", "d", "b", "s", "y", "r", "e", "g",
                  "one", "many", "v", "sub", "f", "green", "red", "blue"} |->
             IF k \in {"i", "z", "x", "s", "r", "one", "a", "green"} THEN 48
             ELSE IF k \in {"p", "b", "y", "v"} THEN 3 ELSE 1]
MCHash(k) == HashOf[k]

MCRoots == {"Ints", "Packs", "Fixed", "Floats", "Texts", "Enums", "Tree"}

MCReadAs ==
  [t \in MCRoots |-> IF t = "Ints" THEN {"Ints", "IntsOld"} ELSE {t}]

MCNumbers ==
  [INT32 |-> {N(255, 255), N(9, 0)},
   SINT64 |-> {N(255, 255), N(0, 128)},
   UINT64 |-> {N(0, 0), N(0, 255)},
   UINT32 |-> {N(1, 0), N(255, 0)},
   SINT32 |-> {N(0, 0), N(63, 0)},
   FIXED32 |-> {N(7, 0), N(200, 0)},
   SFIXED64 |-> {N(1, 2)},
   DOUBLE |-> {N(3, 4), N(0, 0)},
   FLOAT |-> {N(5, 0), N(6, 1)},
   ENUM |-> {N(0, 0), N(3, 0)},
   BOOL |-> {N(0, 0), N(1, 0)}]

T(v, len) == [v |-> v, len |-> len]
Long == [i \in 1..9 |-> 2]
MCTexts == {T(<<>>, 0), T(<<1>>, 0), T(<<1>>, -1), T(Long, 9)}

C(key, ctype) == [key |-> key, ctype |-> ctype]
MCFormats ==
  [Ints |-> {<<C("u", "INT64"), C("i", "INT32")>>},
   Packs |-> {<<C("p", "ARRAY"), C("q", "ARRAY")>>},
   Fixed |-> {<<C("b", "ARRAY"), C("a", "INT32"), C("d", "ARRAY")>>},
   Floats |-> {<<C("f", "ARRAY")>>},
   Texts |-> {<<C("y", "VAR"), C("s", "VAR"), C("r", "ARRAY")>>},
   Enums |-> {<<C("g", "ARRAY"), C("e", "INT8"), C("b", "ARRAY")>>,
              <<C("e", "INT16")>>, <<C("e", "FLOAT")>>},
   Tree |-> {<<C("many", "ARRAY"), C("x", "FLOAT")>>}]

S(buffer, len) == [buffer |-> buffer, len |-> len]
Held_(pf) ==
  CASE pf.ctype \in Arrays /\ pf.ptype \in Numbers \cup Reals \cup {"ENUM"} ->
         {<<>>} \cup {<<v, w, v>> : v, w \in MCNumbers[pf.ptype]}
    [] pf.ctype \in Arrays /\ pf.ptype = "STRING" ->
         {<<>>, <<S(<<>>, 0), S(<<2>>, -1)>>}
    [] pf.ctype \in Arrays /\ pf.ptype = "MESSAGE" ->
         {<<>>}
    [] pf.ptype = "STRING" -> {S(<<>>, 0), S(<<1>>, 1), S(<<2>>, -1)}
    [] pf.ptype = "BYTES" -> {S(NULL, 0), S(Long, 9)}
    [] OTHER -> {Held(pf.ctype, v) : v \in MCNumbers[pf.ptype]}
MCStructs(pat) ==
  FoldLeft(LAMBDA structs, pf :
             {s @@ (pf.key :> c) : s \in structs, c \in Held_(pf)},
           {<<>>}, pat)

MCRooms == {4, 8, 13, 40}
MCTails == {Zeros, [i \in 1..MaxBytes |-> 2 * Marker - 1], [i \in 1..MaxBytes |-> 3]}
MCMaxWrites == [Ints |-> 4, Packs |-> 4, Fixed |-> 3, Floats |-> 6, Texts |-> 3,
                Enums |-> 3, Tree |-> 5]
=============================================================================

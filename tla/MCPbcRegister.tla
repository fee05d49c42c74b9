---------------------------- MODULE MCPbcRegister ----------------------------
(* PbcRegister with five files: one that others extend and use, one that    *)
(* nothing depends on, and one that imports the descriptor itself.          *)
EXTENDS PbcRegister

Field(number, name, type, label, type_name, default) ==
  [number |-> number, name |-> name, type |-> type, label |-> label, packed |-> FALSE,
   type_name |-> type_name, default_value |-> default]
Extend(extendee, f) == f @@ [extendee |-> extendee]
Message(name, field) ==
  [name |-> name, field |-> field, extension |-> <<>>, enum_type |-> <<>>,
   nested_type |-> <<>>]
V(id, name) == [id |-> id, pointer |-> <<name>>]

M == <<"p", "M">>
E == <<"p", "E">>
Color == [name |-> "Color", value |-> <<V(3, "green"), V(0, "red")>>]

Base ==
  [package |-> <<"p">>, dependency |-> <<>>, enum_type |-> <<Color>>, extension |-> <<>>,
   message_type |->
     <<[Message("M", <<Field(1, "id", "INT32", "OPTIONAL", NULL, -2),
                       Field(2, "color", "ENUM", "OPTIONAL", <<"p", "Color">>, <<"red">>),
                       Field(3, "in", "MESSAGE", "REPEATED", <<"p", "M", "In">>, NULL)>>)
          EXCEPT !.nested_type = <<Message("In", <<Field(9, "e", "MESSAGE", "OPTIONAL", E, NULL)>>)>>,
                 !.enum_type = <<[name |-> "Kind", value |-> <<V(-1, "odd")>>]>>],
       Message("E", <<>>)>>]

(* Extends both messages of Base, in turns. *)
Ext ==
  [package |-> <<"q">>, dependency |-> <<<<"base">>>>, enum_type |-> <<>>,
   extension |-> <<Extend(M, Field(20, "c", "ENUM", "OPTIONAL", <<"p", "Color">>, NULL)),
                   Extend(E, Field(1, "s", "STRING", "OPTIONAL", NULL, <<7>>)),
                   Extend(M, Field(21, "w", "MESSAGE", "OPTIONAL", <<"q", "W">>, NULL)),
                   Extend(E, Field(2, "k", "ENUM", "OPTIONAL", <<"p", "M", "Kind">>, <<"odd">>))>>,
   message_type |-> <<Message("W", <<Field(1, "w", "MESSAGE", "REPEATED", <<"q", "W">>, NULL)>>)>>]

User ==
  [package |-> <<"q">>, dependency |-> <<<<"ext">>, <<"base">>>>, enum_type |-> <<>>,
   extension |-> <<>>,
   message_type |->
     <<[Message("U", <<Field(4, "m", "MESSAGE", "REQUIRED", M, NULL),
                       [Field(1, "n", "UINT32", "REPEATED", NULL, NULL) EXCEPT !.packed = TRUE]>>)
          EXCEPT !.extension = <<Extend(<<"q", "W">>, Field(2, "u", "MESSAGE", "OPTIONAL", <<"q", "U">>, NULL)),
                                 Extend(M, Field(5, "b", "BOOL", "OPTIONAL", NULL, "true"))>>]>>]

Lone ==
  [package |-> <<>>, dependency |-> <<>>, enum_type |-> <<>>, extension |-> <<>>,
   message_type |-> <<Message("L", <<Field(7, "z", "SINT64", "OPTIONAL", NULL, -3),
                                     Field(8, "f", "FIXED32", "OPTIONAL", NULL, 200)>>)>>]

Opts ==
  [package |-> <<>>, dependency |-> <<<<"base">>, <<"descriptor">>>>, enum_type |-> <<>>,
   extension |-> <<>>, message_type |-> <<Message("O", <<>>)>>]

MCFiles ==
  (<<"base">> :> Base) @@ (<<"ext">> :> Ext) @@ (<<"user">> :> User)
    @@ (<<"lone">> :> Lone) @@ (<<"opts">> :> Opts)

MCBootstrap ==
  [name |-> <<"descriptor">>,
   enum_type |-> <<[name |-> "Label", value |-> <<V(1, "optional"), V(2, "required")>>]>>,
   message_type |-> <<Message("F", <<Field(1, "name", "STRING", "OPTIONAL", NULL, <<>>),
                                     Field(4, "label", "ENUM", "OPTIONAL", <<"Label">>, <<"required">>),
                                     Field(3, "n", "INT32", "OPTIONAL", NULL, 0)>>)>>]

MCHash(k) ==
  IF k[Len(k)] \in {"M", "E", "id", "green", "base", "user", "u"} THEN 48
  ELSE IF k[Len(k)] \in {"color", "red", "W", "c", "ext"} THEN 3 ELSE Len(k)
=============================================================================

----------------------------- MODULE MCPbcStore ------------------------------
(* PbcStore on small instances. *)
EXTENDS PbcStore

(* Names whose hashes meet: in one slot for good, in one slot of a small    *)
(* table only, and next to each other.                                      *)
HashOf == "a" :> 8 @@ "b" :> 4 @@ "c" :> 8 @@ "d" :> 1 @@ "e" :> 5 
Names == DOMAIN HashOf
MCHash(k) == HashOf[k]
=============================================================================

---------------------------- MODULE StorePromise ----------------------------
(* What the containers of pbc promise: a table of names that answers with   *)
(* the pointer it was given, and a list that grows at its end.              *)
EXTENDS Naturals, Sequences

CONSTANTS Keys, Pointers, Values, NULL

VARIABLES dict, list

Init == dict = [k \in Keys |-> NULL] /\ list = <<>>

Enter(k) ==
  /\ UNCHANGED list
  /\ dict[k] = NULL /\ dict'[k] \in Pointers
  /\ dict' = [dict EXCEPT ![k] = dict'[k]]

Add(v) == UNCHANGED dict /\ list' = Append(list, v)

Next ==
  \/ \E k \in Keys : Enter(k)
  \/ \E v \in Values : Add(v)

PromiseSpec == Init /\ [][Next]_<<dict, list>>
=============================================================================

--------------------------- MODULE RegisterPromise ---------------------------
(* What pbc_register promises: of the files it is given it registers those  *)
(* whose dependencies are registered, now or before, however they are       *)
(* ordered, and it fails if one is left.                                    *)
CONSTANTS
  Dependencies,  \* file -> the files it depends on
  Unanswered     \* no call has been answered since the last one began

VARIABLES
  registered,  \* the files of the environment
  asked,       \* the files of the call under way; {} if there is none
  answer       \* what the last call returned

vars == <<registered, asked, answer>>

Init ==
  /\ registered = {}
  /\ asked = {}
  /\ answer = Unanswered

Ready(f) == Dependencies[f] \subseteq registered

Begin ==
  /\ asked = {}
  /\ asked' \in SUBSET DOMAIN Dependencies
  /\ answer' = IF asked' = {} THEN 1 ELSE Unanswered
  /\ UNCHANGED registered

Take(f) ==
  /\ Ready(f)
  /\ registered' = registered \cup {f}
  /\ UNCHANGED <<asked, answer>>

End ==
  /\ asked # {}
  /\ \A f \in asked \ registered : ~Ready(f)
  /\ answer' = IF asked \subseteq registered THEN 0 ELSE 1
  /\ asked' = {}
  /\ UNCHANGED registered

Next ==
  \/ Begin
  \/ \E f \in asked \ registered : Take(f)
  \/ End

(* Every call is answered at last. *)
Spec == Init /\ [][Next]_vars /\ (asked # {} ~> asked = {})
=============================================================================

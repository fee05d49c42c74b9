--------------------------- MODULE MCLoginSession ---------------------------
(* LoginSession on small instances. *)
EXTENDS LoginSession, TLC

CONSTANTS a1, a2, a3

(* Three, two logins or one of account 1. *)
OneUser  == (a1 :> 1 @@ a2 :> 1 @@ a3 :> 1)
TwoTries == (a1 :> 1 @@ a2 :> 1)
OneTry   == (a1 :> 1)

SameUser == Permutations({a1, a2, a3})
=============================================================================

--------------------------- MODULE SessionPromise ---------------------------
(***************************************************************************)
(* What login, gate and agent together promise, without any of them: an    *)
(* account has one session at most, on one hall; a session is opened once  *)
(* for the login that asked for it, never taken over by another one; and   *)
(* a client is told 200 only while its session is there.                   *)
(***************************************************************************)
CONSTANTS Halls, Attempts, UidOf

VARIABLES
  sessions,  \* the open sessions
  spent,     \* attempts whose session was opened, now or before
  answers    \* attempt -> what its client was told

promiseVars == <<sessions, spent, answers>>

PromiseInit ==
  /\ sessions = {} /\ spent = {}
  /\ answers = [a \in Attempts |-> "waiting"]

Open(a, h) ==
  /\ a \notin spent
  /\ \A s \in sessions : s.uid # UidOf[a]
  /\ sessions' = sessions \cup {[uid |-> UidOf[a], hall |-> h, secret |-> a]}
  /\ spent' = spent \cup {a}
  /\ UNCHANGED answers

Close(s) ==
  /\ sessions' = sessions \ {s}
  /\ UNCHANGED <<spent, answers>>

Grant(a) ==
  /\ answers[a] = "waiting"
  /\ \E s \in sessions : s.secret = a
  /\ answers' = [answers EXCEPT ![a] = "ok"]
  /\ UNCHANGED <<sessions, spent>>

Deny(a) ==
  /\ answers[a] = "waiting"
  /\ answers' = [answers EXCEPT ![a] = "denied"]
  /\ UNCHANGED <<sessions, spent>>

PromiseNext ==
  \/ \E a \in Attempts : Grant(a) \/ Deny(a) \/ \E h \in Halls : Open(a, h)
  \/ \E s \in sessions : Close(s)

PromiseSpec == PromiseInit /\ [][PromiseNext]_promiseVars
=============================================================================

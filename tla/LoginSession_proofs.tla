------------------------ MODULE LoginSession_proofs ------------------------
(***************************************************************************)
(* Machine-checked proofs about LoginSession, for any accounts, halls,     *)
(* attempts and numbers of faults.                                         *)
(*                                                                         *)
(* HallTablesAgree and NoDeadAgent are not inductive: a kick is on its way *)
(* for several steps, and what it will do when it arrives depends on what  *)
(* it may still meet.  IndInv adds what is known of every call in flight.  *)
(***************************************************************************)
EXTENDS LoginSession, FiniteSetTheorems, TLAPS

-----------------------------------------------------------------------------
(* The inductive invariant.                                                *)

(* What has happened at the hall, by where the attempt stands at login. *)
CallsFollow(a) ==
  /\ pc[a] = "idle" => kst[a] = "none"
  /\ pc[a] \in {"idle", "kick", "kickBroken"} => lst[a] = "none"
  /\ pc[a] \in InHandler => ahall[a] \in Halls
  /\ lst[a] # "none" => ahall[a] \in Halls
  /\ kst[a] # "none" => last[a] \in Halls

CallsFollowAttempt == \A a \in Attempts : CallsFollow(a)

(* An agent runs while its login call waits for it, and a session belongs  *)
(* to a login that got that far.                                           *)
AgentRuns(a) == lst[a] = "starting" => agent[a] = "alive"

SessionHasAgent(h, u) ==
  LET x == users[h][u] IN
  x # None => /\ UidOf[x] = u /\ ahall[x] = h
              /\ lst[x] \in {"done", "error"}
              /\ agent[x] = "alive"

SessionsHaveAgents ==
  /\ \A a \in Attempts : AgentRuns(a)
  /\ \A h \in Halls, u \in Uids : SessionHasAgent(h, u)

(* A kick is aimed at an agent that had the session; once the gate has     *)
(* handled its logout, that agent does not have it any more.               *)
KickAimed(a) ==
  /\ kst[a] \in AgentStage =>
       /\ ktgt[a] \in Attempts
       /\ UidOf[ktgt[a]] = UidOf[a] /\ ahall[ktgt[a]] = last[a]
       /\ lst[ktgt[a]] \in {"done", "error"}
  /\ kst[a] \in {"notify", "exit"} => users[last[a]][UidOf[a]] # ktgt[a]

KicksAimed == \A a \in Attempts : KickAimed(a)

PingAimed == ppc \in {"call", "reply"} => pcur \in Halls

IndInv ==
  /\ TypeOK
  /\ LoginMutex
  /\ HallTablesAgree
  /\ CallsFollowAttempt
  /\ SessionsHaveAgents
  /\ KicksAimed
  /\ PingAimed

LEMMA SelectHall ==
  ASSUME LoginTypes, NEW u \in Uids
  PROVE  select_hall(u) \in Halls
<1> DEFINE n == Cardinality(Halls)
<1>1. n \in Nat /\ n > 0
  BY SessionAssumption, FS_CardinalityType, FS_EmptySet
<1>2. u \in Nat
  BY SessionAssumption
<1>3. u % n \in 0 .. n - 1
  BY <1>1, <1>2
<1> QED
  BY <1>3 DEF select_hall, LoginTypes

LEMMA TypeStep == IndInv /\ [Next]_vars => TypeOK'
<1> SUFFICES ASSUME IndInv, [Next]_vars PROVE TypeOK'
  OBVIOUS
<1> USE SessionAssumption DEF IndInv, TypeOK
<1>1. ASSUME NEW a \in Attempts, Accept(a) PROVE TypeOK'
  <2>1. AttemptTypes'
    <3>1. UidOf[a] \in Uids /\ select_hall(UidOf[a]) \in Halls
      BY SelectHall
    <3>2. user_online[UidOf[a]] # None => user_online[UidOf[a]].server \in Halls
      BY <3>1 DEF LoginTypes, Session
    <3> HIDE DEF select_hall
    <3> QED
      <4>1. pc' \in [Attempts -> {"idle"} \cup InHandler \cup Finished]
        BY <1>1 DEF Accept, AttemptTypes, InHandler, Finished
      <4>2. last' \in [Attempts -> Halls \cup {None}]
        BY <1>1, <3>2 DEF Accept, AttemptTypes
      <4>3. ahall' \in [Attempts -> Halls \cup {None}]
        BY <1>1, <3>1 DEF Accept, AttemptTypes
      <4>4. ap' \in [Attempts -> BOOLEAN]
        BY <1>1 DEF Accept, AttemptTypes
      <4> QED
        BY <4>1, <4>2, <4>3, <4>4 DEF AttemptTypes
  <2>2. LoginTypes'
    BY <1>1 DEF Accept, LoginTypes, loginVars
  <2>3. CallTypes'
    BY <1>1 DEF Accept, CallTypes, callVars, KickStage, AgentStage, LoginStage
  <2>4. PingTypes' /\ HallTypes' /\ FaultTypes'
    BY <1>1 DEF Accept, PingTypes, pingVars, HallTypes, hallVars, FaultTypes, faultVars
  <2> QED BY <2>1, <2>2, <2>3, <2>4
<1>2. ASSUME NEW a \in Attempts, KickReturn(a) PROVE TypeOK'
  <2>1. AttemptTypes'
    BY <1>2 DEF KickReturn, AfterKick, Finish, AttemptTypes, attemptVars, InHandler, Finished
  <2>2. LoginTypes'
    BY <1>2 DEF KickReturn, AfterKick, Finish, LoginTypes, loginVars
  <2>3. CallTypes'
    BY <1>2 DEF KickReturn, AfterKick, Finish, CallTypes, callVars, KickStage, AgentStage, LoginStage
  <2>4. PingTypes' /\ HallTypes' /\ FaultTypes'
    BY <1>2 DEF KickReturn, PingTypes, pingVars, HallTypes, hallVars, FaultTypes, faultVars
  <2> QED BY <2>1, <2>2, <2>3, <2>4
<1>3. ASSUME NEW a \in Attempts, KickFailed(a) PROVE TypeOK'
  <2>1. AttemptTypes'
    BY <1>3 DEF KickFailed, AfterKick, Finish, AttemptTypes, attemptVars, InHandler, Finished
  <2>2. LoginTypes'
    BY <1>3 DEF KickFailed, AfterKick, Finish, LoginTypes, loginVars
  <2>3. CallTypes'
    BY <1>3 DEF KickFailed, AfterKick, Finish, CallTypes, callVars, KickStage, AgentStage, LoginStage
  <2>4. PingTypes' /\ HallTypes' /\ FaultTypes'
    BY <1>3 DEF KickFailed, PingTypes, pingVars, HallTypes, hallVars, FaultTypes, faultVars
  <2> QED BY <2>1, <2>2, <2>3, <2>4
<1>4. ASSUME NEW a \in Attempts, LoginReturn(a) PROVE TypeOK'
  <2>1. AttemptTypes'
    BY <1>4 DEF LoginReturn, Finish, AttemptTypes, attemptVars, InHandler, Finished
  <2>2. LoginTypes'
    <3>1. [server |-> ahall[a], secret |-> a] \in Session
      BY <1>4 DEF LoginReturn, Session, CallsFollowAttempt, CallsFollow, InHandler
    <3>2. UidOf[a] \in Uids
      OBVIOUS
    <3> QED
      BY <1>4, <3>1, <3>2 DEF LoginReturn, Finish, LoginTypes
  <2>3. PingTypes' /\ CallTypes' /\ HallTypes' /\ FaultTypes'
    BY <1>4 DEF LoginReturn, PingTypes, pingVars, CallTypes, callVars, HallTypes, hallVars, FaultTypes, faultVars
  <2> QED BY <2>1, <2>2, <2>3
<1>5. ASSUME NEW a \in Attempts, LoginFailed(a) PROVE TypeOK'
  <2>1. AttemptTypes'
    BY <1>5 DEF LoginFailed, Finish, LoginRefused, AttemptTypes, attemptVars, InHandler, Finished
  <2>2. LoginTypes'
    BY <1>5 DEF LoginFailed, Finish, LoginRefused, LoginTypes, loginVars
  <2>3. PingTypes' /\ CallTypes' /\ HallTypes' /\ FaultTypes'
    BY <1>5 DEF LoginFailed, PingTypes, pingVars, CallTypes, callVars, HallTypes, hallVars, FaultTypes, faultVars
  <2> QED BY <2>1, <2>2, <2>3
<1>6. ASSUME NEW a \in Attempts, Logout(a) PROVE TypeOK'
  <2>1. LoginTypes'
    BY <1>6 DEF Logout, LoginTypes, loginVars
  <2>2. AttemptTypes' /\ PingTypes' /\ CallTypes' /\ HallTypes' /\ FaultTypes'
    BY <1>6 DEF Logout, AttemptTypes, attemptVars, PingTypes, pingVars, CallTypes, callVars, HallTypes, hallVars, FaultTypes, faultVars
  <2> QED BY <2>1, <2>2
<1>7. ASSUME NEW a \in Attempts, KickArrive(a) PROVE TypeOK'
  <2>1. LoginTypes'
    BY <1>7 DEF KickArrive, LoginTypes, loginVars
  <2>2. CallTypes'
    <3>1. UidOf[a] \in Uids /\ last[a] \in Halls
      BY <1>7 DEF KickArrive, CallsFollowAttempt, CallsFollow
    <3>2. users[last[a]][UidOf[a]] \in Attempts \cup {None}
      <4>1. users[last[a]] \in [Uids -> Attempts \cup {None}]
        BY <3>1 DEF HallTypes
      <4> QED
        BY <3>1, <4>1
    <3> QED
      BY <1>7, <3>2 DEF KickArrive, CallTypes, KickStage
  <2>3. AttemptTypes' /\ PingTypes' /\ HallTypes' /\ FaultTypes'
    BY <1>7 DEF KickArrive, AttemptTypes, attemptVars, PingTypes, pingVars, HallTypes, hallVars, FaultTypes, faultVars
  <2> QED BY <2>1, <2>2, <2>3
<1>8. ASSUME NEW a \in Attempts, AgentLogout(a) PROVE TypeOK'
  <2>1. CallTypes'
    BY <1>8 DEF AgentLogout, CallTypes, callVars, KickStage, AgentStage, LoginStage
  <2>2. AttemptTypes' /\ LoginTypes' /\ PingTypes' /\ HallTypes' /\ FaultTypes'
    BY <1>8 DEF AgentLogout, AttemptTypes, attemptVars, LoginTypes, loginVars, PingTypes, pingVars, HallTypes, hallVars, FaultTypes, faultVars
  <2> QED BY <2>1, <2>2
<1>9. ASSUME NEW a \in Attempts, GateLogout(a) PROVE TypeOK'
  <2>1. LoginTypes'
    BY <1>9 DEF GateLogout, Forget, LoginTypes, loginVars
  <2>2. CallTypes'
    BY <1>9 DEF GateLogout, Forget, CallTypes, callVars, KickStage, AgentStage, LoginStage
  <2>3. HallTypes'
    <3>1. UidOf[a] \in Uids /\ last[a] \in Halls
      BY <1>9 DEF GateLogout, CallsFollowAttempt, CallsFollow
    <3> QED
      <4>1. CASE UNCHANGED <<users, msg_online>>
        BY <1>9, <4>1 DEF GateLogout, HallTypes
      <4>2. CASE Forget(last[a], UidOf[a])
        <5>1. users' \in [Halls -> [Uids -> Attempts \cup {None}]]
          BY <4>2, <3>1 DEF Forget, HallTypes
        <5>2. msg_online' \in [Halls -> [Uids -> Attempts \cup {None}]]
          BY <4>2, <3>1 DEF Forget, HallTypes
        <5> QED
          BY <1>9, <5>1, <5>2 DEF GateLogout, HallTypes
      <4> QED
        BY <1>9, <4>1, <4>2 DEF GateLogout
  <2>4. AttemptTypes' /\ PingTypes' /\ FaultTypes'
    BY <1>9 DEF GateLogout, AttemptTypes, attemptVars, PingTypes, pingVars, FaultTypes, faultVars
  <2> QED BY <2>1, <2>2, <2>3, <2>4
<1>10. ASSUME NEW a \in Attempts, NotifyReturn(a) PROVE TypeOK'
  <2>1. CallTypes'
    BY <1>10 DEF NotifyReturn, AfterNotify, CallTypes, callVars, KickStage, AgentStage, LoginStage
  <2>2. AttemptTypes' /\ LoginTypes' /\ PingTypes' /\ HallTypes' /\ FaultTypes'
    BY <1>10 DEF NotifyReturn, AttemptTypes, attemptVars, LoginTypes, loginVars, PingTypes, pingVars, HallTypes, hallVars, FaultTypes, faultVars
  <2> QED BY <2>1, <2>2
<1>11. ASSUME NEW a \in Attempts, AgentExit(a) PROVE TypeOK'
  <2>1. CallTypes'
    BY <1>11 DEF AgentExit, CallTypes, callVars, KickStage, AgentStage, LoginStage
  <2>2. HallTypes'
    BY <1>11 DEF AgentExit, HallTypes, hallVars
  <2>3. AttemptTypes' /\ LoginTypes' /\ PingTypes' /\ FaultTypes'
    BY <1>11 DEF AgentExit, AttemptTypes, attemptVars, LoginTypes, loginVars, PingTypes, pingVars, FaultTypes, faultVars
  <2> QED BY <2>1, <2>2, <2>3
<1>12. ASSUME NEW a \in Attempts, LoginArrive(a) PROVE TypeOK'
  <2>1. CallTypes'
    BY <1>12 DEF LoginArrive, CallTypes, callVars, KickStage, AgentStage, LoginStage
  <2>2. HallTypes'
    BY <1>12 DEF LoginArrive, HallTypes, hallVars
  <2>3. AttemptTypes' /\ LoginTypes' /\ PingTypes' /\ FaultTypes'
    BY <1>12 DEF LoginArrive, AttemptTypes, attemptVars, LoginTypes, loginVars, PingTypes, pingVars, FaultTypes, faultVars
  <2> QED BY <2>1, <2>2, <2>3
<1>13. ASSUME NEW a \in Attempts, LoginReady(a) PROVE TypeOK'
  <2>1. CallTypes'
    BY <1>13 DEF LoginReady, CallTypes, callVars, KickStage, AgentStage, LoginStage
  <2>2. HallTypes'
    <3>1. UidOf[a] \in Uids /\ ahall[a] \in Halls
      BY <1>13 DEF LoginReady, CallsFollowAttempt, CallsFollow
    <3> QED
      <4>1. users' \in [Halls -> [Uids -> Attempts \cup {None}]]
        BY <1>13, <3>1 DEF LoginReady, HallTypes
      <4>2. CASE UNCHANGED msg_online
        BY <1>13, <4>1, <4>2 DEF LoginReady, HallTypes
      <4>3. CASE msg_online' = [msg_online EXCEPT ![ahall[a]][UidOf[a]] = a]
        <5>1. msg_online' \in [Halls -> [Uids -> Attempts \cup {None}]]
          BY <4>3, <3>1 DEF HallTypes
        <5> QED
          BY <1>13, <4>1, <5>1 DEF LoginReady, HallTypes
      <4> QED
        BY <1>13, <4>2, <4>3 DEF LoginReady
  <2>3. AttemptTypes' /\ LoginTypes' /\ PingTypes' /\ FaultTypes'
    BY <1>13 DEF LoginReady, AttemptTypes, attemptVars, LoginTypes, loginVars, PingTypes, pingVars, FaultTypes, faultVars
  <2> QED BY <2>1, <2>2, <2>3
<1>14. ASSUME NEW a \in Attempts, LoginAgentFail(a) PROVE TypeOK'
  <2>1. CallTypes'
    BY <1>14 DEF LoginAgentFail, CallTypes, callVars, KickStage, AgentStage, LoginStage
  <2>2. AttemptTypes' /\ LoginTypes' /\ PingTypes' /\ HallTypes' /\ FaultTypes'
    BY <1>14 DEF LoginAgentFail, AttemptTypes, attemptVars, LoginTypes, loginVars, PingTypes, pingVars, HallTypes, hallVars, FaultTypes, faultVars
  <2> QED BY <2>1, <2>2
<1>15. ASSUME Start PROVE TypeOK'
  <2>1. LoginTypes'
    BY <1>15 DEF Start, LoginTypes, loginVars
  <2>2. PingTypes'
    BY <1>15 DEF Start, PingTypes, pingVars
  <2>3. AttemptTypes' /\ CallTypes' /\ HallTypes' /\ FaultTypes'
    BY <1>15 DEF Start, AttemptTypes, attemptVars, CallTypes, callVars, HallTypes, hallVars, FaultTypes, faultVars
  <2> QED BY <2>1, <2>2, <2>3
<1>16. ASSUME NEW h \in Halls, PingCall(h) PROVE TypeOK'
  <2>1. PingTypes'
    BY <1>16 DEF PingCall, PingTypes, pingVars
  <2>2. AttemptTypes' /\ LoginTypes' /\ CallTypes' /\ HallTypes' /\ FaultTypes'
    BY <1>16 DEF PingCall, AttemptTypes, attemptVars, LoginTypes, loginVars, CallTypes, callVars, HallTypes, hallVars, FaultTypes, faultVars
  <2> QED BY <2>1, <2>2
<1>17. ASSUME PingHandle PROVE TypeOK'
  <2>1. PingTypes'
    BY <1>17 DEF PingHandle, PingTypes, HallTypes, PingAimed
  <2>2. AttemptTypes' /\ LoginTypes' /\ CallTypes' /\ HallTypes' /\ FaultTypes'
    BY <1>17 DEF PingHandle, AttemptTypes, attemptVars, LoginTypes, loginVars, CallTypes, callVars, HallTypes, hallVars, FaultTypes, faultVars
  <2> QED BY <2>1, <2>2
<1>18. ASSUME PingReturn PROVE TypeOK'
  <2>1. LoginTypes'
    <3>1. pcur \in Halls
      BY <1>18 DEF PingReturn, PingAimed
    <3>2. recover_login(pcur, snap) \in [Uids -> Session \cup {None}]
      BY <3>1 DEF recover_login, Session, LoginTypes, PingTypes
    <3> HIDE DEF recover_login
    <3> QED
      BY <1>18, <3>1, <3>2 DEF PingReturn, LoginTypes
  <2>2. PingTypes'
    BY <1>18 DEF PingReturn, recover_login, Nobody, PingTypes, pingVars
  <2>3. AttemptTypes' /\ CallTypes' /\ HallTypes' /\ FaultTypes'
    BY <1>18 DEF PingReturn, AttemptTypes, attemptVars, CallTypes, callVars, HallTypes, hallVars, FaultTypes, faultVars
  <2> QED BY <2>1, <2>2, <2>3
<1>19. ASSUME PingFailed PROVE TypeOK'
  <2>1. PingTypes'
    BY <1>19 DEF PingFailed, Nobody, PingTypes, pingVars
  <2>2. AttemptTypes' /\ LoginTypes' /\ CallTypes' /\ HallTypes' /\ FaultTypes'
    BY <1>19 DEF PingFailed, AttemptTypes, attemptVars, LoginTypes, loginVars, CallTypes, callVars, HallTypes, hallVars, FaultTypes, faultVars
  <2> QED BY <2>1, <2>2
<1>20. ASSUME NextRound PROVE TypeOK'
  <2>1. PingTypes'
    BY <1>20 DEF NextRound, PingTypes, pingVars
  <2>2. AttemptTypes' /\ LoginTypes' /\ CallTypes' /\ HallTypes' /\ FaultTypes'
    BY <1>20 DEF NextRound, AttemptTypes, attemptVars, LoginTypes, loginVars, CallTypes, callVars, HallTypes, hallVars, FaultTypes, faultVars
  <2> QED BY <2>1, <2>2
<1>21. ASSUME NEW h \in Halls, BreakLink(h) PROVE TypeOK'
  <2>1. AttemptTypes'
    BY <1>21 DEF BreakLink, Cut, CutPing, AttemptTypes, attemptVars, InHandler, Finished
  <2>2. PingTypes'
    BY <1>21 DEF BreakLink, Cut, CutPing, PingTypes, pingVars
  <2>3. CallTypes'
    BY <1>21 DEF BreakLink, Cut, CutPing, CallTypes, callVars, KickStage, AgentStage, LoginStage
  <2>4. FaultTypes'
    BY <1>21 DEF BreakLink, Cut, CutPing, FaultTypes, faultVars
  <2>5. LoginTypes' /\ HallTypes'
    BY <1>21 DEF BreakLink, LoginTypes, loginVars, HallTypes, hallVars
  <2> QED BY <2>1, <2>2, <2>3, <2>4, <2>5
<1>22. ASSUME NEW h \in Halls, HallRestart(h) PROVE TypeOK'
  <2>1. AttemptTypes'
    BY <1>22 DEF HallRestart, Cut, CutPing, Nobody, AttemptTypes, attemptVars, InHandler, Finished
  <2>2. PingTypes'
    BY <1>22 DEF HallRestart, Cut, CutPing, Nobody, PingTypes, pingVars
  <2>3. CallTypes'
    BY <1>22 DEF HallRestart, Cut, CutPing, Nobody, CallTypes, callVars, KickStage, AgentStage, LoginStage
  <2>4. HallTypes'
    BY <1>22 DEF HallRestart, Cut, CutPing, Nobody, HallTypes, hallVars
  <2>5. FaultTypes'
    BY <1>22 DEF HallRestart, Cut, CutPing, Nobody, FaultTypes, faultVars
  <2>6. LoginTypes'
    BY <1>22 DEF HallRestart, LoginTypes, loginVars
  <2> QED BY <2>1, <2>2, <2>3, <2>4, <2>5, <2>6
<1>23. ASSUME NEW a \in Attempts, NotifyBreak(a) PROVE TypeOK'
  <2>1. LoginTypes'
    BY <1>23 DEF NotifyBreak, AfterNotify, LoginTypes, loginVars
  <2>2. CallTypes'
    BY <1>23 DEF NotifyBreak, AfterNotify, CallTypes, callVars, KickStage, AgentStage, LoginStage
  <2>3. FaultTypes'
    BY <1>23 DEF NotifyBreak, AfterNotify, FaultTypes, faultVars
  <2>4. AttemptTypes' /\ PingTypes' /\ HallTypes'
    BY <1>23 DEF NotifyBreak, AttemptTypes, attemptVars, PingTypes, pingVars, HallTypes, hallVars
  <2> QED BY <2>1, <2>2, <2>3, <2>4
<1>24. ASSUME LoginRestart PROVE TypeOK'
  <2>1. AttemptTypes'
    BY <1>24 DEF LoginRestart, Orders, Bijection, Injection, Nobody, AttemptTypes, attemptVars, InHandler, Finished
  <2>2. LoginTypes'
    BY <1>24 DEF LoginRestart, Orders, Bijection, Injection, Nobody, LoginTypes, loginVars
  <2>3. PingTypes'
    BY <1>24 DEF LoginRestart, Orders, Bijection, Injection, Nobody, PingTypes, pingVars
  <2>4. FaultTypes'
    BY <1>24 DEF LoginRestart, Orders, Bijection, Injection, Nobody, FaultTypes, faultVars
  <2>5. CallTypes' /\ HallTypes'
    BY <1>24 DEF LoginRestart, CallTypes, callVars, HallTypes, hallVars
  <2> QED BY <2>1, <2>2, <2>3, <2>4, <2>5
<1>25. CASE UNCHANGED vars
  BY <1>25 DEF vars, AttemptTypes, attemptVars, LoginTypes, loginVars, PingTypes, pingVars, CallTypes, callVars, HallTypes, hallVars, FaultTypes, faultVars
<1> QED
  BY <1>1, <1>2, <1>3, <1>4, <1>5, <1>6, <1>7, <1>8, <1>9, <1>10, <1>11, <1>12, <1>13, <1>14, <1>15, <1>16, <1>17, <1>18, <1>19, <1>20, <1>21, <1>22, <1>23, <1>24, <1>25 DEF Next, AttemptStep, PingStep, Fault

(* The lock of a uid moves only with the attempt that holds it. *)
LEMMA MutexStep == IndInv /\ [Next]_vars => LoginMutex'
<1> SUFFICES ASSUME IndInv, [Next]_vars PROVE LoginMutex'
  OBVIOUS
<1> USE SessionAssumption DEF IndInv
<1>2. pc \in [Attempts -> {"idle"} \cup InHandler \cup Finished]
      /\ user_login \in [Uids -> BOOLEAN]
  BY DEF TypeOK, AttemptTypes, LoginTypes
<1>3. ASSUME NEW a \in Attempts, NEW v \in Finished,
             pc[a] \in InHandler, Finish(a, v)
      PROVE  LoginMutex'
  BY <1>2, <1>3 DEF Finish, LoginMutex, Serving, InHandler, Finished
<1>4. ASSUME NEW a \in Attempts, NEW v \in InHandler,
             pc[a] \in InHandler, pc' = [pc EXCEPT ![a] = v],
             UNCHANGED user_login
      PROVE  LoginMutex'
  BY <1>2, <1>4 DEF LoginMutex, Serving, InHandler
<1>5. ASSUME NEW a \in Attempts, Accept(a) PROVE LoginMutex'
  <2>1. CASE pc' = [pc EXCEPT ![a] = "denied"] /\ UNCHANGED user_login
    BY <1>2, <1>5, <2>1 DEF Accept, LoginMutex, Serving, InHandler
  <2>2. CASE /\ ~Locked(UidOf[a])
             /\ user_login' = [user_login EXCEPT ![UidOf[a]] = TRUE]
             /\ \E v \in {"kick", "login"} : pc' = [pc EXCEPT ![a] = v]
    BY <1>2, <1>5, <2>2 DEF Accept, Locked, LoginMutex, Serving, InHandler
  <2> QED
    BY <1>5, <2>1, <2>2 DEF Accept
<1>6. ASSUME NEW a \in Attempts, KickReturn(a) \/ KickFailed(a)
      PROVE  LoginMutex'
  <2>1. pc[a] \in InHandler
    BY <1>6 DEF KickReturn, KickFailed, InHandler
  <2>2. AfterKick(a)
    BY <1>6 DEF KickReturn, KickFailed
  <2> QED
    BY <1>3, <1>4, <2>1, <2>2 DEF AfterKick, InHandler, Finished
<1>7. ASSUME NEW a \in Attempts, LoginReturn(a) \/ LoginFailed(a)
      PROVE  LoginMutex'
  BY <1>3, <1>7 DEF LoginReturn, LoginFailed, LoginRefused, InHandler, Finished
<1>8. ASSUME NEW h \in Halls, BreakLink(h) \/ HallRestart(h)
      PROVE  LoginMutex'
  <2>1. pc' = Cut(h) /\ UNCHANGED user_login
    BY <1>8 DEF BreakLink, HallRestart, loginVars
  <2>2. \A a \in Attempts : pc'[a] \in InHandler <=> pc[a] \in InHandler
    BY <1>2, <2>1 DEF Cut, InHandler
  <2>3. \A u \in Uids : Serving(u)' = Serving(u)
    BY <2>2 DEF Serving
  <2> QED
    BY <2>1, <2>3 DEF LoginMutex
<1>9. ASSUME LoginRestart PROVE LoginMutex'
  BY <1>2, <1>9 DEF LoginRestart, LoginMutex, Serving, InHandler
<1>10. CASE UNCHANGED <<pc, user_login>>
  BY <1>10 DEF LoginMutex, Serving
<1>11. \/ \E a \in Attempts :
            \/ Accept(a) \/ KickReturn(a) \/ KickFailed(a)
            \/ LoginReturn(a) \/ LoginFailed(a)
       \/ \E h \in Halls : BreakLink(h) \/ HallRestart(h)
       \/ LoginRestart
       \/ UNCHANGED <<pc, user_login>>
  BY DEF Next, AttemptStep, PingStep, Fault, vars, attemptVars, loginVars,
         Logout, KickArrive, AgentLogout, GateLogout, NotifyReturn, AgentExit,
         LoginArrive, LoginReady, LoginAgentFail, Start, PingCall, PingHandle,
         PingReturn, PingFailed, NextRound, NotifyBreak
<1> QED
  BY <1>5, <1>6, <1>7, <1>8, <1>9, <1>10, <1>11

(* users and msg_online are written together or not at all, but for a      *)
(* second do_login, which finds both of them taken.                        *)
LEMMA TablesStep == IndInv /\ [Next]_vars => HallTablesAgree'
<1> SUFFICES ASSUME IndInv, [Next]_vars PROVE HallTablesAgree'
  OBVIOUS
<1> USE SessionAssumption DEF IndInv
<1>1. /\ users \in [Halls -> [Uids -> Attempts \cup {None}]]
      /\ msg_online \in [Halls -> [Uids -> Attempts \cup {None}]]
  BY DEF TypeOK, HallTypes
<1>2. ASSUME NEW a \in Attempts, GateLogout(a) PROVE HallTablesAgree'
  <2>1. last[a] \in Halls /\ UidOf[a] \in Uids
    BY <1>2 DEF GateLogout, CallsFollowAttempt, CallsFollow
  <2>2. CASE Forget(last[a], UidOf[a])
    BY <1>1, <2>1, <2>2 DEF Forget, HallTablesAgree
  <2>3. CASE UNCHANGED <<users, msg_online>>
    BY <2>3 DEF HallTablesAgree
  <2> QED
    BY <1>2, <2>2, <2>3 DEF GateLogout
<1>3. ASSUME NEW a \in Attempts, LoginReady(a) PROVE HallTablesAgree'
  <2>1. ahall[a] \in Halls /\ UidOf[a] \in Uids /\ a # None
    BY <1>3 DEF LoginReady, CallsFollowAttempt, CallsFollow
  <2>2. users' = [users EXCEPT ![ahall[a]][UidOf[a]] = a]
    BY <1>3 DEF LoginReady
  <2>3. CASE /\ msg_online[ahall[a]][UidOf[a]] # None
             /\ UNCHANGED msg_online
    BY <1>1, <2>1, <2>2, <2>3 DEF HallTablesAgree
  <2>4. CASE msg_online' = [msg_online EXCEPT ![ahall[a]][UidOf[a]] = a]
    BY <1>1, <2>1, <2>2, <2>4 DEF HallTablesAgree
  <2> QED
    BY <1>3, <2>3, <2>4 DEF LoginReady
<1>4. ASSUME NEW h \in Halls, HallRestart(h) PROVE HallTablesAgree'
  BY <1>1, <1>4 DEF HallRestart, HallTablesAgree, Nobody
<1>5. CASE UNCHANGED <<users, msg_online>>
  BY <1>5 DEF HallTablesAgree
<1>6. \/ \E a \in Attempts : GateLogout(a) \/ LoginReady(a)
      \/ \E h \in Halls : HallRestart(h)
      \/ UNCHANGED <<users, msg_online>>
  BY DEF Next, AttemptStep, PingStep, Fault, vars, hallVars,
         Accept, KickReturn, KickFailed, LoginReturn, LoginFailed, Logout,
         KickArrive, AgentLogout, NotifyReturn, AgentExit, LoginArrive,
         LoginAgentFail, Start, PingCall, PingHandle, PingReturn, PingFailed,
         NextRound, BreakLink, NotifyBreak, LoginRestart
<1> QED
  BY <1>2, <1>3, <1>4, <1>5, <1>6

(* The calls of an attempt start after it does, and in order. *)
LEMMA CallsStep == IndInv /\ [Next]_vars => CallsFollowAttempt'
<1> SUFFICES ASSUME IndInv, [Next]_vars, NEW b \in Attempts
             PROVE  CallsFollow(b)'
  BY DEF CallsFollowAttempt
<1> USE SessionAssumption DEF IndInv
<1>1. /\ pc \in [Attempts -> {"idle"} \cup InHandler \cup Finished]
      /\ last \in [Attempts -> Halls \cup {None}]
      /\ ahall \in [Attempts -> Halls \cup {None}]
      /\ kst \in [Attempts -> KickStage]
      /\ lst \in [Attempts -> LoginStage]
  BY DEF TypeOK, AttemptTypes, CallTypes
<1>2. CallsFollow(b)
  BY DEF CallsFollowAttempt
<1>3. ASSUME NEW a \in Attempts, Accept(a) PROVE CallsFollow(b)'
  <2>1. /\ select_hall(UidOf[a]) \in Halls
        /\ user_online[UidOf[a]] # None =>
             user_online[UidOf[a]].server \in Halls
    BY SelectHall DEF TypeOK, LoginTypes, Session
  <2> HIDE DEF select_hall
  <2>2. CASE b = a
    BY <1>1, <1>2, <1>3, <2>1, <2>2
    DEF Accept, CallsFollow, InHandler, KickStage, LoginStage
  <2>3. CASE b # a
    BY <1>1, <1>2, <1>3, <2>3 DEF Accept, CallsFollow
  <2> QED
    BY <2>2, <2>3
<1>4. ASSUME NEW a \in Attempts, KickReturn(a) \/ KickFailed(a)
      PROVE  CallsFollow(b)'
  BY <1>1, <1>2, <1>4 DEF KickReturn, KickFailed, AfterKick, Finish,
     CallsFollow, InHandler
<1>5. ASSUME NEW a \in Attempts, LoginReturn(a) \/ LoginFailed(a)
      PROVE  CallsFollow(b)'
  BY <1>1, <1>2, <1>5 DEF LoginReturn, LoginFailed, Finish, CallsFollow,
     InHandler, callVars
<1>6. ASSUME NEW a \in Attempts,
             \/ KickArrive(a) \/ AgentLogout(a) \/ GateLogout(a)
             \/ NotifyReturn(a) \/ AgentExit(a) \/ NotifyBreak(a)
      PROVE  CallsFollow(b)'
  <2>1. /\ kst[a] # "none"
        /\ \E v \in KickStage : kst' = [kst EXCEPT ![a] = v]
        /\ UNCHANGED <<pc, last, ahall, lst>>
    BY <1>6 DEF KickArrive, AgentLogout, GateLogout, NotifyReturn, AgentExit,
       NotifyBreak, AfterNotify, attemptVars, KickStage
  <2> QED
    BY <1>1, <1>2, <2>1 DEF CallsFollow
<1>7. ASSUME NEW a \in Attempts,
             LoginArrive(a) \/ LoginReady(a) \/ LoginAgentFail(a)
      PROVE  CallsFollow(b)'
  <2>1. /\ lst[a] # "none"
        /\ \E v \in LoginStage : lst' = [lst EXCEPT ![a] = v]
        /\ UNCHANGED <<pc, last, ahall, kst>>
    BY <1>7 DEF LoginArrive, LoginReady, LoginAgentFail, attemptVars,
       LoginStage
  <2> QED
    BY <1>1, <1>2, <2>1 DEF CallsFollow
<1>8. ASSUME NEW h \in Halls, BreakLink(h) \/ HallRestart(h)
      PROVE  CallsFollow(b)'
  BY <1>1, <1>2, <1>8 DEF BreakLink, HallRestart, Cut, CallsFollow, InHandler
<1>9. ASSUME LoginRestart PROVE CallsFollow(b)'
  BY <1>1, <1>2, <1>9 DEF LoginRestart, callVars, CallsFollow, InHandler
<1>10. CASE UNCHANGED <<pc, last, ahall, kst, lst>>
  BY <1>2, <1>10 DEF CallsFollow
<1>11. \/ \E a \in Attempts :
            \/ Accept(a) \/ KickReturn(a) \/ KickFailed(a)
            \/ LoginReturn(a) \/ LoginFailed(a)
            \/ KickArrive(a) \/ AgentLogout(a) \/ GateLogout(a)
            \/ NotifyReturn(a) \/ AgentExit(a) \/ NotifyBreak(a)
            \/ LoginArrive(a) \/ LoginReady(a) \/ LoginAgentFail(a)
       \/ \E h \in Halls : BreakLink(h) \/ HallRestart(h)
       \/ LoginRestart
       \/ UNCHANGED <<pc, last, ahall, kst, lst>>
  BY DEF Next, AttemptStep, PingStep, Fault, vars, attemptVars, callVars,
         Logout, Start, PingCall, PingHandle, PingReturn, PingFailed, NextRound
<1> QED
  BY <1>3, <1>4, <1>5, <1>6, <1>7, <1>8, <1>9, <1>10, <1>11

(* The gate is pinged where the loop says. *)
LEMMA PingStepAimed == IndInv /\ [Next]_vars => PingAimed'
<1> SUFFICES ASSUME IndInv, [Next]_vars PROVE PingAimed'
  OBVIOUS
<1>1. \/ \E h \in Halls : PingCall(h) \/ BreakLink(h) \/ HallRestart(h)
      \/ PingHandle
      \/ ppc' \notin {"call", "reply"}
      \/ UNCHANGED <<ppc, pcur>>
  <2>1. ASSUME NEW a \in Attempts, Accept(a) \/ AttemptStep(a)
        PROVE  UNCHANGED <<ppc, pcur>>
    <3>1. CASE \/ Accept(a) \/ KickReturn(a) \/ KickFailed(a)
               \/ LoginReturn(a) \/ LoginFailed(a) \/ Logout(a)
      BY <3>1 DEF pingVars, Accept, KickReturn, KickFailed, LoginReturn,
         LoginFailed, Logout
    <3>2. CASE \/ KickArrive(a) \/ AgentLogout(a) \/ GateLogout(a)
               \/ NotifyReturn(a) \/ AgentExit(a)
               \/ LoginArrive(a) \/ LoginReady(a) \/ LoginAgentFail(a)
      BY <3>2 DEF pingVars, KickArrive, AgentLogout, GateLogout, NotifyReturn,
         AgentExit, LoginArrive, LoginReady, LoginAgentFail
    <3> QED BY <2>1, <3>1, <3>2 DEF AttemptStep
  <2>2. CASE Start \/ PingReturn \/ PingFailed \/ NextRound \/ LoginRestart
    BY <2>2 DEF Start, PingReturn, PingFailed, NextRound, LoginRestart
  <2>3. ASSUME NEW a \in Attempts, NotifyBreak(a) PROVE UNCHANGED <<ppc, pcur>>
    BY <2>3 DEF NotifyBreak, pingVars
  <2>4. CASE UNCHANGED vars
    BY <2>4 DEF vars, pingVars
  <2> QED
    BY <2>1, <2>2, <2>3, <2>4 DEF Next, PingStep, Fault
<1> QED
  BY <1>1 DEF IndInv, PingAimed, PingCall, PingHandle, BreakLink, HallRestart,
     CutPing

(* What no action but the listed ones does to agents, sessions and kicks;  *)
(* a hall is chosen for an attempt only before its first call.             *)
LEMMA HallFrame ==
  IndInv /\ [Next]_vars =>
    \/ \E a \in Attempts :
         \/ Accept(a) \/ KickReturn(a) \/ KickFailed(a)
         \/ KickArrive(a) \/ AgentLogout(a) \/ GateLogout(a)
         \/ NotifyReturn(a) \/ AgentExit(a) \/ NotifyBreak(a)
         \/ LoginArrive(a) \/ LoginReady(a) \/ LoginAgentFail(a)
    \/ \E h \in Halls : BreakLink(h) \/ HallRestart(h)
    \/ UNCHANGED <<last, ahall, kst, ktgt, lst, agent, users>>
BY DEF Next, AttemptStep, PingStep, Fault, vars, attemptVars, callVars,
       hallVars, LoginReturn, LoginFailed, Logout, Start, PingCall, PingHandle,
       PingReturn, PingFailed, NextRound, LoginRestart

(* An agent dies only where no session and no start needs it. *)
LEMMA AgentsStep == IndInv /\ [Next]_vars => SessionsHaveAgents'
<1> SUFFICES ASSUME IndInv, [Next]_vars PROVE SessionsHaveAgents'
  OBVIOUS
<1> USE SessionAssumption DEF IndInv
<1>0. /\ ahall \in [Attempts -> Halls \cup {None}]
      /\ lst \in [Attempts -> LoginStage]
      /\ agent \in [Attempts -> {"none", "alive", "dead"}]
      /\ users \in [Halls -> [Uids -> Attempts \cup {None}]]
  BY DEF TypeOK, AttemptTypes, CallTypes, HallTypes
<1>1. /\ \A a \in Attempts : AgentRuns(a) /\ CallsFollow(a) /\ KickAimed(a)
      /\ \A h \in Halls, u \in Uids :
           SessionHasAgent(h, u) /\ users[h][u] \in Attempts \cup {None}
  <2>1. \A h \in Halls : users[h] \in [Uids -> Attempts \cup {None}]
    BY <1>0
  <2> QED
    BY <2>1 DEF SessionsHaveAgents, CallsFollowAttempt, KicksAimed
<1>2. ASSUME NEW a \in Attempts, lst[a] = "none",
             \E v \in LoginStage : lst' = [lst EXCEPT ![a] = v],
             lst'[a] # "starting",
             \A b \in Attempts : b # a => ahall'[b] = ahall[b],
             UNCHANGED <<agent, users>>
      PROVE  SessionsHaveAgents'
  <2>1. \A b \in Attempts : AgentRuns(b)'
    BY <1>0, <1>1, <1>2 DEF AgentRuns
  <2>2. ASSUME NEW h \in Halls, NEW u \in Uids PROVE SessionHasAgent(h, u)'
    <3>1. SessionHasAgent(h, u) /\ users[h][u] \in Attempts \cup {None}
      BY <1>1
    <3>2. users[h][u] # a
      BY <1>2, <3>1 DEF SessionHasAgent
    <3> QED
      BY <1>0, <1>2, <3>1, <3>2 DEF SessionHasAgent
  <2> QED
    BY <2>1, <2>2 DEF SessionsHaveAgents
<1>3. ASSUME NEW a \in Attempts, Accept(a) PROVE SessionsHaveAgents'
  <2>1. lst[a] = "none" /\ UNCHANGED <<agent, users>>
    BY <1>1, <1>3 DEF Accept, CallsFollow, hallVars
  <2>2. \E v \in {"none", "sent"} : lst' = [lst EXCEPT ![a] = v]
    BY <1>0, <1>3, <2>1 DEF Accept
  <2>3. \A b \in Attempts : b # a => ahall'[b] = ahall[b]
    BY <1>0, <1>3 DEF Accept
  <2> QED
    BY <1>0, <1>2, <2>1, <2>2, <2>3 DEF LoginStage
<1>4. ASSUME NEW a \in Attempts, KickReturn(a) \/ KickFailed(a)
      PROVE  SessionsHaveAgents'
  <2>1. lst[a] = "none" /\ UNCHANGED <<ahall, agent, users>>
    BY <1>1, <1>4 DEF KickReturn, KickFailed, CallsFollow, hallVars
  <2>2. \E v \in {"none", "sent"} : lst' = [lst EXCEPT ![a] = v]
    BY <1>0, <1>4, <2>1 DEF KickReturn, KickFailed, AfterKick
  <2> QED
    BY <1>0, <1>2, <2>1, <2>2 DEF LoginStage
<1>5. ASSUME NEW a \in Attempts, GateLogout(a) PROVE SessionsHaveAgents'
  <2>1. last[a] \in Halls /\ UidOf[a] \in Uids
    BY <1>1, <1>5 DEF GateLogout, CallsFollow
  <2>2. UNCHANGED <<ahall, lst, agent>>
    BY <1>5 DEF GateLogout, attemptVars
  <2>3. CASE Forget(last[a], UidOf[a])
    BY <1>0, <1>1, <2>1, <2>2, <2>3
    DEF Forget, SessionsHaveAgents, SessionHasAgent, AgentRuns
  <2>4. CASE UNCHANGED users
    <3>1. UNCHANGED <<ahall, lst, agent, users>>
      BY <2>2, <2>4
    <3>2. \A b \in Attempts : AgentRuns(b)'
      BY <1>1, <3>1 DEF AgentRuns
    <3>3. ASSUME NEW h \in Halls, NEW u \in Uids PROVE SessionHasAgent(h, u)'
      <4>1. SessionHasAgent(h, u)
        BY <1>1
      <4> QED
        BY <3>1, <4>1 DEF SessionHasAgent
    <3> QED
      BY <3>2, <3>3 DEF SessionsHaveAgents
  <2> QED
    BY <1>5, <2>3, <2>4 DEF GateLogout
<1>6. ASSUME NEW a \in Attempts, AgentExit(a) PROVE SessionsHaveAgents'
  <2>1. /\ ktgt[a] \in Attempts /\ UidOf[ktgt[a]] = UidOf[a]
        /\ ahall[ktgt[a]] = last[a] /\ lst[ktgt[a]] # "starting"
        /\ users[last[a]][UidOf[a]] # ktgt[a]
    BY <1>1, <1>6 DEF AgentExit, KickAimed, AgentStage
  <2>2. /\ agent' = [agent EXCEPT ![ktgt[a]] = "dead"]
        /\ UNCHANGED <<ahall, lst, users>>
    BY <1>6 DEF AgentExit, attemptVars
  <2>3. \A h \in Halls, u \in Uids : users[h][u] # ktgt[a]
    BY <1>1, <2>1 DEF SessionHasAgent
  <2> QED
    BY <1>0, <1>1, <2>1, <2>2, <2>3
    DEF SessionsHaveAgents, SessionHasAgent, AgentRuns
<1>7. ASSUME NEW a \in Attempts, LoginArrive(a) PROVE SessionsHaveAgents'
  <2>1. /\ UNCHANGED <<ahall, users>> /\ lst[a] = "sent"
        /\ \/ lst' = [lst EXCEPT ![a] = "error"] /\ UNCHANGED agent
           \/ /\ lst' = [lst EXCEPT ![a] = "starting"]
              /\ agent' = [agent EXCEPT ![a] = "alive"]
    BY <1>7 DEF LoginArrive, attemptVars
  <2> QED
    BY <1>0, <1>1, <2>1 DEF SessionsHaveAgents, SessionHasAgent, AgentRuns
<1>8. ASSUME NEW a \in Attempts, LoginReady(a) PROVE SessionsHaveAgents'
  <2>1. /\ ahall[a] \in Halls /\ UidOf[a] \in Uids
        /\ lst[a] = "starting" /\ agent[a] = "alive"
    BY <1>1, <1>8 DEF LoginReady, CallsFollow, AgentRuns
  <2>2. /\ users' = [users EXCEPT ![ahall[a]][UidOf[a]] = a]
        /\ \E v \in {"done", "error"} : lst' = [lst EXCEPT ![a] = v]
        /\ UNCHANGED <<ahall, agent>>
    BY <1>8 DEF LoginReady, attemptVars
  <2>3. \A b \in Attempts : AgentRuns(b)'
    BY <1>0, <1>1, <2>2 DEF AgentRuns
  <2>4. ASSUME NEW h \in Halls, NEW u \in Uids PROVE SessionHasAgent(h, u)'
    <3>1. CASE h = ahall[a] /\ u = UidOf[a]
      BY <1>0, <2>1, <2>2, <3>1 DEF SessionHasAgent
    <3>2. CASE ~(h = ahall[a] /\ u = UidOf[a])
      <4>1. users'[h][u] = users[h][u]
        BY <1>0, <2>2, <3>2
      <4> QED
        BY <1>0, <1>1, <2>1, <2>2, <4>1 DEF SessionHasAgent
    <3> QED
      BY <3>1, <3>2
  <2> QED
    BY <2>3, <2>4 DEF SessionsHaveAgents
<1>9. ASSUME NEW a \in Attempts, LoginAgentFail(a) PROVE SessionsHaveAgents'
  BY <1>0, <1>1, <1>9 DEF LoginAgentFail, attemptVars, hallVars,
     SessionsHaveAgents, SessionHasAgent, AgentRuns
<1>10. ASSUME NEW h \in Halls, BreakLink(h) PROVE SessionsHaveAgents'
  <2>1. /\ UNCHANGED <<ahall, agent, users>>
        /\ \A b \in Attempts : lst'[b] \in {lst[b], "none"}
                               /\ (lst[b] # "sent" => lst'[b] = lst[b])
    BY <1>10 DEF BreakLink, hallVars
  <2> QED
    BY <1>1, <2>1 DEF SessionsHaveAgents, SessionHasAgent, AgentRuns
<1>11. ASSUME NEW g \in Halls, HallRestart(g) PROVE SessionsHaveAgents'
  <2>1. /\ ahall' = ahall
        /\ users' = [users EXCEPT ![g] = Nobody]
        /\ \A b \in Attempts :
             /\ ahall[b] # g => lst'[b] = lst[b] /\ agent'[b] = agent[b]
             /\ ahall[b] = g => lst'[b] = "none"
    BY <1>11 DEF HallRestart
  <2>2. \A b \in Attempts : AgentRuns(b)'
    BY <1>1, <2>1 DEF AgentRuns
  <2>3. \A h \in Halls, u \in Uids :
          users'[h][u] = IF h = g THEN None ELSE users[h][u]
    BY <1>0, <2>1 DEF Nobody
  <2> QED
    BY <1>1, <2>1, <2>2, <2>3 DEF SessionsHaveAgents, SessionHasAgent
<1>12. CASE UNCHANGED <<ahall, lst, agent, users>>
  <2>1. \A b \in Attempts : AgentRuns(b)'
    BY <1>1, <1>12 DEF AgentRuns
  <2>2. \A h \in Halls, u \in Uids : SessionHasAgent(h, u)'
    BY <1>1, <1>12 DEF SessionHasAgent
  <2> QED
    BY <2>1, <2>2 DEF SessionsHaveAgents
<1>13. ASSUME NEW a \in Attempts,
              \/ KickArrive(a) \/ AgentLogout(a) \/ NotifyReturn(a)
              \/ NotifyBreak(a)
       PROVE  SessionsHaveAgents'
  BY <1>12, <1>13 DEF KickArrive, AgentLogout, NotifyReturn, NotifyBreak,
     attemptVars, hallVars
<1> QED
  BY HallFrame, <1>3, <1>4, <1>5, <1>6, <1>7, <1>8, <1>9, <1>10, <1>11, <1>12,
     <1>13

(* A kick in flight keeps its aim, and the agent it is aimed at never gets *)
(* a session again.                                                        *)
LEMMA KicksStep == IndInv /\ [Next]_vars => KicksAimed'
<1> SUFFICES ASSUME IndInv, [Next]_vars, NEW b \in Attempts
             PROVE  KickAimed(b)'
  BY DEF KicksAimed
<1> USE SessionAssumption DEF IndInv
<1>0. /\ last \in [Attempts -> Halls \cup {None}]
      /\ ahall \in [Attempts -> Halls \cup {None}]
      /\ kst \in [Attempts -> KickStage]
      /\ ktgt \in [Attempts -> Attempts \cup {None}]
      /\ lst \in [Attempts -> LoginStage]
      /\ users \in [Halls -> [Uids -> Attempts \cup {None}]]
  BY DEF TypeOK, AttemptTypes, CallTypes, HallTypes
<1>1. /\ KickAimed(b)
      /\ kst[b] # "none" => last[b] \in Halls
      /\ \A a \in Attempts : CallsFollow(a)
      /\ \A h \in Halls, u \in Uids :
           SessionHasAgent(h, u) /\ users[h][u] \in Attempts \cup {None}
  <2>1. \A h \in Halls : users[h] \in [Uids -> Attempts \cup {None}]
    BY <1>0
  <2> QED
    BY <2>1
    DEF SessionsHaveAgents, CallsFollowAttempt, CallsFollow, KicksAimed
<1>2. ASSUME NEW a \in Attempts, Accept(a) PROVE KickAimed(b)'
  <2>1. /\ lst[a] = "none" /\ kst[a] = "none"
        /\ UNCHANGED <<ktgt, users>>
        /\ kst'[a] \in {"none", "sent"} /\ lst'[a] \in {"none", "sent"}
    BY <1>0, <1>1, <1>2 DEF Accept, CallsFollow, hallVars
  <2>2. \A c \in Attempts \ {a} :
          /\ ahall'[c] = ahall[c] /\ last'[c] = last[c]
          /\ lst'[c] = lst[c] /\ kst'[c] = kst[c]
    BY <1>0, <1>2 DEF Accept
  <2> QED
    BY <1>1, <2>1, <2>2 DEF KickAimed, AgentStage
<1>3. ASSUME NEW a \in Attempts, KickReturn(a) \/ KickFailed(a)
      PROVE  KickAimed(b)'
  <2>1. lst[a] = "none" /\ UNCHANGED <<ahall, last, kst, ktgt, users>>
    BY <1>1, <1>3 DEF KickReturn, KickFailed, CallsFollow, hallVars
  <2>2. \A c \in Attempts \ {a} : lst'[c] = lst[c]
    BY <1>0, <1>3 DEF KickReturn, KickFailed, AfterKick
  <2> QED
    BY <1>1, <2>1, <2>2 DEF KickAimed
<1>4. ASSUME NEW a \in Attempts, KickArrive(a) PROVE KickAimed(b)'
  <2>1. last[a] \in Halls /\ UNCHANGED <<ahall, last, lst, users>>
    BY <1>1, <1>4 DEF KickArrive, CallsFollow, attemptVars, hallVars
  <2>2. CASE b = a
    <3>1. SessionHasAgent(last[a], UidOf[a])
          /\ users[last[a]][UidOf[a]] \in Attempts \cup {None}
      BY <1>1, <2>1
    <3> QED
      BY <1>0, <1>4, <2>1, <2>2, <3>1
      DEF KickArrive, KickAimed, SessionHasAgent, AgentStage
  <2>3. CASE b # a
    BY <1>0, <1>1, <1>4, <2>1, <2>3 DEF KickArrive, KickAimed
  <2> QED
    BY <2>2, <2>3
<1>5. ASSUME NEW a \in Attempts,
             AgentLogout(a) \/ NotifyReturn(a) \/ NotifyBreak(a) \/ AgentExit(a)
      PROVE  KickAimed(b)'
  <2>1. UNCHANGED <<ahall, last, ktgt, lst, users>>
    BY <1>5 DEF AgentLogout, NotifyReturn, NotifyBreak, AgentExit,
       attemptVars, hallVars
  <2>2. \/ kst'[b] = kst[b]
        \/ kst[b] = "agent" /\ kst'[b] = "gate"
        \/ kst[b] = "notify" /\ kst'[b] = "exit"
        \/ kst'[b] = "reply"
    BY <1>0, <1>5 DEF AgentLogout, NotifyReturn, NotifyBreak, AgentExit,
       AfterNotify
  <2> QED
    BY <1>1, <2>1, <2>2 DEF KickAimed, AgentStage
<1>6. ASSUME NEW a \in Attempts, GateLogout(a) PROVE KickAimed(b)'
  <2>1. /\ last[a] \in Halls
        /\ UNCHANGED <<ahall, last, ktgt, lst>>
    BY <1>1, <1>6 DEF GateLogout, CallsFollow, attemptVars
  <2>2. kst'[b] = kst[b] \/ (a = b /\ kst[b] = "gate")
    BY <1>0, <1>6 DEF GateLogout
  <2>3. CASE /\ Forget(last[a], UidOf[a])
             /\ kst' = [kst EXCEPT ![a] = "notify"]
    <3>1. \A h \in Halls, u \in Uids :
            users'[h][u] = IF h = last[a] /\ u = UidOf[a] THEN None
                                                          ELSE users[h][u]
      BY <1>0, <2>1, <2>3 DEF Forget
    <3>2. kst'[b] \in AgentStage => kst[b] \in AgentStage
      BY <2>2 DEF AgentStage
    <3>3. CASE b = a
      <4>1. kst[b] \in AgentStage /\ last'[b] = last[a] /\ UidOf[b] = UidOf[a]
        BY <1>0, <1>6, <2>1, <3>3 DEF GateLogout, AgentStage
      <4>2. users'[last[a]][UidOf[a]] = None
        BY <2>1, <3>1
      <4>3. /\ ktgt[b] \in Attempts
            /\ UidOf[ktgt[b]] = UidOf[b] /\ ahall[ktgt[b]] = last[b]
            /\ lst[ktgt[b]] \in {"done", "error"}
        BY <1>1, <4>1 DEF KickAimed
      <4> QED
        BY <2>1, <4>1, <4>2, <4>3 DEF KickAimed
    <3>4. CASE b # a
      <4>1. kst'[b] = kst[b]
        BY <2>2, <3>4
      <4>2. UidOf[b] \in Uids
        OBVIOUS
      <4>3. kst[b] \in {"notify", "exit"} =>
              users'[last[b]][UidOf[b]] \in {None, users[last[b]][UidOf[b]]}
        BY <1>1, <3>1, <4>2
      <4> QED
        BY <1>1, <2>1, <4>1, <4>3 DEF KickAimed, AgentStage
    <3> QED
      BY <3>3, <3>4
  <2>4. CASE /\ users[last[a]][UidOf[a]] = None
             /\ kst' = [kst EXCEPT ![a] = "exit"]
             /\ UNCHANGED users
    BY <1>0, <1>1, <2>1, <2>2, <2>4 DEF KickAimed, AgentStage
  <2> QED
    BY <1>6, <2>3, <2>4 DEF GateLogout
<1>7. ASSUME NEW a \in Attempts, LoginArrive(a) \/ LoginAgentFail(a)
      PROVE  KickAimed(b)'
  <2>1. /\ UNCHANGED <<ahall, last, kst, ktgt, users>>
        /\ lst[a] \in {"sent", "starting"}
        /\ \A c \in Attempts \ {a} : lst'[c] = lst[c]
    BY <1>0, <1>7 DEF LoginArrive, LoginAgentFail, attemptVars, hallVars
  <2> QED
    BY <1>1, <2>1 DEF KickAimed
<1>8. ASSUME NEW a \in Attempts, LoginReady(a) PROVE KickAimed(b)'
  <2>1. /\ ahall[a] \in Halls /\ lst[a] = "starting"
        /\ users' = [users EXCEPT ![ahall[a]][UidOf[a]] = a]
        /\ UNCHANGED <<ahall, last, kst, ktgt>>
        /\ \A c \in Attempts \ {a} : lst'[c] = lst[c]
    BY <1>0, <1>1, <1>8 DEF LoginReady, CallsFollow, attemptVars
  <2>2. \A h \in Halls, u \in Uids : users'[h][u] \in {users[h][u], a}
    BY <1>0, <2>1
  <2>3. kst[b] \in AgentStage => ktgt[b] # a
    BY <1>1, <2>1 DEF KickAimed
  <2> QED
    BY <1>1, <2>1, <2>2, <2>3 DEF KickAimed, AgentStage
<1>9. ASSUME NEW h \in Halls, BreakLink(h) PROVE KickAimed(b)'
  <2>1. /\ UNCHANGED <<ahall, last, ktgt, users>>
        /\ \A c \in Attempts : lst[c] # "sent" => lst'[c] = lst[c]
        /\ kst'[b] \in {kst[b], "none"}
    BY <1>9 DEF BreakLink, hallVars
  <2> QED
    BY <1>1, <2>1 DEF KickAimed, AgentStage
<1>10. ASSUME NEW g \in Halls, HallRestart(g) PROVE KickAimed(b)'
  <2>1. /\ UNCHANGED <<ahall, last, ktgt>>
        /\ \A h \in Halls \ {g} : users'[h] = users[h]
        /\ \A c \in Attempts : ahall[c] # g => lst'[c] = lst[c]
        /\ last[b] # g => kst'[b] = kst[b]
        /\ last[b] = g => kst'[b] = "none"
    BY <1>0, <1>10 DEF HallRestart
  <2> QED
    BY <1>1, <2>1 DEF KickAimed, AgentStage
<1>11. CASE UNCHANGED <<last, ahall, kst, ktgt, lst, users>>
  BY <1>1, <1>11 DEF KickAimed
<1> QED
  BY HallFrame, <1>2, <1>3, <1>4, <1>5, <1>6, <1>7, <1>8, <1>9, <1>10, <1>11

-----------------------------------------------------------------------------
(* The initial states. *)
LEMMA InitInv == Init => IndInv
<1> SUFFICES ASSUME Init PROVE IndInv
  OBVIOUS
<1> USE SessionAssumption
<1>1. TypeOK
  BY DEF Init, TypeOK, AttemptTypes, LoginTypes, PingTypes, CallTypes,
     HallTypes, FaultTypes, Nobody, Orders, Bijection, Injection, KickStage,
     LoginStage
<1>2. LoginMutex
  BY DEF Init, LoginMutex, Serving, InHandler
<1>3. HallTablesAgree
  BY DEF Init, HallTablesAgree, Nobody
<1>4. CallsFollowAttempt /\ KicksAimed /\ PingAimed
  BY DEF Init, CallsFollowAttempt, CallsFollow, InHandler, KicksAimed,
     KickAimed, AgentStage, PingAimed
<1>5. SessionsHaveAgents
  BY DEF Init, SessionsHaveAgents, AgentRuns, SessionHasAgent, Nobody
<1> QED
  BY <1>1, <1>2, <1>3, <1>4, <1>5 DEF IndInv

(* What is known of calls in flight is kept by every step of any service   *)
(* and by every fault.                                                     *)
THEOREM SessionInvariant == Spec => []IndInv
<1>1. IndInv /\ [Next]_vars => IndInv'
  BY TypeStep, MutexStep, TablesStep, CallsStep, AgentsStep, KicksStep,
     PingStepAimed DEF IndInv
<1> QED
  BY InitInv, <1>1, PTL DEF Spec

(* Every variable keeps its type (TypeOK). *)
THEOREM TypeCorrect == Spec => []TypeOK
<1>1. IndInv => TypeOK
  BY DEF IndInv
<1> QED
  BY SessionInvariant, <1>1, PTL

(* A uid is locked exactly while one login_handler runs for it: accept     *)
(* never lets a second one in and no path out of it keeps the lock.        *)
THEOREM MutexHolds == Spec => []LoginMutex
<1>1. IndInv => LoginMutex
  BY DEF IndInv
<1> QED
  BY SessionInvariant, <1>1, PTL

(* The gate's table and msgserver's table always have the same users, also *)
(* when do_login was entered twice or fails between the two.               *)
THEOREM TablesAgreeAlways == Spec => []HallTablesAgree
<1>1. IndInv => HallTablesAgree
  BY DEF IndInv
<1> QED
  BY SessionInvariant, <1>1, PTL

(* No session of a gate ever points at an agent that has exited.           *)
THEOREM AgentsAreAlive == Spec => []NoDeadAgent
<1>1. IndInv => NoDeadAgent
  BY DEF IndInv, SessionsHaveAgents, SessionHasAgent, NoDeadAgent
<1> QED
  BY SessionInvariant, <1>1, PTL
=============================================================================

------------------------- MODULE CalmSession_proofs -------------------------
(***************************************************************************)
(* Machine-checked proofs about LoginSession while nothing breaks, for any *)
(* accounts, halls and attempts: the login master knows every session, a   *)
(* logout ends its own session only, and login, gates and agents together  *)
(* implement SessionPromise.                                               *)
(*                                                                         *)
(* With faults these do not hold: a restarted login master knows no        *)
(* session, and a hall goes on with what it has begun when a call to it is *)
(* cut.  So they rest on NoFaults; IndInv of LoginSession_proofs does not. *)
(***************************************************************************)
EXTENDS LoginSession_proofs

NoFaults == MaxBreaks = 0 /\ MaxHallRestarts = 0 /\ MaxLoginRestarts = 0

-----------------------------------------------------------------------------
(* What is known of a login of a user and of its sessions.                 *)

(* Calls run only while the attempt waits for them. *)
CallsAwaited(a) ==
  /\ pc[a] \notin {"kickBroken", "loginBroken"}
  /\ kst[a] \notin {"none", "reply"} => pc[a] = "kick"
  /\ lst[a] \in {"sent", "starting"} => pc[a] = "login"
  /\ a \in logouts => kst[a] \in {"notify", "gonotify"}

(* The agent a kick is aimed at runs until it is told to exit, and has the *)
(* session until its gate handles the logout.                              *)
TargetStays(a) ==
  /\ kst[a] \in AgentStage => agent[ktgt[a]] = "alive"
  /\ kst[a] \in {"agent", "gate"} => users[last[a]][UidOf[a]] = ktgt[a]

(* The sessions a user has while one of its logins is under way. *)
SessionsOf(a) ==
  /\ pc[a] = "kick" =>
       \A h \in Halls : users[h][UidOf[a]] # None =>
                          h = last[a] /\ kst[a] \in {"sent", "agent", "gate"}
  /\ pc[a] = "login" =>
       \A h \in Halls : users[h][UidOf[a]] =
                          IF lst[a] = "done" /\ h = ahall[a] THEN a ELSE None

(* The login master has a session in its table, or is about to enter it. *)
Recorded(h, u) ==
  LET x == users[h][u] IN
  x # None => \/ user_online[u] = [server |-> h, secret |-> x]
              \/ pc[x] = "login"

CalmInv ==
  /\ \A a \in Attempts : CallsAwaited(a) /\ TargetStays(a) /\ SessionsOf(a)
  /\ \A h \in Halls, u \in Uids : Recorded(h, u)

-----------------------------------------------------------------------------
(* What IndInv says, in the form the steps need. *)
LEMMA Known ==
  ASSUME IndInv
  PROVE  /\ pc \in [Attempts -> {"idle"} \cup InHandler \cup Finished]
         /\ last \in [Attempts -> Halls \cup {None}]
         /\ ahall \in [Attempts -> Halls \cup {None}]
         /\ user_online \in [Uids -> Session \cup {None}]
         /\ kst \in [Attempts -> KickStage]
         /\ ktgt \in [Attempts -> Attempts \cup {None}]
         /\ lst \in [Attempts -> LoginStage]
         /\ agent \in [Attempts -> {"none", "alive", "dead"}]
         /\ users \in [Halls -> [Uids -> Attempts \cup {None}]]
         /\ \A a \in Attempts : UidOf[a] \in Uids
         /\ \A a \in Attempts : CallsFollow(a) /\ KickAimed(a)
         /\ \A h \in Halls, u \in Uids :
              SessionHasAgent(h, u) /\ users[h][u] \in Attempts \cup {None}
BY SessionAssumption
   DEF IndInv, TypeOK, AttemptTypes, LoginTypes, CallTypes, HallTypes,
       CallsFollowAttempt, KicksAimed, SessionsHaveAgents

(* One login of a user at a time. *)
LEMMA Alone ==
  ASSUME IndInv, NEW a \in Attempts, NEW b \in Attempts,
         pc[a] \in InHandler, pc[b] \in InHandler, UidOf[a] = UidOf[b]
  PROVE  a = b
BY SessionAssumption DEF IndInv, LoginMutex, Serving

(* The steps that are left when nothing breaks. *)
LEMMA CalmSteps ==
  ASSUME NoFaults, IndInv, CalmInv, [Next]_vars
  PROVE  \/ \E a \in Attempts :
              \/ Accept(a) \/ KickReturn(a) \/ LoginReturn(a) \/ LoginFailed(a)
              \/ Logout(a) \/ KickArrive(a) \/ AgentLogout(a) \/ GateLogout(a)
              \/ NotifyReturn(a) \/ AgentExit(a)
              \/ LoginArrive(a) \/ LoginReady(a) \/ LoginAgentFail(a)
         \/ PingReturn
         \/ UNCHANGED <<attemptVars, user_online, logouts, callVars, hallVars>>
<1>1. breaks = 0 /\ hallRestarts = 0 /\ loginRestarts = 0
  BY SessionAssumption DEF NoFaults, IndInv, TypeOK, FaultTypes
<1>2. ~ Fault
  BY <1>1 DEF NoFaults, Fault, BreakLink, HallRestart, NotifyBreak, LoginRestart
<1>3. \A a \in Attempts : ~ KickFailed(a)
  BY DEF CalmInv, CallsAwaited, KickFailed
<1>4. Start \/ (\E h \in Halls : PingCall(h)) \/ PingHandle \/ PingFailed \/ NextRound
        => UNCHANGED <<attemptVars, user_online, logouts, callVars, hallVars>>
  BY DEF Start, PingCall, PingHandle, PingFailed, NextRound, loginVars
<1> QED
  BY <1>2, <1>3, <1>4 DEF Next, AttemptStep, PingStep, vars, loginVars

(* Nobody's kick is answered before its chain is through. *)
LEMMA KickThrough ==
  ASSUME IndInv, CalmInv, NEW a \in Attempts, KickReturn(a)
  PROVE  kst[a] = "reply"
BY DEF KickReturn, KickAnswered, CalmInv, TargetStays

LEMMA CallsAwaitedStep ==
  ASSUME NoFaults, IndInv, CalmInv, [Next]_vars, NEW b \in Attempts
  PROVE  CallsAwaited(b)'
<1>1. CallsAwaited(b) /\ CallsFollow(b)
  BY Known DEF CalmInv
<1>2. /\ pc \in [Attempts -> {"idle"} \cup InHandler \cup Finished]
      /\ kst \in [Attempts -> KickStage]
      /\ lst \in [Attempts -> LoginStage]
  BY Known
<1>3. ASSUME NEW a \in Attempts, Accept(a) PROVE CallsAwaited(b)'
  BY <1>1, <1>2, <1>3 DEF Accept, CallsAwaited, CallsFollow
<1>4. ASSUME NEW a \in Attempts, KickReturn(a) PROVE CallsAwaited(b)'
  <2>1. kst[a] = "reply"  BY <1>4, KickThrough
  <2> QED BY <1>1, <1>2, <1>4, <2>1
          DEF KickReturn, AfterKick, Finish, CallsAwaited, CallsFollow
<1>5. ASSUME NEW a \in Attempts, LoginReturn(a) \/ LoginFailed(a)
      PROVE  CallsAwaited(b)'
  BY <1>1, <1>2, <1>5
  DEF LoginReturn, LoginFailed, LoginRefused, Finish, CallsAwaited, CallsFollow, callVars
<1>6. ASSUME NEW a \in Attempts, Logout(a) PROVE CallsAwaited(b)'
  BY <1>1, <1>6 DEF Logout, CallsAwaited, attemptVars, callVars
<1>7. ASSUME NEW a \in Attempts,
             KickArrive(a) \/ AgentLogout(a) \/ GateLogout(a) \/ NotifyReturn(a)
               \/ AgentExit(a)
      PROVE  CallsAwaited(b)'
  BY <1>1, <1>2, <1>7
  DEF KickArrive, AgentLogout, GateLogout, NotifyReturn, AfterNotify, AgentExit,
      CallsAwaited, attemptVars
<1>8. ASSUME NEW a \in Attempts, LoginArrive(a) \/ LoginReady(a) \/ LoginAgentFail(a)
      PROVE  CallsAwaited(b)'
  BY <1>1, <1>2, <1>8
  DEF LoginArrive, LoginReady, LoginAgentFail, CallsAwaited, attemptVars
<1>9. CASE PingReturn
  BY <1>1, <1>9 DEF PingReturn, CallsAwaited, attemptVars, callVars
<1>10. CASE UNCHANGED <<attemptVars, user_online, logouts, callVars, hallVars>>
  BY <1>1, <1>10 DEF CallsAwaited, attemptVars, callVars
<1> QED BY <1>3, <1>4, <1>5, <1>6, <1>7, <1>8, <1>9, <1>10, CalmSteps

LEMMA TargetStaysStep ==
  ASSUME NoFaults, IndInv, CalmInv, [Next]_vars, NEW b \in Attempts
  PROVE  TargetStays(b)'
<1>1. /\ TargetStays(b) /\ CallsAwaited(b) /\ CallsFollow(b) /\ KickAimed(b)
      /\ UidOf[b] \in Uids
  BY Known DEF CalmInv
<1>2. /\ kst \in [Attempts -> KickStage]
      /\ ktgt \in [Attempts -> Attempts \cup {None}]
      /\ last \in [Attempts -> Halls \cup {None}]
      /\ agent \in [Attempts -> {"none", "alive", "dead"}]
      /\ users \in [Halls -> [Uids -> Attempts \cup {None}]]
      /\ \A h \in Halls, u \in Uids : SessionHasAgent(h, u)
  BY Known
<1>3. ASSUME NEW a \in Attempts, Accept(a) PROVE TargetStays(b)'
  <2>1. kst[a] = "none" /\ kst'[a] \in {"none", "sent"}
    BY <1>2, <1>3, Known DEF Accept, CallsFollow
  <2> QED BY <1>1, <1>2, <1>3, <2>1 DEF Accept, TargetStays, AgentStage, hallVars
<1>4. ASSUME NEW a \in Attempts, KickReturn(a) \/ LoginReturn(a) \/ LoginFailed(a) \/ Logout(a)
      PROVE  TargetStays(b)'
  BY <1>1, <1>4
  DEF KickReturn, LoginReturn, LoginFailed, Logout, TargetStays, attemptVars, callVars, hallVars
<1>5. ASSUME NEW a \in Attempts, KickArrive(a) PROVE TargetStays(b)'
  <2>1. last[a] \in Halls /\ UidOf[a] \in Uids  BY <1>5, Known DEF KickArrive, CallsFollow
  <2>2. SessionHasAgent(last[a], UidOf[a])  BY <1>2, <2>1
  <2> QED
    BY <1>1, <1>2, <1>5, <2>1, <2>2
    DEF KickArrive, TargetStays, AgentStage, SessionHasAgent, attemptVars, hallVars
<1>6. ASSUME NEW a \in Attempts, AgentLogout(a) \/ NotifyReturn(a) PROVE TargetStays(b)'
  BY <1>1, <1>2, <1>6
  DEF AgentLogout, NotifyReturn, AfterNotify, TargetStays, AgentStage, attemptVars, hallVars
<1>7. ASSUME NEW a \in Attempts, GateLogout(a) PROVE TargetStays(b)'
  <2>1. CASE b = a
    BY <1>1, <1>2, <1>7, <2>1 DEF GateLogout, TargetStays, AgentStage
  <2>2. CASE b # a
    <3>1. UNCHANGED <<last, ktgt, agent>> /\ kst'[b] = kst[b]
      BY <1>2, <1>7, <2>2 DEF GateLogout, attemptVars
    <3>2. ASSUME kst[b] \in {"agent", "gate"}
          PROVE  users'[last[b]][UidOf[b]] = users[last[b]][UidOf[b]]
      <4>1. pc[a] = "kick" /\ pc[b] = "kick" /\ last[b] \in Halls
        BY <1>1, <1>7, <3>2 DEF CalmInv, CallsAwaited, CallsFollow, GateLogout
      <4>2. UidOf[a] # UidOf[b]  BY <2>2, <4>1, Alone DEF InHandler
      <4>3. last[a] \in Halls /\ UidOf[a] \in Uids
        BY <1>7, Known DEF GateLogout, CallsFollow
      <4> QED BY <1>1, <1>2, <1>7, <4>1, <4>2, <4>3 DEF GateLogout, Forget
    <3> QED BY <1>1, <3>1, <3>2 DEF TargetStays
  <2> QED BY <2>1, <2>2
<1>8. ASSUME NEW a \in Attempts, AgentExit(a) PROVE TargetStays(b)'
  <2>1. CASE b = a
    BY <1>1, <1>2, <1>8, <2>1 DEF AgentExit, TargetStays, AgentStage
  <2>2. CASE b # a
    <3>1. UNCHANGED <<last, ktgt, users>> /\ kst'[b] = kst[b]
      BY <1>2, <1>8, <2>2 DEF AgentExit, attemptVars
    <3>2. ASSUME kst[b] \in AgentStage PROVE ktgt[b] # ktgt[a]
      <4>1. pc[a] = "kick" /\ pc[b] = "kick"
        BY <1>1, <1>8, <3>2 DEF CalmInv, CallsAwaited, AgentExit, AgentStage
      <4>2. UidOf[a] # UidOf[b]  BY <2>2, <4>1, Alone DEF InHandler
      <4>3. UidOf[ktgt[a]] = UidOf[a] /\ UidOf[ktgt[b]] = UidOf[b]
        BY <1>1, <1>8, <3>2, Known DEF KickAimed, AgentExit, AgentStage
      <4> QED BY <4>2, <4>3
    <3> QED BY <1>1, <1>2, <1>8, <3>1, <3>2 DEF AgentExit, TargetStays
  <2> QED BY <2>1, <2>2
<1>9. ASSUME NEW a \in Attempts, LoginArrive(a) \/ LoginAgentFail(a) PROVE TargetStays(b)'
  <2>1. UNCHANGED <<last, kst, ktgt, users>>
    BY <1>9 DEF LoginArrive, LoginAgentFail, attemptVars, hallVars
  <2>2. \A x \in Attempts : agent[x] = "alive" => agent'[x] = "alive"
    BY <1>2, <1>9 DEF LoginArrive, LoginAgentFail, hallVars
  <2>3. kst[b] \in AgentStage => ktgt[b] \in Attempts  BY <1>1 DEF KickAimed
  <2> QED BY <1>1, <2>1, <2>2, <2>3 DEF TargetStays
<1>10. ASSUME NEW a \in Attempts, LoginReady(a) PROVE TargetStays(b)'
  <2>1. UNCHANGED <<last, kst, ktgt, agent>>
    BY <1>10 DEF LoginReady, attemptVars
  <2>2. ASSUME kst[b] \in {"agent", "gate"}
        PROVE  users'[last[b]][UidOf[b]] = users[last[b]][UidOf[b]]
    <3>1. pc[a] = "login" /\ pc[b] = "kick" /\ last[b] \in Halls
      BY <1>1, <1>10, <2>2 DEF CalmInv, CallsAwaited, CallsFollow, LoginReady
    <3>2. UidOf[a] # UidOf[b]  BY <3>1, Alone DEF InHandler
    <3>3. ahall[a] \in Halls /\ UidOf[a] \in Uids
      BY <1>10, Known DEF LoginReady, CallsFollow
    <3> QED BY <1>1, <1>2, <1>10, <3>1, <3>2, <3>3 DEF LoginReady
  <2> QED BY <1>1, <2>1, <2>2 DEF TargetStays
<1>11. CASE PingReturn
  BY <1>1, <1>11 DEF PingReturn, TargetStays, attemptVars, callVars, hallVars
<1>12. CASE UNCHANGED <<attemptVars, user_online, logouts, callVars, hallVars>>
  BY <1>1, <1>12 DEF TargetStays, attemptVars, callVars, hallVars
<1> QED BY <1>3, <1>4, <1>5, <1>6, <1>7, <1>8, <1>9, <1>10, <1>11, <1>12, CalmSteps

(* While a login of a user is under way, no step of another one changes    *)
(* the sessions of the user; its own steps change them as SessionsOf says. *)
LEMMA SessionsOfStep ==
  ASSUME NoFaults, IndInv, CalmInv, [Next]_vars, NEW b \in Attempts
  PROVE  SessionsOf(b)'
<1>1. /\ SessionsOf(b) /\ CallsAwaited(b) /\ CallsFollow(b)
      /\ UidOf[b] \in Uids
  BY Known DEF CalmInv
<1>2. /\ pc \in [Attempts -> {"idle"} \cup InHandler \cup Finished]
      /\ kst \in [Attempts -> KickStage]
      /\ lst \in [Attempts -> LoginStage]
      /\ last \in [Attempts -> Halls \cup {None}]
      /\ ahall \in [Attempts -> Halls \cup {None}]
      /\ users \in [Halls -> [Uids -> Attempts \cup {None}]]
      /\ \A h \in Halls, u \in Uids : users[h][u] \in Attempts \cup {None}
  BY Known
<1>3. ASSUME NEW a \in Attempts, Accept(a) PROVE SessionsOf(b)'
  <2>1. UNCHANGED users  BY <1>3 DEF Accept, hallVars
  <2>2. CASE b # a
    BY <1>1, <1>2, <1>3, <2>1, <2>2 DEF Accept, SessionsOf
  <2>3. CASE b = a /\ pc'[a] \in InHandler
    <3> DEFINE u == UidOf[a]
    <3>1. /\ pc[a] = "idle" /\ ~ user_login[u] /\ kst[a] = "none" /\ lst[a] = "none"
      BY <1>1, <1>2, <1>3, <2>3 DEF Accept, Locked, InHandler, CallsFollow
    <3>2. Serving(u) = {}  BY <1>1, <2>3, <3>1 DEF IndInv, LoginMutex
    <3>3. \A h \in Halls : users[h][u] # None =>
            user_online[u] = [server |-> h, secret |-> users[h][u]]
      <4> SUFFICES ASSUME NEW h \in Halls, users[h][u] # None
                   PROVE  user_online[u] = [server |-> h, secret |-> users[h][u]]
        OBVIOUS
      <4>1. Recorded(h, u) /\ SessionHasAgent(h, u) /\ users[h][u] \in Attempts
        BY <1>1, <1>2, <2>3, Known DEF CalmInv
      <4>2. pc[users[h][u]] # "login"
        BY <3>2, <4>1 DEF SessionHasAgent, Serving, InHandler
      <4> QED BY <4>1, <4>2 DEF Recorded
    <3>4. CASE user_online[u] # None
      <4>1. pc'[a] = "kick" /\ kst'[a] = "sent" /\ last'[a] = user_online[u].server
        BY <1>2, <1>3, <2>3, <3>4 DEF Accept, InHandler
      <4>2. \A h \in Halls : users[h][u] # None => h = user_online[u].server
        <5> SUFFICES ASSUME NEW h \in Halls, users[h][u] # None
                     PROVE  h = user_online[u].server
          OBVIOUS
        <5>1. user_online[u] = [server |-> h, secret |-> users[h][u]]  BY <3>3
        <5> QED BY <5>1
      <4> HIDE DEF u
      <4> QED BY <2>1, <2>3, <4>1, <4>2 DEF SessionsOf, u
    <3>5. CASE user_online[u] = None
      <4>1. pc'[a] = "login" /\ lst'[a] = "sent"
        BY <1>2, <1>3, <2>3, <3>5 DEF Accept, InHandler
      <4>2. \A h \in Halls : users[h][u] = None
        <5>1. ASSUME NEW h \in Halls, users[h][u] # None PROVE FALSE
          <6>1. [server |-> h, secret |-> users[h][u]] \in Session
            BY <1>1, <1>2, <2>3, <5>1 DEF Session
          <6> QED BY <3>3, <3>5, <5>1, <6>1, SessionAssumption
        <5> QED BY <5>1
      <4> QED BY <2>1, <2>3, <4>1, <4>2 DEF SessionsOf
    <3> QED BY <3>4, <3>5
  <2>4. CASE b = a /\ pc'[a] \notin InHandler
    BY <2>4 DEF SessionsOf, InHandler
  <2> QED BY <2>2, <2>3, <2>4
<1>4. ASSUME NEW a \in Attempts, KickReturn(a) PROVE SessionsOf(b)'
  <2>1. /\ UNCHANGED <<last, ahall, kst, users>> /\ pc[a] = "kick" /\ kst[a] = "reply"
    BY <1>4, KickThrough DEF KickReturn, hallVars
  <2>2. CASE b # a
    BY <1>1, <1>2, <1>4, <2>1, <2>2 DEF KickReturn, AfterKick, Finish, SessionsOf
  <2>3. CASE b = a
    <3>1. \A h \in Halls : users[h][UidOf[a]] = None
      BY <1>1, <2>1, <2>3 DEF SessionsOf
    <3>2. pc'[a] # "kick" /\ (pc'[a] = "login" => lst'[a] = "sent")
      BY <1>2, <1>4 DEF KickReturn, AfterKick, Finish
    <3> QED BY <2>1, <2>3, <3>1, <3>2 DEF SessionsOf
  <2> QED BY <2>2, <2>3
<1>5. ASSUME NEW a \in Attempts, LoginReturn(a) \/ LoginFailed(a)
      PROVE  SessionsOf(b)'
  BY <1>1, <1>2, <1>5
  DEF LoginReturn, LoginFailed, Finish, SessionsOf, callVars, hallVars
<1>6. ASSUME NEW a \in Attempts, Logout(a) PROVE SessionsOf(b)'
  BY <1>1, <1>6 DEF Logout, SessionsOf, attemptVars, callVars, hallVars
<1>7. ASSUME NEW a \in Attempts,
             KickArrive(a) \/ AgentLogout(a) \/ NotifyReturn(a) \/ AgentExit(a)
      PROVE  SessionsOf(b)'
  <2>1. UNCHANGED <<pc, last, ahall, lst, users>>
    BY <1>7 DEF KickArrive, AgentLogout, NotifyReturn, AgentExit, attemptVars, hallVars
  <2>2. CASE b # a
    <3>1. kst'[b] = kst[b]
      BY <1>2, <1>7, <2>2 DEF KickArrive, AgentLogout, NotifyReturn, AfterNotify, AgentExit
    <3> QED BY <1>1, <2>1, <3>1 DEF SessionsOf
  <2>3. CASE b = a
    <3>1. pc[b] = "kick"
      BY <1>1, <1>7, <2>3 DEF KickArrive, AgentLogout, NotifyReturn, AgentExit, CallsAwaited
    <3>2. last[b] \in Halls  BY <1>1, <1>7, <2>3
      DEF KickArrive, AgentLogout, NotifyReturn, AgentExit, CallsFollow
    <3>3. \A h \in Halls : users[h][UidOf[b]] # None =>
            h = last[b] /\ kst[b] \in {"sent", "agent", "gate"}
      BY <1>1, <3>1 DEF SessionsOf
    <3>4. \A h \in Halls : users[h][UidOf[b]] # None =>
            kst'[b] \in {"sent", "agent", "gate"}
      BY <1>2, <1>7, <2>3, <3>3
      DEF KickArrive, AgentLogout, NotifyReturn, AgentExit
    <3> QED BY <2>1, <3>1, <3>3, <3>4 DEF SessionsOf
  <2> QED BY <2>2, <2>3
<1>8. ASSUME NEW a \in Attempts, GateLogout(a) PROVE SessionsOf(b)'
  <2>1. /\ UNCHANGED <<pc, last, ahall, lst>>
        /\ kst[a] = "gate" /\ pc[a] = "kick" /\ last[a] \in Halls /\ UidOf[a] \in Uids
    BY <1>8, Known DEF GateLogout, attemptVars, CalmInv, CallsAwaited, CallsFollow
  <2>2. /\ users'[last[a]][UidOf[a]] = None
        /\ \A h \in Halls, u \in Uids :
             h # last[a] \/ u # UidOf[a] => users'[h][u] = users[h][u]
    BY <1>2, <1>8, <2>1 DEF GateLogout, Forget
  <2>3. CASE b = a
    <3>1. \A h \in Halls : users'[h][UidOf[b]] = None
      BY <1>1, <2>1, <2>2, <2>3 DEF SessionsOf
    <3> QED BY <2>1, <2>3, <3>1 DEF SessionsOf
  <2>4. CASE b # a
    <3>1. pc[b] \in InHandler => UidOf[b] # UidOf[a]
      BY <2>1, <2>4, Alone DEF InHandler
    <3>2. kst'[b] = kst[b]  BY <1>2, <1>8, <2>4 DEF GateLogout
    <3>3. pc[b] \in InHandler =>
            \A h \in Halls : users'[h][UidOf[b]] = users[h][UidOf[b]]
      BY <1>1, <2>2, <3>1
    <3> QED BY <1>1, <2>1, <3>2, <3>3 DEF SessionsOf, InHandler
  <2> QED BY <2>3, <2>4
<1>9. ASSUME NEW a \in Attempts, LoginArrive(a) \/ LoginAgentFail(a)
      PROVE  SessionsOf(b)'
  <2>1. UNCHANGED <<pc, last, ahall, kst, users>>
    BY <1>9 DEF LoginArrive, LoginAgentFail, attemptVars, hallVars
  <2>2. lst'[b] = "done" <=> lst[b] = "done"
    BY <1>2, <1>9 DEF LoginArrive, LoginAgentFail
  <2> QED BY <1>1, <2>1, <2>2 DEF SessionsOf
<1>10. ASSUME NEW a \in Attempts, LoginReady(a) PROVE SessionsOf(b)'
  <2>1. /\ UNCHANGED <<pc, last, ahall, kst>>
        /\ lst[a] = "starting" /\ pc[a] = "login" /\ ahall[a] \in Halls /\ UidOf[a] \in Uids
    BY <1>10, Known DEF LoginReady, attemptVars, CalmInv, CallsAwaited, CallsFollow
  <2>2. /\ users'[ahall[a]][UidOf[a]] = a
        /\ \A h \in Halls, u \in Uids :
             h # ahall[a] \/ u # UidOf[a] => users'[h][u] = users[h][u]
    BY <1>2, <1>10, <2>1 DEF LoginReady
  <2>3. CASE b = a
    <3>1. \A h \in Halls : users[h][UidOf[a]] = None
      BY <1>1, <2>1, <2>3 DEF SessionsOf
    <3>2. msg_online[ahall[a]][UidOf[a]] = None
      BY <2>1, <3>1 DEF IndInv, HallTablesAgree
    <3>3. lst'[a] = "done"  BY <1>2, <1>10, <3>2 DEF LoginReady
    <3> QED BY <1>1, <2>1, <2>2, <2>3, <3>1, <3>3 DEF SessionsOf
  <2>4. CASE b # a
    <3>1. pc[b] \in InHandler => UidOf[b] # UidOf[a]
      BY <2>1, <2>4, Alone DEF InHandler
    <3>2. lst'[b] = lst[b]  BY <1>2, <1>10, <2>4 DEF LoginReady
    <3>3. pc[b] \in InHandler =>
            \A h \in Halls : users'[h][UidOf[b]] = users[h][UidOf[b]]
      BY <1>1, <2>2, <3>1
    <3> QED BY <1>1, <2>1, <3>2, <3>3 DEF SessionsOf, InHandler
  <2> QED BY <2>3, <2>4
<1>11. CASE PingReturn
  BY <1>1, <1>11 DEF PingReturn, SessionsOf, attemptVars, callVars, hallVars
<1>12. CASE UNCHANGED <<attemptVars, user_online, logouts, callVars, hallVars>>
  BY <1>1, <1>12 DEF SessionsOf, attemptVars, callVars, hallVars
<1> QED BY <1>3, <1>4, <1>5, <1>6, <1>7, <1>8, <1>9, <1>10, <1>11, <1>12, CalmSteps

LEMMA RecordedStep ==
  ASSUME NoFaults, IndInv, CalmInv, [Next]_vars, NEW h \in Halls, NEW u \in Uids
  PROVE  Recorded(h, u)'
<1> DEFINE x == users[h][u]
<1>1. /\ Recorded(h, u) /\ SessionHasAgent(h, u) /\ x \in Attempts \cup {None}
      /\ x # None => CallsAwaited(x) /\ SessionsOf(x) /\ CallsFollow(x)
  BY Known DEF CalmInv
<1>2. /\ pc \in [Attempts -> {"idle"} \cup InHandler \cup Finished]
      /\ user_online \in [Uids -> Session \cup {None}]
      /\ users \in [Halls -> [Uids -> Attempts \cup {None}]]
      /\ \A a \in Attempts : UidOf[a] \in Uids
  BY Known
<1>3. ASSUME NEW a \in Attempts, Accept(a) PROVE Recorded(h, u)'
  <2>1. pc[a] = "idle" /\ UNCHANGED <<user_online, users>>
    BY <1>3 DEF Accept, hallVars
  <2>2. x # None /\ pc[x] = "login" => pc'[x] = "login"
    BY <1>1, <1>2, <1>3, <2>1 DEF Accept
  <2> QED BY <1>1, <2>1, <2>2 DEF Recorded
<1>4. ASSUME NEW a \in Attempts, KickReturn(a) PROVE Recorded(h, u)'
  <2>1. pc[a] = "kick" /\ UNCHANGED <<user_online, users>>
    BY <1>4 DEF KickReturn, hallVars
  <2>2. x # None /\ pc[x] = "login" => pc'[x] = "login"
    BY <1>1, <1>2, <1>4, <2>1 DEF KickReturn, AfterKick, Finish
  <2> QED BY <1>1, <2>1, <2>2 DEF Recorded
<1>5. ASSUME NEW a \in Attempts, LoginReturn(a) PROVE Recorded(h, u)'
  <2>1. /\ pc[a] = "login" /\ lst[a] = "done" /\ UNCHANGED users
        /\ user_online' = [user_online EXCEPT
                             ![UidOf[a]] = [server |-> ahall[a], secret |-> a]]
    BY <1>5 DEF LoginReturn, hallVars
  <2>2. CASE u = UidOf[a]
    <3>1. x # None => x = a /\ h = ahall[a]
      BY <2>1, <2>2 DEF CalmInv, SessionsOf
    <3> QED BY <1>2, <2>1, <2>2, <3>1 DEF Recorded
  <2>3. CASE u # UidOf[a]
    <3>1. x # None => x # a  BY <1>1, <2>3 DEF SessionHasAgent
    <3>2. user_online'[u] = user_online[u]  BY <1>2, <2>1, <2>3
    <3>3. x # None => pc'[x] = pc[x]
      BY <1>1, <1>2, <1>5, <3>1 DEF LoginReturn, Finish
    <3> QED BY <1>1, <2>1, <3>2, <3>3 DEF Recorded
  <2> QED BY <2>2, <2>3
<1>6. ASSUME NEW a \in Attempts, LoginFailed(a) PROVE Recorded(h, u)'
  <2>1. /\ pc[a] = "login" /\ lst[a] = "error" /\ UNCHANGED <<users, user_online>>
    BY <1>6 DEF LoginFailed, LoginRefused, hallVars, CalmInv, CallsAwaited
  <2>2. x # None => x # a
    BY <1>1, <2>1 DEF SessionHasAgent, SessionsOf
  <2>3. x # None => pc'[x] = pc[x]
    BY <1>1, <1>2, <1>6, <2>2 DEF LoginFailed, Finish
  <2> QED BY <1>1, <2>1, <2>3 DEF Recorded
<1>7. ASSUME NEW a \in Attempts, Logout(a) PROVE Recorded(h, u)'
  <2>1. /\ a \in logouts /\ UNCHANGED <<users, pc>>
        /\ user_online' = [user_online EXCEPT ![UidOf[a]] = None]
    BY <1>7 DEF Logout, hallVars, attemptVars
  <2>2. CASE u = UidOf[a]
    <3>1. kst[a] \in {"notify", "gonotify"} /\ pc[a] = "kick"
      BY <2>1 DEF CalmInv, CallsAwaited
    <3>2. x = None  BY <2>2, <3>1 DEF CalmInv, SessionsOf
    <3> QED BY <2>1, <3>2 DEF Recorded
  <2>3. CASE u # UidOf[a]
    BY <1>1, <1>2, <2>1, <2>3 DEF Recorded
  <2> QED BY <2>2, <2>3
<1>8. ASSUME NEW a \in Attempts, GateLogout(a) PROVE Recorded(h, u)'
  <2>1. last[a] \in Halls /\ UNCHANGED <<pc, user_online>>
    BY <1>8, Known DEF GateLogout, CallsFollow, attemptVars, loginVars
  <2>2. users'[h][u] \in {None, users[h][u]}
    BY <1>2, <1>8, <2>1 DEF GateLogout, Forget
  <2> QED BY <1>1, <2>1, <2>2 DEF Recorded
<1>9. ASSUME NEW a \in Attempts, LoginReady(a) PROVE Recorded(h, u)'
  <2>1. /\ ahall[a] \in Halls /\ pc[a] = "login" /\ UNCHANGED <<pc, user_online>>
    BY <1>9, Known DEF LoginReady, CallsFollow, attemptVars, loginVars, CalmInv, CallsAwaited
  <2>2. users'[h][u] \in {a, users[h][u]}
    BY <1>2, <1>9, <2>1 DEF LoginReady
  <2> QED BY <1>1, <2>1, <2>2 DEF Recorded
<1>10. CASE PingReturn
  <2>1. UNCHANGED <<users, pc>> /\ user_online' = recover_login(pcur, snap)
    BY <1>10 DEF PingReturn, hallVars, attemptVars
  <2>2. user_online[u] # None => user_online'[u] = user_online[u]
    BY <2>1 DEF recover_login
  <2>3. x # None => [server |-> h, secret |-> x] # None
    <3>1. x # None => [server |-> h, secret |-> x] \in Session  BY <1>1 DEF Session
    <3> QED BY <3>1, SessionAssumption
  <2> QED BY <1>1, <2>1, <2>2, <2>3 DEF Recorded
<1>11. CASE UNCHANGED <<pc, user_online, users>>
  BY <1>1, <1>11 DEF Recorded
<1>12. ASSUME NEW a \in Attempts,
              \/ KickArrive(a) \/ AgentLogout(a) \/ NotifyReturn(a) \/ AgentExit(a)
              \/ LoginArrive(a) \/ LoginAgentFail(a)
       PROVE  UNCHANGED <<pc, user_online, users>>
  BY <1>12
  DEF KickArrive, AgentLogout, NotifyReturn, AgentExit, LoginArrive, LoginAgentFail,
      attemptVars, loginVars, hallVars
<1>13. UNCHANGED <<attemptVars, user_online, logouts, callVars, hallVars>>
         => UNCHANGED <<pc, user_online, users>>
  BY DEF attemptVars, hallVars
<1> HIDE DEF x
<1> QED BY <1>3, <1>4, <1>5, <1>6, <1>7, <1>8, <1>9, <1>10, <1>11, <1>12, <1>13, CalmSteps

-----------------------------------------------------------------------------
(* The theorems.                                                           *)

LEMMA CalmInit ==
  ASSUME Init
  PROVE  CalmInv
BY SessionAssumption
   DEF Init, Nobody, CalmInv, CallsAwaited, TargetStays, AgentStage, SessionsOf, Recorded

(* While nothing breaks: calls run only while their login waits for them,  *)
(* the agent a kick is aimed at stays until it has done its part, and a    *)
(* user's sessions are those the stage of its login allows.                *)
THEOREM CalmInvariant == ASSUME NoFaults PROVE Spec => []CalmInv
<1>1. IndInv /\ CalmInv /\ [Next]_vars => CalmInv'
  BY CallsAwaitedStep, TargetStaysStep, SessionsOfStep, RecordedStep DEF CalmInv
<1>2. Init => CalmInv
  BY CalmInit
<1> QED
  BY <1>1, <1>2, SessionInvariant, PTL DEF Spec

(* While nothing breaks, the login master would kick every session that a  *)
(* hall serves (SessionKnown).                                             *)
THEOREM SessionsAreKnown == ASSUME NoFaults PROVE Spec => []SessionKnown
<1>1. IndInv /\ CalmInv => SessionKnown
  <2> SUFFICES ASSUME IndInv, CalmInv, NEW h \in Halls, NEW u \in Uids,
                      users[h][u] # None, Serving(u) = {}
               PROVE  user_online[u] = [server |-> h, secret |-> users[h][u]]
    BY DEF SessionKnown
  <2>1. Recorded(h, u) /\ SessionHasAgent(h, u) /\ users[h][u] \in Attempts
    BY Known DEF CalmInv
  <2>2. pc[users[h][u]] # "login"
    BY <2>1 DEF SessionHasAgent, Serving, InHandler
  <2> QED BY <2>1, <2>2 DEF Recorded
<1> QED
  BY <1>1, SessionInvariant, CalmInvariant, PTL

(* While nothing breaks, no two logins of a user run an agent's start at a *)
(* hall (gated.lua: "login_handler never be reentry").                     *)
THEOREM LoginNeverReentered == ASSUME NoFaults PROVE Spec => []NoReentry
<1>1. IndInv /\ CalmInv => NoReentry
  BY Alone DEF CalmInv, CallsAwaited, NoReentry, InHandler
<1> QED
  BY <1>1, SessionInvariant, CalmInvariant, PTL

(* While nothing breaks, a logout at the gate ends the session of the      *)
(* agent it comes from (OwnLogoutOnly), although all sessions of a uid     *)
(* have the same subid.                                                    *)
THEOREM LogoutsEndTheirOwn == ASSUME NoFaults PROVE Spec => OwnLogoutOnly
<1>1. IndInv /\ CalmInv /\ [Next]_vars =>
        [\A a \in Attempts :
           kst[a] = "gate" /\ kst'[a] = "notify" =>
             users[last[a]][UidOf[a]] = ktgt[a]]_vars
  BY DEF CalmInv, TargetStays
<1> QED
  BY <1>1, SessionInvariant, CalmInvariant, PTL DEF Spec, OwnLogoutOnly

-----------------------------------------------------------------------------
(* LoginSession implements SessionPromise.                                 *)

(* The variables of SessionPromise, as KeepsPromise gives them. *)
OpenSessions ==
  {[uid |-> p[1], hall |-> p[2], secret |-> users[p[2]][p[1]]] :
     p \in {p \in Uids \X Halls : users[p[2]][p[1]] # None}}
Spent == {a \in Attempts : lst[a] = "done"}
Answers == [a \in Attempts |-> IF pc[a] \in Finished THEN pc[a] ELSE "waiting"]

(* The session of uid u on hall h in the tables t, and all of theirs. *)
SessionIn(t, h, u) == [uid |-> u, hall |-> h, secret |-> t[h][u]]

OpenIn(t) ==
  {[uid |-> p[1], hall |-> p[2], secret |-> t[p[2]][p[1]]] :
     p \in {p \in Uids \X Halls : t[p[2]][p[1]] # None}}

LEMMA OpenSession ==
  \A t, s : s \in OpenIn(t) <=>
              \E h \in Halls, u \in Uids : t[h][u] # None /\ s = SessionIn(t, h, u)
<1> SUFFICES ASSUME NEW t, NEW s
             PROVE  s \in OpenIn(t) <=>
               \E h \in Halls, u \in Uids : t[h][u] # None /\ s = SessionIn(t, h, u)
  OBVIOUS
<1>1. ASSUME s \in OpenIn(t)
      PROVE  \E h \in Halls, u \in Uids : t[h][u] # None /\ s = SessionIn(t, h, u)
  <2>1. PICK p \in Uids \X Halls :
          /\ t[p[2]][p[1]] # None
          /\ s = [uid |-> p[1], hall |-> p[2], secret |-> t[p[2]][p[1]]]
    BY <1>1 DEF OpenIn
  <2> QED BY <2>1 DEF SessionIn
<1>2. ASSUME NEW h \in Halls, NEW u \in Uids, t[h][u] # None
      PROVE  SessionIn(t, h, u) \in OpenIn(t)
  <2> DEFINE p == <<u, h>>
  <2>1. p \in Uids \X Halls /\ p[1] = u /\ p[2] = h  OBVIOUS
  <2>2. [uid |-> p[1], hall |-> p[2], secret |-> t[p[2]][p[1]]] \in OpenIn(t)
    BY <1>2, <2>1 DEF OpenIn
  <2> QED BY <2>1, <2>2 DEF SessionIn
<1> QED BY <1>1, <1>2

(* What Promise!sessions stands for. *)
LEMMA OpenSessionsAre ==
  OpenSessions = OpenIn(users) /\ OpenSessions' = OpenIn(users')
BY DEF OpenSessions, OpenIn

(* Nothing changes for the clients. *)
LEMMA PromiseStutters ==
  ASSUME UNCHANGED users, Spent' = Spent, Answers' = Answers
  PROVE  UNCHANGED Promise!promiseVars
BY DEF Promise!promiseVars, Spent, Answers

(* A client is told 403, 404 or 406. *)
LEMMA PromiseDenies ==
  ASSUME NEW a \in Attempts, pc \in [Attempts -> {"idle"} \cup InHandler \cup Finished],
         pc[a] \notin Finished, pc' = [pc EXCEPT ![a] = "denied"],
         UNCHANGED users, Spent' = Spent
  PROVE  Promise!PromiseNext
<1>1. Answers[a] = "waiting" /\ Answers' = [Answers EXCEPT ![a] = "denied"]
  BY DEF Answers, Finished
<1>2. Promise!Deny(a)
  BY <1>1 DEF Promise!Deny, Answers, Spent
<1> QED BY <1>2 DEF Promise!PromiseNext

(* An entry written in the tables, where the user had none anywhere. *)
LEMMA OpensOne ==
  ASSUME NEW t, NEW n, NEW h \in Halls, NEW u \in Uids, NEW a,
         a # None, n[h][u] = a, t[h][u] = None,
         \A g \in Halls, v \in Uids : g # h \/ v # u => n[g][v] = t[g][v]
  PROVE  OpenIn(n) = OpenIn(t) \cup {[uid |-> u, hall |-> h, secret |-> a]}
<1>1. ASSUME NEW s \in OpenIn(n)
      PROVE  s \in OpenIn(t) \cup {[uid |-> u, hall |-> h, secret |-> a]}
  <2>1. PICK g \in Halls, v \in Uids : n[g][v] # None /\ s = SessionIn(n, g, v)
    BY <1>1, OpenSession
  <2>2. CASE g = h /\ v = u  BY <2>1, <2>2 DEF SessionIn
  <2>3. CASE g # h \/ v # u
    <3>1. t[g][v] # None /\ s = SessionIn(t, g, v)  BY <2>1, <2>3 DEF SessionIn
    <3> QED BY <3>1, OpenSession
  <2> QED BY <2>2, <2>3
<1>2. ASSUME NEW s \in OpenIn(t) PROVE s \in OpenIn(n)
  <2>1. PICK g \in Halls, v \in Uids : t[g][v] # None /\ s = SessionIn(t, g, v)
    BY <1>2, OpenSession
  <2>2. n[g][v] # None /\ s = SessionIn(n, g, v)  BY <2>1 DEF SessionIn
  <2> QED BY <2>2, OpenSession
<1>3. [uid |-> u, hall |-> h, secret |-> a] \in OpenIn(n)
  <2>1. [uid |-> u, hall |-> h, secret |-> a] = SessionIn(n, h, u)  BY DEF SessionIn
  <2> QED BY <2>1, OpenSession
<1> QED BY <1>1, <1>2, <1>3

(* An entry taken out of the tables. *)
LEMMA ClosesOne ==
  ASSUME NEW t, NEW n, NEW h \in Halls, NEW u \in Uids,
         n[h][u] = None,
         \A g \in Halls, v \in Uids : g # h \/ v # u => n[g][v] = t[g][v]
  PROVE  OpenIn(n) = OpenIn(t) \ {SessionIn(t, h, u)}
<1>1. ASSUME NEW s \in OpenIn(n)
      PROVE  s \in OpenIn(t) /\ s # SessionIn(t, h, u)
  <2>1. PICK g \in Halls, v \in Uids : n[g][v] # None /\ s = SessionIn(n, g, v)
    BY <1>1, OpenSession
  <2>2. g # h \/ v # u  BY <2>1
  <2>3. t[g][v] # None /\ s = SessionIn(t, g, v)  BY <2>1, <2>2 DEF SessionIn
  <2>4. SessionIn(t, g, v) # SessionIn(t, h, u)
    <3>1. /\ SessionIn(t, g, v).hall = g /\ SessionIn(t, g, v).uid = v
          /\ SessionIn(t, h, u).hall = h /\ SessionIn(t, h, u).uid = u
      BY DEF SessionIn
    <3> QED BY <2>2, <3>1
  <2> QED BY <2>3, <2>4, OpenSession
<1>2. ASSUME NEW s \in OpenIn(t), s # SessionIn(t, h, u) PROVE s \in OpenIn(n)
  <2>1. PICK g \in Halls, v \in Uids : t[g][v] # None /\ s = SessionIn(t, g, v)
    BY <1>2, OpenSession
  <2>2. g # h \/ v # u  BY <1>2, <2>1
  <2>3. n[g][v] # None /\ s = SessionIn(n, g, v)  BY <2>1, <2>2 DEF SessionIn
  <2> QED BY <2>3, OpenSession
<1> QED BY <1>1, <1>2

(* do_login's last part opens the session of its own login. *)
LEMMA ReadyOpens ==
  ASSUME IndInv, CalmInv, NEW a \in Attempts, LoginReady(a)
  PROVE  Promise!PromiseNext
<1>1. PICK h \in Halls, u \in Uids : h = ahall[a] /\ u = UidOf[a]
  BY Known, SessionAssumption DEF LoginReady, CalmInv, CallsAwaited, CallsFollow
<1>2. /\ lst[a] = "starting"
      /\ users' = [users EXCEPT ![h][u] = a] /\ UNCHANGED pc
      /\ lst \in [Attempts -> LoginStage]
      /\ users \in [Halls -> [Uids -> Attempts \cup {None}]]
      /\ a # None
  BY <1>1, Known, SessionAssumption DEF LoginReady, attemptVars
<1>3. \A g \in Halls : users[g][u] = None
  BY <1>1, <1>2, Known, SessionAssumption DEF CalmInv, SessionsOf, CallsAwaited
<1>4. msg_online[h][u] = None
  BY <1>3 DEF IndInv, HallTablesAgree
<1>5. lst' = [lst EXCEPT ![a] = "done"]
  BY <1>1, <1>4 DEF LoginReady
<1>6. a \notin Spent /\ Spent' = Spent \cup {a}
  BY <1>2, <1>5 DEF Spent
<1>7. /\ users'[h][u] = a
      /\ \A g \in Halls, v \in Uids : g # h \/ v # u => users'[g][v] = users[g][v]
  BY <1>2
<1>8. OpenIn(users') = OpenIn(users) \cup {[uid |-> u, hall |-> h, secret |-> a]}
  <2>1. users[h][u] = None  BY <1>3
  <2>2. a # None  BY <1>2
  <2>3. users'[h][u] = a  BY <1>7
  <2>4. \A g \in Halls, v \in Uids : g # h \/ v # u => users'[g][v] = users[g][v]
    BY <1>7
  <2> QED BY <2>1, <2>2, <2>3, <2>4, OpensOne
<1>9. \A s \in OpenIn(users) : s.uid # u
  <2> SUFFICES ASSUME NEW s \in OpenIn(users) PROVE s.uid # u  OBVIOUS
  <2>1. PICK g \in Halls, v \in Uids : users[g][v] # None /\ s = SessionIn(users, g, v)
    BY OpenSession
  <2>2. s.uid = v  BY <2>1 DEF SessionIn
  <2> QED BY <1>3, <2>1, <2>2
<1>10. Answers' = Answers  BY <1>2 DEF Answers
<1>11. Promise!Open(a, h)
  BY <1>1, <1>6, <1>8, <1>9, <1>10, OpenSessionsAre
  DEF Promise!Open, OpenSessions, Spent, Answers
<1> QED BY <1>11 DEF Promise!PromiseNext

(* A logout at the gate closes one session. *)
LEMMA ForgetCloses ==
  ASSUME IndInv, NEW a \in Attempts, GateLogout(a), users[last[a]][UidOf[a]] # None
  PROVE  Promise!PromiseNext
<1>1. PICK h \in Halls, u \in Uids : h = last[a] /\ u = UidOf[a]
  BY Known, SessionAssumption DEF GateLogout, CallsFollow
<1>2. /\ users' = [users EXCEPT ![h][u] = None]
      /\ UNCHANGED <<pc, lst>>
      /\ users \in [Halls -> [Uids -> Attempts \cup {None}]]
      /\ users[h][u] # None
  BY <1>1, Known DEF GateLogout, Forget, attemptVars
<1>3. /\ users'[h][u] = None
      /\ \A g \in Halls, v \in Uids : g # h \/ v # u => users'[g][v] = users[g][v]
  BY <1>2
<1>4. OpenIn(users') = OpenIn(users) \ {SessionIn(users, h, u)}
  BY <1>3, ClosesOne
<1>5. Answers' = Answers /\ Spent' = Spent  BY <1>2 DEF Answers, Spent
<1>6. PICK s : s = SessionIn(users, h, u)  OBVIOUS
<1>7. s \in OpenSessions
  BY <1>2, <1>6, OpenSession, OpenSessionsAre
<1>8. Promise!Close(s)
  BY <1>4, <1>5, <1>6, OpenSessionsAre DEF Promise!Close, OpenSessions, Spent, Answers
<1> QED BY <1>7, <1>8 DEF Promise!PromiseNext, OpenSessions

LEMMA ReturnGrants ==
  ASSUME IndInv, CalmInv, NEW a \in Attempts, LoginReturn(a)
  PROVE  Promise!PromiseNext
<1>1. /\ pc[a] = "login" /\ lst[a] = "done" /\ UNCHANGED <<users, lst>>
      /\ pc' = [pc EXCEPT ![a] = IF ap[a] THEN "ok" ELSE "denied"]
      /\ pc \in [Attempts -> {"idle"} \cup InHandler \cup Finished]
      /\ ahall[a] \in Halls /\ UidOf[a] \in Uids
  BY Known DEF LoginReturn, Finish, hallVars, callVars, CallsFollow, InHandler
<1>2. Spent' = Spent  BY <1>1 DEF Spent
<1>3. CASE ap[a]
  <2>1. Answers[a] = "waiting" /\ Answers' = [Answers EXCEPT ![a] = "ok"]
    BY <1>1, <1>3 DEF Answers, Finished
  <2>2. users[ahall[a]][UidOf[a]] = a  BY <1>1 DEF CalmInv, SessionsOf
  <2>3. SessionIn(users, ahall[a], UidOf[a]) \in OpenSessions
    BY <1>1, <2>2, OpenSession, OpenSessionsAre, SessionAssumption
  <2>4. SessionIn(users, ahall[a], UidOf[a]).secret = a  BY <2>2 DEF SessionIn
  <2>5. \E s \in OpenSessions : s.secret = a  BY <2>3, <2>4
  <2>6. Promise!Grant(a)
    BY <1>1, <1>2, <2>1, <2>5 DEF Promise!Grant, OpenSessions, Spent, Answers
  <2> QED BY <2>6 DEF Promise!PromiseNext
<1>4. CASE ~ ap[a]
  <2>1. pc' = [pc EXCEPT ![a] = "denied"] /\ pc[a] \notin Finished
    BY <1>1, <1>4 DEF Finished
  <2> QED BY <1>1, <1>2, <2>1, PromiseDenies
<1> QED BY <1>3, <1>4

LEMMA PromiseStep ==
  ASSUME NoFaults, IndInv, CalmInv, [Next]_vars
  PROVE  [Promise!PromiseNext]_(Promise!promiseVars)
<1>1. /\ pc \in [Attempts -> {"idle"} \cup InHandler \cup Finished]
      /\ lst \in [Attempts -> LoginStage]
  BY Known
<1>2. ASSUME NEW a \in Attempts, Accept(a) \/ KickReturn(a) \/ LoginFailed(a)
      PROVE  [Promise!PromiseNext]_(Promise!promiseVars)
  <2>1. UNCHANGED users  BY <1>2 DEF Accept, KickReturn, LoginFailed, hallVars
  <2>2. pc[a] \notin Finished
    BY <1>2 DEF Accept, KickReturn, LoginFailed, LoginRefused, Finished
  <2>3. lst' = lst \/ (lst[a] # "done" /\ lst' = [lst EXCEPT ![a] = "sent"])
    BY <1>2, Known DEF Accept, KickReturn, AfterKick, LoginFailed, callVars, CallsFollow
  <2>4. Spent' = Spent  BY <1>1, <2>3 DEF Spent
  <2>5. CASE pc' = [pc EXCEPT ![a] = "denied"]
    BY <1>1, <2>1, <2>2, <2>4, <2>5, PromiseDenies
  <2>6. CASE \E p \in {"kick", "login"} : pc' = [pc EXCEPT ![a] = p]
    <3>1. Answers' = Answers  BY <1>1, <2>2, <2>6 DEF Answers, Finished
    <3> QED BY <2>1, <2>4, <3>1, PromiseStutters
  <2>7. \/ pc' = [pc EXCEPT ![a] = "denied"]
        \/ \E p \in {"kick", "login"} : pc' = [pc EXCEPT ![a] = p]
    BY <1>2 DEF Accept, KickReturn, AfterKick, LoginFailed, Finish
  <2> QED BY <2>5, <2>6, <2>7
<1>3. ASSUME NEW a \in Attempts, GateLogout(a), users[last[a]][UidOf[a]] = None
      PROVE  UNCHANGED <<pc, lst, users>>
  BY <1>3 DEF GateLogout, attemptVars
<1>4. CASE UNCHANGED <<pc, lst, users>>
  BY <1>4, PromiseStutters DEF Spent, Answers
<1>5. ASSUME NEW a \in Attempts,
             \/ Logout(a) \/ KickArrive(a) \/ AgentLogout(a) \/ NotifyReturn(a)
             \/ AgentExit(a)
      PROVE  UNCHANGED <<pc, lst, users>>
  BY <1>5
  DEF Logout, KickArrive, AgentLogout, NotifyReturn, AgentExit, attemptVars, callVars, hallVars
<1>6. ASSUME NEW a \in Attempts, LoginArrive(a) \/ LoginAgentFail(a)
      PROVE  [Promise!PromiseNext]_(Promise!promiseVars)
  <2>1. UNCHANGED <<pc, users>>
    BY <1>6 DEF LoginArrive, LoginAgentFail, attemptVars, hallVars
  <2>2. Spent' = Spent
    BY <1>1, <1>6 DEF LoginArrive, LoginAgentFail, Spent
  <2> QED BY <2>1, <2>2, PromiseStutters DEF Answers
<1>7. PingReturn => UNCHANGED <<pc, lst, users>>
  BY DEF PingReturn, attemptVars, callVars, hallVars
<1>8. UNCHANGED <<attemptVars, user_online, logouts, callVars, hallVars>>
        => UNCHANGED <<pc, lst, users>>
  BY DEF attemptVars, callVars, hallVars
<1>9. ASSUME NEW a \in Attempts, LoginReturn(a) \/ LoginReady(a) \/ GateLogout(a)
      PROVE  [Promise!PromiseNext]_(Promise!promiseVars)
  BY <1>3, <1>4, <1>9, ReturnGrants, ReadyOpens, ForgetCloses
<1> QED BY <1>2, <1>4, <1>5, <1>6, <1>7, <1>8, <1>9, CalmSteps

(* While nothing breaks, login, gates and agents together do what          *)
(* SessionPromise says: an account has one session at most, over all       *)
(* halls, it is opened once for the login that asked for it, and a client  *)
(* is told 200 only while its session is there (KeepsPromise).             *)
THEOREM PromiseKept == ASSUME NoFaults PROVE Spec => KeepsPromise
<1>1. Init => Promise!PromiseInit
  BY DEF Init, Nobody, Promise!PromiseInit, Finished
<1>2. IndInv /\ CalmInv /\ [Next]_vars => [Promise!PromiseNext]_(Promise!promiseVars)
  BY PromiseStep
<1> QED
  BY <1>1, <1>2, SessionInvariant, CalmInvariant, PTL
  DEF Spec, KeepsPromise, Promise!PromiseSpec
=============================================================================

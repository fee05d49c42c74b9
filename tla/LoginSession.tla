---------------------------- MODULE LoginSession ----------------------------
(***************************************************************************)
(* The session protocol between the login master (login/logind.lua over    *)
(* lualib/loginserverx.lua), the gate of every hall server (hall/gated.lua *)
(* over lualib/msgserver0.lua) and the agent of every player               *)
(* (hall/msgagent.lua).                                                    *)
(*                                                                         *)
(* Every one of them is a skynet service: one message at a time, and a     *)
(* handler is atomic only up to its next call.  An action below is the     *)
(* code between two such points.                                           *)
(*                                                                         *)
(* An attempt is one accepted client connection that passed the slave's    *)
(* authentication.  It is also the secret of the session it asks for and   *)
(* the agent service its login call starts: secrets and service addresses  *)
(* are fresh for every attempt.                                            *)
(***************************************************************************)
EXTENDS Integers, FiniteSets, Functions

CONSTANTS
  Uids,             \* account ids, natural numbers
  Halls,            \* names of the hall servers of the configuration
  Attempts,         \* accepted logins
  UidOf,            \* the account of an attempt
  None,             \* nil
  MaxBreaks,        \* bound: broken cluster connections
  MaxHallRestarts,  \* bound: crashes of a hall process
  MaxLoginRestarts  \* bound: crashes of the login process

Session == [server : Halls, secret : Attempts]

ASSUME SessionAssumption ==
  /\ {MaxBreaks, MaxHallRestarts, MaxLoginRestarts} \subseteq Nat
  /\ Uids \subseteq Nat
  /\ IsFiniteSet(Halls) /\ Halls # {}
  /\ UidOf \in [Attempts -> Uids]
  /\ None \notin Attempts \cup Halls \cup Session

VARIABLES
  \* login master
  pc,            \* where the coroutine of an attempt stands
  last,          \* the hall its kick call goes to
  ahall,         \* the hall select_hall gave it
  ap,            \* whether that hall's access point was known by then
  user_login,    \* loginserverx: the lock on a uid
  user_online,   \* logind: uid -> session record
  hall_servers,  \* logind: what is known of a hall
  order,         \* the order in which table.indices lists the halls
  logouts,       \* "logout" calls sent to the login master, not handled yet
  \* the ping loop of the login master
  ppc, todo, pcur, snap,
  \* hall servers
  kst,           \* where the kick call of an attempt stands at the hall
  ktgt,          \* the agent that kick is aimed at
  lst,           \* where the login call of an attempt stands at the hall
  agent,         \* life of the agent an attempt started
  users,         \* gated: uid -> agent (username_map has the same pairs)
  msg_online,    \* msgserver0: the session of the uid's username
  \* faults so far
  breaks, hallRestarts, loginRestarts

attemptVars == <<pc, last, ahall, ap>>
loginVars   == <<user_login, user_online, hall_servers, order>>
pingVars    == <<ppc, todo, pcur, snap>>
callVars    == <<kst, ktgt, lst>>
hallVars    == <<agent, users, msg_online>>
faultVars   == <<breaks, hallRestarts, loginRestarts>>

vars == <<attemptVars, loginVars, logouts, pingVars, callVars, hallVars,
          faultVars>>

-----------------------------------------------------------------------------
InHandler  == {"kick", "kickBroken", "login", "loginBroken"}
Finished   == {"ok", "denied"}
KickStage  == {"none", "sent", "agent", "gate", "notify", "exit", "gonotify",
               "reply"}
AgentStage == {"agent", "gate", "notify", "exit"}
LoginStage == {"none", "sent", "starting", "done", "error"}

(* Orders in which the table of hall names can be traversed. *)
Orders == Bijection(0 .. Cardinality(Halls) - 1, Halls)

AttemptTypes ==
  /\ pc \in [Attempts -> {"idle"} \cup InHandler \cup Finished]
  /\ last \in [Attempts -> Halls \cup {None}]
  /\ ahall \in [Attempts -> Halls \cup {None}]
  /\ ap \in [Attempts -> BOOLEAN]

LoginTypes ==
  /\ user_login \in [Uids -> BOOLEAN]
  /\ user_online \in [Uids -> Session \cup {None}]
  /\ hall_servers \in [Halls -> {"absent", "named", "ready"}]
  /\ order \in [0 .. Cardinality(Halls) - 1 -> Halls]
  /\ logouts \subseteq Attempts

PingTypes ==
  /\ ppc \in {"off", "next", "call", "reply", "broken"}
  /\ todo \subseteq Halls
  /\ pcur \in Halls \cup {None}
  /\ snap \in [Uids -> Attempts \cup {None}]

CallTypes ==
  /\ kst \in [Attempts -> KickStage]
  /\ ktgt \in [Attempts -> Attempts \cup {None}]
  /\ lst \in [Attempts -> LoginStage]

HallTypes ==
  /\ agent \in [Attempts -> {"none", "alive", "dead"}]
  /\ users \in [Halls -> [Uids -> Attempts \cup {None}]]
  /\ msg_online \in [Halls -> [Uids -> Attempts \cup {None}]]

FaultTypes ==
  /\ breaks \in 0 .. MaxBreaks
  /\ hallRestarts \in 0 .. MaxHallRestarts
  /\ loginRestarts \in 0 .. MaxLoginRestarts

TypeOK ==
  AttemptTypes /\ LoginTypes /\ PingTypes /\ CallTypes /\ HallTypes /\ FaultTypes

Nobody == [u \in Uids |-> None]

Init ==
  /\ pc = [a \in Attempts |-> "idle"]
  /\ last = [a \in Attempts |-> None]
  /\ ahall = [a \in Attempts |-> None]
  /\ ap = [a \in Attempts |-> FALSE]
  /\ user_login = [u \in Uids |-> FALSE]
  /\ user_online = Nobody
  /\ hall_servers = [h \in Halls |-> "absent"]
  /\ order \in Orders
  /\ logouts = {}
  /\ ppc = "off" /\ todo = {} /\ pcur = None /\ snap = Nobody
  /\ kst = [a \in Attempts |-> "none"]
  /\ ktgt = [a \in Attempts |-> None]
  /\ lst = [a \in Attempts |-> "none"]
  /\ agent = [a \in Attempts |-> "none"]
  /\ users = [h \in Halls |-> Nobody]
  /\ msg_online = [h \in Halls |-> Nobody]
  /\ breaks = 0 /\ hallRestarts = 0 /\ loginRestarts = 0

-----------------------------------------------------------------------------
(* The login master: one coroutine per attempt.                            *)

select_hall(u) == order[u % Cardinality(Halls)]

(* accept refuses a uid that is in its login already. *)
LockIgnored(u) == FALSE  \* mutant: multilogin switched on

Locked(u) == user_login[u]

(* Mutant: an error skips the line that drops the lock. *)
FinishKeepsLock(a, verdict) ==
  /\ pc' = [pc EXCEPT ![a] = verdict]
  /\ user_login' = [user_login EXCEPT ![UidOf[a]] = verdict # "ok"]

(* The end of accept: the lock is dropped, the client gets 200 or 403. *)
Finish(a, verdict) ==
  /\ pc' = [pc EXCEPT ![a] = verdict]
  /\ user_login' = [user_login EXCEPT ![UidOf[a]] = FALSE]

(* accept and login_handler up to its first call.  406 under the lock; 403 *)
(* while hall_servers is empty (the modulus is zero).                      *)
Accept(a) ==
  LET u == UidOf[a]
      h == select_hall(u)
      cur == user_online[u]
  IN /\ pc[a] = "idle"
     /\ \/ /\ Locked(u) \/ hall_servers[h] = "absent"
           /\ pc' = [pc EXCEPT ![a] = "denied"]
           /\ UNCHANGED <<last, ahall, ap, user_login, kst, lst>>
        \/ /\ ~Locked(u) /\ hall_servers[h] # "absent"
           /\ user_login' = [user_login EXCEPT ![u] = TRUE]
           /\ ahall' = [ahall EXCEPT ![a] = h]
           /\ ap' = [ap EXCEPT ![a] = hall_servers[h] = "ready"]
           /\ \/ /\ cur # None
                 /\ pc' = [pc EXCEPT ![a] = "kick"]
                 /\ last' = [last EXCEPT ![a] = cur.server]
                 /\ kst' = [kst EXCEPT ![a] = "sent"]
                 /\ UNCHANGED lst
              \/ /\ cur = None
                 /\ pc' = [pc EXCEPT ![a] = "login"]
                 /\ lst' = [lst EXCEPT ![a] = "sent"]
                 /\ UNCHANGED <<last, kst>>
     /\ UNCHANGED <<user_online, hall_servers, order, logouts, pingVars, ktgt,
                    hallVars, faultVars>>

(* login_handler between its two calls, with the entry the kick left. *)
AfterKick(a) ==
  IF user_online'[UidOf[a]] # None
  THEN Finish(a, "denied") /\ UNCHANGED lst
  ELSE /\ pc' = [pc EXCEPT ![a] = "login"]
       /\ lst' = [lst EXCEPT ![a] = "sent"]
       /\ UNCHANGED user_login

(* kick_handler answers when its chain is through, or when the agent it    *)
(* waits for dies under it (the call fails inside its pcall).              *)
KickAnswered(a) ==
  \/ kst[a] = "reply"
  \/ kst[a] \in AgentStage /\ agent[ktgt[a]] = "dead"

KickReturn(a) ==
  /\ pc[a] = "kick" /\ KickAnswered(a)
  /\ UNCHANGED user_online
  /\ AfterKick(a)
  /\ UNCHANGED <<last, ahall, ap, hall_servers, order, logouts, pingVars, kst,
                 ktgt, hallVars, faultVars>>

(* The call failed: the entry is dropped before it is looked at again. *)
KickFailed(a) ==
  /\ pc[a] = "kickBroken"
  /\ user_online' = [user_online EXCEPT ![UidOf[a]] = None]
  /\ AfterKick(a)
  /\ UNCHANGED <<last, ahall, ap, hall_servers, order, logouts, pingVars, kst,
                 ktgt, hallVars, faultVars>>

(* Mutant: the answer is built before the session is recorded. *)
LoginReturnAnswerFirst(a) ==
  /\ pc[a] = "login" /\ lst[a] = "done"
  /\ user_online' = IF ap[a]
                    THEN [user_online EXCEPT
                            ![UidOf[a]] = [server |-> ahall[a], secret |-> a]]
                    ELSE user_online
  /\ Finish(a, IF ap[a] THEN "ok" ELSE "denied")
  /\ UNCHANGED <<last, ahall, ap, hall_servers, order, logouts, pingVars,
                 callVars, hallVars, faultVars>>

(* The login call succeeded.  The session is recorded before the answer is *)
(* built, which fails while the hall's access point is unknown.            *)
LoginReturn(a) ==
  /\ pc[a] = "login" /\ lst[a] = "done"
  /\ user_online' = [user_online EXCEPT
                       ![UidOf[a]] = [server |-> ahall[a], secret |-> a]]
  /\ Finish(a, IF ap[a] THEN "ok" ELSE "denied")
  /\ UNCHANGED <<last, ahall, ap, hall_servers, order, logouts, pingVars,
                 callVars, hallVars, faultVars>>

LoginRefused(a) ==
  \/ pc[a] = "login" /\ lst[a] = "error"
  \/ pc[a] = "loginBroken"

(* Mutant: the result of the pcall is not looked at. *)
LoginFailedUnnoticed(a) ==
  /\ LoginRefused(a)
  /\ Finish(a, "ok")
  /\ UNCHANGED <<last, ahall, ap, user_online, hall_servers, order, logouts,
                 pingVars, callVars, hallVars, faultVars>>

LoginFailed(a) ==
  /\ LoginRefused(a)
  /\ Finish(a, "denied")
  /\ UNCHANGED <<last, ahall, ap, user_online, hall_servers, order, logouts,
                 pingVars, callVars, hallVars, faultVars>>

(* Mutant: the logout waits until no login of the user is under way. *)
LogoutAfterLogin(a) ==
  /\ a \in logouts /\ ~user_login[UidOf[a]]
  /\ logouts' = logouts \ {a}
  /\ user_online' = [user_online EXCEPT ![UidOf[a]] = None]
  /\ UNCHANGED <<attemptVars, user_login, hall_servers, order, pingVars,
                 callVars, hallVars, faultVars>>

(* CMD.logout, called by a hall on behalf of attempt a's kick. *)
Logout(a) ==
  /\ a \in logouts
  /\ logouts' = logouts \ {a}
  /\ user_online' = [user_online EXCEPT ![UidOf[a]] = None]
  /\ UNCHANGED <<attemptVars, user_login, hall_servers, order, pingVars,
                 callVars, hallVars, faultVars>>

-----------------------------------------------------------------------------
(* The ping loop of the login master and the gate's answer.                *)

(* CMD.start, called by login/main.lua. *)
Start ==
  /\ ppc = "off"
  /\ hall_servers' = [h \in Halls |-> "named"]
  /\ ppc' = "next" /\ todo' = Halls
  /\ UNCHANGED <<attemptVars, user_login, user_online, order, logouts, pcur,
                 snap, callVars, hallVars, faultVars>>

PingCall(h) ==
  /\ ppc = "next" /\ h \in todo
  /\ ppc' = "call" /\ pcur' = h /\ todo' = todo \ {h}
  /\ UNCHANGED <<attemptVars, loginVars, logouts, snap, callVars, hallVars,
                 faultVars>>

(* CMD.ping of the gate: a copy of its users as they are now. *)
PingHandle ==
  /\ ppc = "call"
  /\ ppc' = "reply" /\ snap' = users[pcur]
  /\ UNCHANGED <<attemptVars, loginVars, logouts, todo, pcur, callVars,
                 hallVars, faultVars>>

(* Mutant: every unknown uid gets an entry, session or not. *)
recover_everybody(h, s) ==
  [u \in Uids |-> IF user_online[u] = None
                  THEN [server |-> h, secret |-> s[u]]
                  ELSE user_online[u]]

recover_login(h, s) ==
  [u \in Uids |-> IF user_online[u] = None /\ s[u] # None
                  THEN [server |-> h, secret |-> s[u]]
                  ELSE user_online[u]]

(* Mutant: users are recovered from the first answer of a hall only. *)
PingReturnFirstOnly ==
  /\ ppc = "reply"
  /\ user_online' = IF hall_servers[pcur] = "named"
                    THEN recover_login(pcur, snap) ELSE user_online
  /\ hall_servers' = [hall_servers EXCEPT ![pcur] = "ready"]
  /\ ppc' = "next" /\ pcur' = None /\ snap' = Nobody
  /\ UNCHANGED <<attemptVars, user_login, order, logouts, todo, callVars,
                 hallVars, faultVars>>

(* update_hall_state after a good answer.  The field it tests is never     *)
(* set, so it takes the branch of the first handshake every time.          *)
PingReturn ==
  /\ ppc = "reply"
  /\ user_online' = recover_login(pcur, snap)
  /\ hall_servers' = [hall_servers EXCEPT ![pcur] = "ready"]
  /\ ppc' = "next" /\ pcur' = None /\ snap' = Nobody
  /\ UNCHANGED <<attemptVars, user_login, order, logouts, todo, callVars,
                 hallVars, faultVars>>

PingFailed ==
  /\ ppc = "broken"
  /\ ppc' = "next" /\ pcur' = None /\ snap' = Nobody
  /\ UNCHANGED <<attemptVars, loginVars, logouts, todo, callVars, hallVars,
                 faultVars>>

NextRound ==
  /\ ppc = "next" /\ todo = {}
  /\ todo' = Halls
  /\ UNCHANGED <<attemptVars, loginVars, logouts, ppc, pcur, snap, callVars,
                 hallVars, faultVars>>

-----------------------------------------------------------------------------
(* The kick call of attempt a at the hall: gate, agent, gate, login, and   *)
(* back.  Other messages are handled between any two of the steps.         *)

(* kick_handler: to the agent of the session, or straight to the login     *)
(* master when there is no session.                                        *)
KickArrive(a) ==
  LET u == UidOf[a]
      cur == users[last[a]][u]
  IN /\ kst[a] = "sent"
     /\ \/ /\ cur # None
           /\ kst' = [kst EXCEPT ![a] = "agent"]
           /\ ktgt' = [ktgt EXCEPT ![a] = cur]
           /\ UNCHANGED logouts
        \/ /\ cur = None
           /\ kst' = [kst EXCEPT ![a] = "gonotify"]
           /\ logouts' = logouts \cup {a}
           /\ UNCHANGED ktgt
     /\ UNCHANGED <<attemptVars, loginVars, pingVars, lst, hallVars,
                    faultVars>>

(* Mutant: the agent does not wait for its gate before it exits. *)
AgentLogoutNoWait(a) ==
  /\ kst[a] = "agent"
  /\ kst' = [kst EXCEPT ![a] = "gate"]
  /\ agent' = [agent EXCEPT ![ktgt[a]] = "dead"]
  /\ UNCHANGED <<attemptVars, loginVars, logouts, pingVars, ktgt, lst, users,
                 msg_online, faultVars>>

(* The agent's logout: a call to its gate. *)
AgentLogout(a) ==
  /\ kst[a] = "agent"
  /\ kst' = [kst EXCEPT ![a] = "gate"]
  /\ UNCHANGED <<attemptVars, loginVars, logouts, pingVars, ktgt, lst,
                 hallVars, faultVars>>

(* Mutant: msgserver keeps the username. *)
ForgetInGateOnly(h, u) ==
  /\ users' = [users EXCEPT ![h][u] = None]
  /\ UNCHANGED msg_online

(* msgserver.logout, then the tables of the gate. *)
Forget(h, u) ==
  /\ users' = [users EXCEPT ![h][u] = None]
  /\ msg_online' = [msg_online EXCEPT ![h][u] = None]

(* logout_handler: it takes the uid's session away, whichever agent has    *)
(* it, since all sessions of a uid share one username.                     *)
GateLogout(a) ==
  LET h == last[a]
      u == UidOf[a]
  IN /\ kst[a] = "gate"
     /\ \/ /\ users[h][u] # None
           /\ Forget(h, u)
           /\ kst' = [kst EXCEPT ![a] = "notify"]
           /\ logouts' = logouts \cup {a}
        \/ /\ users[h][u] = None
           /\ kst' = [kst EXCEPT ![a] = "exit"]
           /\ UNCHANGED <<users, msg_online, logouts>>
     /\ UNCHANGED <<attemptVars, loginVars, pingVars, ktgt, lst, agent,
                    faultVars>>

AfterNotify(a) ==
  [kst EXCEPT ![a] = IF kst[a] = "notify" THEN "exit" ELSE "reply"]

(* The "logout" call to the login master returned. *)
NotifyReturn(a) ==
  /\ kst[a] \in {"notify", "gonotify"} /\ a \notin logouts
  /\ kst' = AfterNotify(a)
  /\ UNCHANGED <<attemptVars, loginVars, logouts, pingVars, ktgt, lst,
                 hallVars, faultVars>>

(* logout_handler returned: the agent's skynet.exit fails every call that  *)
(* waits on it.  Every "logout" for the agent was sent while it had the    *)
(* session, before this answer, and is handled before it.                  *)
AgentExit(a) ==
  /\ kst[a] = "exit"
  /\ \A b \in Attempts : kst[b] = "agent" => ktgt[b] # ktgt[a]
  /\ agent' = [agent EXCEPT ![ktgt[a]] = "dead"]
  /\ kst' = [kst EXCEPT ![a] = "reply"]
  /\ UNCHANGED <<attemptVars, loginVars, logouts, pingVars, ktgt, lst, users,
                 msg_online, faultVars>>

-----------------------------------------------------------------------------
(* The login call of attempt a at the hall.                                *)

(* login_handler and do_login up to the agent's own login. *)
LoginArrive(a) ==
  /\ lst[a] = "sent"
  /\ \/ /\ users[ahall[a]][UidOf[a]] # None
        /\ lst' = [lst EXCEPT ![a] = "error"]
        /\ UNCHANGED agent
     \/ /\ users[ahall[a]][UidOf[a]] = None
        /\ lst' = [lst EXCEPT ![a] = "starting"]
        /\ agent' = [agent EXCEPT ![a] = "alive"]
  /\ UNCHANGED <<attemptVars, loginVars, logouts, pingVars, kst, ktgt, users,
                 msg_online, faultVars>>

(* The agent is ready: the rest of do_login.  msgserver.login asserts that *)
(* the username is free, after the gate's own tables are written.          *)
LoginReady(a) ==
  LET h == ahall[a]
      u == UidOf[a]
  IN /\ lst[a] = "starting"
     /\ users' = [users EXCEPT ![h][u] = a]
     /\ \/ /\ msg_online[h][u] # None
           /\ lst' = [lst EXCEPT ![a] = "error"]
           /\ UNCHANGED msg_online
        \/ /\ msg_online[h][u] = None
           /\ msg_online' = [msg_online EXCEPT ![h][u] = a]
           /\ lst' = [lst EXCEPT ![a] = "done"]
     /\ UNCHANGED <<attemptVars, loginVars, logouts, pingVars, kst, ktgt,
                    agent, faultVars>>

(* The agent's login raised an error; nobody stops the agent. *)
LoginAgentFail(a) ==
  /\ lst[a] = "starting"
  /\ lst' = [lst EXCEPT ![a] = "error"]
  /\ UNCHANGED <<attemptVars, loginVars, logouts, pingVars, kst, ktgt,
                 hallVars, faultVars>>

-----------------------------------------------------------------------------
(* Faults.                                                                 *)

(* The attempts that wait for an answer of hall h. *)
Cut(h) ==
  [a \in Attempts |->
     IF pc[a] = "kick" /\ last[a] = h THEN "kickBroken"
     ELSE IF pc[a] = "login" /\ ahall[a] = h THEN "loginBroken"
     ELSE pc[a]]

CutPing(h) == IF pcur = h /\ ppc \in {"call", "reply"} THEN "broken" ELSE ppc

(* The connection from login to hall h breaks: every call waiting on it    *)
(* fails, requests on the wire are lost or not, and what the hall already  *)
(* works on goes on.                                                       *)
BreakLink(h) ==
  /\ breaks < MaxBreaks /\ breaks' = breaks + 1
  /\ pc' = Cut(h) /\ ppc' = CutPing(h)
  /\ \E lostKicks \in SUBSET {a \in Attempts : kst[a] = "sent" /\ last[a] = h} :
       kst' = [a \in Attempts |-> IF a \in lostKicks THEN "none" ELSE kst[a]]
  /\ \E lostLogins \in
          SUBSET {a \in Attempts : lst[a] = "sent" /\ ahall[a] = h} :
       lst' = [a \in Attempts |-> IF a \in lostLogins THEN "none" ELSE lst[a]]
  /\ UNCHANGED <<last, ahall, ap, loginVars, logouts, todo, pcur, snap, ktgt,
                 hallVars, hallRestarts, loginRestarts>>

(* A connection from a hall to login breaks while attempt a's "logout"     *)
(* call is on it; the message arrives or it does not.                      *)
NotifyBreak(a) ==
  /\ breaks < MaxBreaks /\ breaks' = breaks + 1
  /\ kst[a] \in {"notify", "gonotify"}
  /\ kst' = AfterNotify(a)
  /\ logouts' \in {logouts, logouts \ {a}}
  /\ UNCHANGED <<attemptVars, loginVars, pingVars, ktgt, lst, hallVars,
                 hallRestarts, loginRestarts>>

(* Hall h dies with its tables, its agents and the calls it works on; a    *)
(* "logout" it had sent may still reach login.                             *)
HallRestart(h) ==
  /\ hallRestarts < MaxHallRestarts /\ hallRestarts' = hallRestarts + 1
  /\ pc' = Cut(h) /\ ppc' = CutPing(h)
  /\ users' = [users EXCEPT ![h] = Nobody]
  /\ msg_online' = [msg_online EXCEPT ![h] = Nobody]
  /\ agent' = [a \in Attempts |->
                 IF ahall[a] = h /\ agent[a] = "alive" THEN "dead"
                                                       ELSE agent[a]]
  /\ kst' = [a \in Attempts |-> IF last[a] = h THEN "none" ELSE kst[a]]
  /\ lst' = [a \in Attempts |-> IF ahall[a] = h THEN "none" ELSE lst[a]]
  /\ UNCHANGED <<last, ahall, ap, loginVars, logouts, todo, pcur, snap, ktgt,
                 breaks, loginRestarts>>

(* The login process dies: its tables, locks, coroutines and mail are      *)
(* gone; the halls notice nothing but failed "logout" calls.               *)
LoginRestart ==
  /\ loginRestarts < MaxLoginRestarts /\ loginRestarts' = loginRestarts + 1
  /\ pc' = [a \in Attempts |-> IF pc[a] \in InHandler THEN "denied" ELSE pc[a]]
  /\ user_login' = [u \in Uids |-> FALSE]
  /\ user_online' = Nobody
  /\ hall_servers' = [h \in Halls |-> "absent"]
  /\ order' \in Orders
  /\ logouts' = {}
  /\ ppc' = "off" /\ todo' = {} /\ pcur' = None /\ snap' = Nobody
  /\ UNCHANGED <<last, ahall, ap, callVars, hallVars, breaks, hallRestarts>>

-----------------------------------------------------------------------------
(* What the services do for attempt a once it is accepted. *)
AttemptStep(a) ==
  \/ KickReturn(a) \/ KickFailed(a) \/ LoginReturn(a) \/ LoginFailed(a)
  \/ Logout(a)
  \/ KickArrive(a) \/ AgentLogout(a) \/ GateLogout(a) \/ NotifyReturn(a)
  \/ AgentExit(a)
  \/ LoginArrive(a) \/ LoginReady(a) \/ LoginAgentFail(a)

PingStep ==
  \/ Start \/ (\E h \in Halls : PingCall(h)) \/ PingHandle \/ PingReturn
  \/ PingFailed \/ NextRound

Fault ==
  \/ \E h \in Halls : BreakLink(h) \/ HallRestart(h)
  \/ \E a \in Attempts : NotifyBreak(a)
  \/ LoginRestart

Next ==
  \/ \E a \in Attempts : Accept(a) \/ AttemptStep(a)
  \/ PingStep
  \/ Fault

Spec == Init /\ [][Next]_vars

(* Services handle the messages they have, and the ping loop goes on;      *)
(* clients and faults owe nothing.                                         *)
Fairness == (\A a \in Attempts : WF_vars(AttemptStep(a))) /\ WF_vars(PingStep)

FairSpec == Spec /\ Fairness

-----------------------------------------------------------------------------
(* Safety.                                                                 *)

Serving(u) == {a \in Attempts : UidOf[a] = u /\ pc[a] \in InHandler}

(* A uid is locked exactly while one login_handler runs for it, whatever   *)
(* breaks or restarts: no path leaves a lock behind or takes a second one. *)
LoginMutex ==
  \A u \in Uids :
    /\ user_login[u] <=> Serving(u) # {}
    /\ \A a, b \in Serving(u) : a = b

(* The gate and its msgserver know the same sessions: the uid has an entry *)
(* in users exactly when its username has one in msgserver's user_online,  *)
(* even after do_login failed half way.                                    *)
HallTablesAgree ==
  \A h \in Halls, u \in Uids :
    users[h][u] = None <=> msg_online[h][u] = None

(* The gate never forwards a request to an agent that has exited.          *)
NoDeadAgent ==
  \A h \in Halls, u \in Uids :
    users[h][u] # None => agent[users[h][u]] = "alive"

(* Without faults: a session the hall serves is the one the login master   *)
(* would kick, as soon as no login of the user is under way.               *)
SessionKnown ==
  \A h \in Halls, u \in Uids :
    users[h][u] # None /\ Serving(u) = {} =>
      user_online[u] = [server |-> h, secret |-> users[h][u]]

(* Without faults the three services keep the promise of SessionPromise:   *)
(* one session per account over all halls, opened once for the login that  *)
(* asked for it, and a 200 only for a session that is there. (Who may end  *)
(* a session is said by OwnLogoutOnly.)                                    *)
Promise == INSTANCE SessionPromise WITH
  sessions <- {[uid |-> p[1], hall |-> p[2], secret |-> users[p[2]][p[1]]] :
                 p \in {p \in Uids \X Halls : users[p[2]][p[1]] # None}},
  spent    <- {a \in Attempts : lst[a] = "done"},
  answers  <- [a \in Attempts |-> IF pc[a] \in Finished THEN pc[a]
                                                        ELSE "waiting"]

KeepsPromise == Promise!PromiseSpec

(* Without faults: a login that runs the agent's start is the only one of  *)
(* its user at that hall (gated.lua: "login_handler never be reentry").    *)
NoReentry ==
  \A a, b \in Attempts :
    lst[a] = "starting" /\ lst[b] = "starting" /\ UidOf[a] = UidOf[b]
      /\ ahall[a] = ahall[b] => a = b

(* Without faults: a logout at the gate ends the session of the agent it   *)
(* comes from, never that of a later login (every session of a uid has the *)
(* same subid).                                                            *)
OwnLogoutOnly ==
  [][\A a \in Attempts :
       kst[a] = "gate" /\ kst'[a] = "notify" =>
         users[last[a]][UidOf[a]] = ktgt[a]]_vars

-----------------------------------------------------------------------------
(* Liveness, under FairSpec.                                               *)

(* A login that holds the lock of its uid gets an answer: the cycle login, *)
(* gate, agent, gate, login of a kick never waits on itself.               *)
LoginAnswered ==
  \A a \in Attempts : pc[a] \in InHandler ~> pc[a] \in Finished

(* The login master learns of every session a hall keeps: a lost entry     *)
(* (restart of login, late logout) comes back with a ping.                 *)
SessionsRelearned ==
  \A h \in Halls, u \in Uids :
    users[h][u] # None ~> user_online[u] # None \/ users[h][u] = None

(* What the branch for a restarted hall is for (logind.lua, "hall          *)
(* restart"): a session login still records is set up again on its hall.   *)
HallRestartRecovered ==
  \A h \in Halls, u \in Uids :
    user_online[u] # None /\ user_online[u].server = h /\ users[h][u] = None
      ~> users[h][u] # None \/ user_online[u] = None
=============================================================================

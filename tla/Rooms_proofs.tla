---------------------------- MODULE Rooms_proofs ----------------------------
(***************************************************************************)
(* Machine-checked proofs about Rooms, for any players, game servers and   *)
(* requests, in any interleaving and whatever fails: the types; who may    *)
(* have a room destroyed; that no room is started twice until a connection *)
(* breaks; what alone leaves a member behind that nobody can take out, and *)
(* what alone leaves a registration without its room.                      *)
(***************************************************************************)
EXTENDS Rooms, FiniteSetTheorems, SequenceTheorems, TLAPS

Unbroken == faults.breaks = 0

-----------------------------------------------------------------------------
(* Requests and the loop, whatever fails.                                  *)

AtRoom == {"asking", "empty", "entering", "leaving"}

(* The operations that have a stage. *)
Fits(op, pc) ==
  /\ pc \in {"place", "starting", "created", "recorded"} => op = "create"
  /\ pc \in {"asking", "empty", "destroyed"} => op = "destroy"
  /\ pc = "entering" => op = "enter"
  /\ pc \in {"leaving", "gone", "left", "assert"} => op = "leave"

(* What a request has at each stage. *)
RequestSound(r) ==
  /\ req[r] = Idle \/ (req[r].op \in Ops /\ req[r].pc # "idle" /\ req[r].user \in Users)
  /\ req[r].pc \in AtGame \cup (AtHall \ {"place"}) => req[r].server \in Servers
  /\ req[r].pc \in AtGame \cup AtHall /\ req[r].op # "leave" => req[r].rid \in Rids
  /\ req[r].pc \in AtRoom => req[r].room \in DOMAIN rooms
  /\ Fits(req[r].op, req[r].pc)

LoopAimed ==
  /\ loop.pc \in {"called", "waiting", "listing"} => loop.server \in Servers
  /\ loop.pc \in {"called", "waiting"} => loop.rid \in Rids

Created(rid, u) ==
  \E c \in Requests : req[c].op = "create" /\ req[c].rid = rid /\ req[c].user = u

RecordsCreated ==
  \A rid \in Rids : record[rid] # None => Created(rid, record[rid].creator)

(* A request whose room is being started waits for that room only. *)
BirthOwned(b) ==
  b.by \in Requests =>
    /\ At(b.by, "create", "starting")
    /\ req[b.by].server = b.server /\ req[b.by].rid = b.rid
    /\ \A c \in births : c.by = b.by => b = c

IndInv ==
  /\ TypeOK /\ LoopAimed /\ RecordsCreated /\ CreatorDestroys
  /\ \A b \in births : BirthOwned(b)
  /\ \A r \in Requests : RequestSound(r)

-----------------------------------------------------------------------------
(* One service per room, while no connection breaks.                       *)

Unused(rid) ==
  /\ record[rid] = None /\ loop.rows[rid] = None
  /\ loop.pc \in {"called", "waiting"} => loop.rid # rid
  /\ \A s \in Servers : room_map[s][rid] = None

IdsFresh ==
  /\ \A rid \in Rids : rid >= nextid => Unused(rid)
  /\ \A c \in Requests :
       req[c].op = "create" =>
         /\ req[c].rid < nextid
         /\ req[c].pc \in {"place", "sent", "starting"} => Unused(req[c].rid)
  /\ \A c, d \in Requests :
       req[c].op = "create" /\ req[d].op = "create" /\ req[c].rid = req[d].rid
         => c = d

(* A room on its way into room_map is not there yet, and either a request  *)
(* or the loop waits for it.                                               *)
BirthsSound ==
  \A b \in births :
    /\ room_map[b.server][b.rid] = None
    /\ \/ b.by \in Requests
       \/ /\ b.by = "loop" /\ loop.pc = "waiting"
          /\ loop.server = b.server /\ loop.rid = b.rid
          /\ \A c \in births : c.by = "loop" => b = c

SingleInv == IdsFresh /\ BirthsSound

-----------------------------------------------------------------------------
(* Members and registrations, whatever fails.                              *)

Pending(i, r) == \E k \in DOMAIN rooms[i].inbox : rooms[i].inbox[k] = r

(* In room i, message m is older than message r. *)
Before(i, m, r) ==
  \A k, l \in DOMAIN rooms[i].inbox :
    rooms[i].inbox[k] = r /\ rooms[i].inbox[l] = m => l < k

Sits(u, s, rid) == room_map[s][rid] # None /\ u \in rooms[room_map[s][rid]].users

(* EnterRoom m of the player is on its way into the room. *)
Arrives(m, u, s, rid) ==
  /\ req[m].op = "enter" /\ req[m].user = u
  /\ room_map[s][rid] # None /\ Pending(room_map[s][rid], m)

Hasty(u, s) ==
  \E r \in Requests : req[r].hasty /\ req[r].user = u /\ req[r].server = s

HastyEnters == \A r \in Requests : req[r].hasty => req[r].op = "enter"

(* No two ids share a service. *)
OwnService ==
  \A s, t \in Servers, rid, q \in Rids :
    room_map[s][rid] # None /\ room_map[s][rid] = room_map[t][q] => s = t /\ rid = q

(* Nobody knows a service that is on its way into room_map. *)
FreshRoom(i) ==
  /\ rooms[i].users = {} /\ rooms[i].inbox = <<>>
  /\ \A s \in Servers, rid \in Rids : room_map[s][rid] # i
  /\ \A r \in Requests : req[r].pc \in AtRoom => req[r].room # i

BirthsFresh ==
  /\ \A b \in births : FreshRoom(b.room)
  /\ \A b, c \in births : b.room = c.room => b = c

(* A message in a room is of a request that was sent. *)
Unsent == {"idle", "place", "check", "sent"}

MailSent ==
  \A i \in DOMAIN rooms, r \in Requests : Pending(i, r) => req[r].pc \notin Unsent

(* Where the player sits, or is about to, is where he is registered. *)
Registered(u, s) ==
  \A rid \in Rids :
    Sits(u, s, rid) \/ (\E m \in Requests : Arrives(m, u, s, rid)) =>
      user2rooms[s][u] = rid

(* A LeaveRoom is at the only room the player may be in, behind all that    *)
(* brings him there; then he is nowhere.                                    *)
LeaveSound(r, u, s) ==
  /\ At(r, "leave", "leaving") =>
       \A rid \in Rids :
         /\ Sits(u, s, rid) => room_map[s][rid] = req[r].room
         /\ \A m \in Requests :
              Arrives(m, u, s, rid) => /\ room_map[s][rid] = req[r].room
                                       /\ Before(req[r].room, m, r)
  /\ At(r, "leave", "gone") =>
       \A rid \in Rids :
         ~ Sits(u, s, rid) /\ \A m \in Requests : ~ Arrives(m, u, s, rid)

PlayersSound ==
  \A u \in Users, s \in Servers :
    ~ Hasty(u, s) =>
      /\ Registered(u, s)
      /\ \A r \in Requests :
           req[r].user = u /\ req[r].server = s => LeaveSound(r, u, s)

MemberInv == HastyEnters /\ OwnService /\ BirthsFresh /\ MailSent /\ PlayersSound

(* A request ended a room of server s. *)
Ended(s) ==
  \E d \in Requests : /\ req[d].op = "destroy" /\ req[d].server = s
                      /\ \/ req[d].pc \in {"destroyed", "200"}
                         \/ req[d].cut /\ req[d].pc = "error"

(* Who is registered is so in a room that is there, or rooms were ended. *)
RegisteredThere ==
  \A s \in Servers, u \in Users :
    user2rooms[s][u] # None => room_map[s][user2rooms[s][u]] # None \/ Ended(s)

AssertInv == RegisteredThere /\ NoAssert

-----------------------------------------------------------------------------
(* Which steps change what.                                                *)

RecordStep ==
  \E r \in Requests : CreateRecord(r) \/ DestroyDone(r)
UserRoomStep ==
  \E r \in Requests : CreateDone(r) \/ SelectDone(r) \/ LeaveDone(r)
MapStep ==
  \/ \E b \in births : RoomStarted(b)
  \/ \E r \in Requests : GameDestroyed(r)
  \/ \E s \in Servers : GameRestart(s)
EnterStep ==
  \E r \in Requests, u \in Users, s \in Servers, rid \in Rids : EnterAsk(r, s, u, rid)
RegisterStep ==
  \/ EnterStep
  \/ \E r \in Requests : GameLeft(r)
  \/ \E s \in Servers : GameRestart(s)
CheckStep ==
  \/ \E r \in Requests : GameCreate(r) \/ GameSelect(r) \/ GameLeft(r)
  \/ \E s \in Servers : GameRestart(s)
RoomsStep ==
  \/ EnterStep \/ GameEnsure
  \/ \E r \in Requests :
       \/ GameCreate(r) \/ GameDestroy(r) \/ RoomDestroyable(r) \/ GameDestroyed(r)
       \/ RoomEnter(r) \/ GameLeave(r) \/ RoomLeave(r)
  \/ \E i \in DOMAIN rooms : RoomExit(i)
  \/ \E s \in Servers : GameRestart(s)
BirthStep ==
  \/ GameEnsure \/ Fault
  \/ \E r \in Requests : GameCreate(r)
  \/ \E b \in births : RoomStarted(b)

LEMMA WhatChanges ==
  ASSUME [Next]_vars
  PROVE  /\ RecordStep \/ record' = record
         /\ (\E r \in Requests, u \in Users : CreateAsk(r, u)) \/ nextid' = nextid
         /\ UserRoomStep \/ user_room' = user_room
         /\ Update \/ ListReturn \/ proxy' = proxy
         /\ LoopStep \/ Fault \/ (\E b \in births : RoomStarted(b)) \/ loop' = loop
         /\ \/ Client \/ Fault \/ req' = req
            \/ \E r \in Requests : RequestStep(r)
            \/ \E b \in births : RoomStarted(b)
         /\ MapStep \/ room_map' = room_map
         /\ RegisterStep \/ user2rooms' = user2rooms
         /\ CheckStep \/ username_map' = username_map
         /\ Connection \/ (\E s \in Servers : GameRestart(s)) \/ seated' = seated
         /\ BirthStep \/ births' = births
         /\ RoomsStep \/ rooms' = rooms
         /\ Fault \/ faults' = faults
<1> USE DEF hallVars, gameVars, game
<1>1. CASE UNCHANGED vars
  BY <1>1 DEF vars
<1>2. CASE Client
  BY <1>2 DEF Client, CreateAsk, LeaveAsk, ReconnAsk, DestroyAsk, SelectAsk, EnterAsk,
              EnterStep, RegisterStep, RoomsStep
<1>3. CASE Connection
  BY <1>3 DEF Connection, Seat, Unseat
<1>4. ASSUME NEW r \in Requests, RequestStep(r)
      PROVE  /\ RecordStep \/ record' = record
             /\ UserRoomStep \/ user_room' = user_room
             /\ UNCHANGED <<nextid, proxy, loop, faults>>
             /\ MapStep \/ room_map' = room_map
             /\ RegisterStep \/ user2rooms' = user2rooms
             /\ CheckStep \/ username_map' = username_map
             /\ seated' = seated
             /\ BirthStep \/ births' = births
             /\ RoomsStep \/ rooms' = rooms
  BY <1>4
  DEF RequestStep, CreatePlace, GameCreate, CreateRecord, CreateDone, DestroyCheck,
      GameDestroy, RoomDestroyable, GameDestroyed, DestroyDone, GameSelect, SelectDone,
      RoomEnter, GameLeave, RoomLeave, GameLeft, LeaveDone, SetRoom,
      RecordStep, UserRoomStep, MapStep, RegisterStep, CheckStep,
      BirthStep, RoomsStep
<1>5. CASE LoopStep
  BY <1>5 DEF LoopStep, Round, EnsureCall, GameEnsure, Update, ListCall, ListReturn,
              RoundDone, BirthStep, RoomsStep
<1>6. CASE RoomStep
  BY <1>6 DEF RoomStep, RoomExit, RoomStarted, MapStep, BirthStep, RoomsStep
<1>7. CASE Fault
  BY <1>7 DEF Fault, GameRestart, BreakLink, MapStep, RegisterStep, CheckStep, BirthStep,
              RoomsStep
<1> QED BY <1>1, <1>2, <1>3, <1>4, <1>5, <1>6, <1>7 DEF Next

-----------------------------------------------------------------------------
(* Types.                                                                  *)

HallTypes ==
  /\ record \in [Rids -> [creator : Users, server : Servers] \cup {None}]
  /\ nextid \in 1 .. MaxRid + 1
  /\ user_room \in [Users -> [rid : 0 .. MaxRid,
                              sname : Servers \cup {None}] \cup {None}]

ProxyTypes ==
  proxy \in [room2servers : [Rids -> Servers \cup {None}],
             gamelets : SUBSET Servers, server_infos : SUBSET Servers]

LoopTypes ==
  loop \in [pc : {"round", "ensure", "called", "waiting", "list", "listing"},
            tick : 0 .. 2, rows : [Rids -> Servers \cup {None}],
            todo : SUBSET Servers, rid : 0 .. MaxRid,
            server : Servers \cup {None}, seen : SUBSET Rids, grew : BOOLEAN]

GameTypes ==
  /\ user2rooms \in [Servers -> [Users -> Rids \cup {None}]]
  /\ username_map \in [Servers -> SUBSET Users]
  /\ seated \in [Servers -> SUBSET Users]

RoomsTypes ==
  /\ rooms \in Seq(Room) /\ Len(rooms) <= MaxRooms
  /\ room_map \in [Servers -> [Rids -> DOMAIN rooms \cup {None}]]
  /\ births \subseteq [rid : Rids, server : Servers, room : DOMAIN rooms,
                       by : Requests \cup {"loop", None}]

FaultTypes == faults \in [restarts : 0 .. MaxRestarts, breaks : 0 .. MaxBreaks]

LEMMA Types ==
  TypeOK <=> /\ HallTypes /\ ProxyTypes /\ LoopTypes /\ GameTypes /\ RoomsTypes
             /\ FaultTypes /\ req \in [Requests -> Request]
BY DEF TypeOK, HallTypes, ProxyTypes, LoopTypes, GameTypes, RoomsTypes, FaultTypes

(* None is no request, server, user, number or the loop. *)
LEMMA Nil ==
  /\ None \notin Users /\ None \notin Servers /\ None \notin Requests
  /\ None \notin Nat /\ None # "loop" /\ "loop" \notin Requests
  /\ None \notin Ops
  /\ MaxRid \in Nat /\ MaxRooms \in Nat /\ MaxRestarts \in Nat /\ MaxBreaks \in Nat
BY RoomAssumption

-----------------------------------------------------------------------------
(* The stages of requests.                                                 *)

Stage == AtHall \cup AtGame \cup Answers

(* A request that moves on keeps what it asks for. *)
LEMMA Moved ==
  ASSUME req \in [Requests -> Request], NEW r \in Requests, NEW p \in Stage,
         req' = [req EXCEPT ![r].pc = p]
  PROVE  /\ req' \in [Requests -> Request]
         /\ req'[r].pc = p /\ req'[r].op = req[r].op /\ req'[r].user = req[r].user
         /\ req'[r].rid = req[r].rid /\ req'[r].server = req[r].server
         /\ req'[r].room = req[r].room /\ req'[r].cut = req[r].cut
         /\ \A q \in Requests : q # r => req'[q] = req[q]
<1>1. /\ \A q \in Requests : q # r => req'[q] = req[q]
      /\ req'[r] = [req[r] EXCEPT !.pc = p]
      /\ req' = [q \in Requests |-> IF q = r THEN [req[r] EXCEPT !.pc = p] ELSE req[q]]
  OBVIOUS
<1>2. req[r] \in Request  OBVIOUS
<1>3. [req[r] EXCEPT !.pc = p] \in Request
  BY <1>2 DEF Request, Stage
<1>4. /\ req'[r].pc = p /\ req'[r].op = req[r].op /\ req'[r].user = req[r].user
      /\ req'[r].rid = req[r].rid /\ req'[r].server = req[r].server
      /\ req'[r].room = req[r].room /\ req'[r].cut = req[r].cut
  BY <1>1, <1>2 DEF Request
<1> QED BY <1>1, <1>3, <1>4

(* So does one that a game server passes to room i, or that gets server s. *)
LEMMA MovedTo ==
  ASSUME req \in [Requests -> Request], NEW r \in Requests, NEW p \in Stage,
         NEW i \in 0 .. MaxRooms, NEW s \in Servers \cup {None},
         \/ req' = [req EXCEPT ![r].pc = p, ![r].room = i] /\ s = req[r].server
         \/ req' = [req EXCEPT ![r].pc = p, ![r].server = s] /\ i = req[r].room
  PROVE  /\ req' \in [Requests -> Request]
         /\ req'[r].pc = p /\ req'[r].op = req[r].op /\ req'[r].user = req[r].user
         /\ req'[r].rid = req[r].rid /\ req'[r].server = s
         /\ req'[r].room = i /\ req'[r].cut = req[r].cut
         /\ \A q \in Requests : q # r => req'[q] = req[q]
<1>1. PICK x : x = IF req' = [req EXCEPT ![r].pc = p, ![r].room = i] /\ s = req[r].server
                   THEN [req[r] EXCEPT !.pc = p, !.room = i]
                   ELSE [req[r] EXCEPT !.pc = p, !.server = s]
  OBVIOUS
<1>2. req' = [req EXCEPT ![r] = x]
  BY <1>1
<1>3. /\ \A q \in Requests : q # r => req'[q] = req[q]
      /\ req'[r] = x
      /\ req' = [q \in Requests |-> IF q = r THEN x ELSE req[q]]
  BY <1>2
<1>4. req[r] \in Request  OBVIOUS
<1>5. x \in Request
  BY <1>1, <1>4 DEF Request, Stage
<1>6. /\ x.pc = p /\ x.op = req[r].op /\ x.user = req[r].user
      /\ x.rid = req[r].rid /\ x.server = s
      /\ x.room = i /\ x.cut = req[r].cut
  BY <1>1, <1>4 DEF Request
<1> QED BY <1>3, <1>5, <1>6

(* A new request is put where there is none. *)
LEMMA AskPuts ==
  ASSUME NEW r \in Requests, NEW op, NEW u, NEW rid, NEW s, NEW i, NEW p,
         Ask(r, op, u, rid, s, i, p)
  PROVE  req[r] = Idle /\ \E x : req' = [req EXCEPT ![r] = x]
BY DEF Ask

LEMMA Asked ==
  ASSUME req \in [Requests -> Request], NEW r \in Requests, NEW op \in Ops,
         NEW u \in Users, NEW rid \in 0 .. MaxRid, NEW s \in Servers \cup {None},
         NEW i \in 0 .. MaxRooms, NEW p \in Stage, Ask(r, op, u, rid, s, i, p)
  PROVE  /\ req' \in [Requests -> Request]
         /\ req[r] = Idle
         /\ req'[r] = [op |-> op, pc |-> p, user |-> u, rid |-> rid, server |-> s,
                       room |-> i, cut |-> FALSE,
                       hasty |-> p = "entering" /\ Overtakes(u, s, rid)]
         /\ \A q \in Requests : q # r => req'[q] = req[q]
<1>1. PICK x : x = [op |-> op, pc |-> p, user |-> u, rid |-> rid, server |-> s,
                    room |-> i, cut |-> FALSE,
                    hasty |-> p = "entering" /\ Overtakes(u, s, rid)]
  OBVIOUS
<1>2. req' = [req EXCEPT ![r] = x] /\ req[r] = Idle
  BY <1>1 DEF Ask
<1>3. x \in Request  BY <1>1 DEF Request, Stage
<1> QED BY <1>1, <1>2, <1>3

(* What IndInv says of a request under way. *)
LEMMA Under ==
  ASSUME IndInv, NEW r \in Requests, req[r].pc \in AtHall \cup AtGame
  PROVE  /\ req[r].op \in Ops /\ req[r].user \in Users
         /\ req[r].server \in Servers \cup {None} /\ req[r].room \in 0 .. MaxRooms
         /\ req[r].rid \in 0 .. MaxRid
         /\ req[r].pc # "place" => req[r].server \in Servers
         /\ req[r].op # "leave" => req[r].rid \in Rids
         /\ req[r].pc \in AtRoom =>
              req[r].room \in DOMAIN rooms
<1>1. req[r] \in Request /\ RequestSound(r)
  BY Types DEF IndInv
<1>2. Idle.pc = "idle"  BY DEF Idle
<1> QED BY <1>1, <1>2 DEF RequestSound, Request, AtHall, AtGame

LEMMA HallTypesStep ==
  ASSUME IndInv, [Next]_vars
  PROVE  HallTypes'
<1>1. HallTypes /\ req \in [Requests -> Request]
  BY Types DEF IndInv
<1>2. record' \in [Rids -> [creator : Users, server : Servers] \cup {None}]
  <2>1. ASSUME NEW r \in Requests, CreateRecord(r)
        PROVE  record' \in [Rids -> [creator : Users, server : Servers] \cup {None}]
    <3>1. req[r].user \in Users /\ req[r].server \in Servers
      BY <2>1, Under DEF CreateRecord, At, AtHall
    <3>2. [creator |-> req[r].user, server |-> req[r].server]
            \in [creator : Users, server : Servers]
      BY <3>1
    <3> QED BY <1>1, <2>1, <3>2 DEF CreateRecord, HallTypes
  <2>2. ASSUME NEW r \in Requests, DestroyDone(r)
        PROVE  record' \in [Rids -> [creator : Users, server : Servers] \cup {None}]
    BY <1>1, <2>2 DEF DestroyDone, HallTypes
  <2> QED BY <1>1, <2>1, <2>2, WhatChanges DEF RecordStep, HallTypes
<1>3. nextid' \in 1 .. MaxRid + 1
  BY <1>1, WhatChanges, Nil DEF CreateAsk, HallTypes
<1>4. user_room' \in [Users -> [rid : 0 .. MaxRid,
                                sname : Servers \cup {None}] \cup {None}]
  <2>1. ASSUME NEW r \in Requests, CreateDone(r) \/ SelectDone(r) \/ LeaveDone(r)
        PROVE  \E x \in [rid : 0 .. MaxRid, sname : Servers \cup {None}] :
                 user_room' = [user_room EXCEPT ![req[r].user] = x]
    <3>1. CASE CreateDone(r) \/ SelectDone(r)
      <4>1. user_room' = [user_room EXCEPT ![req[r].user] = Chosen(r)]
        BY <3>1 DEF CreateDone, SelectDone, SetRoom
      <4>2. req[r].rid \in 0 .. MaxRid /\ req[r].server \in Servers \cup {None}
        BY <1>1 DEF Request
      <4> QED BY <4>1, <4>2 DEF Chosen
    <3>2. CASE LeaveDone(r)
      <4>1. [rid |-> 0, sname |-> None] \in [rid : 0 .. MaxRid, sname : Servers \cup {None}]
        BY Nil
      <4> QED BY <3>2, <4>1 DEF LeaveDone, SetRoom
    <3> QED BY <2>1, <3>1, <3>2
  <2> QED BY <1>1, <2>1, WhatChanges DEF UserRoomStep, HallTypes
<1> QED BY <1>2, <1>3, <1>4 DEF HallTypes

(* The loop goes on from a call that is over. *)
LEMMA LoopGoesOn ==
  ASSUME LoopTypes, loop' = Ensured \/ loop' = Listed
  PROVE  (LoopTypes /\ LoopAimed)'
<1>1. 0 \in 0 .. MaxRid  BY Nil
<1>2. CASE loop' = Ensured
  BY <1>1, <1>2 DEF Ensured, LoopTypes, LoopAimed
<1>3. CASE loop' = Listed
  BY <1>1, <1>3 DEF Listed, LoopTypes, LoopAimed
<1> QED BY <1>2, <1>3

LEMMA LoopTypesStep ==
  ASSUME IndInv, [Next]_vars
  PROVE  (ProxyTypes /\ LoopTypes /\ LoopAimed)'
<1>1. ProxyTypes /\ LoopTypes /\ LoopAimed /\ HallTypes
  BY Types DEF IndInv
<1>2. ASSUME NEW b \in births, RoomStarted(b) PROVE (LoopTypes /\ LoopAimed)'
  BY <1>1, <1>2, LoopGoesOn DEF RoomStarted, LoopTypes, LoopAimed
<1>3. ASSUME Round PROVE (LoopTypes /\ LoopAimed)'
  <2> DEFINE rows == [rid \in Rids |-> IF record[rid] = None THEN None
                                       ELSE record[rid].server]
  <2>1. rows \in [Rids -> Servers \cup {None}]
    BY <1>1 DEF HallTypes
  <2> HIDE DEF rows
  <2> QED BY <1>1, <1>3, <2>1 DEF Round, Loop, LoopTypes, LoopAimed, rows
<1>4. ASSUME NEW rid \in Rids, EnsureCall(rid) PROVE (LoopTypes /\ LoopAimed)'
  <2>1. loop.rows[rid] \in Servers /\ rid \in 0 .. MaxRid
    BY <1>1, <1>4, Nil DEF EnsureCall, LoopTypes, Rids
  <2>2. [loop.rows EXCEPT ![rid] = None] \in [Rids -> Servers \cup {None}]
    BY <1>1 DEF LoopTypes
  <2> QED BY <1>1, <1>4, <2>1, <2>2 DEF EnsureCall, Loop, LoopTypes, LoopAimed
<1>5. ASSUME GameEnsure PROVE (LoopTypes /\ LoopAimed)'
  BY <1>1, <1>5, LoopGoesOn DEF GameEnsure, Loop, LoopTypes, LoopAimed
<1>6. ASSUME Update PROVE (LoopTypes /\ LoopAimed)'
  BY <1>1, <1>6 DEF Update, LoopTypes, LoopAimed
<1>7. ASSUME NEW s \in Servers, ListCall(s) PROVE (LoopTypes /\ LoopAimed)'
  BY <1>1, <1>7 DEF ListCall, Loop, Present, LoopTypes, LoopAimed
<1>8. ASSUME ListReturn PROVE (LoopTypes /\ LoopAimed)'
  BY <1>1, <1>8, LoopGoesOn DEF ListReturn, Loop, LoopTypes, LoopAimed
<1>9. ASSUME RoundDone PROVE (LoopTypes /\ LoopAimed)'
  <2>1. (loop.tick + 1) % 3 \in 0 .. 2
    BY <1>1 DEF LoopTypes
  <2> QED BY <1>1, <1>9, <2>1 DEF RoundDone, Loop, LoopTypes, LoopAimed
<1>10. ASSUME NEW s \in Servers, LoopFails(s) PROVE (LoopTypes /\ LoopAimed)'
  BY <1>1, <1>10, LoopGoesOn DEF LoopFails, LoopTypes, LoopAimed
<1>11. (LoopTypes /\ LoopAimed)'
  <2>1. loop' = loop => (LoopTypes /\ LoopAimed)'
    BY <1>1 DEF LoopTypes, LoopAimed
  <2>2. Fault => \E s \in Servers : LoopFails(s)
    BY DEF Fault, GameRestart, BreakLink
  <2> QED BY <1>2, <1>3, <1>4, <1>5, <1>6, <1>7, <1>8, <1>9, <1>10, <2>1, <2>2,
             WhatChanges DEF LoopStep
<1>12. ProxyTypes'
  <2>1. CASE Update
    BY <1>1, <2>1 DEF Update, Clear, ProxyTypes, NoRooms
  <2>2. CASE ListReturn
    <3>1. ASSUME NEW R \in Lists, update_local(loop.server, R) PROVE ProxyTypes'
      <4>1. loop.server \in Servers
        BY <1>1, <2>2 DEF ListReturn, Loop, LoopAimed
      <4> QED BY <1>1, <3>1, <4>1 DEF update_local, ProxyTypes
    <3> QED BY <1>1, <2>2, <3>1 DEF ListReturn, ProxyTypes
  <2> QED BY <1>1, <2>1, <2>2, WhatChanges DEF ProxyTypes
<1> QED BY <1>11, <1>12

LEMMA GameTypesStep ==
  ASSUME IndInv, [Next]_vars
  PROVE  (GameTypes /\ FaultTypes)'
<1>1. GameTypes /\ FaultTypes /\ req \in [Requests -> Request]
  BY Types DEF IndInv
<1>2. user2rooms' \in [Servers -> [Users -> Rids \cup {None}]]
  <2>1. ASSUME NEW s, NEW u, NEW x \in Rids \cup {None},
               user2rooms' = [user2rooms EXCEPT ![s][u] = x]
        PROVE  user2rooms' \in [Servers -> [Users -> Rids \cup {None}]]
    <3>1. s \in Servers => [user2rooms[s] EXCEPT ![u] = x] \in [Users -> Rids \cup {None}]
      BY <1>1 DEF GameTypes
    <3> QED BY <1>1, <2>1, <3>1 DEF GameTypes
  <2>2. ASSUME EnterStep \/ \E r \in Requests : GameLeft(r)
        PROVE  user2rooms' \in [Servers -> [Users -> Rids \cup {None}]]
    BY <1>1, <2>1, <2>2 DEF EnterStep, EnterAsk, GameLeft, GameTypes
  <2>3. ASSUME NEW s \in Servers, GameRestart(s)
        PROVE  user2rooms' \in [Servers -> [Users -> Rids \cup {None}]]
    <3>1. NoUsers \in [Users -> Rids \cup {None}]  BY DEF NoUsers
    <3> QED BY <1>1, <2>3, <3>1 DEF GameRestart, GameTypes
  <2> QED BY <1>1, <2>2, <2>3, WhatChanges DEF RegisterStep, GameTypes
<1>3. username_map' \in [Servers -> SUBSET Users]
  <2>1. ASSUME NEW s, NEW u \in Users, CheckIn(s, u)
        PROVE  username_map' \in [Servers -> SUBSET Users]
    BY <1>1, <2>1 DEF CheckIn, GameTypes
  <2>2. ASSUME NEW r \in Requests, GameCreate(r)
        PROVE  CheckIn(req[r].server, req[r].user) /\ req[r].user \in Users
    BY <2>2, Under DEF GameCreate, At, AtGame
  <2>3. ASSUME NEW r \in Requests, GameSelect(r)
        PROVE  \/ CheckIn(req[r].server, req[r].user) /\ req[r].user \in Users
               \/ username_map' = username_map
    BY <2>3, Under DEF GameSelect, At, AtGame
  <2>4. ASSUME NEW r \in Requests, GameLeft(r)
        PROVE  username_map' \in [Servers -> SUBSET Users]
    BY <1>1, <2>4 DEF GameLeft, GameTypes
  <2>5. ASSUME NEW s \in Servers, GameRestart(s)
        PROVE  username_map' \in [Servers -> SUBSET Users]
    BY <1>1, <2>5 DEF GameRestart, GameTypes
  <2> QED BY <1>1, <2>1, <2>2, <2>3, <2>4, <2>5, WhatChanges DEF CheckStep, GameTypes
<1>4. seated' \in [Servers -> SUBSET Users]
  BY <1>1, WhatChanges DEF Connection, Seat, Unseat, GameRestart, GameTypes
<1>5. FaultTypes'
  BY <1>1, WhatChanges, Nil DEF Fault, GameRestart, BreakLink, FaultTypes
<1> QED BY <1>2, <1>3, <1>4, <1>5 DEF GameTypes

-----------------------------------------------------------------------------
(* The room services.                                                      *)

LEMMA SeqOf ==
  ASSUME NEW S, NEW n \in Nat, NEW f \in [1 .. n -> S]
  PROVE  f \in Seq(S) /\ Len(f) = n /\ DOMAIN f = 1 .. n
BY SeqDef

LEMMA RoomKeys ==
  ASSUME RoomsTypes
  PROVE  /\ Len(rooms) \in Nat /\ DOMAIN rooms = 1 .. Len(rooms)
         /\ DOMAIN rooms \subseteq 0 .. MaxRooms
         /\ \A i \in DOMAIN rooms : rooms[i] \in Room
         /\ None \notin DOMAIN rooms
BY Nil DEF RoomsTypes

(* One room service changes. *)
LEMMA RoomEdited ==
  ASSUME RoomsTypes, NEW i \in DOMAIN rooms, NEW x \in Room,
         rooms' = [rooms EXCEPT ![i] = x]
  PROVE  /\ rooms' \in Seq(Room) /\ Len(rooms') = Len(rooms)
         /\ DOMAIN rooms' = DOMAIN rooms
         /\ rooms'[i] = x /\ \A j \in DOMAIN rooms : j # i => rooms'[j] = rooms[j]
<1>1. /\ DOMAIN rooms = 1 .. Len(rooms) /\ Len(rooms) \in Nat
      /\ \A j \in DOMAIN rooms : rooms[j] \in Room
  BY RoomKeys
<1>2. rooms' \in [1 .. Len(rooms) -> Room]
  BY <1>1
<1>3. rooms'[i] = x /\ \A j \in DOMAIN rooms : j # i => rooms'[j] = rooms[j]
  BY <1>1
<1> QED BY <1>1, <1>2, <1>3, SeqOf

(* A room service that started. *)
Fresh(s) == [host |-> s, users |-> {}, inbox |-> <<>>]

LEMMA RoomAdded ==
  ASSUME RoomsTypes, NEW s \in Servers, rooms' = Append(rooms, Fresh(s))
  PROVE  /\ rooms' \in Seq(Room) /\ Len(rooms') = Len(rooms) + 1
         /\ DOMAIN rooms' = DOMAIN rooms \cup {Len(rooms) + 1}
         /\ Len(rooms) + 1 \notin DOMAIN rooms
         /\ rooms'[Len(rooms) + 1] = Fresh(s)
         /\ \A j \in DOMAIN rooms : rooms'[j] = rooms[j]
<1>1. DOMAIN rooms = 1 .. Len(rooms) /\ Len(rooms) \in Nat /\ rooms \in Seq(Room)
  BY RoomKeys DEF RoomsTypes
<1>2. Fresh(s) \in Room
  <2>1. <<>> \in Seq(Requests \cup {None})  OBVIOUS
  <2> QED BY <2>1 DEF Fresh, Room
<1>3. PICK x \in Room : x = Fresh(s)  BY <1>2
<1>4. /\ rooms' \in Seq(Room) /\ Len(rooms') = Len(rooms) + 1
      /\ rooms'[Len(rooms) + 1] = x
      /\ \A j \in 1 .. Len(rooms) : rooms'[j] = rooms[j]
  BY <1>1, <1>3, AppendProperties
<1>5. DOMAIN rooms' = 1 .. Len(rooms) + 1
  BY <1>1, <1>4
<1> QED BY <1>1, <1>3, <1>4, <1>5

(* A message is sent to room i. *)
LEMMA Sent ==
  ASSUME RoomsTypes, NEW i \in DOMAIN rooms, NEW m \in Requests \cup {None}, Send(i, m)
  PROVE  \E x \in Room :
           /\ rooms' = [rooms EXCEPT ![i] = x]
           /\ x.host = rooms[i].host /\ x.users = rooms[i].users
           /\ x.inbox = IF rooms[i].host = None THEN rooms[i].inbox
                                                ELSE Append(rooms[i].inbox, m)
<1>1. rooms[i] \in Room  BY RoomKeys
<1>2. /\ rooms[i].host \in Servers \cup {None} /\ rooms[i].users \in SUBSET Users
      /\ rooms[i].inbox \in Seq(Requests \cup {None})
  BY <1>1 DEF Room
<1>3. PICK q : q = IF rooms[i].host = None THEN rooms[i].inbox
                                           ELSE Append(rooms[i].inbox, m)
  OBVIOUS
<1>4. q \in Seq(Requests \cup {None})
  BY <1>2, <1>3, AppendProperties
<1>5. PICK x : x = [rooms[i] EXCEPT !.inbox = q]  OBVIOUS
<1>6. /\ x \in Room /\ x.host = rooms[i].host /\ x.users = rooms[i].users
      /\ x.inbox = q
  BY <1>1, <1>4, <1>5 DEF Room
<1>7. rooms' = [rooms EXCEPT ![i] = x]
  BY <1>3, <1>5 DEF Send
<1> QED BY <1>3, <1>6, <1>7

(* Room i handles its oldest message. *)
LEMMA Handled ==
  ASSUME RoomsTypes, NEW i \in DOMAIN rooms, NEW m, NEW us \in SUBSET Users,
         Handle(i, m, us)
  PROVE  \E x \in Room :
           /\ rooms' = [rooms EXCEPT ![i] = x]
           /\ x.host = rooms[i].host /\ x.users = us
           /\ x.inbox = Tail(rooms[i].inbox) /\ rooms[i].inbox # <<>>
<1>1. rooms[i] \in Room  BY RoomKeys
<1>2. rooms[i].inbox \in Seq(Requests \cup {None}) /\ rooms[i].inbox # <<>>
  BY <1>1 DEF Room, Handle
<1>3. PICK q \in Seq(Requests \cup {None}) : q = Tail(rooms[i].inbox)
  BY <1>2, HeadTailProperties
<1>4. PICK x : x = [rooms[i] EXCEPT !.inbox = q, !.users = us]  OBVIOUS
<1>5. x \in Room /\ x.host = rooms[i].host /\ x.users = us /\ x.inbox = q
  BY <1>1, <1>3, <1>4 DEF Room
<1>6. rooms' = [rooms EXCEPT ![i] = x]
  BY <1>3, <1>4 DEF Handle
<1> QED BY <1>2, <1>3, <1>5, <1>6

LEMMA DeadRoom == Dead \in Room
<1>1. <<>> \in Seq(Requests \cup {None})  OBVIOUS
<1> QED BY <1>1 DEF Dead, Room

(* How the services change in a step. *)
LEMMA RoomsChange ==
  ASSUME IndInv, [Next]_vars
  PROVE  \/ rooms' = rooms
         \/ \E s \in Servers : /\ rooms' = Append(rooms, Fresh(s))
                               /\ Len(rooms) < MaxRooms
         \/ \E i \in DOMAIN rooms, x \in Room : rooms' = [rooms EXCEPT ![i] = x]
         \/ \E s \in Servers :
              rooms' = [i \in DOMAIN rooms |-> IF rooms[i].host = s THEN Dead ELSE rooms[i]]
<1>1. RoomsTypes /\ GameTypes /\ LoopAimed /\ req \in [Requests -> Request]
  BY Types DEF IndInv
<1>2. \A s \in Servers, rid \in Rids : room_map[s][rid] \in DOMAIN rooms \cup {None}
  BY <1>1 DEF RoomsTypes
<1>3. CASE EnterStep
  <2>1. PICK r \in Requests, u \in Users, s \in Servers, rid \in Rids : EnterAsk(r, s, u, rid)
    BY <1>3 DEF EnterStep
  <2>2. rooms' = rooms \/ (room_map[s][rid] # None /\ Send(room_map[s][rid], r))
    BY <2>1 DEF EnterAsk
  <2> QED BY <1>1, <1>2, <2>2, Sent
<1>4. CASE GameEnsure
  BY <1>1, <1>4 DEF GameEnsure, StartRoom, Fresh, Loop, LoopAimed
<1>5. ASSUME NEW r \in Requests, GameCreate(r)
      PROVE  \E s \in Servers : rooms' = Append(rooms, Fresh(s)) /\ Len(rooms) < MaxRooms
  <2>1. req[r].server \in Servers
    BY <1>5, Under DEF GameCreate, At, AtGame
  <2> QED BY <1>5, <2>1 DEF GameCreate, StartRoom, Fresh
<1>6. ASSUME NEW r \in Requests,
             GameDestroy(r) \/ GameDestroyed(r) \/ GameLeave(r)
      PROVE  \/ rooms' = rooms
             \/ \E i \in DOMAIN rooms, m \in Requests \cup {None} : Send(i, m)
  <2>1. CASE GameDestroy(r)
    <3>1. req[r].server \in Servers /\ req[r].rid \in Rids
      BY <2>1, Under DEF GameDestroy, At, AtGame
    <3> QED BY <1>2, <2>1, <3>1 DEF GameDestroy
  <2>2. CASE GameDestroyed(r)
    BY <2>2, Under DEF GameDestroyed, At, AtGame, AtRoom
  <2>3. CASE GameLeave(r)
    <3>1. req[r].server \in Servers /\ req[r].user \in Users
      BY <2>3, Under DEF GameLeave, At, AtGame
    <3>2. user2rooms[req[r].server][req[r].user] \in Rids \cup {None}
      BY <1>1, <3>1 DEF GameTypes
    <3> QED BY <1>2, <2>3, <3>1, <3>2 DEF GameLeave
  <2> QED BY <1>6, <2>1, <2>2, <2>3
<1>7. ASSUME NEW r \in Requests,
             RoomDestroyable(r) \/ RoomEnter(r) \/ RoomLeave(r)
      PROVE  \E i \in DOMAIN rooms, us \in SUBSET Users : Handle(i, r, us)
  <2>1. req[r].room \in DOMAIN rooms /\ req[r].user \in Users
    BY <1>7, Under DEF RoomDestroyable, RoomEnter, RoomLeave, At, AtGame, AtRoom
  <2>2. rooms[req[r].room].users \in SUBSET Users
    <3>1. rooms[req[r].room] \in Room  BY <1>1, <2>1, RoomKeys
    <3> QED BY <3>1 DEF Room
  <2> QED BY <1>7, <2>1, <2>2 DEF RoomDestroyable, RoomEnter, RoomLeave
<1>8. ASSUME NEW i \in DOMAIN rooms, RoomExit(i)
      PROVE  rooms' = [rooms EXCEPT ![i] = Dead]
  BY <1>8 DEF RoomExit
<1>9. ASSUME NEW i \in DOMAIN rooms, NEW m \in Requests \cup {None}, Send(i, m)
      PROVE  \E x \in Room : rooms' = [rooms EXCEPT ![i] = x]
  BY <1>1, <1>9, Sent
<1>10. ASSUME NEW i \in DOMAIN rooms, NEW m, NEW us \in SUBSET Users, Handle(i, m, us)
       PROVE  \E x \in Room : rooms' = [rooms EXCEPT ![i] = x]
  BY <1>1, <1>10, Handled
<1> QED
  BY <1>3, <1>4, <1>5, <1>6, <1>7, <1>8, <1>9, <1>10, DeadRoom, WhatChanges
  DEF RoomsStep, GameRestart

LEMMA RoomsTypesStep ==
  ASSUME IndInv, [Next]_vars
  PROVE  RoomsTypes' /\ DOMAIN rooms \subseteq DOMAIN rooms'
<1>1. RoomsTypes /\ LoopAimed /\ req \in [Requests -> Request]
  BY Types DEF IndInv
<1>2. /\ rooms' \in Seq(Room) /\ Len(rooms') <= MaxRooms
      /\ DOMAIN rooms \subseteq DOMAIN rooms'
  <2>1. CASE rooms' = rooms
    BY <1>1, <2>1 DEF RoomsTypes
  <2>2. CASE \E s \in Servers : rooms' = Append(rooms, Fresh(s)) /\ Len(rooms) < MaxRooms
    BY <1>1, <2>2, RoomAdded, RoomKeys, Nil
  <2>3. CASE \E i \in DOMAIN rooms, x \in Room : rooms' = [rooms EXCEPT ![i] = x]
    BY <1>1, <2>3, RoomEdited DEF RoomsTypes
  <2>4. ASSUME NEW s \in Servers,
               rooms' = [i \in DOMAIN rooms |-> IF rooms[i].host = s THEN Dead ELSE rooms[i]]
        PROVE  rooms' \in Seq(Room) /\ Len(rooms') = Len(rooms) /\ DOMAIN rooms' = DOMAIN rooms
    <3>1. /\ Len(rooms) \in Nat /\ DOMAIN rooms = 1 .. Len(rooms)
          /\ \A i \in DOMAIN rooms : rooms[i] \in Room
      BY <1>1, RoomKeys
    <3>2. rooms' \in [1 .. Len(rooms) -> Room]
      BY <2>4, <3>1, DeadRoom
    <3> QED BY <3>1, <3>2, SeqOf
  <2>5. Len(rooms) <= MaxRooms  BY <1>1 DEF RoomsTypes
  <2> QED BY <2>1, <2>2, <2>3, <2>4, <2>5, RoomsChange
<1>3. DOMAIN rooms \subseteq DOMAIN rooms'  BY <1>2
<1>4. room_map \in [Servers -> [Rids -> DOMAIN rooms' \cup {None}]]
  BY <1>1, <1>3 DEF RoomsTypes
<1>5. births \subseteq [rid : Rids, server : Servers, room : DOMAIN rooms',
                        by : Requests \cup {"loop", None}]
  BY <1>1, <1>3 DEF RoomsTypes
<1>6. room_map' \in [Servers -> [Rids -> DOMAIN rooms' \cup {None}]]
  <2>1. ASSUME NEW s, NEW rid, NEW x \in DOMAIN rooms' \cup {None},
               room_map' = [room_map EXCEPT ![s][rid] = x]
        PROVE  room_map' \in [Servers -> [Rids -> DOMAIN rooms' \cup {None}]]
    <3>1. s \in Servers => [room_map[s] EXCEPT ![rid] = x] \in [Rids -> DOMAIN rooms' \cup {None}]
      BY <1>4
    <3> QED BY <1>4, <2>1, <3>1
  <2>2. ASSUME NEW b \in births, RoomStarted(b)
        PROVE  room_map' = [room_map EXCEPT ![b.server][b.rid] = b.room]
               /\ b.room \in DOMAIN rooms'
    BY <1>5, <2>2 DEF RoomStarted
  <2>3. ASSUME NEW r \in Requests, GameDestroyed(r)
        PROVE  room_map' = [room_map EXCEPT ![req[r].server][req[r].rid] = None]
    BY <2>3 DEF GameDestroyed
  <2>4. ASSUME NEW s \in Servers, GameRestart(s)
        PROVE  room_map' \in [Servers -> [Rids -> DOMAIN rooms' \cup {None}]]
    <3>1. NoRooms \in [Rids -> DOMAIN rooms' \cup {None}]  BY DEF NoRooms
    <3> QED BY <1>4, <2>4, <3>1 DEF GameRestart
  <2> QED BY <1>4, <2>1, <2>2, <2>3, <2>4, WhatChanges DEF MapStep
<1>7. births' \subseteq [rid : Rids, server : Servers, room : DOMAIN rooms',
                         by : Requests \cup {"loop", None}]
  <2>1. ASSUME NEW s \in Servers, NEW rid \in Rids,
               NEW by \in Requests \cup {"loop", None}, StartRoom(s, rid, by)
        PROVE  births' \subseteq [rid : Rids, server : Servers, room : DOMAIN rooms',
                                  by : Requests \cup {"loop", None}]
    <3>1. Len(rooms) + 1 \in DOMAIN rooms'
      BY <1>1, <2>1, RoomAdded DEF StartRoom, Fresh
    <3>2. [rid |-> rid, server |-> s, by |-> by, room |-> Len(rooms) + 1]
            \in [rid : Rids, server : Servers, room : DOMAIN rooms',
                 by : Requests \cup {"loop", None}]
      BY <3>1
    <3> QED BY <1>5, <2>1, <3>2 DEF StartRoom
  <2>2. CASE GameEnsure
    BY <1>1, <1>5, <2>1, <2>2 DEF GameEnsure, Loop, LoopAimed
  <2>3. ASSUME NEW r \in Requests, GameCreate(r)
        PROVE  StartRoom(req[r].server, req[r].rid, r)
               /\ req[r].server \in Servers /\ req[r].rid \in Rids
    BY <2>3, Under DEF GameCreate, At, AtGame
  <2>4. ASSUME NEW s \in Servers, BreakLink(s)
        PROVE  births' \subseteq [rid : Rids, server : Servers, room : DOMAIN rooms',
                                  by : Requests \cup {"loop", None}]
    <3>1. \A b \in births :
            [b EXCEPT !.by = None] \in [rid : Rids, server : Servers, room : DOMAIN rooms',
                                        by : Requests \cup {"loop", None}]
      BY <1>5
    <3> QED BY <1>5, <2>4, <3>1 DEF BreakLink
  <2> QED BY <1>5, <2>1, <2>2, <2>3, <2>4, WhatChanges
          DEF BirthStep, RoomStarted, Fault, GameRestart
<1> QED BY <1>2, <1>6, <1>7 DEF RoomsTypes

-----------------------------------------------------------------------------
(* How requests change.                                                    *)

(* A request that goes on, to a room of a game server or not. *)
Goes(r, p, s, i) ==
  \/ req' = [req EXCEPT ![r].pc = p] /\ s = req[r].server /\ i = req[r].room
  \/ req' = [req EXCEPT ![r].pc = p, ![r].room = i] /\ s = req[r].server
  \/ req' = [req EXCEPT ![r].pc = p, ![r].server = s] /\ i = req[r].room

LEMMA GoesOn ==
  ASSUME IndInv, [Next]_vars, NEW r \in Requests, NEW p \in Stage,
         NEW s \in Servers \cup {None}, NEW i \in 0 .. MaxRooms, Goes(r, p, s, i),
         req[r].pc \in AtHall \cup AtGame,
         Fits(req[r].op, p),
         p \in AtGame \cup AtHall => p # "place" /\ s \in Servers,
         p \in AtRoom => i \in DOMAIN rooms
  PROVE  /\ req' \in [Requests -> Request]
         /\ \A q \in Requests : RequestSound(q)'
         /\ \A q \in Requests : q # r => req'[q] = req[q]
         /\ req'[r].pc = p /\ req'[r].op = req[r].op /\ req'[r].user = req[r].user
         /\ req'[r].rid = req[r].rid /\ req'[r].server = s
         /\ req'[r].room = i /\ req'[r].cut = req[r].cut
<1>1. req \in [Requests -> Request] /\ \A q \in Requests : RequestSound(q)
  BY Types DEF IndInv
<1>2. /\ req' \in [Requests -> Request]
      /\ \A q \in Requests : q # r => req'[q] = req[q]
      /\ req'[r].pc = p /\ req'[r].op = req[r].op /\ req'[r].user = req[r].user
      /\ req'[r].rid = req[r].rid /\ req'[r].server = s
      /\ req'[r].room = i /\ req'[r].cut = req[r].cut
  BY <1>1, Moved, MovedTo DEF Goes
<1>3. DOMAIN rooms \subseteq DOMAIN rooms'  BY RoomsTypesStep
<1>4. RequestSound(r)'
  <2>1. req[r].op \in Ops /\ req[r].user \in Users /\ p # "idle"
    BY Under DEF Stage, AtHall, AtGame, Answers
  <2>2. req[r].op # "leave" => req[r].rid \in Rids
    BY Under
  <2> QED BY <1>2, <1>3, <2>1, <2>2 DEF RequestSound
<1>5. \A q \in Requests : q # r => RequestSound(q)'
  BY <1>1, <1>2, <1>3 DEF RequestSound
<1> QED BY <1>2, <1>4, <1>5

(* A client asks. *)
LEMMA AsksWell ==
  ASSUME IndInv, [Next]_vars, NEW r \in Requests, NEW op \in Ops,
         NEW u \in Users, NEW rid \in 0 .. MaxRid, NEW s \in Servers \cup {None},
         NEW i \in 0 .. MaxRooms, NEW p \in Stage, Ask(r, op, u, rid, s, i, p),
         Fits(op, p),
         p \in AtGame \cup AtHall => /\ p # "place" => s \in Servers
                                     /\ op # "leave" => rid \in Rids,
         p \in AtRoom => i \in DOMAIN rooms
  PROVE  /\ req' \in [Requests -> Request]
         /\ \A q \in Requests : RequestSound(q)'
         /\ req[r] = Idle
         /\ \A q \in Requests : q # r => req'[q] = req[q]
         /\ req'[r] = [op |-> op, pc |-> p, user |-> u, rid |-> rid, server |-> s,
                       room |-> i, cut |-> FALSE,
                       hasty |-> p = "entering" /\ Overtakes(u, s, rid)]
<1>1. req \in [Requests -> Request] /\ \A q \in Requests : RequestSound(q)
  BY Types DEF IndInv
<1>2. /\ req' \in [Requests -> Request] /\ req[r] = Idle
      /\ \A q \in Requests : q # r => req'[q] = req[q]
      /\ req'[r] = [op |-> op, pc |-> p, user |-> u, rid |-> rid, server |-> s,
                    room |-> i, cut |-> FALSE,
                    hasty |-> p = "entering" /\ Overtakes(u, s, rid)]
  BY <1>1, Asked
<1>3. DOMAIN rooms \subseteq DOMAIN rooms'  BY RoomsTypesStep
<1>4. RequestSound(r)'
  <2>1. p # "idle"  BY DEF Stage, AtHall, AtGame, Answers
  <2>2. /\ req'[r].op = op /\ req'[r].pc = p /\ req'[r].user = u /\ req'[r].rid = rid
        /\ req'[r].server = s /\ req'[r].room = i
    BY <1>2
  <2>3. p \in AtGame \cup (AtHall \ {"place"}) => s \in Servers
    BY DEF AtGame
  <2>4. p \in AtGame \cup AtHall /\ op # "leave" => rid \in Rids
    OBVIOUS
  <2>5. p \in AtRoom => i \in DOMAIN rooms'
    BY <1>3
  <2> QED BY <2>1, <2>2, <2>3, <2>4, <2>5 DEF RequestSound
<1>5. \A q \in Requests : q # r => RequestSound(q)'
  BY <1>1, <1>2, <1>3 DEF RequestSound
<1> QED BY <1>2, <1>4, <1>5

(* A request goes on in a way that RequestSound allows. *)
Advances(r, p, s, i) ==
  /\ Goes(r, p, s, i)
  /\ req[r].pc \in AtHall \cup AtGame
  /\ Fits(req[r].op, p)
  /\ req[r].pc # "place" => s = req[r].server
  /\ p \in AtGame \cup AtHall => p # "place" /\ s \in Servers
  /\ p \in AtRoom => i \in DOMAIN rooms

Advance(r) ==
  \E p \in Stage, s \in Servers \cup {None}, i \in 0 .. MaxRooms : Advances(r, p, s, i)

(* A plain move, with the answer of a game server or another stage. *)
LEMMA MoveAdvances ==
  ASSUME IndInv, NEW r \in Requests, NEW p \in Stage,
         Move(r, p) \/ Answer(r, p),
         req[r].pc \in AtHall \cup AtGame,
         Fits(req[r].op, p),
         p \in AtGame \cup AtHall => p # "place" /\ req[r].pc # "place",
         p \in AtRoom => req[r].pc \in AtRoom
  PROVE  Advance(r)
<1>1. /\ req[r].server \in Servers \cup {None} /\ req[r].room \in 0 .. MaxRooms
      /\ req[r].pc # "place" => req[r].server \in Servers
      /\ req[r].pc \in AtRoom => req[r].room \in DOMAIN rooms
  BY Under DEF AtRoom
<1>2. CASE req' = [req EXCEPT ![r].pc = p]
  <2>1. Advances(r, p, req[r].server, req[r].room)
    BY <1>1, <1>2 DEF Advances, Goes
  <2> QED BY <1>1, <2>1 DEF Advance
<1>3. CASE req' = [req EXCEPT ![r].pc = "error"]
  <2>1. "error" \in Stage /\ "error" \notin AtGame \cup AtHall /\ "error" \notin AtRoom
        /\ Fits(req[r].op, "error")
    BY DEF Stage, AtHall, AtGame, AtRoom, Answers, Fits
  <2>2. Advances(r, "error", req[r].server, req[r].room)
    BY <1>1, <1>3, <2>1 DEF Advances, Goes
  <2> QED BY <1>1, <2>1, <2>2 DEF Advance
<1> QED BY <1>2, <1>3 DEF Move, Answer

LEMMA RequestAdvances ==
  ASSUME IndInv, NEW r \in Requests, RequestStep(r)
  PROVE  Advance(r)
<1>1. req \in [Requests -> Request] /\ RequestSound(r) /\ RoomsTypes /\ ProxyTypes /\ GameTypes
  BY Types DEF IndInv
<1>2. /\ \A p \in AtHall \cup AtGame \cup Answers : p \in Stage
      /\ \A op : \A p \in (Answers \ {"assert"}) \cup {"sent", "selected"} : Fits(op, p)
      /\ AtRoom \subseteq AtGame
      /\ Answers \cap (AtHall \cup AtGame) = {}
  BY DEF Stage, Fits, AtHall, AtGame, Answers, AtRoom
<1>3. CASE CreatePlace(r)
  <2>1. CASE Move(r, "error")
    BY <1>2, <1>3, <2>1, MoveAdvances DEF CreatePlace, At, AtHall, AtGame, Answers, AtRoom
  <2>2. ASSUME NEW s \in proxy.gamelets, req' = [req EXCEPT ![r].pc = "sent", ![r].server = s]
        PROVE  Advance(r)
    <3>1. s \in Servers  BY <1>1 DEF ProxyTypes
    <3>2. req[r].room \in 0 .. MaxRooms  BY <1>1 DEF Request
    <3>3. Advances(r, "sent", s, req[r].room)
      BY <1>2, <1>3, <2>2, <3>1 DEF CreatePlace, At, Advances, Goes, AtHall, AtRoom
    <3> QED BY <1>2, <3>1, <3>2, <3>3 DEF Advance, AtGame
  <2> QED BY <1>3, <2>1, <2>2 DEF CreatePlace
<1>4. CASE GameCreate(r)
  <2>1. Move(r, "starting") \/ Answer(r, "starting")
    BY <1>4 DEF GameCreate
  <2> QED BY <1>2, <1>4, <2>1, MoveAdvances
          DEF GameCreate, At, Fits, AtHall, AtGame, AtRoom, Answers
<1>5. CASE CreateRecord(r)
  <2>1. Move(r, "recorded") \/ Answer(r, "recorded")
    BY <1>5 DEF CreateRecord
  <2> QED BY <1>2, <1>5, <2>1, MoveAdvances
          DEF CreateRecord, At, Fits, AtHall, AtGame, AtRoom, Answers
<1>6. CASE CreateDone(r)
  <2>1. Move(r, "200") \/ Answer(r, "200")
    BY <1>6 DEF CreateDone, SetRoom
  <2> QED BY <1>2, <1>6, <2>1, MoveAdvances
          DEF CreateDone, At, Fits, AtHall, AtGame, AtRoom, Answers, SetRoom
<1>7. CASE DestroyCheck(r)
  <2>1. \/ Move(r, "error") \/ Answer(r, "error")
        \/ Move(r, "403") \/ Answer(r, "403")
        \/ Move(r, "sent") \/ Answer(r, "sent")
    BY <1>7 DEF DestroyCheck
  <2> QED BY <1>2, <1>7, <2>1, MoveAdvances
          DEF DestroyCheck, At, Fits, AtHall, AtGame, AtRoom, Answers
<1>8. CASE RoomDestroyable(r)
  <2>1. \/ Move(r, "empty") \/ Answer(r, "empty")
        \/ Move(r, "403") \/ Answer(r, "403")
    BY <1>8 DEF RoomDestroyable
  <2> QED BY <1>2, <1>8, <2>1, MoveAdvances
          DEF RoomDestroyable, At, Fits, AtHall, AtGame, AtRoom, Answers
<1>9. CASE GameDestroyed(r)
  <2>1. Move(r, "destroyed") \/ Answer(r, "destroyed")
    BY <1>9 DEF GameDestroyed
  <2> QED BY <1>2, <1>9, <2>1, MoveAdvances
          DEF GameDestroyed, At, Fits, AtHall, AtGame, AtRoom, Answers
<1>10. CASE DestroyDone(r)
  <2>1. Move(r, "200") \/ Answer(r, "200")
    BY <1>10 DEF DestroyDone
  <2> QED BY <1>2, <1>10, <2>1, MoveAdvances
          DEF DestroyDone, At, Fits, AtHall, AtGame, AtRoom, Answers
<1>11. CASE GameSelect(r)
  <2>1. \/ Move(r, "404") \/ Answer(r, "404")
        \/ Move(r, "selected") \/ Answer(r, "selected")
        \/ Move(r, "200") \/ Answer(r, "200")
    BY <1>11 DEF GameSelect
  <2> QED BY <1>2, <1>11, <2>1, MoveAdvances
          DEF GameSelect, At, Fits, AtHall, AtGame, AtRoom, Answers
<1>12. CASE SelectDone(r)
  <2>1. Move(r, "200") \/ Answer(r, "200")
    BY <1>12 DEF SelectDone, SetRoom
  <2> QED BY <1>2, <1>12, <2>1, MoveAdvances
          DEF SelectDone, At, Fits, AtHall, AtGame, AtRoom, Answers, SetRoom
<1>13. CASE RoomEnter(r)
  <2>1. Move(r, "200") \/ Answer(r, "200")
    BY <1>13 DEF RoomEnter
  <2> QED BY <1>2, <1>13, <2>1, MoveAdvances
          DEF RoomEnter, At, Fits, AtHall, AtGame, AtRoom, Answers
<1>14. CASE RoomLeave(r)
  <2>1. Move(r, "gone") \/ Answer(r, "gone")
    BY <1>14 DEF RoomLeave
  <2> QED BY <1>2, <1>14, <2>1, MoveAdvances
          DEF RoomLeave, At, Fits, AtHall, AtGame, AtRoom, Answers
<1>15. CASE GameLeft(r)
  <2>1. Move(r, "left") \/ Answer(r, "left")
    BY <1>15 DEF GameLeft
  <2> QED BY <1>2, <1>15, <2>1, MoveAdvances
          DEF GameLeft, At, Fits, AtHall, AtGame, AtRoom, Answers
<1>16. CASE LeaveDone(r)
  <2>1. Move(r, "200") \/ Answer(r, "200")
    BY <1>16 DEF LeaveDone, SetRoom
  <2> QED BY <1>2, <1>16, <2>1, MoveAdvances
          DEF LeaveDone, At, Fits, AtHall, AtGame, AtRoom, Answers, SetRoom
<1>17. CASE GameDestroy(r) \/ GameLeave(r)
  <2>1. /\ req[r].server \in Servers /\ req[r].pc = "sent"
        /\ req[r].op = IF GameDestroy(r) THEN "destroy" ELSE "leave"
    BY <1>17, Under DEF GameDestroy, GameLeave, At, AtGame
  <2>2. \A s \in Servers, rid \in Rids : room_map[s][rid] \in DOMAIN rooms \cup {None}
    BY <1>1 DEF RoomsTypes
  <2>3. \/ Answer(r, "404")
        \/ Answer(r, "assert") /\ req[r].op = "leave"
        \/ \E i \in DOMAIN rooms, p \in {"asking", "leaving"} :
             /\ req' = [req EXCEPT ![r].pc = p, ![r].room = i]
             /\ Fits(req[r].op, p)
    <3>1. CASE GameDestroy(r)
      <4>1. req[r].rid \in Rids  BY <3>1, Under DEF GameDestroy, At, AtGame
      <4> QED BY <2>1, <2>2, <3>1, <4>1 DEF GameDestroy, Fits
    <3>2. CASE GameLeave(r)
      <4>1. req[r].op = "leave" /\ req[r].user \in Users
        BY <3>2, Under DEF GameLeave, At, AtGame
      <4>2. user2rooms[req[r].server][req[r].user] \in Rids \cup {None}
        BY <1>1, <2>1, <4>1 DEF GameTypes
      <4> QED BY <2>1, <2>2, <3>2, <4>1, <4>2 DEF GameLeave, Fits
    <3> QED BY <1>17, <3>1, <3>2
  <2>4. CASE Answer(r, "404") \/ (Answer(r, "assert") /\ req[r].op = "leave")
    BY <1>2, <2>1, <2>4, MoveAdvances DEF Fits, AtHall, AtGame, AtRoom, Answers
  <2>5. ASSUME NEW i \in DOMAIN rooms, NEW p \in {"asking", "leaving"},
               req' = [req EXCEPT ![r].pc = p, ![r].room = i], Fits(req[r].op, p)
        PROVE  Advance(r)
    <3>1. i \in 0 .. MaxRooms  BY <1>1, RoomKeys
    <3>2. p \in Stage /\ p # "place"  BY DEF Stage, AtGame
    <3>3. Advances(r, p, req[r].server, i)
      BY <2>1, <2>5, <3>2 DEF Advances, Goes, AtGame
    <3> QED BY <2>1, <3>1, <3>2, <3>3 DEF Advance
  <2> QED BY <2>3, <2>4, <2>5
<1> QED BY <1>3, <1>4, <1>5, <1>6, <1>7, <1>8, <1>9, <1>10, <1>11, <1>12, <1>13, <1>14, <1>15, <1>16, <1>17 DEF RequestStep

(* What a client asks for. *)
Asks(r) ==
  \E u \in Users :
    \/ CreateAsk(r, u) \/ LeaveAsk(r, u) \/ ReconnAsk(r, u)
    \/ \E rid \in Rids : DestroyAsk(r, u, rid)
    \/ \E rid \in Rids, s \in Servers :
         SelectAsk(r, u, rid, s) \/ EnterAsk(r, s, u, rid)

(* A request begins idle and is sound. *)
AskedWell(r) ==
  \E op \in Ops, u \in Users, rid \in 0 .. MaxRid, s \in Servers \cup {None},
     i \in 0 .. MaxRooms, p \in Stage :
    /\ Ask(r, op, u, rid, s, i, p)
    /\ Fits(op, p)
    /\ p \in AtGame \cup AtHall => /\ p # "place" => s \in Servers
                                   /\ op # "leave" => rid \in Rids
    /\ p \in AtRoom => i \in DOMAIN rooms

LEMMA AsksSound ==
  ASSUME IndInv, NEW r \in Requests, Asks(r)
  PROVE  AskedWell(r)
<1>1. HallTypes /\ ProxyTypes /\ RoomsTypes
  BY Types DEF IndInv
<1>2. /\ 0 \in 0 .. MaxRid /\ 0 \in 0 .. MaxRooms
      /\ \A rid \in Rids : rid \in 0 .. MaxRid
      /\ DOMAIN rooms \subseteq 0 .. MaxRooms
  BY <1>1, Nil, RoomKeys DEF Rids
<1>3. /\ \A p \in {"place", "check", "404", "error", "dropped", "sent", "entering"} : p \in Stage
      /\ {"404", "error", "dropped"} \cap (AtGame \cup AtHall) = {}
      /\ {"404", "error", "dropped", "place", "check", "sent"} \cap AtRoom = {}
  BY DEF Stage, AtHall, AtGame, AtRoom, Answers
<1>4. \A op, p : p \in {"404", "error", "dropped", "sent", "check"} => Fits(op, p)
  BY DEF Fits
<1>5. ASSUME NEW u \in Users, CreateAsk(r, u) PROVE AskedWell(r)
  <2>1. nextid \in Rids  BY <1>1, <1>5, Nil DEF CreateAsk, HallTypes, Rids
  <2>2. Fits("create", "place") /\ "create" \in Ops  BY DEF Fits, Ops
  <2>3. Ask(r, "create", u, nextid, None, 0, "place")  BY <1>5 DEF CreateAsk
  <2> QED BY <1>2, <1>3, <2>1, <2>2, <2>3 DEF AskedWell
<1>6. ASSUME NEW u \in Users, LeaveAsk(r, u) PROVE AskedWell(r)
  <2>1. PICK s \in Servers \cup {None}, p \in {"error", "404", "sent"} :
          Ask(r, "leave", u, 0, s, 0, p) /\ (p = "sent" => s \in Servers)
    <3>1. user_room[u] # None => user_room[u].rid \in 0 .. MaxRid
      BY <1>1 DEF HallTypes
    <3>2. \A rid \in Rids : proxy.room2servers[rid] \in Servers \cup {None}
      BY <1>1 DEF ProxyTypes
    <3>3. user_room[u] # None /\ user_room[u].rid # 0 => user_room[u].rid \in Rids
      BY <3>1, Nil DEF Rids
    <3> QED BY <1>6, <3>2, <3>3 DEF LeaveAsk
  <2>2. "leave" \in Ops  BY DEF Ops
  <2> QED BY <1>2, <1>3, <1>4, <2>1, <2>2 DEF AskedWell
<1>7. ASSUME NEW u \in Users, ReconnAsk(r, u) PROVE AskedWell(r)
  <2>1. CASE Ask(r, "reconn", u, 0, None, 0, "404")
    <3>1. "reconn" \in Ops  BY DEF Ops
    <3> QED BY <1>2, <1>3, <1>4, <2>1, <3>1 DEF AskedWell
  <2>2. ASSUME ~ Ask(r, "reconn", u, 0, None, 0, "404") PROVE AskedWell(r)
    <3>1. PICK rid \in Rids, s \in Servers : Ask(r, "reconn", u, rid, s, 0, "sent")
      <4>1. /\ user_room[u] # None /\ user_room[u].rid # 0
            /\ user_room[u].sname \in proxy.server_infos
            /\ Ask(r, "reconn", u, user_room[u].rid, user_room[u].sname, 0, "sent")
        BY <1>7, <2>2 DEF ReconnAsk
      <4>2. user_room[u].rid \in Rids
        BY <1>1, <4>1, Nil DEF HallTypes, Rids
      <4>3. user_room[u].sname \in Servers
        BY <1>1, <4>1 DEF ProxyTypes
      <4> QED BY <4>1, <4>2, <4>3
    <3>2. "reconn" \in Ops  BY DEF Ops
    <3> QED BY <1>2, <1>3, <1>4, <3>1, <3>2 DEF AskedWell
  <2> QED BY <2>1, <2>2
<1>8. ASSUME NEW u \in Users, NEW rid \in Rids, DestroyAsk(r, u, rid) PROVE AskedWell(r)
  <2>1. PICK s \in Servers \cup {None}, p \in {"404", "check"} :
          Ask(r, "destroy", u, rid, s, 0, p) /\ (p = "check" => s \in Servers)
    <3>1. proxy.room2servers[rid] \in Servers \cup {None}
      BY <1>1 DEF ProxyTypes
    <3> QED BY <1>8, <3>1 DEF DestroyAsk
  <2>2. "destroy" \in Ops  BY DEF Ops
  <2> QED BY <1>2, <1>3, <1>4, <2>1, <2>2 DEF AskedWell
<1>9. ASSUME NEW u \in Users, NEW rid \in Rids, NEW s \in Servers,
             SelectAsk(r, u, rid, s)
      PROVE  AskedWell(r)
  <2>1. PICK p \in {"404", "sent"} : Ask(r, "select", u, rid, s, 0, p)
    BY <1>9 DEF SelectAsk
  <2>2. "select" \in Ops  BY DEF Ops
  <2> QED BY <1>2, <1>3, <1>4, <2>1, <2>2 DEF AskedWell
<1>10. ASSUME NEW u \in Users, NEW rid \in Rids, NEW s \in Servers,
              EnterAsk(r, s, u, rid)
       PROVE  AskedWell(r)
  <2>1. room_map[s][rid] \in DOMAIN rooms \cup {None}
    BY <1>1 DEF RoomsTypes
  <2>2. Fits("enter", "entering") /\ "enter" \in Ops  BY DEF Fits, Ops
  <2>3. CASE Ask(r, "enter", u, rid, s, 0, "dropped")
    BY <1>2, <1>3, <1>4, <2>2, <2>3 DEF AskedWell
  <2>4. CASE room_map[s][rid] # None /\ Ask(r, "enter", u, rid, s, room_map[s][rid], "entering")
    BY <1>2, <1>3, <2>1, <2>2, <2>4 DEF AskedWell
  <2> QED BY <1>10, <2>3, <2>4 DEF EnterAsk
<1> QED BY <1>5, <1>6, <1>7, <1>8, <1>9, <1>10 DEF Asks

(* Who moves a request. *)
LEMMA WhoMoves ==
  ASSUME IndInv, [Next]_vars, NEW q \in Requests
  PROVE  \/ req'[q] = req[q] \/ Asks(q) \/ RequestStep(q) \/ Fault
         \/ \E b \in births : b.by = q /\ RoomStarted(b)
<1> req \in [Requests -> Request]
  BY Types DEF IndInv
<1>1. ASSUME NEW r \in Requests, Asks(r) PROVE r = q \/ req'[q] = req[q]
  BY <1>1, AskPuts DEF Asks, CreateAsk, LeaveAsk, ReconnAsk, DestroyAsk, SelectAsk, EnterAsk
<1>2. ASSUME NEW r \in Requests, RequestStep(r) PROVE r = q \/ req'[q] = req[q]
  BY <1>2
  DEF RequestStep, CreatePlace, GameCreate, CreateRecord, CreateDone, DestroyCheck,
      GameDestroy, RoomDestroyable, GameDestroyed, DestroyDone, GameSelect, SelectDone,
      RoomEnter, GameLeave, RoomLeave, GameLeft, LeaveDone, SetRoom, Move, Answer
<1>3. ASSUME NEW b \in births, RoomStarted(b) PROVE b.by = q \/ req'[q] = req[q]
  BY <1>3 DEF RoomStarted, Answer, Move
<1>4. Client => \E r \in Requests : Asks(r)
  BY DEF Client, Asks
<1> QED BY <1>1, <1>2, <1>3, <1>4, WhatChanges

(* The fields of a request that goes on. *)
LEMMA AdvanceKeeps ==
  ASSUME IndInv, [Next]_vars, NEW q \in Requests, Advance(q)
  PROVE  /\ req'[q].op = req[q].op /\ req'[q].user = req[q].user
         /\ req'[q].rid = req[q].rid /\ req'[q].cut = req[q].cut
         /\ req[q].pc # "place" => req'[q].server = req[q].server
         /\ req[q].pc \in AtHall \cup AtGame
BY GoesOn DEF Advance, Advances

(* A room that was started for a request: the request goes on. *)
LEMMA StartedAdvances ==
  ASSUME IndInv, NEW b \in births, RoomStarted(b), b.by \in Requests
  PROVE  Advance(b.by)
<1>1. PICK r \in Requests : r = b.by  OBVIOUS
<1>2. req[r].pc = "starting" /\ req[r].op = "create"
  BY <1>1 DEF IndInv, BirthOwned, At
<1>3. Answer(r, "created")  BY <1>1 DEF RoomStarted
<1> QED BY <1>1, <1>2, <1>3, MoveAdvances DEF Stage, AtHall, AtGame, AtRoom, Fits

(* What clients ask for, and where it goes first. *)
LEMMA AskPlaces ==
  ASSUME IndInv, NEW q \in Requests, Asks(q)
  PROVE  /\ req[q] = Idle /\ req'[q].cut = FALSE
         /\ \/ req'[q].op = "create" /\ req'[q].pc = "place"
            \/ req'[q].op = "destroy" /\ req'[q].pc \in {"404", "check"}
            \/ req'[q].op = "enter" /\ req'[q].pc \in {"dropped", "entering"}
            \/ req'[q].op = "leave" /\ req'[q].pc \in {"error", "404", "sent"}
            \/ req'[q].op \in {"select", "reconn"} /\ req'[q].pc \in {"404", "sent"}
<1>1. req \in [Requests -> Request]  BY Types DEF IndInv
<1>2. ASSUME NEW op, NEW u, NEW rid, NEW s, NEW i, NEW p, Ask(q, op, u, rid, s, i, p)
      PROVE  req'[q].op = op /\ req'[q].pc = p /\ req'[q].cut = FALSE /\ req[q] = Idle
  BY <1>1, <1>2 DEF Ask
<1>3. PICK op, u, rid, s, i, p :
        /\ Ask(q, op, u, rid, s, i, p)
        /\ \/ op = "create" /\ p = "place"
           \/ op = "destroy" /\ p \in {"404", "check"}
           \/ op = "enter" /\ p \in {"dropped", "entering"}
           \/ op = "leave" /\ p \in {"error", "404", "sent"}
           \/ op \in {"select", "reconn"} /\ p \in {"404", "sent"}
  <2>1. ASSUME NEW u \in Users, CreateAsk(q, u)
        PROVE  Ask(q, "create", u, nextid, None, 0, "place")
    BY <2>1 DEF CreateAsk
  <2>2. ASSUME NEW u \in Users, LeaveAsk(q, u)
        PROVE  \E s, p : Ask(q, "leave", u, 0, s, 0, p) /\ p \in {"error", "404", "sent"}
    BY <2>2 DEF LeaveAsk
  <2>3. ASSUME NEW u \in Users, ReconnAsk(q, u)
        PROVE  \E rid, s, p : Ask(q, "reconn", u, rid, s, 0, p) /\ p \in {"404", "sent"}
    BY <2>3 DEF ReconnAsk
  <2>4. ASSUME NEW u \in Users, NEW rid \in Rids, DestroyAsk(q, u, rid)
        PROVE  \E s, p : Ask(q, "destroy", u, rid, s, 0, p) /\ p \in {"404", "check"}
    BY <2>4 DEF DestroyAsk
  <2>5. ASSUME NEW u \in Users, NEW rid \in Rids, NEW s \in Servers, SelectAsk(q, u, rid, s)
        PROVE  \E p : Ask(q, "select", u, rid, s, 0, p) /\ p \in {"404", "sent"}
    BY <2>5 DEF SelectAsk
  <2>6. ASSUME NEW u \in Users, NEW rid \in Rids, NEW s \in Servers, EnterAsk(q, s, u, rid)
        PROVE  \E i, p : Ask(q, "enter", u, rid, s, i, p) /\ p \in {"dropped", "entering"}
    BY <2>6 DEF EnterAsk
  <2> QED BY <2>1, <2>2, <2>3, <2>4, <2>5, <2>6 DEF Asks
<1> QED BY <1>2, <1>3

LEMMA RequestsStep ==
  ASSUME IndInv, [Next]_vars
  PROVE  req' \in [Requests -> Request] /\ \A q \in Requests : RequestSound(q)'
<1>1. req \in [Requests -> Request] /\ \A q \in Requests : RequestSound(q)
  BY Types DEF IndInv
<1>2. DOMAIN rooms \subseteq DOMAIN rooms'  BY RoomsTypesStep
<1>3. CASE req' = req
  BY <1>1, <1>2, <1>3 DEF RequestSound
<1>4. ASSUME NEW r \in Requests, Asks(r)
      PROVE  req' \in [Requests -> Request] /\ \A q \in Requests : RequestSound(q)'
  <2>1. AskedWell(r)  BY <1>4, AsksSound
  <2> QED BY <2>1, AsksWell DEF AskedWell
<1>5. ASSUME NEW r \in Requests, Advance(r)
      PROVE  req' \in [Requests -> Request] /\ \A q \in Requests : RequestSound(q)'
  BY <1>5, GoesOn DEF Advance, Advances
<1>6. ASSUME NEW b \in births, RoomStarted(b), b.by \in Requests
      PROVE  Advance(b.by)
  BY <1>6, StartedAdvances
<1>7. ASSUME NEW b \in births, RoomStarted(b), b.by \notin Requests PROVE req' = req
  BY <1>7 DEF RoomStarted
<1>8. ASSUME NEW r \in Requests, NEW x \in Request,
             \/ x = [req[r] EXCEPT !.pc = "error"] /\ req[r].pc \in AtGame
             \/ x = [req[r] EXCEPT !.cut = TRUE] /\ req[r].pc \in AtGame
             \/ x = req[r],
             req'[r] = x
      PROVE  RequestSound(r)'
  <2>1. CASE x = req[r]
    BY <1>1, <1>2, <1>8, <2>1 DEF RequestSound
  <2>2. CASE x = [req[r] EXCEPT !.pc = "error"] /\ req[r].pc \in AtGame
    <3>1. req[r] \in Request  BY <1>1
    <3>2. /\ req'[r].op = req[r].op /\ req'[r].user = req[r].user /\ req'[r].pc = "error"
      BY <1>8, <2>2, <3>1 DEF Request
    <3>3. req[r].op \in Ops /\ req[r].user \in Users  BY <2>2, Under
    <3> QED BY <3>2, <3>3 DEF RequestSound, AtGame, AtHall, AtRoom, Fits
  <2>3. CASE x = [req[r] EXCEPT !.cut = TRUE] /\ req[r].pc \in AtGame
    <3>1. req[r] \in Request  BY <1>1
    <3>2. /\ req'[r].op = req[r].op /\ req'[r].user = req[r].user /\ req'[r].pc = req[r].pc
          /\ req'[r].rid = req[r].rid /\ req'[r].server = req[r].server
          /\ req'[r].room = req[r].room
      BY <1>8, <2>3, <3>1 DEF Request
    <3>3. req[r].op \in Ops /\ req[r].user \in Users /\ req[r].pc # "idle"
      BY <2>3, Under DEF AtGame
    <3> QED BY <1>1, <1>2, <3>2, <3>3 DEF RequestSound
  <2> QED BY <1>8, <2>1, <2>2, <2>3
<1>9. ASSUME NEW r \in Requests, req[r].pc \in AtGame
      PROVE  /\ [req[r] EXCEPT !.pc = "error"] \in Request
             /\ [req[r] EXCEPT !.cut = TRUE] \in Request
  <2>1. req[r] \in Request  BY <1>1
  <2> QED BY <2>1 DEF Request, Answers
<1>10. ASSUME NEW s \in Servers, GameRestart(s)
       PROVE  req' \in [Requests -> Request] /\ \A q \in Requests : RequestSound(q)'
  <2>1. req' = [r \in Requests |->
                  IF req[r].server = s /\ req[r].pc \in AtGame
                  THEN [req[r] EXCEPT !.pc = "error"] ELSE req[r]]
    BY <1>10 DEF GameRestart
  <2> QED BY <1>1, <1>8, <1>9, <2>1
<1>11. ASSUME NEW s \in Servers, BreakLink(s)
       PROVE  req' \in [Requests -> Request] /\ \A q \in Requests : RequestSound(q)'
  <2>1. PICK on, lost \in SUBSET {r \in Requests : req[r].pc \in AtGame} :
          req' = [r \in Requests |->
                    IF r \in lost THEN [req[r] EXCEPT !.pc = "error"]
                    ELSE IF r \in on THEN [req[r] EXCEPT !.cut = TRUE]
                    ELSE req[r]]
    BY <1>11 DEF BreakLink
  <2> QED BY <1>1, <1>8, <1>9, <2>1
<1>12. Client => \E r \in Requests : Asks(r)
  BY DEF Client, Asks
<1> QED BY <1>3, <1>4, <1>5, <1>6, <1>7, <1>10, <1>11, <1>12, RequestAdvances, WhatChanges DEF Fault

(* A request keeps what it asks for, from the moment it is asked. *)
LEMMA RequestKeeps ==
  ASSUME IndInv, [Next]_vars, NEW q \in Requests, req[q].op \in Ops
  PROVE  req'[q].op = req[q].op /\ req'[q].user = req[q].user /\ req'[q].rid = req[q].rid
<1>1. req \in [Requests -> Request] /\ req[q] \in Request
  BY Types DEF IndInv
<1>2. ~ Asks(q)
  <2>1. Asks(q) => req[q] = Idle
    BY AskPuts DEF Asks, CreateAsk, LeaveAsk, ReconnAsk, DestroyAsk, SelectAsk, EnterAsk
  <2> QED BY <2>1, Nil DEF Idle
<1>3. ASSUME Advance(q)
      PROVE  req'[q].op = req[q].op /\ req'[q].user = req[q].user /\ req'[q].rid = req[q].rid
  BY <1>3, AdvanceKeeps
<1>4. ASSUME NEW b \in births, b.by = q, RoomStarted(b) PROVE Advance(q)
  BY <1>4, StartedAdvances
<1>5. ASSUME Fault
      PROVE  req'[q].op = req[q].op /\ req'[q].user = req[q].user /\ req'[q].rid = req[q].rid
  BY <1>1, <1>5 DEF Fault, GameRestart, BreakLink, Request
<1> QED BY <1>2, <1>3, <1>4, <1>5, RequestAdvances, WhoMoves

(* Who created a room did so for good. *)
LEMMA CreatedStays ==
  ASSUME IndInv, [Next]_vars, NEW rid, NEW u, Created(rid, u)
  PROVE  Created(rid, u)'
<1>1. PICK c \in Requests : req[c].op = "create" /\ req[c].rid = rid /\ req[c].user = u
  BY DEF Created
<1>2. req[c].op \in Ops  BY <1>1 DEF Ops
<1> QED BY <1>1, <1>2, RequestKeeps DEF Created

LEMMA CreatorsStep ==
  ASSUME IndInv, [Next]_vars
  PROVE  (RecordsCreated /\ CreatorDestroys)'
<1>1. /\ HallTypes /\ RecordsCreated /\ CreatorDestroys
      /\ req \in [Requests -> Request]
  BY Types DEF IndInv
<1>2. RecordsCreated'
  <2> SUFFICES ASSUME NEW rid \in Rids, record'[rid] # None,
                      NEW u, u = record'[rid].creator
               PROVE  Created(rid, u)'
    BY DEF RecordsCreated, Created
  <2>1. CASE record'[rid] = record[rid]
    BY <1>1, <2>1, CreatedStays DEF RecordsCreated
  <2>2. ASSUME NEW r \in Requests, CreateRecord(r), record'[rid] # record[rid]
        PROVE  Created(rid, u)'
    <3>1. req[r].rid = rid /\ record'[rid].creator = req[r].user
      BY <1>1, <2>2 DEF CreateRecord, HallTypes
    <3>2. Created(rid, u)
      BY <2>2, <3>1 DEF CreateRecord, At, Created
    <3> QED BY <3>2, CreatedStays
  <2>3. ASSUME NEW r \in Requests, DestroyDone(r)
        PROVE  record'[rid] = record[rid] \/ record'[rid] = None
    BY <1>1, <2>3 DEF DestroyDone, HallTypes
  <2> QED BY <2>1, <2>2, <2>3, WhatChanges DEF RecordStep
<1>3. CreatorDestroys'
  <2> DEFINE Late == {"sent", "asking", "empty", "destroyed", "200"}
  <2> SUFFICES ASSUME NEW q \in Requests, req'[q].op = "destroy", req'[q].pc \in Late
               PROVE  Created(req[q].rid, req[q].user)
                        /\ req'[q].rid = req[q].rid /\ req'[q].user = req[q].user
    BY CreatedStays DEF CreatorDestroys, Created
  <2>1. req[q] \in Request /\ RequestSound(q)  BY <1>1 DEF IndInv
  <2>2. CASE req[q].op = "destroy" /\ req[q].pc \in Late
    <3>1. req[q].op \in Ops  BY <2>2 DEF Ops
    <3> QED BY <1>1, <2>2, <3>1, RequestKeeps DEF CreatorDestroys, Created
  <2>3. CASE ~ (req[q].op = "destroy" /\ req[q].pc \in Late)
    <3>1. ~ Asks(q)
      BY AskPlaces
    <3>2. CASE RequestStep(q)
      <4>1. req'[q].op = req[q].op /\ req'[q].user = req[q].user /\ req'[q].rid = req[q].rid
        BY <3>2, RequestAdvances, AdvanceKeeps
      <4>2. DestroyCheck(q)
        BY <2>3, <3>2, <4>1
        DEF RequestStep, CreatePlace, GameCreate, CreateRecord, CreateDone,
            GameDestroy, RoomDestroyable, GameDestroyed, DestroyDone, GameSelect,
            SelectDone, RoomEnter, GameLeave, RoomLeave, GameLeft, LeaveDone, SetRoom, At
      <4>3. req[q].rid \in Rids  BY <4>2, Under DEF DestroyCheck, At, AtHall
      <4>4. record[req[q].rid] # None /\ record[req[q].rid].creator = req[q].user
        <5>1. \A p : Move(q, p) => req'[q].pc = p
          BY <1>1 DEF Move
        <5> QED BY <4>2, <5>1 DEF DestroyCheck
      <4> QED BY <1>1, <4>1, <4>3, <4>4 DEF RecordsCreated
    <3>3. ASSUME Fault PROVE FALSE
      BY <1>1, <2>1, <2>3, <3>3 DEF Fault, GameRestart, BreakLink, Request, AtGame
    <3>4. ASSUME NEW b \in births, b.by = q, RoomStarted(b) PROVE FALSE
      <4>1. req'[q].op = req[q].op  BY <3>4, StartedAdvances, AdvanceKeeps
      <4>2. req[q].op = "create"  BY <3>4 DEF IndInv, BirthOwned, At
      <4> QED BY <4>1, <4>2
    <3> QED BY <2>3, <3>1, <3>2, <3>3, <3>4, WhoMoves
  <2> QED BY <2>2, <2>3
<1> QED BY <1>2, <1>3

(* A request whose room is being started stays where it is. *)
LEMMA StartingWaits ==
  ASSUME IndInv, [Next]_vars, NEW q \in Requests, At(q, "create", "starting")
  PROVE  \/ req'[q] = req[q]
         \/ \E b \in births : b.by = q /\ RoomStarted(b)
         \/ \E s \in Servers : GameRestart(s) /\ req[q].server = s
         \/ /\ \E s \in Servers : BreakLink(s)
            /\ At(q, "create", "starting")' /\ req'[q].server = req[q].server
            /\ req'[q].rid = req[q].rid
<1>1. req \in [Requests -> Request] /\ req[q] \in Request
  BY Types DEF IndInv
<1>2. ~ Asks(q)
  <2>1. req[q] # Idle  BY DEF At, Idle
  <2> QED BY <2>1, AskPlaces
<1>3. ~ RequestStep(q)
  BY DEF RequestStep, CreatePlace, GameCreate, CreateRecord, CreateDone, DestroyCheck,
         GameDestroy, RoomDestroyable, GameDestroyed, DestroyDone, GameSelect, SelectDone,
         RoomEnter, GameLeave, RoomLeave, GameLeft, LeaveDone, SetRoom, At
<1>4. ASSUME NEW s \in Servers, GameRestart(s), req[q].server # s PROVE req'[q] = req[q]
  BY <1>1, <1>4 DEF GameRestart
<1>5. ASSUME NEW s \in Servers, BreakLink(s)
      PROVE  At(q, "create", "starting")' /\ req'[q].server = req[q].server
             /\ req'[q].rid = req[q].rid
  BY <1>1, <1>5 DEF BreakLink, At, Request
<1> QED BY <1>2, <1>3, <1>4, <1>5, WhoMoves DEF Fault

LEMMA BirthsOwnedStep ==
  ASSUME IndInv, [Next]_vars
  PROVE  \A b \in births' : BirthOwned(b)'
<1>1. /\ \A b \in births : BirthOwned(b)
      /\ births \subseteq [rid : Rids, server : Servers, room : DOMAIN rooms,
                           by : Requests \cup {"loop", None}]
      /\ req \in [Requests -> Request]
  BY Types DEF IndInv, RoomsTypes
<1> DEFINE Owned(r, b) == At(r, "create", "starting") /\ req[r].server = b.server
                          /\ req[r].rid = b.rid
<1>2. ASSUME NEW b \in births, NEW r \in Requests, r = b.by
      PROVE  \/ Owned(r, b)'
             \/ RoomStarted(b)
             \/ GameRestart(b.server)
  <2>1. /\ At(r, "create", "starting") /\ req[r].server = b.server
        /\ req[r].rid = b.rid
        /\ \A c \in births : c.by = r => b = c
    BY <1>1, <1>2 DEF BirthOwned
  <2> QED BY <2>1, StartingWaits DEF At
<1>3. ASSUME NEW b \in births, NEW r \in Requests, r = b.by, b \in births'
      PROVE  Owned(r, b)'
  <2>1. ~ RoomStarted(b)  BY <1>3 DEF RoomStarted
  <2>2. ~ GameRestart(b.server)  BY <1>3 DEF GameRestart
  <2> QED BY <1>2, <1>3, <2>1, <2>2
<1>4. ASSUME \A b \in births' : b.by \in Requests => b \in births
      PROVE  \A b \in births' : BirthOwned(b)'
  <2> SUFFICES ASSUME NEW b \in births', NEW r \in Requests, r = b.by
               PROVE  Owned(r, b)' /\ \A c \in births' : c.by = r => b = c
    BY DEF BirthOwned
  <2>1. b \in births  BY <1>4
  <2> QED BY <1>1, <1>3, <1>4, <2>1 DEF BirthOwned
<1>5. ASSUME NEW r \in Requests, GameCreate(r)
      PROVE  \A b \in births' : BirthOwned(b)'
  <2>1. PICK x : x = [rid |-> req[r].rid, server |-> req[r].server, by |-> r,
                      room |-> Len(rooms) + 1]
    OBVIOUS
  <2>2. /\ births' = births \cup {x} /\ x.by = r /\ x.rid = req[r].rid
        /\ x.server = req[r].server
    BY <1>5, <2>1 DEF GameCreate, StartRoom
  <2>3. Owned(r, x)'
    <3>1. Advance(r)  BY <1>5, RequestAdvances DEF RequestStep
    <3>2. /\ req'[r].op = "create" /\ req'[r].rid = req[r].rid
          /\ req'[r].server = req[r].server
      BY <1>5, <3>1, AdvanceKeeps DEF GameCreate, At
    <3>3. req'[r].pc = "starting"
      BY <1>1, <1>5 DEF GameCreate, Move
    <3> QED BY <2>2, <3>2, <3>3 DEF At
  <2>4. \A b \in births : b.by # r
    BY <1>1, <1>5 DEF BirthOwned, GameCreate, At
  <2> SUFFICES ASSUME NEW b \in births', NEW q \in Requests, q = b.by
               PROVE  Owned(q, b)' /\ \A c \in births' : c.by = q => b = c
    BY DEF BirthOwned
  <2>5. CASE b = x
    BY <2>2, <2>3, <2>4, <2>5
  <2>6. CASE b # x
    <3>1. b \in births /\ b.by # r  BY <2>2, <2>4, <2>6
    <3>2. \A c \in births : c.by = q => b = c  BY <1>1, <3>1 DEF BirthOwned
    <3> QED BY <1>3, <2>2, <3>1, <3>2
  <2> QED BY <2>5, <2>6
<1>6. CASE GameEnsure
  <2>1. \A b \in births' : b \in births \/ b.by = "loop"
    BY <1>6 DEF GameEnsure, StartRoom
  <2> QED BY <1>4, <2>1, Nil
<1>7. ASSUME NEW s \in Servers, BreakLink(s)
      PROVE  \A b \in births' : b.by \in Requests => b \in births
  <2>1. \A b \in births : [b EXCEPT !.by = None].by = None
    BY <1>1
  <2>2. births' = {IF b.server = s /\ b.by = "loop" THEN [b EXCEPT !.by = None] ELSE b :
                     b \in births}
    BY <1>7 DEF BreakLink
  <2>3. ASSUME NEW c \in births', c.by \in Requests PROVE c \in births
    <3>1. PICK b \in births :
            c = IF b.server = s /\ b.by = "loop" THEN [b EXCEPT !.by = None] ELSE b
      BY <2>2
    <3> QED BY <2>1, <2>3, <3>1, Nil
  <2> QED BY <2>3
<1>8. ASSUME (\E b \in births : RoomStarted(b)) \/ (\E s \in Servers : GameRestart(s))
             \/ births' = births
      PROVE  births' \subseteq births
  BY <1>8 DEF RoomStarted, GameRestart
<1> QED BY <1>4, <1>5, <1>6, <1>7, <1>8, WhatChanges DEF BirthStep, Fault

LEMMA IndInit ==
  ASSUME Init
  PROVE  IndInv
<1>1. /\ Idle \in Request /\ Idle.op = None /\ Idle.pc = "idle"
  BY Nil DEF Idle, Request
<1>2. req = [r \in Requests |-> Idle]  BY DEF Init
<1>3. HallTypes
  BY Nil DEF Init, HallTypes, NoRooms, NoUsers
<1>4. ProxyTypes /\ LoopTypes /\ LoopAimed
  BY Nil DEF Init, ProxyTypes, LoopTypes, LoopAimed, NoRooms
<1>5. GameTypes /\ FaultTypes
  BY Nil DEF Init, GameTypes, FaultTypes, NoUsers
<1>6. RoomsTypes
  <2>1. rooms \in Seq(Room) /\ Len(rooms) = 0  BY DEF Init
  <2> QED BY <2>1, Nil DEF Init, RoomsTypes, NoRooms
<1>7. \A r \in Requests : RequestSound(r)
  BY <1>1, <1>2, Nil DEF RequestSound, AtGame, AtHall, AtRoom, Fits
<1>8. RecordsCreated /\ CreatorDestroys /\ births = {}
  BY <1>1, <1>2, Nil DEF Init, RecordsCreated, CreatorDestroys, NoRooms, Ops
<1> QED BY <1>1, <1>2, <1>3, <1>4, <1>5, <1>6, <1>7, <1>8, Types DEF IndInv

(* Whatever fails, requests and loop have what they need at every stage.   *)
THEOREM RoomsInvariant == Spec => []IndInv
<1>1. IndInv /\ [Next]_vars => IndInv'
  <2> SUFFICES ASSUME IndInv, [Next]_vars PROVE IndInv'  OBVIOUS
  <2>1. (HallTypes /\ ProxyTypes /\ LoopTypes /\ GameTypes /\ RoomsTypes /\ FaultTypes)'
    BY HallTypesStep, LoopTypesStep, GameTypesStep, RoomsTypesStep
  <2>2. req' \in [Requests -> Request] /\ \A q \in Requests : RequestSound(q)'
    BY RequestsStep
  <2>3. TypeOK'
    <3>1. TypeOK' <=> (/\ HallTypes /\ ProxyTypes /\ LoopTypes /\ GameTypes /\ RoomsTypes
                       /\ FaultTypes /\ req \in [Requests -> Request])'
      BY DEF TypeOK, HallTypes, ProxyTypes, LoopTypes, GameTypes, RoomsTypes, FaultTypes
    <3> QED BY <2>1, <2>2, <3>1
  <2> QED BY <2>2, <2>3, LoopTypesStep, CreatorsStep, BirthsOwnedStep DEF IndInv
<1> QED BY <1>1, IndInit, PTL DEF Spec

(* The variables keep their types (TypeOK), for any number of players,     *)
(* servers, requests, crashes and broken connections.                      *)
THEOREM TypeCorrect == Spec => []TypeOK
<1>1. IndInv => TypeOK  BY DEF IndInv
<1> QED BY <1>1, RoomsInvariant, PTL

(* A destroy request of somebody else than the creator of a room never     *)
(* reaches a game server (CreatorDestroys).                                *)
THEOREM OnlyCreatorsDestroy == Spec => []CreatorDestroys
<1>1. IndInv => CreatorDestroys  BY DEF IndInv
<1> QED BY <1>1, RoomsInvariant, PTL

-----------------------------------------------------------------------------
(* One service per room.                                                   *)

Early == {"place", "sent", "starting"}

LEMMA Breaks ==
  ASSUME Unbroken', IndInv, [Next]_vars
  PROVE  Unbroken /\ \A s \in Servers : ~ BreakLink(s)
<1>1. FaultTypes  BY Types DEF IndInv
<1>2. \A s \in Servers : ~ BreakLink(s)
  BY <1>1, Nil DEF Unbroken, FaultTypes, BreakLink
<1>3. faults'.breaks = faults.breaks
  BY <1>1, <1>2, WhatChanges DEF FaultTypes, Fault, GameRestart
<1> QED BY <1>2, <1>3 DEF Unbroken

(* Whose births there are: no two of a room. *)
LEMMA BirthsApart ==
  ASSUME IndInv, SingleInv, NEW b \in births, NEW c \in births,
         b.server = c.server, b.rid = c.rid
  PROVE  b = c
<1>1. ASSUME NEW x \in births, NEW y \in births, x.rid = y.rid,
             x.by \in Requests, y.by = "loop"
      PROVE  FALSE
  <2>1. req[x.by].op = "create" /\ req[x.by].pc = "starting" /\ req[x.by].rid = x.rid
    BY <1>1 DEF IndInv, BirthOwned, At
  <2>2. Unused(x.rid)  BY <1>1, <2>1 DEF SingleInv, IdsFresh
  <2>3. loop.pc = "waiting" /\ loop.rid = y.rid
    BY <1>1, Nil DEF SingleInv, BirthsSound
  <2> QED BY <1>1, <2>2, <2>3 DEF Unused
<1>2. CASE b.by = "loop" /\ c.by = "loop"
  BY <1>2, Nil DEF SingleInv, BirthsSound
<1>3. CASE b.by \in Requests /\ c.by \in Requests
  <2>1. /\ req[b.by].op = "create" /\ req[b.by].rid = b.rid
        /\ req[c.by].op = "create" /\ req[c.by].rid = c.rid
    BY <1>3 DEF IndInv, BirthOwned, At
  <2>2. b.by = c.by  BY <1>3, <2>1 DEF SingleInv, IdsFresh
  <2> QED BY <1>3, <2>2 DEF IndInv, BirthOwned
<1> QED BY <1>1, <1>2, <1>3 DEF SingleInv, BirthsSound

(* What ends that a room id is unused. *)
LEMMA UnusedStays ==
  ASSUME IndInv, Unbroken', [Next]_vars, NEW rid \in Rids, Unused(rid),
         \A r \in Requests : CreateRecord(r) => req[r].rid # rid,
         \A b \in births : RoomStarted(b) => b.rid # rid
  PROVE  Unused(rid)'
<1>1. HallTypes /\ LoopTypes /\ RoomsTypes
  BY Types DEF IndInv
<1>2. record'[rid] = None
  BY <1>1, WhatChanges DEF RecordStep, CreateRecord, DestroyDone, HallTypes, Unused
<1>3. \A s \in Servers : room_map'[s][rid] = None
  <2>1. ASSUME NEW b \in births, RoomStarted(b)
        PROVE  \A s \in Servers : room_map'[s][rid] = room_map[s][rid]
    BY <1>1, <2>1 DEF RoomStarted, RoomsTypes
  <2>2. ASSUME NEW r \in Requests, GameDestroyed(r)
        PROVE  \A s \in Servers : room_map'[s][rid] \in {None, room_map[s][rid]}
    BY <1>1, <2>2 DEF GameDestroyed, RoomsTypes
  <2>3. ASSUME NEW t \in Servers, GameRestart(t)
        PROVE  \A s \in Servers : room_map'[s][rid] \in {None, room_map[s][rid]}
    <3>1. NoRooms[rid] = None  BY DEF NoRooms
    <3> QED BY <1>1, <2>3, <3>1 DEF GameRestart, RoomsTypes
  <2> QED BY <2>1, <2>2, <2>3, WhatChanges DEF MapStep, Unused
<1>4. /\ loop'.rows[rid] = None
      /\ loop'.pc \in {"called", "waiting"} => loop'.rid # rid
  <2> DEFINE Clear2 == /\ loop'.rows[rid] = None
                       /\ loop'.pc \in {"called", "waiting"} => loop'.rid # rid
  <2>1. ASSUME NEW b \in births, RoomStarted(b) PROVE Clear2
    BY <1>1, <2>1 DEF RoomStarted, Ensured, LoopTypes, Unused
  <2>2. ASSUME Round PROVE Clear2
    <3>1. /\ loop'.rows[rid] = IF record[rid] = None THEN None ELSE record[rid].server
          /\ loop'.pc = "ensure"
      BY <1>1, <2>2 DEF Round, Loop, LoopTypes
    <3> QED BY <3>1 DEF Unused
  <2>3. ASSUME NEW q \in Rids, EnsureCall(q) PROVE Clear2
    <3>1. loop'.rid = q /\ loop'.rows = [loop.rows EXCEPT ![q] = None]
      BY <1>1, <2>3 DEF EnsureCall, Loop, LoopTypes
    <3>2. q # rid  BY <2>3 DEF EnsureCall, Unused
    <3>3. loop.rows \in [Rids -> Servers \cup {None}]  BY <1>1 DEF LoopTypes
    <3> QED BY <3>1, <3>2, <3>3 DEF Unused
  <2>4. ASSUME GameEnsure \/ Update \/ ListReturn \/ RoundDone
               \/ \E s \in Servers : ListCall(s)
        PROVE  Clear2
    BY <1>1, <2>4 DEF GameEnsure, Update, ListReturn, RoundDone, ListCall, Loop,
                      Ensured, Listed, LoopTypes, Unused
  <2>5. ASSUME NEW s \in Servers, LoopFails(s) PROVE Clear2
    BY <1>1, <2>5 DEF LoopFails, Ensured, Listed, LoopTypes, Unused
  <2>6. Fault => \E s \in Servers : LoopFails(s)
    BY DEF Fault, GameRestart, BreakLink
  <2>7. loop' = loop => Clear2  BY DEF Unused
  <2> QED BY <2>1, <2>2, <2>3, <2>4, <2>5, <2>6, <2>7, WhatChanges DEF LoopStep
<1> QED BY <1>2, <1>3, <1>4 DEF Unused

(* A request to create a room is asked once, and early only at first. *)
LEMMA CreateGoes ==
  ASSUME IndInv, Unbroken', [Next]_vars, NEW q \in Requests, req'[q].op = "create"
  PROVE  \/ \E u \in Users : CreateAsk(q, u) /\ req'[q].rid = nextid
         \/ /\ req[q].op = "create" /\ req'[q].rid = req[q].rid
            /\ req'[q].pc \in Early =>
                 /\ req[q].pc \in Early /\ ~ CreateRecord(q)
                 /\ \A b \in births : RoomStarted(b) => b.by # q
<1>1. req \in [Requests -> Request] /\ req[q] \in Request
  BY Types DEF IndInv
<1>2. CASE req'[q] = req[q]
  <2>1. ~ CreateRecord(q)
    BY <1>1, <1>2 DEF CreateRecord, At, Move, Request
  <2>2. ASSUME NEW b \in births, RoomStarted(b), b.by = q PROVE FALSE
    BY <1>1, <1>2, <2>2 DEF RoomStarted, Answer, Move, Request, IndInv, BirthOwned, At
  <2> QED BY <1>2, <2>1, <2>2
<1>3. CASE Asks(q)
  <2>1. PICK u \in Users : CreateAsk(q, u)
    <3>1. \A op, u, rid, s, i, p : Ask(q, op, u, rid, s, i, p) => req'[q].op = op
      BY <1>1 DEF Ask
    <3>2. ASSUME NEW u \in Users, ~ CreateAsk(q, u),
                 \/ LeaveAsk(q, u) \/ ReconnAsk(q, u)
                 \/ \E rid \in Rids : DestroyAsk(q, u, rid)
                 \/ \E rid \in Rids, s \in Servers :
                      SelectAsk(q, u, rid, s) \/ EnterAsk(q, s, u, rid)
          PROVE  FALSE
      <4>1. \E op, rid, s, i, p : Ask(q, op, u, rid, s, i, p) /\ op # "create"
        BY <3>2 DEF LeaveAsk, ReconnAsk, DestroyAsk, SelectAsk, EnterAsk
      <4> QED BY <3>1, <4>1
    <3> QED BY <1>3, <3>2 DEF Asks
  <2>2. req'[q].rid = nextid
    BY <1>1, <2>1 DEF CreateAsk, Ask
  <2> QED BY <2>1, <2>2
<1>4. CASE RequestStep(q)
  <2>1. Advance(q) BY <1>4, RequestAdvances
  <2>2. req[q].op = "create" /\ req'[q].rid = req[q].rid
    BY <2>1, AdvanceKeeps
  <2>3. CreatePlace(q) \/ GameCreate(q) \/ CreateRecord(q) \/ CreateDone(q)
    BY <1>4, <2>2
    DEF RequestStep, DestroyCheck, GameDestroy, RoomDestroyable, GameDestroyed, DestroyDone,
        GameSelect, SelectDone, RoomEnter, GameLeave, RoomLeave, GameLeft, LeaveDone,
        SetRoom, At
  <2>4. CreateRecord(q) \/ CreateDone(q) => req'[q].pc \notin Early
    <3>1. \A p : Move(q, p) => req'[q].pc = p  BY <1>1 DEF Move, Request
    <3>2. CreateRecord(q) \/ CreateDone(q) => Move(q, "recorded") \/ Move(q, "200")
      BY DEF CreateRecord, CreateDone, SetRoom
    <3> QED BY <3>1, <3>2 DEF Early
  <2>5. CreatePlace(q) \/ GameCreate(q) => req[q].pc \in Early /\ req[q].pc # "starting"
    BY DEF CreatePlace, GameCreate, At, Early
  <2>6. ASSUME NEW b \in births, b.by = q, req[q].pc # "starting" PROVE FALSE
    BY <2>6 DEF IndInv, BirthOwned, At
  <2>7. CreateRecord(q) => req[q].pc \notin Early
    BY DEF CreateRecord, At, Early
  <2> QED BY <2>2, <2>3, <2>4, <2>5, <2>6, <2>7
<1>5. CASE \E b \in births : b.by = q /\ RoomStarted(b)
  <2>1. Advance(q) /\ At(q, "create", "starting")
    BY <1>5, StartedAdvances DEF IndInv, BirthOwned
  <2>2. req[q].op = "create" /\ req'[q].rid = req[q].rid
    BY <2>1, AdvanceKeeps
  <2>3. req'[q].pc \notin Early
    <3>1. \A p : Move(q, p) => req'[q].pc = p  BY <1>1 DEF Move, Request
    <3>2. Move(q, "created") \/ Move(q, "error")
      <4>1. PICK b \in births : b.by = q /\ RoomStarted(b)  BY <1>5
      <4>2. Answer(b.by, "created")  BY <4>1 DEF RoomStarted
      <4> QED BY <4>1, <4>2 DEF Answer
    <3> QED BY <3>1, <3>2 DEF Early
  <2> QED BY <2>2, <2>3
<1>6. ASSUME NEW s \in Servers, GameRestart(s)
      PROVE  /\ req[q].op = "create" /\ req'[q].rid = req[q].rid
             /\ req'[q].pc \in Early =>
                  req[q].pc \in Early /\ req'[q] = req[q]
  BY <1>1, <1>6 DEF GameRestart, Request, Early
<1> QED BY <1>2, <1>3, <1>4, <1>5, <1>6, WhoMoves, Breaks DEF Fault

(* What IdsFresh says of the rooms that enter the tables. *)
LEMMA StartedIds ==
  ASSUME IndInv, SingleInv, NEW b \in births, NEW rid \in Rids, Unused(rid), b.rid = rid
  PROVE  b.by \in Requests /\ req[b.by].op = "create" /\ req[b.by].rid = rid
<1>1. b.by \in Requests  BY DEF SingleInv, BirthsSound, Unused
<1> QED BY <1>1 DEF IndInv, BirthOwned, At

LEMMA IdsFreshStep ==
  ASSUME IndInv, Unbroken', SingleInv, [Next]_vars
  PROVE  IdsFresh'
<1>1. req \in [Requests -> Request] /\ nextid \in 1 .. MaxRid + 1 /\ MaxRid \in Nat
  BY Types, Nil DEF IndInv, HallTypes
<1>2. nextid' >= nextid
  BY <1>1, WhatChanges DEF CreateAsk
<1>3. ASSUME NEW rid \in Rids, rid >= nextid PROVE Unused(rid)'
  <2>1. \A c \in Requests : req[c].op = "create" => req[c].rid # rid
    <3>1. \A c \in Requests : req[c].op = "create" => req[c].rid < nextid
      BY DEF SingleInv, IdsFresh
    <3> QED BY <1>1, <1>3, <3>1 DEF Rids
  <2>2. Unused(rid)  BY <1>3 DEF SingleInv, IdsFresh
  <2>3. \A c \in Requests : CreateRecord(c) => req[c].rid # rid
    BY <2>1 DEF CreateRecord, At
  <2>4. \A b \in births : b.rid # rid
    BY <2>1, <2>2, StartedIds
  <2> QED BY <2>2, <2>3, <2>4, UnusedStays
<1>4. ASSUME NEW c \in Requests, req'[c].op = "create"
      PROVE  /\ req'[c].rid < nextid'
             /\ req'[c].pc \in Early => Unused(req[c].rid)'
  <2>1. ASSUME NEW u \in Users, CreateAsk(c, u), req'[c].rid = nextid
        PROVE  /\ req'[c].rid < nextid' /\ Unused(req[c].rid)'
    <3>1. nextid \in Rids /\ nextid' = nextid + 1
      BY <1>1, <2>1 DEF CreateAsk, Rids
    <3>2. PICK rid \in Rids : rid = nextid  BY <3>1
    <3>3. Unused(rid)'  BY <1>1, <1>3, <3>2
    <3>4. req'[c].rid = rid  BY <2>1, <3>2
    <3> QED BY <1>1, <3>1, <3>2, <3>3, <3>4 DEF Unused
  <2>2. ASSUME req[c].op = "create", req'[c].rid = req[c].rid PROVE req'[c].rid < nextid'
    <3>1. req[c].rid < nextid /\ req[c].rid \in 0 .. MaxRid
      BY <1>1, <2>2 DEF SingleInv, IdsFresh, Request
    <3>2. nextid' \in Int
      BY <1>1, WhatChanges DEF CreateAsk
    <3> QED BY <1>1, <1>2, <2>2, <3>1, <3>2
  <2>3. ASSUME req[c].op = "create", req'[c].rid = req[c].rid, req[c].pc \in Early,
               ~ CreateRecord(c), \A b \in births : RoomStarted(b) => b.by # c
        PROVE  Unused(req[c].rid)'
    <3>1. PICK rid \in Rids : rid = req[c].rid
      BY <2>3, Under DEF Early, AtHall, AtGame
    <3>2. Unused(rid)  BY <2>3, <3>1 DEF SingleInv, IdsFresh, Early
    <3>3. \A d \in Requests : req[d].op = "create" /\ req[d].rid = rid => d = c
      BY <2>3, <3>1 DEF SingleInv, IdsFresh
    <3>4. \A d \in Requests : CreateRecord(d) => req[d].rid # rid
      BY <2>3, <3>3 DEF CreateRecord, At
    <3>5. \A b \in births : RoomStarted(b) => b.rid # rid
      BY <2>3, <3>2, <3>3, StartedIds
    <3>6. Unused(rid)'  BY <3>2, <3>4, <3>5, UnusedStays
    <3>7. req'[c].rid = rid  BY <2>3, <3>1
    <3> QED BY <3>6, <3>7 DEF Unused
  <2> QED BY <1>4, <2>1, <2>2, <2>3, CreateGoes
<1>5. ASSUME NEW c \in Requests, NEW d \in Requests, req'[c].op = "create",
             req'[d].op = "create", req'[c].rid = req'[d].rid, c # d
      PROVE  FALSE
  <2>1. ASSUME NEW x \in Requests, NEW y \in Requests, x # y, NEW u \in Users,
               CreateAsk(x, u), req'[x].rid = nextid, req'[y].op = "create",
               req'[x].rid = req'[y].rid
        PROVE  FALSE
    <3>1. req'[y] = req[y]
      BY <1>1, <2>1 DEF CreateAsk, Ask
    <3>2. req[y].op = "create" /\ req[y].rid = nextid  BY <2>1, <3>1
    <3>3. req[y].rid < nextid  BY <3>2 DEF SingleInv, IdsFresh
    <3> QED BY <1>1, <3>2, <3>3
  <2>2. ~ (/\ req[c].op = "create" /\ req'[c].rid = req[c].rid
           /\ req[d].op = "create" /\ req'[d].rid = req[d].rid)
    BY <1>5 DEF SingleInv, IdsFresh
  <2>3. \/ \E u \in Users : CreateAsk(c, u) /\ req'[c].rid = nextid
        \/ \E u \in Users : CreateAsk(d, u) /\ req'[d].rid = nextid
    BY <1>5, <2>2, CreateGoes
  <2> QED BY <1>5, <2>1, <2>3
<1>6. \A rid \in Rids : rid >= nextid' => Unused(rid)'
  <2>1. nextid' \in Int
    BY <1>1, WhatChanges DEF CreateAsk
  <2> QED BY <1>1, <1>2, <1>3, <2>1 DEF Rids
<1> QED BY <1>4, <1>5, <1>6 DEF IdsFresh, Early

(* The update loop waits for the room it has the manager start. *)
LEMMA LoopWaits ==
  ASSUME IndInv, Unbroken', [Next]_vars, loop.pc = "waiting"
  PROVE  \/ loop' = loop
         \/ \E b \in births : b.by = "loop" /\ RoomStarted(b)
         \/ \E s \in Servers : GameRestart(s) /\ loop.server = s
<1>1. loop.pc # "listing"  OBVIOUS
<1>2. LoopStep => FALSE
  BY DEF LoopStep, Round, EnsureCall, GameEnsure, Update, ListCall, ListReturn, RoundDone, Loop
<1>3. ASSUME NEW b \in births, RoomStarted(b), b.by # "loop" PROVE loop' = loop
  BY <1>1, <1>3 DEF RoomStarted
<1>4. ASSUME NEW s \in Servers, GameRestart(s), loop.server # s PROVE loop' = loop
  BY <1>4 DEF GameRestart, LoopFails
<1> QED BY <1>2, <1>3, <1>4, WhatChanges, Breaks DEF Fault

LEMMA BirthsSoundStep ==
  ASSUME IndInv, Unbroken', SingleInv, [Next]_vars
  PROVE  BirthsSound'
<1>1. RoomsTypes /\ LoopTypes
  BY Types DEF IndInv
<1> DEFINE Waited(b) == /\ b.by = "loop" /\ loop.pc = "waiting"
                        /\ loop.server = b.server /\ loop.rid = b.rid
           Alone(B) == \A b, c \in B : b.by = "loop" /\ c.by = "loop" => b = c
<1>2. \A b \in births : /\ room_map[b.server][b.rid] = None
                        /\ b.by \in Requests \/ Waited(b)
  BY DEF SingleInv, BirthsSound
<1>3. Alone(births)
  BY Nil DEF SingleInv, BirthsSound
<1>4. SUFFICES /\ \A b \in births' : /\ room_map'[b.server][b.rid] = None
                                     /\ b.by \in Requests \/ Waited(b)'
               /\ Alone(births')
  BY DEF BirthsSound
<1>5. ASSUME NEW b \in births, b.by = "loop", loop' = loop
      PROVE  b.by \in Requests \/ Waited(b)'
  BY <1>2, <1>5, Nil
<1>6. CASE GameEnsure
  <2>1. loop.pc = "called" /\ room_map' = room_map
    BY <1>6 DEF GameEnsure, Loop, gameVars
  <2>2. \A b \in births : b.by \in Requests
    BY <1>2, <2>1
  <2>3. CASE births' = births
    BY <1>2, <1>3, <2>1, <2>2, <2>3
  <2>4. CASE births' # births
    <3>1. PICK x : x = [rid |-> loop.rid, server |-> loop.server, by |-> "loop",
                        room |-> Len(rooms) + 1]
      OBVIOUS
    <3>2. births' = births \cup {x} /\ room_map[loop.server][loop.rid] = None
      BY <1>6, <2>4, <3>1 DEF GameEnsure, StartRoom
    <3>3. loop' = [loop EXCEPT !.pc = "waiting"]
      BY <1>6, <3>2 DEF GameEnsure, Loop
    <3>4. x.by = "loop" /\ x.server = loop.server /\ x.rid = loop.rid
      BY <3>1
    <3>5. Waited(x)'
      BY <1>1, <3>3, <3>4 DEF LoopTypes
    <3>6. \A b \in births' : b.by = "loop" => b = x
      BY <2>2, <3>2, Nil
    <3> QED BY <1>2, <2>1, <2>2, <3>2, <3>4, <3>5, <3>6
  <2> QED BY <2>3, <2>4
<1>7. ASSUME NEW r \in Requests, GameCreate(r)
      PROVE  /\ \A b \in births' : /\ room_map'[b.server][b.rid] = None
                                   /\ b.by \in Requests \/ Waited(b)'
             /\ Alone(births')
  <2>1. PICK x : x = [rid |-> req[r].rid, server |-> req[r].server, by |-> r,
                      room |-> Len(rooms) + 1]
    OBVIOUS
  <2>2. births' = births \cup {x} /\ room_map' = room_map /\ loop' = loop
    BY <1>7, <2>1 DEF GameCreate, StartRoom
  <2>3. x.by = r /\ x.rid = req[r].rid /\ x.server = req[r].server
    BY <2>1
  <2>4. req[r].op = "create" /\ req[r].pc = "sent"
    BY <1>7 DEF GameCreate, At
  <2>5. room_map[req[r].server][req[r].rid] = None
    <3>1. req[r].server \in Servers  BY <2>4, Under DEF AtGame
    <3>2. Unused(req[r].rid)  BY <2>4 DEF SingleInv, IdsFresh
    <3> QED BY <3>1, <3>2 DEF Unused
  <2>6. \A b \in births' : b.by = "loop" => b \in births
    BY <2>2, <2>3, Nil
  <2> QED BY <1>2, <1>3, <1>5, <2>2, <2>3, <2>5, <2>6
<1>8. ASSUME NEW b0 \in births, RoomStarted(b0)
      PROVE  /\ \A b \in births' : /\ room_map'[b.server][b.rid] = None
                                   /\ b.by \in Requests \/ Waited(b)'
             /\ Alone(births')
  <2>1. /\ births' = births \ {b0}
        /\ room_map' = [room_map EXCEPT ![b0.server][b0.rid] = b0.room]
    BY <1>8 DEF RoomStarted
  <2>2. ASSUME NEW b \in births' PROVE room_map'[b.server][b.rid] = None
    <3>1. b.server # b0.server \/ b.rid # b0.rid
      BY <2>1, <2>2, BirthsApart
    <3>2. b \in births /\ b.server \in Servers /\ b.rid \in Rids
      BY <1>1, <2>1, <2>2 DEF RoomsTypes
    <3>3. room_map'[b.server][b.rid] = room_map[b.server][b.rid]
      BY <1>1, <2>1, <3>1, <3>2 DEF RoomsTypes
    <3> QED BY <1>2, <3>2, <3>3
  <2>3. ASSUME NEW b \in births', b.by = "loop" PROVE loop' = loop
    <3>1. b0.by # "loop"  BY <1>3, <2>1, <2>3
    <3>2. loop.pc = "waiting"  BY <1>2, <2>1, <2>3, Nil
    <3> QED BY <1>8, <3>1, <3>2 DEF RoomStarted
  <2> QED BY <1>2, <1>3, <1>5, <2>1, <2>2, <2>3
<1>9. ASSUME NEW s \in Servers, GameRestart(s)
      PROVE  /\ \A b \in births' : /\ room_map'[b.server][b.rid] = None
                                   /\ b.by \in Requests \/ Waited(b)'
             /\ Alone(births')
  <2>1. /\ births' = {b \in births : b.server # s}
        /\ room_map' = [room_map EXCEPT ![s] = NoRooms]
    BY <1>9 DEF GameRestart
  <2>2. ASSUME NEW b \in births' PROVE room_map'[b.server][b.rid] = None
    <3>1. b \in births /\ b.server \in Servers /\ b.server # s
      BY <1>1, <2>1, <2>2 DEF RoomsTypes
    <3>2. room_map'[b.server] = room_map[b.server]
      BY <1>1, <2>1, <3>1 DEF RoomsTypes
    <3> QED BY <1>2, <3>1, <3>2
  <2>3. ASSUME NEW b \in births', b.by = "loop" PROVE loop' = loop
    <3>1. loop.server # s  BY <1>2, <2>1, <2>3, Nil
    <3> QED BY <1>9, <3>1 DEF GameRestart, LoopFails
  <2> QED BY <1>2, <1>3, <1>5, <2>1, <2>2, <2>3
<1>10. ASSUME births' = births, \A b \in births : ~ RoomStarted(b),
              \A s \in Servers : ~ GameRestart(s)
       PROVE  /\ \A b \in births' : /\ room_map'[b.server][b.rid] = None
                                    /\ b.by \in Requests \/ Waited(b)'
              /\ Alone(births')
  <2>1. ASSUME NEW b \in births PROVE room_map'[b.server][b.rid] = None
    <3>1. b.server \in Servers /\ b.rid \in Rids  BY <1>1 DEF RoomsTypes
    <3>2. ASSUME NEW r \in Requests, GameDestroyed(r)
          PROVE  room_map'[b.server][b.rid] \in {None, room_map[b.server][b.rid]}
      BY <1>1, <3>1, <3>2 DEF GameDestroyed, RoomsTypes
    <3> QED BY <1>2, <1>10, <3>2, WhatChanges DEF MapStep
  <2>2. ASSUME NEW b \in births, b.by = "loop" PROVE loop' = loop
    <3>1. loop.pc = "waiting"  BY <1>2, <2>2, Nil
    <3> QED BY <1>10, <3>1, LoopWaits
  <2> QED BY <1>2, <1>3, <1>5, <1>10, <2>1, <2>2
<1> QED BY <1>6, <1>7, <1>8, <1>9, <1>10, WhatChanges, Breaks DEF BirthStep, Fault

LEMMA SingleInit ==
  ASSUME Init
  PROVE  SingleInv
<1>1. \A r \in Requests : req[r].op = None
  BY DEF Init, Idle
<1>2. \A rid \in Rids : Unused(rid)
  BY DEF Init, Unused, NoRooms
<1>3. None # "create"  BY Nil DEF Ops
<1> QED BY <1>1, <1>2, <1>3 DEF Init, SingleInv, IdsFresh, BirthsSound

(* While no connection breaks, room ids are used once, and what is on its   *)
(* way into room_map is awaited.                                           *)
THEOREM SingleInvariant == Spec => [](Unbroken => SingleInv)
<1>1. Init => (Unbroken => SingleInv)  BY SingleInit
<1>2. IndInv /\ (Unbroken => SingleInv) /\ [Next]_vars => (Unbroken => SingleInv)'
  <2> SUFFICES ASSUME IndInv, Unbroken => SingleInv, [Next]_vars, Unbroken'
               PROVE  SingleInv'
    OBVIOUS
  <2>1. SingleInv  BY Breaks
  <2> QED BY <2>1, IdsFreshStep, BirthsSoundStep DEF SingleInv
<1> QED BY <1>1, <1>2, RoomsInvariant, PTL DEF Spec

(* Until a connection from the hall to a game server breaks, a room id has  *)
(* at most one service on a server, running or being started                *)
(* (OneServicePerRoom): roommanager.ensure_room, which looks and then       *)
(* yields, and the creations of clients never start a second one.           *)
THEOREM OneService == Spec => []OneServicePerRoom
<1>1. IndInv /\ (Unbroken => SingleInv) => OneServicePerRoom
  <2> SUFFICES ASSUME IndInv, SingleInv, NEW s \in Servers, NEW rid \in Rids
               PROVE  Cardinality({b \in births : b.server = s /\ b.rid = rid})
                        + (IF room_map[s][rid] = None THEN 0 ELSE 1) <= 1
    BY DEF OneServicePerRoom, Unbroken
  <2> DEFINE B == {b \in births : b.server = s /\ b.rid = rid}
  <2>1. CASE B = {}
    BY <2>1, FS_EmptySet
  <2>2. CASE B # {}
    <3>1. PICK b \in B : TRUE  BY <2>2
    <3>2. B = {b}  BY <3>1, BirthsApart
    <3>3. Cardinality(B) = 1  BY <3>2, FS_Singleton
    <3>4. room_map[s][rid] = None  BY <3>1 DEF SingleInv, BirthsSound
    <3> QED BY <3>3, <3>4
  <2> QED BY <2>1, <2>2
<1> QED BY <1>1, RoomsInvariant, SingleInvariant, PTL
-----------------------------------------------------------------------------
(* Members and registrations: how the parts of the state go on.            *)

(* A request that stands still, but for a connection that breaks. *)
Stands(q) ==
  /\ req'[q].pc = req[q].pc /\ req'[q].op = req[q].op /\ req'[q].user = req[q].user
  /\ req'[q].rid = req[q].rid /\ req'[q].server = req[q].server
  /\ req'[q].room = req[q].room /\ req'[q].hasty = req[q].hasty
  /\ req[q].cut => req'[q].cut

Fails(q) == req[q].pc \in AtGame /\ req'[q] = [req[q] EXCEPT !.pc = "error"]

LEMMA RequestGoes ==
  ASSUME IndInv, [Next]_vars, NEW q \in Requests
  PROVE  \/ Stands(q)
         \/ Asks(q)
         \/ RequestStep(q) /\ Advance(q)
         \/ /\ \E b \in births : b.by = q /\ RoomStarted(b)
            /\ At(q, "create", "starting") /\ Advance(q)
         \/ Fails(q)
<1>1. ASSUME NEW b \in births, b.by = q, RoomStarted(b)
      PROVE  At(q, "create", "starting") /\ Advance(q)
  BY <1>1, StartedAdvances DEF IndInv, BirthOwned
<1>2. req \in [Requests -> Request] /\ req[q] \in Request
  BY Types DEF IndInv
<1>3. ASSUME NEW s \in Servers, GameRestart(s)
      PROVE  req'[q] = req[q] \/ Fails(q)
  <2>1. req'[q] = IF req[q].server = s /\ req[q].pc \in AtGame
                  THEN [req[q] EXCEPT !.pc = "error"] ELSE req[q]
    BY <1>3 DEF GameRestart
  <2> QED BY <1>3, <2>1 DEF Fails
<1>4. ASSUME NEW s \in Servers, BreakLink(s)
      PROVE  Stands(q) \/ Fails(q)
  <2>1. \/ req'[q] = req[q]
        \/ req'[q] = [req[q] EXCEPT !.cut = TRUE]
        \/ req[q].pc = "sent" /\ req'[q] = [req[q] EXCEPT !.pc = "error"]
    BY <1>4 DEF BreakLink
  <2>2. CASE req'[q] = [req[q] EXCEPT !.cut = TRUE]
    BY <1>2, <2>2 DEF Stands, Request
  <2>3. CASE req[q].pc = "sent" /\ req'[q] = [req[q] EXCEPT !.pc = "error"]
    BY <2>3 DEF Fails, AtGame
  <2> QED BY <2>1, <2>2, <2>3 DEF Stands
<1>5. req'[q] = req[q] => Stands(q)  BY DEF Stands
<1> QED BY <1>1, <1>3, <1>4, <1>5, WhoMoves, RequestAdvances DEF Fault

(* What the client was hasty about stays known, and where. *)
LEMMA AdvanceHasty ==
  ASSUME IndInv, [Next]_vars, NEW q \in Requests, Advance(q)
  PROVE  req'[q].hasty = req[q].hasty
<1>1. req \in [Requests -> Request] /\ req[q] \in Request
  BY Types DEF IndInv
<1>2. PICK p, s, i : Goes(q, p, s, i)  BY DEF Advance, Advances
<1> QED BY <1>1, <1>2 DEF Goes, Request

LEMMA HastyStays ==
  ASSUME IndInv, HastyEnters, [Next]_vars, NEW u, NEW s, Hasty(u, s)
  PROVE  Hasty(u, s)'
<1>1. PICK r \in Requests : req[r].hasty /\ req[r].user = u /\ req[r].server = s
  BY DEF Hasty
<1>2. req[r].op = "enter" /\ req[r] \in Request
  BY <1>1, Types DEF HastyEnters, IndInv
<1>3. ~ Asks(r)
  <2>1. Idle.op # "enter"  BY Nil DEF Idle, Ops
  <2> QED BY <1>2, <2>1, AskPlaces
<1>4. CASE Advance(r)
  <2>1. req[r].pc # "place"  BY <1>2 DEF IndInv, RequestSound, Fits
  <2> QED BY <1>1, <1>4, <2>1, AdvanceKeeps, AdvanceHasty DEF Hasty
<1>5. CASE Fails(r)
  BY <1>1, <1>2, <1>5 DEF Fails, Hasty, Request
<1>6. CASE Stands(r)
  BY <1>1, <1>6 DEF Stands, Hasty
<1> QED BY <1>3, <1>4, <1>5, <1>6, RequestGoes

LEMMA HastyEntersStep ==
  ASSUME IndInv, HastyEnters, [Next]_vars
  PROVE  HastyEnters'
<1> SUFFICES ASSUME NEW r \in Requests, req'[r].hasty PROVE req'[r].op = "enter"
  BY DEF HastyEnters
<1>1. req \in [Requests -> Request] /\ req[r] \in Request
  BY Types DEF IndInv
<1>2. req[r].hasty => req[r].op = "enter"  BY DEF HastyEnters
<1>3. CASE Asks(r)
  <2>1. PICK op \in Ops, u \in Users, rid \in 0 .. MaxRid, s \in Servers \cup {None},
             i \in 0 .. MaxRooms, p \in Stage :
               Ask(r, op, u, rid, s, i, p) /\ Fits(op, p)
    BY <1>3, AsksSound DEF AskedWell
  <2>2. req'[r] = [op |-> op, pc |-> p, user |-> u, rid |-> rid, server |-> s,
                   room |-> i, cut |-> FALSE,
                   hasty |-> p = "entering" /\ Overtakes(u, s, rid)]
    BY <1>1, <2>1, Asked
  <2>3. p = "entering"
    <3>1. ASSUME p # "entering" PROVE FALSE
      <4>1. PICK h : h = (p = "entering" /\ Overtakes(u, s, rid))  OBVIOUS
      <4>2. h = FALSE  BY <3>1, <4>1
      <4>3. req'[r] = [op |-> op, pc |-> p, user |-> u, rid |-> rid, server |-> s,
                       room |-> i, cut |-> FALSE, hasty |-> h]
        BY <2>2, <4>1
      <4> QED BY <4>2, <4>3
    <3> QED BY <3>1
  <2>4. op = "enter"  BY <2>1, <2>3 DEF Fits
  <2> QED BY <2>2, <2>4
<1>4. CASE Advance(r)
  BY <1>2, <1>4, AdvanceKeeps, AdvanceHasty
<1>5. CASE Fails(r)
  BY <1>1, <1>2, <1>5 DEF Fails, Request
<1>6. CASE Stands(r)
  BY <1>2, <1>6 DEF Stands
<1> QED BY <1>3, <1>4, <1>5, <1>6, RequestGoes

(* An entry of room_map: it stays, goes, or comes from a birth. *)
Removed(s, rid) ==
  \/ GameRestart(s)
  \/ \E d \in Requests : /\ GameDestroyed(d) /\ req[d].server = s /\ req[d].rid = rid

LEMMA MapKeeps ==
  ASSUME IndInv, [Next]_vars, NEW s \in Servers, NEW rid \in Rids
  PROVE  \/ room_map'[s][rid] = room_map[s][rid]
         \/ room_map'[s][rid] = None /\ Removed(s, rid)
         \/ \E b \in births : /\ RoomStarted(b) /\ b.server = s /\ b.rid = rid
                              /\ room_map'[s][rid] = b.room
<1>1. RoomsTypes  BY Types DEF IndInv
<1>2. ASSUME NEW b \in births, RoomStarted(b)
      PROVE  \/ room_map'[s][rid] = room_map[s][rid]
             \/ /\ b.server = s /\ b.rid = rid /\ room_map'[s][rid] = b.room
  <2>1. room_map' = [room_map EXCEPT ![b.server][b.rid] = b.room]
    BY <1>2 DEF RoomStarted
  <2> QED BY <1>1, <2>1 DEF RoomsTypes
<1>3. ASSUME NEW d \in Requests, GameDestroyed(d)
      PROVE  \/ room_map'[s][rid] = room_map[s][rid]
             \/ room_map'[s][rid] = None /\ Removed(s, rid)
  <2>1. room_map' = [room_map EXCEPT ![req[d].server][req[d].rid] = None]
    BY <1>3 DEF GameDestroyed
  <2> QED BY <1>1, <1>3, <2>1 DEF RoomsTypes, Removed
<1>4. ASSUME NEW t \in Servers, GameRestart(t)
      PROVE  \/ room_map'[s][rid] = room_map[s][rid]
             \/ room_map'[s][rid] = None /\ Removed(s, rid)
  <2>1. room_map' = [room_map EXCEPT ![t] = NoRooms]
    BY <1>4 DEF GameRestart
  <2> QED BY <1>1, <1>4, <2>1 DEF RoomsTypes, Removed, NoRooms
<1> QED BY <1>2, <1>3, <1>4, WhatChanges DEF MapStep

(* A registration: it stays, goes, or is made by an EnterRoom. *)
LEMMA RegisterKeeps ==
  ASSUME IndInv, [Next]_vars, NEW s \in Servers, NEW u \in Users
  PROVE  \/ user2rooms'[s][u] = user2rooms[s][u]
         \/ \E q \in Requests, rid \in Rids :
              /\ EnterAsk(q, s, u, rid) /\ room_map[s][rid] # None
              /\ user2rooms'[s][u] = rid
         \/ /\ user2rooms'[s][u] = None
            /\ \/ GameRestart(s)
               \/ \E q \in Requests : /\ GameLeft(q) /\ req[q].server = s /\ req[q].user = u
<1>1. GameTypes  BY Types DEF IndInv
<1>2. ASSUME NEW q \in Requests, NEW v \in Users, NEW t \in Servers, NEW rid \in Rids,
             EnterAsk(q, t, v, rid)
      PROVE  \/ user2rooms'[s][u] = user2rooms[s][u]
             \/ /\ EnterAsk(q, s, u, rid) /\ room_map[s][rid] # None
                /\ user2rooms'[s][u] = rid
  <2>1. \/ user2rooms' = user2rooms
        \/ room_map[t][rid] # None /\ user2rooms' = [user2rooms EXCEPT ![t][v] = rid]
    BY <1>2 DEF EnterAsk
  <2> QED BY <1>1, <1>2, <2>1 DEF GameTypes
<1>3. ASSUME NEW q \in Requests, GameLeft(q)
      PROVE  \/ user2rooms'[s][u] = user2rooms[s][u]
             \/ /\ user2rooms'[s][u] = None /\ req[q].server = s /\ req[q].user = u
  <2>1. user2rooms' = [user2rooms EXCEPT ![req[q].server][req[q].user] = None]
    BY <1>3 DEF GameLeft
  <2> QED BY <1>1, <2>1 DEF GameTypes
<1>4. ASSUME NEW t \in Servers, GameRestart(t)
      PROVE  \/ user2rooms'[s][u] = user2rooms[s][u]
             \/ user2rooms'[s][u] = None /\ t = s
  <2>1. user2rooms' = [user2rooms EXCEPT ![t] = NoUsers]
    BY <1>4 DEF GameRestart
  <2> QED BY <1>1, <2>1 DEF GameTypes, NoUsers
<1> QED BY <1>2, <1>3, <1>4, WhatChanges DEF RegisterStep, EnterStep

(* How a request comes to a stage in which a game server is at work on it. *)
Comes(q, p) ==
  \/ /\ p = "entering"
     /\ \E s \in Servers, u \in Users, rid \in Rids :
          /\ EnterAsk(q, s, u, rid) /\ room_map[s][rid] # None
          /\ req'[q].server = s /\ req'[q].user = u /\ req'[q].rid = rid
          /\ req'[q].room = room_map[s][rid] /\ Send(room_map[s][rid], q)
  \/ /\ Advance(q)
     /\ \/ /\ GameDestroy(q) /\ p = "asking"
           /\ room_map[req[q].server][req[q].rid] # None
           /\ req'[q].room = room_map[req[q].server][req[q].rid]
        \/ /\ RoomDestroyable(q) /\ p = "empty" /\ req'[q].room = req[q].room
           /\ rooms[req[q].room].users = {}
        \/ /\ GameLeave(q) /\ p = "leaving"
           /\ user2rooms[req[q].server][req[q].user] # None
           /\ room_map[req[q].server][user2rooms[req[q].server][req[q].user]] # None
           /\ req'[q].room =
                room_map[req[q].server][user2rooms[req[q].server][req[q].user]]
        \/ /\ RoomLeave(q) /\ p = "gone"
        \/ /\ GameLeave(q) /\ p = "assert"
           /\ user2rooms[req[q].server][req[q].user] # None
           /\ room_map[req[q].server][user2rooms[req[q].server][req[q].user]] = None

LEMMA StageGoes ==
  ASSUME IndInv, [Next]_vars, NEW q \in Requests,
         req'[q].pc \in AtRoom \cup {"gone", "assert"}
  PROVE  Stands(q) \/ Comes(q, req'[q].pc)
<1>1. req \in [Requests -> Request] /\ req[q] \in Request
  BY Types DEF IndInv
<1>2. \A p : Move(q, p) \/ Answer(q, p) => req'[q].pc = p /\ req'[q].room = req[q].room
  BY <1>1 DEF Move, Answer, Request, AtRoom
<1>3. CASE Asks(q)
  <2>1. req'[q].pc = "entering" /\ req'[q].op = "enter"
    BY <1>3, AskPlaces DEF AtRoom
  <2>2. \A op, u, rid, s, i, p : Ask(q, op, u, rid, s, i, p) =>
          /\ req'[q].op = op /\ req'[q].pc = p /\ req'[q].server = s
          /\ req'[q].user = u /\ req'[q].rid = rid /\ req'[q].room = i
    BY <1>1 DEF Ask
  <2>3. ASSUME NEW u \in Users
        PROVE  /\ ~ CreateAsk(q, u) /\ ~ LeaveAsk(q, u) /\ ~ ReconnAsk(q, u)
               /\ \A rid \in Rids : ~ DestroyAsk(q, u, rid)
               /\ \A rid \in Rids, s \in Servers : ~ SelectAsk(q, u, rid, s)
    BY <2>1, <2>2 DEF CreateAsk, LeaveAsk, ReconnAsk, DestroyAsk, SelectAsk
  <2>4. PICK u \in Users, rid \in Rids, s \in Servers : EnterAsk(q, s, u, rid)
    BY <1>3, <2>3 DEF Asks
  <2>5. /\ room_map[s][rid] # None /\ Send(room_map[s][rid], q)
        /\ Ask(q, "enter", u, rid, s, room_map[s][rid], "entering")
    BY <2>1, <2>2, <2>4 DEF EnterAsk
  <2> QED BY <1>3, <2>1, <2>2, <2>4, <2>5 DEF Comes
<1>4. CASE RequestStep(q) /\ Advance(q)
  <2>1. \/ GameDestroy(q) \/ RoomDestroyable(q) \/ GameLeave(q) \/ RoomLeave(q)
    <3>1. ASSUME NEW p, Move(q, p) \/ Answer(q, p) PROVE p \in AtRoom \cup {"gone", "assert"}
      BY <1>2, <3>1
    <3>2. /\ ~ Move(q, "recorded") /\ ~ Move(q, "200") /\ ~ Move(q, "error")
          /\ ~ Move(q, "403") /\ ~ Move(q, "sent") /\ ~ Move(q, "starting")
          /\ ~ Answer(q, "destroyed") /\ ~ Answer(q, "404") /\ ~ Answer(q, "selected")
          /\ ~ Answer(q, "200") /\ ~ Answer(q, "left")
      BY <3>1 DEF AtRoom
    <3>3. ~ CreatePlace(q)
      <4>1. \A s : req' = [req EXCEPT ![q].pc = "sent", ![q].server = s] =>
                     req'[q].pc = "sent"
        BY <1>1 DEF Request
      <4> QED BY <3>2, <4>1 DEF CreatePlace, AtRoom
    <3>4. /\ ~ GameCreate(q) /\ ~ CreateRecord(q) /\ ~ CreateDone(q) /\ ~ DestroyCheck(q)
          /\ ~ GameDestroyed(q) /\ ~ DestroyDone(q) /\ ~ SelectDone(q)
          /\ ~ RoomEnter(q) /\ ~ GameLeft(q) /\ ~ LeaveDone(q)
      BY <3>2 DEF GameCreate, CreateRecord, CreateDone, DestroyCheck, GameDestroyed,
                  DestroyDone, SelectDone, RoomEnter, GameLeft, LeaveDone, SetRoom
    <3>5. ~ GameSelect(q)
      BY <3>2 DEF GameSelect
    <3> QED BY <1>4, <3>3, <3>4, <3>5 DEF RequestStep
  <2>2. \A p, i : req' = [req EXCEPT ![q].pc = p, ![q].room = i] =>
                    req'[q].pc = p /\ req'[q].room = i
    BY <1>1 DEF Request
  <2>3. CASE GameDestroy(q)
    <3>1. ~ Answer(q, "404")  BY <1>2 DEF AtRoom
    <3>2. /\ room_map[req[q].server][req[q].rid] # None
          /\ req' = [req EXCEPT ![q].pc = "asking",
                                ![q].room = room_map[req[q].server][req[q].rid]]
      BY <2>3, <3>1 DEF GameDestroy
    <3>3. req'[q].pc = "asking" /\ req'[q].room = room_map[req[q].server][req[q].rid]
      BY <2>2, <3>2
    <3> QED BY <1>4, <2>3, <3>2, <3>3 DEF Comes
  <2>4. CASE RoomDestroyable(q)
    <3>1. ~ Answer(q, "403")  BY <1>2 DEF AtRoom
    <3>2. Move(q, "empty") /\ rooms[req[q].room].users = {}
      BY <2>4, <3>1 DEF RoomDestroyable
    <3>3. req'[q].pc = "empty" /\ req'[q].room = req[q].room  BY <1>2, <3>2
    <3> QED BY <1>4, <2>4, <3>2, <3>3 DEF Comes
  <2>5. CASE GameLeave(q)
    <3>1. ~ Answer(q, "404")  BY <1>2 DEF AtRoom
    <3>2. CASE user2rooms[req[q].server][req[q].user] = None
      BY <2>5, <3>1, <3>2 DEF GameLeave
    <3>3. CASE /\ user2rooms[req[q].server][req[q].user] # None
               /\ room_map[req[q].server][user2rooms[req[q].server][req[q].user]] = None
      <4>1. Answer(q, "assert")  BY <2>5, <3>3 DEF GameLeave
      <4>2. req'[q].pc = "assert"  BY <1>2, <4>1
      <4> QED BY <1>4, <2>5, <3>3, <4>2 DEF Comes
    <3>4. CASE /\ user2rooms[req[q].server][req[q].user] # None
               /\ room_map[req[q].server][user2rooms[req[q].server][req[q].user]] # None
      <4>1. req' = [req EXCEPT ![q].pc = "leaving", ![q].room =
                      room_map[req[q].server][user2rooms[req[q].server][req[q].user]]]
        BY <2>5, <3>4 DEF GameLeave
      <4>2. /\ req'[q].pc = "leaving"
            /\ req'[q].room =
                 room_map[req[q].server][user2rooms[req[q].server][req[q].user]]
        BY <2>2, <4>1
      <4> QED BY <1>4, <2>5, <3>4, <4>2 DEF Comes
    <3> QED BY <3>2, <3>3, <3>4
  <2>6. CASE RoomLeave(q)
    <3>1. req'[q].pc = "gone"  BY <1>2, <2>6 DEF RoomLeave
    <3> QED BY <1>4, <2>6, <3>1 DEF Comes
  <2> QED BY <2>1, <2>3, <2>4, <2>5, <2>6
<1>5. ASSUME NEW b \in births, b.by = q, RoomStarted(b) PROVE FALSE
  <2>1. Move(q, "created") \/ Move(q, "error")
    BY <1>5 DEF RoomStarted, Answer
  <2> QED BY <1>2, <2>1 DEF AtRoom
<1>6. ~ Fails(q)
  BY <1>1 DEF Fails, Request, AtRoom
<1> QED BY <1>3, <1>4, <1>5, <1>6, RequestGoes

(* How a room service goes on. *)
Handles(q, i) ==
  /\ req[q].room = i /\ rooms[i].inbox # <<>>
  /\ rooms'[i].host = rooms[i].host /\ rooms'[i].inbox = Tail(rooms[i].inbox)
  /\ \/ RoomDestroyable(q) /\ rooms'[i].users = rooms[i].users
     \/ RoomEnter(q) /\ rooms'[i].users = rooms[i].users \cup {req[q].user}
     \/ RoomLeave(q) /\ rooms'[i].users = rooms[i].users \ {req[q].user}

Takes(i, m) ==
  /\ rooms'[i].host = rooms[i].host /\ rooms'[i].users = rooms[i].users
  /\ rooms'[i].inbox = IF rooms[i].host = None THEN rooms[i].inbox
                                               ELSE Append(rooms[i].inbox, m)

(* Request m sends its message to room i. *)
Posts(m, i) ==
  \/ \E s \in Servers, u \in Users, rid \in Rids :
       EnterAsk(m, s, u, rid) /\ room_map[s][rid] = i
  \/ GameDestroy(m) \/ GameLeave(m)

Mapped(i) == \E s \in Servers, rid \in Rids : room_map[s][rid] = i

Ends(i) == \E q \in Requests : GameDestroyed(q) /\ req[q].room = i /\ Takes(i, None)

Dies(i) == rooms'[i] = Dead

RoomGoes(i) ==
  \/ rooms'[i] = rooms[i]
  \/ \E q \in Requests : Handles(q, i)
  \/ Mapped(i) /\ \E m \in Requests : Posts(m, i) /\ Takes(i, m)
  \/ Ends(i) \/ Dies(i)

LEMMA SendTakes ==
  ASSUME RoomsTypes, NEW i \in DOMAIN rooms, NEW m \in Requests \cup {None}, Send(i, m)
  PROVE  Takes(i, m) /\ \A j \in DOMAIN rooms : j # i => rooms'[j] = rooms[j]
<1>1. PICK x \in Room :
        /\ rooms' = [rooms EXCEPT ![i] = x]
        /\ x.host = rooms[i].host /\ x.users = rooms[i].users
        /\ x.inbox = IF rooms[i].host = None THEN rooms[i].inbox
                                             ELSE Append(rooms[i].inbox, m)
  BY Sent
<1>2. rooms'[i] = x /\ \A j \in DOMAIN rooms : j # i => rooms'[j] = rooms[j]
  BY <1>1, RoomEdited
<1> QED BY <1>1, <1>2 DEF Takes

LEMMA HandleHandles ==
  ASSUME IndInv, NEW q \in Requests,
         RoomDestroyable(q) \/ RoomEnter(q) \/ RoomLeave(q)
  PROVE  /\ req[q].room \in DOMAIN rooms /\ Handles(q, req[q].room)
         /\ \A j \in DOMAIN rooms : j # req[q].room => rooms'[j] = rooms[j]
<1>1. PICK i : i = req[q].room  OBVIOUS
<1>2. RoomsTypes  BY Types DEF IndInv
<1>3. i \in DOMAIN rooms /\ req[q].user \in Users
  BY <1>1, Under DEF RoomDestroyable, RoomEnter, RoomLeave, At, AtGame, AtRoom
<1>4. rooms[i].users \in SUBSET Users
  <2>1. rooms[i] \in Room  BY <1>2, <1>3, RoomKeys
  <2> QED BY <2>1 DEF Room
<1>5. PICK us \in SUBSET Users :
        /\ Handle(i, q, us)
        /\ \/ RoomDestroyable(q) /\ us = rooms[i].users
           \/ RoomEnter(q) /\ us = rooms[i].users \cup {req[q].user}
           \/ RoomLeave(q) /\ us = rooms[i].users \ {req[q].user}
  BY <1>1, <1>3, <1>4 DEF RoomDestroyable, RoomEnter, RoomLeave
<1>6. PICK x \in Room :
        /\ rooms' = [rooms EXCEPT ![i] = x]
        /\ x.host = rooms[i].host /\ x.users = us
        /\ x.inbox = Tail(rooms[i].inbox) /\ rooms[i].inbox # <<>>
  BY <1>2, <1>3, <1>5, Handled
<1>7. rooms'[i] = x /\ \A j \in DOMAIN rooms : j # i => rooms'[j] = rooms[j]
  BY <1>2, <1>3, <1>6, RoomEdited
<1> QED BY <1>1, <1>3, <1>5, <1>6, <1>7 DEF Handles

LEMMA HowRooms ==
  ASSUME IndInv, [Next]_vars, NEW j \in DOMAIN rooms
  PROVE  RoomGoes(j)
<1>1. RoomsTypes /\ GameTypes /\ LoopAimed /\ req \in [Requests -> Request]
  BY Types DEF IndInv
<1>2. \A s \in Servers, rid \in Rids : room_map[s][rid] \in DOMAIN rooms \cup {None}
  BY <1>1 DEF RoomsTypes
<1>3. ASSUME NEW i \in DOMAIN rooms, NEW q \in Requests, Send(i, q), Mapped(i),
             Posts(q, i)
      PROVE  RoomGoes(j)
  BY <1>1, <1>3, SendTakes DEF RoomGoes
<1>4. CASE EnterStep
  <2>1. PICK r \in Requests, u \in Users, s \in Servers, rid \in Rids : EnterAsk(r, s, u, rid)
    BY <1>4 DEF EnterStep
  <2>2. rooms' = rooms \/ (room_map[s][rid] # None /\ Send(room_map[s][rid], r))
    BY <2>1 DEF EnterAsk
  <2>3. rooms' # rooms => Posts(r, room_map[s][rid])
    BY <2>1 DEF Posts
  <2> QED BY <1>2, <1>3, <2>2, <2>3 DEF RoomGoes, Mapped
<1>5. ASSUME NEW s \in Servers, rooms' = Append(rooms, Fresh(s))
      PROVE  RoomGoes(j)
  BY <1>1, <1>5, RoomAdded DEF RoomGoes
<1>6. CASE GameEnsure
  <2>1. rooms' = rooms \/ \E s \in Servers : rooms' = Append(rooms, Fresh(s))
    BY <1>1, <1>6 DEF GameEnsure, StartRoom, Fresh, Loop, LoopAimed
  <2> QED BY <1>5, <2>1 DEF RoomGoes
<1>7. ASSUME NEW r \in Requests, GameCreate(r) PROVE RoomGoes(j)
  <2>1. req[r].server \in Servers
    BY <1>7, Under DEF GameCreate, At, AtGame
  <2> QED BY <1>5, <1>7, <2>1 DEF GameCreate, StartRoom, Fresh
<1>8. ASSUME NEW r \in Requests, GameDestroy(r) PROVE RoomGoes(j)
  <2>1. req[r].server \in Servers /\ req[r].rid \in Rids
    BY <1>8, Under DEF GameDestroy, At, AtGame
  <2> QED BY <1>2, <1>3, <1>8, <2>1 DEF GameDestroy, RoomGoes, Mapped, Posts
<1>9. ASSUME NEW r \in Requests, GameLeave(r) PROVE RoomGoes(j)
  <2>1. req[r].server \in Servers /\ req[r].user \in Users
    BY <1>9, Under DEF GameLeave, At, AtGame
  <2>2. user2rooms[req[r].server][req[r].user] \in Rids \cup {None}
    BY <1>1, <2>1 DEF GameTypes
  <2>3. \/ rooms' = rooms
        \/ \E rid \in Rids : /\ room_map[req[r].server][rid] # None
                             /\ Send(room_map[req[r].server][rid], r)
    BY <1>9, <2>2 DEF GameLeave
  <2>4. \A i : Posts(r, i)  BY <1>9 DEF Posts
  <2> QED BY <1>2, <1>3, <2>1, <2>3, <2>4 DEF RoomGoes, Mapped
<1>10. ASSUME NEW r \in Requests, GameDestroyed(r) PROVE RoomGoes(j)
  <2>1. PICK i \in DOMAIN rooms : i = req[r].room /\ Send(i, None)
    BY <1>10, Under DEF GameDestroyed, At, AtGame, AtRoom
  <2>2. Takes(i, None) /\ \A k \in DOMAIN rooms : k # i => rooms'[k] = rooms[k]
    BY <1>1, <2>1, SendTakes
  <2> QED BY <1>10, <2>1, <2>2 DEF RoomGoes, Ends
<1>11. ASSUME NEW r \in Requests, RoomDestroyable(r) \/ RoomEnter(r) \/ RoomLeave(r)
       PROVE  RoomGoes(j)
  BY <1>11, HandleHandles DEF RoomGoes
<1>12. ASSUME NEW i \in DOMAIN rooms, RoomExit(i) PROVE RoomGoes(j)
  <2>1. rooms' = [rooms EXCEPT ![i] = Dead]  BY <1>12 DEF RoomExit
  <2>2. rooms'[i] = Dead /\ \A k \in DOMAIN rooms : k # i => rooms'[k] = rooms[k]
    BY <1>1, <2>1, DeadRoom, RoomEdited
  <2> QED BY <2>2 DEF RoomGoes, Dies
<1>13. ASSUME NEW s \in Servers, GameRestart(s) PROVE RoomGoes(j)
  <2>1. rooms' = [i \in DOMAIN rooms |-> IF rooms[i].host = s THEN Dead ELSE rooms[i]]
    BY <1>13 DEF GameRestart
  <2> QED BY <1>13, <2>1 DEF RoomGoes, Dies
<1>14. CASE rooms' = rooms
  BY <1>14 DEF RoomGoes
<1> QED
  BY <1>4, <1>6, <1>7, <1>8, <1>9, <1>10, <1>11, <1>12, <1>13, <1>14, WhatChanges
  DEF RoomsStep

(* Where a request gets its room from. *)
LEMMA RoomOf ==
  ASSUME IndInv, [Next]_vars, NEW r \in Requests, req'[r].pc \in AtRoom
  PROVE  \/ req[r].pc \in AtRoom /\ req'[r].room = req[r].room
         \/ \E s \in Servers, rid \in Rids :
              room_map[s][rid] # None /\ req'[r].room = room_map[s][rid]
<1>1. GameTypes  BY Types DEF IndInv
<1>2. PICK p : p = req'[r].pc /\ p \in AtRoom  OBVIOUS
<1>3. Stands(r) \/ Comes(r, p)
  BY <1>2, StageGoes
<1>4. CASE Stands(r)
  BY <1>4 DEF Stands
<1>5. CASE RoomDestroyable(r) /\ req'[r].room = req[r].room
  <2>1. req[r].pc = "asking"  BY <1>5 DEF RoomDestroyable, At
  <2> QED BY <1>5, <2>1 DEF AtRoom
<1>6. CASE /\ GameDestroy(r)
           /\ room_map[req[r].server][req[r].rid] # None
           /\ req'[r].room = room_map[req[r].server][req[r].rid]
  <2>1. req[r].pc = "sent" /\ req[r].op = "destroy"  BY <1>6 DEF GameDestroy, At
  <2>2. req[r].server \in Servers /\ req[r].rid \in Rids
    BY <2>1, Under DEF AtGame
  <2> QED BY <1>6, <2>2
<1>7. CASE /\ GameLeave(r)
           /\ user2rooms[req[r].server][req[r].user] # None
           /\ room_map[req[r].server][user2rooms[req[r].server][req[r].user]] # None
           /\ req'[r].room =
                room_map[req[r].server][user2rooms[req[r].server][req[r].user]]
  <2>1. req[r].pc = "sent"  BY <1>7 DEF GameLeave, At
  <2>2. req[r].server \in Servers /\ req[r].user \in Users
    BY <2>1, Under DEF AtGame
  <2>3. user2rooms[req[r].server][req[r].user] \in Rids
    BY <1>1, <1>7, <2>2 DEF GameTypes
  <2> QED BY <1>7, <2>2, <2>3
<1>8. CASE \E s \in Servers, rid \in Rids :
             room_map[s][rid] # None /\ req'[r].room = room_map[s][rid]
  BY <1>8
<1>9. p # "gone" /\ p # "assert"  BY <1>2 DEF AtRoom
<1> QED BY <1>3, <1>4, <1>5, <1>6, <1>7, <1>8, <1>9 DEF Comes

(* A room that nobody knows stays so until it is in room_map. *)
LEMMA FreshStays ==
  ASSUME IndInv, [Next]_vars, NEW i \in DOMAIN rooms, FreshRoom(i),
         \A b \in births : RoomStarted(b) => b.room # i
  PROVE  FreshRoom(i)'
<1>1. RoomsTypes  BY Types DEF IndInv
<1>2. i # None  BY <1>1, RoomKeys
<1>3. rooms'[i].users = {} /\ rooms'[i].inbox = <<>>
  <2>1. rooms[i].users = {} /\ rooms[i].inbox = <<>>  BY DEF FreshRoom
  <2>2. \A q \in Requests : ~ Handles(q, i)  BY <2>1 DEF Handles
  <2>3. ~ Mapped(i)  BY DEF FreshRoom, Mapped
  <2>4. ~ Ends(i)  BY DEF FreshRoom, Ends, GameDestroyed, At, AtRoom
  <2>5. CASE Dies(i)
    BY <2>5 DEF Dies, Dead
  <2> QED BY <2>1, <2>2, <2>3, <2>4, <2>5, HowRooms DEF RoomGoes
<1>4. ASSUME NEW s \in Servers, NEW rid \in Rids PROVE room_map'[s][rid] # i
  <2>1. room_map[s][rid] # i  BY DEF FreshRoom
  <2> QED BY <1>2, <2>1, MapKeeps
<1>5. ASSUME NEW r \in Requests, req'[r].pc \in AtRoom PROVE req'[r].room # i
  BY <1>5, RoomOf DEF FreshRoom
<1> QED BY <1>3, <1>4, <1>5 DEF FreshRoom

LEMMA FreshNew ==
  ASSUME IndInv, [Next]_vars, NEW s \in Servers, rooms' = Append(rooms, Fresh(s)),
         room_map' = room_map, NEW i, i = Len(rooms) + 1
  PROVE  FreshRoom(i)'
<1>1. RoomsTypes  BY Types DEF IndInv
<1>2. i \in Nat  BY <1>1, RoomKeys
<1>3. i \notin DOMAIN rooms /\ rooms'[i] = Fresh(s) /\ i # None
  BY <1>1, <1>2, RoomAdded, RoomKeys, Nil
<1>4. \A t \in Servers, rid \in Rids : room_map'[t][rid] # i
  BY <1>1, <1>3 DEF RoomsTypes
<1>5. ASSUME NEW r \in Requests, req'[r].pc \in AtRoom PROVE req'[r].room # i
  <2>1. req[r].pc \in AtRoom => req[r].room \in DOMAIN rooms
    BY DEF IndInv, RequestSound
  <2> QED BY <1>1, <1>3, <1>5, <2>1, RoomOf DEF RoomsTypes
<1>6. rooms'[i].users = {} /\ rooms'[i].inbox = <<>>
  BY <1>3 DEF Fresh
<1> QED BY <1>4, <1>5, <1>6 DEF FreshRoom


(* The first start of a room under way. *)
NewBirth(x) ==
  /\ births' = births \cup {x} /\ x.room = Len(rooms) + 1 /\ room_map' = room_map
  /\ \E s \in Servers : rooms' = Append(rooms, Fresh(s))

(* What is on its way into room_map was so before, or is the newest room. *)
LEMMA HowBirths ==
  ASSUME IndInv, [Next]_vars
  PROVE  \/ births' \subseteq births
         \/ \E x : NewBirth(x)
         \/ \E f : /\ \A c \in births : f[c].room = c.room
                   /\ births' = {f[c] : c \in births}
<1>1. RoomsTypes /\ LoopAimed  BY Types DEF IndInv
<1>2. ASSUME NEW s \in Servers, NEW rid, NEW by, StartRoom(s, rid, by), room_map' = room_map
      PROVE  \E x : NewBirth(x)
  <2>1. PICK x : x = [rid |-> rid, server |-> s, by |-> by, room |-> Len(rooms) + 1]
    OBVIOUS
  <2>2. births' = births \cup {x} /\ x.room = Len(rooms) + 1
    BY <1>2, <2>1 DEF StartRoom
  <2>3. rooms' = Append(rooms, Fresh(s))  BY <1>2 DEF StartRoom, Fresh
  <2> QED BY <1>2, <2>2, <2>3 DEF NewBirth
<1>3. CASE GameEnsure
  <2>1. births' = births \/ StartRoom(loop.server, loop.rid, "loop")
    BY <1>3 DEF GameEnsure
  <2>2. loop.server \in Servers /\ room_map' = room_map
    BY <1>1, <1>3 DEF GameEnsure, Loop, LoopAimed, gameVars
  <2> QED BY <1>2, <2>1, <2>2
<1>4. ASSUME NEW r \in Requests, GameCreate(r) PROVE \E x : NewBirth(x)
  <2>1. req[r].server \in Servers
    BY <1>4, Under DEF GameCreate, At, AtGame
  <2>2. room_map' = room_map /\ StartRoom(req[r].server, req[r].rid, r)
    BY <1>4 DEF GameCreate
  <2> QED BY <1>2, <2>1, <2>2
<1>5. ASSUME NEW b \in births, RoomStarted(b) PROVE births' \subseteq births
  BY <1>5 DEF RoomStarted
<1>6. ASSUME NEW s \in Servers, GameRestart(s) PROVE births' \subseteq births
  BY <1>6 DEF GameRestart
<1>7. ASSUME NEW s \in Servers, BreakLink(s)
      PROVE  \E f : /\ \A c \in births : f[c].room = c.room
                    /\ births' = {f[c] : c \in births}
  <2> DEFINE g == [b \in births |-> IF b.server = s /\ b.by = "loop"
                                    THEN [b EXCEPT !.by = None] ELSE b]
  <2>1. births' = {g[c] : c \in births}  BY <1>7 DEF BreakLink
  <2>2. \A c \in births : g[c].room = c.room  BY <1>1 DEF RoomsTypes
  <2> HIDE DEF g
  <2> QED BY <2>1, <2>2
<1> QED BY <1>3, <1>4, <1>5, <1>6, <1>7, WhatChanges DEF BirthStep, Fault

LEMMA BirthsFreshStep ==
  ASSUME IndInv, BirthsFresh, [Next]_vars
  PROVE  BirthsFresh'
<1>1. RoomsTypes /\ \A b \in births : b.room \in DOMAIN rooms
  BY Types DEF IndInv, RoomsTypes
<1>2. ASSUME NEW c \in births, \E b \in births' : b.room = c.room,
             \A x \in births : RoomStarted(x) => births' = births \ {x}
      PROVE  FreshRoom(c.room)'
  <2>1. ASSUME NEW x \in births, RoomStarted(x), x.room = c.room PROVE FALSE
    BY <1>2, <2>1 DEF BirthsFresh
  <2> QED BY <1>1, <2>1, FreshStays DEF BirthsFresh
<1>3. \A x \in births : RoomStarted(x) => births' = births \ {x}
  BY DEF RoomStarted
<1>4. CASE births' \subseteq births
  BY <1>2, <1>3, <1>4 DEF BirthsFresh
<1>5. ASSUME NEW x, NewBirth(x) PROVE BirthsFresh'
  <2>1. FreshRoom(x.room)'
    <3>1. PICK i : i = x.room  OBVIOUS
    <3>2. FreshRoom(i)'  BY <1>5, <3>1, FreshNew DEF NewBirth
    <3> QED BY <3>1, <3>2
  <2>2. \A b \in births : b.room # x.room
    BY <1>1, <1>5, RoomKeys DEF NewBirth
  <2>3. \A b \in births : FreshRoom(b.room)'
    BY <1>2, <1>3, <1>5 DEF NewBirth
  <2> QED BY <1>5, <2>1, <2>2, <2>3 DEF NewBirth, BirthsFresh
<1>6. ASSUME NEW f, \A c \in births : f[c].room = c.room,
             births' = {f[c] : c \in births}
      PROVE  BirthsFresh'
  <2>1. ASSUME NEW b \in births' PROVE FreshRoom(b.room)'
    <3>1. PICK c \in births : b = f[c]  BY <1>6
    <3>2. FreshRoom(c.room)'  BY <1>2, <1>3, <1>6, <3>1
    <3> QED BY <1>6, <3>1, <3>2
  <2>2. ASSUME NEW b \in births', NEW c \in births', b.room = c.room PROVE b = c
    <3>1. PICK x \in births, y \in births : b = f[x] /\ c = f[y]  BY <1>6
    <3>2. x = y  BY <1>6, <2>2, <3>1 DEF BirthsFresh
    <3> QED BY <3>1, <3>2
  <2> QED BY <2>1, <2>2 DEF BirthsFresh
<1> QED BY <1>4, <1>5, <1>6, HowBirths

(* A room of room_map was there before the step, and nobody else's.         *)
LEMMA MappedBefore ==
  ASSUME IndInv, BirthsFresh, [Next]_vars, NEW s \in Servers, NEW rid \in Rids,
         room_map'[s][rid] # None
  PROVE  \/ /\ room_map'[s][rid] = room_map[s][rid]
            /\ room_map[s][rid] \in DOMAIN rooms
         \/ \E b \in births : /\ RoomStarted(b) /\ b.server = s /\ b.rid = rid
                              /\ room_map'[s][rid] = b.room
<1>1. RoomsTypes  BY Types DEF IndInv
<1>2. room_map[s][rid] \in DOMAIN rooms \cup {None}
  BY <1>1 DEF RoomsTypes
<1> QED BY <1>2, MapKeeps

LEMMA OwnServiceStep ==
  ASSUME IndInv, OwnService, BirthsFresh, [Next]_vars
  PROVE  OwnService'
<1> SUFFICES ASSUME NEW s \in Servers, NEW t \in Servers, NEW rid \in Rids,
                    NEW q \in Rids, room_map'[s][rid] # None,
                    room_map'[s][rid] = room_map'[t][q]
             PROVE  s = t /\ rid = q
  BY DEF OwnService
<1>1. \A b \in births, x \in Servers, p \in Rids : room_map[x][p] # b.room
  BY DEF BirthsFresh, FreshRoom
<1>2. \A b, c \in births : b.room = c.room => b = c
  BY DEF BirthsFresh
<1>3. CASE room_map'[s][rid] = room_map[s][rid] /\ room_map'[t][q] = room_map[t][q]
  <2>1. room_map[s][rid] # None /\ room_map[s][rid] = room_map[t][q]
    BY <1>3
  <2> QED BY <2>1 DEF OwnService
<1>4. ASSUME NEW b \in births, b.server = s, b.rid = rid, room_map'[s][rid] = b.room
      PROVE  s = t /\ rid = q
  <2>1. room_map'[t][q] # None /\ room_map'[t][q] # room_map[t][q]
    BY <1>1, <1>4
  <2>2. \E c \in births : c.server = t /\ c.rid = q /\ room_map'[t][q] = c.room
    BY <2>1, MappedBefore
  <2> QED BY <1>2, <1>4, <2>2
<1>5. ASSUME NEW b \in births, b.server = t, b.rid = q, room_map'[t][q] = b.room
      PROVE  s = t /\ rid = q
  <2>1. room_map'[s][rid] # None /\ room_map'[s][rid] # room_map[s][rid]
    BY <1>1, <1>5
  <2>2. \E c \in births : c.server = s /\ c.rid = rid /\ room_map'[s][rid] = c.room
    BY <2>1, MappedBefore
  <2> QED BY <1>2, <1>5, <2>2
<1> QED BY <1>3, <1>4, <1>5, MappedBefore

-----------------------------------------------------------------------------
(* Members and registrations: messages.                                    *)

LEMMA InboxSeq ==
  ASSUME RoomsTypes, NEW i \in DOMAIN rooms
  PROVE  rooms[i].inbox \in Seq(Requests \cup {None})
<1>1. rooms[i] \in Room  BY RoomKeys
<1> QED BY <1>1 DEF Room

(* How the messages of a room change: one is handled, one is sent, or all   *)
(* are lost.                                                               *)
LEMMA HowInbox ==
  ASSUME IndInv, [Next]_vars, NEW i \in DOMAIN rooms
  PROVE  LET x == rooms[i].inbox
             y == rooms'[i].inbox
         IN \/ y = x \/ (x # <<>> /\ y = Tail(x)) \/ y = <<>>
            \/ \E m \in Requests : Mapped(i) /\ Posts(m, i) /\ y = Append(x, m)
            \/ y = Append(x, None)
<1>1. Dead.inbox = <<>>  BY DEF Dead
<1> QED BY <1>1, HowRooms DEF RoomGoes, Handles, Takes, Ends, Dies

(* A message is there already, or is sent just now. *)
LEMMA PendingFrom ==
  ASSUME IndInv, [Next]_vars, NEW i \in DOMAIN rooms, NEW m \in Requests, Pending(i, m)'
  PROVE  Pending(i, m) \/ (Mapped(i) /\ Posts(m, i))
<1>1. PICK x \in Seq(Requests \cup {None}) : x = rooms[i].inbox
  BY Types, InboxSeq DEF IndInv
<1>2. PICK y : y = rooms'[i].inbox  OBVIOUS
<1>3. PICK k \in DOMAIN y : y[k] = m
  BY <1>2 DEF Pending
<1>4. CASE y = x
  BY <1>1, <1>3, <1>4 DEF Pending
<1>5. CASE x # <<>> /\ y = Tail(x)
  <2>1. k + 1 \in DOMAIN x /\ x[k + 1] = m  BY <1>3, <1>5
  <2> QED BY <1>1, <2>1 DEF Pending
<1>6. y # <<>>  BY <1>3
<1>7. ASSUME NEW n \in Requests \cup {None}, y = Append(x, n), n # m PROVE Pending(i, m)
  <2>1. k \in DOMAIN x /\ x[k] = m  BY <1>3, <1>7
  <2> QED BY <1>1, <2>1 DEF Pending
<1>8. m # None  BY Nil
<1> QED BY <1>1, <1>2, <1>4, <1>5, <1>6, <1>7, <1>8, HowInbox

(* Older messages stay older, but for one that is sent just now. *)
LEMMA BeforeStays ==
  ASSUME IndInv, [Next]_vars, NEW i \in DOMAIN rooms, NEW m \in Requests, NEW r \in Requests,
         Before(i, m, r), ~ Posts(m, i)
  PROVE  Before(i, m, r)'
<1>1. PICK x \in Seq(Requests \cup {None}) : x = rooms[i].inbox
  BY Types, InboxSeq DEF IndInv
<1>2. PICK y : y = rooms'[i].inbox  OBVIOUS
<1> SUFFICES ASSUME NEW k \in DOMAIN y, NEW l \in DOMAIN y, y[k] = r, y[l] = m
             PROVE  l < k
  BY <1>2 DEF Before
<1>3. \A a, b \in DOMAIN x : x[a] = r /\ x[b] = m => b < a
  BY <1>1 DEF Before
<1>4. CASE y = x
  BY <1>3, <1>4
<1>5. CASE x # <<>> /\ y = Tail(x)
  <2>1. /\ k + 1 \in DOMAIN x /\ x[k + 1] = r /\ k \in Nat
        /\ l + 1 \in DOMAIN x /\ x[l + 1] = m /\ l \in Nat
    BY <1>5
  <2>2. l + 1 < k + 1  BY <1>3, <2>1
  <2> QED BY <2>1, <2>2
<1>6. CASE y = <<>>
  BY <1>6
<1>7. ASSUME NEW n \in Requests \cup {None}, y = Append(x, n), n # m PROVE l < k
  <2>1. l \in DOMAIN x /\ x[l] = m  BY <1>7
  <2>2. k \in 1 .. Len(x) + 1 /\ Len(x) \in Nat /\ DOMAIN x = 1 .. Len(x)  BY <1>7
  <2>3. CASE k = Len(x) + 1
    BY <2>1, <2>2, <2>3
  <2>4. CASE k # Len(x) + 1
    <3>1. k \in DOMAIN x /\ x[k] = r  BY <1>7, <2>2, <2>4
    <3> QED BY <1>3, <2>1, <3>1
  <2> QED BY <2>3, <2>4
<1>8. m # None  BY Nil
<1> QED BY <1>1, <1>2, <1>4, <1>5, <1>6, <1>7, <1>8, HowInbox

(* What sends a message was asked now or sent, and is on its way then. *)
LEMMA PostsGoes ==
  ASSUME IndInv, [Next]_vars, NEW m \in Requests, NEW i, Posts(m, i)
  PROVE  /\ req[m].pc \in {"idle", "sent"}
         /\ req'[m].pc \in {"entering", "asking", "leaving", "404", "assert", "error", "dropped"}
<1>1. req \in [Requests -> Request] /\ req[m] \in Request
  BY Types DEF IndInv
<1>2. ASSUME NEW s \in Servers, NEW u \in Users, NEW rid \in Rids, EnterAsk(m, s, u, rid)
      PROVE  req[m] = Idle /\ req'[m].pc \in {"entering", "dropped"}
  BY <1>1, <1>2 DEF EnterAsk, Ask
<1>3. CASE GameDestroy(m)
  BY <1>1, <1>3 DEF GameDestroy, Answer, Move, At, Request
<1>4. CASE GameLeave(m)
  BY <1>1, <1>4 DEF GameLeave, Answer, Move, At, Request
<1> QED BY <1>2, <1>3, <1>4 DEF Posts, Idle

(* Nobody becomes unsent again. *)
LEMMA UnsentFrom ==
  ASSUME IndInv, [Next]_vars, NEW q \in Requests, req'[q].pc \in Unsent
  PROVE  req[q].pc \in Unsent
<1>1. req \in [Requests -> Request] /\ req[q] \in Request
  BY Types DEF IndInv
<1>2. CASE Stands(q)
  BY <1>2 DEF Stands
<1>3. CASE Asks(q)
  <2>1. req[q] = Idle  BY <1>3, AskPlaces
  <2> QED BY <2>1 DEF Idle, Unsent
<1>4. CASE Fails(q)
  BY <1>1, <1>4 DEF Fails, Unsent, Request
<1>5. ASSUME NEW b \in births, b.by = q, RoomStarted(b) PROVE req[q].pc \in Unsent
  BY <1>1, <1>5 DEF RoomStarted, Answer, Move, Unsent, Request
<1>6. CASE RequestStep(q)
  <2>1. \A p : Move(q, p) \/ Answer(q, p) => req'[q].pc \in {p, "error"}
    BY <1>1 DEF Move, Answer, Request
  <2>2. CASE CreatePlace(q) \/ DestroyCheck(q)
    BY <2>2 DEF CreatePlace, DestroyCheck, At, Unsent
  <2>3. CASE GameDestroy(q) \/ GameLeave(q) \/ GameCreate(q) \/ GameSelect(q)
    BY <2>3 DEF GameDestroy, GameLeave, GameCreate, GameSelect, At, Unsent
  <2>4. CASE \/ CreateRecord(q) \/ CreateDone(q) \/ RoomDestroyable(q) \/ GameDestroyed(q)
             \/ DestroyDone(q) \/ SelectDone(q) \/ RoomEnter(q) \/ RoomLeave(q)
             \/ GameLeft(q) \/ LeaveDone(q)
    <3>1. \E p \in {"recorded", "200", "empty", "403", "destroyed", "gone", "left"} :
            Move(q, p) \/ Answer(q, p)
      BY <2>4 DEF CreateRecord, CreateDone, RoomDestroyable, GameDestroyed, DestroyDone,
                  SelectDone, RoomEnter, RoomLeave, GameLeft, LeaveDone, SetRoom
    <3> QED BY <2>1, <3>1 DEF Unsent
  <2> QED BY <1>6, <2>2, <2>3, <2>4 DEF RequestStep
<1> QED BY <1>2, <1>3, <1>4, <1>5, <1>6, RequestGoes

(* Rooms are added by the start of one. *)
LEMMA NewRooms ==
  ASSUME IndInv, [Next]_vars
  PROVE  DOMAIN rooms' = DOMAIN rooms \/ \E s \in Servers : rooms' = Append(rooms, Fresh(s))
<1>1. RoomsTypes /\ LoopAimed  BY Types DEF IndInv
<1>2. CASE EnterStep
  <2>1. rooms' = rooms \/ \E i, r : Send(i, r)
    BY <1>2 DEF EnterStep, EnterAsk
  <2> QED BY <2>1 DEF Send
<1>3. CASE GameEnsure
  BY <1>1, <1>3 DEF GameEnsure, StartRoom, Fresh, Loop, LoopAimed
<1>4. ASSUME NEW r \in Requests, GameCreate(r)
      PROVE  \E s \in Servers : rooms' = Append(rooms, Fresh(s))
  <2>1. req[r].server \in Servers
    BY <1>4, Under DEF GameCreate, At, AtGame
  <2> QED BY <1>4, <2>1 DEF GameCreate, StartRoom, Fresh
<1>5. ASSUME NEW r \in Requests,
             \/ GameDestroy(r) \/ RoomDestroyable(r) \/ GameDestroyed(r)
             \/ RoomEnter(r) \/ GameLeave(r) \/ RoomLeave(r)
      PROVE  DOMAIN rooms' = DOMAIN rooms
  <2>1. rooms' = rooms \/ (\E i, m : Send(i, m)) \/ \E i, m, us : Handle(i, m, us)
    BY <1>5 DEF GameDestroy, RoomDestroyable, GameDestroyed, RoomEnter, GameLeave, RoomLeave
  <2> QED BY <2>1 DEF Send, Handle
<1>6. ASSUME NEW i \in DOMAIN rooms, RoomExit(i) PROVE DOMAIN rooms' = DOMAIN rooms
  BY <1>6 DEF RoomExit
<1>7. ASSUME NEW s \in Servers, GameRestart(s) PROVE DOMAIN rooms' = DOMAIN rooms
  BY <1>7 DEF GameRestart
<1> QED BY <1>2, <1>3, <1>4, <1>5, <1>6, <1>7, WhatChanges DEF RoomsStep

LEMMA MailSentStep ==
  ASSUME IndInv, MailSent, [Next]_vars
  PROVE  MailSent'
<1> SUFFICES ASSUME NEW i \in DOMAIN rooms', NEW r \in Requests, Pending(i, r)'
             PROVE  req'[r].pc \notin Unsent
  BY DEF MailSent
<1>1. RoomsTypes  BY Types DEF IndInv
<1>2. CASE i \in DOMAIN rooms
  <2>1. CASE Pending(i, r)
    BY <1>2, <2>1, UnsentFrom DEF MailSent
  <2>2. CASE Posts(r, i)
    BY <2>2, PostsGoes DEF Unsent
  <2> QED BY <1>2, <2>1, <2>2, PendingFrom
<1>3. CASE i \notin DOMAIN rooms
  <2>1. PICK s \in Servers : rooms' = Append(rooms, Fresh(s))
    BY <1>1, <1>3, NewRooms
  <2>2. rooms'[i] = Fresh(s)  BY <1>1, <1>3, <2>1, RoomAdded
  <2> QED BY <2>2 DEF Pending, Fresh
<1> QED BY <1>2, <1>3

-----------------------------------------------------------------------------
(* Members and registrations: players.                                     *)

LEMMA EnterAsked ==
  ASSUME IndInv, [Next]_vars, NEW m \in Requests, NEW s \in Servers, NEW u \in Users,
         NEW rid \in Rids, EnterAsk(m, s, u, rid), room_map[s][rid] # None
  PROVE  /\ req[m] = Idle /\ req'[m].op = "enter" /\ req'[m].user = u
         /\ Overtakes(u, s, rid) => Hasty(u, s)'
         /\ room_map' = room_map /\ user2rooms'[s][u] = rid
         /\ \A q \in Requests : q # m => req'[q] = req[q]
<1>1. RoomsTypes /\ GameTypes /\ req \in [Requests -> Request]
  BY Types DEF IndInv
<1>2. PICK i \in 0 .. MaxRooms : i = room_map[s][rid]
  BY <1>1, RoomKeys DEF RoomsTypes
<1>3. Ask(m, "enter", u, rid, s, i, "entering")
  BY <1>2 DEF EnterAsk
<1>4. /\ "enter" \in Ops /\ "entering" \in Stage /\ rid \in 0 .. MaxRid
      /\ s \in Servers \cup {None}
  BY Nil DEF Ops, Stage, AtGame, Rids
<1>5. /\ req[m] = Idle
      /\ req'[m] = [op |-> "enter", pc |-> "entering", user |-> u, rid |-> rid, server |-> s,
                    room |-> i, cut |-> FALSE,
                    hasty |-> "entering" = "entering" /\ Overtakes(u, s, rid)]
      /\ \A q \in Requests : q # m => req'[q] = req[q]
  BY <1>1, <1>3, <1>4, Asked
<1>6. ASSUME Overtakes(u, s, rid) PROVE Hasty(u, s)'
  <2>1. PICK h : h = ("entering" = "entering" /\ Overtakes(u, s, rid))  OBVIOUS
  <2>2. h = TRUE  BY <1>6, <2>1
  <2>3. req'[m] = [op |-> "enter", pc |-> "entering", user |-> u, rid |-> rid, server |-> s,
                   room |-> i, cut |-> FALSE, hasty |-> h]
    BY <1>5, <2>1
  <2>4. req'[m].hasty /\ req'[m].user = u /\ req'[m].server = s
    BY <2>2, <2>3
  <2> QED BY <2>4 DEF Hasty
<1>7. room_map' = room_map /\ user2rooms'[s][u] = rid
  BY <1>1 DEF EnterAsk, GameTypes
<1> QED BY <1>5, <1>6, <1>7

(* Who sits in a room sat there, or his EnterRoom arrived. *)
LEMMA SitsFrom ==
  ASSUME IndInv, BirthsFresh, [Next]_vars, NEW u \in Users, NEW s \in Servers,
         NEW rid \in Rids, Sits(u, s, rid)'
  PROVE  /\ room_map'[s][rid] = room_map[s][rid]
         /\ Sits(u, s, rid) \/ \E q \in Requests : RoomEnter(q) /\ Arrives(q, u, s, rid)
<1>1. PICK i : i = room_map'[s][rid]  OBVIOUS
<1>2. i # None /\ u \in rooms'[i].users
  BY <1>1 DEF Sits
<1>3. ASSUME NEW b \in births, RoomStarted(b), i = b.room PROVE FALSE
  <2>1. rooms' = rooms  BY <1>3 DEF RoomStarted
  <2>2. rooms[b.room].users = {}  BY DEF BirthsFresh, FreshRoom
  <2> QED BY <1>2, <1>3, <2>1, <2>2
<1>4. room_map[s][rid] = i /\ i \in DOMAIN rooms
  BY <1>1, <1>2, <1>3, MappedBefore
<1>5. CASE u \in rooms[i].users
  BY <1>1, <1>2, <1>4, <1>5 DEF Sits
<1>6. CASE u \notin rooms[i].users
  <2>1. rooms'[i] # Dead  BY <1>2 DEF Dead
  <2>2. PICK q \in Requests : Handles(q, i)
    BY <1>2, <1>4, <1>6, <2>1, HowRooms DEF RoomGoes, Takes, Ends, Dies
  <2>3. req[q].room = i /\ RoomEnter(q) /\ req[q].user = u
    BY <1>2, <1>6, <2>2 DEF Handles
  <2>4. req[q].op = "enter" /\ rooms[i].inbox # <<>> /\ Head(rooms[i].inbox) = q
    BY <2>3 DEF RoomEnter, At, Handle
  <2>5. Pending(i, q)
    <3>1. PICK x \in Seq(Requests \cup {None}) : x = rooms[i].inbox
      BY <1>4, Types, InboxSeq DEF IndInv
    <3>2. 1 \in DOMAIN x /\ x[1] = q  BY <2>4, <3>1
    <3> QED BY <3>1, <3>2 DEF Pending
  <2> QED BY <1>1, <1>2, <1>4, <2>3, <2>4, <2>5 DEF Arrives
<1> QED BY <1>5, <1>6

(* An EnterRoom on its way was so before, or is asked now. *)
LEMMA ArrivesFrom ==
  ASSUME IndInv, BirthsFresh, OwnService, MailSent, [Next]_vars, NEW u \in Users,
         NEW s \in Servers, NEW rid \in Rids, NEW m \in Requests, Arrives(m, u, s, rid)'
  PROVE  /\ room_map'[s][rid] = room_map[s][rid] /\ room_map[s][rid] \in DOMAIN rooms
         /\ \/ Arrives(m, u, s, rid)
            \/ EnterAsk(m, s, u, rid) /\ room_map[s][rid] # None
<1>1. PICK i : i = room_map'[s][rid]  OBVIOUS
<1>2. /\ i # None /\ Pending(i, m)'
      /\ req'[m].op = "enter" /\ req'[m].user = u
  <2>1. room_map'[s][rid] # None /\ req'[m].op = "enter" /\ req'[m].user = u
    BY DEF Arrives
  <2>2. Pending(i, m)'  BY <1>1 DEF Arrives, Pending
  <2> QED BY <1>1, <2>1, <2>2
<1>3. ASSUME NEW b \in births, RoomStarted(b), i = b.room PROVE FALSE
  <2>1. rooms' = rooms  BY <1>3 DEF RoomStarted
  <2>2. rooms[b.room].inbox = <<>>  BY DEF BirthsFresh, FreshRoom
  <2> QED BY <1>2, <1>3, <2>1, <2>2 DEF Pending
<1>4. room_map[s][rid] = i /\ i \in DOMAIN rooms
  BY <1>1, <1>2, <1>3, MappedBefore
<1>5. CASE Pending(i, m)
  <2>1. req[m].op \in Ops
    <3>1. req[m] # Idle  BY <1>4, <1>5 DEF MailSent, Unsent, Idle
    <3> QED BY <3>1 DEF IndInv, RequestSound
  <2>2. req[m].op = "enter" /\ req[m].user = u
    BY <1>2, <2>1, RequestKeeps
  <2> QED BY <1>1, <1>2, <1>4, <1>5, <2>2 DEF Arrives
<1>6. CASE Posts(m, i)
  <2>1. ~ GameDestroy(m)
    <3>1. GameDestroy(m) => req[m].op = "destroy"  BY DEF GameDestroy, At
    <3>2. req[m].op = "destroy" => req'[m].op = "destroy"  BY RequestKeeps DEF Ops
    <3> QED BY <1>2, <3>1, <3>2
  <2>2. ~ GameLeave(m)
    <3>1. GameLeave(m) => req[m].op = "leave"  BY DEF GameLeave, At
    <3>2. req[m].op = "leave" => req'[m].op = "leave"  BY RequestKeeps DEF Ops
    <3> QED BY <1>2, <3>1, <3>2
  <2>3. PICK t \in Servers, v \in Users, q \in Rids :
          EnterAsk(m, t, v, q) /\ room_map[t][q] = i
    BY <1>6, <2>1, <2>2 DEF Posts
  <2>4. t = s /\ q = rid  BY <1>2, <1>4, <2>3 DEF OwnService
  <2>5. v = u  BY <1>2, <2>3, EnterAsked
  <2> QED BY <1>1, <1>2, <1>4, <2>3, <2>4, <2>5
<1> QED BY <1>2, <1>4, <1>5, <1>6, PendingFrom

LEMMA RegisteredStep ==
  ASSUME IndInv, MemberInv, [Next]_vars, NEW u \in Users, NEW s \in Servers,
         ~ Hasty(u, s)'
  PROVE  Registered(u, s)'
<1> SUFFICES ASSUME NEW rid \in Rids,
                    Sits(u, s, rid)' \/ \E m \in Requests : Arrives(m, u, s, rid)'
             PROVE  user2rooms'[s][u] = rid
  BY DEF Registered
<1>1. ~ Hasty(u, s)  BY HastyStays DEF MemberInv
<1>2. /\ Registered(u, s)
      /\ \A r \in Requests : req[r].user = u /\ req[r].server = s => LeaveSound(r, u, s)
  BY <1>1 DEF MemberInv, PlayersSound
<1>3. room_map'[s][rid] # None  BY DEF Sits, Arrives
<1>4. CASE \E m \in Requests : EnterAsk(m, s, u, rid) /\ room_map[s][rid] # None
  BY <1>4, EnterAsked
<1>5. CASE Sits(u, s, rid) \/ \E m \in Requests : Arrives(m, u, s, rid)
  <2>1. user2rooms[s][u] = rid  BY <1>2, <1>5 DEF Registered
  <2>2. ASSUME NEW q \in Requests, NEW p \in Rids, EnterAsk(q, s, u, p),
               room_map[s][p] # None, user2rooms'[s][u] = p
        PROVE  user2rooms'[s][u] = rid
    <3>1. ~ Overtakes(u, s, p)  BY <2>2, EnterAsked
    <3>2. rid \in {None, p}  BY <2>1, <3>1 DEF Overtakes
    <3>3. rid # None  BY Nil DEF Rids
    <3> QED BY <2>2, <3>2, <3>3
  <2>3. ASSUME NEW q \in Requests, GameLeft(q), req[q].server = s, req[q].user = u
        PROVE  FALSE
    <3>1. At(q, "leave", "gone")  BY <2>3 DEF GameLeft
    <3> QED BY <1>2, <1>5, <2>3, <3>1 DEF LeaveSound
  <2>4. ~ GameRestart(s)
    <3>1. RoomsTypes  BY Types DEF IndInv
    <3>2. GameRestart(s) => room_map'[s][rid] = None
      BY <3>1 DEF GameRestart, NoRooms, RoomsTypes
    <3> QED BY <1>3, <3>2
  <2> QED BY <2>1, <2>2, <2>3, <2>4, RegisterKeeps
<1> QED BY <1>4, <1>5, SitsFrom, ArrivesFrom DEF MemberInv

(* A message sent now is behind all others. *)
LEMMA BeforeNew ==
  ASSUME IndInv, [Next]_vars, NEW i \in DOMAIN rooms, NEW m \in Requests, NEW r \in Requests,
         m # r, ~ Pending(i, r)
  PROVE  Before(i, m, r)'
<1>1. PICK x \in Seq(Requests \cup {None}) : x = rooms[i].inbox
  BY Types, InboxSeq DEF IndInv
<1>2. PICK y : y = rooms'[i].inbox  OBVIOUS
<1> SUFFICES ASSUME NEW k \in DOMAIN y, NEW l \in DOMAIN y, y[k] = r, y[l] = m
             PROVE  l < k
  BY <1>2 DEF Before
<1>3. \A a \in DOMAIN x : x[a] # r
  BY <1>1 DEF Pending
<1>4. CASE y = x
  BY <1>3, <1>4
<1>5. CASE x # <<>> /\ y = Tail(x)
  <2>1. k + 1 \in DOMAIN x /\ x[k + 1] = r  BY <1>5
  <2> QED BY <1>3, <2>1
<1>6. CASE y = <<>>
  BY <1>6
<1>7. ASSUME NEW n \in Requests \cup {None}, y = Append(x, n) PROVE l < k
  <2>1. /\ Len(x) \in Nat /\ DOMAIN x = 1 .. Len(x)
        /\ k \in 1 .. Len(x) + 1 /\ l \in 1 .. Len(x) + 1
        /\ \A a \in 1 .. Len(x) : y[a] = x[a]
    BY <1>7
  <2>2. k = Len(x) + 1  BY <1>3, <2>1
  <2>3. l # k  OBVIOUS
  <2> QED BY <2>1, <2>2, <2>3
<1> QED BY <1>1, <1>2, <1>4, <1>5, <1>6, <1>7, HowInbox

(* A LeaveRoom that a game server has: of whom, and where it was before. *)
LEMMA LeaveFrom ==
  ASSUME IndInv, [Next]_vars, NEW r \in Requests,
         At(r, "leave", "leaving")' \/ At(r, "leave", "gone")'
  PROVE  /\ req'[r].user = req[r].user /\ req'[r].server = req[r].server
         /\ req[r].op = "leave"
         /\ \/ Stands(r)
            \/ /\ At(r, "leave", "leaving")' /\ Comes(r, "leaving")
            \/ /\ At(r, "leave", "gone")' /\ Comes(r, "gone")
<1>1. PICK p \in {"leaving", "gone"} : p = req'[r].pc /\ req'[r].op = "leave"
  BY DEF At
<1>2. Stands(r) \/ Comes(r, p)
  BY <1>1, StageGoes DEF AtRoom
<1>3. CASE Stands(r)
  BY <1>1, <1>3 DEF Stands
<1>4. CASE Comes(r, p)
  <2>1. Advance(r) /\ (GameLeave(r) \/ RoomLeave(r))
    BY <1>4 DEF Comes
  <2>2. req[r].op = "leave" /\ req[r].pc # "place"
    BY <2>1 DEF GameLeave, RoomLeave, At
  <2> QED BY <1>1, <1>4, <2>1, <2>2, AdvanceKeeps DEF At
<1> QED BY <1>2, <1>3, <1>4

(* While the player leaves, who enters is hasty. *)
LEMMA NoneEnters ==
  ASSUME IndInv, [Next]_vars, NEW r \in Requests, NEW u \in Users, NEW s \in Servers,
         At(r, "leave", "leaving") \/ At(r, "leave", "gone"),
         req[r].user = u, req[r].server = s, ~ Hasty(u, s)',
         NEW m \in Requests, NEW rid \in Rids
  PROVE  ~ (EnterAsk(m, s, u, rid) /\ room_map[s][rid] # None)
<1>1. Overtakes(u, s, rid)  BY DEF Overtakes
<1> QED BY <1>1, EnterAsked

LEMMA LeaveSoundStep ==
  ASSUME IndInv, MemberInv, [Next]_vars, NEW u \in Users, NEW s \in Servers,
         ~ Hasty(u, s)', NEW r \in Requests, req'[r].user = u, req'[r].server = s
  PROVE  LeaveSound(r, u, s)'
<1>1. ~ Hasty(u, s)  BY HastyStays DEF MemberInv
<1>2. /\ Registered(u, s)
      /\ req[r].user = u /\ req[r].server = s => LeaveSound(r, u, s)
      /\ OwnService /\ BirthsFresh /\ MailSent
  BY <1>1 DEF MemberInv, PlayersSound
<1>3. ASSUME NEW m \in Requests, NEW j \in DOMAIN rooms, Pending(j, m)
      PROVE  ~ Posts(m, j)
  BY <1>2, <1>3, PostsGoes DEF MailSent, Unsent
<1>4. CASE At(r, "leave", "leaving")' /\ Stands(r)
  <2>1. PICK j : j = req[r].room  OBVIOUS
  <2>2. /\ At(r, "leave", "leaving") /\ req'[r].room = j
        /\ req[r].user = u /\ req[r].server = s
    BY <1>4, <2>1 DEF Stands, At
  <2>3. j \in DOMAIN rooms
    BY <2>1, <2>2, Under DEF At, AtGame, AtRoom
  <2>4. ASSUME NEW rid \in Rids, Sits(u, s, rid)' PROVE room_map'[s][rid] = j
    BY <1>2, <2>1, <2>2, <2>4, SitsFrom DEF LeaveSound
  <2>5. ASSUME NEW rid \in Rids, NEW m \in Requests, Arrives(m, u, s, rid)'
        PROVE  room_map'[s][rid] = j /\ Before(j, m, r)'
    <3>1. Arrives(m, u, s, rid) /\ room_map'[s][rid] = room_map[s][rid]
      BY <1>2, <2>2, <2>5, ArrivesFrom, NoneEnters
    <3>2. room_map[s][rid] = j /\ Before(j, m, r)
      BY <1>2, <2>1, <2>2, <3>1 DEF LeaveSound
    <3>3. ~ Posts(m, j)  BY <1>3, <2>3, <3>1, <3>2 DEF Arrives
    <3> QED BY <2>3, <3>1, <3>2, <3>3, BeforeStays
  <2> QED BY <1>4, <2>2, <2>4, <2>5 DEF LeaveSound, At, Before
<1>5. CASE At(r, "leave", "leaving")' /\ Comes(r, "leaving")
  <2>1. req[r].user = u /\ req[r].server = s  BY <1>5, LeaveFrom
  <2>2. PICK j : j = req'[r].room  OBVIOUS
  <2>3. /\ GameLeave(r) /\ user2rooms[s][u] # None
        /\ j = room_map[s][user2rooms[s][u]] /\ j # None
    BY <1>5, <2>1, <2>2 DEF Comes
  <2>4. At(r, "leave", "sent")  BY <2>3 DEF GameLeave
  <2>5. ASSUME NEW m \in Requests, NEW rid \in Rids, EnterAsk(m, s, u, rid),
               room_map[s][rid] # None
        PROVE  FALSE
    <3>1. m # r => req'[r] = req[r]  BY <2>5, EnterAsked
    <3>2. m = r => req[r] = Idle  BY <2>5, EnterAsked
    <3> QED BY <1>5, <2>4, <3>1, <3>2 DEF At, Idle
  <2>6. j \in DOMAIN rooms
    <3>1. RoomsTypes /\ GameTypes  BY Types DEF IndInv
    <3>2. user2rooms[s][u] \in Rids  BY <2>3, <3>1 DEF GameTypes
    <3> QED BY <2>3, <3>1, <3>2 DEF RoomsTypes
  <2>7. ~ Pending(j, r)  BY <1>2, <2>4, <2>6 DEF MailSent, At, Unsent
  <2>8. ASSUME NEW rid \in Rids, Sits(u, s, rid)' PROVE room_map'[s][rid] = j
    BY <1>2, <2>3, <2>8, SitsFrom DEF Registered
  <2>9. ASSUME NEW rid \in Rids, NEW m \in Requests, Arrives(m, u, s, rid)'
        PROVE  room_map'[s][rid] = j /\ Before(j, m, r)'
    <3>1. Arrives(m, u, s, rid) /\ room_map'[s][rid] = room_map[s][rid]
      BY <1>2, <2>5, <2>9, ArrivesFrom
    <3>2. room_map[s][rid] = j  BY <1>2, <2>3, <3>1 DEF Registered
    <3>3. m # r  BY <2>4, <3>1 DEF Arrives, At
    <3> QED BY <2>6, <2>7, <3>1, <3>2, <3>3, BeforeNew
  <2> QED BY <1>5, <2>2, <2>8, <2>9 DEF LeaveSound, At, Before
<1>6. CASE At(r, "leave", "gone")' /\ Stands(r)
  <2>1. At(r, "leave", "gone") /\ req[r].user = u /\ req[r].server = s
    BY <1>6 DEF Stands, At
  <2>2. \A rid \in Rids : ~ Sits(u, s, rid) /\ \A m \in Requests : ~ Arrives(m, u, s, rid)
    BY <1>2, <2>1 DEF LeaveSound
  <2>3. \A rid \in Rids : ~ Sits(u, s, rid)'
    BY <1>2, <2>2, SitsFrom
  <2>4. \A rid \in Rids, m \in Requests : ~ Arrives(m, u, s, rid)'
    BY <1>2, <2>1, <2>2, ArrivesFrom, NoneEnters
  <2> QED BY <1>6, <2>3, <2>4 DEF LeaveSound, At
<1>7. CASE At(r, "leave", "gone")' /\ Comes(r, "gone")
  <2>1. req[r].user = u /\ req[r].server = s  BY <1>7, LeaveFrom
  <2>2. PICK j : j = req[r].room  OBVIOUS
  <2>3. RoomLeave(r) /\ At(r, "leave", "leaving")
    BY <1>7 DEF Comes, RoomLeave
  <2>4. j \in DOMAIN rooms /\ Handles(r, j)
    BY <2>2, <2>3, HandleHandles
  <2>5. u \notin rooms'[j].users
    <3>1. ~ RoomDestroyable(r) /\ ~ RoomEnter(r)
      BY <2>3 DEF RoomDestroyable, RoomEnter, At
    <3> QED BY <2>1, <2>4, <3>1 DEF Handles
  <2>6. ASSUME NEW m \in Requests, Before(j, m, r) PROVE ~ Pending(j, m)
    <3>1. PICK x \in Seq(Requests \cup {None}) : x = rooms[j].inbox
      BY <2>4, Types, InboxSeq DEF IndInv
    <3>2. x # <<>> /\ Head(x) = r  BY <2>2, <2>3, <3>1 DEF RoomLeave, Handle
    <3>3. 1 \in DOMAIN x /\ x[1] = r /\ \A l \in DOMAIN x : l >= 1 /\ l \in Nat
      BY <3>2
    <3>4. \A l \in DOMAIN x : x[l] = m => l < 1
      BY <2>6, <3>1, <3>3 DEF Before
    <3>5. \A l \in DOMAIN x : x[l] # m  BY <3>3, <3>4
    <3> QED BY <3>1, <3>5 DEF Pending
  <2>7. ASSUME NEW rid \in Rids, Sits(u, s, rid)' PROVE FALSE
    <3>1. room_map[s][rid] = j /\ room_map'[s][rid] = j
      BY <1>2, <2>1, <2>2, <2>3, <2>7, SitsFrom DEF LeaveSound
    <3> QED BY <2>5, <2>7, <3>1 DEF Sits
  <2>8. ASSUME NEW rid \in Rids, NEW m \in Requests, Arrives(m, u, s, rid)' PROVE FALSE
    <3>1. Arrives(m, u, s, rid)
      BY <1>2, <2>1, <2>3, <2>8, ArrivesFrom, NoneEnters
    <3>2. room_map[s][rid] = j /\ Before(j, m, r)
      BY <1>2, <2>1, <2>2, <2>3, <3>1 DEF LeaveSound
    <3> QED BY <2>6, <3>1, <3>2 DEF Arrives
  <2> QED BY <1>7, <2>7, <2>8 DEF LeaveSound, At
<1>8. CASE ~ At(r, "leave", "leaving")' /\ ~ At(r, "leave", "gone")'
  BY <1>8 DEF LeaveSound
<1> QED BY <1>4, <1>5, <1>6, <1>7, <1>8, LeaveFrom

LEMMA MemberInit ==
  ASSUME Init
  PROVE  MemberInv
<1>1. \A r \in Requests : req[r].op = None /\ req[r].hasty = FALSE /\ req[r].pc = "idle"
  BY DEF Init, Idle
<1>2. births = {} /\ DOMAIN rooms = {}
  BY DEF Init
<1>3. \A s \in Servers, rid \in Rids : room_map[s][rid] = None
  BY DEF Init, NoRooms
<1>4. HastyEnters /\ OwnService /\ BirthsFresh /\ MailSent
  BY <1>1, <1>2, <1>3 DEF HastyEnters, OwnService, BirthsFresh, MailSent
<1>5. ASSUME NEW u \in Users, NEW s \in Servers
      PROVE  Registered(u, s) /\ \A r \in Requests : LeaveSound(r, u, s)
  BY <1>1, <1>3 DEF Registered, LeaveSound, Sits, Arrives, At
<1> QED BY <1>4, <1>5 DEF MemberInv, PlayersSound

(* Rooms keep their messages in order, room_map gives no service to two    *)
(* ids, and a player whose EnterRooms overtook nothing is nowhere else     *)
(* than where the room manager registered him.                             *)
THEOREM MemberInvariant == Spec => []MemberInv
<1>1. IndInv /\ MemberInv /\ [Next]_vars => MemberInv'
  <2> SUFFICES ASSUME IndInv, MemberInv, [Next]_vars PROVE MemberInv'
    OBVIOUS
  <2>1. HastyEnters' /\ OwnService' /\ BirthsFresh' /\ MailSent'
    BY HastyEntersStep, OwnServiceStep, BirthsFreshStep, MailSentStep DEF MemberInv
  <2>2. PlayersSound'
    BY RegisteredStep, LeaveSoundStep DEF PlayersSound
  <2> QED BY <2>1, <2>2 DEF MemberInv
<1> QED BY <1>1, MemberInit, RoomsInvariant, PTL DEF Spec

(* Who a room has as a member can be sent there to leave, unless he entered *)
(* while registered elsewhere or while he left (NoPhantomMember): whatever  *)
(* else players, owners, crashes and broken connections do, and in any      *)
(* order, leave_room and enter_room keep room and room manager agreed.      *)
THEOREM NoPhantoms == Spec => []NoPhantomMember
<1>1. MemberInv => NoPhantomMember
  <2> SUFFICES ASSUME MemberInv, NEW s \in Servers, NEW u \in Users, NEW rid \in Rids,
                      Sits(u, s, rid), ~ Hasty(u, s)
               PROVE  user2rooms[s][u] = rid
    BY DEF NoPhantomMember, Sits, Hasty
  <2> QED BY DEF MemberInv, PlayersSound, Registered
<1> QED BY <1>1, MemberInvariant, PTL

-----------------------------------------------------------------------------
(* Registrations and rooms that were ended.                                *)

(* What is answered is answered for good. *)
LEMMA AnswerStays ==
  ASSUME IndInv, [Next]_vars, NEW d \in Requests,
         req[d].pc \in {"200", "error", "assert"}
  PROVE  Stands(d)
<1>1. ~ Advance(d)
  BY AdvanceKeeps DEF AtHall, AtGame
<1>2. ~ Asks(d)
  <2>1. Idle.pc = "idle"  BY DEF Idle
  <2> QED BY <2>1, AskPlaces
<1>3. ~ Fails(d)
  BY DEF Fails, AtGame
<1> QED BY <1>1, <1>2, <1>3, RequestGoes

LEMMA EndedStays ==
  ASSUME IndInv, [Next]_vars, NEW s, Ended(s)
  PROVE  Ended(s)'
<1>1. PICK d \in Requests : /\ req[d].op = "destroy" /\ req[d].server = s
                            /\ \/ req[d].pc \in {"destroyed", "200"}
                               \/ req[d].cut /\ req[d].pc = "error"
  BY DEF Ended
<1>2. CASE Stands(d)
  BY <1>1, <1>2 DEF Stands, Ended
<1>3. CASE req[d].pc # "destroyed"
  BY <1>1, <1>2, <1>3, AnswerStays
<1>4. CASE req[d].pc = "destroyed"
  <2>1. req \in [Requests -> Request] /\ req[d] \in Request
    BY Types DEF IndInv
  <2>2. ~ Asks(d)
    <3>1. Idle.pc = "idle"  BY DEF Idle
    <3> QED BY <1>4, <3>1, AskPlaces
  <2>3. ~ Fails(d)  BY <1>4 DEF Fails, AtGame
  <2>4. CASE RequestStep(d)
    <3>1. DestroyDone(d)
      BY <1>1, <1>4, <2>4
      DEF RequestStep, CreatePlace, GameCreate, CreateRecord, CreateDone, DestroyCheck,
          GameDestroy, RoomDestroyable, GameDestroyed, GameSelect, SelectDone,
          RoomEnter, GameLeave, RoomLeave, GameLeft, LeaveDone, SetRoom, At
    <3>2. /\ req'[d].pc = "200" /\ req'[d].op = req[d].op /\ req'[d].server = req[d].server
      BY <2>1, <3>1 DEF DestroyDone, Move, Request
    <3> QED BY <1>1, <3>2 DEF Ended
  <2> QED BY <1>2, <1>4, <2>2, <2>3, <2>4, RequestGoes DEF At
<1> QED BY <1>3, <1>4

(* An entry of room_map goes with the room's end, or with the server. *)
LEMMA DestroyedEnds ==
  ASSUME IndInv, [Next]_vars, NEW d \in Requests, GameDestroyed(d), NEW s, req[d].server = s
  PROVE  Ended(s)'
<1>1. req \in [Requests -> Request] /\ req[d] \in Request
  BY Types DEF IndInv
<1>2. /\ req'[d].op = "destroy" /\ req'[d].server = s /\ req'[d].cut = req[d].cut
      /\ req'[d].pc = IF req[d].cut THEN "error" ELSE "destroyed"
  BY <1>1 DEF GameDestroyed, At, Answer, Move, Request
<1>3. CASE req[d].cut
  BY <1>2, <1>3 DEF Ended
<1>4. CASE ~ req[d].cut
  BY <1>2, <1>4 DEF Ended
<1> QED BY <1>3, <1>4

LEMMA RegisteredThereStep ==
  ASSUME IndInv, RegisteredThere, [Next]_vars
  PROVE  RegisteredThere'
<1> SUFFICES ASSUME NEW s \in Servers, NEW u \in Users, user2rooms'[s][u] # None,
                    ~ Ended(s)'
             PROVE  room_map'[s][user2rooms'[s][u]] # None
  BY DEF RegisteredThere
<1>1. RoomsTypes /\ GameTypes  BY Types DEF IndInv
<1>2. ~ Ended(s)  BY EndedStays
<1>3. PICK rid : rid = user2rooms'[s][u]  OBVIOUS
<1>4. rid \in Rids /\ rid # None
  <2>1. GameTypes'  BY GameTypesStep
  <2> QED BY <1>3, <2>1 DEF GameTypes
<1>5. room_map[s][rid] # None
  <2>1. CASE user2rooms'[s][u] = user2rooms[s][u]
    BY <1>2, <1>3, <2>1 DEF RegisteredThere
  <2>2. CASE user2rooms'[s][u] # user2rooms[s][u]
    BY <1>3, <1>4, <2>2, RegisterKeeps
  <2> QED BY <2>1, <2>2
<1>6. ~ GameRestart(s)
  <2>1. GameRestart(s) => user2rooms'[s][u] = None
    BY <1>1 DEF GameRestart, GameTypes, NoUsers
  <2> QED BY <2>1
<1>7. ~ Removed(s, rid)
  BY <1>6, DestroyedEnds DEF Removed
<1>8. \A b \in births : b.room # None
  BY <1>1, RoomKeys DEF RoomsTypes
<1>9. room_map'[s][rid] # None
  BY <1>4, <1>5, <1>7, <1>8, MapKeeps
<1> QED BY <1>3, <1>9

LEMMA NoAssertStep ==
  ASSUME IndInv, AssertInv, [Next]_vars
  PROVE  NoAssert'
<1> SUFFICES ASSUME NEW r \in Requests, req'[r].pc = "assert", NEW s, s = req'[r].server
             PROVE  Ended(s)'
  BY DEF NoAssert, Ended
<1>1. Stands(r) \/ Comes(r, "assert")
  BY StageGoes
<1>2. CASE Stands(r)
  <2>1. req[r].pc = "assert" /\ req[r].server = s
    BY <1>2 DEF Stands
  <2>2. Ended(s)  BY <2>1 DEF AssertInv, NoAssert, Ended
  <2> QED BY <2>2, EndedStays
<1>3. CASE Comes(r, "assert")
  <2>1. /\ Advance(r) /\ GameLeave(r)
        /\ user2rooms[req[r].server][req[r].user] # None
        /\ room_map[req[r].server][user2rooms[req[r].server][req[r].user]] = None
    BY <1>3 DEF Comes
  <2>2. req[r].pc = "sent"  BY <2>1 DEF GameLeave, At
  <2>3. req[r].server \in Servers /\ req[r].user \in Users /\ req[r].server = s
    BY <2>1, <2>2, AdvanceKeeps, Under DEF AtGame
  <2>4. Ended(s)  BY <2>1, <2>3 DEF AssertInv, RegisteredThere
  <2> QED BY <2>4, EndedStays
<1> QED BY <1>1, <1>2, <1>3

(* The assertion of leave_room fails only on a server where a creator had  *)
(* a room ended (NoAssert): no registration outlives its room otherwise,   *)
(* through any crashes, broken connections and overtaking requests.        *)
THEOREM AssertHolds == Spec => []NoAssert
<1>1. Init => AssertInv
  <2> SUFFICES ASSUME Init PROVE AssertInv  OBVIOUS
  <2>1. \A r \in Requests : req[r].pc = "idle"  BY DEF Init, Idle
  <2>2. \A s \in Servers, u \in Users : user2rooms[s][u] = None
    BY DEF Init, NoUsers
  <2> QED BY <2>1, <2>2 DEF AssertInv, NoAssert, RegisteredThere
<1>2. IndInv /\ AssertInv /\ [Next]_vars => AssertInv'
  BY NoAssertStep, RegisteredThereStep DEF AssertInv
<1>3. AssertInv => NoAssert  BY DEF AssertInv
<1> QED BY <1>1, <1>2, <1>3, RoomsInvariant, PTL DEF Spec
=============================================================================

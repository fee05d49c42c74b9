------------------------------- MODULE Rooms --------------------------------
(***************************************************************************)
(* The life of a room, over one hall process and the game servers.         *)
(*                                                                         *)
(*   hall   hall/rpc/hall.lua        requests of logged-in players         *)
(*          hall/roomproxy.lua       which room is on which game server    *)
(*          common/datacenter/roomdc.lua   the records of the rooms        *)
(*          hall/msgagent.lua        the room of a player                  *)
(*   game   game/roommanager.lua     rooms of a server and their players   *)
(*          game/room.lua            one service per room                  *)
(*          game/agent.lua, game/rpc/game.lua   the player's connection    *)
(*                                                                         *)
(* A request is one message of a client; it runs in a coroutine of its own *)
(* in every service it passes, and an action is what one service does      *)
(* between two calls.  One game is modelled; every server offers it.       *)
(***************************************************************************)
EXTENDS Integers, FiniteSets, Sequences

CONSTANTS
  Users, Servers,
  Requests,     \* requests of clients
  MaxAsks,      \* bound: requests of each kind
  MaxRid,       \* bound: rooms created (roomdc.get_nextid counts on)
  MaxRooms,     \* bound: room services started
  MaxRestarts,  \* bound: crashes of a game server
  MaxBreaks,    \* bound: broken connections from the hall to a game server
  None

Ops == {"create", "destroy", "select", "reconn", "enter", "leave"}

ASSUME RoomAssumption ==
  /\ {MaxRid, MaxRooms, MaxRestarts, MaxBreaks} \subseteq Nat
  /\ MaxAsks \in [Ops -> Nat]
  /\ None \notin Users \cup Servers \cup Requests \cup Nat \cup {"loop"} \cup Ops
  /\ "loop" \notin Requests

Rids == 1 .. MaxRid

VARIABLES
  record,        \* roomdc: rid -> [creator, server]
  nextid,        \* roomdc
  user_room,     \* msgagent: user.room, rid 0 after a leave
  proxy,         \* roomproxy: its tables
  loop,          \* roomproxy: its update loop
  req,           \* requests, wherever they are
  room_map,      \* roommanager: rid -> room service
  user2rooms,    \* roommanager
  username_map,  \* roommanager: the names checked in
  seated,        \* users whose game agent is authenticated
  births,        \* roommanager: calls of new_room under way
  rooms,         \* room services, in the order of their start
  faults

hallVars == <<record, nextid, user_room>>
gameVars == <<room_map, user2rooms, username_map, seated>>
game == <<gameVars, births, rooms>>
vars == <<hallVars, proxy, loop, req, game, faults>>

-----------------------------------------------------------------------------
(* Where a request stands: with the hall, on a game server, or answered.   *)
AtHall  == {"place", "check", "created", "recorded", "destroyed", "selected",
            "left"}
AtGame  == {"sent", "starting", "asking", "empty", "entering", "leaving", "gone"}
Answers == {"200", "403", "404", "error", "assert", "dropped"}

Request == [op : Ops \cup {None}, pc : {"idle"} \cup AtHall \cup AtGame \cup Answers,
            user : Users \cup {None}, rid : 0 .. MaxRid,
            server : Servers \cup {None}, room : 0 .. MaxRooms, cut : BOOLEAN,
            hasty : BOOLEAN]
Idle == [op |-> None, pc |-> "idle", user |-> None, rid |-> 0,
         server |-> None, room |-> 0, cut |-> FALSE, hasty |-> FALSE]

(* A room service: the server it runs on (None once it has exited), the    *)
(* users in it, and its messages, oldest first (None for "destroy").       *)
Room == [host : Servers \cup {None}, users : SUBSET Users,
         inbox : Seq(Requests \cup {None})]

NoRooms == [rid \in Rids |-> None]
NoUsers == [u \in Users |-> None]

TypeOK ==
  /\ record \in [Rids -> [creator : Users, server : Servers] \cup {None}]
  /\ nextid \in 1 .. MaxRid + 1
  /\ user_room \in [Users -> [rid : 0 .. MaxRid,
                              sname : Servers \cup {None}] \cup {None}]
  /\ proxy \in [room2servers : [Rids -> Servers \cup {None}],
                gamelets : SUBSET Servers, server_infos : SUBSET Servers]
  /\ loop \in [pc : {"round", "ensure", "called", "waiting", "list", "listing"},
               tick : 0 .. 2, rows : [Rids -> Servers \cup {None}],
               todo : SUBSET Servers, rid : 0 .. MaxRid,
               server : Servers \cup {None}, seen : SUBSET Rids, grew : BOOLEAN]
  /\ req \in [Requests -> Request]
  /\ rooms \in Seq(Room) /\ Len(rooms) <= MaxRooms
  /\ room_map \in [Servers -> [Rids -> DOMAIN rooms \cup {None}]]
  /\ user2rooms \in [Servers -> [Users -> Rids \cup {None}]]
  /\ username_map \in [Servers -> SUBSET Users]
  /\ seated \in [Servers -> SUBSET Users]
  /\ births \subseteq [rid : Rids, server : Servers, room : DOMAIN rooms,
                       by : Requests \cup {"loop", None}]
  /\ faults \in [restarts : 0 .. MaxRestarts, breaks : 0 .. MaxBreaks]

Init ==
  /\ record = NoRooms /\ nextid = 1 /\ user_room = NoUsers
  /\ proxy = [room2servers |-> NoRooms, gamelets |-> {}, server_infos |-> {}]
  /\ loop = [pc |-> "round", tick |-> 0, rows |-> NoRooms, todo |-> {},
             rid |-> 0, server |-> None, seen |-> {}, grew |-> FALSE]
  /\ req = [r \in Requests |-> Idle]
  /\ room_map = [s \in Servers |-> NoRooms]
  /\ user2rooms = [s \in Servers |-> NoUsers]
  /\ username_map = [s \in Servers |-> {}] /\ seated = [s \in Servers |-> {}]
  /\ births = {} /\ rooms = <<>>
  /\ faults = [restarts |-> 0, breaks |-> 0]

-----------------------------------------------------------------------------
At(r, op, pc) == req[r].op = op /\ req[r].pc = pc

Move(r, pc) == req' = [req EXCEPT ![r].pc = pc]

(* A game server answers the hall; nobody listens once the call is cut.    *)
Answer(r, pc) == Move(r, IF req[r].cut THEN "error" ELSE pc)

(* An enter the room manager is not made for, and which it does not refuse *)
(* either: the user is registered in another room, or leaves one just now. *)
Overtakes(u, s, rid) ==
  \/ user2rooms[s][u] \notin {None, rid}
  \/ \E r \in Requests : /\ At(r, "leave", "leaving") \/ At(r, "leave", "gone")
                         /\ req[r].user = u /\ req[r].server = s

Ask(r, op, u, rid, s, i, pc) ==
  /\ req[r] = Idle /\ Cardinality({q \in Requests : req[q].op = op}) < MaxAsks[op]
  /\ req' = [req EXCEPT ![r] =
               [op |-> op, pc |-> pc, user |-> u, rid |-> rid, server |-> s,
                room |-> i, cut |-> FALSE,
                hasty |-> pc = "entering" /\ Overtakes(u, s, rid)]]

CheckIn(s, u) == username_map' = [username_map EXCEPT ![s] = @ \cup {u}]

(* A message to room service i (a dead one takes none), and the message it *)
(* handles next.                                                           *)
Send(i, m) ==
  rooms' = [rooms EXCEPT ![i].inbox =
              IF rooms[i].host = None THEN @ ELSE Append(@, m)]

Handle(i, m, users) ==
  /\ rooms[i].inbox # <<>> /\ Head(rooms[i].inbox) = m
  /\ rooms' = [rooms EXCEPT ![i].inbox = Tail(@), ![i].users = users]

(* roommanager's new_room: the service is started, then it is entered into *)
(* room_map, which may upset a traversal of that table (see Lists).        *)
StartRoom(s, rid, by) ==
  /\ Len(rooms) < MaxRooms
  /\ rooms' = Append(rooms, [host |-> s, users |-> {}, inbox |-> <<>>])
  /\ births' = births \cup {[rid |-> rid, server |-> s, by |-> by,
                             room |-> Len(rooms) + 1]}

(* ensure_rooms goes on to the next recorded room. *)
Ensured == [loop EXCEPT !.pc = "ensure", !.rid = 0, !.server = None]

RoomStarted(b) ==
  LET listing == loop.pc = "listing" /\ loop.server = b.server
  IN /\ b \in births /\ births' = births \ {b}
     /\ room_map' = [room_map EXCEPT ![b.server][b.rid] = b.room]
     /\ loop' = IF b.by = "loop" THEN Ensured
                ELSE IF listing /\ room_map[b.server][b.rid] = None
                THEN [loop EXCEPT !.grew = TRUE] ELSE loop
     /\ IF b.by \in Requests THEN Answer(b.by, "created") ELSE UNCHANGED req
     /\ UNCHANGED <<hallVars, proxy, user2rooms, username_map, seated, rooms,
                    faults>>

-----------------------------------------------------------------------------
(* CreateRoom.                                                             *)

CreateAsk(r, u) ==
  /\ nextid <= MaxRid /\ nextid' = nextid + 1
  /\ Ask(r, "create", u, nextid, None, 0, "place")
  /\ UNCHANGED <<record, user_room, proxy, loop, game, faults>>

(* roomproxy picks a server at random; there is none right after clear().  *)
CreatePlace(r) ==
  /\ At(r, "create", "place")
  /\ \/ proxy.gamelets = {} /\ Move(r, "error")
     \/ \E s \in proxy.gamelets :
          req' = [req EXCEPT ![r].pc = "sent", ![r].server = s]
  /\ UNCHANGED <<hallVars, proxy, loop, game, faults>>

GameCreate(r) ==
  /\ At(r, "create", "sent") /\ Move(r, "starting")
  /\ CheckIn(req[r].server, req[r].user)
  /\ StartRoom(req[r].server, req[r].rid, r)
  /\ UNCHANGED <<hallVars, proxy, loop, room_map, user2rooms, seated, faults>>

(* Mutant: the record names the server where the proxy lists the room. *)
RecordListed(r) ==
  /\ At(r, "create", "created") /\ Move(r, "recorded")
  /\ record' = [record EXCEPT ![req[r].rid] =
       [creator |-> req[r].user, server |-> proxy.room2servers[req[r].rid]]]
  /\ UNCHANGED <<nextid, user_room, proxy, loop, game, faults>>

(* The hall records the room on the server the proxy chose. *)
CreateRecord(r) ==
  /\ At(r, "create", "created") /\ Move(r, "recorded")
  /\ record' = [record EXCEPT ![req[r].rid] =
                  [creator |-> req[r].user, server |-> req[r].server]]
  /\ UNCHANGED <<nextid, user_room, proxy, loop, game, faults>>

(* The hall ends a request by telling the agent the user's room. *)
SetRoom(r, op, pc, room) ==
  /\ At(r, op, pc) /\ Move(r, "200")
  /\ user_room' = [user_room EXCEPT ![req[r].user] = room]
  /\ UNCHANGED <<record, nextid, proxy, loop, game, faults>>

Chosen(r) == [rid |-> req[r].rid, sname |-> req[r].server]

CreateDone(r) == SetRoom(r, "create", "recorded", Chosen(r))

-----------------------------------------------------------------------------
(* DestroyRoom.                                                            *)

DestroyAsk(r, u, rid) ==
  LET s == proxy.room2servers[rid] IN
  /\ rid < nextid
  /\ Ask(r, "destroy", u, rid, s, 0, IF s = None THEN "404" ELSE "check")
  /\ UNCHANGED <<hallVars, proxy, loop, game, faults>>

(* Mutant: no check of the creator. *)
AnyoneDestroys(r) ==
  /\ At(r, "destroy", "check")
  /\ Move(r, IF record[req[r].rid] = None THEN "error" ELSE "sent")
  /\ UNCHANGED <<hallVars, proxy, loop, game, faults>>

(* roomdc.get answers an empty record for an unknown room, so its creator  *)
(* is nil and the warning about it raises an error.                        *)
DestroyCheck(r) ==
  LET row == record[req[r].rid] IN
  /\ At(r, "destroy", "check")
  /\ \/ row = None /\ Move(r, "error")
     \/ row # None /\ row.creator # req[r].user /\ Move(r, "403")
     \/ row # None /\ row.creator = req[r].user /\ Move(r, "sent")
  /\ UNCHANGED <<hallVars, proxy, loop, game, faults>>

GameDestroy(r) ==
  LET i == room_map[req[r].server][req[r].rid] IN
  /\ At(r, "destroy", "sent")
  /\ \/ i = None /\ Answer(r, "404") /\ UNCHANGED rooms
     \/ /\ i # None /\ Send(i, r)
        /\ req' = [req EXCEPT ![r].pc = "asking", ![r].room = i]
  /\ UNCHANGED <<hallVars, proxy, loop, gameVars, births, faults>>

RoomDestroyable(r) ==
  LET users == rooms[req[r].room].users IN
  /\ At(r, "destroy", "asking") /\ Handle(req[r].room, r, users)
  /\ \/ users = {} /\ Move(r, "empty")
     \/ users # {} /\ Answer(r, "403")
  /\ UNCHANGED <<hallVars, proxy, loop, gameVars, births, faults>>

(* Back in the room manager: whatever is in room_map now goes. *)
GameDestroyed(r) ==
  /\ At(r, "destroy", "empty") /\ Answer(r, "destroyed")
  /\ room_map' = [room_map EXCEPT ![req[r].server][req[r].rid] = None]
  /\ Send(req[r].room, None)
  /\ UNCHANGED <<hallVars, proxy, loop, user2rooms, username_map, seated,
                 births, faults>>

DestroyDone(r) ==
  /\ At(r, "destroy", "destroyed") /\ Move(r, "200")
  /\ record' = [record EXCEPT ![req[r].rid] = None]
  /\ UNCHANGED <<nextid, user_room, proxy, loop, game, faults>>

Dead == [host |-> None, users |-> {}, inbox |-> <<>>]

(* room.destroy: the service exits. *)
RoomExit(i) ==
  /\ rooms[i].inbox # <<>> /\ Head(rooms[i].inbox) = None
  /\ rooms' = [rooms EXCEPT ![i] = Dead]
  /\ UNCHANGED <<hallVars, proxy, loop, req, gameVars, births, faults>>

-----------------------------------------------------------------------------
(* SelectRoom, and ReconnRoom, which selects the room the agent knows.     *)

SelectAsk(r, u, rid, s) ==
  /\ rid < nextid
  /\ Ask(r, "select", u, rid, s, 0,
         IF s \in proxy.server_infos THEN "sent" ELSE "404")
  /\ UNCHANGED <<hallVars, proxy, loop, game, faults>>

ReconnAsk(r, u) ==
  LET room == user_room[u] IN
  /\ IF room # None /\ room.rid # 0 /\ room.sname \in proxy.server_infos
     THEN Ask(r, "reconn", u, room.rid, room.sname, 0, "sent")
     ELSE Ask(r, "reconn", u, 0, None, 0, "404")
  /\ UNCHANGED <<hallVars, proxy, loop, game, faults>>

GameSelect(r) ==
  LET s == req[r].server IN
  /\ At(r, "select", "sent") \/ At(r, "reconn", "sent")
  /\ IF room_map[s][req[r].rid] = None
     THEN Answer(r, "404") /\ UNCHANGED username_map
     ELSE /\ CheckIn(s, req[r].user)
          /\ Answer(r, IF req[r].op = "select" THEN "selected" ELSE "200")
  /\ UNCHANGED <<hallVars, proxy, loop, room_map, user2rooms, seated, births,
                 rooms, faults>>

SelectDone(r) == SetRoom(r, "select", "selected", Chosen(r))

-----------------------------------------------------------------------------
(* The client's connection to a game server, and EnterRoom over it.        *)

(* agent.lua auth: the name was checked in by the hall; and the connection *)
(* closes: the agent exits, and nobody else is told.                       *)
Seat(s, u) ==
  /\ u \in username_map[s] \ seated[s]
  /\ seated' = [seated EXCEPT ![s] = @ \cup {u}]
  /\ UNCHANGED <<hallVars, proxy, loop, req, room_map, user2rooms,
                 username_map, births, rooms, faults>>

Unseat(s, u) ==
  /\ u \in seated[s]
  /\ seated' = [seated EXCEPT ![s] = @ \ {u}]
  /\ UNCHANGED <<hallVars, proxy, loop, req, room_map, user2rooms,
                 username_map, births, rooms, faults>>

(* Mutant: the player is registered before the look into room_map. *)
RegisterAnyway(r, s, u, rid) ==
  LET i == room_map[s][rid] IN
  /\ u \in seated[s]
  /\ user2rooms' = [user2rooms EXCEPT ![s][u] = rid]
  /\ IF i = None THEN Ask(r, "enter", u, rid, s, 0, "dropped") /\ UNCHANGED rooms
     ELSE Ask(r, "enter", u, rid, s, i, "entering") /\ Send(i, r)
  /\ UNCHANGED <<hallVars, proxy, loop, room_map, username_map, seated, births,
                 faults>>

(* roommanager.enter_room up to its call of the room. *)
EnterAsk(r, s, u, rid) ==
  LET i == room_map[s][rid] IN
  /\ u \in seated[s]
  /\ IF i = None
     THEN Ask(r, "enter", u, rid, s, 0, "dropped")
          /\ UNCHANGED <<user2rooms, rooms>>
     ELSE /\ Ask(r, "enter", u, rid, s, i, "entering") /\ Send(i, r)
          /\ user2rooms' = [user2rooms EXCEPT ![s][u] = rid]
  /\ UNCHANGED <<hallVars, proxy, loop, room_map, username_map, seated, births,
                 faults>>

(* room.user_enter. *)
RoomEnter(r) ==
  /\ At(r, "enter", "entering") /\ Move(r, "200")
  /\ Handle(req[r].room, r, rooms[req[r].room].users \cup {req[r].user})
  /\ UNCHANGED <<hallVars, proxy, loop, gameVars, births, faults>>

-----------------------------------------------------------------------------
(* LeaveRoom.                                                              *)

(* roomproxy asks the agent for its room; indexing nil is an error. *)
LeaveAsk(r, u) ==
  LET room == user_room[u]
      s == IF room = None \/ room.rid = 0 THEN None
           ELSE proxy.room2servers[room.rid]
  IN /\ Ask(r, "leave", u, 0, s, 0,
            IF room = None THEN "error" ELSE IF s = None THEN "404" ELSE "sent")
     /\ UNCHANGED <<hallVars, proxy, loop, game, faults>>

(* Mutant: the player leaves the room the hall knows. *)
LeaveKnown(r) ==
  LET s == req[r].server
      rid == user_room[req[r].user].rid
      i == IF rid = 0 THEN None ELSE room_map[s][rid]
  IN /\ At(r, "leave", "sent")
     /\ \/ i = None /\ Answer(r, "404") /\ UNCHANGED rooms
        \/ /\ i # None /\ Send(i, r)
           /\ req' = [req EXCEPT ![r].pc = "leaving", ![r].room = i]
     /\ UNCHANGED <<hallVars, proxy, loop, gameVars, births, faults>>

(* roommanager.leave_room: the room is the one of user2rooms. *)
GameLeave(r) ==
  LET s == req[r].server
      rid == user2rooms[s][req[r].user]
      i == IF rid = None THEN None ELSE room_map[s][rid]
  IN /\ At(r, "leave", "sent")
     /\ \/ rid = None /\ Answer(r, "404") /\ UNCHANGED rooms
        \/ rid # None /\ i = None /\ Answer(r, "assert") /\ UNCHANGED rooms
        \/ /\ i # None /\ Send(i, r)
           /\ req' = [req EXCEPT ![r].pc = "leaving", ![r].room = i]
     /\ UNCHANGED <<hallVars, proxy, loop, gameVars, births, faults>>

(* room.user_leave. *)
RoomLeave(r) ==
  /\ At(r, "leave", "leaving") /\ Move(r, "gone")
  /\ Handle(req[r].room, r, rooms[req[r].room].users \ {req[r].user})
  /\ UNCHANGED <<hallVars, proxy, loop, gameVars, births, faults>>

(* Back in the room manager. *)
GameLeft(r) ==
  LET s == req[r].server
      u == req[r].user
  IN /\ At(r, "leave", "gone") /\ Answer(r, "left")
     /\ user2rooms' = [user2rooms EXCEPT ![s][u] = None]
     /\ username_map' = [username_map EXCEPT ![s] = @ \ {u}]
     /\ UNCHANGED <<hallVars, proxy, loop, room_map, seated, births, rooms,
                    faults>>

LeaveDone(r) == SetRoom(r, "leave", "left", [rid |-> 0, sname |-> None])

-----------------------------------------------------------------------------
(* The update loop of roomproxy: every third round makes sure that all     *)
(* recorded rooms exist, every round lists the rooms of all servers.       *)

Loop(from, to) == loop.pc = from /\ loop' = to

Clear ==
  proxy' = [proxy EXCEPT !.room2servers = NoRooms, !.gamelets = {}]

(* A round begins; ensure_rooms works on the copy of the records it gets.  *)
Round ==
  /\ loop.tick = 0
  /\ Loop("round", [loop EXCEPT !.pc = "ensure", !.rows =
                      [rid \in Rids |-> IF record[rid] = None THEN None
                                        ELSE record[rid].server]])
  /\ UNCHANGED <<hallVars, proxy, req, game, faults>>

EnsureCall(rid) ==
  /\ loop.rows[rid] # None
  /\ Loop("ensure", [loop EXCEPT !.pc = "called", !.rid = rid,
                       !.server = loop.rows[rid], !.rows[rid] = None])
  /\ UNCHANGED <<hallVars, proxy, req, game, faults>>

(* Mutant: ensure_room without the look into room_map. *)
EnsureAnyway ==
  /\ Loop("called", [loop EXCEPT !.pc = "waiting"])
  /\ StartRoom(loop.server, loop.rid, "loop")
  /\ UNCHANGED <<hallVars, proxy, req, gameVars, faults>>

(* roommanager.ensure_room. *)
GameEnsure ==
  LET here == room_map[loop.server][loop.rid] # None IN
  /\ Loop("called", IF here THEN Ensured ELSE [loop EXCEPT !.pc = "waiting"])
  /\ IF here THEN UNCHANGED <<rooms, births>>
     ELSE StartRoom(loop.server, loop.rid, "loop")
  /\ UNCHANGED <<hallVars, proxy, req, gameVars, faults>>

(* do_update begins, in the rounds without ensure_rooms at once. *)
Update ==
  /\ \/ loop.pc = "ensure" /\ loop.rows = NoRooms
     \/ loop.pc = "round" /\ loop.tick # 0
  /\ loop' = [loop EXCEPT !.pc = "list", !.todo = Servers]
  /\ Clear
  /\ UNCHANGED <<hallVars, req, game, faults>>

Present(s) == {rid \in Rids : room_map[s][rid] # None}

(* roommanager.get goes through room_map with a call of every room.        *)
ListCall(s) ==
  /\ s \in loop.todo
  /\ Loop("list", [loop EXCEPT !.pc = "listing", !.todo = @ \ {s},
                     !.server = s, !.seen = Present(s), !.grew = FALSE])
  /\ UNCHANGED <<hallVars, proxy, req, game, faults>>

(* It lists what was there all the time.  A room removed meanwhile is in   *)
(* the list or not; when one is added to the table, the rest of its        *)
(* traversal is undefined.                                                 *)
Lists ==
  LET now == Present(loop.server) IN
  IF loop.grew THEN SUBSET (loop.seen \cup now)
  ELSE {R \in SUBSET loop.seen : loop.seen \cap now \subseteq R}

(* Mutant: room2servers is not filled. *)
forget_rooms(s, R) ==
  proxy' = [proxy EXCEPT !.gamelets = @ \cup {s}, !.server_infos = @ \cup {s}]

update_local(s, R) ==
  proxy' = [room2servers |-> [rid \in Rids |-> IF rid \in R THEN s
                                               ELSE proxy.room2servers[rid]],
            gamelets |-> proxy.gamelets \cup {s},
            server_infos |-> proxy.server_infos \cup {s}]

(* do_update goes on to the next server. *)
Listed == [loop EXCEPT !.pc = "list", !.server = None, !.seen = {},
                       !.grew = FALSE]

ListReturn ==
  /\ Loop("listing", Listed)
  /\ \/ \E R \in Lists : update_local(loop.server, R)
     \/ loop.grew /\ UNCHANGED proxy
  /\ UNCHANGED <<hallVars, req, game, faults>>

(* Mutant: rooms are ensured in the first round only. *)
EnsureOnce ==
  /\ loop.todo = {}
  /\ Loop("list", [loop EXCEPT !.pc = "round", !.tick = IF @ = 2 THEN 2 ELSE @ + 1])
  /\ UNCHANGED <<hallVars, proxy, req, game, faults>>

RoundDone ==
  /\ loop.todo = {}
  /\ Loop("list", [loop EXCEPT !.pc = "round", !.tick = (@ + 1) % 3])
  /\ UNCHANGED <<hallVars, proxy, req, game, faults>>

-----------------------------------------------------------------------------
(* Faults.                                                                 *)

(* The loop goes on when the call it waits for, to server s, fails. *)
LoopFails(s) ==
  loop' = IF loop.server # s \/ loop.pc \notin {"called", "waiting", "listing"}
          THEN loop
          ELSE IF loop.pc = "listing" THEN Listed ELSE Ensured

(* A game server dies with everything in it; calls to it fail. *)
GameRestart(s) ==
  /\ faults.restarts < MaxRestarts
  /\ faults' = [faults EXCEPT !.restarts = @ + 1]
  /\ room_map' = [room_map EXCEPT ![s] = NoRooms]
  /\ user2rooms' = [user2rooms EXCEPT ![s] = NoUsers]
  /\ username_map' = [username_map EXCEPT ![s] = {}]
  /\ seated' = [seated EXCEPT ![s] = {}]
  /\ births' = {b \in births : b.server # s}
  /\ rooms' = [i \in DOMAIN rooms |-> IF rooms[i].host = s THEN Dead ELSE rooms[i]]
  /\ req' = [r \in Requests |->
               IF req[r].server = s /\ req[r].pc \in AtGame
               THEN [req[r] EXCEPT !.pc = "error"] ELSE req[r]]
  /\ LoopFails(s)
  /\ UNCHANGED <<hallVars, proxy>>

(* The connection to server s breaks: the calls on it fail at the hall,    *)
(* what the server has begun goes on, what is on the wire is lost or not.  *)
BreakLink(s) ==
  LET onLink == {r \in Requests : req[r].server = s /\ req[r].pc \in AtGame
                                  /\ req[r].op # "enter"}
  IN /\ faults.breaks < MaxBreaks
     /\ faults' = [faults EXCEPT !.breaks = @ + 1]
     /\ \E lost \in SUBSET {r \in onLink : req[r].pc = "sent"} :
          req' = [r \in Requests |->
                    IF r \in lost THEN [req[r] EXCEPT !.pc = "error"]
                    ELSE IF r \in onLink THEN [req[r] EXCEPT !.cut = TRUE]
                    ELSE req[r]]
     /\ births' = {IF b.server = s /\ b.by = "loop"
                   THEN [b EXCEPT !.by = None] ELSE b : b \in births}
     /\ LoopFails(s)
     /\ UNCHANGED <<hallVars, proxy, gameVars, rooms>>

-----------------------------------------------------------------------------
Client ==
  \E r \in Requests, u \in Users :
    \/ CreateAsk(r, u) \/ LeaveAsk(r, u) \/ ReconnAsk(r, u)
    \/ \E rid \in Rids : DestroyAsk(r, u, rid)
    \/ \E rid \in Rids, s \in Servers :
         SelectAsk(r, u, rid, s) \/ EnterAsk(r, s, u, rid)

Connection == \E s \in Servers, u \in Users : Seat(s, u) \/ Unseat(s, u)

RequestStep(r) ==
  \/ CreatePlace(r) \/ GameCreate(r) \/ CreateRecord(r) \/ CreateDone(r)
  \/ DestroyCheck(r) \/ GameDestroy(r) \/ RoomDestroyable(r)
  \/ GameDestroyed(r) \/ DestroyDone(r)
  \/ GameSelect(r) \/ SelectDone(r) \/ RoomEnter(r)
  \/ GameLeave(r) \/ RoomLeave(r) \/ GameLeft(r) \/ LeaveDone(r)

LoopStep ==
  \/ Round \/ (\E rid \in Rids : EnsureCall(rid)) \/ GameEnsure \/ Update
  \/ (\E s \in Servers : ListCall(s)) \/ ListReturn \/ RoundDone

RoomStep == (\E i \in DOMAIN rooms : RoomExit(i)) \/ (\E b \in births : RoomStarted(b))

Fault == \E s \in Servers : GameRestart(s) \/ BreakLink(s)

Next == Client \/ Connection \/ (\E r \in Requests : RequestStep(r))
        \/ LoopStep \/ RoomStep \/ Fault

Spec == Init /\ [][Next]_vars

(* Services handle the messages they have and the loop runs on; clients,   *)
(* connections and faults owe nothing.                                     *)
FairSpec ==
  /\ Spec
  /\ \A r \in Requests : WF_vars(RequestStep(r))
  /\ WF_vars(LoopStep) /\ WF_vars(RoomStep)

-----------------------------------------------------------------------------
(* A room id has at most one room service on a server that is entered or   *)
(* on its way into room_map: the check of ensure_room, the yield inside    *)
(* new_room, concurrent creations and crashes never start a second one.    *)
(* (A broken connection does: the hall asks again while the first start,   *)
(* whose answer is lost, goes on.)                                         *)
OneServicePerRoom ==
  faults.breaks = 0 => \A s \in Servers, rid \in Rids :
    Cardinality({b \in births : b.server = s /\ b.rid = rid})
      + (IF room_map[s][rid] = None THEN 0 ELSE 1) <= 1

(* Only who created a room gets it destroyed: a request of somebody else   *)
(* never reaches the game server, whatever happened to the record between  *)
(* the lookup of the server and that of the record.                        *)
CreatorDestroys ==
  \A r \in Requests :
    req[r].op = "destroy" /\ req[r].pc \in {"sent", "asking", "empty",
                                            "destroyed", "200"} =>
      \E c \in Requests : /\ req[c].op = "create" /\ req[c].rid = req[r].rid
                          /\ req[c].user = req[r].user

(* Who a room has as a member is who the manager would send there to       *)
(* leave. Otherwise nothing can take the player out, and the room can never *)
(* be ended (room.destroyable). That happens in two ways only, for want of  *)
(* a test in enter_room: the player entered this room or another one while  *)
(* registered elsewhere (roommanager.lua:112), or while leave_room waited   *)
(* for the room (126).                                                     *)
NoPhantomMember ==
  \A s \in Servers, u \in Users, rid \in Rids :
    room_map[s][rid] # None /\ u \in rooms[room_map[s][rid]].users =>
      \/ user2rooms[s][u] = rid
      \/ \E r \in Requests : req[r].hasty /\ req[r].user = u /\ req[r].server = s

(* roommanager.leave_room: assert(room) fails only after a room of that    *)
(* server was ended by its creator.  destroy_room waits for the room's     *)
(* answer that nobody is in it; an enter registers the player meanwhile,   *)
(* and the room goes nevertheless (roommanager.lua:76).                    *)
NoAssert ==
  \A r \in Requests :
    req[r].pc = "assert" =>
      \E d \in Requests : /\ req[d].op = "destroy" /\ req[d].server = req[r].server
                          /\ \/ req[d].pc \in {"destroyed", "200"}
                             \/ req[d].cut /\ req[d].pc = "error"

(* A recorded room exists in the end on the server its record names, also  *)
(* after a restart of that server (roomproxy.ensure_rooms).                *)
RecordedExists ==
  \A rid \in Rids :
    record[rid] # None ~>
      record[rid] = None \/ room_map[record[rid].server][rid] # None

(* A room that exists for good is found by requests again and again,       *)
(* although do_update starts every round with empty tables.                *)
ExistingListed ==
  \A s \in Servers, rid \in Rids :
    <>[](room_map[s][rid] # None) => []<>(proxy.room2servers[rid] = s)

(* A room that its owner ended, and whose record is deleted, is gone.      *)
DestroyedStaysGone ==
  \A r \in Requests :
    At(r, "destroy", "200") => room_map[req[r].server][req[r].rid] = None
=============================================================================

# Verification of pigy

pigy is a small game server framework on skynet: a login server, hall servers
that keep a player's session and let him choose a room, game servers that run
the rooms, and below them a three-level cache in front of MySQL, an
asynchronous logger in C and a C library for protocol buffers (pbc). This directory holds TLA+ models of the parts whose
correctness depends on the order of events, the TLC configurations that check
them, and proofs checked with TLAPS. Every definition is translated from the
source; `PROJECT.json` ("map") names the lines of each.

## 1. The system

### How it runs

Every part but the logger is a *skynet service*: one Lua state that handles one
message at a time. Each message gets a coroutine of its own; a handler runs
without interruption up to its next call of another service (`skynet.call`,
`cluster.call`, a `snax` request), and then other messages are handled before
it goes on. Messages between two services arrive in the order they were sent.
`cluster.call` goes over one TCP connection per pair of processes and fails at
the caller when that connection breaks, whether the other side has received the
request or not. A service that exits fails the calls that wait on it.

So the unit of atomicity is "up to the next call", and that is what an action is
in all the models of Lua code. Reading state, calling, and then using what was
read is the pattern behind most of the hazards in `PROJECT.json`.

### Components

| component | state | operations | talks to |
|---|---|---|---|
| login master (`login/logind.lua`, `lualib/loginserverx.lua`) | lock per uid (`user_login`), sessions (`user_online`), halls (`hall_servers`) | accept, login_handler (kick, then login), logout, start, ping loop | gate of each hall; slaves; accountdc |
| hall gate (`hall/gated.lua`, `lualib/msgserver0.lua`) | `users`, `username_map`; msgserver's `user_online`, `connection` | login, kick, logout, ping, recover_login; client connections | login master, player agents |
| player agent (`hall/msgagent.lua`) | its user, the user's room | login, logout, set_room, get_room | gate, userdc, roomdc |
| hall requests (`hall/rpc/hall.lua`) | none | GetGameList, CreateRoom, DestroyRoom, SelectRoom, ReconnRoom, LeaveRoom | room proxy, roomdc, agent |
| room proxy (`hall/roomproxy.lua`) | `room2servers`, `gamelets`, `server_infos`, `game_infos` | create, destroy, select, leave; update loop with ensure_rooms | room managers of all game servers, roomdc |
| room manager (`game/roommanager.lua`) | `room_map`, `user2rooms`, `username_map` | create, destroy, select, ensure, enter, leave, get | rooms |
| room (`game/room.lua`) | its users | user_enter, user_leave, destroyable, destroy, info | gamelet |
| game agent and watchdog (`game/agent.lua`, `game/watchdog.lua`) | authenticated user of a connection; agents by fd | auth, requests, disconnect | room manager |
| accounts (`common/datacenter/accountdc.lua`, `entitybase/CommonEntity.lua`, `logind.lua` 22-75) | records in memory | register, bind, auth | dbmgr |
| persistence (`common/dbmgr.lua`, `dbsync.lua`) | the rows and indexes in redis; a queue of SQL | start, load, add, delete; the loop of dbsync | redis, MySQL pools |
| user tables (`common/entitybase/User*Entity.lua`, `userdc.lua`) | entity caches per player | load, get, update | dbmgr |
| logger (`lualib-src/lua-log.c`, `common/log.lua`) | buffers linked by pointers, file, worker thread | log, exit; swap, drop, write, roll, recycle | the file system |
| pbc, memory and tables (`alloc.c`, `array.c`, `map.c`, `stringpool.c`) | pages, arrays, hash tables with chains, strings | insert, query, next, push, build, delete | malloc |
| pbc, messages (`varint.c`, `context.c`, `wmessage.c`, `rmessage.c`, `decode.c`, `pattern.c`) | a message being written; what was read of one | wmessage writers, rmessage readers, decode, pattern pack and unpack | memory and tables |
| pbc, registration (`register.c`, `proto.c`, `bootstrap.c`) | the environment: files, messages, enums, maps of fields | pbc_register | memory and tables; reads descriptors as messages |
| dispatch, gamelets, helpers, Lua bindings of pbc | none that matters | | |

### What is hard, and what must hold

*Sessions.* A login of a user who is online kicks the old session first: a cycle
of calls login → gate → agent → gate → login. Meanwhile other logins of the same
user, late logouts and pings arrive; connections break; halls and login
restart with empty tables. Must hold: one login per uid at a time and no lock
left behind; one session per account; the gate's two tables agree and name
agents that run; every login is answered; login learns of sessions it lost.

*Rooms.* Four places know of a room: its record, the proxy's tables, the room
manager's table and the room service. Each operation updates them one by one
with calls in between, while the update loop lists rooms and starts missing ones
again. Must hold: one service per room; only its creator ends it; no member whom
nothing can remove (there are two ways to become one, and no third); a recorded
room comes back after a crash; what exists is
found; a room that was ended stays ended (it does not: see findings).

*Logger.* Two threads pass buffers through a linked list under a lock, and the
worker writes outside the lock. Must hold: no assertion fails, no buffer is
leaked, used by both threads or used after free; lines are written in order and
once; only overload loses lines.

*Persistence and accounts.* Check-then-act over calls, SQL executed later by one
coroutine in an order that is not quite that of a queue, a crash in between, one
redis for several processes that each empty it. Must hold: a new id is nobody
else's (it may be, after another process emptied redis: see section 3);
binding loses no account and never shows it twice; a crash takes no account but
those with a statement in the queue; memory and redis agree once
nothing is under way; what is queued brings MySQL up to date.

*Protocol buffers.* Nothing runs concurrently here; what is hard is the number of cases: tables that
rehash in the middle of an insertion; lengths that are written
before they are known, in estimated room; buffers that are decoded through a
copy near their end; three readers with the same job; descriptors that arrive
in any order and extend each other. Must hold: nothing overlaps or leaves its block; what was
written is read, by every reader; a message cut off anywhere is refused; the
environment is what the registered files declare, whatever the order.

## 2. Modules

| module | models | lines |
|---|---|---|
| `LoginSession` | login master, hall gates with msgserver's sessions, player agents | logind, loginserverx, gated, msgserver0, msgagent |
| `SessionPromise` | abstract: what the three promise an account together | |
| `Rooms` | hall requests, room proxy and its loop, records, room managers, rooms, seats of players | hall.lua, roomproxy, roomdc, roommanager, room, agent |
| `AsyncLog` | both threads of the logger, the heap, the log files | lua-log.c |
| `LogPromise` | abstract: the logger as one queue | |
| `Accounts` | register and bind, accountdc, redis, dbmgr, dbsync, MySQL's table | logind, CommonEntity, dbmgr, dbsync, redispool |
| `PbcMap` | pure: the hash tables by slots and chains | map.c |
| `PbcStore` | heaps, arrays, tables, string pool as a program uses them | alloc.c, array.c, map.c, stringpool.c |
| `StorePromise` | abstract: a dictionary and a list | |
| `PbcBytes` | pure: varints, zigzag, fixed numbers, atoms of a message | varint.c, context.c |
| `PbcSchema` | pure: message types, fields, defaults | proto.c, proto.h, context.h |
| `PbcWriter`, `PbcReader` | pure: writing; rmessage and decode | wmessage.c; rmessage.c, decode.c |
| `PbcPattern` | pure: packing and unpacking C structs | pattern.c |
| `PbcWire` | composes them: a sender, the bytes, a receiver | |
| `PbcRegister` | the environment and registration | register.c, proto.c, bootstrap.c |
| `RegisterPromise` | abstract: files are registered once their dependencies are | |
| `MC...` | instances for TLC | |
| `LoginSession_proofs`, `CalmSession_proofs`, `Rooms_proofs`, `AsyncLog_proofs`, `LogQueue_proofs`, `Accounts_proofs`, `AccountTables_proofs`, `PbcStore_proofs` | inductive invariants and theorems | |

A definition whose comment begins with "Mutant" is a plausible bug in the code
it stands beside. It is in no behaviour of the model; `PROJECT.json` ("mutants") pairs each
property with one such change that breaks it.

### LoginSession

An *attempt* is a client connection that passed the slave's authentication. It
stands for its coroutine in `accept`, for the secret of the session it asks for
and for the agent service its login starts: all three are fresh for each
attempt. `pc[a]` is where the coroutine stands in the login master; `kst[a]` and
`lst[a]` are where its kick call and its login call stand at the hall. Each
value is a place between two calls of the code:

| kick (`kst`) | code |
|---|---|
| `sent` | the call is on its way to kick_handler (gated.lua:65) |
| `agent` | gate waits for the agent's logout (71) |
| `gate` | agent waits for logout_handler (msgagent.lua:62) |
| `notify` | logout_handler waits for login's CMD.logout (gated.lua:60) |
| `exit` | answer on the way to the agent, which then exits |
| `gonotify` | no session: kick_handler notifies login itself (74) |
| `reply` | kick_handler is through |

`users` and `msg_online` are the gate's and msgserver's tables. All sessions of
a uid have subid 0 (gated.lua:10), so a username is a uid. `username_map` is
written with `users` in the same steps and is left out. The ping loop is a
third process of the login master (`ppc`, `todo`, `pcur`, `snap`); the snapshot is taken at the
hall and used when the answer is back. As in the code, the test of `handhsake`
always takes the branch of the first handshake. `order` is the order in which `pairs`
lists the halls: fixed for a run of the process, possibly another one after a
restart. Access points are one bit: known after the first answered ping.

Faults: `BreakLink` (calls from login to a hall fail; requests that were not
received may be lost), `NotifyBreak` (a hall's logout call), `HallRestart`,
`LoginRestart`. `LoginAgentFail` is not a fault: it is the error of
msgagent.lua:24 for a user without a room.

### Rooms

A request is one client message; `req[r].pc` says which service it is in and
after which call. `rooms` holds the room services with their inboxes, since
their order against each other matters: a `destroyable`, an enter and a
`destroy` are handled in the order they were sent. `births` are the calls of `new_room`
under way, which yield between the test of `room_map` and its assignment.
`loop` is the coroutine of the proxy's `update`: the rows it fetched, the server
it talks to, the list it will get. `Lists` says what `roommanager.get` may
return when rooms come or go while it traverses `room_map` with a call in each
step: Lua leaves the traversal undefined once a key is added.

One game is modelled, offered by every server; game infos are derived from rooms
and left out. A player's connection to a game server is the bit `seated`.
A client may send any request at any time, whatever it has sent before:
EnterRoom is posted (game/rpc/game.lua:14-18), so nothing makes it wait, and
LeaveRoom takes another way, through the hall. `MaxAsks` bounds the requests of
each kind. `hasty` is a ghost variable of an EnterRoom: it *overtook* something
(`Overtakes`), that is, the player was registered in another room when the room
manager took it, or a leave_room of his waited for its room just then.

### AsyncLog

The heap is explicit: `data`, `next` and `owner` of each buffer. `append` is one
atomic step, and so is what the worker does under the lock (`Swap`); the worker's
later steps are split at every buffer. `owner` is a ghost variable: which thread
may use the buffer. A line has size 1 and is known by its number; a buffer of
size `LogBufferSize` holds one line less, as in the code (a line must not fill
the buffer to the brim). `MaxKept` stands for the 25 buffers, `RollSize` for the
file size. `disk` remembers the file of every line.

The worker's wait may end at any time (signal, timeout or spuriously);
`inst.running` is read without the lock in the code, and is modelled as read at
the beginning of a round.

### Accounts

A request of a client runs in a coroutine of a login slave; `conn[c].pc` says
before which call it stands. accountdc, dbmgr and dbsync are one service each:
what they do between two calls is one action. Calls from accountdc to dbmgr and
from dbmgr to redis and dbsync keep their order, answers as well, so the
requests dbmgr works on move in step (`InTurn`): the `done`-th call of one is
never overtaken by that of a later one. `rows`, `index` and `lastid` are what
redis holds of the table. `queue` is the queue of dbsync in the order the
statements came; `Execute` may take any of them, since the code traverses a Lua
table with `pairs` in which it makes holes, yields in every step and inserts with
`table.insert` (dbsync.lua:15, 20-24). `syncer` is the statement MySQL has.
MySQL's table refuses an insert that breaks one of its keys
(`sh/pigy.sql`); for dbsync a refusal is an answer like any other.

Three variables are ghosts. `known` are the accounts that have to be there: those
login has loaded and those a client was answered 200 OK for. `Restart` is where
it matters what becomes of them: the tables begin anew from MySQL, but `known`
keeps every account, in MySQL or not, except those in `AtRisk`. These are the ones
a crash can take: an account with a statement in dbsync's queue or in a call on
its way there, and one that a bind has deleted and not yet added again. `orphans` are
the ids that existed when another process emptied redis. The third is `trouble`, below.

Faults: `PoolFails` ends the loop, `Restart` is a crash of login, `PeerStarts`
another process that starts and empties the redis they share. A statement that is under way
when something breaks was executed or not. `trouble` says what has happened
since the start, because the code keeps less after it: `overlap`, two requests
under way name one account; `order`, a statement was executed before an older
one; `flush`, a peer started.

### The library for protocol buffers

`PbcMap` has the hash tables of `map.c` slot by slot: `Place` is the insertion with its
three cases (free slot, a foreigner in the slot, a chain) and `sp_rehash` builds
the table anew. `_pbcM_sp_insert` links a new slot right behind the home slot, and
`_pbcM_sp_query_insert`, which has walked the chain, at its end (`LastOn`). `PbcStore` puts a table, an array and a string pool into one
heap of pages, or without a heap into blocks of malloc, and gives every value
and every string a *region* of a block. Regions that are in use must not meet. An
array that still has its entries in itself points to `Inner`, which is in no block.
The three tables of C (`map_ip`, `map_si`, `map_sp`) differ in keys only; `ip` and `si`
are immutable and are functions.

`PbcBytes`, `PbcSchema`, `PbcWriter`, `PbcReader` and `PbcPattern` are operators: what a
function of C makes of its arguments. `PbcWire` is the state machine around
them: a program writes a message value by value, or packs a struct, and sends
it; all of it or any prefix arrives, with anything in the memory behind it
(`Tails`); a reader makes an rmessage, the calls of a decoder or a struct of it,
as the writer's type or an older version. Numbers keep their shape and lose their width:

| code | model |
|---|---|
| 32-bit words, 64-bit numbers of two | `Word` = 8: 256 values, two of them |
| varint groups of 7 bits, up to 10 bytes | `Group` = 3, up to 6 |
| fixed 4 and 8 bytes | 2 and 4 "bytes" of 4 bits |
| `WMESSAGE_SIZE` 64 | 12 |
| inner fields, pages, pool pages | as small as the cases need |

so that every length of a varint, every growth of a buffer and every case of the header of a packed array
is met with few values. `PbcRegister` has a call of `pbc_register` as rounds over files,
one file per step; a name is a sequence of words. The bootstrap file is in `Init`.

Recursion over nested messages and descriptors is written with RECURSIVE
operators where a function would need its domain spelled out: in `PbcReader`, `PbcWriter`,
`PbcWire` and `PbcRegister`, which are for TLC only. `PbcMap`, `PbcBytes`,
`PbcSchema` and `PbcStore` declare none: the chain walk, the rehash, `foreach` and
the doublings are recursive functions, which is what the proofs need.

## 3. Runs

All runs finish within about two minutes with two workers.

| run | instance | properties |
|---|---|---|
| `session_calm` | 1 account, 2 halls, 3 logins, no faults; 110 000 states | `SessionKnown`, `NoReentry`, `KeepsPromise`, `OwnLogoutOnly` |
| `session_faults` | 1 account, 1 hall, 2 logins, one broken connection, one crash of the hall, one of login; 102 000 states | `TypeOK`, `LoginMutex`, `HallTablesAgree`, `NoDeadAgent`, `LoginAnswered`, `SessionsRelearned` |
| `rooms_players` | 1 player, 2 rooms, 4 requests in any interleaving (2 create, 2 enter, 1 leave, 1 destroy at most), no faults; 1 132 000 states | `NoPhantomMember`, `NoAssert` |
| `rooms_faults` | 2 players, 1 room, 2 requests, one crash, one broken connection; 287 000 states | `TypeOK`, `OneServicePerRoom`, `CreatorDestroys`, `RecordedExists`, `ExistingListed` |
| `log` | 10 lines, buffers of 2, overload from 5 buffers, 1 midnight; 156 000 states | `TypeOK`, `AssertsHold`, `BuffersAccounted`, `KeepsPromise`, `Flushed` |
| `accounts` | 2 connections, 3 requests, 3 keys, an empty and a filled database, one crash or start of a peer; 1 943 000 states | `MemoryIsRedis`, `IdsFresh`, `OneKeyPerAccount`, `AccountKept`, `BackupCatchesUp`, `QueueDrains` |
| `pbc_store` | 5 names with colliding hashes, 5 array entries, 2 strings of 3 sizes, with and without heap; 259 000 states | `MemorySafe`, `IterationComplete`, `KeepsPromise` |
| `pbc_wire` | 7 message types, up to 6 values, patterns, every cut; 140 000 states | `WithinBuffer`, `ReadsBack`, `TruncationSeen`, `CallsMatch`, `StructHolds`, `PackFits` |
| `pbc_register` | 5 files in sets of up to 3, in any order and with repetitions, 2 calls; 10 000 states | `CatalogueKept`, `IdMapAgrees`, `KeepsPromise` |

What they show, beyond the sentences in `PROJECT.json`:

- `KeepsPromise` of `LoginSession` is a refinement: login, gates and agents
  together implement `SessionPromise` as long as nothing breaks. With faults
  they do not, and the code does not try to; what survives faults are the
  properties of `session_faults`.
- `SessionsRelearned` shows that the ping loop repairs a lost entry of
  `user_online`, which `doc/TODO.md:26` still lists as a problem.
- `NoPhantomMember` is about members whom nobody can take out of a room: LeaveRoom
  goes to the room `user2rooms` has for the player, and a room with members cannot be ended.
  enter_room tests nothing (roommanager.lua:107-115), so there are two ways to
  such a member, and the run has both: a player who enters a second room while
  he is registered in the first (line 112), and one whose EnterRoom arrives while
  his leave_room waits for the room (126). The property says that there is
  no third, whatever a client sends before it has its answers.
- `NoAssert`: the assertion of leave_room (124) fails when a player entered while
  his room was being ended, since destroy_room yields in its call of destroyable; the
  owner can do so to himself, and does in `rooms_players`. It fails only on
  a server where a room was ended, never because tables had parted ways otherwise.
- `OneServicePerRoom` holds, with crashes of the game server, until a connection to
  it breaks: then the loop may ask again for a room whose first start is
  under way. `rooms_faults` has both faults; the property speaks of the time before the break.
- `NoReentry` (gated.lua:38 says so) is checked without faults: when the
  connection from login breaks while an agent starts, a second login does enter.
- `KeepsPromise` of `AsyncLog` is a refinement, too: a linked list of buffers
  taken in batches, with a reserve and a drop path, behaves as one FIFO queue.
- `IdsFresh` holds whatever overlaps and whenever login crashes, because an id
  is in the counter of redis before its row can be anywhere, and every start takes
  the counter from MySQL. A peer that starts takes the counter away
  (redispool.lua:31 flushes the redis that etc/config.login:49 and etc/config.hall:54 both name):
  the next account gets id 1 again, and may share it with an account that was
  there by then (`orphans`). That is what remains excepted; ids given afterwards differ
  from each other. See the disagreements below, since a hall that starts after
  login is the documented order.
- `AccountKept` counts every account whose client was answered 200 OK, through crashes and starts
  of peers: a flush takes the counter and the rows in redis, but no account from memory. What a
  crash takes is bounded by `AtRisk`: above all an account whose insert is still in dbsync's queue,
  which is in memory only and is executed every 5 seconds.
- `BackupCatchesUp` is about statements executed in the order they came. In
  another order, which the traversal of dbsync allows, an account that was bound
  is inserted first, refused or not, and deleted last: MySQL loses it.
  `MemoryIsRedis` without `overlap` in its second part, `OneKeyPerAccount` and
  `AccountKept` fail once two requests on one account overlap: both registrations
  succeed (CommonEntity.lua:24 tests, calls, then writes).
- `KeepsPromise` of `PbcStore` and of `PbcRegister` are refinements: slots and
  chains are a dictionary; rounds over files register all that can be
  registered, answer rightly, and end.
- `pbc_wire` compares three readers with what two writers were given, for every
  cut: a receiver never takes a part of a message for all of it, except where a
  field ends, where nothing on the wire could tell.
- `WithinBuffer` holds of every writer but one. `_pack_packed_32` (wmessage.c:371-394)
  makes room for 4 bytes a value and writes the values 8 bytes apart: past the room it made,
  and past the buffer where that ends there. The run has this case (type `Floats`:
  six values into a buffer of 12, where the code's figures are 13 values and 64 bytes), and the properties except it by name
  (`Strided`): without the exception `WithinBuffer`, `ReadsBack`, `CallsMatch` and `StructHolds` all fail.
  `ReadsBack` leaves out, besides, negative numbers in packed int32 fields and in
  sint32 fields, which no sample has (section 5).

**Bounds.** Every bound is a constant of the module. Three attempts of one
account are what the session protocol's races need: the session that is there,
the login that kicks it, and one that arrives meanwhile or after. Accounts share nothing
but the list of halls and the ping loop, so one is enough; the second hall is there for
`select_hall` and for pings of a hall that does not have the user. One of each fault
is enough to hit every waiting call once. `session_faults` has two attempts only, since
it checks liveness as well; its safety properties are proved for any number. For rooms,
two requests give every pair of operations on a room with the update loop and
the faults between them (`rooms_faults`). `rooms_players` needs two rooms
(`MaxRid`), since `user2rooms` has one entry per player, and five services (`MaxRooms`), since the
loop may start a room again. Its four requests, at most two of them EnterRooms, are enough
for a room that is created and entered, and for two more requests that overlap:
the second room, the enter during a leave, the enter during a destroy. What
holds of its one player is proved for any number of players, rooms and requests, with faults. For the
logger, ten lines in buffers of two fill five buffers, so that
the list, the drop path with three dropped buffers, and the recycling
afterwards all happen; nine buffers of memory are enough for `calloc` never to
fail at that size. Of the drops, the later ones find fewer than `MaxKept`
buffers' lines waiting, as they do with the code's 25. Symmetry is used for attempts of one account and for users and
requests, only in runs without liveness properties.

For accounts, two connections and three requests give two requests under way and a third
after either, hence every overlap of register and bind on three keys: a guest's, one that may be taken and one
that is free. The database with ids 1 and 3 has a hole, so that a counter of rows would not do for a maximum.
For `pbc_store`, five names with two pairs of equal hashes grow a table three
times and build chains of three in it; five entries leave an array's inner
ones and grow it twice; strings are shorter than, as long as and longer than a page. For
`pbc_wire`, sample numbers sit at the ends of the ranges (the longest varint, the
default, sign bits); four to six values make the packed headers longer than
estimated, and the strided writes leave the buffer; `Rooms` are buffers below, at and above what the structs need.
For `pbc_register`, three files per call are the longest chain of
dependencies there is, in every order; the second call sees an environment that has some of
them.

**Deadlock** is checked in the session and room runs: the ping loop and the
update loop never end. The logger ends after `exit`, clients stop asking for
accounts and the programs that use pbc come to their end, so those runs say
`CHECK_DEADLOCK FALSE`.

**Fairness.** Skynet delivers every message and resumes every coroutine whose
call has an answer: weak fairness of each attempt's (or request's) steps, of the
loops and of the room services. Nothing is assumed of clients, connections or
faults. The logger's worker is a thread that runs (weak fairness of `Worker`);
its wait has a timeout in the code, so `Ready` does not need a signal. Nobody is
obliged to log or to exit. In `Accounts`, the loop of dbsync goes on (it sleeps
for 5 seconds in the code) and MySQL or its pool answers; in `PbcRegister` a
function that was called goes on. No other step of these is fair.

### Disagreements found

| run | property | what happens |
|---|---|---|
| `session_hall_restart` | `HallRestartRecovered` | `logind.lua:195` tests `handhsake`, a field nothing sets: the recovery of a restarted hall that `doc/login-hall.md` describes is unreachable |
| `rooms_resurrect` | `DestroyedStaysGone` | `ensure_rooms` starts a room again that was ended after it had fetched the records |
| `log_roll` | `RollsToNewFile` | every roll but the first of a day ends in the file that is full already |

Four more have no run of their own: what is wrong is left in the model, and the
properties name it as their exception.

| where | exception | what happens |
|---|---|---|
| `common/redispool.lua:31` | `orphans` in `IdsFresh` | `doc/guide.md:3-8` starts redis, then login, hall, game. The hall's start empties the redis that login has filled: the next account gets id 1 again. If there is an account 1, two players have one id, and MySQL refuses the second by its primary key. Until this is mended, login must start last or have a redis of its own |
| `common/dbsync.lua:14` | `AtRisk` in `AccountKept` | an account that was answered 200 OK is lost if login crashes within the next 5 seconds or so; `doc/persist.md` has MySQL as the last level of the cache and does not say so. Its id is given again |
| `game/roommanager.lua:112, 126` | `hasty` in `NoPhantomMember` | a player who enters twice, or enters while he leaves, stays a member nobody can take out; the owner, who may end his room by `doc/hall-with-game.md`, never can |
| `lualib-src/pbc/src/wmessage.c:383` | `Strided` in `WithinBuffer` and the readers' properties | packed fixed32, sfixed32 and float arrays are written past the room made for them, and read back with bytes that were never written |

## 4. Proofs

The proof modules are checked by TLAPS from nothing and hold for all values of
the constants that satisfy the named assumptions (`SessionAssumption`,
`RoomAssumption`, `LogAssumption`, `AccountsAssumption`, `SizesOK`). One hypothesis appears in
theorems: `NoFaults` (all bounds of faults are 0) in `CalmSession_proofs`. Without it
the properties are false: a restarted
login master knows no session, and a hall goes on with what it has begun when
the call to it is cut. Where a property of another module holds only under a condition
(`OneServicePerRoom` until a connection breaks, `AccountKept` until requests
overlap, ...), the condition is in the property itself.

**LoginSession_proofs.** `LoginMutex`, `HallTablesAgree` and `NoDeadAgent` are
not inductive. `HallTablesAgree` needs to know that a call that writes the
tables belongs to an attempt whose hall is known. `NoDeadAgent` is about a table
entry, but what threatens it are messages in flight: a kick whose agent is about
to exit. `IndInv` therefore says what is known of every call:

- `CallsFollowAttempt`: how far the calls at the hall can be, given where the
  attempt stands at the login master;
- `SessionsHaveAgents`: a session belongs to an attempt of the same uid and
  hall, whose login call is through and whose agent runs;
- `KicksAimed`: a kick is aimed at an agent of its own uid and hall, and once
  the gate has handled that agent's logout, the session is not that agent's;
- `PingAimed`: a ping under way goes to a hall.

The last part of `KicksAimed` is the heart of it: an agent exits only after its
gate forgot it, and a later login never brings it back, because `LoginReady`
writes the attempt's own agent. One lemma per part (`TypeStep`, ... ) goes
through the actions; the theorems `TypeCorrect`, `MutexHolds`,
`TablesAgreeAlways` and `AgentsAreAlive` follow from `SessionInvariant`.

**CalmSession_proofs.** Without faults `SessionKnown`, `NoReentry` and
`OwnLogoutOnly` hold, and login, gates and agents together implement
`SessionPromise`. `CalmInv` adds to `IndInv`

- `CallsAwaited`: a call at a hall runs only while its attempt waits for it;
- `TargetStays`: the agent a kick is aimed at runs until it is told to exit, and
  has its session until its gate handles the logout;
- `SessionsOf`: while a login of a user is under way, where its sessions can
  be: during the kick only at the hall that is kicked, during the login call only what
  that call opened;
- `Recorded`: login has every session in `user_online`, or an attempt in
  `handle` is about to enter it.

The refinement maps the sessions in the gates' tables to a set of open sessions.
`PromiseStep` takes each step of `LoginSession` to a step of the promise or to a
stutter; `ReadyOpens`, `ForgetCloses` and `ReturnGrants` are the three that are
not stutters. `SessionsOf` is what makes them right: when a login opens a session,
no other one of the user is open at any hall.

**Rooms_proofs.** The invariant has four layers; all but the second hold
whatever is asked and whatever fails.

- `IndInv`: `TypeOK`; `RequestSound` and `LoopAimed`, what
  a request and the loop have at each stage; `RecordsCreated`, the creator in
  a record is a player whose request created the room; `BirthOwned`, a room being
  started for a request belongs to one that waits for it. It gives `CreatorDestroys`:
  the test of the hall against the record is enough, however late the
  destroy arrives.
- `SingleInv`, until a connection breaks: `IdsFresh`, an id is used by one request, and
  nothing knows it until its room has been started; `BirthsSound`, a room on its way into
  `room_map` is not there yet, and its request or the loop waits for it. Hence
  two starts of one id cannot be under way: the loop waits for one at a time, and
  it learns an id from a record, which is written after the request's own start.
- `MemberInv`, about members and registrations: `OwnService`, a service belongs to one id
  and one server; `BirthsFresh`, nobody knows a service that is on its way
  into `room_map`; `MailSent`, a message in a room's inbox is of a request that was sent;
  and `PlayersSound`, about every player none of whose EnterRooms on a server was
  hasty: where he sits, or is about to sit since an EnterRoom of his is in the inbox,
  he is registered (`Registered`); and his LeaveRoom is at that very room, behind all
  EnterRooms that bring him there (`LeaveSound`). The last is the order of messages:
  an EnterRoom that is in an inbox before the leave came is handled before it, and
  one that comes later is hasty. It gives `NoPhantomMember`.
- `AssertInv`: `RegisteredThere`, who is registered is so in a room that is there, or else a
  request has ended a room on that server. It gives `NoAssert`.

`WhatChanges` says which actions change which variable, so that each part of the
invariant looks only at steps that touch it. `RequestGoes` and `StageGoes` follow one request
through a step, `HowRooms` and `HowInbox` one room and its messages, `MapKeeps` and `RegisterKeeps` the two tables;
`SitsFrom` and `ArrivesFrom` combine them: where a seat and an EnterRoom in an inbox come from;
`BeforeStays` keeps the order of two messages.

**AsyncLog_proofs.** `AssertsHold` says that the worker finds two buffers among
those it took, and that pointers it follows unchecked are not nil. It depends on
links that the other thread made several steps ago. `IndInv` describes the
heap: `Links` (a link stays within one owner, nothing is linked twice, and heads
and reserves are not linked to), `FrontSound` (list and reserve of `inst`),
`BackSound` (the worker's spare buffers are clear and apart from its list) and
`PhaseSound` (what the worker has left at each point of its round; if it gave
away two buffers, it took at least two). There is one lemma per action;
`append`, which both threads run, has its own (`NewBufferFresh`, `AppendKeeps`).

**LogQueue_proofs.** `BuffersAccounted` and `KeepsPromise` follow chains of
pointers of any length, and what is linked to what (`IndInv`) does not say what
the links reach. `QueueInv` adds three sequences: s, the list of `inst`, t, what the
worker took, and u, what it has still to write or to drop. `Path(s, p, next)`
says that s is the list that begins at p, links and nil at the end included.

- `FrontIs(s)`: s ends with the current buffer, has `size` + 1 buffers, all of
  them full but the last; they and the reserve are all that the logging side owns.
- `BackIs(t, u)`: the buffers in t, in u while it drops, and the worker's two spare ones are
  all that it owns; when there are too many, all but the last of them are full.
- `Clean`: free buffers and the reserve are empty.

There is one lemma per kind of step (`AppendQueue`, `SwapQueue`, `DropQueue`,
`DroppingQueue`, `WriteQueue`, `KeepQueue`, `StillQueue`); each says what becomes of the
lists and of the lines in them (`PendingOf`), so that the same lemmas give the
invariant, hence `NothingLeaks`, and the refinement, `PromiseKept`. That buffers are full
is what makes it right: the lines of the first two buffers, which are never dropped,
are 2 * (`LogBufferSize` - 1) in number, and a round that drops began with
`MaxKept` * (`LogBufferSize` - 1) lines or more.

`ChainFrom` and `FlattenSeq` are recursive functions. The induction they need is
made by hand: if a statement about n fails, it fails for a least n (`Least`, from the
well-foundedness of `<`), and the definition takes that to n - 1
(`FollowsExists`, `FlattensExists`). A list visits no buffer twice, so it is no longer than
there are buffers (`PathFits`), and `ChainFrom` sees all of it (`ChainIsPath`); this
is why `LogAssumption` says that memory is finite.

The attempt showed that `LogPromise` had asked too much: that every
single drop finds `MaxKept` buffers' lines waiting. This is so for the 2 buffers of the run of then, and
false from 4 on: the worker compares once per round, then drops all but two. The
promise now has a phase, `shedding`, that begins under overload and ends before
the next write, and the run has a `MaxKept` of 4.

**Accounts_proofs.** `IdsFresh` compares the id a registration holds with every
place an id can be; it holds because of the counter in redis, which it does not
mention. `IndInv` adds

- `Counted`: the counter is at least every id in
  memory, in MySQL, in a statement or call on its way, and in the hands of a
  request, except those in `orphans`, so that the next id is beyond all of them. When another process
  empties redis, the counter begins anew from 0 and every id there is becomes an orphan (`PeerKeeps`); when
  login starts, it is the maximum of MySQL again and there is nothing else;
- `FreshApart`: the id a registration holds is nobody else's, or an orphan's;
- `Bounded`: ids are bounded at all, orphans included, so that the
  maximum `load_maxkey` asks MySQL for exists when login
  starts again (`MaxIsThere`, from the well-foundedness of `<`);
- `CallsAwaited`: every call dbmgr works on has a request of its own that waits
  for it, so that an answer takes the row only its request holds;
- `Typed`: what a request has in its hands at each stage (`HasWhatItNeeds`), and
  that MySQL executes a statement of the queue.

`RowsMove`, `RequestMoves`, `RequestStep`, `AskStep`, `DoneKeeps` and `TableStep`
say how ids move in a kind of step; the actions follow from them. `RestartSound`
is where a crash meets the statement under way: MySQL may have its row or not,
and the new maximum covers it either way.

**AccountTables_proofs.** On top of that `IndInv`, four layers. `AccountsAssumption`
says that the tables login may find keep to the two keys `sh/pigy.sql` declares.

- `HeldSound`, always: accounts are in memory and in redis under their own keys,
  MySQL's table keeps its two keys, dbmgr works on the row its request holds
  and is never further with a later call than with an earlier one.
- `RowsFollow`, while nobody empties redis: the hash of a key is what the last call
  that has written it says (`LastOf`), or what is in memory if none has. The
  answer to the first call moves that call's effect from one side to the other, which is
  why `MemoryIsRedis` survives any overlap.
- `ApartInv`, while no two requests name one account, whoever empties redis: `Apart`;
  `Current`, what a request has read is still so, until it is through; `AccountKept`.
- `CalmInv`, while besides nobody empties redis: `OwnIds`, ids in hands are
  in nobody else's, and not in memory once a row is on its way there; `IndexFollows`,
  the index lags behind memory by the calls that have not reached it. It gives
  `OneKeyPerAccount` and the index's part of `MemoryIsRedis`.
  `GetNextIdCalm` is where the counter of `Accounts_proofs` is needed, and `ByFlush`:
  while nobody empties redis there are no orphans.

A last layer, `BackupFollows`, is about the queue of dbsync while nothing is in
`trouble`: what MySQL has once the queue is executed (`Drained`) is what is in memory, with the
statements of calls whose answers have not come yet (`Synced`). A statement
that enters the queue does what it should, because by `CalmInv` the id and the key
of an account that is added are in no row of `Drained` (`AddedIsNew`) and the id of one that is
deleted is in its own row only (`DeletedIsOne`). `Drained` is a recursive function; `DrainedLast` and `DrainedFirst`
take a statement from either end of the queue. `DrainedAgain` is why it does not matter
whether MySQL has executed the statement over which the loop of dbsync ended.
`AccountKept` needs this layer where login crashes (`RestartKeeps`): MySQL has every account
that is known but those in `AtRisk`, because what the queue would make of MySQL's table is what
is in memory, and a row the queue does not name is in the table already.

**PbcStore_proofs.** Three properties that are about everything at once: no two
regions in use meet, a walk visits all names, and names and entries keep what
they were given. `SizesOK` says that sizes are positive, that a hash is a
number and not 0 (section 5) and that the mark of an empty slot is no name. `StoreInv` has three
parts, each of which the code relies on and never tests:

- `TableInv`: for each slot there is the set of slots its chain leads to
  (`Chains`), which has no cycle because it gets smaller along the chain; a name is on
  the chain of its home slot (`AtHome`), although chains of several homes grow together
  when `Place` links a name behind a foreigner; `size` is the number of used slots, so
  that the probe for a free slot from `sp_full` on ends; the pointers are the numbers
  of the values, each once. The case of `Place` in which a foreigner sits in the home slot
  and a name is linked in behind that slot, or behind the last one of its chain
  (`ToEndExists`, `LastOnChain`), is `ChainsLinked`; `RehashOK` enters
  the slots of a full table one by one into one twice as large.
- `ArrayInv`: a grown array has a power of two of cells, more than it has entries and
  at most twice as many. The test in `_pbcA_push` for the moment to grow
  (`Grows`) looks at the entries alone; it is right only because of this.
- `Sound`: `Layout`, the regions in use are a family that fit their blocks
  and are apart; `MemOK`, in each page of the heap nothing is in use behind the mark, and pages but
  the last are never touched again; `Owned`, without a heap each container has
  blocks that it alone uses, so that freeing the old slots of a table takes nobody else's;
  `Pooled`, strings are in blocks of the pool, those of its current page before
  its length.

`Allocated` says once what any allocation gives (a region in memory that meets none
that fitted before), and `SoundValue`, `SoundSlots`, `SoundArray`, `SoundSpare` and
`SoundPage` say what each operation does with it. `StoreSafe` then counts: the set of regions
has as many members as there are things in use, because regions that are apart
and not empty differ. For the two iterations the used slots are numbered in their
order (`Nth`); `sp_next` goes from one number to the next (`WalkNext`) and `foreach` meets
them in that order (`ForeachOK`). What the recursive functions compute is proved as in
`LogQueue_proofs`: they exist by an induction made by hand (`DoublesExists`, `FollowExists`,
`RehashExists`, `MeetsExists`, `WalksExists`), then they are followed.

Checked by TLC only, on the instances of section 3:

- all liveness properties, among them `RecordedExists` and `ExistingListed` of
  `Rooms` and the half of `KeepsPromise` of `PbcRegister` that says a call is answered:
  the prover has no rule for ENABLED, which fairness is made of;
- everything of `PbcWire` (`WithinBuffer`, `ReadsBack`, `TruncationSeen`, `CallsMatch`,
  `StructHolds`, `PackFits`) and of `PbcRegister` (`CatalogueKept`, `IdMapAgrees`,
  `KeepsPromise`): messages and descriptors are nested, the code recurses into them, and
  the operators do so too (RECURSIVE). The provers cannot be used on a module
  with such an operator, and have no induction over nested data to offer.

## 5. Not modelled

- In the modules of sessions and rooms, the contents of messages (how they are
  packed is `PbcWire`) and the handshake's cryptography: an attempt is one that
  passed it.
- Connection tables and reconnects of msgserver and of the watchdog, and
  requests before auth is through (section 6).
- The tables of users: entities per player, loaded and updated (section 6). In
  `Rooms`, records are one map that survives crashes of game servers; crashes of
  the hall, which would involve MySQL, are left out with them.
- In `Accounts`: errors of redis calls (nothing handles them), `update` (no
  caller for accounts), auth and passwords (they read only).
- `play_game`, chat, GetGameList, GetUserInfo: they forward or read.
- `CMD.recover_login` of the gate: unreachable, see the finding.
- `game/gated.lua`: an older gate that nothing starts.
- In the logger: failures of malloc, mkdir, fopen; the level filter and format
  of a line; a line longer than a buffer; the data race on `running` beyond when
  its change is seen; the overflow of `rollsize` from 2048 MB on.
- In pbc: failures of malloc (the code does not handle them); alignment; the
  parser of pattern formats and their `@` form; services, options and
  `pbc_wmessage_delete` of half a message.
- The Lua bindings of pbc (`pbc-lua.c`, `pbc-lua53.c`): they convert between
  the Lua stack and the calls modelled here and keep nothing of their own.
- Configuration, start scripts, test clients.

**Left out of the samples of pbc**, because the code does with them what no
document says, or says otherwise than protocol buffers do. The operators are
translated as the code is; a sample that met one of these would make
`ReadsBack`, `CallsMatch` or `StructHolds` fail. (The packed fixed numbers of 32 bits are
sampled: see `Strided` in section 3.)

| where | what |
|---|---|
| wmessage.c:427 | a packed negative int32 loses its sign extension |
| varint.c:104-110 | sint32: the high word of a negative or very large number is not what its sign says |
| rmessage.c:299 | a field that is not repeated and comes twice answers with the first (writers write it once) |
| map.c:94, 386, 438 | a name whose hash is 0: it equals the hash of an empty home slot, and strcmp gets that slot's key, which is NULL (`SizesOK` in `PbcStore`, `HashesOK` in `PbcWire` rule it out) |
| rmessage.c:173 | a packed enum field that comes in two runs: the entries of the first run are converted again (`Enumerated`), those of the second may not be (writers write one run) |
| pattern.c:53-59 | the default of an enum in a struct field of 64 bits: the second set_default_v takes the padding of the union for its high word (`RawEnum`) |
| wmessage.c:491-517 | asking for the buffer of a message twice appends the packed arrays twice |
| pattern.c:124 | an int16 in a struct gets one byte |
| pattern.c:321 | a scalar sint64 cannot be unpacked |
| pattern.c:639 | packing fixed arrays asks for the header's room twice (`PackFits` allows for it) |
| context.c:68 | lengths that wrap round (`Tails` has none) |
| context.h:54 | field ids from 2^28 on are negative and never found |
| register.c:94 | defaults of fixed64 are ignored, those beyond the range of strtoll saturate |
| bootstrap.c:173-184 | a field with an enum type that is not declared: a NULL enum is dereferenced (`set_field_one` asks for a declared one) |
| register.c:168 | an extension inside a message of a message further down in the file keeps the file's own string as a key |
| proto.c:50-112 | a type declared twice; a file that declares the types of descriptor.proto |

## 6. Plan

Done, in this order: sessions, rooms, logger (the core of the system first);
then the pbc library, and accounts with their persistence.

Next, to model:

1. `Users`: one player's rows through UserSingleEntity, redis and dbmgr: load
   and get against updates (UserSingleEntity.lua:25, dbmgr.lua:126). To check: no
   update is undone by a load that began before it.
2. `MsgServer`: connections, handshake, reconnect, requests under way. To
   check: an answer goes to the connection of the user who asked; a
   disconnect of an old connection does not touch the new one.
3. `GameSeat`: game agent and watchdog, requests before auth is through.
4. A composition of `MsgServer` with the sessions of `LoginSession`.

Proved, in this order: the sessions' tables under faults, the logger's
assertions, ids of accounts; then sessions without faults with their
refinement, the safety properties of rooms, memory, redis and accounts under
binds, the logger as a queue, the memory and tables of pbc, and MySQL as the
backup of the accounts.

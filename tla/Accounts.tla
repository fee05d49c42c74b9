------------------------------ MODULE Accounts ------------------------------
(***************************************************************************)
(* The accounts of the login process, from a client's request to the disk. *)
(*                                                                         *)
(*   login/logind.lua                      register and bind               *)
(*   common/datacenter/accountdc.lua,                                      *)
(*   common/entitybase/CommonEntity.lua    the accounts in memory          *)
(*   common/dbmgr.lua                      the accounts in redis           *)
(*   common/dbsync.lua                     statements MySQL will execute   *)
(*                                                                         *)
(* A request runs in a coroutine of a login slave; an action is what one   *)
(* service does between two calls. Calls from one service to another and   *)
(* their answers keep their order, so the requests dbmgr works on move in  *)
(* step and cannot overtake each other.                                    *)
(***************************************************************************)
EXTENDS Integers, Sequences, SequencesExt, FiniteSetsExt

CONSTANTS
  Conns,        \* connections of clients to login slaves
  Keys,         \* pairs of sdkid and pid
  Guests,       \* those with sdkid SDKID_GUEST
  Existing,     \* tables d_account login may find at its start
  MaxExisting,  \* bound: the ids in them
  MaxRequests,  \* bound: requests of clients
  MaxStarts,    \* bound: crashes of login and starts of other processes
  None

Row == [id : Nat, key : Keys]

(* The id is the primary key of the table, and the key is unique.           *)
Keyed(t) == \A r, s \in t : r.id = s.id \/ r.key = s.key => r = s

ASSUME AccountsAssumption ==
  /\ Guests \subseteq Keys
  /\ {MaxExisting, MaxRequests, MaxStarts} \subseteq Nat
  /\ None \notin Keys \cup Row
  /\ \A t \in Existing : t \subseteq [id : 1..MaxExisting, key : Keys] /\ Keyed(t)

VARIABLES
  recordset,  \* accountdc: key -> row
  rows,       \* redis: key -> row, the hashes d_account:<key>
  index,      \* redis: id -> keys, the sets d_account:index:<id>
  lastid,     \* redis: d_account:id, 0 if it is not there
  calls,      \* dbmgr: the requests it works on
  queue,      \* dbsync: statements in the order they came
  syncer,     \* dbsync: the place of the statement MySQL has, 0, or None if its
              \* loop has ended
  table,      \* MySQL: the rows of d_account
  conn,       \* login slaves: what each connection waits for
  known,      \* ids of accounts loaded, or registered with 200 OK, less those a
              \* crash may have taken
  orphans,    \* ids there were when another process emptied redis
  trouble,    \* what happened since the start: "overlap", "order", "flush"
  bound

redis == <<rows, index, lastid>>
dbsync == <<queue, syncer, table>>
history == <<known, orphans, trouble, bound>>
vars == <<recordset, redis, calls, dbsync, conn, history>>

Idle == [pc |-> "idle", key |-> None, to |-> None, row |-> None]
NoRows == [k \in {} |-> None]

With(f, k, v) == [x \in DOMAIN f \cup {k} |-> IF x = k THEN v ELSE f[x]]
Without(f, k) == [x \in DOMAIN f \ {k} |-> f[x]]

-----------------------------------------------------------------------------
(* The start of login: redis is emptied and filled from MySQL, accountdc    *)
(* loads what the index names.                                              *)

Loaded(t) == [k \in {r.key : r \in t} |-> CHOOSE r \in t : r.key = k]

Indexed(t) == [i \in {r.id : r \in t} |-> {r.key : r \in {s \in t : s.id = i}}]

(* Without an index, whatever has the prefix of the table. *)
GetCommon(hashes, idx) ==
  LET named == UNION {idx[i] : i \in DOMAIN idx}
      keys == IF named = {} THEN DOMAIN hashes ELSE named
  IN [k \in keys |-> hashes[k]]

(* Mutant: load_maxkey is left out for common tables. *)
MaxKey_skipped(t) == 0

MaxKey(t) == IF t = {} THEN 0 ELSE Max({r.id : r \in t})

Init ==
  /\ bound = [requests |-> 0, starts |-> 0]
  /\ \E t \in Existing :
       /\ table = t
       /\ rows = Loaded(t) /\ index = Indexed(t) /\ lastid = MaxKey(t)
       /\ recordset = GetCommon(Loaded(t), Indexed(t))
       /\ known = {r.id : r \in t}
       /\ conn = [c \in Conns |-> Idle]
       /\ calls = <<>> /\ queue = <<>> /\ syncer = 0
       /\ orphans = {} /\ trouble = {}

-----------------------------------------------------------------------------
(* Requests of clients. *)

(* Two requests under way that name an account in common. *)
Overlaps(c, keys) ==
  \E d \in Conns \ {c} : conn[d].pc # "idle" /\ {conn[d].key, conn[d].to} \cap keys # {}

Begin(c, keys) ==
  /\ conn[c].pc = "idle"
  /\ bound.requests < MaxRequests
  /\ bound' = [bound EXCEPT !.requests = @ + 1]
  /\ trouble' = trouble \cup IF Overlaps(c, keys) THEN {"overlap"} ELSE {}

Record(k) == IF k \in DOMAIN recordset THEN recordset[k] ELSE None

(* 406 if there is such an account. *)
Register(c) ==
  \E k \in Keys :
    /\ Begin(c, {k})
    /\ conn' = IF Record(k) = None
               THEN [conn EXCEPT ![c] = [Idle EXCEPT !.pc = "nextid", !.key = k]]
               ELSE conn
    /\ UNCHANGED <<recordset, redis, calls, dbsync, known, orphans>>

GetNextId(c) ==
  /\ conn[c].pc = "nextid"
  /\ lastid' = lastid + 1
  /\ conn' = [conn EXCEPT ![c] = [@ EXCEPT !.pc = "add",
                                           !.row = [id |-> lastid + 1, key |-> conn[c].key]]]
  /\ UNCHANGED <<recordset, rows, index, calls, dbsync, history>>

(* Only accounts of guests are bound, 403 for others. *)
Bind(c) ==
  \E k \in Guests, to \in Keys :
    /\ Begin(c, {k, to})
    /\ conn' = [conn EXCEPT ![c] = [pc |-> "check", key |-> k, to |-> to, row |-> Record(k)]]
    /\ UNCHANGED <<recordset, redis, calls, dbsync, known, orphans>>

(* Mutant: the guest's account is deleted before it is known that the other *)
(* one is free.                                                             *)
Checked_late(c) ==
  /\ conn[c].pc = "check"
  /\ conn' = [conn EXCEPT ![c] = IF conn[c].row = None THEN Idle ELSE [@ EXCEPT !.pc = "delete"]]
  /\ UNCHANGED <<recordset, redis, calls, dbsync, history>>

(* An error if the other account exists, 404 if the guest's does not. *)
Checked(c) ==
  /\ conn[c].pc = "check"
  /\ conn' = [conn EXCEPT ![c] = IF Record(@.to) # None \/ @.row = None THEN Idle
                                 ELSE [@ EXCEPT !.pc = "delete"]]
  /\ UNCHANGED <<recordset, redis, calls, dbsync, history>>

(* accountdc calls dbmgr for a connection. *)
Ask(c, op, row) ==
  calls' = Append(calls, [op |-> op, row |-> row, by |-> c, done |-> 0])

(* What bind adds again: the account under its new key. *)
Bound(c) == [conn[c].row EXCEPT !.key = conn[c].to]

(* Mutant: the new key is in the row already when it is deleted. *)
Delete_new(c) ==
  /\ conn[c].pc = "delete"
  /\ IF Record(conn[c].to) # None
     THEN Ask(c, "delete", Bound(c)) /\ conn' = [conn EXCEPT ![c].pc = "deleting"]
     ELSE UNCHANGED calls /\ conn' = [conn EXCEPT ![c] = [@ EXCEPT !.pc = "add", !.row = Bound(c)]]
  /\ UNCHANGED <<recordset, redis, dbsync, history>>

(* CommonEntity.delete; bind does not look at its answer. *)
Delete(c) ==
  /\ conn[c].pc = "delete"
  /\ IF Record(conn[c].key) # None
     THEN Ask(c, "delete", conn[c].row) /\ conn' = [conn EXCEPT ![c].pc = "deleting"]
     ELSE UNCHANGED calls /\ conn' = [conn EXCEPT ![c] = [@ EXCEPT !.pc = "add", !.row = Bound(c)]]
  /\ UNCHANGED <<recordset, redis, dbsync, history>>

(* CommonEntity.add. If the key is taken, register raises an error and bind *)
(* answers 404.                                                             *)
Add(c) ==
  /\ conn[c].pc = "add"
  /\ IF Record(conn[c].row.key) # None
     THEN UNCHANGED calls /\ conn' = [conn EXCEPT ![c] = Idle]
     ELSE Ask(c, "add", conn[c].row) /\ conn' = [conn EXCEPT ![c].pc = "adding"]
  /\ UNCHANGED <<recordset, redis, dbsync, history>>

-----------------------------------------------------------------------------
(* dbmgr: hmset, zadd, sync, or del, zrem, sync. *)

InTurn(i, done) ==
  /\ i \in DOMAIN calls
  /\ calls[i].done = done
  /\ \A j \in 1..(i - 1) : calls[j].done > done

Done(i) == calls' = [calls EXCEPT ![i].done = @ + 1]

WriteRow(i) ==
  /\ InTurn(i, 0)
  /\ LET r == calls[i].row
     IN rows' = IF calls[i].op = "add" THEN With(rows, r.key, r) ELSE Without(rows, r.key)
  /\ Done(i)
  /\ UNCHANGED <<recordset, index, lastid, dbsync, conn, history>>

WriteIndex(i) ==
  /\ InTurn(i, 1)
  /\ LET r == calls[i].row
         keys == IF r.id \in DOMAIN index THEN index[r.id] ELSE {}
     IN index' = IF calls[i].op = "add" THEN With(index, r.id, keys \cup {r.key})
                 ELSE IF keys \subseteq {r.key} THEN Without(index, r.id)
                 ELSE With(index, r.id, keys \ {r.key})
  /\ Done(i)
  /\ UNCHANGED <<recordset, rows, lastid, dbsync, conn, history>>

Sync(i) ==
  /\ InTurn(i, 2)
  /\ queue' = Append(queue, [op |-> calls[i].op, row |-> calls[i].row])
  /\ Done(i)
  /\ UNCHANGED <<recordset, redis, syncer, table, conn, history>>

(* Mutant: the account stays in memory. *)
Return_kept ==
  /\ calls # <<>> /\ Head(calls).done = 3
  /\ calls' = Tail(calls)
  /\ LET call == Head(calls)
         c == call.by
     IN IF call.op = "add"
        THEN /\ recordset' = With(recordset, call.row.key, call.row)
             /\ conn' = [conn EXCEPT ![c] = Idle]
             /\ known' = known \cup {call.row.id}
        ELSE /\ UNCHANGED <<recordset, known>>
             /\ conn' = [conn EXCEPT ![c] = [@ EXCEPT !.pc = "add", !.row = Bound(c)]]
  /\ UNCHANGED <<redis, dbsync, orphans, trouble, bound>>

(* The answer of dbmgr: accountdc changes its records, the slave goes on:   *)
(* 200 after an add.                                                        *)
Return ==
  /\ calls # <<>> /\ Head(calls).done = 3
  /\ calls' = Tail(calls)
  /\ LET call == Head(calls)
         c == call.by
     IN IF call.op = "add"
        THEN /\ recordset' = With(recordset, call.row.key, call.row)
             /\ conn' = [conn EXCEPT ![c] = Idle]
             /\ known' = known \cup {call.row.id}
        ELSE /\ recordset' = Without(recordset, call.row.key)
             /\ conn' = [conn EXCEPT ![c] = [@ EXCEPT !.pc = "add", !.row = Bound(c)]]
             /\ UNCHANGED known
  /\ UNCHANGED <<redis, dbsync, orphans, trouble, bound>>

-----------------------------------------------------------------------------
(* dbsync and MySQL. *)

(* The table after a statement. The id is its primary key and the key is    *)
(* unique: an insert against that is refused, and the refusal is a result   *)
(* like any other.                                                          *)
Executed(t, sql) ==
  IF sql.op = "delete" THEN {r \in t : r.id # sql.row.id}
  ELSE IF \E r \in t : r.id = sql.row.id \/ r.key = sql.row.key THEN t
  ELSE t \cup {sql.row}

(* The loop takes any statement: pairs has no order, table.insert puts a    *)
(* statement at any border of a table with holes, and one that is added     *)
(* during a traversal may be met in it or in the next.                      *)
Execute(i) ==
  /\ syncer = 0
  /\ i \in DOMAIN queue
  /\ syncer' = i
  /\ trouble' = trouble \cup IF i = 1 THEN {} ELSE {"order"}
  /\ UNCHANGED <<recordset, redis, calls, queue, table, conn, known, orphans, bound>>

Waiting == syncer \notin {0, None}

(* Mutant: the statement stays in the queue. *)
Answered_kept ==
  /\ Waiting
  /\ table' = Executed(table, queue[syncer])
  /\ syncer' = 0
  /\ UNCHANGED <<recordset, redis, calls, queue, conn, history>>

(* Mutant: the queue is emptied, with what came in during the call. *)
Answered_all ==
  /\ Waiting
  /\ table' = Executed(table, queue[syncer])
  /\ queue' = <<>>
  /\ syncer' = 0
  /\ UNCHANGED <<recordset, redis, calls, conn, history>>

Answered ==
  /\ Waiting
  /\ table' = Executed(table, queue[syncer])
  /\ queue' = RemoveAt(queue, syncer)
  /\ syncer' = 0
  /\ UNCHANGED <<recordset, redis, calls, conn, history>>

(* The statement under way when something breaks may be executed or not. *)
MaybeExecuted ==
  IF Waiting THEN {table, Executed(table, queue[syncer])} ELSE {table}

(* An error of the pool ends the loop. *)
PoolFails ==
  /\ Waiting
  /\ table' \in MaybeExecuted
  /\ syncer' = None
  /\ UNCHANGED <<recordset, redis, calls, queue, conn, history>>

-----------------------------------------------------------------------------
(* Starts. *)

Ids(rs) == {r.id : r \in rs}
InMemory == {recordset[k] : k \in DOMAIN recordset}

(* Rows on their way to a table, and rows requests have in their hands.     *)
OnTheWay == {sql.row : sql \in ToSet(queue)} \cup {call.row : call \in ToSet(calls)}
InHands(cs) == {conn[c].row : c \in cs} \ {None}

(* What a crash may take, as the queue is in memory only: an account with a *)
(* statement on its way or that a bind has deleted and not yet added again; *)
(* and after an overlap, a flush or another order of the statements, which  *)
(* may keep an account out of MySQL for good, any of them.                  *)
Adding == {c \in Conns : conn[c].pc \in {"add", "adding"}}

AtRisk == IF trouble # {} THEN known ELSE Ids(OnTheWay \cup InHands(Adding))

(* Login crashes and starts again. *)
Restart ==
  /\ bound.starts < MaxStarts
  /\ bound' = [bound EXCEPT !.starts = @ + 1]
  /\ \E t \in MaybeExecuted :
       /\ table' = t
       /\ rows' = Loaded(t) /\ index' = Indexed(t) /\ lastid' = MaxKey(t)
       /\ recordset' = GetCommon(Loaded(t), Indexed(t))
       /\ known' = Ids(t) \cup (known \ AtRisk)
       /\ conn' = [c \in Conns |-> Idle]
       /\ calls' = <<>> /\ queue' = <<>> /\ syncer' = 0
       /\ orphans' = {} /\ trouble' = {}

(* A hall or a game server starts: it empties the redis it shares with      *)
(* login and fills in its own tables. Of the ids there are by then dbmgr    *)
(* knows nothing any more.                                                  *)
PeerStarts ==
  /\ bound.starts < MaxStarts
  /\ bound' = [bound EXCEPT !.starts = @ + 1]
  /\ rows' = NoRows /\ index' = NoRows /\ lastid' = 0
  /\ orphans' = orphans \cup Ids(InMemory \cup table \cup OnTheWay \cup InHands(Conns))
  /\ trouble' = trouble \cup {"flush"}
  /\ UNCHANGED <<recordset, calls, dbsync, conn, known>>

Next ==
  \/ \E c \in Conns : \/ Register(c) \/ GetNextId(c) \/ Bind(c) \/ Checked(c)
                      \/ Delete(c) \/ Add(c)
  \/ \E i \in DOMAIN calls : WriteRow(i) \/ WriteIndex(i) \/ Sync(i)
  \/ Return
  \/ \E i \in DOMAIN queue : Execute(i)
  \/ Answered
  \/ PoolFails
  \/ Restart
  \/ PeerStarts

(* The loop of dbsync goes on, and MySQL or its pool answers. *)
Spec ==
  /\ Init /\ [][Next]_vars
  /\ WF_vars(\E i \in DOMAIN queue : Execute(i))
  /\ WF_vars(Answered \/ PoolFails)

-----------------------------------------------------------------------------
(* The properties. *)

(* When dbmgr has nothing to do, redis has the accounts that are in memory, *)
(* whatever requests overlapped. If none did, they can be found by the      *)
(* index as well (CommonEntity.lua:32, 45, dbmgr.lua:437-440, 488-491).     *)
MemoryIsRedis ==
  calls = <<>> /\ "flush" \notin trouble =>
    /\ rows = recordset
    /\ "overlap" \notin trouble => GetCommon(rows, index) = recordset

(* The id a registration goes on with belongs to no other account, in       *)
(* memory, in MySQL or on the way there, unless that account was there when *)
(* another process emptied redis: from then on dbmgr counts from 1 again.   *)
(* In the documented order of starts (doc/guide.md:3-8) the hall does that  *)
(* to the accounts login has loaded (Entity.lua:20, dbmgr.lua:157-164,      *)
(* redispool.lua:31).                                                       *)
IdsFresh ==
  \A c \in Conns : conn[c].pc = "add" /\ conn[c].to = None =>
    conn[c].row.id \notin
      Ids(InMemory \cup table \cup OnTheWay \cup InHands(Conns \ {c})) \ orphans

Calm == trouble \cap {"overlap", "flush"} = {}

(* An account is never found under two keys, while one is bound to another  *)
(* (logind.lua:52-58).                                                      *)
OneKeyPerAccount ==
  Calm => \A k, l \in DOMAIN recordset : recordset[k].id = recordset[l].id => k = l

(* An account that was loaded, or registered with 200 OK, is in memory or   *)
(* in the hands of a bind that will add it again, also when another process *)
(* empties redis. Through a crash this holds of every account but those in  *)
(* AtRisk: one whose insert is still queued is lost although its client was *)
(* told 200 OK (logind.lua:41-60, CommonEntity.lua:24, dbsync.lua:14-26).   *)
AccountKept ==
  "overlap" \notin trouble =>
    \A i \in known :
      \/ i \in Ids(InMemory)
      \/ \E c \in Conns : /\ conn[c].pc \in {"add", "adding"}
                          /\ conn[c].to # None /\ conn[c].row.id = i

(* MySQL's table t when the statements q are executed in that order. *)
Drained(t, q) ==
  LET after[n \in 0..Len(q)] == IF n = 0 THEN t ELSE Executed(after[n-1], q[n])
  IN after[Len(q)]

(* Once MySQL has executed what is in the queue, in that order, it has the  *)
(* accounts that are in memory (doc/persist.md:14, dbsync.lua:20-24).       *)
BackupCatchesUp ==
  calls = <<>> /\ trouble = {} => Drained(table, queue) = InMemory

(* All statements are executed at last, if the loop does not end            *)
(* (dbsync.lua:18-27).                                                      *)
QueueDrains == []<>(queue = <<>> \/ syncer = None)
=============================================================================

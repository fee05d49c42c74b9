-------------------------- MODULE Accounts_proofs --------------------------
(***************************************************************************)
(* Machine-checked proofs about Accounts, for any connections, keys,       *)
(* databases and numbers of requests and starts.                           *)
(*                                                                         *)
(* IdsFresh is about ids that registrations hold, but what makes them      *)
(* fresh is the counter in redis.  IdInv says that it is beyond every id   *)
(* there is, wherever a row is on its way, but for those that were there   *)
(* when another process emptied redis, and that it finds a maximum when    *)
(* login starts.                                                           *)
(***************************************************************************)
EXTENDS Accounts, SequenceTheorems, WellFoundedInduction, TLAPS

-----------------------------------------------------------------------------
(* The inductive invariant.                                                *)

Ops == {"add", "delete"}
Statement == [op : Ops, row : Row]
Call == [op : Ops, row : Row, by : Conns, done : Nat]
Stages == {"idle", "nextid", "check", "delete", "deleting", "add", "adding"}
Connection == [pc : Stages, key : Keys \cup {None}, to : Keys \cup {None},
               row : Row \cup {None}]

(* What a request has in its hands, by how far it is. *)
HasWhatItNeeds(x) ==
  /\ x.pc = "nextid" => x.key \in Keys
  /\ x.pc \in {"check", "delete", "deleting"} => x.to \in Keys
  /\ x.pc \in {"delete", "deleting", "add", "adding"} => x.row \in Row

Typed ==
  /\ \A k \in DOMAIN recordset : recordset[k] \in Row
  /\ table \in SUBSET Row
  /\ lastid \in Nat
  /\ queue \in Seq(Statement)
  /\ calls \in Seq(Call)
  /\ conn \in [Conns -> Connection]
  /\ \A c \in Conns : HasWhatItNeeds(conn[c])
  /\ Waiting => syncer \in DOMAIN queue

(* Every call to dbmgr has a request of its own that waits for it. *)
WaitsFor(c, op) == conn[c].pc = IF op = "add" THEN "adding" ELSE "deleting"

CallsAwaited ==
  /\ \A i \in DOMAIN calls : WaitsFor(calls[i].by, calls[i].op)
  /\ \A i, j \in DOMAIN calls : calls[i].by = calls[j].by => i = j

(* Where ids are: in tables and on their way to them, and with requests. *)
Stored ==
  Ids(InMemory \cup table) \cup Ids({sql.row : sql \in ToSet(queue)})
    \cup Ids({call.row : call \in ToSet(calls)})

HeldBy(c) == Ids({conn[c].row} \ {None})

UpTo(n, but) ==
  /\ \A i \in Stored \ but : i <= n
  /\ \A c \in Conns : \A i \in HeldBy(c) \ but : i <= n

Bounded == \E m \in Nat : lastid <= m /\ UpTo(m, {})

Counted == UpTo(lastid, orphans)

Fresh(c) == conn[c].pc = "add" /\ conn[c].to = None

FreshApart ==
  \A c \in Conns : Fresh(c) =>
    /\ conn[c].row.id \notin Stored \ orphans
    /\ \A d \in Conns \ {c} : conn[c].row.id \notin HeldBy(d) \ orphans

IdInv == Bounded /\ Counted /\ FreshApart

IndInv == Typed /\ CallsAwaited /\ IdInv

-----------------------------------------------------------------------------
(* Facts about data.                                                       *)

(* A bounded set of natural numbers has a maximum, and Max is it. *)
LEMMA MaxIsThere ==
  ASSUME NEW S \in SUBSET Nat, S # {}, NEW m \in Nat, \A x \in S : x <= m
  PROVE  Max(S) \in S /\ \A y \in S : y <= Max(S)
<1> DEFINE R == {p \in Nat \X Nat : p[1] < p[2]}
           T == {n \in Nat : \E x \in S : n = m - x}
<1>1. IsWellFoundedOn(R, Nat)
  BY NatLessThanWellFounded DEF OpToRel
<1>2. PICK n \in T : \A k \in T : <<k, n>> \notin R
  <2>1. PICK x \in S : TRUE  OBVIOUS
  <2>2. m - x \in T  OBVIOUS
  <2> QED BY <1>1, <2>2, WFMin
<1>3. PICK x \in S : n = m - x  BY <1>2
<1>4. ASSUME NEW y \in S PROVE y <= x
  <2>1. m - y \in T  OBVIOUS
  <2>2. <<m - y, n>> \notin R  BY <1>2, <2>1
  <2>3. ~(m - y < n)  BY <2>1, <2>2, <1>2
  <2> QED BY <2>3, <1>3
<1> QED BY <1>3, <1>4 DEF Max

LEMMA Appended ==
  ASSUME NEW S, NEW s \in Seq(S), NEW e \in S
  PROVE  /\ Append(s, e) \in Seq(S)
         /\ Len(Append(s, e)) = Len(s) + 1
         /\ DOMAIN Append(s, e) = 1..(Len(s) + 1)
         /\ \A i \in DOMAIN s : Append(s, e)[i] = s[i]
         /\ Append(s, e)[Len(s) + 1] = e
         /\ ToSet(Append(s, e)) = ToSet(s) \cup {e}
BY DEF ToSet

LEMMA Tailed ==
  ASSUME NEW S, NEW s \in Seq(S), s # <<>>
  PROVE  /\ Tail(s) \in Seq(S)
         /\ \A i \in DOMAIN Tail(s) : i + 1 \in DOMAIN s /\ Tail(s)[i] = s[i + 1]
         /\ ToSet(Tail(s)) \subseteq ToSet(s)
         /\ Head(s) \in ToSet(s) /\ Head(s) = s[1] /\ 1 \in DOMAIN s
BY DEF ToSet

LEMMA Removed ==
  ASSUME NEW S, NEW s \in Seq(S), NEW i \in DOMAIN s
  PROVE  /\ RemoveAt(s, i) \in Seq(S)
         /\ ToSet(RemoveAt(s, i)) \subseteq ToSet(s)
<1> DEFINE a == SubSeq(s, 1, i - 1)
           b == SubSeq(s, i + 1, Len(s))
<1>1. i \in 1..Len(s) /\ Len(s) \in Nat  OBVIOUS
<1>2. \A j \in 1..Len(s) : s[j] \in ToSet(s)  BY DEF ToSet
<1>3. a \in Seq(ToSet(s))
  <2>1. \A j \in 1..(i - 1) : s[j] \in ToSet(s)  BY <1>1, <1>2
  <2> QED BY <1>1, <2>1, SubSeqProperties
<1>4. b \in Seq(ToSet(s))
  <2>1. \A j \in (i + 1)..Len(s) : s[j] \in ToSet(s)  BY <1>1, <1>2
  <2> QED BY <1>1, <2>1, SubSeqProperties
<1>5. a \o b \in Seq(ToSet(s))
  <2> HIDE DEF a, b
  <2> QED BY <1>3, <1>4, ConcatProperties
<1>6. ToSet(s) \subseteq S  BY DEF ToSet
<1>7. a \o b \in Seq(S)  BY <1>5, <1>6, SeqMonotonic
<1>8. ToSet(a \o b) \subseteq ToSet(s)
  <2> HIDE DEF a, b
  <2>1. DOMAIN (a \o b) = 1..Len(a \o b)  BY <1>5
  <2> QED BY <1>5, <2>1, ElementOfSeq DEF ToSet
<1> QED BY <1>7, <1>8 DEF RemoveAt

-----------------------------------------------------------------------------
(* How ids move.                                                           *)

(* A step that moves rows between tables only. *)
LEMMA RowsMove ==
  ASSUME Typed, IdInv,
         Stored' \subseteq Stored, conn' = conn, lastid' = lastid, orphans' = orphans
  PROVE  IdInv'
<1>1. \A c \in Conns : HeldBy(c)' = HeldBy(c)  BY DEF HeldBy, Ids
<1>2. \A n, but : UpTo(n, but) => UpTo(n, but)'  BY <1>1 DEF UpTo
<1>3. Bounded'  BY <1>2 DEF IdInv, Bounded
<1>4. Counted'  BY <1>2 DEF IdInv, Counted
<1>5. FreshApart'
  BY <1>1 DEF IdInv, FreshApart, Fresh
<1> QED BY <1>3, <1>4, <1>5 DEF IdInv

(* A step of one request that leaves no new id in its hands. *)
LEMMA RequestMoves ==
  ASSUME Typed, IdInv, NEW c \in Conns,
         Stored' \subseteq Stored \cup HeldBy(c),
         HeldBy(c)' \subseteq Stored \cup HeldBy(c),
         ~ Fresh(c)',
         \A d \in Conns \ {c} : conn'[d] = conn[d],
         lastid' = lastid, orphans' = orphans
  PROVE  IdInv'
<1>1. \A d \in Conns \ {c} : HeldBy(d)' = HeldBy(d)  BY DEF HeldBy, Ids
<1>2. ASSUME NEW n, NEW but, UpTo(n, but) PROVE UpTo(n, but)'
  BY <1>1, <1>2 DEF UpTo
<1>3. Bounded'
  BY <1>2 DEF IdInv, Bounded
<1>4. Counted'
  BY <1>2 DEF IdInv, Counted
<1>5. FreshApart'
  <2> SUFFICES ASSUME NEW d \in Conns, Fresh(d)'
               PROVE  /\ conn'[d].row.id \notin Stored' \ orphans
                      /\ \A e \in Conns \ {d} : conn'[d].row.id \notin HeldBy(e)' \ orphans
    BY DEF FreshApart
  <2>1. d # c /\ conn'[d] = conn[d]  OBVIOUS
  <2>2. Fresh(d)  BY <2>1 DEF Fresh
  <2>3. /\ conn[d].row.id \notin Stored \ orphans
        /\ \A e \in Conns \ {d} : conn[d].row.id \notin HeldBy(e) \ orphans
    BY <2>2 DEF IdInv, FreshApart
  <2>4. conn[d].row.id \notin HeldBy(c) \ orphans  BY <2>1, <2>3
  <2> QED BY <1>1, <2>1, <2>3, <2>4
<1> QED BY <1>3, <1>4, <1>5 DEF IdInv

LEMMA Elements ==
  ASSUME NEW S, NEW s \in Seq(S)
  PROVE  ToSet(s) \subseteq S
BY DEF ToSet

(* Rows of statements and of calls are rows. *)
LEMMA RowsAreRows ==
  ASSUME Typed
  PROVE  /\ \A sql \in ToSet(queue) : sql \in Statement /\ sql.row \in Row
         /\ \A call \in ToSet(calls) : call \in Call /\ call.row \in Row
<1>1. ToSet(queue) \subseteq Statement  BY Elements DEF Typed
<1>2. ToSet(calls) \subseteq Call  BY Elements DEF Typed
<1> QED BY <1>1, <1>2 DEF Statement, Call

LEMMA IdsAreNumbers ==
  ASSUME Typed
  PROVE  /\ Stored \subseteq Nat
         /\ \A c \in Conns : HeldBy(c) \subseteq Nat
         /\ \A c \in Conns : conn[c].row # None => HeldBy(c) = {conn[c].row.id}
         /\ \A c \in Conns : conn[c].row \in Row => conn[c].row # None
<1>1. \A sql \in ToSet(queue) : sql.row \in Row  BY RowsAreRows
<1>2. \A call \in ToSet(calls) : call.row \in Row  BY RowsAreRows
<1>3. InMemory \cup table \subseteq Row  BY DEF Typed, InMemory
<1>4. \A c \in Conns : conn[c].row \in Row \cup {None}  BY DEF Typed, Connection
<1>5. Stored \subseteq Nat  BY <1>1, <1>2, <1>3 DEF Stored, Ids, Row
<1>6. None \notin Row  BY AccountsAssumption
<1>7. \A c \in Conns : HeldBy(c) \subseteq Nat  BY <1>4 DEF HeldBy, Ids, Row
<1>8. \A c \in Conns : conn[c].row # None => HeldBy(c) = {conn[c].row.id}
  BY DEF HeldBy, Ids
<1> QED BY <1>5, <1>6, <1>7, <1>8

-----------------------------------------------------------------------------
(* Starts.                                                                 *)

(* What a start finds in table t. *)
StartedFrom(t) ==
  /\ table = t /\ lastid = MaxKey(t)
  /\ recordset = GetCommon(Loaded(t), Indexed(t))
  /\ conn = [c \in Conns |-> Idle]
  /\ calls = <<>> /\ queue = <<>> /\ syncer = 0
  /\ orphans = {}

LEMMA LoadedRows ==
  ASSUME NEW t
  PROVE  \A k \in DOMAIN GetCommon(Loaded(t), Indexed(t)) :
           GetCommon(Loaded(t), Indexed(t))[k] \in t
<1>1. \A k \in DOMAIN Loaded(t) : Loaded(t)[k] \in t  BY DEF Loaded
<1>2. UNION {Indexed(t)[i] : i \in DOMAIN Indexed(t)} \subseteq DOMAIN Loaded(t)
  <2>1. \A i \in DOMAIN Indexed(t) : Indexed(t)[i] \subseteq {r.key : r \in t}
    BY DEF Indexed
  <2>2. DOMAIN Loaded(t) = {r.key : r \in t}  BY DEF Loaded
  <2> QED BY <2>1, <2>2
<1> QED BY <1>1, <1>2 DEF GetCommon

LEMMA MaxKeyReached ==
  ASSUME NEW t \in SUBSET Row, NEW m \in Nat, \A r \in t : r.id <= m
  PROVE  MaxKey(t) \in Nat /\ \A r \in t : r.id <= MaxKey(t)
<1>1. CASE t = {}  BY <1>1 DEF MaxKey
<1>2. CASE t # {}
  <2> DEFINE S == {r.id : r \in t}
  <2>1. S \in SUBSET Nat /\ S # {} /\ \A x \in S : x <= m  BY <1>2 DEF Row
  <2> HIDE DEF S
  <2>2. Max(S) \in S /\ \A y \in S : y <= Max(S)  BY <2>1, MaxIsThere
  <2>3. MaxKey(t) = Max(S)  BY <1>2 DEF MaxKey, S
  <2> QED BY <2>1, <2>2, <2>3 DEF S
<1> QED BY <1>1, <1>2

LEMMA StartsSound ==
  \A t \in SUBSET Row : \A m \in Nat :
    (\A r \in t : r.id <= m) /\ StartedFrom(t) => IndInv
<1> SUFFICES ASSUME NEW t \in SUBSET Row, NEW m \in Nat, \A r \in t : r.id <= m,
                    StartedFrom(t)
             PROVE  IndInv
  OBVIOUS
<1>1. MaxKey(t) \in Nat /\ \A r \in t : r.id <= MaxKey(t)  BY MaxKeyReached
<1>2. \A k \in DOMAIN recordset : recordset[k] \in t  BY LoadedRows DEF StartedFrom
<1>3. \A c \in Conns : conn[c] = Idle  BY DEF StartedFrom
<1>4. Typed
  <2>1. conn \in [Conns -> Connection] /\ \A c \in Conns : HasWhatItNeeds(conn[c])
    BY <1>3 DEF StartedFrom, Idle, Connection, Stages, HasWhatItNeeds
  <2> QED BY <1>1, <1>2, <2>1 DEF StartedFrom, Typed, Waiting
<1>5. CallsAwaited  BY DEF StartedFrom, CallsAwaited
<1>6. Stored \subseteq Ids(t)
  BY <1>2 DEF StartedFrom, Stored, Ids, InMemory, ToSet
<1>7. \A c \in Conns : HeldBy(c) = {} /\ ~ Fresh(c)
  BY <1>3 DEF HeldBy, Ids, Idle, Fresh
<1>8. UpTo(lastid, {})  BY <1>1, <1>6, <1>7 DEF UpTo, StartedFrom, Ids
<1>9. Bounded /\ Counted  BY <1>4, <1>8 DEF Bounded, Counted, Typed, StartedFrom
<1>10. FreshApart  BY <1>7 DEF FreshApart
<1> QED BY <1>4, <1>5, <1>9, <1>10 DEF IndInv, IdInv

LEMMA InitSound == Init => IndInv
<1> SUFFICES ASSUME Init PROVE IndInv  OBVIOUS
<1>1. PICK t \in Existing : StartedFrom(t)  BY DEF Init, StartedFrom
<1>2. t \in SUBSET Row /\ MaxExisting \in Nat /\ \A r \in t : r.id <= MaxExisting
  BY AccountsAssumption DEF Row
<1> QED BY <1>1, <1>2, StartsSound

(* A statement changes a table by its own row at most. *)
LEMMA ExecutedRows ==
  ASSUME NEW t, NEW sql
  PROVE  Executed(t, sql) \subseteq t \cup {sql.row}
BY DEF Executed

LEMMA StatementUnderWay ==
  ASSUME Typed, Waiting
  PROVE  /\ syncer \in DOMAIN queue /\ queue[syncer] \in Statement
         /\ queue[syncer] \in ToSet(queue) /\ queue[syncer].row \in Row
<1>1. syncer \in DOMAIN queue  BY DEF Typed
<1>2. queue[syncer] \in ToSet(queue)  BY <1>1 DEF ToSet
<1> QED BY <1>1, <1>2, RowsAreRows

LEMMA RestartSound ==
  ASSUME IndInv, Restart
  PROVE  IndInv'
<1>0. (\A t \in SUBSET Row : \A m \in Nat :
         (\A r \in t : r.id <= m) /\ StartedFrom(t) => IndInv)'
  BY StartsSound, PTL
<1>1. PICK t \in MaybeExecuted : StartedFrom(t)'  BY DEF Restart, StartedFrom
<1>2. t \subseteq table \cup {sql.row : sql \in ToSet(queue)}
  BY StatementUnderWay, ExecutedRows DEF IndInv, MaybeExecuted
<1>3. t \in SUBSET Row
  BY <1>2, RowsAreRows DEF IndInv, Typed
<1>4. PICK m \in Nat : UpTo(m, {})  BY DEF IndInv, IdInv, Bounded
<1>5. \A r \in t : r.id <= m
  BY <1>2, <1>4 DEF UpTo, Stored, Ids
<1> QED BY <1>0, <1>1, <1>3, <1>4, <1>5

-----------------------------------------------------------------------------
(* Steps of requests.                                                      *)

LEMMA ConnChanged ==
  ASSUME Typed, NEW c \in Conns, NEW x \in Connection, HasWhatItNeeds(x),
         conn' = [conn EXCEPT ![c] = x]
  PROVE  /\ conn' \in [Conns -> Connection]
         /\ \A d \in Conns : HasWhatItNeeds(conn'[d])
         /\ conn'[c] = x
         /\ \A d \in Conns \ {c} : conn'[d] = conn[d]
BY DEF Typed

(* A call dbmgr works on. *)
LEMMA CallAt ==
  ASSUME Typed, NEW i \in DOMAIN calls
  PROVE  /\ calls[i] \in ToSet(calls)
         /\ calls[i] \in Call
         /\ calls[i].op \in Ops /\ calls[i].row \in Row /\ calls[i].by \in Conns
         /\ calls[i].row.id \in Stored
<1>1. calls[i] \in ToSet(calls)  BY DEF ToSet
<1>2. calls[i] \in Call  BY <1>1, RowsAreRows
<1>3. calls[i].row.id \in Stored  BY <1>1 DEF Stored, Ids
<1> QED BY <1>1, <1>2, <1>3 DEF Call

(* A request for which dbmgr does nothing goes on alone. *)
LEMMA RequestStep ==
  ASSUME IndInv, NEW c \in Conns, NEW x \in Connection, HasWhatItNeeds(x),
         conn[c].pc \notin {"adding", "deleting"},
         conn' = [conn EXCEPT ![c] = x],
         x.pc # "add" \/ x.to # None,
         Ids({x.row} \ {None}) \subseteq Stored \cup HeldBy(c),
         UNCHANGED <<recordset, lastid, calls, dbsync, orphans>>
  PROVE  IndInv'
<1>1. /\ conn' \in [Conns -> Connection]
      /\ \A d \in Conns : HasWhatItNeeds(conn'[d])
      /\ conn'[c] = x
      /\ \A d \in Conns \ {c} : conn'[d] = conn[d]
  BY ConnChanged DEF IndInv
<1>2. Typed'  BY <1>1 DEF IndInv, Typed, dbsync, Waiting
<1>3. CallsAwaited'
  <2>1. \A i \in DOMAIN calls : calls[i].by \in Conns  BY CallAt DEF IndInv
  <2>2. \A i \in DOMAIN calls : calls[i].by # c  BY DEF IndInv, CallsAwaited, WaitsFor
  <2> QED BY <1>1, <2>1, <2>2 DEF IndInv, CallsAwaited, WaitsFor
<1>4. Stored' = Stored  BY DEF Stored, InMemory, Ids, dbsync
<1>5. HeldBy(c)' \subseteq Stored \cup HeldBy(c)  BY <1>1 DEF HeldBy
<1>6. ~ Fresh(c)'  BY <1>1 DEF Fresh
<1> QED BY <1>1, <1>2, <1>3, <1>4, <1>5, <1>6, RequestMoves DEF IndInv

(* Nothing the invariant is about changes. *)
LEMMA QuietStep ==
  ASSUME IndInv, UNCHANGED <<recordset, lastid, calls, dbsync, conn, orphans>>
  PROVE  IndInv'
<1>1. Typed'  BY DEF IndInv, Typed, dbsync, Waiting
<1>2. CallsAwaited'  BY DEF IndInv, CallsAwaited, WaitsFor
<1>3. Stored' = Stored  BY DEF Stored, InMemory, Ids, dbsync
<1> QED BY <1>1, <1>2, <1>3, RowsMove DEF IndInv

(* The counter is lost, and every id there is by then is an orphan. *)
LEMMA PeerKeeps ==
  ASSUME IndInv, PeerStarts
  PROVE  IndInv'
<1>1. UNCHANGED <<recordset, calls, dbsync, conn>> /\ lastid' = 0
  BY DEF PeerStarts
<1>2. Typed'  BY <1>1 DEF IndInv, Typed, dbsync, Waiting
<1>3. CallsAwaited'  BY <1>1 DEF IndInv, CallsAwaited, WaitsFor
<1>4. Stored' = Stored /\ \A c \in Conns : HeldBy(c)' = HeldBy(c)
  BY <1>1 DEF Stored, HeldBy, InMemory, Ids, dbsync
<1>5. Stored \subseteq orphans' /\ \A c \in Conns : HeldBy(c) \subseteq orphans'
  BY DEF PeerStarts, Stored, HeldBy, OnTheWay, InHands, Ids
<1>6. Bounded'
  <2>1. PICK m \in Nat : UpTo(m, {})  BY DEF IndInv, IdInv, Bounded
  <2>2. UpTo(m, {})'  BY <1>4, <2>1 DEF UpTo
  <2> QED BY <1>1, <2>2 DEF Bounded
<1>7. Counted'  BY <1>4, <1>5 DEF Counted, UpTo
<1>8. FreshApart'  BY <1>4, <1>5 DEF FreshApart
<1> QED BY <1>2, <1>3, <1>6, <1>7, <1>8 DEF IndInv, IdInv

LEMMA RegisterKeeps ==
  ASSUME IndInv, NEW c \in Conns, Register(c)
  PROVE  IndInv'
<1>1. PICK k \in Keys :
        /\ Begin(c, {k})
        /\ conn' = IF Record(k) = None
                   THEN [conn EXCEPT ![c] = [Idle EXCEPT !.pc = "nextid", !.key = k]]
                   ELSE conn
        /\ UNCHANGED <<recordset, redis, calls, dbsync, known, orphans>>
  BY DEF Register
<1>2. conn[c].pc = "idle"  BY <1>1 DEF Begin
<1>3. lastid' = lastid  BY <1>1 DEF redis
<1>4. CASE conn' = conn  BY <1>1, <1>2, <1>3, <1>4, QuietStep
<1>5. CASE conn' = [conn EXCEPT ![c] = [Idle EXCEPT !.pc = "nextid", !.key = k]]
  <2> DEFINE x == [Idle EXCEPT !.pc = "nextid", !.key = k]
  <2>1. x \in Connection /\ HasWhatItNeeds(x) /\ x.pc = "nextid" /\ x.row = None
    BY DEF Idle, Connection, Stages, HasWhatItNeeds
  <2>2. Ids({x.row} \ {None}) = {}  BY <2>1 DEF Ids
  <2> HIDE DEF x
  <2> QED BY <1>1, <1>2, <1>3, <1>5, <2>1, <2>2, RequestStep DEF x
<1> QED BY <1>1, <1>4, <1>5

LEMMA RecordStored ==
  ASSUME IndInv, NEW k
  PROVE  /\ Record(k) \in Row \cup {None}
         /\ Ids({Record(k)} \ {None}) \subseteq Stored
<1>1. CASE k \in DOMAIN recordset
  <2>1. Record(k) \in InMemory /\ Record(k) \in Row
    BY <1>1 DEF Record, InMemory, IndInv, Typed
  <2> QED BY <2>1 DEF Stored, Ids
<1>2. CASE k \notin DOMAIN recordset  BY <1>2 DEF Record, Ids
<1> QED BY <1>1, <1>2

LEMMA BindKeeps ==
  ASSUME IndInv, NEW c \in Conns, Bind(c)
  PROVE  IndInv'
<1>1. PICK k \in Guests, to \in Keys :
        /\ Begin(c, {k, to})
        /\ conn' = [conn EXCEPT ![c] = [pc |-> "check", key |-> k, to |-> to,
                                         row |-> Record(k)]]
        /\ UNCHANGED <<recordset, redis, calls, dbsync, known, orphans>>
  BY DEF Bind
<1>2. conn[c].pc = "idle"  BY <1>1 DEF Begin
<1>3. lastid' = lastid  BY <1>1 DEF redis
<1> DEFINE x == [pc |-> "check", key |-> k, to |-> to, row |-> Record(k)]
<1>4. x \in Connection /\ HasWhatItNeeds(x) /\ x.pc = "check"
  BY AccountsAssumption, RecordStored DEF Connection, Stages, HasWhatItNeeds
<1>5. Ids({x.row} \ {None}) \subseteq Stored  BY RecordStored
<1> HIDE DEF x
<1> QED BY <1>1, <1>2, <1>3, <1>4, <1>5, RequestStep DEF x

(* The new id is beyond all others but the orphans. *)
LEMMA GetNextIdKeeps ==
  ASSUME IndInv, NEW c \in Conns, GetNextId(c)
  PROVE  IndInv'
<1> DEFINE x == [conn[c] EXCEPT !.pc = "add",
                                !.row = [id |-> lastid + 1, key |-> conn[c].key]]
<1>0. /\ Stored \subseteq Nat
      /\ \A d \in Conns : HeldBy(d) \subseteq Nat
      /\ \A d \in Conns : conn[d].row \in Row => HeldBy(d) = {conn[d].row.id}
  <2>1. Typed  BY DEF IndInv
  <2> QED BY <2>1, IdsAreNumbers
<1>1. /\ conn[c].pc = "nextid" /\ conn' = [conn EXCEPT ![c] = x]
      /\ lastid' = lastid + 1
      /\ UNCHANGED <<recordset, calls, dbsync, orphans>>
  BY DEF GetNextId, history
<1>2. lastid \in Nat /\ conn[c] \in Connection /\ conn[c].key \in Keys
  BY <1>1 DEF IndInv, Typed, HasWhatItNeeds
<1>3. /\ x \in Connection /\ HasWhatItNeeds(x)
      /\ x.row \in Row /\ x.row.id = lastid + 1
  <2>1. [id |-> lastid + 1, key |-> conn[c].key] \in Row  BY <1>2 DEF Row
  <2> QED BY <1>2, <2>1 DEF Connection, Stages, HasWhatItNeeds
<1> HIDE DEF x
<1>4. /\ conn' \in [Conns -> Connection]
      /\ \A d \in Conns : HasWhatItNeeds(conn'[d])
      /\ conn'[c] = x
      /\ \A d \in Conns \ {c} : conn'[d] = conn[d]
  BY <1>1, <1>3, ConnChanged DEF IndInv
<1>5. Typed'  BY <1>1, <1>2, <1>4 DEF IndInv, Typed, dbsync, Waiting
<1>6. CallsAwaited'
  <2>1. \A i \in DOMAIN calls : calls[i].by \in Conns  BY CallAt DEF IndInv
  <2>2. \A i \in DOMAIN calls : calls[i].by # c
    BY <1>1 DEF IndInv, CallsAwaited, WaitsFor
  <2> QED BY <1>1, <1>4, <2>1, <2>2 DEF IndInv, CallsAwaited, WaitsFor
<1>7. Stored' = Stored  BY <1>1 DEF Stored, InMemory, Ids, dbsync
<1>8. HeldBy(c)' = {lastid + 1}
  BY <1>3, <1>4, AccountsAssumption DEF HeldBy, Ids
<1>9. \A d \in Conns \ {c} : HeldBy(d)' = HeldBy(d)  BY <1>4 DEF HeldBy, Ids
<1>10. Bounded'
  <2>1. PICK m \in Nat : lastid <= m /\ UpTo(m, {})  BY DEF IndInv, IdInv, Bounded
  <2>2. \A i \in Stored : i <= m + 1  BY <1>0, <2>1 DEF UpTo
  <2>3. ASSUME NEW d \in Conns, NEW i \in HeldBy(d)' PROVE i <= m + 1
    <3>1. CASE d = c  BY <1>2, <1>8, <2>1, <2>3, <3>1
    <3>2. CASE d # c
      <4>1. i \in HeldBy(d) /\ i \in Nat  BY <1>0, <1>9, <2>3, <3>2
      <4> QED BY <2>1, <4>1 DEF UpTo
    <3> QED BY <3>1, <3>2
  <2>4. UpTo(m + 1, {})'  BY <1>7, <2>2, <2>3 DEF UpTo
  <2> QED BY <1>1, <1>2, <2>1, <2>4 DEF Bounded
<1>11. /\ \A i \in Stored \ orphans : i \in Nat /\ i <= lastid
       /\ \A d \in Conns : \A i \in HeldBy(d) \ orphans : i \in Nat /\ i <= lastid
  BY <1>0 DEF IndInv, IdInv, Counted, UpTo
<1>12. Counted'
  <2>1. \A i \in Stored \ orphans : i <= lastid + 1  BY <1>2, <1>11
  <2>2. ASSUME NEW d \in Conns, NEW i \in HeldBy(d)' \ orphans PROVE i <= lastid + 1
    <3>1. CASE d = c  BY <1>2, <1>8, <2>2, <3>1
    <3>2. CASE d # c  BY <1>2, <1>9, <1>11, <2>2, <3>2
    <3> QED BY <3>1, <3>2
  <2> QED BY <1>1, <1>7, <2>1, <2>2 DEF Counted, UpTo
<1>13. FreshApart'
  <2> SUFFICES ASSUME NEW d \in Conns, Fresh(d)'
               PROVE  /\ conn'[d].row.id \notin Stored \ orphans
                      /\ \A e \in Conns \ {d} : conn'[d].row.id \notin HeldBy(e)' \ orphans
    BY <1>1, <1>7 DEF FreshApart
  <2>1. CASE d = c
    <3>1. conn'[d].row.id = lastid + 1  BY <1>3, <1>4, <2>1
    <3>2. \A e \in Conns \ {d} : HeldBy(e)' = HeldBy(e)  BY <1>9, <2>1
    <3>3. lastid + 1 \notin Stored \ orphans  BY <1>2, <1>11
    <3>4. \A e \in Conns : lastid + 1 \notin HeldBy(e) \ orphans  BY <1>2, <1>11
    <3> QED BY <3>1, <3>2, <3>3, <3>4
  <2>2. CASE d # c
    <3>1. conn'[d] = conn[d] /\ Fresh(d)  BY <1>4, <2>2 DEF Fresh
    <3>2. /\ conn[d].row.id \notin Stored \ orphans
          /\ \A e \in Conns \ {d} : conn[d].row.id \notin HeldBy(e) \ orphans
      BY <3>1 DEF IndInv, IdInv, FreshApart
    <3>3. conn[d].row.id \in HeldBy(d)
      <4>1. conn[d].row \in Row  BY <3>1 DEF IndInv, Typed, HasWhatItNeeds, Fresh
      <4> QED BY <1>0, <4>1
    <3>4. conn[d].row.id \notin HeldBy(c)' \ orphans  BY <1>2, <1>8, <1>11, <3>3
    <3> QED BY <1>9, <3>1, <3>2, <3>4
  <2> QED BY <2>1, <2>2
<1> QED BY <1>5, <1>6, <1>10, <1>12, <1>13 DEF IndInv, IdInv

LEMMA CheckedKeeps ==
  ASSUME IndInv, NEW c \in Conns, Checked(c)
  PROVE  IndInv'
<1> DEFINE x == [conn[c] EXCEPT !.pc = "delete"]
<1>1. /\ conn[c].pc = "check"
      /\ UNCHANGED <<recordset, lastid, calls, dbsync, orphans>>
      /\ \/ conn' = [conn EXCEPT ![c] = Idle]
         \/ conn' = [conn EXCEPT ![c] = x] /\ conn[c].row # None
  BY DEF Checked, redis, history
<1>2. conn[c] \in Connection /\ conn[c].to \in Keys
  BY <1>1 DEF IndInv, Typed, HasWhatItNeeds
<1>3. CASE conn' = [conn EXCEPT ![c] = Idle]
  <2>1. /\ Idle \in Connection /\ HasWhatItNeeds(Idle) /\ Idle.pc # "add"
        /\ Ids({Idle.row} \ {None}) = {}
    BY DEF Idle, Connection, Stages, HasWhatItNeeds, Ids
  <2> QED BY <1>1, <1>3, <2>1, RequestStep
<1>4. CASE conn' = [conn EXCEPT ![c] = x] /\ conn[c].row # None
  <2>1. conn[c].row \in Row  BY <1>2, <1>4 DEF Connection
  <2>2. x \in Connection /\ HasWhatItNeeds(x) /\ x.pc # "add" /\ x.row = conn[c].row
    BY <1>2, <2>1 DEF Connection, Stages, HasWhatItNeeds
  <2> HIDE DEF x
  <2>3. Ids({x.row} \ {None}) \subseteq HeldBy(c)  BY <2>2 DEF HeldBy
  <2> QED BY <1>1, <1>4, <2>2, <2>3, RequestStep
<1> QED BY <1>1, <1>3, <1>4

(* A request asks dbmgr for the row it holds and waits. *)
LEMMA AskStep ==
  ASSUME IndInv, NEW c \in Conns, NEW op \in Ops, NEW x,
         Ask(c, op, conn[c].row),
         x = [conn[c] EXCEPT !.pc = IF op = "add" THEN "adding" ELSE "deleting"],
         conn' = [conn EXCEPT ![c] = x],
         conn[c].pc = op,
         UNCHANGED <<recordset, lastid, dbsync, orphans>>
  PROVE  IndInv'
<1> DEFINE call == [op |-> op, row |-> conn[c].row, by |-> c, done |-> 0]
<1>1. calls' = Append(calls, call)  BY DEF Ask
<1>2. conn[c] \in Connection /\ conn[c].row \in Row
  BY DEF IndInv, Typed, HasWhatItNeeds, Ops
<1>3. x \in Connection /\ HasWhatItNeeds(x) /\ x.row = conn[c].row
  BY <1>2 DEF IndInv, Typed, Connection, Stages, HasWhatItNeeds, Ops
<1>4. x.pc = IF op = "add" THEN "adding" ELSE "deleting"
  BY <1>2 DEF Connection
<1>5. call \in Call /\ call.by = c /\ call.op = op /\ call.row = conn[c].row
  BY <1>2 DEF Call
<1> HIDE DEF call
<1>6. /\ conn' \in [Conns -> Connection]
      /\ \A d \in Conns : HasWhatItNeeds(conn'[d])
      /\ conn'[c] = x
      /\ \A d \in Conns \ {c} : conn'[d] = conn[d]
  BY <1>3, ConnChanged DEF IndInv
<1>7. calls \in Seq(Call)  BY DEF IndInv, Typed
<1>8. /\ calls' \in Seq(Call) /\ Len(calls) \in Nat
      /\ DOMAIN calls = 1..Len(calls) /\ DOMAIN calls' = 1..(Len(calls) + 1)
      /\ \A i \in DOMAIN calls : calls'[i] = calls[i]
      /\ calls'[Len(calls) + 1] = call
      /\ ToSet(calls') = ToSet(calls) \cup {call}
  BY <1>1, <1>5, <1>7, Appended
<1>9. Typed'  BY <1>6, <1>8 DEF IndInv, Typed, dbsync, Waiting
<1>10. \A i \in DOMAIN calls : calls[i].by \in Conns \ {c}
  <2>1. \A i \in DOMAIN calls : calls[i].by \in Conns  BY CallAt DEF IndInv
  <2>2. \A i \in DOMAIN calls : calls[i].by # c
    BY DEF IndInv, CallsAwaited, WaitsFor, Ops
  <2> QED BY <2>1, <2>2
<1>11. CallsAwaited'
  <2>1. \A i \in DOMAIN calls' : i \in DOMAIN calls \/ i = Len(calls) + 1  BY <1>8
  <2>2. \A i \in DOMAIN calls' : WaitsFor(calls[i].by, calls[i].op)'
    BY <1>4, <1>5, <1>6, <1>8, <1>10, <2>1 DEF IndInv, CallsAwaited, WaitsFor
  <2>3. \A i, j \in DOMAIN calls' : calls'[i].by = calls'[j].by => i = j
    BY <1>5, <1>8, <1>10, <2>1 DEF IndInv, CallsAwaited
  <2> QED BY <2>2, <2>3 DEF CallsAwaited
<1>12. Ids({conn[c].row}) \subseteq HeldBy(c)
  BY <1>2, AccountsAssumption DEF HeldBy
<1>13. Stored' \subseteq Stored \cup HeldBy(c)
  <2>1. {k.row : k \in ToSet(calls')} = {k.row : k \in ToSet(calls)} \cup {conn[c].row}
    BY <1>5, <1>8
  <2> QED BY <1>12, <2>1 DEF Stored, InMemory, Ids, dbsync
<1>14. HeldBy(c)' = HeldBy(c)  BY <1>3, <1>6 DEF HeldBy
<1>15. ~ Fresh(c)'  BY <1>4, <1>6 DEF Fresh
<1> QED BY <1>6, <1>9, <1>11, <1>13, <1>14, <1>15, RequestMoves DEF IndInv

LEMMA DeleteKeeps ==
  ASSUME IndInv, NEW c \in Conns, Delete(c)
  PROVE  IndInv'
<1>1. /\ conn[c].pc = "delete"
      /\ UNCHANGED <<recordset, lastid, dbsync, orphans>>
  BY DEF Delete, redis, history
<1>2. /\ conn[c] \in Connection /\ conn[c].row \in Row /\ conn[c].to \in Keys
  BY <1>1 DEF IndInv, Typed, HasWhatItNeeds
<1>3. CASE Record(conn[c].key) # None
  <2>1. /\ Ask(c, "delete", conn[c].row)
        /\ conn' = [conn EXCEPT ![c] = [conn[c] EXCEPT !.pc = "deleting"]]
    BY <1>3 DEF Delete
  <2> QED BY <1>1, <2>1, AskStep DEF Ops
<1>4. CASE ~ Record(conn[c].key) # None
  <2> DEFINE x == [conn[c] EXCEPT !.pc = "add", !.row = Bound(c)]
  <2>1. conn' = [conn EXCEPT ![c] = x] /\ calls' = calls
    BY <1>4 DEF Delete
  <2>2. Bound(c) \in Row /\ Bound(c).id = conn[c].row.id
    BY <1>2 DEF Bound, Row
  <2>3. /\ x \in Connection /\ HasWhatItNeeds(x)
        /\ x.to = conn[c].to /\ x.row = Bound(c)
    BY <1>2, <2>2 DEF Connection, Stages, HasWhatItNeeds
  <2> HIDE DEF x
  <2>4. Ids({x.row} \ {None}) \subseteq HeldBy(c)
    BY <1>2, <2>2, <2>3, AccountsAssumption DEF HeldBy, Ids
  <2>5. x.to # None  BY <1>2, <2>3, AccountsAssumption
  <2> QED BY <1>1, <2>1, <2>3, <2>4, <2>5, RequestStep
<1> QED BY <1>3, <1>4

LEMMA AddKeeps ==
  ASSUME IndInv, NEW c \in Conns, Add(c)
  PROVE  IndInv'
<1>1. /\ conn[c].pc = "add"
      /\ UNCHANGED <<recordset, lastid, dbsync, orphans>>
  BY DEF Add, redis, history
<1>2. CASE Record(conn[c].row.key) # None
  <2>1. conn' = [conn EXCEPT ![c] = Idle] /\ calls' = calls  BY <1>2 DEF Add
  <2>2. /\ Idle \in Connection /\ HasWhatItNeeds(Idle) /\ Idle.pc # "add"
        /\ Ids({Idle.row} \ {None}) = {}
    BY DEF Idle, Connection, Stages, HasWhatItNeeds, Ids
  <2> QED BY <1>1, <2>1, <2>2, RequestStep
<1>3. CASE ~ Record(conn[c].row.key) # None
  <2>1. /\ Ask(c, "add", conn[c].row)
        /\ conn' = [conn EXCEPT ![c] = [conn[c] EXCEPT !.pc = "adding"]]
    BY <1>3 DEF Add
  <2> QED BY <1>1, <2>1, AskStep DEF Ops
<1> QED BY <1>2, <1>3

-----------------------------------------------------------------------------
(* Steps of dbmgr and dbsync.                                              *)

LEMMA DoneKeeps ==
  ASSUME IndInv, NEW i \in DOMAIN calls, Done(i),
         UNCHANGED <<recordset, lastid, conn, table, syncer, orphans>>,
         \/ queue' = queue
         \/ queue' = Append(queue, [op |-> calls[i].op, row |-> calls[i].row])
  PROVE  IndInv'
<1> DEFINE y == [calls[i] EXCEPT !.done = @ + 1]
           sql == [op |-> calls[i].op, row |-> calls[i].row]
<1>1. calls' = [calls EXCEPT ![i] = y]  BY DEF Done
<1>2. Typed  BY DEF IndInv
<1>3. /\ calls[i] \in Call /\ calls[i].op \in Ops /\ calls[i].row \in Row
      /\ calls[i].row.id \in Stored
  BY <1>2, CallAt
<1>4. y \in Call /\ y.by = calls[i].by /\ y.op = calls[i].op /\ y.row = calls[i].row
  BY <1>3 DEF Call
<1>5. sql \in Statement /\ sql.row = calls[i].row  BY <1>3 DEF Statement
<1> HIDE DEF y, sql
<1>6. calls \in Seq(Call) /\ queue \in Seq(Statement)  BY <1>2 DEF Typed
<1>7. calls' \in Seq(Call) /\ DOMAIN calls' = DOMAIN calls  BY <1>1, <1>4, <1>6
<1>8. \A j \in DOMAIN calls : /\ calls'[j].by = calls[j].by
                              /\ calls'[j].op = calls[j].op
                              /\ calls'[j].row = calls[j].row
  BY <1>1, <1>4, <1>6
<1>9. queue' = queue \/ queue' = Append(queue, sql)  BY DEF sql
<1>10. /\ queue' \in Seq(Statement)
       /\ ToSet(queue') \subseteq ToSet(queue) \cup {sql}
       /\ DOMAIN queue \subseteq DOMAIN queue'
  <2>1. CASE queue' = queue  BY <1>6, <2>1
  <2>2. CASE queue' = Append(queue, sql)
    <3>1. /\ Append(queue, sql) \in Seq(Statement)
          /\ DOMAIN Append(queue, sql) = 1..(Len(queue) + 1)
          /\ ToSet(Append(queue, sql)) = ToSet(queue) \cup {sql}
      BY <1>5, <1>6, Appended
    <3>2. DOMAIN queue = 1..Len(queue) /\ Len(queue) \in Nat  BY <1>6
    <3>3. DOMAIN queue' = 1..(Len(queue) + 1)  BY <2>2, <3>1
    <3>4. 1..Len(queue) \subseteq 1..(Len(queue) + 1)  BY <3>2
    <3> QED BY <2>2, <3>1, <3>2, <3>3, <3>4
  <2> QED BY <1>9, <2>1, <2>2
<1>11. Typed'  BY <1>2, <1>7, <1>10 DEF Typed, Waiting
<1>12. CallsAwaited'  BY <1>7, <1>8 DEF IndInv, CallsAwaited, WaitsFor
<1>13. Stored' \subseteq Stored
  <2>1. \A k \in ToSet(calls') : \E j \in DOMAIN calls : k.row = calls[j].row
    BY <1>7, <1>8 DEF ToSet
  <2>2. \A k \in ToSet(calls') : k.row.id \in Stored  BY <1>2, <2>1, CallAt
  <2>3. \A s \in ToSet(queue') : s.row.id \in Stored
    BY <1>3, <1>5, <1>10 DEF Stored, Ids
  <2>4. Ids({k.row : k \in ToSet(calls')}) \subseteq Stored  BY <2>2 DEF Ids
  <2>5. Ids({s.row : s \in ToSet(queue')}) \subseteq Stored  BY <2>3 DEF Ids
  <2>6. Ids(InMemory' \cup table') \subseteq Stored  BY DEF Stored, InMemory, Ids
  <2> QED BY <2>4, <2>5, <2>6 DEF Stored
<1> QED BY <1>2, <1>11, <1>12, <1>13, RowsMove DEF IndInv

LEMMA ReturnKeeps ==
  ASSUME IndInv, Return
  PROVE  IndInv'
<1> DEFINE call == calls[1]
<1>1. Typed  BY DEF IndInv
<1>2. calls \in Seq(Call) /\ calls # <<>>  BY <1>1 DEF Typed, Return
<1>3. /\ Tail(calls) \in Seq(Call)
      /\ \A i \in DOMAIN Tail(calls) : i + 1 \in DOMAIN calls /\ Tail(calls)[i] = calls[i + 1]
      /\ ToSet(Tail(calls)) \subseteq ToSet(calls)
      /\ Head(calls) = call /\ 1 \in DOMAIN calls
  BY <1>2, Tailed
<1>4. PICK c \in Conns :
        /\ c = call.by /\ WaitsFor(c, call.op)
        /\ call.op \in Ops /\ call.row \in Row /\ call.row.id \in Stored
  BY <1>1, <1>3, CallAt DEF IndInv, CallsAwaited
<1>5. /\ calls' = Tail(calls)
      /\ UNCHANGED <<lastid, queue, syncer, table, orphans>>
  BY DEF Return, redis, dbsync
<1>6. /\ call.op = "add" =>
           /\ recordset' = With(recordset, call.row.key, call.row)
           /\ conn' = [conn EXCEPT ![c] = Idle]
      /\ call.op # "add" =>
           /\ recordset' = Without(recordset, call.row.key)
           /\ conn' = [conn EXCEPT ![c] = [conn[c] EXCEPT !.pc = "add", !.row = Bound(c)]]
  BY <1>3, <1>4 DEF Return
<1> HIDE DEF call
<1>7. conn[c] \in Connection  BY <1>1, <1>4 DEF Typed
<1>8. PICK x \in Connection :
        /\ HasWhatItNeeds(x) /\ conn' = [conn EXCEPT ![c] = x]
        /\ x.pc # "add" \/ x.to # None
        /\ Ids({x.row} \ {None}) \subseteq HeldBy(c)
  <2>1. CASE call.op = "add"
    <3>1. /\ Idle \in Connection /\ HasWhatItNeeds(Idle) /\ Idle.pc # "add"
          /\ Ids({Idle.row} \ {None}) = {}
      BY DEF Idle, Connection, Stages, HasWhatItNeeds, Ids
    <3> QED BY <1>6, <2>1, <3>1
  <2>2. CASE call.op # "add"
    <3> DEFINE x == [conn[c] EXCEPT !.pc = "add", !.row = Bound(c)]
    <3>1. conn[c].pc = "deleting"  BY <1>4, <2>2 DEF WaitsFor
    <3>2. conn[c].to \in Keys /\ conn[c].row \in Row
      BY <1>1, <1>4, <3>1 DEF Typed, HasWhatItNeeds
    <3>3. Bound(c) \in Row /\ Bound(c).id = conn[c].row.id  BY <3>2 DEF Bound, Row
    <3>4. x \in Connection /\ HasWhatItNeeds(x) /\ x.to = conn[c].to /\ x.row = Bound(c)
      BY <1>7, <3>2, <3>3 DEF Connection, Stages, HasWhatItNeeds
    <3> HIDE DEF x
    <3>5. Ids({x.row} \ {None}) \subseteq HeldBy(c)
      BY <3>2, <3>3, <3>4, AccountsAssumption DEF HeldBy, Ids
    <3>6. x.to # None  BY <3>2, <3>4, AccountsAssumption
    <3>7. conn' = [conn EXCEPT ![c] = x]  BY <1>6, <2>2 DEF x
    <3> QED BY <3>4, <3>5, <3>6, <3>7
  <2> QED BY <2>1, <2>2
<1>9. /\ conn' \in [Conns -> Connection]
      /\ \A d \in Conns : HasWhatItNeeds(conn'[d])
      /\ conn'[c] = x
      /\ \A d \in Conns \ {c} : conn'[d] = conn[d]
  BY <1>1, <1>4, <1>8, ConnChanged
<1>10. \A k \in DOMAIN recordset' :
         recordset'[k] = call.row \/ (k \in DOMAIN recordset /\ recordset'[k] = recordset[k])
  BY <1>6 DEF With, Without
<1>11. Typed'
  BY <1>1, <1>3, <1>4, <1>5, <1>9, <1>10 DEF Typed, Waiting
<1>12. \A i \in DOMAIN calls' :
         /\ i + 1 \in DOMAIN calls /\ calls'[i] = calls[i + 1]
         /\ calls'[i].by \in Conns \ {c}
  <2>1. ASSUME NEW i \in DOMAIN calls' PROVE calls'[i].by \in Conns \ {c}
    <3>1. i + 1 \in DOMAIN calls /\ calls'[i] = calls[i + 1]  BY <1>3, <1>5
    <3>2. calls[i + 1].by \in Conns  BY <1>1, <3>1, CallAt
    <3>3. i \in Nat /\ i # 0
      <4>1. DOMAIN calls' = 1..Len(calls')  BY <1>3, <1>5
      <4> QED BY <4>1
    <3>4. i + 1 # 1  BY <3>3
    <3>5. calls[i + 1].by # c
      BY <1>3, <1>4, <3>1, <3>4 DEF IndInv, CallsAwaited, call
    <3> QED BY <3>1, <3>2, <3>5
  <2> QED BY <1>3, <1>5, <2>1
<1>13. CallsAwaited'
  <2>1. \A i \in DOMAIN calls' : WaitsFor(calls[i].by, calls[i].op)'
    BY <1>9, <1>12 DEF IndInv, CallsAwaited, WaitsFor
  <2>2. \A i, j \in DOMAIN calls' : calls'[i].by = calls'[j].by => i = j
    <3> SUFFICES ASSUME NEW i \in DOMAIN calls', NEW j \in DOMAIN calls',
                        calls'[i].by = calls'[j].by
                 PROVE  i = j
      OBVIOUS
    <3>1. i + 1 = j + 1  BY <1>12 DEF IndInv, CallsAwaited
    <3>2. DOMAIN calls' = 1..Len(calls')  BY <1>3, <1>5
    <3> QED BY <3>1, <3>2
  <2> QED BY <2>1, <2>2 DEF CallsAwaited
<1>14. Stored' \subseteq Stored
  <2>1. \A r \in InMemory' : r = call.row \/ r \in InMemory  BY <1>10 DEF InMemory
  <2>2. Ids(InMemory' \cup table') \subseteq Stored
    BY <1>4, <1>5, <2>1 DEF Ids, Stored
  <2>3. Ids({k.row : k \in ToSet(calls')}) \subseteq Stored
    BY <1>3, <1>5 DEF Ids, Stored
  <2>4. Ids({s.row : s \in ToSet(queue')}) \subseteq Stored  BY <1>5 DEF Stored
  <2> QED BY <2>2, <2>3, <2>4 DEF Stored
<1>15. HeldBy(c)' \subseteq HeldBy(c)  BY <1>8, <1>9 DEF HeldBy
<1>16. ~ Fresh(c)'  BY <1>8, <1>9 DEF Fresh
<1> QED BY <1>1, <1>4, <1>5, <1>9, <1>11, <1>13, <1>14, <1>15, <1>16, RequestMoves
        DEF IndInv

(* A step of dbsync or MySQL: statements may go, their rows may come into  *)
(* the table.                                                              *)
LEMMA TableStep ==
  ASSUME IndInv,
         table' \subseteq table \cup {sql.row : sql \in ToSet(queue)},
         queue' \in Seq(Statement), ToSet(queue') \subseteq ToSet(queue),
         Waiting' => syncer' \in DOMAIN queue',
         UNCHANGED <<recordset, lastid, calls, conn, orphans>>
  PROVE  IndInv'
<1>1. table' \in SUBSET Row  BY RowsAreRows DEF IndInv, Typed
<1>2. Typed'  BY <1>1 DEF IndInv, Typed
<1>3. CallsAwaited'  BY DEF IndInv, CallsAwaited, WaitsFor
<1>4. Stored' \subseteq Stored  BY DEF Stored, InMemory, Ids
<1> QED BY <1>2, <1>3, <1>4, RowsMove DEF IndInv

LEMMA MaybeExecutedRows ==
  ASSUME Typed, NEW t \in MaybeExecuted
  PROVE  t \subseteq table \cup {sql.row : sql \in ToSet(queue)}
<1>1. CASE Waiting
  BY <1>1, StatementUnderWay, ExecutedRows DEF MaybeExecuted
<1>2. CASE ~ Waiting  BY <1>2 DEF MaybeExecuted
<1> QED BY <1>1, <1>2

LEMMA DbsyncKeeps ==
  ASSUME IndInv,
         (\E i \in DOMAIN queue : Execute(i)) \/ Answered \/ PoolFails
  PROVE  IndInv'
<1>1. Typed /\ queue \in Seq(Statement)  BY DEF IndInv, Typed
<1>2. ASSUME NEW i \in DOMAIN queue, Execute(i) PROVE IndInv'
  <2>1. /\ table' = table /\ queue' = queue /\ syncer' = i
        /\ UNCHANGED <<recordset, lastid, calls, conn, orphans>>
    BY <1>2 DEF Execute, redis
  <2> QED BY <1>1, <1>2, <2>1, TableStep
<1>3. CASE Answered
  <2>1. /\ Waiting
        /\ table' = Executed(table, queue[syncer])
        /\ queue' = RemoveAt(queue, syncer)
        /\ ~ Waiting'
        /\ UNCHANGED <<recordset, lastid, calls, conn, orphans>>
    BY <1>3 DEF Answered, redis, history, Waiting
  <2>2. table' \in MaybeExecuted  BY <2>1 DEF MaybeExecuted
  <2>3. table' \subseteq table \cup {sql.row : sql \in ToSet(queue)}
    BY <1>1, <2>2, MaybeExecutedRows
  <2>4. syncer \in DOMAIN queue  BY <1>1, <2>1, StatementUnderWay
  <2>5. queue' \in Seq(Statement) /\ ToSet(queue') \subseteq ToSet(queue)
    BY <1>1, <2>1, <2>4, Removed
  <2> QED BY <2>1, <2>3, <2>5, TableStep
<1>4. CASE PoolFails
  <2>1. /\ table' \in MaybeExecuted /\ queue' = queue /\ ~ Waiting'
        /\ UNCHANGED <<recordset, lastid, calls, conn, orphans>>
    BY <1>4 DEF PoolFails, redis, history, Waiting
  <2>2. table' \subseteq table \cup {sql.row : sql \in ToSet(queue)}
    BY <1>1, <2>1, MaybeExecutedRows
  <2> QED BY <1>1, <2>1, <2>2, TableStep
<1> QED BY <1>2, <1>3, <1>4

-----------------------------------------------------------------------------
(* The theorems.                                                           *)

LEMMA StepSound ==
  ASSUME IndInv, [Next]_vars
  PROVE  IndInv'
<1>1. ASSUME NEW c \in Conns, Register(c) PROVE IndInv'  BY <1>1, RegisterKeeps
<1>2. ASSUME NEW c \in Conns, GetNextId(c) PROVE IndInv'  BY <1>2, GetNextIdKeeps
<1>3. ASSUME NEW c \in Conns, Bind(c) PROVE IndInv'  BY <1>3, BindKeeps
<1>4. ASSUME NEW c \in Conns, Checked(c) PROVE IndInv'  BY <1>4, CheckedKeeps
<1>5. ASSUME NEW c \in Conns, Delete(c) PROVE IndInv'  BY <1>5, DeleteKeeps
<1>6. ASSUME NEW c \in Conns, Add(c) PROVE IndInv'  BY <1>6, AddKeeps
<1>7. ASSUME NEW i \in DOMAIN calls, WriteRow(i) PROVE IndInv'
  BY <1>7, DoneKeeps DEF WriteRow, dbsync, history
<1>8. ASSUME NEW i \in DOMAIN calls, WriteIndex(i) PROVE IndInv'
  BY <1>8, DoneKeeps DEF WriteIndex, dbsync, history
<1>9. ASSUME NEW i \in DOMAIN calls, Sync(i) PROVE IndInv'
  BY <1>9, DoneKeeps DEF Sync, redis, history
<1>10. CASE Return  BY <1>10, ReturnKeeps
<1>11. CASE (\E i \in DOMAIN queue : Execute(i)) \/ Answered \/ PoolFails
  BY <1>11, DbsyncKeeps
<1>12. CASE Restart  BY <1>12, RestartSound
<1>13. CASE PeerStarts  BY <1>13, PeerKeeps
<1>14. CASE UNCHANGED vars
  BY <1>14, QuietStep DEF vars, redis, history
<1> QED BY <1>1, <1>2, <1>3, <1>4, <1>5, <1>6, <1>7, <1>8, <1>9, <1>10, <1>11,
           <1>12, <1>13, <1>14 DEF Next

(* Whatever starts, crashes and requests come in whatever order, the       *)
(* counter of redis is beyond every id in memory, in MySQL and on the way  *)
(* there but those that were there when another process emptied redis      *)
(* (Entity.lua:20, dbmgr.lua:157-164, redispool.lua:31), every call dbmgr  *)
(* works on has a request that waits for it, and every statement MySQL has *)
(* is one of the queue.                                                    *)
THEOREM CounterBeyondIds == Spec => []IndInv
BY InitSound, StepSound, PTL DEF Spec

(* The id a registration goes on with belongs to no other account, in      *)
(* memory, in MySQL or on the way there, whatever crashes and starts came, *)
(* unless that account was there when another process emptied redis        *)
(* (dbmgr.lua:157-164, redispool.lua:31).                                  *)
THEOREM IdsStayFresh == Spec => []IdsFresh
<1>1. IndInv => IdsFresh
  <2> SUFFICES ASSUME IndInv, NEW c \in Conns, Fresh(c)
               PROVE  conn[c].row.id \notin
                        Ids(InMemory \cup table \cup OnTheWay \cup InHands(Conns \ {c})) \ orphans
    BY DEF IdsFresh, Fresh
  <2>1. /\ conn[c].row.id \notin Stored \ orphans
        /\ \A d \in Conns \ {c} : conn[c].row.id \notin HeldBy(d) \ orphans
    BY DEF IndInv, IdInv, FreshApart
  <2> QED BY <2>1 DEF Stored, HeldBy, OnTheWay, InHands, Ids
<1> QED BY <1>1, CounterBeyondIds, PTL

=============================================================================

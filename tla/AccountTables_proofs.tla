----------------------- MODULE AccountTables_proofs -----------------------
(***************************************************************************)
(* Machine-checked proofs about Accounts, for any connections, keys,       *)
(* databases and numbers of requests and starts: that the accounts in      *)
(* redis are those in memory once dbmgr is through, that binding an        *)
(* account neither loses it nor shows it twice as long as no two requests  *)
(* name one account, and that what dbsync has in its queue then brings     *)
(* MySQL to what is in memory.                                             *)
(***************************************************************************)
EXTENDS Accounts_proofs

-----------------------------------------------------------------------------
(* What is known of tables, requests and calls, whatever happens.          *)

(* The accounts in memory and in redis are there under their own keys, and *)
(* MySQL has no two rows of an id or a key.                                *)
TablesSound ==
  /\ recordset \in [DOMAIN recordset -> Row] /\ rows \in [DOMAIN rows -> Row]
  /\ \A k \in DOMAIN recordset : recordset[k].key = k
  /\ \A k \in DOMAIN rows : rows[k].key = k
  /\ Keyed(table)

(* The key a request gives the row it holds. *)
HandsSound(x) ==
  /\ x.pc # "idle" => x.key \in Keys
  /\ x.pc = "idle" => x.row = None
  /\ x.pc = "nextid" => x.to = None /\ x.row = None
  /\ x.pc \in {"check", "delete", "deleting"} /\ x.row # None => x.row.key = x.key
  /\ x.pc \in {"add", "adding"} => x.row.key = IF x.to = None THEN x.key ELSE x.to

(* dbmgr works on the row its request holds, and on later calls no faster  *)
(* than on earlier ones.                                                   *)
CallsSound ==
  /\ \A i \in DOMAIN calls : calls[i].row = conn[calls[i].by].row
  /\ \A i, j \in DOMAIN calls : i < j => calls[j].done <= calls[i].done

(* Nothing but an emptied redis makes orphans. *)
ByFlush == orphans # {} => "flush" \in trouble

HeldSound ==
  /\ TablesSound /\ CallsSound
  /\ \A c \in Conns : HandsSound(conn[c])

-----------------------------------------------------------------------------
(* Redis and memory, while nobody empties redis.                           *)

(* The calls that have written the hash of a key. *)
Written(k) == {i \in DOMAIN calls : calls[i].done >= 1 /\ calls[i].row.key = k}

LastOf(i, k) == i \in Written(k) /\ \A j \in Written(k) : j <= i

Same(f, g, k) ==
  /\ k \in DOMAIN f <=> k \in DOMAIN g
  /\ k \in DOMAIN f => f[k] = g[k]

After(call) ==
  LET k == call.row.key
  IN IF call.op = "add" THEN k \in DOMAIN rows /\ rows[k] = call.row
     ELSE k \notin DOMAIN rows

(* Redis has what the last of them wrote, or what is in memory. *)
RowsFollow ==
  "flush" \notin trouble =>
    \A k \in Keys :
      /\ Written(k) = {} => Same(rows, recordset, k)
      /\ \A i \in DOMAIN calls : LastOf(i, k) => After(calls[i])

-----------------------------------------------------------------------------
(* Accounts, while no two requests name one of them.                       *)

Uses(c, k) == conn[c].pc # "idle" /\ k \in {conn[c].key, conn[c].to}

Apart == \A k \in Keys : \A c, d \in Conns : Uses(c, k) /\ Uses(d, k) => c = d

(* What a request has read is still so. *)
Current(c) ==
  LET x == conn[c] IN
  /\ x.pc \in {"check", "delete", "deleting"} => x.row = Record(x.key)
  /\ x.pc \in {"nextid", "add", "adding"} => Record(x.key) = None
  /\ x.pc \in {"delete", "deleting", "add", "adding"} /\ x.to # None => Record(x.to) = None

(* Ids in hands are in nobody else's, and not in memory once they are to   *)
(* come there.                                                             *)
OwnIds ==
  /\ \A c \in Conns : conn[c].pc \in {"add", "adding"} => conn[c].row.id \notin Ids(InMemory)
  /\ \A c, d \in Conns : /\ conn[c].row # None /\ conn[d].row # None
                         /\ conn[c].row.id = conn[d].row.id
                         => c = d

Listed(n, k) == n \in DOMAIN index /\ k \in index[n]

(* The index has the key of an account under its id, unless a call has     *)
(* changed that already.                                                   *)
IndexFollows ==
  /\ \A n \in DOMAIN index : n \in Nat /\ index[n] \subseteq Keys
  /\ \A k \in Keys, n \in Nat :
       /\ \A i \in DOMAIN calls :
            calls[i].row.key = k /\ calls[i].done >= 2 =>
              (Listed(n, k) <=> calls[i].op = "add" /\ calls[i].row.id = n)
       /\ (\A i \in DOMAIN calls : calls[i].row.key = k => calls[i].done < 2) =>
            (Listed(n, k) <=> Record(k) # None /\ Record(k).id = n)

(* No two requests have named one account. *)
Alone == "overlap" \notin trouble

(* Whether anybody empties redis or not. *)
ApartInv ==
  Alone => /\ Apart /\ AccountKept
           /\ \A c \in Conns : Current(c)

(* And while nobody does. *)
CalmInv == Calm => OwnIds /\ IndexFollows /\ OneKeyPerAccount

-----------------------------------------------------------------------------
(* Starts.                                                                 *)

LEMMA LoadedSound ==
  ASSUME NEW t \in SUBSET Row, Keyed(t)
  PROVE  /\ Loaded(t) \in [DOMAIN Loaded(t) -> Row]
         /\ \A k \in DOMAIN Loaded(t) : Loaded(t)[k] \in t /\ Loaded(t)[k].key = k
         /\ \A r \in t : r.key \in DOMAIN Loaded(t) /\ Loaded(t)[r.key] = r
         /\ GetCommon(Loaded(t), Indexed(t)) = Loaded(t)
<1> DEFINE L == Loaded(t)
           named == UNION {Indexed(t)[i] : i \in DOMAIN Indexed(t)}
<1>1. DOMAIN L = {r.key : r \in t}  BY DEF Loaded
<1>2. \A k \in DOMAIN L : L[k] \in t /\ L[k].key = k
  <2>1. \A k \in DOMAIN L : L[k] = CHOOSE r \in t : r.key = k  BY DEF Loaded
  <2>2. \A k \in DOMAIN L : \E r \in t : r.key = k  BY <1>1
  <2> QED BY <2>1, <2>2
<1>3. \A r \in t : r.key \in DOMAIN L /\ L[r.key] = r  BY <1>1, <1>2 DEF Keyed
<1>4. L = [k \in DOMAIN L |-> L[k]]  BY DEF Loaded
<1>5. L \in [DOMAIN L -> Row]  BY <1>2, <1>4
<1>6. named = {r.key : r \in t}
  <2>1. \A n \in DOMAIN Indexed(t) : Indexed(t)[n] \subseteq {r.key : r \in t}
    BY DEF Indexed
  <2>2. \A r \in t : r.id \in DOMAIN Indexed(t) /\ r.key \in Indexed(t)[r.id]
    BY DEF Indexed
  <2> QED BY <2>1, <2>2
<1>7. GetCommon(L, Indexed(t)) = [k \in DOMAIN L |-> L[k]]
  BY <1>1, <1>6 DEF GetCommon
<1> HIDE DEF L
<1> QED BY <1>2, <1>3, <1>4, <1>5, <1>7 DEF L

(* What a start finds in redis, besides. *)
FilledFrom(t) ==
  /\ StartedFrom(t)
  /\ rows = Loaded(t) /\ index = Indexed(t)

KnownIn(t) == known \subseteq Ids(t)

FoundSound(t) == HeldSound /\ RowsFollow /\ CalmInv /\ (KnownIn(t) => ApartInv)

LEMMA FilledSound ==
  \A t \in SUBSET Row : Keyed(t) /\ FilledFrom(t) => FoundSound(t)
<1> SUFFICES ASSUME NEW t \in SUBSET Row, Keyed(t), FilledFrom(t)
             PROVE  FoundSound(t)
  OBVIOUS
<1>1. /\ table = t /\ calls = <<>> /\ rows = Loaded(t) /\ recordset = Loaded(t)
      /\ index = Indexed(t)
      /\ \A c \in Conns : conn[c] = Idle
  BY LoadedSound DEF FilledFrom, StartedFrom
<1>2. /\ recordset \in [DOMAIN recordset -> Row]
      /\ \A k \in DOMAIN recordset : recordset[k] \in t /\ recordset[k].key = k
      /\ \A r \in t : r.key \in DOMAIN recordset /\ recordset[r.key] = r
  BY <1>1, LoadedSound
<1>3. \A c \in Conns : conn[c].pc = "idle" /\ conn[c].row = None  BY <1>1 DEF Idle
<1>4. DOMAIN calls = {}  BY <1>1
<1>5. HeldSound
  BY <1>1, <1>2, <1>3, <1>4 DEF HeldSound, TablesSound, CallsSound, HandsSound
<1>6. RowsFollow
  BY <1>1, <1>4 DEF RowsFollow, Written, Same
<1>7. InMemory = t  BY <1>2 DEF InMemory
<1>8. OneKeyPerAccount
  BY <1>2 DEF OneKeyPerAccount, Keyed
<1>9. KnownIn(t) => AccountKept
  BY <1>7 DEF AccountKept, KnownIn
<1>10. Apart /\ OwnIds /\ \A c \in Conns : Current(c)
  BY <1>3 DEF Apart, Uses, OwnIds, Current
<1>11. IndexFollows
  <2>1. DOMAIN index = {r.id : r \in t}  BY <1>1 DEF Indexed
  <2>2. \A n \in DOMAIN index : index[n] = {r.key : r \in {s \in t : s.id = n}}
    BY <1>1 DEF Indexed
  <2>3. \A n \in DOMAIN index : n \in Nat /\ index[n] \subseteq Keys
    BY <2>1, <2>2 DEF Row
  <2>4. \A n, k : Listed(n, k) <=> \E r \in t : r.id = n /\ r.key = k
    BY <2>1, <2>2 DEF Listed
  <2>5. ASSUME NEW n, NEW k
        PROVE  (\E r \in t : r.id = n /\ r.key = k) <=> Record(k) # None /\ Record(k).id = n
    <3>1. CASE k \in DOMAIN recordset
      <4>1. Record(k) = recordset[k] /\ Record(k) \in t /\ Record(k).key = k
        BY <1>2, <3>1 DEF Record
      <4>2. Record(k) # None  BY <4>1, AccountsAssumption
      <4> QED BY <1>2, <4>1, <4>2
    <3>2. CASE k \notin DOMAIN recordset  BY <1>2, <3>2 DEF Record
    <3> QED BY <3>1, <3>2
  <2> QED BY <1>4, <2>3, <2>4, <2>5 DEF IndexFollows
<1> QED BY <1>5, <1>6, <1>8, <1>9, <1>10, <1>11 DEF FoundSound, ApartInv, CalmInv

(* MySQL keeps to its keys, whatever statement it executes. *)
LEMMA ExecutedKeyed ==
  ASSUME NEW t, NEW sql, Keyed(t)
  PROVE  Keyed(Executed(t, sql))
BY DEF Executed, Keyed

LEMMA MaybeKeyed ==
  ASSUME Keyed(table), NEW t \in MaybeExecuted
  PROVE  Keyed(t)
BY ExecutedKeyed DEF MaybeExecuted

LEMMA InitFilled == Init => HeldSound /\ RowsFollow /\ ApartInv /\ CalmInv
<1> SUFFICES ASSUME Init PROVE HeldSound /\ RowsFollow /\ ApartInv /\ CalmInv  OBVIOUS
<1>1. PICK t \in Existing : FilledFrom(t) /\ KnownIn(t)
  BY DEF Init, FilledFrom, StartedFrom, KnownIn, Ids
<1>2. t \in SUBSET Row /\ Keyed(t)  BY AccountsAssumption DEF Row
<1>3. FoundSound(t)  BY <1>1, <1>2, FilledSound
<1> QED BY <1>1, <1>3 DEF FoundSound

LEMMA RestartFills ==
  ASSUME IndInv, HeldSound, Restart
  PROVE  HeldSound' /\ RowsFollow' /\ CalmInv'
<1>0. (\A t \in SUBSET Row : Keyed(t) /\ FilledFrom(t) => FoundSound(t))'
  BY FilledSound, PTL
<1>1. PICK t \in MaybeExecuted : FilledFrom(t)'
  BY DEF Restart, FilledFrom, StartedFrom
<1>2. t \subseteq table \cup {sql.row : sql \in ToSet(queue)}
  BY MaybeExecutedRows DEF IndInv
<1>3. t \in SUBSET Row  BY <1>2, RowsAreRows DEF IndInv, Typed
<1>4. Keyed(t)  BY MaybeKeyed DEF HeldSound, TablesSound
<1>5. Keyed(t)'  BY <1>4 DEF Keyed
<1>6. FoundSound(t)'  BY <1>0, <1>1, <1>3, <1>5
<1> QED BY <1>6 DEF FoundSound

-----------------------------------------------------------------------------
(* Tables, requests and calls.                                             *)

LEMMA CallsAre ==
  ASSUME IndInv
  PROVE  /\ calls \in Seq(Call) /\ conn \in [Conns -> Connection]
         /\ \A i \in DOMAIN calls :
              /\ i \in Nat /\ i >= 1 /\ calls[i] \in Call
              /\ calls[i].op \in Ops /\ calls[i].row \in Row
              /\ calls[i].by \in Conns /\ calls[i].done \in Nat
              /\ WaitsFor(calls[i].by, calls[i].op)
         /\ \A i, j \in DOMAIN calls : calls[i].by = calls[j].by => i = j
<1>1. calls \in Seq(Call)  BY DEF IndInv, Typed
<1>2. DOMAIN calls \subseteq Nat \ {0}  BY <1>1
<1>3. \A i \in DOMAIN calls : calls[i] \in Call  BY <1>1
<1> QED BY <1>1, <1>2, <1>3 DEF IndInv, Typed, CallsAwaited, Call

(* A request for which dbmgr does nothing goes on alone. *)
LEMMA HandsMove ==
  ASSUME IndInv, HeldSound, NEW c \in Conns, NEW x, HandsSound(x),
         conn[c].pc \notin {"adding", "deleting"},
         conn' = [conn EXCEPT ![c] = x],
         UNCHANGED <<recordset, rows, calls, table>>
  PROVE  HeldSound'
<1>1. conn'[c] = x /\ \A d \in Conns \ {c} : conn'[d] = conn[d]  BY CallsAre
<1>2. \A i \in DOMAIN calls : calls[i].by \in Conns \ {c}
  BY CallsAre DEF WaitsFor
<1>3. TablesSound'  BY DEF HeldSound, TablesSound
<1>4. CallsSound'  BY <1>1, <1>2 DEF HeldSound, CallsSound
<1>5. \A d \in Conns : HandsSound(conn[d])'  BY <1>1 DEF HeldSound, HandsSound
<1> QED BY <1>3, <1>4, <1>5 DEF HeldSound

LEMMA HeldStutters ==
  ASSUME HeldSound, UNCHANGED <<conn, recordset, rows, calls, table>>
  PROVE  HeldSound'
BY DEF HeldSound, TablesSound, CallsSound, HandsSound

LEMMA RegisterHeld ==
  ASSUME IndInv, HeldSound, NEW c \in Conns, Register(c)
  PROVE  HeldSound'
<1>1. PICK k \in Keys :
        /\ conn[c].pc = "idle"
        /\ conn' = IF Record(k) = None
                   THEN [conn EXCEPT ![c] = [Idle EXCEPT !.pc = "nextid", !.key = k]]
                   ELSE conn
        /\ UNCHANGED <<recordset, rows, calls, table>>
  BY DEF Register, Begin, redis, dbsync
<1> DEFINE x == [Idle EXCEPT !.pc = "nextid", !.key = k]
<1>2. HandsSound(x)  BY DEF HandsSound, Idle
<1>3. CASE conn' = conn  BY <1>1, <1>3, HeldStutters
<1>4. CASE conn' = [conn EXCEPT ![c] = x]
  <2> HIDE DEF x
  <2> QED BY <1>1, <1>2, <1>4, HandsMove
<1> QED BY <1>1, <1>3, <1>4

LEMMA RecordIs ==
  ASSUME HeldSound, NEW k
  PROVE  /\ Record(k) \in Row \cup {None}
         /\ Record(k) # None <=> k \in DOMAIN recordset
         /\ k \in DOMAIN recordset => Record(k) = recordset[k] /\ Record(k) \in InMemory
         /\ Record(k) # None => Record(k) \in Row /\ Record(k).key = k
BY AccountsAssumption DEF Record, HeldSound, TablesSound, InMemory

LEMMA BindHeld ==
  ASSUME IndInv, HeldSound, NEW c \in Conns, Bind(c)
  PROVE  HeldSound'
<1>1. PICK k \in Guests, to \in Keys :
        /\ conn[c].pc = "idle"
        /\ conn' = [conn EXCEPT ![c] = [pc |-> "check", key |-> k, to |-> to,
                                         row |-> Record(k)]]
        /\ UNCHANGED <<recordset, rows, calls, table>>
  BY DEF Bind, Begin, redis, dbsync
<1> DEFINE x == [pc |-> "check", key |-> k, to |-> to, row |-> Record(k)]
<1>2. HandsSound(x)  BY RecordIs, AccountsAssumption DEF HandsSound
<1> HIDE DEF x
<1> QED BY <1>1, <1>2, HandsMove DEF x

LEMMA GetNextIdHeld ==
  ASSUME IndInv, HeldSound, NEW c \in Conns, GetNextId(c)
  PROVE  HeldSound'
<1> DEFINE x == [conn[c] EXCEPT !.pc = "add",
                                !.row = [id |-> lastid + 1, key |-> conn[c].key]]
<1>1. /\ conn[c].pc = "nextid" /\ conn' = [conn EXCEPT ![c] = x]
      /\ UNCHANGED <<recordset, rows, calls, table>>
  BY DEF GetNextId, dbsync
<1>2. HandsSound(x)
  <2>1. conn[c] \in Connection /\ HandsSound(conn[c])  BY CallsAre DEF HeldSound
  <2>2. x.pc = "add" /\ x.key = conn[c].key /\ x.to = conn[c].to
        /\ x.row = [id |-> lastid + 1, key |-> conn[c].key]
    BY <2>1 DEF Connection
  <2> HIDE DEF x
  <2> QED BY <1>1, <2>1, <2>2 DEF HandsSound
<1> HIDE DEF x
<1> QED BY <1>1, <1>2, HandsMove

LEMMA CheckedHeld ==
  ASSUME IndInv, HeldSound, NEW c \in Conns, Checked(c)
  PROVE  HeldSound'
<1> DEFINE x == [conn[c] EXCEPT !.pc = "delete"]
<1>1. /\ conn[c].pc = "check"
      /\ UNCHANGED <<recordset, rows, calls, table>>
      /\ conn' = [conn EXCEPT ![c] = Idle] \/ conn' = [conn EXCEPT ![c] = x]
  BY DEF Checked, redis, dbsync
<1>2. HandsSound(Idle)  BY DEF HandsSound, Idle
<1>3. HandsSound(x)
  <2>1. conn[c] \in Connection /\ HandsSound(conn[c])  BY CallsAre DEF HeldSound
  <2>2. x.pc = "delete" /\ x.key = conn[c].key /\ x.to = conn[c].to /\ x.row = conn[c].row
    BY <2>1 DEF Connection
  <2> HIDE DEF x
  <2> QED BY <1>1, <2>1, <2>2 DEF HandsSound
<1> HIDE DEF x
<1> QED BY <1>1, <1>2, <1>3, HandsMove

(* What a call of a request says. *)
LEMMA Asks ==
  ASSUME IndInv, NEW c \in Conns, NEW op \in Ops, NEW row \in Row, Ask(c, op, row)
  PROVE  /\ Len(calls) \in Nat
         /\ DOMAIN calls = 1..Len(calls) /\ DOMAIN calls' = 1..(Len(calls) + 1)
         /\ \A i \in DOMAIN calls : calls'[i] = calls[i]
         /\ calls'[Len(calls) + 1] = [op |-> op, row |-> row, by |-> c, done |-> 0]
<1> DEFINE call == [op |-> op, row |-> row, by |-> c, done |-> 0]
<1>1. call \in Call  BY DEF Call
<1>2. calls \in Seq(Call)  BY CallsAre
<1>3. calls' = Append(calls, call)  BY DEF Ask
<1> HIDE DEF call
<1> QED BY <1>1, <1>2, <1>3, Appended DEF call

(* Before an Add or a Delete, in any case. *)
LEMMA AskHeld ==
  ASSUME IndInv, HeldSound, NEW c \in Conns, NEW op \in Ops,
         Ask(c, op, conn[c].row), conn[c].pc = op,
         conn' = [conn EXCEPT ![c].pc = IF op = "add" THEN "adding" ELSE "deleting"],
         UNCHANGED <<recordset, rows, table>>
  PROVE  HeldSound'
<1>1. conn[c] \in Connection /\ HandsSound(conn[c]) /\ conn[c].row \in Row
  BY CallsAre DEF HeldSound, IndInv, Typed, HasWhatItNeeds, Ops
<1>2. PICK x : x = [conn[c] EXCEPT !.pc = IF op = "add" THEN "adding" ELSE "deleting"]
  OBVIOUS
<1>3. /\ x.pc = (IF op = "add" THEN "adding" ELSE "deleting")
      /\ x.key = conn[c].key /\ x.to = conn[c].to /\ x.row = conn[c].row
  BY <1>1, <1>2 DEF Connection
<1>4. HandsSound(x)
  BY <1>1, <1>3 DEF HandsSound, Ops
<1>5. conn'[c] = x /\ \A d \in Conns \ {c} : conn'[d] = conn[d]  BY <1>2, CallsAre
<1>6. \A d \in Conns : HandsSound(conn[d])'
  <2>1. HandsSound(conn[c])'
    <3>1. conn'[c] = x  BY <1>5
    <3>2. HandsSound(conn'[c])  BY <1>4, <3>1
    <3> QED BY <3>2 DEF HandsSound
  <2>2. ASSUME NEW d \in Conns \ {c} PROVE HandsSound(conn[d])'
    <3>1. HandsSound(conn[d]) /\ conn'[d] = conn[d]  BY <1>5 DEF HeldSound
    <3> QED BY <3>1 DEF HandsSound
  <2> QED BY <2>1, <2>2
<1>7. \A d \in Conns : conn'[d].row = conn[d].row  BY <1>3, <1>5
<1>8. CallsSound'
  <2>1. /\ Len(calls) \in Nat
        /\ DOMAIN calls = 1..Len(calls) /\ DOMAIN calls' = 1..(Len(calls) + 1)
        /\ \A i \in DOMAIN calls : calls'[i] = calls[i]
        /\ calls'[Len(calls) + 1] = [op |-> op, row |-> conn[c].row, by |-> c, done |-> 0]
    BY <1>1, Asks
  <2>2. ASSUME NEW i \in DOMAIN calls'
        PROVE  calls'[i].row = conn'[calls'[i].by].row
    <3>1. CASE i \in DOMAIN calls
      BY <1>7, <2>1, <3>1, CallsAre DEF HeldSound, CallsSound
    <3>2. CASE i = Len(calls) + 1  BY <1>7, <2>1, <3>2
    <3> QED BY <2>1, <3>1, <3>2
  <2>3. ASSUME NEW i \in DOMAIN calls', NEW j \in DOMAIN calls', i < j
        PROVE  calls'[j].done <= calls'[i].done
    <3>1. i \in DOMAIN calls /\ calls'[i] = calls[i] /\ calls[i].done \in Nat
      BY <2>1, <2>3, CallsAre
    <3>2. CASE j \in DOMAIN calls
      BY <2>1, <2>3, <3>1, <3>2 DEF HeldSound, CallsSound
    <3>3. CASE j = Len(calls) + 1  BY <2>1, <3>1, <3>3
    <3> QED BY <2>1, <3>2, <3>3
  <2> QED BY <2>2, <2>3 DEF CallsSound
<1>9. TablesSound'  BY DEF HeldSound, TablesSound
<1> QED BY <1>6, <1>8, <1>9 DEF HeldSound

LEMMA DeleteHeld ==
  ASSUME IndInv, HeldSound, NEW c \in Conns, Delete(c)
  PROVE  HeldSound'
<1>1. conn[c].pc = "delete" /\ UNCHANGED <<recordset, rows, table>>
  BY DEF Delete, redis, dbsync
<1>2. CASE Record(conn[c].key) # None
  <2>1. Ask(c, "delete", conn[c].row) /\ conn' = [conn EXCEPT ![c].pc = "deleting"]
    BY <1>2 DEF Delete
  <2> QED BY <1>1, <2>1, AskHeld DEF Ops
<1>3. CASE ~ Record(conn[c].key) # None
  <2> DEFINE x == [conn[c] EXCEPT !.pc = "add", !.row = Bound(c)]
  <2>1. calls' = calls /\ conn' = [conn EXCEPT ![c] = x]  BY <1>3 DEF Delete
  <2>2. /\ conn[c] \in Connection /\ HandsSound(conn[c])
        /\ conn[c].row \in Row /\ conn[c].to \in Keys
    BY <1>1, CallsAre DEF HeldSound, IndInv, Typed, HasWhatItNeeds
  <2>3. Bound(c).key = conn[c].to  BY <2>2 DEF Bound, Row
  <2>4. x.pc = "add" /\ x.key = conn[c].key /\ x.to = conn[c].to /\ x.row = Bound(c)
    BY <2>2 DEF Connection
  <2> HIDE DEF x
  <2>5. HandsSound(x)
    BY <1>1, <2>2, <2>3, <2>4, AccountsAssumption DEF HandsSound
  <2> QED BY <1>1, <2>1, <2>5, HandsMove
<1> QED BY <1>2, <1>3

LEMMA AddHeld ==
  ASSUME IndInv, HeldSound, NEW c \in Conns, Add(c)
  PROVE  HeldSound'
<1>1. conn[c].pc = "add" /\ UNCHANGED <<recordset, rows, table>>
  BY DEF Add, redis, dbsync
<1>2. CASE Record(conn[c].row.key) # None
  <2>1. HandsSound(Idle)  BY DEF HandsSound, Idle
  <2> QED BY <1>1, <1>2, <2>1, HandsMove DEF Add
<1>3. CASE ~ Record(conn[c].row.key) # None
  <2>1. Ask(c, "add", conn[c].row) /\ conn' = [conn EXCEPT ![c].pc = "adding"]
    BY <1>3 DEF Add
  <2> QED BY <1>1, <2>1, AskHeld DEF Ops
<1> QED BY <1>2, <1>3

(* dbmgr goes on with a call. *)
LEMMA Goes ==
  ASSUME IndInv, NEW i \in DOMAIN calls, Done(i)
  PROVE  /\ DOMAIN calls' = DOMAIN calls
         /\ \A j \in DOMAIN calls : /\ calls'[j].row = calls[j].row
                                    /\ calls'[j].op = calls[j].op
                                    /\ calls'[j].by = calls[j].by
         /\ calls'[i].done = calls[i].done + 1
         /\ \A j \in DOMAIN calls \ {i} : calls'[j] = calls[j]
<1>1. calls \in Seq(Call) /\ calls[i] \in Call  BY CallsAre
<1> DEFINE y == [calls[i] EXCEPT !.done = @ + 1]
<1>2. /\ y.row = calls[i].row /\ y.op = calls[i].op /\ y.by = calls[i].by
      /\ y.done = calls[i].done + 1
  BY <1>1 DEF Call
<1>3. calls' = [calls EXCEPT ![i] = y]  BY DEF Done
<1> HIDE DEF y
<1> QED BY <1>1, <1>2, <1>3

LEMMA GoesHeld ==
  ASSUME IndInv, HeldSound, NEW i \in DOMAIN calls, Done(i), InTurn(i, calls[i].done),
         UNCHANGED <<recordset, table, conn>>,
         rows' \in [DOMAIN rows' -> Row], \A k \in DOMAIN rows' : rows'[k].key = k
  PROVE  HeldSound'
<1>1. TablesSound'  BY DEF HeldSound, TablesSound
<1>2. \A c \in Conns : HandsSound(conn[c])'  BY DEF HeldSound, HandsSound
<1>3. CallsSound'
  <2>1. \A j \in DOMAIN calls' : calls'[j].row = conn'[calls'[j].by].row
    BY Goes DEF HeldSound, CallsSound
  <2>2. ASSUME NEW j \in DOMAIN calls', NEW k \in DOMAIN calls', j < k
        PROVE  calls'[k].done <= calls'[j].done
    <3>1. /\ j \in DOMAIN calls /\ k \in DOMAIN calls
          /\ calls[k].done <= calls[j].done
          /\ calls[k].done \in Nat /\ calls[j].done \in Nat /\ j \in Nat /\ k \in Nat
          /\ j >= 1 /\ i \in Nat /\ calls[i].done \in Nat
      BY <2>2, Goes, CallsAre DEF HeldSound, CallsSound
    <3>2. CASE k = i
      <4>1. calls[j].done > calls[i].done  BY <2>2, <3>1, <3>2 DEF InTurn
      <4>2. calls'[j] = calls[j] /\ calls'[i].done = calls[i].done + 1
        BY <2>2, <3>1, <3>2, Goes
      <4> QED BY <3>1, <3>2, <4>1, <4>2
    <3>3. CASE k # i
      <4>1. calls'[k] = calls[k]  BY <3>1, <3>3, Goes
      <4>2. calls'[j].done = calls[j].done \/ calls'[j].done = calls[j].done + 1
        BY <3>1, Goes
      <4> QED BY <3>1, <4>1, <4>2
    <3> QED BY <3>2, <3>3
  <2> QED BY <2>1, <2>2 DEF CallsSound
<1> QED BY <1>1, <1>2, <1>3 DEF HeldSound

LEMMA WriteRowHeld ==
  ASSUME IndInv, HeldSound, NEW i \in DOMAIN calls, WriteRow(i)
  PROVE  HeldSound'
<1> DEFINE r == calls[i].row
<1>1. /\ Done(i) /\ InTurn(i, calls[i].done) /\ UNCHANGED <<recordset, table, conn>>
      /\ rows' = IF calls[i].op = "add" THEN With(rows, r.key, r) ELSE Without(rows, r.key)
  BY DEF WriteRow, dbsync, InTurn
<1>2. r \in Row  BY CallsAre
<1>3. rows \in [DOMAIN rows -> Row] /\ \A k \in DOMAIN rows : rows[k].key = k
  BY DEF HeldSound, TablesSound
<1> HIDE DEF r
<1>4. rows' \in [DOMAIN rows' -> Row]  BY <1>1, <1>2, <1>3 DEF With, Without
<1>5. \A k \in DOMAIN rows' : rows'[k].key = k  BY <1>1, <1>3 DEF With, Without
<1> QED BY <1>1, <1>4, <1>5, GoesHeld

LEMMA WriteIndexHeld ==
  ASSUME IndInv, HeldSound, NEW i \in DOMAIN calls, WriteIndex(i) \/ Sync(i)
  PROVE  HeldSound'
<1>1. Done(i) /\ InTurn(i, calls[i].done) /\ UNCHANGED <<recordset, rows, table, conn>>
  BY DEF WriteIndex, Sync, dbsync, redis, InTurn
<1>2. rows' \in [DOMAIN rows' -> Row] /\ \A k \in DOMAIN rows' : rows'[k].key = k
  BY <1>1 DEF HeldSound, TablesSound
<1> QED BY <1>1, <1>2, GoesHeld

(* The answer to the first call. *)
LEMMA Returned ==
  ASSUME IndInv, HeldSound, Return
  PROVE  /\ 1 \in DOMAIN calls /\ calls[1].done = 3
         /\ \A i \in DOMAIN calls' : /\ i + 1 \in DOMAIN calls /\ calls'[i] = calls[i + 1]
                                     /\ calls'[i].by # calls[1].by
         /\ \A i \in DOMAIN calls : i # 1 => i - 1 \in DOMAIN calls' /\ calls[i] = calls'[i - 1]
         /\ \A d \in Conns : d # calls[1].by => conn'[d] = conn[d]
         /\ calls[1].row = conn[calls[1].by].row
         /\ calls[1].op = "add" =>
              /\ conn[calls[1].by].pc = "adding" /\ conn'[calls[1].by] = Idle
              /\ recordset' = With(recordset, calls[1].row.key, calls[1].row)
              /\ known' = known \cup {calls[1].row.id}
         /\ calls[1].op # "add" =>
              /\ conn[calls[1].by].pc = "deleting"
              /\ conn'[calls[1].by] = [conn[calls[1].by] EXCEPT !.pc = "add",
                                                                !.row = Bound(calls[1].by)]
              /\ recordset' = Without(recordset, calls[1].row.key)
              /\ known' = known
<1>1. calls \in Seq(Call) /\ calls # <<>> /\ calls' = Tail(calls)
  BY CallsAre DEF Return
<1>2. Head(calls) = calls[1] /\ 1 \in DOMAIN calls  BY <1>1
<1>3. calls[1].done = 3  BY <1>2 DEF Return
<1>4. \A i \in DOMAIN calls' : i \in Nat /\ i >= 1 /\ i + 1 \in DOMAIN calls /\ calls'[i] = calls[i + 1]
  BY <1>1
<1>5. \A i \in DOMAIN calls' : calls'[i].by # calls[1].by
  BY <1>2, <1>4, CallsAre
<1>6. \A i \in DOMAIN calls : i # 1 => i - 1 \in DOMAIN calls' /\ calls[i] = calls'[i - 1]
  BY <1>1
<1>7. PICK c \in Conns : c = calls[1].by  BY <1>2, CallsAre
<1>8. /\ calls[1].op = "add" =>
           /\ conn' = [conn EXCEPT ![c] = Idle]
           /\ recordset' = With(recordset, calls[1].row.key, calls[1].row)
           /\ known' = known \cup {calls[1].row.id}
      /\ calls[1].op # "add" =>
           /\ conn' = [conn EXCEPT ![c] = [conn[c] EXCEPT !.pc = "add", !.row = Bound(c)]]
           /\ recordset' = Without(recordset, calls[1].row.key)
           /\ known' = known
  BY <1>2, <1>7 DEF Return
<1>9. calls[1].op = "add" \/ calls[1].op # "add"  OBVIOUS
<1>10. \A d \in Conns : d # c => conn'[d] = conn[d]  BY <1>8, <1>9, CallsAre
<1>11. WaitsFor(c, calls[1].op)  BY <1>2, <1>7, CallsAre
<1>12. calls[1].row = conn[c].row  BY <1>2, <1>7 DEF HeldSound, CallsSound
<1>13. calls[1].op = "add" => conn[c].pc = "adding" /\ conn'[c] = Idle
  BY <1>8, <1>11, CallsAre DEF WaitsFor
<1>14. calls[1].op # "add" =>
         /\ conn[c].pc = "deleting"
         /\ conn'[c] = [conn[c] EXCEPT !.pc = "add", !.row = Bound(c)]
  BY <1>8, <1>11, CallsAre DEF WaitsFor
<1> QED BY <1>2, <1>3, <1>4, <1>5, <1>6, <1>7, <1>8, <1>10, <1>12, <1>13, <1>14

(* What bind goes on with. *)
LEMMA BoundIs ==
  ASSUME IndInv, HeldSound, NEW c \in Conns, NEW x, conn[c].pc = "deleting",
         x = [conn[c] EXCEPT !.pc = "add", !.row = Bound(c)]
  PROVE  /\ x.pc = "add" /\ x.key = conn[c].key /\ x.to = conn[c].to
         /\ x.key \in Keys /\ x.to \in Keys /\ x.to # None
         /\ x.row \in Row /\ x.row # None /\ x.row.key = x.to /\ x.row.id = conn[c].row.id
         /\ HandsSound(x)
<1>1. /\ conn[c] \in Connection /\ HandsSound(conn[c])
      /\ conn[c].row \in Row /\ conn[c].to \in Keys
  BY CallsAre DEF HeldSound, IndInv, Typed, HasWhatItNeeds
<1>2. Bound(c) \in Row /\ Bound(c).key = conn[c].to /\ Bound(c).id = conn[c].row.id
  BY <1>1 DEF Bound, Row
<1>3. x.pc = "add" /\ x.key = conn[c].key /\ x.to = conn[c].to /\ x.row = Bound(c)
  BY <1>1 DEF Connection
<1>4. conn[c].key \in Keys  BY <1>1 DEF HandsSound
<1>5. x.to # None /\ x.row # None  BY <1>1, <1>2, <1>3, AccountsAssumption
<1>6. HandsSound(x)  BY <1>2, <1>3, <1>4, <1>5 DEF HandsSound
<1> QED BY <1>1, <1>2, <1>3, <1>4, <1>5, <1>6

LEMMA ReturnHeld ==
  ASSUME IndInv, HeldSound, Return
  PROVE  HeldSound'
<1>1. PICK c \in Conns : c = calls[1].by  BY Returned, CallsAre
<1>2. PICK r \in Row : r = calls[1].row  BY Returned, CallsAre
<1>3. UNCHANGED <<rows, table>>  BY DEF Return, redis, dbsync
<1>4. recordset' = With(recordset, r.key, r) \/ recordset' = Without(recordset, r.key)
  BY <1>2, Returned
<1>5. TablesSound'
  <2>1. recordset' \in [DOMAIN recordset' -> Row]
    BY <1>4 DEF HeldSound, TablesSound, With, Without
  <2>2. \A k \in DOMAIN recordset' : recordset'[k].key = k
    BY <1>4 DEF HeldSound, TablesSound, With, Without
  <2> QED BY <1>3, <2>1, <2>2 DEF HeldSound, TablesSound
<1>6. \A d \in Conns : HandsSound(conn[d])'
  <2>1. HandsSound(conn'[c])
    <3>1. CASE calls[1].op = "add"
      BY <1>1, <3>1, Returned DEF HandsSound, Idle
    <3>2. CASE calls[1].op # "add"
      BY <1>1, <3>2, Returned, BoundIs
    <3> QED BY <3>1, <3>2
  <2>2. \A d \in Conns \ {c} : HandsSound(conn'[d])  BY <1>1, Returned DEF HeldSound
  <2>3. \A d \in Conns : HandsSound(conn'[d])  BY <2>1, <2>2
  <2> QED BY <2>3 DEF HandsSound
<1>7. CallsSound'
  <2>1. \A i \in DOMAIN calls' : calls'[i].row = conn'[calls'[i].by].row
    <3> SUFFICES ASSUME NEW i \in DOMAIN calls' PROVE calls'[i].row = conn'[calls'[i].by].row
      OBVIOUS
    <3>1. i + 1 \in DOMAIN calls /\ calls'[i] = calls[i + 1] /\ calls'[i].by # calls[1].by
      BY Returned
    <3>2. calls[i + 1].row = conn[calls[i + 1].by].row /\ calls[i + 1].by \in Conns
      BY <3>1, CallsAre DEF HeldSound, CallsSound
    <3> QED BY <3>1, <3>2, Returned
  <2>2. \A i, j \in DOMAIN calls' : i < j => calls'[j].done <= calls'[i].done
    <3> SUFFICES ASSUME NEW i \in DOMAIN calls', NEW j \in DOMAIN calls', i < j
                 PROVE  calls'[j].done <= calls'[i].done
      OBVIOUS
    <3>1. /\ i + 1 \in DOMAIN calls /\ calls'[i] = calls[i + 1]
          /\ j + 1 \in DOMAIN calls /\ calls'[j] = calls[j + 1]
      BY Returned
    <3>2. DOMAIN calls' \subseteq Nat
      BY CallsAre DEF Return
    <3>3. i + 1 < j + 1  BY <3>2
    <3> QED BY <3>1, <3>3 DEF HeldSound, CallsSound
  <2> QED BY <2>1, <2>2 DEF CallsSound
<1> QED BY <1>5, <1>6, <1>7 DEF HeldSound

LEMMA DbsyncHeld ==
  ASSUME IndInv, HeldSound,
         (\E i \in DOMAIN queue : Execute(i)) \/ Answered \/ PoolFails
  PROVE  HeldSound'
<1>1. UNCHANGED <<recordset, rows, calls, conn>> /\ table' \in {table} \cup MaybeExecuted
  BY DEF Execute, Answered, PoolFails, redis, MaybeExecuted
<1>2. Keyed(table')  BY <1>1, MaybeKeyed DEF HeldSound, TablesSound
<1>3. TablesSound'  BY <1>1, <1>2 DEF HeldSound, TablesSound, Keyed
<1> QED BY <1>1, <1>3 DEF HeldSound, CallsSound, HandsSound

LEMMA HeldStep ==
  ASSUME IndInv, HeldSound, [Next]_vars
  PROVE  HeldSound'
<1>1. ASSUME NEW c \in Conns, Register(c) \/ Bind(c) \/ GetNextId(c) \/ Checked(c)
                                \/ Delete(c) \/ Add(c)
      PROVE  HeldSound'
  BY <1>1, RegisterHeld, BindHeld, GetNextIdHeld, CheckedHeld, DeleteHeld, AddHeld
<1>2. ASSUME NEW i \in DOMAIN calls, WriteRow(i) \/ WriteIndex(i) \/ Sync(i)
      PROVE  HeldSound'
  BY <1>2, WriteRowHeld, WriteIndexHeld
<1>3. CASE Return  BY <1>3, ReturnHeld
<1>4. CASE (\E i \in DOMAIN queue : Execute(i)) \/ Answered \/ PoolFails
  BY <1>4, DbsyncHeld
<1>5. CASE Restart  BY <1>5, RestartFills
<1>6. CASE PeerStarts
  <2>1. rows' = NoRows /\ UNCHANGED <<recordset, calls, table, conn>>
    BY <1>6 DEF PeerStarts, dbsync
  <2>2. rows' \in [DOMAIN rows' -> Row] /\ \A k \in DOMAIN rows' : rows'[k].key = k
    BY <2>1 DEF NoRows
  <2>3. TablesSound'  BY <2>1, <2>2 DEF HeldSound, TablesSound
  <2> QED BY <2>1, <2>3 DEF HeldSound, CallsSound, HandsSound
<1>7. CASE UNCHANGED vars  BY <1>7, HeldStutters DEF vars, redis, dbsync
<1> QED BY <1>1, <1>2, <1>3, <1>4, <1>5, <1>6, <1>7 DEF Next

LEMMA FlushStep ==
  ASSUME ByFlush, [Next]_vars
  PROVE  ByFlush'
<1>1. CASE UNCHANGED orphans /\ trouble \subseteq trouble'  BY <1>1 DEF ByFlush
<1>2. ASSUME NEW c \in Conns, Register(c) \/ Bind(c) \/ GetNextId(c) \/ Checked(c)
                                \/ Delete(c) \/ Add(c)
      PROVE  ByFlush'
  BY <1>1, <1>2 DEF Register, Bind, GetNextId, Checked, Delete, Add, Begin, history
<1>3. ASSUME NEW i \in DOMAIN calls, WriteRow(i) \/ WriteIndex(i) \/ Sync(i)
      PROVE  ByFlush'
  BY <1>1, <1>3 DEF WriteRow, WriteIndex, Sync, history
<1>4. CASE Return  BY <1>1, <1>4 DEF Return
<1>5. CASE (\E i \in DOMAIN queue : Execute(i)) \/ Answered \/ PoolFails
  BY <1>1, <1>5 DEF Execute, Answered, PoolFails, history
<1>6. CASE Restart  BY <1>6 DEF Restart, ByFlush
<1>7. CASE PeerStarts  BY <1>7 DEF PeerStarts, ByFlush
<1>8. CASE UNCHANGED vars  BY <1>1, <1>8 DEF vars, history
<1> QED BY <1>2, <1>3, <1>4, <1>5, <1>6, <1>7, <1>8 DEF Next

-----------------------------------------------------------------------------
(* Redis follows memory.                                                   *)

(* A step that writes no hash and answers no call. *)
LEMMA RowsStay ==
  ASSUME IndInv, RowsFollow, trouble \subseteq trouble',
         UNCHANGED <<recordset, rows>>,
         DOMAIN calls \subseteq DOMAIN calls',
         \A i \in DOMAIN calls : calls'[i].row = calls[i].row /\ calls'[i].op = calls[i].op,
         \A i \in DOMAIN calls' :
           calls'[i].done >= 1 <=> i \in DOMAIN calls /\ calls[i].done >= 1
  PROVE  RowsFollow'
<1>1. \A k : Written(k)' = Written(k)  BY DEF Written
<1>2. \A i, k : LastOf(i, k)' <=> LastOf(i, k)  BY <1>1 DEF LastOf
<1>3. \A i \in DOMAIN calls' : \A k : LastOf(i, k) => i \in DOMAIN calls
  BY DEF LastOf, Written
<1>4. \A i \in DOMAIN calls : After(calls[i]) => After(calls[i])'
  BY DEF After
<1> SUFFICES ASSUME "flush" \notin trouble', NEW k \in Keys
             PROVE  /\ Written(k)' = {} => Same(rows, recordset, k)'
                    /\ \A i \in DOMAIN calls' : LastOf(i, k)' => After(calls[i])'
  BY DEF RowsFollow
<1>5. Written(k)' = {} => Same(rows, recordset, k)'
  BY <1>1 DEF RowsFollow, Same
<1>6. \A i \in DOMAIN calls' : LastOf(i, k)' => After(calls[i])'
  BY <1>2, <1>3, <1>4 DEF RowsFollow
<1> QED BY <1>5, <1>6

LEMMA WriteRowFollows ==
  ASSUME IndInv, HeldSound, RowsFollow, NEW i \in DOMAIN calls, WriteRow(i)
  PROVE  RowsFollow'
<1>1. PICK r \in Row : r = calls[i].row  BY CallsAre
<1>2. /\ Done(i) /\ calls[i].done = 0 /\ trouble' = trouble /\ recordset' = recordset
      /\ rows' = IF calls[i].op = "add" THEN With(rows, r.key, r) ELSE Without(rows, r.key)
  BY <1>1 DEF WriteRow, InTurn, history
<1>3. /\ DOMAIN calls' = DOMAIN calls
      /\ \A j \in DOMAIN calls : calls'[j].row = calls[j].row /\ calls'[j].op = calls[j].op
      /\ calls'[i].done = 1
      /\ \A j \in DOMAIN calls \ {i} : calls'[j] = calls[j]
  BY <1>2, Goes
<1> SUFFICES ASSUME "flush" \notin trouble, NEW k \in Keys
             PROVE  /\ Written(k)' = {} => Same(rows, recordset, k)'
                    /\ \A j \in DOMAIN calls' : LastOf(j, k)' => After(calls[j])'
  BY <1>2 DEF RowsFollow
<1>4. CASE k = r.key
  <2>1. i \in Written(k)'  BY <1>1, <1>3, <1>4 DEF Written
  <2>2. ASSUME NEW j \in DOMAIN calls, LastOf(j, k)' PROVE j = i
    <3>1. i <= j /\ calls'[j].done >= 1  BY <2>1, <2>2 DEF LastOf, Written
    <3>2. i \in Nat /\ j \in Nat  BY CallsAre
    <3>3. CASE i < j
      <4>1. calls[j].done <= calls[i].done  BY <3>3 DEF HeldSound, CallsSound
      <4>2. calls'[j] = calls[j]  BY <1>3, <3>3, <3>2
      <4> QED BY <1>2, <3>1, <4>1, <4>2, CallsAre
    <3> QED BY <3>1, <3>2, <3>3
  <2>3. After(calls[i])'
    BY <1>1, <1>2, <1>3 DEF After, With, Without
  <2> QED BY <1>3, <2>1, <2>2, <2>3
<1>5. CASE k # r.key
  <2>1. Written(k)' = Written(k)  BY <1>1, <1>3, <1>5 DEF Written
  <2>2. \A j : LastOf(j, k)' <=> LastOf(j, k)  BY <2>1 DEF LastOf
  <2>3. (k \in DOMAIN rows' <=> k \in DOMAIN rows) /\ (k \in DOMAIN rows => rows'[k] = rows[k])
    BY <1>2, <1>5 DEF With, Without
  <2>4. ASSUME NEW j \in DOMAIN calls, LastOf(j, k) PROVE After(calls[j])'
    <3>1. After(calls[j]) /\ calls[j].row.key = k  BY <2>4 DEF RowsFollow, LastOf, Written
    <3> QED BY <1>3, <2>3, <3>1 DEF After
  <2>5. Written(k) = {} => Same(rows, recordset, k)'
    BY <1>2, <2>3 DEF RowsFollow, Same
  <2> QED BY <1>3, <2>1, <2>2, <2>4, <2>5
<1> QED BY <1>4, <1>5

LEMMA ReturnFollows ==
  ASSUME IndInv, HeldSound, RowsFollow, Return
  PROVE  RowsFollow'
<1>1. PICK r \in Row : r = calls[1].row  BY Returned, CallsAre
<1>2. /\ 1 \in DOMAIN calls /\ calls[1].done = 3
      /\ calls[1].op = "add" => recordset' = With(recordset, r.key, r)
      /\ calls[1].op # "add" => recordset' = Without(recordset, r.key)
      /\ rows' = rows /\ trouble' = trouble
  BY <1>1, Returned DEF Return, redis
<1>3. /\ \A i \in DOMAIN calls' : /\ i \in Nat /\ i >= 1 /\ i + 1 \in DOMAIN calls
                                  /\ calls'[i] = calls[i + 1]
      /\ \A i \in DOMAIN calls : i \in Nat /\ (i # 1 => i - 1 \in DOMAIN calls')
  <2>1. DOMAIN calls' \subseteq Nat \ {0}  BY CallsAre DEF Return
  <2> QED BY <2>1, Returned, CallsAre
<1> SUFFICES ASSUME "flush" \notin trouble, NEW k \in Keys
             PROVE  /\ Written(k)' = {} => Same(rows, recordset, k)'
                    /\ \A j \in DOMAIN calls' : LastOf(j, k)' => After(calls[j])'
  BY <1>2 DEF RowsFollow
<1>4. \A i \in DOMAIN calls' : i \in Written(k)' <=> i + 1 \in Written(k)
  BY <1>3 DEF Written
<1>5. ASSUME NEW j \in DOMAIN calls', LastOf(j, k)' PROVE After(calls[j])'
  <2>1. LastOf(j + 1, k)
    <3>1. j + 1 \in Written(k)  BY <1>4, <1>5 DEF LastOf
    <3>2. ASSUME NEW i \in Written(k) PROVE i <= j + 1
      <4>1. i \in DOMAIN calls  BY DEF Written
      <4>2. CASE i = 1  BY <1>3, <4>2
      <4>3. CASE i # 1
        <5>1. i - 1 \in DOMAIN calls' /\ i \in Nat  BY <1>3, <4>1, <4>3
        <5>2. (i - 1) + 1 = i  BY <5>1
        <5>3. i - 1 \in Written(k)'  BY <1>4, <5>1, <5>2
        <5>4. i - 1 <= j  BY <1>5, <5>3 DEF LastOf
        <5> QED BY <1>3, <5>1, <5>4
      <4> QED BY <4>2, <4>3
    <3> QED BY <3>1, <3>2 DEF LastOf
  <2>2. After(calls[j + 1])  BY <1>3, <2>1 DEF RowsFollow
  <2> QED BY <1>2, <1>3, <2>2 DEF After
<1>6. ASSUME Written(k)' = {} PROVE Same(rows, recordset, k)'
  <2>1. \A i \in Written(k) : i = 1
    <3> SUFFICES ASSUME NEW i \in Written(k), i # 1 PROVE FALSE  OBVIOUS
    <3>1. i - 1 \in DOMAIN calls' /\ i \in Nat  BY <1>3 DEF Written
    <3>2. (i - 1) + 1 = i  BY <3>1
    <3>3. i - 1 \in Written(k)'  BY <1>4, <3>1, <3>2
    <3> QED BY <1>6, <3>3
  <2>2. CASE k = r.key
    <3>1. 1 \in Written(k)  BY <1>1, <1>2, <2>2 DEF Written
    <3>2. LastOf(1, k)  BY <2>1, <3>1 DEF LastOf
    <3>3. After(calls[1])  BY <1>2, <3>2 DEF RowsFollow
    <3> QED BY <1>1, <1>2, <2>2, <3>3 DEF After, Same, With, Without
  <2>3. CASE k # r.key
    <3>1. Written(k) = {}  BY <1>1, <2>1, <2>3 DEF Written
    <3>2. Same(rows, recordset, k)  BY <3>1 DEF RowsFollow
    <3> QED BY <1>2, <2>3, <3>2 DEF Same, With, Without
  <2> QED BY <2>2, <2>3
<1> QED BY <1>5, <1>6

(* A request asks dbmgr, which has not begun with it. *)
LEMMA AskFollows ==
  ASSUME IndInv, RowsFollow, NEW c \in Conns, NEW op \in Ops, NEW row \in Row,
         Ask(c, op, row), UNCHANGED <<recordset, rows, trouble>>
  PROVE  RowsFollow'
<1>1. /\ Len(calls) \in Nat
      /\ DOMAIN calls = 1..Len(calls) /\ DOMAIN calls' = 1..(Len(calls) + 1)
      /\ \A i \in DOMAIN calls : calls'[i] = calls[i]
      /\ calls'[Len(calls) + 1] = [op |-> op, row |-> row, by |-> c, done |-> 0]
  BY Asks
<1>2. \A i \in DOMAIN calls' :
        calls'[i].done >= 1 <=> i \in DOMAIN calls /\ calls[i].done >= 1
  <2> SUFFICES ASSUME NEW i \in DOMAIN calls'
               PROVE calls'[i].done >= 1 <=> i \in DOMAIN calls /\ calls[i].done >= 1
    OBVIOUS
  <2>1. CASE i \in DOMAIN calls  BY <1>1, <2>1
  <2>2. CASE i = Len(calls) + 1  BY <1>1, <2>2
  <2> QED BY <1>1, <2>1, <2>2
<1>3. DOMAIN calls \subseteq DOMAIN calls'  BY <1>1
<1> QED BY <1>1, <1>2, <1>3, RowsStay

LEMMA FollowStep ==
  ASSUME IndInv, HeldSound, RowsFollow, [Next]_vars
  PROVE  RowsFollow'
<1>0. ASSUME UNCHANGED <<recordset, rows, calls>>, trouble \subseteq trouble'
      PROVE  RowsFollow'
  BY <1>0, RowsStay
<1>1. ASSUME NEW c \in Conns, Register(c) \/ Bind(c) \/ GetNextId(c) \/ Checked(c)
      PROVE  RowsFollow'
  BY <1>0, <1>1 DEF Register, Bind, GetNextId, Checked, Begin, redis, history
<1>2. ASSUME NEW c \in Conns, Delete(c) \/ Add(c)
      PROVE  RowsFollow'
  <2>1. UNCHANGED <<recordset, rows, trouble>>  BY <1>2 DEF Delete, Add, redis, history
  <2>2. conn[c].row \in Row
    BY <1>2 DEF IndInv, Typed, HasWhatItNeeds, Delete, Add
  <2>3. \/ calls' = calls
        \/ Ask(c, "add", conn[c].row) \/ Ask(c, "delete", conn[c].row)
    BY <1>2 DEF Delete, Add
  <2> QED BY <1>0, <2>1, <2>2, <2>3, AskFollows DEF Ops
<1>3. ASSUME NEW i \in DOMAIN calls, WriteIndex(i) \/ Sync(i)
      PROVE  RowsFollow'
  <2>1. /\ Done(i) /\ calls[i].done >= 1 /\ UNCHANGED <<recordset, rows, trouble>>
    BY <1>3 DEF WriteIndex, Sync, InTurn, redis, history
  <2>2. /\ DOMAIN calls' = DOMAIN calls
        /\ \A j \in DOMAIN calls : /\ calls'[j].row = calls[j].row
                                   /\ calls'[j].op = calls[j].op
                                   /\ calls'[j].done >= 1 <=> calls[j].done >= 1
    <3>1. calls'[i].done >= 1  BY <2>1, Goes, CallsAre
    <3> QED BY <2>1, <3>1, Goes
  <2> QED BY <2>1, <2>2, RowsStay
<1>4. ASSUME NEW i \in DOMAIN calls, WriteRow(i) PROVE RowsFollow'
  BY <1>4, WriteRowFollows
<1>5. CASE Return  BY <1>5, ReturnFollows
<1>6. CASE (\E i \in DOMAIN queue : Execute(i)) \/ Answered \/ PoolFails
  BY <1>0, <1>6 DEF Execute, Answered, PoolFails, redis, history
<1>7. CASE Restart  BY <1>7, RestartFills
<1>8. CASE PeerStarts  BY <1>8 DEF PeerStarts, RowsFollow
<1>9. CASE UNCHANGED vars  BY <1>0, <1>9 DEF vars, redis, history
<1> QED BY <1>1, <1>2, <1>3, <1>4, <1>5, <1>6, <1>7, <1>8, <1>9 DEF Next

(* Once dbmgr has nothing to do. *)
LEMMA RowsAreRecords ==
  ASSUME HeldSound, RowsFollow, calls = <<>>, "flush" \notin trouble
  PROVE  rows = recordset
<1>1. \A k \in Keys : Same(rows, recordset, k)  BY DEF RowsFollow, Written
<1>2. DOMAIN rows \subseteq Keys /\ DOMAIN recordset \subseteq Keys
  <2>1. \A k \in DOMAIN rows : rows[k] \in Row /\ rows[k].key = k
    BY DEF HeldSound, TablesSound
  <2>2. \A k \in DOMAIN recordset : recordset[k] \in Row /\ recordset[k].key = k
    BY DEF HeldSound, TablesSound
  <2> QED BY <2>1, <2>2 DEF Row
<1>3. DOMAIN rows = DOMAIN recordset /\ \A k \in DOMAIN rows : rows[k] = recordset[k]
  BY <1>1, <1>2 DEF Same
<1> QED BY <1>3 DEF HeldSound, TablesSound

-----------------------------------------------------------------------------
(* Requests that name no account in common.                                *)

LEMMA CalmIsAlone == Calm => Alone
BY DEF Calm, Alone

(* Two requests never wait for calls on one key. *)
LEMMA OneCallPerKey ==
  ASSUME IndInv, HeldSound, Apart,
         NEW i \in DOMAIN calls, NEW j \in DOMAIN calls,
         calls[i].row.key = calls[j].row.key
  PROVE  i = j
<1>1. ASSUME NEW n \in DOMAIN calls
      PROVE  Uses(calls[n].by, calls[n].row.key) /\ calls[n].row.key \in Keys
  <2>1. PICK c \in Conns : c = calls[n].by  BY CallsAre
  <2>2. /\ calls[n].row \in Row /\ calls[n].row = conn[c].row
        /\ conn[c].pc \in {"adding", "deleting"} /\ HandsSound(conn[c])
    BY <2>1, CallsAre DEF HeldSound, CallsSound, WaitsFor
  <2>3. conn[c].row # None /\ calls[n].row.key \in Keys
    BY <2>2, AccountsAssumption DEF Row
  <2> QED BY <2>1, <2>2, <2>3 DEF HandsSound, Uses
<1>2. calls[i].by = calls[j].by  BY <1>1, CallsAre DEF Apart
<1> QED BY <1>2, CallsAre

(* What the invariant says of a request depends on the accounts it names.  *)
LEMMA CurrentStays ==
  ASSUME NEW c \in Conns, Current(c), conn'[c] = conn[c],
         \A k : k \in {conn[c].key, conn[c].to} /\ conn[c].pc # "idle" =>
                  Record(k)' = Record(k)
  PROVE  Current(c)'
BY DEF Current

(* A step of one request that changes no table. *)
LEMMA CalmRequest ==
  ASSUME IndInv, HeldSound, ApartInv, CalmInv, Alone, trouble \subseteq trouble',
         NEW c \in Conns, \A d \in Conns \ {c} : conn'[d] = conn[d],
         UNCHANGED <<recordset, index, known>>,
         \A k \in Keys : Uses(c, k)' => \A d \in Conns \ {c} : ~ Uses(d, k),
         Current(c)',
         Calm /\ conn'[c].pc \in {"add", "adding"} => conn'[c].row.id \notin Ids(InMemory),
         Calm /\ conn'[c].row # None =>
           \A d \in Conns \ {c} : conn[d].row # None => conn[d].row.id # conn'[c].row.id,
         conn[c].pc \in {"add", "adding"} /\ conn[c].to # None =>
           /\ conn'[c].pc \in {"add", "adding"} /\ conn'[c].to # None
           /\ conn'[c].row.id = conn[c].row.id,
         DOMAIN calls \subseteq DOMAIN calls',
         \A i \in DOMAIN calls : calls'[i] = calls[i],
         \A i \in DOMAIN calls' \ DOMAIN calls : calls'[i].done = 0
  PROVE  ApartInv' /\ CalmInv'
<1>1. /\ Apart /\ AccountKept /\ \A d \in Conns : Current(d)
      /\ Calm => OwnIds /\ IndexFollows /\ OneKeyPerAccount
  BY DEF ApartInv, CalmInv
<1>2. InMemory' = InMemory /\ \A k : Record(k)' = Record(k)  BY DEF InMemory, Record
<1>3. Apart'
  <2>1. \A d \in Conns \ {c} : \A k : Uses(d, k)' <=> Uses(d, k)  BY DEF Uses
  <2> QED BY <1>1, <2>1 DEF Apart
<1>4. \A d \in Conns : Current(d)'
  <2>1. ASSUME NEW d \in Conns \ {c} PROVE Current(d)'
    BY <1>1, <1>2, CurrentStays
  <2> QED BY <2>1
<1>5. ASSUME Calm PROVE OwnIds'
  <2>1. \A d \in Conns : conn'[d].pc \in {"add", "adding"} => conn'[d].row.id \notin Ids(InMemory)
    BY <1>1, <1>5 DEF OwnIds
  <2>2. \A d, e \in Conns : /\ conn'[d].row # None /\ conn'[e].row # None
                            /\ conn'[d].row.id = conn'[e].row.id
                            => d = e
    BY <1>1, <1>5 DEF OwnIds
  <2> QED BY <1>2, <2>1, <2>2 DEF OwnIds
<1>6. ASSUME Calm PROVE OneKeyPerAccount'  BY <1>1, <1>6 DEF OneKeyPerAccount
<1>7. AccountKept'
  <2> SUFFICES ASSUME NEW i \in known
               PROVE  \/ i \in Ids(InMemory)
                      \/ \E d \in Conns : /\ conn'[d].pc \in {"add", "adding"}
                                          /\ conn'[d].to # None /\ conn'[d].row.id = i
    BY <1>2 DEF AccountKept
  <2>1. CASE i \in Ids(InMemory)  BY <2>1
  <2>2. CASE \E d \in Conns : /\ conn[d].pc \in {"add", "adding"}
                              /\ conn[d].to # None /\ conn[d].row.id = i
    <3>1. PICK d \in Conns : /\ conn[d].pc \in {"add", "adding"}
                             /\ conn[d].to # None /\ conn[d].row.id = i
      BY <2>2
    <3>2. CASE d = c  BY <3>1, <3>2
    <3>3. CASE d # c  BY <3>1, <3>3
    <3> QED BY <3>2, <3>3
  <2> QED BY <1>1, <2>1, <2>2 DEF AccountKept, Alone
<1>8. ASSUME Calm PROVE IndexFollows'
  <2>1. \A n, k : Listed(n, k)' <=> Listed(n, k)  BY DEF Listed
  <2>2. \A n \in DOMAIN index' : n \in Nat /\ index'[n] \subseteq Keys
    BY <1>1, <1>8 DEF IndexFollows
  <2> SUFFICES ASSUME NEW k \in Keys, NEW n \in Nat
               PROVE  /\ \A i \in DOMAIN calls' :
                           calls'[i].row.key = k /\ calls'[i].done >= 2 =>
                             (Listed(n, k) <=> calls'[i].op = "add" /\ calls'[i].row.id = n)
                      /\ (\A i \in DOMAIN calls' :
                            calls'[i].row.key = k => calls'[i].done < 2) =>
                           (Listed(n, k) <=> Record(k) # None /\ Record(k).id = n)
    BY <1>2, <2>1, <2>2 DEF IndexFollows
  <2>3. ASSUME NEW i \in DOMAIN calls', calls'[i].row.key = k, calls'[i].done >= 2
        PROVE  Listed(n, k) <=> calls'[i].op = "add" /\ calls'[i].row.id = n
    <3>1. CASE i \in DOMAIN calls  BY <1>1, <1>8, <2>3, <3>1 DEF IndexFollows
    <3>2. CASE i \notin DOMAIN calls
      <4>1. calls'[i].done = 0  BY <3>2
      <4> QED BY <2>3, <4>1
    <3> QED BY <3>1, <3>2
  <2>4. ASSUME \A i \in DOMAIN calls' : calls'[i].row.key = k => calls'[i].done < 2
        PROVE  Listed(n, k) <=> Record(k) # None /\ Record(k).id = n
    BY <1>1, <1>8, <2>4 DEF IndexFollows
  <2> QED BY <2>3, <2>4
<1>9. Calm' => Calm  BY DEF Calm
<1> QED BY <1>3, <1>4, <1>5, <1>6, <1>7, <1>8, <1>9 DEF ApartInv, CalmInv

(* Whoever begins alone shares no account with a request under way. *)
LEMMA BeginsAlone ==
  ASSUME NEW c \in Conns, NEW keys \in SUBSET Keys, Begin(c, keys), Alone'
  PROVE  /\ Alone /\ trouble \subseteq trouble'
         /\ \A d \in Conns \ {c}, k \in keys : ~ Uses(d, k)
BY DEF Begin, Overlaps, Uses, Alone

LEMMA RegisterCalm ==
  ASSUME IndInv, HeldSound, ApartInv, CalmInv, Alone', NEW c \in Conns, Register(c)
  PROVE  ApartInv' /\ CalmInv'
<1>1. PICK k \in Keys :
        /\ Begin(c, {k}) /\ conn[c].pc = "idle"
        /\ conn' = IF Record(k) = None
                   THEN [conn EXCEPT ![c] = [Idle EXCEPT !.pc = "nextid", !.key = k]]
                   ELSE conn
        /\ UNCHANGED <<recordset, index, calls, known>>
  BY DEF Register, Begin, redis
<1>2. /\ Alone /\ trouble \subseteq trouble'
      /\ \A d \in Conns \ {c} : ~ Uses(d, k)
  BY <1>1, BeginsAlone
<1>3. Apart /\ Current(c)  BY <1>2 DEF ApartInv
<1>4. conn[c].row = None  BY <1>1 DEF HeldSound, HandsSound
<1>5. CASE conn' = conn
  <2>1. Current(c)'  BY <1>1, <1>3, <1>5, CurrentStays
  <2>2. \A j \in Keys : Uses(c, j)' => \A d \in Conns \ {c} : ~ Uses(d, j)
    BY <1>1, <1>5 DEF Uses
  <2> QED BY <1>1, <1>2, <1>4, <1>5, <2>1, <2>2, CalmRequest
<1>6. CASE /\ Record(k) = None
           /\ conn' = [conn EXCEPT ![c] = [Idle EXCEPT !.pc = "nextid", !.key = k]]
  <2> DEFINE x == [Idle EXCEPT !.pc = "nextid", !.key = k]
  <2>1. x.pc = "nextid" /\ x.key = k /\ x.to = None /\ x.row = None  BY DEF Idle
  <2>2. conn'[c] = x /\ \A d \in Conns \ {c} : conn'[d] = conn[d]  BY <1>6, CallsAre
  <2> HIDE DEF x
  <2>3. Record(k)' = None  BY <1>1, <1>6 DEF Record
  <2>4. Current(c)'  BY <1>1, <2>1, <2>2, <2>3 DEF Current
  <2>5. \A j \in Keys : Uses(c, j)' => j = k
    BY <2>1, <2>2, AccountsAssumption DEF Uses
  <2> QED BY <1>1, <1>2, <2>1, <2>2, <2>4, <2>5, CalmRequest
<1> QED BY <1>1, <1>5, <1>6

LEMMA BindCalm ==
  ASSUME IndInv, HeldSound, ApartInv, CalmInv, Alone', NEW c \in Conns, Bind(c)
  PROVE  ApartInv' /\ CalmInv'
<1>1. PICK k \in Keys, to \in Keys :
        /\ Begin(c, {k, to}) /\ conn[c].pc = "idle"
        /\ conn' = [conn EXCEPT ![c] = [pc |-> "check", key |-> k, to |-> to,
                                         row |-> Record(k)]]
        /\ UNCHANGED <<recordset, index, calls, known>>
  BY AccountsAssumption DEF Bind, Begin, redis
<1>2. /\ Alone /\ trouble \subseteq trouble'
      /\ \A d \in Conns \ {c} : ~ Uses(d, k) /\ ~ Uses(d, to)
  BY <1>1, BeginsAlone
<1>3. /\ \A d \in Conns : Current(d)
      /\ Calm => OwnIds /\ OneKeyPerAccount
  BY <1>2 DEF ApartInv, CalmInv
<1> DEFINE x == [pc |-> "check", key |-> k, to |-> to, row |-> Record(k)]
<1>4. x.pc = "check" /\ x.key = k /\ x.to = to /\ x.row = Record(k)  OBVIOUS
<1>5. conn'[c] = x /\ \A d \in Conns \ {c} : conn'[d] = conn[d]  BY <1>1, CallsAre
<1> HIDE DEF x
<1>6. Record(k)' = Record(k)  BY <1>1 DEF Record
<1>7. Current(c)'  BY <1>4, <1>5, <1>6 DEF Current
<1>8. \A j \in Keys : Uses(c, j)' => j \in {k, to}  BY <1>4, <1>5 DEF Uses
<1>9. ASSUME Calm, Record(k) # None, NEW d \in Conns \ {c}, conn[d].row # None
      PROVE  conn[d].row.id # Record(k).id
  <2>1. Record(k) \in InMemory /\ k \in DOMAIN recordset /\ Record(k) = recordset[k]
    BY <1>9, RecordIs
  <2>2. CASE conn[d].pc \in {"add", "adding"}
    BY <2>1, <2>2, <1>3, <1>9 DEF OwnIds, Ids
  <2>3. CASE conn[d].pc \in {"check", "delete", "deleting"}
    <3>1. PICK j \in Keys : j = conn[d].key
      BY <2>3 DEF HeldSound, HandsSound
    <3>2. conn[d].row = Record(j)  BY <1>3, <2>3, <3>1 DEF Current
    <3>3. j \in DOMAIN recordset /\ Record(j) = recordset[j]
      BY <1>9, <3>2, RecordIs
    <3>4. j # k  BY <1>2, <2>3, <3>1 DEF Uses
    <3> QED BY <1>2, <1>3, <1>9, <2>1, <3>2, <3>3, <3>4 DEF OneKeyPerAccount
  <2>4. CASE conn[d].pc \in {"idle", "nextid"}
    BY <1>9, <2>4 DEF HeldSound, HandsSound
  <2>5. conn[d].pc \in Stages  BY CallsAre DEF Connection
  <2> QED BY <2>2, <2>3, <2>4, <2>5 DEF Stages
<1>10. Calm /\ conn'[c].row # None =>
         \A d \in Conns \ {c} : conn[d].row # None => conn[d].row.id # conn'[c].row.id
  BY <1>4, <1>5, <1>9
<1> QED BY <1>1, <1>2, <1>4, <1>5, <1>7, <1>8, <1>10, CalmRequest

LEMMA GetNextIdCalm ==
  ASSUME IndInv, HeldSound, ByFlush, ApartInv, CalmInv, Alone', NEW c \in Conns,
         GetNextId(c)
  PROVE  ApartInv' /\ CalmInv'
<1> DEFINE x == [conn[c] EXCEPT !.pc = "add",
                                !.row = [id |-> lastid + 1, key |-> conn[c].key]]
<1>1. /\ conn[c].pc = "nextid" /\ conn' = [conn EXCEPT ![c] = x]
      /\ UNCHANGED <<recordset, index, calls, known, trouble>>
  BY DEF GetNextId, history
<1>2. Alone  BY <1>1 DEF Alone
<1>3. Apart /\ Current(c)  BY <1>2 DEF ApartInv
<1>4. conn[c] \in Connection /\ HandsSound(conn[c])  BY CallsAre DEF HeldSound
<1>5. /\ x.pc = "add" /\ x.key = conn[c].key /\ x.to = None
      /\ x.row.id = lastid + 1
  BY <1>1, <1>4 DEF Connection, HandsSound
<1>6. conn'[c] = x /\ \A d \in Conns \ {c} : conn'[d] = conn[d]  BY <1>1, CallsAre
<1> HIDE DEF x
<1>7. ASSUME Calm
      PROVE
      /\ lastid \in Nat
      /\ \A i \in Stored : i \in Nat /\ i <= lastid
      /\ \A d \in Conns : \A i \in HeldBy(d) : i \in Nat /\ i <= lastid
      /\ \A d \in Conns : conn[d].row # None => conn[d].row.id \in HeldBy(d)
  <2>1. Typed /\ UpTo(lastid, {})  BY <1>7 DEF IndInv, IdInv, Counted, Calm, ByFlush
  <2>2. /\ Stored \subseteq Nat
        /\ \A d \in Conns : HeldBy(d) \subseteq Nat
        /\ \A d \in Conns : conn[d].row # None => HeldBy(d) = {conn[d].row.id}
    BY <2>1, IdsAreNumbers
  <2> QED BY <2>1, <2>2 DEF UpTo, Typed
<1>8. Calm => ~ (lastid + 1 <= lastid)  BY <1>7
<1>9. Calm => lastid + 1 \notin Ids(InMemory)
  BY <1>7, <1>8 DEF Stored, Ids
<1>10. Calm => \A d \in Conns : conn[d].row # None => conn[d].row.id # lastid + 1
  BY <1>7, <1>8
<1>11. \A k : Record(k)' = Record(k)  BY <1>1 DEF Record
<1>12. Current(c)'  BY <1>1, <1>3, <1>5, <1>6, <1>11 DEF Current
<1>13. \A k \in Keys : Uses(c, k)' => Uses(c, k)
  BY <1>1, <1>5, <1>6, AccountsAssumption DEF Uses
<1>14. \A k \in Keys : Uses(c, k)' => \A d \in Conns \ {c} : ~ Uses(d, k)
  BY <1>3, <1>13 DEF Apart
<1> QED BY <1>1, <1>2, <1>5, <1>6, <1>9, <1>10, <1>12, <1>14, CalmRequest

LEMMA CheckedCalm ==
  ASSUME IndInv, HeldSound, ApartInv, CalmInv, Alone', NEW c \in Conns, Checked(c)
  PROVE  ApartInv' /\ CalmInv'
<1> DEFINE x == [conn[c] EXCEPT !.pc = "delete"]
<1>1. /\ conn[c].pc = "check"
      /\ UNCHANGED <<recordset, index, calls, known, trouble>>
      /\ \/ conn' = [conn EXCEPT ![c] = Idle]
         \/ conn' = [conn EXCEPT ![c] = x] /\ Record(conn[c].to) = None
  BY DEF Checked, redis, history
<1>2. Alone  BY <1>1 DEF Alone
<1>3. Apart /\ Current(c) /\ (Calm => OwnIds)  BY <1>2 DEF ApartInv, CalmInv
<1>4. conn[c] \in Connection /\ HandsSound(conn[c])  BY CallsAre DEF HeldSound
<1>5. x.pc = "delete" /\ x.key = conn[c].key /\ x.to = conn[c].to /\ x.row = conn[c].row
  BY <1>4 DEF Connection
<1>6. Idle.pc = "idle" /\ Idle.row = None  BY DEF Idle
<1>7. /\ conn'[c] = Idle \/ (conn'[c] = x /\ Record(conn[c].to) = None)
      /\ \A d \in Conns \ {c} : conn'[d] = conn[d]
  BY <1>1, CallsAre
<1> HIDE DEF x
<1>8. \A k : Record(k)' = Record(k)  BY <1>1 DEF Record
<1>9. Current(c)'  BY <1>1, <1>3, <1>5, <1>6, <1>7, <1>8 DEF Current
<1>10. \A k \in Keys : Uses(c, k)' => Uses(c, k)  BY <1>1, <1>5, <1>6, <1>7 DEF Uses
<1>11. \A k \in Keys : Uses(c, k)' => \A d \in Conns \ {c} : ~ Uses(d, k)
  BY <1>3, <1>10 DEF Apart
<1>12. Calm /\ conn'[c].row # None =>
         \A d \in Conns \ {c} : conn[d].row # None => conn[d].row.id # conn'[c].row.id
  BY <1>3, <1>5, <1>6, <1>7 DEF OwnIds
<1> QED BY <1>1, <1>2, <1>5, <1>6, <1>7, <1>9, <1>11, <1>12, CalmRequest

(* A request asks dbmgr. *)
LEMMA AskCalm ==
  ASSUME IndInv, HeldSound, ApartInv, CalmInv, Alone, NEW c \in Conns, NEW op \in Ops,
         Ask(c, op, conn[c].row), conn[c].pc = op,
         conn' = [conn EXCEPT ![c].pc = IF op = "add" THEN "adding" ELSE "deleting"],
         UNCHANGED <<recordset, index, known, trouble>>
  PROVE  ApartInv' /\ CalmInv'
<1>1. Apart /\ Current(c) /\ (Calm => OwnIds)  BY DEF ApartInv, CalmInv
<1>2. conn[c] \in Connection /\ conn[c].row \in Row
  BY CallsAre DEF IndInv, Typed, HasWhatItNeeds, Ops
<1>3. PICK x : x = [conn[c] EXCEPT !.pc = IF op = "add" THEN "adding" ELSE "deleting"]
  OBVIOUS
<1>4. /\ x.pc = (IF op = "add" THEN "adding" ELSE "deleting")
      /\ x.key = conn[c].key /\ x.to = conn[c].to /\ x.row = conn[c].row
  BY <1>2, <1>3 DEF Connection
<1>5. conn'[c] = x /\ \A d \in Conns \ {c} : conn'[d] = conn[d]  BY <1>3, CallsAre
<1>6. /\ conn'[c].key = conn[c].key /\ conn'[c].to = conn[c].to /\ conn'[c].row = conn[c].row
      /\ conn'[c].pc = (IF op = "add" THEN "adding" ELSE "deleting")
  BY <1>4, <1>5
<1>7. \A k : Record(k)' = Record(k)  BY DEF Record
<1>8. Current(c)'  BY <1>1, <1>6, <1>7 DEF Current, Ops
<1>9. \A k \in Keys : Uses(c, k)' => Uses(c, k)  BY <1>6 DEF Uses, Ops
<1>10. \A k \in Keys : Uses(c, k)' => \A d \in Conns \ {c} : ~ Uses(d, k)
  BY <1>1, <1>9 DEF Apart
<1>11. Calm /\ conn'[c].pc \in {"add", "adding"} => conn'[c].row.id \notin Ids(InMemory)
  BY <1>1, <1>6 DEF OwnIds, Ops
<1>12. Calm /\ conn'[c].row # None =>
         \A d \in Conns \ {c} : conn[d].row # None => conn[d].row.id # conn'[c].row.id
  BY <1>1, <1>6 DEF OwnIds
<1>13. conn[c].pc \in {"add", "adding"} /\ conn[c].to # None =>
         /\ conn'[c].pc \in {"add", "adding"} /\ conn'[c].to # None
         /\ conn'[c].row.id = conn[c].row.id
  BY <1>6 DEF Ops
<1>14. /\ DOMAIN calls \subseteq DOMAIN calls'
       /\ \A i \in DOMAIN calls : calls'[i] = calls[i]
       /\ \A i \in DOMAIN calls' \ DOMAIN calls : calls'[i].done = 0
  <2>1. /\ Len(calls) \in Nat
        /\ DOMAIN calls = 1..Len(calls) /\ DOMAIN calls' = 1..(Len(calls) + 1)
        /\ \A i \in DOMAIN calls : calls'[i] = calls[i]
        /\ calls'[Len(calls) + 1] = [op |-> op, row |-> conn[c].row, by |-> c, done |-> 0]
    BY <1>2, Asks
  <2>2. \A i \in DOMAIN calls' \ DOMAIN calls : i = Len(calls) + 1  BY <2>1
  <2>3. calls'[Len(calls) + 1].done = 0  BY <2>1
  <2> QED BY <2>1, <2>2, <2>3
<1> QED BY <1>5, <1>8, <1>10, <1>11, <1>12, <1>13, <1>14, CalmRequest

(* Bind finds the account it has read, and its new key free. *)
LEMMA DeleteCalm ==
  ASSUME IndInv, HeldSound, ApartInv, CalmInv, Alone', NEW c \in Conns, Delete(c)
  PROVE  ApartInv' /\ CalmInv'
<1>1. conn[c].pc = "delete" /\ UNCHANGED <<recordset, index, known, trouble>>
  BY DEF Delete, redis, history
<1>2. Alone /\ Current(c)  BY <1>1 DEF Alone, ApartInv
<1>3. conn[c].row # None
  BY <1>1, AccountsAssumption DEF IndInv, Typed, HasWhatItNeeds
<1>4. Record(conn[c].key) # None  BY <1>1, <1>2, <1>3 DEF Current
<1>5. Ask(c, "delete", conn[c].row) /\ conn' = [conn EXCEPT ![c].pc = "deleting"]
  BY <1>4 DEF Delete
<1> QED BY <1>1, <1>2, <1>5, AskCalm DEF Ops

LEMMA AddCalm ==
  ASSUME IndInv, HeldSound, ApartInv, CalmInv, Alone', NEW c \in Conns, Add(c)
  PROVE  ApartInv' /\ CalmInv'
<1>1. conn[c].pc = "add" /\ UNCHANGED <<recordset, index, known, trouble>>
  BY DEF Add, redis, history
<1>2. Alone /\ Current(c)  BY <1>1 DEF Alone, ApartInv
<1>3. HandsSound(conn[c])  BY DEF HeldSound
<1>4. Record(conn[c].row.key) = None  BY <1>1, <1>2, <1>3 DEF Current, HandsSound
<1>5. Ask(c, "add", conn[c].row) /\ conn' = [conn EXCEPT ![c].pc = "adding"]
  BY <1>4 DEF Add
<1> QED BY <1>1, <1>2, <1>5, AskCalm DEF Ops

-----------------------------------------------------------------------------
(* Steps of dbmgr.                                                         *)

(* What is in memory under the key of a call. *)
LEMMA CallFits ==
  ASSUME IndInv, HeldSound, ApartInv, Alone, NEW i \in DOMAIN calls
  PROVE  /\ calls[i].op = "add" => Record(calls[i].row.key) = None
         /\ calls[i].op # "add" => Record(calls[i].row.key) = calls[i].row
         /\ calls[i].row \in Row /\ calls[i].row.key \in Keys /\ calls[i].row.id \in Nat
<1>1. PICK c \in Conns : c = calls[i].by  BY CallsAre
<1>2. /\ Current(c) /\ HandsSound(conn[c]) /\ WaitsFor(c, calls[i].op)
      /\ calls[i].row = conn[c].row /\ calls[i].row \in Row
  BY <1>1, CallsAre DEF ApartInv, HeldSound, CallsSound
<1>3. conn[c].row # None  BY <1>2, AccountsAssumption
<1>4. calls[i].op = "add" => Record(calls[i].row.key) = None
  BY <1>2 DEF Current, HandsSound, WaitsFor
<1>5. calls[i].op # "add" => Record(calls[i].row.key) = calls[i].row
  BY <1>2, <1>3 DEF Current, HandsSound, WaitsFor
<1> QED BY <1>2, <1>4, <1>5 DEF Row

LEMMA IndexWritten ==
  ASSUME IndInv, NEW i \in DOMAIN calls, WriteIndex(i), IndexFollows
  PROVE  /\ \A n \in DOMAIN index' : n \in Nat /\ index'[n] \subseteq Keys
         /\ \A n, k :
              LET own == n = calls[i].row.id /\ k = calls[i].row.key
              IN Listed(n, k)' <=> IF calls[i].op = "add" THEN Listed(n, k) \/ own
                                   ELSE Listed(n, k) /\ ~ own
<1>1. PICK r \in Row : r = calls[i].row  BY CallsAre
<1>2. PICK keys : keys = IF r.id \in DOMAIN index THEN index[r.id] ELSE {}  OBVIOUS
<1>3. index' = IF calls[i].op = "add" THEN With(index, r.id, keys \cup {r.key})
               ELSE IF keys \subseteq {r.key} THEN Without(index, r.id)
               ELSE With(index, r.id, keys \ {r.key})
  BY <1>1, <1>2 DEF WriteIndex
<1>4. r.id \in Nat /\ r.key \in Keys  BY DEF Row
<1>5. /\ \A n \in DOMAIN index : n \in Nat /\ index[n] \subseteq Keys
      /\ keys \subseteq Keys
  BY <1>2 DEF IndexFollows
<1>6. \A k : k \in keys <=> Listed(r.id, k)  BY <1>2 DEF Listed
<1>7. ASSUME NEW s, index' = With(index, r.id, s)
      PROVE  \A n, k : Listed(n, k)' <=> IF n = r.id THEN k \in s ELSE Listed(n, k)
  BY <1>7 DEF With, Listed
<1>8. ASSUME NEW s \in SUBSET Keys, index' = With(index, r.id, s)
      PROVE  \A n \in DOMAIN index' : n \in Nat /\ index'[n] \subseteq Keys
  BY <1>4, <1>5, <1>8 DEF With
<1>9. CASE calls[i].op = "add"
  <2>1. index' = With(index, r.id, keys \cup {r.key})  BY <1>3, <1>9
  <2>2. keys \cup {r.key} \in SUBSET Keys  BY <1>4, <1>5
  <2>3. \A n \in DOMAIN index' : n \in Nat /\ index'[n] \subseteq Keys
    BY <1>8, <2>1, <2>2
  <2>4. \A n, k : Listed(n, k)' <=> IF n = r.id THEN k \in keys \cup {r.key} ELSE Listed(n, k)
    BY <1>7, <2>1
  <2>5. \A n, k : Listed(n, k)' <=> Listed(n, k) \/ (n = r.id /\ k = r.key)
    BY <1>6, <2>4
  <2> QED BY <1>1, <1>9, <2>3, <2>5
<1>10. CASE calls[i].op # "add" /\ keys \subseteq {r.key}
  <2>1. index' = Without(index, r.id)  BY <1>3, <1>10
  <2>2. \A n \in DOMAIN index' : n \in Nat /\ index'[n] \subseteq Keys
    BY <1>5, <2>1 DEF Without
  <2>3. \A n, k : Listed(n, k)' <=> Listed(n, k) /\ n # r.id
    BY <2>1 DEF Without, Listed
  <2> QED BY <1>1, <1>6, <1>10, <2>2, <2>3
<1>11. CASE calls[i].op # "add" /\ ~ keys \subseteq {r.key}
  <2>1. index' = With(index, r.id, keys \ {r.key})  BY <1>3, <1>11
  <2>2. keys \ {r.key} \in SUBSET Keys  BY <1>5
  <2>3. \A n \in DOMAIN index' : n \in Nat /\ index'[n] \subseteq Keys
    BY <1>8, <2>1, <2>2
  <2>4. \A n, k : Listed(n, k)' <=> IF n = r.id THEN k \in keys \ {r.key} ELSE Listed(n, k)
    BY <1>7, <2>1
  <2>5. \A n, k : Listed(n, k)' <=> Listed(n, k) /\ ~ (n = r.id /\ k = r.key)
    BY <1>6, <2>4
  <2> QED BY <1>1, <1>11, <2>3, <2>5
<1> QED BY <1>9, <1>10, <1>11

LEMMA WriteIndexFollows ==
  ASSUME IndInv, HeldSound, ApartInv, CalmInv, Calm, NEW i \in DOMAIN calls, WriteIndex(i)
  PROVE  IndexFollows'
<1>1. Done(i) /\ calls[i].done = 1 /\ recordset' = recordset
  BY DEF WriteIndex, InTurn
<1>2. Apart /\ IndexFollows /\ Alone  BY CalmIsAlone DEF ApartInv, CalmInv
<1>3. \A k : Record(k)' = Record(k)  BY <1>1 DEF Record
<1>4. /\ DOMAIN calls' = DOMAIN calls
      /\ \A j \in DOMAIN calls : calls'[j].row = calls[j].row /\ calls'[j].op = calls[j].op
      /\ calls'[i].done = 2
      /\ \A j \in DOMAIN calls \ {i} : calls'[j] = calls[j]
  BY <1>1, Goes
<1>5. PICK r : r = calls[i].row  OBVIOUS
<1>6. \A n, k : Listed(n, k)' <=>
        IF calls[i].op = "add" THEN Listed(n, k) \/ (n = r.id /\ k = r.key)
        ELSE Listed(n, k) /\ ~ (n = r.id /\ k = r.key)
  BY <1>2, <1>5, IndexWritten
<1>7. /\ calls[i].op = "add" => Record(r.key) = None
      /\ calls[i].op # "add" => Record(r.key) = r
      /\ r \in Row /\ r.key \in Keys /\ r.id \in Nat
  BY <1>2, <1>5, CallFits
<1>8. \A j \in DOMAIN calls : calls[j].row.key = r.key => j = i
  BY <1>2, <1>5, OneCallPerKey
<1>9. \A n \in DOMAIN index' : n \in Nat /\ index'[n] \subseteq Keys
  BY <1>2, IndexWritten
<1> SUFFICES ASSUME NEW k \in Keys, NEW n \in Nat
             PROVE  /\ \A j \in DOMAIN calls' :
                         calls'[j].row.key = k /\ calls'[j].done >= 2 =>
                           (Listed(n, k)' <=> calls'[j].op = "add" /\ calls'[j].row.id = n)
                    /\ (\A j \in DOMAIN calls' : calls'[j].row.key = k => calls'[j].done < 2) =>
                         (Listed(n, k)' <=> Record(k)' # None /\ Record(k)'.id = n)
  BY <1>9 DEF IndexFollows
<1>10. CASE k = r.key
  <2>1. \A j \in DOMAIN calls : calls[j].row.key = k => calls[j].done < 2
    BY <1>1, <1>8, <1>10
  <2>2. Listed(n, k) <=> Record(k) # None /\ Record(k).id = n
    BY <1>2, <2>1 DEF IndexFollows
  <2>3. Listed(n, k)' <=> calls[i].op = "add" /\ r.id = n
    BY <1>6, <1>7, <1>10, <2>2
  <2>4. calls'[i].row.key = k /\ ~ calls'[i].done < 2  BY <1>4, <1>5, <1>10
  <2>5. \A j \in DOMAIN calls' : calls'[j].row.key = k => j = i  BY <1>4, <1>8, <1>10
  <2> QED BY <1>4, <1>5, <2>3, <2>4, <2>5
<1>11. CASE k # r.key
  <2>1. Listed(n, k)' <=> Listed(n, k)  BY <1>6, <1>11
  <2>2. \A j \in DOMAIN calls : calls'[j].row.key = k => j # i /\ calls'[j] = calls[j]
    BY <1>4, <1>5, <1>11
  <2>3. \A j \in DOMAIN calls : calls[j].row.key = k => j # i /\ calls'[j] = calls[j]
    BY <1>4, <1>5, <1>11
  <2> QED BY <1>2, <1>3, <1>4, <2>1, <2>2, <2>3 DEF IndexFollows
<1> QED BY <1>10, <1>11

(* What does not depend on dbmgr and its tables. *)
LEMMA MemoryStays ==
  ASSUME ApartInv, CalmInv, UNCHANGED <<recordset, conn, known>>, trouble \subseteq trouble'
  PROVE  /\ ApartInv'
         /\ Calm' => Calm /\ OwnIds' /\ OneKeyPerAccount'
<1>1. \A k : Record(k)' = Record(k)  BY DEF Record
<1>2. InMemory' = InMemory  BY DEF InMemory
<1>3. ApartInv'
  <2> SUFFICES ASSUME Alone' PROVE Apart' /\ AccountKept' /\ \A c \in Conns : Current(c)'
    BY DEF ApartInv
  <2>1. Alone /\ Apart /\ AccountKept /\ \A c \in Conns : Current(c)
    BY DEF ApartInv, Alone
  <2>2. \A c \in Conns : Current(c)'
    <3> SUFFICES ASSUME NEW c \in Conns PROVE Current(c)'  OBVIOUS
    <3>1. Current(c)  BY <2>1
    <3> QED BY <1>1, <3>1 DEF Current
  <2>3. Apart'  BY <2>1 DEF Apart, Uses
  <2>4. AccountKept'  BY <1>2, <2>1 DEF AccountKept, Alone
  <2> QED BY <2>2, <2>3, <2>4
<1>4. ASSUME Calm' PROVE Calm /\ OwnIds' /\ OneKeyPerAccount'
  <2>1. Calm /\ OwnIds /\ OneKeyPerAccount  BY <1>4 DEF Calm, CalmInv
  <2>2. OwnIds'  BY <1>2, <2>1 DEF OwnIds
  <2>3. OneKeyPerAccount'  BY <2>1 DEF OneKeyPerAccount
  <2> QED BY <2>1, <2>2, <2>3
<1> QED BY <1>3, <1>4

LEMMA WriteCalm ==
  ASSUME IndInv, HeldSound, ApartInv, CalmInv, NEW i \in DOMAIN calls,
         WriteRow(i) \/ WriteIndex(i) \/ Sync(i)
  PROVE  ApartInv' /\ CalmInv'
<1>1. Done(i) /\ UNCHANGED <<recordset, conn, known, trouble>>
  BY DEF WriteRow, WriteIndex, Sync, history
<1>2. ApartInv' /\ (Calm' => Calm /\ OwnIds' /\ OneKeyPerAccount')
  BY <1>1, MemoryStays
<1> SUFFICES ASSUME Calm' PROVE IndexFollows'  BY <1>2 DEF CalmInv
<1>3. IndexFollows  BY <1>2 DEF CalmInv
<1>4. CASE WriteIndex(i)  BY <1>2, <1>4, WriteIndexFollows
<1>5. CASE WriteRow(i) \/ Sync(i)
  <2>1. index' = index /\ calls[i].done \in {0, 2}
    BY <1>5 DEF WriteRow, Sync, InTurn, redis
  <2>2. /\ DOMAIN calls' = DOMAIN calls
        /\ \A j \in DOMAIN calls : /\ calls'[j].row = calls[j].row
                                   /\ calls'[j].op = calls[j].op
                                   /\ calls'[j].done >= 2 <=> calls[j].done >= 2
                                   /\ calls'[j].done < 2 <=> calls[j].done < 2
    <3>1. calls'[i].done = calls[i].done + 1  BY <1>1, Goes
    <3>2. calls'[i].done >= 2 <=> calls[i].done >= 2  BY <2>1, <3>1
    <3>3. calls'[i].done < 2 <=> calls[i].done < 2  BY <2>1, <3>1
    <3> QED BY <1>1, <3>2, <3>3, Goes
  <2>3. \A n, k : Listed(n, k)' <=> Listed(n, k)  BY <2>1 DEF Listed
  <2>4. \A k : Record(k)' = Record(k)  BY <1>1 DEF Record
  <2> QED BY <1>3, <2>1, <2>2, <2>3, <2>4 DEF IndexFollows
<1> QED BY <1>4, <1>5

(* The answer to the first call; its account comes to memory or goes.      *)
LEMMA ReturnIndex ==
  ASSUME IndInv, HeldSound, ApartInv, CalmInv, Calm, Return,
         NEW r, r = calls[1].row,
         \A k : k # r.key => Record(k)' = Record(k),
         calls[1].op = "add" => Record(r.key)' = r,
         calls[1].op # "add" => Record(r.key)' = None
  PROVE  IndexFollows'
<1>1. Apart /\ IndexFollows /\ Alone  BY CalmIsAlone DEF ApartInv, CalmInv
<1>2. 1 \in DOMAIN calls /\ calls[1].done = 3 /\ index' = index
  BY Returned DEF Return, redis
<1>3. r \in Row /\ r.key \in Keys /\ r.id \in Nat /\ r # None
  BY <1>1, <1>2, CallFits, AccountsAssumption
<1>4. \A n, k : Listed(n, k)' <=> Listed(n, k)  BY <1>2 DEF Listed
<1>5. \A j \in DOMAIN calls : calls[j].row.key = r.key => j = 1
  BY <1>1, <1>2, OneCallPerKey
<1>6. \A j \in DOMAIN calls' :
        /\ j + 1 \in DOMAIN calls /\ j + 1 # 1 /\ calls'[j] = calls[j + 1]
        /\ calls'[j].row.key # r.key
  <2>1. DOMAIN calls' \subseteq Nat \ {0}  BY CallsAre DEF Return
  <2>2. \A j \in DOMAIN calls' : j + 1 # 1  BY <2>1
  <2> QED BY <1>5, <2>2, Returned
<1>7. \A n \in DOMAIN index' : n \in Nat /\ index'[n] \subseteq Keys
  BY <1>1, <1>2 DEF IndexFollows
<1> SUFFICES ASSUME NEW k \in Keys, NEW n \in Nat
             PROVE  /\ \A j \in DOMAIN calls' :
                         calls'[j].row.key = k /\ calls'[j].done >= 2 =>
                           (Listed(n, k)' <=> calls'[j].op = "add" /\ calls'[j].row.id = n)
                    /\ (\A j \in DOMAIN calls' : calls'[j].row.key = k => calls'[j].done < 2) =>
                         (Listed(n, k)' <=> Record(k)' # None /\ Record(k)'.id = n)
  BY <1>7 DEF IndexFollows
<1>8. \A j \in DOMAIN calls' :
        calls'[j].row.key = k /\ calls'[j].done >= 2 =>
          (Listed(n, k)' <=> calls'[j].op = "add" /\ calls'[j].row.id = n)
  BY <1>1, <1>4, <1>6 DEF IndexFollows
<1>9. ASSUME \A j \in DOMAIN calls' : calls'[j].row.key = k => calls'[j].done < 2
      PROVE  Listed(n, k)' <=> Record(k)' # None /\ Record(k)'.id = n
  <2>1. CASE k = r.key
    <3>1. Listed(n, k) <=> calls[1].op = "add" /\ r.id = n
      <4>1. calls[1].row.key = k /\ calls[1].done >= 2  BY <1>2, <2>1
      <4> QED BY <1>1, <1>2, <4>1 DEF IndexFollows
    <3> QED BY <1>3, <1>4, <2>1, <3>1
  <2>2. CASE k # r.key
    <3>1. \A j \in DOMAIN calls : calls[j].row.key = k => calls[j].done < 2
      <4> SUFFICES ASSUME NEW j \in DOMAIN calls, calls[j].row.key = k
                   PROVE  calls[j].done < 2
        OBVIOUS
      <4>1. j # 1  BY <2>2
      <4>2. j - 1 \in DOMAIN calls' /\ calls[j] = calls'[j - 1]  BY <4>1, Returned
      <4> QED BY <1>9, <4>2
    <3>2. Listed(n, k) <=> Record(k) # None /\ Record(k).id = n
      BY <1>1, <3>1 DEF IndexFollows
    <3> QED BY <1>4, <2>2, <3>2
  <2> QED BY <2>1, <2>2
<1> QED BY <1>8, <1>9

LEMMA ReturnAdds ==
  ASSUME IndInv, HeldSound, ApartInv, CalmInv, Alone', Return, calls[1].op = "add"
  PROVE  ApartInv' /\ CalmInv'
<1>0. trouble' = trouble /\ Alone  BY DEF Return, Alone
<1>1. PICK c \in Conns : c = calls[1].by  BY Returned, CallsAre
<1>2. PICK r \in Row : r = calls[1].row  BY Returned, CallsAre
<1>3. /\ 1 \in DOMAIN calls /\ r = conn[c].row
      /\ conn[c].pc = "adding" /\ conn'[c] = Idle
      /\ \A d \in Conns \ {c} : conn'[d] = conn[d]
      /\ recordset' = With(recordset, r.key, r) /\ known' = known \cup {r.id}
  BY <1>1, <1>2, Returned
<1>4. /\ Apart /\ AccountKept /\ \A d \in Conns : Current(d)
      /\ Calm => OwnIds /\ OneKeyPerAccount
  BY <1>0 DEF ApartInv, CalmInv
<1>5. Record(r.key) = None /\ r.key \in Keys /\ r # None
  BY <1>0, <1>2, <1>3, CallFits, AccountsAssumption
<1>6. r.key \notin DOMAIN recordset  BY <1>5, RecordIs
<1>7. /\ DOMAIN recordset' = DOMAIN recordset \cup {r.key}
      /\ recordset'[r.key] = r
      /\ \A k \in DOMAIN recordset : recordset'[k] = recordset[k]
  BY <1>3, <1>6 DEF With
<1>8. /\ \A k : k # r.key => Record(k)' = Record(k)
      /\ Record(r.key)' = r
  BY <1>7 DEF Record
<1>9. Calm => IndexFollows'  BY <1>2, <1>8, ReturnIndex
<1>10. InMemory' = InMemory \cup {r}  BY <1>7 DEF InMemory
<1>11. Idle.pc = "idle" /\ Idle.row = None  BY DEF Idle
<1>12. \A d \in Conns : \A k : Uses(d, k)' => Uses(d, k)
  BY <1>3, <1>11 DEF Uses
<1>13. Apart'  BY <1>4, <1>12 DEF Apart
<1>14. \A d \in Conns : Current(d)'
  <2>1. Current(c)'  BY <1>3, <1>11 DEF Current
  <2>2. ASSUME NEW d \in Conns \ {c} PROVE Current(d)'
    <3>1. Uses(c, r.key)
      BY <1>3, <1>5 DEF Uses, HeldSound, HandsSound
    <3>2. ~ Uses(d, r.key)  BY <1>4, <1>5, <3>1 DEF Apart
    <3> QED BY <1>3, <1>4, <1>8, <3>2, CurrentStays DEF Uses
  <2> QED BY <2>1, <2>2
<1>15. ASSUME Calm PROVE OwnIds'
  <2>1. \A d \in Conns \ {c} :
          conn[d].pc \in {"add", "adding"} => conn[d].row # None /\ conn[d].row.id # r.id
    <3> SUFFICES ASSUME NEW d \in Conns \ {c}, conn[d].pc \in {"add", "adding"}
                 PROVE  conn[d].row # None /\ conn[d].row.id # r.id
      OBVIOUS
    <3>1. conn[d].row # None
      BY AccountsAssumption DEF IndInv, Typed, HasWhatItNeeds
    <3> QED BY <1>3, <1>4, <1>15, <1>5, <3>1 DEF OwnIds
  <2>2. \A d \in Conns : conn'[d].pc \in {"add", "adding"} => conn'[d].row.id \notin Ids(InMemory')
    BY <1>3, <1>4, <1>15, <1>10, <1>11, <2>1 DEF OwnIds, Ids
  <2>3. \A d, e \in Conns : /\ conn'[d].row # None /\ conn'[e].row # None
                            /\ conn'[d].row.id = conn'[e].row.id
                            => d = e
    BY <1>3, <1>4, <1>15, <1>11 DEF OwnIds
  <2> QED BY <2>2, <2>3 DEF OwnIds
<1>16. ASSUME Calm PROVE OneKeyPerAccount'
  <2>1. \A k \in DOMAIN recordset : recordset[k].id # r.id
    BY <1>3, <1>4, <1>16 DEF OwnIds, Ids, InMemory
  <2> QED BY <1>4, <1>16, <1>7, <2>1 DEF OneKeyPerAccount
<1>17. AccountKept'
  <2> SUFFICES ASSUME NEW i \in known'
               PROVE  \/ i \in Ids(InMemory')
                      \/ \E d \in Conns : /\ conn'[d].pc \in {"add", "adding"}
                                          /\ conn'[d].to # None /\ conn'[d].row.id = i
    BY DEF AccountKept
  <2>1. CASE i = r.id  BY <1>10, <2>1 DEF Ids
  <2>2. CASE i \in Ids(InMemory)  BY <1>10, <2>2 DEF Ids
  <2>3. CASE i # r.id /\ i \notin Ids(InMemory)
    <3>1. PICK d \in Conns : /\ conn[d].pc \in {"add", "adding"}
                             /\ conn[d].to # None /\ conn[d].row.id = i
      BY <1>0, <1>3, <1>4, <2>3 DEF AccountKept, Alone
    <3>2. d # c  BY <1>3, <2>3, <3>1
    <3> QED BY <1>3, <3>1, <3>2
  <2> QED BY <2>1, <2>2, <2>3
<1>18. Calm' => Calm  BY <1>0 DEF Calm
<1> QED BY <1>9, <1>13, <1>14, <1>15, <1>16, <1>17, <1>18 DEF ApartInv, CalmInv

LEMMA ReturnDeletes ==
  ASSUME IndInv, HeldSound, ApartInv, CalmInv, Alone', Return, calls[1].op # "add"
  PROVE  ApartInv' /\ CalmInv'
<1>0. trouble' = trouble /\ Alone  BY DEF Return, Alone
<1>1. PICK c \in Conns : c = calls[1].by  BY Returned, CallsAre
<1>2. PICK r \in Row : r = calls[1].row  BY Returned, CallsAre
<1>3. PICK x : x = [conn[c] EXCEPT !.pc = "add", !.row = Bound(c)]  OBVIOUS
<1>4. /\ 1 \in DOMAIN calls /\ r = conn[c].row
      /\ conn[c].pc = "deleting" /\ conn'[c] = x
      /\ \A d \in Conns \ {c} : conn'[d] = conn[d]
      /\ recordset' = Without(recordset, r.key) /\ known' = known
  BY <1>1, <1>2, <1>3, Returned
<1>5. /\ x.pc = "add" /\ x.key = conn[c].key /\ x.to = conn[c].to /\ x.to # None
      /\ x.row # None /\ x.row.id = r.id
  BY <1>3, <1>4, BoundIs
<1>6. /\ Apart /\ AccountKept /\ \A d \in Conns : Current(d)
      /\ Calm => OwnIds /\ OneKeyPerAccount
  BY <1>0 DEF ApartInv, CalmInv
<1>7. Record(r.key) = r /\ r.key \in Keys /\ r # None
  BY <1>0, <1>2, <1>4, CallFits, AccountsAssumption
<1>8. r.key \in DOMAIN recordset /\ recordset[r.key] = r  BY <1>7, RecordIs
<1>9. /\ DOMAIN recordset' = DOMAIN recordset \ {r.key}
      /\ \A k \in DOMAIN recordset' : recordset'[k] = recordset[k]
  BY <1>4 DEF Without
<1>10. /\ \A k : k # r.key => Record(k)' = Record(k)
       /\ Record(r.key)' = None
  BY <1>9 DEF Record
<1>11. Calm => IndexFollows'  BY <1>2, <1>10, ReturnIndex
<1>12. r.key = conn[c].key
  BY <1>4, <1>7 DEF HeldSound, HandsSound
<1>13. ASSUME Calm
       PROVE  \A i : i \in Ids(InMemory') => i \in Ids(InMemory) /\ i # r.id
  <2>1. \A s \in InMemory' : \E k \in DOMAIN recordset : k # r.key /\ s = recordset[k]
    BY <1>9 DEF InMemory
  <2>2. \A k \in DOMAIN recordset : k # r.key => recordset[k].id # r.id
    BY <1>6, <1>13, <1>8 DEF OneKeyPerAccount
  <2> QED BY <2>1, <2>2 DEF Ids, InMemory
<1>14. \A i : i \in Ids(InMemory) => i \in Ids(InMemory') \/ i = r.id
  BY <1>8, <1>9 DEF Ids, InMemory
<1>15. Apart'
  <2>1. \A d \in Conns : \A k : Uses(d, k)' => Uses(d, k)
    BY <1>4, <1>5 DEF Uses
  <2> QED BY <1>6, <2>1 DEF Apart
<1>16. \A d \in Conns : Current(d)'
  <2>1. Current(c)'
    <3>1. PICK to : to = conn[c].to  OBVIOUS
    <3>2. Record(to) = None  BY <1>4, <1>5, <1>6, <3>1 DEF Current
    <3>3. Record(to)' = None  BY <1>10, <3>2
    <3>4. x.key = r.key /\ x.to = to  BY <1>5, <1>12, <3>1
    <3> QED BY <1>4, <1>5, <1>10, <3>3, <3>4 DEF Current
  <2>2. ASSUME NEW d \in Conns \ {c} PROVE Current(d)'
    <3>1. Uses(c, r.key)  BY <1>4, <1>12 DEF Uses
    <3>2. ~ Uses(d, r.key)  BY <1>6, <1>7, <3>1 DEF Apart
    <3> QED BY <1>4, <1>6, <1>10, <3>2, CurrentStays DEF Uses
  <2> QED BY <2>1, <2>2
<1>17. ASSUME Calm PROVE OwnIds'
  <2>1. \A d \in Conns : conn'[d].pc \in {"add", "adding"} => conn'[d].row.id \notin Ids(InMemory')
    BY <1>4, <1>5, <1>6, <1>17, <1>13 DEF OwnIds
  <2>2. \A d, e \in Conns : /\ conn'[d].row # None /\ conn'[e].row # None
                            /\ conn'[d].row.id = conn'[e].row.id
                            => d = e
    BY <1>4, <1>5, <1>6, <1>17, <1>7 DEF OwnIds
  <2> QED BY <2>1, <2>2 DEF OwnIds
<1>18. ASSUME Calm PROVE OneKeyPerAccount'  BY <1>6, <1>9, <1>18 DEF OneKeyPerAccount
<1>19. AccountKept'
  <2> SUFFICES ASSUME NEW i \in known
               PROVE  \/ i \in Ids(InMemory')
                      \/ \E d \in Conns : /\ conn'[d].pc \in {"add", "adding"}
                                          /\ conn'[d].to # None /\ conn'[d].row.id = i
    BY <1>4 DEF AccountKept
  <2>1. CASE i = r.id  BY <1>4, <1>5, <2>1
  <2>2. CASE i \in Ids(InMemory) /\ i # r.id  BY <1>14, <2>2
  <2>3. CASE i \notin Ids(InMemory)
    <3>1. PICK d \in Conns : /\ conn[d].pc \in {"add", "adding"}
                             /\ conn[d].to # None /\ conn[d].row.id = i
      BY <1>0, <1>6, <2>3 DEF AccountKept, Alone
    <3>2. d # c  BY <1>4, <3>1
    <3> QED BY <1>4, <3>1, <3>2
  <2> QED BY <2>1, <2>2, <2>3
<1>20. Calm' => Calm  BY <1>0 DEF Calm
<1> QED BY <1>11, <1>15, <1>16, <1>17, <1>18, <1>19, <1>20 DEF ApartInv, CalmInv

LEMMA CalmStep ==
  ASSUME IndInv, HeldSound, ByFlush, ApartInv, CalmInv, [Next]_vars, ~ Restart
  PROVE  ApartInv' /\ CalmInv'
<1>1. CASE ~ Alone'
  <2>1. ~ Calm'  BY <1>1 DEF Calm, Alone
  <2> QED BY <1>1, <2>1 DEF ApartInv, CalmInv
<1>2. CASE Alone'
  <2>1. ASSUME NEW c \in Conns, Register(c) \/ Bind(c) \/ GetNextId(c) \/ Checked(c)
                                  \/ Delete(c) \/ Add(c)
        PROVE  ApartInv' /\ CalmInv'
    BY <1>2, <2>1, RegisterCalm, BindCalm, GetNextIdCalm, CheckedCalm, DeleteCalm, AddCalm
  <2>2. ASSUME NEW i \in DOMAIN calls, WriteRow(i) \/ WriteIndex(i) \/ Sync(i)
        PROVE  ApartInv' /\ CalmInv'
    BY <2>2, WriteCalm
  <2>3. CASE Return  BY <1>2, <2>3, ReturnAdds, ReturnDeletes
  <2>4. ASSUME UNCHANGED <<recordset, conn, known, calls, index>>, trouble \subseteq trouble'
        PROVE  ApartInv' /\ CalmInv'
    <3>1. ApartInv' /\ (Calm' => Calm /\ OwnIds' /\ OneKeyPerAccount')
      BY <2>4, MemoryStays
    <3>2. Calm => IndexFollows'
      BY <2>4 DEF CalmInv, IndexFollows, Listed, Record
    <3> QED BY <3>1, <3>2 DEF CalmInv
  <2>5. CASE (\E i \in DOMAIN queue : Execute(i)) \/ Answered \/ PoolFails
    BY <2>4, <2>5 DEF Execute, Answered, PoolFails, redis, history
  <2>6. CASE PeerStarts
    <3>1. UNCHANGED <<recordset, conn, known>> /\ trouble \subseteq trouble' /\ ~ Calm'
      BY <2>6 DEF PeerStarts, Calm
    <3> QED BY <3>1, MemoryStays DEF CalmInv
  <2>7. CASE UNCHANGED vars  BY <2>4, <2>7 DEF vars, redis, history
  <2> QED BY <2>1, <2>2, <2>3, <2>5, <2>6, <2>7 DEF Next
<1> QED BY <1>1, <1>2

-----------------------------------------------------------------------------
(* What the statements in the queue make of MySQL's table.                 *)

(* A set of natural numbers that is not empty has a least one. *)
LEMMA LeastOf ==
  ASSUME NEW T \in SUBSET Nat, T # {}
  PROVE  \E n \in T : \A k \in T : n <= k
<1> DEFINE R == {p \in Nat \X Nat : p[1] < p[2]}
<1>1. IsWellFoundedOn(R, Nat)
  BY NatLessThanWellFounded DEF OpToRel
<1>2. PICK n \in T : \A k \in T : <<k, n>> \notin R
  BY <1>1, WFMin
<1>3. ASSUME NEW k \in T PROVE n <= k
  <2>1. ~(k < n)  BY <1>2
  <2> QED BY <2>1
<1> QED BY <1>2, <1>3

(* f[n] is the table t after the first n statements of q. *)
Drains(f, t, q, N) ==
  f = [n \in 0 .. N |-> IF n = 0 THEN t ELSE Executed(f[n - 1], q[n])]

(* The recursive function in Drained exists. *)
LEMMA DrainsExists ==
  ASSUME NEW t, NEW q, NEW N \in Nat
  PROVE  \E f : Drains(f, t, q, N)
<1> DEFINE T == {n \in Nat : ~ \E f : Drains(f, t, q, n)}
<1> SUFFICES ASSUME T # {} PROVE FALSE
  OBVIOUS
<1>1. PICK n \in T : \A k \in T : n <= k
  BY LeastOf
<1>2. CASE n = 0
  <2>1. PICK f : f = [i \in 0 .. 0 |-> t]
    OBVIOUS
  <2>2. Drains(f, t, q, 0)
    BY <2>1 DEF Drains
  <2> QED BY <1>1, <1>2, <2>2
<1>3. CASE n # 0
  <2>1. n - 1 \in Nat /\ n - 1 \notin T
    BY <1>1, <1>3
  <2>2. PICK g : Drains(g, t, q, n - 1)
    BY <2>1
  <2>3. PICK f : f = [i \in 0 .. n |-> IF i = n THEN Executed(g[n - 1], q[n]) ELSE g[i]]
    OBVIOUS
  <2> DEFINE h == [i \in 0 .. n |-> IF i = 0 THEN t ELSE Executed(f[i - 1], q[i])]
  <2>4. ASSUME NEW i \in 0 .. n PROVE f[i] = h[i]
    <3>1. n \in Nat  BY <1>1
    <3>2. i # 0 => f[i - 1] = g[i - 1]
      <4>1. i # 0 => i - 1 \in 0 .. n /\ i - 1 # n  BY <3>1
      <4> QED BY <4>1, <2>3
    <3>3. h[i] = IF i = 0 THEN t ELSE Executed(g[i - 1], q[i])
      BY <3>2
    <3>4. CASE i = n  BY <3>3, <3>4, <2>3, <1>3
    <3>5. CASE i # n
      <4>1. i \in 0 .. n - 1  BY <3>1, <3>5
      <4>2. f[i] = g[i]  BY <3>5, <2>3
      <4> QED BY <4>1, <4>2, <3>3, <2>2 DEF Drains
    <3> QED BY <3>4, <3>5
  <2>5. f = h
    <3>1. h = [i \in 0 .. n |-> h[i]] /\ f = [i \in 0 .. n |-> f[i]]  BY <2>3
    <3> HIDE DEF h
    <3> QED BY <3>1, <2>4
  <2>6. Drains(f, t, q, n)  BY <2>5 DEF Drains
  <2> QED BY <1>1, <2>6
<1> QED BY <1>2, <1>3

(* f goes from one table to the next. *)
Steps(f, t, q) ==
  /\ f[0] = t
  /\ \A n \in 1 .. Len(q) : f[n] = Executed(f[n - 1], q[n])

(* So Drained executes one statement after the other. *)
LEMMA DrainedIs ==
  ASSUME NEW t, NEW q \in Seq(Statement)
  PROVE  \E f : Steps(f, t, q) /\ Drained(t, q) = f[Len(q)]
<1>1. PICK N \in Nat : N = Len(q)  OBVIOUS
<1> DEFINE g == CHOOSE f : Drains(f, t, q, N)
<1>2. Drains(g, t, q, N)  BY DrainsExists
<1>3. Drained(t, q) = g[N]  BY <1>1, Zenon DEF Drained, Drains
<1> HIDE DEF g
<1>4. Steps(g, t, q)
  <2>1. \A n \in 0 .. N : g[n] = IF n = 0 THEN t ELSE Executed(g[n - 1], q[n])
    BY <1>2 DEF Drains
  <2>2. \A n \in 1 .. N : n \in 0 .. N /\ n # 0  OBVIOUS
  <2>3. g[0] = t  BY <2>1
  <2>4. \A n \in 1 .. N : g[n] = Executed(g[n - 1], q[n])  BY <2>1, <2>2
  <2> QED BY <1>1, <2>3, <2>4 DEF Steps
<1> QED BY <1>1, <1>3, <1>4

(* f executes the statements of q from the k-th table on. *)
Follows(f, k, q, N) == \A n \in 1 .. N : f[n + k] = Executed(f[n + k - 1], q[n])

(* Two that execute the same statements from the same table on. *)
LEMMA SameSteps ==
  ASSUME NEW k \in Nat, NEW N \in Nat, NEW q, NEW f, Follows(f, k, q, N),
         NEW g, Follows(g, 0, q, N), g[0] = f[k]
  PROVE  g[N] = f[N + k]
<1> DEFINE T == {n \in 0 .. N : g[n] # f[n + k]}
<1>1. CASE T = {}  BY <1>1
<1>2. CASE T # {}
  <2>0. T \in SUBSET Nat  OBVIOUS
  <2>1. PICK n \in T : \A i \in T : n <= i
    <3> HIDE DEF T
    <3> QED BY <1>2, <2>0, LeastOf
  <2>2. n # 0  BY <2>1
  <2>3. n \in 1 .. N /\ n - 1 \in 0 .. N /\ n - 1 \notin T  BY <2>1, <2>2
  <2>4. g[n - 1] = f[n - 1 + k]  BY <2>3
  <2>5. n - 1 + k = n + k - 1 /\ n + 0 = n  BY <2>3
  <2>6. g[n] = Executed(g[n - 1], q[n]) /\ f[n + k] = Executed(f[n + k - 1], q[n])
    BY <2>3, <2>5 DEF Follows
  <2>7. g[n] = f[n + k]  BY <2>4, <2>5, <2>6
  <2> QED BY <2>1, <2>7
<1> QED BY <1>1, <1>2

(* A statement that is added is executed last. *)
LEMMA DrainedLast ==
  ASSUME NEW t, NEW q \in Seq(Statement), NEW sql \in Statement
  PROVE  Drained(t, Append(q, sql)) = Executed(Drained(t, q), sql)
<1>1. PICK p : p = Append(q, sql)  OBVIOUS
<1>2. PICK N \in Nat : N = Len(q)  OBVIOUS
<1>3. /\ p \in Seq(Statement) /\ Len(p) = N + 1 /\ p[N + 1] = sql
      /\ \A n \in 1 .. N : p[n] = q[n]
  BY <1>1, <1>2
<1>4. PICK f : Steps(f, t, p) /\ Drained(t, p) = f[Len(p)]  BY <1>3, DrainedIs
<1>5. PICK g : Steps(g, t, q) /\ Drained(t, q) = g[Len(q)]  BY DrainedIs
<1>6. /\ \A n \in 1 .. N : f[n] = Executed(f[n - 1], q[n])
      /\ f[N + 1] = Executed(f[N], sql)
  <2>1. \A n \in 1 .. N + 1 : f[n] = Executed(f[n - 1], p[n])
    BY <1>3, <1>4 DEF Steps
  <2>2. N + 1 \in 1 .. N + 1 /\ N + 1 - 1 = N /\ \A n \in 1 .. N : n \in 1 .. N + 1
    OBVIOUS
  <2> QED BY <1>3, <2>1, <2>2
<1>7. g[N] = f[N]
  <2>1. g[0] = f[0]  BY <1>4, <1>5 DEF Steps
  <2>2. \A n \in 1 .. N : n + 0 = n  OBVIOUS
  <2>3. Follows(g, 0, q, N)  BY <1>2, <1>5, <2>2 DEF Steps, Follows
  <2>4. Follows(f, 0, q, N)  BY <1>6, <2>2 DEF Follows
  <2>5. g[N] = f[N + 0]  BY ONLY N \in Nat, <2>1, <2>3, <2>4, SameSteps
  <2> QED BY <2>5
<1> QED BY <1>1, <1>2, <1>3, <1>4, <1>5, <1>6, <1>7

(* The first statement may be executed now. *)
LEMMA DrainedFirst ==
  ASSUME NEW t, NEW q \in Seq(Statement), q # <<>>
  PROVE  Drained(t, q) = Drained(Executed(t, q[1]), Tail(q))
<1>1. PICK p : p = Tail(q)  OBVIOUS
<1>2. PICK N \in Nat : N = Len(p)  BY <1>1
<1>3. /\ p \in Seq(Statement) /\ Len(q) = N + 1
      /\ \A n \in 1 .. N : p[n] = q[n + 1]
  BY <1>1, <1>2
<1>4. PICK f : Steps(f, t, q) /\ Drained(t, q) = f[Len(q)]  BY DrainedIs
<1>5. PICK g : Steps(g, Executed(t, q[1]), p) /\ Drained(Executed(t, q[1]), p) = g[Len(p)]
  BY <1>3, DrainedIs
<1>6. /\ f[0] = t /\ g[0] = Executed(t, q[1])
      /\ \A n \in 1 .. N + 1 : f[n] = Executed(f[n - 1], q[n])
      /\ \A n \in 1 .. N : g[n] = Executed(g[n - 1], p[n])
  BY <1>2, <1>3, <1>4, <1>5 DEF Steps
<1>7. g[0] = f[1]
  <2>1. 1 \in 1 .. N + 1 /\ 1 - 1 = 0  OBVIOUS
  <2>2. f[1] = Executed(f[0], q[1])  BY <1>6, <2>1
  <2> QED BY <1>6, <2>2
<1>8. ASSUME NEW n \in 1 .. N PROVE f[n + 1] = Executed(f[n + 1 - 1], p[n])
  <2>1. n + 1 \in 1 .. N + 1  OBVIOUS
  <2> QED BY <1>3, <1>6, <2>1
<1>9. g[N] = f[N + 1]
  <2>1. \A n \in 1 .. N : n + 0 = n  OBVIOUS
  <2>2. Follows(g, 0, p, N)  BY <1>6, <2>1 DEF Follows
  <2>3. Follows(f, 1, p, N)  BY <1>8 DEF Follows
  <2> QED BY ONLY N \in Nat, <1>7, <2>2, <2>3, SameSteps
<1> QED BY <1>1, <1>2, <1>3, <1>4, <1>5, <1>9

(* Executing it twice is executing it once. *)
LEMMA ExecutedTwice ==
  ASSUME NEW t, NEW sql
  PROVE  Executed(Executed(t, sql), sql) = Executed(t, sql)
<1>1. CASE sql.op = "delete"  BY <1>1 DEF Executed
<1>2. CASE sql.op # "delete" /\ \E r \in t : r.id = sql.row.id \/ r.key = sql.row.key
  BY <1>2 DEF Executed
<1>3. CASE sql.op # "delete" /\ ~ \E r \in t : r.id = sql.row.id \/ r.key = sql.row.key
  <2>1. Executed(t, sql) = t \cup {sql.row}  BY <1>3 DEF Executed
  <2> QED BY <1>3, <2>1 DEF Executed
<1> QED BY <1>1, <1>2, <1>3

(* So it does not matter whether MySQL had executed the first one already. *)
LEMMA DrainedAgain ==
  ASSUME NEW t, NEW q \in Seq(Statement), q # <<>>
  PROVE  Drained(Executed(t, q[1]), q) = Drained(t, q)
<1>1. PICK u : u = Executed(t, q[1])  OBVIOUS
<1>2. Drained(u, q) = Drained(Executed(u, q[1]), Tail(q))  BY DrainedFirst
<1>3. Executed(u, q[1]) = u  BY <1>1, ExecutedTwice
<1>4. Drained(t, q) = Drained(u, Tail(q))  BY <1>1, DrainedFirst
<1> QED BY <1>1, <1>2, <1>3, <1>4

(* Nothing is to be executed. *)
LEMMA DrainedNone ==
  ASSUME NEW t, NEW q, q = <<>>
  PROVE  Drained(t, q) = t
<1>1. q \in Seq(Statement) /\ Len(q) = 0  OBVIOUS
<1>2. PICK f : Steps(f, t, q) /\ Drained(t, q) = f[Len(q)]  BY <1>1, DrainedIs
<1> QED BY <1>1, <1>2 DEF Steps

-----------------------------------------------------------------------------
(* MySQL and memory.                                                       *)

(* A call has its statement in the queue, or MySQL has executed it. *)
Synced(op, r) ==
  \E i \in DOMAIN calls : calls[i].done > 2 /\ calls[i].op = op /\ calls[i].row = r

(* What is in memory, but for the calls whose answers are on their way. *)
Backed(r) == (r \in InMemory /\ ~ Synced("delete", r)) \/ Synced("add", r)

(* What the queue will make of MySQL's table is that. *)
BackupFollows ==
  trouble = {} => /\ syncer \in {0, 1, None}
                  /\ \A r : r \in Drained(table, queue) <=> Backed(r)

(* Steps that change neither what MySQL will have nor what it should.      *)
LEMMA BackupStays ==
  ASSUME BackupFollows, trouble \subseteq trouble',
         trouble' = {} /\ syncer \in {0, 1, None} => syncer' \in {0, 1, None},
         trouble = {} => Drained(table, queue)' = Drained(table, queue),
         recordset' = recordset, \A op, r : Synced(op, r)' <=> Synced(op, r)
  PROVE  BackupFollows'
<1> SUFFICES ASSUME trouble' = {} PROVE BackupFollows'  BY DEF BackupFollows
<1>1. trouble = {}  OBVIOUS
<1>2. InMemory' = InMemory  BY DEF InMemory
<1>3. \A r : Backed(r)' <=> Backed(r)  BY <1>2 DEF Backed
<1>4. Drained(table, queue)' = Drained(table, queue)  BY <1>1
<1>5. syncer' \in {0, 1, None}  BY <1>1 DEF BackupFollows
<1>6. \A r : r \in Drained(table, queue)' <=> Backed(r)'
  BY <1>1, <1>3, <1>4 DEF BackupFollows
<1> QED BY <1>5, <1>6 DEF BackupFollows

(* A call that is new has no statement yet, ... *)
LEMMA AskSyncs ==
  ASSUME IndInv, NEW c \in Conns, NEW op \in Ops, NEW row \in Row, Ask(c, op, row)
  PROVE  \A o, r : Synced(o, r)' <=> Synced(o, r)
<1>1. /\ Len(calls) \in Nat
      /\ DOMAIN calls = 1..Len(calls) /\ DOMAIN calls' = 1..(Len(calls) + 1)
      /\ \A i \in DOMAIN calls : calls'[i] = calls[i]
      /\ calls'[Len(calls) + 1] = [op |-> op, row |-> row, by |-> c, done |-> 0]
  BY Asks
<1>2. ~ (calls'[Len(calls) + 1].done > 2)  BY <1>1
<1>3. \A i \in DOMAIN calls' : i \in DOMAIN calls \/ i = Len(calls) + 1  BY <1>1
<1>4. DOMAIN calls \subseteq DOMAIN calls'  BY <1>1
<1> QED BY <1>1, <1>2, <1>3, <1>4 DEF Synced

(* ... and gets it in its third step. *)
LEMMA GoesSyncs ==
  ASSUME IndInv, NEW i \in DOMAIN calls, Done(i), calls[i].done \in {0, 1, 2}
  PROVE  \A o, r : Synced(o, r)' <=> \/ Synced(o, r)
                                     \/ /\ calls[i].done = 2
                                        /\ o = calls[i].op /\ r = calls[i].row
<1>1. /\ DOMAIN calls' = DOMAIN calls
      /\ \A j \in DOMAIN calls : /\ calls'[j].row = calls[j].row
                                 /\ calls'[j].op = calls[j].op
      /\ calls'[i].done = calls[i].done + 1
      /\ \A j \in DOMAIN calls \ {i} : calls'[j].done = calls[j].done
  BY Goes
<1>2. calls'[i].done > 2 <=> calls[i].done = 2  BY <1>1
<1>3. ~ (calls[i].done > 2)  OBVIOUS
<1> QED BY <1>1, <1>2, <1>3 DEF Synced

(* While no two requests name one account, calls are about different ones. *)
LEMMA CallsApart ==
  ASSUME IndInv, HeldSound, ApartInv, CalmInv, Calm,
         NEW i \in DOMAIN calls, NEW j \in DOMAIN calls, i # j
  PROVE  calls[i].row.id # calls[j].row.id /\ calls[i].row.key # calls[j].row.key
<1>1. PICK c, d \in Conns : c = calls[i].by /\ d = calls[j].by  BY CallsAre
<1>2. c # d  BY <1>1, CallsAre
<1>3. /\ calls[i].row = conn[c].row /\ calls[j].row = conn[d].row
      /\ conn[c].row # None /\ conn[d].row # None
  BY <1>1, CallsAre, AccountsAssumption DEF HeldSound, CallsSound
<1>4. calls[i].row.id # calls[j].row.id  BY <1>2, <1>3 DEF CalmInv, OwnIds
<1>5. calls[i].row.key # calls[j].row.key  BY CalmIsAlone, OneCallPerKey DEF ApartInv
<1> QED BY <1>4, <1>5

(* The id and the key of an account that is added are not in MySQL yet. *)
LEMMA AddedIsNew ==
  ASSUME IndInv, HeldSound, ApartInv, CalmInv, Calm, NEW i \in DOMAIN calls,
         calls[i].op = "add", ~ (calls[i].done > 2), NEW r, Backed(r)
  PROVE  r.id # calls[i].row.id /\ r.key # calls[i].row.key
<1>1. CASE r \in InMemory
  <2>1. PICK k \in DOMAIN recordset : r = recordset[k]  BY <1>1 DEF InMemory
  <2>2. r.key = k  BY <2>1 DEF HeldSound, TablesSound
  <2>3. Record(calls[i].row.key) = None  BY CalmIsAlone, CallFits
  <2>4. calls[i].row.key \notin DOMAIN recordset  BY <2>3, RecordIs
  <2>5. PICK c \in Conns : c = calls[i].by  BY CallsAre
  <2>6. calls[i].row = conn[c].row /\ conn[c].pc = "adding"
    BY <2>5, CallsAre DEF HeldSound, CallsSound, WaitsFor
  <2>7. calls[i].row.id \notin Ids(InMemory)  BY <2>6 DEF CalmInv, OwnIds
  <2> QED BY <1>1, <2>1, <2>2, <2>4, <2>7 DEF Ids
<1>2. CASE Synced("add", r)
  <2>1. PICK j \in DOMAIN calls : calls[j].done > 2 /\ calls[j].row = r
    BY <1>2 DEF Synced
  <2>2. j # i  BY <2>1
  <2> QED BY <2>1, <2>2, CallsApart
<1> QED BY <1>1, <1>2 DEF Backed

(* The id of one that is deleted is in its own row only. *)
LEMMA DeletedIsOne ==
  ASSUME IndInv, HeldSound, ApartInv, CalmInv, Calm, NEW i \in DOMAIN calls,
         calls[i].op # "add", ~ (calls[i].done > 2), NEW r, Backed(r)
  PROVE  r.id = calls[i].row.id => r = calls[i].row
<1> SUFFICES ASSUME r.id = calls[i].row.id PROVE r = calls[i].row
  OBVIOUS
<1>1. CASE r \in InMemory
  <2>1. PICK k \in DOMAIN recordset : r = recordset[k]  BY <1>1 DEF InMemory
  <2>2. PICK l : l = calls[i].row.key  OBVIOUS
  <2>3. Record(l) = calls[i].row /\ calls[i].row # None
    BY <2>2, CalmIsAlone, CallFits, AccountsAssumption
  <2>4. l \in DOMAIN recordset /\ recordset[l] = calls[i].row  BY <2>3, RecordIs
  <2>5. k = l  BY <2>1, <2>4 DEF CalmInv, OneKeyPerAccount
  <2> QED BY <2>1, <2>4, <2>5
<1>2. CASE Synced("add", r)
  <2>1. PICK j \in DOMAIN calls : calls[j].done > 2 /\ calls[j].row = r
    BY <1>2 DEF Synced
  <2>2. j # i  BY <2>1
  <2> QED BY <2>1, <2>2, CallsApart
<1> QED BY <1>1, <1>2 DEF Backed

(* A statement is put into the queue. *)
LEMMA SyncBackup ==
  ASSUME IndInv, HeldSound, ApartInv, CalmInv, BackupFollows, NEW i \in DOMAIN calls, Sync(i)
  PROVE  BackupFollows'
<1> SUFFICES ASSUME trouble' = {} PROVE BackupFollows'  BY DEF BackupFollows
<1>1. /\ calls[i].done = 2 /\ Done(i)
      /\ queue' = Append(queue, [op |-> calls[i].op, row |-> calls[i].row])
      /\ UNCHANGED <<recordset, syncer, table, trouble>>
  BY DEF Sync, InTurn, history
<1>2. Calm /\ trouble = {} /\ syncer \in {0, 1, None}  BY <1>1 DEF Calm, BackupFollows
<1>3. PICK sql : sql = [op |-> calls[i].op, row |-> calls[i].row]  OBVIOUS
<1>4. sql \in Statement /\ sql.op = calls[i].op /\ sql.row = calls[i].row
  BY <1>3, CallsAre DEF Statement
<1>5. queue \in Seq(Statement)  BY DEF IndInv, Typed
<1>6. PICK d : d = Drained(table, queue)  OBVIOUS
<1>7. Drained(table, queue)' = Executed(d, sql)
  BY <1>1, <1>3, <1>4, <1>5, <1>6, DrainedLast
<1>8. \A r : r \in d <=> Backed(r)  BY <1>2, <1>6 DEF BackupFollows
<1>9. \A o, r : Synced(o, r)' <=> Synced(o, r) \/ (o = sql.op /\ r = sql.row)
  BY <1>1, <1>4, GoesSyncs
<1>10. InMemory' = InMemory  BY <1>1 DEF InMemory
<1>11. ~ (calls[i].done > 2)  BY <1>1
<1>12. CASE sql.op = "add"
  <2>1. \A r \in d : r.id # sql.row.id /\ r.key # sql.row.key
    BY <1>2, <1>4, <1>8, <1>11, <1>12, AddedIsNew
  <2>2. Executed(d, sql) = d \cup {sql.row}  BY <1>12, <2>1 DEF Executed
  <2>3. \A r : Backed(r)' <=> Backed(r) \/ r = sql.row
    BY <1>9, <1>10, <1>12 DEF Backed
  <2> QED BY <1>1, <1>2, <1>7, <1>8, <2>2, <2>3 DEF BackupFollows
<1>13. CASE sql.op # "add"
  <2>1. sql.op = "delete"  BY <1>4, <1>13, CallsAre DEF Ops
  <2>2. \A r \in d : r.id = sql.row.id => r = sql.row
    BY <1>2, <1>4, <1>8, <1>11, <1>13, DeletedIsOne
  <2>3. Executed(d, sql) = d \ {sql.row}
    <3>1. Executed(d, sql) = {r \in d : r.id # sql.row.id}  BY <2>1 DEF Executed
    <3> QED BY <2>2, <3>1
  <2>4. ~ Synced("add", sql.row)
    <3> SUFFICES ASSUME NEW j \in DOMAIN calls, calls[j].done > 2, calls[j].row = sql.row
                 PROVE  FALSE
      BY DEF Synced
    <3>1. j # i  BY <1>11
    <3> QED BY <1>2, <1>4, <3>1, CallsApart
  <2>5. \A r : Backed(r)' <=> Backed(r) /\ r # sql.row
    BY <1>9, <1>10, <2>1, <2>4 DEF Backed
  <2> QED BY <1>1, <1>2, <1>7, <1>8, <2>3, <2>5 DEF BackupFollows
<1> QED BY <1>12, <1>13

(* Memory catches up with the statement of the first call. *)
LEMMA ReturnBackup ==
  ASSUME IndInv, HeldSound, ApartInv, CalmInv, BackupFollows, Return
  PROVE  BackupFollows'
<1> SUFFICES ASSUME trouble' = {} PROVE BackupFollows'  BY DEF BackupFollows
<1>1. UNCHANGED <<queue, table, syncer, trouble>>  BY DEF Return, dbsync
<1>2. Calm /\ trouble = {} /\ syncer \in {0, 1, None}  BY <1>1 DEF Calm, BackupFollows
<1>3. PICK o, s : o = calls[1].op /\ s = calls[1].row  OBVIOUS
<1>4. /\ 1 \in DOMAIN calls /\ calls[1].done > 2
      /\ \A i \in DOMAIN calls' : i + 1 \in DOMAIN calls /\ calls'[i] = calls[i + 1]
      /\ \A i \in DOMAIN calls : i # 1 => i - 1 \in DOMAIN calls' /\ calls[i] = calls'[i - 1]
  BY Returned
<1>5. \A i \in DOMAIN calls' : calls'[i].row # s
  <2> SUFFICES ASSUME NEW i \in DOMAIN calls', calls'[i].row = s PROVE FALSE
    OBVIOUS
  <2>1. i + 1 \in DOMAIN calls /\ calls'[i] = calls[i + 1]  BY <1>4
  <2>2. i # 0
    <3>1. calls \in Seq(Call) /\ calls' = Tail(calls) /\ calls # <<>>
      BY CallsAre DEF Return
    <3>2. DOMAIN calls' = 1 .. Len(calls) - 1  BY <3>1
    <3> QED BY <3>2
  <2>3. i + 1 # 1
    <3>1. i + 1 \in Nat  BY <2>1, CallsAre
    <3>2. calls \in Seq(Call) /\ calls' = Tail(calls) /\ calls # <<>>
      BY CallsAre DEF Return
    <3>3. i \in 1 .. Len(calls) - 1  BY <3>2
    <3> QED BY <3>3
  <2> QED BY <1>2, <1>3, <1>4, <2>1, <2>3, CallsApart
<1>6. \A p, r : Synced(p, r) <=> Synced(p, r)' \/ (p = o /\ r = s)
  <2>1. ASSUME NEW p, NEW r, Synced(p, r)' PROVE Synced(p, r)
    BY <1>4, <2>1 DEF Synced
  <2>2. Synced(o, s)  BY <1>3, <1>4 DEF Synced
  <2>3. ASSUME NEW p, NEW r, Synced(p, r), ~ (p = o /\ r = s) PROVE Synced(p, r)'
    <3>1. PICK i \in DOMAIN calls : /\ calls[i].done > 2
                                    /\ calls[i].op = p /\ calls[i].row = r
      BY <2>3 DEF Synced
    <3>2. i # 1  BY <1>3, <2>3, <3>1
    <3> QED BY <1>4, <3>1, <3>2 DEF Synced
  <2> QED BY <2>1, <2>2, <2>3
<1>7. \A p : ~ Synced(p, s)'  BY <1>5 DEF Synced
<1>8. PICK k : k = s.key  OBVIOUS
<1>9. CASE o = "add"
  <2>1. recordset' = With(recordset, k, s) /\ Record(k) = None
    BY <1>2, <1>3, <1>4, <1>8, <1>9, Returned, CalmIsAlone, CallFits
  <2>2. k \notin DOMAIN recordset  BY <2>1, RecordIs
  <2>3. /\ DOMAIN recordset' = DOMAIN recordset \cup {k} /\ recordset'[k] = s
        /\ \A l \in DOMAIN recordset : recordset'[l] = recordset[l]
    BY <2>1, <2>2 DEF With
  <2>4. \A r : r \in InMemory' <=> r \in InMemory \/ r = s
    BY <2>3 DEF InMemory
  <2>5. \A r : Backed(r)' <=> Backed(r)
    BY <1>6, <1>7, <1>9, <2>4 DEF Backed
  <2> QED BY <1>1, <1>2, <2>5 DEF BackupFollows
<1>10. CASE o # "add"
  <2>1. recordset' = Without(recordset, k) /\ Record(k) = s /\ s # None
    BY <1>2, <1>3, <1>4, <1>8, <1>10, Returned, CalmIsAlone, CallFits,
       AccountsAssumption
  <2>2. k \in DOMAIN recordset /\ recordset[k] = s  BY <2>1, RecordIs
  <2>3. /\ DOMAIN recordset' = DOMAIN recordset \ {k}
        /\ \A l \in DOMAIN recordset' : recordset'[l] = recordset[l]
    BY <2>1 DEF Without
  <2>4. \A l \in DOMAIN recordset : l # k => recordset[l] # s
    BY <1>8 DEF HeldSound, TablesSound
  <2>5. \A r : r \in InMemory' <=> r \in InMemory /\ r # s
    BY <2>2, <2>3, <2>4 DEF InMemory
  <2>6. o = "delete"  BY <1>3, <1>4, <1>10, CallsAre DEF Ops
  <2>7. \A r : Backed(r)' <=> Backed(r)
    BY <1>6, <1>7, <2>5, <2>6 DEF Backed
  <2> QED BY <1>1, <1>2, <2>7 DEF BackupFollows
<1> QED BY <1>9, <1>10

(* Steps of dbsync and MySQL: a statement that is executed is the first one. *)
LEMMA DbsyncBackup ==
  ASSUME IndInv, BackupFollows,
         (\E i \in DOMAIN queue : Execute(i)) \/ Answered \/ PoolFails
  PROVE  BackupFollows'
<1>1. UNCHANGED <<recordset, calls>> /\ trouble \subseteq trouble'
  BY DEF Execute, Answered, PoolFails, history
<1>2. \A o, r : Synced(o, r)' <=> Synced(o, r)  BY <1>1 DEF Synced
<1>3. Typed /\ queue \in Seq(Statement)  BY DEF IndInv, Typed
<1>4. ASSUME Waiting, trouble = {}
      PROVE  syncer = 1 /\ queue # <<>>
  <2>1. syncer = 1  BY <1>4 DEF Waiting, BackupFollows
  <2>2. syncer \in DOMAIN queue  BY <1>3, <1>4, StatementUnderWay
  <2> QED BY <1>3, <2>1, <2>2
<1>5. ASSUME NEW i \in DOMAIN queue, Execute(i) PROVE BackupFollows'
  <2>1. /\ table' = table /\ queue' = queue /\ syncer' = i
        /\ trouble' = trouble \cup IF i = 1 THEN {} ELSE {"order"}
    BY <1>5 DEF Execute
  <2>2. trouble' = {} => i = 1  BY <2>1
  <2> QED BY <1>1, <1>2, <2>1, <2>2, BackupStays
<1>6. CASE Answered
  <2>1. /\ Waiting /\ syncer' = 0
        /\ table' = Executed(table, queue[syncer]) /\ queue' = RemoveAt(queue, syncer)
    BY <1>6 DEF Answered
  <2>2. ASSUME trouble = {} PROVE Drained(table, queue)' = Drained(table, queue)
    <3>1. syncer = 1 /\ queue # <<>>  BY <1>4, <2>1, <2>2
    <3>2. RemoveAt(queue, 1) = Tail(queue)
      <4>1. SubSeq(queue, 1, 0) = <<>>  BY <1>3
      <4>2. SubSeq(queue, 2, Len(queue)) = Tail(queue)  BY <1>3, <3>1
      <4>3. RemoveAt(queue, 1) = SubSeq(queue, 1, 1 - 1) \o SubSeq(queue, 1 + 1, Len(queue))
        BY DEF RemoveAt
      <4>4. Tail(queue) \in Seq(Statement)  BY <1>3, <3>1
      <4>5. 1 - 1 = 0 /\ 1 + 1 = 2  OBVIOUS
      <4>6. RemoveAt(queue, 1) = <<>> \o Tail(queue)  BY <4>1, <4>2, <4>3, <4>5
      <4> QED BY <4>4, <4>6
    <3>3. Drained(table, queue) = Drained(Executed(table, queue[1]), Tail(queue))
      BY <1>3, <3>1, DrainedFirst
    <3> QED BY <2>1, <3>1, <3>2, <3>3
  <2> QED BY <1>1, <1>2, <2>1, <2>2, BackupStays
<1>7. CASE PoolFails
  <2>1. /\ Waiting /\ syncer' = None /\ queue' = queue
        /\ table' \in {table, Executed(table, queue[syncer])}
    BY <1>7 DEF PoolFails, MaybeExecuted
  <2>2. ASSUME trouble = {} PROVE Drained(table, queue)' = Drained(table, queue)
    <3>1. syncer = 1 /\ queue # <<>>  BY <1>4, <2>1, <2>2
    <3>2. Drained(Executed(table, queue[1]), queue) = Drained(table, queue)
      BY <1>3, <3>1, DrainedAgain
    <3> QED BY <2>1, <3>1, <3>2
  <2> QED BY <1>1, <1>2, <2>1, <2>2, BackupStays
<1> QED BY <1>5, <1>6, <1>7

(* After a start, the queue is empty and memory is what MySQL has. *)
LEMMA StartBackup ==
  \A t \in SUBSET Row :
    Keyed(t) /\ FilledFrom(t) /\ queue = <<>> /\ syncer = 0 => BackupFollows
<1> SUFFICES ASSUME NEW t \in SUBSET Row, Keyed(t), FilledFrom(t), queue = <<>>, syncer = 0
             PROVE  BackupFollows
  OBVIOUS
<1>1. table = t /\ calls = <<>> /\ recordset = Loaded(t)
  BY LoadedSound DEF FilledFrom, StartedFrom
<1>2. InMemory = t
  <2>1. /\ \A k \in DOMAIN recordset : recordset[k] \in t
        /\ \A r \in t : r.key \in DOMAIN recordset /\ recordset[r.key] = r
    BY <1>1, LoadedSound
  <2> QED BY <2>1 DEF InMemory
<1>3. DOMAIN calls = {}  BY <1>1
<1>4. \A r : Backed(r) <=> r \in t  BY <1>2, <1>3 DEF Backed, Synced
<1>5. Drained(table, queue) = t  BY <1>1, DrainedNone
<1> QED BY <1>4, <1>5 DEF BackupFollows

(* The first start, ... *)
LEMMA InitBackup == Init => BackupFollows
<1> SUFFICES ASSUME Init PROVE BackupFollows  OBVIOUS
<1>1. PICK t \in Existing : FilledFrom(t)  BY DEF Init, FilledFrom, StartedFrom
<1>2. t \in SUBSET Row /\ Keyed(t)  BY AccountsAssumption DEF Row
<1>3. queue = <<>> /\ syncer = 0  BY DEF Init
<1> QED BY <1>1, <1>2, <1>3, StartBackup

(* ... and one after a crash. *)
LEMMA RestartBackup ==
  ASSUME IndInv, HeldSound, Restart
  PROVE  BackupFollows'
<1>0. (\A t \in SUBSET Row :
         Keyed(t) /\ FilledFrom(t) /\ queue = <<>> /\ syncer = 0 => BackupFollows)'
  BY StartBackup, PTL
<1>1. PICK t \in MaybeExecuted : FilledFrom(t)'
  BY DEF Restart, FilledFrom, StartedFrom
<1>2. t \subseteq table \cup {sql.row : sql \in ToSet(queue)}
  BY MaybeExecutedRows DEF IndInv
<1>3. t \in SUBSET Row  BY <1>2, RowsAreRows DEF IndInv, Typed
<1>4. Keyed(t)  BY MaybeKeyed DEF HeldSound, TablesSound
<1>5. Keyed(t)'  BY <1>4 DEF Keyed
<1>6. queue' = <<>> /\ syncer' = 0  BY DEF Restart
<1> QED BY <1>0, <1>1, <1>3, <1>5, <1>6

(* Every step keeps it. *)
LEMMA BackupStep ==
  ASSUME IndInv, HeldSound, ApartInv, CalmInv, BackupFollows, [Next]_vars
  PROVE  BackupFollows'
<1>1. ASSUME UNCHANGED <<recordset, queue, table, syncer>>, trouble \subseteq trouble',
             \A o, r : Synced(o, r)' <=> Synced(o, r)
      PROVE  BackupFollows'
  BY <1>1, BackupStays
<1>2. ASSUME UNCHANGED <<recordset, calls, queue, table, syncer>>, trouble \subseteq trouble'
      PROVE  BackupFollows'
  <2>1. \A o, r : Synced(o, r)' <=> Synced(o, r)  BY <1>2 DEF Synced
  <2> QED BY <1>1, <1>2, <2>1
<1>3. ASSUME NEW c \in Conns, Register(c) \/ Bind(c) \/ GetNextId(c) \/ Checked(c)
      PROVE  BackupFollows'
  <2>1. UNCHANGED <<recordset, calls, queue, table, syncer>> /\ trouble \subseteq trouble'
    BY <1>3 DEF Register, Bind, GetNextId, Checked, Begin, dbsync, history
  <2> QED BY <1>2, <2>1
<1>4. ASSUME NEW c \in Conns, Delete(c) \/ Add(c) PROVE BackupFollows'
  <2>1. /\ UNCHANGED <<recordset, queue, table, syncer, trouble>>
        /\ \/ UNCHANGED calls
           \/ conn[c].pc \in {"delete", "add"}
              /\ \E op \in Ops : Ask(c, op, conn[c].row)
    BY <1>4 DEF Delete, Add, dbsync, history, Ops
  <2>2. conn[c].pc \in {"delete", "add"} => conn[c].row \in Row
    BY DEF IndInv, Typed, HasWhatItNeeds
  <2>3. \A o, r : Synced(o, r)' <=> Synced(o, r)
    <3>1. CASE UNCHANGED calls  BY <3>1 DEF Synced
    <3>2. CASE conn[c].row \in Row /\ \E op \in Ops : Ask(c, op, conn[c].row)
      BY <3>2, AskSyncs
    <3> QED BY <2>1, <2>2, <3>1, <3>2
  <2> QED BY <1>1, <2>1, <2>3
<1>5. ASSUME NEW i \in DOMAIN calls, WriteRow(i) \/ WriteIndex(i) PROVE BackupFollows'
  <2>1. /\ Done(i) /\ calls[i].done \in {0, 1} /\ trouble' = trouble
        /\ UNCHANGED <<recordset, queue, table, syncer>>
    BY <1>5 DEF WriteRow, WriteIndex, InTurn, dbsync, history
  <2>2. \A o, r : Synced(o, r)' <=> Synced(o, r)  BY <2>1, GoesSyncs
  <2> QED BY <1>1, <2>1, <2>2
<1>6. ASSUME NEW i \in DOMAIN calls, Sync(i) PROVE BackupFollows'
  BY <1>6, SyncBackup
<1>7. CASE Return  BY <1>7, ReturnBackup
<1>8. CASE (\E i \in DOMAIN queue : Execute(i)) \/ Answered \/ PoolFails
  BY <1>8, DbsyncBackup
<1>9. CASE Restart  BY <1>9, RestartBackup
<1>10. CASE PeerStarts  BY <1>10 DEF PeerStarts, BackupFollows
<1>11. CASE UNCHANGED vars  BY <1>2, <1>11 DEF vars, dbsync, history
<1> QED BY <1>3, <1>4, <1>5, <1>6, <1>7, <1>8, <1>9, <1>10, <1>11 DEF Next

-----------------------------------------------------------------------------
(* What a crash leaves.                                                    *)

(* A row comes into the table by a statement of its own only. *)
LEMMA DrainedBefore ==
  ASSUME NEW t, NEW q \in Seq(Statement), NEW r \in Drained(t, q),
         \A n \in DOMAIN q : q[n].row # r
  PROVE  r \in t
<1>1. PICK f : Steps(f, t, q) /\ Drained(t, q) = f[Len(q)]  BY DrainedIs
<1>2. PICK N \in Nat : N = Len(q)  OBVIOUS
<1> DEFINE T == {n \in 0 .. N : r \in f[n]}
<1>3. PICK n \in T : \A k \in T : n <= k
  <2>1. T \in SUBSET Nat /\ N \in T  BY <1>1, <1>2
  <2> HIDE DEF T
  <2> QED BY <2>1, LeastOf
<1>4. CASE n = 0  BY <1>1, <1>3, <1>4 DEF Steps
<1>5. CASE n # 0
  <2>1. n \in DOMAIN q /\ n \in 1 .. Len(q)  BY <1>2, <1>5
  <2>2. f[n] \subseteq f[n - 1] \cup {q[n].row}  BY <1>1, <2>1, ExecutedRows DEF Steps
  <2>3. r \in f[n - 1]  BY <2>1, <2>2
  <2>4. n - 1 \in T  BY <1>2, <1>5, <2>3
  <2> QED BY <1>3, <2>4
<1> QED BY <1>4, <1>5

(* An account with nothing on its way is in MySQL. *)
LEMMA NotAtRisk ==
  ASSUME IndInv, ApartInv, BackupFollows, trouble = {},
         NEW t \in MaybeExecuted, NEW i \in known \ AtRisk
  PROVE  i \in Ids(t)
<1>1. /\ \A sql \in ToSet(queue) : sql.row.id # i
      /\ \A call \in ToSet(calls) : call.row.id # i
      /\ \A c \in Adding : conn[c].row # None => conn[c].row.id # i
  BY DEF AtRisk, OnTheWay, InHands, Ids
<1>2. AccountKept /\ Alone  BY DEF ApartInv, Alone
<1>3. \A c \in Adding : conn[c].row # None
  BY AccountsAssumption DEF Adding, IndInv, Typed, HasWhatItNeeds
<1>4. i \in Ids(InMemory)  BY <1>1, <1>2, <1>3 DEF AccountKept, Alone, Adding
<1>5. PICK r \in InMemory : r.id = i  BY <1>4 DEF Ids
<1>6. ~ Synced("delete", r)  BY <1>1, <1>5 DEF Synced, ToSet
<1>7. r \in Drained(table, queue)  BY <1>5, <1>6 DEF BackupFollows, Backed
<1>8. queue \in Seq(Statement) /\ \A n \in DOMAIN queue : queue[n].row.id # i
  BY <1>1 DEF IndInv, Typed, ToSet
<1>9. r \in table
  <2>1. \A n \in DOMAIN queue : queue[n].row # r  BY <1>5, <1>8
  <2> QED BY <1>7, <1>8, <2>1, DrainedBefore
<1>10. CASE ~ Waiting
  BY <1>5, <1>9, <1>10 DEF MaybeExecuted, Ids
<1>11. CASE Waiting
  <2>1. queue[syncer].row.id # i  BY <1>8, <1>11, StatementUnderWay DEF IndInv
  <2>2. r \in Executed(table, queue[syncer])  BY <1>5, <1>9, <2>1 DEF Executed
  <2> QED BY <1>5, <1>9, <1>11, <2>2 DEF MaybeExecuted, Ids
<1> QED BY <1>10, <1>11

LEMMA RestartKeeps ==
  ASSUME IndInv, HeldSound, ApartInv, BackupFollows, Restart
  PROVE  ApartInv'
<1>0. (\A t \in SUBSET Row : Keyed(t) /\ FilledFrom(t) => FoundSound(t))'
  BY FilledSound, PTL
<1>1. PICK t \in MaybeExecuted :
        FilledFrom(t)' /\ known' = Ids(t) \cup (known \ AtRisk)
  BY DEF Restart, FilledFrom, StartedFrom
<1>2. t \subseteq table \cup {sql.row : sql \in ToSet(queue)}
  BY MaybeExecutedRows DEF IndInv
<1>3. t \in SUBSET Row  BY <1>2, RowsAreRows DEF IndInv, Typed
<1>4. Keyed(t)  BY MaybeKeyed DEF HeldSound, TablesSound
<1>5. Keyed(t)'  BY <1>4 DEF Keyed
<1>6. known \ AtRisk \subseteq Ids(t)
  <2>1. CASE trouble = {}  BY <2>1, NotAtRisk
  <2>2. CASE trouble # {}  BY <2>2 DEF AtRisk
  <2> QED BY <2>1, <2>2
<1>7. KnownIn(t)'  BY <1>1, <1>6 DEF KnownIn, Ids
<1>8. FoundSound(t)'  BY <1>0, <1>1, <1>3, <1>5
<1> QED BY <1>7, <1>8 DEF FoundSound

-----------------------------------------------------------------------------
(* The theorems.                                                           *)

(* Whatever overlaps and whenever login crashes: what dbmgr has written is *)
(* the last that was asked of it, and what it has not touched is as in     *)
(* memory; and while no two requests name one account, what a request has  *)
(* read stays true until it is through, and what is queued for MySQL       *)
(* brings it to what is in memory (CommonEntity.lua:22-51,                 *)
(* dbmgr.lua:434-441, 483-492).                                            *)
THEOREM AccountsInvariant ==
  Spec => [](HeldSound /\ RowsFollow /\ ApartInv /\ CalmInv /\ BackupFollows)
<1> DEFINE Inv == /\ HeldSound /\ RowsFollow /\ ByFlush
                  /\ ApartInv /\ CalmInv /\ BackupFollows
<1>1. Init => Inv
  <2>1. Init => ByFlush  BY DEF Init, ByFlush
  <2> QED BY <2>1, InitFilled, InitBackup
<1>2. IndInv /\ Inv /\ [Next]_vars => Inv'
  BY HeldStep, FollowStep, FlushStep, CalmStep, RestartFills, RestartKeeps, BackupStep
<1> HIDE DEF Inv
<1>3. Spec => []Inv  BY <1>1, <1>2, CounterBeyondIds, PTL DEF Spec
<1> QED BY <1>3, PTL DEF Inv

(* When dbmgr has nothing to do, redis has the accounts that are in        *)
(* memory, and finds them by its index unless requests on one account      *)
(* overlapped (CommonEntity.lua:32, 45, dbmgr.lua:437-440, 488-491).       *)
THEOREM RedisIsMemory == Spec => []MemoryIsRedis
<1>1. ASSUME HeldSound, RowsFollow, CalmInv PROVE MemoryIsRedis
  <2> SUFFICES ASSUME calls = <<>>, "flush" \notin trouble
               PROVE  /\ rows = recordset
                      /\ "overlap" \notin trouble => GetCommon(rows, index) = recordset
    BY DEF MemoryIsRedis
  <2>1. rows = recordset  BY <1>1, RowsAreRecords
  <2>2. ASSUME "overlap" \notin trouble PROVE GetCommon(rows, index) = recordset
    <3> DEFINE named == UNION {index[n] : n \in DOMAIN index}
    <3>1. IndexFollows  BY <1>1, <2>2 DEF CalmInv, Calm
    <3>2. \A k \in Keys, n \in Nat : Listed(n, k) <=> Record(k) # None /\ Record(k).id = n
      BY <3>1 DEF IndexFollows
    <3>3. DOMAIN recordset \subseteq Keys
      BY <1>1 DEF HeldSound, TablesSound, Row
    <3>4. named = DOMAIN recordset
      <4>1. ASSUME NEW n \in DOMAIN index, NEW k \in index[n] PROVE k \in DOMAIN recordset
        <5>1. n \in Nat /\ k \in Keys  BY <3>1 DEF IndexFollows
        <5>2. Record(k) # None  BY <3>2, <5>1 DEF Listed
        <5> QED BY <1>1, <5>2, RecordIs
      <4>2. ASSUME NEW k \in DOMAIN recordset PROVE \E n \in DOMAIN index : k \in index[n]
        <5>1. Record(k) # None /\ Record(k) \in Row  BY <1>1, RecordIs
        <5>2. Record(k).id \in Nat  BY <5>1 DEF Row
        <5>3. Listed(Record(k).id, k)  BY <3>2, <3>3, <5>1, <5>2
        <5> QED BY <5>3 DEF Listed
      <4> QED BY <4>1, <4>2
    <3>5. GetCommon(rows, index) = [k \in DOMAIN recordset |-> recordset[k]]
      BY <2>1, <3>4 DEF GetCommon
    <3> QED BY <1>1, <3>5 DEF HeldSound, TablesSound
  <2> QED BY <2>1, <2>2
<1> QED BY <1>1, AccountsInvariant, PTL

(* While no two requests name one account, none is found under two keys    *)
(* when it is bound to another (logind.lua:52-58).                         *)
THEOREM NeverUnderTwoKeys == Spec => []OneKeyPerAccount
<1>1. CalmInv => OneKeyPerAccount  BY DEF CalmInv, OneKeyPerAccount
<1> QED BY <1>1, AccountsInvariant, PTL

(* While no two requests name one account, and whoever empties redis:      *)
(* every account that was loaded or registered is in memory, or a bind is  *)
(* about to add it again; and a crash takes none of them but those in      *)
(* AtRisk, for a queue of any length (logind.lua:41-60,                    *)
(* CommonEntity.lua:24, dbsync.lua:14-26).                                 *)
THEOREM NoAccountLost == Spec => []AccountKept
<1>1. ApartInv => AccountKept  BY DEF ApartInv, AccountKept, Alone
<1> QED BY <1>1, AccountsInvariant, PTL

(* While no requests overlap, nobody empties redis and statements are      *)
(* executed in the order they came, what MySQL will have at last is what   *)
(* is in memory, up to the answers of dbmgr that are on their way          *)
(* (dbmgr.lua:434-441, 483-492, dbsync.lua:14-26), also when the loop of   *)
(* dbsync ended over a statement that MySQL may have executed.             *)
THEOREM BackupInvariant == Spec => []BackupFollows
BY AccountsInvariant, PTL

(* When dbmgr has nothing to do, executing the queue in its order brings   *)
(* MySQL to the accounts that are in memory (doc/persist.md:14,            *)
(* dbsync.lua:20-24).                                                      *)
THEOREM BackupIsMemory == Spec => []BackupCatchesUp
<1>1. ASSUME BackupFollows PROVE BackupCatchesUp
  <2> SUFFICES ASSUME calls = <<>>, trouble = {}
               PROVE  Drained(table, queue) = InMemory
    BY DEF BackupCatchesUp
  <2>1. DOMAIN calls = {}  OBVIOUS
  <2>2. \A r : Backed(r) <=> r \in InMemory  BY <2>1 DEF Backed, Synced
  <2>3. \A r : r \in Drained(table, queue) <=> r \in InMemory
    BY <1>1, <2>2 DEF BackupFollows
  <2> QED BY <2>3
<1> QED BY <1>1, BackupInvariant, PTL

=============================================================================

------------------------------ MODULE AsyncLog ------------------------------
(***************************************************************************)
(* The asynchronous logger of lualib-src/lua-log.c, driven by the service  *)
(* of common/log.lua: one thread appends lines to 4 MB buffers, the        *)
(* worker thread takes the buffers, writes them to the log file and keeps  *)
(* two of them for the next round.                                         *)
(*                                                                         *)
(* Buffers are linked by pointers, as in the code, because the list the    *)
(* worker takes is linked up by the other thread.  A line counts as one    *)
(* unit of size and is known by its number; append, and what the worker    *)
(* does between two lock operations, are atomic.                           *)
(***************************************************************************)
EXTENDS Integers, SequencesExt, FiniteSets

CONSTANTS
  Buffers,        \* memory for buffers
  NULL,
  LogBufferSize,  \* LOG_BUFFER_SIZE, in lines
  RollSize,       \* inst.rollsize, in lines
  MaxKept,        \* the 25 buffers the worker takes without dropping any
  MaxLines,       \* bound: lines logged
  MaxDays         \* bound: days

ASSUME LogAssumption ==
  /\ LogBufferSize \in Nat /\ LogBufferSize >= 2
  /\ RollSize \in Nat \ {0} /\ MaxKept \in Nat /\ MaxKept >= 2
  /\ MaxLines \in Nat /\ MaxDays \in Nat
  /\ NULL \notin Buffers /\ IsFiniteSet(Buffers)
  /\ \E f \in [1 .. 4 -> Buffers] : IsInjective(f)

VARIABLES
  \* the heap
  data, next,     \* of each buffer
  owner,          \* "front": inst holds it, "back": the worker, or "free"
  \* inst
  curr_buffer, next_buffer,
  head, tail, size,     \* inst.buffers
  running,
  accepted,       \* number of lines appended
  \* the worker
  pc, new_buffer1, new_buffer2,
  whead, wsize,   \* buffers_to_write
  node,
  \* log files: a file is a day and an index
  handle, written_bytes, today,
  disk,           \* what was written where, oldest first
  lost,           \* lines dropped
  front           \* the log service

heapVars == <<data, next, owner>>
instVars == <<curr_buffer, next_buffer, head, tail, size>>
workerVars == <<new_buffer1, new_buffer2, whead, wsize>>
fileVars == <<handle, written_bytes, disk>>
vars == <<heapVars, instVars, running, accepted, pc, workerVars, node, fileVars,
          today, lost, front>>

Pointer == Buffers \cup {NULL}

TypeOK ==
  /\ data \in [Buffers -> Seq(Nat)] /\ next \in [Buffers -> Pointer]
  /\ owner \in [Buffers -> {"front", "back", "free"}]
  /\ curr_buffer \in Buffers /\ next_buffer \in Pointer
  /\ head \in Pointer /\ tail \in Pointer /\ size \in Nat
  /\ running \in BOOLEAN /\ accepted \in Nat
  /\ pc \in {"loop", "wait", "notice", "drop", "dropping", "write", "first",
             "second", "free", "done"}
  /\ new_buffer1 \in Pointer /\ new_buffer2 \in Pointer
  /\ whead \in Pointer /\ wsize \in Nat /\ node \in Pointer
  /\ handle \in [day : Nat, index : {0, 1}] /\ written_bytes \in Nat
  /\ today \in Nat
  /\ disk \in Seq([line : Nat, file : [day : Nat, index : {0, 1}]])
  /\ lost \subseteq Nat
  /\ front \in {"run", "fatal", "joining", "ended"}

(* The four buffers the threads begin with. *)
first == CHOOSE f \in [1 .. 4 -> Buffers] : IsInjective(f)

(* linit, and the worker up to its first round. *)
Init ==
  /\ data = [b \in Buffers |-> <<>>] /\ next = [b \in Buffers |-> NULL]
  /\ owner = [b \in Buffers |-> IF b \in {first[1], first[2]} THEN "front"
                ELSE IF b \in {first[3], first[4]} THEN "back" ELSE "free"]
  /\ curr_buffer = first[1] /\ next_buffer = first[2]
  /\ head = NULL /\ tail = NULL /\ size = 0
  /\ running = TRUE /\ accepted = 0
  /\ pc = "loop" /\ new_buffer1 = first[3] /\ new_buffer2 = first[4]
  /\ whead = NULL /\ wsize = 0 /\ node = NULL
  /\ handle = [day |-> 0, index |-> 0] /\ written_bytes = 0 /\ today = 0
  /\ disk = <<>> /\ lost = {} /\ front = "run"

-----------------------------------------------------------------------------
(* append.  The buffer is full when the line would fill it to the brim; it *)
(* joins the list, already linked to the buffer that takes its place.      *)
Fits == Len(data[curr_buffer]) + 1 < LogBufferSize

(* calloc, or the buffer in reserve; memory does not run out in the code.  *)
Free == {b \in Buffers : owner[b] = "free"}
NewBuffer == IF next_buffer # NULL THEN next_buffer ELSE CHOOSE b \in Free : TRUE

Put(b) == data' = [data EXCEPT ![b] = Append(@, accepted + 1)]

(* Mutant: the list is linked, the buffer that joins it is not. *)
LinkListOnly(new) ==
  next' = [b \in Buffers |-> IF head # NULL /\ b = tail THEN curr_buffer
                             ELSE next[b]]

Link(new) ==
  next' = [b \in Buffers |-> IF b = curr_buffer THEN new
                             ELSE IF head # NULL /\ b = tail THEN curr_buffer
                             ELSE next[b]]

(* Mutant: the buffer in reserve stays in reserve when it is used. *)
append_keeps_next ==
  /\ accepted' = accepted + 1
  /\ \/ Fits /\ Put(curr_buffer) /\ UNCHANGED <<next, owner, instVars>>
     \/ /\ ~Fits
        /\ head' = IF head = NULL THEN curr_buffer ELSE head
        /\ tail' = curr_buffer /\ size' = size + 1
        /\ next_buffer = NULL => Free # {}
        /\ Link(NewBuffer) /\ Put(NewBuffer)
        /\ owner' = [owner EXCEPT ![NewBuffer] = "front"]
        /\ curr_buffer' = NewBuffer
        /\ UNCHANGED next_buffer

append ==
  /\ accepted' = accepted + 1
  /\ \/ Fits /\ Put(curr_buffer) /\ UNCHANGED <<next, owner, instVars>>
     \/ /\ ~Fits
        /\ head' = IF head = NULL THEN curr_buffer ELSE head
        /\ tail' = curr_buffer /\ size' = size + 1
        /\ next_buffer = NULL => Free # {}
        /\ Link(NewBuffer) /\ Put(NewBuffer)
        /\ owner' = [owner EXCEPT ![NewBuffer] = "front"]
        /\ curr_buffer' = NewBuffer
        /\ next_buffer' = NULL

(* A line of a service: ldebug, linfo, lwarning, lerror; lfatal also exits. *)
Log ==
  /\ front = "run" /\ accepted < MaxLines
  /\ append
  /\ front' \in {"run", "fatal"}
  /\ UNCHANGED <<running, pc, workerVars, node, fileVars, today, lost>>

(* log_exit, by lexit or lfatal. *)
Exit ==
  /\ front \in {"run", "fatal"}
  /\ running' = FALSE /\ front' = "joining"
  /\ UNCHANGED <<heapVars, instVars, accepted, pc, workerVars, node, fileVars,
                 today, lost>>

Joined ==
  /\ front = "joining" /\ pc = "done" /\ front' = "ended"
  /\ UNCHANGED <<heapVars, instVars, running, accepted, pc, workerVars, node,
                 fileVars, today, lost>>

-----------------------------------------------------------------------------
(* The worker thread.                                                      *)

(* rollfile.  Its loop begins with index 0 every time, and goes on to      *)
(* index 1 when the file that was left has the size to roll.               *)
rollfile(written) ==
  /\ handle' = [day |-> today, index |-> IF written >= RollSize THEN 1 ELSE 0]
  /\ written_bytes' = IF written >= RollSize THEN 0 ELSE written

Begin ==
  /\ pc = "loop"
  /\ IF ~running THEN pc' = "done" ELSE head = NULL /\ pc' = "wait"
  /\ UNCHANGED <<heapVars, instVars, running, accepted, workerVars, node,
                 fileVars, today, lost, front>>

(* Mutant: the wait has no timeout. *)
ReadyOnSignal == head # NULL /\ (pc = "wait" \/ (pc = "loop" /\ running))

(* The wait ends with a signal, with the flush interval, or for no reason; *)
(* it is skipped when there are buffers in the list.                       *)
Ready == pc = "wait" \/ (pc = "loop" /\ running /\ head # NULL)

(* The critical section: inst gives up its buffers but for the reserve.    *)
Swap ==
  /\ Ready
  /\ whead' = IF head = NULL THEN curr_buffer ELSE head
  /\ wsize' = size + 1 /\ node' = whead'
  /\ head' = NULL /\ tail' = NULL /\ size' = 0
  /\ curr_buffer' = new_buffer1 /\ new_buffer1' = NULL
  /\ IF next_buffer = NULL THEN next_buffer' = new_buffer2 /\ new_buffer2' = NULL
     ELSE UNCHANGED <<next_buffer, new_buffer2>>
  /\ owner' = [b \in Buffers |->
                 IF b \in {curr_buffer', next_buffer'} THEN "front"
                 ELSE IF owner[b] = "front" THEN "back" ELSE owner[b]]
  /\ IF handle.day # today THEN rollfile(written_bytes)
     ELSE UNCHANGED <<handle, written_bytes>>
  /\ pc' = IF wsize' > MaxKept THEN "notice" ELSE "write"
  /\ UNCHANGED <<data, next, running, accepted, disk, today, lost, front>>

WorkerOnly == UNCHANGED <<instVars, running, today, front>>

(* Too many buffers: a line about it is appended, ... *)
Notice ==
  /\ pc = "notice" /\ pc' = "drop"
  /\ append
  /\ UNCHANGED <<running, workerVars, node, fileVars, today, lost, front>>

second_buffer == next[whead]

(* Mutant: the list is not cut behind the second buffer. *)
DropUncut ==
  /\ pc = "drop" /\ pc' = "dropping"
  /\ node' = next[second_buffer] /\ wsize' = 2
  /\ UNCHANGED <<data, next, owner, accepted, new_buffer1, new_buffer2, whead,
                 fileVars, lost>>
  /\ WorkerOnly

(* Mutant: the two buffers that stay are counted as one. *)
DropMiscounted ==
  /\ pc = "drop" /\ pc' = "dropping"
  /\ node' = next[second_buffer] /\ wsize' = 1
  /\ next' = [next EXCEPT ![second_buffer] = NULL]
  /\ UNCHANGED <<data, owner, accepted, new_buffer1, new_buffer2, whead,
                 fileVars, lost>>
  /\ WorkerOnly

(* ... and all buffers but the first two are freed one by one. *)
Drop ==
  /\ pc = "drop" /\ pc' = "dropping"
  /\ node' = next[second_buffer] /\ wsize' = 2
  /\ next' = [next EXCEPT ![second_buffer] = NULL]
  /\ UNCHANGED <<data, owner, accepted, new_buffer1, new_buffer2, whead,
                 fileVars, lost>>
  /\ WorkerOnly

(* free and memset; what comes from calloc is clear, too. *)
Erase(b) ==
  /\ data' = [data EXCEPT ![b] = <<>>]
  /\ next' = [next EXCEPT ![b] = NULL]

Dropping ==
  /\ pc = "dropping"
  /\ IF node = NULL
     THEN /\ pc' = "write" /\ node' = whead
          /\ UNCHANGED <<heapVars, lost>>
     ELSE /\ lost' = lost \cup ToSet(data[node])
          /\ node' = next[node] /\ Erase(node)
          /\ owner' = [owner EXCEPT ![node] = "free"]
          /\ UNCHANGED pc
  /\ UNCHANGED <<accepted, workerVars, fileVars>>
  /\ WorkerOnly

(* One fwrite_unlocked. *)
Write ==
  /\ pc = "write" /\ node # NULL
  /\ disk' = disk \o [i \in DOMAIN data[node] |->
                        [line |-> data[node][i], file |-> handle]]
  /\ written_bytes' = written_bytes + Len(data[node])
  /\ node' = next[node]
  /\ UNCHANGED <<heapVars, accepted, pc, workerVars, handle, lost>>
  /\ WorkerOnly

Written ==
  /\ pc = "write" /\ node = NULL /\ pc' = "first"
  /\ IF written_bytes > RollSize THEN rollfile(written_bytes)
     ELSE UNCHANGED <<handle, written_bytes>>
  /\ UNCHANGED <<heapVars, accepted, workerVars, node, disk, lost>>
  /\ WorkerOnly

(* The worker keeps buffers it has written, cleared, for the next round.   *)
KeepFirst ==
  /\ pc = "first" /\ pc' = "second"
  /\ IF new_buffer1 # NULL THEN UNCHANGED <<data, next, new_buffer1, whead, wsize>>
     ELSE /\ new_buffer1' = whead /\ whead' = next[whead] /\ Erase(whead)
          /\ wsize' = wsize - 1
  /\ UNCHANGED <<owner, accepted, new_buffer2, node, fileVars, lost>>
  /\ WorkerOnly

KeepSecond ==
  /\ pc = "second" /\ pc' = "free"
  /\ IF new_buffer2 # NULL THEN UNCHANGED <<data, next, new_buffer2, whead, wsize>>
     ELSE /\ new_buffer2' = whead /\ whead' = next[whead] /\ Erase(whead)
          /\ wsize' = wsize - 1
  /\ UNCHANGED <<owner, accepted, new_buffer1, node, fileVars, lost>>
  /\ WorkerOnly

(* It frees the others. *)
FreeRest ==
  /\ pc = "free"
  /\ IF whead = NULL THEN pc' = "loop" /\ wsize' = 0 /\ UNCHANGED <<heapVars, whead>>
     ELSE /\ whead' = next[whead] /\ Erase(whead)
          /\ owner' = [owner EXCEPT ![whead] = "free"]
          /\ UNCHANGED <<pc, wsize>>
  /\ UNCHANGED <<accepted, new_buffer1, new_buffer2, node, fileVars, lost>>
  /\ WorkerOnly

Midnight ==
  /\ today < MaxDays /\ today' = today + 1
  /\ UNCHANGED <<heapVars, instVars, running, accepted, pc, workerVars, node,
                 fileVars, lost, front>>

-----------------------------------------------------------------------------
Worker == Begin \/ Swap \/ Notice \/ Drop \/ Dropping \/ Write \/ Written
          \/ KeepFirst \/ KeepSecond \/ FreeRest

Next == Log \/ Exit \/ Joined \/ Worker \/ Midnight

Spec == Init /\ [][Next]_vars

(* The worker thread runs; the services may log or exit, or not. *)
FairSpec == Spec /\ WF_vars(Worker)

-----------------------------------------------------------------------------
(* The assertions of the code, and the pointers it follows unchecked: the  *)
(* worker always finds the two buffers it gave away, in what it took.      *)
AssertsHold ==
  /\ (head = NULL) <=> (tail = NULL)
  /\ next[curr_buffer] = NULL
  /\ pc \in {"loop", "wait"} =>
       /\ whead = NULL
       /\ new_buffer1 # NULL /\ data[new_buffer1] = <<>>
       /\ new_buffer2 # NULL /\ data[new_buffer2] = <<>>
  /\ pc \in {"notice", "drop"} => whead # NULL /\ second_buffer # NULL
  /\ pc = "first" => new_buffer1 = NULL /\ whead # NULL /\ wsize > 0
  /\ pc = "second" /\ new_buffer2 = NULL => whead # NULL /\ wsize > 0

(* The buffers from b on, as far as the pointers go. *)
ChainFrom(b) ==
  LET chain[n \in 0 .. Cardinality(Buffers)] ==
        [p \in Pointer |-> IF n = 0 \/ p = NULL THEN <<>>
                          ELSE <<p>> \o chain[n - 1][next[p]]]
  IN chain[Cardinality(Buffers)][b]

InstChain == ChainFrom(IF head = NULL THEN curr_buffer ELSE head)

(* The list of inst ends with the current buffer and is as long as it      *)
(* says, and every buffer that was allocated can be found by the thread    *)
(* that owns it: nothing leaks, and nothing that was freed is in use.      *)
BuffersAccounted ==
  LET back == ToSet(ChainFrom(whead)) \cup {new_buffer1, new_buffer2}
              \cup (IF pc = "dropping" THEN ToSet(ChainFrom(node)) ELSE {})
  IN /\ Last(InstChain) = curr_buffer /\ Len(InstChain) = size + 1
     /\ {b \in Buffers : owner[b] = "front"} =
          (ToSet(InstChain) \cup {next_buffer}) \ {NULL}
     /\ {b \in Buffers : owner[b] = "back"} = back \ {NULL}

(* The logger keeps the promise of a queue: see LogPromise. *)
Lines(chain) == FlattenSeq([i \in DOMAIN chain |-> data[chain[i]]])

BeingWritten ==
  IF pc \in {"notice", "drop"} THEN ChainFrom(whead)
  ELSE IF pc = "dropping" THEN ChainFrom(whead) \o ChainFrom(node)
  ELSE IF pc = "write" THEN ChainFrom(node) ELSE <<>>

Promise == INSTANCE LogPromise WITH
  Overload <- MaxKept * (LogBufferSize - 1),
  Kept <- 2 * (LogBufferSize - 1),
  pending <- Lines(BeingWritten \o InstChain),
  disk <- [i \in DOMAIN disk |-> disk[i].line],
  shedding <- pc \in {"notice", "drop", "dropping"}

KeepsPromise == Promise!Spec

(* Every line reaches the disk or is dropped, as long as nobody exits.     *)
Flushed ==
  \A n \in 1 .. MaxLines :
    accepted >= n ~> \/ n \in lost \/ ~running
                     \/ \E i \in DOMAIN disk : disk[i].line = n

(* lua-log.c:18: a log file that has reached its size is rolled to a new   *)
(* file.                                                                   *)
RollsToNewFile ==
  [][written_bytes' < written_bytes =>
       \A i \in DOMAIN disk : disk[i].file # handle']_vars
=============================================================================

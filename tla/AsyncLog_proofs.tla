--------------------------- MODULE AsyncLog_proofs ---------------------------
(***************************************************************************)
(* Proofs about AsyncLog for any number of buffers, lines and days: the    *)
(* assertions of the code hold, and neither thread follows a nil pointer.  *)
(***************************************************************************)
EXTENDS AsyncLog, SequenceTheorems, TLAPS

(***************************************************************************)
(* The inductive invariant: how the pointers lie in the heap.              *)
(***************************************************************************)

(* Whoever is linked from b belongs to the owner of b, nothing is linked   *)
(* twice, and nothing is linked to the heads of lists and to reserves.     *)
Links ==
  \A b \in Buffers : next[b] # NULL =>
    /\ owner[b] # "free" /\ owner[next[b]] = owner[b] /\ next[b] # b
    /\ next[b] \notin {head, next_buffer, whead, new_buffer1, new_buffer2}
    /\ \A c \in Buffers : next[c] = next[b] => c = b

FrontSound ==
  /\ owner[curr_buffer] = "front" /\ next[curr_buffer] = NULL
  /\ next_buffer # NULL => /\ owner[next_buffer] = "front"
                           /\ next[next_buffer] = NULL
                           /\ next_buffer # curr_buffer
  /\ (head = NULL) <=> (tail = NULL)
  /\ next_buffer = NULL => head # NULL
  /\ size > 0 <=> head # NULL
  /\ head # NULL => /\ owner[head] = "front" /\ next[head] # NULL
                    /\ owner[tail] = "front" /\ next[tail] = curr_buffer
  /\ head = NULL => \A b \in Buffers : next[b] # curr_buffer

Spare(p) == p # NULL => owner[p] = "back" /\ next[p] = NULL /\ data[p] = <<>>

BackSound ==
  /\ Spare(new_buffer1) /\ Spare(new_buffer2)
  /\ new_buffer1 # NULL => new_buffer1 # new_buffer2
  /\ whead # NULL => owner[whead] = "back" /\ whead \notin {new_buffer1, new_buffer2}

(* Where the worker stands: what it gave away is in what it took.          *)
PhaseSound ==
  /\ pc \in {"loop", "wait", "done"} => whead = NULL
  /\ pc \in {"loop", "wait", "done", "free"} =>
       new_buffer1 # NULL /\ new_buffer2 # NULL
  /\ pc \in {"notice", "drop", "dropping", "write", "first"} =>
       /\ new_buffer1 = NULL /\ whead # NULL /\ wsize > 0
       /\ new_buffer2 = NULL => next[whead] # NULL /\ wsize > 1
  /\ pc \in {"notice", "drop"} => next[whead] # NULL
  /\ pc \in {"dropping", "write"} /\ node # NULL =>
       owner[node] = "back" /\ node \notin {new_buffer1, new_buffer2}
  /\ pc = "dropping" /\ node # NULL =>
       node # whead /\ \A b \in Buffers : next[b] # node
  /\ pc = "second" => /\ new_buffer1 # NULL
                      /\ new_buffer2 = NULL => whead # NULL /\ wsize > 0

IndInv == TypeOK /\ Links /\ FrontSound /\ BackSound /\ PhaseSound

-----------------------------------------------------------------------------
(* The four buffers of linit and worker_func are different ones. *)
LEMMA FourBuffers ==
  /\ first[1] \in Buffers /\ first[2] \in Buffers
  /\ first[3] \in Buffers /\ first[4] \in Buffers
  /\ first[1] # first[2] /\ first[1] # first[3] /\ first[1] # first[4]
  /\ first[2] # first[3] /\ first[2] # first[4] /\ first[3] # first[4]
<1>1. first \in [1 .. 4 -> Buffers] /\ IsInjective(first)
  BY LogAssumption DEF first, LogAssumption
<1>2. \A i, j \in 1 .. 4 : first[i] = first[j] => i = j
  BY <1>1 DEF IsInjective
<1> QED BY <1>1, <1>2

LEMMA InitInv == Init => IndInv
<1> SUFFICES ASSUME Init PROVE IndInv
  OBVIOUS
<1> USE FourBuffers, LogAssumption DEF LogAssumption, Init
<1>1. TypeOK
  BY DEF TypeOK, Pointer
<1>2. Links
  BY DEF Links
<1>3. FrontSound
  BY DEF FrontSound
<1>4. BackSound
  BY DEF BackSound, Spare
<1>5. PhaseSound
  BY DEF PhaseSound
<1> QED BY <1>1, <1>2, <1>3, <1>4, <1>5 DEF IndInv

-----------------------------------------------------------------------------
(* append: the buffer that takes the place of a full one belongs to nobody *)
(* else, ...                                                               *)
LEMMA NewBufferFresh ==
  ASSUME IndInv, append, ~Fits
  PROVE  /\ NewBuffer \in Buffers /\ NewBuffer # curr_buffer
         /\ owner[NewBuffer] # "back" /\ next[NewBuffer] = NULL
         /\ \A b \in Buffers : next[b] # NewBuffer
         /\ NewBuffer # head
         /\ NewBuffer # tail
<1> USE LogAssumption DEF LogAssumption, IndInv
<1>1. CASE next_buffer # NULL
  <2>1. NewBuffer = next_buffer
    BY <1>1 DEF NewBuffer
  <2>2. next_buffer \in Buffers
    BY <1>1 DEF TypeOK, Pointer
  <2>3. /\ owner[next_buffer] = "front" /\ next[next_buffer] = NULL
        /\ next_buffer # curr_buffer
    BY <1>1 DEF FrontSound
  <2>4. ASSUME NEW b \in Buffers PROVE next[b] # next_buffer
    BY <1>1 DEF Links
  <2>5. next_buffer # head /\ next_buffer # tail
    BY <1>1, <2>3 DEF FrontSound, TypeOK
  <2> QED BY <2>1, <2>2, <2>3, <2>4, <2>5
<1>2. CASE next_buffer = NULL
  <2>1. NewBuffer \in Free
    BY <1>2 DEF append, NewBuffer
  <2>2. NewBuffer \in Buffers /\ owner[NewBuffer] = "free"
    BY <2>1 DEF Free
  <2>3. next[NewBuffer] = NULL
    BY <2>2 DEF Links
  <2>4. ASSUME NEW b \in Buffers PROVE next[b] # NewBuffer
    BY <2>2 DEF Links
  <2> QED BY <1>2, <2>2, <2>3, <2>4 DEF FrontSound
<1> QED BY <1>1, <1>2

(* ... nothing of the worker's is touched, ...                             *)
LEMMA AppendFrame ==
  ASSUME IndInv, append
  PROVE  /\ \A b \in Buffers : owner[b] = "back" =>
              owner'[b] = "back" /\ next'[b] = next[b] /\ data'[b] = data[b]
         /\ \A b, p \in Buffers : owner[p] = "back" /\ next'[b] = p => next[b] = p
<1> USE LogAssumption DEF LogAssumption, IndInv
<1>t. /\ curr_buffer \in Buffers /\ data \in [Buffers -> Seq(Nat)]
      /\ next \in [Buffers -> Pointer]
      /\ owner \in [Buffers -> {"front", "back", "free"}]
  BY DEF TypeOK
<1>1. CASE Fits
  BY <1>1, <1>t DEF append, Put, FrontSound
<1>2. CASE ~Fits
  <2> DEFINE new == NewBuffer
  <2>1. new \in Buffers /\ new # curr_buffer /\ owner[new] # "back"
    BY <1>2, NewBufferFresh
  <2>2. /\ Link(new) /\ Put(new) /\ owner' = [owner EXCEPT ![new] = "front"]
    BY <1>2 DEF append
  <2> HIDE DEF new
  <2>3. ASSUME NEW b \in Buffers, owner[b] = "back"
        PROVE  owner'[b] = "back" /\ next'[b] = next[b] /\ data'[b] = data[b]
    BY <2>1, <2>2, <2>3, <1>t DEF Link, Put, FrontSound
  <2>4. ASSUME NEW b \in Buffers, NEW p \in Buffers, owner[p] = "back", next'[b] = p
        PROVE  next[b] = p
    BY <2>1, <2>2, <2>4, <1>t DEF Link, FrontSound
  <2> QED BY <2>3, <2>4
<1> QED BY <1>1, <1>2

(* ... and the list of inst stays in order.                                *)
LEMMA AppendKeeps ==
  ASSUME IndInv, append, UNCHANGED <<new_buffer1, new_buffer2, whead>>
  PROVE  /\ /\ data' \in [Buffers -> Seq(Nat)] /\ next' \in [Buffers -> Pointer]
            /\ owner' \in [Buffers -> {"front", "back", "free"}]
            /\ curr_buffer' \in Buffers /\ next_buffer' \in Pointer
            /\ head' \in Pointer /\ tail' \in Pointer /\ size' \in Nat
            /\ accepted' \in Nat
         /\ Links' /\ FrontSound' /\ BackSound'
<1> USE LogAssumption DEF LogAssumption, IndInv
<1>t. /\ curr_buffer \in Buffers /\ data \in [Buffers -> Seq(Nat)]
      /\ next \in [Buffers -> Pointer] /\ head \in Pointer /\ tail \in Pointer
      /\ owner \in [Buffers -> {"front", "back", "free"}]
      /\ size \in Nat /\ accepted \in Nat /\ next_buffer \in Pointer
      /\ whead \in Pointer /\ new_buffer1 \in Pointer /\ new_buffer2 \in Pointer
  BY DEF TypeOK
<1>1. CASE Fits
  <2>1. /\ Put(curr_buffer) /\ accepted' = accepted + 1
        /\ UNCHANGED <<next, owner, instVars>>
    BY <1>1 DEF append
  <2>2. Links' /\ FrontSound'
    BY <2>1 DEF Links, FrontSound, instVars
  <2>3. BackSound'
    BY <2>1, <1>t, AppendFrame DEF BackSound, Spare, Pointer
  <2>4. data' \in [Buffers -> Seq(Nat)]
    BY <2>1, <1>t DEF Put
  <2> QED BY <2>1, <2>2, <2>3, <2>4, <1>t DEF instVars
<1>2. CASE ~Fits
  <2> DEFINE new == NewBuffer
  <2>1. /\ new \in Buffers /\ new # curr_buffer /\ owner[new] # "back"
        /\ next[new] = NULL /\ new # head /\ new # tail
        /\ \A b \in Buffers : next[b] # new
    BY <1>2, NewBufferFresh
  <2>2. /\ Link(new) /\ Put(new) /\ owner' = [owner EXCEPT ![new] = "front"]
        /\ head' = IF head = NULL THEN curr_buffer ELSE head
        /\ tail' = curr_buffer /\ size' = size + 1 /\ curr_buffer' = new
        /\ next_buffer' = NULL /\ accepted' = accepted + 1
    BY <1>2 DEF append
  <2> HIDE DEF new
  <2>t. /\ data' \in [Buffers -> Seq(Nat)] /\ next' \in [Buffers -> Pointer]
        /\ owner' \in [Buffers -> {"front", "back", "free"}]
        /\ curr_buffer' \in Buffers /\ next_buffer' \in Pointer
        /\ head' \in Pointer /\ tail' \in Pointer /\ size' \in Nat
        /\ accepted' \in Nat
    <3>1. data' \in [Buffers -> Seq(Nat)]
      BY <2>1, <2>2, <1>t DEF Put
    <3>2. next' \in [Buffers -> Pointer]
      BY <2>1, <2>2, <1>t DEF Link, Pointer
    <3>3. owner' \in [Buffers -> {"front", "back", "free"}]
      BY <2>1, <2>2, <1>t
    <3>4. /\ curr_buffer' \in Buffers /\ next_buffer' \in Pointer
          /\ head' \in Pointer /\ tail' \in Pointer
      BY <2>1, <2>2, <1>t DEF Pointer
    <3>5. size' \in Nat /\ accepted' \in Nat
      BY <2>2, <1>t
    <3> QED BY <3>1, <3>2, <3>3, <3>4, <3>5
  <2>3. \A b \in Buffers : next'[b] = IF b = curr_buffer THEN new ELSE next[b]
    <3>1. head # NULL => next[tail] = curr_buffer
      BY DEF FrontSound
    <3> QED BY <2>1, <2>2, <3>1, <1>t DEF Link
  <2>4. \A b \in Buffers : owner'[b] = IF b = new THEN "front" ELSE owner[b]
    BY <2>2, <1>t
  <2>5. Links'
    <3> SUFFICES ASSUME NEW b \in Buffers, next'[b] # NULL
                 PROVE  /\ owner'[b] # "free" /\ owner'[next'[b]] = owner'[b]
                        /\ next'[b] # b
                        /\ next'[b] \notin {head', next_buffer', whead',
                                            new_buffer1', new_buffer2'}
                        /\ \A c \in Buffers : next'[c] = next'[b] => c = b
      BY DEF Links
    <3>1. CASE b = curr_buffer
      <4>1. next'[b] = new /\ owner'[b] = "front" /\ owner'[new] = "front"
        BY <3>1, <2>1, <2>3, <2>4 DEF FrontSound
      <4>2. \A p \in {whead, new_buffer1, new_buffer2} :
              p # NULL => owner[p] = "back"
        BY DEF BackSound, Spare
      <4> QED BY <3>1, <4>1, <4>2, <2>1, <2>2, <2>3
    <3>2. CASE b # curr_buffer
      <4>1. next'[b] = next[b] /\ next[b] \in Buffers /\ next[b] # new
        BY <3>2, <2>1, <2>3, <1>t DEF Pointer
      <4>2. b # new
        BY <4>1, <2>1
      <4>3. head = NULL => next[b] # curr_buffer
        BY DEF FrontSound
      <4>4. owner'[next[b]] = owner[next[b]] /\ owner'[b] = owner[b]
        BY <4>1, <4>2, <2>4
      <4>5. /\ owner[b] # "free" /\ owner[next[b]] = owner[b] /\ next[b] # b
            /\ next[b] \notin {head, whead, new_buffer1, new_buffer2}
            /\ \A c \in Buffers : next[c] = next[b] => c = b
        BY <4>1 DEF Links
      <4> QED BY <4>1, <4>3, <4>4, <4>5, <2>1, <2>2, <2>3
    <3> QED BY <3>1, <3>2
  <2>6. FrontSound'
    <3>1. /\ head' # NULL /\ owner'[head'] = "front" /\ next'[head'] # NULL
      BY <2>1, <2>2, <2>3, <2>4, <1>t DEF FrontSound, Pointer
    <3>2. owner'[tail'] = "front" /\ next'[tail'] = curr_buffer' /\ tail' # NULL
      BY <2>1, <2>2, <2>3, <2>4, <1>t DEF FrontSound, Pointer
    <3>3. owner'[curr_buffer'] = "front" /\ next'[curr_buffer'] = NULL
      BY <2>1, <2>2, <2>3, <2>4
    <3>4. size' > 0
      BY <2>2, <1>t, <1>2 DEF FrontSound
    <3> QED BY <3>1, <3>2, <3>3, <3>4, <2>2 DEF FrontSound
  <2>7. BackSound'
    BY <1>t, AppendFrame DEF BackSound, Spare, Pointer
  <2> QED BY <2>t, <2>5, <2>6, <2>7
<1> QED BY <1>1, <1>2

-----------------------------------------------------------------------------
(* One step per action, with the parts of the invariant it can disturb.    *)

Inst == /\ curr_buffer \in Buffers /\ next_buffer \in Pointer
        /\ head \in Pointer /\ tail \in Pointer /\ size \in Nat
Heap == /\ data \in [Buffers -> Seq(Nat)] /\ next \in [Buffers -> Pointer]
        /\ owner \in [Buffers -> {"front", "back", "free"}]

LEMMA LogStep == IndInv /\ Log => IndInv'
<1> SUFFICES ASSUME IndInv, Log PROVE IndInv'
  OBVIOUS
<1>1. append /\ UNCHANGED <<running, pc, workerVars, node, fileVars, today, lost>>
  BY DEF Log
<1>2. Heap' /\ Inst' /\ accepted' \in Nat /\ Links' /\ FrontSound' /\ BackSound'
  BY <1>1, AppendKeeps DEF workerVars, Heap, Inst
<1>3. TypeOK'
  BY <1>1, <1>2 DEF IndInv, TypeOK, Heap, Inst, Log, workerVars, fileVars
<1>4. PhaseSound'
  <2>1. /\ \A b \in Buffers : owner[b] = "back" =>
             owner'[b] = "back" /\ next'[b] = next[b]
        /\ \A b, p \in Buffers : owner[p] = "back" /\ next'[b] = p => next[b] = p
    BY <1>1, AppendFrame
  <2>2. UNCHANGED <<pc, new_buffer1, new_buffer2, whead, node>>
    BY <1>1 DEF workerVars
  <2>6. wsize' = wsize
    BY <1>1 DEF workerVars
  <2>3. whead \in Pointer /\ node \in Pointer /\ NULL \notin Buffers
    BY LogAssumption DEF IndInv, TypeOK, LogAssumption
  <2>4. whead # NULL => owner[whead] = "back" /\ next'[whead] = next[whead]
    BY <2>1, <2>3 DEF IndInv, BackSound, Pointer
  <2>5. pc \in {"dropping", "write"} /\ node # NULL =>
          /\ owner'[node] = "back"
          /\ (pc = "dropping" => \A b \in Buffers : next'[b] # node)
    BY <2>1, <2>3 DEF IndInv, PhaseSound, Pointer
  <2> QED BY <2>2, <2>4, <2>5, <2>6 DEF IndInv, PhaseSound
<1> QED BY <1>2, <1>3, <1>4 DEF IndInv

LEMMA NoticeStep == IndInv /\ Notice => IndInv'
<1> SUFFICES ASSUME IndInv, Notice PROVE IndInv'
  OBVIOUS
<1>1. /\ append /\ pc = "notice" /\ pc' = "drop"
      /\ UNCHANGED <<running, workerVars, node, fileVars, today, lost, front>>
  BY DEF Notice
<1>2. Heap' /\ Inst' /\ accepted' \in Nat /\ Links' /\ FrontSound' /\ BackSound'
  BY <1>1, AppendKeeps DEF workerVars, Heap, Inst
<1>3. TypeOK'
  BY <1>1, <1>2 DEF IndInv, TypeOK, Heap, Inst, workerVars, fileVars
<1>4. PhaseSound'
  <2>1. whead \in Buffers /\ owner[whead] = "back"
    BY <1>1, LogAssumption
       DEF IndInv, PhaseSound, BackSound, TypeOK, Pointer, LogAssumption
  <2>2. next'[whead] = next[whead]
    BY <1>1, <2>1, AppendFrame
  <2> QED BY <1>1, <2>2 DEF IndInv, PhaseSound, workerVars
<1> QED BY <1>2, <1>3, <1>4 DEF IndInv

(* Steps that leave the pointers alone. *)
LEMMA FrameStep ==
  IndInv /\ (Begin \/ Exit \/ Joined \/ Midnight \/ UNCHANGED vars) => IndInv'
<1> SUFFICES ASSUME IndInv, Begin \/ Exit \/ Joined \/ Midnight \/ UNCHANGED vars
             PROVE  IndInv'
  OBVIOUS
<1>1. UNCHANGED <<heapVars, instVars, workerVars, node>>
  BY DEF Begin, Exit, Joined, Midnight, vars
<1>2. TypeOK'
  <2> USE <1>1 DEF IndInv, TypeOK, heapVars, instVars, workerVars, fileVars
  <2>1. CASE Begin
    BY <2>1 DEF Begin
  <2>2. CASE Exit
    BY <2>2 DEF Exit
  <2>3. CASE Joined
    BY <2>3 DEF Joined
  <2>4. CASE Midnight
    BY <2>4 DEF Midnight
  <2>5. CASE UNCHANGED vars
    BY <2>5 DEF vars
  <2> QED BY <2>1, <2>2, <2>3, <2>4, <2>5
<1>3. Links' /\ FrontSound' /\ BackSound'
  BY <1>1 DEF IndInv, Links, FrontSound, BackSound, Spare, heapVars, instVars,
              workerVars
<1>4. PhaseSound'
  <2>1. pc' = pc \/ (pc = "loop" /\ pc' \in {"wait", "done"})
    BY DEF Begin, Exit, Joined, Midnight, vars
  <2> QED BY <1>1, <2>1 DEF IndInv, PhaseSound, heapVars, workerVars
<1> QED BY <1>2, <1>3, <1>4 DEF IndInv

(* Rolling a file. *)
LEMMA RollTypes ==
  ASSUME TypeOK, NEW w \in Nat, rollfile(w)
  PROVE  handle' \in [day : Nat, index : {0, 1}] /\ written_bytes' \in Nat
  BY DEF TypeOK, rollfile

LEMMA WriteStep == IndInv /\ (Write \/ Written) => IndInv'
<1> SUFFICES ASSUME IndInv, Write \/ Written PROVE IndInv'
  OBVIOUS
<1> USE LogAssumption DEF LogAssumption
<1>1. UNCHANGED <<heapVars, accepted, workerVars, lost>> /\ WorkerOnly
  BY DEF Write, Written
<1>2. Links' /\ FrontSound' /\ BackSound'
  BY <1>1 DEF IndInv, Links, FrontSound, BackSound, Spare, heapVars, instVars,
              workerVars, WorkerOnly
<1>3. CASE Write
  <2>1. node \in Buffers
    BY <1>3 DEF Write, IndInv, TypeOK, Pointer
  <2>2. data[node] \in Seq(Nat) /\ node' = next[node] /\ node' \in Pointer
    BY <1>3, <2>1 DEF Write, IndInv, TypeOK
  <2>3. disk' \in Seq([line : Nat, file : [day : Nat, index : {0, 1}]])
    <3> DEFINE more == [i \in DOMAIN data[node] |->
                          [line |-> data[node][i], file |-> handle]]
    <3>1. more \in Seq([line : Nat, file : [day : Nat, index : {0, 1}]])
      <4>1. Len(data[node]) \in Nat /\ DOMAIN data[node] = 1 .. Len(data[node])
        BY <2>2
      <4>2. ASSUME NEW i \in 1 .. Len(data[node])
            PROVE  [line |-> data[node][i], file |-> handle]
                     \in [line : Nat, file : [day : Nat, index : {0, 1}]]
        <5>1. data[node][i] \in Nat
          BY <2>2
        <5> QED BY <5>1 DEF IndInv, TypeOK
      <4> QED BY <4>1, <4>2, SeqDef
    <3> HIDE DEF more
    <3> QED BY <1>3, <3>1 DEF Write, IndInv, TypeOK, more
  <2>4. written_bytes' \in Nat
    BY <1>3, <2>2 DEF Write, IndInv, TypeOK
  <2>5. TypeOK'
    <3>1. /\ UNCHANGED <<heapVars, instVars, workerVars, running, accepted, pc>>
          /\ UNCHANGED <<handle, today, lost, front>>
      BY <1>1, <1>3 DEF Write, WorkerOnly
    <3>2. node' \in Pointer
      BY <2>2
    <3> QED
      BY <2>3, <2>4, <3>1, <3>2 DEF IndInv, TypeOK, heapVars, instVars, workerVars
  <2>6. owner[node] = "back" /\ node \notin {new_buffer1, new_buffer2}
    BY <1>3 DEF Write, IndInv, PhaseSound
  <2>7. node' # NULL => owner[node'] = "back" /\ node' \notin {new_buffer1, new_buffer2}
    BY <2>1, <2>2, <2>6 DEF IndInv, Links
  <2>8. PhaseSound'
    BY <1>1, <1>3, <2>7 DEF IndInv, PhaseSound, Write, heapVars, workerVars
  <2> QED BY <1>2, <2>5, <2>8 DEF IndInv
<1>4. CASE Written
  <2>1. handle' \in [day : Nat, index : {0, 1}] /\ written_bytes' \in Nat
    BY <1>4, RollTypes DEF Written, IndInv, TypeOK
  <2>2. TypeOK'
    BY <1>1, <1>4, <2>1 DEF IndInv, TypeOK, Written, heapVars, instVars,
       workerVars, WorkerOnly
  <2>3. PhaseSound'
    BY <1>1, <1>4 DEF IndInv, PhaseSound, Written, heapVars, workerVars
  <2> QED BY <1>2, <2>2, <2>3 DEF IndInv
<1> QED BY <1>3, <1>4

LEMMA SwapStep == IndInv /\ Swap => IndInv'
<1> SUFFICES ASSUME IndInv, Swap PROVE IndInv'
  OBVIOUS
<1> USE LogAssumption DEF LogAssumption
<1>i. TypeOK /\ Links /\ FrontSound /\ BackSound /\ PhaseSound
  BY DEF IndInv
<1>t. /\ curr_buffer \in Buffers /\ next \in [Buffers -> Pointer]
      /\ owner \in [Buffers -> {"front", "back", "free"}]
      /\ next_buffer \in Pointer /\ head \in Pointer /\ size \in Nat
  BY <1>i DEF TypeOK
<1>1. /\ new_buffer1 \in Buffers /\ new_buffer2 \in Buffers
      /\ new_buffer1 # new_buffer2 /\ whead = NULL
      /\ owner[new_buffer1] = "back" /\ owner[new_buffer2] = "back"
      /\ next[new_buffer1] = NULL /\ next[new_buffer2] = NULL
  BY <1>i DEF Swap, Ready, PhaseSound, BackSound, Spare, TypeOK, Pointer
<1>2. /\ whead' = IF head = NULL THEN curr_buffer ELSE head
      /\ wsize' = size + 1 /\ node' = whead'
      /\ head' = NULL /\ tail' = NULL /\ size' = 0
      /\ curr_buffer' = new_buffer1 /\ new_buffer1' = NULL
      /\ next_buffer = NULL => next_buffer' = new_buffer2 /\ new_buffer2' = NULL
      /\ next_buffer # NULL => UNCHANGED <<next_buffer, new_buffer2>>
      /\ pc' = IF wsize' > MaxKept THEN "notice" ELSE "write"
      /\ UNCHANGED <<data, next, running, accepted, disk, today, lost, front>>
  BY DEF Swap
<1>3. \A b \in Buffers :
        owner'[b] = IF b \in {curr_buffer', next_buffer'} THEN "front"
                    ELSE IF owner[b] = "front" THEN "back" ELSE owner[b]
  BY DEF Swap
<1>4. next_buffer' \in Buffers /\ next'[next_buffer'] = NULL
      /\ next_buffer' # curr_buffer'
  BY <1>1, <1>2, <1>t, <1>i DEF FrontSound, Pointer
<1>5. /\ whead' \in Buffers /\ owner[whead'] = "front" /\ whead' # next_buffer'
      /\ whead' # curr_buffer'
  BY <1>1, <1>2, <1>t, <1>i DEF FrontSound, Pointer
<1>6. TypeOK'
  <2>1. owner' \in [Buffers -> {"front", "back", "free"}]
    BY <1>t DEF Swap
  <2>2. handle' \in [day : Nat, index : {0, 1}] /\ written_bytes' \in Nat
    BY <1>i, RollTypes DEF Swap, TypeOK
  <2>3. whead' \in Pointer /\ node' \in Pointer /\ wsize' \in Nat
    BY <1>2, <1>5, <1>t DEF Pointer
  <2>4. /\ curr_buffer' \in Buffers /\ next_buffer' \in Pointer
        /\ new_buffer1' \in Pointer /\ new_buffer2' \in Pointer
    BY <1>1, <1>2, <1>4 DEF Pointer
  <2> QED BY <1>2, <1>i, <2>1, <2>2, <2>3, <2>4 DEF TypeOK, Pointer
<1>7. Links'
  <2> SUFFICES ASSUME NEW b \in Buffers, next[b] # NULL
               PROVE  /\ owner'[b] # "free" /\ owner'[next[b]] = owner'[b]
                      /\ next[b] # b
                      /\ next[b] \notin {head', next_buffer', whead',
                                         new_buffer1', new_buffer2'}
                      /\ \A c \in Buffers : next[c] = next[b] => c = b
    BY <1>2 DEF Links
  <2>1. /\ owner[b] # "free" /\ owner[next[b]] = owner[b] /\ next[b] # b
        /\ next[b] \notin {head, next_buffer, new_buffer1, new_buffer2}
        /\ \A c \in Buffers : next[c] = next[b] => c = b
        /\ next[b] \in Buffers
    BY <1>i, <1>t DEF Links, Pointer
  <2>2. b \notin {curr_buffer', next_buffer'}
    BY <1>1, <1>2, <1>4
  <2>3. next[b] \notin {curr_buffer', next_buffer', whead'}
    BY <1>1, <1>2, <1>i, <2>1 DEF FrontSound
  <2>4. owner'[next[b]] = owner'[b] /\ owner'[b] # "free"
    BY <1>3, <2>1, <2>2, <2>3
  <2> QED BY <1>2, <2>1, <2>3, <2>4
<1>8. FrontSound'
  <2>1. owner'[curr_buffer'] = "front" /\ owner'[next_buffer'] = "front"
    BY <1>1, <1>2, <1>3, <1>4
  <2>2. \A b \in Buffers : next'[b] # curr_buffer'
    BY <1>1, <1>2, <1>i DEF Links
  <2> QED BY <1>1, <1>2, <1>4, <2>1, <2>2 DEF FrontSound
<1>9. BackSound'
  <2>1. owner'[whead'] = "back" /\ whead' # NULL
    BY <1>3, <1>5
  <2>2. new_buffer2' # NULL => /\ new_buffer2' = new_buffer2
                               /\ next_buffer' = next_buffer /\ next_buffer # NULL
    BY <1>1, <1>2
  <2>3. new_buffer2' # NULL => owner'[new_buffer2] = "back"
    BY <1>1, <1>2, <1>3, <1>i, <2>2 DEF FrontSound
  <2>4. Spare(new_buffer2)' /\ Spare(new_buffer1)'
    BY <1>1, <1>2, <1>i, <2>2, <2>3 DEF Spare, BackSound
  <2>5. whead' # new_buffer2'
    BY <1>1, <1>5, <2>1, <2>2
  <2> QED BY <1>2, <2>1, <2>4, <2>5 DEF BackSound
<1>10. PhaseSound'
  <2>1. size > 0 \/ next_buffer = NULL => next[whead'] # NULL /\ wsize' > 1
    BY <1>2, <1>t, <1>i DEF FrontSound
  <2>5. wsize' > 0
    BY <1>2, <1>t
  <2>2. new_buffer2' = NULL => next_buffer = NULL
    BY <1>1, <1>2
  <2>3. pc' = "notice" => size > 0
    BY <1>2, <1>t
  <2>4. owner'[whead'] = "back" /\ whead' \notin {new_buffer1', new_buffer2'}
    BY <1>5, <1>9 DEF BackSound
  <2> QED BY <1>2, <1>5, <2>1, <2>2, <2>3, <2>4, <2>5 DEF PhaseSound
<1> QED BY <1>6, <1>7, <1>8, <1>9, <1>10 DEF IndInv

(* Drop cuts the list behind its second buffer, ... *)
LEMMA DropStep == IndInv /\ Drop => IndInv'
<1> SUFFICES ASSUME IndInv, Drop PROVE IndInv'
  OBVIOUS
<1> USE LogAssumption DEF LogAssumption
<1>i. TypeOK /\ Links /\ FrontSound /\ BackSound /\ PhaseSound
  BY DEF IndInv
<1>t. /\ curr_buffer \in Buffers /\ next \in [Buffers -> Pointer]
      /\ head \in Pointer /\ tail \in Pointer /\ whead \in Pointer
  BY <1>i DEF TypeOK
<1>1. /\ pc = "drop" /\ pc' = "dropping"
      /\ node' = next[second_buffer] /\ wsize' = 2
      /\ next' = [next EXCEPT ![second_buffer] = NULL]
      /\ UNCHANGED <<data, owner, accepted, new_buffer1, new_buffer2, whead,
                     fileVars, lost>>
      /\ UNCHANGED <<instVars, running, today, front>>
  BY DEF Drop, WorkerOnly
<1>2. /\ whead \in Buffers /\ second_buffer \in Buffers
      /\ owner[second_buffer] = "back" /\ second_buffer # whead
      /\ second_buffer \notin {new_buffer1, new_buffer2}
      /\ next[whead] = second_buffer
  BY <1>1, <1>i, <1>t DEF PhaseSound, BackSound, Links, Pointer, second_buffer
<1>3. \A b \in Buffers : next'[b] = IF b = second_buffer THEN NULL ELSE next[b]
  BY <1>1, <1>t
<1>4. TypeOK'
  <2>1. next' \in [Buffers -> Pointer] /\ node' \in Pointer
    BY <1>1, <1>2, <1>t DEF Pointer
  <2> QED BY <1>1, <1>i, <2>1 DEF TypeOK, instVars, fileVars
<1>5. Links'
  BY <1>1, <1>3, <1>i DEF Links, instVars
<1>6. FrontSound'
  <2>1. UNCHANGED <<curr_buffer, next_buffer, head, tail, size, owner>>
    BY <1>1 DEF instVars
  <2>2. \A b \in Buffers : owner[b] = "front" => next'[b] = next[b]
    BY <1>2, <1>3
  <2>3. next'[curr_buffer] = NULL
    BY <1>i, <1>t, <2>2 DEF FrontSound
  <2>4. next_buffer # NULL => next'[next_buffer] = NULL
    BY <1>i, <1>t, <2>2 DEF FrontSound, TypeOK, Pointer
  <2>5. head # NULL => next'[head] # NULL /\ next'[tail] = curr_buffer
    BY <1>i, <1>t, <2>2 DEF FrontSound, Pointer
  <2>6. head = NULL => \A b \in Buffers : next'[b] # curr_buffer
    BY <1>i, <1>t, <1>3 DEF FrontSound
  <2> QED BY <1>i, <2>1, <2>3, <2>4, <2>5, <2>6 DEF FrontSound
<1>7. BackSound'
  <2>1. \A p \in {new_buffer1, new_buffer2} : p # NULL => next'[p] = next[p]
    BY <1>2, <1>3, <1>i DEF TypeOK, Pointer
  <2> QED BY <1>1, <1>i, <2>1 DEF BackSound, Spare
<1>8. PhaseSound'
  <2>1. next'[whead] = second_buffer
    BY <1>2, <1>3
  <2>2. node' # NULL =>
          /\ owner[node'] = "back" /\ node' \notin {new_buffer1, new_buffer2}
          /\ node' # whead /\ \A b \in Buffers : next'[b] # node'
    BY <1>1, <1>2, <1>3, <1>i DEF Links
  <2> QED BY <1>1, <1>2, <1>i, <2>1, <2>2 DEF PhaseSound
<1> QED BY <1>4, <1>5, <1>6, <1>7, <1>8 DEF IndInv

(* Erasing a buffer of the worker's that nothing is linked to. *)
LEMMA EraseFrame ==
  ASSUME IndInv, NEW b \in Buffers, owner[b] = "back",
         \A a \in Buffers : next[a] # b,
         Erase(b), UNCHANGED instVars,
         owner' = owner \/ owner' = [owner EXCEPT ![b] = "free"]
  PROVE  /\ Heap' /\ FrontSound'
         /\ \A a \in Buffers :
              /\ next'[a] = IF a = b THEN NULL ELSE next[a]
              /\ data'[a] = IF a = b THEN <<>> ELSE data[a]
              /\ a # b => owner'[a] = owner[a]
<1> USE LogAssumption DEF LogAssumption
<1>t. /\ data \in [Buffers -> Seq(Nat)] /\ next \in [Buffers -> Pointer]
      /\ owner \in [Buffers -> {"front", "back", "free"}]
      /\ curr_buffer \in Buffers /\ next_buffer \in Pointer
      /\ head \in Pointer /\ tail \in Pointer
  BY DEF IndInv, TypeOK
<1>1. \A a \in Buffers :
        /\ next'[a] = IF a = b THEN NULL ELSE next[a]
        /\ data'[a] = IF a = b THEN <<>> ELSE data[a]
        /\ a # b => owner'[a] = owner[a]
  BY <1>t DEF Erase
<1>2. Heap'
  <2>1. data' \in [Buffers -> Seq(Nat)]
    <3>1. <<>> \in Seq(Nat)
      OBVIOUS
    <3> QED BY <1>t, <3>1 DEF Erase
  <2>2. next' \in [Buffers -> Pointer]
    BY <1>t DEF Erase, Pointer
  <2>3. owner' \in [Buffers -> {"front", "back", "free"}]
    BY <1>t
  <2> QED BY <2>1, <2>2, <2>3 DEF Heap
<1>3. FrontSound'
  <2>1. \A a \in Buffers : owner[a] = "front" =>
          owner'[a] = "front" /\ next'[a] = next[a]
    BY <1>1
  <2>2. UNCHANGED <<curr_buffer, next_buffer, head, tail, size>>
    BY DEF instVars
  <2>3. owner'[curr_buffer] = "front" /\ next'[curr_buffer] = NULL
    BY <1>t, <2>1 DEF IndInv, FrontSound
  <2>4. next_buffer # NULL => owner'[next_buffer] = "front" /\ next'[next_buffer] = NULL
    BY <1>t, <2>1 DEF IndInv, FrontSound, Pointer
  <2>5. head # NULL => /\ owner'[head] = "front" /\ next'[head] # NULL
                       /\ owner'[tail] = "front" /\ next'[tail] = curr_buffer
    BY <1>t, <2>1 DEF IndInv, FrontSound, Pointer
  <2>6. head = NULL => \A a \in Buffers : next'[a] # curr_buffer
    BY <1>t, <1>1 DEF IndInv, FrontSound
  <2> QED BY <2>2, <2>3, <2>4, <2>5, <2>6 DEF IndInv, FrontSound
<1> QED BY <1>1, <1>2, <1>3

(* ... frees what is behind the cut, ... *)
LEMMA DroppingStep == IndInv /\ Dropping => IndInv'
<1> SUFFICES ASSUME IndInv, Dropping PROVE IndInv'
  OBVIOUS
<1> USE LogAssumption DEF LogAssumption
<1>i. TypeOK /\ Links /\ FrontSound /\ BackSound /\ PhaseSound
  BY DEF IndInv
<1>1. /\ pc = "dropping"
      /\ UNCHANGED <<accepted, workerVars, fileVars, instVars, running, today, front>>
  BY DEF Dropping, WorkerOnly
<1>2. CASE node = NULL
  <2>1. pc' = "write" /\ node' = whead /\ UNCHANGED <<heapVars, lost>>
    BY <1>2 DEF Dropping
  <2>2. TypeOK'
    BY <1>1, <1>i, <2>1 DEF TypeOK, heapVars, instVars, workerVars, fileVars
  <2>3. Links' /\ FrontSound' /\ BackSound'
    BY <1>1, <1>i, <2>1 DEF Links, FrontSound, BackSound, Spare, heapVars,
       instVars, workerVars
  <2>4. PhaseSound'
    BY <1>1, <1>i, <2>1 DEF PhaseSound, BackSound, heapVars, workerVars
  <2> QED BY <2>2, <2>3, <2>4 DEF IndInv
<1>3. CASE node # NULL
  <2>1. /\ lost' = lost \cup ToSet(data[node]) /\ node' = next[node] /\ Erase(node)
        /\ owner' = [owner EXCEPT ![node] = "free"] /\ pc' = pc
    BY <1>3 DEF Dropping
  <2>2. /\ node \in Buffers /\ owner[node] = "back" /\ node # whead
        /\ node \notin {new_buffer1, new_buffer2}
        /\ \A b \in Buffers : next[b] # node
    BY <1>1, <1>3, <1>i DEF PhaseSound, TypeOK, Pointer
  <2>3. /\ Heap' /\ FrontSound'
        /\ \A a \in Buffers :
             /\ next'[a] = IF a = node THEN NULL ELSE next[a]
             /\ data'[a] = IF a = node THEN <<>> ELSE data[a]
             /\ a # node => owner'[a] = owner[a]
    BY <1>1, <2>1, <2>2, EraseFrame
  <2>4. TypeOK'
    <3>1. lost' \subseteq Nat
      <4>1. data[node] \in Seq(Nat) /\ lost \subseteq Nat
        BY <2>2, <1>i DEF TypeOK
      <4>2. ToSet(data[node]) \subseteq Nat
        BY <4>1, ElementOfSeq DEF ToSet
      <4> QED BY <2>1, <4>1, <4>2
    <3>2. node' \in Pointer
      BY <2>1, <2>2, <1>i DEF TypeOK
    <3> QED BY <1>1, <1>i, <2>1, <2>3, <3>1, <3>2
            DEF TypeOK, Heap, instVars, workerVars, fileVars
  <2>5. Links'
    <3>1. \A a \in Buffers : next'[a] # NULL =>
            /\ a # node /\ next'[a] = next[a] /\ next[a] # node
            /\ owner'[a] = owner[a] /\ next[a] \in Buffers
            /\ owner'[next[a]] = owner[next[a]]
      <4> SUFFICES ASSUME NEW a \in Buffers, next'[a] # NULL
                   PROVE  /\ a # node /\ next'[a] = next[a] /\ next[a] # node
                          /\ owner'[a] = owner[a] /\ next[a] \in Buffers
                          /\ owner'[next[a]] = owner[next[a]]
        OBVIOUS
      <4>1. a # node /\ next'[a] = next[a] /\ next[a] # node /\ owner'[a] = owner[a]
        BY <2>2, <2>3
      <4>2. next[a] \in Buffers
        BY <4>1, <1>i DEF TypeOK, Pointer
      <4> QED BY <4>1, <4>2, <2>3
    <3> QED BY <1>1, <1>i, <2>3, <3>1 DEF Links, instVars, workerVars
  <2>6. BackSound'
    BY <1>1, <1>i, <2>2, <2>3 DEF BackSound, Spare, TypeOK, Pointer, workerVars
  <2>7. PhaseSound'
    <3>1. next'[whead] = next[whead] /\ whead \in Buffers
      BY <1>1, <1>i, <2>2, <2>3 DEF PhaseSound, TypeOK, Pointer
    <3>2. node' # NULL =>
            /\ node' \in Buffers /\ node' # node
            /\ owner'[node'] = "back" /\ node' \notin {new_buffer1, new_buffer2}
            /\ node' # whead /\ \A b \in Buffers : next'[b] # node'
      <4>1. next[node] # NULL => next[node] \in Buffers
        BY <2>2, <1>i DEF TypeOK, Pointer
      <4> QED BY <1>1, <1>i, <2>1, <2>2, <2>3, <4>1 DEF Links
    <3> QED BY <1>1, <1>i, <2>1, <3>1, <3>2 DEF PhaseSound, workerVars
  <2> QED BY <2>3, <2>4, <2>5, <2>6, <2>7 DEF IndInv
<1> QED BY <1>2, <1>3

(* ... and the two buffers it keeps become the new reserves. *)
LEMMA KeepLinks ==
  ASSUME IndInv, whead # NULL, Erase(whead), whead' = next[whead],
         UNCHANGED <<instVars, owner>>,
         \/ new_buffer1' = whead /\ new_buffer1 = NULL /\ new_buffer2' = new_buffer2
         \/ new_buffer2' = whead /\ new_buffer2 = NULL /\ new_buffer1' = new_buffer1
  PROVE  Heap' /\ Links' /\ FrontSound' /\ BackSound' /\ whead' \in Pointer
<1> USE LogAssumption DEF LogAssumption
<1>i. TypeOK /\ Links /\ FrontSound /\ BackSound
  BY DEF IndInv
<1>t. /\ next \in [Buffers -> Pointer]
      /\ new_buffer1 \in Pointer /\ new_buffer2 \in Pointer
  BY <1>i DEF TypeOK
<1>1. /\ whead \in Buffers /\ owner[whead] = "back"
      /\ whead \notin {new_buffer1, new_buffer2}
      /\ \A a \in Buffers : next[a] # whead
  BY <1>i DEF BackSound, Links, TypeOK, Pointer
<1>2. /\ Heap' /\ FrontSound'
      /\ \A a \in Buffers :
           /\ next'[a] = IF a = whead THEN NULL ELSE next[a]
           /\ data'[a] = IF a = whead THEN <<>> ELSE data[a]
  BY <1>1, EraseFrame
<1>3. whead' \in Pointer
  BY <1>1, <1>t
<1>4. whead' # NULL => /\ whead' \in Buffers /\ owner[whead'] = "back"
                       /\ whead' \notin {whead, new_buffer1, new_buffer2}
                       /\ \A a \in Buffers : next'[a] # whead'
  BY <1>1, <1>2, <1>3, <1>i DEF Links, Pointer
<1>5. Links'
  BY <1>1, <1>2, <1>4, <1>i DEF Links, instVars
<1>6. BackSound'
  <2>1. /\ Spare(new_buffer1)' /\ Spare(new_buffer2)'
    BY <1>1, <1>2, <1>t, <1>i DEF Spare, BackSound, Pointer
  <2>2. new_buffer1' # NULL => new_buffer1' # new_buffer2'
    BY <1>1, <1>i DEF BackSound
  <2>3. whead' # NULL => owner'[whead'] = "back" /\ whead' \notin {new_buffer1', new_buffer2'}
    BY <1>4
  <2> QED BY <2>1, <2>2, <2>3 DEF BackSound
<1> QED BY <1>2, <1>3, <1>5, <1>6

LEMMA KeepFirstStep == IndInv /\ KeepFirst => IndInv'
<1> SUFFICES ASSUME IndInv, KeepFirst PROVE IndInv'
  OBVIOUS
<1>i. TypeOK /\ PhaseSound
  BY DEF IndInv
<1>1. /\ pc = "first" /\ pc' = "second" /\ whead # NULL
      /\ new_buffer1 = NULL /\ new_buffer1' = whead /\ whead' = next[whead]
      /\ Erase(whead) /\ wsize' = wsize - 1
      /\ UNCHANGED <<owner, accepted, new_buffer2, node, fileVars, lost>>
      /\ UNCHANGED <<instVars, running, today, front>>
  BY <1>i DEF KeepFirst, WorkerOnly, PhaseSound
<1>2. Heap' /\ Links' /\ FrontSound' /\ BackSound' /\ whead' \in Pointer
  BY <1>1, KeepLinks
<1>3. wsize' \in Nat /\ (new_buffer2' = NULL => whead' # NULL /\ wsize' > 0)
  BY <1>1, <1>i DEF PhaseSound, TypeOK
<1>4. TypeOK'
  BY <1>1, <1>2, <1>3, <1>i DEF TypeOK, Heap, instVars, fileVars
<1>5. PhaseSound'
  BY <1>1, <1>3 DEF PhaseSound
<1> QED BY <1>2, <1>4, <1>5 DEF IndInv

LEMMA KeepSecondStep == IndInv /\ KeepSecond => IndInv'
<1> SUFFICES ASSUME IndInv, KeepSecond PROVE IndInv'
  OBVIOUS
<1>i. TypeOK /\ Links /\ FrontSound /\ BackSound /\ PhaseSound
  BY DEF IndInv
<1>1. /\ pc = "second" /\ pc' = "free" /\ new_buffer1 # NULL
      /\ UNCHANGED <<owner, accepted, new_buffer1, node, fileVars, lost>>
      /\ UNCHANGED <<instVars, running, today, front>>
  BY <1>i DEF KeepSecond, WorkerOnly, PhaseSound
<1>2. CASE new_buffer2 # NULL
  <2>1. UNCHANGED <<data, next, new_buffer2, whead, wsize>>
    BY <1>2 DEF KeepSecond
  <2>2. TypeOK'
    BY <1>1, <1>i, <2>1 DEF TypeOK, instVars, fileVars
  <2>3. Links' /\ FrontSound' /\ BackSound'
    BY <1>1, <1>i, <2>1 DEF Links, FrontSound, BackSound, Spare, instVars
  <2>4. PhaseSound'
    BY <1>1, <1>2, <2>1 DEF PhaseSound
  <2> QED BY <2>2, <2>3, <2>4 DEF IndInv
<1>3. CASE new_buffer2 = NULL
  <2>1. /\ whead # NULL /\ wsize > 0 /\ new_buffer2' = whead
        /\ whead' = next[whead] /\ Erase(whead) /\ wsize' = wsize - 1
    BY <1>1, <1>3, <1>i DEF KeepSecond, PhaseSound
  <2>2. Heap' /\ Links' /\ FrontSound' /\ BackSound' /\ whead' \in Pointer
    BY <1>1, <1>3, <2>1, KeepLinks
  <2>3. TypeOK'
    BY <1>1, <1>i, <2>1, <2>2 DEF TypeOK, Heap, instVars, fileVars
  <2>4. PhaseSound'
    BY <1>1, <2>1 DEF PhaseSound
  <2> QED BY <2>2, <2>3, <2>4 DEF IndInv
<1> QED BY <1>2, <1>3

LEMMA FreeRestStep == IndInv /\ FreeRest => IndInv'
<1> SUFFICES ASSUME IndInv, FreeRest PROVE IndInv'
  OBVIOUS
<1> USE LogAssumption DEF LogAssumption
<1>i. TypeOK /\ Links /\ FrontSound /\ BackSound /\ PhaseSound
  BY DEF IndInv
<1>1. /\ pc = "free" /\ new_buffer1 # NULL /\ new_buffer2 # NULL
      /\ UNCHANGED <<accepted, new_buffer1, new_buffer2, node, fileVars, lost>>
      /\ UNCHANGED <<instVars, running, today, front>>
  BY <1>i DEF FreeRest, WorkerOnly, PhaseSound
<1>2. CASE whead = NULL
  <2>1. pc' = "loop" /\ wsize' = 0 /\ UNCHANGED <<heapVars, whead>>
    BY <1>2 DEF FreeRest
  <2>2. TypeOK'
    BY <1>1, <1>i, <2>1 DEF TypeOK, heapVars, instVars, fileVars
  <2>3. Links' /\ FrontSound' /\ BackSound'
    BY <1>1, <1>i, <2>1 DEF Links, FrontSound, BackSound, Spare, heapVars, instVars
  <2>4. PhaseSound'
    BY <1>1, <1>2, <2>1 DEF PhaseSound
  <2> QED BY <2>2, <2>3, <2>4 DEF IndInv
<1>3. CASE whead # NULL
  <2>1. /\ whead' = next[whead] /\ Erase(whead) /\ UNCHANGED <<pc, wsize>>
        /\ owner' = [owner EXCEPT ![whead] = "free"]
    BY <1>3 DEF FreeRest
  <2>2. /\ whead \in Buffers /\ owner[whead] = "back"
        /\ whead \notin {new_buffer1, new_buffer2}
        /\ new_buffer1 \in Buffers /\ new_buffer2 \in Buffers
        /\ \A a \in Buffers : next[a] # whead
    BY <1>1, <1>3, <1>i DEF BackSound, Links, TypeOK, Pointer
  <2>3. /\ Heap' /\ FrontSound'
        /\ \A a \in Buffers :
             /\ next'[a] = IF a = whead THEN NULL ELSE next[a]
             /\ data'[a] = IF a = whead THEN <<>> ELSE data[a]
             /\ a # whead => owner'[a] = owner[a]
    BY <1>1, <2>1, <2>2, EraseFrame
  <2>4. whead' \in Pointer
    BY <2>1, <2>2, <1>i DEF TypeOK
  <2>5. whead' # NULL => /\ whead' \in Buffers /\ owner'[whead'] = "back"
                         /\ whead' \notin {whead, new_buffer1, new_buffer2}
                         /\ \A a \in Buffers : next'[a] # whead'
    BY <2>1, <2>2, <2>3, <2>4, <1>i DEF Links, Pointer
  <2>6. TypeOK'
    BY <1>1, <1>i, <2>1, <2>3, <2>4 DEF TypeOK, Heap, instVars, fileVars
  <2>7. Links'
    <3>1. \A a \in Buffers : next'[a] # NULL =>
            /\ a # whead /\ next'[a] = next[a] /\ owner'[a] = owner[a]
            /\ owner'[next[a]] = owner[next[a]]
      <4> SUFFICES ASSUME NEW a \in Buffers, next'[a] # NULL
                   PROVE  /\ a # whead /\ next'[a] = next[a] /\ owner'[a] = owner[a]
                          /\ owner'[next[a]] = owner[next[a]]
        OBVIOUS
      <4>1. a # whead /\ next'[a] = next[a] /\ next[a] # whead /\ owner'[a] = owner[a]
        BY <2>2, <2>3
      <4>2. next[a] \in Buffers
        BY <4>1, <1>i DEF TypeOK, Pointer
      <4> QED BY <4>1, <4>2, <2>3
    <3> QED BY <1>1, <1>i, <2>3, <2>5, <3>1 DEF Links, instVars
  <2>8. BackSound'
    BY <1>1, <1>i, <2>2, <2>3, <2>5 DEF BackSound, Spare
  <2>9. PhaseSound'
    BY <1>1, <2>1 DEF PhaseSound
  <2> QED BY <2>3, <2>6, <2>7, <2>8, <2>9 DEF IndInv
<1> QED BY <1>2, <1>3

-----------------------------------------------------------------------------
LEMMA Step == IndInv /\ [Next]_vars => IndInv'
BY LogStep, NoticeStep, FrameStep, WriteStep, SwapStep, DropStep, DroppingStep,
   KeepFirstStep, KeepSecondStep, FreeRestStep DEF Next, Worker

(* Every reachable state is sound.                                         *)
THEOREM LoggerInvariant == Spec => []IndInv
<1> QED BY InitInv, Step, PTL DEF Spec

(* The variables have their types: no counter of buffers goes below zero.  *)
THEOREM TypeCorrect == Spec => []TypeOK
<1>1. IndInv => TypeOK
  BY DEF IndInv
<1> QED BY LoggerInvariant, <1>1, PTL

(* The assertions of lua-log.c hold, and its unchecked pointers are not    *)
(* nil, with any number of buffers in use and any number dropped.          *)
THEOREM AssertionsHold == Spec => []AssertsHold
<1>1. IndInv => AssertsHold
  <2> SUFFICES ASSUME IndInv PROVE AssertsHold
    OBVIOUS
  <2>1. /\ (head = NULL) <=> (tail = NULL)
        /\ next[curr_buffer] = NULL
    BY DEF IndInv, FrontSound
  <2>2. pc \in {"loop", "wait"} =>
          /\ whead = NULL
          /\ new_buffer1 # NULL /\ data[new_buffer1] = <<>>
          /\ new_buffer2 # NULL /\ data[new_buffer2] = <<>>
    BY DEF IndInv, BackSound, Spare, PhaseSound
  <2> QED BY <2>1, <2>2 DEF IndInv, PhaseSound, AssertsHold, second_buffer
<1> QED BY LoggerInvariant, <1>1, PTL
=============================================================================

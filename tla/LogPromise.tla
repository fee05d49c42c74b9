----------------------------- MODULE LogPromise -----------------------------
(***************************************************************************)
(* What the asynchronous logger promises to the services that log: lines   *)
(* reach the disk in the order they were accepted, none twice, and lines   *)
(* are given up only in a round that began with many waiting, never one of *)
(* the oldest.                                                             *)
(***************************************************************************)
EXTENDS Integers, Sequences

CONSTANTS
  Overload,   \* lines that must wait before some may be given up
  Kept        \* oldest lines that are not given up

VARIABLES
  accepted,   \* number of lines accepted; a line is known by its number
  pending,    \* accepted lines on their way to the disk
  disk,       \* lines on the disk, all log files together
  shedding,   \* too many lines were waiting, some are being given up
  lost        \* lines given up

Init ==
  accepted = 0 /\ pending = <<>> /\ disk = <<>> /\ shedding = FALSE /\ lost = {}

Accept ==
  /\ accepted' = accepted + 1
  /\ pending' = Append(pending, accepted + 1)
  /\ UNCHANGED <<disk, shedding, lost>>

Write ==
  /\ ~shedding
  /\ \E n \in 1 .. Len(pending) :
       /\ disk' = disk \o SubSeq(pending, 1, n)
       /\ pending' = SubSeq(pending, n + 1, Len(pending))
  /\ UNCHANGED <<accepted, shedding, lost>>

Overloaded ==
  /\ Len(pending) >= Overload
  /\ shedding' = TRUE
  /\ UNCHANGED <<accepted, pending, disk, lost>>

GiveUp ==
  /\ shedding
  /\ \E i \in Kept + 1 .. Len(pending), j \in 1 .. Len(pending) :
       /\ i <= j
       /\ pending' = SubSeq(pending, 1, i - 1)
                       \o SubSeq(pending, j + 1, Len(pending))
       /\ lost' = lost \cup {pending[k] : k \in i .. j}
  /\ UNCHANGED <<accepted, disk, shedding>>

Relieved ==
  /\ shedding' = FALSE
  /\ UNCHANGED <<accepted, pending, disk, lost>>

Next == Accept \/ Write \/ Overloaded \/ GiveUp \/ Relieved

Spec == Init /\ [][Next]_<<accepted, pending, disk, shedding, lost>>
=============================================================================

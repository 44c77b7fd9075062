------------------------------ MODULE SimQueue ------------------------------
(***************************************************************************)
(* One SimQueue<T> (include/linx/model/sim_queue.hpp) under every sequence  *)
(* of calls its users may make.  The queue is the record q of QueueOps.     *)
(*                                                                          *)
(* The other variables are history, read by properties only: which packets  *)
(* were written since the last Reset, the latency each captured, how many   *)
(* running Work() calls each has waited on the write side, the wait the     *)
(* entries ahead of it imposed, and one observer of the visible epoch, such *)
(* as a Module that binds this queue as an input.                           *)
(***************************************************************************)
EXTENDS QueueOps

CONSTANTS Packets,     \* payloads; each is moved into the queue once per Reset
          Sizes,       \* capacities passed to the constructor or InitMaxSize
          Latencies    \* latencies passed to the constructor or SetLatency

ASSUME SizesAssumption     == Sizes \subseteq Nat \ {0}
ASSUME LatenciesAssumption == Latencies \subseteq Nat

VARIABLES
  q,        \* the queue
  sent,     \* history: the packets written since the last Reset
  lat,      \* history: lat[p] is the latency in force when p was written
  age,      \* history: running Work() calls p has waited through
  bound,    \* history: the longest wait ahead of p when it was written
  seen      \* history: epoch and read side when an observer last captured them

vars == <<q, sent, lat, age, bound, seen>>

Visible(r) == [epoch |-> r.visibleEpoch, readQ |-> r.readQ]

Init ==
  /\ q \in { NewQueue(n, l) : n \in Sizes, l \in Latencies }
  /\ sent = {}
  /\ lat   = [p \in Packets |-> 0]
  /\ age   = [p \in Packets |-> 0]
  /\ bound = [p \in Packets |-> 0]
  /\ seen  = Visible(q)

-----------------------------------------------------------------------------
(***************************************************************************)
(* The operations.                                                          *)
(***************************************************************************)
Waiting == { q.writeQ[i] : i \in 1..Len(q.writeQ) }

(***************************************************************************)
(* The waits a packet written now is subject to: one Work() at least, its   *)
(* own latency, and what is left of every entry ahead of it.                *)
(***************************************************************************)
Waits == {1, q.latency} \cup { q.delayQ[i] : i \in 1..Len(q.delayQ) }

\* Mutant: no Work() until the read side is drained.
WorkWhenDrained ==
  /\ Empty(q)
  /\ q' = QueueWork(q)
  /\ age' = [p \in Packets |->
               IF ~q.stalled /\ p \in Waiting THEN age[p] + 1 ELSE age[p]]
  /\ UNCHANGED <<sent, lat, bound, seen>>

Work ==
  /\ q' = QueueWork(q)
  /\ age' = [p \in Packets |->
               IF ~q.stalled /\ p \in Waiting THEN age[p] + 1 ELSE age[p]]
  /\ UNCHANGED <<sent, lat, bound, seen>>

Write(p) ==
  /\ ~Full(q)
  /\ p \notin sent
  /\ q' = QueueWrite(q, p)
  /\ sent' = sent \cup {p}
  /\ lat'  = [lat EXCEPT ![p] = q.latency]
  /\ age'  = [age EXCEPT ![p] = 0]
  /\ \E b \in Waits : /\ \A w \in Waits : w <= b
                      /\ bound' = [bound EXCEPT ![p] = b]
  /\ UNCHANGED seen

Read ==
  /\ ~Empty(q)
  /\ q' = QueueRead(q)
  /\ UNCHANGED <<sent, lat, age, bound, seen>>

FlushIf(Match) ==
  /\ \E ww \in SurvivorMaps(q.writeQ, Match), rw \in SurvivorMaps(q.readQ, Match) :
       q' = QueueFlush(q, Match, ww, rw)
  /\ UNCHANGED <<sent, lat, age, bound, seen>>

SetLatency(l) ==
  /\ q' = [q EXCEPT !.latency = l]
  /\ UNCHANGED <<sent, lat, age, bound, seen>>

SetStall(b) ==
  /\ q' = [q EXCEPT !.stalled = b]
  /\ UNCHANGED <<sent, lat, age, bound, seen>>

InitMaxSize(n) ==
  /\ Occupancy(q) <= n
  /\ q' = [q EXCEPT !.maxQSize = n]
  /\ UNCHANGED <<sent, lat, age, bound, seen>>

(***************************************************************************)
(* Reset() restarts the epoch, so every observer must capture it again:     *)
(* Module::Reset does, through ResetEventState.                             *)
(***************************************************************************)
Reset ==
  /\ q' = QueueReset(q)
  /\ sent' = {}
  /\ lat'   = [p \in Packets |-> 0]
  /\ age'   = [p \in Packets |-> 0]
  /\ bound' = [p \in Packets |-> 0]
  /\ seen'  = Visible(q')

Observe ==
  /\ seen' = Visible(q)
  /\ UNCHANGED <<q, sent, lat, age, bound>>

Next ==
  \/ Work \/ Read \/ Reset \/ Observe
  \/ \E p \in Packets : Write(p)
  \/ \E Match \in SUBSET Packets : FlushIf(Match)
  \/ \E l \in Latencies : SetLatency(l)
  \/ \E b \in BOOLEAN : SetStall(b)
  \/ \E n \in Sizes : InitMaxSize(n)

Spec == Init /\ [][Next]_vars

(***************************************************************************)
(* The owner of a queue calls its Work() in every cycle.                    *)
(***************************************************************************)
FairSpec == Spec /\ WF_vars(Work)

-----------------------------------------------------------------------------
(***************************************************************************)
(* Properties.                                                              *)
(***************************************************************************)

(* Types of every variable; delayQ is as long as writeQ, which Work, Write   *)
(* and FlushIf assert in the code (lines 87, 135 and 262).                   *)
TypeOK ==
  /\ q \in QueueType(Packets)
  /\ Len(q.delayQ) = Len(q.writeQ)
  /\ sent \subseteq Packets
  /\ lat \in [Packets -> Nat]
  /\ age \in [Packets -> Nat]
  /\ bound \in [Packets -> Nat]
  /\ seen \in [epoch : Nat, readQ : Seq(Packets)]

(* The two sides together never hold more than the capacity, whatever is     *)
(* promoted, flushed or resized in between: Full() guards Write, and         *)
(* InitMaxSize refuses a capacity below the occupancy.                       *)
CapacityRespected == Occupancy(q) <= q.maxQSize

(* A packet on the read side waited through at least the latency captured at *)
(* its Write, at least one Work() even with latency 0, and no longer than    *)
(* the slowest entry ahead of it: lowering the latency, cancelling an older  *)
(* entry or stalling the queue never makes it early, and never later than    *)
(* the head-of-line wait.  This is sim_queue.hpp 44-49 as the code keeps it. *)
LatencyWindow ==
  \A i \in 1..Len(q.readQ) :
    LET p == q.readQ[i]
    IN  1 <= age[p] /\ lat[p] <= age[p] /\ age[p] <= bound[p]

(* An observer that finds the epoch it captured finds the read side it saw:  *)
(* no promotion, Read, Pop or FlushIf goes unnoticed by Module's event test, *)
(* which compares epochs and nothing else.                                   *)
NoMissedChange == seen.epoch = q.visibleEpoch => seen.readQ = q.readQ

(* SimQueue implements the bounded FIFO: acceptance order is delivery order, *)
(* no packet is lost, duplicated or overtaken across the two deques.         *)
Fifo == INSTANCE BoundedFifo WITH
          items    <- q.readQ \o q.writeQ,
          visible  <- Len(q.readQ),
          capacity <- q.maxQSize
ImplementsFifo == Fifo!Spec

(* A written packet leaves the write side in the end unless somebody stalls  *)
(* the queue: entries ahead of it cannot hold it back for ever.              *)
EventuallyVisible ==
  \A p \in Packets : (p \in Waiting) ~> (p \notin Waiting \/ q.stalled)

-----------------------------------------------------------------------------
(***************************************************************************)
(* The inductive invariant behind the safety properties.                    *)
(***************************************************************************)

(* A packet is in one place at most, and only if it was written: Work moves  *)
(* entries between the deques and copies none.                               *)
OnePlace ==
  /\ \A i \in 1..Len(q.writeQ) : q.writeQ[i] \in sent
  /\ \A i \in 1..Len(q.readQ)  : q.readQ[i] \in sent
  /\ \A i, j \in 1..Len(q.writeQ) : q.writeQ[i] = q.writeQ[j] => i = j
  /\ \A i \in 1..Len(q.writeQ), j \in 1..Len(q.readQ) : q.writeQ[i] # q.readQ[j]

(* What a waiting packet has waited, plus what remains of it and of every    *)
(* entry ahead of it, fits its bound; its own latency is not yet overdue.    *)
WaitFits ==
  \A i \in 1..Len(q.writeQ) :
    LET p == q.writeQ[i]
    IN  /\ age[p] + 1 <= bound[p]
        /\ lat[p] <= age[p] + q.delayQ[i]
        /\ \A j \in 1..i : age[p] + q.delayQ[j] <= bound[p]

(* An observer's epoch is never ahead of the queue's.                        *)
SeenIsPast == seen.epoch <= q.visibleEpoch

IInv ==
  /\ TypeOK
  /\ CapacityRespected
  /\ OnePlace
  /\ WaitFits
  /\ LatencyWindow
  /\ SeenIsPast
  /\ NoMissedChange

-----------------------------------------------------------------------------
(* The claim of sim_queue.hpp line 47: a write becomes readable after        *)
(* exactly `latency' Work() calls, one if the latency is 0.                  *)
LatencyExact ==
  \A i \in 1..Len(q.readQ) :
    LET p == q.readQ[i]
    IN  age[p] = IF lat[p] = 0 THEN 1 ELSE lat[p]
=============================================================================

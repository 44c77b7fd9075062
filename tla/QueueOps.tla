------------------------------ MODULE QueueOps ------------------------------
(***************************************************************************)
(* The operations of SimQueue<T> as operators on a queue record, one        *)
(* operator per member function of include/linx/model/sim_queue.hpp.  The   *)
(* state machine of one queue (SimQueue) and the scheduler that composes    *)
(* several of them (SimSystem) are both built from these operators.         *)
(*                                                                          *)
(* Payloads are opaque values.  delayQ runs in parallel with writeQ, as in  *)
(* the code: delayQ[i] is the number of Work() calls writeQ[i] still waits. *)
(***************************************************************************)
EXTENDS Naturals, Sequences

(***************************************************************************)
(* A queue as its constructor leaves it.                                    *)
(***************************************************************************)
NewQueue(maxSize, latency) ==
  [ maxQSize |-> maxSize,
    writeQ   |-> << >>,
    delayQ   |-> << >>,
    readQ    |-> << >>,
    latency  |-> latency,
    stalled  |-> FALSE,
    visibleEpoch |-> 0 ]

QueueType(Payload) ==
  [ maxQSize : Nat \ {0},
    writeQ   : Seq(Payload),
    delayQ   : Seq(Nat),
    readQ    : Seq(Payload),
    latency  : Nat,
    stalled  : BOOLEAN,
    visibleEpoch : Nat ]

Occupancy(q) == Len(q.readQ) + Len(q.writeQ)
Empty(q)     == q.readQ = << >>

\* Mutant: a comparison off by one.
FullLate(q)  == Occupancy(q) > q.maxQSize

Full(q)      == Occupancy(q) >= q.maxQSize

(***************************************************************************)
(* Work(): every pending delay ages by one, then the oldest entries whose   *)
(* delay is zero move to the read side, and stop at the first that is not.  *)
(***************************************************************************)
Aged(delays) == [i \in 1..Len(delays) |-> IF delays[i] > 0 THEN delays[i] - 1 ELSE 0]

ReadyCount(delays) ==
  CHOOSE n \in 0..Len(delays) :
    /\ \A i \in 1..n : delays[i] = 0
    /\ n < Len(delays) => delays[n + 1] # 0

\* Mutant: promoted entries go to the front of the read side.
PromoteToFront(q, delays, n) ==
  [ q EXCEPT !.readQ  = SubSeq(q.writeQ, 1, n) \o @,
             !.writeQ = SubSeq(q.writeQ, n + 1, Len(q.writeQ)),
             !.delayQ = SubSeq(delays, n + 1, Len(delays)),
             !.visibleEpoch = IF n > 0 THEN @ + 1 ELSE @ ]

Promote(q, delays, n) ==
  [ q EXCEPT !.readQ  = @ \o SubSeq(q.writeQ, 1, n),
             !.writeQ = SubSeq(q.writeQ, n + 1, Len(q.writeQ)),
             !.delayQ = SubSeq(delays, n + 1, Len(delays)),
             !.visibleEpoch = IF n > 0 THEN @ + 1 ELSE @ ]

\* Mutant: the stall holds the promotion but not the delays.
WorkAgesStalled(q) ==
  IF q.stalled THEN [ q EXCEPT !.delayQ = Aged(@) ]
               ELSE Promote(q, Aged(q.delayQ), ReadyCount(Aged(q.delayQ)))

QueueWork(q) ==
  IF q.stalled THEN q
               ELSE Promote(q, Aged(q.delayQ), ReadyCount(Aged(q.delayQ)))

(***************************************************************************)
(* Write(x): the latency in force now is attached to the entry.             *)
(***************************************************************************)
\* Mutant: latency 0 bypasses the write side.
WriteThrough(q, x) ==
  IF q.latency = 0
    THEN [ q EXCEPT !.readQ = Append(@, x), !.visibleEpoch = @ + 1 ]
    ELSE [ q EXCEPT !.writeQ = Append(@, x), !.delayQ = Append(@, q.latency) ]

QueueWrite(q, x) ==
  [ q EXCEPT !.writeQ = Append(@, x),
             !.delayQ = Append(@, q.latency) ]

(***************************************************************************)
(* Read() and Pop(): the oldest visible entry leaves, observers are told.   *)
(***************************************************************************)
QueueRead(q) ==
  [ q EXCEPT !.readQ = Tail(@), !.visibleEpoch = @ + 1 ]

(***************************************************************************)
(* Reset(): contents, stall and epoch go; capacity and latency stay.        *)
(***************************************************************************)
QueueReset(q) ==
  [ q EXCEPT !.writeQ = << >>, !.delayQ = << >>, !.readQ = << >>,
             !.stalled = FALSE, !.visibleEpoch = 0 ]

(***************************************************************************)
(* FlushIf(match).  A surviving-position map of s is the strictly           *)
(* increasing enumeration of the positions of s whose entry does not match; *)
(* there is exactly one.  Pick(s, w) is s read through such a map.          *)
(***************************************************************************)
SurvivorMaps(s, Match) ==
  { w \in UNION { [1..n -> DOMAIN s] : n \in 0..Len(s) } :
      /\ \A i, j \in DOMAIN w : i < j => w[i] < w[j]
      /\ { w[i] : i \in DOMAIN w } = { k \in DOMAIN s : s[k] \notin Match } }

Pick(s, w) == [i \in 1..Len(w) |-> s[w[i]]]

\* Mutant: the delays of cancelled entries stay behind.
FlushKeepsDelays(q, Match, ww, rw) ==
  [ q EXCEPT !.writeQ = Pick(@, ww),
             !.readQ  = Pick(@, rw),
             !.visibleEpoch =
               IF \E k \in DOMAIN q.readQ : q.readQ[k] \in Match THEN @ + 1 ELSE @ ]

\* Mutant: cancelling visible entries is not announced.
FlushSilently(q, Match, ww, rw) ==
  [ q EXCEPT !.writeQ = Pick(@, ww),
             !.delayQ = Pick(@, ww),
             !.readQ  = Pick(@, rw) ]

QueueFlush(q, Match, ww, rw) ==
  [ q EXCEPT !.writeQ = Pick(@, ww),
             !.delayQ = Pick(@, ww),
             !.readQ  = Pick(@, rw),
             !.visibleEpoch =
               IF \E k \in DOMAIN q.readQ : q.readQ[k] \in Match THEN @ + 1 ELSE @ ]
=============================================================================

---------------------------- MODULE BoundedFifo ----------------------------
(***************************************************************************)
(* What SimQueue promises its users, without saying how: one sequence of    *)
(* items in the order they were accepted, of which a prefix is visible to   *)
(* the reader.  Items enter at the back and become visible from the front;  *)
(* they leave from the front, by cancellation, or all at once; the capacity *)
(* counts visible and invisible items alike.                                *)
(***************************************************************************)
EXTENDS Naturals, Sequences

CONSTANTS Packets,    \* the payloads
          Sizes       \* the capacities a queue can be given

VARIABLES items,      \* accepted and not yet delivered, oldest first
          visible,    \* how many of them the reader can see
          capacity

vars == <<items, visible, capacity>>

Init == items = << >> /\ visible = 0 /\ capacity \in Sizes

Put(p) ==
  /\ Len(items) < capacity
  /\ items' = Append(items, p)
  /\ UNCHANGED <<visible, capacity>>

Reveal ==
  /\ visible' \in (visible + 1)..Len(items)
  /\ UNCHANGED <<items, capacity>>

Take ==
  /\ visible > 0
  /\ items' = Tail(items)
  /\ visible' = visible - 1
  /\ UNCHANGED capacity

(***************************************************************************)
(* The survivors keep their order, and stay visible if they were.           *)
(***************************************************************************)
Cancel(Match) ==
  /\ \E n \in 0..Len(items) : \E w \in [1..n -> 1..Len(items)] :
       /\ \A i, j \in 1..n : i < j => w[i] < w[j]
       /\ \A k \in 1..Len(items) : items[k] \notin Match <=> \E i \in 1..n : w[i] = k
       /\ items' = [i \in 1..n |-> items[w[i]]]
       /\ visible' \in 0..n
       /\ \A i \in 1..n : i <= visible' <=> w[i] <= visible
  /\ UNCHANGED capacity

Clear == items' = << >> /\ visible' = 0 /\ UNCHANGED capacity

Resize ==
  /\ capacity' \in Sizes
  /\ Len(items) <= capacity'
  /\ UNCHANGED <<items, visible>>

Next ==
  \/ \E p \in Packets : Put(p)
  \/ \E Match \in SUBSET Packets : Cancel(Match)
  \/ Reveal \/ Take \/ Clear \/ Resize

Spec == Init /\ [][Next]_vars
=============================================================================

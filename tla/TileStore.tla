----------------------------- MODULE TileStore -----------------------------
(***************************************************************************)
(* What docs/isa.md 63-72 promises of the Shared tile registers, without     *)
(* masks, codes or preflight: each register is a set of lanes that the first *)
(* write allocates.  A write replaces all the lanes it selects at once, and  *)
(* changes neither the allocation nor the capacity nor the descriptor of a  *)
(* lane that already holds something.                                       *)
(***************************************************************************)
CONSTANTS Ids, Lanes, Descriptors, Payloads

VARIABLES alloc,   \* the lanes allocated to each register
          size,    \* bytes per lane of each allocated register
          held     \* what each register holds: a function on its written lanes

vars == <<alloc, size, held>>

Nothing == [l \in {} |-> {}]

Init ==
  /\ alloc = [id \in Ids |-> {}]
  /\ size  = [id \in Ids |-> 0]
  /\ held  = [id \in Ids |-> Nothing]

Content == [descriptor : Descriptors, data : Payloads]

Store(id) ==
  /\ \E M \in (SUBSET Lanes) \ {{}} : \E new \in [M -> Content] :
       /\ alloc[id] # {} => M \subseteq alloc[id] /\ UNCHANGED <<alloc, size>>
       /\ alloc[id] = {} => /\ alloc' = [alloc EXCEPT ![id] = M]
                            /\ size' \in { [size EXCEPT ![id] = p.size] : p \in Payloads }
       /\ \A l \in M :
            /\ new[l].data.size = size'[id]
            /\ l \in DOMAIN held[id] => new[l].descriptor = held[id][l].descriptor
       /\ held' = [held EXCEPT ![id] =
                     [l \in M \cup DOMAIN @ |-> IF l \in M THEN new[l] ELSE @[l]]]

Clear ==
  /\ alloc' = [id \in Ids |-> {}]
  /\ size'  = [id \in Ids |-> 0]
  /\ held'  = [id \in Ids |-> Nothing]

Next == Clear \/ \E id \in Ids : Store(id)

Spec == Init /\ [][Next]_vars
=============================================================================

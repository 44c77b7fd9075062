---------------------------- MODULE MCSimSystem ----------------------------
(***************************************************************************)
(* SimSystem for TLC: a tree of chain stages two levels deep.                *)
(*                                                                          *)
(*   root owns in, mid, out; its submodules are group and c                 *)
(*   group owns link;        its submodules are a and b                     *)
(*   in -> a -> link -> b -> mid -> c -> out                                 *)
(*                                                                          *)
(* A second registered module, lone, has no queues (the CountingModule of   *)
(* tests/system/sim_system_test.cpp).  As in the tests, parents observe the *)
(* queue they feed their first submodule from.                              *)
(***************************************************************************)
EXTENDS SimSystem, TLC

CONSTANTS root, group, a, b, c, lone, in, link, mid, out, p1, p2, p3

MCModules == {root, group, a, b, c, lone}
MCQueues  == {in, link, mid, out}
MCPackets == {p1, p2, p3}
MCRoots   == <<root, lone>>

MCChildren == [m \in MCModules |->
                 CASE m = root  -> <<group, c>>
                   [] m = group -> <<a, b>>
                   [] OTHER     -> << >>]
MCOwned    == [m \in MCModules |->
                 CASE m = root  -> <<in, mid, out>>
                   [] m = group -> <<link>>
                   [] OTHER     -> << >>]
MCInputs   == [m \in MCModules |->
                 CASE m \in {root, group, a} -> {in}
                   [] m = b -> {link}
                   [] m = c -> {mid}
                   [] OTHER -> {}]
MCInners   == [m \in MCModules |-> {}]
MCOutputs  == [m \in MCModules |->
                 CASE m = a -> {link}
                   [] m \in {b, group} -> {mid}
                   [] m \in {c, root}  -> {out}
                   [] OTHER -> {}]
MCBehaviour == [m \in MCModules |-> IF m \in {a, b, c} THEN "chain" ELSE "none"]
MCPath      == <<out, mid, link, in>>

MCNobody    == {}
MCRequested == {group, b}

Symmetry    == Permutations(MCPackets)

MCNarrow    == [x \in MCQueues |-> IF x = in THEN 2 ELSE 1]
MCLatency   == [x \in MCQueues |-> IF x \in {in, mid} THEN 0 ELSE IF x = link THEN 2 ELSE 1]
=============================================================================

------------------------------ MODULE MCWiring ------------------------------
(***************************************************************************)
(* Three modules, an object that is no module and two queues.               *)
(***************************************************************************)
EXTENDS Wiring, TLC

Symmetry == Permutations(Modules) \cup Permutations(Queues)
=============================================================================

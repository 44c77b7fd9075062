----------------------------- MODULE MCPipeline -----------------------------
(***************************************************************************)
(* SimSystem for TLC: the two WorkSelf of the system tests in one tree.      *)
(*                                                                          *)
(*   root owns in, mid, pipe, out; its submodules are group and stage        *)
(*   group has the submodule a, a ChainModule: in -> mid                     *)
(*   stage is the PipelineModule of tests/system/sim_system_test.cpp:        *)
(*   mid -> pipe -> out, one packet a WorkSelf                                *)
(*                                                                          *)
(* mid has room for every packet, so a never leaves input behind; stage      *)
(* does, and requests its activation for it.                                *)
(***************************************************************************)
EXTENDS SimSystem

CONSTANTS root, group, a, stage, in, mid, pipe, out, p1, p2

MCModules == {root, group, a, stage}
MCQueues  == {in, mid, pipe, out}
MCPackets == {p1, p2}
MCRoots   == <<root>>

MCChildren  == [m \in MCModules |-> CASE m = root  -> <<group, stage>>
                                      [] m = group -> <<a>>
                                      [] OTHER     -> << >>]
MCOwned     == [m \in MCModules |-> IF m = root THEN <<in, mid, pipe, out>> ELSE << >>]
MCInputs    == [m \in MCModules |-> IF m = stage THEN {mid} ELSE {in}]
MCInners    == [m \in MCModules |-> IF m = stage THEN {pipe} ELSE {}]
MCOutputs   == [m \in MCModules |-> CASE m \in {root, stage} -> {out}
                                      [] OTHER -> {mid}]
MCBehaviour == [m \in MCModules |-> CASE m = a     -> "chain"
                                      [] m = stage -> "stage"
                                      [] OTHER     -> "none"]
MCPath      == <<out, pipe, mid, in>>
MCStages    == {stage}
MCCapacity  == [x \in MCQueues |-> IF x \in {in, mid} THEN 2 ELSE 1]
MCLatency   == [x \in MCQueues |-> IF x = pipe THEN 1 ELSE IF x = mid THEN 2 ELSE 0]
=============================================================================

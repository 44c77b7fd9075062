----------------------------- MODULE SimMainRun -----------------------------
(***************************************************************************)
(* The ca engine of the CLI: RunSimMain (include/linx/model/sim_main.hpp)    *)
(* over an ExecutorBackedSim, whose step() moves no modules and whose        *)
(* NeedTerminate() asks the execution context only.                         *)
(***************************************************************************)
EXTENDS EngineInterface

VARIABLES
  args, ctx,
  cycle,     \* cycle_ of the SimSystem
  phase,     \* "start", "run", "tests" after a step, "left" after the loop, "done"
  exit, dumped

vars == <<args, ctx, cycle, phase, exit, dumped>>

(***************************************************************************)
(* A program is loaded, perhaps printed, and loaded again by Reset().         *)
(***************************************************************************)
Loaded == IF HasProgram(args) THEN LoadProgram(ctx, ImageOf(args)) ELSE ctx

Start ==
  /\ phase = "start" /\ Startable(args)
  /\ IF args.disassembly_only THEN phase' = "left" /\ ctx' = Loaded
                              ELSE phase' = "run"  /\ ctx' = ResetContext(Loaded)
  /\ UNCHANGED <<args, cycle, exit, dumped>>

Abort ==
  /\ phase = "start" /\ ~Startable(args)
  /\ phase' = "done" /\ exit' = Aborted
  /\ UNCHANGED <<args, ctx, cycle, dumped>>

(***************************************************************************)
(* One turn of the loop: RunReference() and step(), then the two tests.  A   *)
(* context just reset is not terminated, so the loop is always entered.      *)
(***************************************************************************)
Turn ==
  /\ phase = "run"
  /\ ctx' = IF args.enable_reference THEN Step(ctx, args.stop_pc) ELSE ctx
  /\ cycle' = cycle + 1
  /\ phase' = "tests"
  /\ UNCHANGED <<args, exit, dumped>>

Tests ==
  /\ phase = "tests"
  /\ phase' = IF ctx.terminated \/ LimitReached(args, cycle) THEN "left" ELSE "run"
  /\ UNCHANGED <<args, ctx, cycle, exit, dumped>>

(***************************************************************************)
(* RunSimMain returns 0 whatever the program reported; main then exports.    *)
(***************************************************************************)
Finish ==
  /\ phase = "left"
  /\ \E export \in Exports(args, ctx) :
       phase' = "done" /\ exit' = export.exit /\ dumped' = export.dumped
  /\ UNCHANGED <<args, ctx, cycle>>

Next == Start \/ Abort \/ Turn \/ Tests \/ Finish
=============================================================================

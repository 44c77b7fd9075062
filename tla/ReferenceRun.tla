---------------------------- MODULE ReferenceRun ----------------------------
(***************************************************************************)
(* The ref engine of the CLI: RunReferenceEngine (src/linx_model_cli.cpp)    *)
(* around ReferenceExecutor::Run.  It is also what the other two engines     *)
(* promise, and they are shown to implement it.                             *)
(***************************************************************************)
EXTENDS EngineInterface

VARIABLES
  args,      \* the parsed command line
  ctx,       \* the execution context
  phase,     \* "idle" until called, "start", "run", "done"
  exit,      \* what main returns, None before
  dumped     \* the result memory written to --result-dump

vars == <<args, ctx, phase, exit, dumped>>

Init ==
  /\ ctx = NewContext
  /\ phase = "idle"
  /\ exit = None
  /\ dumped = << >>

Called ==
  /\ phase = "idle"
  /\ phase' = "start"
  /\ UNCHANGED <<ctx, exit, dumped>>

Leave(code) == phase' = "done" /\ exit' = code /\ UNCHANGED dumped

(***************************************************************************)
(* Before Run(): a program, and its disassembly, if asked for.                *)
(***************************************************************************)
Start ==
  /\ phase = "start" /\ Startable(args)
  /\ ctx' = IF HasProgram(args) THEN LoadProgram(ctx, ImageOf(args)) ELSE ctx
  /\ IF args.disassembly_only THEN Leave(0) ELSE phase' = "run" /\ UNCHANGED <<exit, dumped>>
  /\ UNCHANGED args

Abort ==
  /\ phase = "start" /\ ~Startable(args)
  /\ Leave(Aborted)
  /\ UNCHANGED <<args, ctx>>

(***************************************************************************)
(* The loop of Run(): the limit is tested before each Step().                *)
(***************************************************************************)
Attempt ==
  /\ phase = "run" /\ ~ctx.terminated
  /\ ~LimitReached(args, ctx.cycle)
  /\ ctx' = Step(ctx, args.stop_pc)
  /\ UNCHANGED <<args, phase, exit, dumped>>

\* Mutant: the loop goes round again, its limit reached, instead of ending.
HitLimitQuietly ==
  /\ phase = "run" /\ ~ctx.terminated
  /\ LimitReached(args, ctx.cycle)
  /\ ctx' = [ctx EXCEPT !.last_error = "max_cycles"]
  /\ UNCHANGED <<args, phase, exit, dumped>>

HitLimit ==
  /\ phase = "run" /\ ~ctx.terminated
  /\ LimitReached(args, ctx.cycle)
  /\ ctx' = RequestTerminate(ctx, ctx.exit_code, "max_cycles")
  /\ UNCHANGED <<args, phase, exit, dumped>>

(***************************************************************************)
(* The result is exported after a run whose exit code is zero.                *)
(***************************************************************************)
Finish ==
  /\ phase = "run" /\ ctx.terminated
  /\ IF ctx.exit_code # 0 THEN Leave(ctx.exit_code)
     ELSE \E export \in Exports(args, ctx) :
            phase' = "done" /\ exit' = export.exit /\ dumped' = export.dumped
  /\ UNCHANGED <<args, ctx>>

Next == Start \/ Abort \/ Attempt \/ HitLimit \/ Finish

Spec == Init /\ [][Called \/ Next]_vars

-----------------------------------------------------------------------------
(* main returns 0 exactly when the program passed, met its stop address or   *)
(* its cycle limit, or was only disassembled, and the result asked for was   *)
(* exported whole: a failure the program or the executor reported, a         *)
(* finisher code of 0 included, is never a success, and its memory is never  *)
(* exported.                                                                *)
Succeeded == ctx.terminated /\ ctx.last_error \in {"finisher_pass", "stop_pc", "max_cycles"}
ExitTellsOutcome ==
  phase = "done" =>
    /\ exit = 0 <=>
         IF args.disassembly_only THEN Loadable(args)
         ELSE Succeeded /\ (args.result_dump_path # "" => Len(dumped) = args.result_size)
    /\ dumped # << >> => exit = 0
=============================================================================

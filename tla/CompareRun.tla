----------------------------- MODULE CompareRun -----------------------------
(***************************************************************************)
(* The compare engine of the CLI: RunCompareEngine (src/linx_model_cli.cpp). *)
(* The reference executor and an ExecutorBackedSim take turns, one step      *)
(* each, and the last records committed on either side go to the harness.    *)
(***************************************************************************)
EXTENDS EngineInterface

VARIABLES
  args,
  ref,       \* ref_ctx
  ca,        \* the context of ca_sim
  phase,     \* "start", "run", "compared" after the loop, "done"
  exit, dumped,
  ref_window, ca_window, mismatch

Harness == INSTANCE CompareHarness

engine  == <<args, ref, ca, phase, exit, dumped>>
windows == <<ref_window, ca_window, mismatch>>
vars    == <<engine, windows>>

Leave(code) == phase' = "done" /\ exit' = code /\ UNCHANGED dumped

(***************************************************************************)
(* The simulator loads the image, builds nothing, and is Reset, which loads  *)
(* the image again.  Neither --disasm nor --disasm-only is looked at.         *)
(***************************************************************************)
Start ==
  /\ phase = "start" /\ HasProgram(args) /\ Loadable(args)
  /\ ref' = LoadProgram(ref, ImageOf(args))
  /\ ca'  = ResetContext(LoadProgram(ca, ImageOf(args)))
  /\ phase' = "run"
  /\ UNCHANGED <<args, exit, dumped, windows>>

Abort ==
  /\ phase = "start" /\ ~(HasProgram(args) /\ Loadable(args))
  /\ Leave(IF HasProgram(args) THEN Aborted ELSE 1)
  /\ UNCHANGED <<args, ref, ca, windows>>

Looping ==
  /\ phase = "run" /\ ~ref.terminated /\ ~ca.terminated
  /\ ~LimitReached(args, ref.cycle)

(***************************************************************************)
(* One turn of the loop.  If this step committed nothing, the records        *)
(* compared are those of an earlier one; if nothing was ever committed, the  *)
(* loop ends.                                                               *)
(***************************************************************************)
Compare(r, c) ==
  IF r.committed = << >> \/ c.committed = << >>
    THEN phase' = "compared" /\ UNCHANGED <<exit, dumped, windows>>
    ELSE /\ Harness!Push(LastCommitted(r), LastCommitted(c), args.compare_window)
         /\ IF mismatch' = << >> THEN UNCHANGED <<phase, exit, dumped>> ELSE Leave(2)

\* Mutant: the simulator is not told the stop address.
TurnDropsStopPc ==
  /\ Looping
  /\ ref' = Step(ref, args.stop_pc)
  /\ ca'  = Step(ca, None)
  /\ Compare(ref', ca')
  /\ UNCHANGED args

Turn ==
  /\ Looping
  /\ ref' = Step(ref, args.stop_pc)
  /\ ca'  = Step(ca, args.stop_pc)
  /\ Compare(ref', ca')
  /\ UNCHANGED args

LoopEnds ==
  /\ phase = "run" /\ ~Looping
  /\ phase' = "compared"
  /\ UNCHANGED <<args, ref, ca, exit, dumped, windows>>

ExitCode == IF ref.exit_code > ca.exit_code THEN ref.exit_code ELSE ca.exit_code

Finish ==
  /\ phase = "compared"
  /\ IF Len(ref.committed) # Len(ca.committed) THEN Leave(3)
     ELSE IF ExitCode # 0 THEN Leave(ExitCode)
     ELSE \E export \in Exports(args, ca) :
            phase' = "done" /\ exit' = export.exit /\ dumped' = export.dumped
  /\ UNCHANGED <<args, ref, ca, windows>>

Next == Start \/ Abort \/ Turn \/ LoopEnds \/ Finish

-----------------------------------------------------------------------------
(* The windows, written out when a difference is found, end with the records *)
(* committed last and hold no record of the other side: until the loop ends  *)
(* they are the tails of the two traces, as long as --compare-window says.    *)
TailOf(s) == SubSeq(s, Len(s) - Len(ref_window) + 1, Len(s))
WindowsAreTails ==
  Looping => /\ ref_window = TailOf(ref.committed)
             /\ ca_window = TailOf(ca.committed)
             /\ Len(ref_window) <= args.compare_window
             /\ Len(ref.committed) >= args.compare_window
                  => Len(ref_window) = args.compare_window
=============================================================================

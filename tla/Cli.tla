-------------------------------- MODULE Cli --------------------------------
(***************************************************************************)
(* linx_model_cli: the command line is parsed and handed to one of three     *)
(* engines (main in src/linx_model_cli.cpp).                                *)
(***************************************************************************)
EXTENDS EngineOps

CONSTANTS CommandLines, Numbers, Names

VARIABLES
  argv, next, args, verdict,           \* the parser
  ref,                                 \* the context of the reference executor
  ca, cycle,                           \* the context and clock of the simulator
  ref_window, ca_window, mismatch,     \* the compare harness
  phase, exit, dumped                  \* where the engine is, and what main returns

parser    == <<argv, next, args, verdict>>
windows   == <<ref_window, ca_window, mismatch>>
execution == <<ref, ca, cycle, windows, phase, exit, dumped>>
vars      == <<parser, execution>>

Parser    == INSTANCE Arguments
RefEngine == INSTANCE ReferenceRun WITH ctx <- ref
CaEngine  == INSTANCE SimMainRun WITH ctx <- ca
Comparing == INSTANCE CompareRun

(***************************************************************************)
(* A command line is a sequence of arguments, none of them empty; a number   *)
(* is what std::stoull returns, a word; no option is a name.                 *)
(***************************************************************************)
ASSUME LinesAssumption ==
  /\ \A line \in CommandLines :
       line \in Seq(STRING) /\ \A i \in 1..Len(line) : line[i] # ""
  /\ \A number \in DOMAIN Numbers : Numbers[number] \in Word
  /\ Names \cap (Parser!Options \cup Parser!Switches \cup Parser!Help) = {}

Init ==
  /\ Parser!Init
  /\ ref = NewContext /\ ca = NewContext /\ cycle = 0
  /\ Comparing!Harness!Init
  /\ phase = "start" /\ exit = None /\ dumped = << >>

Parse == Parser!Next /\ UNCHANGED execution

NotAccepted ==
  /\ verdict \in {"help", "refused"} /\ phase = "start"
  /\ phase' = "done"
  /\ exit' = IF verdict = "help" THEN 0 ELSE 1
  /\ UNCHANGED <<parser, ref, ca, cycle, windows, dumped>>

Run(engine) == verdict = "accepted" /\ args.engine = engine

RunReferenceEngine == Run("ref") /\ RefEngine!Next /\ UNCHANGED <<argv, next, verdict, ca, cycle, windows>>
RunCompareEngine   == Run("compare") /\ Comparing!Next /\ UNCHANGED <<argv, next, verdict, cycle>>
RunSimMain         == Run("ca") /\ CaEngine!Next /\ UNCHANGED <<argv, next, verdict, ref, windows>>

Next == Parse \/ NotAccepted \/ RunReferenceEngine \/ RunCompareEngine \/ RunSimMain

Spec     == Init /\ [][Next]_vars
FairSpec == Spec /\ WF_vars(Next)

-----------------------------------------------------------------------------
(***************************************************************************)
(* Every engine does what the ref engine does.                               *)
(***************************************************************************)
Engine == IF verdict = "accepted" THEN args.engine ELSE "none"

(***************************************************************************)
(* Command lines on which an engine goes its own way: compare has a message  *)
(* of its own for a missing program, and simulates where --disasm-only asks   *)
(* for a listing; ca exports a result after the listing, and always takes a   *)
(* first step.                                                              *)
(***************************************************************************)
OwnWay ==
  CASE Engine = "compare" -> ~HasProgram(args) \/ args.disassembly_only
    [] Engine = "ca" -> \/ args.disassembly_only /\ args.result_dump_path # ""
                        \/ args.enable_reference /\ args.max_cycles = 0
    [] OTHER -> FALSE

Follows == Engine # "none" /\ ~OwnWay

(***************************************************************************)
(* The context the ref engine would be in.  Leaving a loop at the cycle      *)
(* limit counts as its request to terminate; ca with --no-reference does     *)
(* what ref does with a limit of zero.                                      *)
(***************************************************************************)
Context   == IF Engine = "ca" THEN ca ELSE ref
LoopEnded == phase \in {"left", "compared", "done"} /\ ~args.disassembly_only /\ Startable(args)
Listed    == phase = "left" /\ args.disassembly_only

(***************************************************************************)
(* RunSimMain drops the exit code of a program that failed: it is mapped to  *)
(* the context's.                                                           *)
(***************************************************************************)
Failed == Engine = "ca" /\ phase = "done" /\ ca.exit_code # 0

ReferenceArgs ==
  IF ~Follows THEN << >>
  ELSE IF Engine = "ca" /\ ~args.enable_reference THEN [args EXCEPT !.max_cycles = 0]
  ELSE args
ReferenceContext ==
  IF ~Follows \/ Listed THEN NewContext
  ELSE IF LoopEnded /\ ~Context.terminated
    THEN RequestTerminate(Context, Context.exit_code, "max_cycles")
  ELSE Context
ReferencePhase ==
  IF ~Follows THEN "idle"
  ELSE IF Listed THEN "start"
  ELSE IF phase \in {"tests", "left", "compared"} THEN "run"
  ELSE phase
ReferenceExit   == IF ~Follows THEN None ELSE IF Failed THEN ca.exit_code ELSE exit
ReferenceDumped == IF ~Follows \/ Failed THEN << >> ELSE dumped

Reference == INSTANCE ReferenceRun WITH
  args <- ReferenceArgs, ctx <- ReferenceContext, phase <- ReferencePhase,
  exit <- ReferenceExit, dumped <- ReferenceDumped

-----------------------------------------------------------------------------
(* Whichever engine it names, a command line executes the same instructions, *)
(* returns the same code and exports the same memory: the compare engine     *)
(* reports no difference where there is none.                               *)
ImplementsReference == Reference!Spec

(* For ref and compare, exit code 0 tells that the program succeeded and     *)
(* that the result asked for was exported whole (RunReferenceEngine).        *)
ExitTellsOutcome == Engine \in {"ref", "compare"} => Reference!ExitTellsOutcome

(* A run with a cycle limit returns, whatever loop the program is in and     *)
(* whichever engine runs it, also if RunReference() is left out.             *)
Returns == verdict = "accepted" /\ args.max_cycles # None ~> phase = "done"

WindowsAreTails == Run("compare") => Comparing!WindowsAreTails
ArgumentsKept   == Parser!ArgumentsKept
=============================================================================

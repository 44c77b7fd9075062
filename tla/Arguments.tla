----------------------------- MODULE Arguments -----------------------------
(***************************************************************************)
(* The command line parser: ParseSimMainArgs (src/sim_main.cpp), one action  *)
(* for each way an argument can be taken or refused.  Arguments are strings; *)
(* an absent path, engine or number is "" or None, and no argument is empty. *)
(***************************************************************************)
EXTENDS Integers, Sequences, FiniteSetsExt

CONSTANTS
  CommandLines,   \* sequences of arguments
  Numbers,        \* the value of each argument that is an integer from end to end
  Names           \* arguments that do not begin with a dash

VARIABLES
  argv,
  next,       \* i, the argument to look at
  args,       \* the SimMainArgs so far
  verdict     \* "reading", then "accepted", "help" or "refused"

parser == <<argv, next, args, verdict>>

None == -1

Engines == {"ref", "ca", "compare"}
Levels  == [trace |-> "trace", debug |-> "debug", info |-> "info", warn |-> "warning",
            warning |-> "warning", error |-> "error", fatal |-> "fatal"]

(***************************************************************************)
(* The member each option sets.                                             *)
(***************************************************************************)
NumberOptions == {"--stop-pc", "--raw-base", "--max-cycles", "--compare-window",
                  "--result-address", "--result-size"}
Options == NumberOptions \cup
           {"--bin", "--emit-minst-trace", "--result-dump", "--engine", "--log-level"}
Member ==
  [option \in Options |->
     CASE option = "--stop-pc"          -> "stop_pc"
       [] option = "--raw-base"         -> "raw_base_address"
       [] option = "--max-cycles"       -> "max_cycles"
       [] option = "--compare-window"   -> "compare_window"
       [] option = "--result-address"   -> "result_address"
       [] option = "--result-size"      -> "result_size"
       [] option = "--bin"              -> "program_path"
       [] option = "--emit-minst-trace" -> "emit_trace_path"
       [] option = "--result-dump"      -> "result_dump_path"
       [] option = "--engine"           -> "engine"
       [] option = "--log-level"        -> "log_level"]

Switches == {"--disasm", "--disasm-only", "--no-reference", "--no-pipeview", "--no-report"}
Help     == {"-h", "--help"}

Defaults ==
  [ engine |-> "ref", program_path |-> "", emit_trace_path |-> "",
    result_dump_path |-> "", result_address |-> None, result_size |-> None,
    stop_pc |-> None, max_cycles |-> None, compare_window |-> 128, raw_base_address |-> 0,
    log_level |-> "info", enable_reference |-> TRUE, enable_pipeview |-> TRUE,
    enable_report |-> TRUE, enable_disassembly |-> FALSE, disassembly_only |-> FALSE ]

Init ==
  /\ argv \in CommandLines
  /\ next = 1 /\ args = Defaults /\ verdict = "reading"

-----------------------------------------------------------------------------
Reading   == verdict = "reading" /\ next <= Len(argv)
Current   == argv[next]
HasValue  == next + 1 <= Len(argv)
Following == argv[next + 1]

(***************************************************************************)
(* What an option accepts as its value, another option included if it is a   *)
(* path.                                                                    *)
(***************************************************************************)
Acceptable(option, value) ==
  /\ option \in NumberOptions => value \in DOMAIN Numbers
  /\ option = "--compare-window" => Numbers[value] # 0
  /\ option = "--engine" => value \in Engines
  /\ option = "--log-level" => value \in DOMAIN Levels

Meaning(option, value) ==
  IF option \in NumberOptions THEN Numbers[value]
  ELSE IF option = "--log-level"    THEN Levels[value]
  ELSE value

\* Mutant: the first value given stays.
WithFirst(option, value) ==
  IF args[Member[option]] # Defaults[Member[option]] THEN args
  ELSE [args EXCEPT ![Member[option]] = Meaning(option, value)]

With(option, value) == [args EXCEPT ![Member[option]] = Meaning(option, value)]

Switched(option) ==
  [ args EXCEPT
      !.enable_disassembly = @ \/ option \in {"--disasm", "--disasm-only"},
      !.disassembly_only   = @ \/ option = "--disasm-only",
      !.enable_reference   = @ /\ option # "--no-reference",
      !.enable_pipeview    = @ /\ option # "--no-pipeview",
      !.enable_report      = @ /\ option # "--no-report" ]

TakeValue ==
  /\ Reading /\ Current \in Options
  /\ HasValue /\ Acceptable(Current, Following)
  /\ args' = With(Current, Following)
  /\ next' = next + 2
  /\ UNCHANGED <<argv, verdict>>

TakeSwitch ==
  /\ Reading /\ Current \in Switches
  /\ args' = Switched(Current)
  /\ next' = next + 1
  /\ UNCHANGED <<argv, verdict>>

TakeProgram ==
  /\ Reading /\ Current \in Names
  /\ args.program_path = ""
  /\ args' = [args EXCEPT !.program_path = Current]
  /\ next' = next + 1
  /\ UNCHANGED <<argv, verdict>>

ShowHelp ==
  /\ Reading /\ Current \in Help
  /\ verdict' = "help"
  /\ UNCHANGED <<argv, next, args>>

Refuse ==
  /\ Reading
  /\ \/ Current \in Options /\ (HasValue => ~Acceptable(Current, Following))
     \/ Current \in Names /\ args.program_path # ""
     \/ Current \notin Options \cup Switches \cup Help \cup Names
  /\ verdict' = "refused"
  /\ UNCHANGED <<argv, next, args>>

(***************************************************************************)
(* After the last argument: the options of the result export come together.  *)
(***************************************************************************)
ExportParts(a) ==
  { m \in {"dump", "address", "size"} :
      CASE m = "dump"    -> a.result_dump_path # ""
        [] m = "address" -> a.result_address # None
        [] m = "size"    -> a.result_size # None }
ExportWhole(a) == ExportParts(a) \in {{}, {"dump", "address", "size"}} /\ a.result_size # 0

Judge ==
  /\ verdict = "reading" /\ next > Len(argv)
  /\ verdict' = IF ExportWhole(args) THEN "accepted" ELSE "refused"
  /\ UNCHANGED <<argv, next, args>>

Next == TakeValue \/ TakeSwitch \/ TakeProgram \/ ShowHelp \/ Refuse \/ Judge

Spec == Init /\ [][Next]_parser

-----------------------------------------------------------------------------
(***************************************************************************)
(* What a command line says, without reading it in order.                    *)
(***************************************************************************)
ValuePlaces ==
  LET isValue[i \in 0..Len(argv)] == i > 1 /\ argv[i - 1] \in Options /\ ~isValue[i - 1]
  IN  { i \in 1..Len(argv) : isValue[i] }
Free       == 1..Len(argv) \ ValuePlaces
Places(S)  == { i \in Free : argv[i] \in S }
Giving(m)  == { i \in Places(Options) : Member[argv[i]] = m }
Said(m)    == argv[Max(Giving(m)) + 1]
LastPath   == LET p == Max(Giving("program_path") \cup Places(Names))
              IN  IF p \in Places(Names) THEN argv[p] ELSE argv[p + 1]

(* An accepted command line means what it says: each option given counts,    *)
(* its last occurrence if there are several, what follows an option that     *)
(* takes a value is that value whatever it looks like, and a free name is    *)
(* the program, at most once and never after --bin.  --help anywhere but in  *)
(* a value's place is never passed over (ParseSimMainArgs).                  *)
ArgumentsKept ==
  verdict = "accepted" =>
    /\ Places(Help) = {} /\ Places(Switches \cup Options \cup Names) = Free
    /\ \A m \in { Member[o] : o \in NumberOptions } :
         args[m] = IF Giving(m) = {} THEN Defaults[m] ELSE Numbers[Said(m)]
    /\ \A m \in {"engine", "emit_trace_path", "result_dump_path"} :
         args[m] = IF Giving(m) = {} THEN Defaults[m] ELSE Said(m)
    /\ args.program_path =
         IF Giving("program_path") \cup Places(Names) = {} THEN "" ELSE LastPath
    /\ \A i \in Places(Names) : \A j \in Giving("program_path") \cup Places(Names) : i <= j
    /\ args.disassembly_only <=> Places({"--disasm-only"}) # {}
    /\ args.enable_disassembly <=> Places({"--disasm-only", "--disasm"}) # {}
    /\ args.enable_reference <=> Places({"--no-reference"}) = {}
    /\ args.result_size # 0 /\ (args.result_size = None <=> args.result_dump_path = "")
=============================================================================

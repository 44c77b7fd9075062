----------------------------- MODULE EngineOps -----------------------------
(***************************************************************************)
(* What the engines of the CLI share: loading the program their command line *)
(* names, the cycle limit, and the result export (src/linx_model_cli.cpp).   *)
(* A command line is the record that Arguments parses.                      *)
(***************************************************************************)
EXTENDS Execution

CONSTANT Files    \* of each path that can be loaded: [raw, entry_point, memory]

(***************************************************************************)
(* No file has an empty path; each puts cells at addresses.                  *)
(***************************************************************************)
ASSUME FilesAssumption ==
  \A path \in DOMAIN Files :
    /\ path # ""
    /\ Files[path].raw \in BOOLEAN
    /\ Files[path].entry_point \in Word /\ MemoryType(Files[path].memory)

HasProgram(args) == args.program_path # ""
Loadable(args)   == args.program_path \in DOMAIN Files

(***************************************************************************)
(* An exception that main does not catch ends the process: a file that       *)
(* cannot be loaded, no program to disassemble (ca asserts there is one, ref *)
(* dereferences the absent path and then fails to load what it names).        *)
(***************************************************************************)
Aborted == -2
Startable(args) == IF HasProgram(args) THEN Loadable(args) ELSE ~args.enable_disassembly

Moved(memory, base) ==
  [a \in { Wrap(x + base) : x \in DOMAIN memory } |-> memory[Wrap(a - base)]]

(***************************************************************************)
(* LoadProgramImageFromFile(): --raw-base is of use for a raw file only.      *)
(***************************************************************************)
ImageOf(args) ==
  LET f == Files[args.program_path]
  IN  IF f.raw THEN [entry_point |-> args.raw_base_address,
                     memory |-> Moved(f.memory, args.raw_base_address)]
      ELSE [entry_point |-> f.entry_point, memory |-> f.memory]

LimitReached(args, cycle) == args.max_cycles # None /\ cycle >= args.max_cycles

(***************************************************************************)
(* WriteResultDump(): the exit codes and the contents of --result-dump it    *)
(* can end with.  The directory may not be made, the file not be written.    *)
(***************************************************************************)
Exports(args, c) ==
  IF args.result_dump_path = "" THEN { [exit |-> 0, dumped |-> << >>] }
  ELSE IF ~RangeMapped(c, args.result_address, args.result_size)
    THEN { [exit |-> 1, dumped |-> << >>] }
  ELSE { [exit |-> 0, dumped |-> ReadMemoryRange(c, args.result_address, args.result_size)],
         [exit |-> 1, dumped |-> << >>], [exit |-> Aborted, dumped |-> << >>] }
=============================================================================

-------------------------- MODULE EngineInterface --------------------------
(***************************************************************************)
(* What an engine of the CLI is given: the operations of an execution        *)
(* context and of the reference executor (Execution), and those that read    *)
(* its command line (EngineOps).  Cli supplies them.                         *)
(***************************************************************************)
EXTENDS Integers, Sequences

CONSTANTS
  None, NewContext, LoadProgram(_, _), ResetContext(_), RequestTerminate(_, _, _),
  LastCommitted(_), Step(_, _),
  HasProgram(_), Loadable(_), Startable(_), ImageOf(_), LimitReached(_, _), Exports(_, _),
  Aborted
=============================================================================

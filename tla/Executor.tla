------------------------------ MODULE Executor ------------------------------
(***************************************************************************)
(* One ExecutionContext driven by a ReferenceExecutor: the calls a simulator *)
(* makes on the pair, in any order.  Programs, their data and the code they  *)
(* overwrite are those of Images.                                           *)
(***************************************************************************)
EXTENDS Execution, FiniteSetsExt

CONSTANTS
  Images,      \* programs loaded first: entry point and mapped cells
  Reloads,     \* programs loaded later
  StopPcs,     \* stop addresses passed to Step, None among them
  CycleBound   \* bound: instructions attempted since the last Reset

(***************************************************************************)
(* Whatever file a program came from, it enters at an address and puts cells *)
(* at addresses.                                                            *)
(***************************************************************************)
ASSUME ImagesAssumption ==
  \A image \in Images \cup Reloads : image.entry_point \in Word /\ MemoryType(image.memory)

VARIABLES
  ctx,
  past         \* history: the longest trace since the program was loaded

executor == <<ctx, past>>

ExecutorInit ==
  /\ ctx \in {NewContext} \cup { LoadProgram(NewContext, image) : image \in Images }
  /\ past = << >>

StepOnce ==
  /\ ctx.cycle < CycleBound
  /\ \E stop_pc \in StopPcs : ctx' = Step(ctx, stop_pc)
  /\ past' = IF Len(ctx'.committed) > Len(past) THEN ctx'.committed ELSE past

Reset == ctx' = ResetContext(ctx) /\ UNCHANGED past

Load ==
  /\ \E image \in Reloads : ctx' = LoadProgram(ctx, image)
  /\ past' = << >>

ExecutorNext == StepOnce \/ Reset \/ Load

ExecutorSpec == ExecutorInit /\ [][ExecutorNext]_executor

-----------------------------------------------------------------------------
(***************************************************************************)
(* Properties.                                                              *)
(***************************************************************************)
(* Types: registers and addresses stay within the word however they are      *)
(* computed, memory within its cells; an error is one the code reports, and  *)
(* it is reported exactly when the context is terminated.                    *)
TypeOK ==
  /\ ctx.state \in StateType
  /\ MemoryType(ctx.memory)
  /\ ctx.cycle \in Nat /\ ctx.exit_code \in Nat
  /\ ctx.last_error \in Errors
  /\ ctx.terminated <=> ctx.last_error # ""

(* docs/isa.md 77-79: a call that commits no instruction (an unsupported one, *)
(* one that cannot be fetched, the stop address, a terminated context)       *)
(* changes neither the architectural state nor memory.                      *)
RejectIsSilent ==
  [][ ctx'.program = ctx.program /\ ctx'.committed = ctx.committed
        => ctx'.state = ctx.state /\ ctx'.memory = ctx.memory ]_executor

-----------------------------------------------------------------------------
(***************************************************************************)
(* What the trace says of the architecture.                                 *)
(***************************************************************************)
Trace == ctx.committed
Where(P(_)) == { n \in 1..Len(Trace) : P(Trace[n]) }

ToRegister(r) == Where(LAMBDA x : x.dst = r)
RegisterByTrace(r) == IF ToRegister(r) = {} THEN 0 ELSE Trace[Max(ToRegister(r))].data

\* Element i of a queue is what the i-th latest push to it pushed.
QueueTells(queue, r) ==
  \A i \in 1..QueueDepth :
    IF Cardinality(ToRegister(r)) < i THEN queue[i] = 0
    ELSE \E n \in ToRegister(r) : /\ Cardinality({ k \in ToRegister(r) : k >= n }) = i
                                 /\ queue[i] = Trace[n].data

StoresTo(a) == Where(LAMBDA x : x.op = "SWI" /\ x.mem.addr = a)
MemoryByTrace ==
  [a \in DOMAIN ctx.program.memory \cup { Trace[n].mem.addr : n \in Where(LAMBDA x : x.op = "SWI") }
     |-> IF StoresTo(a) = {} THEN ctx.program.memory[a] ELSE Trace[Max(StoresTo(a))].mem.value]

BlockCopies == Where(LAMBDA x : x.op \in {"MCOPY", "MSET"})

(* The records determine the registers, the T and U queues and, as long as   *)
(* no MCOPY or MSET ran, memory.  Two models whose traces agree, which is    *)
(* all the compare engine and tests/avs check, agree on these too.           *)
TraceTellsState ==
  /\ ctx.state.insn_count = Len(Trace)
  /\ \A r \in 1..(GprCount - 1) : ctx.state.gpr[r] = RegisterByTrace(r)
  /\ QueueTells(ctx.state.tq, 31)
  /\ QueueTells(ctx.state.uq, 30)
  /\ BlockCopies = {} => ctx.memory = MemoryByTrace

(***************************************************************************)
(* The last instruction before n that decides how a C.BSTOP at n ends.       *)
(***************************************************************************)
Deciders(n) ==
  { k \in 1..(n - 1) : Trace[k].op \in
      {"C.BSTART.STD", "C.BSTART.DIRECT", "C.BSTART.COND", "C.BSTOP"} }
Opener(n)  == IF Deciders(n) = {} THEN "none" ELSE Trace[Max(Deciders(n))].op
Target(n)  == LET k == Max(Deciders(n)) IN Wrap(Trace[k].pc + Decoder[Trace[k].insn].imm)
Went(n)    == IF n = Len(Trace) THEN ctx.state.pc ELSE Trace[n + 1].pc
SetSince(n) ==
  \E k \in 1..(n - 1) : /\ Trace[k].op \in {"SETC.NE", "SETC.LTU"}
                        /\ \A j \in k..(n - 1) : Trace[j].op # "C.BSTOP"

(* Control leaves the sequential path only at a C.BSTOP, and only to the     *)
(* target of the C.BSTART that opened the block it closes: always if direct, *)
(* only after a SETC of the same block if conditional.  No block type,       *)
(* target or condition of an earlier block or run decides.                  *)
BlockDiscipline ==
  \A n \in 1..Len(Trace) :
    CASE Trace[n].op = "C.BSTOP" /\ Opener(n) = "C.BSTART.DIRECT" -> Went(n) = Target(n)
      [] Trace[n].op = "C.BSTOP" /\ Opener(n) = "C.BSTART.COND" /\ SetSince(n) ->
           Went(n) \in {Target(n), Trace[n].next_pc}
      [] OTHER -> Went(n) = Trace[n].next_pc

(* After Reset() the loaded program runs as it ran before, record by record  *)
(* but for the clock: nothing it did to memory, registers or the block state *)
(* survives, its own overwritten code included.                             *)
Timeless(record) == [record EXCEPT !.cycle = 0]
Replays ==
  \A n \in 1..Len(Trace) : n <= Len(past) => Timeless(Trace[n]) = Timeless(past[n])
=============================================================================

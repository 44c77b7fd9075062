----------------------------- MODULE Execution -----------------------------
(***************************************************************************)
(* ExecutionContext and ReferenceExecutor as operators on a context record   *)
(* (src/emulator/execution_context.cpp, src/emulator/reference_executor.cpp, *)
(* src/emulator/minst_record.cpp).  Executor calls them in any order; the    *)
(* engines of the CLI call them in theirs.                                  *)
(*                                                                          *)
(* A memory address holds one cell, the unit of LWI and SWI and of MCOPY and *)
(* MSET; a register holds a word, wider than a cell.  The codec is the       *)
(* function Decoder, from the first cell of an instruction to the            *)
(* instruction.  The five move-immediate mnemonics differ in how the codec   *)
(* forms their value only, and are the one operation MOVI; the thirty        *)
(* mnemonics of tile headers are one operation per block kind.               *)
(***************************************************************************)
EXTENDS Integers, Sequences, FiniteSets

CONSTANTS
  CellSize, WordSize,    \* 2^32 and 2^64 in the code
  GprCount, QueueDepth, SsrCount,    \* kLinxGprCount, kLinxQueueCount, kLinxSsrCount
  Decoder,               \* the instruction each cell decodes to
  Finisher,              \* kTestFinisherAddress
  StatusSize, Pass, Fail, ResetCode    \* the finisher's status field

Cell == 0..(CellSize - 1)
Word == 0..(WordSize - 1)

(***************************************************************************)
(* An absent std::optional of an address or of a number.                     *)
(***************************************************************************)
None == -1

(***************************************************************************)
(* Of each instruction: its operation and length, its destination and its    *)
(* source registers, and an immediate.  A cell that starts no instruction    *)
(* decodes to the operation "undecodable".                                   *)
(***************************************************************************)
Computing   == {"MOVI", "C.MOVR", "ADDI", "LWI"}     \* those with a destination
TileHeaders == {"tepl", "cube", "tlsu"}
Implemented ==
  Computing \cup TileHeaders \cup
  {"C.BSTART.STD", "C.BSTART.VPAR", "C.BSTART.VSEQ", "C.BSTART.DIRECT", "C.BSTART.COND",
   "C.BSTOP", "SWI", "SETC.NE", "SETC.LTU", "SSRSET", "MCOPY", "MSET", "B.TEXT"}

ASSUME SizesAssumption ==
  /\ CellSize \in Nat \ {0} /\ WordSize \in Nat \ {0} /\ CellSize <= WordSize
  /\ GprCount \in 1..24 /\ QueueDepth \in 1..4 /\ SsrCount \in Nat \ {0}
  /\ Finisher \in Word
  /\ StatusSize \in Nat \ {0} /\ {Pass, Fail, ResetCode} \subseteq 0..(StatusSize - 1)
  /\ Pass # Fail /\ Pass # ResetCode /\ Fail # ResetCode

ASSUME DecoderAssumption ==
  \A v \in Cell :
    /\ Decoder[v].len \in Nat \ {0}
    /\ Decoder[v].imm \in Int
    /\ Decoder[v].dsts \in Seq(0..31) /\ Decoder[v].srcs \in Seq(0..31)

-----------------------------------------------------------------------------
(***************************************************************************)
(* Words.  An LWI sign-extends the cell it loads; a SWI truncates the word.  *)
(***************************************************************************)
\* Mutant: additions keep their carry.
WrapNot(n) == IF n < 0 THEN n + WordSize ELSE n

Wrap(n) == n % WordSize

SignExtend(v) == IF 2 * v >= CellSize THEN Wrap(v - CellSize) ELSE v
Truncate(w)   == w % CellSize

-----------------------------------------------------------------------------
(***************************************************************************)
(* LinxState, as far as the implemented instructions read or write it.       *)
(***************************************************************************)
ZeroState ==
  [ pc |-> 0, insn_count |-> 0,
    gpr |-> [r \in 1..(GprCount - 1) |-> 0],
    tq  |-> [i \in 1..QueueDepth |-> 0],
    uq  |-> [i \in 1..QueueDepth |-> 0],
    ssr |-> [r \in 0..(SsrCount - 1) |-> 0],
    carg |-> 0, tgt |-> 0, bpc |-> 0, blocktype |-> 0,
    block_kind |-> "scalar", lane_id |-> -1 ]

StateType ==
  [ pc : Word, insn_count : Nat, gpr : [1..(GprCount - 1) -> Word],
    tq : [1..QueueDepth -> Word], uq : [1..QueueDepth -> Word],
    ssr : [0..(SsrCount - 1) -> Word],
    carg : {0, 1}, tgt : Word, bpc : Word, blocktype : 0..2,
    block_kind : {"scalar", "vpar", "vseq", "sys"} \cup TileHeaders, lane_id : {-1, 0} ]

(***************************************************************************)
(* Register numbers: 0 is the constant zero, 24.. and 28.. read the T and U  *)
(* queues, 31 and 30 push to them.                                          *)
(***************************************************************************)
ReadGpr(s, r) ==
  IF r \in 1..(GprCount - 1)             THEN s.gpr[r]
  ELSE IF r \in 24..(23 + QueueDepth)    THEN s.tq[r - 23]
  ELSE IF r \in 28..(27 + QueueDepth)    THEN s.uq[r - 27]
  ELSE 0

\* Mutant: the loop runs upwards and smears the new value.
PushQueueUpwards(queue, v) == [i \in 1..QueueDepth |-> IF i = 1 THEN v ELSE queue[1]]

PushQueue(queue, v) == [i \in 1..QueueDepth |-> IF i = 1 THEN v ELSE queue[i - 1]]

WriteScalarDestination(s, r, v) ==
  IF r = 31                        THEN [s EXCEPT !.tq = PushQueue(@, v)]
  ELSE IF r = 30                   THEN [s EXCEPT !.uq = PushQueue(@, v)]
  ELSE IF r \in 1..(GprCount - 1)  THEN [s EXCEPT !.gpr[r] = v]
  ELSE s

-----------------------------------------------------------------------------
(***************************************************************************)
(* ExecutionContext.  last_committed_ is the last element of committed: the  *)
(* two are written and cleared together.                                    *)
(***************************************************************************)
NoProgram == [entry_point |-> 0, memory |-> << >>]

MemoryType(memory) == DOMAIN memory \subseteq Word /\ memory \in [DOMAIN memory -> Cell]

Errors == {"", "stop_pc", "max_cycles", "fetch_decode_failed", "unsupported_instruction",
           "finisher_pass", "finisher_fail", "finisher_reset"}

NewContext ==
  [ has_program |-> FALSE, program |-> NoProgram, state |-> ZeroState, memory |-> << >>, committed |-> << >>,
    cycle |-> 0, exit_code |-> 0, terminated |-> FALSE, last_error |-> "" ]

(***************************************************************************)
(* LoadProgram() restarts the architecture, not the clock nor a termination. *)
(***************************************************************************)
LoadProgram(c, image) ==
  [ c EXCEPT !.has_program = TRUE, !.program = image, !.memory = image.memory, !.committed = << >>,
             !.state = [ZeroState EXCEPT !.pc = image.entry_point] ]

\* Mutant: a program once loaded is not copied to memory again.
ResetKeepsMemory(c) ==
  IF c.has_program THEN [LoadProgram(NewContext, c.program) EXCEPT !.memory = c.memory]
                   ELSE NewContext

ResetContext(c) == IF c.has_program THEN LoadProgram(NewContext, c.program) ELSE NewContext

RequestTerminate(c, code, reason) ==
  [c EXCEPT !.terminated = TRUE, !.exit_code = code, !.last_error = reason]

LastCommitted(c) == c.committed[Len(c.committed)]
AppendRecord(c, record) == [c EXCEPT !.committed = Append(@, record)]

(***************************************************************************)
(* Memory.  What was never written reads as nothing; LWI and MCOPY make it 0. *)
(***************************************************************************)
Mapped(c, a) == a \in DOMAIN c.memory
ReadCell(memory, a) == IF a \in DOMAIN memory THEN memory[a] ELSE 0
WriteCell(memory, a, v) ==
  [x \in DOMAIN memory \cup {a} |-> IF x = a THEN v ELSE memory[x]]

(***************************************************************************)
(* Write32(): the finisher's address ends the program; a failure whose code  *)
(* is zero is reported as 1.                                                *)
(***************************************************************************)
\* Mutant: the code is reported as it is.
ExitCodeOfRaw(v) == IF v % StatusSize = Pass THEN 0 ELSE v \div StatusSize

ExitCodeOf(v) ==
  IF v % StatusSize = Pass THEN 0
  ELSE IF v \div StatusSize = 0 THEN 1 ELSE v \div StatusSize

HandleTestFinisherWrite(c, a, v) ==
  IF a # Finisher THEN c
  ELSE CASE v % StatusSize = Pass      -> RequestTerminate(c, ExitCodeOf(v), "finisher_pass")
         [] v % StatusSize = Fail      -> RequestTerminate(c, ExitCodeOf(v), "finisher_fail")
         [] v % StatusSize = ResetCode -> RequestTerminate(c, ExitCodeOf(v), "finisher_reset")
         [] OTHER -> c

Write32(c, a, v) ==
  HandleTestFinisherWrite([c EXCEPT !.memory = WriteCell(@, a, v)], a, v)

(***************************************************************************)
(* MCOPY copies upwards, cell by cell, so an overlap repeats its source.     *)
(***************************************************************************)
Copied(memory, dst, src, count) ==
  LET after[n \in 0..count] ==
        IF n = 0 THEN memory
        ELSE WriteCell(after[n - 1], Wrap(dst + n - 1),
                       ReadCell(after[n - 1], Wrap(src + n - 1)))
  IN  after[count]

Filled(memory, dst, v, count) ==
  LET written == { Wrap(dst + n) : n \in 0..(count - 1) }
  IN  [a \in DOMAIN memory \cup written |-> IF a \in written THEN v ELSE memory[a]]

(***************************************************************************)
(* ReadMemoryRange(): nothing, unless the range ends within the address      *)
(* space and every cell of it is mapped.                                    *)
(***************************************************************************)
RangeMapped(c, a, size) ==
  size - 1 <= WordSize - 1 - a /\ \A k \in 0..(size - 1) : Mapped(c, a + k)
ReadMemoryRange(c, a, size) == [k \in 1..size |-> c.memory[a + k - 1]]

-----------------------------------------------------------------------------
(***************************************************************************)
(* FetchDecode(): every cell of the instruction must be mapped.              *)
(***************************************************************************)
Decodable(c) ==
  /\ Mapped(c, c.state.pc)
  /\ Decoder[c.memory[c.state.pc]].op # "undecodable"
  /\ \A k \in 0..(Decoder[c.memory[c.state.pc]].len - 1) : Mapped(c, Wrap(c.state.pc + k))

FetchDecode(c) == Decoder[c.memory[c.state.pc]]

Src(i, k) == IF k <= Len(i.srcs) THEN i.srcs[k] ELSE 0
Dst(i)    == IF i.dsts = << >> THEN 0 ELSE i.dsts[1]
NextPc(s, i) == Wrap(s.pc + i.len)

(***************************************************************************)
(* ResolveBlockKind(): headers name theirs, everything else inherits.        *)
(***************************************************************************)
BlockKind(s, i) ==
  CASE i.op = "C.BSTART.VPAR"  -> "vpar"
    [] i.op = "C.BSTART.VSEQ"  -> "vseq"
    [] i.op \in TileHeaders    -> i.op
    [] i.op = "SSRSET"         -> "sys"
    [] OTHER                   -> s.block_kind
LaneId(kind) == IF kind \in {"vpar", "vseq"} THEN 0 ELSE -1

(***************************************************************************)
(* Operand values.                                                          *)
(***************************************************************************)
LoadAddress(s, i)  == Wrap(ReadGpr(s, Src(i, 1)) + i.imm)
StoreAddress(s, i) == Wrap(ReadGpr(s, Src(i, 2)) + i.imm)
StoreValue(s, i)   == Truncate(ReadGpr(s, Src(i, 1)))

Result(c, i) ==
  CASE i.op = "MOVI"   -> Wrap(i.imm)
    [] i.op = "C.MOVR" -> ReadGpr(c.state, Src(i, 1))
    [] i.op = "ADDI"   -> Wrap(ReadGpr(c.state, Src(i, 1)) + i.imm)
    [] i.op = "LWI"    -> SignExtend(ReadCell(c.memory, LoadAddress(c.state, i)))

(***************************************************************************)
(* C.BSTOP commits the block: a direct one always goes to its target, a      *)
(* conditional one if SETC said so.                                         *)
(***************************************************************************)
Taken(s) == s.blocktype = 1 \/ (s.blocktype = 2 /\ s.carg # 0)

\* Mutant: the block's type and condition outlive it.
CloseBlockLater(s, i) == [s EXCEPT !.pc = IF Taken(s) THEN s.tgt ELSE NextPc(s, i)]

CloseBlock(s, i) ==
  [s EXCEPT !.pc = IF Taken(s) THEN s.tgt ELSE NextPc(s, i),
            !.blocktype = 0, !.carg = 0]

OpenBlock(s, i, type) ==
  [s EXCEPT !.tgt = Wrap(s.pc + i.imm), !.bpc = s.pc, !.blocktype = type,
            !.pc = NextPc(s, i)]

(***************************************************************************)
(* The state after instruction i; a is the state in which its block kind and *)
(* lane are already set and pc is already the next one.                      *)
(***************************************************************************)
NextState(c, i) ==
  LET s    == c.state
      kind == BlockKind(s, i)
      a    == [s EXCEPT !.insn_count = @ + 1, !.block_kind = kind, !.lane_id = LaneId(kind)]
      b    == [a EXCEPT !.pc = NextPc(s, i)]
  IN  CASE i.op = "C.BSTART.STD" ->
             [b EXCEPT !.bpc = s.pc, !.blocktype = 0, !.block_kind = "scalar", !.lane_id = -1]
        [] i.op \in {"C.BSTART.VPAR", "C.BSTART.VSEQ"} -> [b EXCEPT !.bpc = s.pc]
        [] i.op = "C.BSTART.DIRECT" -> OpenBlock(a, i, 1)
        [] i.op = "C.BSTART.COND"   -> OpenBlock(a, i, 2)
        [] i.op = "C.BSTOP"         -> CloseBlock(a, i)
        [] i.op \in Computing       -> WriteScalarDestination(b, Dst(i), Result(c, i))
        [] i.op = "SETC.NE" ->
             [b EXCEPT !.carg = IF ReadGpr(s, Src(i, 1)) # ReadGpr(s, Src(i, 2)) THEN 1 ELSE 0]
        [] i.op = "SETC.LTU" ->
             [b EXCEPT !.carg = IF ReadGpr(s, Src(i, 1)) < ReadGpr(s, Src(i, 2)) THEN 1 ELSE 0]
        [] i.op = "SSRSET" ->
             IF i.imm \in 0..(SsrCount - 1) THEN [b EXCEPT !.ssr[i.imm] = ReadGpr(s, Src(i, 1))]
                                            ELSE b
        [] i.op = "B.TEXT" -> [b EXCEPT !.block_kind = "tlsu"]
        [] OTHER -> b

NextMemory(c, i) ==
  LET V(k) == ReadGpr(c.state, Src(i, k))
  IN  CASE i.op = "MCOPY" -> Copied(c.memory, V(1), V(2), V(3))
        [] i.op = "MSET"  -> Filled(c.memory, V(1), Truncate(V(2)), V(3))
        [] OTHER -> c.memory

(***************************************************************************)
(* MakeMinstRecord() and what Execute() adds to it.                          *)
(***************************************************************************)
MakeMinstRecord(c, i) ==
  LET s == c.state
  IN  [ cycle |-> c.cycle, pc |-> s.pc, next_pc |-> NextPc(s, i),
        insn |-> c.memory[s.pc], op |-> i.op,
        block_kind |-> IF i.op = "B.TEXT" THEN "tlsu" ELSE BlockKind(s, i),
        lane_id |-> LaneId(BlockKind(s, i)),
        dst  |-> IF i.op \in Computing THEN Dst(i) ELSE 0,
        data |-> IF i.op \in Computing THEN Result(c, i) ELSE 0,
        mem  |-> CASE i.op = "LWI" -> [addr |-> LoadAddress(s, i), value |-> Result(c, i)]
                   [] i.op = "SWI" -> [addr |-> StoreAddress(s, i), value |-> StoreValue(s, i)]
                   [] OTHER -> [addr |-> 0, value |-> 0] ]

Unsupported(c) == RequestTerminate(c, 1, "unsupported_instruction")

\* Mutant: the instruction is counted before it is known to be implemented.
ExecuteCountsFirst(c, i) ==
  IF i.op \notin Implemented
    THEN Unsupported([c EXCEPT !.state.insn_count = @ + 1])
    ELSE LET done == [c EXCEPT !.state = NextState(c, i), !.memory = NextMemory(c, i)]
         IN  AppendRecord(IF i.op = "SWI"
                            THEN Write32(done, StoreAddress(c.state, i), StoreValue(c.state, i))
                            ELSE done,
                          MakeMinstRecord(c, i))

(***************************************************************************)
(* Execute(): the instruction that ends the program is committed too.        *)
(***************************************************************************)
Execute(c, i) ==
  IF i.op \notin Implemented
    THEN Unsupported(c)
    ELSE LET done == [c EXCEPT !.state = NextState(c, i), !.memory = NextMemory(c, i)]
         IN  AppendRecord(IF i.op = "SWI"
                            THEN Write32(done, StoreAddress(c.state, i), StoreValue(c.state, i))
                            ELSE done,
                          MakeMinstRecord(c, i))

(***************************************************************************)
(* ReferenceExecutor::Step().                                               *)
(***************************************************************************)
Step(c, stop_pc) ==
  IF c.terminated              THEN c
  ELSE IF stop_pc = c.state.pc THEN RequestTerminate(c, c.exit_code, "stop_pc")
  ELSE IF ~Decodable(c)        THEN RequestTerminate(c, 1, "fetch_decode_failed")
  ELSE [Execute(c, FetchDecode(c)) EXCEPT !.cycle = @ + 1]
=============================================================================

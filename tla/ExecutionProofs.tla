--------------------------- MODULE ExecutionProofs ---------------------------
(***************************************************************************)
(* What TLAPS proves of the reference executor, for every decoder, program   *)
(* and size of words, cells, queues and register file.                      *)
(***************************************************************************)
EXTENDS Executor, Cli, FiniteSetTheorems, SequenceTheorems, WellFoundedInduction, TLAPS

-----------------------------------------------------------------------------
(***************************************************************************)
(* Words and registers.                                                     *)
(***************************************************************************)
LEMMA Sizes ==
  /\ CellSize \in Nat /\ CellSize > 0 /\ WordSize \in Nat /\ WordSize > 0 /\ CellSize <= WordSize
  /\ GprCount \in 1..24 /\ QueueDepth \in 1..4 /\ SsrCount \in Nat /\ SsrCount > 0
  /\ 0 \in Word /\ 0 \in Cell /\ Cell \subseteq Word
BY SizesAssumption DEF Word, Cell

(* Whatever is computed, what is kept of it is a word.                       *)
LEMMA WrapType ==
  ASSUME NEW n \in Int
  PROVE  Wrap(n) \in Word
BY Sizes DEF Wrap, Word

LEMMA CellTypes ==
  /\ \A w \in Word : Truncate(w) \in Cell
  /\ \A v \in Cell : SignExtend(v) \in Word
<1>1. \A w \in Word : Truncate(w) \in Cell
  BY Sizes DEF Truncate, Word, Cell
<1>2. ASSUME NEW v \in Cell PROVE SignExtend(v) \in Word
  <2>1. Wrap(v - CellSize) \in Word /\ v \in Word
    BY Sizes, WrapType DEF Cell
  <2>2. QED BY <2>1 DEF SignExtend
<1>3. QED BY <1>1, <1>2

LEMMA ReadGprType ==
  ASSUME NEW s \in StateType, NEW r \in Int
  PROVE  ReadGpr(s, r) \in Word
<1>1. /\ s.gpr \in [1..(GprCount - 1) -> Word] /\ s.tq \in [1..QueueDepth -> Word]
      /\ s.uq \in [1..QueueDepth -> Word]
  BY DEF StateType
<1>2. QED BY <1>1, Sizes DEF ReadGpr

LEMMA ZeroStateType == ZeroState \in StateType
<1>1. ZeroState.gpr \in [1..(GprCount - 1) -> Word] /\ ZeroState.ssr \in [0..(SsrCount - 1) -> Word]
  BY Sizes DEF ZeroState
<1>2. ZeroState.tq \in [1..QueueDepth -> Word] /\ ZeroState.uq \in [1..QueueDepth -> Word]
  BY Sizes DEF ZeroState
<1>3. QED BY <1>1, <1>2, Sizes DEF ZeroState, StateType

LEMMA PushQueueType ==
  ASSUME NEW queue \in [1..QueueDepth -> Word], NEW v \in Word
  PROVE  PushQueue(queue, v) \in [1..QueueDepth -> Word]
BY Sizes DEF PushQueue

SameRegisters(s, t) == s.gpr = t.gpr /\ s.tq = t.tq /\ s.uq = t.uq
SameControl(s, t) ==
  /\ s.insn_count = t.insn_count /\ s.pc = t.pc /\ s.blocktype = t.blocktype
  /\ s.tgt = t.tgt /\ s.carg = t.carg

(* A destination outside the register file and the queues is written         *)
(* nowhere; nothing but registers and queues changes.                        *)
LEMMA DestinationWritten ==
  ASSUME NEW s \in StateType, NEW r \in Int, NEW v \in Word
  PROVE  LET t == WriteScalarDestination(s, r, v)
         IN  /\ t \in StateType
             /\ SameControl(s, t)
             /\ t.gpr = IF r \in 1..(GprCount - 1) THEN [s.gpr EXCEPT ![r] = v] ELSE s.gpr
             /\ t.tq = IF r = 31 THEN PushQueue(s.tq, v) ELSE s.tq
             /\ t.uq = IF r = 30 THEN PushQueue(s.uq, v) ELSE s.uq
<1> DEFINE t == WriteScalarDestination(s, r, v)
<1>1. /\ s.gpr \in [1..(GprCount - 1) -> Word] /\ s.tq \in [1..QueueDepth -> Word]
      /\ s.uq \in [1..QueueDepth -> Word]
  BY DEF StateType
<1>2. PushQueue(s.tq, v) \in [1..QueueDepth -> Word] /\ PushQueue(s.uq, v) \in [1..QueueDepth -> Word]
  BY <1>1, PushQueueType
<1>3. 31 \notin 1..(GprCount - 1) /\ 30 \notin 1..(GprCount - 1)
  BY Sizes
<1>4. CASE r = 31
  BY <1>2, <1>3, <1>4 DEF WriteScalarDestination, StateType, SameControl
<1>5. CASE r = 30
  BY <1>2, <1>3, <1>5 DEF WriteScalarDestination, StateType, SameControl
<1>6. CASE r \in 1..(GprCount - 1)
  BY ZenonT(60), <1>1, <1>3, <1>6 DEF WriteScalarDestination, StateType, SameControl
<1>7. CASE r # 31 /\ r # 30 /\ r \notin 1..(GprCount - 1)
  BY <1>7 DEF WriteScalarDestination, SameControl
<1>8. QED BY <1>4, <1>5, <1>6, <1>7

-----------------------------------------------------------------------------
(***************************************************************************)
(* Memory.                                                                  *)
(***************************************************************************)
LEMMA ReadCellType ==
  ASSUME NEW memory, MemoryType(memory), NEW a
  PROVE  ReadCell(memory, a) \in Cell
BY Sizes DEF MemoryType, ReadCell

LEMMA WriteCellType ==
  ASSUME NEW memory, MemoryType(memory), NEW a \in Word, NEW v \in Cell
  PROVE  MemoryType(WriteCell(memory, a, v))
BY DEF MemoryType, WriteCell

LEMMA FilledType ==
  ASSUME NEW memory, MemoryType(memory), NEW dst \in Word, NEW v \in Cell, NEW count \in Nat
  PROVE  MemoryType(Filled(memory, dst, v, count))
<1>1. { Wrap(dst + n) : n \in 0..(count - 1) } \subseteq Word
  BY WrapType DEF Word
<1>2. QED BY <1>1 DEF MemoryType, Filled

(* A nonempty set of naturals has a least element; used to find the first    *)
(* number for which a statement fails.                                      *)
LEMMA NatHasMinimum ==
  ASSUME NEW T \in SUBSET Nat, T # {}
  PROVE  \E m \in T : \A n \in T : m <= n
<1> DEFINE R == OpToRel(<, Nat)
<1>1. \E m \in T : \A n \in T : ~ (<<n, m>> \in R)
  BY NatLessThanWellFounded, WFMin
<1>2. \A m, n \in Nat : ~ (<<n, m>> \in R) => m <= n
  BY DEF OpToRel
<1>3. QED BY <1>1, <1>2

(* One turn of the loop of MCOPY.                                            *)
CopyCell(memory, dst, src, n) ==
  WriteCell(memory, Wrap(dst + n - 1), ReadCell(memory, Wrap(src + n - 1)))

CopyLoop(after, memory, dst, src, last) ==
  after = [n \in 0..last |-> IF n = 0 THEN memory ELSE CopyCell(after[n - 1], dst, src, n)]

LEMMA CopyLoopExists ==
  ASSUME NEW memory, NEW dst, NEW src, NEW count \in Nat
  PROVE  \E after : CopyLoop(after, memory, dst, src, count)
<1> DEFINE T == { n \in Nat : ~ \E after : CopyLoop(after, memory, dst, src, n) }
<1>1. SUFFICES ASSUME T # {} PROVE FALSE
  OBVIOUS
<1>2. PICK n \in T : \A k \in T : n <= k
  <2>1. T \in SUBSET Nat
    OBVIOUS
  <2>2. QED BY <1>1, <2>1, NatHasMinimum
<1>3. n # 0
  <2>1. CopyLoop([k \in 0..0 |-> memory], memory, dst, src, 0)
    BY DEF CopyLoop
  <2>2. QED BY <1>2, <2>1
<1>4. n \in Nat /\ n - 1 \in Nat /\ n - 1 \notin T
  BY <1>2, <1>3
<1>5. PICK g : CopyLoop(g, memory, dst, src, n - 1)
  BY <1>4
<1> DEFINE h == [k \in 0..n |-> IF k = n THEN CopyCell(g[n - 1], dst, src, n) ELSE g[k]]
<1>6. ASSUME NEW k \in 0..n
      PROVE  h[k] = IF k = 0 THEN memory ELSE CopyCell(h[k - 1], dst, src, k)
  <2>1. CASE k = n
    <3>1. n - 1 \in 0..n /\ n - 1 # n
      BY <1>4
    <3>2. h[n - 1] = g[n - 1]
      BY <3>1
    <3>3. h[n] = CopyCell(g[n - 1], dst, src, n)
      BY <1>4
    <3>4. QED BY <1>3, <2>1, <3>2, <3>3
  <2>2. CASE k # n
    <3>1. k \in 0..(n - 1)
      BY <1>4, <2>2
    <3>2. h[k] = g[k] /\ (k # 0 => k - 1 \in 0..n /\ k - 1 # n)
      BY <1>4, <2>2, <3>1
    <3>3. k # 0 => h[k - 1] = g[k - 1]
      BY <3>2
    <3>4. g[k] = IF k = 0 THEN memory ELSE CopyCell(g[k - 1], dst, src, k)
      BY <1>5, <3>1 DEF CopyLoop
    <3>5. QED BY <3>2, <3>3, <3>4
  <2>3. QED BY <2>1, <2>2
<1>7. CopyLoop(h, memory, dst, src, n)
  <2>1. h = [k \in 0..n |-> h[k]]
    OBVIOUS
  <2> HIDE DEF h
  <2>2. QED BY <1>6, <2>1 DEF CopyLoop
<1>8. QED BY <1>2, <1>7

LEMMA CopiedType ==
  ASSUME NEW memory, MemoryType(memory), NEW dst \in Word, NEW src \in Word, NEW count \in Nat
  PROVE  MemoryType(Copied(memory, dst, src, count))
<1> DEFINE after == CHOOSE f : CopyLoop(f, memory, dst, src, count)
<1>1. CopyLoop(after, memory, dst, src, count)
  BY CopyLoopExists
<1>2. Copied(memory, dst, src, count) = after[count]
  BY DEF Copied, CopyLoop, CopyCell
<1> HIDE DEF after
<1> DEFINE T == { n \in 0..count : ~MemoryType(after[n]) }
<1>3. ASSUME T # {} PROVE FALSE
  <2>1. PICK n \in T : \A k \in T : n <= k
    <3>1. T \in SUBSET Nat
      OBVIOUS
    <3>2. QED BY <1>3, <3>1, NatHasMinimum
  <2>2. n # 0
    BY <1>1, <2>1 DEF CopyLoop
  <2>3. n - 1 \in 0..count /\ n - 1 \notin T /\ n \in 0..count
    BY <2>1, <2>2
  <2>4. MemoryType(after[n - 1])
    BY <2>3
  <2>5. after[n] = CopyCell(after[n - 1], dst, src, n)
    BY <1>1, <2>2, <2>3 DEF CopyLoop
  <2>6. Wrap(dst + n - 1) \in Word
    <3>1. dst + n - 1 \in Int
      BY <2>3 DEF Word
    <3>2. QED BY <3>1, WrapType
  <2>7. MemoryType(after[n])
    BY <2>4, <2>5, <2>6, ReadCellType, WriteCellType DEF CopyCell
  <2>8. QED BY <2>1, <2>7
<1>4. QED BY <1>2, <1>3

-----------------------------------------------------------------------------
(***************************************************************************)
(* Instructions.                                                            *)
(***************************************************************************)
Memories == UNION { [D -> Cell] : D \in SUBSET Word }

Record ==
  [ cycle : Nat, pc : Word, next_pc : Word, insn : Cell, op : Implemented,
    block_kind : {"scalar", "vpar", "vseq", "sys"} \cup TileHeaders, lane_id : {-1, 0},
    dst : 0..31, data : Word, mem : [addr : Word, value : Word] ]

(* A context whose program is one of P.                                      *)
Contexts(P) ==
  [ has_program : BOOLEAN, program : P, state : StateType, memory : Memories,
    committed : Seq(Record), cycle : Nat, exit_code : Nat, terminated : BOOLEAN,
    last_error : Errors ]

LEMMA MemoriesAreTyped ==
  /\ \A memory \in Memories : MemoryType(memory)
  /\ \A memory : MemoryType(memory) => memory \in Memories
<1>1. ASSUME NEW memory \in Memories PROVE MemoryType(memory)
  <2>1. PICK D \in SUBSET Word : memory \in [D -> Cell]
    BY DEF Memories
  <2>2. QED BY <2>1 DEF MemoryType
<1>2. ASSUME NEW memory, MemoryType(memory) PROVE memory \in Memories
  BY <1>2 DEF MemoryType, Memories
<1>3. QED BY <1>1, <1>2

IsInstruction(i) ==
  /\ i.len \in Nat \ {0} /\ i.imm \in Int
  /\ i.dsts \in Seq(0..31) /\ i.srcs \in Seq(0..31)

LEMMA DecodesToInstruction ==
  ASSUME NEW v \in Cell
  PROVE  IsInstruction(Decoder[v])
BY DecoderAssumption DEF IsInstruction

LEMMA OperandTypes ==
  ASSUME NEW i, IsInstruction(i), NEW k \in Nat \ {0}
  PROVE  Src(i, k) \in 0..31 /\ Dst(i) \in 0..31
<1>1. ASSUME NEW S, NEW operands \in Seq(S)
      PROVE  /\ \A n \in 1..Len(operands) : operands[n] \in S
             /\ operands # << >> => 1 \in 1..Len(operands)
  <2>1. \A n \in 1..Len(operands) : operands[n] \in S
    OBVIOUS
  <2>2. operands # << >> => Len(operands) \in Nat /\ Len(operands) # 0
    BY EmptySeq
  <2>3. QED BY <2>1, <2>2
<1>2. Src(i, k) \in 0..31
  <2>1. k <= Len(i.srcs) => i.srcs[k] \in 0..31
    BY <1>1 DEF IsInstruction
  <2>2. QED BY <2>1 DEF Src
<1>3. Dst(i) \in 0..31
  <2>1. i.dsts # << >> => i.dsts[1] \in 0..31
    BY <1>1 DEF IsInstruction
  <2>2. QED BY <2>1 DEF Dst
<1>4. QED BY <1>2, <1>3

(* What an instruction reads, and the addresses and values it makes of it.   *)
LEMMA ValueTypes ==
  ASSUME NEW s \in StateType, NEW i, IsInstruction(i)
  PROVE  /\ \A k \in {1, 2, 3} : ReadGpr(s, Src(i, k)) \in Word
         /\ LoadAddress(s, i) \in Word /\ StoreAddress(s, i) \in Word
         /\ StoreValue(s, i) \in Cell
         /\ NextPc(s, i) \in Word /\ Wrap(s.pc + i.imm) \in Word
<1>1. \A k \in {1, 2, 3} : ReadGpr(s, Src(i, k)) \in Word
  <2>1. ASSUME NEW k \in {1, 2, 3} PROVE ReadGpr(s, Src(i, k)) \in Word
    <3>1. Src(i, k) \in Int
      BY OperandTypes
    <3>2. QED BY <3>1, ReadGprType
  <2>2. QED BY <2>1
<1>2. \A w \in Word : w \in Int /\ w + i.imm \in Int /\ w + i.len \in Int
  BY DEF IsInstruction, Word
<1>3. s.pc \in Word
  BY DEF StateType
<1>4. LoadAddress(s, i) \in Word /\ StoreAddress(s, i) \in Word
  BY <1>1, <1>2, WrapType DEF LoadAddress, StoreAddress
<1>5. NextPc(s, i) \in Word /\ Wrap(s.pc + i.imm) \in Word
  BY <1>2, <1>3, WrapType DEF NextPc
<1>6. StoreValue(s, i) \in Cell
  BY <1>1, CellTypes DEF StoreValue
<1>7. QED BY <1>1, <1>4, <1>5, <1>6

LEMMA ResultType ==
  ASSUME NEW c, c.state \in StateType, c.memory \in Memories,
         NEW i, IsInstruction(i), i.op \in Computing
  PROVE  Result(c, i) \in Word
<1>1. i.imm \in Int /\ ReadGpr(c.state, Src(i, 1)) \in Word
  BY ValueTypes DEF IsInstruction
<1>2. CASE i.op = "MOVI"
  BY <1>1, <1>2, WrapType DEF Result
<1>3. CASE i.op = "C.MOVR"
  BY <1>1, <1>3 DEF Result
<1>4. CASE i.op = "ADDI"
  <2>1. ReadGpr(c.state, Src(i, 1)) + i.imm \in Int
    BY <1>1 DEF Word
  <2>2. QED BY <1>4, <2>1, WrapType DEF Result
<1>5. CASE i.op = "LWI"
  <2>1. ReadCell(c.memory, LoadAddress(c.state, i)) \in Cell
    BY MemoriesAreTyped, ReadCellType
  <2>2. QED BY <1>5, <2>1, CellTypes DEF Result
<1>6. QED BY <1>2, <1>3, <1>4, <1>5 DEF Computing

-----------------------------------------------------------------------------
(***************************************************************************)
(* What Execute() does to the state, component by component.                 *)
(***************************************************************************)
ControlAfter(s, i, t) ==
  /\ t.insn_count = s.insn_count + 1
  /\ t.pc = IF i.op = "C.BSTOP" /\ Taken(s) THEN s.tgt ELSE NextPc(s, i)
  /\ t.blocktype = IF i.op \in {"C.BSTART.STD", "C.BSTOP"} THEN 0
                   ELSE IF i.op = "C.BSTART.DIRECT" THEN 1
                   ELSE IF i.op = "C.BSTART.COND"   THEN 2
                   ELSE s.blocktype
  /\ t.tgt = IF i.op \in {"C.BSTART.DIRECT", "C.BSTART.COND"} THEN Wrap(s.pc + i.imm) ELSE s.tgt
  /\ i.op = "C.BSTOP" => t.carg = 0
  /\ i.op \notin {"C.BSTOP", "SETC.NE", "SETC.LTU"} => t.carg = s.carg

RegistersAfter(c, i, t) ==
  LET s == c.state
      r == IF i.op \in Computing THEN Dst(i) ELSE 0
  IN  /\ t.gpr = IF r \in 1..(GprCount - 1) THEN [s.gpr EXCEPT ![r] = Result(c, i)] ELSE s.gpr
      /\ t.tq = IF r = 31 THEN PushQueue(s.tq, Result(c, i)) ELSE s.tq
      /\ t.uq = IF r = 30 THEN PushQueue(s.uq, Result(c, i)) ELSE s.uq

StateAfter(c, i, t) ==
  t \in StateType /\ ControlAfter(c.state, i, t) /\ RegistersAfter(c, i, t)

(* The state in which NextState() starts: counted, kind and lane resolved.   *)
LEMMA BlockKindType ==
  ASSUME NEW s \in StateType, NEW i, i.op \in Implemented
  PROVE  /\ BlockKind(s, i) \in {"scalar", "vpar", "vseq", "sys"} \cup TileHeaders
         /\ LaneId(BlockKind(s, i)) \in {-1, 0}
<1>1. s.block_kind \in {"scalar", "vpar", "vseq", "sys"} \cup TileHeaders
  BY DEF StateType
<1>2. BlockKind(s, i) \in {"scalar", "vpar", "vseq", "sys"} \cup TileHeaders
  BY <1>1 DEF BlockKind
<1>3. QED BY <1>2 DEF LaneId

(* Blocks are opened and closed without touching a register.                 *)
LEMMA BlockOpened ==
  ASSUME NEW a \in StateType, NEW pc \in Word, NEW tgt \in Word, NEW bpc \in Word, NEW type \in 0..2,
         NEW t, t = [a EXCEPT !.tgt = tgt, !.bpc = bpc, !.blocktype = type, !.pc = pc]
  PROVE  t \in StateType /\ SameRegisters(a, t)
<1> DEFINE u == [a EXCEPT !.tgt = tgt, !.bpc = bpc]
<1>1. u \in StateType /\ SameRegisters(a, u)
  BY DEF StateType, SameRegisters
<1>2. t = [u EXCEPT !.blocktype = type, !.pc = pc]
  BY DEF StateType
<1> HIDE DEF u
<1>3. t \in StateType /\ SameRegisters(u, t)
  BY ZenonT(60), <1>1, <1>2 DEF StateType, SameRegisters
<1>4. QED BY <1>1, <1>3 DEF SameRegisters

LEMMA BlockClosed ==
  ASSUME NEW a \in StateType, NEW pc \in Word, NEW type \in 0..2, NEW d \in {0, 1},
         NEW t, t = [a EXCEPT !.pc = pc, !.blocktype = type, !.carg = d]
  PROVE  t \in StateType /\ SameRegisters(a, t)
<1> DEFINE u == [a EXCEPT !.pc = pc, !.blocktype = type]
<1>1. u \in StateType /\ SameRegisters(a, u)
  BY DEF StateType, SameRegisters
<1>2. t = [u EXCEPT !.carg = d]
  BY DEF StateType
<1> HIDE DEF u
<1>3. t \in StateType /\ SameRegisters(u, t)
  BY <1>1, <1>2 DEF StateType, SameRegisters
<1>4. QED BY <1>1, <1>3 DEF SameRegisters

LEMMA BlockStarted ==
  ASSUME NEW a \in StateType, NEW bpc \in Word, NEW type \in 0..2, NEW lane \in {-1, 0},
         NEW t, t = [a EXCEPT !.bpc = bpc, !.blocktype = type, !.block_kind = "scalar", !.lane_id = lane]
  PROVE  t \in StateType /\ SameRegisters(a, t)
<1> DEFINE u == [a EXCEPT !.bpc = bpc, !.blocktype = type]
<1>1. u \in StateType /\ SameRegisters(a, u)
  BY DEF StateType, SameRegisters
<1>2. t = [u EXCEPT !.block_kind = "scalar", !.lane_id = lane]
  BY DEF StateType
<1> HIDE DEF u
<1>3. t \in StateType /\ SameRegisters(u, t)
  BY <1>1, <1>2 DEF StateType, SameRegisters
<1>4. QED BY <1>1, <1>3 DEF SameRegisters

LEMMA NextStateEffect ==
  ASSUME NEW c, c.state \in StateType, c.memory \in Memories,
         NEW i, IsInstruction(i), i.op \in Implemented
  PROVE  StateAfter(c, i, NextState(c, i))
<1> DEFINE s == c.state
           kind == BlockKind(s, i)
           a == [s EXCEPT !.insn_count = @ + 1, !.block_kind = kind, !.lane_id = LaneId(kind)]
           b == [a EXCEPT !.pc = NextPc(s, i)]
           t == NextState(c, i)
<1>1. /\ a \in StateType /\ b \in StateType
      /\ a.insn_count = s.insn_count + 1 /\ b.insn_count = s.insn_count + 1
      /\ a.pc = s.pc /\ b.pc = NextPc(s, i)
      /\ a.blocktype = s.blocktype /\ a.tgt = s.tgt /\ a.carg = s.carg /\ SameRegisters(s, a)
      /\ b.blocktype = s.blocktype /\ b.tgt = s.tgt /\ b.carg = s.carg /\ SameRegisters(s, b)
  <2>1. /\ kind \in {"scalar", "vpar", "vseq", "sys"} \cup TileHeaders
        /\ LaneId(kind) \in {-1, 0} /\ NextPc(s, i) \in Word
    BY BlockKindType, ValueTypes
  <2> DEFINE lane == LaneId(kind)   pc == NextPc(s, i)
  <2>2. s \in StateType /\ s.insn_count + 1 \in Nat
    BY DEF StateType
  <2> HIDE DEF kind, lane, pc
  <2>3. /\ a \in StateType /\ a.insn_count = s.insn_count + 1 /\ a.pc = s.pc
        /\ a.blocktype = s.blocktype /\ a.tgt = s.tgt /\ a.carg = s.carg /\ SameRegisters(s, a)
    BY <2>1, <2>2 DEF StateType, SameRegisters, lane
  <2> HIDE DEF a
  <2>4. /\ b \in StateType /\ b.insn_count = a.insn_count /\ b.pc = pc
        /\ b.blocktype = a.blocktype /\ b.tgt = a.tgt /\ b.carg = a.carg /\ SameRegisters(a, b)
    BY <2>1, <2>3 DEF StateType, SameRegisters, pc
  <2> HIDE DEF b
  <2>5. QED BY <2>3, <2>4 DEF SameRegisters, pc
<1>2. /\ NextPc(a, i) = NextPc(s, i) /\ Taken(a) = Taken(s) /\ s.pc \in Word
      /\ NextPc(s, i) \in Word /\ Wrap(s.pc + i.imm) \in Word
  <2>1. a.pc = s.pc /\ a.blocktype = s.blocktype /\ a.carg = s.carg
    BY <1>1
  <2>2. NextPc(a, i) = NextPc(s, i) /\ Taken(a) = Taken(s)
    BY <2>1 DEF NextPc, Taken
  <2>3. QED BY <2>2, ValueTypes DEF StateType
<1> HIDE DEF a, b
<1>3. i.op = "C.BSTART.STD" =>
        t = [b EXCEPT !.bpc = s.pc, !.blocktype = 0, !.block_kind = "scalar", !.lane_id = -1]
  BY DEF NextState, a, b, Computing
<1>17. i.op \in {"C.BSTART.VPAR", "C.BSTART.VSEQ"} => t = [b EXCEPT !.bpc = s.pc]
  BY DEF NextState, a, b, Computing
<1>18. i.op = "C.BSTART.DIRECT" => t = OpenBlock(a, i, 1)
  BY DEF NextState, a, Computing
<1>19. i.op = "C.BSTART.COND" => t = OpenBlock(a, i, 2)
  BY DEF NextState, a, Computing
<1>20. i.op = "C.BSTOP" => t = CloseBlock(a, i)
  BY DEF NextState, a, Computing
<1>4. /\ i.op \in Computing => t = WriteScalarDestination(b, Dst(i), Result(c, i))
      /\ i.op = "SETC.NE" =>
           t = [b EXCEPT !.carg = IF ReadGpr(s, Src(i, 1)) # ReadGpr(s, Src(i, 2)) THEN 1 ELSE 0]
      /\ i.op = "SETC.LTU" =>
           t = [b EXCEPT !.carg = IF ReadGpr(s, Src(i, 1)) < ReadGpr(s, Src(i, 2)) THEN 1 ELSE 0]
      /\ i.op = "SSRSET" =>
           t = IF i.imm \in 0..(SsrCount - 1) THEN [b EXCEPT !.ssr[i.imm] = ReadGpr(s, Src(i, 1))]
                                              ELSE b
      /\ i.op = "B.TEXT" => t = [b EXCEPT !.block_kind = "tlsu"]
  BY DEF NextState, a, b, Computing
<1>5. i.op \in {"SWI", "MCOPY", "MSET"} \cup TileHeaders => t = b
  BY DEF NextState, a, b, Computing, TileHeaders
<1> SUFFICES StateAfter(c, i, t)
  OBVIOUS
<1> HIDE DEF t
<1>6. CASE i.op = "C.BSTART.STD"
  <2>1. t = [b EXCEPT !.bpc = s.pc, !.blocktype = 0, !.block_kind = "scalar", !.lane_id = -1]
    BY Zenon, <1>3, <1>6
  <2>2. t \in StateType /\ SameRegisters(b, t)
    <3>1. b \in StateType /\ s.pc \in Word /\ 0 \in 0..2 /\ -1 \in {-1, 0}
      BY <1>1, <1>2
    <3>2. QED BY ZenonT(60), <2>1, <3>1, BlockStarted
  <2>3. t.insn_count = b.insn_count /\ t.pc = b.pc /\ t.blocktype = 0 /\ t.tgt = b.tgt /\ t.carg = b.carg
    BY <1>1, <2>1 DEF StateType
  <2>4. QED BY <1>1, <1>6, <2>2, <2>3 DEF StateAfter, ControlAfter, RegistersAfter, SameRegisters, Computing
<1>7. CASE i.op \in {"C.BSTART.VPAR", "C.BSTART.VSEQ"}
  <2>1. t = [b EXCEPT !.bpc = s.pc]
    BY <1>17, <1>7
  <2>2. QED BY SMTT(30), <1>1, <1>2, <1>7, <2>1 DEF StateAfter, ControlAfter, RegistersAfter, SameRegisters, StateType, Computing
<1>8. CASE i.op = "C.BSTART.DIRECT"
  <2>1. t = OpenBlock(a, i, 1)
    BY Zenon, <1>18, <1>8
  <2>2. t \in StateType /\ SameRegisters(a, t)
    <3>1. t = [a EXCEPT !.tgt = Wrap(s.pc + i.imm), !.bpc = s.pc, !.blocktype = 1, !.pc = NextPc(s, i)]
      BY <1>1, <1>2, <2>1 DEF OpenBlock
    <3>2. a \in StateType /\ s.pc \in Word /\ Wrap(s.pc + i.imm) \in Word /\ NextPc(s, i) \in Word
      BY <1>1, <1>2
    <3>3. 1 \in 0..2
      OBVIOUS
    <3>4. QED BY ZenonT(60), <3>1, <3>2, <3>3, BlockOpened
  <2>3. /\ t.insn_count = a.insn_count /\ t.pc = NextPc(s, i) /\ t.blocktype = 1
        /\ t.tgt = Wrap(s.pc + i.imm) /\ t.carg = a.carg
    BY <1>1, <1>2, <2>1 DEF StateType, OpenBlock
  <2>4. RegistersAfter(c, i, t)
    <3>1. i.op \notin Computing /\ 0 \notin 1..(GprCount - 1)
      BY <1>8, Sizes DEF Computing
    <3>2. s.gpr = t.gpr /\ s.tq = t.tq /\ s.uq = t.uq
      BY <1>1, <2>2 DEF SameRegisters
    <3>3. QED BY <3>1, <3>2 DEF RegistersAfter
  <2>5. ControlAfter(s, i, t)
    BY <1>1, <1>8, <2>3 DEF ControlAfter
  <2>6. QED BY <2>2, <2>4, <2>5 DEF StateAfter
<1>9. CASE i.op = "C.BSTART.COND"
  <2>1. t = OpenBlock(a, i, 2)
    BY Zenon, <1>19, <1>9
  <2>2. t \in StateType /\ SameRegisters(a, t)
    <3>1. t = [a EXCEPT !.tgt = Wrap(s.pc + i.imm), !.bpc = s.pc, !.blocktype = 2, !.pc = NextPc(s, i)]
      BY <1>1, <1>2, <2>1 DEF OpenBlock
    <3>2. a \in StateType /\ s.pc \in Word /\ Wrap(s.pc + i.imm) \in Word /\ NextPc(s, i) \in Word
      BY <1>1, <1>2
    <3>3. 2 \in 0..2
      OBVIOUS
    <3>4. QED BY ZenonT(60), <3>1, <3>2, <3>3, BlockOpened
  <2>3. /\ t.insn_count = a.insn_count /\ t.pc = NextPc(s, i) /\ t.blocktype = 2
        /\ t.tgt = Wrap(s.pc + i.imm) /\ t.carg = a.carg
    BY <1>1, <1>2, <2>1 DEF StateType, OpenBlock
  <2>4. RegistersAfter(c, i, t)
    <3>1. i.op \notin Computing /\ 0 \notin 1..(GprCount - 1)
      BY <1>9, Sizes DEF Computing
    <3>2. s.gpr = t.gpr /\ s.tq = t.tq /\ s.uq = t.uq
      BY <1>1, <2>2 DEF SameRegisters
    <3>3. QED BY <3>1, <3>2 DEF RegistersAfter
  <2>5. ControlAfter(s, i, t)
    BY <1>1, <1>9, <2>3 DEF ControlAfter
  <2>6. QED BY <2>2, <2>4, <2>5 DEF StateAfter
<1>10. CASE i.op = "C.BSTOP"
  <2>1. t = CloseBlock(a, i)
    BY Zenon, <1>20, <1>10
  <2>2. t \in StateType /\ SameRegisters(a, t)
    <3>1. a.tgt \in Word /\ NextPc(a, i) \in Word
      BY <1>1, <1>2 DEF StateType
    <3>2. PICK w \in Word : t = [a EXCEPT !.pc = w, !.blocktype = 0, !.carg = 0]
      BY <2>1, <3>1 DEF CloseBlock
    <3>3. a \in StateType /\ 0 \in 0..2 /\ 0 \in {0, 1}
      BY <1>1
    <3>4. QED BY ZenonT(60), <3>2, <3>3, BlockClosed
  <2>3. /\ t.insn_count = a.insn_count /\ t.pc = IF Taken(s) THEN s.tgt ELSE NextPc(s, i)
        /\ t.blocktype = 0 /\ t.tgt = a.tgt /\ t.carg = 0
    BY <1>1, <1>2, <2>1 DEF StateType, CloseBlock
  <2>4. RegistersAfter(c, i, t)
    <3>1. i.op \notin Computing /\ 0 \notin 1..(GprCount - 1)
      BY <1>10, Sizes DEF Computing
    <3>2. s.gpr = t.gpr /\ s.tq = t.tq /\ s.uq = t.uq
      BY <1>1, <2>2 DEF SameRegisters
    <3>3. QED BY <3>1, <3>2 DEF RegistersAfter
  <2>5. ControlAfter(s, i, t)
    BY <1>1, <1>10, <2>3 DEF ControlAfter
  <2>6. QED BY <2>2, <2>4, <2>5 DEF StateAfter
<1>11. CASE i.op \in Computing
  <2>1. t = WriteScalarDestination(b, Dst(i), Result(c, i)) /\ Result(c, i) \in Word /\ Dst(i) \in Int
    <3>1. Dst(i) \in 0..31
      BY OperandTypes
    <3>2. QED BY <1>4, <1>11, <3>1, ResultType
  <2>2. /\ t \in StateType
        /\ SameControl(b, t)
        /\ t.gpr = IF Dst(i) \in 1..(GprCount - 1) THEN [b.gpr EXCEPT ![Dst(i)] = Result(c, i)] ELSE b.gpr
        /\ t.tq = IF Dst(i) = 31 THEN PushQueue(b.tq, Result(c, i)) ELSE b.tq
        /\ t.uq = IF Dst(i) = 30 THEN PushQueue(b.uq, Result(c, i)) ELSE b.uq
    BY <1>1, <2>1, DestinationWritten
  <2>3. RegistersAfter(c, i, t)
    BY <1>1, <1>11, <2>2 DEF RegistersAfter, SameRegisters
  <2>4. ControlAfter(s, i, t)
    BY <1>1, <1>11, <2>2 DEF ControlAfter, SameControl, Computing
  <2>5. QED BY <2>2, <2>3, <2>4 DEF StateAfter, t
<1>12. CASE i.op \in {"SETC.NE", "SETC.LTU"}
  <2>1. PICK d \in {0, 1} : t = [b EXCEPT !.carg = d]
    BY <1>4, <1>12
  <2>2. QED BY SMTT(30), <1>1, <1>2, <1>12, <2>1 DEF StateAfter, ControlAfter, RegistersAfter, SameRegisters, StateType, Computing
<1>13. CASE i.op = "SSRSET"
  <2>1. PICK f \in [0..(SsrCount - 1) -> Word] : t = [b EXCEPT !.ssr = f]
    <3>1. b.ssr \in [0..(SsrCount - 1) -> Word] /\ ReadGpr(s, Src(i, 1)) \in Word
      BY <1>1, ValueTypes DEF StateType
    <3>2. /\ [b.ssr EXCEPT ![i.imm] = ReadGpr(s, Src(i, 1))] \in [0..(SsrCount - 1) -> Word]
          /\ b = [b EXCEPT !.ssr = b.ssr]
      BY <1>1, <3>1 DEF StateType
    <3>3. QED BY <1>4, <1>13, <3>1, <3>2
  <2>2. QED BY SMTT(30), <1>1, <1>2, <1>13, <2>1 DEF StateAfter, ControlAfter, RegistersAfter, SameRegisters, StateType, Computing
<1>14. CASE i.op = "B.TEXT"
  <2>1. t = [b EXCEPT !.block_kind = "tlsu"]
    BY <1>4, <1>14
  <2>2. QED BY <1>1, <1>2, <1>14, <2>1
            DEF StateAfter, ControlAfter, RegistersAfter, SameRegisters, StateType, Computing, TileHeaders
<1>15. CASE i.op \in {"SWI", "MCOPY", "MSET"} \cup TileHeaders
  <2>1. t = b
    BY <1>5, <1>15
  <2>2. QED BY <1>1, <1>2, <1>15, <2>1
            DEF StateAfter, ControlAfter, RegistersAfter, SameRegisters, StateType, Computing, TileHeaders
<1>16. QED BY <1>6, <1>7, <1>8, <1>9, <1>10, <1>11, <1>12, <1>13, <1>14, <1>15 DEF Implemented, t

-----------------------------------------------------------------------------
(***************************************************************************)
(* What Step() does to the context: it terminates it, or commits one          *)
(* instruction.                                                             *)
(***************************************************************************)
MemoryAfter(c, i) ==
  IF i.op = "SWI" THEN WriteCell(NextMemory(c, i), StoreAddress(c.state, i), StoreValue(c.state, i))
                  ELSE NextMemory(c, i)

SameProgram(c, d) == d.has_program = c.has_program /\ d.program = c.program

SameArchitecture(c, d) ==
  d.state = c.state /\ d.memory = c.memory /\ d.committed = c.committed

Commits(c, d) ==
  /\ c.state.pc \in DOMAIN c.memory /\ FetchDecode(c).op \in Implemented
  /\ d.state = NextState(c, FetchDecode(c))
  /\ d.memory = MemoryAfter(c, FetchDecode(c))
  /\ d.committed = Append(c.committed, MakeMinstRecord(c, FetchDecode(c)))

(* An error is reported exactly when the context is terminated.              *)
Reported(c) == c.terminated <=> c.last_error # ""

LEMMA TerminateType ==
  ASSUME NEW P, NEW c \in Contexts(P), NEW code \in Nat, NEW reason \in Errors, reason # ""
  PROVE  LET d == RequestTerminate(c, code, reason)
         IN  /\ d \in Contexts(P) /\ Reported(d) /\ SameArchitecture(c, d)
             /\ SameProgram(c, d) /\ d.cycle = c.cycle
BY DEF Contexts, RequestTerminate, Reported, SameArchitecture, SameProgram

LEMMA ExitCodeType ==
  ASSUME NEW v \in Cell
  PROVE  ExitCodeOf(v) \in Nat
<1>1. v \in Nat /\ StatusSize \in Nat /\ StatusSize > 0
  BY SizesAssumption DEF Cell
<1>2. v \div StatusSize \in Nat
  BY <1>1
<1>3. QED BY <1>2 DEF ExitCodeOf

LEMMA FinisherType ==
  ASSUME NEW P, NEW c \in Contexts(P), Reported(c), NEW a \in Word, NEW v \in Cell
  PROVE  LET d == HandleTestFinisherWrite(c, a, v)
         IN  /\ d \in Contexts(P) /\ Reported(d) /\ SameArchitecture(c, d)
             /\ SameProgram(c, d) /\ d.cycle = c.cycle
<1> DEFINE d == HandleTestFinisherWrite(c, a, v)   code == ExitCodeOf(v)
<1>1. code \in Nat /\ {"finisher_pass", "finisher_fail", "finisher_reset"} \subseteq Errors \ {""}
  BY ExitCodeType DEF Errors
<1>2. \/ d = c
      \/ \E reason \in {"finisher_pass", "finisher_fail", "finisher_reset"} :
           d = RequestTerminate(c, code, reason)
  BY SizesAssumption DEF HandleTestFinisherWrite
<1> SUFFICES /\ d \in Contexts(P) /\ Reported(d) /\ SameArchitecture(c, d)
             /\ SameProgram(c, d) /\ d.cycle = c.cycle
  OBVIOUS
<1> HIDE DEF d, code
<1>3. CASE d = c
  BY <1>3 DEF SameArchitecture, SameProgram
<1>4. ASSUME NEW reason \in {"finisher_pass", "finisher_fail", "finisher_reset"},
             d = RequestTerminate(c, code, reason)
      PROVE  /\ d \in Contexts(P) /\ Reported(d) /\ SameArchitecture(c, d)
             /\ SameProgram(c, d) /\ d.cycle = c.cycle
  BY ZenonT(60), <1>1, <1>4, TerminateType
<1>5. QED BY <1>2, <1>3, <1>4

LEMMA NextMemoryType ==
  ASSUME NEW c, c.state \in StateType, c.memory \in Memories,
         NEW i, IsInstruction(i)
  PROVE  NextMemory(c, i) \in Memories /\ MemoryAfter(c, i) \in Memories
<1> DEFINE V(k) == ReadGpr(c.state, Src(i, k))
<1>1. V(1) \in Word /\ V(2) \in Word /\ V(3) \in Word
  BY ValueTypes
<1>2. V(3) \in Nat /\ Truncate(V(2)) \in Cell
  BY <1>1, CellTypes DEF Word
<1>3. NextMemory(c, i) = CASE i.op = "MCOPY" -> Copied(c.memory, V(1), V(2), V(3))
                           [] i.op = "MSET"  -> Filled(c.memory, V(1), Truncate(V(2)), V(3))
                           [] OTHER -> c.memory
  BY DEF NextMemory
<1> HIDE DEF V
<1>4. MemoryType(c.memory)
  BY MemoriesAreTyped
<1>5. MemoryType(Copied(c.memory, V(1), V(2), V(3)))
  BY <1>1, <1>2, <1>4, CopiedType
<1>6. MemoryType(Filled(c.memory, V(1), Truncate(V(2)), V(3)))
  BY <1>1, <1>2, <1>4, FilledType
<1>7. MemoryType(NextMemory(c, i))
  BY <1>3, <1>4, <1>5, <1>6
<1>8. MemoryType(MemoryAfter(c, i))
  <2>1. StoreAddress(c.state, i) \in Word /\ StoreValue(c.state, i) \in Cell
    BY ValueTypes
  <2>2. QED BY <1>7, <2>1, WriteCellType DEF MemoryAfter
<1>9. QED BY <1>7, <1>8, MemoriesAreTyped

LEMMA RecordType ==
  ASSUME NEW P, NEW c \in Contexts(P), c.state.pc \in DOMAIN c.memory,
         NEW i, IsInstruction(i), i.op \in Implemented
  PROVE  MakeMinstRecord(c, i) \in Record
<1>1. c.state \in StateType /\ c.memory \in Memories /\ c.cycle \in Nat
  BY DEF Contexts
<1> DEFINE s == c.state   r == MakeMinstRecord(c, i)
<1>2. s.pc \in Word /\ NextPc(s, i) \in Word
  BY <1>1, ValueTypes DEF StateType
<1>3. c.memory[s.pc] \in Cell
  BY <1>1, MemoriesAreTyped DEF MemoryType
<1>4. /\ r.block_kind \in {"scalar", "vpar", "vseq", "sys"} \cup TileHeaders
      /\ r.lane_id \in {-1, 0}
  <2>1. /\ BlockKind(s, i) \in {"scalar", "vpar", "vseq", "sys"} \cup TileHeaders
        /\ LaneId(BlockKind(s, i)) \in {-1, 0}
    BY <1>1, BlockKindType
  <2>2. QED BY <2>1 DEF MakeMinstRecord, TileHeaders
<1>5. r.dst \in 0..31
  <2>1. Dst(i) \in 0..31
    BY OperandTypes
  <2>2. QED BY <2>1 DEF MakeMinstRecord
<1>6. i.op \in Computing => Result(c, i) \in Word
  BY <1>1, ResultType
<1>7. r.data \in Word
  BY <1>6, Sizes DEF MakeMinstRecord
<1>8. r.mem \in [addr : Word, value : Word]
  <2>1. LoadAddress(s, i) \in Word /\ StoreAddress(s, i) \in Word /\ StoreValue(s, i) \in Word
    BY <1>1, ValueTypes, Sizes
  <2>2. i.op = "LWI" => Result(c, i) \in Word
    BY <1>6 DEF Computing
  <2>3. r.mem = CASE i.op = "LWI" -> [addr |-> LoadAddress(s, i), value |-> Result(c, i)]
                  [] i.op = "SWI" -> [addr |-> StoreAddress(s, i), value |-> StoreValue(s, i)]
                  [] OTHER -> [addr |-> 0, value |-> 0]
    BY DEF MakeMinstRecord
  <2> HIDE DEF s, r
  <2>4. QED BY <2>1, <2>2, <2>3, Sizes
<1>9. r = [ cycle |-> c.cycle, pc |-> s.pc, next_pc |-> NextPc(s, i), insn |-> c.memory[s.pc],
            op |-> i.op, block_kind |-> r.block_kind, lane_id |-> r.lane_id, dst |-> r.dst,
            data |-> r.data, mem |-> r.mem ]
  BY DEF MakeMinstRecord
<1> SUFFICES r \in Record
  OBVIOUS
<1> HIDE DEF r, s
<1>10. QED BY <1>1, <1>2, <1>3, <1>4, <1>5, <1>7, <1>8, <1>9 DEF Record

LEMMA ExecuteEffect ==
  ASSUME NEW P, NEW c \in Contexts(P), Reported(c), c.state.pc \in DOMAIN c.memory
  PROVE  LET d == Execute(c, FetchDecode(c))
         IN  /\ d \in Contexts(P) /\ Reported(d) /\ SameProgram(c, d) /\ d.cycle = c.cycle
             /\ SameArchitecture(c, d) \/ Commits(c, d)
<1> DEFINE i == FetchDecode(c)   d == Execute(c, i)
           done == [c EXCEPT !.state = NextState(c, i), !.memory = NextMemory(c, i)]
           record == MakeMinstRecord(c, i)
           a == StoreAddress(c.state, i)
           v == StoreValue(c.state, i)
           stored == [done EXCEPT !.memory = WriteCell(@, a, v)]
           end == IF i.op = "SWI" THEN Write32(done, a, v) ELSE done
<1>1. IsInstruction(i)
  <2>1. c.memory[c.state.pc] \in Cell
    BY MemoriesAreTyped DEF MemoryType, Contexts
  <2>2. QED BY <2>1, DecodesToInstruction DEF FetchDecode
<1>2. c.state \in StateType /\ c.memory \in Memories
  BY DEF Contexts
<1>3. CASE i.op \notin Implemented
  <2>1. d = RequestTerminate(c, 1, "unsupported_instruction")
    BY <1>3 DEF Execute, Unsupported
  <2>2. 1 \in Nat /\ "unsupported_instruction" \in Errors /\ "unsupported_instruction" # ""
    BY DEF Errors
  <2> HIDE DEF i, d
  <2>3. /\ d \in Contexts(P) /\ Reported(d) /\ SameArchitecture(c, d)
        /\ SameProgram(c, d) /\ d.cycle = c.cycle
    BY <2>1, <2>2, TerminateType
  <2>4. QED BY <2>3 DEF d, i
<1>4. CASE i.op \in Implemented
  <2>1. d = AppendRecord(end, record)
    BY <1>4 DEF Execute
  <2>2. /\ done \in Contexts(P) /\ Reported(done) /\ done.committed = c.committed
        /\ SameProgram(c, done) /\ done.cycle = c.cycle /\ done.memory = NextMemory(c, i)
        /\ done.state = NextState(c, i)
    <3>1. NextState(c, i) \in StateType
      BY <1>1, <1>2, <1>4, NextStateEffect DEF StateAfter
    <3>2. NextMemory(c, i) \in Memories
      BY <1>1, <1>2, NextMemoryType
    <3> HIDE DEF i
    <3>3. QED BY <3>1, <3>2 DEF Contexts, Reported, SameProgram
  <2>3. a \in Word /\ v \in Cell
    BY <1>1, <1>2, ValueTypes
  <2>4. record \in Record
    BY <1>1, <1>4, RecordType
  <2>5. MemoryAfter(c, i) = IF i.op = "SWI" THEN WriteCell(NextMemory(c, i), a, v) ELSE NextMemory(c, i)
    BY DEF MemoryAfter
  <2>6. MemoryAfter(c, i) \in Memories
    BY <1>1, <1>2, NextMemoryType
  <2> HIDE DEF done, a, v, i, record
  <2>7. /\ end \in Contexts(P) /\ Reported(end) /\ end.state = NextState(c, i)
        /\ end.memory = MemoryAfter(c, i) /\ end.committed = c.committed
        /\ SameProgram(c, end) /\ end.cycle = c.cycle
    <3>1. CASE i.op # "SWI"
      BY <2>2, <2>5, <3>1
    <3>2. CASE i.op = "SWI"
      <4>1. end = HandleTestFinisherWrite(stored, a, v)
        BY <3>2 DEF Write32
      <4>2. WriteCell(done.memory, a, v) = MemoryAfter(c, i)
        BY <2>2, <2>5, <3>2
      <4>3. /\ stored \in Contexts(P) /\ Reported(stored) /\ stored.state = NextState(c, i)
            /\ stored.memory = MemoryAfter(c, i) /\ stored.committed = c.committed
            /\ SameProgram(c, stored) /\ stored.cycle = c.cycle
        BY <2>2, <2>6, <4>2 DEF Contexts, Reported, SameProgram
      <4> HIDE DEF stored, end
      <4>4. /\ end \in Contexts(P) /\ Reported(end) /\ SameArchitecture(stored, end)
            /\ SameProgram(stored, end) /\ end.cycle = stored.cycle
        BY <2>3, <4>1, <4>3, FinisherType
      <4>5. QED BY <4>3, <4>4 DEF SameArchitecture, SameProgram
    <3>3. QED BY <3>1, <3>2
  <2> HIDE DEF end
  <2>8. /\ d \in Contexts(P) /\ Reported(d) /\ d.state = end.state /\ d.memory = end.memory
        /\ d.committed = Append(c.committed, record)
        /\ SameProgram(c, d) /\ d.cycle = c.cycle
    <3>1. Append(end.committed, record) \in Seq(Record)
      BY <2>4, <2>7, AppendProperties DEF Contexts
    <3> HIDE DEF d
    <3>2. QED BY <2>1, <2>7, <3>1 DEF Contexts, Reported, AppendRecord, SameProgram
  <2> HIDE DEF d
  <2>9. Commits(c, d)
    BY <1>4, <2>7, <2>8 DEF Commits, i, record
  <2>10. QED BY <2>8, <2>9 DEF d, i
<1>5. QED BY <1>3, <1>4

LEMMA StepEffect ==
  ASSUME NEW P, NEW c \in Contexts(P), Reported(c), NEW stop_pc
  PROVE  LET d == Step(c, stop_pc)
         IN  /\ d \in Contexts(P) /\ Reported(d) /\ SameProgram(c, d)
             /\ SameArchitecture(c, d) \/ Commits(c, d)
<1> DEFINE d == Step(c, stop_pc)
           Good(e) == /\ e \in Contexts(P) /\ Reported(e) /\ SameProgram(c, e)
                      /\ SameArchitecture(c, e) \/ Commits(c, e)
<1>1. CASE c.terminated
  <2>1. d = c
    BY <1>1 DEF Step
  <2>2. QED BY <2>1 DEF SameArchitecture, SameProgram
<1>2. CASE ~c.terminated /\ stop_pc = c.state.pc
  <2>1. d = RequestTerminate(c, c.exit_code, "stop_pc")
    BY <1>2 DEF Step
  <2>2. c.exit_code \in Nat /\ "stop_pc" \in Errors /\ "stop_pc" # ""
    BY DEF Errors, Contexts
  <2> HIDE DEF d
  <2>3. /\ d \in Contexts(P) /\ Reported(d) /\ SameArchitecture(c, d)
        /\ SameProgram(c, d) /\ d.cycle = c.cycle
    BY <2>1, <2>2, TerminateType
  <2>4. QED BY <2>3 DEF d
<1>3. CASE ~c.terminated /\ stop_pc # c.state.pc /\ ~Decodable(c)
  <2>1. d = RequestTerminate(c, 1, "fetch_decode_failed")
    BY <1>3 DEF Step
  <2>2. 1 \in Nat /\ "fetch_decode_failed" \in Errors /\ "fetch_decode_failed" # ""
    BY DEF Errors
  <2> HIDE DEF d
  <2>3. /\ d \in Contexts(P) /\ Reported(d) /\ SameArchitecture(c, d)
        /\ SameProgram(c, d) /\ d.cycle = c.cycle
    BY <2>1, <2>2, TerminateType
  <2>4. QED BY <2>3 DEF d
<1>4. CASE ~c.terminated /\ stop_pc # c.state.pc /\ Decodable(c)
  <2> DEFINE e == Execute(c, FetchDecode(c))
  <2>1. d = [e EXCEPT !.cycle = @ + 1]
    BY <1>4 DEF Step
  <2>2. c.state.pc \in DOMAIN c.memory
    BY <1>4 DEF Decodable, Mapped
  <2>3. /\ e \in Contexts(P) /\ Reported(e) /\ SameProgram(c, e) /\ e.cycle = c.cycle
        /\ SameArchitecture(c, e) \/ Commits(c, e)
    BY <2>2, ExecuteEffect
  <2> HIDE DEF e, d
  <2>4. /\ d \in Contexts(P) /\ Reported(d) /\ SameProgram(e, d)
        /\ d.state = e.state /\ d.memory = e.memory /\ d.committed = e.committed
    <3>1. e.cycle + 1 \in Nat
      BY <2>3 DEF Contexts
    <3>2. QED BY <2>1, <2>3, <3>1 DEF Contexts, Reported, SameProgram
  <2>5. QED BY <2>3, <2>4 DEF d, SameArchitecture, Commits, SameProgram
<1>5. QED BY <1>1, <1>2, <1>3, <1>4

-----------------------------------------------------------------------------
(***************************************************************************)
(* The inductive invariant of the calls, whatever their order.               *)
(***************************************************************************)
Programs == Images \cup Reloads \cup {NoProgram}

(* A program about to run: nothing of an earlier run is left.                *)
Fresh(c) ==
  /\ c.state = [ZeroState EXCEPT !.pc = c.program.entry_point]
  /\ c.memory = c.program.memory
  /\ c.committed = << >>

ContextInv ==
  /\ ctx \in Contexts(Programs)
  /\ Reported(ctx)
  /\ ~ctx.has_program => ctx.program = NoProgram
  /\ past \in Seq(Record)
  /\ Len(ctx.committed) <= Len(past)
  /\ ctx.committed = << >> => Fresh(ctx)

LEMMA NoProgramType == NoProgram.entry_point \in Word /\ NoProgram.memory \in Memories
<1>1. << >> \in [{} -> Cell] /\ {} \in SUBSET Word
  OBVIOUS
<1>2. QED BY <1>1, Sizes DEF NoProgram, Memories

LEMMA ProgramTypes ==
  \A image \in Programs : image.entry_point \in Word /\ image.memory \in Memories
BY NoProgramType, ImagesAssumption, MemoriesAreTyped DEF Programs

LEMMA LoadEffect ==
  ASSUME NEW P, NEW c \in Contexts(P), Reported(c), NEW image \in P,
         image.entry_point \in Word, image.memory \in Memories
  PROVE  LET d == LoadProgram(c, image)
         IN  /\ d \in Contexts(P) /\ Reported(d)
             /\ d.program = image /\ d.has_program /\ Fresh(d)
             /\ d.terminated = c.terminated /\ d.cycle = c.cycle
             /\ d.exit_code = c.exit_code /\ d.last_error = c.last_error
<1> DEFINE t == [ZeroState EXCEPT !.pc = image.entry_point]
<1>1. t \in StateType
  <2>1. ZeroState \in StateType
    BY ZeroStateType
  <2> HIDE DEF ZeroState
  <2>2. QED BY <2>1 DEF StateType
<1>2. << >> \in Seq(Record)
  OBVIOUS
<1>3. LoadProgram(c, image)
        = [c EXCEPT !.has_program = TRUE, !.program = image, !.memory = image.memory,
                    !.committed = << >>, !.state = t]
  BY DEF LoadProgram
<1> HIDE DEF t
<1>4. LET d == LoadProgram(c, image)
      IN  /\ d \in Contexts(P) /\ Reported(d)
          /\ d.program = image /\ d.has_program /\ d.state = t
          /\ d.memory = image.memory /\ d.committed = << >>
          /\ d.terminated = c.terminated /\ d.cycle = c.cycle
          /\ d.exit_code = c.exit_code /\ d.last_error = c.last_error
  BY ZenonT(60), <1>1, <1>2, <1>3 DEF Contexts, Reported
<1>5. QED BY <1>4 DEF Fresh, t

LEMMA NewContextEffect ==
  ASSUME NEW P, NoProgram \in P
  PROVE  /\ NewContext \in Contexts(P) /\ Reported(NewContext) /\ Fresh(NewContext)
         /\ NewContext.program = NoProgram
<1>1. ZeroState = [ZeroState EXCEPT !.pc = NoProgram.entry_point]
  <2>1. ZeroState.pc = NoProgram.entry_point
    BY DEF ZeroState, NoProgram
  <2>2. \A s \in StateType : s = [s EXCEPT !.pc = s.pc]
    BY DEF StateType
  <2>3. QED BY <2>1, <2>2, ZeroStateType
<1>2. << >> \in Memories /\ << >> \in Seq(Record)
  <2>1. NoProgram.memory = << >>
    BY DEF NoProgram
  <2>2. QED BY <2>1, NoProgramType
<1>3. NoProgram \in P /\ NoProgram.memory = << >>
  BY DEF NoProgram
<1>4. ZeroState \in StateType
  BY ZeroStateType
<1>5. NewContext \in Contexts(P)
  BY <1>2, <1>3, <1>4 DEF NewContext, Contexts, Errors
<1>6. QED BY <1>1, <1>3, <1>5 DEF NewContext, Reported, Fresh

LEMMA NoProgramKnown == NoProgram \in Programs
BY DEF Programs

LEMMA ResetEffect ==
  ASSUME NEW c \in Contexts(Programs), ~c.has_program => c.program = NoProgram
  PROVE  LET d == ResetContext(c)
         IN  /\ d \in Contexts(Programs) /\ Reported(d) /\ Fresh(d)
             /\ d.program = c.program /\ (~d.has_program => d.program = NoProgram)
<1>1. CASE c.has_program
  <2>1. c.program \in Programs
    BY DEF Contexts
  <2>2. ResetContext(c) = LoadProgram(NewContext, c.program)
    BY <1>1 DEF ResetContext
  <2>3. QED BY <2>1, <2>2, NoProgramKnown, NewContextEffect, ProgramTypes, LoadEffect
<1>2. CASE ~c.has_program
  <2>1. ResetContext(c) = NewContext
    BY <1>2 DEF ResetContext
  <2>2. QED BY <1>2, <2>1, NoProgramKnown, NewContextEffect
<1>3. QED BY <1>1, <1>2

(* Every step leaves the architecture alone, commits one instruction, or     *)
(* starts a program afresh, the loaded one or a new one.                     *)
StepKinds ==
  \/ ctx'.program = ctx.program /\ SameArchitecture(ctx, ctx') /\ past' = past
  \/ /\ ctx'.program = ctx.program /\ Commits(ctx, ctx')
     /\ past' = IF Len(ctx'.committed) > Len(past) THEN ctx'.committed ELSE past
  \/ Fresh(ctx') /\ ctx'.program = ctx.program /\ past' = past
  \/ Fresh(ctx') /\ past' = << >>

LEMMA ExecutorInitInv == ExecutorInit => ContextInv /\ Fresh(ctx) /\ past = << >>
<1> SUFFICES ASSUME ExecutorInit PROVE ContextInv /\ Fresh(ctx) /\ past = << >>
  OBVIOUS
<1>1. past = << >> /\ past \in Seq(Record) /\ Len(past) = 0
  BY DEF ExecutorInit
<1>2. /\ ctx \in Contexts(Programs) /\ Reported(ctx) /\ Fresh(ctx)
      /\ ~ctx.has_program => ctx.program = NoProgram
  <2>1. CASE ctx = NewContext
    BY <2>1, NoProgramKnown, NewContextEffect
  <2>2. CASE \E image \in Images : ctx = LoadProgram(NewContext, image)
    <3>1. PICK image \in Images : ctx = LoadProgram(NewContext, image)
      BY <2>2
    <3>2. image \in Programs
      BY DEF Programs
    <3>3. QED BY <3>1, <3>2, NoProgramKnown, NewContextEffect, ProgramTypes, LoadEffect
  <2>3. QED BY <2>1, <2>2 DEF ExecutorInit
<1>3. Len(ctx.committed) = 0
  BY <1>2 DEF Fresh
<1>4. QED BY <1>1, <1>2, <1>3 DEF ContextInv

LEMMA ExecutorStepInv ==
  ContextInv /\ [ExecutorNext]_executor => ContextInv' /\ StepKinds
<1> SUFFICES ASSUME ContextInv, [ExecutorNext]_executor PROVE ContextInv' /\ StepKinds
  OBVIOUS
<1>1. /\ ctx \in Contexts(Programs) /\ Reported(ctx) /\ past \in Seq(Record)
      /\ ~ctx.has_program => ctx.program = NoProgram
      /\ ctx.committed \in Seq(Record) /\ Len(ctx.committed) <= Len(past)
      /\ ctx.committed = << >> => Fresh(ctx)
  BY DEF ContextInv, Contexts
<1>2. \A s \in Seq(Record) : Len(s) \in Nat
  OBVIOUS
<1>3. CASE StepOnce
  <2>1. PICK stop_pc \in StopPcs : ctx' = Step(ctx, stop_pc)
    BY <1>3 DEF StepOnce
  <2>2. /\ ctx' \in Contexts(Programs) /\ Reported(ctx') /\ SameProgram(ctx, ctx')
        /\ SameArchitecture(ctx, ctx') \/ Commits(ctx, ctx')
    BY <1>1, <2>1, StepEffect
  <2>3. past' = IF Len(ctx'.committed) > Len(past) THEN ctx'.committed ELSE past
    BY <1>3 DEF StepOnce
  <2>4. ctx'.committed \in Seq(Record)
    BY <2>2 DEF Contexts
  <2>5. past' \in Seq(Record) /\ Len(ctx'.committed) <= Len(past')
    BY <1>1, <1>2, <2>3, <2>4
  <2>6. ~ctx'.has_program => ctx'.program = NoProgram
    BY <1>1, <2>2 DEF SameProgram
  <2>7. SameArchitecture(ctx, ctx') => past' = past
    BY <1>1, <1>2, <2>3 DEF SameArchitecture
  <2>8. ctx'.committed = << >> => Fresh(ctx')
    <3>1. Commits(ctx, ctx') => ctx'.committed # << >>
      <4>1. \A r : Len(Append(ctx.committed, r)) # 0
        BY <1>1
      <4>2. Len(<< >>) = 0
        OBVIOUS
      <4>3. QED BY <4>1, <4>2 DEF Commits
    <3>2. QED BY <1>1, <2>2, <3>1 DEF SameArchitecture, SameProgram, Fresh
  <2>9. QED BY <2>2, <2>3, <2>5, <2>6, <2>7, <2>8 DEF ContextInv, StepKinds, SameProgram
<1>4. CASE Reset
  <2>1. /\ ctx' \in Contexts(Programs) /\ Reported(ctx') /\ Fresh(ctx')
        /\ ctx'.program = ctx.program /\ (~ctx'.has_program => ctx'.program = NoProgram)
    BY <1>1, <1>4, ResetEffect DEF Reset
  <2>2. past' = past
    BY <1>4 DEF Reset
  <2>3. Len(ctx'.committed) <= Len(past)
    BY <1>1, <1>2, <2>1 DEF Fresh
  <2>4. QED BY <1>1, <2>1, <2>2, <2>3 DEF ContextInv, StepKinds
<1>5. CASE Load
  <2>1. PICK image \in Reloads : ctx' = LoadProgram(ctx, image)
    BY <1>5 DEF Load
  <2>2. image \in Programs
    BY DEF Programs
  <2>3. /\ ctx' \in Contexts(Programs) /\ Reported(ctx') /\ ctx'.has_program /\ Fresh(ctx')
    BY <1>1, <2>1, <2>2, ProgramTypes, LoadEffect
  <2>4. past' = << >> /\ past' \in Seq(Record) /\ Len(ctx'.committed) <= Len(past')
    BY <1>5, <2>3 DEF Load, Fresh
  <2>5. QED BY <2>3, <2>4 DEF ContextInv, StepKinds
<1>6. CASE UNCHANGED executor
  <2>1. ctx' = ctx /\ past' = past
    BY <1>6 DEF executor
  <2>2. QED BY <1>1, <2>1 DEF ContextInv, StepKinds, SameArchitecture
<1>7. QED BY <1>3, <1>4, <1>5, <1>6 DEF ExecutorNext

(* In any order of steps, resets and loads, from any program, registers and  *)
(* addresses stay words, memory holds cells at addresses, and the context is *)
(* terminated exactly when it reports an error.                              *)
THEOREM ExecutorTypes == ExecutorSpec => []TypeOK
<1>1. ContextInv => TypeOK
  BY MemoriesAreTyped DEF ContextInv, Contexts, TypeOK, Reported
<1>2. QED BY <1>1, ExecutorInitInv, ExecutorStepInv, PTL DEF ExecutorSpec

(* A call that commits nothing and loads nothing else leaves registers and   *)
(* memory as they were.                                                      *)
THEOREM ExecutorRejectsSilently == ExecutorSpec => RejectIsSilent
<1> DEFINE Silent == ctx'.program = ctx.program /\ ctx'.committed = ctx.committed
                       => ctx'.state = ctx.state /\ ctx'.memory = ctx.memory
<1>1. ContextInv /\ [ExecutorNext]_executor => [Silent]_executor
  <2> SUFFICES ASSUME ContextInv, StepKinds, ctx'.program = ctx.program, ctx'.committed = ctx.committed
               PROVE  ctx'.state = ctx.state /\ ctx'.memory = ctx.memory
    BY ExecutorStepInv
  <2>1. ~Commits(ctx, ctx')
    <3>1. ctx.committed \in Seq(Record)
      BY DEF ContextInv, Contexts
    <3>2. \A r : Len(Append(ctx.committed, r)) # Len(ctx.committed)
      BY <3>1
    <3>3. QED BY <3>2 DEF Commits
  <2>2. QED BY <2>1 DEF StepKinds, ContextInv, Fresh, SameArchitecture
<1>2. QED BY <1>1, ExecutorInitInv, ExecutorStepInv, PTL DEF ExecutorSpec, RejectIsSilent

-----------------------------------------------------------------------------
(***************************************************************************)
(* Replays.  The state and the memory determine the instruction, its record  *)
(* but for the clock, and the next state and memory.  So there is one        *)
(* sequence of moments a program runs through, and every run of it, past or  *)
(* present, has followed that sequence from its first moment on.             *)
(***************************************************************************)
Moment(c)   == [state |-> c.state, memory |-> c.memory]
Start(image) == [state |-> [ZeroState EXCEPT !.pc = image.entry_point], memory |-> image.memory]
Moments     == [state : StateType, memory : Memories]
After(m)    == [ state |-> NextState(m, FetchDecode(m)), memory |-> MemoryAfter(m, FetchDecode(m)) ]
Recorded(m) ==
  Timeless(MakeMinstRecord([state |-> m.state, memory |-> m.memory, cycle |-> 0], FetchDecode(m)))

(* h: the moments before, between and after the records of the longest run.  *)
History(h) ==
  /\ DOMAIN h = 1..(Len(past) + 1)
  /\ h[1] = Start(ctx.program)
  /\ \A k \in 1..Len(past) : h[k + 1] = After(h[k]) /\ Timeless(past[k]) = Recorded(h[k])
  /\ \A k \in 1..Len(Trace) : Timeless(Trace[k]) = Recorded(h[k])
  /\ h[Len(Trace) + 1] = Moment(ctx)

ReplayInv == \E h : History(h)

LEMMA MomentDecides ==
  ASSUME NEW c
  PROVE  /\ FetchDecode(Moment(c)) = FetchDecode(c)
         /\ After(Moment(c)) = [ state  |-> NextState(c, FetchDecode(c)),
                                 memory |-> MemoryAfter(c, FetchDecode(c)) ]
         /\ Recorded(Moment(c)) = Timeless(MakeMinstRecord(c, FetchDecode(c)))
<1> DEFINE m == Moment(c)   i == FetchDecode(c)
           z == [state |-> c.state, memory |-> c.memory, cycle |-> 0]
<1>1. m.state = c.state /\ m.memory = c.memory /\ z.state = c.state /\ z.memory = c.memory
  BY DEF Moment
<1>2. FetchDecode(m) = i
  BY <1>1 DEF FetchDecode
<1>3. Recorded(m) = Timeless(MakeMinstRecord(z, i))
  BY <1>1, <1>2 DEF Recorded
<1> HIDE DEF m, i, z
<1>4. Result(m, i) = Result(c, i) /\ Result(z, i) = Result(c, i)
  BY <1>1 DEF Result
<1>5. NextState(m, i) = NextState(c, i)
  BY <1>1, <1>4 DEF NextState
<1>6. MemoryAfter(m, i) = MemoryAfter(c, i)
  BY <1>1 DEF MemoryAfter, NextMemory
<1>7. Timeless(MakeMinstRecord(z, i)) = Timeless(MakeMinstRecord(c, i))
  BY <1>1, <1>4 DEF MakeMinstRecord, Timeless
<1>8. QED BY <1>2, <1>3, <1>5, <1>6, <1>7 DEF After, m, i

LEMMA FreshReplays == Fresh(ctx) /\ past = << >> => ReplayInv
<1> SUFFICES ASSUME Fresh(ctx), past = << >> PROVE ReplayInv
  OBVIOUS
<1> DEFINE h == [k \in 1..1 |-> Start(ctx.program)]
<1>1. Len(past) = 0 /\ Len(Trace) = 0
  BY DEF Fresh, Trace
<1>2. h[1] = Start(ctx.program) /\ DOMAIN h = 1..1
  OBVIOUS
<1>3. Moment(ctx) = Start(ctx.program)
  BY DEF Fresh, Moment, Start
<1> HIDE DEF h
<1>4. History(h)
  BY <1>1, <1>2, <1>3 DEF History
<1>5. QED BY <1>4 DEF ReplayInv

LEMMA ReplayStep ==
  ASSUME ContextInv, StepKinds, ReplayInv
  PROVE  ReplayInv' \/ (Fresh(ctx) /\ past = << >>)'
<1>1. PICK h : History(h)
  BY DEF ReplayInv
<1>2. /\ Trace \in Seq(Record) /\ past \in Seq(Record) /\ Len(Trace) <= Len(past)
      /\ Len(Trace) \in Nat /\ Len(past) \in Nat
  BY DEF ContextInv, Contexts, Trace
<1>3. CASE ctx'.program = ctx.program /\ SameArchitecture(ctx, ctx') /\ past' = past
  <2>1. Moment(ctx') = Moment(ctx) /\ Trace' = Trace /\ ctx'.program = ctx.program
    BY <1>3 DEF SameArchitecture, Moment, Trace
  <2>2. History(h)'
    BY <1>1, <1>3, <2>1 DEF History
  <2>3. QED BY <2>2 DEF ReplayInv
<1>4. CASE /\ ctx'.program = ctx.program /\ Commits(ctx, ctx')
           /\ past' = IF Len(ctx'.committed) > Len(past) THEN ctx'.committed ELSE past
  <2> DEFINE n == Len(Trace)   x == MakeMinstRecord(ctx, FetchDecode(ctx))
  <2>1. h[n + 1] = Moment(ctx)
    BY <1>1 DEF History
  <2>2. After(h[n + 1]) = Moment(ctx') /\ Timeless(x) = Recorded(h[n + 1])
    BY <1>4, <2>1, MomentDecides DEF Commits, Moment
  <2>3. Trace' = Append(Trace, x)
    BY <1>4 DEF Commits, Trace
  <2> HIDE DEF x
  <2>4. /\ Len(Trace') = n + 1 /\ Trace'[n + 1] = x
        /\ \A k \in 1..n : Trace'[k] = Trace[k]
    BY <1>2, <2>3
  <2>5. CASE n < Len(past)
    <3>1. past' = past
      BY <1>2, <1>4, <2>4, <2>5 DEF Trace
    <3>2. h[n + 2] = After(h[n + 1])
      <4>1. n + 1 \in 1..Len(past) /\ (n + 1) + 1 = n + 2
        BY <1>2, <2>5
      <4>2. QED BY <1>1, <4>1 DEF History
    <3>3. ASSUME NEW k \in 1..(n + 1) PROVE Timeless(Trace'[k]) = Recorded(h[k])
      <4>1. CASE k \in 1..n
        BY <1>1, <2>4, <4>1 DEF History
      <4>2. CASE k = n + 1
        BY <2>2, <2>4, <4>2
      <4>3. QED BY <1>2, <4>1, <4>2
    <3>4. h[Len(Trace') + 1] = Moment(ctx')
      <4>1. (n + 1) + 1 = n + 2
        BY <1>2
      <4>2. QED BY <2>2, <2>4, <3>2, <4>1
    <3>5. History(h)'
      BY <1>1, <1>4, <2>4, <3>1, <3>3, <3>4 DEF History
    <3>6. QED BY <3>5 DEF ReplayInv
  <2>6. CASE n = Len(past)
    <3>1. past' = Trace' /\ Len(past') = n + 1
      BY <1>2, <1>4, <2>4, <2>6 DEF Trace
    <3> PICK g : g = [k \in 1..(n + 2) |-> IF k = n + 2 THEN Moment(ctx') ELSE h[k]]
      OBVIOUS
    <3>2. /\ DOMAIN g = 1..(n + 2) /\ g[n + 2] = Moment(ctx')
          /\ \A k \in 1..(n + 1) : g[k] = h[k]
      <4>1. n + 2 \in 1..(n + 2) /\ \A k \in 1..(n + 1) : k \in 1..(n + 2) /\ k # n + 2
        BY <1>2
      <4>2. QED BY <4>1
    <3>3. ASSUME NEW k \in 1..(n + 1)
          PROVE  Timeless(Trace'[k]) = Recorded(g[k]) /\ g[k + 1] = After(g[k])
      <4>1. CASE k \in 1..n
        <5>1. g[k] = h[k] /\ g[k + 1] = h[k + 1]
          BY <1>2, <3>2, <4>1
        <5>2. h[k + 1] = After(h[k]) /\ Timeless(Trace[k]) = Recorded(h[k])
          BY <1>1, <2>6, <4>1 DEF History
        <5>3. QED BY <2>4, <4>1, <5>1, <5>2
      <4>2. CASE k = n + 1
        <5>1. g[k] = h[n + 1] /\ g[k + 1] = Moment(ctx')
          BY <1>2, <3>2, <4>2
        <5>2. QED BY <2>2, <2>4, <4>2, <5>1
      <4>3. QED BY <1>2, <4>1, <4>2
    <3>4. g[1] = Start(ctx'.program)
      <4>1. 1 \in 1..(n + 1)
        BY <1>2
      <4>2. QED BY <1>1, <1>4, <3>2, <4>1 DEF History
    <3>5. (n + 1) + 1 = n + 2
      BY <1>2
    <3>6. History(g)'
      BY <2>4, <3>1, <3>2, <3>3, <3>4, <3>5 DEF History
    <3>7. QED BY <3>6 DEF ReplayInv
  <2>7. QED BY <1>2, <2>5, <2>6
<1>5. CASE Fresh(ctx') /\ ctx'.program = ctx.program /\ past' = past
  <2>1. Trace' = << >> /\ Len(Trace') = 0 /\ Moment(ctx') = Start(ctx.program)
    BY <1>5 DEF Fresh, Trace, Moment, Start
  <2>2. History(h)'
    BY <1>1, <1>5, <2>1 DEF History
  <2>3. QED BY <2>2 DEF ReplayInv
<1>6. QED BY <1>3, <1>4, <1>5 DEF StepKinds, Fresh

(* Reset() restarts the loaded program: as far as a later run gets, its      *)
(* records are those of the earlier ones but for the clock, even of a        *)
(* program that overwrites its own code.                                     *)
THEOREM ExecutorReplays == ExecutorSpec => []Replays
<1>1. ExecutorInit => ReplayInv
  BY ExecutorInitInv, FreshReplays
<1>2. ContextInv /\ StepKinds /\ ReplayInv => ReplayInv' \/ (Fresh(ctx) /\ past = << >>)'
  BY ReplayStep
<1>3. ContextInv /\ ReplayInv => Replays
  BY DEF ReplayInv, History, Replays
<1>4. QED BY <1>1, <1>2, <1>3, ExecutorInitInv, ExecutorStepInv, FreshReplays, PTL DEF ExecutorSpec

-----------------------------------------------------------------------------
(***************************************************************************)
(* The block discipline.  The block state says of the records so far what    *)
(* the discipline asks at the next C.BSTOP.                                  *)
(***************************************************************************)
LEMMA MaxOfIndices ==
  ASSUME NEW n \in Nat, NEW S \in SUBSET (1..n), S # {}
  PROVE  Max(S) \in S /\ \A y \in S : Max(S) >= y
<1> DEFINE T == { n - k : k \in S }
<1>1. \A k \in S : k \in 1..n /\ n - k \in Nat
  <2>1. \A k \in 1..n : n - k \in Nat
    OBVIOUS
  <2>2. QED BY <2>1
<1>7. T \in SUBSET Nat /\ T # {}
  BY <1>1
<1>2. PICK m \in T : \A y \in T : m <= y
  BY <1>7, NatHasMinimum
<1>3. PICK x \in S : m = n - x
  BY <1>2
<1>4. ASSUME NEW y \in S PROVE x >= y
  <2>1. n - x <= n - y /\ x \in 1..n /\ y \in 1..n
    BY <1>1, <1>2, <1>3
  <2>2. QED BY <2>1
<1>5. \E z \in S : \A y \in S : z >= y
  BY <1>4
<1>6. QED BY <1>5 DEF Max

LEMMA MaxLast ==
  ASSUME NEW n \in Nat, NEW S \in SUBSET (1..n), n \in S
  PROVE  Max(S) = n
<1>1. Max(S) \in S /\ \A y \in S : Max(S) >= y
  BY MaxOfIndices
<1>2. Max(S) \in 1..n /\ Max(S) >= n
  BY <1>1
<1>3. QED BY <1>2

BlockState ==
  LET n == Len(Trace) + 1
  IN  /\ ctx.state.blocktype = 1 <=> Opener(n) = "C.BSTART.DIRECT"
      /\ ctx.state.blocktype = 2 <=> Opener(n) = "C.BSTART.COND"
      /\ ctx.state.blocktype # 0 => ctx.state.tgt = Target(n)
      /\ ctx.state.carg # 0 => SetSince(n)

BlockInv == BlockState /\ BlockDiscipline

LEMMA FreshBlocks == Fresh(ctx) => BlockInv
<1> SUFFICES ASSUME Fresh(ctx) PROVE BlockInv
  OBVIOUS
<1>1. Trace = << >> /\ Len(Trace) = 0
  BY DEF Fresh, Trace
<1>2. Deciders(1) = {} /\ Opener(1) = "none"
  BY DEF Deciders, Opener
<1>3. ctx.state.blocktype = 0 /\ ctx.state.carg = 0
  BY DEF Fresh, ZeroState
<1>4. BlockState
  BY <1>1, <1>2, <1>3 DEF BlockState
<1>5. BlockDiscipline
  BY <1>1 DEF BlockDiscipline
<1>6. QED BY <1>4, <1>5 DEF BlockInv

(* What the discipline says of earlier instructions is not changed by        *)
(* another one.                                                             *)
LEMMA DecisionsStay ==
  ASSUME Trace \in Seq(Record), NEW x, Trace' = Append(Trace, x), NEW n \in 1..(Len(Trace) + 1)
  PROVE  /\ Deciders(n)' = Deciders(n) /\ Deciders(n) \in SUBSET (1..(n - 1))
         /\ Opener(n)' = Opener(n)
         /\ Deciders(n) # {} => Target(n)' = Target(n)
         /\ SetSince(n)' = SetSince(n)
<1>1. /\ Len(Trace) \in Nat /\ Len(Trace') = Len(Trace) + 1
      /\ \A k \in 1..Len(Trace) : Trace'[k] = Trace[k]
  OBVIOUS
<1>2. \A k \in 1..(n - 1) : k \in 1..Len(Trace) /\ Trace'[k] = Trace[k]
  BY <1>1
<1>3. Deciders(n)' = Deciders(n) /\ Deciders(n) \in SUBSET (1..(n - 1))
  BY <1>2 DEF Deciders
<1>4. Deciders(n) # {} => Max(Deciders(n)) \in 1..(n - 1)
  <2>1. n - 1 \in Nat
    BY <1>1
  <2>2. QED BY <1>3, <2>1, MaxOfIndices
<1>5. Opener(n)' = Opener(n) /\ (Deciders(n) # {} => Target(n)' = Target(n))
  BY <1>2, <1>3, <1>4 DEF Opener, Target
<1>6. SetSince(n)' = SetSince(n)
  <2>1. \A k \in 1..(n - 1) : \A j \in k..(n - 1) : j \in 1..(n - 1)
    BY <1>1
  <2>2. QED BY <1>2, <2>1 DEF SetSince
<1>7. QED BY <1>3, <1>5, <1>6

Deciding == {"C.BSTART.STD", "C.BSTART.DIRECT", "C.BSTART.COND", "C.BSTOP"}

LEMMA DecisionAdded ==
  ASSUME Trace \in Seq(Record), NEW x, Trace' = Append(Trace, x),
         NEW n \in Nat, n = Len(Trace) + 1
  PROVE  /\ x.op \in Deciding =>
              /\ Opener(n + 1)' = x.op
              /\ Target(n + 1)' = Wrap(x.pc + Decoder[x.insn].imm)
         /\ x.op \notin Deciding =>
              /\ Opener(n + 1)' = Opener(n)
              /\ Deciders(n) # {} => Target(n + 1)' = Target(n)
         /\ x.op \in {"SETC.NE", "SETC.LTU"} => SetSince(n + 1)'
         /\ x.op # "C.BSTOP" /\ SetSince(n) => SetSince(n + 1)'
<1>1. /\ Len(Trace) \in Nat /\ Len(Trace') = n /\ Trace'[n] = x /\ n \in 1..(Len(Trace) + 1)
      /\ \A k \in 1..(n - 1) : Trace'[k] = Trace[k]
  OBVIOUS
<1>2. 1..((n + 1) - 1) = 1..(n - 1) \cup {n} /\ n \notin 1..(n - 1)
  BY <1>1
<1>3. Deciders(n) \in SUBSET (1..(n - 1))
  BY DEF Deciders
<1>4. Deciders(n + 1)' = { k \in 1..((n + 1) - 1) : Trace'[k].op \in Deciding }
  BY DEF Deciders, Deciding
<1>5. Deciders(n + 1)' = IF x.op \in Deciding THEN Deciders(n) \cup {n} ELSE Deciders(n)
  <2>1. Deciders(n) = { k \in 1..(n - 1) : Trace'[k].op \in Deciding }
    BY <1>1 DEF Deciders, Deciding
  <2>2. QED BY <1>1, <1>2, <1>4, <2>1
<1>8. /\ x.op \in {"SETC.NE", "SETC.LTU"} => SetSince(n + 1)'
      /\ x.op # "C.BSTOP" /\ SetSince(n) => SetSince(n + 1)'
  <2>1. ASSUME x.op \in {"SETC.NE", "SETC.LTU"} PROVE SetSince(n + 1)'
    <3>1. n \in 1..((n + 1) - 1) /\ \A j \in n..((n + 1) - 1) : j = n
      BY <1>1
    <3>2. QED BY <1>1, <2>1, <3>1 DEF SetSince
  <2>2. ASSUME x.op # "C.BSTOP", SetSince(n) PROVE SetSince(n + 1)'
    <3>1. PICK k \in 1..(n - 1) : /\ Trace[k].op \in {"SETC.NE", "SETC.LTU"}
                                  /\ \A j \in k..(n - 1) : Trace[j].op # "C.BSTOP"
      BY <2>2 DEF SetSince
    <3>2. /\ k \in 1..((n + 1) - 1)
          /\ \A j \in k..((n + 1) - 1) : j = n \/ (j \in k..(n - 1) /\ j \in 1..(n - 1))
      BY <1>1
    <3>3. QED BY <1>1, <2>2, <3>1, <3>2 DEF SetSince
  <2>3. QED BY <2>1, <2>2
<1>6. CASE x.op \in Deciding
  <2>1. Deciders(n + 1)' \in SUBSET (1..n) /\ n \in Deciders(n + 1)'
    BY <1>1, <1>2, <1>3, <1>5, <1>6
  <2>2. Max(Deciders(n + 1)') = n
    BY <2>1, MaxLast
  <2>3. Opener(n + 1)' = x.op /\ Target(n + 1)' = Wrap(x.pc + Decoder[x.insn].imm)
    BY <1>1, <2>1, <2>2 DEF Opener, Target
  <2>4. QED BY <1>6, <2>3, <1>8
<1>7. CASE x.op \notin Deciding
  <2>1. Deciders(n) # {} => Max(Deciders(n)) \in 1..(n - 1)
    <3>1. n - 1 \in Nat
      BY <1>1
    <3>2. QED BY <1>3, <3>1, MaxOfIndices
  <2>2. Deciders(n + 1)' = Deciders(n)
    BY <1>5, <1>7
  <2>3. Opener(n + 1)' = Opener(n) /\ (Deciders(n) # {} => Target(n + 1)' = Target(n))
    BY <1>1, <2>1, <2>2 DEF Opener, Target
  <2>4. QED BY <1>7, <2>3, <1>8
<1>9. QED BY <1>6, <1>7

LEMMA BlockStep ==
  ASSUME ContextInv, StepKinds, BlockInv
  PROVE  BlockInv' \/ Fresh(ctx)'
<1>1. Trace \in Seq(Record) /\ Len(Trace) \in Nat /\ ctx.state \in StateType
  BY DEF ContextInv, Contexts, Trace
<1>2. CASE SameArchitecture(ctx, ctx')
  <2>1. Trace' = Trace /\ ctx'.state = ctx.state
    BY <1>2 DEF SameArchitecture, Trace
  <2>2. ASSUME NEW k
        PROVE  /\ Opener(k)' = Opener(k) /\ Target(k)' = Target(k) /\ SetSince(k)' = SetSince(k)
               /\ Went(k)' = Went(k)
    <3>1. Deciders(k)' = Deciders(k)
      BY <2>1 DEF Deciders
    <3>2. QED BY <2>1, <3>1 DEF Opener, Target, SetSince, Went
  <2>3. BlockState'
    <3>1. Len(Trace)' = Len(Trace)
      BY <2>1
    <3>2. QED BY <2>1, <2>2, <3>1 DEF BlockInv, BlockState
  <2>4. BlockDiscipline'
    BY <2>1, <2>2 DEF BlockInv, BlockDiscipline
  <2>5. QED BY <2>3, <2>4 DEF BlockInv
<1>3. CASE Fresh(ctx')
  BY <1>3 DEF Fresh
<1>4. CASE Commits(ctx, ctx')
  <2> DEFINE i == FetchDecode(ctx)   x == MakeMinstRecord(ctx, i)   s == ctx.state   t == ctx'.state
  <2>1. IsInstruction(i) /\ i.op \in Implemented
    <3>1. ctx.memory[ctx.state.pc] \in Cell
      BY <1>4, MemoriesAreTyped DEF MemoryType, ContextInv, Contexts, Commits
    <3>2. QED BY <1>4, <3>1, DecodesToInstruction DEF FetchDecode, Commits
  <2>2. ControlAfter(s, i, t)
    <3>1. ctx.state \in StateType /\ ctx.memory \in Memories
      BY DEF ContextInv, Contexts
    <3>2. QED BY <1>4, <2>1, <3>1, NextStateEffect DEF StateAfter, Commits
  <2>3. Trace' = Append(Trace, x)
    BY <1>4 DEF Commits, Trace
  <2>4. x.op = i.op /\ x.pc = s.pc /\ x.next_pc = NextPc(s, i) /\ Decoder[x.insn] = i
    BY DEF MakeMinstRecord, FetchDecode
  <2>5. PICK n \in Nat : n = Len(Trace) + 1
    BY <1>1
  <2> HIDE DEF x, i
  <2>6. /\ Len(Trace') = n /\ Trace'[n] = x /\ n - 1 = Len(Trace) /\ n \in 1..n
        /\ \A k \in 1..(n - 1) : Trace'[k] = Trace[k]
    BY <1>1, <2>3, <2>5
  <2>7. /\ s.blocktype = 1 <=> Opener(n) = "C.BSTART.DIRECT"
        /\ s.blocktype = 2 <=> Opener(n) = "C.BSTART.COND"
        /\ s.blocktype # 0 => s.tgt = Target(n)
        /\ s.carg # 0 => SetSince(n)
        /\ s.blocktype \in 0..2
    BY <1>1, <2>5 DEF BlockInv, BlockState, StateType
  <2>8. s.blocktype # 0 => Deciders(n) # {}
    BY <2>7 DEF Opener
  <2>9. BlockState'
    <3>1. /\ t.blocktype = 1 <=> Opener(n + 1)' = "C.BSTART.DIRECT"
          /\ t.blocktype = 2 <=> Opener(n + 1)' = "C.BSTART.COND"
          /\ t.blocktype # 0 => t.tgt = Target(n + 1)'
      <4>1. CASE i.op \in Deciding
        <5>1. Opener(n + 1)' = i.op /\ Target(n + 1)' = Wrap(s.pc + i.imm)
          BY <1>1, <2>3, <2>4, <2>5, <4>1, DecisionAdded
        <5>2. QED BY <2>2, <4>1, <5>1 DEF ControlAfter, Deciding
      <4>2. CASE i.op \notin Deciding
        <5>1. /\ Opener(n + 1)' = Opener(n)
              /\ Deciders(n) # {} => Target(n + 1)' = Target(n)
          BY <1>1, <2>3, <2>4, <2>5, <4>2, DecisionAdded
        <5>2. t.blocktype = s.blocktype /\ t.tgt = s.tgt
          BY <2>2, <4>2 DEF ControlAfter, Deciding
        <5>3. QED BY <2>7, <2>8, <5>1, <5>2
      <4>3. QED BY <4>1, <4>2
    <3>2. t.carg # 0 => SetSince(n + 1)'
      <4>1. /\ i.op \in {"SETC.NE", "SETC.LTU"} => SetSince(n + 1)'
            /\ i.op # "C.BSTOP" /\ SetSince(n) => SetSince(n + 1)'
        BY <1>1, <2>3, <2>4, <2>5, DecisionAdded
      <4>2. QED BY <2>2, <2>7, <4>1 DEF ControlAfter
    <3>3. QED BY <2>6, <3>1, <3>2 DEF BlockState
  <2>10. BlockDiscipline'
    <3>1. Went(n)' = t.pc
      BY <2>6 DEF Went
    <3>2. \A k \in 1..(n - 1) : Went(k)' = Went(k)
      <4>1. \A k \in 1..(n - 1) : k # n /\ k + 1 \in 1..n /\ (k + 1 = n <=> k = Len(Trace))
        BY <2>6
      <4>2. QED BY <2>4, <2>6, <4>1 DEF Went
    <3>3. ASSUME NEW k \in 1..n
          PROVE  /\ Opener(k)' = Opener(k) /\ SetSince(k)' = SetSince(k)
                 /\ Deciders(k) # {} => Target(k)' = Target(k)
      BY <1>1, <2>3, <2>5, DecisionsStay
    <3>4. ASSUME NEW k \in 1..(n - 1)
          PROVE  CASE Trace'[k].op = "C.BSTOP" /\ Opener(k)' = "C.BSTART.DIRECT" -> Went(k)' = Target(k)'
                   [] Trace'[k].op = "C.BSTOP" /\ Opener(k)' = "C.BSTART.COND" /\ SetSince(k)' ->
                        Went(k)' \in {Target(k)', Trace'[k].next_pc}
                   [] OTHER -> Went(k)' = Trace'[k].next_pc
      <4>1. Opener(k) \in {"C.BSTART.DIRECT", "C.BSTART.COND"} => Deciders(k) # {}
        BY DEF Opener
      <4>2. k \in 1..n /\ k \in 1..Len(Trace)
        BY <2>6
      <4>3. /\ CASE Trace[k].op = "C.BSTOP" /\ Opener(k) = "C.BSTART.DIRECT" -> Went(k) = Target(k)
                 [] Trace[k].op = "C.BSTOP" /\ Opener(k) = "C.BSTART.COND" /\ SetSince(k) ->
                      Went(k) \in {Target(k), Trace[k].next_pc}
                 [] OTHER -> Went(k) = Trace[k].next_pc
        BY <4>2 DEF BlockInv, BlockDiscipline
      <4>4. /\ Opener(k)' = Opener(k) /\ SetSince(k)' = SetSince(k)
            /\ Deciders(k) # {} => Target(k)' = Target(k)
        BY <3>3, <4>2
      <4>5. Trace'[k] = Trace[k] /\ Went(k)' = Went(k)
        BY <2>6, <3>2
      <4>6. QED BY <4>1, <4>3, <4>4, <4>5
    <3>5. /\ CASE i.op = "C.BSTOP" /\ Opener(n)' = "C.BSTART.DIRECT" -> t.pc = Target(n)'
               [] i.op = "C.BSTOP" /\ Opener(n)' = "C.BSTART.COND" /\ SetSince(n)' ->
                    t.pc \in {Target(n)', x.next_pc}
               [] OTHER -> t.pc = x.next_pc
      <4>1. /\ Opener(n)' = Opener(n) /\ SetSince(n)' = SetSince(n)
            /\ Deciders(n) # {} => Target(n)' = Target(n)
        BY <2>6, <3>3
      <4>2. t.pc = IF i.op = "C.BSTOP" /\ Taken(s) THEN s.tgt ELSE x.next_pc
        BY <2>2, <2>4 DEF ControlAfter
      <4>3. QED BY <2>7, <2>8, <4>1, <4>2 DEF Taken
    <3>6. ASSUME NEW k \in 1..n, k \notin 1..(n - 1) PROVE k = n
      BY <2>5, <3>6
    <3>7. QED BY <2>4, <2>6, <3>1, <3>4, <3>5, <3>6 DEF BlockDiscipline
  <2>11. QED BY <2>9, <2>10 DEF BlockInv
<1>5. QED BY <1>2, <1>3, <1>4 DEF StepKinds

(* Control leaves the sequential path only at the C.BSTOP of a direct block,  *)
(* or of a conditional one whose condition a SETC of the same block has set,  *)
(* and only to the target its own C.BSTART named.                            *)
THEOREM ExecutorBlockDiscipline == ExecutorSpec => []BlockDiscipline
<1>1. ExecutorInit => BlockInv
  BY ExecutorInitInv, FreshBlocks
<1>2. ContextInv /\ StepKinds /\ BlockInv => BlockInv' \/ Fresh(ctx)'
  BY BlockStep
<1>3. BlockInv => BlockDiscipline
  BY DEF BlockInv
<1>4. QED BY <1>1, <1>2, <1>3, ExecutorInitInv, ExecutorStepInv, FreshBlocks, PTL DEF ExecutorSpec

-----------------------------------------------------------------------------
(***************************************************************************)
(* What the trace tells.                                                    *)
(***************************************************************************)
Stores == { k \in 1..Len(Trace) : Trace[k].op = "SWI" }

LEMMA WhereMeans ==
  /\ \A r : ToRegister(r) = { k \in 1..Len(Trace) : Trace[k].dst = r }
  /\ \A a : StoresTo(a) = { k \in 1..Len(Trace) : Trace[k].op = "SWI" /\ Trace[k].mem.addr = a }
  /\ BlockCopies = { k \in 1..Len(Trace) : Trace[k].op \in {"MCOPY", "MSET"} }
  /\ MemoryByTrace =
       [a \in DOMAIN ctx.program.memory \cup { Trace[n].mem.addr : n \in Stores }
          |-> IF StoresTo(a) = {} THEN ctx.program.memory[a] ELSE Trace[Max(StoresTo(a))].mem.value]
BY DEF ToRegister, StoresTo, BlockCopies, MemoryByTrace, Stores, Where

(* What another record adds to the indices of each kind.                     *)
LEMMA TraceAdds ==
  ASSUME Trace \in Seq(Record), NEW x \in Record, Trace' = Append(Trace, x),
         NEW n, n = Len(Trace) + 1
  PROVE  /\ n \in Nat /\ Len(Trace') = n /\ Trace'[n] = x
         /\ \A k \in 1..(n - 1) : Trace'[k] = Trace[k]
         /\ \A r : /\ ToRegister(r) \in SUBSET (1..(n - 1))
                   /\ ToRegister(r)' = IF x.dst = r THEN ToRegister(r) \cup {n} ELSE ToRegister(r)
         /\ \A a : /\ StoresTo(a) \in SUBSET (1..(n - 1))
                   /\ StoresTo(a)' = IF x.op = "SWI" /\ x.mem.addr = a
                                       THEN StoresTo(a) \cup {n} ELSE StoresTo(a)
         /\ Stores \in SUBSET (1..(n - 1))
         /\ Stores' = IF x.op = "SWI" THEN Stores \cup {n} ELSE Stores
         /\ BlockCopies' = {} => BlockCopies = {} /\ x.op \notin {"MCOPY", "MSET"}
<1>1. /\ Trace' \in Seq(Record) /\ n \in Nat /\ Len(Trace') = n /\ Trace'[n] = x /\ n - 1 = Len(Trace)
      /\ \A k \in 1..(n - 1) : Trace'[k] = Trace[k]
  OBVIOUS
<1>2. 1..n = 1..(n - 1) \cup {n} /\ n \notin 1..(n - 1)
  BY <1>1
<1>3. ASSUME NEW r
      PROVE  /\ ToRegister(r) \in SUBSET (1..(n - 1))
             /\ ToRegister(r)' = IF x.dst = r THEN ToRegister(r) \cup {n} ELSE ToRegister(r)
  <2>1. ToRegister(r) = { k \in 1..(n - 1) : Trace[k].dst = r }
    BY <1>1 DEF ToRegister, Where
  <2>2. ToRegister(r)' = { k \in 1..n : Trace'[k].dst = r }
    BY <1>1 DEF ToRegister, Where
  <2>3. QED BY <1>1, <1>2, <2>1, <2>2
<1>4. ASSUME NEW a
      PROVE  /\ StoresTo(a) \in SUBSET (1..(n - 1))
             /\ StoresTo(a)' = IF x.op = "SWI" /\ x.mem.addr = a
                                 THEN StoresTo(a) \cup {n} ELSE StoresTo(a)
  <2>1. StoresTo(a) = { k \in 1..(n - 1) : Trace[k].op = "SWI" /\ Trace[k].mem.addr = a }
    BY <1>1 DEF StoresTo, Where
  <2>2. StoresTo(a)' = { k \in 1..n : Trace'[k].op = "SWI" /\ Trace'[k].mem.addr = a }
    BY <1>1 DEF StoresTo, Where
  <2>3. QED BY <1>1, <1>2, <2>1, <2>2
<1>5. /\ Stores \in SUBSET (1..(n - 1))
      /\ Stores' = IF x.op = "SWI" THEN Stores \cup {n} ELSE Stores
  <2>1. Stores = { k \in 1..(n - 1) : Trace[k].op = "SWI" }
    BY <1>1 DEF Stores
  <2>2. Stores' = { k \in 1..n : Trace'[k].op = "SWI" }
    BY <1>1 DEF Stores
  <2>3. QED BY <1>1, <1>2, <2>1, <2>2
<1>6. BlockCopies' = {} => BlockCopies = {} /\ x.op \notin {"MCOPY", "MSET"}
  <2>1. BlockCopies = { k \in 1..(n - 1) : Trace[k].op \in {"MCOPY", "MSET"} }
    BY <1>1 DEF BlockCopies, Where
  <2>2. BlockCopies' = { k \in 1..n : Trace'[k].op \in {"MCOPY", "MSET"} }
    BY <1>1 DEF BlockCopies, Where
  <2>3. QED BY <1>1, <1>2, <2>1, <2>2
<1>7. QED BY <1>1, <1>3, <1>4, <1>5, <1>6

(* A push moves every element of a queue one place, in the trace as in the   *)
(* queue.                                                                   *)
LEMMA QueuePushed ==
  ASSUME Trace \in Seq(Record), NEW x \in Record, Trace' = Append(Trace, x), NEW r,
         NEW p \in [1..QueueDepth -> Word], QueueTells(p, r),
         NEW q, q = IF x.dst = r THEN PushQueue(p, x.data) ELSE p
  PROVE  QueueTells(q, r)'
<1>1. PICK n : n = Len(Trace) + 1
  OBVIOUS
<1>2. PICK S : S = ToRegister(r)
  OBVIOUS
<1>3. PICK R : R = ToRegister(r)'
  OBVIOUS
<1>4. /\ n \in Nat /\ S \in SUBSET (1..(n - 1)) /\ R = (IF x.dst = r THEN S \cup {n} ELSE S)
      /\ Trace'[n] = x /\ \A k \in 1..(n - 1) : Trace'[k] = Trace[k]
  BY <1>1, <1>2, <1>3, TraceAdds
<1>5. ASSUME NEW i \in 1..QueueDepth
      PROVE  IF Cardinality(S) < i THEN p[i] = 0
             ELSE \E k \in S : Cardinality({ j \in S : j >= k }) = i /\ p[i] = Trace[k].data
  BY <1>2 DEF QueueTells
<1>6. SUFFICES ASSUME NEW i \in 1..QueueDepth
      PROVE  IF Cardinality(R) < i THEN q[i] = 0
             ELSE \E k \in R : Cardinality({ j \in R : j >= k }) = i /\ q[i] = Trace'[k].data
  BY <1>3 DEF QueueTells
<1>7. CASE x.dst # r
  <2>1. R = S /\ q = p
    BY <1>4, <1>7
  <2>2. \A k \in S : Trace'[k] = Trace[k]
    BY <1>4
  <2>3. QED BY ZenonT(60), <1>5, <2>1, <2>2
<1>8. CASE x.dst = r
  <2>1. /\ R = S \cup {n} /\ n \notin S /\ \A k \in S : k \in Nat /\ k < n /\ Trace'[k] = Trace[k]
    <3>1. n \notin 1..(n - 1) /\ \A k \in 1..(n - 1) : k \in Nat /\ k < n
      BY <1>4
    <3>2. R = S \cup {n}
      BY <1>4, <1>8
    <3>3. \A k \in S : k \in 1..(n - 1)
      BY <1>4
    <3>4. QED BY <1>4, <3>1, <3>2, <3>3
  <2>2. IsFiniteSet(S) /\ \A k \in S : IsFiniteSet({ j \in S : j >= k })
    <3>1. IsFiniteSet(1..(n - 1))
      <4>1. n - 1 \in Int
        BY <1>4
      <4>2. QED BY <4>1, FS_Interval
    <3>2. \A k \in S : { j \in S : j >= k } \in SUBSET (1..(n - 1))
      BY <1>4
    <3>3. QED BY <1>4, <3>1, <3>2, FS_Subset
  <2>3. Cardinality(R) = Cardinality(S) + 1 /\ Cardinality(S) \in Nat
    BY <2>1, <2>2, FS_AddElement, FS_CardinalityType
  <2>4. ASSUME NEW k \in S
        PROVE  Cardinality({ j \in R : j >= k }) = Cardinality({ j \in S : j >= k }) + 1
    <3>1. { j \in R : j >= k } = { j \in S : j >= k } \cup {n}
      BY <1>4, <2>1
    <3>2. n \notin { j \in S : j >= k }
      BY <2>1
    <3>3. QED BY <2>2, <3>1, <3>2, FS_AddElement
  <2>5. Cardinality({ j \in R : j >= n }) = 1
    <3>1. \A j \in S : ~(j >= n)
      BY <1>4, <2>1
    <3>2. n >= n
      BY <1>4
    <3>3. { j \in R : j >= n } = {n}
      BY <2>1, <3>1, <3>2, Zenon
    <3>4. QED BY <3>3, FS_Singleton
  <2>6. q[i] = IF i = 1 THEN x.data ELSE p[i - 1]
    BY <1>8 DEF PushQueue
  <2>7. CASE i = 1
    <3>1. ~(Cardinality(R) < 1) /\ n \in R /\ Trace'[n].data = q[1]
      BY <1>4, <2>1, <2>3, <2>6, <2>7
    <3>2. QED BY <2>5, <2>7, <3>1
  <2>8. CASE i # 1
    <3>1. i - 1 \in 1..QueueDepth /\ q[i] = p[i - 1] /\ i \in Int
      BY <2>6, <2>8, Sizes
    <3>2. CASE Cardinality(S) < i - 1
      BY <1>5, <2>3, <3>1, <3>2
    <3>3. CASE ~(Cardinality(S) < i - 1)
      <4>1. PICK k \in S : Cardinality({ j \in S : j >= k }) = i - 1 /\ p[i - 1] = Trace[k].data
        BY <1>5, <3>1, <3>3
      <4>2. k \in R /\ Trace'[k] = Trace[k]
        BY <2>1
      <4>3. Cardinality({ j \in R : j >= k }) = i
        <5>1. Cardinality({ j \in R : j >= k }) = (i - 1) + 1
          BY <2>4, <4>1, Zenon
        <5>2. (i - 1) + 1 = i
          BY <3>1
        <5>3. QED BY <5>1, <5>2, Zenon
      <4>4. ~(Cardinality(R) < i)
        BY <2>3, <3>1, <3>3
      <4>5. QED BY <3>1, <4>1, <4>2, <4>3, <4>4
    <3>4. QED BY <3>2, <3>3
  <2>9. QED BY <2>7, <2>8
<1>9. QED BY <1>7, <1>8

LEMMA MemoryStored ==
  ASSUME Trace \in Seq(Record), NEW x \in Record, Trace' = Append(Trace, x),
         ctx'.program = ctx.program, NEW memory, memory = MemoryByTrace,
         NEW after, after = IF x.op = "SWI" THEN WriteCell(memory, x.mem.addr, x.mem.value) ELSE memory
  PROVE  after = MemoryByTrace'
<1>1. PICK n : n = Len(Trace) + 1
  OBVIOUS
<1>2. /\ n \in Nat /\ Trace'[n] = x /\ \A k \in 1..(n - 1) : Trace'[k] = Trace[k]
      /\ \A a : /\ StoresTo(a) \in SUBSET (1..(n - 1))
                /\ StoresTo(a)' = IF x.op = "SWI" /\ x.mem.addr = a
                                    THEN StoresTo(a) \cup {n} ELSE StoresTo(a)
      /\ Stores \in SUBSET (1..(n - 1))
      /\ Stores' = IF x.op = "SWI" THEN Stores \cup {n} ELSE Stores
  BY <1>1, TraceAdds
<1>3. PICK image : image = ctx.program.memory /\ image = ctx'.program.memory
  OBVIOUS
<1> DEFINE D == DOMAIN image \cup { Trace[k].mem.addr : k \in Stores }
           E == DOMAIN image \cup { Trace'[k].mem.addr : k \in Stores' }
           V(a) == IF StoresTo(a) = {} THEN image[a] ELSE Trace[Max(StoresTo(a))].mem.value
           W(a) == IF StoresTo(a)' = {} THEN image[a] ELSE Trace'[Max(StoresTo(a)')].mem.value
<1>4. memory = [a \in D |-> V(a)]
  BY <1>3, WhereMeans
<1>5. MemoryByTrace' = [a \in E |-> W(a)]
  BY <1>3 DEF MemoryByTrace, Stores, Where
<1>6. E = IF x.op = "SWI" THEN D \cup {x.mem.addr} ELSE D
  <2>1. { Trace'[k].mem.addr : k \in Stores } = { Trace[k].mem.addr : k \in Stores }
    BY <1>2
  <2>2. { Trace'[k].mem.addr : k \in Stores \cup {n} }
          = { Trace'[k].mem.addr : k \in Stores } \cup {x.mem.addr}
    BY <1>2
  <2>3. QED BY <1>2, <2>1, <2>2
<1>7. ASSUME NEW a PROVE W(a) = IF x.op = "SWI" /\ x.mem.addr = a THEN x.mem.value ELSE V(a)
  <2>1. CASE x.op = "SWI" /\ x.mem.addr = a
    <3>1. StoresTo(a)' \in SUBSET (1..n) /\ n \in StoresTo(a)'
      <4>1. 1..(n - 1) \in SUBSET (1..n) /\ n \in 1..n
        BY <1>1, <1>2
      <4>2. QED BY <1>2, <2>1, <4>1
    <3>2. Max(StoresTo(a)') = n
      BY <1>2, <3>1, MaxLast
    <3>3. QED BY <1>2, <2>1, <3>1, <3>2
  <2>2. CASE ~(x.op = "SWI" /\ x.mem.addr = a)
    <3>1. StoresTo(a)' = StoresTo(a)
      BY <1>2, <2>2
    <3>2. StoresTo(a) # {} => Max(StoresTo(a)) \in 1..(n - 1)
      <4>1. n - 1 \in Nat
        BY <1>1
      <4>2. QED BY <1>2, <4>1, MaxOfIndices
    <3>3. QED BY <1>2, <2>2, <3>1, <3>2
  <2>3. QED BY <2>1, <2>2
<1> HIDE DEF D, E, V, W
<1>8. CASE x.op = "SWI"
  <2>1. DOMAIN memory = D /\ \A a \in D : memory[a] = V(a)
    BY <1>4
  <2>2. after = [a \in E |-> IF a = x.mem.addr THEN x.mem.value ELSE memory[a]]
    BY <1>6, <1>8, <2>1 DEF WriteCell
  <2>3. \A a \in E : (IF a = x.mem.addr THEN x.mem.value ELSE memory[a]) = W(a)
    BY <1>6, <1>7, <1>8, <2>1
  <2>4. QED BY <1>5, <2>2, <2>3
<1>9. CASE x.op # "SWI"
  BY <1>4, <1>5, <1>6, <1>7, <1>9
<1>10. QED BY <1>8, <1>9
(* The invariant, as it is: one more record tells what one more instruction  *)
(* did.                                                                     *)
LEMMA TraceStep ==
  ASSUME ContextInv, ctx'.program = ctx.program, Commits(ctx, ctx'), TraceTellsState
  PROVE  TraceTellsState'
<1> DEFINE i == FetchDecode(ctx)
<1>1. PICK x : x = MakeMinstRecord(ctx, i)
  OBVIOUS
<1>2. PICK c : c = ctx
  OBVIOUS
<1>3. PICK d : d = ctx'
  OBVIOUS
<1>4. c.state \in StateType /\ c.memory \in Memories /\ c.committed \in Seq(Record)
  BY <1>2 DEF ContextInv, Contexts
<1>5. IsInstruction(i) /\ i.op \in Implemented
  <2>1. c.memory[c.state.pc] \in Cell
    BY <1>2, <1>4, MemoriesAreTyped DEF MemoryType, Commits
  <2>2. QED BY <1>2, <2>1, DecodesToInstruction DEF FetchDecode, Commits
<1>6. /\ d.state = NextState(c, i) /\ d.memory = MemoryAfter(c, i)
      /\ d.committed = Append(c.committed, x)
  BY <1>1, <1>2, <1>3 DEF Commits
<1>7. x \in Record
  BY <1>1, <1>2, <1>5, RecordType DEF ContextInv, Commits
<1>8. /\ x.op = i.op /\ x.dst = (IF i.op \in Computing THEN Dst(i) ELSE 0)
      /\ x.data = (IF i.op \in Computing THEN Result(c, i) ELSE 0)
      /\ i.op = "SWI" => /\ x.mem.addr = StoreAddress(c.state, i)
                          /\ x.mem.value = StoreValue(c.state, i)
  BY <1>1, <1>2 DEF MakeMinstRecord
<1>9. StateAfter(c, i, d.state)
  BY <1>4, <1>5, <1>6, NextStateEffect
<1>10. Trace \in Seq(Record) /\ Trace' = Append(Trace, x)
  BY <1>2, <1>3, <1>4, <1>6 DEF Trace
<1>11. PICK n : n = Len(Trace) + 1
  OBVIOUS
<1>12. /\ n \in Nat /\ Len(Trace') = n /\ Trace'[n] = x
       /\ \A k \in 1..(n - 1) : Trace'[k] = Trace[k]
       /\ \A r : /\ ToRegister(r) \in SUBSET (1..(n - 1))
                 /\ ToRegister(r)' = IF x.dst = r THEN ToRegister(r) \cup {n} ELSE ToRegister(r)
       /\ BlockCopies' = {} => BlockCopies = {} /\ x.op \notin {"MCOPY", "MSET"}
  BY <1>7, <1>10, <1>11, TraceAdds
<1>13. ctx'.state.insn_count = Len(Trace')
  <2>1. c.state.insn_count = Len(Trace)
    BY <1>2 DEF TraceTellsState
  <2>2. QED BY <1>3, <1>9, <1>11, <1>12, <2>1 DEF StateAfter, ControlAfter
<1>14. /\ d.state.gpr = (IF x.dst \in 1..(GprCount - 1) THEN [c.state.gpr EXCEPT ![x.dst] = x.data]
                          ELSE c.state.gpr)
       /\ d.state.tq = (IF x.dst = 31 THEN PushQueue(c.state.tq, x.data) ELSE c.state.tq)
       /\ d.state.uq = (IF x.dst = 30 THEN PushQueue(c.state.uq, x.data) ELSE c.state.uq)
  <2>1. 0 \notin 1..(GprCount - 1) /\ 0 # 31 /\ 0 # 30
    BY Sizes
  <2>2. RegistersAfter(c, i, d.state)
    BY <1>9 DEF StateAfter
  <2> HIDE DEF i
  <2>3. CASE i.op \in Computing
    BY <1>8, <2>2, <2>3 DEF RegistersAfter
  <2>4. CASE i.op \notin Computing
    BY <1>8, <2>1, <2>2, <2>4 DEF RegistersAfter
  <2>5. QED BY <2>3, <2>4
<1>15. /\ c.state.gpr \in [1..(GprCount - 1) -> Word] /\ c.state.tq \in [1..QueueDepth -> Word]
       /\ c.state.uq \in [1..QueueDepth -> Word]
  BY <1>4 DEF StateType
<1>16. ASSUME NEW r \in 1..(GprCount - 1) PROVE ctx'.state.gpr[r] = RegisterByTrace(r)'
  <2>1. c.state.gpr[r] = RegisterByTrace(r)
    BY <1>2 DEF TraceTellsState
  <2>2. CASE x.dst = r
    <3>1. ToRegister(r)' \in SUBSET (1..n) /\ n \in ToRegister(r)'
      <4>1. 1..(n - 1) \in SUBSET (1..n) /\ n \in 1..n
        BY <1>10, <1>11, <1>12
      <4>2. QED BY <1>12, <2>2, <4>1
    <3>2. Max(ToRegister(r)') = n
      BY <1>12, <3>1, MaxLast
    <3>3. RegisterByTrace(r)' = x.data
      BY <1>12, <3>1, <3>2 DEF RegisterByTrace
    <3>4. d.state.gpr[r] = x.data
      BY <1>14, <1>15, <2>2
    <3>5. QED BY <1>3, <3>3, <3>4
  <2>3. CASE x.dst # r
    <3>1. ToRegister(r)' = ToRegister(r)
      BY <1>12, <2>3
    <3>2. ToRegister(r) # {} => Max(ToRegister(r)) \in 1..(n - 1)
      <4>1. n - 1 \in Nat
        BY <1>10, <1>11
      <4>2. QED BY <1>12, <4>1, MaxOfIndices
    <3>3. RegisterByTrace(r)' = RegisterByTrace(r)
      BY <1>12, <3>1, <3>2 DEF RegisterByTrace
    <3>4. d.state.gpr[r] = c.state.gpr[r]
      BY <1>14, <1>15, <2>3
    <3>5. QED BY <1>3, <2>1, <3>3, <3>4
  <2>4. QED BY <2>2, <2>3
<1>17. QueueTells(ctx.state.tq, 31)'
  <2>1. PICK p : p = c.state.tq
    OBVIOUS
  <2>2. PICK q : q = d.state.tq
    OBVIOUS
  <2>3. QueueTells(p, 31)
    BY <1>2, <2>1 DEF TraceTellsState
  <2>4. QueueTells(q, 31)'
    <3>1. p \in [1..QueueDepth -> Word] /\ q = IF x.dst = 31 THEN PushQueue(p, x.data) ELSE p
      BY <1>14, <1>15, <2>1, <2>2
    <3>2. QED BY <1>7, <1>10, <2>3, <3>1, QueuePushed
  <2>5. QED BY <1>3, <2>2, <2>4 DEF QueueTells
<1>18. QueueTells(ctx.state.uq, 30)'
  <2>1. PICK p : p = c.state.uq
    OBVIOUS
  <2>2. PICK q : q = d.state.uq
    OBVIOUS
  <2>3. QueueTells(p, 30)
    BY <1>2, <2>1 DEF TraceTellsState
  <2>4. QueueTells(q, 30)'
    <3>1. p \in [1..QueueDepth -> Word] /\ q = IF x.dst = 30 THEN PushQueue(p, x.data) ELSE p
      BY <1>14, <1>15, <2>1, <2>2
    <3>2. QED BY <1>7, <1>10, <2>3, <3>1, QueuePushed
  <2>5. QED BY <1>3, <2>2, <2>4 DEF QueueTells
<1>19. BlockCopies' = {} => ctx'.memory = MemoryByTrace'
  <2> SUFFICES ASSUME BlockCopies' = {} PROVE ctx'.memory = MemoryByTrace'
    OBVIOUS
  <2>1. c.memory = MemoryByTrace /\ i.op \notin {"MCOPY", "MSET"}
    BY <1>2, <1>8, <1>12 DEF TraceTellsState
  <2>2. NextMemory(c, i) = c.memory
    BY <2>1 DEF NextMemory
  <2>3. d.memory = IF x.op = "SWI" THEN WriteCell(c.memory, x.mem.addr, x.mem.value) ELSE c.memory
    BY <1>6, <1>8, <2>2 DEF MemoryAfter
  <2>4. PICK memory : memory = c.memory
    OBVIOUS
  <2>5. PICK after : after = d.memory
    OBVIOUS
  <2>6. after = MemoryByTrace'
    BY <1>7, <1>10, <2>1, <2>3, <2>4, <2>5, MemoryStored
  <2>7. QED BY <1>3, <2>5, <2>6
<1>20. QED BY <1>13, <1>16, <1>17, <1>18, <1>19 DEF TraceTellsState

LEMMA FreshTells == ContextInv /\ Fresh(ctx) => TraceTellsState
<1> SUFFICES ASSUME ContextInv, Fresh(ctx) PROVE TraceTellsState
  OBVIOUS
<1>1. Trace = << >> /\ Len(Trace) = 0 /\ 1..0 = {}
  BY DEF Fresh, Trace
<1>2. \A r : ToRegister(r) = {} /\ Cardinality(ToRegister(r)) = 0
  <2>1. \A r : ToRegister(r) = {}
    BY <1>1, WhereMeans
  <2>2. QED BY <2>1, FS_EmptySet
<1>3. Stores = {} /\ \A a : StoresTo(a) = {}
  BY <1>1, WhereMeans DEF Stores
<1>4. ctx.state.insn_count = 0
  BY DEF Fresh, ZeroState
<1>5. \A r \in 1..(GprCount - 1) : ctx.state.gpr[r] = 0
  BY DEF Fresh, ZeroState
<1>6. \A k \in 1..QueueDepth : ctx.state.tq[k] = 0 /\ ctx.state.uq[k] = 0 /\ 0 < k
  BY DEF Fresh, ZeroState
<1>7. QueueTells(ctx.state.tq, 31) /\ QueueTells(ctx.state.uq, 30)
  BY <1>2, <1>6 DEF QueueTells
<1>8. ctx.memory = MemoryByTrace
  <2>1. PICK image : image = ctx.program.memory
    OBVIOUS
  <2>2. MemoryByTrace = [a \in DOMAIN image |-> image[a]]
    BY <1>3, <2>1, WhereMeans
  <2>3. ctx.memory = image /\ MemoryType(image)
    BY <2>1, MemoriesAreTyped DEF Fresh, ContextInv, Contexts
  <2>4. image = [a \in DOMAIN image |-> image[a]]
    BY <2>3 DEF MemoryType
  <2>5. QED BY <2>2, <2>3, <2>4
<1>9. QED BY <1>1, <1>2, <1>4, <1>5, <1>7, <1>8 DEF TraceTellsState, RegisterByTrace
(* The records of the committed instructions determine the registers, the T  *)
(* and U queues and, until an MCOPY or MSET, memory: two models whose traces  *)
(* agree, which is all the compare engine checks, agree on these too.        *)
THEOREM ExecutorTraceTells == ExecutorSpec => []TraceTellsState
<1>1. ContextInv /\ StepKinds /\ TraceTellsState => TraceTellsState' \/ Fresh(ctx)'
  <2> SUFFICES ASSUME ContextInv, StepKinds, TraceTellsState
               PROVE  TraceTellsState' \/ Fresh(ctx)'
    OBVIOUS
  <2>1. CASE ctx'.program = ctx.program /\ SameArchitecture(ctx, ctx')
    <3>1. ctx'.state = ctx.state /\ ctx'.memory = ctx.memory /\ Trace' = Trace
      BY <2>1 DEF SameArchitecture, Trace
    <3>2. /\ \A r : ToRegister(r)' = ToRegister(r)
          /\ \A a : StoresTo(a)' = StoresTo(a)
          /\ Stores' = Stores /\ BlockCopies' = BlockCopies
      BY <3>1 DEF ToRegister, StoresTo, Stores, BlockCopies, Where
    <3>3. \A r : RegisterByTrace(r)' = RegisterByTrace(r)
      BY <3>1, <3>2 DEF RegisterByTrace
    <3>4. MemoryByTrace' = MemoryByTrace
      BY <2>1, <3>1, <3>2 DEF MemoryByTrace, Stores, Where
    <3>5. QueueTells(ctx.state.tq, 31)' /\ QueueTells(ctx.state.uq, 30)'
      BY ZenonT(60), <3>1, <3>2 DEF TraceTellsState, QueueTells
    <3>6. QED BY <3>1, <3>2, <3>3, <3>4, <3>5 DEF TraceTellsState
  <2>2. CASE ctx'.program = ctx.program /\ Commits(ctx, ctx')
    BY <2>2, TraceStep
  <2>3. CASE Fresh(ctx')
    BY <2>3 DEF Fresh
  <2>4. QED BY <2>1, <2>2, <2>3 DEF StepKinds
<1>2. QED BY <1>1, ExecutorInitInv, ExecutorStepInv, FreshTells, PTL DEF ExecutorSpec

-----------------------------------------------------------------------------
(***************************************************************************)
(* The parser.  At(line, V, n, S): the places before n, those of values      *)
(* apart, where an argument of S stands.                                    *)
(***************************************************************************)
At(line, V, n, S) == { i \in 1..(n - 1) : i \notin V /\ line[i] \in S }

LEMMA MemberTable ==
  /\ \A o \in Parser!Options : Parser!Member[o] \in DOMAIN Parser!Defaults
  /\ \A o, p \in Parser!Options : Parser!Member[o] = Parser!Member[p] => o = p
  /\ Parser!Member["--bin"] = "program_path" /\ Parser!Member["--log-level"] = "log_level"
  /\ Parser!Member["--engine"] = "engine" /\ Parser!Member["--emit-minst-trace"] = "emit_trace_path"
  /\ Parser!Member["--result-dump"] = "result_dump_path"
  /\ Parser!Member["--stop-pc"] = "stop_pc" /\ Parser!Member["--raw-base"] = "raw_base_address"
  /\ Parser!Member["--max-cycles"] = "max_cycles"
  /\ Parser!Member["--compare-window"] = "compare_window"
  /\ Parser!Member["--result-address"] = "result_address"
  /\ Parser!Member["--result-size"] = "result_size"
<1>1. \A o, p \in Parser!Options : Parser!Member[o] = Parser!Member[p] => o = p
  BY DEF Parser!Member, Parser!Options, Parser!NumberOptions
<1>2. \A o \in Parser!Options : Parser!Member[o] \in DOMAIN Parser!Defaults
  BY DEF Parser!Member, Parser!Options, Parser!NumberOptions, Parser!Defaults
<1>3. QED BY <1>1, <1>2 DEF Parser!Member, Parser!Options, Parser!NumberOptions

(* Whether a place is a value's depends on the places before it only.        *)
ValueTable(v, line, last) ==
  v = [i \in 0..last |-> i > 1 /\ line[i - 1] \in Parser!Options /\ ~v[i - 1]]

LEMMA ValueTableExists ==
  ASSUME NEW line, NEW last \in Nat
  PROVE  \E v : ValueTable(v, line, last)
<1> DEFINE T == { n \in Nat : ~ \E v : ValueTable(v, line, n) }
<1>1. SUFFICES ASSUME T # {} PROVE FALSE
  OBVIOUS
<1>2. PICK n \in T : \A k \in T : n <= k
  <2>1. T \in SUBSET Nat
    OBVIOUS
  <2>2. QED BY <1>1, <2>1, NatHasMinimum
<1>3. n # 0
  <2>1. ValueTable([k \in 0..0 |-> FALSE], line, 0)
    <3> DEFINE z == [k \in 0..0 |-> FALSE]
    <3>1. \A i \in 0..0 : z[i] = (i > 1 /\ line[i - 1] \in Parser!Options /\ ~z[i - 1])
      <4>1. \A i \in 0..0 : ~(i > 1) /\ z[i] = FALSE
        OBVIOUS
      <4> HIDE DEF z
      <4>2. QED BY <4>1
    <3>2. z = [i \in 0..0 |-> z[i]]
      OBVIOUS
    <3> HIDE DEF z
    <3>3. ValueTable(z, line, 0)
      BY <3>1, <3>2 DEF ValueTable
    <3>4. QED BY <3>3 DEF z
  <2>2. QED BY <2>1
<1>4. PICK v : ValueTable(v, line, n - 1)
  <2>1. n - 1 \in Nat /\ n - 1 \notin T
    BY <1>2, <1>3
  <2>2. QED BY <2>1
<1> DEFINE w == [i \in 0..n |-> IF i = n THEN n > 1 /\ line[n - 1] \in Parser!Options /\ ~v[n - 1]
                                ELSE v[i]]
<1>5. ValueTable(w, line, n)
  <2>1. \A i \in 0..(n - 1) : v[i] = (i > 1 /\ line[i - 1] \in Parser!Options /\ ~v[i - 1])
    BY <1>4 DEF ValueTable
  <2>2. \A i \in 0..n : w[i] = (i > 1 /\ line[i - 1] \in Parser!Options /\ ~w[i - 1])
    <3> SUFFICES ASSUME NEW i \in 0..n
                 PROVE  w[i] = (i > 1 /\ line[i - 1] \in Parser!Options /\ ~w[i - 1])
      OBVIOUS
    <3>1. CASE i = n
      <4>1. w[n - 1] = v[n - 1]
        BY <1>3
      <4>2. QED BY <1>3, <3>1, <4>1
    <3>2. CASE i # n
      <4>1. i \in 0..(n - 1) /\ w[i] = v[i] /\ (i > 1 => i - 1 \in 0..n /\ w[i - 1] = v[i - 1])
        BY <3>2
      <4>2. QED BY <2>1, <4>1
    <3>3. QED BY <3>1, <3>2
  <2>3. w = [i \in 0..n |-> w[i]]
    OBVIOUS
  <2> HIDE DEF w
  <2>4. QED BY <2>2, <2>3 DEF ValueTable
<1>6. QED BY <1>5

LEMMA ValuePlacesMean ==
  ASSUME argv \in Seq(STRING)
  PROVE  /\ Parser!ValuePlaces \subseteq 1..Len(argv)
         /\ \A i \in 1..Len(argv) :
              i \in Parser!ValuePlaces
                <=> i > 1 /\ argv[i - 1] \in Parser!Options /\ i - 1 \notin Parser!ValuePlaces
<1>1. Len(argv) \in Nat
  OBVIOUS
<1> DEFINE v == CHOOSE w : w = [i \in 0..Len(argv) |->
                                  i > 1 /\ argv[i - 1] \in Parser!Options /\ ~w[i - 1]]
<1>2. ValueTable(v, argv, Len(argv))
  <2>1. \E w : ValueTable(w, argv, Len(argv))
    BY <1>1, ValueTableExists
  <2>2. QED BY <2>1 DEF ValueTable
<1>3. Parser!ValuePlaces = { i \in 1..Len(argv) : v[i] }
  BY DEF Parser!ValuePlaces
<1> HIDE DEF v
<1>4. \A i \in 1..Len(argv) : v[i] = (i > 1 /\ argv[i - 1] \in Parser!Options /\ ~v[i - 1])
  BY <1>1, <1>2 DEF ValueTable
<1>5. \A i \in 1..Len(argv) : i > 1 => i - 1 \in 1..Len(argv)
  BY <1>1
<1>6. QED BY <1>3, <1>4, <1>5

(* What the arguments before place n say, taken one by one.                  *)
Known == Parser!Switches \cup Parser!Options \cup Names

SaysOption(line, V, n, a, o) ==
  a[Parser!Member[o]] =
    IF At(line, V, n, {o}) = {} THEN Parser!Defaults[Parser!Member[o]]
    ELSE Parser!Meaning(o, line[Max(At(line, V, n, {o})) + 1])

SaysProgram(line, V, n, a) ==
  LET given == At(line, V, n, {"--bin"} \cup Names)
  IN  /\ a.program_path = IF given = {} THEN ""
                          ELSE IF line[Max(given)] \in Names THEN line[Max(given)]
                          ELSE line[Max(given) + 1]
      /\ given # {} => a.program_path # ""
      /\ \A i \in At(line, V, n, Names) : \A j \in given : i <= j

SaysSwitches(line, V, n, a) ==
  /\ a.disassembly_only \in BOOLEAN /\ a.enable_disassembly \in BOOLEAN /\ a.enable_reference \in BOOLEAN
  /\ a.disassembly_only <=> At(line, V, n, {"--disasm-only"}) # {}
  /\ a.enable_disassembly <=> At(line, V, n, {"--disasm-only", "--disasm"}) # {}
  /\ a.enable_reference <=> At(line, V, n, {"--no-reference"}) = {}

ArgsTyped(a) ==
  /\ DOMAIN a = DOMAIN Parser!Defaults
  /\ a.engine \in Parser!Engines
  /\ a.stop_pc \in Word \cup {None} /\ a.raw_base_address \in Word
  /\ a.max_cycles \in Word \cup {None} /\ a.compare_window \in Nat \ {0}
  /\ a.result_address \in Word \cup {None} /\ a.result_size \in Word \cup {None}
  /\ a.disassembly_only => a.enable_disassembly

Told(line, V, n, a) ==
  /\ \A i \in 1..(n - 1) : i \notin V => line[i] \in Known
  /\ \A o \in Parser!Options \ {"--bin"} : SaysOption(line, V, n, a, o)
  /\ SaysProgram(line, V, n, a)
  /\ SaysSwitches(line, V, n, a)
  /\ ArgsTyped(a)

Grows(line, V, n, k) ==
  \A S : /\ line[n] \notin S => At(line, V, k, S) = At(line, V, n, S)
         /\ line[n] \in S => /\ At(line, V, k, S) = At(line, V, n, S) \cup {n}
                             /\ Max(At(line, V, k, S)) = n /\ At(line, V, k, S) # {}
         /\ \A i \in At(line, V, n, S) : i < n

LEMMA AtGrows ==
  ASSUME NEW line, NEW V, NEW n \in Nat \ {0}, n \notin V, NEW k,
         k = n + 1 \/ (k = n + 2 /\ n + 1 \in V)
  PROVE  Grows(line, V, n, k)
<1> SUFFICES ASSUME NEW S
    PROVE /\ line[n] \notin S => At(line, V, k, S) = At(line, V, n, S)
          /\ line[n] \in S => /\ At(line, V, k, S) = At(line, V, n, S) \cup {n}
                              /\ Max(At(line, V, k, S)) = n /\ At(line, V, k, S) # {}
          /\ \A i \in At(line, V, n, S) : i < n
  BY DEF Grows
<1>1. \A i : i \in 1..(k - 1) /\ i \notin V <=> (i \in 1..(n - 1) /\ i \notin V) \/ i = n
  OBVIOUS
<1>2. \A i \in At(line, V, n, S) : i \in Nat /\ i < n
  BY DEF At
<1>3. line[n] \notin S => At(line, V, k, S) = At(line, V, n, S)
  BY <1>1 DEF At
<1>4. ASSUME line[n] \in S
      PROVE  /\ At(line, V, k, S) = At(line, V, n, S) \cup {n}
             /\ Max(At(line, V, k, S)) = n /\ At(line, V, k, S) # {}
  <2>1. At(line, V, k, S) = At(line, V, n, S) \cup {n}
    BY <1>1, <1>4 DEF At
  <2>2. QED BY <1>2, <2>1 DEF Max
<1>5. QED BY <1>2, <1>3, <1>4

ValueTaken(line, n, a, b) ==
  /\ line[n] \in Parser!Options /\ Parser!Acceptable(line[n], line[n + 1]) /\ line[n + 1] # ""
  /\ b = [a EXCEPT ![Parser!Member[line[n]]] = Parser!Meaning(line[n], line[n + 1])]

LEMMA ValueTold ==
  ASSUME NEW line, NEW V, NEW n \in Nat \ {0}, n \notin V, n + 1 \in V, NEW a, Told(line, V, n, a),
         NEW b, ValueTaken(line, n, a, b)
  PROVE  Told(line, V, n + 2, b)
<1> DEFINE k == n + 2   o == line[n]   x == Parser!Meaning(o, line[n + 1])
<1>1. \A S : /\ line[n] \notin S => At(line, V, k, S) = At(line, V, n, S)
             /\ line[n] \in S => /\ At(line, V, k, S) = At(line, V, n, S) \cup {n}
                                 /\ Max(At(line, V, k, S)) = n /\ At(line, V, k, S) # {}
             /\ \A i \in At(line, V, n, S) : i < n
  <2>1. Grows(line, V, n, k)
    BY AtGrows
  <2>2. QED BY <2>1 DEF Grows
<1>2. /\ DOMAIN b = DOMAIN Parser!Defaults /\ b[Parser!Member[o]] = x
      /\ \A f \in DOMAIN Parser!Defaults : f # Parser!Member[o] => b[f] = a[f]
  BY MemberTable DEF ValueTaken, Told, ArgsTyped
<1>3. \A i \in 1..(k - 1) : i \notin V => line[i] \in Known
  <2>1. \A i \in 1..(k - 1) : i \in 1..(n - 1) \/ i = n \/ i = n + 1
    OBVIOUS
  <2>2. \A i \in 1..(n - 1) : i \notin V => line[i] \in Known
    BY DEF Told
  <2>3. QED BY <2>1, <2>2 DEF Known, ValueTaken
<1>4. ASSUME NEW p \in Parser!Options \ {"--bin"} PROVE SaysOption(line, V, k, b, p)
  <2>1. SaysOption(line, V, n, a, p)
    BY DEF Told
  <2>2. CASE p = o
    BY <1>1, <1>2, <2>2 DEF SaysOption, ValueTaken
  <2>3. CASE p # o
    <3>1. b[Parser!Member[p]] = a[Parser!Member[p]]
      BY <1>2, <2>3, MemberTable DEF ValueTaken
    <3>2. At(line, V, k, {p}) = At(line, V, n, {p})
      BY <1>1, <2>3
    <3>3. QED BY <2>1, <3>1, <3>2 DEF SaysOption
  <2>4. QED BY <2>2, <2>3
<1>5. o \notin Names /\ o \notin Parser!Switches
  BY LinesAssumption DEF ValueTaken, Parser!Switches, Parser!Options, Parser!NumberOptions
<1>6. SaysProgram(line, V, k, b)
  <2>1. SaysProgram(line, V, n, a) /\ At(line, V, k, Names) = At(line, V, n, Names)
    BY <1>1, <1>5 DEF Told
  <2>2. CASE o = "--bin"
    <3>1. b.program_path = line[n + 1]
      BY <1>2, <2>2, MemberTable DEF Parser!Meaning, Parser!NumberOptions
    <3> DEFINE S == {"--bin"} \cup Names
    <3>2. At(line, V, k, S) = At(line, V, n, S) \cup {n} /\ Max(At(line, V, k, S)) = n
      BY <1>1, <2>2
    <3>3. \A i \in At(line, V, n, Names) : i <= n
      <4>1. \A i \in At(line, V, n, Names) : i < n /\ i \in Int
        BY <1>1 DEF At
      <4>2. QED BY <4>1
    <3>4. \A i \in At(line, V, k, Names) : \A j \in At(line, V, k, S) : i <= j
      BY <2>1, <3>2, <3>3 DEF SaysProgram
    <3> HIDE DEF k
    <3>5. QED BY <1>5, <2>2, <3>1, <3>2, <3>4 DEF SaysProgram, ValueTaken
  <2>3. CASE o # "--bin"
    <3>1. b.program_path = a.program_path
      BY ZenonT(60), <1>2, <2>3, MemberTable DEF ValueTaken, Parser!Options, Parser!NumberOptions, Parser!Defaults
    <3>2. At(line, V, k, {"--bin"} \cup Names) = At(line, V, n, {"--bin"} \cup Names)
      BY <1>1, <1>5, <2>3
    <3>3. QED BY <2>1, <3>1, <3>2 DEF SaysProgram
  <2>4. QED BY <2>2, <2>3
<1>7. SaysSwitches(line, V, k, b) /\ (b.disassembly_only => b.enable_disassembly)
  <2>1. /\ b.disassembly_only = a.disassembly_only /\ b.enable_disassembly = a.enable_disassembly
        /\ b.enable_reference = a.enable_reference
    BY ZenonT(60), <1>2, MemberTable DEF ValueTaken, Parser!Options, Parser!NumberOptions, Parser!Defaults
  <2>2. \A S \in SUBSET Parser!Switches : At(line, V, k, S) = At(line, V, n, S)
    BY <1>1, <1>5
  <2>3. /\ At(line, V, k, {"--disasm-only"}) = At(line, V, n, {"--disasm-only"})
        /\ At(line, V, k, {"--disasm-only", "--disasm"}) = At(line, V, n, {"--disasm-only", "--disasm"})
        /\ At(line, V, k, {"--no-reference"}) = At(line, V, n, {"--no-reference"})
    BY <2>2 DEF Parser!Switches
  <2>4. QED BY <2>1, <2>3 DEF Told, SaysSwitches, ArgsTyped
<1>8. ArgsTyped(b)
  <2>1. ArgsTyped(a)
    BY DEF Told
  <2>2. o \in Parser!NumberOptions => x \in Word /\ x \in Nat /\ (o = "--compare-window" => x # 0)
    <3>1. \A w \in Word : w \in Nat
      BY Sizes DEF Word
    <3>2. QED BY <3>1, LinesAssumption DEF ValueTaken, Parser!Meaning, Parser!Acceptable
  <2>3. o = "--engine" => x \in Parser!Engines
    BY DEF ValueTaken, Parser!Meaning, Parser!Acceptable, Parser!NumberOptions
  <2> HIDE DEF x, o
  <2>4. /\ b.engine = a.engine \/ (o = "--engine" /\ b.engine = x)
        /\ b.stop_pc = a.stop_pc \/ (o \in Parser!NumberOptions /\ b.stop_pc = x)
        /\ b.raw_base_address = a.raw_base_address
             \/ (o \in Parser!NumberOptions /\ b.raw_base_address = x)
        /\ b.max_cycles = a.max_cycles \/ (o \in Parser!NumberOptions /\ b.max_cycles = x)
        /\ b.compare_window = a.compare_window \/ (o = "--compare-window" /\ b.compare_window = x)
        /\ b.result_address = a.result_address
             \/ (o \in Parser!NumberOptions /\ b.result_address = x)
        /\ b.result_size = a.result_size \/ (o \in Parser!NumberOptions /\ b.result_size = x)
    <3>1. o \in Parser!Options /\ \A m \in DOMAIN Parser!Defaults : b[m] = a[m] \/ (m = Parser!Member[o] /\ b[m] = x)
      BY <1>2 DEF ValueTaken, o
    <3>2. {"engine", "stop_pc", "raw_base_address", "max_cycles", "compare_window", "result_address",
           "result_size"} \subseteq DOMAIN Parser!Defaults
      BY DEF Parser!Defaults
    <3>3. \A p \in Parser!Options : Parser!Member[o] = Parser!Member[p] => o = p
      BY <3>1, MemberTable
    <3>4. Parser!NumberOptions \cup {"--engine"} \subseteq Parser!Options
      BY DEF Parser!Options
    <3>5. {"--stop-pc", "--raw-base", "--max-cycles", "--compare-window", "--result-address", "--result-size"}
            \subseteq Parser!NumberOptions
      BY DEF Parser!NumberOptions
    <3> DEFINE K(p, m) == Parser!Member[p] = m /\ p \in Parser!Options
    <3>6. \A p, m : K(p, m) /\ m \in DOMAIN Parser!Defaults => b[m] = a[m] \/ (o = p /\ b[m] = x)
      BY <3>1, <3>3
    <3>7. /\ K("--engine", "engine") /\ K("--stop-pc", "stop_pc") /\ K("--raw-base", "raw_base_address")
          /\ K("--max-cycles", "max_cycles") /\ K("--compare-window", "compare_window")
          /\ K("--result-address", "result_address") /\ K("--result-size", "result_size")
      BY <3>4, <3>5, MemberTable
    <3> HIDE DEF K, o, x
    <3>8. /\ b["engine"] = a["engine"] \/ (o = "--engine" /\ b["engine"] = x)
          /\ b["compare_window"] = a["compare_window"] \/ (o = "--compare-window" /\ b["compare_window"] = x)
      BY <3>2, <3>6, <3>7
    <3>9. \A m \in {"stop_pc", "raw_base_address", "max_cycles", "result_address", "result_size"} :
            b[m] = a[m] \/ (o \in Parser!NumberOptions /\ b[m] = x)
      BY <3>2, <3>5, <3>6, <3>7
    <3>10. QED BY <3>8, <3>9
  <2>5. "--compare-window" \in Parser!NumberOptions
    BY DEF Parser!NumberOptions
  <2>6. QED BY <1>2, <1>7, <2>1, <2>2, <2>3, <2>4, <2>5 DEF ArgsTyped
<1>9. QED BY <1>3, <1>4, <1>6, <1>7, <1>8 DEF Told
SwitchTaken(line, n, a, b) ==
  /\ line[n] \in Parser!Switches
  /\ b = [ a EXCEPT
             !.enable_disassembly = @ \/ line[n] \in {"--disasm", "--disasm-only"},
             !.disassembly_only   = @ \/ line[n] = "--disasm-only",
             !.enable_reference   = @ /\ line[n] # "--no-reference",
             !.enable_pipeview    = @ /\ line[n] # "--no-pipeview",
             !.enable_report      = @ /\ line[n] # "--no-report" ]

LEMMA SwitchTold ==
  ASSUME NEW line, NEW V, NEW n \in Nat \ {0}, n \notin V, NEW a, Told(line, V, n, a),
         NEW b, SwitchTaken(line, n, a, b)
  PROVE  Told(line, V, n + 1, b)
<1> DEFINE k == n + 1   o == line[n]
<1>1. \A S : /\ line[n] \notin S => At(line, V, k, S) = At(line, V, n, S)
             /\ line[n] \in S => At(line, V, k, S) # {}
  <2>1. Grows(line, V, n, k)
    BY AtGrows
  <2>2. QED BY <2>1 DEF Grows
<1>2. /\ DOMAIN b = DOMAIN Parser!Defaults
      /\ \A f \in DOMAIN Parser!Defaults \ {"enable_disassembly", "disassembly_only", "enable_reference",
                                           "enable_pipeview", "enable_report"} : b[f] = a[f]
  BY DEF SwitchTaken, Told, ArgsTyped, Parser!Defaults
<1>3. \A i \in 1..(k - 1) : i \notin V => line[i] \in Known
  <2>1. \A i \in 1..(k - 1) : i \in 1..(n - 1) \/ i = n
    OBVIOUS
  <2>2. \A i \in 1..(n - 1) : i \notin V => line[i] \in Known
    BY DEF Told
  <2>3. QED BY <2>1, <2>2 DEF Known, SwitchTaken
<1>4. o \notin Names /\ o \notin Parser!Options
  BY LinesAssumption DEF SwitchTaken, Parser!Switches, Parser!Options, Parser!NumberOptions
<1>5. ASSUME NEW p \in Parser!Options \ {"--bin"} PROVE SaysOption(line, V, k, b, p)
  <2>1. SaysOption(line, V, n, a, p)
    BY DEF Told
  <2>2. b[Parser!Member[p]] = a[Parser!Member[p]]
    <3>1. Parser!Member[p] \notin {"enable_disassembly", "disassembly_only", "enable_reference",
                                  "enable_pipeview", "enable_report"}
      BY MemberTable DEF Parser!Options, Parser!NumberOptions
    <3>2. QED BY <1>2, <3>1, MemberTable
  <2>3. At(line, V, k, {p}) = At(line, V, n, {p})
    BY <1>1, <1>4
  <2>4. QED BY <2>1, <2>2, <2>3 DEF SaysOption
<1>6. SaysProgram(line, V, k, b)
  <2>1. SaysProgram(line, V, n, a)
    BY DEF Told
  <2>2. /\ At(line, V, k, Names) = At(line, V, n, Names)
        /\ At(line, V, k, {"--bin"} \cup Names) = At(line, V, n, {"--bin"} \cup Names)
    <3>1. "--bin" \in Parser!Options
      BY DEF Parser!Options
    <3>2. QED BY <1>1, <1>4, <3>1
  <2>3. b.program_path = a.program_path
    BY <1>2 DEF Parser!Defaults
  <2>4. QED BY <2>1, <2>2, <2>3 DEF SaysProgram
<1>7. /\ b.disassembly_only \in BOOLEAN /\ b.enable_disassembly \in BOOLEAN
      /\ b.enable_reference \in BOOLEAN
      /\ b.disassembly_only <=> a.disassembly_only \/ o = "--disasm-only"
      /\ b.enable_disassembly <=> a.enable_disassembly \/ o \in {"--disasm", "--disasm-only"}
      /\ b.enable_reference <=> a.enable_reference /\ o # "--no-reference"
  BY DEF SwitchTaken, Told, ArgsTyped, SaysSwitches, Parser!Defaults
<1>8. SaysSwitches(line, V, k, b)
  <2>1. SaysSwitches(line, V, n, a)
    BY DEF Told
  <2>2. ASSUME NEW S
        PROVE  At(line, V, k, S) # {} <=> At(line, V, n, S) # {} \/ o \in S
    BY <1>1 DEF At
  <2> HIDE DEF o, k
  <2>3. QED BY <1>7, <2>1, <2>2 DEF SaysSwitches
<1>9. ArgsTyped(b)
  BY <1>2, <1>7 DEF Told, ArgsTyped, Parser!Defaults
<1>10. QED BY <1>3, <1>5, <1>6, <1>8, <1>9 DEF Told

ProgramTaken(line, n, a, b) ==
  /\ line[n] \in Names /\ line[n] # "" /\ a.program_path = ""
  /\ b = [a EXCEPT !.program_path = line[n]]

LEMMA ProgramTold ==
  ASSUME NEW line, NEW V, NEW n \in Nat \ {0}, n \notin V, NEW a, Told(line, V, n, a),
         NEW b, ProgramTaken(line, n, a, b)
  PROVE  Told(line, V, n + 1, b)
<1> DEFINE k == n + 1   o == line[n]
<1>1. \A S : /\ line[n] \notin S => At(line, V, k, S) = At(line, V, n, S)
             /\ line[n] \in S => /\ At(line, V, k, S) = At(line, V, n, S) \cup {n}
                                 /\ Max(At(line, V, k, S)) = n /\ At(line, V, k, S) # {}
  <2>1. Grows(line, V, n, k)
    BY AtGrows
  <2>2. QED BY <2>1 DEF Grows
<1>2. /\ DOMAIN b = DOMAIN Parser!Defaults /\ b.program_path = o
      /\ \A f \in DOMAIN Parser!Defaults \ {"program_path"} : b[f] = a[f]
  BY DEF ProgramTaken, Told, ArgsTyped, Parser!Defaults
<1>3. \A i \in 1..(k - 1) : i \notin V => line[i] \in Known
  <2>1. \A i \in 1..(k - 1) : i \in 1..(n - 1) \/ i = n
    OBVIOUS
  <2>2. \A i \in 1..(n - 1) : i \notin V => line[i] \in Known
    BY DEF Told
  <2>3. QED BY <2>1, <2>2 DEF Known, ProgramTaken
<1>4. o \notin Parser!Switches /\ o \notin Parser!Options
  BY LinesAssumption DEF ProgramTaken
<1>5. ASSUME NEW p \in Parser!Options \ {"--bin"} PROVE SaysOption(line, V, k, b, p)
  <2>1. SaysOption(line, V, n, a, p)
    BY DEF Told
  <2>2. b[Parser!Member[p]] = a[Parser!Member[p]]
    <3>1. Parser!Member[p] # "program_path"
      BY MemberTable DEF Parser!Options, Parser!NumberOptions
    <3>2. QED BY <1>2, <3>1, MemberTable
  <2>3. At(line, V, k, {p}) = At(line, V, n, {p})
    BY <1>1, <1>4
  <2>4. QED BY <2>1, <2>2, <2>3 DEF SaysOption
<1>6. SaysProgram(line, V, k, b)
  <2> DEFINE S == {"--bin"} \cup Names
  <2>1. At(line, V, n, S) = {}
    BY DEF Told, SaysProgram, ProgramTaken
  <2>2. At(line, V, n, Names) = {}
    BY <2>1 DEF At
  <2>3. /\ At(line, V, k, S) = {n} /\ Max(At(line, V, k, S)) = n /\ At(line, V, k, Names) = {n}
    BY <1>1, <2>1, <2>2 DEF ProgramTaken
  <2>4. o \in Names /\ o # ""
    BY DEF ProgramTaken
  <2>5. n <= n
    OBVIOUS
  <2> HIDE DEF k
  <2>6. QED BY <1>2, <2>3, <2>4, <2>5 DEF SaysProgram
<1>7. SaysSwitches(line, V, k, b)
  <2>1. SaysSwitches(line, V, n, a)
    BY DEF Told
  <2>2. \A S \in SUBSET Parser!Switches : At(line, V, k, S) = At(line, V, n, S)
    BY <1>1, <1>4
  <2>3. /\ At(line, V, k, {"--disasm-only"}) = At(line, V, n, {"--disasm-only"})
        /\ At(line, V, k, {"--disasm-only", "--disasm"}) = At(line, V, n, {"--disasm-only", "--disasm"})
        /\ At(line, V, k, {"--no-reference"}) = At(line, V, n, {"--no-reference"})
    BY <2>2 DEF Parser!Switches
  <2>4. /\ b.disassembly_only = a.disassembly_only /\ b.enable_disassembly = a.enable_disassembly
        /\ b.enable_reference = a.enable_reference
    BY <1>2 DEF Parser!Defaults
  <2>5. QED BY <2>1, <2>3, <2>4 DEF SaysSwitches
<1>8. ArgsTyped(b)
  BY <1>2 DEF Told, ArgsTyped, Parser!Defaults
<1>9. QED BY <1>3, <1>5, <1>6, <1>7, <1>8 DEF Told

(* The inductive invariant of the parser.                                   *)
NoneEmpty(line) == \A i \in 1..Len(line) : line[i] # ""

ParserInv ==
  /\ argv \in Seq(STRING) /\ NoneEmpty(argv)
  /\ next \in 1..(Len(argv) + 1) /\ next \notin Parser!ValuePlaces
  /\ verdict \in {"reading", "accepted", "help", "refused"}
  /\ Told(argv, Parser!ValuePlaces, next, args)
  /\ verdict = "accepted" => next = Len(argv) + 1 /\ Parser!ExportWhole(args)

LEMMA ParserInitInv == Parser!Init => ParserInv
<1> SUFFICES ASSUME Parser!Init PROVE ParserInv
  OBVIOUS
<1>1. argv \in Seq(STRING) /\ NoneEmpty(argv)
  BY LinesAssumption DEF Parser!Init, NoneEmpty
<1>2. next = 1 /\ verdict = "reading" /\ args = Parser!Defaults
  BY DEF Parser!Init
<1>3. next \in 1..(Len(argv) + 1) /\ next \notin Parser!ValuePlaces
  <2>1. Len(argv) \in Nat
    BY <1>1
  <2>2. QED BY <1>1, <1>2, <2>1, ValuePlacesMean
<1> DEFINE V == Parser!ValuePlaces   a == Parser!Defaults
<1>4. Told(argv, V, 1, a)
  <2>1. \A S : At(argv, V, 1, S) = {}
    BY DEF At
  <2>2. \A o \in Parser!Options \ {"--bin"} : SaysOption(argv, V, 1, a, o)
    BY <2>1 DEF SaysOption
  <2>3. SaysProgram(argv, V, 1, a)
    BY <2>1 DEF SaysProgram, Parser!Defaults
  <2>4. SaysSwitches(argv, V, 1, a)
    BY <2>1 DEF SaysSwitches, Parser!Defaults
  <2>5. ArgsTyped(a)
    BY Sizes DEF ArgsTyped, Parser!Defaults, Parser!Engines, None, Parser!None
  <2>6. \A i \in 1..(1 - 1) : i \notin V => argv[i] \in Known
    OBVIOUS
  <2>7. QED BY <2>2, <2>3, <2>4, <2>5, <2>6 DEF Told
<1>5. QED BY <1>1, <1>2, <1>3, <1>4 DEF ParserInv

LEMMA ParserStays ==
  ASSUME ParserInv, UNCHANGED parser
  PROVE  ParserInv'
<1>1. argv' = argv /\ next' = next /\ args' = args /\ verdict' = verdict
  BY DEF parser
<1>2. Parser!ValuePlaces' = Parser!ValuePlaces
  BY <1>1 DEF Parser!ValuePlaces
<1>3. QED BY <1>1, <1>2 DEF ParserInv, Parser!ExportWhole, Parser!ExportParts

LEMMA ParserStepInv ==
  ASSUME ParserInv, Parser!Next
  PROVE  ParserInv'
<1> DEFINE V == Parser!ValuePlaces
<1>1. /\ argv \in Seq(STRING) /\ NoneEmpty(argv)
      /\ next \in 1..(Len(argv) + 1) /\ next \notin V
      /\ Told(argv, V, next, args)
  BY DEF ParserInv
<1>2. argv' = argv /\ V' = V /\ Len(argv) \in Nat
  <2>1. argv' = argv
    BY DEF Parser!Next, Parser!TakeValue, Parser!TakeSwitch, Parser!TakeProgram, Parser!ShowHelp,
           Parser!Refuse, Parser!Judge
  <2>2. QED BY <1>1, <2>1 DEF Parser!ValuePlaces
<1>3. \A i \in 1..Len(argv) : i \in V <=> i > 1 /\ argv[i - 1] \in Parser!Options /\ i - 1 \notin V
  BY <1>1, ValuePlacesMean
<1>4. V \subseteq 1..Len(argv)
  BY <1>1, ValuePlacesMean
<1> HIDE DEF V
<1>5. CASE Parser!TakeValue
  <2>1. /\ next + 1 <= Len(argv) /\ next' = next + 2 /\ verdict' = verdict /\ verdict = "reading"
        /\ argv[next] \in Parser!Options /\ Parser!Acceptable(argv[next], argv[next + 1])
        /\ args' = Parser!With(argv[next], argv[next + 1])
    BY <1>5 DEF Parser!TakeValue, Parser!Reading, Parser!Current, Parser!HasValue, Parser!Following
  <2>2. next \in Nat \ {0} /\ next + 1 \in 1..Len(argv) /\ next' \in 1..(Len(argv) + 1)
    BY <1>1, <1>2, <2>1
  <2>3. next + 1 \in V
    <3>1. (next + 1) - 1 = next /\ next + 1 > 1
      BY <2>2
    <3>2. QED BY <1>1, <1>3, <2>1, <2>2, <3>1
  <2>4. next' \notin V
    <3>1. next' \in V => (next' \in 1..Len(argv) /\ next' - 1 = next + 1)
      BY <1>4, <2>1, <2>2
    <3>2. QED BY <1>3, <2>3, <3>1
  <2>5. ValueTaken(argv, next, args, args')
    BY <1>1, <2>1, <2>2 DEF ValueTaken, Parser!With, NoneEmpty
  <2>6. Told(argv, V, next + 2, args')
    BY <1>1, <2>2, <2>3, <2>5, ValueTold
  <2>7. QED BY <1>1, <1>2, <2>1, <2>2, <2>4, <2>6 DEF ParserInv, V
<1>6. ASSUME next <= Len(argv), argv[next] \notin Parser!Options, next' = next + 1,
             Told(argv, V, next + 1, args'), verdict' = "reading"
      PROVE  ParserInv'
  <2>1. next \in Nat \ {0} /\ next' \in 1..(Len(argv) + 1)
    BY <1>1, <1>2, <1>6
  <2>2. next' \notin V
    <3>1. next' \in V => (next' \in 1..Len(argv) /\ next' - 1 = next)
      BY <1>4, <1>6, <2>1
    <3>2. QED BY <1>3, <1>6, <3>1
  <2>3. QED BY <1>1, <1>2, <1>6, <2>1, <2>2 DEF ParserInv, V
<1>7. next <= Len(argv) => next \in Nat \ {0} /\ next \in 1..Len(argv)
  BY <1>1, <1>2
<1>8. CASE Parser!TakeSwitch
  <2>1. /\ next <= Len(argv) /\ next' = next + 1 /\ verdict' = "reading"
        /\ argv[next] \in Parser!Switches /\ args' = Parser!Switched(argv[next])
    BY <1>8 DEF Parser!TakeSwitch, Parser!Reading, Parser!Current
  <2>2. argv[next] \notin Parser!Options
    BY <2>1 DEF Parser!Switches, Parser!Options, Parser!NumberOptions
  <2>3. SwitchTaken(argv, next, args, args')
    BY <2>1 DEF SwitchTaken, Parser!Switched
  <2>4. Told(argv, V, next + 1, args')
    BY <1>1, <1>7, <2>1, <2>3, SwitchTold
  <2>5. QED BY <1>6, <2>1, <2>2, <2>4
<1>9. CASE Parser!TakeProgram
  <2>1. /\ next <= Len(argv) /\ next' = next + 1 /\ verdict' = "reading"
        /\ argv[next] \in Names /\ args.program_path = ""
        /\ args' = [args EXCEPT !.program_path = argv[next]]
    BY <1>9 DEF Parser!TakeProgram, Parser!Reading, Parser!Current
  <2>2. argv[next] \notin Parser!Options
    BY <2>1, LinesAssumption
  <2>3. ProgramTaken(argv, next, args, args')
    BY <1>1, <1>7, <2>1 DEF ProgramTaken, NoneEmpty
  <2>4. next' = next + 1 /\ next <= Len(argv) /\ verdict' = "reading"
    BY <2>1
  <2>5. Told(argv, V, next + 1, args')
    BY <1>1, <1>7, <2>3, <2>4, ProgramTold
  <2>6. QED BY <1>6, <2>2, <2>4, <2>5
<1>10. CASE Parser!ShowHelp \/ Parser!Refuse
  <2>1. next' = next /\ args' = args /\ verdict' \in {"help", "refused"}
    BY <1>10 DEF Parser!ShowHelp, Parser!Refuse
  <2>2. QED BY <1>1, <1>2, <2>1 DEF ParserInv, V
<1>11. CASE Parser!Judge
  <2>1. /\ next' = next /\ args' = args /\ next > Len(argv)
        /\ verdict' = IF Parser!ExportWhole(args) THEN "accepted" ELSE "refused"
    BY <1>11 DEF Parser!Judge
  <2>2. next = Len(argv) + 1
    BY <1>1, <1>2, <2>1
  <2>3. Parser!ExportWhole(args)' = Parser!ExportWhole(args)
    BY <2>1 DEF Parser!ExportWhole, Parser!ExportParts
  <2>4. QED BY <1>1, <1>2, <2>1, <2>2, <2>3 DEF ParserInv, V
<1>12. QED BY <1>5, <1>8, <1>9, <1>10, <1>11 DEF Parser!Next

LEMMA KeptAtTheEnd == ParserInv => ArgumentsKept
<1> SUFFICES ASSUME ParserInv, verdict = "accepted" PROVE ArgumentsKept
  BY DEF ArgumentsKept, Parser!ArgumentsKept
<1> DEFINE V == Parser!ValuePlaces   n == Len(argv) + 1
<1>1. /\ argv \in Seq(STRING) /\ next = n /\ Told(argv, V, n, args) /\ Parser!ExportWhole(args)
  BY DEF ParserInv
<1>2. Len(argv) \in Nat /\ n - 1 = Len(argv) /\ 1..(n - 1) = 1..Len(argv)
  BY <1>1
<1>3. Parser!Free = 1..Len(argv) \ V /\ Parser!Free = { i \in 1..(n - 1) : i \notin V }
  BY <1>2 DEF Parser!Free
<1>4. \A S : Parser!Places(S) = At(argv, V, n, S)
  BY <1>2, <1>3 DEF Parser!Places, At
<1>5. \A o \in Parser!Options : Parser!Giving(Parser!Member[o]) = At(argv, V, n, {o})
  <2> SUFFICES ASSUME NEW o \in Parser!Options
               PROVE  Parser!Giving(Parser!Member[o]) = At(argv, V, n, {o})
    OBVIOUS
  <2>1. Parser!Giving(Parser!Member[o])
          = { i \in Parser!Places(Parser!Options) : Parser!Member[argv[i]] = Parser!Member[o] }
    BY DEF Parser!Giving
  <2>2. Parser!Places(Parser!Options) = At(argv, V, n, Parser!Options)
    BY <1>4
  <2>3. \A p \in Parser!Options : Parser!Member[p] = Parser!Member[o] <=> p = o
    BY MemberTable
  <2> HIDE DEF V, n
  <2>4. QED BY <2>1, <2>2, <2>3 DEF At
<1>6. \A S : Parser!Max(S) = Max(S)
  BY DEF Parser!Max, Max
<1>7. \A o \in Parser!Options \ {"--bin"} :
        args[Parser!Member[o]] =
          IF Parser!Giving(Parser!Member[o]) = {} THEN Parser!Defaults[Parser!Member[o]]
          ELSE Parser!Meaning(o, Parser!Said(Parser!Member[o]))
  <2>1. \A o \in Parser!Options \ {"--bin"} : SaysOption(argv, V, n, args, o)
    BY <1>1 DEF Told
  <2> HIDE DEF V, n
  <2>2. QED BY <1>5, <1>6, <2>1 DEF SaysOption, Parser!Said
<1>8. /\ Parser!Places(Parser!Help) = {}
      /\ Parser!Places(Parser!Switches \cup Parser!Options \cup Names) = Parser!Free
  <2>1. \A i \in 1..(n - 1) : i \notin V => argv[i] \in Known
    BY <1>1 DEF Told
  <2>2. Known \cap Parser!Help = {}
    BY LinesAssumption DEF Known, Parser!Help, Parser!Switches, Parser!Options, Parser!NumberOptions
  <2> HIDE DEF V, n
  <2>3. QED BY <1>3, <1>4, <2>1, <2>2 DEF At, Known
<1>9. \A m \in { Parser!Member[o] : o \in Parser!NumberOptions } :
        args[m] = IF Parser!Giving(m) = {} THEN Parser!Defaults[m] ELSE Numbers[Parser!Said(m)]
  <2>1. \A o \in Parser!NumberOptions : \A v : o \in Parser!Options \ {"--bin"} /\ Parser!Meaning(o, v) = Numbers[v]
    BY DEF Parser!Meaning, Parser!Options, Parser!NumberOptions
  <2>2. QED BY <1>7, <2>1
<1>10. \A m \in {"engine", "emit_trace_path", "result_dump_path"} :
         args[m] = IF Parser!Giving(m) = {} THEN Parser!Defaults[m] ELSE Parser!Said(m)
  <2>1. \A o \in {"--engine", "--emit-minst-trace", "--result-dump"} :
          o \in Parser!Options \ {"--bin"} /\ \A v : Parser!Meaning(o, v) = v
    BY DEF Parser!Meaning, Parser!Options, Parser!NumberOptions
  <2>2. QED BY <1>7, <2>1, MemberTable
<1> DEFINE given == Parser!Giving("program_path") \cup Parser!Places(Names)
<1>11. given = At(argv, V, n, {"--bin"} \cup Names)
  <2>1. "--bin" \in Parser!Options
    BY DEF Parser!Options
  <2>2. Parser!Giving("program_path") = At(argv, V, n, {"--bin"})
    BY <1>5, <2>1, MemberTable
  <2> HIDE DEF V, n
  <2>3. QED BY <1>4, <2>2 DEF At
<1>12. /\ args.program_path = IF given = {} THEN "" ELSE Parser!LastPath
       /\ \A i \in Parser!Places(Names) : \A j \in given : i <= j
  <2>1. SaysProgram(argv, V, n, args)
    BY <1>1 DEF Told
  <2>2. \A i \in given : i \in Parser!Places(Names) <=> argv[i] \in Names
    <3> HIDE DEF V, n
    <3>1. QED BY <1>4, <1>11 DEF At
  <2>3. given # {} => Max(given) \in given
    <3>1. given \subseteq 1..Len(argv)
      BY <1>2, <1>11 DEF At
    <3>2. QED BY <1>2, <3>1, MaxOfIndices
  <2> DEFINE p == Max(given)
  <2>4. Parser!LastPath = IF p \in Parser!Places(Names) THEN argv[p] ELSE argv[p + 1]
    BY <1>6 DEF Parser!LastPath
  <2>5. \A i \in At(argv, V, n, Names) : i \in Parser!Places(Names)
    BY <1>4
  <2>6. Parser!Places(Names) = At(argv, V, n, Names)
    BY <1>4
  <2> HIDE DEF given, V, n
  <2>7. QED BY <1>11, <2>1, <2>2, <2>3, <2>4, <2>6 DEF SaysProgram
<1>13. /\ args.disassembly_only <=> Parser!Places({"--disasm-only"}) # {}
       /\ args.enable_disassembly <=> Parser!Places({"--disasm-only", "--disasm"}) # {}
       /\ args.enable_reference <=> Parser!Places({"--no-reference"}) = {}
  <2>1. SaysSwitches(argv, V, n, args)
    BY <1>1 DEF Told
  <2>2. QED BY <1>4, <2>1 DEF SaysSwitches
<1>14. args.result_size # 0 /\ (args.result_size = Parser!None <=> args.result_dump_path = "")
  <2> DEFINE parts == Parser!ExportParts(args)
  <2>1. "dump" \in parts <=> args.result_dump_path # ""
    BY DEF Parser!ExportParts
  <2>2. "size" \in parts <=> args.result_size # Parser!None
    BY DEF Parser!ExportParts
  <2>3. parts \in {{}, {"dump", "address", "size"}} /\ args.result_size # 0
    BY <1>1 DEF Parser!ExportWhole
  <2> HIDE DEF parts
  <2>4. QED BY <2>1, <2>2, <2>3
<1>15. QED BY <1>8, <1>9, <1>10, <1>12, <1>13, <1>14 DEF ArgumentsKept, Parser!ArgumentsKept

(***************************************************************************)
(* What the engines rely on: the exit code is zero unless the error reported *)
(* is a failure, and a context that goes on has committed one instruction.   *)
(***************************************************************************)
Harmless == {"", "stop_pc", "max_cycles", "finisher_pass"}
Honest(c) == c.exit_code = 0 <=> c.last_error \in Harmless

LEMMA FinisherHonest ==
  ASSUME NEW P, NEW c \in Contexts(P), Honest(c), NEW a, NEW v \in Cell
  PROVE  Honest(HandleTestFinisherWrite(c, a, v))
<1> DEFINE d == HandleTestFinisherWrite(c, a, v)
<1>1. /\ v \in Nat /\ StatusSize \in Nat /\ StatusSize > 0
      /\ Pass # Fail /\ Pass # ResetCode
  BY SizesAssumption DEF Cell
<1>2. v \div StatusSize \in Nat
  BY <1>1
<1>3. ASSUME v % StatusSize # Pass PROVE ExitCodeOf(v) # 0
  BY <1>2, <1>3 DEF ExitCodeOf
<1>4. v % StatusSize = Pass => ExitCodeOf(v) = 0
  BY DEF ExitCodeOf
<1>5. \A code, reason : /\ RequestTerminate(c, code, reason).exit_code = code
                        /\ RequestTerminate(c, code, reason).last_error = reason
  BY DEF RequestTerminate, Contexts
<1>6. \/ d = c
      \/ v % StatusSize = Pass /\ d = RequestTerminate(c, ExitCodeOf(v), "finisher_pass")
      \/ v % StatusSize # Pass /\ d = RequestTerminate(c, ExitCodeOf(v), "finisher_fail")
      \/ v % StatusSize # Pass /\ d = RequestTerminate(c, ExitCodeOf(v), "finisher_reset")
  BY <1>1 DEF HandleTestFinisherWrite
<1> HIDE DEF d
<1>7. Honest(d)
  <2>1. "finisher_fail" \notin Harmless /\ "finisher_reset" \notin Harmless /\ "finisher_pass" \in Harmless
    BY DEF Harmless
  <2>2. CASE d = c
    BY <2>2
  <2>3. CASE v % StatusSize = Pass /\ d = RequestTerminate(c, ExitCodeOf(v), "finisher_pass")
    BY <1>4, <1>5, <2>1, <2>3 DEF Honest
  <2>4. CASE v % StatusSize # Pass /\ d = RequestTerminate(c, ExitCodeOf(v), "finisher_fail")
    BY <1>3, <1>5, <2>1, <2>4 DEF Honest
  <2>5. CASE v % StatusSize # Pass /\ d = RequestTerminate(c, ExitCodeOf(v), "finisher_reset")
    BY <1>3, <1>5, <2>1, <2>5 DEF Honest
  <2>6. QED BY <1>6, <2>2, <2>3, <2>4, <2>5
<1>8. QED BY <1>7 DEF d

LEMMA ExecuteOutcome ==
  ASSUME NEW P, NEW c \in Contexts(P), Reported(c), Honest(c), c.state.pc \in DOMAIN c.memory
  PROVE  LET d == Execute(c, FetchDecode(c))
         IN  Honest(d) /\ (d.terminated \/ d.committed # c.committed)
<1> DEFINE i == FetchDecode(c)   d == Execute(c, i)
           done == [c EXCEPT !.state = NextState(c, i), !.memory = NextMemory(c, i)]
           record == MakeMinstRecord(c, i)
           a == StoreAddress(c.state, i)
           v == StoreValue(c.state, i)
           stored == [done EXCEPT !.memory = WriteCell(@, a, v)]
           end == IF i.op = "SWI" THEN Write32(done, a, v) ELSE done
<1>1. IsInstruction(i)
  <2>1. c.memory[c.state.pc] \in Cell
    BY MemoriesAreTyped DEF MemoryType, Contexts
  <2>2. QED BY <2>1, DecodesToInstruction DEF FetchDecode
<1>2. c.state \in StateType /\ c.memory \in Memories
  BY DEF Contexts
<1>3. CASE i.op \notin Implemented
  <2>1. d = RequestTerminate(c, 1, "unsupported_instruction")
    BY <1>3 DEF Execute, Unsupported
  <2> HIDE DEF d, i
  <2>2. d.terminated /\ d.exit_code = 1 /\ d.last_error = "unsupported_instruction"
    BY <2>1 DEF RequestTerminate, Contexts
  <2>3. "unsupported_instruction" \notin Harmless /\ 1 # 0
    BY DEF Harmless
  <2>4. Honest(d)
    BY <2>2, <2>3 DEF Honest
  <2>5. QED BY <2>2, <2>4 DEF d, i
<1>4. CASE i.op \in Implemented
  <2>1. d = AppendRecord(end, record)
    BY <1>4 DEF Execute
  <2>2. a \in Word /\ v \in Cell
    BY <1>1, <1>2, ValueTypes
  <2>3. NextState(c, i) \in StateType /\ NextMemory(c, i) \in Memories
    BY <1>1, <1>2, <1>4, NextStateEffect, NextMemoryType DEF StateAfter
  <2>4. i.op = "SWI" => WriteCell(NextMemory(c, i), a, v) \in Memories
    BY <1>1, <1>2, NextMemoryType DEF MemoryAfter
  <2> HIDE DEF i, a, v, record
  <2>5. done \in Contexts(P) /\ Reported(done) /\ Honest(done) /\ done.committed = c.committed
    BY <2>3 DEF Contexts, Reported, Honest
  <2>6. done.memory = NextMemory(c, i)
    BY DEF Contexts
  <2> HIDE DEF done
  <2>7. end \in Contexts(P) /\ Honest(end) /\ end.committed = c.committed
    <3>1. CASE i.op # "SWI"
      BY <2>5, <3>1
    <3>2. CASE i.op = "SWI"
      <4>1. stored \in Contexts(P) /\ Reported(stored) /\ Honest(stored) /\ stored.committed = c.committed
        BY <2>4, <2>5, <2>6, <3>2 DEF Contexts, Reported, Honest
      <4>2. end = HandleTestFinisherWrite(stored, a, v)
        BY <3>2 DEF Write32
      <4> HIDE DEF stored, end
      <4>3. QED BY <2>2, <4>1, <4>2, FinisherType, FinisherHonest DEF SameArchitecture
    <3>3. QED BY <3>1, <3>2
  <2> HIDE DEF end
  <2>8. d.committed = Append(c.committed, record) /\ Honest(d)
    <3> HIDE DEF d
    <3>1. QED BY <2>1, <2>7 DEF AppendRecord, Contexts, Honest
  <2>9. d.committed # c.committed
    <3>1. c.committed \in Seq(Record)
      BY DEF Contexts
    <3>2. Len(Append(c.committed, record)) # Len(c.committed)
      BY <3>1
    <3>3. QED BY <2>8, <3>2
  <2>10. QED BY <2>8, <2>9 DEF i
<1>5. QED BY <1>3, <1>4

LEMMA StepOutcome ==
  ASSUME NEW P, NEW c \in Contexts(P), Reported(c), Honest(c), ~c.terminated, NEW stop_pc
  PROVE  LET d == Step(c, stop_pc)
         IN  Honest(d) /\ (d.terminated \/ (Commits(c, d) /\ d.cycle = c.cycle + 1))
<1> DEFINE d == Step(c, stop_pc)
<1>0. c.last_error = "" /\ c.exit_code = 0
  BY DEF Reported, Honest, Harmless
<1>1. CASE stop_pc = c.state.pc
  <2>1. d = RequestTerminate(c, c.exit_code, "stop_pc")
    BY <1>1 DEF Step
  <2> HIDE DEF d
  <2>2. d.terminated /\ d.exit_code = 0 /\ d.last_error = "stop_pc"
    BY <1>0, <2>1 DEF RequestTerminate, Contexts
  <2>3. QED BY <2>2 DEF d, Honest, Harmless
<1>2. CASE stop_pc # c.state.pc /\ ~Decodable(c)
  <2>1. d = RequestTerminate(c, 1, "fetch_decode_failed")
    BY <1>2 DEF Step
  <2> HIDE DEF d
  <2>2. d.terminated /\ d.exit_code = 1 /\ d.last_error = "fetch_decode_failed"
    BY <2>1 DEF RequestTerminate, Contexts
  <2>3. "fetch_decode_failed" \notin Harmless /\ 1 # 0
    BY DEF Harmless
  <2>4. Honest(d)
    BY <2>2, <2>3 DEF Honest
  <2>5. QED BY <2>2, <2>4 DEF d
<1>3. CASE stop_pc # c.state.pc /\ Decodable(c)
  <2> DEFINE e == Execute(c, FetchDecode(c))
  <2>1. d = [e EXCEPT !.cycle = @ + 1]
    BY <1>3 DEF Step
  <2>2. c.state.pc \in DOMAIN c.memory
    BY <1>3 DEF Decodable, Mapped
  <2>3. e \in Contexts(P) /\ e.cycle = c.cycle /\ (SameArchitecture(c, e) \/ Commits(c, e))
    BY <2>2, ExecuteEffect
  <2>4. Honest(e) /\ (e.terminated \/ e.committed # c.committed)
    BY <2>2, ExecuteOutcome
  <2> HIDE DEF e, d
  <2>5. /\ d.terminated = e.terminated /\ d.cycle = c.cycle + 1 /\ d.exit_code = e.exit_code
        /\ d.last_error = e.last_error
        /\ d.state = e.state /\ d.memory = e.memory /\ d.committed = e.committed
    BY <2>1, <2>3 DEF Contexts
  <2>6. QED BY <2>3, <2>4, <2>5 DEF d, Honest, SameArchitecture, Commits
<1>4. QED BY <1>1, <1>2, <1>3

LEMMA WrapShifted ==
  ASSUME NEW r \in Word
  PROVE  Wrap(r) = r /\ Wrap(r + WordSize) = r /\ Wrap(r - WordSize) = r
<1>1. WordSize \in Nat /\ WordSize > 0 /\ r \in Nat /\ r < WordSize
  BY Sizes DEF Word
<1>2. r % WordSize = r
  BY <1>1
<1>3. (r + WordSize) % WordSize = r
  BY <1>1
<1>4. (r - WordSize) % WordSize = r
  BY <1>1
<1>5. QED BY <1>2, <1>3, <1>4 DEF Wrap

LEMMA WrapBack ==
  ASSUME NEW x \in Word, NEW b \in Word
  PROVE  Wrap(Wrap(x + b) - b) = x
<1>1. x \in Nat /\ b \in Nat /\ WordSize \in Nat /\ x < WordSize /\ b < WordSize
  BY Sizes DEF Word
<1>2. CASE x + b < WordSize
  <2>1. x + b \in Word
    BY <1>1, <1>2 DEF Word
  <2>2. Wrap(x + b) = x + b /\ (x + b) - b = x
    BY <1>1, <2>1, WrapShifted
  <2>3. QED BY <2>2, WrapShifted
<1>3. CASE ~(x + b < WordSize)
  <2>1. (x + b) - WordSize \in Word /\ ((x + b) - WordSize) + WordSize = x + b
    BY <1>1, <1>3 DEF Word
  <2>2. Wrap(x + b) = (x + b) - WordSize
    BY <2>1, WrapShifted
  <2>3. ((x + b) - WordSize) - b = x - WordSize
    BY <1>1
  <2>4. QED BY <2>2, <2>3, WrapShifted
<1>4. QED BY <1>2, <1>3

(* Wherever a file is moved, it puts cells at addresses.                     *)
AnyImage == [entry_point : Word, memory : Memories]

LEMMA MovedType ==
  ASSUME NEW memory, MemoryType(memory), NEW base \in Word
  PROVE  Moved(memory, base) \in Memories
<1> DEFINE D == { Wrap(x + base) : x \in DOMAIN memory }
<1>1. \A x \in DOMAIN memory : x \in Word /\ memory[x] \in Cell
  BY DEF MemoryType
<1>2. D \in SUBSET Word
  <2>1. \A x \in Word : x + base \in Int
    BY Sizes DEF Word
  <2>2. QED BY <1>1, <2>1, WrapType
<1>3. \A a \in D : memory[Wrap(a - base)] \in Cell
  BY <1>1, WrapBack
<1>4. Moved(memory, base) = [a \in D |-> memory[Wrap(a - base)]]
  BY DEF Moved
<1> HIDE DEF D
<1>5. Moved(memory, base) \in [D -> Cell]
  BY <1>3, <1>4
<1>6. QED BY <1>2, <1>5 DEF Memories

LEMMA ImageTyped ==
  ASSUME NEW a, ArgsTyped(a), Loadable(a)
  PROVE  ImageOf(a) \in AnyImage
<1> DEFINE f == Files[a.program_path]
<1>1. f.entry_point \in Word /\ MemoryType(f.memory)
  BY FilesAssumption DEF Loadable
<1>2. a.raw_base_address \in Word
  BY DEF ArgsTyped
<1>3. f.memory \in Memories /\ Moved(f.memory, a.raw_base_address) \in Memories
  BY <1>1, <1>2, MovedType, MemoriesAreTyped
<1>4. ImageOf(a) = IF f.raw THEN [entry_point |-> a.raw_base_address,
                                  memory |-> Moved(f.memory, a.raw_base_address)]
                   ELSE [entry_point |-> f.entry_point, memory |-> f.memory]
  BY DEF ImageOf
<1> HIDE DEF f
<1>5. QED BY <1>1, <1>2, <1>3, <1>4 DEF AnyImage

(* A context of the engines: typed, its error and its exit code agree.       *)
Sound(c) == c \in Contexts(AnyImage) /\ Reported(c) /\ Honest(c)
AtStart(c) == ~c.terminated /\ c.cycle = 0 /\ c.exit_code = 0 /\ c.last_error = "" /\ c.committed = << >>

LEMMA NewSound == Sound(NewContext) /\ AtStart(NewContext)
<1>1. NoProgram \in AnyImage
  BY NoProgramType DEF NoProgram, AnyImage
<1>2. NewContext \in Contexts(AnyImage) /\ Reported(NewContext)
  BY <1>1, NewContextEffect
<1>3. AtStart(NewContext)
  BY DEF AtStart, NewContext
<1>4. "" \in Harmless
  BY DEF Harmless
<1>5. QED BY <1>2, <1>3, <1>4 DEF Sound, Honest, AtStart

LEMMA LoadSound ==
  ASSUME NEW image \in AnyImage
  PROVE  /\ Sound(LoadProgram(NewContext, image)) /\ AtStart(LoadProgram(NewContext, image))
         /\ ResetContext(LoadProgram(NewContext, image)) = LoadProgram(NewContext, image)
<1> DEFINE d == LoadProgram(NewContext, image)
<1>1. image.entry_point \in Word /\ image.memory \in Memories
  BY DEF AnyImage
<1>2. NewContext \in Contexts(AnyImage) /\ Reported(NewContext) /\ AtStart(NewContext)
  BY NewSound DEF Sound
<1>3. /\ d \in Contexts(AnyImage) /\ Reported(d)
      /\ d.program = image /\ d.has_program /\ Fresh(d)
      /\ d.terminated = NewContext.terminated /\ d.cycle = NewContext.cycle
      /\ d.exit_code = NewContext.exit_code /\ d.last_error = NewContext.last_error
  BY <1>1, <1>2, LoadEffect
<1>4. ResetContext(d) = LoadProgram(NewContext, d.program)
  BY <1>3 DEF ResetContext
<1>5. "" \in Harmless
  BY DEF Harmless
<1>6. ResetContext(d) = d
  BY <1>3, <1>4
<1> HIDE DEF d
<1>7. AtStart(d)
  BY <1>2, <1>3 DEF AtStart, Fresh
<1>8. Sound(d)
  BY <1>3, <1>5, <1>7 DEF Sound, Honest, AtStart
<1>9. QED BY <1>6, <1>7, <1>8 DEF d

LEMMA StepSound ==
  ASSUME NEW c, Sound(c), ~c.terminated, NEW stop_pc
  PROVE  LET d == Step(c, stop_pc)
         IN  Sound(d) /\ (d.terminated \/ (Commits(c, d) /\ d.cycle = c.cycle + 1))
<1>1. c \in Contexts(AnyImage) /\ Reported(c) /\ Honest(c)
  BY DEF Sound
<1>2. QED BY <1>1, StepEffect, StepOutcome DEF Sound

(* An accepted command line.                                                 *)
Fit(a) ==
  /\ ArgsTyped(a) /\ Parser!ExportWhole(a)
  /\ a.disassembly_only \in BOOLEAN /\ a.enable_disassembly \in BOOLEAN /\ a.enable_reference \in BOOLEAN

LEMMA AcceptedFits == ParserInv /\ verdict = "accepted" => Fit(args)
BY DEF ParserInv, Told, SaysSwitches, Fit

(* What a run that was started says at its end: that it succeeded, and that  *)
(* its result was exported.                                                  *)
Won(c)           == c.terminated /\ c.last_error \in {"finisher_pass", "stop_pc", "max_cycles"}
Exported(a, du)  == a.result_dump_path # "" => Len(du) = a.result_size

LEMMA ExportTells ==
  ASSUME NEW a, Fit(a), NEW c, NEW e \in Exports(a, c)
  PROVE  (e.exit = 0 <=> Exported(a, e.dumped)) /\ (e.dumped # << >> => e.exit = 0)
<1>1. CASE a.result_dump_path = ""
  <2>1. e = [exit |-> 0, dumped |-> << >>]
    BY <1>1 DEF Exports
  <2>2. QED BY <1>1, <2>1 DEF Exported
<1>2. CASE a.result_dump_path # ""
  <2>1. a.result_size \in Nat \ {0}
    <3>1. "dump" \in Parser!ExportParts(a)
      BY <1>2 DEF Parser!ExportParts
    <3>2. "size" \in Parser!ExportParts(a)
      BY <3>1 DEF Fit, Parser!ExportWhole
    <3>3. a.result_size # None
      BY <3>2 DEF Parser!ExportParts, None, Parser!None
    <3>4. a.result_size \in Word /\ a.result_size # 0
      BY <3>3 DEF Fit, ArgsTyped, Parser!ExportWhole
    <3>5. QED BY <3>4, Sizes DEF Word
  <2> DEFINE m == ReadMemoryRange(c, a.result_address, a.result_size)
  <2>2. Len(m) = a.result_size /\ m # << >>
    <3> DEFINE f(k) == c.memory[a.result_address + k - 1]
    <3>1. m = [k \in 1..a.result_size |-> f(k)]
      BY DEF ReadMemoryRange
    <3> HIDE DEF m, f
    <3>2. QED BY <2>1, <3>1
  <2>3. \/ e = [exit |-> 0, dumped |-> m]
        \/ e = [exit |-> 1, dumped |-> << >>]
        \/ e = [exit |-> Aborted, dumped |-> << >>]
    BY <1>2 DEF Exports
  <2> HIDE DEF m
  <2>4. Len(<< >>) # a.result_size
    BY <2>1
  <2>5. \A f : Exported(a, f) <=> Len(f) = a.result_size
    BY <1>2 DEF Exported
  <2>6. CASE e = [exit |-> 0, dumped |-> m]
    <3>1. e.exit = 0 /\ e.dumped = m
      BY <2>6
    <3>2. QED BY <2>2, <2>5, <3>1
  <2>7. CASE e = [exit |-> 1, dumped |-> << >>] \/ e = [exit |-> Aborted, dumped |-> << >>]
    <3>1. e.exit # 0 /\ e.dumped = << >>
      BY <2>7 DEF Aborted
    <3>2. QED BY <2>4, <2>5, <3>1
  <2>8. QED BY <2>3, <2>6, <2>7
<1>3. QED BY <1>1, <1>2

(* The reason an export looks at is the memory.                              *)
LEMMA ExportsTerminated ==
  ASSUME NEW a, NEW c, NEW code, NEW reason, c \in Contexts(AnyImage)
  PROVE  Exports(a, RequestTerminate(c, code, reason)) = Exports(a, c)
<1> DEFINE d == RequestTerminate(c, code, reason)
<1>1. d.memory = c.memory
  BY DEF RequestTerminate, Contexts
<1> HIDE DEF d
<1>2. /\ RangeMapped(d, a.result_address, a.result_size) <=> RangeMapped(c, a.result_address, a.result_size)
      /\ ReadMemoryRange(d, a.result_address, a.result_size) = ReadMemoryRange(c, a.result_address, a.result_size)
  BY <1>1, Zenon DEF RangeMapped, ReadMemoryRange, Mapped
<1>3. Exports(a, d) = Exports(a, c)
  BY <1>2, Zenon DEF Exports
<1>4. QED BY <1>3 DEF d

LEMMA LimitSound ==
  ASSUME NEW c, Sound(c), ~c.terminated
  PROVE  LET d == RequestTerminate(c, c.exit_code, "max_cycles")
         IN  Sound(d) /\ d.terminated /\ d.exit_code = c.exit_code /\ d.exit_code = 0
<1> DEFINE d == RequestTerminate(c, c.exit_code, "max_cycles")
<1>1. c \in Contexts(AnyImage) /\ c.exit_code \in Nat
  BY DEF Sound, Contexts
<1>2. "max_cycles" \in Errors /\ "max_cycles" # "" /\ "max_cycles" \in Harmless /\ "" \in Harmless
  BY DEF Errors, Harmless
<1>3. d \in Contexts(AnyImage) /\ Reported(d)
  BY <1>1, <1>2, TerminateType
<1>4. d.terminated /\ d.exit_code = c.exit_code /\ d.last_error = "max_cycles"
  BY <1>1 DEF RequestTerminate, Contexts
<1>5. c.exit_code = 0
  BY <1>2 DEF Sound, Reported, Honest
<1> HIDE DEF d
<1>6. Sound(d)
  BY <1>2, <1>3, <1>4, <1>5 DEF Sound, Honest
<1>7. QED BY <1>4, <1>5, <1>6 DEF d

LEMMA HonestEnd ==
  ASSUME NEW c, Sound(c), c.terminated
  PROVE  c.exit_code = 0 <=> Won(c)
BY DEF Sound, Honest, Reported, Harmless, Won

(* The context a run begins with.                                            *)
First(a) == IF HasProgram(a) THEN LoadProgram(NewContext, ImageOf(a)) ELSE NewContext

LEMMA FirstSound ==
  ASSUME NEW a, Fit(a), Startable(a)
  PROVE  Sound(First(a)) /\ AtStart(First(a)) /\ ResetContext(First(a)) = First(a)
<1>1. CASE HasProgram(a)
  <2>1. ImageOf(a) \in AnyImage
    BY <1>1, ImageTyped DEF Fit, Startable
  <2>2. First(a) = LoadProgram(NewContext, ImageOf(a))
    BY <1>1 DEF First
  <2>3. QED BY <2>1, <2>2, LoadSound
<1>2. CASE ~HasProgram(a)
  <2>1. First(a) = NewContext
    BY <1>2 DEF First
  <2>2. ResetContext(NewContext) = NewContext
    BY DEF ResetContext, NewContext
  <2>3. QED BY <2>1, <2>2, NewSound
<1>3. QED BY <1>1, <1>2

(* A listing asked for is of a file that can be loaded.                      *)
LEMMA ListingStarts ==
  ASSUME NEW a, Fit(a), a.disassembly_only
  PROVE  Startable(a) <=> Loadable(a)
<1>1. a.enable_disassembly
  BY DEF Fit, ArgsTyped
<1>2. Loadable(a) => HasProgram(a)
  BY FilesAssumption DEF Loadable, HasProgram
<1>3. QED BY <1>1, <1>2 DEF Startable

Ends(a, c, ex, du)  == (ex = 0 <=> Won(c) /\ Exported(a, du)) /\ (du # << >> => ex = 0)
Tells(a, c, ex, du) ==
  IF a.disassembly_only THEN (ex = 0 <=> Loadable(a)) /\ du = << >>
  ELSE Ends(a, c, ex, du)

LEMMA FinishTells ==
  ASSUME NEW a, Fit(a), NEW c, Sound(c), c.terminated, NEW ex, NEW du,
         IF c.exit_code # 0 THEN ex = c.exit_code /\ du = << >>
         ELSE \E export \in Exports(a, c) : ex = export.exit /\ du = export.dumped
  PROVE  Ends(a, c, ex, du)
<1>1. c.exit_code = 0 <=> Won(c)
  BY HonestEnd
<1>2. CASE c.exit_code # 0
  BY <1>1, <1>2 DEF Ends
<1>3. CASE c.exit_code = 0
  <2>1. PICK export \in Exports(a, c) : ex = export.exit /\ du = export.dumped
    BY <1>3
  <2>2. QED BY <1>1, <1>3, <2>1, ExportTells DEF Ends
<1>4. QED BY <1>2, <1>3

(***************************************************************************)
(* The ref engine.                                                          *)
(***************************************************************************)
RefRunInv(a, r, ph, ex, du) ==
  /\ ph \in {"start", "run", "done"} /\ Sound(r)
  /\ ph = "start" => r = NewContext
  /\ ph # "done" => ex = None /\ du = << >>
  /\ ph = "run" => Startable(a) /\ ~a.disassembly_only
  /\ ph = "done" /\ Startable(a) /\ ~a.disassembly_only => r.terminated
  /\ ph = "done" => Tells(a, r, ex, du)

LEMMA RefRunStep ==
  ASSUME Fit(args), RefRunInv(args, ref, phase, exit, dumped), RefEngine!Next
  PROVE  args' = args /\ RefRunInv(args, ref', phase', exit', dumped')
<1>1. Sound(ref) /\ (phase # "done" => exit = None /\ dumped = << >>)
  BY DEF RefRunInv
<1>2. CASE RefEngine!Start
  <2>1. /\ phase = "start" /\ Startable(args) /\ ref = NewContext /\ args' = args
        /\ ref' = First(args) /\ dumped' = << >>
        /\ IF args.disassembly_only THEN phase' = "done" /\ exit' = 0 ELSE phase' = "run" /\ exit' = None
    BY <1>1, <1>2 DEF RefEngine!Start, RefEngine!Leave, RefRunInv, First
  <2>2. Sound(ref')
    BY <2>1, FirstSound
  <2>3. CASE args.disassembly_only
    BY <2>1, <2>2, <2>3, ListingStarts DEF RefRunInv, Tells
  <2>4. CASE ~args.disassembly_only
    BY <2>1, <2>2, <2>4 DEF RefRunInv
  <2>5. QED BY <2>3, <2>4
<1>3. CASE RefEngine!Abort
  <2>1. /\ phase = "start" /\ ~Startable(args) /\ ref = NewContext /\ args' = args
        /\ ref' = NewContext /\ dumped' = << >> /\ phase' = "done" /\ exit' = Aborted
    BY <1>1, <1>3 DEF RefEngine!Abort, RefEngine!Leave, RefRunInv
  <2>2. ~Won(NewContext)
    BY NewSound DEF AtStart, Won
  <2>3. Aborted # 0
    BY DEF Aborted
  <2>4. Tells(args, ref', exit', dumped')
    BY <2>1, <2>2, <2>3, ListingStarts DEF Tells, Ends
  <2>5. QED BY <1>1, <2>1, <2>4 DEF RefRunInv
<1>4. CASE RefEngine!Attempt
  <2>1. /\ phase = "run" /\ ~ref.terminated /\ args' = args /\ ref' = Step(ref, args.stop_pc)
        /\ phase' = "run" /\ exit' = exit /\ dumped' = dumped
    BY <1>4 DEF RefEngine!Attempt
  <2>2. Sound(ref')
    BY <1>1, <2>1, StepSound
  <2>3. QED BY <1>1, <2>1, <2>2 DEF RefRunInv
<1>5. CASE RefEngine!HitLimit
  <2>1. /\ phase = "run" /\ ~ref.terminated /\ args' = args
        /\ ref' = RequestTerminate(ref, ref.exit_code, "max_cycles")
        /\ phase' = "run" /\ exit' = exit /\ dumped' = dumped
    BY <1>5 DEF RefEngine!HitLimit
  <2>2. Sound(ref')
    BY <1>1, <2>1, LimitSound
  <2>3. QED BY <1>1, <2>1, <2>2 DEF RefRunInv
<1>6. CASE RefEngine!Finish
  <2>1. /\ phase = "run" /\ ref.terminated /\ args' = args /\ ref' = ref /\ phase' = "done"
        /\ ~args.disassembly_only
    BY <1>6 DEF RefEngine!Finish, RefEngine!Leave, RefRunInv
  <2>2. IF ref.exit_code # 0 THEN exit' = ref.exit_code /\ dumped' = << >>
        ELSE \E export \in Exports(args, ref) : exit' = export.exit /\ dumped' = export.dumped
    BY <1>1, <1>6, <2>1 DEF RefEngine!Finish, RefEngine!Leave
  <2>3. Ends(args, ref, exit', dumped')
    BY <1>1, <2>1, <2>2, FinishTells
  <2>4. QED BY <1>1, <2>1, <2>3 DEF RefRunInv, Tells
<1>7. QED BY <1>2, <1>3, <1>4, <1>5, <1>6 DEF RefEngine!Next

(***************************************************************************)
(* The windows.                                                             *)
(***************************************************************************)
LastOnes(s, k) == Comparing!Harness!LastOnes(s, k)

LEMMA LastOnesMove ==
  ASSUME NEW S, NEW s \in Seq(S), NEW x \in S, NEW k \in Nat \ {0}
  PROVE  LastOnes(Append(LastOnes(s, k), x), k) = LastOnes(Append(s, x), k)
<1> DEFINE n == Len(s)   w == LastOnes(s, k)   t == Append(s, x)   u == Append(w, x)
<1>0. n \in Nat /\ t \in Seq(S) /\ Len(t) = n + 1
  BY DEF t
<1>1. CASE n <= k
  BY <1>1 DEF LastOnes, Comparing!Harness!LastOnes
<1>2. CASE n > k
  <2>1. w = SubSeq(s, n - k + 1, n)
    BY <1>2 DEF LastOnes, Comparing!Harness!LastOnes
  <2>2. w \in Seq(S) /\ Len(w) = k /\ \A i \in 1..k : w[i] = s[n - k + i]
    BY <1>0, <1>2, <2>1
  <2>3. u \in Seq(S) /\ Len(u) = k + 1 /\ \A i \in 1..(k + 1) : u[i] = t[n - k + i]
    <3> HIDE DEF w, n
    <3>1. u \in Seq(S) /\ Len(u) = k + 1
      BY <2>2
    <3>2. u[k + 1] = x /\ \A i \in 1..k : u[i] = w[i]
      BY <2>2
    <3>3. t[n + 1] = x /\ \A i \in 1..n : t[i] = s[i]
      BY DEF n
    <3>4. n - k + (k + 1) = n + 1 /\ \A i \in 1..k : n - k + i \in 1..n
      BY <1>0, <1>2
    <3>5. \A i \in 1..k : u[i] = t[n - k + i]
      BY <2>2, <3>2, <3>3, <3>4
    <3>6. u[k + 1] = t[n - k + (k + 1)]
      BY <3>2, <3>3, <3>4
    <3>7. \A i \in 1..(k + 1) : i \in 1..k \/ i = k + 1
      OBVIOUS
    <3> HIDE DEF u, t
    <3>8. QED BY <3>1, <3>5, <3>6, <3>7
  <2>4. LastOnes(u, k) = SubSeq(u, 2, k + 1)
    BY <2>3 DEF LastOnes, Comparing!Harness!LastOnes
  <2>5. LastOnes(t, k) = SubSeq(t, n - k + 2, n + 1)
    BY <1>0, <1>2 DEF LastOnes, Comparing!Harness!LastOnes
  <2> HIDE DEF n, w, t, u
  <2>6. /\ SubSeq(u, 2, k + 1) \in Seq(S) /\ Len(SubSeq(u, 2, k + 1)) = k
        /\ \A i \in 1..k : SubSeq(u, 2, k + 1)[i] = u[i + 1]
    BY <2>3
  <2>7. /\ SubSeq(t, n - k + 2, n + 1) \in Seq(S) /\ Len(SubSeq(t, n - k + 2, n + 1)) = k
        /\ \A i \in 1..k : SubSeq(t, n - k + 2, n + 1)[i] = t[n - k + i + 1]
    BY <1>0, <1>2
  <2>8. \A i \in 1..k : i + 1 \in 1..(k + 1) /\ n - k + (i + 1) = n - k + i + 1
    BY <1>0
  <2>9. \A i \in 1..k : u[i + 1] = t[n - k + i + 1]
    BY <2>3, <2>8
  <2>10. SubSeq(u, 2, k + 1) = SubSeq(t, n - k + 2, n + 1)
    <3> DEFINE p == SubSeq(u, 2, k + 1)   q == SubSeq(t, n - k + 2, n + 1)
    <3>1. p \in Seq(S) /\ q \in Seq(S) /\ Len(p) = Len(q) /\ \A i \in 1..Len(p) : p[i] = q[i]
      BY <2>6, <2>7, <2>9
    <3> HIDE DEF p, q
    <3>2. p = q
      BY <3>1, SeqEqual
    <3>3. QED BY <3>2 DEF p, q
  <2>11. QED BY <2>4, <2>5, <2>10 DEF t, u, w
<1>3. QED BY <1>0, <1>1, <1>2

LEMMA LastOnesTail ==
  ASSUME NEW S, NEW s \in Seq(S), NEW k \in Nat \ {0}
  PROVE  LET w == LastOnes(s, k)
         IN  /\ w = SubSeq(s, Len(s) - Len(w) + 1, Len(s)) /\ Len(w) <= k
             /\ Len(s) >= k => Len(w) = k
<1> DEFINE n == Len(s)   w == LastOnes(s, k)
<1>0. n \in Nat
  OBVIOUS
<1>1. CASE n <= k
  <2>1. w = s
    BY <1>1 DEF LastOnes, Comparing!Harness!LastOnes
  <2>2. SubSeq(s, 1, n) = s
    OBVIOUS
  <2> HIDE DEF w
  <2>3. n - Len(w) + 1 = 1
    BY <1>0, <2>1
  <2>4. w = SubSeq(s, n - Len(w) + 1, n)
    BY <2>1, <2>2, <2>3
  <2>5. Len(w) <= k /\ (n >= k => Len(w) = k)
    BY <1>0, <1>1, <2>1
  <2>6. QED BY <2>4, <2>5, Zenon DEF w
<1>2. CASE n > k
  <2>1. w = SubSeq(s, n - k + 1, n)
    BY <1>2 DEF LastOnes, Comparing!Harness!LastOnes
  <2>2. Len(w) = k
    BY <1>0, <1>2, <2>1
  <2> HIDE DEF w
  <2>3. n - Len(w) + 1 = n - k + 1
    BY <2>2
  <2>4. w = SubSeq(s, n - Len(w) + 1, n)
    BY <2>1, <2>3
  <2>5. Len(w) <= k
    BY <2>2
  <2>6. QED BY <2>2, <2>4, <2>5, Zenon DEF w
<1>3. QED BY <1>0, <1>1, <1>2

(***************************************************************************)
(* The compare engine: the two sides are the same at every turn.             *)
(***************************************************************************)
Opened(a) == HasProgram(a) /\ Loadable(a)
Over(a, c) == c.terminated \/ LimitReached(a, c.cycle)
AtLimit(c) == IF c.terminated THEN c ELSE RequestTerminate(c, c.exit_code, "max_cycles")

CompareRunInv(a, r, c, ph, ex, du, rw, cw, mm) ==
  /\ ph \in {"start", "run", "compared", "done"} /\ Sound(r) /\ c = r /\ mm = << >> /\ cw = rw
  /\ ph = "start" => r = NewContext /\ rw = << >>
  /\ ph # "done" => ex = None /\ du = << >>
  /\ ph \in {"run", "compared"} => Opened(a)
  /\ ph = "run" /\ ~r.terminated => rw = LastOnes(r.committed, a.compare_window)
  /\ ph = "compared" => Over(a, r)
  /\ ph = "done" => IF Opened(a) THEN Ends(a, AtLimit(r), ex, du)
                    ELSE ~r.terminated /\ ex # 0 /\ du = << >>

LEMMA AtLimitSound ==
  ASSUME NEW c, Sound(c)
  PROVE  /\ Sound(AtLimit(c)) /\ AtLimit(c).terminated /\ AtLimit(c).exit_code = c.exit_code
         /\ \A a : Exports(a, AtLimit(c)) = Exports(a, c)
<1>1. c \in Contexts(AnyImage)
  BY DEF Sound
<1>2. CASE c.terminated
  BY <1>2 DEF AtLimit
<1>3. CASE ~c.terminated
  <2>1. AtLimit(c) = RequestTerminate(c, c.exit_code, "max_cycles")
    BY <1>3 DEF AtLimit
  <2>2. QED BY <1>1, <1>3, <2>1, LimitSound, ExportsTerminated
<1>4. QED BY <1>2, <1>3

(* What a turn does: both sides have taken the same step, and only a run     *)
(* that ends commits nothing.                                               *)
LEMMA CompareTurn ==
  ASSUME Fit(args), CompareRunInv(args, ref, ca, phase, exit, dumped, ref_window, ca_window, mismatch),
         Comparing!Turn
  PROVE  /\ phase = "run" /\ args' = args /\ ~ref.terminated /\ ~LimitReached(args, ref.cycle)
         /\ ref' = Step(ref, args.stop_pc) /\ ca' = ref' /\ Sound(ref') /\ mismatch' = << >>
         /\ exit' = exit /\ dumped' = dumped /\ ca_window' = ref_window'
         /\ phase' = "run" \/ (phase' = "compared" /\ ref'.terminated)
         /\ phase' = "run" /\ ~ref'.terminated => ref_window' = LastOnes(ref'.committed, args.compare_window)
<1>1. /\ phase = "run" /\ args' = args /\ ~ref.terminated /\ ~LimitReached(args, ref.cycle)
      /\ Sound(ref) /\ ca = ref /\ mismatch = << >> /\ ca_window = ref_window
      /\ ref_window = LastOnes(ref.committed, args.compare_window)
  BY DEF CompareRunInv, Comparing!Turn, Comparing!Looping
<1>2. ref' = Step(ref, args.stop_pc) /\ ca' = ref' /\ Comparing!Compare(ref', ref')
  BY <1>1 DEF Comparing!Turn
<1>3. Sound(ref') /\ (ref'.terminated \/ Commits(ref, ref'))
  BY <1>1, <1>2, StepSound
<1>4. args.compare_window \in Nat \ {0}
  BY DEF Fit, ArgsTyped
<1>5. ref.committed \in Seq(Record) /\ ref'.committed \in Seq(Record)
  BY <1>1, <1>3 DEF Sound, Contexts
<1>6. CASE ref'.committed = << >>
  <2>1. ~Commits(ref, ref')
    BY <1>5, <1>6 DEF Commits
  <2>2. phase' = "compared" /\ exit' = exit /\ dumped' = dumped /\ ref_window' = ref_window
        /\ ca_window' = ca_window /\ mismatch' = mismatch
    BY <1>2, <1>6 DEF Comparing!Compare, Comparing!windows
  <2>3. QED BY <1>1, <1>2, <1>3, <2>1, <2>2
<1>7. CASE ref'.committed # << >>
  <2> DEFINE x == LastCommitted(ref')
  <2>1. Comparing!Harness!Push(x, x, args.compare_window)
    BY <1>2, <1>7 DEF Comparing!Compare
  <2>2. /\ ref_window' = LastOnes(Append(ref_window, x), args.compare_window)
        /\ ca_window' = LastOnes(Append(ref_window, x), args.compare_window)
        /\ mismatch' = << >>
    BY <1>1, <2>1 DEF Comparing!Harness!Push, LastOnes
  <2>3. phase' = phase /\ exit' = exit /\ dumped' = dumped
    BY <1>2, <1>7, <2>2 DEF Comparing!Compare
  <2>4. ASSUME ~ref'.terminated PROVE ref_window' = LastOnes(ref'.committed, args.compare_window)
    <3> DEFINE y == MakeMinstRecord(ref, FetchDecode(ref))
    <3>1. ref'.committed = Append(ref.committed, y)
      BY <1>3, <2>4 DEF Commits
    <3> HIDE DEF y
    <3>2. x = ref'.committed[Len(ref'.committed)]
      BY DEF LastCommitted
    <3>3. Len(ref'.committed) = Len(ref.committed) + 1 /\ Len(ref.committed) \in Nat
      BY <1>5, <3>1
    <3>4. x \in Record
      BY <1>5, <3>2, <3>3
    <3>5. x = y
      BY <1>5, <3>1, <3>2, <3>3
    <3> HIDE DEF x
    <3>6. QED BY <1>1, <1>4, <1>5, <2>2, <3>1, <3>4, <3>5, LastOnesMove
  <2>5. QED BY <1>1, <1>2, <1>3, <2>2, <2>3, <2>4
<1>8. QED BY <1>6, <1>7

LEMMA CompareRunStep ==
  ASSUME Fit(args), CompareRunInv(args, ref, ca, phase, exit, dumped, ref_window, ca_window, mismatch),
         Comparing!Next
  PROVE  /\ args' = args
         /\ CompareRunInv(args, ref', ca', phase', exit', dumped', ref_window', ca_window', mismatch')
<1>1. /\ Sound(ref) /\ ca = ref /\ mismatch = << >> /\ ca_window = ref_window
      /\ phase # "done" => exit = None /\ dumped = << >>
  BY DEF CompareRunInv
<1>2. CASE Comparing!Start
  <2>1. /\ Opened(args) /\ ref = NewContext /\ ref_window = << >> /\ args' = args
        /\ ref' = LoadProgram(NewContext, ImageOf(args))
        /\ ca' = ResetContext(LoadProgram(NewContext, ImageOf(args)))
        /\ phase' = "run" /\ exit' = None /\ dumped' = << >>
        /\ ref_window' = << >> /\ ca_window' = << >> /\ mismatch' = << >>
    BY <1>1, <1>2 DEF Comparing!Start, CompareRunInv, Opened, Comparing!windows
  <2>2. ImageOf(args) \in AnyImage
    BY <2>1, ImageTyped DEF Fit, Opened
  <2>3. Sound(ref') /\ AtStart(ref') /\ ca' = ref'
    BY <2>1, <2>2, LoadSound
  <2>4. LastOnes(<< >>, args.compare_window) = << >>
    BY DEF LastOnes, Comparing!Harness!LastOnes, Fit, ArgsTyped
  <2>5. QED BY <2>1, <2>3, <2>4 DEF CompareRunInv, AtStart
<1>3. CASE Comparing!Abort
  <2>1. /\ ~Opened(args) /\ ref = NewContext /\ args' = args /\ ref' = ref /\ ca' = ca
        /\ phase' = "done" /\ dumped' = << >> /\ exit' = IF HasProgram(args) THEN Aborted ELSE 1
        /\ ref_window' = ref_window /\ ca_window' = ca_window /\ mismatch' = mismatch
    BY <1>1, <1>3 DEF Comparing!Abort, Comparing!Leave, CompareRunInv, Opened, Comparing!windows
  <2>2. exit' # 0
    BY <2>1 DEF Aborted
  <2>3. ~NewContext.terminated
    BY NewSound DEF AtStart
  <2>4. QED BY <1>1, <2>1, <2>2, <2>3 DEF CompareRunInv
<1>4. CASE Comparing!Turn
  <2>1. Opened(args)
    BY <1>4 DEF Comparing!Turn, Comparing!Looping, CompareRunInv
  <2>2. QED BY <1>1, <1>4, <2>1, CompareTurn DEF CompareRunInv, Over
<1>5. CASE Comparing!LoopEnds
  <2>1. /\ phase = "run" /\ phase' = "compared" /\ args' = args /\ ref' = ref /\ ca' = ca /\ exit' = exit
        /\ dumped' = dumped /\ ref_window' = ref_window /\ ca_window' = ca_window /\ mismatch' = mismatch
        /\ ~Comparing!Looping
    BY <1>5 DEF Comparing!LoopEnds, Comparing!windows
  <2>2. Over(args, ref)
    BY <1>1, <2>1 DEF Comparing!Looping, Over
  <2>3. QED BY <1>1, <2>1, <2>2 DEF CompareRunInv
<1>6. CASE Comparing!Finish
  <2>1. /\ phase = "compared" /\ Opened(args) /\ args' = args /\ ref' = ref /\ ca' = ca
        /\ ref_window' = ref_window /\ ca_window' = ca_window /\ mismatch' = mismatch
    BY <1>6 DEF Comparing!Finish, CompareRunInv, Comparing!windows
  <2>2. /\ phase' = "done"
        /\ IF ref.exit_code # 0 THEN exit' = ref.exit_code /\ dumped' = << >>
           ELSE \E export \in Exports(args, ref) : exit' = export.exit /\ dumped' = export.dumped
    BY <1>1, <1>6, <2>1 DEF Comparing!Finish, Comparing!Leave, Comparing!ExitCode
  <2>3. Ends(args, AtLimit(ref), exit', dumped')
    BY <1>1, <2>2, AtLimitSound, FinishTells
  <2>4. QED BY <1>1, <2>1, <2>2, <2>3 DEF CompareRunInv
<1>7. QED BY <1>2, <1>3, <1>4, <1>5, <1>6 DEF Comparing!Next

(***************************************************************************)
(* The ca engine: its clock is the context's while RunReference() steps it.  *)
(***************************************************************************)
SimMainInv(a, c, cy, ph, ex, du) ==
  /\ ph \in {"start", "run", "tests", "left", "done"} /\ Sound(c) /\ cy \in Nat
  /\ ph = "start" => c = NewContext /\ cy = 0
  /\ ph # "done" => ex = None /\ du = << >>
  /\ ph \in {"run", "tests", "left"} => Startable(a)
  /\ ph \in {"run", "tests"} => ~a.disassembly_only
  /\ ph = "run" => ~c.terminated /\ (cy = 0 \/ ~LimitReached(a, cy))
  /\ ph \in {"run", "tests"} /\ a.enable_reference /\ ~c.terminated => c.cycle = cy
  /\ ph = "left" /\ a.disassembly_only => c = First(a)

LEMMA SimMainStep ==
  ASSUME Fit(args), SimMainInv(args, ca, cycle, phase, exit, dumped), CaEngine!Next
  PROVE  args' = args /\ SimMainInv(args, ca', cycle', phase', exit', dumped')
<1>1. Sound(ca) /\ cycle \in Nat /\ (phase # "done" => exit = None /\ dumped = << >>)
  BY DEF SimMainInv
<1>2. CASE CaEngine!Start
  <2>1. /\ phase = "start" /\ Startable(args) /\ ca = NewContext /\ cycle = 0 /\ args' = args
        /\ cycle' = cycle /\ exit' = None /\ dumped' = << >>
    BY <1>1, <1>2 DEF CaEngine!Start, SimMainInv
  <2>2. IF args.disassembly_only THEN phase' = "left" /\ ca' = First(args)
                                 ELSE phase' = "run"  /\ ca' = ResetContext(First(args))
    BY <1>2, <2>1 DEF CaEngine!Start, CaEngine!Loaded, First
  <2>3. Sound(ca') /\ AtStart(ca') /\ ca' = First(args)
    BY <2>1, <2>2, FirstSound
  <2>4. CASE args.disassembly_only
    BY <2>1, <2>2, <2>3, <2>4 DEF SimMainInv
  <2>5. CASE ~args.disassembly_only
    BY <2>1, <2>2, <2>3, <2>5 DEF SimMainInv, AtStart
  <2>6. QED BY <2>4, <2>5
<1>3. CASE CaEngine!Abort
  <2>1. args' = args /\ phase' = "done" /\ ca' = ca /\ cycle' = cycle
    BY <1>3 DEF CaEngine!Abort
  <2>2. QED BY <1>1, <2>1 DEF SimMainInv
<1>4. CASE CaEngine!Turn
  <2>1. /\ phase = "run" /\ args' = args /\ cycle' = cycle + 1 /\ phase' = "tests"
        /\ exit' = exit /\ dumped' = dumped
        /\ ca' = IF args.enable_reference THEN Step(ca, args.stop_pc) ELSE ca
    BY <1>4 DEF CaEngine!Turn
  <2>2. /\ ~ca.terminated /\ Startable(args) /\ ~args.disassembly_only
        /\ args.enable_reference => ca.cycle = cycle
    BY <2>1 DEF SimMainInv
  <2>3. Sound(ca') /\ (args.enable_reference => ca'.terminated \/ ca'.cycle = cycle + 1)
    BY <1>1, <2>1, <2>2, StepSound
  <2>4. cycle + 1 \in Nat
    BY <1>1
  <2>5. QED BY <1>1, <2>1, <2>2, <2>3, <2>4 DEF SimMainInv
<1>5. CASE CaEngine!Tests
  <2>1. /\ phase = "tests" /\ args' = args /\ cycle' = cycle /\ ca' = ca /\ exit' = exit /\ dumped' = dumped
        /\ phase' = IF ca.terminated \/ LimitReached(args, cycle) THEN "left" ELSE "run"
    BY <1>5 DEF CaEngine!Tests
  <2>2. QED BY <1>1, <2>1 DEF SimMainInv
<1>6. CASE CaEngine!Finish
  <2>1. args' = args /\ phase' = "done" /\ ca' = ca /\ cycle' = cycle
    BY <1>6 DEF CaEngine!Finish
  <2>2. QED BY <1>1, <2>1 DEF SimMainInv
<1>7. QED BY <1>2, <1>3, <1>4, <1>5, <1>6 DEF CaEngine!Next

(***************************************************************************)
(* The command line as a whole.                                             *)
(***************************************************************************)
Quiet ==
  /\ ref = NewContext /\ ca = NewContext /\ cycle = 0
  /\ ref_window = << >> /\ ca_window = << >> /\ mismatch = << >>
  /\ phase = "start" /\ exit = None /\ dumped = << >>

EnginesInv ==
  /\ verdict = "reading" => Quiet
  /\ Run("ref") => RefRunInv(args, ref, phase, exit, dumped)
  /\ Run("compare") => CompareRunInv(args, ref, ca, phase, exit, dumped, ref_window, ca_window, mismatch)
  /\ Run("ca") => SimMainInv(args, ca, cycle, phase, exit, dumped)

CliInv == ParserInv /\ EnginesInv

(* Before an engine is called, what it is given is as it expects.            *)
LEMMA QuietStarts ==
  ASSUME Quiet
  PROVE  /\ \A a : RefRunInv(a, ref, phase, exit, dumped)
         /\ \A a : CompareRunInv(a, ref, ca, phase, exit, dumped, ref_window, ca_window, mismatch)
         /\ \A a : SimMainInv(a, ca, cycle, phase, exit, dumped)
<1>1. Sound(NewContext)
  BY NewSound
<1>2. \A a : RefRunInv(a, ref, phase, exit, dumped)
  BY <1>1 DEF Quiet, RefRunInv
<1>3. \A a : CompareRunInv(a, ref, ca, phase, exit, dumped, ref_window, ca_window, mismatch)
  BY <1>1 DEF Quiet, CompareRunInv
<1>4. \A a : SimMainInv(a, ca, cycle, phase, exit, dumped)
  BY <1>1 DEF Quiet, SimMainInv
<1>5. QED BY <1>2, <1>3, <1>4

LEMMA CliInitInv == Init => CliInv
<1> SUFFICES ASSUME Init PROVE CliInv
  OBVIOUS
<1>1. ParserInv
  BY ParserInitInv DEF Init
<1>2. Quiet
  BY DEF Init, Quiet, Comparing!Harness!Init
<1>3. EnginesInv
  BY <1>2, QuietStarts DEF EnginesInv
<1>4. QED BY <1>1, <1>3 DEF CliInv

LEMMA CliStepInv == CliInv /\ [Next]_vars => CliInv'
<1> SUFFICES ASSUME CliInv, [Next]_vars PROVE CliInv'
  OBVIOUS
<1>1. ParserInv /\ EnginesInv
  BY DEF CliInv
<1>2. CASE Parse
  <2>1. Parser!Next /\ verdict = "reading"
    BY <1>2 DEF Parse, Parser!Next, Parser!TakeValue, Parser!TakeSwitch, Parser!TakeProgram, Parser!ShowHelp,
                Parser!Refuse, Parser!Judge, Parser!Reading
  <2>2. ParserInv'
    BY <1>1, <2>1, ParserStepInv
  <2>3. /\ Quiet /\ ref' = ref /\ ca' = ca /\ cycle' = cycle /\ phase' = phase /\ exit' = exit /\ dumped' = dumped
        /\ ref_window' = ref_window /\ ca_window' = ca_window /\ mismatch' = mismatch
    BY <1>1, <1>2, <2>1 DEF Parse, execution, windows, EnginesInv
  <2>4. EnginesInv'
    BY <2>3, QuietStarts DEF EnginesInv, Quiet
  <2>5. QED BY <2>2, <2>4 DEF CliInv
<1>3. CASE NotAccepted
  <2>1. UNCHANGED parser /\ verdict' \in {"help", "refused"}
    BY <1>3 DEF NotAccepted, parser
  <2>2. ParserInv'
    BY <1>1, <2>1, ParserStays
  <2>3. QED BY <2>1, <2>2 DEF CliInv, EnginesInv, Run
<1>4. CASE RunReferenceEngine
  <2>1. /\ verdict = "accepted" /\ args.engine = "ref" /\ RefEngine!Next
        /\ argv' = argv /\ next' = next /\ verdict' = verdict
    BY <1>4 DEF RunReferenceEngine, Run
  <2>2. Fit(args)
    BY <1>1, <2>1, AcceptedFits
  <2>3. args' = args /\ RefRunInv(args, ref', phase', exit', dumped')
    BY <1>1, <2>1, <2>2, RefRunStep DEF EnginesInv, Run
  <2>4. ParserInv'
    BY <1>1, <2>1, <2>3, ParserStays DEF parser
  <2>5. EnginesInv'
    BY <2>1, <2>3 DEF EnginesInv, Run
  <2>6. QED BY <2>4, <2>5 DEF CliInv
<1>5. CASE RunCompareEngine
  <2>1. /\ verdict = "accepted" /\ args.engine = "compare" /\ Comparing!Next
        /\ argv' = argv /\ next' = next /\ verdict' = verdict
    BY <1>5 DEF RunCompareEngine, Run
  <2>2. Fit(args)
    BY <1>1, <2>1, AcceptedFits
  <2>3. /\ args' = args
        /\ CompareRunInv(args, ref', ca', phase', exit', dumped', ref_window', ca_window', mismatch')
    BY <1>1, <2>1, <2>2, CompareRunStep DEF EnginesInv, Run
  <2>4. ParserInv'
    BY <1>1, <2>1, <2>3, ParserStays DEF parser
  <2>5. EnginesInv'
    BY <2>1, <2>3 DEF EnginesInv, Run
  <2>6. QED BY <2>4, <2>5 DEF CliInv
<1>6. CASE RunSimMain
  <2>1. /\ verdict = "accepted" /\ args.engine = "ca" /\ CaEngine!Next
        /\ argv' = argv /\ next' = next /\ verdict' = verdict
    BY <1>6 DEF RunSimMain, Run
  <2>2. Fit(args)
    BY <1>1, <2>1, AcceptedFits
  <2>3. args' = args /\ SimMainInv(args, ca', cycle', phase', exit', dumped')
    BY <1>1, <2>1, <2>2, SimMainStep DEF EnginesInv, Run
  <2>4. ParserInv'
    BY <1>1, <2>1, <2>3, ParserStays DEF parser
  <2>5. EnginesInv'
    BY <2>1, <2>3 DEF EnginesInv, Run
  <2>6. QED BY <2>4, <2>5 DEF CliInv
<1>7. CASE UNCHANGED vars
  <2>1. UNCHANGED parser /\ UNCHANGED execution
    BY <1>7 DEF vars
  <2>2. ParserInv'
    BY <1>1, <2>1, ParserStays
  <2>3. EnginesInv'
    BY <1>1, <2>1 DEF EnginesInv, Run, Quiet, execution, windows, parser
  <2>4. QED BY <2>2, <2>3 DEF CliInv
<1>8. QED BY <1>2, <1>3, <1>4, <1>5, <1>6, <1>7 DEF Next

LEMMA CliInvHolds == Spec => []CliInv
BY CliInitInv, CliStepInv, PTL DEF Spec

LEMMA TailsHold == CliInv => WindowsAreTails
<1> SUFFICES ASSUME CliInv, Run("compare"), Comparing!Looping
             PROVE  /\ ref_window = Comparing!TailOf(ref.committed)
                    /\ ca_window = Comparing!TailOf(ca.committed)
                    /\ Len(ref_window) <= args.compare_window
                    /\ Len(ref.committed) >= args.compare_window => Len(ref_window) = args.compare_window
  BY DEF WindowsAreTails, Comparing!WindowsAreTails
<1>1. /\ Sound(ref) /\ ca = ref /\ ca_window = ref_window
      /\ ref_window = LastOnes(ref.committed, args.compare_window)
  BY DEF CliInv, EnginesInv, CompareRunInv, Comparing!Looping
<1>2. args.compare_window \in Nat \ {0}
  BY DEF CliInv, ParserInv, Told, ArgsTyped
<1>3. ref.committed \in Seq(Record)
  BY <1>1 DEF Sound, Contexts
<1>4. QED BY <1>1, <1>2, <1>3, LastOnesTail DEF Comparing!TailOf

(***************************************************************************)
(* What the ref engine would be seen to do, engine by engine.                *)
(***************************************************************************)
Seen(a, c, ph, ex, du) ==
  /\ ReferenceArgs = a /\ ReferenceContext = c /\ ReferencePhase = ph
  /\ ReferenceExit = ex /\ ReferenceDumped = du

LEMMA IdleSeen == ~Follows => Seen(<< >>, NewContext, "idle", None, << >>)
BY DEF Seen, ReferenceArgs, ReferenceContext, ReferencePhase, ReferenceExit, ReferenceDumped

LEMMA RefSeen == CliInv /\ Run("ref") => Follows /\ Seen(args, ref, phase, exit, dumped)
<1> SUFFICES ASSUME CliInv, Run("ref") PROVE Follows /\ Seen(args, ref, phase, exit, dumped)
  OBVIOUS
<1>1. Engine = "ref" /\ Follows
  BY DEF Run, Engine, Follows, OwnWay
<1>2. RefRunInv(args, ref, phase, exit, dumped)
  BY DEF CliInv, EnginesInv
<1>3. /\ phase \in {"start", "run", "done"} /\ ~Listed /\ ~Failed /\ Context = ref
      /\ LoopEnded => ref.terminated
  BY <1>1, <1>2 DEF RefRunInv, Listed, Failed, Context, LoopEnded
<1>4. QED BY <1>1, <1>3
      DEF Seen, ReferenceArgs, ReferenceContext, ReferencePhase, ReferenceExit, ReferenceDumped

LEMMA CompareSeen ==
  CliInv /\ Run("compare") =>
    /\ Follows <=> HasProgram(args) /\ ~args.disassembly_only
    /\ Follows => Seen(args,
                       IF phase \in {"compared", "done"} /\ Startable(args) THEN AtLimit(ref) ELSE ref,
                       IF phase = "compared" THEN "run" ELSE phase, exit, dumped)
<1> SUFFICES ASSUME CliInv, Run("compare")
             PROVE  /\ Follows <=> HasProgram(args) /\ ~args.disassembly_only
                    /\ Follows => Seen(args,
                         IF phase \in {"compared", "done"} /\ Startable(args) THEN AtLimit(ref) ELSE ref,
                         IF phase = "compared" THEN "run" ELSE phase, exit, dumped)
  OBVIOUS
<1>1. Engine = "compare" /\ (Follows <=> HasProgram(args) /\ ~args.disassembly_only)
  BY DEF Run, Engine, Follows, OwnWay
<1>2. phase \in {"start", "run", "compared", "done"}
  BY DEF CliInv, EnginesInv, CompareRunInv
<1>3. ASSUME Follows
      PROVE  Seen(args, IF phase \in {"compared", "done"} /\ Startable(args) THEN AtLimit(ref) ELSE ref,
                  IF phase = "compared" THEN "run" ELSE phase, exit, dumped)
  <2>1. /\ ~Listed /\ ~Failed /\ Context = ref
        /\ LoopEnded <=> phase \in {"compared", "done"} /\ Startable(args)
    BY <1>1, <1>2, <1>3 DEF Listed, Failed, Context, LoopEnded
  <2>2. QED BY <1>1, <1>2, <1>3, <2>1
        DEF Seen, AtLimit, ReferenceArgs, ReferenceContext, ReferencePhase, ReferenceExit, ReferenceDumped
<1>4. QED BY <1>1, <1>3

Unlimited(a) == IF a.enable_reference THEN a ELSE [a EXCEPT !.max_cycles = 0]

LEMMA SimMainSeen ==
  CliInv /\ Run("ca") =>
    /\ Follows <=> /\ ~(args.disassembly_only /\ args.result_dump_path # "")
                   /\ ~(args.enable_reference /\ args.max_cycles = 0)
    /\ Follows => Seen(Unlimited(args),
                       IF phase = "left" /\ args.disassembly_only THEN NewContext
                       ELSE IF phase \in {"left", "done"} /\ ~args.disassembly_only /\ Startable(args) THEN AtLimit(ca)
                       ELSE ca,
                       IF phase = "left" /\ args.disassembly_only THEN "start"
                       ELSE IF phase \in {"tests", "left"} THEN "run" ELSE phase,
                       IF phase = "done" /\ ca.exit_code # 0 THEN ca.exit_code ELSE exit,
                       IF phase = "done" /\ ca.exit_code # 0 THEN << >> ELSE dumped)
<1> DEFINE C == IF phase = "left" /\ args.disassembly_only THEN NewContext
                ELSE IF phase \in {"left", "done"} /\ ~args.disassembly_only /\ Startable(args) THEN AtLimit(ca)
                ELSE ca
           P == IF phase = "left" /\ args.disassembly_only THEN "start"
                ELSE IF phase \in {"tests", "left"} THEN "run" ELSE phase
           X == IF phase = "done" /\ ca.exit_code # 0 THEN ca.exit_code ELSE exit
           D == IF phase = "done" /\ ca.exit_code # 0 THEN << >> ELSE dumped
<1> SUFFICES ASSUME CliInv, Run("ca")
             PROVE  /\ Follows <=> /\ ~(args.disassembly_only /\ args.result_dump_path # "")
                                   /\ ~(args.enable_reference /\ args.max_cycles = 0)
                    /\ Follows => Seen(Unlimited(args), C, P, X, D)
  OBVIOUS
<1>1. Engine = "ca"
  BY DEF Run, Engine
<1>2. Follows <=> /\ ~(args.disassembly_only /\ args.result_dump_path # "")
                  /\ ~(args.enable_reference /\ args.max_cycles = 0)
  BY <1>1 DEF Follows, OwnWay
<1>3. phase \in {"start", "run", "tests", "left", "done"}
  BY DEF CliInv, EnginesInv, SimMainInv
<1>4. ASSUME Follows
      PROVE  Seen(Unlimited(args), C, P, X, D)
  <2>1. /\ Listed <=> phase = "left" /\ args.disassembly_only
        /\ Failed <=> phase = "done" /\ ca.exit_code # 0
        /\ Context = ca
        /\ LoopEnded <=> phase \in {"left", "done"} /\ ~args.disassembly_only /\ Startable(args)
    BY <1>1, <1>3 DEF Listed, Failed, Context, LoopEnded
  <2>2. ReferenceArgs = Unlimited(args)
    BY <1>1, <1>4 DEF ReferenceArgs, Unlimited
  <2>3. ReferenceContext = C
    BY <1>3, <1>4, <2>1 DEF ReferenceContext, AtLimit
  <2>4. ReferencePhase = P
    BY <1>3, <1>4, <2>1 DEF ReferencePhase
  <2>5. ReferenceExit = X /\ ReferenceDumped = D
    BY <1>4, <2>1 DEF ReferenceExit, ReferenceDumped
  <2>6. QED BY <2>2, <2>3, <2>4, <2>5 DEF Seen
<1>5. QED BY <1>2, <1>4

(***************************************************************************)
(* The exit code.                                                           *)
(***************************************************************************)
LEMMA OutcomeTold == CliInv => ExitTellsOutcome
<1> SUFFICES ASSUME CliInv, Engine \in {"ref", "compare"} PROVE Reference!ExitTellsOutcome
  BY DEF ExitTellsOutcome
<1>1. verdict = "accepted" /\ Engine = args.engine
  BY DEF Engine
<1>2. Fit(args)
  BY <1>1, AcceptedFits DEF CliInv
<1>3. CASE Engine = "ref"
  <2>1. Run("ref")
    BY <1>1, <1>3 DEF Run
  <2>2. Seen(args, ref, phase, exit, dumped) /\ (phase = "done" => Tells(args, ref, exit, dumped))
    BY <2>1, RefSeen DEF CliInv, EnginesInv, RefRunInv
  <2>3. QED BY <2>2 DEF Seen, Reference!ExitTellsOutcome, Reference!Succeeded, Tells, Ends, Won, Exported
<1>4. CASE Engine = "compare"
  <2>1. Run("compare")
    BY <1>1, <1>4 DEF Run
  <2>2. CASE ~Follows
    <3>1. ReferencePhase # "done"
      BY <2>2, IdleSeen DEF Seen
    <3>2. QED BY <3>1 DEF Reference!ExitTellsOutcome
  <2>3. CASE Follows /\ phase = "done"
    <3>1. HasProgram(args) /\ ~args.disassembly_only
      BY <2>1, <2>3, CompareSeen
    <3>2. Startable(args) <=> Opened(args)
      BY <3>1 DEF Startable, Opened
    <3>3. CompareRunInv(args, ref, ca, phase, exit, dumped, ref_window, ca_window, mismatch)
      BY <2>1 DEF CliInv, EnginesInv
    <3>4. CASE Opened(args)
      <4>1. Seen(args, AtLimit(ref), "done", exit, dumped)
        BY <2>1, <2>3, <3>2, <3>4, CompareSeen
      <4>2. Ends(args, AtLimit(ref), exit, dumped)
        BY <2>3, <3>3, <3>4 DEF CompareRunInv
      <4>3. QED BY <3>1, <4>1, <4>2
            DEF Seen, Reference!ExitTellsOutcome, Reference!Succeeded, Ends, Won, Exported
    <3>5. CASE ~Opened(args)
      <4>1. Seen(args, ref, "done", exit, dumped)
        BY <2>1, <2>3, <3>2, <3>5, CompareSeen
      <4>2. ~ref.terminated /\ exit # 0 /\ dumped = << >>
        BY <2>3, <3>3, <3>5 DEF CompareRunInv
      <4>3. QED BY <3>1, <4>1, <4>2 DEF Seen, Reference!ExitTellsOutcome, Reference!Succeeded
    <3>6. QED BY <3>4, <3>5
  <2>4. CASE Follows /\ phase # "done"
    <3>1. ReferencePhase # "done"
      BY <2>1, <2>4, CompareSeen DEF Seen
    <3>2. QED BY <3>1 DEF Reference!ExitTellsOutcome
  <2>5. QED BY <2>2, <2>3, <2>4
<1>5. QED BY <1>3, <1>4

(***************************************************************************)
(* Each step of an engine is a step of the ref engine, or none.              *)
(***************************************************************************)
Stands == UNCHANGED <<ReferenceArgs, ReferenceContext, ReferencePhase, ReferenceExit, ReferenceDumped>>

LEMMA IdleSeenNext == ~Follows' => Seen(<< >>, NewContext, "idle", None, << >>)'
BY IdleSeen, PTL

LEMMA ParseImplements ==
  ASSUME CliInv, CliInv', Parse
  PROVE  Reference!Called \/ Stands
<1>1. verdict = "reading"
  BY DEF Parse, Parser!Next, Parser!TakeValue, Parser!TakeSwitch, Parser!TakeProgram, Parser!ShowHelp,
         Parser!Refuse, Parser!Judge, Parser!Reading
<1>2. ~Follows
  BY <1>1 DEF Follows, Engine
<1>3. Quiet /\ UNCHANGED execution
  BY <1>1 DEF CliInv, EnginesInv, Parse
<1>4. CASE ~Follows'
  BY <1>2, <1>4, IdleSeen, IdleSeenNext DEF Stands, Seen
<1>5. CASE Follows'
  <2>1. /\ ref' = NewContext /\ ca' = NewContext /\ phase' = "start" /\ exit' = None /\ dumped' = << >>
    BY <1>3 DEF Quiet, execution, windows
  <2>2. ~Listed' /\ ~Failed' /\ ~LoopEnded' /\ Context' = NewContext
    BY <2>1 DEF Listed, Failed, LoopEnded, Context
  <2>3. ReferenceContext' = NewContext /\ ReferencePhase' = "start" /\ ReferenceExit' = None /\ ReferenceDumped' = << >>
    BY <1>5, <2>1, <2>2 DEF ReferenceContext, ReferencePhase, ReferenceExit, ReferenceDumped
  <2>4. QED BY <1>2, <2>3, IdleSeen DEF Seen, Reference!Called
<1>6. QED BY <1>4, <1>5

LEMMA RefImplements ==
  ASSUME CliInv, CliInv', RunReferenceEngine
  PROVE  Reference!Next
<1>1. Run("ref") /\ RefEngine!Next /\ verdict' = verdict
  BY DEF RunReferenceEngine
<1>2. args' = args
  BY <1>1, RefRunStep, AcceptedFits DEF CliInv, EnginesInv, Run
<1>3. Run("ref")'
  BY <1>1, <1>2 DEF Run
<1>4. Seen(args, ref, phase, exit, dumped)
  BY <1>1, RefSeen
<1>5. Seen(args, ref, phase, exit, dumped)'
  <2>1. CliInv' /\ Run("ref")' => Seen(args, ref, phase, exit, dumped)'
    BY RefSeen, PTL
  <2>2. QED BY <1>3, <2>1
<1>6. /\ ReferenceArgs = args /\ ReferenceContext = ref /\ ReferencePhase = phase
      /\ ReferenceExit = exit /\ ReferenceDumped = dumped
  BY <1>4 DEF Seen
<1>7. /\ ReferenceArgs' = args' /\ ReferenceContext' = ref' /\ ReferencePhase' = phase'
      /\ ReferenceExit' = exit' /\ ReferenceDumped' = dumped'
  BY <1>5 DEF Seen
<1>8. CASE RefEngine!Start
  BY <1>6, <1>7, <1>8 DEF RefEngine!Start, RefEngine!Leave, Reference!Start, Reference!Leave, Reference!Next
<1>9. CASE RefEngine!Abort
  BY <1>6, <1>7, <1>9 DEF RefEngine!Abort, RefEngine!Leave, Reference!Abort, Reference!Leave, Reference!Next
<1>10. CASE RefEngine!Attempt
  BY <1>6, <1>7, <1>10 DEF RefEngine!Attempt, Reference!Attempt, Reference!Next
<1>11. CASE RefEngine!HitLimit
  BY <1>6, <1>7, <1>11 DEF RefEngine!HitLimit, Reference!HitLimit, Reference!Next
<1>12. CASE RefEngine!Finish
  BY <1>6, <1>7, <1>12 DEF RefEngine!Finish, RefEngine!Leave, Reference!Finish, Reference!Leave, Reference!Next
<1>13. QED BY <1>1, <1>8, <1>9, <1>10, <1>11, <1>12 DEF RefEngine!Next

LEMMA CompareImplements ==
  ASSUME CliInv, CliInv', RunCompareEngine
  PROVE  Reference!Next \/ Stands
<1>1. Run("compare") /\ Comparing!Next /\ verdict' = verdict
  BY DEF RunCompareEngine
<1>2. CompareRunInv(args, ref, ca, phase, exit, dumped, ref_window, ca_window, mismatch) /\ Fit(args)
  BY <1>1, AcceptedFits DEF CliInv, EnginesInv, Run
<1>3. args' = args
  BY <1>1, <1>2, CompareRunStep
<1>4. Run("compare")'
  BY <1>1, <1>3 DEF Run
<1>5. Follows' <=> Follows
  <2>1. Follows' <=> HasProgram(args') /\ ~args'.disassembly_only
    <3>1. CliInv' /\ Run("compare")' => (Follows' <=> (HasProgram(args) /\ ~args.disassembly_only)')
      BY CompareSeen, PTL
    <3>2. QED BY <1>4, <3>1
  <2>2. QED BY <1>1, <1>3, <2>1, CompareSeen
<1>6. CASE ~Follows
  BY <1>5, <1>6, IdleSeen, IdleSeenNext DEF Stands, Seen
<1>7. CASE Follows
  <2>1. HasProgram(args) /\ ~args.disassembly_only /\ (Startable(args) <=> Opened(args))
    BY <1>1, <1>7, CompareSeen DEF Startable, Opened
  <2>2. /\ ReferenceArgs = args /\ ReferenceExit = exit /\ ReferenceDumped = dumped
        /\ ReferenceContext = IF phase \in {"compared", "done"} /\ Startable(args) THEN AtLimit(ref) ELSE ref
        /\ ReferencePhase = IF phase = "compared" THEN "run" ELSE phase
    BY <1>1, <1>7, CompareSeen DEF Seen
  <2>3. /\ ReferenceArgs' = args /\ ReferenceExit' = exit' /\ ReferenceDumped' = dumped'
        /\ ReferenceContext' = IF phase' \in {"compared", "done"} /\ Startable(args) THEN AtLimit(ref') ELSE ref'
        /\ ReferencePhase' = IF phase' = "compared" THEN "run" ELSE phase'
    <3> DEFINE S == Seen(args, IF phase \in {"compared", "done"} /\ Startable(args) THEN AtLimit(ref) ELSE ref,
                         IF phase = "compared" THEN "run" ELSE phase, exit, dumped)
    <3>1. CliInv' /\ Run("compare")' /\ Follows' => S'
      BY CompareSeen, PTL
    <3>2. QED BY <1>3, <1>4, <1>5, <1>7, <3>1 DEF Seen
  <2>4. Sound(ref) /\ ca = ref /\ (phase # "done" => exit = None /\ dumped = << >>)
    BY <1>2 DEF CompareRunInv
  <2>5. CASE Comparing!Start
    <3>1. /\ phase = "start" /\ Startable(args) /\ ref' = LoadProgram(ref, ImageOf(args)) /\ phase' = "run"
          /\ exit' = exit /\ dumped' = dumped
      BY <2>1, <2>5 DEF Comparing!Start, Opened
    <3>2. QED BY <2>1, <2>2, <2>3, <3>1 DEF Reference!Start, Reference!Next
  <2>6. CASE Comparing!Abort
    <3>1. /\ phase = "start" /\ ~Startable(args) /\ ref' = ref /\ phase' = "done"
          /\ exit' = Aborted /\ dumped' = dumped
      BY <2>1, <2>6 DEF Comparing!Abort, Comparing!Leave, Opened
    <3>2. QED BY <2>2, <2>3, <3>1 DEF Reference!Abort, Reference!Leave, Reference!Next
  <2>7. CASE Comparing!Turn
    <3>1. /\ phase = "run" /\ ~ref.terminated /\ ~LimitReached(args, ref.cycle)
          /\ ref' = Step(ref, args.stop_pc) /\ exit' = exit /\ dumped' = dumped
          /\ phase' = "run" \/ (phase' = "compared" /\ ref'.terminated)
      BY <1>2, <2>7, CompareTurn
    <3>2. ReferenceContext' = ref' /\ ReferencePhase' = "run"
      BY <2>3, <3>1 DEF AtLimit
    <3>3. QED BY <2>2, <2>3, <3>1, <3>2 DEF Reference!Attempt, Reference!Next
  <2>8. CASE Comparing!LoopEnds
    <3>1. /\ phase = "run" /\ phase' = "compared" /\ ref' = ref /\ exit' = exit /\ dumped' = dumped
          /\ ref.terminated \/ LimitReached(args, ref.cycle)
      BY <2>4, <2>8 DEF Comparing!LoopEnds, Comparing!Looping
    <3>2. Startable(args)
      BY <1>2, <2>1, <3>1 DEF CompareRunInv
    <3>3. /\ ReferenceContext = ref /\ ReferencePhase = "run" /\ ReferencePhase' = "run"
          /\ ReferenceContext' = AtLimit(ref)
      BY <2>2, <2>3, <3>1, <3>2
    <3>4. CASE ref.terminated
      BY <2>2, <2>3, <3>1, <3>3, <3>4 DEF Stands, AtLimit
    <3>5. CASE ~ref.terminated
      BY <2>2, <2>3, <3>1, <3>3, <3>5 DEF AtLimit, Reference!HitLimit, Reference!Next
    <3>6. QED BY <3>4, <3>5
  <2>9. CASE Comparing!Finish
    <3>1. phase = "compared" /\ ref' = ref /\ phase' = "done"
      BY <2>9 DEF Comparing!Finish, Comparing!Leave
    <3>2. IF ref.exit_code # 0 THEN exit' = ref.exit_code /\ dumped' = dumped
          ELSE \E export \in Exports(args, ref) : exit' = export.exit /\ dumped' = export.dumped
      BY <2>4, <2>9 DEF Comparing!Finish, Comparing!Leave, Comparing!ExitCode
    <3>3. Startable(args)
      BY <1>2, <2>1, <3>1 DEF CompareRunInv
    <3>4. /\ ReferenceContext = AtLimit(ref) /\ ReferenceContext' = AtLimit(ref)
          /\ ReferencePhase = "run" /\ ReferencePhase' = "done"
      BY <2>2, <2>3, <3>1, <3>3
    <3>5. /\ AtLimit(ref).terminated /\ AtLimit(ref).exit_code = ref.exit_code
          /\ Exports(args, AtLimit(ref)) = Exports(args, ref)
      BY <2>4, AtLimitSound
    <3>6. QED BY <2>2, <2>3, <3>2, <3>4, <3>5 DEF Reference!Finish, Reference!Leave, Reference!Next
  <2>10. QED BY <1>1, <2>5, <2>6, <2>7, <2>8, <2>9 DEF Comparing!Next
<1>8. QED BY <1>6, <1>7

(* A limit of zero changes nothing but the limit.                            *)
LEMMA UnlimitedSame ==
  ASSUME NEW a, Fit(a)
  PROVE  LET b == Unlimited(a)
         IN  /\ HasProgram(b) <=> HasProgram(a)
             /\ Startable(b) <=> Startable(a)
             /\ ImageOf(b) = ImageOf(a) /\ b.stop_pc = a.stop_pc
             /\ b.disassembly_only = a.disassembly_only
             /\ \A c : Exports(b, c) = Exports(a, c)
             /\ a.enable_reference => b = a
             /\ ~a.enable_reference => b.max_cycles = 0
<1> DEFINE b == Unlimited(a)
<1>1. /\ b.program_path = a.program_path /\ b.raw_base_address = a.raw_base_address
      /\ b.enable_disassembly = a.enable_disassembly /\ b.disassembly_only = a.disassembly_only
      /\ b.stop_pc = a.stop_pc /\ b.result_dump_path = a.result_dump_path
      /\ b.result_address = a.result_address /\ b.result_size = a.result_size
  BY DEF Unlimited
<1>2. /\ a.enable_reference => b = a
      /\ ~a.enable_reference => b.max_cycles = 0
  BY DEF Unlimited, Fit, ArgsTyped, Parser!Defaults
<1> HIDE DEF b
<1>3. (HasProgram(b) <=> HasProgram(a)) /\ (Startable(b) <=> Startable(a))
  BY <1>1 DEF HasProgram, Startable, Loadable
<1>4. ImageOf(b) = ImageOf(a)
  BY <1>1, Zenon DEF ImageOf
<1>5. \A c : Exports(b, c) = Exports(a, c)
  BY <1>1, Zenon DEF Exports
<1>6. QED BY <1>1, <1>2, <1>3, <1>4, <1>5 DEF b

LEMMA SimMainImplements ==
  ASSUME CliInv, CliInv', RunSimMain
  PROVE  Reference!Next \/ Stands
<1> DEFINE b == Unlimited(args)
<1>1. Run("ca") /\ CaEngine!Next /\ verdict' = verdict
  BY DEF RunSimMain
<1>2. SimMainInv(args, ca, cycle, phase, exit, dumped) /\ Fit(args)
  BY <1>1, AcceptedFits DEF CliInv, EnginesInv, Run
<1>3. args' = args
  BY <1>1, <1>2, SimMainStep
<1>4. Run("ca")'
  BY <1>1, <1>3 DEF Run
<1>5. Follows' <=> Follows
  <2>1. Follows' <=> /\ ~(args'.disassembly_only /\ args'.result_dump_path # "")
                     /\ ~(args'.enable_reference /\ args'.max_cycles = 0)
    <3>1. CliInv' /\ Run("ca")' => (Follows' <=> (/\ ~(args.disassembly_only /\ args.result_dump_path # "")
                                                  /\ ~(args.enable_reference /\ args.max_cycles = 0))')
      BY SimMainSeen, PTL
    <3>2. QED BY <1>4, <3>1
  <2>2. QED BY <1>1, <1>3, <2>1, SimMainSeen
<1>6. CASE ~Follows
  BY <1>5, <1>6, IdleSeen, IdleSeenNext DEF Stands, Seen
<1>7. CASE Follows
  <2>1. /\ args.disassembly_only => args.result_dump_path = ""
        /\ args.enable_reference => args.max_cycles # 0
    BY <1>1, <1>7, SimMainSeen
  <2>2. /\ ReferenceArgs = b
        /\ ReferenceContext = IF phase = "left" /\ args.disassembly_only THEN NewContext
             ELSE IF phase \in {"left", "done"} /\ ~args.disassembly_only /\ Startable(args) THEN AtLimit(ca) ELSE ca
        /\ ReferencePhase = IF phase = "left" /\ args.disassembly_only THEN "start"
             ELSE IF phase \in {"tests", "left"} THEN "run" ELSE phase
        /\ ReferenceExit = IF phase = "done" /\ ca.exit_code # 0 THEN ca.exit_code ELSE exit
        /\ ReferenceDumped = IF phase = "done" /\ ca.exit_code # 0 THEN << >> ELSE dumped
    BY <1>1, <1>7, SimMainSeen DEF Seen
  <2>3. /\ ReferenceArgs' = b
        /\ ReferenceContext' = IF phase' = "left" /\ args.disassembly_only THEN NewContext
             ELSE IF phase' \in {"left", "done"} /\ ~args.disassembly_only /\ Startable(args) THEN AtLimit(ca') ELSE ca'
        /\ ReferencePhase' = IF phase' = "left" /\ args.disassembly_only THEN "start"
             ELSE IF phase' \in {"tests", "left"} THEN "run" ELSE phase'
        /\ ReferenceExit' = IF phase' = "done" /\ ca'.exit_code # 0 THEN ca'.exit_code ELSE exit'
        /\ ReferenceDumped' = IF phase' = "done" /\ ca'.exit_code # 0 THEN << >> ELSE dumped'
    <3> DEFINE S == Seen(Unlimited(args),
                       IF phase = "left" /\ args.disassembly_only THEN NewContext
                       ELSE IF phase \in {"left", "done"} /\ ~args.disassembly_only /\ Startable(args) THEN AtLimit(ca)
                       ELSE ca,
                       IF phase = "left" /\ args.disassembly_only THEN "start"
                       ELSE IF phase \in {"tests", "left"} THEN "run" ELSE phase,
                       IF phase = "done" /\ ca.exit_code # 0 THEN ca.exit_code ELSE exit,
                       IF phase = "done" /\ ca.exit_code # 0 THEN << >> ELSE dumped)
    <3>1. CliInv' /\ Run("ca")' /\ Follows' => S'
      BY SimMainSeen, PTL
    <3>2. QED BY <1>3, <1>4, <1>5, <1>7, <3>1 DEF Seen
  <2>4. /\ Sound(ca) /\ (phase # "done" => exit = None /\ dumped = << >>)
    BY <1>2 DEF SimMainInv
  <2>5. /\ HasProgram(b) <=> HasProgram(args)
        /\ Startable(b) <=> Startable(args)
        /\ ImageOf(b) = ImageOf(args) /\ b.stop_pc = args.stop_pc
        /\ b.disassembly_only = args.disassembly_only
        /\ \A c : Exports(b, c) = Exports(args, c)
        /\ args.enable_reference => b = args
        /\ ~args.enable_reference => b.max_cycles = 0
    BY <1>2, UnlimitedSame
  <2>6. \A n \in Nat : args.enable_reference \/ LimitReached(b, n)
    BY <2>5 DEF LimitReached, None
  <2> HIDE DEF b
  <2>7. CASE CaEngine!Start
    <3>1. /\ phase = "start" /\ Startable(args) /\ ca = NewContext /\ exit' = None /\ dumped' = << >>
          /\ exit = None /\ dumped = << >>
      BY <2>4, <2>7, <1>2 DEF CaEngine!Start, SimMainInv
    <3>2. CASE args.disassembly_only
      <4>1. phase' = "left"
        BY <2>7, <3>2 DEF CaEngine!Start
      <4>2. QED BY <2>2, <2>3, <3>1, <3>2, <4>1 DEF Stands
    <3>3. CASE ~args.disassembly_only
      <4>1. phase' = "run" /\ ca' = ResetContext(First(args))
        BY <2>7, <3>1, <3>3 DEF CaEngine!Start, CaEngine!Loaded, First
      <4>2. ca' = First(args)
        BY <1>2, <3>1, <4>1, FirstSound
      <4>3. ReferenceContext' = First(args) /\ ReferencePhase' = "run" /\ ReferenceExit' = None /\ ReferenceDumped' = << >>
        BY <2>3, <3>1, <4>1, <4>2
      <4>4. ReferenceContext = NewContext /\ ReferencePhase = "start" /\ ReferenceExit = None /\ ReferenceDumped = << >>
        BY <2>2, <3>1
      <4>5. QED BY <2>2, <2>3, <2>5, <3>1, <3>3, <4>3, <4>4 DEF First, Reference!Start, Reference!Next
    <3>4. QED BY <3>2, <3>3
  <2>8. CASE CaEngine!Abort
    <3>1. /\ phase = "start" /\ ~Startable(args) /\ phase' = "done" /\ exit' = Aborted /\ ca' = ca /\ ca = NewContext
          /\ dumped' = dumped
      BY <1>2, <2>8 DEF CaEngine!Abort, SimMainInv
    <3>2. ca.exit_code = 0
      BY <3>1, NewSound DEF AtStart
    <3>3. QED BY <2>2, <2>3, <2>5, <3>1, <3>2 DEF Reference!Abort, Reference!Leave, Reference!Next
  <2>9. CASE CaEngine!Turn
    <3>1. /\ phase = "run" /\ phase' = "tests" /\ exit' = exit /\ dumped' = dumped
          /\ ca' = IF args.enable_reference THEN Step(ca, args.stop_pc) ELSE ca
      BY <2>9 DEF CaEngine!Turn
    <3>2. /\ ~ca.terminated /\ (cycle = 0 \/ ~LimitReached(args, cycle)) /\ cycle \in Nat
          /\ args.enable_reference => ca.cycle = cycle
      BY <1>2, <3>1 DEF SimMainInv
    <3>3. /\ ReferenceContext = ca /\ ReferenceContext' = ca' /\ ReferencePhase = "run" /\ ReferencePhase' = "run"
          /\ ReferenceExit' = ReferenceExit /\ ReferenceDumped' = ReferenceDumped /\ ReferenceArgs' = ReferenceArgs
      BY <2>2, <2>3, <3>1
    <3>4. CASE ~args.enable_reference
      BY <3>1, <3>3, <3>4 DEF Stands
    <3>5. CASE args.enable_reference
      <4>1. args.max_cycles \in Word \cup {None} /\ \A n \in Word : n >= 0
        BY <1>2, Sizes DEF Fit, ArgsTyped, Word
      <4>2. ~LimitReached(args, ca.cycle)
        <5>1. args.max_cycles # 0
          BY <2>1, <3>5
        <5>2. CASE cycle = 0
          BY <3>2, <3>5, <4>1, <5>1, <5>2, Sizes DEF LimitReached, Word
        <5>3. QED BY <3>2, <3>5, <5>2
      <4>3. b = args
        BY <2>5, <3>5
      <4>4. QED BY <2>2, <3>1, <3>2, <3>3, <3>5, <4>2, <4>3 DEF Reference!Attempt, Reference!Next
    <3>6. QED BY <3>4, <3>5
  <2>10. CASE CaEngine!Tests
    <3>1. /\ phase = "tests" /\ ca' = ca /\ exit' = exit /\ dumped' = dumped
          /\ phase' = IF ca.terminated \/ LimitReached(args, cycle) THEN "left" ELSE "run"
      BY <2>10 DEF CaEngine!Tests
    <3>2. /\ Startable(args) /\ ~args.disassembly_only
          /\ args.enable_reference /\ ~ca.terminated => ca.cycle = cycle
      BY <1>2, <3>1 DEF SimMainInv
    <3>3. /\ ReferenceContext = ca /\ ReferenceContext' = IF phase' = "left" THEN AtLimit(ca) ELSE ca
          /\ ReferencePhase = "run" /\ ReferencePhase' = "run"
          /\ ReferenceExit' = ReferenceExit /\ ReferenceDumped' = ReferenceDumped /\ ReferenceArgs' = ReferenceArgs
      BY <2>2, <2>3, <3>1, <3>2
    <3>4. CASE phase' # "left" \/ ca.terminated
      BY <3>3, <3>4 DEF Stands, AtLimit
    <3>5. CASE phase' = "left" /\ ~ca.terminated
      <4>1. LimitReached(args, cycle)
        BY <3>1, <3>5
      <4>2. ca.cycle \in Nat
        BY <2>4 DEF Sound, Contexts
      <4>3. LimitReached(b, ca.cycle)
        BY <2>5, <2>6, <3>2, <3>5, <4>1, <4>2
      <4>4. ReferenceContext' = RequestTerminate(ca, ca.exit_code, "max_cycles")
        BY <3>3, <3>5 DEF AtLimit
      <4>5. QED BY <2>2, <3>3, <3>5, <4>3, <4>4 DEF Reference!HitLimit, Reference!Next
    <3>6. QED BY <3>4, <3>5
  <2>11. CASE CaEngine!Finish
    <3>1. /\ phase = "left" /\ phase' = "done" /\ ca' = ca /\ exit = None /\ dumped = << >>
          /\ \E export \in Exports(args, ca) : exit' = export.exit /\ dumped' = export.dumped
      BY <2>4, <2>11 DEF CaEngine!Finish
    <3>2. Startable(args) /\ (args.disassembly_only => ca = First(args))
      BY <1>2, <3>1 DEF SimMainInv
    <3>3. CASE args.disassembly_only
      <4>1. ca.exit_code = 0
        BY <1>2, <3>2, <3>3, FirstSound DEF AtStart
      <4>2. exit' = 0 /\ dumped' = << >>
        <5>1. Exports(args, ca) = { [exit |-> 0, dumped |-> << >>] }
          BY <2>1, <3>3 DEF Exports
        <5>2. QED BY <3>1, <5>1
      <4>3. ReferenceContext' = First(args) /\ ReferencePhase' = "done" /\ ReferenceExit' = 0 /\ ReferenceDumped' = << >>
        BY <2>3, <3>1, <3>2, <3>3, <4>1, <4>2
      <4>4. ReferenceContext = NewContext /\ ReferencePhase = "start" /\ ReferenceExit = None /\ ReferenceDumped = << >>
        BY <2>2, <3>1, <3>3
      <4>5. QED BY <2>2, <2>3, <2>5, <3>2, <3>3, <4>3, <4>4 DEF First, Reference!Start, Reference!Leave, Reference!Next
    <3>4. CASE ~args.disassembly_only
      <4>1. /\ ReferenceContext = AtLimit(ca) /\ ReferenceContext' = AtLimit(ca)
            /\ ReferencePhase = "run" /\ ReferencePhase' = "done" /\ ReferenceDumped = << >>
        BY <2>2, <2>3, <3>1, <3>2, <3>4
      <4>2. /\ AtLimit(ca).terminated /\ AtLimit(ca).exit_code = ca.exit_code
            /\ Exports(b, AtLimit(ca)) = Exports(args, ca)
        BY <2>4, <2>5, AtLimitSound
      <4>3. CASE ca.exit_code # 0
        <5>1. ReferenceExit' = ca.exit_code /\ ReferenceDumped' = << >>
          BY <2>3, <3>1, <4>3
        <5>2. QED BY <2>2, <2>3, <4>1, <4>2, <4>3, <5>1 DEF Reference!Finish, Reference!Leave, Reference!Next
      <4>4. CASE ca.exit_code = 0
        <5>1. ReferenceExit' = exit' /\ ReferenceDumped' = dumped'
          BY <2>3, <3>1, <4>4
        <5>2. \E export \in Exports(ReferenceArgs, ReferenceContext) :
                ReferenceExit' = export.exit /\ ReferenceDumped' = export.dumped
          BY <2>2, <3>1, <4>1, <4>2, <5>1
        <5>3. QED BY <2>2, <2>3, <4>1, <4>2, <4>4, <5>2 DEF Reference!Finish, Reference!Next
      <4>5. QED BY <4>3, <4>4
    <3>5. QED BY <3>3, <3>4
  <2>12. QED BY <1>1, <2>7, <2>8, <2>9, <2>10, <2>11 DEF CaEngine!Next
<1>8. QED BY <1>6, <1>7

LEMMA CliStepImplements ==
  CliInv /\ CliInv' /\ [Next]_vars => [Reference!Called \/ Reference!Next]_(Reference!vars)
<1> SUFFICES ASSUME CliInv, CliInv', [Next]_vars
             PROVE  Reference!Called \/ Reference!Next \/ Stands
  BY DEF Stands, Reference!vars
<1>1. CASE Parse
  BY <1>1, ParseImplements
<1>2. CASE NotAccepted
  <2>1. verdict # "accepted" /\ verdict' # "accepted"
    BY <1>2 DEF NotAccepted, parser
  <2>2. ~Follows /\ ~Follows'
    BY <2>1 DEF Follows, Engine
  <2>3. QED BY <2>2, IdleSeen, IdleSeenNext DEF Stands, Seen
<1>3. CASE RunReferenceEngine
  BY <1>3, RefImplements
<1>4. CASE RunCompareEngine
  BY <1>4, CompareImplements
<1>5. CASE RunSimMain
  BY <1>5, SimMainImplements
<1>6. CASE UNCHANGED vars
  <2>1. args' = args /\ verdict' = verdict /\ ref' = ref /\ ca' = ca /\ phase' = phase /\ exit' = exit /\ dumped' = dumped
    BY <1>6 DEF vars, parser, execution
  <2>2. Engine' = Engine /\ Context' = Context /\ (Listed' <=> Listed) /\ (LoopEnded' <=> LoopEnded)
        /\ (Failed' <=> Failed) /\ (Follows' <=> Follows)
    <3>1. Engine' = Engine
      BY <2>1 DEF Engine
    <3>2. QED BY <2>1, <3>1 DEF Context, Listed, LoopEnded, Failed, Follows, OwnWay
  <2>3. QED BY <2>1, <2>2
        DEF Stands, ReferenceArgs, ReferenceContext, ReferencePhase, ReferenceExit, ReferenceDumped
<1>7. QED BY <1>1, <1>2, <1>3, <1>4, <1>5, <1>6 DEF Next

-----------------------------------------------------------------------------
(***************************************************************************)
(* The command line: what is proved of it.                                 *)
(***************************************************************************)
(* An accepted command line means what it says, whatever options it repeats   *)
(* and whatever stands in a value's place (ParseSimMainArgs).                *)
THEOREM ArgumentsAreKept == Spec => []ArgumentsKept
<1>1. CliInv => ArgumentsKept
  BY KeptAtTheEnd DEF CliInv
<1>2. QED BY <1>1, CliInvHolds, PTL

(* The windows of CompareHarness are the last records of both traces until   *)
(* the loop ends, for every window and program (RunCompareEngine).            *)
THEOREM WindowsStayTails == Spec => []WindowsAreTails
BY TailsHold, CliInvHolds, PTL

(* main returns 0 under ref and compare exactly when the program succeeded   *)
(* and its result was exported whole (RunReferenceEngine, RunCompareEngine,   *)
(* WriteResultDump).                                                        *)
THEOREM ExitTellsTheOutcome == Spec => []ExitTellsOutcome
BY OutcomeTold, CliInvHolds, PTL

(* Whichever engine a command line names, it executes, returns and exports    *)
(* what RunReferenceEngine would: RunCompareEngine never reports a difference *)
(* and RunSimMain keeps the reference's clock, limit and exports.             *)
THEOREM EveryEngineImplements == Spec => ImplementsReference
<1>1. Init => Reference!Init
  <2> SUFFICES ASSUME Init PROVE Reference!Init
    OBVIOUS
  <2>1. ~Follows
    BY DEF Init, Parser!Init, Follows, Engine
  <2>2. QED BY <2>1, IdleSeen DEF Seen, Reference!Init
<1>2. QED BY <1>1, CliStepImplements, CliInvHolds, PTL DEF Spec, ImplementsReference, Reference!Spec
=============================================================================

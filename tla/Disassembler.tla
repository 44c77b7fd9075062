---------------------------- MODULE Disassembler ----------------------------
(***************************************************************************)
(* Two readers of instruction bytes: the disassembler (src/isa/disasm.cpp),  *)
(* which tries every length, and ReferenceExecutor::FetchDecode              *)
(* (src/emulator/reference_executor.cpp), which tells the length from the    *)
(* first byte.  A byte is the set of its one bits.                          *)
(***************************************************************************)
EXTENDS Codec, AddressSpace

ASSUME WholeBytesAssumption == Lengths \subseteq {16, 32, 48, 64}
ASSUME TableAssumption == IsFiniteSet(Forms)

(***************************************************************************)
(* PackLittleEndian: the word of the first size bytes.                       *)
(***************************************************************************)
PackLittleEndian(bytes, size) ==
  { b \in BitMask(8 * size) : b % 8 \in bytes[b \div 8 + 1] }

(***************************************************************************)
(* DecodeBest: of the lengths at which the bytes decode, the one whose form  *)
(* has the most fixed bits, the shorter of two equal ones.                   *)
(***************************************************************************)
DecodedAt(bytes, length) ==
  LET word == PackLittleEndian(bytes, length \div 8)
  IN  IF 8 * Len(bytes) >= length /\ DecodeStatus(word, length) = "Ok"
        THEN ValidMatches(word, length) ELSE {}

DecodeBest(bytes) ==
  LET candidates == UNION { DecodedAt(bytes, length) : length \in Lengths }
  IN  IF candidates = {} THEN NoForm
      ELSE CHOOSE f \in candidates : \A g \in candidates :
             \/ g.fixed_bits < f.fixed_bits
             \/ g.fixed_bits = f.fixed_bits /\ f.length <= g.length

(***************************************************************************)
(* DecodeDisassemblyLine of at least one byte: where nothing decodes, the    *)
(* line is that one byte (".byte").                                         *)
(***************************************************************************)
\* Mutant: a halfword is skipped.
LineSkips(bytes, pc) ==
  LET form == DecodeBest(bytes)
  IN  [pc |-> pc, form |-> form, size_bytes |-> IF form = NoForm THEN 2 ELSE form.length \div 8]

LineAt(bytes, pc) ==
  LET form == DecodeBest(bytes)
  IN  [pc |-> pc, form |-> form, size_bytes |-> IF form = NoForm THEN 1 ELSE form.length \div 8]

-----------------------------------------------------------------------------
(***************************************************************************)
(* FetchDecode over a memory of bytes: Read16 at pc, then Read8 of each byte.  *)
(***************************************************************************)
\* Mutant: the form of 48 bits is forgotten.
FetchLengthOf32(low) == IF 0 \notin low THEN 2 ELSE IF 0..3 \subseteq low THEN 8 ELSE 4

FetchLength(low) ==
  IF 0 \notin low THEN IF low \cap 0..3 = {1, 2, 3} THEN 6 ELSE 2
                  ELSE IF 0..3 \subseteq low        THEN 8 ELSE 4

FetchDecode(memory, pc) ==
  LET len  == FetchLength(memory[pc])
      word == PackLittleEndian([i \in 1..len |-> memory[Wrap(pc + i - 1)]], len)
  IN  IF /\ {pc, Wrap(pc + 1)} \subseteq DOMAIN memory
         /\ { Wrap(pc + i) : i \in 0..(len - 1) } \subseteq DOMAIN memory
         /\ DecodeStatus(word, 8 * len) = "Ok"
        THEN CHOOSE f \in ValidMatches(word, 8 * len) : TRUE
        ELSE NoForm

-----------------------------------------------------------------------------
(***************************************************************************)
(* What is true of the generated table: the fixed bits in the first byte of  *)
(* a form tell its length, but for HL.BSTART CALL.  Its 48 bits begin with   *)
(* those of BSTART, which is alone at its length and takes any value.        *)
(***************************************************************************)
FirstBytes(length) ==
  { low \in SUBSET (0..7) :
      /\ length = 16 => 0 \notin low /\ low \cap 0..3 # {1, 2, 3}
      /\ length = 32 => 0 \in low /\ low \cap 0..3 # 0..3
      /\ length = 48 => low \cap 0..3 = {1, 2, 3}
      /\ length = 64 => low \cap 0..3 = 0..3 }

TellsLength(form) ==
  \A low \in SUBSET (0..7) :
    low \cap form.mask = form.match \cap 0..7 => low \in FirstBytes(form.length)

Shadows(form, g) ==
  /\ TellsLength(g) /\ g.length < form.length
  /\ g.mask \subseteq form.mask /\ g.match = form.match \cap g.mask
  /\ g.constraints = << >>
  /\ \A h \in Forms : h.length = g.length /\ FixedAgree(g, h) => h = g

ASSUME FirstByteAssumption ==
  \A form \in Forms :
    \/ TellsLength(form)
    \/ /\ form.mnemonic = "HL.BSTART CALL"
       /\ \E g \in Forms : g.mnemonic = "BSTART" /\ Shadows(form, g)
=============================================================================

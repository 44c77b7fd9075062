------------------------------ MODULE MCMinst ------------------------------
(***************************************************************************)
(* Minst for TLC: a table with the shapes the generated one has, over words  *)
(* of 4 and 6 bits.  "mov" and "ret" overlap as ADDTPC and SETRET do; the    *)
(* offset of "branch" is signed, split across the halves and has an implied  *)
(* zero, as that of HL.BSTART.                                              *)
(***************************************************************************)
EXTENDS Minst

Piece(insn_lsb, width, value_lsb) ==
  [insn_lsb |-> insn_lsb, width |-> width, value_lsb |-> value_lsb]
Field(name, signed, width, pieces) ==
  [name |-> name, signed |-> signed, width |-> width, pieces |-> pieces]
Form(mnemonic, length, mask, match, fields, constraints, big_kind, group) ==
  [mnemonic |-> mnemonic, length |-> length, fixed_bits |-> Cardinality(mask), mask |-> mask,
   match |-> match, fields |-> fields, constraints |-> constraints,
   big_kind |-> big_kind, group |-> group]

MCForms ==
  { Form("mov", 4, {0}, {},
         << Field("RegDst", FALSE, 1, {Piece(1, 1, 0)}), Field("imm", TRUE, 2, {Piece(2, 2, 0)}) >>,
         << [field |-> "RegDst", op |-> "Ne", value |-> 1],
            [field |-> "imm", op |-> "Ne", value |-> -2] >>, "ALU", ""),
    Form("ret", 4, {0, 1}, {1}, << Field("uimm", FALSE, 2, {Piece(2, 2, 0)}) >>, << >>, "SYS", ""),
    Form("branch", 6, {0}, {0}, << Field("simm", TRUE, 6, {Piece(1, 2, 4), Piece(3, 3, 1)}) >>,
         << >>, "BRU", ""),
    Form("load", 6, {0, 1}, {},
         << Field("SrcL", FALSE, 1, {Piece(2, 1, 0)}), Field("RegDst", FALSE, 1, {Piece(3, 1, 0)}),
            Field("shamt", FALSE, 2, {Piece(4, 2, 0)}) >>, << >>, "AGU", "LDA") }

\* For "mov" (both constraints met, either broken), "ret", "branch" and "load";
\* the last has bits above its length.
MCWords  == { {}, {1}, {3}, {0, 1, 2}, {0}, {2, 3}, {0, 1, 5} }
MCHalves == { {}, {0, 2} }
MCValues == {-3, -1, 1, 2}
=============================================================================

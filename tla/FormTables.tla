---------------------------- MODULE FormTables ----------------------------
(***************************************************************************)
(* The generated tables of src/isa/generated_tables.cpp, row by row: what    *)
(* DecodeMinst, EncodeMinst, the disassembler and the executor look forms up *)
(* in.  A row keeps the columns some property can tell apart; the uid, the   *)
(* assembly template and the text of a constraint are left out.  Starts      *)
(* count from 0, as in the source.                                          *)
(***************************************************************************)
EXTENDS Integers, Sequences

(***************************************************************************)
(* insn_lsb, width, value_lsb                                                *)
(***************************************************************************)
kFieldPieces_1 ==
  <<
    <<20,4,0>>, <<20,4,0>>, <<7,5,0>>, <<15,5,0>>, <<20,5,0>>, <<25,2,0>>, <<27,5,0>>, <<7,5,0>>,
    <<15,5,0>>, <<20,12,0>>, <<7,5,0>>, <<15,5,0>>, <<20,12,0>>, <<7,5,0>>, <<12,20,0>>, <<7,5,0>>,
    <<15,5,0>>, <<20,5,0>>, <<25,2,0>>, <<27,5,0>>, <<7,5,0>>, <<15,5,0>>, <<20,5,0>>, <<25,2,0>>,
    <<27,5,0>>, <<7,5,0>>, <<15,5,0>>, <<20,12,0>>, <<7,5,0>>, <<15,5,0>>, <<20,12,0>>, <<7,5,0>>,
    <<15,5,0>>, <<20,5,0>>, <<25,2,0>>, <<27,5,0>>, <<15,5,0>>, <<31,1,0>>, <<11,1,0>>, <<15,5,0>>,
    <<7,4,0>>, <<20,11,0>>, <<26,1,0>>, <<16,1,0>>, <<17,1,0>>, <<18,1,0>>, <<15,1,0>>, <<19,1,0>>,
    <<29,3,0>>, <<25,1,0>>, <<20,5,0>>, <<7,5,0>>, <<27,2,0>>, <<14,1,0>>, <<15,3,0>>, <<26,1,0>>,
    <<13,1,0>>, <<15,5,0>>, <<20,12,0>>, <<7,5,12>>, <<15,5,0>>, <<20,12,0>>, <<7,5,12>>,
    <<15,5,0>>, <<20,12,0>>, <<7,5,12>>, <<9,1,0>>, <<17,1,0>>, <<19,4,0>>, <<15,1,0>>, <<26,6,0>>,
    <<23,3,0>>, <<18,1,0>>, <<16,1,0>>, <<7,1,0>>, <<8,1,0>>, <<15,1,0>>, <<16,1,0>>, <<15,1,0>>,
    <<20,12,0>>, <<17,2,0>>, <<26,1,0>>, <<7,5,0>>, <<15,5,0>>, <<20,5,0>>, <<27,5,0>>, <<9,3,0>>,
    <<20,6,0>>, <<15,4,0>>, <<9,3,0>>, <<20,6,0>>, <<19,1,0>>, <<9,3,0>>, <<20,6,0>>, <<26,6,0>>,
    <<19,1,0>>, <<9,3,0>>, <<20,6,0>>, <<26,6,0>>, <<19,1,0>>, <<9,3,0>>, <<20,6,0>>, <<26,6,0>>,
    <<7,2,0>>, <<19,1,0>>, <<9,3,0>>, <<15,4,0>>, <<20,6,0>>, <<7,2,0>>, <<19,1,0>>, <<9,3,0>>,
    <<15,4,0>>, <<20,6,0>>, <<7,2,0>>, <<19,1,0>>, <<9,3,0>>, <<15,4,0>>, <<20,6,0>>, <<26,6,0>>,
    <<7,2,0>>, <<19,1,0>>, <<9,3,0>>, <<15,4,0>>, <<20,6,0>>, <<26,6,0>>, <<7,2,0>>, <<19,1,0>>,
    <<9,3,0>>, <<15,4,0>>, <<7,2,0>>, <<19,1,0>>, <<9,3,0>>, <<15,4,0>>, <<20,6,0>>, <<26,6,0>>,
    <<19,1,0>>, <<9,3,0>>, <<20,6,0>>, <<26,6,0>>, <<7,2,0>>, <<19,1,0>>, <<9,3,0>>, <<15,4,0>>,
    <<20,6,0>>, <<26,6,0>>, <<19,1,0>>, <<9,3,0>>, <<20,6,0>>, <<19,1,0>>, <<9,3,0>>, <<20,6,0>>,
    <<15,5,0>>, <<31,1,0>>, <<7,4,0>>, <<20,11,0>>, <<7,25,0>>, <<15,5,0>>, <<7,5,0>>, <<15,5,0>>,
    <<20,6,0>>, <<26,6,0>>, <<7,5,0>>, <<15,5,0>>, <<20,6,0>>, <<26,6,0>>, <<7,5,0>>, <<15,5,0>>,
    <<20,6,0>>, <<26,6,0>>, <<15,5,0>>, <<7,25,0>>, <<7,25,0>>, <<15,17,0>>, <<15,17,0>>,
    <<15,17,0>>, <<27,5,0>>, <<22,5,0>>, <<27,5,0>>, <<27,5,0>>, <<27,5,0>>, <<27,5,0>>, <<27,5,0>>,
    <<27,5,0>>, <<27,5,0>>, <<27,5,0>>, <<27,5,0>>, <<27,5,0>>, <<27,5,0>>, <<27,5,0>>, <<25,2,0>>,
    <<27,5,0>>, <<27,5,0>>, <<27,5,0>>, <<27,5,0>>, <<27,5,0>>, <<27,5,0>>, <<27,5,0>>, <<27,5,0>>,
    <<27,5,0>>, <<27,5,0>>, <<27,5,0>>, <<25,2,0>>, <<15,17,0>>, <<15,17,0>>, <<15,17,0>>,
    <<27,5,0>>, <<20,5,0>>, <<25,2,0>>, <<27,5,0>>, <<27,5,0>>, <<27,5,0>>, <<27,5,0>>, <<27,5,0>>,
    <<27,5,0>>, <<27,5,0>>, <<27,5,0>>, <<27,5,0>>, <<27,5,0>>, <<27,5,0>>, <<27,5,0>>, <<27,5,0>>,
    <<27,5,0>>, <<27,5,0>>, <<27,5,0>>, <<27,5,0>>, <<25,2,0>>, <<25,2,0>>, <<15,5,0>>, <<15,5,0>>,
    <<15,5,0>>, <<7,5,0>>, <<15,5,0>>, <<20,6,0>>, <<26,6,0>>, <<7,5,0>>, <<15,5,0>>, <<20,6,0>>,
    <<26,6,0>>, <<6,5,0>>, <<11,5,0>>, <<6,5,0>>, <<11,5,0>>, <<6,5,0>>, <<11,5,0>>, <<14,2,0>>,
    <<6,8,0>>, <<4,12,0>>, <<4,12,0>>, <<11,3,0>>, <<11,3,0>>, <<6,5,0>>, <<6,5,0>>, <<6,5,0>>,
    <<6,5,0>>, <<11,5,0>>, <<6,5,0>>, <<11,5,0>>, <<11,5,0>>, <<6,5,0>>, <<11,5,0>>, <<6,5,0>>,
    <<6,5,0>>, <<11,5,0>>, <<6,5,0>>, <<11,5,0>>, <<6,5,0>>, <<11,5,0>>, <<6,5,0>>, <<11,5,0>>,
    <<6,5,0>>, <<6,5,0>>, <<6,5,0>>, <<6,5,0>>, <<6,5,0>>, <<6,5,0>>, <<6,5,0>>, <<6,5,0>>,
    <<6,5,0>>, <<11,5,0>>, <<6,5,0>>, <<11,5,0>>, <<6,5,0>>, <<6,5,0>>, <<6,5,0>>, <<7,5,0>>,
    <<27,5,0>>, <<15,5,0>>, <<20,5,0>>, <<26,1,0>>, <<25,1,0>>, <<7,5,0>>, <<27,5,0>>, <<15,5,0>>,
    <<20,5,0>>, <<26,1,0>>, <<25,1,0>>, <<7,5,0>>, <<27,5,0>>, <<15,5,0>>, <<20,5,0>> >>

kFieldPieces_2 ==
  <<
    <<26,1,0>>, <<25,1,0>>, <<7,5,0>>, <<27,5,0>>, <<15,5,0>>, <<20,5,0>>, <<26,1,0>>, <<25,1,0>>,
    <<7,5,0>>, <<15,5,0>>, <<20,6,0>>, <<26,6,0>>, <<7,5,0>>, <<15,5,0>>, <<20,5,0>>, <<25,2,0>>,
    <<7,5,0>>, <<15,5,0>>, <<20,12,0>>, <<7,5,0>>, <<15,5,0>>, <<20,5,0>>, <<25,2,0>>, <<7,5,0>>,
    <<15,5,0>>, <<20,12,0>>, <<7,5,0>>, <<15,5,0>>, <<20,5,0>>, <<25,2,0>>, <<7,5,0>>, <<15,5,0>>,
    <<20,12,0>>, <<7,5,0>>, <<15,5,0>>, <<20,5,0>>, <<25,2,0>>, <<7,5,0>>, <<15,5,0>>, <<20,12,0>>,
    <<7,5,0>>, <<15,5,0>>, <<20,5,0>>, <<25,2,0>>, <<7,5,0>>, <<15,5,0>>, <<20,12,0>>, <<7,5,0>>,
    <<15,5,0>>, <<20,5,0>>, <<25,2,0>>, <<7,5,0>>, <<15,5,0>>, <<20,12,0>>, <<7,5,0>>, <<15,5,0>>,
    <<20,5,0>>, <<25,2,0>>, <<7,5,0>>, <<15,5,0>>, <<20,12,0>>, <<7,5,0>>, <<15,5,0>>, <<20,5,0>>,
    <<25,2,0>>, <<7,5,0>>, <<15,5,0>>, <<20,12,0>>, <<7,5,0>>, <<15,5,0>>, <<27,5,0>>, <<20,5,0>>,
    <<25,2,0>>, <<7,5,0>>, <<15,5,0>>, <<20,6,0>>, <<26,6,0>>, <<15,5,0>>, <<15,5,0>>, <<15,5,0>>,
    <<15,5,0>>, <<15,5,0>>, <<15,5,0>>, <<15,5,0>>, <<7,5,0>>, <<15,5,0>>, <<20,5,0>>, <<7,5,0>>,
    <<15,5,0>>, <<20,5,0>>, <<7,5,0>>, <<15,5,0>>, <<20,5,0>>, <<7,5,0>>, <<15,5,0>>, <<20,5,0>>,
    <<15,5,0>>, <<20,5,0>>, <<15,5,0>>, <<15,5,0>>, <<24,4,0>>, <<15,5,0>>, <<20,5,0>>, <<27,5,0>>,
    <<15,5,0>>, <<20,5,0>>, <<27,5,0>>, <<7,5,0>>, <<15,5,0>>, <<25,2,0>>, <<7,5,0>>, <<15,5,0>>,
    <<20,5,0>>, <<25,2,0>>, <<27,5,0>>, <<7,5,0>>, <<15,5,0>>, <<25,2,0>>, <<27,5,0>>, <<7,5,0>>,
    <<15,5,0>>, <<25,2,0>>, <<27,5,0>>, <<7,5,0>>, <<15,5,0>>, <<25,2,0>>, <<27,5,0>>, <<7,5,0>>,
    <<15,5,0>>, <<25,2,0>>, <<27,5,0>>, <<7,5,0>>, <<15,5,0>>, <<25,2,0>>, <<27,5,0>>, <<7,5,0>>,
    <<15,5,0>>, <<25,2,0>>, <<7,5,0>>, <<15,5,0>>, <<20,5,0>>, <<25,2,0>>, <<24,4,0>>, <<20,4,0>>,
    <<15,5,0>>, <<20,5,0>>, <<25,7,0>>, <<7,5,7>>, <<7,5,0>>, <<15,5,0>>, <<20,5,0>>, <<25,2,0>>,
    <<7,5,0>>, <<15,5,0>>, <<20,5,0>>, <<25,2,0>>, <<15,5,0>>, <<20,5,0>>, <<25,7,0>>, <<7,5,7>>,
    <<7,5,0>>, <<15,5,0>>, <<25,2,0>>, <<7,5,0>>, <<15,5,0>>, <<20,5,0>>, <<25,2,0>>, <<7,5,0>>,
    <<15,5,0>>, <<20,5,0>>, <<25,2,0>>, <<7,5,0>>, <<15,5,0>>, <<20,5,0>>, <<25,2,0>>, <<7,5,0>>,
    <<15,5,0>>, <<20,5,0>>, <<25,2,0>>, <<7,5,0>>, <<27,5,0>>, <<15,5,0>>, <<20,5,0>>, <<25,2,0>>,
    <<7,5,0>>, <<15,5,0>>, <<20,5,0>>, <<25,2,0>>, <<7,5,0>>, <<15,5,0>>, <<20,5,0>>, <<25,2,0>>,
    <<7,5,0>>, <<27,5,0>>, <<15,5,0>>, <<20,5,0>>, <<25,2,0>>, <<7,5,0>>, <<15,5,0>>, <<20,5,0>>,
    <<25,2,0>>, <<7,5,0>>, <<15,5,0>>, <<20,5,0>>, <<25,2,0>>, <<7,5,0>>, <<15,5,0>>, <<20,5,0>>,
    <<25,2,0>>, <<7,5,0>>, <<27,5,0>>, <<15,5,0>>, <<20,5,0>>, <<25,2,0>>, <<7,5,0>>, <<27,5,0>>,
    <<15,5,0>>, <<20,5,0>>, <<25,2,0>>, <<7,5,0>>, <<15,5,0>>, <<25,2,0>>, <<15,5,0>>, <<20,5,0>>,
    <<25,7,0>>, <<7,5,7>>, <<20,5,0>>, <<25,7,0>>, <<7,5,7>>, <<7,5,0>>, <<15,5,0>>, <<25,2,0>>,
    <<7,5,0>>, <<15,5,0>>, <<20,5,0>>, <<25,2,0>>, <<23,5,0>>, <<31,5,0>>, <<36,12,0>>, <<4,12,12>>,
    <<23,5,0>>, <<31,5,0>>, <<36,12,0>>, <<4,12,12>>, <<23,5,0>>, <<28,20,0>>, <<4,12,20>>,
    <<23,5,0>>, <<31,5,0>>, <<36,12,0>>, <<4,12,12>>, <<23,5,0>>, <<31,5,0>>, <<36,12,0>>,
    <<4,12,12>>, <<23,5,0>>, <<31,5,0>>, <<36,5,0>>, <<4,6,0>>, <<10,6,0>>, <<7,25,0>>, <<38,5,0>>,
    <<31,17,1>>, <<4,12,18>>, <<31,17,1>>, <<4,12,18>>, <<31,17,1>>, <<4,12,18>>, <<31,17,1>>,
    <<4,12,18>>, <<31,17,1>>, <<4,12,18>>, <<31,17,1>>, <<4,12,18>>, <<31,17,1>>, <<4,12,18>>,
    <<31,17,1>>, <<4,12,18>>, <<31,17,1>>, <<4,12,18>>, <<23,5,0>>, <<6,5,0>>, <<31,5,0>>,
    <<36,5,0>>, <<42,1,0>>, <<43,1,0>>, <<41,1,0>>, <<23,5,0>>, <<6,5,0>>, <<31,5,0>>, <<36,5,0>>,
    <<42,1,0>>, <<43,1,0>>, <<41,1,0>>, <<23,5,0>>, <<6,5,0>>, <<31,5,0>>, <<36,5,0>>, <<42,1,0>>,
    <<43,1,0>> >>

kFieldPieces_3 ==
  <<
    <<41,1,0>>, <<23,5,0>>, <<6,5,0>>, <<31,5,0>>, <<36,5,0>>, <<42,1,0>>, <<43,1,0>>, <<41,1,0>>,
    <<23,5,0>>, <<11,5,0>>, <<31,5,0>>, <<36,5,0>>, <<41,7,0>>, <<23,5,0>>, <<11,5,0>>, <<31,5,0>>,
    <<36,5,0>>, <<41,7,0>>, <<23,5,0>>, <<31,5,0>>, <<36,12,0>>, <<4,12,12>>, <<23,5,0>>,
    <<31,5,0>>, <<36,12,0>>, <<4,12,12>>, <<23,5,0>>, <<31,5,0>>, <<36,12,0>>, <<4,12,12>>,
    <<23,5,0>>, <<31,5,0>>, <<36,12,0>>, <<4,12,12>>, <<23,5,0>>, <<31,5,0>>, <<36,12,0>>,
    <<4,12,12>>, <<23,5,0>>, <<31,5,0>>, <<36,12,0>>, <<4,12,12>>, <<23,5,0>>, <<31,5,0>>,
    <<36,12,0>>, <<4,12,12>>, <<23,5,0>>, <<31,5,0>>, <<36,12,0>>, <<4,12,12>>, <<23,5,0>>,
    <<11,5,0>>, <<31,5,0>>, <<36,5,0>>, <<23,5,0>>, <<11,5,0>>, <<31,5,0>>, <<36,5,0>>, <<23,5,0>>,
    <<11,5,0>>, <<31,5,0>>, <<36,5,0>>, <<23,5,0>>, <<11,5,0>>, <<31,5,0>>, <<36,5,0>>, <<23,5,0>>,
    <<31,17,0>>, <<4,12,17>>, <<23,5,0>>, <<11,5,0>>, <<31,5,0>>, <<36,5,0>>, <<41,2,0>>,
    <<43,5,0>>, <<23,5,0>>, <<11,5,0>>, <<31,5,0>>, <<36,5,0>>, <<41,2,0>>, <<43,5,0>>, <<23,5,0>>,
    <<31,5,0>>, <<36,12,0>>, <<6,10,12>>, <<23,5,0>>, <<11,5,0>>, <<31,5,0>>, <<36,12,0>>,
    <<6,5,12>>, <<23,5,0>>, <<11,5,0>>, <<31,5,0>>, <<36,12,0>>, <<6,5,12>>, <<23,5,0>>, <<11,5,0>>,
    <<31,5,0>>, <<36,12,0>>, <<6,5,12>>, <<23,5,0>>, <<11,5,0>>, <<31,5,0>>, <<36,5,0>>, <<41,2,0>>,
    <<43,5,0>>, <<23,5,0>>, <<31,17,0>>, <<4,12,17>>, <<23,5,0>>, <<11,5,0>>, <<31,5,0>>,
    <<36,5,0>>, <<41,2,0>>, <<43,5,0>>, <<23,5,0>>, <<11,5,0>>, <<31,5,0>>, <<36,5,0>>, <<41,2,0>>,
    <<43,5,0>>, <<23,5,0>>, <<31,5,0>>, <<36,12,0>>, <<6,10,12>>, <<23,5,0>>, <<11,5,0>>,
    <<31,5,0>>, <<36,12,0>>, <<6,5,12>>, <<23,5,0>>, <<11,5,0>>, <<31,5,0>>, <<36,12,0>>,
    <<6,5,12>>, <<23,5,0>>, <<11,5,0>>, <<31,5,0>>, <<36,12,0>>, <<6,5,12>>, <<23,5,0>>, <<11,5,0>>,
    <<31,5,0>>, <<36,5,0>>, <<41,2,0>>, <<43,5,0>>, <<23,5,0>>, <<31,17,0>>, <<4,12,17>>,
    <<23,5,0>>, <<11,5,0>>, <<31,5,0>>, <<36,5,0>>, <<41,2,0>>, <<43,5,0>>, <<23,5,0>>, <<11,5,0>>,
    <<31,5,0>>, <<36,5,0>>, <<41,2,0>>, <<43,5,0>>, <<23,5,0>>, <<31,5,0>>, <<36,12,0>>,
    <<6,10,12>>, <<23,5,0>>, <<11,5,0>>, <<31,5,0>>, <<36,12,0>>, <<6,5,12>>, <<23,5,0>>,
    <<11,5,0>>, <<31,5,0>>, <<36,12,0>>, <<6,5,12>>, <<23,5,0>>, <<31,5,0>>, <<36,12,0>>,
    <<6,10,12>>, <<23,5,0>>, <<11,5,0>>, <<31,5,0>>, <<36,12,0>>, <<6,5,12>>, <<23,5,0>>,
    <<11,5,0>>, <<31,5,0>>, <<36,12,0>>, <<6,5,12>>, <<23,5,0>>, <<11,5,0>>, <<31,5,0>>,
    <<36,12,0>>, <<6,5,12>>, <<23,5,0>>, <<11,5,0>>, <<31,5,0>>, <<36,12,0>>, <<6,5,12>>,
    <<23,5,0>>, <<11,5,0>>, <<31,5,0>>, <<36,5,0>>, <<41,2,0>>, <<43,5,0>>, <<23,5,0>>, <<31,17,0>>,
    <<4,12,17>>, <<23,5,0>>, <<11,5,0>>, <<31,5,0>>, <<36,5,0>>, <<41,2,0>>, <<43,5,0>>, <<23,5,0>>,
    <<11,5,0>>, <<31,5,0>>, <<36,5,0>>, <<41,2,0>>, <<43,5,0>>, <<23,5,0>>, <<31,5,0>>, <<36,12,0>>,
    <<6,10,12>>, <<23,5,0>>, <<11,5,0>>, <<31,5,0>>, <<36,12,0>>, <<6,5,12>>, <<23,5,0>>,
    <<11,5,0>>, <<31,5,0>>, <<36,12,0>>, <<6,5,12>>, <<23,5,0>>, <<31,5,0>>, <<36,12,0>>,
    <<6,10,12>>, <<23,5,0>>, <<11,5,0>>, <<31,5,0>>, <<36,12,0>>, <<6,5,12>>, <<23,5,0>>,
    <<11,5,0>>, <<31,5,0>>, <<36,12,0>>, <<6,5,12>>, <<23,5,0>>, <<11,5,0>>, <<31,5,0>>,
    <<36,12,0>>, <<6,5,12>>, <<23,5,0>>, <<11,5,0>>, <<31,5,0>>, <<36,12,0>>, <<6,5,12>>,
    <<23,5,0>>, <<11,5,0>>, <<31,5,0>>, <<36,5,0>>, <<41,2,0>>, <<43,5,0>>, <<23,5,0>>, <<31,17,0>>,
    <<4,12,17>>, <<23,5,0>>, <<11,5,0>>, <<31,5,0>>, <<36,5,0>>, <<41,2,0>>, <<43,5,0>>, <<23,5,0>>,
    <<11,5,0>>, <<31,5,0>>, <<36,5,0>>, <<41,2,0>>, <<43,5,0>>, <<23,5,0>>, <<31,5,0>>, <<36,12,0>>,
    <<6,10,12>>, <<23,5,0>>, <<11,5,0>>, <<31,5,0>>, <<36,12,0>>, <<6,5,12>>, <<23,5,0>>,
    <<11,5,0>>, <<31,5,0>>, <<36,12,0>>, <<6,5,12>>, <<23,5,0>>, <<31,5,0>>, <<36,12,0>>,
    <<6,10,12>>, <<23,5,0>>, <<11,5,0>>, <<31,5,0>> >>

kFieldPieces_4 ==
  <<
    <<36,12,0>>, <<6,5,12>>, <<23,5,0>>, <<11,5,0>>, <<31,5,0>>, <<36,12,0>>, <<6,5,12>>,
    <<23,5,0>>, <<11,5,0>>, <<31,5,0>>, <<36,12,0>>, <<6,5,12>>, <<23,5,0>>, <<11,5,0>>, <<31,5,0>>,
    <<36,12,0>>, <<6,5,12>>, <<23,5,0>>, <<11,5,0>>, <<31,5,0>>, <<36,5,0>>, <<41,2,0>>, <<43,5,0>>,
    <<23,5,0>>, <<28,20,0>>, <<4,12,20>>, <<23,5,0>>, <<28,20,0>>, <<4,12,20>>, <<23,5,0>>,
    <<28,20,0>>, <<4,12,20>>, <<23,5,0>>, <<31,17,0>>, <<4,12,17>>, <<23,5,0>>, <<11,5,0>>,
    <<31,5,0>>, <<36,5,0>>, <<41,2,0>>, <<43,5,0>>, <<23,5,0>>, <<11,5,0>>, <<31,5,0>>, <<36,5,0>>,
    <<41,2,0>>, <<43,5,0>>, <<23,5,0>>, <<31,5,0>>, <<36,12,0>>, <<6,10,12>>, <<23,5,0>>,
    <<11,5,0>>, <<31,5,0>>, <<36,12,0>>, <<6,5,12>>, <<23,5,0>>, <<11,5,0>>, <<31,5,0>>,
    <<36,12,0>>, <<6,5,12>>, <<23,5,0>>, <<31,5,0>>, <<36,12,0>>, <<6,10,12>>, <<23,5,0>>,
    <<11,5,0>>, <<31,5,0>>, <<36,12,0>>, <<6,5,12>>, <<23,5,0>>, <<11,5,0>>, <<31,5,0>>,
    <<36,12,0>>, <<6,5,12>>, <<23,5,0>>, <<11,5,0>>, <<31,5,0>>, <<36,12,0>>, <<6,5,12>>,
    <<23,5,0>>, <<11,5,0>>, <<31,5,0>>, <<36,12,0>>, <<6,5,12>>, <<23,5,0>>, <<11,5,0>>, <<31,5,0>>,
    <<36,5,0>>, <<41,2,0>>, <<43,5,0>>, <<23,5,0>>, <<31,17,0>>, <<4,12,17>>, <<23,5,0>>,
    <<11,5,0>>, <<31,5,0>>, <<36,5,0>>, <<41,2,0>>, <<43,5,0>>, <<23,5,0>>, <<11,5,0>>, <<31,5,0>>,
    <<36,5,0>>, <<41,2,0>>, <<43,5,0>>, <<23,5,0>>, <<31,5,0>>, <<36,12,0>>, <<6,10,12>>,
    <<23,5,0>>, <<11,5,0>>, <<31,5,0>>, <<36,12,0>>, <<6,5,12>>, <<23,5,0>>, <<11,5,0>>, <<31,5,0>>,
    <<36,12,0>>, <<6,5,12>>, <<23,5,0>>, <<31,5,0>>, <<36,12,0>>, <<6,10,12>>, <<23,5,0>>,
    <<11,5,0>>, <<31,5,0>>, <<36,12,0>>, <<6,5,12>>, <<23,5,0>>, <<11,5,0>>, <<31,5,0>>,
    <<36,12,0>>, <<6,5,12>>, <<23,5,0>>, <<11,5,0>>, <<31,5,0>>, <<36,12,0>>, <<6,5,12>>,
    <<23,5,0>>, <<11,5,0>>, <<31,5,0>>, <<36,12,0>>, <<6,5,12>>, <<23,5,0>>, <<11,5,0>>, <<31,5,0>>,
    <<36,5,0>>, <<41,2,0>>, <<43,5,0>>, <<23,5,0>>, <<11,5,0>>, <<43,5,0>>, <<31,5,0>>, <<36,5,0>>,
    <<23,5,0>>, <<11,5,0>>, <<43,5,0>>, <<31,5,0>>, <<36,5,0>>, <<23,5,0>>, <<31,5,0>>, <<36,5,0>>,
    <<41,7,0>>, <<4,12,7>>, <<23,5,0>>, <<31,5,0>>, <<36,5,0>>, <<41,7,0>>, <<4,12,7>>, <<23,5,0>>,
    <<11,5,0>>, <<31,5,0>>, <<36,5,0>>, <<23,5,0>>, <<11,5,0>>, <<31,5,0>>, <<36,5,0>>, <<23,5,0>>,
    <<31,5,0>>, <<36,12,0>>, <<4,12,12>>, <<23,5,0>>, <<31,5,0>>, <<36,12,0>>, <<4,12,12>>,
    <<31,5,0>>, <<36,5,0>>, <<41,2,0>>, <<11,5,0>>, <<43,5,0>>, <<23,5,0>>, <<31,5,0>>, <<36,5,0>>,
    <<41,2,0>>, <<11,5,0>>, <<43,5,0>>, <<31,5,0>>, <<11,5,0>>, <<36,12,0>>, <<6,5,12>>, <<23,5,0>>,
    <<31,5,0>>, <<11,5,0>>, <<36,12,0>>, <<6,5,12>>, <<23,5,0>>, <<31,5,0>>, <<36,5,0>>, <<41,1,0>>,
    <<44,1,0>>, <<42,1,0>>, <<43,1,0>>, <<23,5,0>>, <<11,5,0>>, <<31,5,0>>, <<41,1,0>>, <<42,1,0>>,
    <<23,5,0>>, <<31,5,0>>, <<36,5,0>>, <<41,1,0>>, <<43,1,0>>, <<42,1,0>>, <<23,5,0>>, <<11,5,0>>,
    <<31,5,0>>, <<36,5,0>>, <<23,5,0>>, <<11,5,0>>, <<31,5,0>>, <<36,5,0>>, <<23,5,0>>, <<11,5,0>>,
    <<31,5,0>>, <<36,5,0>>, <<23,5,0>>, <<11,5,0>>, <<31,5,0>>, <<36,5,0>>, <<31,5,0>>, <<36,12,0>>,
    <<23,5,12>>, <<4,12,17>>, <<11,5,0>>, <<43,5,0>>, <<31,5,0>>, <<36,5,0>>, <<41,2,0>>,
    <<11,5,0>>, <<43,5,0>>, <<31,5,0>>, <<36,5,0>>, <<41,2,0>>, <<31,5,0>>, <<36,5,0>>, <<41,7,0>>,
    <<23,5,7>>, <<6,10,12>>, <<11,5,0>>, <<31,5,0>>, <<36,5,0>>, <<41,7,0>>, <<23,5,7>>, <<6,5,12>>,
    <<11,5,0>>, <<31,5,0>>, <<36,5,0>>, <<41,7,0>>, <<23,5,7>>, <<6,5,12>>, <<31,5,0>>, <<6,5,0>>,
    <<36,5,0>>, <<41,7,0>>, <<23,5,7>>, <<11,5,12>>, <<43,5,0>>, <<6,5,0>>, <<31,5,0>>, <<36,5,0>>,
    <<41,2,0>>, <<31,5,0>>, <<36,12,0>>, <<23,5,12>>, <<4,12,17>>, <<11,5,0>>, <<43,5,0>>,
    <<31,5,0>>, <<36,5,0>>, <<41,2,0>>, <<11,5,0>>, <<43,5,0>>, <<31,5,0>>, <<36,5,0>>, <<41,2,0>>,
    <<11,5,0>>, <<43,5,0>>, <<31,5,0>>, <<36,5,0>> >>

kFieldPieces_5 ==
  <<
    <<41,2,0>>, <<11,5,0>>, <<43,5,0>>, <<31,5,0>>, <<36,5,0>>, <<41,2,0>>, <<31,5,0>>, <<36,5,0>>,
    <<41,7,0>>, <<23,5,7>>, <<6,10,12>>, <<11,5,0>>, <<31,5,0>>, <<36,5,0>>, <<41,7,0>>, <<23,5,7>>,
    <<6,5,12>>, <<11,5,0>>, <<31,5,0>>, <<36,5,0>>, <<41,7,0>>, <<23,5,7>>, <<6,5,12>>, <<31,5,0>>,
    <<36,5,0>>, <<41,7,0>>, <<23,5,7>>, <<6,10,12>>, <<11,5,0>>, <<31,5,0>>, <<36,5,0>>, <<41,7,0>>,
    <<23,5,7>>, <<6,5,12>>, <<11,5,0>>, <<31,5,0>>, <<36,5,0>>, <<41,7,0>>, <<23,5,7>>, <<6,5,12>>,
    <<31,5,0>>, <<6,5,0>>, <<36,5,0>>, <<41,7,0>>, <<23,5,7>>, <<11,5,12>>, <<31,5,0>>, <<6,5,0>>,
    <<36,5,0>>, <<41,7,0>>, <<23,5,7>>, <<11,5,12>>, <<43,5,0>>, <<6,5,0>>, <<31,5,0>>, <<36,5,0>>,
    <<41,2,0>>, <<43,5,0>>, <<6,5,0>>, <<31,5,0>>, <<36,5,0>>, <<41,2,0>>, <<31,5,0>>, <<23,5,0>>,
    <<36,12,0>>, <<4,12,12>>, <<31,5,0>>, <<23,5,0>>, <<36,12,0>>, <<4,12,12>>, <<31,5,0>>,
    <<23,5,0>>, <<36,12,0>>, <<4,12,12>>, <<31,5,0>>, <<23,5,0>>, <<36,12,0>>, <<4,12,12>>,
    <<31,5,0>>, <<23,5,0>>, <<36,12,0>>, <<4,12,12>>, <<31,5,0>>, <<23,5,0>>, <<36,12,0>>,
    <<4,12,12>>, <<31,5,0>>, <<23,5,0>>, <<36,12,0>>, <<4,12,12>>, <<31,5,0>>, <<23,5,0>>,
    <<36,12,0>>, <<4,12,12>>, <<28,20,0>>, <<4,12,20>>, <<31,5,0>>, <<36,12,0>>, <<23,5,12>>,
    <<4,12,17>>, <<11,5,0>>, <<43,5,0>>, <<31,5,0>>, <<36,5,0>>, <<41,2,0>>, <<11,5,0>>, <<43,5,0>>,
    <<31,5,0>>, <<36,5,0>>, <<41,2,0>>, <<11,5,0>>, <<43,5,0>>, <<31,5,0>>, <<36,5,0>>, <<41,2,0>>,
    <<11,5,0>>, <<43,5,0>>, <<31,5,0>>, <<36,5,0>>, <<41,2,0>>, <<31,5,0>>, <<36,5,0>>, <<41,7,0>>,
    <<23,5,7>>, <<6,10,12>>, <<11,5,0>>, <<31,5,0>>, <<36,5,0>>, <<41,7,0>>, <<23,5,7>>, <<6,5,12>>,
    <<11,5,0>>, <<31,5,0>>, <<36,5,0>>, <<41,7,0>>, <<23,5,7>>, <<6,5,12>>, <<31,5,0>>, <<36,5,0>>,
    <<41,7,0>>, <<23,5,7>>, <<6,10,12>>, <<11,5,0>>, <<31,5,0>>, <<36,5,0>>, <<41,7,0>>, <<23,5,7>>,
    <<6,5,12>>, <<11,5,0>>, <<31,5,0>>, <<36,5,0>>, <<41,7,0>>, <<23,5,7>>, <<6,5,12>>, <<31,5,0>>,
    <<6,5,0>>, <<36,5,0>>, <<41,7,0>>, <<23,5,7>>, <<11,5,12>>, <<31,5,0>>, <<6,5,0>>, <<36,5,0>>,
    <<41,7,0>>, <<23,5,7>>, <<11,5,12>>, <<43,5,0>>, <<6,5,0>>, <<31,5,0>>, <<36,5,0>>, <<41,2,0>>,
    <<43,5,0>>, <<6,5,0>>, <<31,5,0>>, <<36,5,0>>, <<41,2,0>>, <<23,5,0>>, <<36,12,0>>, <<4,12,12>>,
    <<36,12,0>>, <<4,12,12>>, <<31,5,0>>, <<23,5,0>>, <<31,5,0>>, <<36,12,0>>, <<4,12,12>>,
    <<23,5,0>>, <<31,5,0>>, <<36,12,0>>, <<4,12,12>>, <<31,5,0>>, <<36,12,0>>, <<23,5,12>>,
    <<4,12,17>>, <<11,5,0>>, <<43,5,0>>, <<31,5,0>>, <<36,5,0>>, <<41,2,0>>, <<11,5,0>>, <<43,5,0>>,
    <<31,5,0>>, <<36,5,0>>, <<41,2,0>>, <<11,5,0>>, <<43,5,0>>, <<31,5,0>>, <<36,5,0>>, <<41,2,0>>,
    <<11,5,0>>, <<43,5,0>>, <<31,5,0>>, <<36,5,0>>, <<41,2,0>>, <<31,5,0>>, <<36,5,0>>, <<41,7,0>>,
    <<23,5,7>>, <<6,10,12>>, <<11,5,0>>, <<31,5,0>>, <<36,5,0>>, <<41,7,0>>, <<23,5,7>>, <<6,5,12>>,
    <<11,5,0>>, <<31,5,0>>, <<36,5,0>>, <<41,7,0>>, <<23,5,7>>, <<6,5,12>>, <<31,5,0>>, <<36,5,0>>,
    <<41,7,0>>, <<23,5,7>>, <<6,10,12>>, <<11,5,0>>, <<31,5,0>>, <<36,5,0>>, <<41,7,0>>, <<23,5,7>>,
    <<6,5,12>>, <<11,5,0>>, <<31,5,0>>, <<36,5,0>>, <<41,7,0>>, <<23,5,7>>, <<6,5,12>>, <<31,5,0>>,
    <<6,5,0>>, <<36,5,0>>, <<41,7,0>>, <<23,5,7>>, <<11,5,12>>, <<31,5,0>>, <<6,5,0>>, <<36,5,0>>,
    <<41,7,0>>, <<23,5,7>>, <<11,5,12>>, <<43,5,0>>, <<6,5,0>>, <<31,5,0>>, <<36,5,0>>, <<41,2,0>>,
    <<43,5,0>>, <<6,5,0>>, <<31,5,0>>, <<36,5,0>>, <<41,2,0>>, <<23,5,0>>, <<31,5,0>>, <<36,12,0>>,
    <<4,12,12>>, <<23,5,0>>, <<31,5,0>>, <<36,12,0>>, <<4,12,12>>, <<15,5,0>>, <<15,17,0>>,
    <<7,5,17>>, <<15,5,0>>, <<20,5,0>>, <<25,7,0>>, <<7,5,7>>, <<7,25,0>>, <<47,17,25>>, <<7,25,0>>,
    <<47,17,25>>, <<7,25,0>>, <<47,17,25>>, <<7,25,0>>, <<47,17,25>>, <<7,25,0>>, <<47,17,25>>,
    <<7,25,0>>, <<47,17,25>>, <<7,25,0>>, <<47,17,25>>, <<7,25,0>> >>

kFieldPieces_6 ==
  <<
    <<47,17,25>>, <<7,25,0>>, <<47,17,25>>, <<7,5,0>>, <<15,5,0>>, <<20,5,0>>, <<25,2,0>>,
    <<27,5,0>>, <<7,5,0>>, <<15,17,0>>, <<7,5,0>>, <<15,5,0>>, <<20,12,0>>, <<7,5,0>>, <<15,5,0>>,
    <<20,5,0>>, <<25,2,0>>, <<27,5,0>>, <<7,5,0>>, <<15,17,0>>, <<7,5,0>>, <<15,5,0>>, <<20,12,0>>,
    <<7,5,0>>, <<15,5,0>>, <<20,5,0>>, <<25,2,0>>, <<27,5,0>>, <<7,5,0>>, <<15,5,0>>, <<20,5,0>>,
    <<26,1,0>>, <<31,1,0>>, <<25,1,0>>, <<7,5,0>>, <<15,5,0>>, <<20,5,0>>, <<26,1,0>>, <<31,1,0>>,
    <<25,1,0>>, <<7,5,0>>, <<15,5,0>>, <<20,5,0>>, <<26,1,0>>, <<31,1,0>>, <<25,1,0>>, <<7,5,0>>,
    <<15,17,0>>, <<7,5,0>>, <<15,5,0>>, <<20,5,0>>, <<26,1,0>>, <<31,1,0>>, <<25,1,0>>, <<7,5,0>>,
    <<15,5,0>>, <<20,5,0>>, <<26,1,0>>, <<31,1,0>>, <<25,1,0>>, <<7,5,0>>, <<15,5,0>>, <<20,5,0>>,
    <<26,1,0>>, <<31,1,0>>, <<25,1,0>>, <<7,5,0>>, <<15,5,0>>, <<20,5,0>>, <<26,1,0>>, <<31,1,0>>,
    <<25,1,0>>, <<7,5,0>>, <<15,5,0>>, <<20,5,0>>, <<26,1,0>>, <<31,1,0>>, <<25,1,0>>, <<7,5,0>>,
    <<15,5,0>>, <<20,12,0>>, <<7,5,0>>, <<15,5,0>>, <<20,12,0>>, <<7,5,0>>, <<15,5,0>>, <<20,5,0>>,
    <<25,2,0>>, <<27,5,0>>, <<7,5,0>>, <<15,17,0>>, <<7,5,0>>, <<15,5,0>>, <<20,12,0>>, <<7,5,0>>,
    <<15,5,0>>, <<20,12,0>>, <<7,5,0>>, <<15,5,0>>, <<20,5,0>>, <<25,2,0>>, <<27,5,0>>, <<7,5,0>>,
    <<15,17,0>>, <<7,5,0>>, <<15,5,0>>, <<20,12,0>>, <<7,5,0>>, <<15,5,0>>, <<20,12,0>>, <<7,5,0>>,
    <<15,5,0>>, <<20,5,0>>, <<26,1,0>>, <<31,1,0>>, <<25,1,0>>, <<7,5,0>>, <<15,5,0>>, <<20,5,0>>,
    <<26,1,0>>, <<31,1,0>>, <<25,1,0>>, <<7,5,0>>, <<15,5,0>>, <<20,5,0>>, <<26,1,0>>, <<31,1,0>>,
    <<25,1,0>>, <<7,5,0>>, <<15,5,0>>, <<20,5,0>>, <<26,1,0>>, <<31,1,0>>, <<25,1,0>>, <<20,12,0>>,
    <<7,5,0>>, <<7,5,0>>, <<12,20,0>>, <<7,5,0>>, <<15,5,0>>, <<20,5,0>>, <<25,2,0>>, <<27,5,0>>,
    <<7,5,0>>, <<15,5,0>>, <<20,5,0>>, <<26,1,0>>, <<31,1,0>>, <<25,1,0>>, <<7,5,0>>, <<15,5,0>>,
    <<20,5,0>>, <<26,1,0>>, <<31,1,0>>, <<25,1,0>>, <<7,5,0>>, <<15,5,0>>, <<20,5,0>>, <<26,1,0>>,
    <<31,1,0>>, <<25,1,0>>, <<7,5,0>>, <<15,17,0>>, <<7,5,0>>, <<15,5,0>>, <<20,5,0>>, <<26,1,0>>,
    <<31,1,0>>, <<25,1,0>>, <<7,5,0>>, <<15,5,0>>, <<20,5,0>>, <<26,1,0>>, <<31,1,0>>, <<25,1,0>>,
    <<7,5,0>>, <<15,5,0>>, <<20,5,0>>, <<26,1,0>>, <<31,1,0>>, <<25,1,0>>, <<7,5,0>>, <<15,5,0>>,
    <<20,5,0>>, <<26,1,0>>, <<31,1,0>>, <<25,1,0>>, <<7,5,0>>, <<15,5,0>>, <<20,5,0>>, <<26,1,0>>,
    <<31,1,0>>, <<25,1,0>>, <<7,5,0>>, <<15,5,0>>, <<20,12,0>>, <<7,5,0>>, <<15,5,0>>, <<20,12,0>>,
    <<7,5,0>>, <<15,5,0>>, <<20,5,0>>, <<25,2,0>>, <<27,5,0>>, <<7,5,0>>, <<15,17,0>>, <<7,5,0>>,
    <<15,5,0>>, <<20,12,0>>, <<7,5,0>>, <<15,5,0>>, <<20,12,0>>, <<7,5,0>>, <<27,5,0>>, <<15,5,0>>,
    <<20,5,0>>, <<7,5,0>>, <<27,5,0>>, <<15,5,0>>, <<20,5,0>>, <<7,5,0>>, <<15,5,0>>, <<20,5,0>>,
    <<7,5,0>>, <<15,5,0>>, <<20,5,0>>, <<15,5,0>>, <<20,5,0>>, <<27,5,0>>, <<7,5,0>>, <<15,5,0>>,
    <<20,5,0>>, <<27,5,0>>, <<7,5,0>>, <<15,5,0>>, <<20,5,0>>, <<27,5,0>>, <<7,5,0>>, <<15,5,0>>,
    <<20,5,0>>, <<7,5,0>>, <<15,5,0>>, <<20,5,0>>, <<15,5,0>>, <<20,5,0>>, <<27,5,0>>, <<7,5,0>>,
    <<15,5,0>>, <<20,5,0>>, <<7,5,0>>, <<15,5,0>>, <<20,5,0>>, <<7,5,0>>, <<15,5,0>>, <<20,5,0>>,
    <<7,5,0>>, <<15,5,0>>, <<20,5,0>>, <<7,5,0>>, <<15,5,0>>, <<20,5,0>>, <<25,2,0>>, <<27,5,0>>,
    <<7,5,0>>, <<15,5,0>>, <<20,12,0>>, <<7,5,0>>, <<15,5,0>>, <<20,12,0>>, <<7,5,0>>, <<15,5,0>>,
    <<20,5,0>>, <<25,2,0>>, <<27,5,0>>, <<7,5,0>>, <<15,5,0>>, <<20,5,0>>, <<25,2,0>>, <<27,5,0>>,
    <<7,5,0>>, <<15,5,0>>, <<20,12,0>>, <<7,5,0>>, <<15,5,0>>, <<20,5,0>>, <<7,5,0>>, <<15,5,0>>,
    <<20,5,0>>, <<7,5,0>>, <<15,5,0>>, <<20,5,0>>, <<7,5,0>>, <<15,5,0>>, <<20,5,0>>, <<7,5,0>>,
    <<15,5,0>>, <<20,6,0>>, <<26,6,0>>, <<27,5,0>>, <<15,5,0>> >>

kFieldPieces_7 ==
  <<
    <<20,5,0>>, <<25,2,0>>, <<15,5,0>>, <<20,5,0>>, <<25,1,0>>, <<15,5,0>>, <<20,12,0>>, <<7,5,12>>,
    <<15,5,0>>, <<20,5,0>>, <<25,1,0>>, <<15,5,0>>, <<20,5,0>>, <<25,7,0>>, <<7,5,7>>, <<7,5,0>>,
    <<15,5,0>>, <<20,5,0>>, <<26,1,0>>, <<31,1,0>>, <<25,1,0>>, <<7,5,0>>, <<15,5,0>>, <<20,5,0>>,
    <<26,1,0>>, <<31,1,0>>, <<25,1,0>>, <<7,5,0>>, <<15,5,0>>, <<20,5,0>>, <<26,1,0>>, <<31,1,0>>,
    <<25,1,0>>, <<7,5,0>>, <<15,5,0>>, <<20,5,0>>, <<26,1,0>>, <<31,1,0>>, <<25,1,0>>, <<27,5,0>>,
    <<7,5,0>>, <<15,5,0>>, <<25,2,0>>, <<27,5,0>>, <<15,5,0>>, <<20,5,0>>, <<25,2,0>>, <<15,5,0>>,
    <<20,5,0>>, <<25,1,0>>, <<15,5,0>>, <<20,5,0>>, <<25,1,0>>, <<15,5,0>>, <<20,5,0>>, <<25,1,0>>,
    <<15,5,0>>, <<20,12,0>>, <<7,5,12>>, <<15,5,0>>, <<20,5,0>>, <<25,1,0>>, <<15,5,0>>, <<20,5,0>>,
    <<25,1,0>>, <<15,5,0>>, <<20,5,0>>, <<25,1,0>>, <<27,5,0>>, <<15,5,0>>, <<20,5,0>>, <<25,2,0>>,
    <<15,5,0>>, <<20,5,0>>, <<25,1,0>>, <<15,5,0>>, <<20,5,0>>, <<25,1,0>>, <<15,5,0>>, <<20,5,0>>,
    <<25,1,0>>, <<15,5,0>>, <<20,5,0>>, <<25,7,0>>, <<7,5,7>>, <<15,5,0>>, <<20,5,0>>, <<25,7,0>>,
    <<7,5,7>>, <<15,5,0>>, <<20,5,0>>, <<25,2,0>>, <<15,5,0>>, <<7,5,0>>, <<20,12,0>>, <<15,5,0>>,
    <<20,5,0>>, <<25,2,0>>, <<15,5,0>>, <<7,5,0>>, <<20,12,0>>, <<15,5,0>>, <<20,5,0>>, <<25,2,0>>,
    <<15,5,0>>, <<7,5,0>>, <<20,12,0>>, <<15,5,0>>, <<20,5,0>>, <<25,2,0>>, <<15,5,0>>, <<7,5,0>>,
    <<20,12,0>>, <<15,5,0>>, <<20,5,0>>, <<25,2,0>>, <<15,5,0>>, <<7,5,0>>, <<20,12,0>>, <<15,5,0>>,
    <<20,5,0>>, <<25,2,0>>, <<15,5,0>>, <<7,5,0>>, <<20,12,0>>, <<15,5,0>>, <<20,5,0>>, <<25,2,0>>,
    <<15,5,0>>, <<7,5,0>>, <<20,12,0>>, <<15,5,0>>, <<20,5,0>>, <<25,2,0>>, <<15,5,0>>, <<7,5,0>>,
    <<20,12,0>>, <<15,5,0>>, <<12,20,0>>, <<27,5,0>>, <<15,5,0>>, <<20,5,0>>, <<25,2,0>>,
    <<15,5,0>>, <<20,5,0>>, <<25,1,0>>, <<15,5,0>>, <<20,12,0>>, <<7,5,12>>, <<15,5,0>>, <<20,5,0>>,
    <<25,1,0>>, <<27,5,0>>, <<15,5,0>>, <<20,5,0>>, <<25,2,0>>, <<15,5,0>>, <<20,5,0>>, <<25,7,0>>,
    <<7,5,7>>, <<15,5,0>>, <<20,5,0>>, <<25,7,0>>, <<7,5,7>>, <<7,5,0>>, <<15,5,0>>, <<20,5,0>>,
    <<7,5,0>>, <<15,5,0>>, <<20,6,0>>, <<7,5,0>>, <<15,5,0>>, <<20,5,0>>, <<7,5,0>>, <<15,5,0>>,
    <<20,5,0>>, <<7,5,0>>, <<15,5,0>>, <<20,5,0>>, <<7,5,0>>, <<15,5,0>>, <<20,6,0>>, <<7,5,0>>,
    <<15,5,0>>, <<20,5,0>>, <<7,5,0>>, <<15,5,0>>, <<20,5,0>>, <<7,5,0>>, <<15,5,0>>, <<20,5,0>>,
    <<7,5,0>>, <<15,5,0>>, <<20,6,0>>, <<7,5,0>>, <<15,5,0>>, <<20,5,0>>, <<7,5,0>>, <<15,5,0>>,
    <<20,5,0>>, <<7,5,0>>, <<20,12,0>>, <<20,12,0>>, <<15,5,0>>, <<7,5,0>>, <<20,12,0>>, <<15,5,0>>,
    <<7,5,0>>, <<15,5,0>>, <<20,5,0>>, <<25,2,0>>, <<27,5,0>>, <<7,5,0>>, <<15,5,0>>, <<20,12,0>>,
    <<7,5,0>>, <<15,5,0>>, <<20,12,0>>, <<7,5,0>>, <<15,5,0>>, <<20,5,0>>, <<25,2,0>>, <<27,5,0>>,
    <<27,5,0>>, <<15,5,0>>, <<20,5,0>>, <<25,2,0>>, <<15,5,0>>, <<20,5,0>>, <<25,1,0>>, <<15,5,0>>,
    <<20,5,0>>, <<25,1,0>>, <<15,5,0>>, <<20,5,0>>, <<25,1,0>>, <<15,5,0>>, <<20,12,0>>, <<7,5,12>>,
    <<15,5,0>>, <<20,5,0>>, <<25,1,0>>, <<15,5,0>>, <<20,5,0>>, <<25,1,0>>, <<15,5,0>>, <<20,5,0>>,
    <<25,1,0>>, <<27,5,0>>, <<15,5,0>>, <<20,5,0>>, <<25,2,0>>, <<15,5,0>>, <<20,5,0>>, <<25,1,0>>,
    <<15,5,0>>, <<20,5,0>>, <<25,1,0>>, <<15,5,0>>, <<20,5,0>>, <<25,1,0>>, <<7,5,0>>, <<15,5,0>>,
    <<20,5,0>>, <<26,1,0>>, <<31,1,0>>, <<25,1,0>>, <<7,5,0>>, <<15,5,0>>, <<20,5,0>>, <<26,1,0>>,
    <<31,1,0>>, <<25,1,0>>, <<7,5,0>>, <<15,5,0>>, <<20,5,0>>, <<26,1,0>>, <<31,1,0>>, <<25,1,0>>,
    <<7,5,0>>, <<15,5,0>>, <<20,5,0>>, <<26,1,0>>, <<31,1,0>>, <<25,1,0>>, <<15,5,0>>, <<20,5,0>>,
    <<25,7,0>>, <<7,5,7>>, <<15,5,0>>, <<20,5,0>>, <<25,7,0>>, <<7,5,7>>, <<15,5,0>>, <<15,5,0>>,
    <<15,5,0>>, <<27,5,0>>, <<7,5,0>>, <<15,5,0>>, <<25,2,0>> >>

kFieldPieces_8 ==
  <<
    <<39,5,0>>, <<7,5,5>>, <<47,5,0>>, <<15,5,5>>, <<52,5,0>>, <<20,5,5>>, <<57,2,0>>, <<59,5,0>>,
    <<39,5,0>>, <<7,5,5>>, <<47,5,0>>, <<15,5,5>>, <<52,12,0>>, <<39,5,0>>, <<7,5,5>>, <<47,5,0>>,
    <<15,5,5>>, <<52,5,0>>, <<20,5,5>>, <<57,2,0>>, <<59,5,0>>, <<39,5,0>>, <<7,5,5>>, <<47,5,0>>,
    <<15,5,5>>, <<52,12,0>>, <<39,5,0>>, <<7,5,5>>, <<47,5,0>>, <<15,5,5>>, <<52,6,0>>, <<58,6,0>>,
    <<39,5,0>>, <<7,5,5>>, <<47,5,0>>, <<15,5,5>>, <<52,6,0>>, <<58,6,0>>, <<39,5,0>>, <<7,5,5>>,
    <<47,5,0>>, <<15,5,5>>, <<52,6,0>>, <<58,6,0>>, <<39,5,0>>, <<7,5,5>>, <<47,5,0>>, <<15,5,5>>,
    <<52,6,0>>, <<58,6,0>>, <<39,5,0>>, <<7,5,5>>, <<47,5,0>>, <<15,5,5>>, <<52,6,0>>, <<58,6,0>>,
    <<39,5,0>>, <<7,5,5>>, <<47,5,0>>, <<15,5,5>>, <<52,6,0>>, <<58,6,0>>, <<39,5,0>>, <<7,5,5>>,
    <<47,5,0>>, <<15,5,5>>, <<52,5,0>>, <<20,5,5>>, <<39,5,0>>, <<7,5,5>>, <<47,5,0>>, <<15,5,5>>,
    <<52,12,0>>, <<39,5,0>>, <<7,5,5>>, <<47,5,0>>, <<15,5,5>>, <<52,5,0>>, <<20,5,5>>, <<39,5,0>>,
    <<7,5,5>>, <<47,5,0>>, <<15,5,5>>, <<52,12,0>>, <<39,5,0>>, <<7,5,5>>, <<47,5,0>>, <<15,5,5>>,
    <<52,5,0>>, <<20,5,5>>, <<39,5,0>>, <<7,5,5>>, <<47,5,0>>, <<15,5,5>>, <<52,12,0>>, <<39,5,0>>,
    <<7,5,5>>, <<47,5,0>>, <<15,5,5>>, <<52,5,0>>, <<20,5,5>>, <<39,5,0>>, <<7,5,5>>, <<47,5,0>>,
    <<15,5,5>>, <<52,12,0>>, <<39,5,0>>, <<7,5,5>>, <<47,5,0>>, <<15,5,5>>, <<52,5,0>>, <<20,5,5>>,
    <<39,5,0>>, <<7,5,5>>, <<47,5,0>>, <<15,5,5>>, <<52,12,0>>, <<39,5,0>>, <<7,5,5>>, <<47,5,0>>,
    <<15,5,5>>, <<52,5,0>>, <<20,5,5>>, <<39,5,0>>, <<7,5,5>>, <<47,5,0>>, <<15,5,5>>, <<52,12,0>>,
    <<39,5,0>>, <<7,5,5>>, <<47,5,0>>, <<15,5,5>>, <<52,5,0>>, <<20,5,5>>, <<39,5,0>>, <<7,5,5>>,
    <<47,5,0>>, <<15,5,5>>, <<52,12,0>>, <<39,5,0>>, <<7,5,5>>, <<47,5,0>>, <<15,5,5>>, <<52,5,0>>,
    <<20,5,5>>, <<39,5,0>>, <<7,5,5>>, <<47,5,0>>, <<15,5,5>>, <<52,12,0>>, <<39,5,0>>, <<7,5,5>>,
    <<47,5,0>>, <<15,5,5>>, <<59,5,0>>, <<27,5,5>>, <<52,5,0>>, <<20,5,5>>, <<57,2,0>>, <<39,5,0>>,
    <<7,5,5>>, <<47,5,0>>, <<15,5,5>>, <<52,6,0>>, <<58,6,0>>, <<39,5,0>>, <<7,5,5>>, <<47,5,0>>,
    <<15,5,5>>, <<52,5,0>>, <<20,5,5>>, <<39,5,0>>, <<7,5,5>>, <<47,5,0>>, <<15,5,5>>, <<39,5,0>>,
    <<7,5,5>>, <<47,5,0>>, <<15,5,5>>, <<52,5,0>>, <<20,5,5>>, <<39,5,0>>, <<7,5,5>>, <<47,5,0>>,
    <<15,5,5>>, <<39,5,0>>, <<7,5,5>>, <<47,5,0>>, <<15,5,5>>, <<59,5,0>>, <<52,5,0>>, <<39,5,0>>,
    <<7,5,5>>, <<47,5,0>>, <<15,5,5>>, <<59,5,0>>, <<52,5,0>>, <<39,5,0>>, <<7,5,5>>, <<47,5,0>>,
    <<15,5,5>>, <<52,5,0>>, <<20,5,5>>, <<39,5,0>>, <<7,5,5>>, <<47,5,0>>, <<15,5,5>>, <<52,5,0>>,
    <<20,5,5>>, <<39,5,0>>, <<7,5,5>>, <<47,5,0>>, <<15,5,5>>, <<52,5,0>>, <<20,5,5>>, <<39,5,0>>,
    <<7,5,5>>, <<47,5,0>>, <<15,5,5>>, <<39,5,0>>, <<7,5,5>>, <<47,5,0>>, <<15,5,5>>, <<52,5,0>>,
    <<20,5,5>>, <<39,5,0>>, <<7,5,5>>, <<47,5,0>>, <<15,5,5>>, <<52,5,0>>, <<20,5,5>>, <<39,5,0>>,
    <<7,5,5>>, <<47,5,0>>, <<15,5,5>>, <<52,5,0>>, <<20,5,5>>, <<39,5,0>>, <<7,5,5>>, <<47,5,0>>,
    <<15,5,5>>, <<52,5,0>>, <<20,5,5>>, <<39,5,0>>, <<7,5,5>>, <<59,5,0>>, <<27,5,5>>, <<47,5,0>>,
    <<15,5,5>>, <<52,5,0>>, <<20,5,5>>, <<39,5,0>>, <<7,5,5>>, <<47,5,0>>, <<15,5,5>>, <<52,5,0>>,
    <<20,5,5>>, <<39,5,0>>, <<7,5,5>>, <<47,5,0>>, <<15,5,5>>, <<52,5,0>>, <<20,5,5>>, <<39,5,0>>,
    <<7,5,5>>, <<59,5,0>>, <<27,5,5>>, <<47,5,0>>, <<15,5,5>>, <<52,5,0>>, <<20,5,5>>, <<39,5,0>>,
    <<7,5,5>>, <<47,5,0>>, <<15,5,5>>, <<52,5,0>>, <<20,5,5>>, <<39,5,0>>, <<7,5,5>>, <<47,5,0>>,
    <<15,5,5>>, <<52,5,0>>, <<20,5,5>>, <<39,5,0>>, <<7,5,5>>, <<47,5,0>>, <<15,5,5>>, <<52,5,0>>,
    <<20,5,5>>, <<39,5,0>>, <<7,5,5>>, <<59,5,0>>, <<27,5,5>>, <<47,5,0>>, <<15,5,5>>, <<52,5,0>>,
    <<20,5,5>>, <<39,5,0>>, <<7,5,5>>, <<59,5,0>> >>

kFieldPieces_9 ==
  <<
    <<27,5,5>>, <<47,5,0>>, <<15,5,5>>, <<52,5,0>>, <<20,5,5>>, <<39,5,0>>, <<7,5,5>>, <<47,5,0>>,
    <<15,5,5>>, <<39,5,0>>, <<7,5,5>>, <<47,5,0>>, <<15,5,5>>, <<39,5,0>>, <<7,5,5>>, <<47,5,0>>,
    <<15,5,5>>, <<52,5,0>>, <<20,5,5>>, <<39,5,0>>, <<7,5,5>>, <<47,5,0>>, <<15,5,5>>, <<59,5,0>>,
    <<52,5,0>>, <<39,5,0>>, <<7,5,5>>, <<47,5,0>>, <<15,5,5>>, <<59,5,0>>, <<52,5,0>>, <<12,1,0>>,
    <<14,1,0>>, <<39,5,0>>, <<7,5,5>>, <<47,5,0>>, <<15,5,5>>, <<52,5,0>>, <<20,5,5>>, <<59,5,0>>,
    <<12,1,0>>, <<14,1,0>>, <<39,5,0>>, <<7,5,5>>, <<47,5,0>>, <<15,5,5>>, <<52,5,0>>, <<20,5,5>>,
    <<59,5,0>>, <<12,1,0>>, <<14,1,0>>, <<39,5,0>>, <<7,5,5>>, <<47,5,0>>, <<15,5,5>>, <<52,12,0>>,
    <<20,12,12>>, <<12,1,0>>, <<14,1,0>>, <<39,5,0>>, <<7,5,5>>, <<47,5,0>>, <<15,5,5>>,
    <<52,12,0>>, <<20,12,12>>, <<12,1,0>>, <<14,1,0>>, <<39,5,0>>, <<7,5,5>>, <<47,5,0>>,
    <<15,5,5>>, <<52,5,0>>, <<20,5,5>>, <<59,5,0>>, <<12,1,0>>, <<14,1,0>>, <<39,5,0>>, <<7,5,5>>,
    <<47,5,0>>, <<15,5,5>>, <<52,5,0>>, <<20,5,5>>, <<59,5,0>>, <<12,1,0>>, <<14,1,0>>, <<39,5,0>>,
    <<7,5,5>>, <<47,5,0>>, <<15,5,5>>, <<52,12,0>>, <<20,12,12>>, <<12,1,0>>, <<14,1,0>>,
    <<39,5,0>>, <<7,5,5>>, <<47,5,0>>, <<15,5,5>>, <<52,12,0>>, <<20,12,12>>, <<12,1,0>>,
    <<14,1,0>>, <<39,5,0>>, <<7,5,5>>, <<47,5,0>>, <<15,5,5>>, <<52,5,0>>, <<20,5,5>>, <<59,5,0>>,
    <<39,5,0>>, <<7,5,5>>, <<47,5,0>>, <<15,5,5>>, <<52,5,0>>, <<20,5,5>>, <<25,1,0>>, <<58,1,0>>,
    <<57,1,0>>, <<39,5,0>>, <<7,5,5>>, <<47,5,0>>, <<15,5,5>>, <<52,5,0>>, <<20,5,5>>, <<25,1,0>>,
    <<58,1,0>>, <<57,1,0>>, <<12,1,0>>, <<14,1,0>>, <<39,5,0>>, <<7,5,5>>, <<47,5,0>>, <<15,5,5>>,
    <<52,5,0>>, <<20,5,5>>, <<59,5,0>>, <<39,5,0>>, <<7,5,5>>, <<47,5,0>>, <<15,5,5>>, <<52,5,0>>,
    <<20,5,5>>, <<25,1,0>>, <<58,1,0>>, <<57,1,0>>, <<39,5,0>>, <<7,5,5>>, <<47,5,0>>, <<15,5,5>>,
    <<52,5,0>>, <<20,5,5>>, <<25,1,0>>, <<58,1,0>>, <<57,1,0>>, <<39,5,0>>, <<7,5,5>>, <<47,5,0>>,
    <<15,5,5>>, <<52,5,0>>, <<20,5,5>>, <<25,1,0>>, <<58,1,0>>, <<57,1,0>>, <<39,5,0>>, <<7,5,5>>,
    <<47,5,0>>, <<15,5,5>>, <<52,5,0>>, <<20,5,5>>, <<25,1,0>>, <<58,1,0>>, <<57,1,0>>, <<12,1,0>>,
    <<14,1,0>>, <<39,5,0>>, <<7,5,5>>, <<47,5,0>>, <<15,5,5>>, <<52,12,0>>, <<20,12,12>>,
    <<12,1,0>>, <<14,1,0>>, <<39,5,0>>, <<7,5,5>>, <<47,5,0>>, <<15,5,5>>, <<52,12,0>>,
    <<20,12,12>>, <<12,1,0>>, <<14,1,0>>, <<39,5,0>>, <<7,5,5>>, <<47,5,0>>, <<15,5,5>>,
    <<52,12,0>>, <<20,12,12>>, <<12,1,0>>, <<14,1,0>>, <<39,5,0>>, <<7,5,5>>, <<47,5,0>>,
    <<15,5,5>>, <<52,12,0>>, <<20,12,12>>, <<12,1,0>>, <<14,1,0>>, <<39,5,0>>, <<7,5,5>>,
    <<47,5,0>>, <<15,5,5>>, <<52,5,0>>, <<20,5,5>>, <<59,5,0>>, <<12,1,0>>, <<14,1,0>>, <<39,5,0>>,
    <<7,5,5>>, <<47,5,0>>, <<15,5,5>>, <<52,5,0>>, <<20,5,5>>, <<59,5,0>>, <<12,1,0>>, <<14,1,0>>,
    <<39,5,0>>, <<7,5,5>>, <<47,5,0>>, <<15,5,5>>, <<52,12,0>>, <<20,12,12>>, <<12,1,0>>,
    <<14,1,0>>, <<39,5,0>>, <<7,5,5>>, <<47,5,0>>, <<15,5,5>>, <<52,12,0>>, <<20,12,12>>,
    <<12,1,0>>, <<14,1,0>>, <<39,5,0>>, <<7,5,5>>, <<47,5,0>>, <<15,5,5>>, <<52,12,0>>,
    <<20,12,12>>, <<12,1,0>>, <<14,1,0>>, <<39,5,0>>, <<7,5,5>>, <<47,5,0>>, <<15,5,5>>,
    <<52,12,0>>, <<20,12,12>>, <<12,1,0>>, <<14,1,0>>, <<39,5,0>>, <<7,5,5>>, <<47,5,0>>,
    <<15,5,5>>, <<52,5,0>>, <<20,5,5>>, <<59,5,0>>, <<12,1,0>>, <<14,1,0>>, <<39,5,0>>, <<7,5,5>>,
    <<47,5,0>>, <<15,5,5>>, <<52,5,0>>, <<20,5,5>>, <<59,5,0>>, <<12,1,0>>, <<14,1,0>>, <<39,5,0>>,
    <<7,5,5>>, <<47,5,0>>, <<15,5,5>>, <<52,12,0>>, <<20,12,12>>, <<12,1,0>>, <<14,1,0>>,
    <<39,5,0>>, <<7,5,5>>, <<47,5,0>>, <<15,5,5>>, <<52,12,0>>, <<20,12,12>>, <<12,1,0>>,
    <<14,1,0>>, <<39,5,0>>, <<7,5,5>>, <<47,5,0>>, <<15,5,5>>, <<52,12,0>>, <<20,12,12>>,
    <<12,1,0>>, <<14,1,0>>, <<39,5,0>>, <<7,5,5>>, <<47,5,0>> >>

kFieldPieces_10 ==
  <<
    <<15,5,5>>, <<52,12,0>>, <<20,12,12>>, <<12,1,0>>, <<14,1,0>>, <<39,5,0>>, <<7,5,5>>,
    <<47,5,0>>, <<15,5,5>>, <<52,5,0>>, <<20,5,5>>, <<59,5,0>>, <<39,5,0>>, <<7,5,5>>, <<47,5,0>>,
    <<15,5,5>>, <<52,5,0>>, <<20,5,5>>, <<25,1,0>>, <<58,1,0>>, <<57,1,0>>, <<39,5,0>>, <<7,5,5>>,
    <<47,5,0>>, <<15,5,5>>, <<52,5,0>>, <<20,5,5>>, <<25,1,0>>, <<58,1,0>>, <<57,1,0>>, <<12,1,0>>,
    <<14,1,0>>, <<39,5,0>>, <<7,5,5>>, <<47,5,0>>, <<15,5,5>>, <<52,5,0>>, <<20,5,5>>, <<59,5,0>>,
    <<39,5,0>>, <<7,5,5>>, <<47,5,0>>, <<15,5,5>>, <<52,5,0>>, <<20,5,5>>, <<25,1,0>>, <<58,1,0>>,
    <<57,1,0>>, <<39,5,0>>, <<7,5,5>>, <<47,5,0>>, <<15,5,5>>, <<52,5,0>>, <<20,5,5>>, <<25,1,0>>,
    <<58,1,0>>, <<57,1,0>>, <<39,5,0>>, <<7,5,5>>, <<47,5,0>>, <<15,5,5>>, <<52,5,0>>, <<20,5,5>>,
    <<25,1,0>>, <<58,1,0>>, <<57,1,0>>, <<39,5,0>>, <<7,5,5>>, <<47,5,0>>, <<15,5,5>>, <<52,5,0>>,
    <<20,5,5>>, <<25,1,0>>, <<58,1,0>>, <<57,1,0>>, <<12,1,0>>, <<14,1,0>>, <<39,5,0>>, <<7,5,5>>,
    <<47,5,0>>, <<15,5,5>>, <<52,12,0>>, <<20,12,12>>, <<12,1,0>>, <<14,1,0>>, <<39,5,0>>,
    <<7,5,5>>, <<47,5,0>>, <<15,5,5>>, <<52,12,0>>, <<20,12,12>>, <<12,1,0>>, <<14,1,0>>,
    <<39,5,0>>, <<7,5,5>>, <<47,5,0>>, <<15,5,5>>, <<52,12,0>>, <<20,12,12>>, <<12,1,0>>,
    <<14,1,0>>, <<39,5,0>>, <<7,5,5>>, <<47,5,0>>, <<15,5,5>>, <<52,12,0>>, <<20,12,12>>,
    <<12,1,0>>, <<14,1,0>>, <<39,5,0>>, <<7,5,5>>, <<47,5,0>>, <<15,5,5>>, <<52,5,0>>, <<20,5,5>>,
    <<59,5,0>>, <<12,1,0>>, <<14,1,0>>, <<39,5,0>>, <<7,5,5>>, <<47,5,0>>, <<15,5,5>>, <<52,5,0>>,
    <<20,5,5>>, <<59,5,0>>, <<12,1,0>>, <<14,1,0>>, <<39,5,0>>, <<7,5,5>>, <<47,5,0>>, <<15,5,5>>,
    <<52,12,0>>, <<20,12,12>>, <<12,1,0>>, <<14,1,0>>, <<39,5,0>>, <<7,5,5>>, <<47,5,0>>,
    <<15,5,5>>, <<52,12,0>>, <<20,12,12>>, <<12,1,0>>, <<14,1,0>>, <<39,5,0>>, <<7,5,5>>,
    <<47,5,0>>, <<15,5,5>>, <<52,12,0>>, <<20,12,12>>, <<12,1,0>>, <<14,1,0>>, <<39,5,0>>,
    <<7,5,5>>, <<47,5,0>>, <<15,5,5>>, <<52,12,0>>, <<20,12,12>>, <<39,5,0>>, <<7,5,5>>, <<59,5,0>>,
    <<27,5,5>>, <<47,5,0>>, <<15,5,5>>, <<52,5,0>>, <<20,5,5>>, <<39,5,0>>, <<7,5,5>>, <<47,5,0>>,
    <<15,5,5>>, <<52,5,0>>, <<20,5,5>>, <<39,5,0>>, <<7,5,5>>, <<47,5,0>>, <<15,5,5>>, <<52,5,0>>,
    <<20,5,5>>, <<39,5,0>>, <<7,5,5>>, <<47,5,0>>, <<15,5,5>>, <<52,5,0>>, <<20,5,5>>, <<39,5,0>>,
    <<7,5,5>>, <<47,5,0>>, <<15,5,5>>, <<52,5,0>>, <<20,5,5>>, <<57,2,0>>, <<59,5,0>>, <<39,5,0>>,
    <<7,5,5>>, <<47,5,0>>, <<15,5,5>>, <<52,12,0>>, <<39,5,0>>, <<7,5,5>>, <<47,5,0>>, <<15,5,5>>,
    <<52,5,0>>, <<20,5,5>>, <<59,5,0>>, <<27,5,5>>, <<57,2,0>>, <<39,5,0>>, <<7,5,5>>, <<47,5,0>>,
    <<15,5,5>>, <<39,5,0>>, <<7,5,5>>, <<47,5,0>>, <<15,5,5>>, <<52,5,0>>, <<20,5,5>>, <<39,5,0>>,
    <<7,5,5>>, <<47,5,0>>, <<15,5,5>>, <<39,5,0>>, <<7,5,5>>, <<47,5,0>>, <<15,5,5>>, <<39,5,0>>,
    <<7,5,5>>, <<47,5,0>>, <<15,5,5>>, <<39,5,0>>, <<7,5,5>>, <<47,5,0>>, <<15,5,5>>, <<39,5,0>>,
    <<7,5,5>>, <<47,5,0>>, <<15,5,5>>, <<39,5,0>>, <<7,5,5>>, <<47,5,0>>, <<15,5,5>>, <<39,5,0>>,
    <<7,5,5>>, <<47,5,0>>, <<15,5,5>>, <<39,5,0>>, <<7,5,5>>, <<47,5,0>>, <<15,5,5>>, <<39,5,0>>,
    <<7,5,5>>, <<47,5,0>>, <<15,5,5>>, <<39,5,0>>, <<7,5,5>>, <<47,5,0>>, <<15,5,5>>, <<52,5,0>>,
    <<20,5,5>>, <<39,5,0>>, <<7,5,5>>, <<47,5,0>>, <<15,5,5>>, <<52,6,0>>, <<58,6,0>>, <<12,1,0>>,
    <<14,1,0>>, <<59,5,0>>, <<27,5,5>>, <<47,5,0>>, <<15,5,5>>, <<52,5,0>>, <<20,5,5>>, <<7,5,0>>,
    <<12,1,0>>, <<14,1,0>>, <<59,5,0>>, <<27,5,5>>, <<47,5,0>>, <<15,5,5>>, <<52,5,0>>, <<20,5,5>>,
    <<7,5,0>>, <<12,1,0>>, <<14,1,0>>, <<47,5,0>>, <<15,5,5>>, <<52,5,0>>, <<20,5,5>>, <<57,7,0>>,
    <<39,5,7>>, <<25,7,12>>, <<7,5,19>>, <<12,1,0>>, <<14,1,0>>, <<47,5,0>>, <<15,5,5>>, <<52,5,0>>,
    <<20,5,5>>, <<57,7,0>>, <<39,5,7>>, <<25,7,12>> >>

kFieldPieces_11 ==
  <<
    <<7,5,19>>, <<12,1,0>>, <<14,1,0>>, <<59,5,0>>, <<27,5,5>>, <<47,5,0>>, <<15,5,5>>, <<52,5,0>>,
    <<20,5,5>>, <<7,5,0>>, <<47,5,0>>, <<15,5,5>>, <<52,5,0>>, <<20,5,5>>, <<25,1,0>>, <<26,1,0>>,
    <<57,1,0>>, <<47,5,0>>, <<15,5,5>>, <<52,5,0>>, <<20,5,5>>, <<25,1,0>>, <<26,1,0>>, <<57,1,0>>,
    <<12,1,0>>, <<14,1,0>>, <<59,5,0>>, <<27,5,5>>, <<47,5,0>>, <<15,5,5>>, <<52,5,0>>, <<20,5,5>>,
    <<7,5,0>>, <<47,5,0>>, <<15,5,5>>, <<52,5,0>>, <<20,5,5>>, <<25,1,0>>, <<26,1,0>>, <<57,1,0>>,
    <<47,5,0>>, <<15,5,5>>, <<52,5,0>>, <<20,5,5>>, <<25,1,0>>, <<26,1,0>>, <<57,1,0>>, <<47,5,0>>,
    <<15,5,5>>, <<52,5,0>>, <<20,5,5>>, <<25,1,0>>, <<26,1,0>>, <<57,1,0>>, <<12,1,0>>, <<14,1,0>>,
    <<59,5,0>>, <<27,5,5>>, <<47,5,0>>, <<15,5,5>>, <<52,5,0>>, <<20,5,5>>, <<7,5,0>>, <<12,1,0>>,
    <<14,1,0>>, <<59,5,0>>, <<27,5,5>>, <<47,5,0>>, <<15,5,5>>, <<52,5,0>>, <<20,5,5>>, <<7,5,0>>,
    <<47,5,0>>, <<15,5,5>>, <<52,5,0>>, <<20,5,5>>, <<25,1,0>>, <<26,1,0>>, <<57,1,0>>, <<12,1,0>>,
    <<14,1,0>>, <<47,5,0>>, <<15,5,5>>, <<52,5,0>>, <<20,5,5>>, <<57,7,0>>, <<39,5,7>>, <<25,7,12>>,
    <<7,5,19>>, <<12,1,0>>, <<14,1,0>>, <<47,5,0>>, <<15,5,5>>, <<52,5,0>>, <<20,5,5>>, <<57,7,0>>,
    <<39,5,7>>, <<25,7,12>>, <<7,5,19>>, <<12,1,0>>, <<14,1,0>>, <<47,5,0>>, <<15,5,5>>, <<52,5,0>>,
    <<20,5,5>>, <<57,7,0>>, <<39,5,7>>, <<25,7,12>>, <<7,5,19>>, <<12,1,0>>, <<14,1,0>>, <<47,5,0>>,
    <<15,5,5>>, <<52,5,0>>, <<20,5,5>>, <<57,7,0>>, <<39,5,7>>, <<25,7,12>>, <<7,5,19>>, <<12,1,0>>,
    <<14,1,0>>, <<59,5,0>>, <<27,5,5>>, <<47,5,0>>, <<15,5,5>>, <<52,5,0>>, <<20,5,5>>, <<7,5,0>>,
    <<12,1,0>>, <<14,1,0>>, <<59,5,0>>, <<27,5,5>>, <<47,5,0>>, <<15,5,5>>, <<52,5,0>>, <<20,5,5>>,
    <<7,5,0>>, <<12,1,0>>, <<14,1,0>>, <<59,5,0>>, <<27,5,5>>, <<47,5,0>>, <<15,5,5>>, <<52,5,0>>,
    <<20,5,5>>, <<7,5,0>>, <<12,1,0>>, <<14,1,0>>, <<59,5,0>>, <<27,5,5>>, <<47,5,0>>, <<15,5,5>>,
    <<52,5,0>>, <<20,5,5>>, <<7,5,0>>, <<39,5,0>>, <<7,5,5>>, <<47,5,0>>, <<15,5,5>>, <<59,5,0>>,
    <<27,5,5>>, <<39,5,0>>, <<7,5,5>>, <<47,5,0>>, <<15,5,5>>, <<59,5,0>>, <<27,5,5>>, <<52,5,0>>,
    <<20,5,5>>, <<39,5,0>>, <<7,5,5>>, <<47,5,0>>, <<15,5,5>>, <<59,5,0>>, <<27,5,5>>, <<52,5,0>>,
    <<20,5,5>>, <<39,5,0>>, <<7,5,5>>, <<47,5,0>>, <<15,5,5>>, <<59,5,0>>, <<27,5,5>>, <<52,5,0>>,
    <<20,5,5>>, <<39,5,0>>, <<7,5,5>>, <<47,5,0>>, <<15,5,5>>, <<57,7,0>>, <<25,7,7>>, <<39,5,0>>,
    <<7,5,5>>, <<47,5,0>>, <<15,5,5>>, <<52,5,0>>, <<20,5,5>>, <<57,7,0>>, <<25,7,7>>, <<39,5,0>>,
    <<7,5,5>>, <<47,5,0>>, <<15,5,5>>, <<52,5,0>>, <<20,5,5>>, <<57,7,0>>, <<25,7,7>>, <<39,5,0>>,
    <<7,5,5>>, <<47,5,0>>, <<15,5,5>>, <<52,5,0>>, <<20,5,5>>, <<57,7,0>>, <<25,7,7>>, <<12,1,0>>,
    <<14,1,0>>, <<47,5,0>>, <<15,5,5>>, <<52,5,0>>, <<20,5,5>>, <<57,7,0>>, <<39,5,7>>, <<25,7,12>>,
    <<7,5,19>>, <<12,1,0>>, <<14,1,0>>, <<47,5,0>>, <<15,5,5>>, <<52,5,0>>, <<20,5,5>>, <<57,7,0>>,
    <<39,5,7>>, <<25,7,12>>, <<7,5,19>>, <<12,1,0>>, <<14,1,0>>, <<47,5,0>>, <<15,5,5>>, <<52,5,0>>,
    <<20,5,5>>, <<57,7,0>>, <<39,5,7>>, <<25,7,12>>, <<7,5,19>>, <<12,1,0>>, <<14,1,0>>, <<47,5,0>>,
    <<15,5,5>>, <<52,5,0>>, <<20,5,5>>, <<57,7,0>>, <<39,5,7>>, <<25,7,12>>, <<7,5,19>>, <<39,5,0>>,
    <<7,5,5>>, <<47,5,0>>, <<15,5,5>>, <<52,5,0>>, <<20,5,5>>, <<39,5,0>>, <<7,5,5>>, <<47,5,0>>,
    <<15,5,5>>, <<52,6,0>>, <<39,5,0>>, <<7,5,5>>, <<47,5,0>>, <<15,5,5>>, <<52,5,0>>, <<20,5,5>>,
    <<39,5,0>>, <<7,5,5>>, <<47,5,0>>, <<15,5,5>>, <<52,6,0>>, <<39,5,0>>, <<7,5,5>>, <<47,5,0>>,
    <<15,5,5>>, <<52,5,0>>, <<20,5,5>>, <<39,5,0>>, <<7,5,5>>, <<47,5,0>>, <<15,5,5>>, <<52,6,0>>,
    <<39,5,0>>, <<7,5,5>>, <<47,5,0>>, <<15,5,5>>, <<52,5,0>>, <<20,5,5>>, <<57,2,0>>, <<59,5,0>>,
    <<39,5,0>>, <<7,5,5>>, <<47,5,0>>, <<15,5,5>> >>

kFieldPieces_12 ==
  <<
    <<52,12,0>>, <<12,1,0>>, <<14,1,0>>, <<59,5,0>>, <<27,5,5>>, <<47,5,0>>, <<15,5,5>>, <<52,5,0>>,
    <<20,5,5>>, <<7,5,0>>, <<47,5,0>>, <<15,5,5>>, <<52,5,0>>, <<20,5,5>>, <<25,1,0>>, <<26,1,0>>,
    <<57,1,0>>, <<47,5,0>>, <<15,5,5>>, <<52,5,0>>, <<20,5,5>>, <<25,1,0>>, <<26,1,0>>, <<57,1,0>>,
    <<12,1,0>>, <<14,1,0>>, <<59,5,0>>, <<27,5,5>>, <<47,5,0>>, <<15,5,5>>, <<52,5,0>>, <<20,5,5>>,
    <<7,5,0>>, <<47,5,0>>, <<15,5,5>>, <<52,5,0>>, <<20,5,5>>, <<25,1,0>>, <<26,1,0>>, <<57,1,0>>,
    <<47,5,0>>, <<15,5,5>>, <<52,5,0>>, <<20,5,5>>, <<25,1,0>>, <<26,1,0>>, <<57,1,0>>, <<47,5,0>>,
    <<15,5,5>>, <<52,5,0>>, <<20,5,5>>, <<25,1,0>>, <<26,1,0>>, <<57,1,0>>, <<12,1,0>>, <<14,1,0>>,
    <<59,5,0>>, <<27,5,5>>, <<47,5,0>>, <<15,5,5>>, <<52,5,0>>, <<20,5,5>>, <<7,5,0>>, <<12,1,0>>,
    <<14,1,0>>, <<59,5,0>>, <<27,5,5>>, <<47,5,0>>, <<15,5,5>>, <<52,5,0>>, <<20,5,5>>, <<7,5,0>>,
    <<47,5,0>>, <<15,5,5>>, <<52,5,0>>, <<20,5,5>>, <<25,1,0>>, <<26,1,0>>, <<57,1,0>>, <<12,1,0>>,
    <<14,1,0>>, <<47,5,0>>, <<15,5,5>>, <<52,5,0>>, <<20,5,5>>, <<57,7,0>>, <<39,5,7>>, <<25,7,12>>,
    <<7,5,19>>, <<12,1,0>>, <<14,1,0>>, <<47,5,0>>, <<15,5,5>>, <<52,5,0>>, <<20,5,5>>, <<57,7,0>>,
    <<39,5,7>>, <<25,7,12>>, <<7,5,19>>, <<12,1,0>>, <<14,1,0>>, <<47,5,0>>, <<15,5,5>>, <<52,5,0>>,
    <<20,5,5>>, <<57,7,0>>, <<39,5,7>>, <<25,7,12>>, <<7,5,19>>, <<12,1,0>>, <<14,1,0>>, <<47,5,0>>,
    <<15,5,5>>, <<52,5,0>>, <<20,5,5>>, <<57,7,0>>, <<39,5,7>>, <<25,7,12>>, <<7,5,19>>, <<39,5,0>>,
    <<7,5,5>>, <<47,5,0>>, <<15,5,5>>, <<52,5,0>>, <<20,5,5>>, <<57,2,0>>, <<59,5,0>>, <<39,5,0>>,
    <<7,5,5>>, <<47,5,0>>, <<15,5,5>>, <<52,12,0>>, <<15,10,0>>, <<25,7,0>>, <<7,5,0>>, <<15,5,0>>,
    <<20,5,0>>, <<25,2,0>>, <<27,5,0>>, <<7,5,0>>, <<15,5,0>>, <<20,12,0>>, <<7,5,0>>, <<15,5,0>>,
    <<20,12,0>>, <<7,5,0>>, <<15,5,0>>, <<20,5,0>>, <<25,2,0>>, <<27,5,0>> >>

kFieldPieces ==
  kFieldPieces_1 \o kFieldPieces_2 \o kFieldPieces_3 \o kFieldPieces_4 \o kFieldPieces_5 \o
  kFieldPieces_6 \o kFieldPieces_7 \o kFieldPieces_8 \o kFieldPieces_9 \o kFieldPieces_10 \o
  kFieldPieces_11 \o kFieldPieces_12

(***************************************************************************)
(* name, signed_hint, bit_width, piece_start, piece_count                    *)
(***************************************************************************)
kFields_1 ==
  <<
    <<"RST_Type",-1,4,0,1>>, <<"RRA_Type",-1,4,1,1>>, <<"RegDst",-1,5,2,1>>, <<"SrcL",-1,5,3,1>>,
    <<"SrcR",-1,5,4,1>>, <<"SrcRType",-1,2,5,1>>, <<"shamt",-1,5,6,1>>, <<"RegDst",-1,5,7,1>>,
    <<"SrcL",-1,5,8,1>>, <<"uimm12",0,12,9,1>>, <<"RegDst",-1,5,10,1>>, <<"SrcL",-1,5,11,1>>,
    <<"uimm12",0,12,12,1>>, <<"RegDst",-1,5,13,1>>, <<"imm20",-1,20,14,1>>, <<"RegDst",-1,5,15,1>>,
    <<"SrcL",-1,5,16,1>>, <<"SrcR",-1,5,17,1>>, <<"SrcRType",-1,2,18,1>>, <<"shamt",-1,5,19,1>>,
    <<"RegDst",-1,5,20,1>>, <<"SrcL",-1,5,21,1>>, <<"SrcR",-1,5,22,1>>, <<"SrcRType",-1,2,23,1>>,
    <<"shamt",-1,5,24,1>>, <<"RegDst",-1,5,25,1>>, <<"SrcL",-1,5,26,1>>, <<"simm12",1,12,27,1>>,
    <<"RegDst",-1,5,28,1>>, <<"SrcL",-1,5,29,1>>, <<"simm12",1,12,30,1>>, <<"RegDst",-1,5,31,1>>,
    <<"SrcL",-1,5,32,1>>, <<"SrcR",-1,5,33,1>>, <<"SrcRType",-1,2,34,1>>, <<"shamt",-1,5,35,1>>,
    <<"SrcL",-1,5,36,1>>, <<"INIT",-1,1,37,1>>, <<"LAST",-1,1,38,1>>, <<"RegSrc",-1,5,39,1>>,
    <<"WriterSizeCode",-1,4,40,1>>, <<"uimm11",0,11,41,1>>, <<"DR",-1,1,42,1>>, <<"aq",-1,1,43,1>>,
    <<"atom",-1,1,44,1>>, <<"far",-1,1,45,1>>, <<"rl",-1,1,46,1>>, <<"trap",-1,1,47,1>>,
    <<"CMode",-1,3,48,1>>, <<"Canonicalize",-1,1,49,1>>, <<"DataType",-1,5,50,1>>,
    <<"Layout",-1,5,51,1>>, <<"PadValueOrByteId",-1,2,52,1>>, <<"PredInv",-1,1,53,1>>,
    <<"RMode",-1,3,54,1>>, <<"Sat",-1,1,55,1>>, <<"Zero",-1,1,56,1>>, <<"RegSrc",-1,5,57,1>>,
    <<"uimm17",0,17,58,2>>, <<"RegSrc",-1,5,60,1>>, <<"uimm17",0,17,61,2>>, <<"RegSrc",-1,5,63,1>>,
    <<"uimm17",0,17,64,2>>, <<"CScaleEn",-1,1,66,1>>, <<"GroupMaxEn",-1,1,67,1>>,
    <<"GroupNCode",-1,4,68,1>>, <<"MaxAbsEn",-1,1,69,1>>, <<"PreQuantMode",-1,6,70,1>>,
    <<"ReluMode",-1,3,71,1>>, <<"RowMaxEn",-1,1,72,1>>, <<"RowMaxInit",-1,1,73,1>>,
    <<"TransA",-1,1,74,1>>, <<"TransB",-1,1,75,1>>, <<"B/E",-1,1,76,1>>, <<"L/UL",-1,1,77,1>>,
    <<"V",-1,1,78,1>>, <<"prefetch_size",-1,12,79,1>>, <<"temp",-1,2,80,1>>,
    <<"ExecMaskPresent",-1,1,81,1>>, <<"RegDst",-1,5,82,1>>, <<"RegSrc0",-1,5,83,1>>,
    <<"RegSrc1",-1,5,84,1>>, <<"RegSrc2",-1,5,85,1>>, <<"PEMode",-1,3,86,1>>,
    <<"SharedTileID",-1,6,87,1>>, <<"SizeCode",-1,4,88,1>>, <<"PEMode",-1,3,89,1>>,
    <<"SharedTileID",-1,6,90,1>>, <<"L",-1,1,91,1>>, <<"PEMode",-1,3,92,1>>,
    <<"SrcTile0",-1,6,93,1>>, <<"SrcTile1",-1,6,94,1>>, <<"L",-1,1,95,1>>, <<"PEMode",-1,3,96,1>>,
    <<"SrcTile0",-1,6,97,1>>, <<"SrcTile1",-1,6,98,1>>, <<"L",-1,1,99,1>>, <<"PEMode",-1,3,100,1>>,
    <<"SrcTile0",-1,6,101,1>>, <<"SrcTile1",-1,6,102,1>>, <<"DstTile",-1,2,103,1>>,
    <<"L",-1,1,104,1>>, <<"PEMode",-1,3,105,1>>, <<"SizeCode",-1,4,106,1>>,
    <<"SrcTile0",-1,6,107,1>>, <<"DstTile",-1,2,108,1>>, <<"L",-1,1,109,1>>,
    <<"PEMode",-1,3,110,1>>, <<"SizeCode",-1,4,111,1>>, <<"SrcTile0",-1,6,112,1>>,
    <<"DstTile",-1,2,113,1>>, <<"L",-1,1,114,1>>, <<"PEMode",-1,3,115,1>>,
    <<"SizeCode",-1,4,116,1>>, <<"SrcTile0",-1,6,117,1>>, <<"SrcTile1",-1,6,118,1>>,
    <<"DstTile",-1,2,119,1>>, <<"L",-1,1,120,1>> >>

kFields_2 ==
  <<
    <<"PEMode",-1,3,121,1>>, <<"SizeCode",-1,4,122,1>>, <<"SrcTile0",-1,6,123,1>>,
    <<"SrcTile1",-1,6,124,1>>, <<"DstTile",-1,2,125,1>>, <<"L",-1,1,126,1>>,
    <<"PEMode",-1,3,127,1>>, <<"SizeCode",-1,4,128,1>>, <<"DstTile",-1,2,129,1>>,
    <<"L",-1,1,130,1>>, <<"PEMode",-1,3,131,1>>, <<"SizeCode",-1,4,132,1>>,
    <<"SrcTile0",-1,6,133,1>>, <<"SrcTile1",-1,6,134,1>>, <<"L",-1,1,135,1>>,
    <<"PEMode",-1,3,136,1>>, <<"SrcTile0",-1,6,137,1>>, <<"SrcTile1",-1,6,138,1>>,
    <<"DstTile",-1,2,139,1>>, <<"L",-1,1,140,1>>, <<"PEMode",-1,3,141,1>>,
    <<"SizeCode",-1,4,142,1>>, <<"SrcTile0",-1,6,143,1>>, <<"SrcTile1",-1,6,144,1>>,
    <<"L",-1,1,145,1>>, <<"PEMode",-1,3,146,1>>, <<"SrcTile0",-1,6,147,1>>, <<"L",-1,1,148,1>>,
    <<"PEMode",-1,3,149,1>>, <<"SrcTile0",-1,6,150,1>>, <<"RegSrc",-1,5,151,1>>,
    <<"SrcSelect",-1,1,152,1>>, <<"SubviewSizeCode",-1,4,153,1>>, <<"uimm11",0,11,154,1>>,
    <<"simm25",1,25,155,1>>, <<"SrcL",-1,5,156,1>>, <<"RegDst",-1,5,157,1>>, <<"SrcL",-1,5,158,1>>,
    <<"imml",-1,6,159,1>>, <<"imms",-1,6,160,1>>, <<"RegDst",-1,5,161,1>>, <<"SrcL",-1,5,162,1>>,
    <<"imml",-1,6,163,1>>, <<"imms",-1,6,164,1>>, <<"RegDst",-1,5,165,1>>, <<"SrcL",-1,5,166,1>>,
    <<"imml",-1,6,167,1>>, <<"imms",-1,6,168,1>>, <<"SrcL",-1,5,169,1>>, <<"simm25",1,25,170,1>>,
    <<"simm25",1,25,171,1>>, <<"simm17",1,17,172,1>>, <<"simm17",1,17,173,1>>,
    <<"simm17",1,17,174,1>>, <<"DataType",-1,5,175,1>>, <<"uimm5",0,5,176,1>>,
    <<"DataType",-1,5,177,1>>, <<"DataType",-1,5,178,1>>, <<"DataType",-1,5,179,1>>,
    <<"DataType",-1,5,180,1>>, <<"DataType",-1,5,181,1>>, <<"DataType",-1,5,182,1>>,
    <<"DataType",-1,5,183,1>>, <<"DataType",-1,5,184,1>>, <<"DataType",-1,5,185,1>>,
    <<"DataType",-1,5,186,1>>, <<"DataType",-1,5,187,1>>, <<"DataType",-1,5,188,1>>,
    <<"Mode",-1,2,189,1>>, <<"DataType",-1,5,190,1>>, <<"DataType",-1,5,191,1>>,
    <<"DataType",-1,5,192,1>>, <<"DataType",-1,5,193,1>>, <<"DataType",-1,5,194,1>>,
    <<"DataType",-1,5,195,1>>, <<"DataType",-1,5,196,1>>, <<"DataType",-1,5,197,1>>,
    <<"DataType",-1,5,198,1>>, <<"DataType",-1,5,199,1>>, <<"DataType",-1,5,200,1>>,
    <<"Mode",-1,2,201,1>>, <<"simm17",1,17,202,1>>, <<"simm17",1,17,203,1>>,
    <<"simm17",1,17,204,1>>, <<"DataType",-1,5,205,1>>, <<"Function",-1,5,206,1>>,
    <<"Mode",-1,2,207,1>>, <<"DataType",-1,5,208,1>>, <<"DataType",-1,5,209,1>>,
    <<"DataType",-1,5,210,1>>, <<"DataType",-1,5,211,1>>, <<"DataType",-1,5,212,1>>,
    <<"DataType",-1,5,213,1>>, <<"DataType",-1,5,214,1>>, <<"DataType",-1,5,215,1>>,
    <<"DataType",-1,5,216,1>>, <<"DataType",-1,5,217,1>>, <<"DataType",-1,5,218,1>>,
    <<"DataType",-1,5,219,1>>, <<"DataType",-1,5,220,1>>, <<"DataType",-1,5,221,1>>,
    <<"DataType",-1,5,222,1>>, <<"DataType",-1,5,223,1>>, <<"DataType",-1,5,224,1>>,
    <<"Mode",-1,2,225,1>>, <<"Mode",-1,2,226,1>>, <<"SrcL",-1,5,227,1>>, <<"SrcL",-1,5,228,1>>,
    <<"SrcL",-1,5,229,1>>, <<"RegDst",-1,5,230,1>>, <<"SrcL",-1,5,231,1>>, <<"imml",-1,6,232,1>>,
    <<"imms",-1,6,233,1>>, <<"RegDst",-1,5,234,1>>, <<"SrcL",-1,5,235,1>>, <<"imml",-1,6,236,1>>,
    <<"imms",-1,6,237,1>>, <<"SrcL",-1,5,238,1>>, <<"SrcR",-1,5,239,1>>, <<"SrcL",-1,5,240,1>>,
    <<"simm5",1,5,241,1>>, <<"SrcL",-1,5,242,1>>, <<"SrcR",-1,5,243,1>>, <<"LoopNest",-1,2,244,1>>,
    <<"imm8",-1,8,245,1>>, <<"simm12",1,12,246,1>>, <<"simm12",1,12,247,1>>,
    <<"BrType",-1,3,248,1>>, <<"BrType",-1,3,249,1>>, <<"simm5",1,5,250,1>>, <<"simm5",1,5,251,1>>,
    <<"imm5",-1,5,252,1>>, <<"SrcL",-1,5,253,1>>, <<"simm5",1,5,254,1>>, <<"SrcL",-1,5,255,1>>,
    <<"simm5",1,5,256,1>>, <<"RegDst",-1,5,257,1>>, <<"simm5",1,5,258,1>>, <<"RegDst",-1,5,259,1>>,
    <<"SrcL",-1,5,260,1>>, <<"SrcL",-1,5,261,1>>, <<"SrcR",-1,5,262,1>>, <<"SrcL",-1,5,263,1>>,
    <<"simm5",1,5,264,1>>, <<"SrcL",-1,5,265,1>>, <<"SrcR",-1,5,266,1>> >>

kFields_3 ==
  <<
    <<"SrcL",-1,5,267,1>>, <<"SrcR",-1,5,268,1>>, <<"SrcL",-1,5,269,1>>, <<"uimm5",0,5,270,1>>,
    <<"SrcL",-1,5,271,1>>, <<"SrcL",-1,5,272,1>>, <<"SrcL",-1,5,273,1>>, <<"uimm5",0,5,274,1>>,
    <<"uimm5",0,5,275,1>>, <<"SSRID",-1,5,276,1>>, <<"SrcL",-1,5,277,1>>, <<"SrcR",-1,5,278,1>>,
    <<"SrcL",-1,5,279,1>>, <<"simm5",1,5,280,1>>, <<"SrcL",-1,5,281,1>>, <<"SrcL",-1,5,282,1>>,
    <<"SrcL",-1,5,283,1>>, <<"RegDst",-1,5,284,1>>, <<"SrcD",-1,5,285,1>>, <<"SrcL",-1,5,286,1>>,
    <<"SrcR",-1,5,287,1>>, <<"aq",-1,1,288,1>>, <<"rl",-1,1,289,1>>, <<"RegDst",-1,5,290,1>>,
    <<"SrcD",-1,5,291,1>>, <<"SrcL",-1,5,292,1>>, <<"SrcR",-1,5,293,1>>, <<"aq",-1,1,294,1>>,
    <<"rl",-1,1,295,1>>, <<"RegDst",-1,5,296,1>>, <<"SrcD",-1,5,297,1>>, <<"SrcL",-1,5,298,1>>,
    <<"SrcR",-1,5,299,1>>, <<"aq",-1,1,300,1>>, <<"rl",-1,1,301,1>>, <<"RegDst",-1,5,302,1>>,
    <<"SrcD",-1,5,303,1>>, <<"SrcL",-1,5,304,1>>, <<"SrcR",-1,5,305,1>>, <<"aq",-1,1,306,1>>,
    <<"rl",-1,1,307,1>>, <<"RegDst",-1,5,308,1>>, <<"SrcL",-1,5,309,1>>, <<"imml",-1,6,310,1>>,
    <<"imms",-1,6,311,1>>, <<"RegDst",-1,5,312,1>>, <<"SrcL",-1,5,313,1>>, <<"SrcR",-1,5,314,1>>,
    <<"SrcRType",-1,2,315,1>>, <<"RegDst",-1,5,316,1>>, <<"SrcL",-1,5,317,1>>,
    <<"simm12",1,12,318,1>>, <<"RegDst",-1,5,319,1>>, <<"SrcL",-1,5,320,1>>, <<"SrcR",-1,5,321,1>>,
    <<"SrcRType",-1,2,322,1>>, <<"RegDst",-1,5,323,1>>, <<"SrcL",-1,5,324,1>>,
    <<"simm12",1,12,325,1>>, <<"RegDst",-1,5,326,1>>, <<"SrcL",-1,5,327,1>>, <<"SrcR",-1,5,328,1>>,
    <<"SrcRType",-1,2,329,1>>, <<"RegDst",-1,5,330,1>>, <<"SrcL",-1,5,331,1>>,
    <<"simm12",1,12,332,1>>, <<"RegDst",-1,5,333,1>>, <<"SrcL",-1,5,334,1>>, <<"SrcR",-1,5,335,1>>,
    <<"SrcRType",-1,2,336,1>>, <<"RegDst",-1,5,337,1>>, <<"SrcL",-1,5,338,1>>,
    <<"uimm12",0,12,339,1>>, <<"RegDst",-1,5,340,1>>, <<"SrcL",-1,5,341,1>>, <<"SrcR",-1,5,342,1>>,
    <<"SrcRType",-1,2,343,1>>, <<"RegDst",-1,5,344,1>>, <<"SrcL",-1,5,345,1>>,
    <<"simm12",1,12,346,1>>, <<"RegDst",-1,5,347,1>>, <<"SrcL",-1,5,348,1>>, <<"SrcR",-1,5,349,1>>,
    <<"SrcRType",-1,2,350,1>>, <<"RegDst",-1,5,351,1>>, <<"SrcL",-1,5,352,1>>,
    <<"uimm12",0,12,353,1>>, <<"RegDst",-1,5,354,1>>, <<"SrcL",-1,5,355,1>>, <<"SrcR",-1,5,356,1>>,
    <<"SrcRType",-1,2,357,1>>, <<"RegDst",-1,5,358,1>>, <<"SrcL",-1,5,359,1>>,
    <<"simm12",1,12,360,1>>, <<"RegDst",-1,5,361,1>>, <<"SrcL",-1,5,362,1>>, <<"SrcR",-1,5,363,1>>,
    <<"SrcRType",-1,2,364,1>>, <<"RegDst",-1,5,365,1>>, <<"SrcL",-1,5,366,1>>,
    <<"simm12",1,12,367,1>>, <<"RegDst",-1,5,368,1>>, <<"SrcL",-1,5,369,1>>, <<"SrcP",-1,5,370,1>>,
    <<"SrcR",-1,5,371,1>>, <<"SrcRType",-1,2,372,1>>, <<"RegDst",-1,5,373,1>>,
    <<"SrcL",-1,5,374,1>>, <<"imml",-1,6,375,1>>, <<"imms",-1,6,376,1>>, <<"SrcL",-1,5,377,1>>,
    <<"SrcL",-1,5,378,1>>, <<"SrcL",-1,5,379,1>>, <<"SrcL",-1,5,380,1>>, <<"SrcL",-1,5,381,1>>,
    <<"SrcL",-1,5,382,1>>, <<"SrcL",-1,5,383,1>>, <<"RegDst",-1,5,384,1>>, <<"SrcL",-1,5,385,1>>,
    <<"SrcR",-1,5,386,1>>, <<"RegDst",-1,5,387,1>>, <<"SrcL",-1,5,388,1>>, <<"SrcR",-1,5,389,1>>,
    <<"RegDst",-1,5,390,1>>, <<"SrcL",-1,5,391,1>>, <<"SrcR",-1,5,392,1>>, <<"RegDst",-1,5,393,1>>,
    <<"SrcL",-1,5,394,1>>, <<"SrcR",-1,5,395,1>>, <<"SrcL",-1,5,396,1>>, <<"SrcR",-1,5,397,1>>,
    <<"SrcL",-1,5,398,1>>, <<"SrcL",-1,5,399,1>>, <<"imm4",-1,4,400,1>>, <<"RegSrc0",-1,5,401,1>>,
    <<"RegSrc1",-1,5,402,1>>, <<"RegSrc2",-1,5,403,1>>, <<"RegSrc0",-1,5,404,1>>,
    <<"RegSrc1",-1,5,405,1>>, <<"RegSrc2",-1,5,406,1>>, <<"RegDst",-1,5,407,1>>,
    <<"SrcL",-1,5,408,1>>, <<"SrcType",-1,2,409,1>>, <<"RegDst",-1,5,410,1>>, <<"SrcL",-1,5,411,1>>,
    <<"SrcR",-1,5,412,1>>, <<"SrcType",-1,2,413,1>>, <<"DstType",-1,5,414,1>>,
    <<"RegDst",-1,5,415,1>>, <<"SrcL",-1,5,416,1>> >>

kFields_4 ==
  <<
    <<"SrcType",-1,2,417,1>>, <<"DstType",-1,5,418,1>>, <<"RegDst",-1,5,419,1>>,
    <<"SrcL",-1,5,420,1>>, <<"SrcType",-1,2,421,1>>, <<"DstType",-1,5,422,1>>,
    <<"RegDst",-1,5,423,1>>, <<"SrcL",-1,5,424,1>>, <<"SrcType",-1,2,425,1>>,
    <<"DstType",-1,5,426,1>>, <<"RegDst",-1,5,427,1>>, <<"SrcL",-1,5,428,1>>,
    <<"SrcType",-1,2,429,1>>, <<"DstType",-1,5,430,1>>, <<"RegDst",-1,5,431,1>>,
    <<"SrcL",-1,5,432,1>>, <<"SrcType",-1,2,433,1>>, <<"DstType",-1,5,434,1>>,
    <<"RegDst",-1,5,435,1>>, <<"SrcL",-1,5,436,1>>, <<"SrcType",-1,2,437,1>>,
    <<"RegDst",-1,5,438,1>>, <<"SrcL",-1,5,439,1>>, <<"SrcR",-1,5,440,1>>, <<"SrcType",-1,2,441,1>>,
    <<"PRED_IMM",-1,4,442,1>>, <<"SUCC_IMM",-1,4,443,1>>, <<"SrcBegin",-1,5,444,1>>,
    <<"SrcEnd",-1,5,445,1>>, <<"uimm",0,12,446,2>>, <<"RegDst",-1,5,448,1>>, <<"SrcL",-1,5,449,1>>,
    <<"SrcR",-1,5,450,1>>, <<"SrcType",-1,2,451,1>>, <<"RegDst",-1,5,452,1>>, <<"SrcL",-1,5,453,1>>,
    <<"SrcR",-1,5,454,1>>, <<"SrcType",-1,2,455,1>>, <<"DstBegin",-1,5,456,1>>,
    <<"DstEnd",-1,5,457,1>>, <<"uimm",0,12,458,2>>, <<"RegDst",-1,5,460,1>>, <<"SrcL",-1,5,461,1>>,
    <<"SrcType",-1,2,462,1>>, <<"RegDst",-1,5,463,1>>, <<"SrcL",-1,5,464,1>>, <<"SrcR",-1,5,465,1>>,
    <<"SrcType",-1,2,466,1>>, <<"RegDst",-1,5,467,1>>, <<"SrcL",-1,5,468,1>>, <<"SrcR",-1,5,469,1>>,
    <<"SrcType",-1,2,470,1>>, <<"RegDst",-1,5,471,1>>, <<"SrcL",-1,5,472,1>>, <<"SrcR",-1,5,473,1>>,
    <<"SrcType",-1,2,474,1>>, <<"RegDst",-1,5,475,1>>, <<"SrcL",-1,5,476,1>>, <<"SrcR",-1,5,477,1>>,
    <<"SrcType",-1,2,478,1>>, <<"RegDst",-1,5,479,1>>, <<"SrcA",-1,5,480,1>>, <<"SrcL",-1,5,481,1>>,
    <<"SrcR",-1,5,482,1>>, <<"SrcType",-1,2,483,1>>, <<"RegDst",-1,5,484,1>>, <<"SrcL",-1,5,485,1>>,
    <<"SrcR",-1,5,486,1>>, <<"SrcType",-1,2,487,1>>, <<"RegDst",-1,5,488,1>>, <<"SrcL",-1,5,489,1>>,
    <<"SrcR",-1,5,490,1>>, <<"SrcType",-1,2,491,1>>, <<"RegDst",-1,5,492,1>>, <<"SrcA",-1,5,493,1>>,
    <<"SrcL",-1,5,494,1>>, <<"SrcR",-1,5,495,1>>, <<"SrcType",-1,2,496,1>>, <<"RegDst",-1,5,497,1>>,
    <<"SrcL",-1,5,498,1>>, <<"SrcR",-1,5,499,1>>, <<"SrcType",-1,2,500,1>>, <<"RegDst",-1,5,501,1>>,
    <<"SrcL",-1,5,502,1>>, <<"SrcR",-1,5,503,1>>, <<"SrcType",-1,2,504,1>>, <<"RegDst",-1,5,505,1>>,
    <<"SrcL",-1,5,506,1>>, <<"SrcR",-1,5,507,1>>, <<"SrcType",-1,2,508,1>>, <<"RegDst",-1,5,509,1>>,
    <<"SrcA",-1,5,510,1>>, <<"SrcL",-1,5,511,1>>, <<"SrcR",-1,5,512,1>>, <<"SrcType",-1,2,513,1>>,
    <<"RegDst",-1,5,514,1>>, <<"SrcA",-1,5,515,1>>, <<"SrcL",-1,5,516,1>>, <<"SrcR",-1,5,517,1>>,
    <<"SrcType",-1,2,518,1>>, <<"RegDst",-1,5,519,1>>, <<"SrcL",-1,5,520,1>>,
    <<"SrcType",-1,2,521,1>>, <<"DstBegin",-1,5,522,1>>, <<"DstEnd",-1,5,523,1>>,
    <<"uimm",0,12,524,2>>, <<"DstEnd",-1,5,526,1>>, <<"uimm",0,12,527,2>>, <<"RegDst",-1,5,529,1>>,
    <<"SrcL",-1,5,530,1>>, <<"SrcType",-1,2,531,1>>, <<"RegDst",-1,5,532,1>>, <<"SrcL",-1,5,533,1>>,
    <<"SrcR",-1,5,534,1>>, <<"SrcType",-1,2,535,1>>, <<"RegDst",-1,5,536,1>>, <<"SrcL",-1,5,537,1>>,
    <<"uimm24",0,24,538,2>>, <<"RegDst",-1,5,540,1>>, <<"SrcL",-1,5,541,1>>,
    <<"uimm24",0,24,542,2>>, <<"RegDst",-1,5,544,1>>, <<"imm32",-1,32,545,2>>,
    <<"RegDst",-1,5,547,1>>, <<"SrcL",-1,5,548,1>>, <<"simm24",1,24,549,2>>,
    <<"RegDst",-1,5,551,1>>, <<"SrcL",-1,5,552,1>>, <<"simm24",1,24,553,2>>,
    <<"RegDst",-1,5,555,1>>, <<"SrcL",-1,5,556,1>>, <<"SrcR",-1,5,557,1>>, <<"immr",-1,6,558,1>>,
    <<"imms",-1,6,559,1>>, <<"simm25",1,25,560,1>>, <<"uimm5",0,5,561,1>>, <<"simm",1,30,562,2>>,
    <<"simm",1,30,564,2>>, <<"simm",1,30,566,2>>, <<"simm",1,30,568,2>>, <<"simm",1,30,570,2>>,
    <<"simm",1,30,572,2>>, <<"simm",1,30,574,2>>, <<"simm",1,30,576,2>>, <<"simm",1,30,578,2>>,
    <<"RegDst",-1,5,580,1>>, <<"SrcD",-1,5,581,1>>, <<"SrcL",-1,5,582,1>>, <<"SrcR",-1,5,583,1>>,
    <<"aq",-1,1,584,1>> >>

kFields_5 ==
  <<
    <<"far",-1,1,585,1>>, <<"rl",-1,1,586,1>>, <<"RegDst",-1,5,587,1>>, <<"SrcD",-1,5,588,1>>,
    <<"SrcL",-1,5,589,1>>, <<"SrcR",-1,5,590,1>>, <<"aq",-1,1,591,1>>, <<"far",-1,1,592,1>>,
    <<"rl",-1,1,593,1>>, <<"RegDst",-1,5,594,1>>, <<"SrcD",-1,5,595,1>>, <<"SrcL",-1,5,596,1>>,
    <<"SrcR",-1,5,597,1>>, <<"aq",-1,1,598,1>>, <<"far",-1,1,599,1>>, <<"rl",-1,1,600,1>>,
    <<"RegDst",-1,5,601,1>>, <<"SrcD",-1,5,602,1>>, <<"SrcL",-1,5,603,1>>, <<"SrcR",-1,5,604,1>>,
    <<"aq",-1,1,605,1>>, <<"far",-1,1,606,1>>, <<"rl",-1,1,607,1>>, <<"RegDst0",-1,5,608,1>>,
    <<"RegDst1",-1,5,609,1>>, <<"SrcL",-1,5,610,1>>, <<"SrcR",-1,5,611,1>>, <<"shamt",-1,7,612,1>>,
    <<"RegDst0",-1,5,613,1>>, <<"RegDst1",-1,5,614,1>>, <<"SrcL",-1,5,615,1>>,
    <<"SrcR",-1,5,616,1>>, <<"shamt",-1,7,617,1>>, <<"RegDst",-1,5,618,1>>, <<"SrcL",-1,5,619,1>>,
    <<"simm24",1,24,620,2>>, <<"RegDst",-1,5,622,1>>, <<"SrcL",-1,5,623,1>>,
    <<"simm24",1,24,624,2>>, <<"RegDst",-1,5,626,1>>, <<"SrcL",-1,5,627,1>>,
    <<"simm24",1,24,628,2>>, <<"RegDst",-1,5,630,1>>, <<"SrcL",-1,5,631,1>>,
    <<"uimm24",0,24,632,2>>, <<"RegDst",-1,5,634,1>>, <<"SrcL",-1,5,635,1>>,
    <<"simm24",1,24,636,2>>, <<"RegDst",-1,5,638,1>>, <<"SrcL",-1,5,639,1>>,
    <<"uimm24",0,24,640,2>>, <<"RegDst",-1,5,642,1>>, <<"SrcL",-1,5,643,1>>,
    <<"simm24",1,24,644,2>>, <<"RegDst",-1,5,646,1>>, <<"SrcL",-1,5,647,1>>,
    <<"simm24",1,24,648,2>>, <<"RegDst0",-1,5,650,1>>, <<"RegDst1",-1,5,651,1>>,
    <<"SrcL",-1,5,652,1>>, <<"SrcR",-1,5,653,1>>, <<"RegDst0",-1,5,654,1>>,
    <<"RegDst1",-1,5,655,1>>, <<"SrcL",-1,5,656,1>>, <<"SrcR",-1,5,657,1>>,
    <<"RegDst0",-1,5,658,1>>, <<"RegDst1",-1,5,659,1>>, <<"SrcL",-1,5,660,1>>,
    <<"SrcR",-1,5,661,1>>, <<"RegDst0",-1,5,662,1>>, <<"RegDst1",-1,5,663,1>>,
    <<"SrcL",-1,5,664,1>>, <<"SrcR",-1,5,665,1>>, <<"RegDst",-1,5,666,1>>, <<"simm",1,29,667,2>>,
    <<"RegDst0",-1,5,669,1>>, <<"RegDst1",-1,5,670,1>>, <<"SrcL",-1,5,671,1>>,
    <<"SrcR",-1,5,672,1>>, <<"SrcRType",-1,2,673,1>>, <<"shamt",-1,5,674,1>>,
    <<"RegDst0",-1,5,675,1>>, <<"RegDst1",-1,5,676,1>>, <<"SrcL",-1,5,677,1>>,
    <<"SrcR",-1,5,678,1>>, <<"SrcRType",-1,2,679,1>>, <<"shamt",-1,5,680,1>>,
    <<"RegDst",-1,5,681,1>>, <<"SrcL",-1,5,682,1>>, <<"simm22",1,22,683,2>>,
    <<"RegDst0",-1,5,685,1>>, <<"RegDst1",-1,5,686,1>>, <<"SrcL",-1,5,687,1>>,
    <<"simm17",1,17,688,2>>, <<"RegDst0",-1,5,690,1>>, <<"RegDst1",-1,5,691,1>>,
    <<"SrcL",-1,5,692,1>>, <<"simm17",1,17,693,2>>, <<"RegDst0",-1,5,695,1>>,
    <<"RegDst1",-1,5,696,1>>, <<"SrcL",-1,5,697,1>>, <<"simm17",1,17,698,2>>,
    <<"RegDst0",-1,5,700,1>>, <<"RegDst1",-1,5,701,1>>, <<"SrcL",-1,5,702,1>>,
    <<"SrcR",-1,5,703,1>>, <<"SrcRType",-1,2,704,1>>, <<"shamt",-1,5,705,1>>,
    <<"RegDst",-1,5,706,1>>, <<"simm",1,29,707,2>>, <<"RegDst0",-1,5,709,1>>,
    <<"RegDst1",-1,5,710,1>>, <<"SrcL",-1,5,711,1>>, <<"SrcR",-1,5,712,1>>,
    <<"SrcRType",-1,2,713,1>>, <<"shamt",-1,5,714,1>>, <<"RegDst0",-1,5,715,1>>,
    <<"RegDst1",-1,5,716,1>>, <<"SrcL",-1,5,717,1>>, <<"SrcR",-1,5,718,1>>,
    <<"SrcRType",-1,2,719,1>>, <<"shamt",-1,5,720,1>>, <<"RegDst",-1,5,721,1>>,
    <<"SrcL",-1,5,722,1>>, <<"simm22",1,22,723,2>>, <<"RegDst0",-1,5,725,1>>,
    <<"RegDst1",-1,5,726,1>>, <<"SrcL",-1,5,727,1>>, <<"simm17",1,17,728,2>>,
    <<"RegDst0",-1,5,730,1>>, <<"RegDst1",-1,5,731,1>>, <<"SrcL",-1,5,732,1>>,
    <<"simm17",1,17,733,2>>, <<"RegDst0",-1,5,735,1>>, <<"RegDst1",-1,5,736,1>>,
    <<"SrcL",-1,5,737,1>>, <<"simm17",1,17,738,2>>, <<"RegDst0",-1,5,740,1>>,
    <<"RegDst1",-1,5,741,1>>, <<"SrcL",-1,5,742,1>>, <<"SrcR",-1,5,743,1>>,
    <<"SrcRType",-1,2,744,1>>, <<"shamt",-1,5,745,1>>, <<"RegDst",-1,5,746,1>>,
    <<"simm",1,29,747,2>>, <<"RegDst0",-1,5,749,1>>, <<"RegDst1",-1,5,750,1>>,
    <<"SrcL",-1,5,751,1>>, <<"SrcR",-1,5,752,1>>, <<"SrcRType",-1,2,753,1>> >>

kFields_6 ==
  <<
    <<"shamt",-1,5,754,1>>, <<"RegDst0",-1,5,755,1>>, <<"RegDst1",-1,5,756,1>>,
    <<"SrcL",-1,5,757,1>>, <<"SrcR",-1,5,758,1>>, <<"SrcRType",-1,2,759,1>>, <<"shamt",-1,5,760,1>>,
    <<"RegDst",-1,5,761,1>>, <<"SrcL",-1,5,762,1>>, <<"simm22",1,22,763,2>>,
    <<"RegDst0",-1,5,765,1>>, <<"RegDst1",-1,5,766,1>>, <<"SrcL",-1,5,767,1>>,
    <<"simm17",1,17,768,2>>, <<"RegDst0",-1,5,770,1>>, <<"RegDst1",-1,5,771,1>>,
    <<"SrcL",-1,5,772,1>>, <<"simm17",1,17,773,2>>, <<"RegDst",-1,5,775,1>>, <<"SrcL",-1,5,776,1>>,
    <<"simm22",1,22,777,2>>, <<"RegDst0",-1,5,779,1>>, <<"RegDst1",-1,5,780,1>>,
    <<"SrcL",-1,5,781,1>>, <<"simm17",1,17,782,2>>, <<"RegDst0",-1,5,784,1>>,
    <<"RegDst1",-1,5,785,1>>, <<"SrcL",-1,5,786,1>>, <<"simm17",1,17,787,2>>,
    <<"RegDst0",-1,5,789,1>>, <<"RegDst1",-1,5,790,1>>, <<"SrcL",-1,5,791,1>>,
    <<"simm17",1,17,792,2>>, <<"RegDst0",-1,5,794,1>>, <<"RegDst1",-1,5,795,1>>,
    <<"SrcL",-1,5,796,1>>, <<"simm17",1,17,797,2>>, <<"RegDst0",-1,5,799,1>>,
    <<"RegDst1",-1,5,800,1>>, <<"SrcL",-1,5,801,1>>, <<"SrcR",-1,5,802,1>>,
    <<"SrcRType",-1,2,803,1>>, <<"shamt",-1,5,804,1>>, <<"RegDst",-1,5,805,1>>,
    <<"simm",1,29,806,2>>, <<"RegDst0",-1,5,808,1>>, <<"RegDst1",-1,5,809,1>>,
    <<"SrcL",-1,5,810,1>>, <<"SrcR",-1,5,811,1>>, <<"SrcRType",-1,2,812,1>>, <<"shamt",-1,5,813,1>>,
    <<"RegDst0",-1,5,814,1>>, <<"RegDst1",-1,5,815,1>>, <<"SrcL",-1,5,816,1>>,
    <<"SrcR",-1,5,817,1>>, <<"SrcRType",-1,2,818,1>>, <<"shamt",-1,5,819,1>>,
    <<"RegDst",-1,5,820,1>>, <<"SrcL",-1,5,821,1>>, <<"simm22",1,22,822,2>>,
    <<"RegDst0",-1,5,824,1>>, <<"RegDst1",-1,5,825,1>>, <<"SrcL",-1,5,826,1>>,
    <<"simm17",1,17,827,2>>, <<"RegDst0",-1,5,829,1>>, <<"RegDst1",-1,5,830,1>>,
    <<"SrcL",-1,5,831,1>>, <<"simm17",1,17,832,2>>, <<"RegDst",-1,5,834,1>>, <<"SrcL",-1,5,835,1>>,
    <<"simm22",1,22,836,2>>, <<"RegDst0",-1,5,838,1>>, <<"RegDst1",-1,5,839,1>>,
    <<"SrcL",-1,5,840,1>>, <<"simm17",1,17,841,2>>, <<"RegDst0",-1,5,843,1>>,
    <<"RegDst1",-1,5,844,1>>, <<"SrcL",-1,5,845,1>>, <<"simm17",1,17,846,2>>,
    <<"RegDst0",-1,5,848,1>>, <<"RegDst1",-1,5,849,1>>, <<"SrcL",-1,5,850,1>>,
    <<"simm17",1,17,851,2>>, <<"RegDst0",-1,5,853,1>>, <<"RegDst1",-1,5,854,1>>,
    <<"SrcL",-1,5,855,1>>, <<"simm17",1,17,856,2>>, <<"RegDst0",-1,5,858,1>>,
    <<"RegDst1",-1,5,859,1>>, <<"SrcL",-1,5,860,1>>, <<"SrcR",-1,5,861,1>>,
    <<"SrcRType",-1,2,862,1>>, <<"shamt",-1,5,863,1>>, <<"RegDst",-1,5,864,1>>,
    <<"simm",1,29,865,2>>, <<"RegDst0",-1,5,867,1>>, <<"RegDst1",-1,5,868,1>>,
    <<"SrcL",-1,5,869,1>>, <<"SrcR",-1,5,870,1>>, <<"SrcRType",-1,2,871,1>>, <<"shamt",-1,5,872,1>>,
    <<"RegDst0",-1,5,873,1>>, <<"RegDst1",-1,5,874,1>>, <<"SrcL",-1,5,875,1>>,
    <<"SrcR",-1,5,876,1>>, <<"SrcRType",-1,2,877,1>>, <<"shamt",-1,5,878,1>>,
    <<"RegDst",-1,5,879,1>>, <<"SrcL",-1,5,880,1>>, <<"simm22",1,22,881,2>>,
    <<"RegDst0",-1,5,883,1>>, <<"RegDst1",-1,5,884,1>>, <<"SrcL",-1,5,885,1>>,
    <<"simm17",1,17,886,2>>, <<"RegDst0",-1,5,888,1>>, <<"RegDst1",-1,5,889,1>>,
    <<"SrcL",-1,5,890,1>>, <<"simm17",1,17,891,2>>, <<"RegDst",-1,5,893,1>>, <<"SrcL",-1,5,894,1>>,
    <<"simm22",1,22,895,2>>, <<"RegDst0",-1,5,897,1>>, <<"RegDst1",-1,5,898,1>>,
    <<"SrcL",-1,5,899,1>>, <<"simm17",1,17,900,2>>, <<"RegDst0",-1,5,902,1>>,
    <<"RegDst1",-1,5,903,1>>, <<"SrcL",-1,5,904,1>>, <<"simm17",1,17,905,2>>,
    <<"RegDst0",-1,5,907,1>>, <<"RegDst1",-1,5,908,1>>, <<"SrcL",-1,5,909,1>>,
    <<"simm17",1,17,910,2>>, <<"RegDst0",-1,5,912,1>>, <<"RegDst1",-1,5,913,1>>,
    <<"SrcL",-1,5,914,1>>, <<"simm17",1,17,915,2>>, <<"RegDst0",-1,5,917,1>>,
    <<"RegDst1",-1,5,918,1>>, <<"SrcL",-1,5,919,1>>, <<"SrcR",-1,5,920,1>>,
    <<"SrcRType",-1,2,921,1>>, <<"shamt",-1,5,922,1>>, <<"RegDst",-1,5,923,1>>,
    <<"simm32",1,32,924,2>>, <<"RegDst",-1,5,926,1>>, <<"uimm32",0,32,927,2>>,
    <<"RegDst",-1,5,929,1>>, <<"imm",-1,32,930,2>>, <<"RegDst",-1,5,932,1>> >>

kFields_7 ==
  <<
    <<"simm",1,29,933,2>>, <<"RegDst0",-1,5,935,1>>, <<"RegDst1",-1,5,936,1>>,
    <<"SrcL",-1,5,937,1>>, <<"SrcR",-1,5,938,1>>, <<"SrcRType",-1,2,939,1>>, <<"shamt",-1,5,940,1>>,
    <<"RegDst0",-1,5,941,1>>, <<"RegDst1",-1,5,942,1>>, <<"SrcL",-1,5,943,1>>,
    <<"SrcR",-1,5,944,1>>, <<"SrcRType",-1,2,945,1>>, <<"shamt",-1,5,946,1>>,
    <<"RegDst",-1,5,947,1>>, <<"SrcL",-1,5,948,1>>, <<"simm22",1,22,949,2>>,
    <<"RegDst0",-1,5,951,1>>, <<"RegDst1",-1,5,952,1>>, <<"SrcL",-1,5,953,1>>,
    <<"simm17",1,17,954,2>>, <<"RegDst0",-1,5,956,1>>, <<"RegDst1",-1,5,957,1>>,
    <<"SrcL",-1,5,958,1>>, <<"simm17",1,17,959,2>>, <<"RegDst",-1,5,961,1>>, <<"SrcL",-1,5,962,1>>,
    <<"simm22",1,22,963,2>>, <<"RegDst0",-1,5,965,1>>, <<"RegDst1",-1,5,966,1>>,
    <<"SrcL",-1,5,967,1>>, <<"simm17",1,17,968,2>>, <<"RegDst0",-1,5,970,1>>,
    <<"RegDst1",-1,5,971,1>>, <<"SrcL",-1,5,972,1>>, <<"simm17",1,17,973,2>>,
    <<"RegDst0",-1,5,975,1>>, <<"RegDst1",-1,5,976,1>>, <<"SrcL",-1,5,977,1>>,
    <<"simm17",1,17,978,2>>, <<"RegDst0",-1,5,980,1>>, <<"RegDst1",-1,5,981,1>>,
    <<"SrcL",-1,5,982,1>>, <<"simm17",1,17,983,2>>, <<"RegDst0",-1,5,985,1>>,
    <<"RegDst1",-1,5,986,1>>, <<"SrcL",-1,5,987,1>>, <<"SrcR",-1,5,988,1>>,
    <<"SrcRType",-1,2,989,1>>, <<"shamt",-1,5,990,1>>, <<"RegDst",-1,5,991,1>>,
    <<"simm",1,29,992,2>>, <<"RegDst0",-1,5,994,1>>, <<"RegDst1",-1,5,995,1>>,
    <<"SrcL",-1,5,996,1>>, <<"SrcR",-1,5,997,1>>, <<"SrcRType",-1,2,998,1>>, <<"shamt",-1,5,999,1>>,
    <<"RegDst0",-1,5,1000,1>>, <<"RegDst1",-1,5,1001,1>>, <<"SrcL",-1,5,1002,1>>,
    <<"SrcR",-1,5,1003,1>>, <<"SrcRType",-1,2,1004,1>>, <<"shamt",-1,5,1005,1>>,
    <<"RegDst",-1,5,1006,1>>, <<"SrcL",-1,5,1007,1>>, <<"simm22",1,22,1008,2>>,
    <<"RegDst0",-1,5,1010,1>>, <<"RegDst1",-1,5,1011,1>>, <<"SrcL",-1,5,1012,1>>,
    <<"simm17",1,17,1013,2>>, <<"RegDst0",-1,5,1015,1>>, <<"RegDst1",-1,5,1016,1>>,
    <<"SrcL",-1,5,1017,1>>, <<"simm17",1,17,1018,2>>, <<"RegDst",-1,5,1020,1>>,
    <<"SrcL",-1,5,1021,1>>, <<"simm22",1,22,1022,2>>, <<"RegDst0",-1,5,1024,1>>,
    <<"RegDst1",-1,5,1025,1>>, <<"SrcL",-1,5,1026,1>>, <<"simm17",1,17,1027,2>>,
    <<"RegDst0",-1,5,1029,1>>, <<"RegDst1",-1,5,1030,1>>, <<"SrcL",-1,5,1031,1>>,
    <<"simm17",1,17,1032,2>>, <<"RegDst0",-1,5,1034,1>>, <<"RegDst1",-1,5,1035,1>>,
    <<"SrcL",-1,5,1036,1>>, <<"simm17",1,17,1037,2>>, <<"RegDst0",-1,5,1039,1>>,
    <<"RegDst1",-1,5,1040,1>>, <<"SrcL",-1,5,1041,1>>, <<"simm17",1,17,1042,2>>,
    <<"RegDst0",-1,5,1044,1>>, <<"RegDst1",-1,5,1045,1>>, <<"SrcL",-1,5,1046,1>>,
    <<"SrcR",-1,5,1047,1>>, <<"SrcRType",-1,2,1048,1>>, <<"shamt",-1,5,1049,1>>,
    <<"RegDst0",-1,5,1050,1>>, <<"RegDst1",-1,5,1051,1>>, <<"SrcD",-1,5,1052,1>>,
    <<"SrcL",-1,5,1053,1>>, <<"SrcR",-1,5,1054,1>>, <<"RegDst0",-1,5,1055,1>>,
    <<"RegDst1",-1,5,1056,1>>, <<"SrcD",-1,5,1057,1>>, <<"SrcL",-1,5,1058,1>>,
    <<"SrcR",-1,5,1059,1>>, <<"RegDst",-1,5,1060,1>>, <<"SrcL",-1,5,1061,1>>,
    <<"SrcR",-1,5,1062,1>>, <<"uimm19",0,19,1063,2>>, <<"RegDst",-1,5,1065,1>>,
    <<"SrcL",-1,5,1066,1>>, <<"SrcR",-1,5,1067,1>>, <<"uimm19",0,19,1068,2>>,
    <<"RegDst0",-1,5,1070,1>>, <<"RegDst1",-1,5,1071,1>>, <<"SrcL",-1,5,1072,1>>,
    <<"SrcR",-1,5,1073,1>>, <<"RegDst0",-1,5,1074,1>>, <<"RegDst1",-1,5,1075,1>>,
    <<"SrcL",-1,5,1076,1>>, <<"SrcR",-1,5,1077,1>>, <<"RegDst",-1,5,1078,1>>,
    <<"SrcL",-1,5,1079,1>>, <<"simm24",1,24,1080,2>>, <<"RegDst",-1,5,1082,1>>,
    <<"SrcL",-1,5,1083,1>>, <<"simm24",1,24,1084,2>>, <<"SrcL",-1,5,1086,1>>,
    <<"SrcR",-1,5,1087,1>>, <<"SrcRType",-1,2,1088,1>>, <<"model",-1,5,1089,1>>,
    <<"shamt",-1,5,1090,1>>, <<"RegDst",-1,5,1091,1>>, <<"SrcL",-1,5,1092,1>>,
    <<"SrcR",-1,5,1093,1>>, <<"SrcRType",-1,2,1094,1>>, <<"model",-1,5,1095,1>>,
    <<"shamt",-1,5,1096,1>>, <<"SrcL",-1,5,1097,1>>, <<"model",-1,5,1098,1>>,
    <<"simm17",1,17,1099,2>>, <<"RegDst",-1,5,1101,1>>, <<"SrcL",-1,5,1102,1>>,
    <<"model",-1,5,1103,1>>, <<"simm17",1,17,1104,2>>, <<"RegDst",-1,5,1106,1>> >>

kFields_8 ==
  <<
    <<"SrcL",-1,5,1107,1>>, <<"SrcR",-1,5,1108,1>>, <<"e",-1,1,1109,1>>, <<"i",-1,1,1110,1>>,
    <<"r",-1,1,1111,1>>, <<"s",-1,1,1112,1>>, <<"RegDst0",-1,5,1113,1>>, <<"RegDst1",-1,5,1114,1>>,
    <<"SrcL",-1,5,1115,1>>, <<"e",-1,1,1116,1>>, <<"r",-1,1,1117,1>>, <<"RegDst",-1,5,1118,1>>,
    <<"SrcL",-1,5,1119,1>>, <<"SrcR",-1,5,1120,1>>, <<"e",-1,1,1121,1>>, <<"h",-1,1,1122,1>>,
    <<"r",-1,1,1123,1>>, <<"RegDst0",-1,5,1124,1>>, <<"RegDst1",-1,5,1125,1>>,
    <<"SrcL",-1,5,1126,1>>, <<"SrcR",-1,5,1127,1>>, <<"RegDst0",-1,5,1128,1>>,
    <<"RegDst1",-1,5,1129,1>>, <<"SrcL",-1,5,1130,1>>, <<"SrcR",-1,5,1131,1>>,
    <<"RegDst0",-1,5,1132,1>>, <<"RegDst1",-1,5,1133,1>>, <<"SrcL",-1,5,1134,1>>,
    <<"SrcR",-1,5,1135,1>>, <<"RegDst0",-1,5,1136,1>>, <<"RegDst1",-1,5,1137,1>>,
    <<"SrcL",-1,5,1138,1>>, <<"SrcR",-1,5,1139,1>>, <<"SrcL",-1,5,1140,1>>, <<"simm",1,29,1141,3>>,
    <<"RegDst",-1,5,1144,1>>, <<"SrcD",-1,5,1145,1>>, <<"SrcL",-1,5,1146,1>>,
    <<"SrcR",-1,5,1147,1>>, <<"SrcRType",-1,2,1148,1>>, <<"RegDst",-1,5,1149,1>>,
    <<"SrcD",-1,5,1150,1>>, <<"SrcL",-1,5,1151,1>>, <<"SrcR",-1,5,1152,1>>,
    <<"SrcRType",-1,2,1153,1>>, <<"SrcD",-1,5,1154,1>>, <<"SrcR",-1,5,1155,1>>,
    <<"simm22",1,22,1156,3>>, <<"RegDst",-1,5,1159,1>>, <<"SrcD",-1,5,1160,1>>,
    <<"SrcR",-1,5,1161,1>>, <<"simm17",1,17,1162,3>>, <<"RegDst",-1,5,1165,1>>,
    <<"SrcD",-1,5,1166,1>>, <<"SrcR",-1,5,1167,1>>, <<"simm17",1,17,1168,3>>,
    <<"SrcD",-1,5,1171,1>>, <<"SrcD1",-1,5,1172,1>>, <<"SrcR",-1,5,1173,1>>,
    <<"simm17",1,17,1174,3>>, <<"SrcD",-1,5,1177,1>>, <<"SrcD1",-1,5,1178,1>>,
    <<"SrcL",-1,5,1179,1>>, <<"SrcR",-1,5,1180,1>>, <<"SrcRType",-1,2,1181,1>>,
    <<"SrcL",-1,5,1182,1>>, <<"simm",1,29,1183,3>>, <<"RegDst",-1,5,1186,1>>,
    <<"SrcD",-1,5,1187,1>>, <<"SrcL",-1,5,1188,1>>, <<"SrcR",-1,5,1189,1>>,
    <<"SrcRType",-1,2,1190,1>>, <<"RegDst",-1,5,1191,1>>, <<"SrcD",-1,5,1192,1>>,
    <<"SrcL",-1,5,1193,1>>, <<"SrcR",-1,5,1194,1>>, <<"SrcRType",-1,2,1195,1>>,
    <<"RegDst",-1,5,1196,1>>, <<"SrcD",-1,5,1197,1>>, <<"SrcL",-1,5,1198,1>>,
    <<"SrcR",-1,5,1199,1>>, <<"SrcRType",-1,2,1200,1>>, <<"RegDst",-1,5,1201,1>>,
    <<"SrcD",-1,5,1202,1>>, <<"SrcL",-1,5,1203,1>>, <<"SrcR",-1,5,1204,1>>,
    <<"SrcRType",-1,2,1205,1>>, <<"SrcD",-1,5,1206,1>>, <<"SrcR",-1,5,1207,1>>,
    <<"simm22",1,22,1208,3>>, <<"RegDst",-1,5,1211,1>>, <<"SrcD",-1,5,1212,1>>,
    <<"SrcR",-1,5,1213,1>>, <<"simm17",1,17,1214,3>>, <<"RegDst",-1,5,1217,1>>,
    <<"SrcD",-1,5,1218,1>>, <<"SrcR",-1,5,1219,1>>, <<"simm17",1,17,1220,3>>,
    <<"SrcD",-1,5,1223,1>>, <<"SrcR",-1,5,1224,1>>, <<"simm22",1,22,1225,3>>,
    <<"RegDst",-1,5,1228,1>>, <<"SrcD",-1,5,1229,1>>, <<"SrcR",-1,5,1230,1>>,
    <<"simm17",1,17,1231,3>>, <<"RegDst",-1,5,1234,1>>, <<"SrcD",-1,5,1235,1>>,
    <<"SrcR",-1,5,1236,1>>, <<"simm17",1,17,1237,3>>, <<"SrcD",-1,5,1240,1>>,
    <<"SrcD1",-1,5,1241,1>>, <<"SrcR",-1,5,1242,1>>, <<"simm17",1,17,1243,3>>,
    <<"SrcD",-1,5,1246,1>>, <<"SrcD1",-1,5,1247,1>>, <<"SrcR",-1,5,1248,1>>,
    <<"simm17",1,17,1249,3>>, <<"SrcD",-1,5,1252,1>>, <<"SrcD1",-1,5,1253,1>>,
    <<"SrcL",-1,5,1254,1>>, <<"SrcR",-1,5,1255,1>>, <<"SrcRType",-1,2,1256,1>>,
    <<"SrcD",-1,5,1257,1>>, <<"SrcD1",-1,5,1258,1>>, <<"SrcL",-1,5,1259,1>>, <<"SrcR",-1,5,1260,1>>,
    <<"SrcRType",-1,2,1261,1>>, <<"SrcL",-1,5,1262,1>>, <<"shamt",-1,5,1263,1>>,
    <<"simm24",1,24,1264,2>>, <<"SrcL",-1,5,1266,1>>, <<"shamt",-1,5,1267,1>>,
    <<"simm24",1,24,1268,2>>, <<"SrcL",-1,5,1270,1>>, <<"shamt",-1,5,1271,1>>,
    <<"simm24",1,24,1272,2>>, <<"SrcL",-1,5,1274,1>>, <<"shamt",-1,5,1275,1>>,
    <<"uimm24",0,24,1276,2>>, <<"SrcL",-1,5,1278,1>>, <<"shamt",-1,5,1279,1>>,
    <<"simm24",1,24,1280,2>>, <<"SrcL",-1,5,1282,1>>, <<"shamt",-1,5,1283,1>>,
    <<"uimm24",0,24,1284,2>>, <<"SrcL",-1,5,1286,1>>, <<"shamt",-1,5,1287,1>>,
    <<"simm24",1,24,1288,2>>, <<"SrcL",-1,5,1290,1>>, <<"shamt",-1,5,1291,1>> >>

kFields_9 ==
  <<
    <<"simm24",1,24,1292,2>>, <<"imm32",-1,32,1294,2>>, <<"SrcL",-1,5,1296,1>>,
    <<"simm",1,29,1297,3>>, <<"RegDst",-1,5,1300,1>>, <<"SrcD",-1,5,1301,1>>,
    <<"SrcL",-1,5,1302,1>>, <<"SrcR",-1,5,1303,1>>, <<"SrcRType",-1,2,1304,1>>,
    <<"RegDst",-1,5,1305,1>>, <<"SrcD",-1,5,1306,1>>, <<"SrcL",-1,5,1307,1>>,
    <<"SrcR",-1,5,1308,1>>, <<"SrcRType",-1,2,1309,1>>, <<"RegDst",-1,5,1310,1>>,
    <<"SrcD",-1,5,1311,1>>, <<"SrcL",-1,5,1312,1>>, <<"SrcR",-1,5,1313,1>>,
    <<"SrcRType",-1,2,1314,1>>, <<"RegDst",-1,5,1315,1>>, <<"SrcD",-1,5,1316,1>>,
    <<"SrcL",-1,5,1317,1>>, <<"SrcR",-1,5,1318,1>>, <<"SrcRType",-1,2,1319,1>>,
    <<"SrcD",-1,5,1320,1>>, <<"SrcR",-1,5,1321,1>>, <<"simm22",1,22,1322,3>>,
    <<"RegDst",-1,5,1325,1>>, <<"SrcD",-1,5,1326,1>>, <<"SrcR",-1,5,1327,1>>,
    <<"simm17",1,17,1328,3>>, <<"RegDst",-1,5,1331,1>>, <<"SrcD",-1,5,1332,1>>,
    <<"SrcR",-1,5,1333,1>>, <<"simm17",1,17,1334,3>>, <<"SrcD",-1,5,1337,1>>,
    <<"SrcR",-1,5,1338,1>>, <<"simm22",1,22,1339,3>>, <<"RegDst",-1,5,1342,1>>,
    <<"SrcD",-1,5,1343,1>>, <<"SrcR",-1,5,1344,1>>, <<"simm17",1,17,1345,3>>,
    <<"RegDst",-1,5,1348,1>>, <<"SrcD",-1,5,1349,1>>, <<"SrcR",-1,5,1350,1>>,
    <<"simm17",1,17,1351,3>>, <<"SrcD",-1,5,1354,1>>, <<"SrcD1",-1,5,1355,1>>,
    <<"SrcR",-1,5,1356,1>>, <<"simm17",1,17,1357,3>>, <<"SrcD",-1,5,1360,1>>,
    <<"SrcD1",-1,5,1361,1>>, <<"SrcR",-1,5,1362,1>>, <<"simm17",1,17,1363,3>>,
    <<"SrcD",-1,5,1366,1>>, <<"SrcD1",-1,5,1367,1>>, <<"SrcL",-1,5,1368,1>>, <<"SrcR",-1,5,1369,1>>,
    <<"SrcRType",-1,2,1370,1>>, <<"SrcD",-1,5,1371,1>>, <<"SrcD1",-1,5,1372,1>>,
    <<"SrcL",-1,5,1373,1>>, <<"SrcR",-1,5,1374,1>>, <<"SrcRType",-1,2,1375,1>>,
    <<"RegDst",-1,5,1376,1>>, <<"SSR_ID",-1,24,1377,2>>, <<"SSR_ID",-1,24,1379,2>>,
    <<"SrcL",-1,5,1381,1>>, <<"RegDst",-1,5,1382,1>>, <<"SrcL",-1,5,1383,1>>,
    <<"uimm24",0,24,1384,2>>, <<"RegDst",-1,5,1386,1>>, <<"SrcL",-1,5,1387,1>>,
    <<"uimm24",0,24,1388,2>>, <<"SrcL",-1,5,1390,1>>, <<"simm",1,29,1391,3>>,
    <<"RegDst",-1,5,1394,1>>, <<"SrcD",-1,5,1395,1>>, <<"SrcL",-1,5,1396,1>>,
    <<"SrcR",-1,5,1397,1>>, <<"SrcRType",-1,2,1398,1>>, <<"RegDst",-1,5,1399,1>>,
    <<"SrcD",-1,5,1400,1>>, <<"SrcL",-1,5,1401,1>>, <<"SrcR",-1,5,1402,1>>,
    <<"SrcRType",-1,2,1403,1>>, <<"RegDst",-1,5,1404,1>>, <<"SrcD",-1,5,1405,1>>,
    <<"SrcL",-1,5,1406,1>>, <<"SrcR",-1,5,1407,1>>, <<"SrcRType",-1,2,1408,1>>,
    <<"RegDst",-1,5,1409,1>>, <<"SrcD",-1,5,1410,1>>, <<"SrcL",-1,5,1411,1>>,
    <<"SrcR",-1,5,1412,1>>, <<"SrcRType",-1,2,1413,1>>, <<"SrcD",-1,5,1414,1>>,
    <<"SrcR",-1,5,1415,1>>, <<"simm22",1,22,1416,3>>, <<"RegDst",-1,5,1419,1>>,
    <<"SrcD",-1,5,1420,1>>, <<"SrcR",-1,5,1421,1>>, <<"simm17",1,17,1422,3>>,
    <<"RegDst",-1,5,1425,1>>, <<"SrcD",-1,5,1426,1>>, <<"SrcR",-1,5,1427,1>>,
    <<"simm17",1,17,1428,3>>, <<"SrcD",-1,5,1431,1>>, <<"SrcR",-1,5,1432,1>>,
    <<"simm22",1,22,1433,3>>, <<"RegDst",-1,5,1436,1>>, <<"SrcD",-1,5,1437,1>>,
    <<"SrcR",-1,5,1438,1>>, <<"simm17",1,17,1439,3>>, <<"RegDst",-1,5,1442,1>>,
    <<"SrcD",-1,5,1443,1>>, <<"SrcR",-1,5,1444,1>>, <<"simm17",1,17,1445,3>>,
    <<"SrcD",-1,5,1448,1>>, <<"SrcD1",-1,5,1449,1>>, <<"SrcR",-1,5,1450,1>>,
    <<"simm17",1,17,1451,3>>, <<"SrcD",-1,5,1454,1>>, <<"SrcD1",-1,5,1455,1>>,
    <<"SrcR",-1,5,1456,1>>, <<"simm17",1,17,1457,3>>, <<"SrcD",-1,5,1460,1>>,
    <<"SrcD1",-1,5,1461,1>>, <<"SrcL",-1,5,1462,1>>, <<"SrcR",-1,5,1463,1>>,
    <<"SrcRType",-1,2,1464,1>>, <<"SrcD",-1,5,1465,1>>, <<"SrcD1",-1,5,1466,1>>,
    <<"SrcL",-1,5,1467,1>>, <<"SrcR",-1,5,1468,1>>, <<"SrcRType",-1,2,1469,1>>,
    <<"RegDst",-1,5,1470,1>>, <<"SrcL",-1,5,1471,1>>, <<"simm24",1,24,1472,2>>,
    <<"RegDst",-1,5,1474,1>>, <<"SrcL",-1,5,1475,1>>, <<"simm24",1,24,1476,2>>,
    <<"SrcL",-1,5,1478,1>>, <<"simm22",1,22,1479,2>>, <<"SrcL",-1,5,1481,1>>,
    <<"SrcZero",-1,5,1482,1>>, <<"simm12",1,12,1483,2>>, <<"simm",1,42,1485,2>>,
    <<"simm",1,42,1487,2>>, <<"simm",1,42,1489,2>> >>

kFields_10 ==
  <<
    <<"simm",1,42,1491,2>>, <<"simm",1,42,1493,2>>, <<"simm",1,42,1495,2>>, <<"simm",1,42,1497,2>>,
    <<"simm",1,42,1499,2>>, <<"simm",1,42,1501,2>>, <<"RegDst",-1,5,1503,1>>,
    <<"SrcL",-1,5,1504,1>>, <<"SrcR",-1,5,1505,1>>, <<"SrcRType",-1,2,1506,1>>,
    <<"shamt",-1,5,1507,1>>, <<"RegDst",-1,5,1508,1>>, <<"simm17",1,17,1509,1>>,
    <<"RegDst",-1,5,1510,1>>, <<"SrcL",-1,5,1511,1>>, <<"simm12",1,12,1512,1>>,
    <<"RegDst",-1,5,1513,1>>, <<"SrcL",-1,5,1514,1>>, <<"SrcR",-1,5,1515,1>>,
    <<"SrcRType",-1,2,1516,1>>, <<"shamt",-1,5,1517,1>>, <<"RegDst",-1,5,1518,1>>,
    <<"simm17",1,17,1519,1>>, <<"RegDst",-1,5,1520,1>>, <<"SrcL",-1,5,1521,1>>,
    <<"simm12",1,12,1522,1>>, <<"RegDst",-1,5,1523,1>>, <<"SrcL",-1,5,1524,1>>,
    <<"SrcR",-1,5,1525,1>>, <<"SrcRType",-1,2,1526,1>>, <<"shamt",-1,5,1527,1>>,
    <<"RegDst",-1,5,1528,1>>, <<"SrcL",-1,5,1529,1>>, <<"SrcR",-1,5,1530,1>>, <<"aq",-1,1,1531,1>>,
    <<"far",-1,1,1532,1>>, <<"rl",-1,1,1533,1>>, <<"RegDst",-1,5,1534,1>>, <<"SrcL",-1,5,1535,1>>,
    <<"SrcR",-1,5,1536,1>>, <<"aq",-1,1,1537,1>>, <<"far",-1,1,1538,1>>, <<"rl",-1,1,1539,1>>,
    <<"RegDst",-1,5,1540,1>>, <<"SrcL",-1,5,1541,1>>, <<"SrcR",-1,5,1542,1>>, <<"aq",-1,1,1543,1>>,
    <<"far",-1,1,1544,1>>, <<"rl",-1,1,1545,1>>, <<"RegDst",-1,5,1546,1>>, <<"simm17",1,17,1547,1>>,
    <<"RegDst",-1,5,1548,1>>, <<"SrcL",-1,5,1549,1>>, <<"SrcR",-1,5,1550,1>>, <<"aq",-1,1,1551,1>>,
    <<"far",-1,1,1552,1>>, <<"rl",-1,1,1553,1>>, <<"RegDst",-1,5,1554,1>>, <<"SrcL",-1,5,1555,1>>,
    <<"SrcR",-1,5,1556,1>>, <<"aq",-1,1,1557,1>>, <<"far",-1,1,1558,1>>, <<"rl",-1,1,1559,1>>,
    <<"RegDst",-1,5,1560,1>>, <<"SrcL",-1,5,1561,1>>, <<"SrcR",-1,5,1562,1>>, <<"aq",-1,1,1563,1>>,
    <<"far",-1,1,1564,1>>, <<"rl",-1,1,1565,1>>, <<"RegDst",-1,5,1566,1>>, <<"SrcL",-1,5,1567,1>>,
    <<"SrcR",-1,5,1568,1>>, <<"aq",-1,1,1569,1>>, <<"far",-1,1,1570,1>>, <<"rl",-1,1,1571,1>>,
    <<"RegDst",-1,5,1572,1>>, <<"SrcL",-1,5,1573,1>>, <<"SrcR",-1,5,1574,1>>, <<"aq",-1,1,1575,1>>,
    <<"far",-1,1,1576,1>>, <<"rl",-1,1,1577,1>>, <<"RegDst",-1,5,1578,1>>, <<"SrcL",-1,5,1579,1>>,
    <<"simm12",1,12,1580,1>>, <<"RegDst",-1,5,1581,1>>, <<"SrcL",-1,5,1582,1>>,
    <<"simm12",1,12,1583,1>>, <<"RegDst",-1,5,1584,1>>, <<"SrcL",-1,5,1585,1>>,
    <<"SrcR",-1,5,1586,1>>, <<"SrcRType",-1,2,1587,1>>, <<"shamt",-1,5,1588,1>>,
    <<"RegDst",-1,5,1589,1>>, <<"simm17",1,17,1590,1>>, <<"RegDst",-1,5,1591,1>>,
    <<"SrcL",-1,5,1592,1>>, <<"simm12",1,12,1593,1>>, <<"RegDst",-1,5,1594,1>>,
    <<"SrcL",-1,5,1595,1>>, <<"simm12",1,12,1596,1>>, <<"RegDst",-1,5,1597,1>>,
    <<"SrcL",-1,5,1598,1>>, <<"SrcR",-1,5,1599,1>>, <<"SrcRType",-1,2,1600,1>>,
    <<"shamt",-1,5,1601,1>>, <<"RegDst",-1,5,1602,1>>, <<"simm17",1,17,1603,1>>,
    <<"RegDst",-1,5,1604,1>>, <<"SrcL",-1,5,1605,1>>, <<"simm12",1,12,1606,1>>,
    <<"RegDst",-1,5,1607,1>>, <<"SrcL",-1,5,1608,1>>, <<"simm12",1,12,1609,1>>,
    <<"RegDst",-1,5,1610,1>>, <<"SrcL",-1,5,1611,1>>, <<"SrcZero",-1,5,1612,1>>,
    <<"aq",-1,1,1613,1>>, <<"far",-1,1,1614,1>>, <<"rl",-1,1,1615,1>>, <<"RegDst",-1,5,1616,1>>,
    <<"SrcL",-1,5,1617,1>>, <<"SrcZero",-1,5,1618,1>>, <<"aq",-1,1,1619,1>>, <<"far",-1,1,1620,1>>,
    <<"rl",-1,1,1621,1>>, <<"RegDst",-1,5,1622,1>>, <<"SrcL",-1,5,1623,1>>,
    <<"SrcZero",-1,5,1624,1>>, <<"aq",-1,1,1625,1>>, <<"far",-1,1,1626,1>>, <<"rl",-1,1,1627,1>>,
    <<"RegDst",-1,5,1628,1>>, <<"SrcL",-1,5,1629,1>>, <<"SrcZero",-1,5,1630,1>>,
    <<"aq",-1,1,1631,1>>, <<"far",-1,1,1632,1>>, <<"rl",-1,1,1633,1>>, <<"LSR_ID",-1,12,1634,1>>,
    <<"RegDst",-1,5,1635,1>>, <<"RegDst",-1,5,1636,1>>, <<"imm20",-1,20,1637,1>>,
    <<"RegDst",-1,5,1638,1>>, <<"SrcL",-1,5,1639,1>>, <<"SrcR",-1,5,1640,1>>,
    <<"SrcRType",-1,2,1641,1>>, <<"shamt",-1,5,1642,1>>, <<"RegDst",-1,5,1643,1>>,
    <<"SrcL",-1,5,1644,1>>, <<"SrcR",-1,5,1645,1>>, <<"aq",-1,1,1646,1>> >>

kFields_11 ==
  <<
    <<"far",-1,1,1647,1>>, <<"rl",-1,1,1648,1>>, <<"RegDst",-1,5,1649,1>>, <<"SrcL",-1,5,1650,1>>,
    <<"SrcR",-1,5,1651,1>>, <<"aq",-1,1,1652,1>>, <<"far",-1,1,1653,1>>, <<"rl",-1,1,1654,1>>,
    <<"RegDst",-1,5,1655,1>>, <<"SrcL",-1,5,1656,1>>, <<"SrcR",-1,5,1657,1>>, <<"aq",-1,1,1658,1>>,
    <<"far",-1,1,1659,1>>, <<"rl",-1,1,1660,1>>, <<"RegDst",-1,5,1661,1>>, <<"simm17",1,17,1662,1>>,
    <<"RegDst",-1,5,1663,1>>, <<"SrcL",-1,5,1664,1>>, <<"SrcR",-1,5,1665,1>>, <<"aq",-1,1,1666,1>>,
    <<"far",-1,1,1667,1>>, <<"rl",-1,1,1668,1>>, <<"RegDst",-1,5,1669,1>>, <<"SrcL",-1,5,1670,1>>,
    <<"SrcR",-1,5,1671,1>>, <<"aq",-1,1,1672,1>>, <<"far",-1,1,1673,1>>, <<"rl",-1,1,1674,1>>,
    <<"RegDst",-1,5,1675,1>>, <<"SrcL",-1,5,1676,1>>, <<"SrcR",-1,5,1677,1>>, <<"aq",-1,1,1678,1>>,
    <<"far",-1,1,1679,1>>, <<"rl",-1,1,1680,1>>, <<"RegDst",-1,5,1681,1>>, <<"SrcL",-1,5,1682,1>>,
    <<"SrcR",-1,5,1683,1>>, <<"aq",-1,1,1684,1>>, <<"far",-1,1,1685,1>>, <<"rl",-1,1,1686,1>>,
    <<"RegDst",-1,5,1687,1>>, <<"SrcL",-1,5,1688,1>>, <<"SrcR",-1,5,1689,1>>, <<"aq",-1,1,1690,1>>,
    <<"far",-1,1,1691,1>>, <<"rl",-1,1,1692,1>>, <<"RegDst",-1,5,1693,1>>, <<"SrcL",-1,5,1694,1>>,
    <<"simm12",1,12,1695,1>>, <<"RegDst",-1,5,1696,1>>, <<"SrcL",-1,5,1697,1>>,
    <<"simm12",1,12,1698,1>>, <<"RegDst",-1,5,1699,1>>, <<"SrcL",-1,5,1700,1>>,
    <<"SrcR",-1,5,1701,1>>, <<"SrcRType",-1,2,1702,1>>, <<"shamt",-1,5,1703,1>>,
    <<"RegDst",-1,5,1704,1>>, <<"simm17",1,17,1705,1>>, <<"RegDst",-1,5,1706,1>>,
    <<"SrcL",-1,5,1707,1>>, <<"simm12",1,12,1708,1>>, <<"RegDst",-1,5,1709,1>>,
    <<"SrcL",-1,5,1710,1>>, <<"simm12",1,12,1711,1>>, <<"RegDst",-1,5,1712,1>>,
    <<"SrcD",-1,5,1713,1>>, <<"SrcL",-1,5,1714,1>>, <<"SrcR",-1,5,1715,1>>,
    <<"RegDst",-1,5,1716,1>>, <<"SrcD",-1,5,1717,1>>, <<"SrcL",-1,5,1718,1>>,
    <<"SrcR",-1,5,1719,1>>, <<"RegDst",-1,5,1720,1>>, <<"SrcL",-1,5,1721,1>>,
    <<"SrcR",-1,5,1722,1>>, <<"RegDst",-1,5,1723,1>>, <<"SrcL",-1,5,1724,1>>,
    <<"SrcR",-1,5,1725,1>>, <<"RegSrc0",-1,5,1726,1>>, <<"RegSrc1",-1,5,1727,1>>,
    <<"RegSrc2",-1,5,1728,1>>, <<"RegDst",-1,5,1729,1>>, <<"RegSrc0",-1,5,1730,1>>,
    <<"RegSrc1",-1,5,1731,1>>, <<"RegSrc2",-1,5,1732,1>>, <<"RegDst",-1,5,1733,1>>,
    <<"RegSrc0",-1,5,1734,1>>, <<"RegSrc1",-1,5,1735,1>>, <<"RegSrc2",-1,5,1736,1>>,
    <<"RegDst",-1,5,1737,1>>, <<"SrcL",-1,5,1738,1>>, <<"SrcR",-1,5,1739,1>>,
    <<"RegDst",-1,5,1740,1>>, <<"SrcL",-1,5,1741,1>>, <<"SrcR",-1,5,1742,1>>,
    <<"RegSrc0",-1,5,1743,1>>, <<"RegSrc1",-1,5,1744,1>>, <<"RegSrc2",-1,5,1745,1>>,
    <<"RegDst",-1,5,1746,1>>, <<"SrcL",-1,5,1747,1>>, <<"SrcR",-1,5,1748,1>>,
    <<"RegDst",-1,5,1749,1>>, <<"SrcL",-1,5,1750,1>>, <<"SrcR",-1,5,1751,1>>,
    <<"RegDst",-1,5,1752,1>>, <<"SrcL",-1,5,1753,1>>, <<"SrcR",-1,5,1754,1>>,
    <<"RegDst",-1,5,1755,1>>, <<"SrcL",-1,5,1756,1>>, <<"SrcR",-1,5,1757,1>>,
    <<"RegDst",-1,5,1758,1>>, <<"SrcL",-1,5,1759,1>>, <<"SrcR",-1,5,1760,1>>,
    <<"SrcRType",-1,2,1761,1>>, <<"shamt",-1,5,1762,1>>, <<"RegDst",-1,5,1763,1>>,
    <<"SrcL",-1,5,1764,1>>, <<"simm12",1,12,1765,1>>, <<"RegDst",-1,5,1766,1>>,
    <<"SrcL",-1,5,1767,1>>, <<"simm12",1,12,1768,1>>, <<"RegDst",-1,5,1769,1>>,
    <<"SrcL",-1,5,1770,1>>, <<"SrcR",-1,5,1771,1>>, <<"SrcRType",-1,2,1772,1>>,
    <<"shamt",-1,5,1773,1>>, <<"RegDst",-1,5,1774,1>>, <<"SrcL",-1,5,1775,1>>,
    <<"SrcR",-1,5,1776,1>>, <<"SrcRType",-1,2,1777,1>>, <<"shamt",-1,5,1778,1>>,
    <<"RegDst",-1,5,1779,1>>, <<"SrcL",-1,5,1780,1>>, <<"simm12",1,12,1781,1>>,
    <<"RegDst",-1,5,1782,1>>, <<"SrcL",-1,5,1783,1>>, <<"SrcR",-1,5,1784,1>>,
    <<"RegDst",-1,5,1785,1>>, <<"SrcL",-1,5,1786,1>>, <<"SrcR",-1,5,1787,1>>,
    <<"RegDst",-1,5,1788,1>>, <<"SrcL",-1,5,1789,1>>, <<"SrcR",-1,5,1790,1>>,
    <<"RegDst",-1,5,1791,1>>, <<"SrcL",-1,5,1792,1>>, <<"SrcR",-1,5,1793,1>>,
    <<"RegDst",-1,5,1794,1>>, <<"SrcL",-1,5,1795,1>>, <<"imml",-1,6,1796,1>> >>

kFields_12 ==
  <<
    <<"immr",-1,6,1797,1>>, <<"SrcD",-1,5,1798,1>>, <<"SrcL",-1,5,1799,1>>, <<"SrcR",-1,5,1800,1>>,
    <<"SrcRType",-1,2,1801,1>>, <<"SrcL",-1,5,1802,1>>, <<"SrcR",-1,5,1803,1>>,
    <<"rl",-1,1,1804,1>>, <<"SrcL",-1,5,1805,1>>, <<"simm",1,17,1806,2>>, <<"SrcL",-1,5,1808,1>>,
    <<"SrcR",-1,5,1809,1>>, <<"rl",-1,1,1810,1>>, <<"SrcL",-1,5,1811,1>>, <<"SrcR",-1,5,1812,1>>,
    <<"simm12",1,12,1813,2>>, <<"RegDst",-1,5,1815,1>>, <<"SrcL",-1,5,1816,1>>,
    <<"SrcR",-1,5,1817,1>>, <<"aq",-1,1,1818,1>>, <<"far",-1,1,1819,1>>, <<"rl",-1,1,1820,1>>,
    <<"RegDst",-1,5,1821,1>>, <<"SrcL",-1,5,1822,1>>, <<"SrcR",-1,5,1823,1>>, <<"aq",-1,1,1824,1>>,
    <<"far",-1,1,1825,1>>, <<"rl",-1,1,1826,1>>, <<"RegDst",-1,5,1827,1>>, <<"SrcL",-1,5,1828,1>>,
    <<"SrcR",-1,5,1829,1>>, <<"aq",-1,1,1830,1>>, <<"far",-1,1,1831,1>>, <<"rl",-1,1,1832,1>>,
    <<"RegDst",-1,5,1833,1>>, <<"SrcL",-1,5,1834,1>>, <<"SrcR",-1,5,1835,1>>, <<"aq",-1,1,1836,1>>,
    <<"far",-1,1,1837,1>>, <<"rl",-1,1,1838,1>>, <<"DstType",-1,5,1839,1>>,
    <<"RegDst",-1,5,1840,1>>, <<"SrcL",-1,5,1841,1>>, <<"SrcType",-1,2,1842,1>>,
    <<"SrcD",-1,5,1843,1>>, <<"SrcL",-1,5,1844,1>>, <<"SrcR",-1,5,1845,1>>,
    <<"SrcRType",-1,2,1846,1>>, <<"SrcL",-1,5,1847,1>>, <<"SrcR",-1,5,1848,1>>,
    <<"rl",-1,1,1849,1>>, <<"SrcL",-1,5,1850,1>>, <<"SrcR",-1,5,1851,1>>, <<"rl",-1,1,1852,1>>,
    <<"SrcL",-1,5,1853,1>>, <<"SrcR",-1,5,1854,1>>, <<"rl",-1,1,1855,1>>, <<"SrcL",-1,5,1856,1>>,
    <<"simm",1,17,1857,2>>, <<"SrcL",-1,5,1859,1>>, <<"SrcR",-1,5,1860,1>>, <<"rl",-1,1,1861,1>>,
    <<"SrcL",-1,5,1862,1>>, <<"SrcR",-1,5,1863,1>>, <<"rl",-1,1,1864,1>>, <<"SrcL",-1,5,1865,1>>,
    <<"SrcR",-1,5,1866,1>>, <<"rl",-1,1,1867,1>>, <<"SrcD",-1,5,1868,1>>, <<"SrcL",-1,5,1869,1>>,
    <<"SrcR",-1,5,1870,1>>, <<"SrcRType",-1,2,1871,1>>, <<"SrcL",-1,5,1872,1>>,
    <<"SrcR",-1,5,1873,1>>, <<"rl",-1,1,1874,1>>, <<"SrcL",-1,5,1875,1>>, <<"SrcR",-1,5,1876,1>>,
    <<"rl",-1,1,1877,1>>, <<"SrcL",-1,5,1878,1>>, <<"SrcR",-1,5,1879,1>>, <<"rl",-1,1,1880,1>>,
    <<"SrcL",-1,5,1881,1>>, <<"SrcR",-1,5,1882,1>>, <<"simm12",1,12,1883,2>>,
    <<"SrcL",-1,5,1885,1>>, <<"SrcR",-1,5,1886,1>>, <<"simm12",1,12,1887,2>>,
    <<"SrcL",-1,5,1889,1>>, <<"SrcR",-1,5,1890,1>>, <<"SrcRType",-1,2,1891,1>>,
    <<"SrcL",-1,5,1892,1>>, <<"shamt",-1,5,1893,1>>, <<"simm12",1,12,1894,1>>,
    <<"SrcL",-1,5,1895,1>>, <<"SrcR",-1,5,1896,1>>, <<"SrcRType",-1,2,1897,1>>,
    <<"SrcL",-1,5,1898,1>>, <<"shamt",-1,5,1899,1>>, <<"simm12",1,12,1900,1>>,
    <<"SrcL",-1,5,1901,1>>, <<"SrcR",-1,5,1902,1>>, <<"SrcRType",-1,2,1903,1>>,
    <<"SrcL",-1,5,1904,1>>, <<"shamt",-1,5,1905,1>>, <<"simm12",1,12,1906,1>>,
    <<"SrcL",-1,5,1907,1>>, <<"SrcR",-1,5,1908,1>>, <<"SrcRType",-1,2,1909,1>>,
    <<"SrcL",-1,5,1910,1>>, <<"shamt",-1,5,1911,1>>, <<"uimm12",0,12,1912,1>>,
    <<"SrcL",-1,5,1913,1>>, <<"SrcR",-1,5,1914,1>>, <<"SrcRType",-1,2,1915,1>>,
    <<"SrcL",-1,5,1916,1>>, <<"shamt",-1,5,1917,1>>, <<"simm12",1,12,1918,1>>,
    <<"SrcL",-1,5,1919,1>>, <<"SrcR",-1,5,1920,1>>, <<"SrcRType",-1,2,1921,1>>,
    <<"SrcL",-1,5,1922,1>>, <<"shamt",-1,5,1923,1>>, <<"uimm12",0,12,1924,1>>,
    <<"SrcL",-1,5,1925,1>>, <<"SrcR",-1,5,1926,1>>, <<"SrcRType",-1,2,1927,1>>,
    <<"SrcL",-1,5,1928,1>>, <<"shamt",-1,5,1929,1>>, <<"simm12",1,12,1930,1>>,
    <<"SrcL",-1,5,1931,1>>, <<"SrcR",-1,5,1932,1>>, <<"SrcRType",-1,2,1933,1>>,
    <<"SrcL",-1,5,1934,1>>, <<"shamt",-1,5,1935,1>>, <<"simm12",1,12,1936,1>>,
    <<"SrcL",-1,5,1937,1>>, <<"imm20",-1,20,1938,1>>, <<"SrcD",-1,5,1939,1>>,
    <<"SrcL",-1,5,1940,1>>, <<"SrcR",-1,5,1941,1>>, <<"SrcRType",-1,2,1942,1>>,
    <<"SrcL",-1,5,1943,1>>, <<"SrcR",-1,5,1944,1>>, <<"rl",-1,1,1945,1>>, <<"SrcL",-1,5,1946,1>>,
    <<"simm",1,17,1947,2>>, <<"SrcL",-1,5,1949,1>>, <<"SrcR",-1,5,1950,1>>, <<"rl",-1,1,1951,1>>,
    <<"SrcD",-1,5,1952,1>> >>

kFields_13 ==
  <<
    <<"SrcL",-1,5,1953,1>>, <<"SrcR",-1,5,1954,1>>, <<"SrcRType",-1,2,1955,1>>,
    <<"SrcL",-1,5,1956,1>>, <<"SrcR",-1,5,1957,1>>, <<"simm12",1,12,1958,2>>,
    <<"SrcL",-1,5,1960,1>>, <<"SrcR",-1,5,1961,1>>, <<"simm12",1,12,1962,2>>,
    <<"RegDst",-1,5,1964,1>>, <<"SrcL",-1,5,1965,1>>, <<"SrcR",-1,5,1966,1>>,
    <<"RegDst",-1,5,1967,1>>, <<"SrcL",-1,5,1968,1>>, <<"shamt",-1,6,1969,1>>,
    <<"RegDst",-1,5,1970,1>>, <<"SrcL",-1,5,1971,1>>, <<"shamt",-1,5,1972,1>>,
    <<"RegDst",-1,5,1973,1>>, <<"SrcL",-1,5,1974,1>>, <<"SrcR",-1,5,1975,1>>,
    <<"RegDst",-1,5,1976,1>>, <<"SrcL",-1,5,1977,1>>, <<"SrcR",-1,5,1978,1>>,
    <<"RegDst",-1,5,1979,1>>, <<"SrcL",-1,5,1980,1>>, <<"shamt",-1,6,1981,1>>,
    <<"RegDst",-1,5,1982,1>>, <<"SrcL",-1,5,1983,1>>, <<"shamt",-1,5,1984,1>>,
    <<"RegDst",-1,5,1985,1>>, <<"SrcL",-1,5,1986,1>>, <<"SrcR",-1,5,1987,1>>,
    <<"RegDst",-1,5,1988,1>>, <<"SrcL",-1,5,1989,1>>, <<"SrcR",-1,5,1990,1>>,
    <<"RegDst",-1,5,1991,1>>, <<"SrcL",-1,5,1992,1>>, <<"shamt",-1,6,1993,1>>,
    <<"RegDst",-1,5,1994,1>>, <<"SrcL",-1,5,1995,1>>, <<"shamt",-1,5,1996,1>>,
    <<"RegDst",-1,5,1997,1>>, <<"SrcL",-1,5,1998,1>>, <<"SrcR",-1,5,1999,1>>,
    <<"RegDst",-1,5,2000,1>>, <<"SSR_ID",-1,12,2001,1>>, <<"SSR_ID",-1,12,2002,1>>,
    <<"SrcL",-1,5,2003,1>>, <<"RegDst",-1,5,2004,1>>, <<"SSR_ID",-1,12,2005,1>>,
    <<"SrcL",-1,5,2006,1>>, <<"RegDst",-1,5,2007,1>>, <<"SrcL",-1,5,2008,1>>,
    <<"SrcR",-1,5,2009,1>>, <<"SrcRType",-1,2,2010,1>>, <<"shamt",-1,5,2011,1>>,
    <<"RegDst",-1,5,2012,1>>, <<"SrcL",-1,5,2013,1>>, <<"uimm12",0,12,2014,1>>,
    <<"RegDst",-1,5,2015,1>>, <<"SrcL",-1,5,2016,1>>, <<"uimm12",0,12,2017,1>>,
    <<"RegDst",-1,5,2018,1>>, <<"SrcL",-1,5,2019,1>>, <<"SrcR",-1,5,2020,1>>,
    <<"SrcRType",-1,2,2021,1>>, <<"shamt",-1,5,2022,1>>, <<"SrcD",-1,5,2023,1>>,
    <<"SrcL",-1,5,2024,1>>, <<"SrcR",-1,5,2025,1>>, <<"SrcRType",-1,2,2026,1>>,
    <<"SrcL",-1,5,2027,1>>, <<"SrcR",-1,5,2028,1>>, <<"rl",-1,1,2029,1>>, <<"SrcL",-1,5,2030,1>>,
    <<"SrcR",-1,5,2031,1>>, <<"rl",-1,1,2032,1>>, <<"SrcL",-1,5,2033,1>>, <<"SrcR",-1,5,2034,1>>,
    <<"rl",-1,1,2035,1>>, <<"SrcL",-1,5,2036,1>>, <<"simm",1,17,2037,2>>, <<"SrcL",-1,5,2039,1>>,
    <<"SrcR",-1,5,2040,1>>, <<"rl",-1,1,2041,1>>, <<"SrcL",-1,5,2042,1>>, <<"SrcR",-1,5,2043,1>>,
    <<"rl",-1,1,2044,1>>, <<"SrcL",-1,5,2045,1>>, <<"SrcR",-1,5,2046,1>>, <<"rl",-1,1,2047,1>>,
    <<"SrcD",-1,5,2048,1>>, <<"SrcL",-1,5,2049,1>>, <<"SrcR",-1,5,2050,1>>,
    <<"SrcRType",-1,2,2051,1>>, <<"SrcL",-1,5,2052,1>>, <<"SrcR",-1,5,2053,1>>,
    <<"rl",-1,1,2054,1>>, <<"SrcL",-1,5,2055,1>>, <<"SrcR",-1,5,2056,1>>, <<"rl",-1,1,2057,1>>,
    <<"SrcL",-1,5,2058,1>>, <<"SrcR",-1,5,2059,1>>, <<"rl",-1,1,2060,1>>, <<"RegDst",-1,5,2061,1>>,
    <<"SrcL",-1,5,2062,1>>, <<"SrcR",-1,5,2063,1>>, <<"aq",-1,1,2064,1>>, <<"far",-1,1,2065,1>>,
    <<"rl",-1,1,2066,1>>, <<"RegDst",-1,5,2067,1>>, <<"SrcL",-1,5,2068,1>>, <<"SrcR",-1,5,2069,1>>,
    <<"aq",-1,1,2070,1>>, <<"far",-1,1,2071,1>>, <<"rl",-1,1,2072,1>>, <<"RegDst",-1,5,2073,1>>,
    <<"SrcL",-1,5,2074,1>>, <<"SrcR",-1,5,2075,1>>, <<"aq",-1,1,2076,1>>, <<"far",-1,1,2077,1>>,
    <<"rl",-1,1,2078,1>>, <<"RegDst",-1,5,2079,1>>, <<"SrcL",-1,5,2080,1>>, <<"SrcR",-1,5,2081,1>>,
    <<"aq",-1,1,2082,1>>, <<"far",-1,1,2083,1>>, <<"rl",-1,1,2084,1>>, <<"SrcL",-1,5,2085,1>>,
    <<"SrcR",-1,5,2086,1>>, <<"simm12",1,12,2087,2>>, <<"SrcL",-1,5,2089,1>>,
    <<"SrcR",-1,5,2090,1>>, <<"simm12",1,12,2091,2>>, <<"SrcL",-1,5,2093,1>>,
    <<"SrcL",-1,5,2094,1>>, <<"SrcL",-1,5,2095,1>>, <<"DstType",-1,5,2096,1>>,
    <<"RegDst",-1,5,2097,1>>, <<"SrcL",-1,5,2098,1>>, <<"SrcType",-1,2,2099,1>>,
    <<"RegDst",-1,10,2100,2>>, <<"SrcL",-1,10,2102,2>>, <<"SrcR",-1,10,2104,2>>,
    <<"SrcRType",-1,2,2106,1>>, <<"shamt",-1,5,2107,1>>, <<"RegDst",-1,10,2108,2>>,
    <<"SrcL",-1,10,2110,2>>, <<"uimm12",0,12,2112,1>> >>

kFields_14 ==
  <<
    <<"RegDst",-1,10,2113,2>>, <<"SrcL",-1,10,2115,2>>, <<"SrcR",-1,10,2117,2>>,
    <<"SrcRType",-1,2,2119,1>>, <<"shamt",-1,5,2120,1>>, <<"RegDst",-1,10,2121,2>>,
    <<"SrcL",-1,10,2123,2>>, <<"simm12",1,12,2125,1>>, <<"RegDst",-1,10,2126,2>>,
    <<"SrcL",-1,10,2128,2>>, <<"imml",-1,6,2130,1>>, <<"imms",-1,6,2131,1>>,
    <<"RegDst",-1,10,2132,2>>, <<"SrcL",-1,10,2134,2>>, <<"imml",-1,6,2136,1>>,
    <<"imms",-1,6,2137,1>>, <<"RegDst",-1,10,2138,2>>, <<"SrcL",-1,10,2140,2>>,
    <<"imml",-1,6,2142,1>>, <<"imms",-1,6,2143,1>>, <<"RegDst",-1,10,2144,2>>,
    <<"SrcL",-1,10,2146,2>>, <<"imml",-1,6,2148,1>>, <<"imms",-1,6,2149,1>>,
    <<"RegDst",-1,10,2150,2>>, <<"SrcL",-1,10,2152,2>>, <<"imml",-1,6,2154,1>>,
    <<"imms",-1,6,2155,1>>, <<"RegDst",-1,10,2156,2>>, <<"SrcL",-1,10,2158,2>>,
    <<"imml",-1,6,2160,1>>, <<"imms",-1,6,2161,1>>, <<"RegDst",-1,10,2162,2>>,
    <<"SrcL",-1,10,2164,2>>, <<"SrcR",-1,10,2166,2>>, <<"RegDst",-1,10,2168,2>>,
    <<"SrcL",-1,10,2170,2>>, <<"simm12",1,12,2172,1>>, <<"RegDst",-1,10,2173,2>>,
    <<"SrcL",-1,10,2175,2>>, <<"SrcR",-1,10,2177,2>>, <<"RegDst",-1,10,2179,2>>,
    <<"SrcL",-1,10,2181,2>>, <<"simm12",1,12,2183,1>>, <<"RegDst",-1,10,2184,2>>,
    <<"SrcL",-1,10,2186,2>>, <<"SrcR",-1,10,2188,2>>, <<"RegDst",-1,10,2190,2>>,
    <<"SrcL",-1,10,2192,2>>, <<"simm12",1,12,2194,1>>, <<"RegDst",-1,10,2195,2>>,
    <<"SrcL",-1,10,2197,2>>, <<"SrcR",-1,10,2199,2>>, <<"RegDst",-1,10,2201,2>>,
    <<"SrcL",-1,10,2203,2>>, <<"uimm12",0,12,2205,1>>, <<"RegDst",-1,10,2206,2>>,
    <<"SrcL",-1,10,2208,2>>, <<"SrcR",-1,10,2210,2>>, <<"RegDst",-1,10,2212,2>>,
    <<"SrcL",-1,10,2214,2>>, <<"simm12",1,12,2216,1>>, <<"RegDst",-1,10,2217,2>>,
    <<"SrcL",-1,10,2219,2>>, <<"SrcR",-1,10,2221,2>>, <<"RegDst",-1,10,2223,2>>,
    <<"SrcL",-1,10,2225,2>>, <<"uimm12",0,12,2227,1>>, <<"RegDst",-1,10,2228,2>>,
    <<"SrcL",-1,10,2230,2>>, <<"SrcR",-1,10,2232,2>>, <<"RegDst",-1,10,2234,2>>,
    <<"SrcL",-1,10,2236,2>>, <<"simm12",1,12,2238,1>>, <<"RegDst",-1,10,2239,2>>,
    <<"SrcL",-1,10,2241,2>>, <<"SrcR",-1,10,2243,2>>, <<"RegDst",-1,10,2245,2>>,
    <<"SrcL",-1,10,2247,2>>, <<"simm12",1,12,2249,1>>, <<"RegDst",-1,10,2250,2>>,
    <<"SrcL",-1,10,2252,2>>, <<"SrcP",-1,10,2254,2>>, <<"SrcR",-1,10,2256,2>>,
    <<"SrcRType",-1,2,2258,1>>, <<"RegDst",-1,10,2259,2>>, <<"SrcL",-1,10,2261,2>>,
    <<"imml",-1,6,2263,1>>, <<"imms",-1,6,2264,1>>, <<"RegDst",-1,10,2265,2>>,
    <<"SrcL",-1,10,2267,2>>, <<"SrcR",-1,10,2269,2>>, <<"RegDst",-1,10,2271,2>>,
    <<"SrcL",-1,10,2273,2>>, <<"RegDst",-1,10,2275,2>>, <<"SrcL",-1,10,2277,2>>,
    <<"SrcR",-1,10,2279,2>>, <<"RegDst",-1,10,2281,2>>, <<"SrcL",-1,10,2283,2>>,
    <<"RegDst",-1,10,2285,2>>, <<"SrcL",-1,10,2287,2>>, <<"DstType",-1,5,2289,1>>,
    <<"SrcType",-1,5,2290,1>>, <<"RegDst",-1,10,2291,2>>, <<"SrcL",-1,10,2293,2>>,
    <<"DstType",-1,5,2295,1>>, <<"SrcType",-1,5,2296,1>>, <<"RegDst",-1,10,2297,2>>,
    <<"SrcL",-1,10,2299,2>>, <<"SrcR",-1,10,2301,2>>, <<"RegDst",-1,10,2303,2>>,
    <<"SrcL",-1,10,2305,2>>, <<"SrcR",-1,10,2307,2>>, <<"RegDst",-1,10,2309,2>>,
    <<"SrcL",-1,10,2311,2>>, <<"SrcR",-1,10,2313,2>>, <<"RegDst",-1,10,2315,2>>,
    <<"SrcL",-1,10,2317,2>>, <<"RegDst",-1,10,2319,2>>, <<"SrcL",-1,10,2321,2>>,
    <<"SrcR",-1,10,2323,2>>, <<"RegDst",-1,10,2325,2>>, <<"SrcL",-1,10,2327,2>>,
    <<"SrcR",-1,10,2329,2>>, <<"RegDst",-1,10,2331,2>>, <<"SrcL",-1,10,2333,2>>,
    <<"SrcR",-1,10,2335,2>>, <<"RegDst",-1,10,2337,2>>, <<"SrcL",-1,10,2339,2>>,
    <<"SrcR",-1,10,2341,2>>, <<"RegDst",-1,10,2343,2>>, <<"SrcA",-1,10,2345,2>>,
    <<"SrcL",-1,10,2347,2>>, <<"SrcR",-1,10,2349,2>>, <<"RegDst",-1,10,2351,2>>,
    <<"SrcL",-1,10,2353,2>>, <<"SrcR",-1,10,2355,2>>, <<"RegDst",-1,10,2357,2>>,
    <<"SrcL",-1,10,2359,2>>, <<"SrcR",-1,10,2361,2>>, <<"RegDst",-1,10,2363,2>>,
    <<"SrcA",-1,10,2365,2>>, <<"SrcL",-1,10,2367,2>>, <<"SrcR",-1,10,2369,2>>,
    <<"RegDst",-1,10,2371,2>>, <<"SrcL",-1,10,2373,2>>, <<"SrcR",-1,10,2375,2>>,
    <<"RegDst",-1,10,2377,2>>, <<"SrcL",-1,10,2379,2>>, <<"SrcR",-1,10,2381,2>> >>

kFields_15 ==
  <<
    <<"RegDst",-1,10,2383,2>>, <<"SrcL",-1,10,2385,2>>, <<"SrcR",-1,10,2387,2>>,
    <<"RegDst",-1,10,2389,2>>, <<"SrcA",-1,10,2391,2>>, <<"SrcL",-1,10,2393,2>>,
    <<"SrcR",-1,10,2395,2>>, <<"RegDst",-1,10,2397,2>>, <<"SrcA",-1,10,2399,2>>,
    <<"SrcL",-1,10,2401,2>>, <<"SrcR",-1,10,2403,2>>, <<"RegDst",-1,10,2405,2>>,
    <<"SrcL",-1,10,2407,2>>, <<"RegDst",-1,10,2409,2>>, <<"SrcL",-1,10,2411,2>>,
    <<"RegDst",-1,10,2413,2>>, <<"SrcL",-1,10,2415,2>>, <<"SrcR",-1,10,2417,2>>,
    <<"RegDst",-1,10,2419,2>>, <<"SrcL",-1,10,2421,2>>, <<"DstType",-1,5,2423,1>>,
    <<"SrcType",-1,5,2424,1>>, <<"RegDst",-1,10,2425,2>>, <<"SrcL",-1,10,2427,2>>,
    <<"DstType",-1,5,2429,1>>, <<"SrcType",-1,5,2430,1>>, <<"C",-1,1,2431,1>>, <<"L",-1,1,2432,1>>,
    <<"RegDst",-1,10,2433,2>>, <<"SrcL",-1,10,2435,2>>, <<"SrcR",-1,10,2437,2>>,
    <<"shamt",-1,5,2439,1>>, <<"C",-1,1,2440,1>>, <<"L",-1,1,2441,1>>, <<"RegDst",-1,10,2442,2>>,
    <<"SrcL",-1,10,2444,2>>, <<"SrcR",-1,10,2446,2>>, <<"shamt",-1,5,2448,1>>, <<"C",-1,1,2449,1>>,
    <<"L",-1,1,2450,1>>, <<"RegDst",-1,10,2451,2>>, <<"SrcL",-1,10,2453,2>>,
    <<"simm24",1,24,2455,2>>, <<"C",-1,1,2457,1>>, <<"L",-1,1,2458,1>>, <<"RegDst",-1,10,2459,2>>,
    <<"SrcL",-1,10,2461,2>>, <<"simm24",1,24,2463,2>>, <<"C",-1,1,2465,1>>, <<"L",-1,1,2466,1>>,
    <<"RegDst",-1,10,2467,2>>, <<"SrcL",-1,10,2469,2>>, <<"SrcR",-1,10,2471,2>>,
    <<"shamt",-1,5,2473,1>>, <<"C",-1,1,2474,1>>, <<"L",-1,1,2475,1>>, <<"RegDst",-1,10,2476,2>>,
    <<"SrcL",-1,10,2478,2>>, <<"SrcR",-1,10,2480,2>>, <<"shamt",-1,5,2482,1>>, <<"C",-1,1,2483,1>>,
    <<"L",-1,1,2484,1>>, <<"RegDst",-1,10,2485,2>>, <<"SrcL",-1,10,2487,2>>,
    <<"simm24",1,24,2489,2>>, <<"C",-1,1,2491,1>>, <<"L",-1,1,2492,1>>, <<"RegDst",-1,10,2493,2>>,
    <<"SrcL",-1,10,2495,2>>, <<"simm24",1,24,2497,2>>, <<"C",-1,1,2499,1>>, <<"L",-1,1,2500,1>>,
    <<"RegDst",-1,10,2501,2>>, <<"SrcL",-1,10,2503,2>>, <<"SrcR",-1,10,2505,2>>,
    <<"shamt",-1,5,2507,1>>, <<"RegDst",-1,10,2508,2>>, <<"SrcL",-1,10,2510,2>>,
    <<"SrcR",-1,10,2512,2>>, <<"far",-1,1,2514,1>>, <<"aq",-1,1,2515,1>>, <<"rl",-1,1,2516,1>>,
    <<"RegDst",-1,10,2517,2>>, <<"SrcL",-1,10,2519,2>>, <<"SrcR",-1,10,2521,2>>,
    <<"far",-1,1,2523,1>>, <<"aq",-1,1,2524,1>>, <<"rl",-1,1,2525,1>>, <<"C",-1,1,2526,1>>,
    <<"L",-1,1,2527,1>>, <<"RegDst",-1,10,2528,2>>, <<"SrcL",-1,10,2530,2>>,
    <<"SrcR",-1,10,2532,2>>, <<"shamt",-1,5,2534,1>>, <<"RegDst",-1,10,2535,2>>,
    <<"SrcL",-1,10,2537,2>>, <<"SrcR",-1,10,2539,2>>, <<"far",-1,1,2541,1>>, <<"aq",-1,1,2542,1>>,
    <<"rl",-1,1,2543,1>>, <<"RegDst",-1,10,2544,2>>, <<"SrcL",-1,10,2546,2>>,
    <<"SrcR",-1,10,2548,2>>, <<"far",-1,1,2550,1>>, <<"aq",-1,1,2551,1>>, <<"rl",-1,1,2552,1>>,
    <<"RegDst",-1,10,2553,2>>, <<"SrcL",-1,10,2555,2>>, <<"SrcR",-1,10,2557,2>>,
    <<"far",-1,1,2559,1>>, <<"aq",-1,1,2560,1>>, <<"rl",-1,1,2561,1>>, <<"RegDst",-1,10,2562,2>>,
    <<"SrcL",-1,10,2564,2>>, <<"SrcR",-1,10,2566,2>>, <<"far",-1,1,2568,1>>, <<"aq",-1,1,2569,1>>,
    <<"rl",-1,1,2570,1>>, <<"C",-1,1,2571,1>>, <<"L",-1,1,2572,1>>, <<"RegDst",-1,10,2573,2>>,
    <<"SrcL",-1,10,2575,2>>, <<"simm24",1,24,2577,2>>, <<"C",-1,1,2579,1>>, <<"L",-1,1,2580,1>>,
    <<"RegDst",-1,10,2581,2>>, <<"SrcL",-1,10,2583,2>>, <<"simm24",1,24,2585,2>>,
    <<"C",-1,1,2587,1>>, <<"L",-1,1,2588,1>>, <<"RegDst",-1,10,2589,2>>, <<"SrcL",-1,10,2591,2>>,
    <<"simm24",1,24,2593,2>>, <<"C",-1,1,2595,1>>, <<"L",-1,1,2596,1>>, <<"RegDst",-1,10,2597,2>>,
    <<"SrcL",-1,10,2599,2>>, <<"simm24",1,24,2601,2>>, <<"C",-1,1,2603,1>>, <<"L",-1,1,2604,1>>,
    <<"RegDst",-1,10,2605,2>>, <<"SrcL",-1,10,2607,2>>, <<"SrcR",-1,10,2609,2>>,
    <<"shamt",-1,5,2611,1>>, <<"C",-1,1,2612,1>>, <<"L",-1,1,2613,1>>, <<"RegDst",-1,10,2614,2>>,
    <<"SrcL",-1,10,2616,2>>, <<"SrcR",-1,10,2618,2>>, <<"shamt",-1,5,2620,1>> >>

kFields_16 ==
  <<
    <<"C",-1,1,2621,1>>, <<"L",-1,1,2622,1>>, <<"RegDst",-1,10,2623,2>>, <<"SrcL",-1,10,2625,2>>,
    <<"simm24",1,24,2627,2>>, <<"C",-1,1,2629,1>>, <<"L",-1,1,2630,1>>, <<"RegDst",-1,10,2631,2>>,
    <<"SrcL",-1,10,2633,2>>, <<"simm24",1,24,2635,2>>, <<"C",-1,1,2637,1>>, <<"L",-1,1,2638,1>>,
    <<"RegDst",-1,10,2639,2>>, <<"SrcL",-1,10,2641,2>>, <<"simm24",1,24,2643,2>>,
    <<"C",-1,1,2645,1>>, <<"L",-1,1,2646,1>>, <<"RegDst",-1,10,2647,2>>, <<"SrcL",-1,10,2649,2>>,
    <<"simm24",1,24,2651,2>>, <<"C",-1,1,2653,1>>, <<"L",-1,1,2654,1>>, <<"RegDst",-1,10,2655,2>>,
    <<"SrcL",-1,10,2657,2>>, <<"SrcR",-1,10,2659,2>>, <<"shamt",-1,5,2661,1>>, <<"C",-1,1,2662,1>>,
    <<"L",-1,1,2663,1>>, <<"RegDst",-1,10,2664,2>>, <<"SrcL",-1,10,2666,2>>,
    <<"SrcR",-1,10,2668,2>>, <<"shamt",-1,5,2670,1>>, <<"C",-1,1,2671,1>>, <<"L",-1,1,2672,1>>,
    <<"RegDst",-1,10,2673,2>>, <<"SrcL",-1,10,2675,2>>, <<"simm24",1,24,2677,2>>,
    <<"C",-1,1,2679,1>>, <<"L",-1,1,2680,1>>, <<"RegDst",-1,10,2681,2>>, <<"SrcL",-1,10,2683,2>>,
    <<"simm24",1,24,2685,2>>, <<"C",-1,1,2687,1>>, <<"L",-1,1,2688,1>>, <<"RegDst",-1,10,2689,2>>,
    <<"SrcL",-1,10,2691,2>>, <<"simm24",1,24,2693,2>>, <<"C",-1,1,2695,1>>, <<"L",-1,1,2696,1>>,
    <<"RegDst",-1,10,2697,2>>, <<"SrcL",-1,10,2699,2>>, <<"simm24",1,24,2701,2>>,
    <<"C",-1,1,2703,1>>, <<"L",-1,1,2704,1>>, <<"RegDst",-1,10,2705,2>>, <<"SrcL",-1,10,2707,2>>,
    <<"SrcR",-1,10,2709,2>>, <<"shamt",-1,5,2711,1>>, <<"RegDst",-1,10,2712,2>>,
    <<"SrcL",-1,10,2714,2>>, <<"SrcR",-1,10,2716,2>>, <<"far",-1,1,2718,1>>, <<"aq",-1,1,2719,1>>,
    <<"rl",-1,1,2720,1>>, <<"RegDst",-1,10,2721,2>>, <<"SrcL",-1,10,2723,2>>,
    <<"SrcR",-1,10,2725,2>>, <<"far",-1,1,2727,1>>, <<"aq",-1,1,2728,1>>, <<"rl",-1,1,2729,1>>,
    <<"C",-1,1,2730,1>>, <<"L",-1,1,2731,1>>, <<"RegDst",-1,10,2732,2>>, <<"SrcL",-1,10,2734,2>>,
    <<"SrcR",-1,10,2736,2>>, <<"shamt",-1,5,2738,1>>, <<"RegDst",-1,10,2739,2>>,
    <<"SrcL",-1,10,2741,2>>, <<"SrcR",-1,10,2743,2>>, <<"far",-1,1,2745,1>>, <<"aq",-1,1,2746,1>>,
    <<"rl",-1,1,2747,1>>, <<"RegDst",-1,10,2748,2>>, <<"SrcL",-1,10,2750,2>>,
    <<"SrcR",-1,10,2752,2>>, <<"far",-1,1,2754,1>>, <<"aq",-1,1,2755,1>>, <<"rl",-1,1,2756,1>>,
    <<"RegDst",-1,10,2757,2>>, <<"SrcL",-1,10,2759,2>>, <<"SrcR",-1,10,2761,2>>,
    <<"far",-1,1,2763,1>>, <<"aq",-1,1,2764,1>>, <<"rl",-1,1,2765,1>>, <<"RegDst",-1,10,2766,2>>,
    <<"SrcL",-1,10,2768,2>>, <<"SrcR",-1,10,2770,2>>, <<"far",-1,1,2772,1>>, <<"aq",-1,1,2773,1>>,
    <<"rl",-1,1,2774,1>>, <<"C",-1,1,2775,1>>, <<"L",-1,1,2776,1>>, <<"RegDst",-1,10,2777,2>>,
    <<"SrcL",-1,10,2779,2>>, <<"simm24",1,24,2781,2>>, <<"C",-1,1,2783,1>>, <<"L",-1,1,2784,1>>,
    <<"RegDst",-1,10,2785,2>>, <<"SrcL",-1,10,2787,2>>, <<"simm24",1,24,2789,2>>,
    <<"C",-1,1,2791,1>>, <<"L",-1,1,2792,1>>, <<"RegDst",-1,10,2793,2>>, <<"SrcL",-1,10,2795,2>>,
    <<"simm24",1,24,2797,2>>, <<"C",-1,1,2799,1>>, <<"L",-1,1,2800,1>>, <<"RegDst",-1,10,2801,2>>,
    <<"SrcL",-1,10,2803,2>>, <<"simm24",1,24,2805,2>>, <<"C",-1,1,2807,1>>, <<"L",-1,1,2808,1>>,
    <<"RegDst",-1,10,2809,2>>, <<"SrcL",-1,10,2811,2>>, <<"SrcR",-1,10,2813,2>>,
    <<"shamt",-1,5,2815,1>>, <<"C",-1,1,2816,1>>, <<"L",-1,1,2817,1>>, <<"RegDst",-1,10,2818,2>>,
    <<"SrcL",-1,10,2820,2>>, <<"SrcR",-1,10,2822,2>>, <<"shamt",-1,5,2824,1>>, <<"C",-1,1,2825,1>>,
    <<"L",-1,1,2826,1>>, <<"RegDst",-1,10,2827,2>>, <<"SrcL",-1,10,2829,2>>,
    <<"simm24",1,24,2831,2>>, <<"C",-1,1,2833,1>>, <<"L",-1,1,2834,1>>, <<"RegDst",-1,10,2835,2>>,
    <<"SrcL",-1,10,2837,2>>, <<"simm24",1,24,2839,2>>, <<"C",-1,1,2841,1>>, <<"L",-1,1,2842,1>>,
    <<"RegDst",-1,10,2843,2>>, <<"SrcL",-1,10,2845,2>>, <<"simm24",1,24,2847,2>>,
    <<"C",-1,1,2849,1>>, <<"L",-1,1,2850,1>>, <<"RegDst",-1,10,2851,2>> >>

kFields_17 ==
  <<
    <<"SrcL",-1,10,2853,2>>, <<"simm24",1,24,2855,2>>, <<"RegDst",-1,10,2857,2>>,
    <<"SrcD",-1,10,2859,2>>, <<"SrcL",-1,10,2861,2>>, <<"SrcR",-1,10,2863,2>>,
    <<"RegDst",-1,10,2865,2>>, <<"SrcL",-1,10,2867,2>>, <<"SrcR",-1,10,2869,2>>,
    <<"RegDst",-1,10,2871,2>>, <<"SrcL",-1,10,2873,2>>, <<"SrcR",-1,10,2875,2>>,
    <<"RegDst",-1,10,2877,2>>, <<"SrcL",-1,10,2879,2>>, <<"SrcR",-1,10,2881,2>>,
    <<"RegDst",-1,10,2883,2>>, <<"SrcL",-1,10,2885,2>>, <<"SrcR",-1,10,2887,2>>,
    <<"SrcRType",-1,2,2889,1>>, <<"shamt",-1,5,2890,1>>, <<"RegDst",-1,10,2891,2>>,
    <<"SrcL",-1,10,2893,2>>, <<"simm12",1,12,2895,1>>, <<"RegDst",-1,10,2896,2>>,
    <<"SrcL",-1,10,2898,2>>, <<"SrcR",-1,10,2900,2>>, <<"SrcZero",-1,10,2902,2>>,
    <<"SrcRType",-1,2,2904,1>>, <<"RegDst",-1,10,2905,2>>, <<"SrcL",-1,10,2907,2>>,
    <<"RegDst",-1,10,2909,2>>, <<"SrcL",-1,10,2911,2>>, <<"SrcR",-1,10,2913,2>>,
    <<"RegDst",-1,10,2915,2>>, <<"SrcL",-1,10,2917,2>>, <<"RegDst",-1,10,2919,2>>,
    <<"SrcL",-1,10,2921,2>>, <<"RegDst",-1,10,2923,2>>, <<"SrcL",-1,10,2925,2>>,
    <<"RegDst",-1,10,2927,2>>, <<"SrcL",-1,10,2929,2>>, <<"RegDst",-1,10,2931,2>>,
    <<"SrcL",-1,10,2933,2>>, <<"RegDst",-1,10,2935,2>>, <<"SrcL",-1,10,2937,2>>,
    <<"RegDst",-1,10,2939,2>>, <<"SrcL",-1,10,2941,2>>, <<"RegDst",-1,10,2943,2>>,
    <<"SrcL",-1,10,2945,2>>, <<"RegDst",-1,10,2947,2>>, <<"SrcL",-1,10,2949,2>>,
    <<"RegDst",-1,10,2951,2>>, <<"SrcL",-1,10,2953,2>>, <<"SrcR",-1,10,2955,2>>,
    <<"RegDst",-1,10,2957,2>>, <<"SrcL",-1,10,2959,2>>, <<"imml",-1,6,2961,1>>,
    <<"immr",-1,6,2962,1>>, <<"C",-1,1,2963,1>>, <<"L",-1,1,2964,1>>, <<"SrcD",-1,10,2965,2>>,
    <<"SrcL",-1,10,2967,2>>, <<"SrcR",-1,10,2969,2>>, <<"shamt",-1,5,2971,1>>, <<"C",-1,1,2972,1>>,
    <<"L",-1,1,2973,1>>, <<"SrcD",-1,10,2974,2>>, <<"SrcL",-1,10,2976,2>>, <<"SrcR",-1,10,2978,2>>,
    <<"shamt",-1,5,2980,1>>, <<"C",-1,1,2981,1>>, <<"L",-1,1,2982,1>>, <<"SrcL",-1,10,2983,2>>,
    <<"SrcR",-1,10,2985,2>>, <<"simm24",1,24,2987,4>>, <<"C",-1,1,2991,1>>, <<"L",-1,1,2992,1>>,
    <<"SrcL",-1,10,2993,2>>, <<"SrcR",-1,10,2995,2>>, <<"simm24",1,24,2997,4>>, <<"C",-1,1,3001,1>>,
    <<"L",-1,1,3002,1>>, <<"SrcD",-1,10,3003,2>>, <<"SrcL",-1,10,3005,2>>, <<"SrcR",-1,10,3007,2>>,
    <<"shamt",-1,5,3009,1>>, <<"SrcL",-1,10,3010,2>>, <<"SrcR",-1,10,3012,2>>,
    <<"far",-1,1,3014,1>>, <<"rd",-1,1,3015,1>>, <<"rl",-1,1,3016,1>>, <<"SrcL",-1,10,3017,2>>,
    <<"SrcR",-1,10,3019,2>>, <<"far",-1,1,3021,1>>, <<"rd",-1,1,3022,1>>, <<"rl",-1,1,3023,1>>,
    <<"C",-1,1,3024,1>>, <<"L",-1,1,3025,1>>, <<"SrcD",-1,10,3026,2>>, <<"SrcL",-1,10,3028,2>>,
    <<"SrcR",-1,10,3030,2>>, <<"shamt",-1,5,3032,1>>, <<"SrcL",-1,10,3033,2>>,
    <<"SrcR",-1,10,3035,2>>, <<"far",-1,1,3037,1>>, <<"rd",-1,1,3038,1>>, <<"rl",-1,1,3039,1>>,
    <<"SrcL",-1,10,3040,2>>, <<"SrcR",-1,10,3042,2>>, <<"far",-1,1,3044,1>>, <<"rd",-1,1,3045,1>>,
    <<"rl",-1,1,3046,1>>, <<"SrcL",-1,10,3047,2>>, <<"SrcR",-1,10,3049,2>>, <<"far",-1,1,3051,1>>,
    <<"rd",-1,1,3052,1>>, <<"rl",-1,1,3053,1>>, <<"C",-1,1,3054,1>>, <<"L",-1,1,3055,1>>,
    <<"SrcD",-1,10,3056,2>>, <<"SrcL",-1,10,3058,2>>, <<"SrcR",-1,10,3060,2>>,
    <<"shamt",-1,5,3062,1>>, <<"C",-1,1,3063,1>>, <<"L",-1,1,3064,1>>, <<"SrcD",-1,10,3065,2>>,
    <<"SrcL",-1,10,3067,2>>, <<"SrcR",-1,10,3069,2>>, <<"shamt",-1,5,3071,1>>,
    <<"SrcL",-1,10,3072,2>>, <<"SrcR",-1,10,3074,2>>, <<"far",-1,1,3076,1>>, <<"rd",-1,1,3077,1>>,
    <<"rl",-1,1,3078,1>>, <<"C",-1,1,3079,1>>, <<"L",-1,1,3080,1>>, <<"SrcL",-1,10,3081,2>>,
    <<"SrcR",-1,10,3083,2>>, <<"simm24",1,24,3085,4>>, <<"C",-1,1,3089,1>>, <<"L",-1,1,3090,1>>,
    <<"SrcL",-1,10,3091,2>>, <<"SrcR",-1,10,3093,2>>, <<"simm24",1,24,3095,4>>, <<"C",-1,1,3099,1>>,
    <<"L",-1,1,3100,1>>, <<"SrcL",-1,10,3101,2>>, <<"SrcR",-1,10,3103,2>>, <<"simm24",1,24,3105,4>>,
    <<"C",-1,1,3109,1>> >>

kFields_18 ==
  <<
    <<"L",-1,1,3110,1>>, <<"SrcL",-1,10,3111,2>>, <<"SrcR",-1,10,3113,2>>, <<"simm24",1,24,3115,4>>,
    <<"C",-1,1,3119,1>>, <<"L",-1,1,3120,1>>, <<"SrcD",-1,10,3121,2>>, <<"SrcL",-1,10,3123,2>>,
    <<"SrcR",-1,10,3125,2>>, <<"shamt",-1,5,3127,1>>, <<"C",-1,1,3128,1>>, <<"L",-1,1,3129,1>>,
    <<"SrcD",-1,10,3130,2>>, <<"SrcL",-1,10,3132,2>>, <<"SrcR",-1,10,3134,2>>,
    <<"shamt",-1,5,3136,1>>, <<"C",-1,1,3137,1>>, <<"L",-1,1,3138,1>>, <<"SrcD",-1,10,3139,2>>,
    <<"SrcL",-1,10,3141,2>>, <<"SrcR",-1,10,3143,2>>, <<"shamt",-1,5,3145,1>>, <<"C",-1,1,3146,1>>,
    <<"L",-1,1,3147,1>>, <<"SrcD",-1,10,3148,2>>, <<"SrcL",-1,10,3150,2>>, <<"SrcR",-1,10,3152,2>>,
    <<"shamt",-1,5,3154,1>>, <<"RegDst",-1,10,3155,2>>, <<"SrcL",-1,10,3157,2>>,
    <<"SrcP",-1,10,3159,2>>, <<"RegDst",-1,10,3161,2>>, <<"SrcL",-1,10,3163,2>>,
    <<"SrcP",-1,10,3165,2>>, <<"SrcR",-1,10,3167,2>>, <<"RegDst",-1,10,3169,2>>,
    <<"SrcL",-1,10,3171,2>>, <<"SrcP",-1,10,3173,2>>, <<"SrcR",-1,10,3175,2>>,
    <<"RegDst",-1,10,3177,2>>, <<"SrcL",-1,10,3179,2>>, <<"SrcP",-1,10,3181,2>>,
    <<"SrcR",-1,10,3183,2>>, <<"RegDst",-1,10,3185,2>>, <<"SrcL",-1,10,3187,2>>,
    <<"imm",-1,14,3189,2>>, <<"RegDst",-1,10,3191,2>>, <<"SrcL",-1,10,3193,2>>,
    <<"SrcR",-1,10,3195,2>>, <<"imm",-1,14,3197,2>>, <<"RegDst",-1,10,3199,2>>,
    <<"SrcL",-1,10,3201,2>>, <<"SrcR",-1,10,3203,2>>, <<"imm",-1,14,3205,2>>,
    <<"RegDst",-1,10,3207,2>>, <<"SrcL",-1,10,3209,2>>, <<"SrcR",-1,10,3211,2>>,
    <<"imm",-1,14,3213,2>>, <<"C",-1,1,3215,1>>, <<"L",-1,1,3216,1>>, <<"SrcL",-1,10,3217,2>>,
    <<"SrcR",-1,10,3219,2>>, <<"simm24",1,24,3221,4>>, <<"C",-1,1,3225,1>>, <<"L",-1,1,3226,1>>,
    <<"SrcL",-1,10,3227,2>>, <<"SrcR",-1,10,3229,2>>, <<"simm24",1,24,3231,4>>, <<"C",-1,1,3235,1>>,
    <<"L",-1,1,3236,1>>, <<"SrcL",-1,10,3237,2>>, <<"SrcR",-1,10,3239,2>>, <<"simm24",1,24,3241,4>>,
    <<"C",-1,1,3245,1>>, <<"L",-1,1,3246,1>>, <<"SrcL",-1,10,3247,2>>, <<"SrcR",-1,10,3249,2>>,
    <<"simm24",1,24,3251,4>>, <<"RegDst",-1,10,3255,2>>, <<"SrcL",-1,10,3257,2>>,
    <<"SrcR",-1,10,3259,2>>, <<"RegDst",-1,10,3261,2>>, <<"SrcL",-1,10,3263,2>>,
    <<"shamt",-1,6,3265,1>>, <<"RegDst",-1,10,3266,2>>, <<"SrcL",-1,10,3268,2>>,
    <<"SrcR",-1,10,3270,2>>, <<"RegDst",-1,10,3272,2>>, <<"SrcL",-1,10,3274,2>>,
    <<"shamt",-1,6,3276,1>>, <<"RegDst",-1,10,3277,2>>, <<"SrcL",-1,10,3279,2>>,
    <<"SrcR",-1,10,3281,2>>, <<"RegDst",-1,10,3283,2>>, <<"SrcL",-1,10,3285,2>>,
    <<"shamt",-1,6,3287,1>>, <<"RegDst",-1,10,3288,2>>, <<"SrcL",-1,10,3290,2>>,
    <<"SrcR",-1,10,3292,2>>, <<"SrcRType",-1,2,3294,1>>, <<"shamt",-1,5,3295,1>>,
    <<"RegDst",-1,10,3296,2>>, <<"SrcL",-1,10,3298,2>>, <<"uimm12",0,12,3300,1>>,
    <<"C",-1,1,3301,1>>, <<"L",-1,1,3302,1>>, <<"SrcD",-1,10,3303,2>>, <<"SrcL",-1,10,3305,2>>,
    <<"SrcR",-1,10,3307,2>>, <<"shamt",-1,5,3309,1>>, <<"SrcL",-1,10,3310,2>>,
    <<"SrcR",-1,10,3312,2>>, <<"far",-1,1,3314,1>>, <<"rd",-1,1,3315,1>>, <<"rl",-1,1,3316,1>>,
    <<"SrcL",-1,10,3317,2>>, <<"SrcR",-1,10,3319,2>>, <<"far",-1,1,3321,1>>, <<"rd",-1,1,3322,1>>,
    <<"rl",-1,1,3323,1>>, <<"C",-1,1,3324,1>>, <<"L",-1,1,3325,1>>, <<"SrcD",-1,10,3326,2>>,
    <<"SrcL",-1,10,3328,2>>, <<"SrcR",-1,10,3330,2>>, <<"shamt",-1,5,3332,1>>,
    <<"SrcL",-1,10,3333,2>>, <<"SrcR",-1,10,3335,2>>, <<"far",-1,1,3337,1>>, <<"rd",-1,1,3338,1>>,
    <<"rl",-1,1,3339,1>>, <<"SrcL",-1,10,3340,2>>, <<"SrcR",-1,10,3342,2>>, <<"far",-1,1,3344,1>>,
    <<"rd",-1,1,3345,1>>, <<"rl",-1,1,3346,1>>, <<"SrcL",-1,10,3347,2>>, <<"SrcR",-1,10,3349,2>>,
    <<"far",-1,1,3351,1>>, <<"rd",-1,1,3352,1>>, <<"rl",-1,1,3353,1>>, <<"C",-1,1,3354,1>>,
    <<"L",-1,1,3355,1>>, <<"SrcD",-1,10,3356,2>>, <<"SrcL",-1,10,3358,2>>, <<"SrcR",-1,10,3360,2>>,
    <<"shamt",-1,5,3362,1>>, <<"C",-1,1,3363,1>>, <<"L",-1,1,3364,1>>, <<"SrcD",-1,10,3365,2>> >>

kFields_19 ==
  <<
    <<"SrcL",-1,10,3367,2>>, <<"SrcR",-1,10,3369,2>>, <<"shamt",-1,5,3371,1>>,
    <<"SrcL",-1,10,3372,2>>, <<"SrcR",-1,10,3374,2>>, <<"far",-1,1,3376,1>>, <<"rd",-1,1,3377,1>>,
    <<"rl",-1,1,3378,1>>, <<"C",-1,1,3379,1>>, <<"L",-1,1,3380,1>>, <<"SrcL",-1,10,3381,2>>,
    <<"SrcR",-1,10,3383,2>>, <<"simm24",1,24,3385,4>>, <<"C",-1,1,3389,1>>, <<"L",-1,1,3390,1>>,
    <<"SrcL",-1,10,3391,2>>, <<"SrcR",-1,10,3393,2>>, <<"simm24",1,24,3395,4>>, <<"C",-1,1,3399,1>>,
    <<"L",-1,1,3400,1>>, <<"SrcL",-1,10,3401,2>>, <<"SrcR",-1,10,3403,2>>, <<"simm24",1,24,3405,4>>,
    <<"C",-1,1,3409,1>>, <<"L",-1,1,3410,1>>, <<"SrcL",-1,10,3411,2>>, <<"SrcR",-1,10,3413,2>>,
    <<"simm24",1,24,3415,4>>, <<"RegDst",-1,10,3419,2>>, <<"SrcL",-1,10,3421,2>>,
    <<"SrcR",-1,10,3423,2>>, <<"SrcRType",-1,2,3425,1>>, <<"shamt",-1,5,3426,1>>,
    <<"RegDst",-1,10,3427,2>>, <<"SrcL",-1,10,3429,2>>, <<"simm12",1,12,3431,1>>,
    <<"ACR-ID",-1,10,3432,1>>, <<"CROSS-BID",-1,7,3433,1>>, <<"RegDst",-1,5,3434,1>>,
    <<"SrcL",-1,5,3435,1>>, <<"SrcR",-1,5,3436,1>>, <<"SrcRType",-1,2,3437,1>>,
    <<"shamt",-1,5,3438,1>>, <<"RegDst",-1,5,3439,1>>, <<"SrcL",-1,5,3440,1>>,
    <<"simm12",1,12,3441,1>>, <<"RegDst",-1,5,3442,1>>, <<"SrcL",-1,5,3443,1>>,
    <<"simm12",1,12,3444,1>>, <<"RegDst",-1,5,3445,1>>, <<"SrcL",-1,5,3446,1>>,
    <<"SrcR",-1,5,3447,1>>, <<"SrcRType",-1,2,3448,1>>, <<"shamt",-1,5,3449,1>> >>

kFields ==
  kFields_1 \o kFields_2 \o kFields_3 \o kFields_4 \o kFields_5 \o kFields_6 \o kFields_7 \o
  kFields_8 \o kFields_9 \o kFields_10 \o kFields_11 \o kFields_12 \o kFields_13 \o kFields_14 \o
  kFields_15 \o kFields_16 \o kFields_17 \o kFields_18 \o kFields_19

(***************************************************************************)
(* field_name, op, value                                                     *)
(***************************************************************************)
kConstraints_1 ==
  <<
    <<"RRA_Type","Ne",2>>, <<"RRA_Type","Ne",3>>, <<"RRA_Type","Ne",4>>, <<"RRA_Type","Ne",5>>,
    <<"RRA_Type","Ne",6>>, <<"RRA_Type","Ne",7>>, <<"RRA_Type","Ne",8>>, <<"RRA_Type","Ne",9>>,
    <<"RRA_Type","Ne",10>>, <<"RRA_Type","Ne",11>>, <<"RRA_Type","Ne",12>>, <<"RRA_Type","Ne",13>>,
    <<"RRA_Type","Ne",14>>, <<"RRA_Type","Ne",15>>, <<"RegDst","Ne",10>>, <<"RegSrc","Ne",24>>,
    <<"RegSrc","Ne",25>>, <<"RegSrc","Ne",26>>, <<"RegSrc","Ne",27>>, <<"RegSrc","Ne",28>>,
    <<"RegSrc","Ne",29>>, <<"RegSrc","Ne",30>>, <<"RegSrc","Ne",31>>, <<"WriterSizeCode","Ne",13>>,
    <<"WriterSizeCode","Ne",14>>, <<"WriterSizeCode","Ne",15>>, <<"CMode","Ne",6>>,
    <<"CMode","Ne",7>>, <<"DataType","Ne",22>>, <<"DataType","Ne",23>>, <<"DataType","Ne",29>>,
    <<"DataType","Ne",30>>, <<"Layout","Ne",2>>, <<"Layout","Ne",5>>, <<"Layout","Ne",7>>,
    <<"Layout","Ne",12>>, <<"Layout","Ne",13>>, <<"Layout","Ne",14>>, <<"Layout","Ne",15>>,
    <<"Layout","Ne",16>>, <<"Layout","Ne",19>>, <<"RegSrc","Ne",24>>, <<"RegSrc","Ne",25>>,
    <<"RegSrc","Ne",26>>, <<"RegSrc","Ne",27>>, <<"RegSrc","Ne",28>>, <<"RegSrc","Ne",29>>,
    <<"RegSrc","Ne",30>>, <<"RegSrc","Ne",31>>, <<"RegSrc","Ne",24>>, <<"RegSrc","Ne",25>>,
    <<"RegSrc","Ne",26>>, <<"RegSrc","Ne",27>>, <<"RegSrc","Ne",28>>, <<"RegSrc","Ne",29>>,
    <<"RegSrc","Ne",30>>, <<"RegSrc","Ne",31>>, <<"RegSrc","Ne",24>>, <<"RegSrc","Ne",25>>,
    <<"RegSrc","Ne",26>>, <<"RegSrc","Ne",27>>, <<"RegSrc","Ne",28>>, <<"RegSrc","Ne",29>>,
    <<"RegSrc","Ne",30>>, <<"RegSrc","Ne",31>>, <<"PreQuantMode","Ne",6>>,
    <<"PreQuantMode","Ne",7>>, <<"PreQuantMode","Ne",8>>, <<"PreQuantMode","Ne",9>>,
    <<"PreQuantMode","Ne",10>>, <<"PreQuantMode","Ne",11>>, <<"PreQuantMode","Ne",14>>,
    <<"PreQuantMode","Ne",15>>, <<"PreQuantMode","Ne",21>>, <<"PreQuantMode","Ne",22>>,
    <<"PreQuantMode","Ne",29>>, <<"PreQuantMode","Ne",30>>, <<"PreQuantMode","Ne",31>>,
    <<"PreQuantMode","Ne",40>>, <<"PreQuantMode","Ne",41>>, <<"PreQuantMode","Ne",42>>,
    <<"PreQuantMode","Ne",43>>, <<"PreQuantMode","Ne",44>>, <<"PreQuantMode","Ne",45>>,
    <<"PreQuantMode","Ne",46>>, <<"PreQuantMode","Ne",47>>, <<"PreQuantMode","Ne",48>>,
    <<"PreQuantMode","Ne",49>>, <<"PreQuantMode","Ne",50>>, <<"PreQuantMode","Ne",51>>,
    <<"PreQuantMode","Ne",52>>, <<"PreQuantMode","Ne",53>>, <<"PreQuantMode","Ne",54>>,
    <<"PreQuantMode","Ne",55>>, <<"PreQuantMode","Ne",56>>, <<"PreQuantMode","Ne",57>>,
    <<"PreQuantMode","Ne",58>>, <<"PreQuantMode","Ne",59>>, <<"PreQuantMode","Ne",60>>,
    <<"PreQuantMode","Ne",61>>, <<"PreQuantMode","Ne",62>>, <<"PreQuantMode","Ne",63>>,
    <<"ReluMode","Ne",4>>, <<"ReluMode","Ne",5>>, <<"ReluMode","Ne",6>>, <<"ReluMode","Ne",7>>,
    <<"GroupNCode","Ne",10>>, <<"GroupNCode","Ne",11>>, <<"GroupNCode","Ne",12>>,
    <<"GroupNCode","Ne",13>>, <<"GroupNCode","Ne",14>>, <<"GroupNCode","Ne",15>>,
    <<"RegDst","Ne",24>>, <<"RegDst","Ne",25>>, <<"RegDst","Ne",26>>, <<"RegDst","Ne",27>>,
    <<"RegDst","Ne",28>>, <<"RegDst","Ne",29>>, <<"RegDst","Ne",30>>, <<"RegDst","Ne",31>>,
    <<"RegSrc0","Ne",24>>, <<"RegSrc0","Ne",25>>, <<"RegSrc0","Ne",26>>, <<"RegSrc0","Ne",27>>,
    <<"RegSrc0","Ne",28>>, <<"RegSrc0","Ne",29>>, <<"RegSrc0","Ne",30>>, <<"RegSrc0","Ne",31>>,
    <<"RegSrc1","Ne",24>>, <<"RegSrc1","Ne",25>>, <<"RegSrc1","Ne",26>>, <<"RegSrc1","Ne",27>>,
    <<"RegSrc1","Ne",28>>, <<"RegSrc1","Ne",29>>, <<"RegSrc1","Ne",30>>, <<"RegSrc1","Ne",31>>,
    <<"RegSrc2","Ne",24>>, <<"RegSrc2","Ne",25>>, <<"RegSrc2","Ne",26>>, <<"RegSrc2","Ne",27>>,
    <<"RegSrc2","Ne",28>>, <<"RegSrc2","Ne",29>>, <<"RegSrc2","Ne",30>>, <<"RegSrc2","Ne",31>>,
    <<"SizeCode","Ne",13>>, <<"SizeCode","Ne",14>>, <<"SizeCode","Ne",15>>, <<"SizeCode","Ne",0>>,
    <<"SizeCode","Ne",11>>, <<"SizeCode","Ne",12>> >>

kConstraints_2 ==
  <<
    <<"SizeCode","Ne",13>>, <<"SizeCode","Ne",14>>, <<"SizeCode","Ne",15>>, <<"SizeCode","Ne",0>>,
    <<"SizeCode","Ne",11>>, <<"SizeCode","Ne",12>>, <<"SizeCode","Ne",13>>, <<"SizeCode","Ne",14>>,
    <<"SizeCode","Ne",15>>, <<"SizeCode","Ne",0>>, <<"SizeCode","Ne",11>>, <<"SizeCode","Ne",12>>,
    <<"SizeCode","Ne",13>>, <<"SizeCode","Ne",14>>, <<"SizeCode","Ne",15>>, <<"SizeCode","Ne",0>>,
    <<"SizeCode","Ne",11>>, <<"SizeCode","Ne",12>>, <<"SizeCode","Ne",13>>, <<"SizeCode","Ne",14>>,
    <<"SizeCode","Ne",15>>, <<"SizeCode","Ne",0>>, <<"SizeCode","Ne",11>>, <<"SizeCode","Ne",12>>,
    <<"SizeCode","Ne",13>>, <<"SizeCode","Ne",14>>, <<"SizeCode","Ne",15>>, <<"SizeCode","Ne",0>>,
    <<"SizeCode","Ne",11>>, <<"SizeCode","Ne",12>>, <<"SizeCode","Ne",13>>, <<"SizeCode","Ne",14>>,
    <<"SizeCode","Ne",15>>, <<"SizeCode","Ne",0>>, <<"SizeCode","Ne",11>>, <<"SizeCode","Ne",12>>,
    <<"SizeCode","Ne",13>>, <<"SizeCode","Ne",14>>, <<"SizeCode","Ne",15>>, <<"RegSrc","Ne",24>>,
    <<"RegSrc","Ne",25>>, <<"RegSrc","Ne",26>>, <<"RegSrc","Ne",27>>, <<"RegSrc","Ne",28>>,
    <<"RegSrc","Ne",29>>, <<"RegSrc","Ne",30>>, <<"RegSrc","Ne",31>>, <<"SubviewSizeCode","Ne",0>>,
    <<"SubviewSizeCode","Ne",13>>, <<"SubviewSizeCode","Ne",14>>, <<"SubviewSizeCode","Ne",15>>,
    <<"DataType","Ne",15>>, <<"DataType","Ne",21>>, <<"DataType","Ne",22>>, <<"DataType","Ne",23>>,
    <<"DataType","Ne",29>>, <<"DataType","Ne",30>>, <<"DataType","Ne",31>>, <<"DataType","Ne",15>>,
    <<"DataType","Ne",21>>, <<"DataType","Ne",22>>, <<"DataType","Ne",23>>, <<"DataType","Ne",29>>,
    <<"DataType","Ne",30>>, <<"DataType","Ne",31>>, <<"DataType","Ne",15>>, <<"DataType","Ne",21>>,
    <<"DataType","Ne",22>>, <<"DataType","Ne",23>>, <<"DataType","Ne",29>>, <<"DataType","Ne",30>>,
    <<"DataType","Ne",31>>, <<"DataType","Ne",15>>, <<"DataType","Ne",21>>, <<"DataType","Ne",22>>,
    <<"DataType","Ne",23>>, <<"DataType","Ne",29>>, <<"DataType","Ne",30>>, <<"DataType","Ne",31>>,
    <<"DataType","Ne",15>>, <<"DataType","Ne",21>>, <<"DataType","Ne",22>>, <<"DataType","Ne",23>>,
    <<"DataType","Ne",29>>, <<"DataType","Ne",30>>, <<"DataType","Ne",31>>, <<"DataType","Ne",15>>,
    <<"DataType","Ne",21>>, <<"DataType","Ne",22>>, <<"DataType","Ne",23>>, <<"DataType","Ne",29>>,
    <<"DataType","Ne",30>>, <<"DataType","Ne",31>>, <<"DataType","Ne",15>>, <<"DataType","Ne",21>>,
    <<"DataType","Ne",22>>, <<"DataType","Ne",23>>, <<"DataType","Ne",29>>, <<"DataType","Ne",30>>,
    <<"DataType","Ne",31>>, <<"DataType","Ne",15>>, <<"DataType","Ne",21>>, <<"DataType","Ne",22>>,
    <<"DataType","Ne",23>>, <<"DataType","Ne",29>>, <<"DataType","Ne",30>>, <<"DataType","Ne",31>>,
    <<"DataType","Ne",15>>, <<"DataType","Ne",21>>, <<"DataType","Ne",22>>, <<"DataType","Ne",23>>,
    <<"DataType","Ne",29>>, <<"DataType","Ne",30>>, <<"DataType","Ne",31>>, <<"DataType","Ne",15>>,
    <<"DataType","Ne",21>>, <<"DataType","Ne",22>>, <<"DataType","Ne",23>>, <<"DataType","Ne",29>>,
    <<"DataType","Ne",30>>, <<"DataType","Ne",31>>, <<"DataType","Ne",15>>, <<"DataType","Ne",21>>,
    <<"DataType","Ne",22>>, <<"DataType","Ne",23>>, <<"DataType","Ne",29>>, <<"DataType","Ne",30>>,
    <<"DataType","Ne",31>>, <<"DataType","Ne",15>>, <<"DataType","Ne",21>>, <<"DataType","Ne",22>>,
    <<"DataType","Ne",23>>, <<"DataType","Ne",29>>, <<"DataType","Ne",30>>, <<"DataType","Ne",31>>,
    <<"DataType","Ne",15>>, <<"DataType","Ne",21>>, <<"DataType","Ne",22>>, <<"DataType","Ne",23>>,
    <<"DataType","Ne",29>>, <<"DataType","Ne",30>>, <<"DataType","Ne",31>>, <<"DataType","Ne",15>>,
    <<"DataType","Ne",21>>, <<"DataType","Ne",22>>, <<"DataType","Ne",23>>, <<"DataType","Ne",29>>,
    <<"DataType","Ne",30>>, <<"DataType","Ne",31>>, <<"DataType","Ne",15>> >>

kConstraints_3 ==
  <<
    <<"DataType","Ne",21>>, <<"DataType","Ne",22>>, <<"DataType","Ne",23>>, <<"DataType","Ne",29>>,
    <<"DataType","Ne",30>>, <<"DataType","Ne",31>>, <<"DataType","Ne",15>>, <<"DataType","Ne",21>>,
    <<"DataType","Ne",22>>, <<"DataType","Ne",23>>, <<"DataType","Ne",29>>, <<"DataType","Ne",30>>,
    <<"DataType","Ne",31>>, <<"DataType","Ne",15>>, <<"DataType","Ne",21>>, <<"DataType","Ne",22>>,
    <<"DataType","Ne",23>>, <<"DataType","Ne",29>>, <<"DataType","Ne",30>>, <<"DataType","Ne",31>>,
    <<"DataType","Ne",15>>, <<"DataType","Ne",21>>, <<"DataType","Ne",22>>, <<"DataType","Ne",23>>,
    <<"DataType","Ne",29>>, <<"DataType","Ne",30>>, <<"DataType","Ne",31>>, <<"DataType","Ne",15>>,
    <<"DataType","Ne",21>>, <<"DataType","Ne",22>>, <<"DataType","Ne",23>>, <<"DataType","Ne",29>>,
    <<"DataType","Ne",30>>, <<"DataType","Ne",31>>, <<"DataType","Ne",15>>, <<"DataType","Ne",21>>,
    <<"DataType","Ne",22>>, <<"DataType","Ne",23>>, <<"DataType","Ne",29>>, <<"DataType","Ne",30>>,
    <<"DataType","Ne",31>>, <<"DataType","Ne",15>>, <<"DataType","Ne",21>>, <<"DataType","Ne",22>>,
    <<"DataType","Ne",23>>, <<"DataType","Ne",29>>, <<"DataType","Ne",30>>, <<"DataType","Ne",31>>,
    <<"DataType","Ne",15>>, <<"DataType","Ne",21>>, <<"DataType","Ne",22>>, <<"DataType","Ne",23>>,
    <<"DataType","Ne",29>>, <<"DataType","Ne",30>>, <<"DataType","Ne",31>>, <<"DataType","Ne",15>>,
    <<"DataType","Ne",21>>, <<"DataType","Ne",22>>, <<"DataType","Ne",23>>, <<"DataType","Ne",29>>,
    <<"DataType","Ne",30>>, <<"DataType","Ne",31>>, <<"DataType","Ne",15>>, <<"DataType","Ne",21>>,
    <<"DataType","Ne",22>>, <<"DataType","Ne",23>>, <<"DataType","Ne",29>>, <<"DataType","Ne",30>>,
    <<"DataType","Ne",31>>, <<"DataType","Ne",22>>, <<"DataType","Ne",23>>, <<"DataType","Ne",29>>,
    <<"DataType","Ne",30>>, <<"DataType","Ne",31>>, <<"DataType","Ne",15>>, <<"DataType","Ne",21>>,
    <<"DataType","Ne",22>>, <<"DataType","Ne",23>>, <<"DataType","Ne",29>>, <<"DataType","Ne",30>>,
    <<"DataType","Ne",31>>, <<"DataType","Ne",15>>, <<"DataType","Ne",21>>, <<"DataType","Ne",22>>,
    <<"DataType","Ne",23>>, <<"DataType","Ne",29>>, <<"DataType","Ne",30>>, <<"DataType","Ne",31>>,
    <<"DataType","Ne",15>>, <<"DataType","Ne",21>>, <<"DataType","Ne",22>>, <<"DataType","Ne",23>>,
    <<"DataType","Ne",29>>, <<"DataType","Ne",30>>, <<"DataType","Ne",31>>, <<"DataType","Ne",15>>,
    <<"DataType","Ne",21>>, <<"DataType","Ne",22>>, <<"DataType","Ne",23>>, <<"DataType","Ne",29>>,
    <<"DataType","Ne",30>>, <<"DataType","Ne",31>>, <<"DataType","Ne",15>>, <<"DataType","Ne",21>>,
    <<"DataType","Ne",22>>, <<"DataType","Ne",23>>, <<"DataType","Ne",29>>, <<"DataType","Ne",30>>,
    <<"DataType","Ne",31>>, <<"DataType","Ne",15>>, <<"DataType","Ne",21>>, <<"DataType","Ne",22>>,
    <<"DataType","Ne",23>>, <<"DataType","Ne",29>>, <<"DataType","Ne",30>>, <<"DataType","Ne",31>>,
    <<"DataType","Ne",0>>, <<"DataType","Ne",9>>, <<"DataType","Ne",10>>, <<"DataType","Ne",11>>,
    <<"DataType","Ne",12>>, <<"DataType","Ne",14>>, <<"DataType","Ne",15>>, <<"DataType","Ne",16>>,
    <<"DataType","Ne",20>>, <<"DataType","Ne",21>>, <<"DataType","Ne",22>>, <<"DataType","Ne",23>>,
    <<"DataType","Ne",24>>, <<"DataType","Ne",28>>, <<"DataType","Ne",29>>, <<"DataType","Ne",30>>,
    <<"DataType","Ne",31>>, <<"DataType","Ne",15>>, <<"DataType","Ne",21>>, <<"DataType","Ne",22>>,
    <<"DataType","Ne",23>>, <<"DataType","Ne",29>>, <<"DataType","Ne",30>>, <<"DataType","Ne",31>>,
    <<"DataType","Ne",15>>, <<"DataType","Ne",21>>, <<"DataType","Ne",22>>, <<"DataType","Ne",23>>,
    <<"DataType","Ne",29>>, <<"DataType","Ne",30>>, <<"DataType","Ne",31>>, <<"DataType","Ne",15>>,
    <<"DataType","Ne",21>>, <<"DataType","Ne",22>> >>

kConstraints_4 ==
  <<
    <<"DataType","Ne",23>>, <<"DataType","Ne",29>>, <<"DataType","Ne",30>>, <<"DataType","Ne",31>>,
    <<"DataType","Ne",15>>, <<"DataType","Ne",21>>, <<"DataType","Ne",22>>, <<"DataType","Ne",23>>,
    <<"DataType","Ne",29>>, <<"DataType","Ne",30>>, <<"DataType","Ne",31>>, <<"DataType","Ne",15>>,
    <<"DataType","Ne",21>>, <<"DataType","Ne",22>>, <<"DataType","Ne",23>>, <<"DataType","Ne",29>>,
    <<"DataType","Ne",30>>, <<"DataType","Ne",31>>, <<"DataType","Ne",15>>, <<"DataType","Ne",21>>,
    <<"DataType","Ne",22>>, <<"DataType","Ne",23>>, <<"DataType","Ne",29>>, <<"DataType","Ne",30>>,
    <<"DataType","Ne",31>>, <<"DataType","Ne",15>>, <<"DataType","Ne",21>>, <<"DataType","Ne",22>>,
    <<"DataType","Ne",23>>, <<"DataType","Ne",29>>, <<"DataType","Ne",30>>, <<"DataType","Ne",31>>,
    <<"DataType","Ne",15>>, <<"DataType","Ne",21>>, <<"DataType","Ne",22>>, <<"DataType","Ne",23>>,
    <<"DataType","Ne",29>>, <<"DataType","Ne",30>>, <<"DataType","Ne",15>>, <<"DataType","Ne",21>>,
    <<"DataType","Ne",22>>, <<"DataType","Ne",23>>, <<"DataType","Ne",29>>, <<"DataType","Ne",30>>,
    <<"DataType","Ne",31>>, <<"DataType","Ne",15>>, <<"DataType","Ne",21>>, <<"DataType","Ne",22>>,
    <<"DataType","Ne",23>>, <<"DataType","Ne",29>>, <<"DataType","Ne",30>>, <<"DataType","Ne",31>>,
    <<"LoopNest","Ne",3>>, <<"BrType","Ne",0>>, <<"BrType","Ne",2>>, <<"BrType","Ne",3>>,
    <<"BrType","Ne",4>>, <<"BrType","Ne",6>>, <<"BrType","Ne",0>>, <<"BrType","Ne",2>>,
    <<"BrType","Ne",3>>, <<"BrType","Ne",4>>, <<"BrType","Ne",6>>, <<"RegDst","Ne",10>>,
    <<"SSRID","Ne",2>>, <<"SSRID","Ne",3>>, <<"SSRID","Ne",4>>, <<"SSRID","Ne",5>>,
    <<"SSRID","Ne",6>>, <<"SSRID","Ne",7>>, <<"SSRID","Ne",8>>, <<"SSRID","Ne",9>>,
    <<"SSRID","Ne",10>>, <<"SSRID","Ne",11>>, <<"SSRID","Ne",12>>, <<"SSRID","Ne",13>>,
    <<"SSRID","Ne",14>>, <<"SSRID","Ne",15>>, <<"SSRID","Ne",17>>, <<"SSRID","Ne",18>>,
    <<"SSRID","Ne",19>>, <<"SSRID","Ne",20>>, <<"SSRID","Ne",21>>, <<"SSRID","Ne",22>>,
    <<"SSRID","Ne",23>>, <<"SSRID","Ne",24>>, <<"SSRID","Ne",25>>, <<"SSRID","Ne",26>>,
    <<"SSRID","Ne",27>>, <<"SSRID","Ne",28>>, <<"SSRID","Ne",29>>, <<"SSRID","Ne",30>>,
    <<"SSRID","Ne",31>>, <<"SrcType","Ne",2>>, <<"SrcType","Ne",3>>, <<"SrcType","Ne",2>>,
    <<"SrcType","Ne",3>>, <<"DstType","Ne",4>>, <<"DstType","Ne",5>>, <<"DstType","Ne",6>>,
    <<"DstType","Ne",7>>, <<"DstType","Ne",8>>, <<"DstType","Ne",9>>, <<"DstType","Ne",10>>,
    <<"DstType","Ne",11>>, <<"DstType","Ne",12>>, <<"DstType","Ne",13>>, <<"DstType","Ne",14>>,
    <<"DstType","Ne",15>>, <<"DstType","Ne",16>>, <<"DstType","Ne",17>>, <<"DstType","Ne",18>>,
    <<"DstType","Ne",19>>, <<"DstType","Ne",20>>, <<"DstType","Ne",21>>, <<"DstType","Ne",22>>,
    <<"DstType","Ne",23>>, <<"DstType","Ne",24>>, <<"DstType","Ne",25>>, <<"DstType","Ne",26>>,
    <<"DstType","Ne",27>>, <<"DstType","Ne",28>>, <<"DstType","Ne",29>>, <<"DstType","Ne",30>>,
    <<"DstType","Ne",31>>, <<"DstType","Ne",8>>, <<"DstType","Ne",9>>, <<"DstType","Ne",10>>,
    <<"DstType","Ne",11>>, <<"DstType","Ne",12>>, <<"DstType","Ne",13>>, <<"DstType","Ne",14>>,
    <<"DstType","Ne",15>>, <<"DstType","Ne",16>>, <<"DstType","Ne",17>>, <<"DstType","Ne",18>>,
    <<"DstType","Ne",19>>, <<"DstType","Ne",20>>, <<"DstType","Ne",21>>, <<"DstType","Ne",22>>,
    <<"DstType","Ne",23>>, <<"DstType","Ne",24>>, <<"DstType","Ne",25>>, <<"DstType","Ne",26>>,
    <<"DstType","Ne",27>>, <<"DstType","Ne",28>>, <<"DstType","Ne",29>>, <<"DstType","Ne",30>>,
    <<"DstType","Ne",31>>, <<"DstType","Ne",8>> >>

kConstraints_5 ==
  <<
    <<"DstType","Ne",9>>, <<"DstType","Ne",10>>, <<"DstType","Ne",11>>, <<"DstType","Ne",12>>,
    <<"DstType","Ne",13>>, <<"DstType","Ne",14>>, <<"DstType","Ne",15>>, <<"DstType","Ne",16>>,
    <<"DstType","Ne",17>>, <<"DstType","Ne",18>>, <<"DstType","Ne",19>>, <<"DstType","Ne",20>>,
    <<"DstType","Ne",21>>, <<"DstType","Ne",22>>, <<"DstType","Ne",23>>, <<"DstType","Ne",24>>,
    <<"DstType","Ne",25>>, <<"DstType","Ne",26>>, <<"DstType","Ne",27>>, <<"DstType","Ne",28>>,
    <<"DstType","Ne",29>>, <<"DstType","Ne",30>>, <<"DstType","Ne",31>>, <<"DstType","Ne",8>>,
    <<"DstType","Ne",9>>, <<"DstType","Ne",10>>, <<"DstType","Ne",11>>, <<"DstType","Ne",12>>,
    <<"DstType","Ne",13>>, <<"DstType","Ne",14>>, <<"DstType","Ne",15>>, <<"DstType","Ne",16>>,
    <<"DstType","Ne",17>>, <<"DstType","Ne",18>>, <<"DstType","Ne",19>>, <<"DstType","Ne",20>>,
    <<"DstType","Ne",21>>, <<"DstType","Ne",22>>, <<"DstType","Ne",23>>, <<"DstType","Ne",24>>,
    <<"DstType","Ne",25>>, <<"DstType","Ne",26>>, <<"DstType","Ne",27>>, <<"DstType","Ne",28>>,
    <<"DstType","Ne",29>>, <<"DstType","Ne",30>>, <<"DstType","Ne",31>>, <<"DstType","Ne",8>>,
    <<"DstType","Ne",9>>, <<"DstType","Ne",10>>, <<"DstType","Ne",11>>, <<"DstType","Ne",12>>,
    <<"DstType","Ne",13>>, <<"DstType","Ne",14>>, <<"DstType","Ne",15>>, <<"DstType","Ne",16>>,
    <<"DstType","Ne",17>>, <<"DstType","Ne",18>>, <<"DstType","Ne",19>>, <<"DstType","Ne",20>>,
    <<"DstType","Ne",21>>, <<"DstType","Ne",22>>, <<"DstType","Ne",23>>, <<"DstType","Ne",24>>,
    <<"DstType","Ne",25>>, <<"DstType","Ne",26>>, <<"DstType","Ne",27>>, <<"DstType","Ne",28>>,
    <<"DstType","Ne",29>>, <<"DstType","Ne",30>>, <<"DstType","Ne",31>>, <<"DstType","Ne",8>>,
    <<"DstType","Ne",9>>, <<"DstType","Ne",10>>, <<"DstType","Ne",11>>, <<"DstType","Ne",12>>,
    <<"DstType","Ne",13>>, <<"DstType","Ne",14>>, <<"DstType","Ne",15>>, <<"DstType","Ne",16>>,
    <<"DstType","Ne",17>>, <<"DstType","Ne",18>>, <<"DstType","Ne",19>>, <<"DstType","Ne",20>>,
    <<"DstType","Ne",21>>, <<"DstType","Ne",22>>, <<"DstType","Ne",23>>, <<"DstType","Ne",24>>,
    <<"DstType","Ne",25>>, <<"DstType","Ne",26>>, <<"DstType","Ne",27>>, <<"DstType","Ne",28>>,
    <<"DstType","Ne",29>>, <<"DstType","Ne",30>>, <<"DstType","Ne",31>>, <<"SrcType","Ne",2>>,
    <<"SrcType","Ne",3>>, <<"SrcBegin","Ne",0>>, <<"SrcBegin","Ne",1>>, <<"SrcBegin","Ne",24>>,
    <<"SrcBegin","Ne",25>>, <<"SrcBegin","Ne",26>>, <<"SrcBegin","Ne",27>>, <<"SrcBegin","Ne",28>>,
    <<"SrcBegin","Ne",29>>, <<"SrcBegin","Ne",30>>, <<"SrcBegin","Ne",31>>, <<"SrcEnd","Ne",0>>,
    <<"SrcEnd","Ne",1>>, <<"SrcEnd","Ne",24>>, <<"SrcEnd","Ne",25>>, <<"SrcEnd","Ne",26>>,
    <<"SrcEnd","Ne",27>>, <<"SrcEnd","Ne",28>>, <<"SrcEnd","Ne",29>>, <<"SrcEnd","Ne",30>>,
    <<"SrcEnd","Ne",31>>, <<"SrcType","Ne",2>>, <<"SrcType","Ne",3>>, <<"SrcType","Ne",2>>,
    <<"SrcType","Ne",3>>, <<"DstBegin","Ne",0>>, <<"DstBegin","Ne",1>>, <<"DstBegin","Ne",24>>,
    <<"DstBegin","Ne",25>>, <<"DstBegin","Ne",26>>, <<"DstBegin","Ne",27>>, <<"DstBegin","Ne",28>>,
    <<"DstBegin","Ne",29>>, <<"DstBegin","Ne",30>>, <<"DstBegin","Ne",31>>, <<"DstEnd","Ne",0>>,
    <<"DstEnd","Ne",1>>, <<"DstEnd","Ne",24>>, <<"DstEnd","Ne",25>>, <<"DstEnd","Ne",26>>,
    <<"DstEnd","Ne",27>>, <<"DstEnd","Ne",28>>, <<"DstEnd","Ne",29>>, <<"DstEnd","Ne",30>>,
    <<"DstEnd","Ne",31>>, <<"SrcType","Ne",2>>, <<"SrcType","Ne",3>>, <<"SrcType","Ne",2>>,
    <<"SrcType","Ne",3>>, <<"SrcType","Ne",2>>, <<"SrcType","Ne",3>>, <<"SrcType","Ne",2>>,
    <<"SrcType","Ne",3>>, <<"SrcType","Ne",2>> >>

kConstraints_6 ==
  <<
    <<"SrcType","Ne",3>>, <<"SrcType","Ne",2>>, <<"SrcType","Ne",3>>, <<"SrcType","Ne",2>>,
    <<"SrcType","Ne",3>>, <<"SrcType","Ne",2>>, <<"SrcType","Ne",3>>, <<"SrcType","Ne",2>>,
    <<"SrcType","Ne",3>>, <<"SrcType","Ne",2>>, <<"SrcType","Ne",3>>, <<"SrcType","Ne",2>>,
    <<"SrcType","Ne",3>>, <<"SrcType","Ne",2>>, <<"SrcType","Ne",3>>, <<"SrcType","Ne",2>>,
    <<"SrcType","Ne",3>>, <<"SrcType","Ne",2>>, <<"SrcType","Ne",3>>, <<"SrcType","Ne",2>>,
    <<"SrcType","Ne",3>>, <<"DstBegin","Ne",0>>, <<"DstBegin","Ne",1>>, <<"DstBegin","Ne",24>>,
    <<"DstBegin","Ne",25>>, <<"DstBegin","Ne",26>>, <<"DstBegin","Ne",27>>, <<"DstBegin","Ne",28>>,
    <<"DstBegin","Ne",29>>, <<"DstBegin","Ne",30>>, <<"DstBegin","Ne",31>>, <<"DstEnd","Ne",0>>,
    <<"DstEnd","Ne",1>>, <<"DstEnd","Ne",24>>, <<"DstEnd","Ne",25>>, <<"DstEnd","Ne",26>>,
    <<"DstEnd","Ne",27>>, <<"DstEnd","Ne",28>>, <<"DstEnd","Ne",29>>, <<"DstEnd","Ne",30>>,
    <<"DstEnd","Ne",31>>, <<"DstEnd","Ne",0>>, <<"DstEnd","Ne",1>>, <<"DstEnd","Ne",24>>,
    <<"DstEnd","Ne",25>>, <<"DstEnd","Ne",26>>, <<"DstEnd","Ne",27>>, <<"DstEnd","Ne",28>>,
    <<"DstEnd","Ne",29>>, <<"DstEnd","Ne",30>>, <<"DstEnd","Ne",31>>, <<"SrcType","Ne",2>>,
    <<"SrcType","Ne",3>>, <<"SrcType","Ne",2>>, <<"SrcType","Ne",3>>, <<"RegDst","Ne",10>>,
    <<"SrcRType","Ne",3>>, <<"SrcRType","Ne",3>>, <<"SrcRType","Ne",3>>, <<"SrcRType","Ne",3>>,
    <<"SrcRType","Ne",3>>, <<"SrcRType","Ne",3>>, <<"SrcRType","Ne",3>>, <<"SrcRType","Ne",3>>,
    <<"SrcRType","Ne",3>>, <<"SrcRType","Ne",3>>, <<"SrcRType","Ne",3>>, <<"SrcRType","Ne",3>>,
    <<"SrcRType","Ne",3>>, <<"SrcRType","Ne",3>>, <<"SrcRType","Ne",3>>, <<"SrcRType","Ne",3>>,
    <<"SrcRType","Ne",3>>, <<"SrcRType","Ne",3>>, <<"SrcRType","Ne",3>>, <<"SrcRType","Ne",3>>,
    <<"SrcRType","Ne",3>>, <<"SrcRType","Ne",3>>, <<"model","Ne",3>>, <<"model","Ne",4>>,
    <<"model","Ne",5>>, <<"model","Ne",6>>, <<"model","Ne",7>>, <<"model","Ne",8>>,
    <<"model","Ne",9>>, <<"model","Ne",10>>, <<"model","Ne",11>>, <<"model","Ne",12>>,
    <<"model","Ne",13>>, <<"model","Ne",14>>, <<"model","Ne",15>>, <<"model","Ne",16>>,
    <<"model","Ne",17>>, <<"model","Ne",18>>, <<"model","Ne",19>>, <<"model","Ne",20>>,
    <<"model","Ne",21>>, <<"model","Ne",22>>, <<"model","Ne",23>>, <<"model","Ne",24>>,
    <<"model","Ne",25>>, <<"model","Ne",26>>, <<"model","Ne",27>>, <<"model","Ne",28>>,
    <<"model","Ne",29>>, <<"model","Ne",30>>, <<"model","Ne",31>>, <<"SrcRType","Ne",3>>,
    <<"model","Ne",3>>, <<"model","Ne",4>>, <<"model","Ne",5>>, <<"model","Ne",6>>,
    <<"model","Ne",7>>, <<"model","Ne",8>>, <<"model","Ne",9>>, <<"model","Ne",10>>,
    <<"model","Ne",11>>, <<"model","Ne",12>>, <<"model","Ne",13>>, <<"model","Ne",14>>,
    <<"model","Ne",15>>, <<"model","Ne",16>>, <<"model","Ne",17>>, <<"model","Ne",18>>,
    <<"model","Ne",19>>, <<"model","Ne",20>>, <<"model","Ne",21>>, <<"model","Ne",22>>,
    <<"model","Ne",23>>, <<"model","Ne",24>>, <<"model","Ne",25>>, <<"model","Ne",26>>,
    <<"model","Ne",27>>, <<"model","Ne",28>>, <<"model","Ne",29>>, <<"model","Ne",30>>,
    <<"model","Ne",31>>, <<"model","Ne",3>>, <<"model","Ne",4>>, <<"model","Ne",5>>,
    <<"model","Ne",6>>, <<"model","Ne",7>>, <<"model","Ne",8>>, <<"model","Ne",9>>,
    <<"model","Ne",10>>, <<"model","Ne",11>>, <<"model","Ne",12>>, <<"model","Ne",13>>,
    <<"model","Ne",14>>, <<"model","Ne",15>> >>

kConstraints_7 ==
  <<
    <<"model","Ne",16>>, <<"model","Ne",17>>, <<"model","Ne",18>>, <<"model","Ne",19>>,
    <<"model","Ne",20>>, <<"model","Ne",21>>, <<"model","Ne",22>>, <<"model","Ne",23>>,
    <<"model","Ne",24>>, <<"model","Ne",25>>, <<"model","Ne",26>>, <<"model","Ne",27>>,
    <<"model","Ne",28>>, <<"model","Ne",29>>, <<"model","Ne",30>>, <<"model","Ne",31>>,
    <<"model","Ne",3>>, <<"model","Ne",4>>, <<"model","Ne",5>>, <<"model","Ne",6>>,
    <<"model","Ne",7>>, <<"model","Ne",8>>, <<"model","Ne",9>>, <<"model","Ne",10>>,
    <<"model","Ne",11>>, <<"model","Ne",12>>, <<"model","Ne",13>>, <<"model","Ne",14>>,
    <<"model","Ne",15>>, <<"model","Ne",16>>, <<"model","Ne",17>>, <<"model","Ne",18>>,
    <<"model","Ne",19>>, <<"model","Ne",20>>, <<"model","Ne",21>>, <<"model","Ne",22>>,
    <<"model","Ne",23>>, <<"model","Ne",24>>, <<"model","Ne",25>>, <<"model","Ne",26>>,
    <<"model","Ne",27>>, <<"model","Ne",28>>, <<"model","Ne",29>>, <<"model","Ne",30>>,
    <<"model","Ne",31>>, <<"SrcRType","Ne",3>>, <<"SrcRType","Ne",3>>, <<"SrcRType","Ne",3>>,
    <<"SrcRType","Ne",3>>, <<"SrcRType","Ne",3>>, <<"SrcRType","Ne",3>>, <<"SrcRType","Ne",3>>,
    <<"SrcRType","Ne",3>>, <<"SrcRType","Ne",3>>, <<"SrcRType","Ne",3>>, <<"SrcRType","Ne",3>>,
    <<"SrcRType","Ne",3>>, <<"SrcRType","Ne",3>>, <<"SrcRType","Ne",3>>, <<"SrcRType","Ne",3>>,
    <<"SrcRType","Ne",3>>, <<"SrcRType","Ne",3>>, <<"SrcRType","Ne",3>>, <<"SrcRType","Ne",3>>,
    <<"SrcRType","Ne",3>>, <<"SrcRType","Ne",3>>, <<"SrcRType","Ne",3>>, <<"SrcRType","Ne",3>>,
    <<"SrcRType","Ne",3>>, <<"SrcRType","Ne",3>>, <<"SrcRType","Ne",3>>, <<"SrcRType","Ne",3>>,
    <<"SrcRType","Ne",3>>, <<"RegSrc0","Ne",24>>, <<"RegSrc0","Ne",25>>, <<"RegSrc0","Ne",26>>,
    <<"RegSrc0","Ne",27>>, <<"RegSrc0","Ne",28>>, <<"RegSrc0","Ne",29>>, <<"RegSrc0","Ne",30>>,
    <<"RegSrc0","Ne",31>>, <<"RegSrc1","Ne",24>>, <<"RegSrc1","Ne",25>>, <<"RegSrc1","Ne",26>>,
    <<"RegSrc1","Ne",27>>, <<"RegSrc1","Ne",28>>, <<"RegSrc1","Ne",29>>, <<"RegSrc1","Ne",30>>,
    <<"RegSrc1","Ne",31>>, <<"RegSrc2","Ne",24>>, <<"RegSrc2","Ne",25>>, <<"RegSrc2","Ne",26>>,
    <<"RegSrc2","Ne",27>>, <<"RegSrc2","Ne",28>>, <<"RegSrc2","Ne",29>>, <<"RegSrc2","Ne",30>>,
    <<"RegSrc2","Ne",31>>, <<"RegSrc0","Ne",24>>, <<"RegSrc0","Ne",25>>, <<"RegSrc0","Ne",26>>,
    <<"RegSrc0","Ne",27>>, <<"RegSrc0","Ne",28>>, <<"RegSrc0","Ne",29>>, <<"RegSrc0","Ne",30>>,
    <<"RegSrc0","Ne",31>>, <<"RegSrc1","Ne",24>>, <<"RegSrc1","Ne",25>>, <<"RegSrc1","Ne",26>>,
    <<"RegSrc1","Ne",27>>, <<"RegSrc1","Ne",28>>, <<"RegSrc1","Ne",29>>, <<"RegSrc1","Ne",30>>,
    <<"RegSrc1","Ne",31>>, <<"RegSrc2","Ne",24>>, <<"RegSrc2","Ne",25>>, <<"RegSrc2","Ne",26>>,
    <<"RegSrc2","Ne",27>>, <<"RegSrc2","Ne",28>>, <<"RegSrc2","Ne",29>>, <<"RegSrc2","Ne",30>>,
    <<"RegSrc2","Ne",31>>, <<"SrcRType","Ne",3>>, <<"SrcRType","Ne",3>>, <<"DstType","Ne",4>>,
    <<"DstType","Ne",5>>, <<"DstType","Ne",6>>, <<"DstType","Ne",7>>, <<"DstType","Ne",8>>,
    <<"DstType","Ne",9>>, <<"DstType","Ne",10>>, <<"DstType","Ne",11>>, <<"DstType","Ne",12>>,
    <<"DstType","Ne",13>>, <<"DstType","Ne",14>>, <<"DstType","Ne",15>>, <<"DstType","Ne",16>>,
    <<"DstType","Ne",17>>, <<"DstType","Ne",18>>, <<"DstType","Ne",19>>, <<"DstType","Ne",20>>,
    <<"DstType","Ne",21>>, <<"DstType","Ne",22>>, <<"DstType","Ne",23>>, <<"DstType","Ne",24>>,
    <<"DstType","Ne",25>>, <<"DstType","Ne",26>>, <<"DstType","Ne",27>>, <<"DstType","Ne",28>>,
    <<"DstType","Ne",29>>, <<"DstType","Ne",30>> >>

kConstraints_8 ==
  <<
    <<"DstType","Ne",31>>, <<"SrcRType","Ne",3>>, <<"SrcRType","Ne",3>>, <<"SrcRType","Ne",3>>,
    <<"SrcRType","Ne",3>>, <<"SrcRType","Ne",3>>, <<"SrcRType","Ne",3>>, <<"DstType","Ne",4>>,
    <<"DstType","Ne",5>>, <<"DstType","Ne",6>>, <<"DstType","Ne",7>>, <<"DstType","Ne",8>>,
    <<"DstType","Ne",9>>, <<"DstType","Ne",10>>, <<"DstType","Ne",11>>, <<"DstType","Ne",12>>,
    <<"DstType","Ne",13>>, <<"DstType","Ne",14>>, <<"DstType","Ne",15>>, <<"DstType","Ne",16>>,
    <<"DstType","Ne",17>>, <<"DstType","Ne",18>>, <<"DstType","Ne",19>>, <<"DstType","Ne",20>>,
    <<"DstType","Ne",21>>, <<"DstType","Ne",22>>, <<"DstType","Ne",23>>, <<"DstType","Ne",24>>,
    <<"DstType","Ne",25>>, <<"DstType","Ne",26>>, <<"DstType","Ne",27>>, <<"DstType","Ne",28>>,
    <<"DstType","Ne",29>>, <<"DstType","Ne",30>>, <<"DstType","Ne",31>> >>

kConstraints ==
  kConstraints_1 \o kConstraints_2 \o kConstraints_3 \o kConstraints_4 \o kConstraints_5 \o
  kConstraints_6 \o kConstraints_7 \o kConstraints_8

(***************************************************************************)
(* mnemonic, uop_group, uop_big_kind, length_bits, fixed_bits, mask, match   *)
(* (each in parts of 16 bits, the lowest first), field_start, field_count,   *)
(* constraint_start, constraint_count                                        *)
(***************************************************************************)
kForms_1 ==
  <<
    <<"ACRC","SYS","SYS",32,28,<<\hffff,\hff0f>>,<<\h302b,\h0>>,0,1,0,0>>,
    <<"ACRE","SYS","SYS",32,28,<<\hffff,\hff0f>>,<<\h302b,\h100>>,1,1,0,14>>,
    <<"ADD","ALU","ALU",32,10,<<\h707f,\h0>>,<<\h5,\h0>>,2,5,14,0>>,
    <<"ADDI","ALU","ALU",32,10,<<\h707f,\h0>>,<<\h15,\h0>>,7,3,14,0>>,
    <<"ADDIW","ALU","ALU",32,10,<<\h707f,\h0>>,<<\h35,\h0>>,10,3,14,0>>,
    <<"ADDTPC","BRU","BRU",32,7,<<\h7f,\h0>>,<<\h7,\h0>>,13,2,14,1>>,
    <<"ADDW","ALU","ALU",32,10,<<\h707f,\h0>>,<<\h25,\h0>>,15,5,15,0>>,
    <<"AND","ALU","ALU",32,10,<<\h707f,\h0>>,<<\h2005,\h0>>,20,5,15,0>>,
    <<"ANDI","ALU","ALU",32,10,<<\h707f,\h0>>,<<\h2015,\h0>>,25,3,15,0>>,
    <<"ANDIW","ALU","ALU",32,10,<<\h707f,\h0>>,<<\h2035,\h0>>,28,3,15,0>> >>

kForms_2 ==
  <<
    <<"ANDW","ALU","ALU",32,10,<<\h707f,\h0>>,<<\h2025,\h0>>,31,5,15,0>>,
    <<"ASSERT","SYS","SYS",32,27,<<\h7fff,\hfff0>>,<<\h102b,\h0>>,36,1,15,0>>,
    <<"B.ASSEMBLE","CMD","CMD",32,10,<<\h707f,\h0>>,<<\h1053,\h0>>,37,5,15,11>>,
    <<"B.CATR","CMD","CMD",32,26,<<\h7fff,\hfbf0>>,<<\h23,\h0>>,42,6,26,0>>,
    <<"B.DATR","CMD","CMD",32,10,<<\h107f,\hc>>,<<\h1023,\h0>>,48,9,26,15>>,
    <<"B.DIM","CMD","CMD",32,10,<<\h707f,\h0>>,<<\h1043,\h0>>,57,2,41,8>>,
    <<"B.DIM","CMD","CMD",32,10,<<\h707f,\h0>>,<<\h43,\h0>>,59,2,49,8>>,
    <<"B.DIM","CMD","CMD",32,10,<<\h707f,\h0>>,<<\h2043,\h0>>,61,2,57,8>>,
    <<"B.FPATR","CMD","CMD",32,12,<<\h7c7f,\h0>>,<<\h2023,\h0>>,63,10,65,47>> >>

kForms_3 ==
  <<
    <<"B.HINT","CMD","CMD",32,31,<<\h7fff,\hffff>>,<<\h1033,\h0>>,73,1,112,0>>,
    <<"B.HINT","CMD","CMD",32,16,<<\h7fff,\h8>>,<<\h33,\h0>>,74,4,112,0>>,
    <<"B.IOR","CMD","CMD",32,11,<<\h707f,\h200>>,<<\h13,\h0>>,78,5,112,32>>,
    <<"B.IOS","CMD","CMD",32,19,<<\h71ff,\hfc08>>,<<\h1013,\h0>>,83,3,144,3>>,
    <<"B.IOS","CMD","CMD",32,23,<<\hf1ff,\hfc0f>>,<<\h1013,\h400>>,86,2,147,0>>,
    <<"B.IOT","CMD","CMD",32,16,<<\hf1ff,\h7>>,<<\h7013,\h0>>,88,4,147,0>>,
    <<"B.IOT","CMD","CMD",32,16,<<\hf1ff,\h7>>,<<\h3013,\h0>>,92,4,147,0>>,
    <<"B.IOT","CMD","CMD",32,16,<<\hf1ff,\h7>>,<<\h2013,\h0>>,96,4,147,0>>,
    <<"B.IOT","CMD","CMD",32,16,<<\h707f,\hfc00>>,<<\h5013,\h400>>,100,5,147,6>> >>

kForms_4 ==
  <<
    <<"B.IOT","CMD","CMD",32,16,<<\h707f,\hfc00>>,<<\h5013,\h0>>,105,5,153,6>>,
    <<"B.IOT","CMD","CMD",32,10,<<\h707f,\h0>>,<<\h7013,\h0>>,110,6,159,6>>,
    <<"B.IOT","CMD","CMD",32,10,<<\h707f,\h0>>,<<\h3013,\h0>>,116,6,165,6>>,
    <<"B.IOT","CMD","CMD",32,22,<<\h707f,\hfff0>>,<<\h6013,\h0>>,122,4,171,6>>,
    <<"B.IOT","CMD","CMD",32,10,<<\h707f,\h0>>,<<\h2013,\h0>>,126,6,177,6>>,
    <<"B.IOT","CMD","CMD",32,16,<<\hf1ff,\h7>>,<<\h4013,\h0>>,132,4,183,0>>,
    <<"B.IOT","CMD","CMD",32,10,<<\h707f,\h0>>,<<\h4013,\h0>>,136,6,183,6>>,
    <<"B.IOT","CMD","CMD",32,22,<<\hf1ff,\hfc07>>,<<\h5013,\h0>>,142,3,189,0>>,
    <<"B.IOT","CMD","CMD",32,22,<<\hf1ff,\hfc07>>,<<\h5013,\h400>>,145,3,189,0>> >>

kForms_5 ==
  <<
    <<"B.SUBVIEW","CMD","CMD",32,11,<<\h787f,\h0>>,<<\h53,\h0>>,148,4,189,12>>,
    <<"B.TEXT","CMD","CMD",32,7,<<\h7f,\h0>>,<<\h3,\h0>>,152,1,201,0>>,
    <<"BC.IALL","SYS","SYS",32,32,<<\hffff,\hffff>>,<<\h402b,\h10>>,153,0,201,0>>,
    <<"BC.IVA","SYS","SYS",32,27,<<\h7fff,\hfff0>>,<<\h402b,\h0>>,153,1,201,0>>,
    <<"BCNT","ALU","ALU",32,10,<<\h707f,\h0>>,<<\h6067,\h0>>,154,4,201,0>>,
    <<"BIC","ALU","ALU",32,10,<<\h707f,\h0>>,<<\h2067,\h0>>,158,4,201,0>>,
    <<"BIS","ALU","ALU",32,10,<<\h707f,\h0>>,<<\h3067,\h0>>,162,4,201,0>>,
    <<"BSE","SYS","SYS",32,27,<<\h7fff,\hfff0>>,<<\h2b,\h0>>,166,1,201,0>>,
    <<"BSTART","CMD","CMD",32,7,<<\h7f,\h0>>,<<\h11,\h0>>,167,1,201,0>>,
    <<"BSTART","CMD","CMD",32,7,<<\h7f,\h0>>,<<\h21,\h0>>,168,1,201,0>> >>

kForms_6 ==
  <<
    <<"BSTART.FP","CMD","CMD",32,32,<<\hffff,\hffff>>,<<\h1101,\h0>>,169,0,201,0>>,
    <<"BSTART.FP","CMD","CMD",32,32,<<\hffff,\hffff>>,<<\h7101,\h0>>,169,0,201,0>>,
    <<"BSTART.FP","CMD","CMD",32,15,<<\h7fff,\h0>>,<<\h2101,\h0>>,169,1,201,0>>,
    <<"BSTART.FP","CMD","CMD",32,32,<<\hffff,\hffff>>,<<\h5101,\h0>>,170,0,201,0>>,
    <<"BSTART.FP","CMD","CMD",32,15,<<\h7fff,\h0>>,<<\h4101,\h0>>,170,1,201,0>>,
    <<"BSTART.FP","CMD","CMD",32,15,<<\h7fff,\h0>>,<<\h3101,\h0>>,171,1,201,0>>,
    <<"BSTART.GMOV","CMD","CMD",32,27,<<\hffff,\h7ff>>,<<\h1181,\hd1>>,172,1,201,7>>,
    <<"BSTART.ICALL","BBD","BBD",32,27,<<\hffff,\hf83f>>,<<\h6001,\h5016>>,173,1,208,0>>,
    <<"BSTART.MGATHER","CMD","CMD",32,27,<<\hffff,\h7ff>>,<<\h1181,\h41>>,174,1,208,7>>,
    <<"BSTART.MGATHER.ADD","CMD","CMD",32,27,<<\hffff,\h7ff>>,<<\h1181,\hc1>>,175,1,215,7>> >>

kForms_7 ==
  <<
    <<"BSTART.MGATHER.AND","CMD","CMD",32,27,<<\hffff,\h7ff>>,<<\h1181,\h101>>,176,1,222,7>>,
    <<"BSTART.MGATHER.CAS","CMD","CMD",32,27,<<\hffff,\h7ff>>,<<\h1181,\h81>>,177,1,229,7>>,
    <<"BSTART.MGATHER.DEC","CMD","CMD",32,27,<<\hffff,\h7ff>>,<<\h1181,\hf1>>,178,1,236,7>>,
    <<"BSTART.MGATHER.EXCH","CMD","CMD",32,27,<<\hffff,\h7ff>>,<<\h1181,\h91>>,179,1,243,7>>,
    <<"BSTART.MGATHER.INC","CMD","CMD",32,27,<<\hffff,\h7ff>>,<<\h1181,\he1>>,180,1,250,7>>,
    <<"BSTART.MGATHER.MASK","CMD","CMD",32,27,<<\hffff,\h7ff>>,<<\h1181,\h61>>,181,1,257,7>>,
    <<"BSTART.MGATHER.MAX","CMD","CMD",32,27,<<\hffff,\h7ff>>,<<\h1181,\ha1>>,182,1,264,7>>,
    <<"BSTART.MGATHER.MIN","CMD","CMD",32,27,<<\hffff,\h7ff>>,<<\h1181,\hb1>>,183,1,271,7>>,
    <<"BSTART.MGATHER.OR","CMD","CMD",32,27,<<\hffff,\h7ff>>,<<\h1181,\h111>>,184,1,278,7>>,
    <<"BSTART.MGATHER.XOR","CMD","CMD",32,27,<<\hffff,\h7ff>>,<<\h1181,\h121>>,185,1,285,7>> >>

kForms_8 ==
  <<
    <<"BSTART.MPAR","CMD","CMD",32,30,<<\hffff,\hf9ff>>,<<\h1181,\h0>>,186,1,292,0>>,
    <<"BSTART.MSCATTER","CMD","CMD",32,27,<<\hffff,\h7ff>>,<<\h1181,\h51>>,187,1,292,7>>,
    <<"BSTART.MSCATTER.ADD","CMD","CMD",32,27,<<\hffff,\h7ff>>,<<\h1181,\h151>>,188,1,299,7>>,
    <<"BSTART.MSCATTER.AND","CMD","CMD",32,27,<<\hffff,\h7ff>>,<<\h1181,\h181>>,189,1,306,7>>,
    <<"BSTART.MSCATTER.DEC","CMD","CMD",32,27,<<\hffff,\h7ff>>,<<\h1181,\h171>>,190,1,313,7>>,
    <<"BSTART.MSCATTER.INC","CMD","CMD",32,27,<<\hffff,\h7ff>>,<<\h1181,\h161>>,191,1,320,7>>,
    <<"BSTART.MSCATTER.MASK","CMD","CMD",32,27,<<\hffff,\h7ff>>,<<\h1181,\h71>>,192,1,327,7>>,
    <<"BSTART.MSCATTER.MAX","CMD","CMD",32,27,<<\hffff,\h7ff>>,<<\h1181,\h131>>,193,1,334,7>>,
    <<"BSTART.MSCATTER.MIN","CMD","CMD",32,27,<<\hffff,\h7ff>>,<<\h1181,\h141>>,194,1,341,7>>,
    <<"BSTART.MSCATTER.OR","CMD","CMD",32,27,<<\hffff,\h7ff>>,<<\h1181,\h191>>,195,1,348,7>> >>

kForms_9 ==
  <<
    <<"BSTART.MSCATTER.POPC","CMD","CMD",32,27,<<\hffff,\h7ff>>,<<\h1181,\h1b1>>,196,1,355,7>>,
    <<"BSTART.MSCATTER.XOR","CMD","CMD",32,27,<<\hffff,\h7ff>>,<<\h1181,\h1a1>>,197,1,362,7>>,
    <<"BSTART.MSEQ","CMD","CMD",32,30,<<\hffff,\hf9ff>>,<<\h9181,\h0>>,198,1,369,0>>,
    <<"BSTART.STD","CMD","CMD",32,32,<<\hffff,\hffff>>,<<\h1001,\h0>>,199,0,369,0>>,
    <<"BSTART.STD","CMD","CMD",32,32,<<\hffff,\hffff>>,<<\h5001,\h0>>,199,0,369,0>>,
    <<"BSTART.STD","CMD","CMD",32,15,<<\h7fff,\h0>>,<<\h3001,\h0>>,199,1,369,0>>,
    <<"BSTART.STD","CMD","CMD",32,32,<<\hffff,\hffff>>,<<\h7001,\h0>>,200,0,369,0>>,
    <<"BSTART.STD","CMD","CMD",32,15,<<\h7fff,\h0>>,<<\h4001,\h0>>,200,1,369,0>>,
    <<"BSTART.STD","CMD","CMD",32,15,<<\h7fff,\h0>>,<<\h2001,\h0>>,201,1,369,0>>,
    <<"BSTART.SYS","CMD","CMD",32,32,<<\hffff,\hffff>>,<<\h1081,\h0>>,202,0,369,0>> >>

kForms_10 ==
  <<
    <<"BSTART.TEPL","CMD","CMD",32,20,<<\hffff,\hf>>,<<\h9181,\h1>>,202,3,369,5>>,
    <<"BSTART.TGEMV","CMD","CMD",32,27,<<\hffff,\h7ff>>,<<\h1181,\h103>>,205,1,374,7>>,
    <<"BSTART.TGEMV.ACC","CMD","CMD",32,27,<<\hffff,\h7ff>>,<<\h1181,\h123>>,206,1,381,7>>,
    <<"BSTART.TGEMV.BIAS","CMD","CMD",32,27,<<\hffff,\h7ff>>,<<\h1181,\h113>>,207,1,388,7>>,
    <<"BSTART.TGEMVMX","CMD","CMD",32,27,<<\hffff,\h7ff>>,<<\h1181,\h143>>,208,1,395,7>>,
    <<"BSTART.TGEMVMX.ACC","CMD","CMD",32,27,<<\hffff,\h7ff>>,<<\h1181,\h163>>,209,1,402,7>>,
    <<"BSTART.TGEMVMX.BIAS","CMD","CMD",32,27,<<\hffff,\h7ff>>,<<\h1181,\h153>>,210,1,409,7>>,
    <<"BSTART.TIMG2COL","CMD","CMD",32,27,<<\hffff,\h7ff>>,<<\h1181,\h1c1>>,211,1,416,17>>,
    <<"BSTART.TLOAD","CMD","CMD",32,27,<<\hffff,\h7ff>>,<<\h1181,\h1>>,212,1,433,7>>,
    <<"BSTART.TMATMUL","CMD","CMD",32,27,<<\hffff,\h7ff>>,<<\h1181,\h3>>,213,1,440,7>> >>

kForms_11 ==
  <<
    <<"BSTART.TMATMUL.ACC","CMD","CMD",32,27,<<\hffff,\h7ff>>,<<\h1181,\h23>>,214,1,447,7>>,
    <<"BSTART.TMATMUL.BIAS","CMD","CMD",32,27,<<\hffff,\h7ff>>,<<\h1181,\h13>>,215,1,454,7>>,
    <<"BSTART.TMATMULMX","CMD","CMD",32,27,<<\hffff,\h7ff>>,<<\h1181,\h43>>,216,1,461,7>>,
    <<"BSTART.TMATMULMX.ACC","CMD","CMD",32,27,<<\hffff,\h7ff>>,<<\h1181,\h63>>,217,1,468,7>>,
    <<"BSTART.TMATMULMX.BIAS","CMD","CMD",32,27,<<\hffff,\h7ff>>,<<\h1181,\h53>>,218,1,475,7>>,
    <<"BSTART.TMOV","CMD","CMD",32,27,<<\hffff,\h7ff>>,<<\h1181,\h21>>,219,1,482,6>>,
    <<"BSTART.TPREFETCH","CMD","CMD",32,27,<<\hffff,\h7ff>>,<<\h1181,\h31>>,220,1,488,7>>,
    <<"BSTART.TSTORE","CMD","CMD",32,27,<<\hffff,\h7ff>>,<<\h1181,\h11>>,221,1,495,7>>,
    <<"BSTART.VPAR","CMD","CMD",32,30,<<\hffff,\hf9ff>>,<<\h1181,\h2>>,222,1,502,0>>,
    <<"BSTART.VSEQ","CMD","CMD",32,30,<<\hffff,\hf9ff>>,<<\h9181,\h2>>,223,1,502,0>> >>

kForms_12 ==
  <<
    <<"BSTOP","CMD","CMD",32,32,<<\hffff,\hffff>>,<<\h1,\h0>>,224,0,502,0>>,
    <<"BWE","SYS","SYS",32,27,<<\h7fff,\hfff0>>,<<\h2b,\h10>>,224,1,502,0>>,
    <<"BWI","SYS","SYS",32,27,<<\h7fff,\hfff0>>,<<\h2b,\h20>>,225,1,502,0>>,
    <<"BWT","SYS","SYS",32,27,<<\h7fff,\hfff0>>,<<\h2b,\h30>>,226,1,502,0>>,
    <<"BXS","ALU","ALU",32,10,<<\h707f,\h0>>,<<\h67,\h0>>,227,4,502,0>>,
    <<"BXU","ALU","ALU",32,10,<<\h707f,\h0>>,<<\h1067,\h0>>,231,4,502,0>>,
    <<"C.ADD","ALU","ALU",16,6,<<\h3f>>,<<\h8>>,235,2,502,0>>,
    <<"C.ADDI","ALU","ALU",16,6,<<\h3f>>,<<\hc>>,237,2,502,0>>,
    <<"C.AND","ALU","ALU",16,6,<<\h3f>>,<<\h28>>,239,2,502,0>>,
    <<"C.B.DIMI","CMD","CMD",16,6,<<\h3f>>,<<\h3c>>,241,2,502,1>> >>

kForms_13 ==
  <<
    <<"C.BSTART","CMD","CMD",16,4,<<\hf>>,<<\h2>>,243,1,503,0>>,
    <<"C.BSTART","CMD","CMD",16,4,<<\hf>>,<<\h4>>,244,1,503,0>>,
    <<"C.BSTART.FP","BBD","BBD",16,13,<<\hc7ff>>,<<\h80>>,245,1,503,5>>,
    <<"C.BSTART.MPAR","BBD","BBD",16,16,<<\hffff>>,<<\h8c0>>,246,0,508,0>>,
    <<"C.BSTART.MSEQ","BBD","BBD",16,16,<<\hffff>>,<<\h48c0>>,246,0,508,0>>,
    <<"C.BSTART.STD","BBD","BBD",16,13,<<\hc7ff>>,<<\h0>>,246,1,508,5>>,
    <<"C.BSTART.SYS","BBD","BBD",16,16,<<\hffff>>,<<\h840>>,247,0,513,0>>,
    <<"C.BSTART.VPAR","BBD","BBD",16,16,<<\hffff>>,<<\h88c0>>,247,0,513,0>>,
    <<"C.BSTART.VSEQ","BBD","BBD",16,16,<<\hffff>>,<<\hc8c0>>,247,0,513,0>>,
    <<"C.BSTOP","CMD","CMD",16,16,<<\hffff>>,<<\h0>>,247,0,513,0>> >>

kForms_14 ==
  <<
    <<"C.CMP.EQI","BRU","BRU",16,11,<<\hf83f>>,<<\h2c>>,247,1,513,0>>,
    <<"C.CMP.NEI","BRU","BRU",16,11,<<\hf83f>>,<<\h82c>>,248,1,513,0>>,
    <<"C.EBREAK","SYS","SYS",16,11,<<\hf83f>>,<<\hc02c>>,249,1,513,0>>,
    <<"C.LDI","LDA/BASE_IMM","AGU",16,6,<<\h3f>>,<<\h1a>>,250,2,513,0>>,
    <<"C.LWI","LDA/BASE_IMM","AGU",16,6,<<\h3f>>,<<\ha>>,252,2,513,0>>,
    <<"C.MOVI","ALU","ALU",16,6,<<\h3f>>,<<\h16>>,254,2,513,1>>,
    <<"C.MOVR","ALU","ALU",16,6,<<\h3f>>,<<\h6>>,256,2,514,0>>,
    <<"C.OR","ALU","ALU",16,6,<<\h3f>>,<<\h38>>,258,2,514,0>>,
    <<"C.SDI","STA/BASE_IMM","AGU",16,6,<<\h3f>>,<<\h3a>>,260,2,514,0>>,
    <<"C.SETC.EQ","BRU","BRU",16,6,<<\h3f>>,<<\h26>>,262,2,514,0>> >>

kForms_15 ==
  <<
    <<"C.SETC.NE","BRU","BRU",16,6,<<\h3f>>,<<\h36>>,264,2,514,0>>,
    <<"C.SETC.TGT","ALU","ALU",16,11,<<\hf83f>>,<<\h1c>>,266,1,514,0>>,
    <<"C.SETRET","ALU","ALU",16,11,<<\hf83f>>,<<\h5016>>,267,1,514,0>>,
    <<"C.SEXT.B","ALU","ALU",16,11,<<\hf83f>>,<<\h401c>>,268,1,514,0>>,
    <<"C.SEXT.H","ALU","ALU",16,11,<<\hf83f>>,<<\h481c>>,269,1,514,0>>,
    <<"C.SEXT.W","ALU","ALU",16,11,<<\hf83f>>,<<\h501c>>,270,1,514,0>>,
    <<"C.SLLI","ALU","ALU",16,11,<<\hf83f>>,<<\h102c>>,271,1,514,0>>,
    <<"C.SRLI","ALU","ALU",16,11,<<\hf83f>>,<<\h182c>>,272,1,514,0>>,
    <<"C.SSRGET","SYS","SYS",16,11,<<\hf83f>>,<<\h802c>>,273,1,514,29>>,
    <<"C.SUB","ALU","ALU",16,6,<<\h3f>>,<<\h18>>,274,2,543,0>> >>

kForms_16 ==
  <<
    <<"C.SWI","STA/BASE_IMM","AGU",16,6,<<\h3f>>,<<\h2a>>,276,2,543,0>>,
    <<"C.ZEXT.B","ALU","ALU",16,11,<<\hf83f>>,<<\h581c>>,278,1,543,0>>,
    <<"C.ZEXT.H","ALU","ALU",16,11,<<\hf83f>>,<<\h601c>>,279,1,543,0>>,
    <<"C.ZEXT.W","ALU","ALU",16,11,<<\hf83f>>,<<\h681c>>,280,1,543,0>>,
    <<"CASB","AMO","AMO",32,10,<<\h707f,\h0>>,<<\h1b,\h0>>,281,6,543,0>>,
    <<"CASD","AMO","AMO",32,10,<<\h707f,\h0>>,<<\h301b,\h0>>,287,6,543,0>>,
    <<"CASH","AMO","AMO",32,10,<<\h707f,\h0>>,<<\h101b,\h0>>,293,6,543,0>>,
    <<"CASW","AMO","AMO",32,10,<<\h707f,\h0>>,<<\h201b,\h0>>,299,6,543,0>>,
    <<"CLZ","ALU","ALU",32,10,<<\h707f,\h0>>,<<\h5067,\h0>>,305,4,543,0>>,
    <<"CMP.AND","BRU","BRU",32,15,<<\h707f,\hf800>>,<<\h2045,\h0>>,309,4,543,0>> >>

kForms_17 ==
  <<
    <<"CMP.ANDI","BRU","BRU",32,10,<<\h707f,\h0>>,<<\h2055,\h0>>,313,3,543,0>>,
    <<"CMP.EQ","BRU","BRU",32,15,<<\h707f,\hf800>>,<<\h45,\h0>>,316,4,543,0>>,
    <<"CMP.EQI","BRU","BRU",32,10,<<\h707f,\h0>>,<<\h55,\h0>>,320,3,543,0>>,
    <<"CMP.GE","BRU","BRU",32,15,<<\h707f,\hf800>>,<<\h5045,\h0>>,323,4,543,0>>,
    <<"CMP.GEI","BRU","BRU",32,10,<<\h707f,\h0>>,<<\h5055,\h0>>,327,3,543,0>>,
    <<"CMP.GEU","BRU","BRU",32,15,<<\h707f,\hf800>>,<<\h7045,\h0>>,330,4,543,0>>,
    <<"CMP.GEUI","BRU","BRU",32,10,<<\h707f,\h0>>,<<\h7055,\h0>>,334,3,543,0>>,
    <<"CMP.LT","BRU","BRU",32,15,<<\h707f,\hf800>>,<<\h4045,\h0>>,337,4,543,0>>,
    <<"CMP.LTI","BRU","BRU",32,10,<<\h707f,\h0>>,<<\h4055,\h0>>,341,3,543,0>>,
    <<"CMP.LTU","BRU","BRU",32,15,<<\h707f,\hf800>>,<<\h6045,\h0>>,344,4,543,0>> >>

kForms_18 ==
  <<
    <<"CMP.LTUI","BRU","BRU",32,10,<<\h707f,\h0>>,<<\h6055,\h0>>,348,3,543,0>>,
    <<"CMP.NE","BRU","BRU",32,15,<<\h707f,\hf800>>,<<\h1045,\h0>>,351,4,543,0>>,
    <<"CMP.NEI","BRU","BRU",32,10,<<\h707f,\h0>>,<<\h1055,\h0>>,355,3,543,0>>,
    <<"CMP.OR","BRU","BRU",32,15,<<\h707f,\hf800>>,<<\h3045,\h0>>,358,4,543,0>>,
    <<"CMP.ORI","BRU","BRU",32,10,<<\h707f,\h0>>,<<\h3055,\h0>>,362,3,543,0>>,
    <<"CSEL","ALU","ALU",32,10,<<\h707f,\h0>>,<<\h77,\h0>>,365,5,543,0>>,
    <<"CTZ","ALU","ALU",32,10,<<\h707f,\h0>>,<<\h4067,\h0>>,370,4,543,0>>,
    <<"DC.CISW","SYS","SYS",32,27,<<\h7fff,\hfff0>>,<<\h602b,\h60>>,374,1,543,0>>,
    <<"DC.CIVA","SYS","SYS",32,27,<<\h7fff,\hfff0>>,<<\h602b,\h30>>,375,1,543,0>>,
    <<"DC.CSW","SYS","SYS",32,27,<<\h7fff,\hfff0>>,<<\h602b,\h50>>,376,1,543,0>> >>

kForms_19 ==
  <<
    <<"DC.CVA","SYS","SYS",32,27,<<\h7fff,\hfff0>>,<<\h602b,\h20>>,377,1,543,0>>,
    <<"DC.IALL","SYS","SYS",32,32,<<\hffff,\hffff>>,<<\h602b,\h10>>,378,0,543,0>>,
    <<"DC.ISW","SYS","SYS",32,27,<<\h7fff,\hfff0>>,<<\h602b,\h40>>,378,1,543,0>>,
    <<"DC.IVA","SYS","SYS",32,27,<<\h7fff,\hfff0>>,<<\h602b,\h0>>,379,1,543,0>>,
    <<"DC.ZVA","SYS","SYS",32,27,<<\h7fff,\hfff0>>,<<\h602b,\h70>>,380,1,543,0>>,
    <<"DIV","ALU","ALU",32,17,<<\h707f,\hfe00>>,<<\h57,\h0>>,381,3,543,0>>,
    <<"DIVU","ALU","ALU",32,17,<<\h707f,\hfe00>>,<<\h1057,\h0>>,384,3,543,0>>,
    <<"DIVUW","ALU","ALU",32,17,<<\h707f,\hfe00>>,<<\h3057,\h0>>,387,3,543,0>>,
    <<"DIVW","ALU","ALU",32,17,<<\h707f,\hfe00>>,<<\h2057,\h0>>,390,3,543,0>>,
    <<"DMA","AMO","AMO",32,22,<<\h7fff,\hfe00>>,<<\h700b,\h0>>,393,2,543,0>> >>

kForms_20 ==
  <<
    <<"DMA.FREE.L","AMO","AMO",32,27,<<\h7fff,\hfff0>>,<<\h700b,\h600>>,395,1,543,0>>,
    <<"DMA.FREE.S","AMO","AMO",32,27,<<\h7fff,\hfff0>>,<<\h700b,\h400>>,396,1,543,0>>,
    <<"EBREAK","SYS","SYS",32,28,<<\hffff,\hf0ff>>,<<\h102b,\h10>>,397,1,543,0>>,
    <<"ERCOV","CMD","CMD",32,17,<<\h7fff,\h600>>,<<\h3031,\h0>>,398,3,543,0>>,
    <<"ESAVE","CMD","CMD",32,17,<<\h7fff,\h600>>,<<\h2031,\h0>>,401,3,543,0>>,
    <<"FABS","FSU","FSU",32,20,<<\h707f,\hf9f0>>,<<\h7b,\h0>>,404,3,543,2>>,
    <<"FADD","FSU","FSU",32,15,<<\h707f,\hf800>>,<<\h4b,\h0>>,407,4,545,2>>,
    <<"FCVT","FSU","FSU",32,15,<<\h707f,\h1f0>>,<<\h6b,\h0>>,411,4,547,28>>,
    <<"FCVTA","FSU","FSU",32,15,<<\h707f,\h1f0>>,<<\h106b,\h0>>,415,4,575,24>>,
    <<"FCVTM","FSU","FSU",32,15,<<\h707f,\h1f0>>,<<\h206b,\h0>>,419,4,599,24>> >>

kForms_21 ==
  <<
    <<"FCVTN","FSU","FSU",32,15,<<\h707f,\h1f0>>,<<\h306b,\h0>>,423,4,623,24>>,
    <<"FCVTP","FSU","FSU",32,15,<<\h707f,\h1f0>>,<<\h406b,\h0>>,427,4,647,24>>,
    <<"FCVTZ","FSU","FSU",32,15,<<\h707f,\h1f0>>,<<\h506b,\h0>>,431,4,671,24>>,
    <<"FDIV","FSU","FSU",32,15,<<\h707f,\hf800>>,<<\h304b,\h0>>,435,4,695,2>>,
    <<"FENCE.D","SYS","SYS",32,24,<<\hffff,\hf00f>>,<<\h202b,\h0>>,439,2,697,0>>,
    <<"FENCE.I","SYS","SYS",32,32,<<\hffff,\hffff>>,<<\h202b,\h1000>>,441,0,697,0>>,
    <<"FENTRY","CMD","CMD",32,10,<<\h707f,\h0>>,<<\h41,\h0>>,441,3,697,20>>,
    <<"FEQ","FSU","FSU",32,15,<<\h707f,\hf800>>,<<\h5b,\h0>>,444,4,717,2>>,
    <<"FEQS","FSU","FSU",32,15,<<\h707f,\hf800>>,<<\h5b,\h800>>,448,4,719,2>>,
    <<"FEXIT","CMD","CMD",32,10,<<\h707f,\h0>>,<<\h1041,\h0>>,452,3,721,20>> >>

kForms_22 ==
  <<
    <<"FEXP","FSU","FSU",32,20,<<\h707f,\hf9f0>>,<<\h307b,\h0>>,455,3,741,2>>,
    <<"FGE","FSU","FSU",32,15,<<\h707f,\hf800>>,<<\h305b,\h0>>,458,4,743,2>>,
    <<"FGES","FSU","FSU",32,15,<<\h707f,\hf800>>,<<\h305b,\h800>>,462,4,745,2>>,
    <<"FLT","FSU","FSU",32,15,<<\h707f,\hf800>>,<<\h205b,\h0>>,466,4,747,2>>,
    <<"FLTS","FSU","FSU",32,15,<<\h707f,\hf800>>,<<\h205b,\h800>>,470,4,749,2>>,
    <<"FMADD","FSU","FSU",32,10,<<\h707f,\h0>>,<<\h404b,\h0>>,474,5,751,2>>,
    <<"FMAX","FSU","FSU",32,15,<<\h707f,\hf800>>,<<\h605b,\h0>>,479,4,753,2>>,
    <<"FMIN","FSU","FSU",32,15,<<\h707f,\hf800>>,<<\h705b,\h0>>,483,4,755,2>>,
    <<"FMSUB","FSU","FSU",32,10,<<\h707f,\h0>>,<<\h504b,\h0>>,487,5,757,2>>,
    <<"FMUL","FSU","FSU",32,15,<<\h707f,\hf800>>,<<\h204b,\h0>>,492,4,759,2>> >>

kForms_23 ==
  <<
    <<"FNE","FSU","FSU",32,15,<<\h707f,\hf800>>,<<\h105b,\h0>>,496,4,761,2>>,
    <<"FNES","FSU","FSU",32,15,<<\h707f,\hf800>>,<<\h105b,\h800>>,500,4,763,2>>,
    <<"FNMADD","FSU","FSU",32,10,<<\h707f,\h0>>,<<\h604b,\h0>>,504,5,765,2>>,
    <<"FNMSUB","FSU","FSU",32,10,<<\h707f,\h0>>,<<\h704b,\h0>>,509,5,767,2>>,
    <<"FRECIP","FSU","FSU",32,20,<<\h707f,\hf9f0>>,<<\h207b,\h0>>,514,3,769,2>>,
    <<"FRET.RA","CMD","CMD",32,10,<<\h707f,\h0>>,<<\h2041,\h0>>,517,3,771,20>>,
    <<"FRET.STK","CMD","CMD",32,15,<<\hf07f,\hf>>,<<\h3041,\h5>>,520,2,791,10>>,
    <<"FSQRT","FSU","FSU",32,20,<<\h707f,\hf9f0>>,<<\h107b,\h0>>,522,3,801,2>>,
    <<"FSUB","FSU","FSU",32,15,<<\h707f,\hf800>>,<<\h104b,\h0>>,525,4,803,2>>,
    <<"HL.ADDI","ALU","ALU",48,14,<<\hf,\h707f,\h0>>,<<\he,\h15,\h0>>,529,3,805,0>> >>

kForms_24 ==
  <<
    <<"HL.ADDIW","ALU","ALU",48,14,<<\hf,\h707f,\h0>>,<<\he,\h35,\h0>>,532,3,805,0>>,
    <<"HL.ADDTPC","BRU","BRU",48,11,<<\hf,\h7f,\h0>>,<<\he,\h7,\h0>>,535,2,805,1>>,
    <<"HL.ANDI","ALU","ALU",48,14,<<\hf,\h707f,\h0>>,<<\he,\h2015,\h0>>,537,3,806,0>>,
    <<"HL.ANDIW","ALU","ALU",48,14,<<\hf,\h707f,\h0>>,<<\he,\h2035,\h0>>,540,3,806,0>>,
    <<"HL.BFI","ALU","ALU",48,21,<<\hf,\h707f,\hfe00>>,<<\he,\h204d,\h0>>,543,5,806,0>>,
    <<"HL.BSTART CALL","BBD","BBD",48,18,<<\h7f,\h0,\hf83f>>,<<\h11,\h0,\h5016>>,548,2,806,0>>,
    <<"HL.BSTART.FP","BBD","BBD",48,19,<<\hf,\h7fff,\h0>>,<<\he,\h1101,\h0>>,550,1,806,0>>,
    <<"HL.BSTART.FP","BBD","BBD",48,19,<<\hf,\h7fff,\h0>>,<<\he,\h4101,\h0>>,551,1,806,0>>,
    <<"HL.BSTART.FP","BBD","BBD",48,19,<<\hf,\h7fff,\h0>>,<<\he,\h2101,\h0>>,552,1,806,0>>,
    <<"HL.BSTART.FP","BBD","BBD",48,19,<<\hf,\h7fff,\h0>>,<<\he,\h3101,\h0>>,553,1,806,0>> >>

kForms_25 ==
  <<
    <<"HL.BSTART.STD","BBD","BBD",48,19,<<\hf,\h7fff,\h0>>,<<\he,\h1001,\h0>>,554,1,806,0>>,
    <<"HL.BSTART.STD","BBD","BBD",48,19,<<\hf,\h7fff,\h0>>,<<\he,\h3001,\h0>>,555,1,806,0>>,
    <<"HL.BSTART.STD","BBD","BBD",48,19,<<\hf,\h7fff,\h0>>,<<\he,\h4001,\h0>>,556,1,806,0>>,
    <<"HL.BSTART.STD","BBD","BBD",48,19,<<\hf,\h7fff,\h0>>,<<\he,\h2001,\h0>>,557,1,806,0>>,
    <<"HL.BSTART.SYS","BBD","BBD",48,19,<<\hf,\h7fff,\h0>>,<<\he,\h1081,\h0>>,558,1,806,0>>,
    <<"HL.CASB","AMO","AMO",48,25,<<\hf83f,\h707f,\hf000>>,<<\he,\h600b,\h0>>,559,7,806,0>>,
    <<"HL.CASD","AMO","AMO",48,25,<<\hf83f,\h707f,\hf000>>,<<\he,\h600b,\h3000>>,566,7,806,0>>,
    <<"HL.CASH","AMO","AMO",48,25,<<\hf83f,\h707f,\hf000>>,<<\he,\h600b,\h1000>>,573,7,806,0>>,
    <<"HL.CASW","AMO","AMO",48,25,<<\hf83f,\h707f,\hf000>>,<<\he,\h600b,\h2000>>,580,7,806,0>> >>

kForms_26 ==
  <<
    <<"HL.CCAT","ALU","ALU",48,21,<<\h7ff,\h707f,\h0>>,<<\he,\h105d,\h0>>,587,5,806,0>>,
    <<"HL.CCATW","ALU","ALU",48,21,<<\h7ff,\h707f,\h0>>,<<\he,\h205d,\h0>>,592,5,806,0>>,
    <<"HL.CMP.ANDI","BRU","BRU",48,14,<<\hf,\h707f,\h0>>,<<\he,\h2055,\h0>>,597,3,806,0>>,
    <<"HL.CMP.EQI","BRU","BRU",48,14,<<\hf,\h707f,\h0>>,<<\he,\h55,\h0>>,600,3,806,0>>,
    <<"HL.CMP.GEI","BRU","BRU",48,14,<<\hf,\h707f,\h0>>,<<\he,\h5055,\h0>>,603,3,806,0>>,
    <<"HL.CMP.GEUI","BRU","BRU",48,14,<<\hf,\h707f,\h0>>,<<\he,\h7055,\h0>>,606,3,806,0>>,
    <<"HL.CMP.LTI","BRU","BRU",48,14,<<\hf,\h707f,\h0>>,<<\he,\h4055,\h0>>,609,3,806,0>>,
    <<"HL.CMP.LTUI","BRU","BRU",48,14,<<\hf,\h707f,\h0>>,<<\he,\h6055,\h0>>,612,3,806,0>>,
    <<"HL.CMP.NEI","BRU","BRU",48,14,<<\hf,\h707f,\h0>>,<<\he,\h1055,\h0>>,615,3,806,0>>,
    <<"HL.CMP.ORI","BRU","BRU",48,14,<<\hf,\h707f,\h0>>,<<\he,\h3055,\h0>>,618,3,806,0>> >>

kForms_27 ==
  <<
    <<"HL.DIV","ALU","ALU",48,28,<<\h7ff,\h707f,\hfe00>>,<<\he,\h57,\h0>>,621,4,806,0>>,
    <<"HL.DIVU","ALU","ALU",48,28,<<\h7ff,\h707f,\hfe00>>,<<\he,\h1057,\h0>>,625,4,806,0>>,
    <<"HL.DIVUW","ALU","ALU",48,28,<<\h7ff,\h707f,\hfe00>>,<<\he,\h3057,\h0>>,629,4,806,0>>,
    <<"HL.DIVW","ALU","ALU",48,28,<<\h7ff,\h707f,\hfe00>>,<<\he,\h2057,\h0>>,633,4,806,0>>,
    <<"HL.LB.PCR","LDA/PC_REL","AGU",48,14,<<\hf,\h707f,\h0>>,<<\he,\h39,\h0>>,637,2,806,0>>,
    <<"HL.LB.PO","LDA/POST_INDEX","AGU",48,21,<<\h7ff,\h707f,\h0>>,<<\h3e,\h9,\h0>>,639,6,806,1>>,
    <<"HL.LB.PR","LDA/PRE_INDEX","AGU",48,21,<<\h7ff,\h707f,\h0>>,<<\h2e,\h9,\h0>>,645,6,807,1>>,
    <<"HL.LBI","LDA/LONG","AGU",48,16,<<\h3f,\h707f,\h0>>,<<\he,\h19,\h0>>,651,3,808,0>>,
    <<"HL.LBI.PO","LDA/POST_INDEX","AGU",48,16,<<\h3f,\h707f,\h0>>,<<\h3e,\h19,\h0>>,654,4,808,0>>,
    <<"HL.LBI.PR","LDA/PRE_INDEX","AGU",48,16,<<\h3f,\h707f,\h0>>,<<\h2e,\h19,\h0>>,658,4,808,0>> >>

kForms_28 ==
  <<
    <<"HL.LBIP","LDA/PAIR","AGU",48,16,<<\h3f,\h707f,\h0>>,<<\h1e,\h19,\h0>>,662,4,808,0>>,
    <<"HL.LBP","LDA/PAIR","AGU",48,21,<<\h7ff,\h707f,\h0>>,<<\h1e,\h9,\h0>>,666,6,808,1>>,
    <<"HL.LBU.PCR","LDA/PC_REL","AGU",48,14,<<\hf,\h707f,\h0>>,<<\he,\h4039,\h0>>,672,2,809,0>>,
    <<"HL.LBU.PO","LDA/POST_INDEX","AGU",48,21,<<\h7ff,\h707f,\h0>>,<<\h3e,\h4009,\h0>>,674,6,809,1>>,
    <<"HL.LBU.PR","LDA/PRE_INDEX","AGU",48,21,<<\h7ff,\h707f,\h0>>,<<\h2e,\h4009,\h0>>,680,6,810,1>>,
    <<"HL.LBUI","LDA/LONG","AGU",48,16,<<\h3f,\h707f,\h0>>,<<\he,\h4019,\h0>>,686,3,811,0>>,
    <<"HL.LBUI.PO","LDA/POST_INDEX","AGU",48,16,<<\h3f,\h707f,\h0>>,<<\h3e,\h4019,\h0>>,689,4,811,0>>,
    <<"HL.LBUI.PR","LDA/PRE_INDEX","AGU",48,16,<<\h3f,\h707f,\h0>>,<<\h2e,\h4019,\h0>>,693,4,811,0>>,
    <<"HL.LBUIP","LDA/PAIR","AGU",48,16,<<\h3f,\h707f,\h0>>,<<\h1e,\h4019,\h0>>,697,4,811,0>>,
    <<"HL.LBUP","LDA/PAIR","AGU",48,21,<<\h7ff,\h707f,\h0>>,<<\h1e,\h4009,\h0>>,701,6,811,1>> >>

kForms_29 ==
  <<
    <<"HL.LD.PCR","LDA/PC_REL","AGU",48,14,<<\hf,\h707f,\h0>>,<<\he,\h3039,\h0>>,707,2,812,0>>,
    <<"HL.LD.PO","LDA/POST_INDEX","AGU",48,21,<<\h7ff,\h707f,\h0>>,<<\h3e,\h3009,\h0>>,709,6,812,1>>,
    <<"HL.LD.PR","LDA/PRE_INDEX","AGU",48,21,<<\h7ff,\h707f,\h0>>,<<\h2e,\h3009,\h0>>,715,6,813,1>>,
    <<"HL.LDI","LDA/LONG","AGU",48,16,<<\h3f,\h707f,\h0>>,<<\he,\h3019,\h0>>,721,3,814,0>>,
    <<"HL.LDI.PO","LDA/POST_INDEX","AGU",48,16,<<\h3f,\h707f,\h0>>,<<\h3e,\h3019,\h0>>,724,4,814,0>>,
    <<"HL.LDI.PR","LDA/PRE_INDEX","AGU",48,16,<<\h3f,\h707f,\h0>>,<<\h2e,\h3019,\h0>>,728,4,814,0>>,
    <<"HL.LDI.U","LDA/LONG","AGU",48,16,<<\h3f,\h707f,\h0>>,<<\he,\h3029,\h0>>,732,3,814,0>>,
    <<"HL.LDI.UPO","LDA/POST_INDEX","AGU",48,16,<<\h3f,\h707f,\h0>>,<<\h3e,\h3029,\h0>>,735,4,814,0>>,
    <<"HL.LDI.UPR","LDA/PRE_INDEX","AGU",48,16,<<\h3f,\h707f,\h0>>,<<\h2e,\h3029,\h0>>,739,4,814,0>>,
    <<"HL.LDIP","LDA/PAIR","AGU",48,16,<<\h3f,\h707f,\h0>>,<<\h1e,\h3019,\h0>>,743,4,814,0>> >>

kForms_30 ==
  <<
    <<"HL.LDIP.U","LDA/PAIR","AGU",48,16,<<\h3f,\h707f,\h0>>,<<\h1e,\h3029,\h0>>,747,4,814,0>>,
    <<"HL.LDP","LDA/PAIR","AGU",48,21,<<\h7ff,\h707f,\h0>>,<<\h1e,\h3009,\h0>>,751,6,814,1>>,
    <<"HL.LH.PCR","LDA/PC_REL","AGU",48,14,<<\hf,\h707f,\h0>>,<<\he,\h1039,\h0>>,757,2,815,0>>,
    <<"HL.LH.PO","LDA/POST_INDEX","AGU",48,21,<<\h7ff,\h707f,\h0>>,<<\h3e,\h1009,\h0>>,759,6,815,1>>,
    <<"HL.LH.PR","LDA/PRE_INDEX","AGU",48,21,<<\h7ff,\h707f,\h0>>,<<\h2e,\h1009,\h0>>,765,6,816,1>>,
    <<"HL.LHI","LDA/LONG","AGU",48,16,<<\h3f,\h707f,\h0>>,<<\he,\h1019,\h0>>,771,3,817,0>>,
    <<"HL.LHI.PO","LDA/POST_INDEX","AGU",48,16,<<\h3f,\h707f,\h0>>,<<\h3e,\h1019,\h0>>,774,4,817,0>>,
    <<"HL.LHI.PR","LDA/PRE_INDEX","AGU",48,16,<<\h3f,\h707f,\h0>>,<<\h2e,\h1019,\h0>>,778,4,817,0>>,
    <<"HL.LHI.U","LDA/LONG","AGU",48,16,<<\h3f,\h707f,\h0>>,<<\he,\h1029,\h0>>,782,3,817,0>>,
    <<"HL.LHI.UPO","LDA/POST_INDEX","AGU",48,16,<<\h3f,\h707f,\h0>>,<<\h3e,\h1029,\h0>>,785,4,817,0>> >>

kForms_31 ==
  <<

    <<"HL.LHI.UPR","LDA/PRE_INDEX","AGU",48,16,<<\h3f,\h707f,\h0>>,<<\h2e,\h1029,\h0>>,789,4,817,0>>,
    <<"HL.LHIP","LDA/PAIR","AGU",48,16,<<\h3f,\h707f,\h0>>,<<\h1e,\h1019,\h0>>,793,4,817,0>>,
    <<"HL.LHIP.U","LDA/PAIR","AGU",48,16,<<\h3f,\h707f,\h0>>,<<\h1e,\h1029,\h0>>,797,4,817,0>>,
    <<"HL.LHP","LDA/PAIR","AGU",48,21,<<\h7ff,\h707f,\h0>>,<<\h1e,\h1009,\h0>>,801,6,817,1>>,
    <<"HL.LHU.PCR","LDA/PC_REL","AGU",48,14,<<\hf,\h707f,\h0>>,<<\he,\h5039,\h0>>,807,2,818,0>>,
    <<"HL.LHU.PO","LDA/POST_INDEX","AGU",48,21,<<\h7ff,\h707f,\h0>>,<<\h3e,\h5009,\h0>>,809,6,818,1>>,
    <<"HL.LHU.PR","LDA/PRE_INDEX","AGU",48,21,<<\h7ff,\h707f,\h0>>,<<\h2e,\h5009,\h0>>,815,6,819,1>>,
    <<"HL.LHUI","LDA/LONG","AGU",48,16,<<\h3f,\h707f,\h0>>,<<\he,\h5019,\h0>>,821,3,820,0>>,
    <<"HL.LHUI.PO","LDA/POST_INDEX","AGU",48,16,<<\h3f,\h707f,\h0>>,<<\h3e,\h5019,\h0>>,824,4,820,0>>,
    <<"HL.LHUI.PR","LDA/PRE_INDEX","AGU",48,16,<<\h3f,\h707f,\h0>>,<<\h2e,\h5019,\h0>>,828,4,820,0>> >>

kForms_32 ==
  <<
    <<"HL.LHUI.U","LDA/LONG","AGU",48,16,<<\h3f,\h707f,\h0>>,<<\he,\h5029,\h0>>,832,3,820,0>>,
    <<"HL.LHUI.UPO","LDA/POST_INDEX","AGU",48,16,<<\h3f,\h707f,\h0>>,<<\h3e,\h5029,\h0>>,835,4,820,0>>,
    <<"HL.LHUI.UPR","LDA/PRE_INDEX","AGU",48,16,<<\h3f,\h707f,\h0>>,<<\h2e,\h5029,\h0>>,839,4,820,0>>,
    <<"HL.LHUIP","LDA/PAIR","AGU",48,16,<<\h3f,\h707f,\h0>>,<<\h1e,\h5019,\h0>>,843,4,820,0>>,
    <<"HL.LHUIP.U","LDA/PAIR","AGU",48,16,<<\h3f,\h707f,\h0>>,<<\h1e,\h5029,\h0>>,847,4,820,0>>,
    <<"HL.LHUP","LDA/PAIR","AGU",48,21,<<\h7ff,\h707f,\h0>>,<<\h1e,\h5009,\h0>>,851,6,820,1>>,
    <<"HL.LIS","ALU","ALU",48,11,<<\hf,\h7f,\h0>>,<<\he,\hd,\h0>>,857,2,821,0>>,
    <<"HL.LIU","ALU","ALU",48,11,<<\hf,\h7f,\h0>>,<<\he,\h1d,\h0>>,859,2,821,0>>,
    <<"HL.LUI","ALU","ALU",48,11,<<\hf,\h7f,\h0>>,<<\he,\h17,\h0>>,861,2,821,0>>,
    <<"HL.LW.PCR","LDA/PC_REL","AGU",48,14,<<\hf,\h707f,\h0>>,<<\he,\h2039,\h0>>,863,2,821,0>> >>

kForms_33 ==
  <<

    <<"HL.LW.PO","LDA/POST_INDEX","AGU",48,21,<<\h7ff,\h707f,\h0>>,<<\h3e,\h2009,\h0>>,865,6,821,1>>,
    <<"HL.LW.PR","LDA/PRE_INDEX","AGU",48,21,<<\h7ff,\h707f,\h0>>,<<\h2e,\h2009,\h0>>,871,6,822,1>>,
    <<"HL.LWI","LDA/LONG","AGU",48,16,<<\h3f,\h707f,\h0>>,<<\he,\h2019,\h0>>,877,3,823,0>>,
    <<"HL.LWI.PO","LDA/POST_INDEX","AGU",48,16,<<\h3f,\h707f,\h0>>,<<\h3e,\h2019,\h0>>,880,4,823,0>>,
    <<"HL.LWI.PR","LDA/PRE_INDEX","AGU",48,16,<<\h3f,\h707f,\h0>>,<<\h2e,\h2019,\h0>>,884,4,823,0>>,
    <<"HL.LWI.U","LDA/LONG","AGU",48,16,<<\h3f,\h707f,\h0>>,<<\he,\h2029,\h0>>,888,3,823,0>>,
    <<"HL.LWI.UPO","LDA/POST_INDEX","AGU",48,16,<<\h3f,\h707f,\h0>>,<<\h3e,\h2029,\h0>>,891,4,823,0>>,
    <<"HL.LWI.UPR","LDA/PRE_INDEX","AGU",48,16,<<\h3f,\h707f,\h0>>,<<\h2e,\h2029,\h0>>,895,4,823,0>>,
    <<"HL.LWIP","LDA/PAIR","AGU",48,16,<<\h3f,\h707f,\h0>>,<<\h1e,\h2019,\h0>>,899,4,823,0>>,
    <<"HL.LWIP.U","LDA/PAIR","AGU",48,16,<<\h3f,\h707f,\h0>>,<<\h1e,\h2029,\h0>>,903,4,823,0>> >>

kForms_34 ==
  <<
    <<"HL.LWP","LDA/PAIR","AGU",48,21,<<\h7ff,\h707f,\h0>>,<<\h1e,\h2009,\h0>>,907,6,823,1>>,
    <<"HL.LWU.PCR","LDA/PC_REL","AGU",48,14,<<\hf,\h707f,\h0>>,<<\he,\h6039,\h0>>,913,2,824,0>>,
    <<"HL.LWU.PO","LDA/POST_INDEX","AGU",48,21,<<\h7ff,\h707f,\h0>>,<<\h3e,\h6009,\h0>>,915,6,824,1>>,
    <<"HL.LWU.PR","LDA/PRE_INDEX","AGU",48,21,<<\h7ff,\h707f,\h0>>,<<\h2e,\h6009,\h0>>,921,6,825,1>>,
    <<"HL.LWUI","LDA/LONG","AGU",48,16,<<\h3f,\h707f,\h0>>,<<\he,\h6019,\h0>>,927,3,826,0>>,
    <<"HL.LWUI.PO","LDA/POST_INDEX","AGU",48,16,<<\h3f,\h707f,\h0>>,<<\h3e,\h6019,\h0>>,930,4,826,0>>,
    <<"HL.LWUI.PR","LDA/PRE_INDEX","AGU",48,16,<<\h3f,\h707f,\h0>>,<<\h2e,\h6019,\h0>>,934,4,826,0>>,
    <<"HL.LWUI.U","LDA/LONG","AGU",48,16,<<\h3f,\h707f,\h0>>,<<\he,\h6029,\h0>>,938,3,826,0>>,
    <<"HL.LWUI.UPO","LDA/POST_INDEX","AGU",48,16,<<\h3f,\h707f,\h0>>,<<\h3e,\h6029,\h0>>,941,4,826,0>>,
    <<"HL.LWUI.UPR","LDA/PRE_INDEX","AGU",48,16,<<\h3f,\h707f,\h0>>,<<\h2e,\h6029,\h0>>,945,4,826,0>> >>

kForms_35 ==
  <<
    <<"HL.LWUIP","LDA/PAIR","AGU",48,16,<<\h3f,\h707f,\h0>>,<<\h1e,\h6019,\h0>>,949,4,826,0>>,
    <<"HL.LWUIP.U","LDA/PAIR","AGU",48,16,<<\h3f,\h707f,\h0>>,<<\h1e,\h6029,\h0>>,953,4,826,0>>,
    <<"HL.LWUP","LDA/PAIR","AGU",48,21,<<\h7ff,\h707f,\h0>>,<<\h1e,\h6009,\h0>>,957,6,826,1>>,
    <<"HL.MADD","ALU","ALU",48,23,<<\h7ff,\h707f,\h600>>,<<\he,\h6047,\h0>>,963,5,827,0>>,
    <<"HL.MADDW","ALU","ALU",48,23,<<\h7ff,\h707f,\h600>>,<<\he,\h7047,\h0>>,968,5,827,0>>,
    <<"HL.MIADD","ALU","ALU",48,14,<<\hf,\h707f,\h0>>,<<\he,\h4d,\h0>>,973,4,827,0>>,
    <<"HL.MISUB","ALU","ALU",48,14,<<\hf,\h707f,\h0>>,<<\he,\h104d,\h0>>,977,4,827,0>>,
    <<"HL.MUL","ALU","ALU",48,28,<<\h7ff,\h707f,\hfe00>>,<<\he,\h47,\h0>>,981,4,827,0>>,
    <<"HL.MULU","ALU","ALU",48,28,<<\h7ff,\h707f,\hfe00>>,<<\he,\h1047,\h0>>,985,4,827,0>>,
    <<"HL.ORI","ALU","ALU",48,14,<<\hf,\h707f,\h0>>,<<\he,\h3015,\h0>>,989,3,827,0>> >>

kForms_36 ==
  <<
    <<"HL.ORIW","ALU","ALU",48,14,<<\hf,\h707f,\h0>>,<<\he,\h3035,\h0>>,992,3,827,0>>,
    <<"HL.PRF","LDA","AGU",48,26,<<\h7ff,\h7fff,\h0>>,<<\he,\h7009,\h0>>,995,5,827,30>>,
    <<"HL.PRF.A","LDA","AGU",48,21,<<\h7ff,\h707f,\h0>>,<<\h1e,\h7009,\h0>>,1000,6,857,30>>,
    <<"HL.PRFI.U","LDA","AGU",48,21,<<\h3f,\h7fff,\h0>>,<<\he,\h7029,\h0>>,1006,3,887,29>>,
    <<"HL.PRFI.UA","LDA","AGU",48,16,<<\h3f,\h707f,\h0>>,<<\h1e,\h7029,\h0>>,1009,4,916,29>>,
    <<"HL.QMT","CMD","CMD",48,29,<<\hffff,\h707f,\he000>>,<<\he,\h7d,\h0>>,1013,7,945,0>>,
    <<"HL.QPOP","CMD","CMD",48,31,<<\h7ff,\h707f,\hf9f0>>,<<\he,\h207d,\h0>>,1020,5,945,0>>,
    <<"HL.QPUSH","CMD","CMD",48,30,<<\hffff,\h707f,\hf000>>,<<\he,\h107d,\h0>>,1025,6,945,0>>,
    <<"HL.REM","ALU","ALU",48,28,<<\h7ff,\h707f,\hfe00>>,<<\he,\h4057,\h0>>,1031,4,945,0>>,
    <<"HL.REMU","ALU","ALU",48,28,<<\h7ff,\h707f,\hfe00>>,<<\he,\h5057,\h0>>,1035,4,945,0>> >>

kForms_37 ==
  <<
    <<"HL.REMUW","ALU","ALU",48,28,<<\h7ff,\h707f,\hfe00>>,<<\he,\h7057,\h0>>,1039,4,945,0>>,
    <<"HL.REMW","ALU","ALU",48,28,<<\h7ff,\h707f,\hfe00>>,<<\he,\h6057,\h0>>,1043,4,945,0>>,
    <<"HL.SB.PCR","STA/PC_REL","AGU",48,14,<<\hf,\h707f,\h0>>,<<\he,\h69,\h0>>,1047,2,945,0>>,
    <<"HL.SB.PO","STA/POST_INDEX","AGU",48,26,<<\h7ff,\h7fff,\h0>>,<<\h3e,\h49,\h0>>,1049,5,945,1>>,
    <<"HL.SB.PR","STA/PRE_INDEX","AGU",48,26,<<\h7ff,\h7fff,\h0>>,<<\h2e,\h49,\h0>>,1054,5,946,1>>,
    <<"HL.SBI","STA/LONG","AGU",48,16,<<\h3f,\h707f,\h0>>,<<\he,\h59,\h0>>,1059,3,947,0>>,
    <<"HL.SBI.PO","STA/POST_INDEX","AGU",48,16,<<\h3f,\h707f,\h0>>,<<\h3e,\h59,\h0>>,1062,4,947,0>>,
    <<"HL.SBI.PR","STA/PRE_INDEX","AGU",48,16,<<\h3f,\h707f,\h0>>,<<\h2e,\h59,\h0>>,1066,4,947,0>>,
    <<"HL.SBIP","STA/PAIR","AGU",48,16,<<\h3f,\h707f,\h0>>,<<\h1e,\h59,\h0>>,1070,4,947,0>>,
    <<"HL.SBP","STA/PAIR","AGU",48,26,<<\hf83f,\h7fff,\h0>>,<<\h1e,\h49,\h0>>,1074,5,947,1>> >>

kForms_38 ==
  <<
    <<"HL.SD.PCR","STA/PC_REL","AGU",48,14,<<\hf,\h707f,\h0>>,<<\he,\h3069,\h0>>,1079,2,948,0>>,
    <<"HL.SD.PO","STA/POST_INDEX","AGU",48,26,<<\h7ff,\h7fff,\h0>>,<<\h3e,\h3049,\h0>>,1081,5,948,1>>,
    <<"HL.SD.PR","STA/PRE_INDEX","AGU",48,26,<<\h7ff,\h7fff,\h0>>,<<\h2e,\h3049,\h0>>,1086,5,949,1>>,
    <<"HL.SD.UPO","STA/POST_INDEX","AGU",48,26,<<\h7ff,\h7fff,\h0>>,<<\h3e,\h7049,\h0>>,1091,5,950,1>>,
    <<"HL.SD.UPR","STA/PRE_INDEX","AGU",48,26,<<\h7ff,\h7fff,\h0>>,<<\h2e,\h7049,\h0>>,1096,5,951,1>>,
    <<"HL.SDI","STA/LONG","AGU",48,16,<<\h3f,\h707f,\h0>>,<<\he,\h3059,\h0>>,1101,3,952,0>>,
    <<"HL.SDI.PO","STA/POST_INDEX","AGU",48,16,<<\h3f,\h707f,\h0>>,<<\h3e,\h3059,\h0>>,1104,4,952,0>>,
    <<"HL.SDI.PR","STA/PRE_INDEX","AGU",48,16,<<\h3f,\h707f,\h0>>,<<\h2e,\h3059,\h0>>,1108,4,952,0>>,
    <<"HL.SDI.U","STA/LONG","AGU",48,16,<<\h3f,\h707f,\h0>>,<<\he,\h7059,\h0>>,1112,3,952,0>>,
    <<"HL.SDI.UPO","STA/POST_INDEX","AGU",48,16,<<\h3f,\h707f,\h0>>,<<\h3e,\h7059,\h0>>,1115,4,952,0>> >>

kForms_39 ==
  <<

    <<"HL.SDI.UPR","STA/PRE_INDEX","AGU",48,16,<<\h3f,\h707f,\h0>>,<<\h2e,\h7059,\h0>>,1119,4,952,0>>,
    <<"HL.SDIP","STA/PAIR","AGU",48,16,<<\h3f,\h707f,\h0>>,<<\h1e,\h3059,\h0>>,1123,4,952,0>>,
    <<"HL.SDIP.U","STA/PAIR","AGU",48,16,<<\h3f,\h707f,\h0>>,<<\h1e,\h7059,\h0>>,1127,4,952,0>>,
    <<"HL.SDP","STA/PAIR","AGU",48,26,<<\hf83f,\h7fff,\h0>>,<<\h1e,\h3049,\h0>>,1131,5,952,1>>,
    <<"HL.SDP.U","STA/PAIR","AGU",48,26,<<\hf83f,\h7fff,\h0>>,<<\h1e,\h7049,\h0>>,1136,5,953,1>>,
    <<"HL.SETC.ANDI","BRU","BRU",48,14,<<\hf,\h707f,\h0>>,<<\he,\h2075,\h0>>,1141,3,954,0>>,
    <<"HL.SETC.EQI","BRU","BRU",48,14,<<\hf,\h707f,\h0>>,<<\he,\h75,\h0>>,1144,3,954,0>>,
    <<"HL.SETC.GEI","BRU","BRU",48,14,<<\hf,\h707f,\h0>>,<<\he,\h5075,\h0>>,1147,3,954,0>>,
    <<"HL.SETC.GEUI","BRU","BRU",48,14,<<\hf,\h707f,\h0>>,<<\he,\h7075,\h0>>,1150,3,954,0>>,
    <<"HL.SETC.LTI","BRU","BRU",48,14,<<\hf,\h707f,\h0>>,<<\he,\h4075,\h0>>,1153,3,954,0>> >>

kForms_40 ==
  <<
    <<"HL.SETC.LTUI","BRU","BRU",48,14,<<\hf,\h707f,\h0>>,<<\he,\h6075,\h0>>,1156,3,954,0>>,
    <<"HL.SETC.NEI","BRU","BRU",48,14,<<\hf,\h707f,\h0>>,<<\he,\h1075,\h0>>,1159,3,954,0>>,
    <<"HL.SETC.ORI","BRU","BRU",48,14,<<\hf,\h707f,\h0>>,<<\he,\h3075,\h0>>,1162,3,954,0>>,
    <<"HL.SETRET","BRU","BRU",48,16,<<\hf,\hfff,\h0>>,<<\he,\h507,\h0>>,1165,1,954,0>>,
    <<"HL.SH.PCR","STA/PC_REL","AGU",48,14,<<\hf,\h707f,\h0>>,<<\he,\h1069,\h0>>,1166,2,954,0>>,
    <<"HL.SH.PO","STA/POST_INDEX","AGU",48,26,<<\h7ff,\h7fff,\h0>>,<<\h3e,\h1049,\h0>>,1168,5,954,1>>,
    <<"HL.SH.PR","STA/PRE_INDEX","AGU",48,26,<<\h7ff,\h7fff,\h0>>,<<\h2e,\h1049,\h0>>,1173,5,955,1>>,
    <<"HL.SH.UPO","STA/POST_INDEX","AGU",48,26,<<\h7ff,\h7fff,\h0>>,<<\h3e,\h5049,\h0>>,1178,5,956,1>>,
    <<"HL.SH.UPR","STA/PRE_INDEX","AGU",48,26,<<\h7ff,\h7fff,\h0>>,<<\h2e,\h5049,\h0>>,1183,5,957,1>>,
    <<"HL.SHI","STA/LONG","AGU",48,16,<<\h3f,\h707f,\h0>>,<<\he,\h1059,\h0>>,1188,3,958,0>> >>

kForms_41 ==
  <<

    <<"HL.SHI.PO","STA/POST_INDEX","AGU",48,16,<<\h3f,\h707f,\h0>>,<<\h3e,\h1059,\h0>>,1191,4,958,0>>,
    <<"HL.SHI.PR","STA/PRE_INDEX","AGU",48,16,<<\h3f,\h707f,\h0>>,<<\h2e,\h1059,\h0>>,1195,4,958,0>>,
    <<"HL.SHI.U","STA/LONG","AGU",48,16,<<\h3f,\h707f,\h0>>,<<\he,\h5059,\h0>>,1199,3,958,0>>,
    <<"HL.SHI.UPO","STA/POST_INDEX","AGU",48,16,<<\h3f,\h707f,\h0>>,<<\h3e,\h5059,\h0>>,1202,4,958,0>>,
    <<"HL.SHI.UPR","STA/PRE_INDEX","AGU",48,16,<<\h3f,\h707f,\h0>>,<<\h2e,\h5059,\h0>>,1206,4,958,0>>,
    <<"HL.SHIP","STA/PAIR","AGU",48,16,<<\h3f,\h707f,\h0>>,<<\h1e,\h1059,\h0>>,1210,4,958,0>>,
    <<"HL.SHIP.U","STA/PAIR","AGU",48,16,<<\h3f,\h707f,\h0>>,<<\h1e,\h5059,\h0>>,1214,4,958,0>>,
    <<"HL.SHP","STA/PAIR","AGU",48,26,<<\hf83f,\h7fff,\h0>>,<<\h1e,\h1049,\h0>>,1218,5,958,1>>,
    <<"HL.SHP.U","STA/PAIR","AGU",48,26,<<\hf83f,\h7fff,\h0>>,<<\h1e,\h5049,\h0>>,1223,5,959,1>>,
    <<"HL.SSRGET","SYS","SYS",48,19,<<\hf,\hf07f,\hf>>,<<\he,\h3b,\h0>>,1228,2,960,0>> >>

kForms_42 ==
  <<
    <<"HL.SSRSET","SYS","SYS",48,19,<<\hf,\h7fff,\h0>>,<<\he,\h103b,\h0>>,1230,2,960,0>>,
    <<"HL.SUBI","ALU","ALU",48,14,<<\hf,\h707f,\h0>>,<<\he,\h1015,\h0>>,1232,3,960,0>>,
    <<"HL.SUBIW","ALU","ALU",48,14,<<\hf,\h707f,\h0>>,<<\he,\h1035,\h0>>,1235,3,960,0>>,
    <<"HL.SW.PCR","STA/PC_REL","AGU",48,14,<<\hf,\h707f,\h0>>,<<\he,\h2069,\h0>>,1238,2,960,0>>,
    <<"HL.SW.PO","STA/POST_INDEX","AGU",48,26,<<\h7ff,\h7fff,\h0>>,<<\h3e,\h2049,\h0>>,1240,5,960,1>>,
    <<"HL.SW.PR","STA/PRE_INDEX","AGU",48,26,<<\h7ff,\h7fff,\h0>>,<<\h2e,\h2049,\h0>>,1245,5,961,1>>,
    <<"HL.SW.UPO","STA/POST_INDEX","AGU",48,26,<<\h7ff,\h7fff,\h0>>,<<\h3e,\h6049,\h0>>,1250,5,962,1>>,
    <<"HL.SW.UPR","STA/PRE_INDEX","AGU",48,26,<<\h7ff,\h7fff,\h0>>,<<\h2e,\h6049,\h0>>,1255,5,963,1>>,
    <<"HL.SWI","STA/LONG","AGU",48,16,<<\h3f,\h707f,\h0>>,<<\he,\h2059,\h0>>,1260,3,964,0>>,
    <<"HL.SWI.PO","STA/POST_INDEX","AGU",48,16,<<\h3f,\h707f,\h0>>,<<\h3e,\h2059,\h0>>,1263,4,964,0>> >>

kForms_43 ==
  <<

    <<"HL.SWI.PR","STA/PRE_INDEX","AGU",48,16,<<\h3f,\h707f,\h0>>,<<\h2e,\h2059,\h0>>,1267,4,964,0>>,
    <<"HL.SWI.U","STA/LONG","AGU",48,16,<<\h3f,\h707f,\h0>>,<<\he,\h6059,\h0>>,1271,3,964,0>>,
    <<"HL.SWI.UPO","STA/POST_INDEX","AGU",48,16,<<\h3f,\h707f,\h0>>,<<\h3e,\h6059,\h0>>,1274,4,964,0>>,
    <<"HL.SWI.UPR","STA/PRE_INDEX","AGU",48,16,<<\h3f,\h707f,\h0>>,<<\h2e,\h6059,\h0>>,1278,4,964,0>>,
    <<"HL.SWIP","STA/PAIR","AGU",48,16,<<\h3f,\h707f,\h0>>,<<\h1e,\h2059,\h0>>,1282,4,964,0>>,
    <<"HL.SWIP.U","STA/PAIR","AGU",48,16,<<\h3f,\h707f,\h0>>,<<\h1e,\h6059,\h0>>,1286,4,964,0>>,
    <<"HL.SWP","STA/PAIR","AGU",48,26,<<\hf83f,\h7fff,\h0>>,<<\h1e,\h2049,\h0>>,1290,5,964,1>>,
    <<"HL.SWP.U","STA/PAIR","AGU",48,26,<<\hf83f,\h7fff,\h0>>,<<\h1e,\h6049,\h0>>,1295,5,965,1>>,
    <<"HL.XORI","ALU","ALU",48,14,<<\hf,\h707f,\h0>>,<<\he,\h4015,\h0>>,1300,3,966,0>>,
    <<"HL.XORIW","ALU","ALU",48,14,<<\hf,\h707f,\h0>>,<<\he,\h4035,\h0>>,1303,3,966,0>> >>

kForms_44 ==
  <<
    <<"IC.IALL","SYS","SYS",32,32,<<\hffff,\hffff>>,<<\h502b,\h10>>,1306,0,966,0>>,
    <<"IC.IVA","SYS","SYS",32,27,<<\h7fff,\hfff0>>,<<\h502b,\h0>>,1306,1,966,0>>,
    <<"J","BRU","BRU",32,10,<<\h707f,\h0>>,<<\h37,\h0>>,1307,1,966,0>>,
    <<"JR","BRU","BRU",32,10,<<\h707f,\h0>>,<<\h6027,\h0>>,1308,3,966,0>>,
    <<"L.BSTART.FP","BBD","BBD",64,22,<<\h7f,\h0,\h7fff,\h0>>,<<\hf,\h0,\h2081,\h0>>,1311,1,966,0>>,
    <<"L.BSTART.FP","BBD","BBD",64,22,<<\h7f,\h0,\h7fff,\h0>>,<<\hf,\h0,\h1081,\h0>>,1312,1,966,0>>,
    <<"L.BSTART.FP","BBD","BBD",64,22,<<\h7f,\h0,\h7fff,\h0>>,<<\hf,\h0,\h4081,\h0>>,1313,1,966,0>>,
    <<"L.BSTART.FP","BBD","BBD",64,22,<<\h7f,\h0,\h7fff,\h0>>,<<\hf,\h0,\h3081,\h0>>,1314,1,966,0>>,
    <<"L.BSTART.STD","BBD","BBD",64,22,<<\h7f,\h0,\h7fff,\h0>>,<<\hf,\h0,\h3001,\h0>>,1315,1,966,0>>,
    <<"L.BSTART.STD","BBD","BBD",64,22,<<\h7f,\h0,\h7fff,\h0>>,<<\hf,\h0,\h2001,\h0>>,1316,1,966,0>> >>

kForms_45 ==
  <<

    <<"L.BSTART.STD","BBD","BBD",64,22,<<\h7f,\h0,\h7fff,\h0>>,<<\hf,\h0,\h4001,\h0>>,1317,1,966,0>>,
    <<"L.BSTART.STD","BBD","BBD",64,22,<<\h7f,\h0,\h7fff,\h0>>,<<\hf,\h0,\h1001,\h0>>,1318,1,966,0>>,
    <<"L.BSTART.SYS","BBD","BBD",64,22,<<\h7f,\h0,\h7fff,\h0>>,<<\hf,\h0,\h1011,\h0>>,1319,1,966,0>>,
    <<"L.BSTOP","CMD","CMD",64,64,<<\hffff,\hffff,\hffff,\hffff>>,<<\hf,\h0,\h1,\h0>>,1320,0,966,0>>,
    <<"LB","LDA/BASE_REG","AGU",32,10,<<\h707f,\h0>>,<<\h9,\h0>>,1320,5,966,1>>,
    <<"LB.PCR","LDA","AGU",32,10,<<\h707f,\h0>>,<<\h39,\h0>>,1325,2,967,0>>,
    <<"LBI","LDA/BASE_IMM","AGU",32,10,<<\h707f,\h0>>,<<\h19,\h0>>,1327,3,967,0>>,
    <<"LBU","LDA/BASE_REG","AGU",32,10,<<\h707f,\h0>>,<<\h4009,\h0>>,1330,5,967,1>>,
    <<"LBU.PCR","LDA","AGU",32,10,<<\h707f,\h0>>,<<\h4039,\h0>>,1335,2,968,0>>,
    <<"LBUI","LDA/BASE_IMM","AGU",32,10,<<\h707f,\h0>>,<<\h4019,\h0>>,1337,3,968,0>> >>

kForms_46 ==
  <<
    <<"LD","LDA/BASE_REG","AGU",32,10,<<\h707f,\h0>>,<<\h3009,\h0>>,1340,5,968,1>>,
    <<"LD.ADD","AMO","AMO",32,14,<<\h707f,\h7800>>,<<\h400b,\h0>>,1345,6,969,0>>,
    <<"LD.AND","AMO","AMO",32,14,<<\h707f,\h7800>>,<<\h400b,\h800>>,1351,6,969,0>>,
    <<"LD.OR","AMO","AMO",32,14,<<\h707f,\h7800>>,<<\h400b,\h1000>>,1357,6,969,0>>,
    <<"LD.PCR","LDA","AGU",32,10,<<\h707f,\h0>>,<<\h3039,\h0>>,1363,2,969,0>>,
    <<"LD.SMAX","AMO","AMO",32,14,<<\h707f,\h7800>>,<<\h400b,\h2000>>,1365,6,969,0>>,
    <<"LD.SMIN","AMO","AMO",32,14,<<\h707f,\h7800>>,<<\h400b,\h2800>>,1371,6,969,0>>,
    <<"LD.UMAX","AMO","AMO",32,14,<<\h707f,\h7800>>,<<\h400b,\h3000>>,1377,6,969,0>>,
    <<"LD.UMIN","AMO","AMO",32,14,<<\h707f,\h7800>>,<<\h400b,\h3800>>,1383,6,969,0>>,
    <<"LD.XOR","AMO","AMO",32,14,<<\h707f,\h7800>>,<<\h400b,\h1800>>,1389,6,969,0>> >>

kForms_47 ==
  <<
    <<"LDI","LDA/BASE_IMM","AGU",32,10,<<\h707f,\h0>>,<<\h3019,\h0>>,1395,3,969,0>>,
    <<"LDI.U","LDA/UNSCALED","AGU",32,10,<<\h707f,\h0>>,<<\h3029,\h0>>,1398,3,969,0>>,
    <<"LH","LDA/BASE_REG","AGU",32,10,<<\h707f,\h0>>,<<\h1009,\h0>>,1401,5,969,1>>,
    <<"LH.PCR","LDA","AGU",32,10,<<\h707f,\h0>>,<<\h1039,\h0>>,1406,2,970,0>>,
    <<"LHI","LDA/BASE_IMM","AGU",32,10,<<\h707f,\h0>>,<<\h1019,\h0>>,1408,3,970,0>>,
    <<"LHI.U","LDA/UNSCALED","AGU",32,10,<<\h707f,\h0>>,<<\h1029,\h0>>,1411,3,970,0>>,
    <<"LHU","LDA/BASE_REG","AGU",32,10,<<\h707f,\h0>>,<<\h5009,\h0>>,1414,5,970,1>>,
    <<"LHU.PCR","LDA","AGU",32,10,<<\h707f,\h0>>,<<\h5039,\h0>>,1419,2,971,0>>,
    <<"LHUI","LDA/BASE_IMM","AGU",32,10,<<\h707f,\h0>>,<<\h5019,\h0>>,1421,3,971,0>>,
    <<"LHUI.U","LDA/UNSCALED","AGU",32,10,<<\h707f,\h0>>,<<\h5029,\h0>>,1424,3,971,0>> >>

kForms_48 ==
  <<
    <<"LR.B","AMO","AMO",32,14,<<\h707f,\h7800>>,<<\hb,\h0>>,1427,6,971,0>>,
    <<"LR.D","AMO","AMO",32,14,<<\h707f,\h7800>>,<<\hb,\h1800>>,1433,6,971,0>>,
    <<"LR.H","AMO","AMO",32,14,<<\h707f,\h7800>>,<<\hb,\h800>>,1439,6,971,0>>,
    <<"LR.W","AMO","AMO",32,14,<<\h707f,\h7800>>,<<\hb,\h1000>>,1445,6,971,0>>,
    <<"LSRGET","SYS","SYS",32,15,<<\hf07f,\hf>>,<<\h303b,\h0>>,1451,2,971,0>>,
    <<"LUI","ALU","ALU",32,7,<<\h7f,\h0>>,<<\h17,\h0>>,1453,2,971,0>>,
    <<"LW","LDA/BASE_REG","AGU",32,10,<<\h707f,\h0>>,<<\h2009,\h0>>,1455,5,971,1>>,
    <<"LW.ADD","AMO","AMO",32,14,<<\h707f,\h7800>>,<<\h200b,\h0>>,1460,6,972,0>>,
    <<"LW.AND","AMO","AMO",32,14,<<\h707f,\h7800>>,<<\h200b,\h800>>,1466,6,972,0>>,
    <<"LW.OR","AMO","AMO",32,14,<<\h707f,\h7800>>,<<\h200b,\h1000>>,1472,6,972,0>> >>

kForms_49 ==
  <<
    <<"LW.PCR","LDA","AGU",32,10,<<\h707f,\h0>>,<<\h2039,\h0>>,1478,2,972,0>>,
    <<"LW.SMAX","AMO","AMO",32,14,<<\h707f,\h7800>>,<<\h200b,\h2000>>,1480,6,972,0>>,
    <<"LW.SMIN","AMO","AMO",32,14,<<\h707f,\h7800>>,<<\h200b,\h2800>>,1486,6,972,0>>,
    <<"LW.UMAX","AMO","AMO",32,14,<<\h707f,\h7800>>,<<\h200b,\h3000>>,1492,6,972,0>>,
    <<"LW.UMIN","AMO","AMO",32,14,<<\h707f,\h7800>>,<<\h200b,\h3800>>,1498,6,972,0>>,
    <<"LW.XOR","AMO","AMO",32,14,<<\h707f,\h7800>>,<<\h200b,\h1800>>,1504,6,972,0>>,
    <<"LWI","LDA/BASE_IMM","AGU",32,10,<<\h707f,\h0>>,<<\h2019,\h0>>,1510,3,972,0>>,
    <<"LWI.U","LDA/UNSCALED","AGU",32,10,<<\h707f,\h0>>,<<\h2029,\h0>>,1513,3,972,0>>,
    <<"LWU","LDA/BASE_REG","AGU",32,10,<<\h707f,\h0>>,<<\h6009,\h0>>,1516,5,972,1>>,
    <<"LWU.PCR","LDA","AGU",32,10,<<\h707f,\h0>>,<<\h6039,\h0>>,1521,2,973,0>> >>

kForms_50 ==
  <<
    <<"LWUI","LDA/BASE_IMM","AGU",32,10,<<\h707f,\h0>>,<<\h6019,\h0>>,1523,3,973,0>>,
    <<"LWUI.U","LDA/UNSCALED","AGU",32,10,<<\h707f,\h0>>,<<\h6029,\h0>>,1526,3,973,0>>,
    <<"MADD","ALU","ALU",32,12,<<\h707f,\h600>>,<<\h6047,\h0>>,1529,4,973,0>>,
    <<"MADDW","ALU","ALU",32,12,<<\h707f,\h600>>,<<\h7047,\h0>>,1533,4,973,0>>,
    <<"MAX","ALU","ALU",32,17,<<\h707f,\hfe00>>,<<\h405b,\h0>>,1537,3,973,0>>,
    <<"MAXU","ALU","ALU",32,17,<<\h707f,\hfe00>>,<<\h405b,\h800>>,1540,3,973,0>>,
    <<"MCOPY","CMD","CMD",32,17,<<\h7fff,\h600>>,<<\h31,\h0>>,1543,3,973,24>>,
    <<"MCOPY.DL","CMD","CMD",32,12,<<\h707f,\h600>>,<<\h1031,\h600>>,1546,4,997,0>>,
    <<"MCOPY.DS","CMD","CMD",32,12,<<\h707f,\h600>>,<<\h1031,\h200>>,1550,4,997,0>>,
    <<"MIN","ALU","ALU",32,17,<<\h707f,\hfe00>>,<<\h505b,\h0>>,1554,3,997,0>> >>

kForms_51 ==
  <<
    <<"MINU","ALU","ALU",32,17,<<\h707f,\hfe00>>,<<\h505b,\h800>>,1557,3,997,0>>,
    <<"MSET","CMD","CMD",32,17,<<\h7fff,\h600>>,<<\h1031,\h0>>,1560,3,997,24>>,
    <<"MUL","ALU","ALU",32,17,<<\h707f,\hfe00>>,<<\h47,\h0>>,1563,3,1021,0>>,
    <<"MULU","ALU","ALU",32,17,<<\h707f,\hfe00>>,<<\h1047,\h0>>,1566,3,1021,0>>,
    <<"MULUW","ALU","ALU",32,17,<<\h707f,\hfe00>>,<<\h3047,\h0>>,1569,3,1021,0>>,
    <<"MULW","ALU","ALU",32,17,<<\h707f,\hfe00>>,<<\h2047,\h0>>,1572,3,1021,0>>,
    <<"OR","ALU","ALU",32,10,<<\h707f,\h0>>,<<\h3005,\h0>>,1575,5,1021,0>>,
    <<"ORI","ALU","ALU",32,10,<<\h707f,\h0>>,<<\h3015,\h0>>,1580,3,1021,0>>,
    <<"ORIW","ALU","ALU",32,10,<<\h707f,\h0>>,<<\h3035,\h0>>,1583,3,1021,0>>,
    <<"ORW","ALU","ALU",32,10,<<\h707f,\h0>>,<<\h3025,\h0>>,1586,5,1021,0>> >>

kForms_52 ==
  <<
    <<"PRF","LDA/BASE_REG","AGU",32,10,<<\h707f,\h0>>,<<\h7009,\h0>>,1591,5,1021,1>>,
    <<"PRFI.U","LDA/UNSCALED","AGU",32,10,<<\h707f,\h0>>,<<\h7029,\h0>>,1596,3,1022,0>>,
    <<"REM","ALU","ALU",32,17,<<\h707f,\hfe00>>,<<\h4057,\h0>>,1599,3,1022,0>>,
    <<"REMU","ALU","ALU",32,17,<<\h707f,\hfe00>>,<<\h5057,\h0>>,1602,3,1022,0>>,
    <<"REMUW","ALU","ALU",32,17,<<\h707f,\hfe00>>,<<\h7057,\h0>>,1605,3,1022,0>>,
    <<"REMW","ALU","ALU",32,17,<<\h707f,\hfe00>>,<<\h6057,\h0>>,1608,3,1022,0>>,
    <<"REV","ALU","ALU",32,10,<<\h707f,\h0>>,<<\h7067,\h0>>,1611,4,1022,0>>,
    <<"SB","STA/BASE_REG","AGU",32,15,<<\h7fff,\h0>>,<<\h49,\h0>>,1615,4,1022,1>>,
    <<"SB.ADD","AMO","AMO",32,21,<<\h7fff,\hfc00>>,<<\h300b,\h8000>>,1619,3,1023,0>>,
    <<"SB.PCR","STA","AGU",32,10,<<\h707f,\h0>>,<<\h69,\h0>>,1622,2,1023,0>> >>

kForms_53 ==
  <<
    <<"SB.SUB","AMO","AMO",32,21,<<\h7fff,\hfc00>>,<<\h300b,\hc000>>,1624,3,1023,0>>,
    <<"SBI","STA/BASE_IMM","AGU",32,10,<<\h707f,\h0>>,<<\h59,\h0>>,1627,3,1023,0>>,
    <<"SC.B","AMO","AMO",32,14,<<\h707f,\h7800>>,<<\h100b,\h0>>,1630,6,1023,0>>,
    <<"SC.D","AMO","AMO",32,14,<<\h707f,\h7800>>,<<\h100b,\h1800>>,1636,6,1023,0>>,
    <<"SC.H","AMO","AMO",32,14,<<\h707f,\h7800>>,<<\h100b,\h800>>,1642,6,1023,0>>,
    <<"SC.W","AMO","AMO",32,14,<<\h707f,\h7800>>,<<\h100b,\h1000>>,1648,6,1023,0>>,
    <<"SCVTF","FSU","FSU",32,15,<<\h707f,\h1f0>>,<<\h606b,\h0>>,1654,4,1023,28>>,
    <<"SD","STA/BASE_REG","AGU",32,15,<<\h7fff,\h0>>,<<\h3049,\h0>>,1658,4,1051,1>>,
    <<"SD.ADD","AMO","AMO",32,21,<<\h7fff,\hfc00>>,<<\h500b,\h0>>,1662,3,1052,0>>,
    <<"SD.AND","AMO","AMO",32,21,<<\h7fff,\hfc00>>,<<\h500b,\h800>>,1665,3,1052,0>> >>

kForms_54 ==
  <<
    <<"SD.OR","AMO","AMO",32,21,<<\h7fff,\hfc00>>,<<\h500b,\h1000>>,1668,3,1052,0>>,
    <<"SD.PCR","STA","AGU",32,10,<<\h707f,\h0>>,<<\h3069,\h0>>,1671,2,1052,0>>,
    <<"SD.SMAX","AMO","AMO",32,21,<<\h7fff,\hfc00>>,<<\h500b,\h2000>>,1673,3,1052,0>>,
    <<"SD.SMIN","AMO","AMO",32,21,<<\h7fff,\hfc00>>,<<\h500b,\h2800>>,1676,3,1052,0>>,
    <<"SD.SUB","AMO","AMO",32,21,<<\h7fff,\hfc00>>,<<\h500b,\h4000>>,1679,3,1052,0>>,
    <<"SD.U","STA/BASE_REG","AGU",32,15,<<\h7fff,\h0>>,<<\h7049,\h0>>,1682,4,1052,1>>,
    <<"SD.UMAX","AMO","AMO",32,21,<<\h7fff,\hfc00>>,<<\h500b,\h3000>>,1686,3,1053,0>>,
    <<"SD.UMIN","AMO","AMO",32,21,<<\h7fff,\hfc00>>,<<\h500b,\h3800>>,1689,3,1053,0>>,
    <<"SD.XOR","AMO","AMO",32,21,<<\h7fff,\hfc00>>,<<\h500b,\h1800>>,1692,3,1053,0>>,
    <<"SDI","STA/BASE_IMM","AGU",32,10,<<\h707f,\h0>>,<<\h3059,\h0>>,1695,3,1053,0>> >>

kForms_55 ==
  <<
    <<"SDI.U","STA/BASE_IMM","AGU",32,10,<<\h707f,\h0>>,<<\h7059,\h0>>,1698,3,1053,0>>,
    <<"SETC.AND","BRU","BRU",32,20,<<\h7fff,\hf800>>,<<\h2065,\h0>>,1701,3,1053,0>>,
    <<"SETC.ANDI","BRU","BRU",32,10,<<\h707f,\h0>>,<<\h2075,\h0>>,1704,3,1053,0>>,
    <<"SETC.EQ","BRU","BRU",32,20,<<\h7fff,\hf800>>,<<\h65,\h0>>,1707,3,1053,0>>,
    <<"SETC.EQI","BRU","BRU",32,10,<<\h707f,\h0>>,<<\h75,\h0>>,1710,3,1053,0>>,
    <<"SETC.GE","BRU","BRU",32,20,<<\h7fff,\hf800>>,<<\h5065,\h0>>,1713,3,1053,0>>,
    <<"SETC.GEI","BRU","BRU",32,10,<<\h707f,\h0>>,<<\h5075,\h0>>,1716,3,1053,0>>,
    <<"SETC.GEU","BRU","BRU",32,20,<<\h7fff,\hf800>>,<<\h7065,\h0>>,1719,3,1053,0>>,
    <<"SETC.GEUI","BRU","BRU",32,10,<<\h707f,\h0>>,<<\h7075,\h0>>,1722,3,1053,0>>,
    <<"SETC.LT","BRU","BRU",32,20,<<\h7fff,\hf800>>,<<\h4065,\h0>>,1725,3,1053,0>> >>

kForms_56 ==
  <<
    <<"SETC.LTI","BRU","BRU",32,10,<<\h707f,\h0>>,<<\h4075,\h0>>,1728,3,1053,0>>,
    <<"SETC.LTU","BRU","BRU",32,20,<<\h7fff,\hf800>>,<<\h6065,\h0>>,1731,3,1053,0>>,
    <<"SETC.LTUI","BRU","BRU",32,10,<<\h707f,\h0>>,<<\h6075,\h0>>,1734,3,1053,0>>,
    <<"SETC.NE","BRU","BRU",32,20,<<\h7fff,\hf800>>,<<\h1065,\h0>>,1737,3,1053,0>>,
    <<"SETC.NEI","BRU","BRU",32,10,<<\h707f,\h0>>,<<\h1075,\h0>>,1740,3,1053,0>>,
    <<"SETC.OR","BRU","BRU",32,20,<<\h7fff,\hf800>>,<<\h3065,\h0>>,1743,3,1053,0>>,
    <<"SETC.ORI","BRU","BRU",32,10,<<\h707f,\h0>>,<<\h3075,\h0>>,1746,3,1053,0>>,
    <<"SETC.TGT","SYS","SYS",32,27,<<\h7fff,\hfff0>>,<<\h403b,\h0>>,1749,1,1053,0>>,
    <<"SETRET","BRU","BRU",32,12,<<\hfff,\h0>>,<<\h507,\h0>>,1750,1,1053,0>>,
    <<"SH","STA/BASE_REG","AGU",32,15,<<\h7fff,\h0>>,<<\h1049,\h0>>,1751,4,1053,1>> >>

kForms_57 ==
  <<
    <<"SH.ADD","AMO","AMO",32,21,<<\h7fff,\hfc00>>,<<\h500b,\h8000>>,1755,3,1054,0>>,
    <<"SH.PCR","STA","AGU",32,10,<<\h707f,\h0>>,<<\h1069,\h0>>,1758,2,1054,0>>,
    <<"SH.SUB","AMO","AMO",32,21,<<\h7fff,\hfc00>>,<<\h500b,\hc000>>,1760,3,1054,0>>,
    <<"SH.U","STA/BASE_REG","AGU",32,15,<<\h7fff,\h0>>,<<\h5049,\h0>>,1763,4,1054,1>>,
    <<"SHI","STA/BASE_IMM","AGU",32,10,<<\h707f,\h0>>,<<\h1059,\h0>>,1767,3,1055,0>>,
    <<"SHI.U","STA/BASE_IMM","AGU",32,10,<<\h707f,\h0>>,<<\h5059,\h0>>,1770,3,1055,0>>,
    <<"SLL","ALU","ALU",32,17,<<\h707f,\hfe00>>,<<\h7005,\h0>>,1773,3,1055,0>>,
    <<"SLLI","ALU","ALU",32,16,<<\h707f,\hfc00>>,<<\h7015,\h0>>,1776,3,1055,0>>,
    <<"SLLIW","ALU","ALU",32,17,<<\h707f,\hfe00>>,<<\h7035,\h0>>,1779,3,1055,0>>,
    <<"SLLW","ALU","ALU",32,17,<<\h707f,\hfe00>>,<<\h7025,\h0>>,1782,3,1055,0>> >>

kForms_58 ==
  <<
    <<"SRA","ALU","ALU",32,17,<<\h707f,\hfe00>>,<<\h6005,\h0>>,1785,3,1055,0>>,
    <<"SRAI","ALU","ALU",32,16,<<\h707f,\hfc00>>,<<\h6015,\h0>>,1788,3,1055,0>>,
    <<"SRAIW","ALU","ALU",32,17,<<\h707f,\hfe00>>,<<\h6035,\h0>>,1791,3,1055,0>>,
    <<"SRAW","ALU","ALU",32,17,<<\h707f,\hfe00>>,<<\h6025,\h0>>,1794,3,1055,0>>,
    <<"SRL","ALU","ALU",32,17,<<\h707f,\hfe00>>,<<\h5005,\h0>>,1797,3,1055,0>>,
    <<"SRLI","ALU","ALU",32,16,<<\h707f,\hfc00>>,<<\h5015,\h0>>,1800,3,1055,0>>,
    <<"SRLIW","ALU","ALU",32,17,<<\h707f,\hfe00>>,<<\h5035,\h0>>,1803,3,1055,0>>,
    <<"SRLW","ALU","ALU",32,17,<<\h707f,\hfe00>>,<<\h5025,\h0>>,1806,3,1055,0>>,
    <<"SSRGET","SYS","SYS",32,15,<<\hf07f,\hf>>,<<\h3b,\h0>>,1809,2,1055,0>>,
    <<"SSRSET","SYS","SYS",32,15,<<\h7fff,\h0>>,<<\h103b,\h0>>,1811,2,1055,0>> >>

kForms_59 ==
  <<
    <<"SSRSWAP","SYS","SYS",32,10,<<\h707f,\h0>>,<<\h203b,\h0>>,1813,3,1055,0>>,
    <<"SUB","ALU","ALU",32,10,<<\h707f,\h0>>,<<\h1005,\h0>>,1816,5,1055,0>>,
    <<"SUBI","ALU","ALU",32,10,<<\h707f,\h0>>,<<\h1015,\h0>>,1821,3,1055,0>>,
    <<"SUBIW","ALU","ALU",32,10,<<\h707f,\h0>>,<<\h1035,\h0>>,1824,3,1055,0>>,
    <<"SUBW","ALU","ALU",32,10,<<\h707f,\h0>>,<<\h1025,\h0>>,1827,5,1055,0>>,
    <<"SW","STA/BASE_REG","AGU",32,15,<<\h7fff,\h0>>,<<\h2049,\h0>>,1832,4,1055,1>>,
    <<"SW.ADD","AMO","AMO",32,21,<<\h7fff,\hfc00>>,<<\h300b,\h0>>,1836,3,1056,0>>,
    <<"SW.AND","AMO","AMO",32,21,<<\h7fff,\hfc00>>,<<\h300b,\h800>>,1839,3,1056,0>>,
    <<"SW.OR","AMO","AMO",32,21,<<\h7fff,\hfc00>>,<<\h300b,\h1000>>,1842,3,1056,0>>,
    <<"SW.PCR","STA","AGU",32,10,<<\h707f,\h0>>,<<\h2069,\h0>>,1845,2,1056,0>> >>

kForms_60 ==
  <<
    <<"SW.SMAX","AMO","AMO",32,21,<<\h7fff,\hfc00>>,<<\h300b,\h2000>>,1847,3,1056,0>>,
    <<"SW.SMIN","AMO","AMO",32,21,<<\h7fff,\hfc00>>,<<\h300b,\h2800>>,1850,3,1056,0>>,
    <<"SW.SUB","AMO","AMO",32,21,<<\h7fff,\hfc00>>,<<\h300b,\h4000>>,1853,3,1056,0>>,
    <<"SW.U","STA/BASE_REG","AGU",32,15,<<\h7fff,\h0>>,<<\h6049,\h0>>,1856,4,1056,1>>,
    <<"SW.UMAX","AMO","AMO",32,21,<<\h7fff,\hfc00>>,<<\h300b,\h3000>>,1860,3,1057,0>>,
    <<"SW.UMIN","AMO","AMO",32,21,<<\h7fff,\hfc00>>,<<\h300b,\h3800>>,1863,3,1057,0>>,
    <<"SW.XOR","AMO","AMO",32,21,<<\h7fff,\hfc00>>,<<\h300b,\h1800>>,1866,3,1057,0>>,
    <<"SWAPB","AMO","AMO",32,14,<<\h707f,\h7800>>,<<\h600b,\h0>>,1869,6,1057,0>>,
    <<"SWAPD","AMO","AMO",32,14,<<\h707f,\h7800>>,<<\h600b,\h1800>>,1875,6,1057,0>>,
    <<"SWAPH","AMO","AMO",32,14,<<\h707f,\h7800>>,<<\h600b,\h800>>,1881,6,1057,0>> >>

kForms_61 ==
  <<
    <<"SWAPW","AMO","AMO",32,14,<<\h707f,\h7800>>,<<\h600b,\h1000>>,1887,6,1057,0>>,
    <<"SWI","STA/BASE_IMM","AGU",32,10,<<\h707f,\h0>>,<<\h2059,\h0>>,1893,3,1057,0>>,
    <<"SWI.U","STA/BASE_IMM","AGU",32,10,<<\h707f,\h0>>,<<\h6059,\h0>>,1896,3,1057,0>>,
    <<"SYNC.CORE","SYS","SYS",32,32,<<\hffff,\hffff>>,<<\ha02b,\h330>>,1899,0,1057,0>>,
    <<"TLB.IA","SYS","SYS",32,27,<<\h7fff,\hfff0>>,<<\h702b,\h0>>,1899,1,1057,0>>,
    <<"TLB.IALL","SYS","SYS",32,32,<<\hffff,\hffff>>,<<\h702b,\h30>>,1900,0,1057,0>>,
    <<"TLB.IAV","SYS","SYS",32,27,<<\h7fff,\hfff0>>,<<\h702b,\h20>>,1900,1,1057,0>>,
    <<"TLB.IV","SYS","SYS",32,27,<<\h7fff,\hfff0>>,<<\h702b,\h10>>,1901,1,1057,0>>,
    <<"UCVTF","FSU","FSU",32,15,<<\h707f,\h1f0>>,<<\h706b,\h0>>,1902,4,1057,28>>,
    <<"V.ADD","VEC","VEC",64,27,<<\h707f,\hfe00,\h707f,\h0>>,<<\h7f,\h0,\h5,\h0>>,1906,5,1085,0>> >>

kForms_62 ==
  <<
    <<"V.ADDI","VEC","VEC",64,32,<<\h707f,\hfff0,\h707f,\h0>>,<<\h7f,\h0,\h15,\h0>>,1911,3,1085,0>>,
    <<"V.AND","VEC","VEC",64,27,<<\h707f,\hfe00,\h707f,\h0>>,<<\h7f,\h0,\h2005,\h0>>,1914,5,1085,0>>,
    <<"V.ANDI","VEC","VEC",64,32,<<\h707f,\hfff0,\h707f,\h0>>,<<\h7f,\h0,\h2015,\h0>>,1919,3,1085,0>>,
    <<"V.BCNT","VEC","VEC",64,32,<<\h707f,\hfff0,\h707f,\h0>>,<<\h7f,\h0,\h6067,\h0>>,1922,4,1085,0>>,
    <<"V.BIC","VEC","VEC",64,32,<<\h707f,\hfff0,\h707f,\h0>>,<<\h7f,\h0,\h2067,\h0>>,1926,4,1085,0>>,
    <<"V.BIS","VEC","VEC",64,32,<<\h707f,\hfff0,\h707f,\h0>>,<<\h7f,\h0,\h3067,\h0>>,1930,4,1085,0>>,
    <<"V.BXS","VEC","VEC",64,32,<<\h707f,\hfff0,\h707f,\h0>>,<<\h7f,\h0,\h67,\h0>>,1934,4,1085,0>>,
    <<"V.BXU","VEC","VEC",64,32,<<\h707f,\hfff0,\h707f,\h0>>,<<\h7f,\h0,\h1067,\h0>>,1938,4,1085,0>>,
    <<"V.CLZ","VEC","VEC",64,32,<<\h707f,\hfff0,\h707f,\h0>>,<<\h7f,\h0,\h5067,\h0>>,1942,4,1085,0>>,
    <<"V.CMP.AND","VEC","VEC",64,34,<<\h707f,\hfe00,\h707f,\hfe00>>,<<\h7f,\h0,\h2045,\h0>>,1946,3,1085,0>> >>

kForms_63 ==
  <<

    <<"V.CMP.ANDI","VEC","VEC",64,32,<<\h707f,\hfff0,\h707f,\h0>>,<<\h7f,\h0,\h2055,\h0>>,1949,3,1085,0>>,
    <<"V.CMP.EQ","VEC","VEC",64,34,<<\h707f,\hfe00,\h707f,\hfe00>>,<<\h7f,\h0,\h45,\h0>>,1952,3,1085,0>>,
    <<"V.CMP.EQI","VEC","VEC",64,32,<<\h707f,\hfff0,\h707f,\h0>>,<<\h7f,\h0,\h55,\h0>>,1955,3,1085,0>>,
    <<"V.CMP.GE","VEC","VEC",64,34,<<\h707f,\hfe00,\h707f,\hfe00>>,<<\h7f,\h0,\h5045,\h0>>,1958,3,1085,0>>,
    <<"V.CMP.GEI","VEC","VEC",64,32,<<\h707f,\hfff0,\h707f,\h0>>,<<\h7f,\h0,\h5055,\h0>>,1961,3,1085,0>>,
    <<"V.CMP.GEU","VEC","VEC",64,34,<<\h707f,\hfe00,\h707f,\hfe00>>,<<\h7f,\h0,\h7045,\h0>>,1964,3,1085,0>>,
    <<"V.CMP.GEUI","VEC","VEC",64,32,<<\h707f,\hfff0,\h707f,\h0>>,<<\h7f,\h0,\h7055,\h0>>,1967,3,1085,0>>,
    <<"V.CMP.LT","VEC","VEC",64,34,<<\h707f,\hfe00,\h707f,\hfe00>>,<<\h7f,\h0,\h4045,\h0>>,1970,3,1085,0>>,
    <<"V.CMP.LTI","VEC","VEC",64,32,<<\h707f,\hfff0,\h707f,\h0>>,<<\h7f,\h0,\h4055,\h0>>,1973,3,1085,0>>,
    <<"V.CMP.LTU","VEC","VEC",64,34,<<\h707f,\hfe00,\h707f,\hfe00>>,<<\h7f,\h0,\h6045,\h0>>,1976,3,1085,0>> >>

kForms_64 ==
  <<

    <<"V.CMP.LTUI","VEC","VEC",64,32,<<\h707f,\hfff0,\h707f,\h0>>,<<\h7f,\h0,\h6055,\h0>>,1979,3,1085,0>>,
    <<"V.CMP.NE","VEC","VEC",64,34,<<\h707f,\hfe00,\h707f,\hfe00>>,<<\h7f,\h0,\h1045,\h0>>,1982,3,1085,0>>,
    <<"V.CMP.NEI","VEC","VEC",64,32,<<\h707f,\hfff0,\h707f,\h0>>,<<\h7f,\h0,\h1055,\h0>>,1985,3,1085,0>>,
    <<"V.CMP.OR","VEC","VEC",64,34,<<\h707f,\hfe00,\h707f,\hfe00>>,<<\h7f,\h0,\h3045,\h0>>,1988,3,1085,0>>,
    <<"V.CMP.ORI","VEC","VEC",64,32,<<\h707f,\hfff0,\h707f,\h0>>,<<\h7f,\h0,\h3055,\h0>>,1991,3,1085,0>>,
    <<"V.CSEL","VEC","VEC",64,22,<<\h707f,\h600,\h707f,\h0>>,<<\h7f,\h0,\h77,\h0>>,1994,5,1085,0>>,
    <<"V.CTZ","VEC","VEC",64,32,<<\h707f,\hfff0,\h707f,\h0>>,<<\h7f,\h0,\h4067,\h0>>,1999,4,1085,0>>,
    <<"V.DIV","VEC","VEC",64,34,<<\h707f,\hfe00,\h707f,\hfe00>>,<<\h7f,\h0,\h57,\h0>>,2003,3,1085,0>>,
    <<"V.FABS","VEC","VEC",64,44,<<\h707f,\hfff0,\h707f,\hfff0>>,<<\h7f,\h0,\h7b,\h0>>,2006,2,1085,0>>,
    <<"V.FADD","VEC","VEC",64,34,<<\h707f,\hfe00,\h707f,\hfe00>>,<<\h7f,\h0,\h4b,\h0>>,2008,3,1085,0>> >>

kForms_65 ==
  <<

    <<"V.FCLASS","VEC","VEC",64,44,<<\h707f,\hfff0,\h707f,\hfff0>>,<<\h7f,\h0,\h707b,\h0>>,2011,2,1085,0>>,
    <<"V.FCVT","VEC","VEC",64,34,<<\h707f,\hfff0,\h707f,\h600>>,<<\h7f,\h0,\h6b,\h0>>,2013,4,1085,0>>,
    <<"V.FCVTI","VEC","VEC",64,34,<<\h707f,\hfff0,\h707f,\h600>>,<<\h7f,\h0,\h106b,\h0>>,2017,4,1085,0>>,
    <<"V.FDIV","VEC","VEC",64,34,<<\h707f,\hfe00,\h707f,\hfe00>>,<<\h7f,\h0,\h304b,\h0>>,2021,3,1085,0>>,
    <<"V.FEQ","VEC","VEC",64,34,<<\h707f,\hfe00,\h707f,\hfe00>>,<<\h7f,\h0,\h5b,\h0>>,2024,3,1085,0>>,
    <<"V.FEQS","VEC","VEC",64,34,<<\h707f,\hfe00,\h707f,\hfe00>>,<<\h7f,\h0,\h405b,\h0>>,2027,3,1085,0>>,
    <<"V.FEXP","VEC","VEC",64,44,<<\h707f,\hfff0,\h707f,\hfff0>>,<<\h7f,\h0,\h307b,\h0>>,2030,2,1085,0>>,
    <<"V.FGE","VEC","VEC",64,34,<<\h707f,\hfe00,\h707f,\hfe00>>,<<\h7f,\h0,\h305b,\h0>>,2032,3,1085,0>>,
    <<"V.FGES","VEC","VEC",64,34,<<\h707f,\hfe00,\h707f,\hfe00>>,<<\h7f,\h0,\h705b,\h0>>,2035,3,1085,0>>,
    <<"V.FLT","VEC","VEC",64,34,<<\h707f,\hfe00,\h707f,\hfe00>>,<<\h7f,\h0,\h205b,\h0>>,2038,3,1085,0>> >>

kForms_66 ==
  <<

    <<"V.FLTS","VEC","VEC",64,34,<<\h707f,\hfe00,\h707f,\hfe00>>,<<\h7f,\h0,\h605b,\h0>>,2041,3,1085,0>>,
    <<"V.FMADD","VEC","VEC",64,24,<<\h707f,\h600,\h707f,\h600>>,<<\h7f,\h0,\h404b,\h0>>,2044,4,1085,0>>,
    <<"V.FMAX","VEC","VEC",64,34,<<\h707f,\hfe00,\h707f,\hfe00>>,<<\h107f,\h0,\h205b,\h0>>,2048,3,1085,0>>,
    <<"V.FMIN","VEC","VEC",64,34,<<\h707f,\hfe00,\h707f,\hfe00>>,<<\h107f,\h0,\h305b,\h0>>,2051,3,1085,0>>,
    <<"V.FMSUB","VEC","VEC",64,24,<<\h707f,\h600,\h707f,\h600>>,<<\h7f,\h0,\h504b,\h0>>,2054,4,1085,0>>,
    <<"V.FMUL","VEC","VEC",64,34,<<\h707f,\hfe00,\h707f,\hfe00>>,<<\h7f,\h0,\h204b,\h0>>,2058,3,1085,0>>,
    <<"V.FNE","VEC","VEC",64,34,<<\h707f,\hfe00,\h707f,\hfe00>>,<<\h7f,\h0,\h105b,\h0>>,2061,3,1085,0>>,
    <<"V.FNES","VEC","VEC",64,34,<<\h707f,\hfe00,\h707f,\hfe00>>,<<\h7f,\h0,\h505b,\h0>>,2064,3,1085,0>>,
    <<"V.FNMADD","VEC","VEC",64,24,<<\h707f,\h600,\h707f,\h600>>,<<\h7f,\h0,\h604b,\h0>>,2067,4,1085,0>>,
    <<"V.FNMSUB","VEC","VEC",64,24,<<\h707f,\h600,\h707f,\h600>>,<<\h7f,\h0,\h704b,\h0>>,2071,4,1085,0>> >>

kForms_67 ==
  <<

    <<"V.FRECIP","VEC","VEC",64,44,<<\h707f,\hfff0,\h707f,\hfff0>>,<<\h7f,\h0,\h207b,\h0>>,2075,2,1085,0>>,
    <<"V.FSQRT","VEC","VEC",64,44,<<\h707f,\hfff0,\h707f,\hfff0>>,<<\h7f,\h0,\h107b,\h0>>,2077,2,1085,0>>,
    <<"V.FSUB","VEC","VEC",64,34,<<\h707f,\hfe00,\h707f,\hfe00>>,<<\h7f,\h0,\h104b,\h0>>,2079,3,1085,0>>,
    <<"V.ICVT","VEC","VEC",64,34,<<\h707f,\hfff0,\h707f,\h600>>,<<\h7f,\h0,\h606b,\h0>>,2082,4,1085,0>>,
    <<"V.ICVTF","VEC","VEC",64,34,<<\h707f,\hfff0,\h707f,\h600>>,<<\h7f,\h0,\h706b,\h0>>,2086,4,1085,0>>,
    <<"V.LB","VEC","VEC",64,27,<<\h207f,\hfe00,\h707f,\h600>>,<<\h7f,\h0,\h9,\h0>>,2090,6,1085,0>>,
    <<"V.LB.BRG","VEC","VEC",64,27,<<\h207f,\hfe00,\h707f,\h600>>,<<\h207f,\h0,\h9,\h0>>,2096,6,1085,0>>,
    <<"V.LBI","VEC","VEC",64,18,<<\h207f,\h0,\h707f,\h0>>,<<\h7f,\h0,\h19,\h0>>,2102,5,1085,0>>,
    <<"V.LBI.BRG","VEC","VEC",64,18,<<\h207f,\h0,\h707f,\h0>>,<<\h207f,\h0,\h19,\h0>>,2107,5,1085,0>>,
    <<"V.LBU","VEC","VEC",64,27,<<\h207f,\hfe00,\h707f,\h600>>,<<\h7f,\h0,\h4009,\h0>>,2112,6,1085,0>> >>

kForms_68 ==
  <<

    <<"V.LBU.BRG","VEC","VEC",64,27,<<\h207f,\hfe00,\h707f,\h600>>,<<\h207f,\h0,\h4009,\h0>>,2118,6,1085,0>>,
    <<"V.LBUI","VEC","VEC",64,18,<<\h207f,\h0,\h707f,\h0>>,<<\h7f,\h0,\h4019,\h0>>,2124,5,1085,0>>,
    <<"V.LBUI.BRG","VEC","VEC",64,18,<<\h207f,\h0,\h707f,\h0>>,<<\h207f,\h0,\h4019,\h0>>,2129,5,1085,0>>,
    <<"V.LD","VEC","VEC",64,27,<<\h207f,\hfe00,\h707f,\h600>>,<<\h7f,\h0,\h3009,\h0>>,2134,6,1085,0>>,
    <<"V.LD.ADD","VEC","VEC",64,31,<<\h707f,\hfc00,\h707f,\hf800>>,<<\h207f,\h0,\hb,\h0>>,2140,6,1085,0>>,
    <<"V.LD.AND","VEC","VEC",64,31,<<\h707f,\hfc00,\h707f,\hf800>>,<<\h207f,\h0,\h100b,\h0>>,2146,6,1085,0>>,
    <<"V.LD.BRG","VEC","VEC",64,27,<<\h207f,\hfe00,\h707f,\h600>>,<<\h207f,\h0,\h3009,\h0>>,2152,6,1085,0>>,
    <<"V.LD.MAX","VEC","VEC",64,31,<<\h707f,\hfc00,\h707f,\hf800>>,<<\h207f,\h0,\h400b,\h0>>,2158,6,1085,0>>,
    <<"V.LD.MIN","VEC","VEC",64,31,<<\h707f,\hfc00,\h707f,\hf800>>,<<\h207f,\h0,\h500b,\h0>>,2164,6,1085,0>>,
    <<"V.LD.OR","VEC","VEC",64,31,<<\h707f,\hfc00,\h707f,\hf800>>,<<\h207f,\h0,\h200b,\h0>>,2170,6,1085,0>> >>

kForms_69 ==
  <<

    <<"V.LD.XOR","VEC","VEC",64,31,<<\h707f,\hfc00,\h707f,\hf800>>,<<\h207f,\h0,\h300b,\h0>>,2176,6,1085,0>>,
    <<"V.LDI","VEC","VEC",64,18,<<\h207f,\h0,\h707f,\h0>>,<<\h7f,\h0,\h3019,\h0>>,2182,5,1085,0>>,
    <<"V.LDI.BRG","VEC","VEC",64,18,<<\h207f,\h0,\h707f,\h0>>,<<\h207f,\h0,\h3019,\h0>>,2187,5,1085,0>>,
    <<"V.LDI.U","VEC","VEC",64,18,<<\h207f,\h0,\h707f,\h0>>,<<\h7f,\h0,\h3029,\h0>>,2192,5,1085,0>>,
    <<"V.LDI.U.BRG","VEC","VEC",64,18,<<\h207f,\h0,\h707f,\h0>>,<<\h207f,\h0,\h3029,\h0>>,2197,5,1085,0>>,
    <<"V.LH","VEC","VEC",64,27,<<\h207f,\hfe00,\h707f,\h600>>,<<\h7f,\h0,\h1009,\h0>>,2202,6,1085,0>>,
    <<"V.LH.BRG","VEC","VEC",64,27,<<\h207f,\hfe00,\h707f,\h600>>,<<\h207f,\h0,\h1009,\h0>>,2208,6,1085,0>>,
    <<"V.LHI","VEC","VEC",64,18,<<\h207f,\h0,\h707f,\h0>>,<<\h7f,\h0,\h1019,\h0>>,2214,5,1085,0>>,
    <<"V.LHI.BRG","VEC","VEC",64,18,<<\h207f,\h0,\h707f,\h0>>,<<\h207f,\h0,\h1019,\h0>>,2219,5,1085,0>>,
    <<"V.LHI.U","VEC","VEC",64,18,<<\h207f,\h0,\h707f,\h0>>,<<\h7f,\h0,\h1029,\h0>>,2224,5,1085,0>> >>

kForms_70 ==
  <<

    <<"V.LHI.U.BRG","VEC","VEC",64,18,<<\h207f,\h0,\h707f,\h0>>,<<\h207f,\h0,\h1029,\h0>>,2229,5,1085,0>>,
    <<"V.LHU","VEC","VEC",64,27,<<\h207f,\hfe00,\h707f,\h600>>,<<\h7f,\h0,\h5009,\h0>>,2234,6,1085,0>>,
    <<"V.LHU.BRG","VEC","VEC",64,27,<<\h207f,\hfe00,\h707f,\h600>>,<<\h207f,\h0,\h5009,\h0>>,2240,6,1085,0>>,
    <<"V.LHUI","VEC","VEC",64,18,<<\h207f,\h0,\h707f,\h0>>,<<\h7f,\h0,\h5019,\h0>>,2246,5,1085,0>>,
    <<"V.LHUI.BRG","VEC","VEC",64,18,<<\h207f,\h0,\h707f,\h0>>,<<\h207f,\h0,\h5019,\h0>>,2251,5,1085,0>>,
    <<"V.LHUI.U","VEC","VEC",64,18,<<\h207f,\h0,\h707f,\h0>>,<<\h7f,\h0,\h5029,\h0>>,2256,5,1085,0>>,
    <<"V.LHUI.U.BRG","VEC","VEC",64,18,<<\h207f,\h0,\h707f,\h0>>,<<\h207f,\h0,\h5029,\h0>>,2261,5,1085,0>>,
    <<"V.LW","VEC","VEC",64,27,<<\h207f,\hfe00,\h707f,\h600>>,<<\h7f,\h0,\h2009,\h0>>,2266,6,1085,0>>,
    <<"V.LW.ADD","VEC","VEC",64,31,<<\h707f,\hfc00,\h707f,\hf800>>,<<\h7f,\h0,\hb,\h0>>,2272,6,1085,0>>,
    <<"V.LW.AND","VEC","VEC",64,31,<<\h707f,\hfc00,\h707f,\hf800>>,<<\h7f,\h0,\h100b,\h0>>,2278,6,1085,0>> >>

kForms_71 ==
  <<

    <<"V.LW.BRG","VEC","VEC",64,27,<<\h207f,\hfe00,\h707f,\h600>>,<<\h207f,\h0,\h2009,\h0>>,2284,6,1085,0>>,
    <<"V.LW.MAX","VEC","VEC",64,31,<<\h707f,\hfc00,\h707f,\hf800>>,<<\h7f,\h0,\h400b,\h0>>,2290,6,1085,0>>,
    <<"V.LW.MIN","VEC","VEC",64,31,<<\h707f,\hfc00,\h707f,\hf800>>,<<\h7f,\h0,\h500b,\h0>>,2296,6,1085,0>>,
    <<"V.LW.OR","VEC","VEC",64,31,<<\h707f,\hfc00,\h707f,\hf800>>,<<\h7f,\h0,\h200b,\h0>>,2302,6,1085,0>>,
    <<"V.LW.XOR","VEC","VEC",64,31,<<\h707f,\hfc00,\h707f,\hf800>>,<<\h7f,\h0,\h300b,\h0>>,2308,6,1085,0>>,
    <<"V.LWI","VEC","VEC",64,18,<<\h207f,\h0,\h707f,\h0>>,<<\h7f,\h0,\h2019,\h0>>,2314,5,1085,0>>,
    <<"V.LWI.BRG","VEC","VEC",64,18,<<\h207f,\h0,\h707f,\h0>>,<<\h207f,\h0,\h2019,\h0>>,2319,5,1085,0>>,
    <<"V.LWI.U","VEC","VEC",64,18,<<\h207f,\h0,\h707f,\h0>>,<<\h7f,\h0,\h2029,\h0>>,2324,5,1085,0>>,
    <<"V.LWI.U.BRG","VEC","VEC",64,18,<<\h207f,\h0,\h707f,\h0>>,<<\h207f,\h0,\h2029,\h0>>,2329,5,1085,0>>,
    <<"V.LWU","VEC","VEC",64,27,<<\h207f,\hfe00,\h707f,\h600>>,<<\h7f,\h0,\h6009,\h0>>,2334,6,1085,0>> >>

kForms_72 ==
  <<

    <<"V.LWU.BRG","VEC","VEC",64,27,<<\h207f,\hfe00,\h707f,\h600>>,<<\h207f,\h0,\h6009,\h0>>,2340,6,1085,0>>,
    <<"V.LWUI","VEC","VEC",64,18,<<\h207f,\h0,\h707f,\h0>>,<<\h7f,\h0,\h6019,\h0>>,2346,5,1085,0>>,
    <<"V.LWUI.BRG","VEC","VEC",64,18,<<\h207f,\h0,\h707f,\h0>>,<<\h207f,\h0,\h6019,\h0>>,2351,5,1085,0>>,
    <<"V.LWUI.U","VEC","VEC",64,18,<<\h207f,\h0,\h707f,\h0>>,<<\h7f,\h0,\h6029,\h0>>,2356,5,1085,0>>,
    <<"V.LWUI.U.BRG","VEC","VEC",64,18,<<\h207f,\h0,\h707f,\h0>>,<<\h207f,\h0,\h6029,\h0>>,2361,5,1085,0>>,
    <<"V.MADD","VEC","VEC",64,24,<<\h707f,\h600,\h707f,\h600>>,<<\h7f,\h0,\h6047,\h0>>,2366,4,1085,0>>,
    <<"V.MAX","VEC","VEC",64,34,<<\h707f,\hfe00,\h707f,\hfe00>>,<<\h107f,\h0,\h5b,\h0>>,2370,3,1085,0>>,
    <<"V.MIN","VEC","VEC",64,34,<<\h707f,\hfe00,\h707f,\hfe00>>,<<\h107f,\h0,\h105b,\h0>>,2373,3,1085,0>>,
    <<"V.MUL","VEC","VEC",64,34,<<\h707f,\hfe00,\h707f,\hfe00>>,<<\h7f,\h0,\h47,\h0>>,2376,3,1085,0>>,
    <<"V.OR","VEC","VEC",64,27,<<\h707f,\hfe00,\h707f,\h0>>,<<\h7f,\h0,\h3005,\h0>>,2379,5,1085,0>> >>

kForms_73 ==
  <<

    <<"V.ORI","VEC","VEC",64,32,<<\h707f,\hfff0,\h707f,\h0>>,<<\h7f,\h0,\h3015,\h0>>,2384,3,1085,0>>,
    <<"V.PSEL","VEC","VEC",64,22,<<\h707f,\h600,\h707f,\h0>>,<<\h7f,\h0,\h1077,\h0>>,2387,5,1085,0>>,
    <<"V.QPOP","CMD","CMD",64,44,<<\h707f,\hfff0,\h707f,\hfff0>>,<<\h7f,\h0,\h207d,\h0>>,2392,2,1085,0>>,
    <<"V.QPUSH","CMD","CMD",64,34,<<\h707f,\hfe00,\h707f,\hfe00>>,<<\h7f,\h0,\h107d,\h0>>,2394,3,1085,0>>,
    <<"V.RDADD","VEC","VEC",64,44,<<\h707f,\hfff0,\h707f,\hfff0>>,<<\h7f,\h0,\hd,\h0>>,2397,2,1085,0>>,
    <<"V.RDAND","VEC","VEC",64,44,<<\h707f,\hfff0,\h707f,\hfff0>>,<<\h7f,\h0,\h100d,\h0>>,2399,2,1085,0>>,
    <<"V.RDFADD","VEC","VEC",64,44,<<\h707f,\hfff0,\h707f,\hfff0>>,<<\h7f,\h0,\h400d,\h0>>,2401,2,1085,0>>,
    <<"V.RDFMAX","VEC","VEC",64,44,<<\h707f,\hfff0,\h707f,\hfff0>>,<<\h107f,\h0,\h200d,\h0>>,2403,2,1085,0>>,
    <<"V.RDFMIN","VEC","VEC",64,44,<<\h707f,\hfff0,\h707f,\hfff0>>,<<\h107f,\h0,\h300d,\h0>>,2405,2,1085,0>>,
    <<"V.RDMAX","VEC","VEC",64,44,<<\h707f,\hfff0,\h707f,\hfff0>>,<<\h107f,\h0,\hd,\h0>>,2407,2,1085,0>> >>

kForms_74 ==
  <<

    <<"V.RDMIN","VEC","VEC",64,44,<<\h707f,\hfff0,\h707f,\hfff0>>,<<\h107f,\h0,\h100d,\h0>>,2409,2,1085,0>>,
    <<"V.RDOR","VEC","VEC",64,44,<<\h707f,\hfff0,\h707f,\hfff0>>,<<\h7f,\h0,\h200d,\h0>>,2411,2,1085,0>>,
    <<"V.RDXOR","VEC","VEC",64,44,<<\h707f,\hfff0,\h707f,\hfff0>>,<<\h7f,\h0,\h300d,\h0>>,2413,2,1085,0>>,
    <<"V.REM","VEC","VEC",64,34,<<\h707f,\hfe00,\h707f,\hfe00>>,<<\h7f,\h0,\h4057,\h0>>,2415,3,1085,0>>,
    <<"V.REV","VEC","VEC",64,32,<<\h707f,\hfff0,\h707f,\h0>>,<<\h7f,\h0,\h7067,\h0>>,2418,4,1085,0>>,
    <<"V.SB","VEC","VEC",64,27,<<\h207f,\h600,\h7fff,\h600>>,<<\h7f,\h0,\h49,\h0>>,2422,6,1085,0>>,
    <<"V.SB.BRG","VEC","VEC",64,27,<<\h207f,\h600,\h7fff,\h600>>,<<\h207f,\h0,\h49,\h0>>,2428,6,1085,0>>,
    <<"V.SBI","VEC","VEC",64,18,<<\h207f,\h0,\h707f,\h0>>,<<\h7f,\h0,\h59,\h0>>,2434,5,1085,0>>,
    <<"V.SBI.BRG","VEC","VEC",64,18,<<\h207f,\h0,\h707f,\h0>>,<<\h207f,\h0,\h59,\h0>>,2439,5,1085,0>>,
    <<"V.SD","VEC","VEC",64,27,<<\h207f,\h600,\h7fff,\h600>>,<<\h7f,\h0,\h3049,\h0>>,2444,6,1085,0>> >>

kForms_75 ==
  <<

    <<"V.SD.ADD","VEC","VEC",64,41,<<\h7fff,\hf800,\h7fff,\hfc00>>,<<\h307f,\h0,\hb,\h0>>,2450,5,1085,0>>,
    <<"V.SD.AND","VEC","VEC",64,41,<<\h7fff,\hf800,\h7fff,\hfc00>>,<<\h307f,\h0,\h100b,\h0>>,2455,5,1085,0>>,
    <<"V.SD.BRG","VEC","VEC",64,27,<<\h207f,\h600,\h7fff,\h600>>,<<\h207f,\h0,\h3049,\h0>>,2460,6,1085,0>>,
    <<"V.SD.MAX","VEC","VEC",64,41,<<\h7fff,\hf800,\h7fff,\hfc00>>,<<\h307f,\h0,\h400b,\h0>>,2466,5,1085,0>>,
    <<"V.SD.MIN","VEC","VEC",64,41,<<\h7fff,\hf800,\h7fff,\hfc00>>,<<\h307f,\h0,\h500b,\h0>>,2471,5,1085,0>>,
    <<"V.SD.OR","VEC","VEC",64,41,<<\h7fff,\hf800,\h7fff,\hfc00>>,<<\h307f,\h0,\h200b,\h0>>,2476,5,1085,0>>,
    <<"V.SD.U","VEC","VEC",64,27,<<\h207f,\h600,\h7fff,\h600>>,<<\h7f,\h0,\h7049,\h0>>,2481,6,1085,0>>,
    <<"V.SD.U.BRG","VEC","VEC",64,27,<<\h207f,\h600,\h7fff,\h600>>,<<\h207f,\h0,\h7049,\h0>>,2487,6,1085,0>>,
    <<"V.SD.XOR","VEC","VEC",64,41,<<\h7fff,\hf800,\h7fff,\hfc00>>,<<\h307f,\h0,\h300b,\h0>>,2493,5,1085,0>>,
    <<"V.SDI","VEC","VEC",64,18,<<\h207f,\h0,\h707f,\h0>>,<<\h7f,\h0,\h3059,\h0>>,2498,5,1085,0>> >>

kForms_76 ==
  <<

    <<"V.SDI.BRG","VEC","VEC",64,18,<<\h207f,\h0,\h707f,\h0>>,<<\h207f,\h0,\h3059,\h0>>,2503,5,1085,0>>,
    <<"V.SDI.U","VEC","VEC",64,18,<<\h207f,\h0,\h707f,\h0>>,<<\h7f,\h0,\h7059,\h0>>,2508,5,1085,0>>,
    <<"V.SDI.U.BRG","VEC","VEC",64,18,<<\h207f,\h0,\h707f,\h0>>,<<\h207f,\h0,\h7059,\h0>>,2513,5,1085,0>>,
    <<"V.SH","VEC","VEC",64,27,<<\h207f,\h600,\h7fff,\h600>>,<<\h7f,\h0,\h1049,\h0>>,2518,6,1085,0>>,
    <<"V.SH.BRG","VEC","VEC",64,27,<<\h207f,\h600,\h7fff,\h600>>,<<\h207f,\h0,\h1049,\h0>>,2524,6,1085,0>>,
    <<"V.SH.U","VEC","VEC",64,27,<<\h207f,\h600,\h7fff,\h600>>,<<\h7f,\h0,\h5049,\h0>>,2530,6,1085,0>>,
    <<"V.SH.U.BRG","VEC","VEC",64,27,<<\h207f,\h600,\h7fff,\h600>>,<<\h207f,\h0,\h5049,\h0>>,2536,6,1085,0>>,
    <<"V.SHFL.BFLY","VEC","VEC",64,34,<<\h707f,\h7f0,\h707f,\h7f0>>,<<\h7f,\h0,\h201d,\h0>>,2542,3,1085,0>>,
    <<"V.SHFL.DOWN","VEC","VEC",64,24,<<\h707f,\h600,\h707f,\h600>>,<<\h7f,\h0,\h101d,\h0>>,2545,4,1085,0>>,
    <<"V.SHFL.IDX","VEC","VEC",64,24,<<\h707f,\h600,\h707f,\h600>>,<<\h7f,\h0,\h301d,\h0>>,2549,4,1085,0>> >>

kForms_77 ==
  <<

    <<"V.SHFL.UP","VEC","VEC",64,24,<<\h707f,\h600,\h707f,\h600>>,<<\h7f,\h0,\h1d,\h0>>,2553,4,1085,0>>,
    <<"V.SHFLI.BFLY","VEC","VEC",64,30,<<\h707f,\h1f0,\h707f,\h1f0>>,<<\h7f,\h0,\h602d,\h0>>,2557,3,1085,0>>,
    <<"V.SHFLI.DOWN","VEC","VEC",64,20,<<\h707f,\h0,\h707f,\h0>>,<<\h7f,\h0,\h502d,\h0>>,2560,4,1085,0>>,
    <<"V.SHFLI.IDX","VEC","VEC",64,20,<<\h707f,\h0,\h707f,\h0>>,<<\h7f,\h0,\h702d,\h0>>,2564,4,1085,0>>,
    <<"V.SHFLI.UP","VEC","VEC",64,20,<<\h707f,\h0,\h707f,\h0>>,<<\h7f,\h0,\h402d,\h0>>,2568,4,1085,0>>,
    <<"V.SHI","VEC","VEC",64,18,<<\h207f,\h0,\h707f,\h0>>,<<\h7f,\h0,\h1059,\h0>>,2572,5,1085,0>>,
    <<"V.SHI.BRG","VEC","VEC",64,18,<<\h207f,\h0,\h707f,\h0>>,<<\h207f,\h0,\h1059,\h0>>,2577,5,1085,0>>,
    <<"V.SHI.U","VEC","VEC",64,18,<<\h207f,\h0,\h707f,\h0>>,<<\h7f,\h0,\h5059,\h0>>,2582,5,1085,0>>,
    <<"V.SHI.U.BRG","VEC","VEC",64,18,<<\h207f,\h0,\h707f,\h0>>,<<\h207f,\h0,\h5059,\h0>>,2587,5,1085,0>>,
    <<"V.SLL","VEC","VEC",64,34,<<\h707f,\hfe00,\h707f,\hfe00>>,<<\h7f,\h0,\h7005,\h0>>,2592,3,1085,0>> >>

kForms_78 ==
  <<

    <<"V.SLLI","VEC","VEC",64,38,<<\h707f,\hfff0,\h707f,\hfc00>>,<<\h7f,\h0,\h7015,\h0>>,2595,3,1085,0>>,
    <<"V.SRA","VEC","VEC",64,34,<<\h707f,\hfe00,\h707f,\hfe00>>,<<\h7f,\h0,\h6005,\h0>>,2598,3,1085,0>>,
    <<"V.SRAI","VEC","VEC",64,38,<<\h707f,\hfff0,\h707f,\hfc00>>,<<\h7f,\h0,\h6015,\h0>>,2601,3,1085,0>>,
    <<"V.SRL","VEC","VEC",64,34,<<\h707f,\hfe00,\h707f,\hfe00>>,<<\h7f,\h0,\h5005,\h0>>,2604,3,1085,0>>,
    <<"V.SRLI","VEC","VEC",64,38,<<\h707f,\hfff0,\h707f,\hfc00>>,<<\h7f,\h0,\h5015,\h0>>,2607,3,1085,0>>,
    <<"V.SUB","VEC","VEC",64,27,<<\h707f,\hfe00,\h707f,\h0>>,<<\h7f,\h0,\h1005,\h0>>,2610,5,1085,0>>,
    <<"V.SUBI","VEC","VEC",64,32,<<\h707f,\hfff0,\h707f,\h0>>,<<\h7f,\h0,\h1015,\h0>>,2615,3,1085,0>>,
    <<"V.SW","VEC","VEC",64,27,<<\h207f,\h600,\h7fff,\h600>>,<<\h7f,\h0,\h2049,\h0>>,2618,6,1085,0>>,
    <<"V.SW.ADD","VEC","VEC",64,41,<<\h7fff,\hf800,\h7fff,\hfc00>>,<<\h107f,\h0,\hb,\h0>>,2624,5,1085,0>>,
    <<"V.SW.AND","VEC","VEC",64,41,<<\h7fff,\hf800,\h7fff,\hfc00>>,<<\h107f,\h0,\h100b,\h0>>,2629,5,1085,0>> >>

kForms_79 ==
  <<

    <<"V.SW.BRG","VEC","VEC",64,27,<<\h207f,\h600,\h7fff,\h600>>,<<\h207f,\h0,\h2049,\h0>>,2634,6,1085,0>>,
    <<"V.SW.MAX","VEC","VEC",64,41,<<\h7fff,\hf800,\h7fff,\hfc00>>,<<\h107f,\h0,\h400b,\h0>>,2640,5,1085,0>>,
    <<"V.SW.MIN","VEC","VEC",64,41,<<\h7fff,\hf800,\h7fff,\hfc00>>,<<\h107f,\h0,\h500b,\h0>>,2645,5,1085,0>>,
    <<"V.SW.OR","VEC","VEC",64,41,<<\h7fff,\hf800,\h7fff,\hfc00>>,<<\h107f,\h0,\h200b,\h0>>,2650,5,1085,0>>,
    <<"V.SW.U","VEC","VEC",64,27,<<\h207f,\h600,\h7fff,\h600>>,<<\h7f,\h0,\h6049,\h0>>,2655,6,1085,0>>,
    <<"V.SW.U.BRG","VEC","VEC",64,27,<<\h207f,\h600,\h7fff,\h600>>,<<\h207f,\h0,\h6049,\h0>>,2661,6,1085,0>>,
    <<"V.SW.XOR","VEC","VEC",64,41,<<\h7fff,\hf800,\h7fff,\hfc00>>,<<\h107f,\h0,\h300b,\h0>>,2667,5,1085,0>>,
    <<"V.SWI","VEC","VEC",64,18,<<\h207f,\h0,\h707f,\h0>>,<<\h7f,\h0,\h2059,\h0>>,2672,5,1085,0>>,
    <<"V.SWI.BRG","VEC","VEC",64,18,<<\h207f,\h0,\h707f,\h0>>,<<\h207f,\h0,\h2059,\h0>>,2677,5,1085,0>>,
    <<"V.SWI.U","VEC","VEC",64,18,<<\h207f,\h0,\h707f,\h0>>,<<\h7f,\h0,\h6059,\h0>>,2682,5,1085,0>> >>

kForms_80 ==
  <<

    <<"V.SWI.U.BRG","VEC","VEC",64,18,<<\h207f,\h0,\h707f,\h0>>,<<\h207f,\h0,\h6059,\h0>>,2687,5,1085,0>>,
    <<"V.XOR","VEC","VEC",64,27,<<\h707f,\hfe00,\h707f,\h0>>,<<\h7f,\h0,\h4005,\h0>>,2692,5,1085,0>>,
    <<"V.XORI","VEC","VEC",64,32,<<\h707f,\hfff0,\h707f,\h0>>,<<\h7f,\h0,\h4015,\h0>>,2697,3,1085,0>>,
    <<"XB","CMD","CMD",32,15,<<\h7fff,\h0>>,<<\h6f81,\h0>>,2700,2,1085,0>>,
    <<"XOR","ALU","ALU",32,10,<<\h707f,\h0>>,<<\h4005,\h0>>,2702,5,1085,0>>,
    <<"XORI","ALU","ALU",32,10,<<\h707f,\h0>>,<<\h4015,\h0>>,2707,3,1085,0>>,
    <<"XORIW","ALU","ALU",32,10,<<\h707f,\h0>>,<<\h4035,\h0>>,2710,3,1085,0>>,
    <<"XORW","ALU","ALU",32,10,<<\h707f,\h0>>,<<\h4025,\h0>>,2713,5,1085,0>> >>

kForms ==
  kForms_1 \o kForms_2 \o kForms_3 \o kForms_4 \o kForms_5 \o kForms_6 \o kForms_7 \o kForms_8 \o
  kForms_9 \o kForms_10 \o kForms_11 \o kForms_12 \o kForms_13 \o kForms_14 \o kForms_15 \o
  kForms_16 \o kForms_17 \o kForms_18 \o kForms_19 \o kForms_20 \o kForms_21 \o kForms_22 \o
  kForms_23 \o kForms_24 \o kForms_25 \o kForms_26 \o kForms_27 \o kForms_28 \o kForms_29 \o
  kForms_30 \o kForms_31 \o kForms_32 \o kForms_33 \o kForms_34 \o kForms_35 \o kForms_36 \o
  kForms_37 \o kForms_38 \o kForms_39 \o kForms_40 \o kForms_41 \o kForms_42 \o kForms_43 \o
  kForms_44 \o kForms_45 \o kForms_46 \o kForms_47 \o kForms_48 \o kForms_49 \o kForms_50 \o
  kForms_51 \o kForms_52 \o kForms_53 \o kForms_54 \o kForms_55 \o kForms_56 \o kForms_57 \o
  kForms_58 \o kForms_59 \o kForms_60 \o kForms_61 \o kForms_62 \o kForms_63 \o kForms_64 \o
  kForms_65 \o kForms_66 \o kForms_67 \o kForms_68 \o kForms_69 \o kForms_70 \o kForms_71 \o
  kForms_72 \o kForms_73 \o kForms_74 \o kForms_75 \o kForms_76 \o kForms_77 \o kForms_78 \o
  kForms_79 \o kForms_80
-----------------------------------------------------------------------------
(***************************************************************************)
(* The rows as the records of Codec: PiecesFor, FieldsFor, ConstraintsFor    *)
(* cut their part out of the table below their own.                         *)
(***************************************************************************)
BitsOf(parts) ==
  UNION { { 16 * (i - 1) + b : b \in { k \in 0..15 : (parts[i] \div 2 ^ k) % 2 = 1 } }
          : i \in 1..Len(parts) }

PieceOf(row) == [insn_lsb |-> row[1], width |-> row[2], value_lsb |-> row[3]]

FieldOf(row) ==
  [name |-> row[1], signed |-> row[2] > 0, width |-> row[3],
   pieces |-> { PieceOf(kFieldPieces[row[4] + i]) : i \in 1..row[5] }]

ConstraintOf(row) == [field |-> row[1], op |-> row[2], value |-> row[3]]

FormOf(row) ==
  [mnemonic |-> row[1], group |-> row[2], big_kind |-> row[3],
   length |-> row[4], fixed_bits |-> row[5], mask |-> BitsOf(row[6]), match |-> BitsOf(row[7]),
   fields      |-> [i \in 1..row[9] |-> FieldOf(kFields[row[8] + i])],
   constraints |-> [i \in 1..row[11] |-> ConstraintOf(kConstraints[row[10] + i])]]

AllMinstForms == { FormOf(kForms[i]) : i \in 1..Len(kForms) }
=============================================================================

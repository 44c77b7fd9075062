----------------------------- MODULE MCPrograms -----------------------------
(***************************************************************************)
(* A small instruction set and programs over it, for TLC: cells are five     *)
(* bits wide, words six, there are two registers, and the finisher is at     *)
(* address 7.                                                               *)
(***************************************************************************)
EXTENDS Integers, Sequences

Instr(op, len, dsts, srcs, imm) ==
  [op |-> op, len |-> len, dsts |-> dsts, srcs |-> srcs, imm |-> imm]

MCDecoder ==
  [v \in 0..31 |->
    CASE v = 1  -> Instr("C.BSTART.STD", 1, << >>, << >>, 0)
      [] v = 2  -> Instr("C.BSTART.DIRECT", 1, << >>, << >>, 0)
      [] v = 3  -> Instr("C.BSTART.COND", 1, << >>, << >>, -1)
      [] v = 4  -> Instr("C.BSTOP", 1, << >>, << >>, 0)
      [] v = 5  -> Instr("MOVI", 1, <<1>>, << >>, 7)          \* r1 := the finisher
      [] v = 6  -> Instr("MOVI", 1, <<31>>, << >>, -1)        \* push 63 to T
      [] v = 7  -> Instr("ADDI", 1, <<2>>, <<24>>, 3)         \* r2 := T#1 + 3
      [] v = 8  -> Instr("C.MOVR", 1, <<30>>, <<1>>, 0)       \* push r1 to U
      [] v = 9  -> Instr("LWI", 1, <<2>>, <<28>>, 3)          \* r2 := [U#1 + 3]
      [] v = 10 -> Instr("SWI", 1, << >>, <<2, 1>>, 0)        \* [r1] := r2
      [] v = 11 -> Instr("SETC.NE", 1, << >>, <<1, 0>>, 0)
      [] v = 12 -> Instr("SETC.LTU", 1, << >>, <<2, 1>>, 0)
      [] v = 13 -> Instr("MCOPY", 1, << >>, <<1, 0, 1>>, 0)
      [] v = 14 -> Instr("MSET", 1, << >>, <<2, 24, 1>>, 0)
      [] v = 15 -> Instr("SSRSET", 1, << >>, <<2>>, 0)
      [] v = 16 -> Instr("C.BSTART.VPAR", 1, << >>, << >>, 0)
      [] v = 17 -> Instr("C.BSTART.VSEQ", 1, << >>, << >>, 0)
      [] v = 18 -> Instr("cube", 2, << >>, << >>, 0)
      [] v = 19 -> Instr("B.TEXT", 2, << >>, << >>, 0)
      [] v = 20 -> Instr("CASB", 1, << >>, << >>, 0)          \* not implemented
      [] OTHER  -> Instr("undecodable", 1, << >>, << >>, 0)]

Image(entry, code) ==
  [entry_point |-> entry, memory |-> [a \in 0..(Len(code) - 1) |-> code[a + 1]]]

\* Every program of n cells, followed by two cells of data that are also code.
MCShort(n) == { Image(0, code \o <<17, 4>>) : code \in [1..n -> 1..20] }

MCLoop    == Image(0, <<5, 11, 3, 4>>)               \* for ever, conditionally
MCFails   == Image(1, <<4, 6, 5, 7, 10>>)            \* reports a failure of code 0
MCResets  == Image(0, <<9, 5, 10, 11>>)              \* reports a reset of code 2
MCRewrite == Image(0, <<2, 5, 7, 14, 4, 10>>)        \* fills cells 3..9, its own code too
MCPending == Image(0, <<5, 11, 16, 3, 18, 4, 3, 4>>) \* two blocks, one SETC
MCLong    == {MCLoop, MCFails, MCResets, MCRewrite, MCPending}
=============================================================================

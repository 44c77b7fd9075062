----------------------------- MODULE MCExecutor -----------------------------
(***************************************************************************)
(* Executor for TLC: every program of three cells, and some longer ones,     *)
(* under every order of steps, resets and loads.                             *)
(***************************************************************************)
EXTENDS Executor, MCPrograms

MCImages  == MCShort(3) \cup MCLong
MCReloads == {MCLoop}
MCStops   == {None, 2}
=============================================================================

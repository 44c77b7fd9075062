--------------------------- MODULE CompareHarness ---------------------------
(***************************************************************************)
(* CompareHarness (src/emulator/compare.cpp): pairs of records are pushed    *)
(* until two of them differ; the windows keep the last of each side.         *)
(***************************************************************************)
EXTENDS Naturals, Sequences

VARIABLES
  ref_window, ca_window,
  mismatch               \* the windows at the first difference, or << >>

harness == <<ref_window, ca_window, mismatch>>

Init == ref_window = << >> /\ ca_window = << >> /\ mismatch = << >>

\* Mutant: one record more than the window holds.
LastOnesLate(s, size) ==
  IF Len(s) > size + 1 THEN SubSeq(s, Len(s) - size, Len(s)) ELSE s

LastOnes(s, size) ==
  IF Len(s) > size THEN SubSeq(s, Len(s) - size + 1, Len(s)) ELSE s

(***************************************************************************)
(* Push(): both windows, of --compare-window records at most, move; then the *)
(* pair is compared.  It returns true if mismatch' is still empty.           *)
(***************************************************************************)
Push(ref, ca, size) ==
  IF mismatch # << >> THEN UNCHANGED harness
  ELSE /\ ref_window' = LastOnes(Append(ref_window, ref), size)
       /\ ca_window'  = LastOnes(Append(ca_window, ca), size)
       /\ mismatch' = IF ref = ca THEN << >> ELSE <<ref_window', ca_window'>>
=============================================================================

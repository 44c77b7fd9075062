---------------------------- MODULE AddressSpace ----------------------------
(***************************************************************************)
(* std::uint64_t as the loader, the listing and the memory of the executor   *)
(* use it for addresses, offsets and sizes: every sum wraps.                 *)
(***************************************************************************)
EXTENDS Integers

CONSTANT Word    \* how many values a std::uint64_t has, 2^64 in the code

ASSUME WordAssumption == Word \in Nat \ {0}

Words   == 0..(Word - 1)
Wrap(n) == n % Word
=============================================================================

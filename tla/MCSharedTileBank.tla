-------------------------- MODULE MCSharedTileBank --------------------------
(***************************************************************************)
(* SharedTileBank for TLC: registers of two lanes, a register number out of  *)
(* range, size codes on both sides of each bound (0 and 1, 12 and 13) and 2,  *)
(* and descriptors on both sides of every bound of DescriptorValid.          *)
(***************************************************************************)
EXTENDS SharedTileBank

Descriptor(dtype, rows, cols, valid) ==
  [dtype |-> dtype, rows |-> rows, cols |-> cols, valid_rows |-> valid, valid_cols |-> valid]

MCDescriptors == { Descriptor(1, 16, 16, 16),    \* fills 128 bytes
                   Descriptor(2, 16, 16, 16),
                   Descriptor(1, 32, 16, 16),    \* needs 256 bytes
                   Descriptor(1, 1024, 512, 16),  \* needs 262144 bytes
                  Descriptor(1, 8, 8, 9) }      \* more valid than there are
MCPayloads == { [size |-> 128, bytes |-> "x"], [size |-> 128, bytes |-> "y"],
                [size |-> 256, bytes |-> "x"], [size |-> 262144, bytes |-> "x"] }
=============================================================================

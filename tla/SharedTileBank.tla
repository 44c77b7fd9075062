--------------------------- MODULE SharedTileBank ---------------------------
(***************************************************************************)
(* The Shared tile registers of one core: SharedTileBank and its free        *)
(* functions (src/emulator/shared_tile.cpp, include/linx/model/emulator/    *)
(* state.hpp).                                                              *)
(*                                                                          *)
(* A PE mask is the set of the PEs whose bits are set; PeMaskBit numbers     *)
(* PE 0 as the most significant bit, and a bit that belongs to no PE is the  *)
(* element PeCount.  A payload is its length and an opaque content.         *)
(***************************************************************************)
EXTENDS Naturals, FiniteSets

CONSTANTS
  PeCount,       \* kLinxCorePeCount, 4 in the code
  SharedCount,   \* kLinxSharedTileCount, 64 in the code
  Ids,           \* register numbers passed to Write
  SizeCodes,     \* size codes passed to Write
  Descriptors, Payloads       \* what is written

PEs   == 0..(PeCount - 1)
Masks == SUBSET (0..PeCount)

ASSUME CountsAssumption == PeCount \in Nat \ {0} /\ SharedCount \in Nat \ {0}
ASSUME ArgumentsAssumption ==
  /\ Ids \subseteq Nat
  /\ SizeCodes \subseteq Nat
  /\ Descriptors \subseteq [dtype : Nat, rows : Nat, cols : Nat,
                            valid_rows : Nat, valid_cols : Nat]
  /\ \A p \in Payloads : p.size \in Nat

VARIABLES versions,   \* versions_
          status      \* what the last Write returned

vars == <<versions, status>>

Registers == 0..(SharedCount - 1)

(***************************************************************************)
(* A lane nobody wrote since Reset: the default descriptor, no bytes.        *)
(***************************************************************************)
Unwritten ==
  [ descriptor |-> [dtype |-> 0, rows |-> 0, cols |-> 0, valid_rows |-> 0, valid_cols |-> 0],
    data |-> [size |-> 0] ]

NewVersion ==
  [ lanes |-> [pe \in PEs |-> Unwritten],
    per_pe_capacity |-> 0, allocated_bytes |-> 0, dtype |-> 0,
    allocation_mask |-> {}, initialized_mask |-> {} ]

Init ==
  /\ versions = [id \in Registers |-> NewVersion]
  /\ status = "None"

-----------------------------------------------------------------------------
CodeValid(code)     == code \in 1..12
CapacityBytes(code) == 128 * 2 ^ (code - 1)

\* Mutant: no bound on the number of elements.
DescriptorUnbounded(d, capacity) ==
  /\ d.rows > 0 /\ d.cols > 0
  /\ d.valid_rows <= d.rows /\ d.valid_cols <= d.cols

(***************************************************************************)
(* At least one element, none of them invalid, at most two to the byte.      *)
(***************************************************************************)
DescriptorValid(d, capacity) ==
  /\ d.rows > 0 /\ d.cols > 0
  /\ d.valid_rows <= d.rows /\ d.valid_cols <= d.cols
  /\ d.rows * d.cols <= capacity * 2

(***************************************************************************)
(* The preflight of one selected PE.                                        *)
(***************************************************************************)
\* Mutant: the register is compared, the lane's own descriptor is not.
DriftsByRegister(v, pe, capacity, d) ==
  /\ v.allocation_mask # {}
  /\ v.per_pe_capacity # capacity \/ v.dtype # d.dtype

Drifts(v, pe, capacity, d) ==
  \/ /\ v.allocation_mask # {}
     /\ v.per_pe_capacity # capacity \/ v.dtype # d.dtype
  \/ pe \in v.initialized_mask /\ v.lanes[pe].descriptor # d

LaneVerdict(v, pe, capacity, d, p) ==
  IF ~DescriptorValid(d, capacity)   THEN "InvalidDescriptor"
  ELSE IF p.size # capacity          THEN "PayloadSizeMismatch"
  ELSE IF Drifts(v, pe, capacity, d) THEN "DescriptorMismatch"
  ELSE "Applied"

(***************************************************************************)
(* The first selected PE that fails decides for all of them.                 *)
(***************************************************************************)
Preflight(v, mask, capacity, ds, ps) ==
  LET Lane(pe) == LaneVerdict(v, pe, capacity, ds[pe], ps[pe])
      failing  == { pe \in mask : Lane(pe) # "Applied" }
  IN  IF failing = {} THEN "Applied"
      ELSE Lane(CHOOSE pe \in failing : \A other \in failing : pe <= other)

Expands(v, mask) == v.allocation_mask # {} /\ ~(mask \subseteq v.allocation_mask)

\* Mutant: a later write must select every allocated lane.
VerdictWholeOnly(id, mask, code, ds, ps) ==
  IF id \notin Registers           THEN "InvalidRegister"
  ELSE IF ~(mask \subseteq PEs)    THEN "InvalidMask"
  ELSE IF mask = {}                THEN "Noop"
  ELSE IF ~CodeValid(code)         THEN "InvalidSize"
  ELSE IF versions[id].allocation_mask \notin {{}, mask} THEN "AllocationExpansion"
  ELSE Preflight(versions[id], mask, CapacityBytes(code), ds, ps)

(***************************************************************************)
(* What Write returns; the order is that of its early returns.               *)
(***************************************************************************)
Verdict(id, mask, code, ds, ps) ==
  IF id \notin Registers           THEN "InvalidRegister"
  ELSE IF ~(mask \subseteq PEs)    THEN "InvalidMask"
  ELSE IF mask = {}                THEN "Noop"
  ELSE IF ~CodeValid(code)         THEN "InvalidSize"
  ELSE IF Expands(versions[id], mask) THEN "AllocationExpansion"
  ELSE Preflight(versions[id], mask, CapacityBytes(code), ds, ps)

(***************************************************************************)
(* The first write of a register allocates it, with the dtype of the first   *)
(* PE it selects.                                                           *)
(***************************************************************************)
Allocated(v, mask, capacity, ds) ==
  IF v.allocation_mask # {} THEN v
  ELSE LET first == CHOOSE pe \in mask : \A other \in mask : pe <= other
       IN  [ v EXCEPT !.allocation_mask = mask,
                      !.per_pe_capacity = capacity,
                      !.allocated_bytes = capacity * Cardinality(mask),
                      !.dtype = ds[first].dtype ]

\* Mutant: every lane counts as written.
StoredEverywhere(v, mask, ds, ps) ==
  [ v EXCEPT
      !.lanes = [pe \in PEs |->
                   IF pe \in mask THEN [descriptor |-> ds[pe], data |-> ps[pe]]
                                  ELSE v.lanes[pe]],
      !.initialized_mask = PEs ]

Stored(v, mask, ds, ps) ==
  [ v EXCEPT
      !.lanes = [pe \in PEs |->
                   IF pe \in mask THEN [descriptor |-> ds[pe], data |-> ps[pe]]
                                  ELSE v.lanes[pe]],
      !.initialized_mask = @ \cup mask ]

(***************************************************************************)
(* Write(): both overloads, ds and ps giving the arguments of the selected   *)
(* PEs; the one-descriptor overload fills ds with one value.                 *)
(***************************************************************************)
Write(id, mask, code, ds, ps) ==
  LET capacity == CapacityBytes(code)
  IN  /\ status' = Verdict(id, mask, code, ds, ps)
      /\ versions' =
           IF status' = "Applied"
             THEN [versions EXCEPT ![id] =
                     Stored(Allocated(@, mask, capacity, ds), mask, ds, ps)]
             ELSE versions

Reset ==
  /\ versions' = [id \in Registers |-> NewVersion]
  /\ status' = "None"

Next ==
  \/ Reset
  \/ \E id \in Ids, mask \in Masks, code \in SizeCodes :
       \E ds \in [mask \cap PEs -> Descriptors], ps \in [mask \cap PEs -> Payloads] :
         Write(id, mask, code, ds, ps)

Spec == Init /\ [][Next]_vars

-----------------------------------------------------------------------------
(***************************************************************************)
(* Read(): the lane, if the register exists and the lane was written.        *)
(***************************************************************************)
Readable(id, pe) ==
  id \in Registers /\ pe \in PEs /\ pe \in versions[id].initialized_mask
Read(id, pe) == versions[id].lanes[pe]

-----------------------------------------------------------------------------
(***************************************************************************)
(* Properties.                                                              *)
(***************************************************************************)
Statuses == { "None", "Applied", "Noop", "InvalidRegister", "InvalidMask", "InvalidSize",
              "InvalidDescriptor", "PayloadSizeMismatch", "AllocationExpansion",
              "DescriptorMismatch" }

(* Types; what a lane holds once written is a descriptor and a payload.      *)
TypeOK ==
  /\ status \in Statuses
  /\ DOMAIN versions = Registers
  /\ \A id \in Registers :
       LET v == versions[id]
       IN  /\ v.per_pe_capacity \in Nat /\ v.allocated_bytes \in Nat /\ v.dtype \in Nat
           /\ v.allocation_mask \subseteq PEs /\ v.initialized_mask \subseteq PEs
           /\ \A pe \in v.initialized_mask :
                Read(id, pe) \in [descriptor : Descriptors, data : Payloads]

(* The numbers of a register describe its lanes, whatever writes succeeded   *)
(* or failed before: the readable lanes are the allocated ones, each has     *)
(* exactly the register's capacity, its elements fit, the total is the sum.  *)
LanesFitAllocation ==
  \A id \in Registers :
    LET v == versions[id]
    IN  /\ v.initialized_mask = v.allocation_mask
        /\ v.allocated_bytes = v.per_pe_capacity * Cardinality(v.allocation_mask)
        /\ \A pe \in v.initialized_mask :
             LET d == Read(id, pe).descriptor
             IN  /\ Read(id, pe).data.size = v.per_pe_capacity
                 /\ 0 < d.rows * d.cols /\ d.rows * d.cols <= 2 * v.per_pe_capacity

(* The bank implements the store of docs/isa.md 65-68: writes are atomic     *)
(* across lanes, failures leave no trace, and no allocation, capacity or     *)
(* descriptor drifts.                                                       *)
Store == INSTANCE TileStore WITH
           Ids   <- Registers,
           Lanes <- PEs,
           alloc <- [id \in Registers |-> versions[id].allocation_mask],
           size  <- [id \in Registers |-> versions[id].per_pe_capacity],
           held  <- [id \in Registers |->
                       [pe \in { l \in PEs : Readable(id, l) } |-> Read(id, pe)]]
ImplementsStore == Store!Spec

(***************************************************************************)
(* Writing lanes of a register again as they are.                           *)
(***************************************************************************)
Rewrite(id, mask) ==
  \E code \in SizeCodes :
    Verdict(id, mask, code, [pe \in mask |-> Read(id, pe).descriptor],
                            [pe \in mask |-> Read(id, pe).data]) = "Applied"

(* Any nonempty subset of the written lanes can be written again with the    *)
(* same descriptors, provided their dtypes are the register's: no success or  *)
(* failure locks a lane.                                                     *)
LanesStayWritable ==
  \A id \in Registers :
    \A mask \in (SUBSET versions[id].initialized_mask) \ {{}} :
      (\A pe \in mask : Read(id, pe).descriptor.dtype = versions[id].dtype)
        => Rewrite(id, mask)

(* docs/isa.md 66-67, "later subset writes are legal", without the proviso.  *)
SubsetWritesLegal ==
  \A id \in Registers :
    \A mask \in (SUBSET versions[id].initialized_mask) \ {{}} : Rewrite(id, mask)
=============================================================================

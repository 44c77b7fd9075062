------------------------ MODULE SharedTileBankProofs ------------------------
(***************************************************************************)
(* What TLAPS proves of SharedTileBank, for every number of PEs and of       *)
(* registers and for all descriptors and payloads.                          *)
(***************************************************************************)
EXTENDS SharedTileBank, FiniteSetTheorems, WellFoundedInduction, TLAPS

(* A nonempty set of naturals has a least element: the first failing PE.     *)
LEMMA LeastNatural ==
  ASSUME NEW T \in SUBSET Nat, T # {}
  PROVE  \E m \in T : \A n \in T : m <= n
<1> DEFINE R == OpToRel(<, Nat)
<1>1. \E m \in T : \A n \in T : ~ (<<n, m>> \in R)
  BY NatLessThanWellFounded, WFMin
<1>2. \A m, n \in Nat : ~ (<<n, m>> \in R) => m <= n
  BY DEF OpToRel
<1>3. QED BY <1>1, <1>2

(* The two invariants are inductive together.                                *)
IInv == TypeOK /\ LanesFitAllocation

(* The facts a write may rely on once Write returned Applied.                *)
WriteChecked(id, mask, capacity, ds, ps) ==
  /\ id \in Registers /\ mask \subseteq PEs /\ mask # {}
  /\ ~Expands(versions[id], mask)
  /\ \A pe \in mask : /\ DescriptorValid(ds[pe], capacity)
                      /\ ps[pe].size = capacity
                      /\ ~Drifts(versions[id], pe, capacity, ds[pe])

(* The preflight of Write establishes them for every selected PE.            *)
LEMMA AppliedMeansChecked ==
  ASSUME NEW id, NEW mask, NEW code, NEW ds, NEW ps,
         Verdict(id, mask, code, ds, ps) = "Applied"
  PROVE  WriteChecked(id, mask, CapacityBytes(code), ds, ps)
<1> DEFINE c == CapacityBytes(code)
           v == versions[id]
           Lane(pe) == LaneVerdict(v, pe, c, ds[pe], ps[pe])
           failing == { pe \in mask : Lane(pe) # "Applied" }
<1>1. /\ id \in Registers /\ mask \subseteq PEs /\ mask # {}
      /\ ~Expands(v, mask)
      /\ Preflight(v, mask, c, ds, ps) = "Applied"
  BY DEF Verdict
<1>2. failing = {}
  <2>1. CASE failing # {}
    <3> DEFINE first == CHOOSE pe \in failing : \A other \in failing : pe <= other
    <3>1. Lane(first) = "Applied"
      BY <1>1, <2>1 DEF Preflight
    <3>2. first \in failing
      <4>1. failing \in SUBSET Nat
        <5>1. PEs \subseteq Nat
          BY CountsAssumption DEF PEs
        <5>2. QED BY <1>1, <5>1
      <4>2. \E pe \in failing : \A other \in failing : pe <= other
        BY <2>1, <4>1, LeastNatural
      <4>3. QED BY <4>2
    <3>3. QED BY <3>1, <3>2
  <2>2. QED BY <2>1
<1>3. \A pe \in mask : Lane(pe) = "Applied"
  BY <1>2
<1>4. ASSUME NEW pe \in mask
      PROVE  /\ DescriptorValid(ds[pe], c) /\ ps[pe].size = c
             /\ ~Drifts(v, pe, c, ds[pe])
  BY <1>3 DEF LaneVerdict
<1>5. QED BY <1>1, <1>4 DEF WriteChecked

(* One register as the invariants see it.                                    *)
VersionOK(v) ==
  /\ v.per_pe_capacity \in Nat /\ v.allocated_bytes \in Nat /\ v.dtype \in Nat
  /\ v.allocation_mask \subseteq PEs
  /\ v.initialized_mask = v.allocation_mask
  /\ v.allocated_bytes = v.per_pe_capacity * Cardinality(v.allocation_mask)
  /\ \A pe \in v.initialized_mask :
       LET lane == v.lanes[pe]
       IN  /\ lane \in [descriptor : Descriptors, data : Payloads]
           /\ lane.data.size = v.per_pe_capacity
           /\ 0 < lane.descriptor.rows * lane.descriptor.cols
           /\ lane.descriptor.rows * lane.descriptor.cols <= 2 * v.per_pe_capacity

(* The invariants say no more than that of each register.                    *)
LEMMA IInvByRegister ==
  IInv <=> /\ status \in Statuses /\ DOMAIN versions = Registers
           /\ \A id \in Registers : VersionOK(versions[id])
  BY DEF IInv, TypeOK, LanesFitAllocation, VersionOK, Read

(* A register nobody wrote.                                                  *)
LEMMA NewVersionOK == VersionOK(NewVersion)
<1>1. Cardinality({}) = 0
  BY FS_EmptySet
<1>2. QED BY <1>1 DEF NewVersion, VersionOK

(* A lane that passed the preflight fits the capacity it was checked with.   *)
LEMMA CheckedLaneFits ==
  ASSUME NEW d \in Descriptors, NEW c \in Nat, DescriptorValid(d, c)
  PROVE  0 < d.rows * d.cols /\ d.rows * d.cols <= 2 * c
<1> DEFINE r == d.rows
           k == d.cols
<1>1. r \in Nat /\ k \in Nat /\ r > 0 /\ k > 0 /\ r * k <= c * 2
  BY ArgumentsAssumption DEF DescriptorValid
<1> HIDE DEF r, k
<1>2. r * k \in Nat /\ 0 < r * k
  BY <1>1
<1>3. r * k <= 2 * c
  BY <1>1, <1>2
<1>4. QED BY <1>2, <1>3 DEF r, k

(* What a write that passed the preflight makes of a register: the first sets *)
(* its numbers, and every later one found them as it needs them.             *)
StoredAs(w, v, mask, c, ds, ps) ==
  /\ c \in Nat /\ w.per_pe_capacity = c
  /\ w.dtype \in Nat /\ w.allocated_bytes \in Nat
  /\ w.allocated_bytes = c * Cardinality(w.allocation_mask)
  /\ w.allocation_mask \subseteq PEs
  /\ w.allocation_mask = IF v.allocation_mask = {} THEN mask ELSE v.allocation_mask
  /\ w.initialized_mask = w.allocation_mask
  /\ w.initialized_mask = v.initialized_mask \cup mask
  /\ \A pe \in PEs : w.lanes[pe] = IF pe \in mask
                                     THEN [descriptor |-> ds[pe], data |-> ps[pe]]
                                     ELSE v.lanes[pe]
  /\ v.allocation_mask # {} => v.per_pe_capacity = c

LEMMA StoredFacts ==
  ASSUME NEW v, VersionOK(v), NEW mask \in SUBSET PEs, mask # {},
         NEW c, NEW ds \in [mask -> Descriptors], NEW ps \in [mask -> Payloads],
         ~Expands(v, mask),
         \A pe \in mask : /\ DescriptorValid(ds[pe], c) /\ ps[pe].size = c
                          /\ ~Drifts(v, pe, c, ds[pe])
  PROVE  StoredAs(Stored(Allocated(v, mask, c, ds), mask, ds, ps), v, mask, c, ds, ps)
<1> DEFINE u == Allocated(v, mask, c, ds)
           w == Stored(u, mask, ds, ps)
<1>1. c \in Nat
  <2>1. PICK pe \in mask : TRUE
    OBVIOUS
  <2>2. ps[pe] \in Payloads /\ ps[pe].size = c
    BY <2>1
  <2>3. QED BY <2>2, ArgumentsAssumption
<1>2. /\ u.lanes = v.lanes /\ u.initialized_mask = v.initialized_mask
      /\ u.allocation_mask \subseteq PEs /\ mask \subseteq u.allocation_mask
      /\ u.initialized_mask \cup mask = u.allocation_mask
      /\ u.per_pe_capacity = c
      /\ u.allocation_mask = IF v.allocation_mask = {} THEN mask ELSE v.allocation_mask
      /\ u.allocated_bytes \in Nat /\ u.dtype \in Nat
      /\ u.allocated_bytes = c * Cardinality(u.allocation_mask)
  <2>1. CASE v.allocation_mask # {}
    <3>1. u = v
      BY <2>1 DEF Allocated
    <3>2. mask \subseteq v.allocation_mask
      BY <2>1 DEF Expands
    <3>3. v.per_pe_capacity = c
      BY <2>1 DEF Drifts
    <3>4. QED BY <3>1, <3>2, <3>3 DEF VersionOK
  <2>2. CASE v.allocation_mask = {}
    <3> DEFINE first == CHOOSE pe \in mask : \A other \in mask : pe <= other
    <3>1. first \in mask
      <4>1. mask \in SUBSET Nat
        BY CountsAssumption DEF PEs
      <4>2. QED BY <4>1, LeastNatural
    <3>2. ds[first].dtype \in Nat
      BY <3>1, ArgumentsAssumption
    <3>3. Cardinality(mask) \in Nat /\ c * Cardinality(mask) \in Nat
      <4>1. IsFiniteSet(PEs)
        BY CountsAssumption, FS_Interval DEF PEs
      <4>2. IsFiniteSet(mask)
        BY <4>1, FS_Subset
      <4>3. Cardinality(mask) \in Nat
        BY <4>2, FS_CardinalityType
      <4>4. QED BY <1>1, <4>3
    <3> DEFINE bytes == c * Cardinality(mask)
               dtype == ds[first].dtype
    <3>4. u = [ v EXCEPT !.allocation_mask = mask, !.per_pe_capacity = c,
                         !.allocated_bytes = bytes, !.dtype = dtype ]
      BY <2>2 DEF Allocated
    <3>5. v.initialized_mask = {}
      BY <2>2 DEF VersionOK
    <3> HIDE DEF bytes, dtype, first
    <3>6. QED BY <2>2, <3>2, <3>3, <3>4, <3>5 DEF bytes, dtype
  <2>3. QED BY <2>1, <2>2
<1>3. /\ w.per_pe_capacity = c /\ w.allocated_bytes = u.allocated_bytes
      /\ w.dtype = u.dtype /\ w.allocation_mask = u.allocation_mask
      /\ w.initialized_mask = v.initialized_mask \cup mask
      /\ \A pe \in PEs : w.lanes[pe] = IF pe \in mask
                                         THEN [descriptor |-> ds[pe], data |-> ps[pe]]
                                         ELSE v.lanes[pe]
  BY <1>2 DEF Stored
<1>4. v.allocation_mask # {} => v.per_pe_capacity = c
  BY DEF Drifts
<1> HIDE DEF u, w
<1>5. /\ c \in Nat /\ w.per_pe_capacity = c
      /\ w.dtype \in Nat /\ w.allocated_bytes \in Nat
      /\ w.allocated_bytes = c * Cardinality(w.allocation_mask)
      /\ w.allocation_mask \subseteq PEs
      /\ w.allocation_mask = IF v.allocation_mask = {} THEN mask ELSE v.allocation_mask
      /\ w.initialized_mask = w.allocation_mask
      /\ w.initialized_mask = v.initialized_mask \cup mask
  BY <1>1, <1>2, <1>3
<1>6. StoredAs(w, v, mask, c, ds, ps)
  BY <1>3, <1>4, <1>5 DEF StoredAs
<1>7. QED BY <1>6 DEF u, w

(* Write keeps the invariants of the register it applies to.                 *)
LEMMA StoredVersionOK ==
  ASSUME NEW v, VersionOK(v), NEW mask \in SUBSET PEs, mask # {},
         NEW c, NEW ds \in [mask -> Descriptors], NEW ps \in [mask -> Payloads],
         ~Expands(v, mask),
         \A pe \in mask : /\ DescriptorValid(ds[pe], c) /\ ps[pe].size = c
                          /\ ~Drifts(v, pe, c, ds[pe])
  PROVE  VersionOK(Stored(Allocated(v, mask, c, ds), mask, ds, ps))
<1> DEFINE w == Stored(Allocated(v, mask, c, ds), mask, ds, ps)
<1>1. /\ c \in Nat /\ w.per_pe_capacity = c
      /\ w.dtype \in Nat /\ w.allocated_bytes \in Nat
      /\ w.allocated_bytes = c * Cardinality(w.allocation_mask)
      /\ w.allocation_mask \subseteq PEs
      /\ w.initialized_mask = w.allocation_mask
      /\ w.initialized_mask = v.initialized_mask \cup mask
      /\ \A pe \in PEs : w.lanes[pe] = IF pe \in mask
                                         THEN [descriptor |-> ds[pe], data |-> ps[pe]]
                                         ELSE v.lanes[pe]
      /\ v.allocation_mask # {} => v.per_pe_capacity = c
  <2>1. StoredAs(w, v, mask, c, ds, ps)
    BY StoredFacts
  <2> HIDE DEF w
  <2>2. QED BY <2>1 DEF StoredAs
<1> HIDE DEF w
<1>2. ASSUME NEW pe \in w.initialized_mask
      PROVE  LET lane == w.lanes[pe]
             IN  /\ lane \in [descriptor : Descriptors, data : Payloads]
                 /\ lane.data.size = c
                 /\ 0 < lane.descriptor.rows * lane.descriptor.cols
                 /\ lane.descriptor.rows * lane.descriptor.cols <= 2 * c
  <2>1. CASE pe \in mask
    <3>1. w.lanes[pe] = [descriptor |-> ds[pe], data |-> ps[pe]]
      BY <1>1, <2>1
    <3>2. ds[pe] \in Descriptors /\ ps[pe] \in Payloads /\ ps[pe].size = c
          /\ DescriptorValid(ds[pe], c)
      BY <2>1
    <3>3. 0 < ds[pe].rows * ds[pe].cols /\ ds[pe].rows * ds[pe].cols <= 2 * c
      BY <1>1, <3>2, CheckedLaneFits
    <3>4. QED BY <3>1, <3>2, <3>3
  <2>2. CASE pe \notin mask
    <3>1. pe \in v.initialized_mask /\ pe \in PEs
      BY <1>1, <2>2 DEF VersionOK
    <3>2. w.lanes[pe] = v.lanes[pe]
      BY <1>1, <2>2, <3>1
    <3>3. v.per_pe_capacity = c
      <4>1. v.allocation_mask # {}
        BY <3>1 DEF VersionOK
      <4>2. QED BY <1>1, <4>1
    <3>4. QED BY <3>1, <3>2, <3>3 DEF VersionOK
  <2>3. QED BY <2>1, <2>2
<1>3. VersionOK(w)
  BY <1>1, <1>2 DEF VersionOK
<1>4. QED BY <1>3 DEF w

(* The empty bank.                                                           *)
LEMMA InitEstablishesIInv == Init => IInv
<1> SUFFICES ASSUME Init PROVE IInv
  OBVIOUS
<1>1. status \in Statuses /\ DOMAIN versions = Registers
      /\ \A id \in Registers : VersionOK(versions[id])
  BY NewVersionOK DEF Init, Statuses
<1>2. QED BY <1>1, IInvByRegister

(* Reset empties the bank; Write changes nothing unless it is applied.       *)
LEMMA NextPreservesIInv == IInv /\ [Next]_vars => IInv'
<1> SUFFICES ASSUME IInv, [Next]_vars PROVE IInv'
  OBVIOUS
<1>1. /\ status \in Statuses /\ DOMAIN versions = Registers
      /\ \A id \in Registers : VersionOK(versions[id])
  BY IInvByRegister
<1>2. SUFFICES /\ status' \in Statuses /\ DOMAIN versions' = Registers
               /\ \A id \in Registers : VersionOK(versions'[id])
  BY DEF IInv, TypeOK, LanesFitAllocation, VersionOK, Read
<1>3. CASE Reset
  BY <1>3, NewVersionOK DEF Reset, Statuses
<1>4. ASSUME NEW id \in Ids, NEW mask \in Masks, NEW code \in SizeCodes,
             NEW ds \in [mask \cap PEs -> Descriptors],
             NEW ps \in [mask \cap PEs -> Payloads],
             Write(id, mask, code, ds, ps)
      PROVE  /\ status' \in Statuses /\ DOMAIN versions' = Registers
             /\ \A r \in Registers : VersionOK(versions'[r])
  <2>1. status' = Verdict(id, mask, code, ds, ps)
    BY <1>4 DEF Write
  <2>2. status' \in Statuses
    <3>1. Preflight(versions[id], mask, CapacityBytes(code), ds, ps) \in Statuses
      BY DEF Preflight, LaneVerdict, Statuses
    <3>2. QED BY <2>1, <3>1 DEF Verdict, Statuses
  <2>3. CASE status' # "Applied"
    BY <1>1, <1>4, <2>2, <2>3 DEF Write
  <2>4. CASE status' = "Applied"
    <3> DEFINE c == CapacityBytes(code)
               w == Stored(Allocated(versions[id], mask, c, ds), mask, ds, ps)
    <3>1. WriteChecked(id, mask, c, ds, ps)
      BY <2>1, <2>4, AppliedMeansChecked
    <3>2. versions' = [versions EXCEPT ![id] = w]
      BY <1>4, <2>4 DEF Write
    <3> HIDE DEF c
    <3>3. mask \cap PEs = mask
      BY <3>1 DEF WriteChecked
    <3>4. VersionOK(w)
      BY <1>1, <3>1, <3>3, StoredVersionOK DEF WriteChecked
    <3> HIDE DEF w
    <3>5. QED BY <1>1, <2>2, <3>2, <3>4
  <2>5. QED BY <2>3, <2>4
<1>5. CASE UNCHANGED vars
  BY <1>1, <1>5 DEF vars
<1>6. QED BY <1>3, <1>4, <1>5 DEF Next

-----------------------------------------------------------------------------
(* Types hold, and what a readable lane holds was written to it.             *)
THEOREM TypeCorrect == Spec => []TypeOK
<1>1. IInv => TypeOK
  BY DEF IInv
<1>2. QED BY InitEstablishesIInv, NextPreservesIInv, <1>1, PTL DEF Spec

(* No sequence of writes, accepted or refused, makes the numbers of a        *)
(* register disagree with its lanes, or a lane larger than its allocation.   *)
THEOREM LanesAlwaysFit == Spec => []LanesFitAllocation
<1>1. IInv => LanesFitAllocation
  BY DEF IInv
<1>2. QED BY InitEstablishesIInv, NextPreservesIInv, <1>1, PTL DEF Spec

-----------------------------------------------------------------------------
(***************************************************************************)
(* No lane is ever locked.                                                  *)
(***************************************************************************)
(* A register keeps a capacity that a size code spells, and descriptors that *)
(* the preflight would accept again.                                        *)
Rewritable(v) ==
  /\ v.allocation_mask # {} =>
       \E code \in SizeCodes : CodeValid(code) /\ v.per_pe_capacity = CapacityBytes(code)
  /\ \A pe \in v.initialized_mask : DescriptorValid(v.lanes[pe].descriptor, v.per_pe_capacity)

WInv == IInv /\ \A id \in Registers : Rewritable(versions[id])

LEMMA InitEstablishesWInv == Init => WInv
BY InitEstablishesIInv DEF Init, WInv, Rewritable, NewVersion

LEMMA NextPreservesWInv == WInv /\ [Next]_vars => WInv'
<1> SUFFICES ASSUME WInv, [Next]_vars PROVE WInv'
  OBVIOUS
<1>1. /\ IInv' /\ DOMAIN versions = Registers
      /\ \A id \in Registers : VersionOK(versions[id]) /\ Rewritable(versions[id])
  BY NextPreservesIInv, IInvByRegister DEF WInv
<1>2. SUFFICES \A id \in Registers : Rewritable(versions'[id])
  BY <1>1 DEF WInv, Rewritable
<1>3. CASE Reset
  BY <1>3 DEF Reset, Rewritable, NewVersion
<1>4. ASSUME NEW id \in Ids, NEW mask \in Masks, NEW code \in SizeCodes,
             NEW ds \in [mask \cap PEs -> Descriptors],
             NEW ps \in [mask \cap PEs -> Payloads],
             Write(id, mask, code, ds, ps)
      PROVE  \A r \in Registers : Rewritable(versions'[r])
  <2>1. CASE status' # "Applied"
    BY <1>1, <1>4, <2>1 DEF Write
  <2>2. CASE status' = "Applied"
    <3> DEFINE c == CapacityBytes(code)
               v == versions[id]
               w == Stored(Allocated(v, mask, c, ds), mask, ds, ps)
    <3>1. WriteChecked(id, mask, c, ds, ps) /\ CodeValid(code)
      BY <1>4, <2>2, AppliedMeansChecked DEF Write, Verdict
    <3>2. versions' = [versions EXCEPT ![id] = w]
      BY <1>4, <2>2 DEF Write
    <3>3. c = CapacityBytes(code)
      OBVIOUS
    <3> HIDE DEF c
    <3>4. mask \cap PEs = mask
      BY <3>1 DEF WriteChecked
    <3>5. StoredAs(w, v, mask, c, ds, ps)
      BY <1>1, <3>1, <3>4, StoredFacts DEF WriteChecked
    <3> HIDE DEF w
    <3>6. ASSUME NEW pe \in w.initialized_mask
          PROVE  DescriptorValid(w.lanes[pe].descriptor, c)
      <4>1. pe \in PEs /\ w.lanes[pe] = IF pe \in mask
                                          THEN [descriptor |-> ds[pe], data |-> ps[pe]]
                                          ELSE v.lanes[pe]
        BY <3>5, <3>6 DEF StoredAs
      <4>2. CASE pe \in mask
        <5>1. w.lanes[pe].descriptor = ds[pe]
          BY <4>1, <4>2
        <5>2. QED BY <3>1, <4>2, <5>1 DEF WriteChecked
      <4>3. CASE pe \notin mask
        <5>1. pe \in v.initialized_mask /\ w.lanes[pe] = v.lanes[pe]
          BY <3>5, <3>6, <4>1, <4>3 DEF StoredAs
        <5>2. id \in Registers
          BY <3>1 DEF WriteChecked
        <5>3. v.per_pe_capacity = c
          BY <1>1, <3>5, <5>1, <5>2 DEF StoredAs, VersionOK
        <5>4. QED BY <1>1, <5>1, <5>2, <5>3 DEF Rewritable
      <4>4. QED BY <4>2, <4>3
    <3>7. w.per_pe_capacity = CapacityBytes(code)
      BY <3>3, <3>5 DEF StoredAs
    <3>8. Rewritable(w)
      BY <3>1, <3>3, <3>6, <3>7 DEF Rewritable
    <3>9. QED BY <1>1, <3>2, <3>8
  <2>3. QED BY <2>1, <2>2
<1>5. CASE UNCHANGED vars
  BY <1>1, <1>5 DEF vars
<1>6. QED BY <1>3, <1>4, <1>5 DEF Next

(* Any of the written lanes of a register can be written again as they are,   *)
(* after whatever writes were applied or refused before.                     *)
THEOREM LanesAlwaysWritable == Spec => []LanesStayWritable
<1>1. ASSUME WInv PROVE LanesStayWritable
  <2> SUFFICES ASSUME NEW id \in Registers, NEW mask \in (SUBSET versions[id].initialized_mask) \ {{}},
                      \A pe \in mask : Read(id, pe).descriptor.dtype = versions[id].dtype
               PROVE  Rewrite(id, mask)
    BY DEF LanesStayWritable
  <2> DEFINE v == versions[id]
             ds == [pe \in mask |-> Read(id, pe).descriptor]
             ps == [pe \in mask |-> Read(id, pe).data]
  <2>1. VersionOK(v) /\ Rewritable(v)
    BY <1>1, IInvByRegister DEF WInv
  <2>2. /\ mask \subseteq PEs /\ mask # {} /\ mask \subseteq v.allocation_mask
        /\ v.allocation_mask # {}
    BY <2>1 DEF VersionOK
  <2>3. PICK code \in SizeCodes : CodeValid(code) /\ v.per_pe_capacity = CapacityBytes(code)
    BY <2>1, <2>2 DEF Rewritable
  <2>4. ASSUME NEW pe \in mask
        PROVE  LaneVerdict(v, pe, CapacityBytes(code), ds[pe], ps[pe]) = "Applied"
    <3>1. /\ ds[pe] = v.lanes[pe].descriptor /\ ps[pe] = v.lanes[pe].data
          /\ ds[pe].dtype = v.dtype
      BY DEF Read
    <3>2. /\ DescriptorValid(ds[pe], CapacityBytes(code))
          /\ ps[pe].size = CapacityBytes(code)
      BY <2>1, <2>3, <3>1 DEF Rewritable, VersionOK
    <3>3. ~Drifts(v, pe, CapacityBytes(code), ds[pe])
      BY <2>3, <3>1 DEF Drifts
    <3>4. QED BY <3>2, <3>3 DEF LaneVerdict
  <2>5. Preflight(v, mask, CapacityBytes(code), ds, ps) = "Applied"
    BY <2>4 DEF Preflight
  <2>6. ~Expands(v, mask)
    BY <2>2 DEF Expands
  <2>7. Verdict(id, mask, code, ds, ps) = "Applied"
    BY <2>2, <2>3, <2>5, <2>6 DEF Verdict
  <2>8. QED BY <2>7 DEF Rewrite
<1>2. QED BY InitEstablishesWInv, NextPreservesWInv, <1>1, PTL DEF Spec

-----------------------------------------------------------------------------
(***************************************************************************)
(* The bank implements the store of docs/isa.md.                            *)
(***************************************************************************)
Alloc == [id \in Registers |-> versions[id].allocation_mask]
Size  == [id \in Registers |-> versions[id].per_pe_capacity]
Lanes(v) == [pe \in { l \in PEs : l \in v.initialized_mask } |-> v.lanes[pe]]
Held  == [id \in Registers |-> Lanes(versions[id])]

LEMMA HeldIsMapped ==
  Held = [id \in Registers |-> [pe \in { l \in PEs : Readable(id, l) } |-> Read(id, pe)]]
BY DEF Held, Lanes, Readable, Read

LEMMA HeldIsMappedNext ==
  Held' = [id \in Registers |-> [pe \in { l \in PEs : Readable(id, l)' } |-> Read(id, pe)']]
BY DEF Held, Lanes, Readable, Read

LEMMA NewVersionHoldsNothing ==
  ASSUME versions = [id \in Registers |-> NewVersion]
  PROVE  /\ Alloc = [id \in Registers |-> {}] /\ Size = [id \in Registers |-> 0]
         /\ Held = [id \in Registers |-> Store!Nothing]
<1>1. NewVersion.allocation_mask = {} /\ NewVersion.per_pe_capacity = 0
      /\ NewVersion.initialized_mask = {}
  BY DEF NewVersion
<1>2. Lanes(NewVersion) = Store!Nothing
  BY <1>1 DEF Lanes, Store!Nothing
<1>3. QED BY <1>1, <1>2 DEF Alloc, Size, Held

LEMMA InitMaps == Init => Store!Init
BY NewVersionHoldsNothing, HeldIsMapped DEF Init, Store!Init, Alloc, Size

(* The action of the store, over the bank.                                   *)
Stores(id, M, new) ==
  /\ Alloc[id] # {} => M \subseteq Alloc[id] /\ Alloc' = Alloc /\ Size' = Size
  /\ Alloc[id] = {} => /\ Alloc' = [Alloc EXCEPT ![id] = M]
                       /\ Size' \in { [Size EXCEPT ![id] = p.size] : p \in Payloads }
  /\ \A l \in M :
       /\ new[l].data.size = Size'[id]
       /\ l \in DOMAIN Held[id] => new[l].descriptor = Held[id][l].descriptor
  /\ Held' = [Held EXCEPT ![id] =
                [l \in M \cup DOMAIN @ |-> IF l \in M THEN new[l] ELSE @[l]]]

LEMMA StoreMeans ==
  ASSUME NEW id, NEW M \in (SUBSET PEs) \ {{}}, NEW new \in [M -> Store!Content],
         Stores(id, M, new)
  PROVE  Store!Store(id)
<1> DEFINE held == [r \in Registers |-> [pe \in { l \in PEs : Readable(r, l) } |-> Read(r, pe)]]
<1>1. Held = held /\ Held' = held'
  BY HeldIsMapped, HeldIsMappedNext
<1>2. \E N \in (SUBSET PEs) \ {{}} : \E x \in [N -> Store!Content] :
        /\ Alloc[id] # {} => N \subseteq Alloc[id] /\ UNCHANGED <<Alloc, Size>>
        /\ Alloc[id] = {} => /\ Alloc' = [Alloc EXCEPT ![id] = N]
                             /\ Size' \in { [Size EXCEPT ![id] = p.size] : p \in Payloads }
        /\ \A l \in N :
             /\ x[l].data.size = Size'[id]
             /\ l \in DOMAIN held[id] => x[l].descriptor = held[id][l].descriptor
        /\ held' = [held EXCEPT ![id] =
                      [l \in N \cup DOMAIN @ |-> IF l \in N THEN x[l] ELSE @[l]]]
  <2> HIDE DEF held
  <2> WITNESS M \in (SUBSET PEs) \ {{}}
  <2> WITNESS new \in [M -> Store!Content]
  <2>1. QED BY <1>1 DEF Stores
<1>3. QED BY <1>2 DEF Store!Store, Alloc, Size

(* An applied write is one atomic store of the lanes it selects.             *)
LEMMA AppliedMaps ==
  ASSUME IInv, NEW id \in Ids, NEW mask \in Masks, NEW code \in SizeCodes,
         NEW ds \in [mask \cap PEs -> Descriptors], NEW ps \in [mask \cap PEs -> Payloads],
         Write(id, mask, code, ds, ps), status' = "Applied"
  PROVE  id \in Registers /\ Store!Store(id)
<1> DEFINE c == CapacityBytes(code)
           v == versions[id]
           w == Stored(Allocated(v, mask, c, ds), mask, ds, ps)
           new == [pe \in mask |-> [descriptor |-> ds[pe], data |-> ps[pe]]]
<1>1. WriteChecked(id, mask, c, ds, ps)
  BY AppliedMeansChecked DEF Write
<1>2. versions' = [versions EXCEPT ![id] = w]
  BY DEF Write
<1> HIDE DEF c
<1>3. /\ id \in Registers /\ mask \subseteq PEs /\ mask # {} /\ mask \cap PEs = mask
      /\ DOMAIN versions = Registers /\ VersionOK(v)
  BY <1>1, IInvByRegister DEF WriteChecked
<1>4. StoredAs(w, v, mask, c, ds, ps)
  BY <1>1, <1>3, StoredFacts DEF WriteChecked
<1> HIDE DEF w
<1>5. /\ Alloc' = [Alloc EXCEPT ![id] = w.allocation_mask]
      /\ Size' = [Size EXCEPT ![id] = c]
      /\ Held' = [Held EXCEPT ![id] = Lanes(w)]
      /\ Alloc[id] = v.allocation_mask /\ Size[id] = v.per_pe_capacity
      /\ Held[id] = Lanes(v) /\ Size'[id] = c
  BY <1>2, <1>3, <1>4 DEF Alloc, Size, Held, StoredAs
<1>6. new \in [mask -> Store!Content]
  BY <1>3 DEF Store!Content
<1>7. Alloc[id] # {} => mask \subseteq Alloc[id] /\ Alloc' = Alloc /\ Size' = Size
  <2> SUFFICES ASSUME Alloc[id] # {}
               PROVE  mask \subseteq Alloc[id] /\ Alloc' = Alloc /\ Size' = Size
    OBVIOUS
  <2>1. w.allocation_mask = v.allocation_mask /\ v.per_pe_capacity = c
    BY <1>4, <1>5 DEF StoredAs
  <2>2. mask \subseteq v.allocation_mask
    BY <1>4, <2>1 DEF StoredAs
  <2>3. QED BY <1>5, <2>1, <2>2 DEF Alloc, Size
<1>8. Alloc[id] = {} => /\ Alloc' = [Alloc EXCEPT ![id] = mask]
                        /\ Size' \in { [Size EXCEPT ![id] = p.size] : p \in Payloads }
  <2>1. PICK pe \in mask : TRUE
    BY <1>3
  <2>2. ps[pe] \in Payloads /\ ps[pe].size = c
    BY <1>1, <1>3, <2>1 DEF WriteChecked
  <2>3. Size' \in { [Size EXCEPT ![id] = p.size] : p \in Payloads }
    BY <1>5, <2>2
  <2>4. QED BY <1>4, <1>5, <2>3 DEF StoredAs
<1>9. ASSUME NEW l \in mask
      PROVE  /\ new[l].data.size = Size'[id]
             /\ l \in DOMAIN Held[id] => new[l].descriptor = Held[id][l].descriptor
  <2>1. new[l].data.size = c
    BY <1>1 DEF WriteChecked
  <2>2. ASSUME l \in DOMAIN Held[id] PROVE ds[l] = Held[id][l].descriptor
    <3>1. l \in v.initialized_mask /\ Held[id][l] = v.lanes[l]
      BY <1>5, <2>2 DEF Lanes
    <3>2. QED BY <1>1, <3>1 DEF WriteChecked, Drifts
  <2>3. QED BY <1>5, <2>1, <2>2
<1>10. Lanes(w) = [l \in mask \cup DOMAIN Held[id] |->
                     IF l \in mask THEN new[l] ELSE Held[id][l]]
  <2>1. DOMAIN Held[id] = v.initialized_mask
    BY <1>3, <1>5 DEF Lanes, VersionOK
  <2>2. { l \in PEs : l \in w.initialized_mask } = mask \cup v.initialized_mask
    BY <1>3, <1>4 DEF StoredAs, VersionOK
  <2>3. \A l \in mask \cup v.initialized_mask :
          w.lanes[l] = IF l \in mask THEN new[l] ELSE Held[id][l]
    BY <1>3, <1>4, <1>5, <2>1 DEF StoredAs, Lanes, VersionOK
  <2>4. QED BY <2>1, <2>2, <2>3 DEF Lanes
<1> HIDE DEF new
<1>11. Held' = [Held EXCEPT ![id] =
                  [l \in mask \cup DOMAIN @ |-> IF l \in mask THEN new[l] ELSE @[l]]]
  BY <1>5, <1>10
<1>12. mask \in (SUBSET PEs) \ {{}}
  BY <1>3
<1>13. Store!Store(id)
  <2>1. Stores(id, mask, new)
    BY <1>7, <1>8, <1>9, <1>11 DEF Stores
  <2>2. QED BY <1>6, <1>12, <2>1, StoreMeans
<1>14. QED BY <1>3, <1>13

LEMMA NextMaps == IInv /\ [Next]_vars => [Store!Next]_(Store!vars)
<1> SUFFICES ASSUME IInv, [Next]_vars PROVE [Store!Next]_(Store!vars)
  OBVIOUS
<1>1. CASE Reset
  <2>1. /\ Alloc' = [id \in Registers |-> {}] /\ Size' = [id \in Registers |-> 0]
        /\ Held' = [id \in Registers |-> Store!Nothing]
    <3>1. NewVersion.allocation_mask = {} /\ NewVersion.per_pe_capacity = 0
      BY DEF NewVersion
    <3>2. Lanes(NewVersion) = Store!Nothing
      BY DEF NewVersion, Lanes, Store!Nothing
    <3>3. QED BY <1>1, <3>1, <3>2 DEF Reset, Alloc, Size, Held
  <2>2. Store!Clear
    BY <2>1, HeldIsMappedNext DEF Store!Clear, Alloc, Size
  <2>3. QED BY <2>2 DEF Store!Next
<1>2. CASE versions' = versions
  BY <1>2 DEF Store!vars, Readable, Read
<1>3. ASSUME NEW id \in Ids, NEW mask \in Masks, NEW code \in SizeCodes,
             NEW ds \in [mask \cap PEs -> Descriptors],
             NEW ps \in [mask \cap PEs -> Payloads],
             Write(id, mask, code, ds, ps)
      PROVE  [Store!Next]_(Store!vars)
  <2>1. CASE status' = "Applied"
    BY <1>3, <2>1, AppliedMaps DEF Store!Next
  <2>2. CASE status' # "Applied"
    BY <1>2, <1>3, <2>2 DEF Write
  <2>3. QED BY <2>1, <2>2
<1>4. QED BY <1>1, <1>2, <1>3 DEF Next, vars

(* Whatever is written, in whatever order and however it is refused, the bank *)
(* behaves as the store that docs/isa.md 63-72 promises: a write takes all   *)
(* its lanes at once or leaves no trace, and nothing allocated drifts.       *)
THEOREM BankImplementsStore == Spec => ImplementsStore
<1>1. QED
  BY InitEstablishesIInv, NextPreservesIInv, InitMaps, NextMaps, PTL
     DEF Spec, ImplementsStore, Store!Spec
=============================================================================

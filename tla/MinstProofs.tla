---------------------------- MODULE MinstProofs ----------------------------
(***************************************************************************)
(* What TLAPS proves of the codec and of the packet, for every form table    *)
(* with the properties Codec assumes, and all words, values and edits.       *)
(***************************************************************************)
EXTENDS Minst, FiniteSetTheorems, WellFoundedInduction, TLAPS

-----------------------------------------------------------------------------
(***************************************************************************)
(* The codec: no word has two meanings.                                     *)
(***************************************************************************)
Accepts(form, word, length) == FixedMatch(form, word, length) /\ ConstraintsOk(form, word)

(* Where the bits of a field are fixed, its value is fixed.                  *)
LEMMA FieldInsideMask ==
  ASSUME NEW d, NEW word, NEW g, NEW length,
         FixedMatch(g, word, length), FieldBits(d) \subseteq g.mask
  PROVE  ExtractFieldValue(d, word) = ExtractFieldValue(d, g.match)
<1> DEFINE Ones(p, w) == { k \in BitMask(p.width) : p.insn_lsb + k \in w }
           Lifted(p, w) == { p.value_lsb + i : i \in Ones(p, w) }
<1>1. ASSUME NEW p \in PiecesFor(d) PROVE Ones(p, word) = Ones(p, g.match)
  <2>1. ASSUME NEW k \in BitMask(p.width)
        PROVE  p.insn_lsb + k \in word <=> p.insn_lsb + k \in g.match
    <3>1. p.insn_lsb + k \in g.mask
      BY DEF FieldBits, InsnBits
    <3>2. QED BY <3>1 DEF FixedMatch
  <2>2. QED BY <2>1
<1>2. { Lifted(p, word) : p \in PiecesFor(d) } = { Lifted(p, g.match) : p \in PiecesFor(d) }
  BY <1>1
<1>3. Raw(d, word) = Raw(d, g.match)
  BY <1>2 DEF Raw
<1>4. QED BY <1>3 DEF ExtractFieldValue

(* Two forms that fit one word agree where both are fixed.                   *)
LEMMA FittingFormsAgree ==
  ASSUME NEW f \in Forms, NEW g \in Forms, NEW word, NEW length,
         FixedMatch(f, word, length), FixedMatch(g, word, length)
  PROVE  f.length = g.length /\ FixedAgree(f, g)
<1>1. f.match \subseteq f.mask /\ g.match \subseteq g.mask
  BY FormAssumption DEF FormWellFormed
<1>2. QED BY <1>1 DEF FixedMatch, FixedAgree

(* A form whose constraint the fixed bits of another break does not accept   *)
(* what fits the other.                                                     *)
LEMMA ExcludedIsRefused ==
  ASSUME NEW f \in Forms, NEW g \in Forms, NEW word, NEW length,
         FixedMatch(g, word, length), Excludes(f, g)
  PROVE  ~ConstraintsOk(f, word)
<1>1. PICK i \in 1..Len(f.constraints), d \in FieldsFor(f) :
        /\ d.name = f.constraints[i].field
        /\ FieldBits(d) \subseteq g.mask
        /\ ~EvaluateConstraint(f.constraints[i].op, ExtractFieldValue(d, g.match),
                               f.constraints[i].value)
  BY DEF Excludes
<1>2. ExtractFieldValue(d, word) = ExtractFieldValue(d, g.match)
  BY <1>1, FieldInsideMask
<1>3. ASSUME NEW e \in FieldsFor(f), e.name = d.name PROVE e = d
  <2>1. \A j, k \in 1..Len(f.fields) : j # k => f.fields[j].name # f.fields[k].name
    BY FormAssumption DEF FormWellFormed
  <2>2. PICK j \in 1..Len(f.fields), k \in 1..Len(f.fields) : e = f.fields[j] /\ d = f.fields[k]
    BY <1>3 DEF FieldsFor
  <2>3. QED BY <1>3, <2>1, <2>2
<1>4. ASSUME ConstraintsOk(f, word) PROVE FALSE
  <2>1. PICK e \in FieldsFor(f) :
          /\ e.name = f.constraints[i].field
          /\ EvaluateConstraint(f.constraints[i].op, ExtractFieldValue(e, word),
                                f.constraints[i].value)
    BY <1>1, <1>4 DEF ConstraintsOk
  <2>2. e = d
    BY <1>1, <1>3, <2>1
  <2>3. QED BY <1>1, <1>2, <2>1, <2>2
<1>5. QED BY <1>4

(* At most one form accepts a word (DecodeMinst: valid_matches).             *)
THEOREM OneFormAccepts ==
  \A word, length : \A f, g \in Forms :
    Accepts(f, word, length) /\ Accepts(g, word, length) => f = g
<1> SUFFICES ASSUME NEW word, NEW length, NEW f \in Forms, NEW g \in Forms,
                    Accepts(f, word, length), Accepts(g, word, length)
             PROVE  f = g
  OBVIOUS
<1>1. f.length = g.length /\ FixedAgree(f, g)
  BY FittingFormsAgree DEF Accepts
<1>2. ~Excludes(f, g) /\ ~Excludes(g, f)
  BY ExcludedIsRefused DEF Accepts
<1>3. QED BY <1>1, <1>2, ExclusiveAssumption

(* The status AmbiguousMatch is never returned: the error path of codec.cpp  *)
(* is dead for every table with these properties.                           *)
THEOREM NeverAmbiguous ==
  \A word, length : DecodeStatus(word, length) # "AmbiguousMatch"
<1> SUFFICES ASSUME NEW word, NEW length PROVE DecodeStatus(word, length) # "AmbiguousMatch"
  OBVIOUS
<1> DEFINE matches == ValidMatches(word, length)
<1>1. \A f, g \in matches : f = g
  BY OneFormAccepts DEF ValidMatches, Accepts
<1>2. ASSUME matches # {} PROVE Cardinality(matches) = 1
  <2>1. PICK f : f \in matches
    BY <1>2
  <2>2. matches = {f}
    BY <1>1, <2>1
  <2>3. QED BY <2>2, FS_Singleton
<1>3. QED BY <1>2 DEF DecodeStatus

(* Whatever values are encoded, the word carries the fixed bits of its form: *)
(* the decoder finds the form among those that fit, and if the constraints   *)
(* hold of the word it finds no other.                                       *)
THEOREM EncodedWordFits ==
  \A form \in Forms : \A fields :
    FixedMatch(form, EncodedBits(form, fields), form.length)
<1> SUFFICES ASSUME NEW form \in Forms, NEW fields
             PROVE  FixedMatch(form, EncodedBits(form, fields), form.length)
  OBVIOUS
<1>1. /\ form.match \subseteq form.mask
      /\ \A f \in FieldsFor(form) : form.mask \cap FieldBits(f) = {}
  BY FormAssumption DEF FormWellFormed
<1>2. \A f \in FieldsFor(form) : \A value : PlacedBits(f, value) \subseteq FieldBits(f)
  BY DEF PlacedBits, FieldBits, InsnBits
<1>3. ASSUME NEW b \in form.mask
      PROVE  b \in EncodedBits(form, fields) <=> b \in form.match
  <2>1. \A f \in FieldsFor(form) : b \notin FieldBits(f)
    BY <1>1
  <2>2. \A f \in FieldsFor(form) : b \notin PlacedBits(f, fields[f.name].value)
    BY <1>2, <2>1
  <2>3. QED BY <2>1, <2>2 DEF EncodedBits
<1>4. QED BY <1>3 DEF FixedMatch

(* Every field reads back from the word, bit by bit, as what was written of    *)
(* it, however the fields and their pieces are laid out in the form.         *)
THEOREM EncodedBitsReadBack ==
  \A form \in Forms : \A fields : \A f \in FieldsFor(form) :
    Raw(f, EncodedBits(form, fields))
      = EncodeFieldBits(f, fields[f.name].value) \cap CarriedBits(f)
<1> SUFFICES ASSUME NEW form \in Forms, NEW fields, NEW f \in FieldsFor(form)
             PROVE  Raw(f, EncodedBits(form, fields))
                      = EncodeFieldBits(f, fields[f.name].value) \cap CarriedBits(f)
  OBVIOUS
<1> DEFINE word == EncodedBits(form, fields)
           bits == EncodeFieldBits(f, fields[f.name].value)
<1>1. FormWellFormed(form) /\ FieldWellFormed(f)
  BY FormAssumption DEF FormWellFormed
<1>2. ASSUME NEW g \in FieldsFor(form), g # f PROVE FieldBits(g) \cap FieldBits(f) = {}
  BY <1>1, <1>2 DEF FormWellFormed, FieldsFor
<1>3. ASSUME NEW p \in PiecesFor(f), NEW k \in BitMask(p.width)
      PROVE  p.insn_lsb + k \in word <=> p.value_lsb + k \in bits
  <2> DEFINE b == p.insn_lsb + k
  <2>1. b \in FieldBits(f)
    BY DEF FieldBits, InsnBits
  <2>2. ASSUME p.value_lsb + k \in bits PROVE b \in word
    BY <2>2 DEF EncodedBits, PlacedBits
  <2>3. ASSUME b \in word PROVE p.value_lsb + k \in bits
    <3>1. PICK g \in FieldsFor(form) : b \in PlacedBits(g, fields[g.name].value)
      BY <2>1, <2>3 DEF EncodedBits
    <3>2. b \in FieldBits(g)
      BY <3>1 DEF PlacedBits, FieldBits, InsnBits
    <3>3. g = f
      BY <1>2, <2>1, <3>2
    <3>4. PICK q \in PiecesFor(f) :
            \E i \in BitMask(q.width) : b = q.insn_lsb + i /\ q.value_lsb + i \in bits
      BY <3>1, <3>3 DEF PlacedBits
    <3>5. PICK i \in BitMask(q.width) : b = q.insn_lsb + i /\ q.value_lsb + i \in bits
      BY <3>4
    <3>6. b \in InsnBits(p) /\ b \in InsnBits(q)
      BY <3>5 DEF InsnBits
    <3>7. q = p
      BY <1>1, <3>6 DEF FieldWellFormed
    <3>8. p.insn_lsb \in Nat /\ p.width \in Nat
      BY <1>1 DEF FieldWellFormed, PieceWellFormed
    <3>9. i = k
      BY <3>5, <3>7, <3>8 DEF BitMask
    <3>10. QED BY <3>5, <3>7, <3>9
  <2>4. QED BY <2>2, <2>3
<1>4. Raw(f, word) = UNION { { p.value_lsb + k : k \in
                               { j \in BitMask(p.width) : p.value_lsb + j \in bits } }
                             : p \in PiecesFor(f) }
  BY <1>3 DEF Raw
<1>5. QED BY <1>4 DEF CarriedBits, ValueBits

(* A word encoded with values that meet the constraints it carries decodes    *)
(* to the form it was encoded from and to no other.                          *)
THEOREM EncodedFindsItsForm ==
  \A form \in Forms : \A fields :
    ConstraintsOk(form, EncodedBits(form, fields)) =>
      ValidMatches(EncodedBits(form, fields), form.length) = {form}
<1> SUFFICES ASSUME NEW form \in Forms, NEW fields,
                    ConstraintsOk(form, EncodedBits(form, fields))
             PROVE  ValidMatches(EncodedBits(form, fields), form.length) = {form}
  OBVIOUS
<1> DEFINE word == EncodedBits(form, fields)
<1>1. Accepts(form, word, form.length)
  BY EncodedWordFits DEF Accepts
<1>2. \A g \in Forms : Accepts(g, word, form.length) => g = form
  BY <1>1, OneFormAccepts
<1>3. \A g \in Forms : FixedMatch(g, word, form.length) /\ ConstraintsOk(g, word) <=> g = form
  BY <1>1, <1>2 DEF Accepts
<1>4. form.fixed_bits <= form.fixed_bits
  <2>1. /\ form.mask \subseteq BitMask(form.length) /\ form.length \in Nat
        /\ form.fixed_bits = Cardinality(form.mask)
    BY FormAssumption, LengthAssumption DEF FormWellFormed
  <2>2. IsFiniteSet(BitMask(form.length))
    BY <2>1, FS_Interval DEF BitMask
  <2>3. IsFiniteSet(form.mask)
    BY <2>1, <2>2, FS_Subset
  <2>4. QED BY <2>1, <2>3, FS_CardinalityType
<1>5. QED BY <1>3, <1>4 DEF ValidMatches

-----------------------------------------------------------------------------
(***************************************************************************)
(* Numbers.  The recursions of the codec run over the positions of bits; an   *)
(* induction over them is by the least position at which it fails.           *)
(***************************************************************************)
LEMMA NatHasMinimum ==
  ASSUME NEW T \in SUBSET Nat, T # {}
  PROVE  \E m \in T : \A n \in T : m <= n
<1> DEFINE R == OpToRel(<, Nat)
<1>1. \E m \in T : \A n \in T : ~ (<<n, m>> \in R)
  BY NatLessThanWellFounded, WFMin
<1>2. \A m, n \in Nat : ~ (<<n, m>> \in R) => m <= n
  BY DEF OpToRel
<1>3. QED BY <1>1, <1>2

LEMMA Upwards ==
  ASSUME NEW n \in Nat, NEW S, 0 \in S, \A k \in 0..n : k < n /\ k \in S => k + 1 \in S
  PROVE  \A k \in 0..n : k \in S
<1> DEFINE T == { k \in 0..n : k \notin S }
<1>1. ASSUME T # {} PROVE FALSE
  <2>1. T \in SUBSET Nat
    OBVIOUS
  <2>2. PICK m \in T : \A k \in T : m <= k
    BY <1>1, <2>1, NatHasMinimum
  <2>3. m \in 0..n /\ m \notin S /\ m # 0
    BY <2>2
  <2>4. m - 1 \in 0..n /\ m - 1 < n /\ ~(m <= m - 1)
    BY <2>3
  <2>5. m - 1 \in S
    BY <2>2, <2>4
  <2>6. (m - 1) + 1 = m
    BY <2>3
  <2>7. QED BY <2>3, <2>4, <2>5, <2>6
<1>2. QED BY <1>1

LEMMA Downwards ==
  ASSUME NEW n \in Nat, NEW S, n \in S, \A k \in 0..n : k < n /\ k + 1 \in S => k \in S
  PROVE  \A k \in 0..n : k \in S
<1> DEFINE U == { d \in 0..n : n - d \in S }
<1>1. 0 \in U
  OBVIOUS
<1>2. ASSUME NEW d \in 0..n, d < n, d \in U PROVE d + 1 \in U
  <2>1. n - (d + 1) \in 0..n /\ n - (d + 1) < n /\ (n - (d + 1)) + 1 = n - d /\ d + 1 \in 0..n
    BY <1>2
  <2>2. n - (d + 1) \in S
    BY <1>2, <2>1
  <2>3. QED BY <2>1, <2>2
<1> HIDE DEF U
<1>3. \A d \in 0..n : d \in U
  BY <1>1, <1>2, Upwards
<1>4. ASSUME NEW k \in 0..n PROVE k \in S
  <2>1. n - k \in 0..n /\ n - (n - k) = k
    OBVIOUS
  <2>2. n - k \in U
    BY <1>3, <2>1
  <2>3. QED BY <2>1, <2>2 DEF U
<1>5. QED BY <1>4

Bit(raw, k) == IF k \in raw THEN 1 ELSE 0

\* The recursion of Number, from position low on.
NumberFrom(f, low, raw, width, sign) ==
  f = [k \in low..width |-> IF k = width THEN sign ELSE 2 * f[k + 1] + Bit(raw, k)]

LEMMA NumberExists ==
  ASSUME NEW raw, NEW width \in Nat, NEW sign
  PROVE  \E f : NumberFrom(f, 0, raw, width, sign)
<1> DEFINE S == { low \in 0..width : \E f : NumberFrom(f, low, raw, width, sign) }
<1>1. width \in S
  <2>1. NumberFrom([k \in width..width |-> sign], width, raw, width, sign)
    BY DEF NumberFrom
  <2>2. QED BY <2>1
<1>2. ASSUME NEW n \in 0..width, n < width, n + 1 \in S PROVE n \in S
  <2>1. PICK g : NumberFrom(g, n + 1, raw, width, sign)
    BY <1>2
  <2> DEFINE h == [k \in n..width |-> IF k = n THEN 2 * g[n + 1] + Bit(raw, n) ELSE g[k]]
  <2>2. ASSUME NEW k \in n..width
        PROVE  h[k] = IF k = width THEN sign ELSE 2 * h[k + 1] + Bit(raw, k)
    <3>1. k = n => n + 1 \in n..width /\ n + 1 # n /\ k # width
      BY <1>2
    <3>2. CASE k = n
      <4>1. h[n + 1] = g[n + 1]
        BY <3>1, <3>2
      <4>2. h[n] = 2 * g[n + 1] + Bit(raw, n)
        BY <3>2
      <4>3. QED BY <3>1, <3>2, <4>1, <4>2
    <3>3. CASE k # n
      <4>1. k \in (n + 1)..width
        BY <3>3
      <4>2. g[k] = IF k = width THEN sign ELSE 2 * g[k + 1] + Bit(raw, k)
        BY <2>1, <4>1 DEF NumberFrom
      <4>3. k # width => k + 1 \in n..width /\ k + 1 # n
        BY <4>1
      <4>4. k # width => h[k + 1] = g[k + 1]
        BY <4>3
      <4>5. h[k] = g[k]
        BY <3>3
      <4>6. QED BY <4>2, <4>4, <4>5
    <3>4. QED BY <3>2, <3>3
  <2>3. NumberFrom(h, n, raw, width, sign)
    <3>1. h = [k \in n..width |-> h[k]]
      OBVIOUS
    <3> HIDE DEF h
    <3>2. QED BY <2>2, <3>1 DEF NumberFrom
  <2>4. QED BY <2>3
<1> HIDE DEF S
<1>3. \A k \in 0..width : k \in S
  BY <1>1, <1>2, Downwards
<1>4. 0 \in S
  BY <1>3
<1>5. QED BY <1>4 DEF S

(* Horner's rule: each partial number is twice the next and a bit.           *)
PartialNumbers(f, raw, width, sign) ==
  /\ f[width] = sign
  /\ \A k \in 0..width : f[k] \in Int
  /\ \A k \in 0..(width - 1) : f[k] = 2 * f[k + 1] + Bit(raw, k)
  /\ f[0] = Number(raw, width, sign)

LEMMA NumberMeans ==
  ASSUME NEW raw, NEW width \in Nat, NEW sign \in Int
  PROVE  \E f : PartialNumbers(f, raw, width, sign)
<1> DEFINE f == CHOOSE g : NumberFrom(g, 0, raw, width, sign)
<1>1. NumberFrom(f, 0, raw, width, sign)
  BY NumberExists
<1>2. Number(raw, width, sign) = f[0]
  BY DEF Number, NumberFrom, Bit
<1> HIDE DEF f
<1>3. \A k \in 0..width : f[k] = IF k = width THEN sign ELSE 2 * f[k + 1] + Bit(raw, k)
  BY <1>1 DEF NumberFrom
<1>4. f[width] = sign
  BY <1>3
<1>5. \A k \in 0..(width - 1) : f[k] = 2 * f[k + 1] + Bit(raw, k)
  BY <1>3
<1>6. \A k \in 0..width : f[k] \in Int
  <2> DEFINE S == { k \in 0..width : f[k] \in Int }
  <2>1. width \in S
    BY <1>4
  <2>2. ASSUME NEW k \in 0..width, k < width, k + 1 \in S PROVE k \in S
    <3>1. k \in 0..(width - 1) /\ f[k + 1] \in Int /\ Bit(raw, k) \in Int
      BY <2>2 DEF Bit
    <3>2. QED BY <1>5, <3>1
  <2> HIDE DEF S
  <2>3. \A k \in 0..width : k \in S
    BY <2>1, <2>2, Downwards
  <2>4. QED BY <2>3 DEF S
<1>7. QED BY <1>2, <1>4, <1>5, <1>6 DEF PartialNumbers

\* The recursion of ShiftRight, up to position top.
Halvings(f, value, top) ==
  f = [k \in 0..top |-> IF k = 0 THEN value ELSE f[k - 1] \div 2]

LEMMA HalvesExist ==
  ASSUME NEW value, NEW top \in Nat
  PROVE  \E f : Halvings(f, value, top)
<1> DEFINE S == { n \in 0..top : \E f : Halvings(f, value, n) }
<1>1. 0 \in S
  <2>1. Halvings([k \in 0..0 |-> value], value, 0)
    BY DEF Halvings
  <2>2. QED BY <2>1
<1>2. ASSUME NEW n \in 0..top, n < top, n \in S PROVE n + 1 \in S
  <2>1. PICK g : Halvings(g, value, n)
    BY <1>2
  <2> DEFINE h == [k \in 0..(n + 1) |-> IF k = n + 1 THEN g[n] \div 2 ELSE g[k]]
  <2>2. ASSUME NEW k \in 0..(n + 1)
        PROVE  h[k] = IF k = 0 THEN value ELSE h[k - 1] \div 2
    <3>1. CASE k = n + 1
      <4>1. n \in 0..(n + 1) /\ n # n + 1 /\ k # 0 /\ k - 1 = n
        BY <3>1
      <4>2. h[n] = g[n] /\ h[k] = g[n] \div 2
        BY <3>1, <4>1
      <4>3. QED BY <4>1, <4>2
    <3>2. CASE k # n + 1
      <4>1. k \in 0..n /\ (k # 0 => k - 1 \in 0..(n + 1) /\ k - 1 # n + 1)
        BY <3>2
      <4>2. h[k] = g[k] /\ (k # 0 => h[k - 1] = g[k - 1])
        BY <3>2, <4>1
      <4>3. g[k] = IF k = 0 THEN value ELSE g[k - 1] \div 2
        BY <2>1, <4>1 DEF Halvings
      <4>4. QED BY <4>2, <4>3
    <3>3. QED BY <3>1, <3>2
  <2>3. Halvings(h, value, n + 1)
    <3>1. h = [k \in 0..(n + 1) |-> h[k]]
      OBVIOUS
    <3> HIDE DEF h
    <3>2. QED BY <2>2, <3>1 DEF Halvings
  <2>4. n + 1 \in 0..top
    BY <1>2
  <2>5. QED BY <2>3, <2>4
<1> HIDE DEF S
<1>3. \A k \in 0..top : k \in S
  BY <1>1, <1>2, Upwards
<1>4. top \in S
  BY <1>3
<1>5. QED BY <1>4 DEF S

LEMMA HalvesMean ==
  ASSUME NEW value, NEW top \in Nat
  PROVE  \E f : Halvings(f, value, top) /\ ShiftRight(value, top) = f[top]
<1> DEFINE f == CHOOSE g : Halvings(g, value, top)
<1>1. Halvings(f, value, top)
  BY HalvesExist
<1>2. ShiftRight(value, top) = f[top]
  BY DEF ShiftRight, Halvings
<1>3. QED BY <1>1, <1>2

(* A shift by one more halves once more.                                     *)
LEMMA ShiftMeans ==
  ASSUME NEW value
  PROVE  /\ ShiftRight(value, 0) = value
         /\ \A n \in Nat : ShiftRight(value, n + 1) = ShiftRight(value, n) \div 2
<1>1. ShiftRight(value, 0) = value
  <2>1. PICK f : Halvings(f, value, 0) /\ ShiftRight(value, 0) = f[0]
    BY HalvesMean
  <2>2. QED BY <2>1 DEF Halvings
<1>2. ASSUME NEW n \in Nat
      PROVE  ShiftRight(value, n + 1) = ShiftRight(value, n) \div 2
  <2>1. PICK f : Halvings(f, value, n) /\ ShiftRight(value, n) = f[n]
    BY HalvesMean
  <2>2. PICK g : Halvings(g, value, n + 1) /\ ShiftRight(value, n + 1) = g[n + 1]
    BY HalvesMean
  <2> DEFINE S == { k \in 0..n : f[k] = g[k] }
  <2>3. 0 \in S
    BY <2>1, <2>2 DEF Halvings
  <2>4. ASSUME NEW k \in 0..n, k < n, k \in S PROVE k + 1 \in S
    <3>1. k + 1 \in 0..n /\ k + 1 \in 0..(n + 1) /\ k + 1 # 0 /\ (k + 1) - 1 = k
      BY <2>4
    <3>2. f[k + 1] = f[k] \div 2
      BY <2>1, <3>1 DEF Halvings
    <3>3. g[k + 1] = g[k] \div 2
      BY <2>2, <3>1 DEF Halvings
    <3>4. QED BY <2>4, <3>1, <3>2, <3>3
  <2> HIDE DEF S
  <2>5. \A k \in 0..n : k \in S
    BY <2>3, <2>4, Upwards
  <2>6. f[n] = g[n]
    BY <2>5 DEF S
  <2>7. n + 1 \in 0..(n + 1) /\ n + 1 # 0 /\ (n + 1) - 1 = n
    OBVIOUS
  <2>8. g[n + 1] = g[n] \div 2
    BY <2>2, <2>7 DEF Halvings
  <2>9. QED BY <2>1, <2>2, <2>6, <2>8
<1>3. QED BY <1>1, <1>2

LEMMA ShiftInt ==
  ASSUME NEW value \in Int
  PROVE  \A n \in Nat : ShiftRight(value, n) \in Int
<1> SUFFICES ASSUME NEW n \in Nat PROVE ShiftRight(value, n) \in Int
  OBVIOUS
<1> DEFINE S == { k \in 0..n : ShiftRight(value, k) \in Int }
<1>1. 0 \in S
  BY ShiftMeans
<1>2. ASSUME NEW k \in 0..n, k < n, k \in S PROVE k + 1 \in S
  <2>1. k \in Nat /\ k + 1 \in 0..n /\ ShiftRight(value, k) \in Int
    BY <1>2
  <2>2. ShiftRight(value, k + 1) = ShiftRight(value, k) \div 2
    BY <2>1, ShiftMeans
  <2>3. QED BY <2>1, <2>2
<1> HIDE DEF S
<1>3. \A k \in 0..n : k \in S
  BY <1>1, <1>2, Upwards
<1>4. QED BY <1>3 DEF S

LEMMA Halving ==
  ASSUME NEW a \in Int, NEW b \in {0, 1}
  PROVE  (2 * a + b) \div 2 = a /\ (2 * a + b) % 2 = b
OBVIOUS

(* Each shift of a number is its partial number there.                       *)
LEMMA ShiftsOfNumber ==
  ASSUME NEW raw, NEW width \in Nat, NEW sign \in Int, NEW f, PartialNumbers(f, raw, width, sign)
  PROVE  \A k \in 0..width : ShiftRight(Number(raw, width, sign), k) = f[k]
<1> DEFINE v == Number(raw, width, sign)
<1> DEFINE S == { k \in 0..width : ShiftRight(v, k) = f[k] }
<1>1. 0 \in S
  BY ShiftMeans DEF PartialNumbers
<1>2. ASSUME NEW k \in 0..width, k < width, k \in S PROVE k + 1 \in S
  <2>1. k \in Nat /\ k \in 0..(width - 1) /\ k + 1 \in 0..width /\ ShiftRight(v, k) = f[k]
    BY <1>2
  <2>2. ShiftRight(v, k + 1) = ShiftRight(v, k) \div 2
    BY <2>1, ShiftMeans
  <2>3. f[k] = 2 * f[k + 1] + Bit(raw, k) /\ f[k + 1] \in Int
    BY <2>1 DEF PartialNumbers
  <2>4. Bit(raw, k) \in {0, 1}
    BY DEF Bit
  <2>5. f[k] \div 2 = f[k + 1]
    BY <2>3, <2>4, Halving
  <2>6. QED BY <2>1, <2>2, <2>5
<1> HIDE DEF S
<1>3. \A k \in 0..width : k \in S
  BY <1>1, <1>2, Upwards
<1>4. QED BY <1>3 DEF S

(* The bits of the number made of some bits are those bits.                  *)
LEMMA BitsOfNumber ==
  ASSUME NEW raw, NEW width \in Nat, NEW sign \in Int
  PROVE  /\ Number(raw, width, sign) \in Int
         /\ \A k \in BitMask(width) :
              ShiftRight(Number(raw, width, sign), k) % 2 = 1 <=> k \in raw
<1>1. PICK f : PartialNumbers(f, raw, width, sign)
  BY NumberMeans
<1>2. Number(raw, width, sign) \in Int
  BY <1>1 DEF PartialNumbers
<1>3. ASSUME NEW k \in BitMask(width)
      PROVE  ShiftRight(Number(raw, width, sign), k) % 2 = 1 <=> k \in raw
  <2>1. k \in 0..(width - 1) /\ k \in 0..width /\ k + 1 \in 0..width
    BY DEF BitMask
  <2>2. ShiftRight(Number(raw, width, sign), k) = f[k]
    BY <1>1, <2>1, ShiftsOfNumber
  <2>3. f[k] = 2 * f[k + 1] + Bit(raw, k) /\ f[k + 1] \in Int
    BY <1>1, <2>1 DEF PartialNumbers
  <2>4. Bit(raw, k) \in {0, 1}
    BY DEF Bit
  <2>5. f[k] % 2 = Bit(raw, k)
    BY <2>3, <2>4, Halving
  <2>6. QED BY <2>2, <2>5 DEF Bit
<1>4. QED BY <1>2, <1>3

LEMMA Halved ==
  ASSUME NEW a \in Int
  PROVE  a = 2 * (a \div 2) + (a % 2) /\ a % 2 \in {0, 1} /\ a \div 2 \in Int
OBVIOUS

(* The number made of a number's bits, with what lies above them, is it.     *)
LEMMA NumberOfBits ==
  ASSUME NEW value \in Int, NEW width \in Nat, NEW raw,
         \A k \in BitMask(width) : k \in raw <=> ShiftRight(value, k) % 2 = 1
  PROVE  Number(raw, width, ShiftRight(value, width)) = value
<1>1. ShiftRight(value, width) \in Int
  BY ShiftInt
<1>2. PICK f : PartialNumbers(f, raw, width, ShiftRight(value, width))
  BY <1>1, NumberMeans
<1> DEFINE S == { k \in 0..width : f[k] = ShiftRight(value, k) }
<1>3. width \in S
  BY <1>2 DEF PartialNumbers
<1>4. ASSUME NEW k \in 0..width, k < width, k + 1 \in S PROVE k \in S
  <2>1. k \in Nat /\ k \in 0..(width - 1) /\ k \in BitMask(width)
        /\ f[k + 1] = ShiftRight(value, k + 1)
    BY <1>4 DEF BitMask
  <2>2. f[k] = 2 * f[k + 1] + Bit(raw, k)
    BY <1>2, <2>1 DEF PartialNumbers
  <2>3. ShiftRight(value, k + 1) = ShiftRight(value, k) \div 2 /\ ShiftRight(value, k) \in Int
    BY <2>1, ShiftMeans, ShiftInt
  <2>4. k \in raw <=> ShiftRight(value, k) % 2 = 1
    BY <2>1
  <2>5. /\ ShiftRight(value, k) = 2 * (ShiftRight(value, k) \div 2) + (ShiftRight(value, k) % 2)
        /\ ShiftRight(value, k) % 2 \in {0, 1}
    BY <2>3, Halved
  <2>6. Bit(raw, k) = ShiftRight(value, k) % 2
    BY <2>4, <2>5 DEF Bit
  <2>7. QED BY <2>1, <2>2, <2>3, <2>5, <2>6
<1> HIDE DEF S
<1>5. \A k \in 0..width : k \in S
  BY <1>3, <1>4, Downwards
<1>6. f[0] = ShiftRight(value, 0)
  BY <1>5 DEF S
<1>7. QED BY <1>2, <1>6, ShiftMeans DEF PartialNumbers

LEMMA PlainNumber ==
  ASSUME NEW raw, NEW width \in Nat
  PROVE  /\ Number(raw, width, 0) \in Int
         /\ \E f : PartialNumbers(f, raw, width, 0)
<1>1. 0 \in Int
  OBVIOUS
<1>2. QED BY <1>1, NumberMeans, BitsOfNumber

(* More bits below make a number no smaller.                                 *)
LEMMA MoreBits ==
  ASSUME NEW raw, NEW more, NEW width \in Nat,
         \A k \in BitMask(width) : k \in raw => k \in more
  PROVE  0 <= Number(raw, width, 0) /\ Number(raw, width, 0) <= Number(more, width, 0)
<1>1. PICK f : PartialNumbers(f, raw, width, 0)
  BY PlainNumber
<1>2. PICK g : PartialNumbers(g, more, width, 0)
  BY PlainNumber
<1> DEFINE S == { k \in 0..width : 0 <= f[k] /\ f[k] <= g[k] }
<1>3. width \in S
  BY <1>1, <1>2 DEF PartialNumbers
<1>4. ASSUME NEW k \in 0..width, k < width, k + 1 \in S PROVE k \in S
  <2>1. k \in 0..(width - 1) /\ k + 1 \in 0..width /\ k \in BitMask(width)
        /\ 0 <= f[k + 1] /\ f[k + 1] <= g[k + 1]
    BY <1>4 DEF BitMask
  <2>2. /\ f[k] = 2 * f[k + 1] + Bit(raw, k) /\ f[k + 1] \in Int
        /\ g[k] = 2 * g[k + 1] + Bit(more, k) /\ g[k + 1] \in Int
    BY <1>1, <1>2, <2>1 DEF PartialNumbers
  <2>3. Bit(raw, k) \in {0, 1} /\ Bit(more, k) \in {0, 1} /\ Bit(raw, k) <= Bit(more, k)
    BY <2>1 DEF Bit
  <2>4. QED BY <2>1, <2>2, <2>3
<1> HIDE DEF S
<1>5. \A k \in 0..width : k \in S
  BY <1>3, <1>4, Downwards
<1>6. 0 <= f[0] /\ f[0] <= g[0]
  BY <1>5 DEF S
<1>7. QED BY <1>1, <1>2, <1>6 DEF PartialNumbers

(* Nothing lies above the bits of a number in the unsigned range.            *)
LEMMA UnsignedTop ==
  ASSUME NEW width \in Nat, NEW value \in UnsignedRange(width)
  PROVE  value \in Int /\ ShiftRight(value, width) = 0
<1>1. PICK f : PartialNumbers(f, BitMask(width), width, 0)
  BY PlainNumber
<1>2. value \in Int /\ 0 <= value /\ value <= f[0] /\ f[0] \in Int
  BY <1>1 DEF UnsignedRange, PartialNumbers
<1> DEFINE S == { k \in 0..width : 0 <= ShiftRight(value, k) /\ ShiftRight(value, k) <= f[k] }
<1>3. 0 \in S
  BY <1>2, ShiftMeans
<1>4. ASSUME NEW k \in 0..width, k < width, k \in S PROVE k + 1 \in S
  <2>1. k \in Nat /\ k \in 0..(width - 1) /\ k + 1 \in 0..width /\ k \in BitMask(width)
        /\ 0 <= ShiftRight(value, k) /\ ShiftRight(value, k) <= f[k]
    BY <1>4 DEF BitMask
  <2>2. f[k] = 2 * f[k + 1] + 1 /\ f[k + 1] \in Int
    BY <1>1, <2>1 DEF PartialNumbers, Bit
  <2>3. ShiftRight(value, k) \in Int
        /\ ShiftRight(value, k + 1) = ShiftRight(value, k) \div 2
    BY <1>2, <2>1, ShiftMeans, ShiftInt
  <2>4. ASSUME NEW a \in Int, NEW b \in Int, 0 <= a, a <= 2 * b + 1
        PROVE  0 <= a \div 2 /\ a \div 2 <= b
    BY <2>4
  <2>5. QED BY <2>1, <2>2, <2>3, <2>4
<1> HIDE DEF S
<1>5. \A k \in 0..width : k \in S
  BY <1>3, <1>4, Upwards
<1>6. 0 <= ShiftRight(value, width) /\ ShiftRight(value, width) <= f[width]
  BY <1>5 DEF S
<1>7. ShiftRight(value, width) \in Int
  BY <1>2, ShiftInt
<1>8. QED BY <1>1, <1>2, <1>6, <1>7 DEF PartialNumbers

(* The ends of the signed range, as partial numbers.                         *)
Ends(f, g, width) ==
  /\ f[width - 1] = 1 /\ g[width - 1] = 0
  /\ \A k \in 0..(width - 1) : f[k] \in Int /\ g[k] \in Int
  /\ \A k \in 0..(width - 2) : f[k] = 2 * f[k + 1] /\ g[k] = 2 * g[k + 1] + 1
  /\ SignedRange(width) = -f[0]..g[0]

LEMMA SignedEnds ==
  ASSUME NEW width \in Nat \ {0}
  PROVE  \E f, g : Ends(f, g, width)
<1>1. PICK f : PartialNumbers(f, {width - 1}, width, 0)
  BY PlainNumber
<1>2. PICK g : PartialNumbers(g, BitMask(width - 1), width, 0)
  BY PlainNumber
<1>3. width - 1 \in 0..(width - 1) /\ (width - 1) + 1 = width /\ width - 1 \notin BitMask(width - 1)
  BY DEF BitMask
<1>4. f[width - 1] = 1 /\ g[width - 1] = 0
  BY <1>1, <1>2, <1>3 DEF PartialNumbers, Bit
<1>5. ASSUME NEW k \in 0..(width - 2)
      PROVE  f[k] = 2 * f[k + 1] /\ g[k] = 2 * g[k + 1] + 1
  <2>1. k \in 0..(width - 1) /\ k # width - 1 /\ k \in BitMask(width - 1)
        /\ k + 1 \in 0..width
    BY DEF BitMask
  <2>2. f[k] = 2 * f[k + 1] + 0 /\ g[k] = 2 * g[k + 1] + 1 /\ f[k + 1] \in Int
    BY <1>1, <1>2, <2>1 DEF PartialNumbers, Bit
  <2>3. QED BY <2>2
<1>6. SignedRange(width) = -f[0]..g[0]
  BY <1>1, <1>2 DEF SignedRange, PartialNumbers
<1>7. \A k \in 0..(width - 1) : f[k] \in Int /\ g[k] \in Int
  BY <1>1, <1>2 DEF PartialNumbers
<1>8. QED BY <1>4, <1>5, <1>6, <1>7 DEF Ends

(* Above the bits of a number in the signed range lies its sign.             *)
LEMMA SignedTop ==
  ASSUME NEW width \in Nat \ {0}, NEW value \in SignedRange(width)
  PROVE  /\ value \in Int
         /\ ShiftRight(value, width) = IF ShiftRight(value, width - 1) % 2 = 1 THEN -1 ELSE 0
<1>1. PICK f, g : Ends(f, g, width)
  BY SignedEnds
<1> DEFINE n == width - 1
<1>2. n \in Nat /\ n + 1 = width /\ n - 1 = width - 2
  OBVIOUS
<1>3. f[0] \in Int /\ g[0] \in Int /\ value \in -f[0]..g[0]
  BY <1>1 DEF Ends
<1>4. value \in Int /\ -f[0] <= value /\ value <= g[0]
  BY <1>3
<1> DEFINE S == { k \in 0..n : -f[k] <= ShiftRight(value, k) /\ ShiftRight(value, k) <= g[k] }
<1>5. 0 \in S
  BY <1>2, <1>4, ShiftMeans
<1>6. ASSUME NEW k \in 0..n, k < n, k \in S PROVE k + 1 \in S
  <2>1. k \in Nat /\ k \in 0..(width - 2) /\ k + 1 \in 0..n
        /\ -f[k] <= ShiftRight(value, k) /\ ShiftRight(value, k) <= g[k]
    BY <1>2, <1>6
  <2>2. f[k] = 2 * f[k + 1] /\ g[k] = 2 * g[k + 1] + 1
        /\ f[k + 1] \in Int /\ g[k + 1] \in Int
    BY <1>1, <2>1 DEF Ends
  <2>3. ShiftRight(value, k) \in Int
        /\ ShiftRight(value, k + 1) = ShiftRight(value, k) \div 2
    BY <1>4, <2>1, ShiftMeans, ShiftInt
  <2>4. ASSUME NEW a \in Int, NEW b \in Int, NEW c \in Int, -(2 * c) <= a, a <= 2 * b + 1
        PROVE  -c <= a \div 2 /\ a \div 2 <= b
    BY <2>4
  <2>5. QED BY <2>1, <2>2, <2>3, <2>4
<1> HIDE DEF S
<1>7. \A k \in 0..n : k \in S
  BY <1>2, <1>5, <1>6, Upwards
<1>8. ShiftRight(value, n) \in {-1, 0}
  <2>1. ShiftRight(value, n) \in Int
    BY <1>2, <1>4, ShiftInt
  <2>2. -f[n] <= ShiftRight(value, n) /\ ShiftRight(value, n) <= g[n]
    BY <1>2, <1>7 DEF S
  <2>3. QED BY <1>1, <2>1, <2>2 DEF Ends
<1>9. ShiftRight(value, width) = ShiftRight(value, n) \div 2
  BY ZenonT(30), <1>2, ShiftMeans
<1>10. QED BY <1>4, <1>8, <1>9

(* What is made of bits and their sign is in the signed range.               *)
LEMMA SignedFits ==
  ASSUME NEW width \in Nat \ {0}, NEW raw
  PROVE  SignExtend(raw, width) \in SignedRange(width)
<1> DEFINE sign == IF width - 1 \in raw THEN -1 ELSE 0
<1>1. PICK f, g : Ends(f, g, width)
  BY SignedEnds
<1>2. PICK h : PartialNumbers(h, raw, width, sign)
  BY NumberMeans
<1> DEFINE n == width - 1
<1>3. n \in Nat /\ n + 1 = width /\ n \in 0..(width - 1) /\ n - 1 = width - 2
  OBVIOUS
<1> DEFINE S == { k \in 0..n : -f[k] <= h[k] /\ h[k] <= g[k] }
<1>4. n \in S
  <2>1. h[n] = 2 * h[width] + Bit(raw, n) /\ h[width] = sign
    BY <1>2, <1>3 DEF PartialNumbers
  <2>2. h[n] \in {-1, 0}
    BY <2>1 DEF Bit
  <2>3. f[n] = 1 /\ g[n] = 0
    BY <1>1 DEF Ends
  <2>4. QED BY <1>3, <2>2, <2>3
<1>5. ASSUME NEW k \in 0..n, k < n, k + 1 \in S PROVE k \in S
  <2>1. k \in 0..(width - 2) /\ k \in 0..(width - 1) /\ k + 1 \in 0..n /\ k + 1 \in 0..width
        /\ -f[k + 1] <= h[k + 1] /\ h[k + 1] <= g[k + 1]
    BY <1>3, <1>5
  <2>2. f[k] = 2 * f[k + 1] /\ g[k] = 2 * g[k + 1] + 1
        /\ f[k + 1] \in Int /\ g[k + 1] \in Int
    BY <1>1, <2>1 DEF Ends
  <2>3. h[k] = 2 * h[k + 1] + Bit(raw, k) /\ h[k + 1] \in Int /\ Bit(raw, k) \in {0, 1}
    BY <1>2, <2>1 DEF PartialNumbers, Bit
  <2>4. ASSUME NEW a \in Int, NEW b \in Int, NEW c \in Int, NEW d \in {0, 1}, -c <= a, a <= b
        PROVE  -(2 * c) <= 2 * a + d /\ 2 * a + d <= 2 * b + 1
    BY <2>4
  <2>5. QED BY <2>1, <2>2, <2>3, <2>4
<1> HIDE DEF S
<1>6. \A k \in 0..n : k \in S
  BY <1>3, <1>4, <1>5, Downwards
<1>7. -f[0] <= h[0] /\ h[0] <= g[0]
  BY <1>3, <1>6 DEF S
<1>8. h[0] = Number(raw, width, sign) /\ h[0] \in Int
  BY <1>2 DEF PartialNumbers
<1>9. Number(raw, width, sign) = SignExtend(raw, width)
  BY DEF SignExtend
<1>10. f[0] \in Int /\ g[0] \in Int /\ SignedRange(width) = -f[0]..g[0]
  BY <1>1 DEF Ends
<1> HIDE DEF sign, n
<1>11. QED BY <1>7, <1>8, <1>9, <1>10

-----------------------------------------------------------------------------
(***************************************************************************)
(* Fields.                                                                  *)
(***************************************************************************)
LEMMA RawInside ==
  ASSUME NEW f, FieldWellFormed(f), NEW word
  PROVE  Raw(f, word) \subseteq CarriedBits(f) /\ Raw(f, word) \subseteq BitMask(f.width)
<1>1. Raw(f, word) \subseteq CarriedBits(f)
  BY DEF Raw, CarriedBits, ValueBits
<1>2. QED BY <1>1 DEF FieldWellFormed

(* The bits of a value read are the bits it was read from, and it is a value  *)
(* the field can hold (ExtractFieldValue against EncodeFieldBits, FitsField). *)
LEMMA ReadValue ==
  ASSUME NEW f, FieldWellFormed(f), NEW word
  PROVE  /\ EncodeFieldBits(f, ExtractFieldValue(f, word)) = Raw(f, word)
         /\ FitsField(f, ExtractFieldValue(f, word))
<1> DEFINE raw == Raw(f, word)
           value == ExtractFieldValue(f, word)
<1>1. raw \subseteq BitMask(f.width) /\ f.width \in Nat
  BY RawInside DEF FieldWellFormed
<1>2. PICK sign \in {-1, 0} :
         /\ value = Number(raw, f.width, sign)
         /\ ~f.signed => sign = 0
         /\ f.signed => value = SignExtend(raw, f.width)
         /\ f.width = 0 => sign = 0
  <2>1. CASE f.signed
    <3>1. value = SignExtend(raw, f.width)
      BY <2>1 DEF ExtractFieldValue
    <3>2. CASE f.width > 0 /\ f.width - 1 \in raw
      <4>1. value = Number(raw, f.width, -1)
        BY <3>1, <3>2 DEF SignExtend
      <4>2. f.width # 0 /\ -1 \in {-1, 0}
        BY <3>2
      <4>3. QED BY <2>1, <3>1, <4>1, <4>2
    <3>3. CASE ~(f.width > 0 /\ f.width - 1 \in raw)
      <4>1. value = Number(raw, f.width, 0)
        BY <3>1, <3>3 DEF SignExtend
      <4>2. QED BY <2>1, <3>1, <4>1
    <3>4. QED BY <3>2, <3>3
  <2>2. CASE ~f.signed
    <3>1. value = Number(raw, f.width, 0)
      BY <2>2 DEF ExtractFieldValue
    <3>2. QED BY <2>2, <3>1
  <2>3. QED BY <2>1, <2>2
<1> HIDE DEF value, raw
<1>3. sign \in Int
  BY <1>2
<1>4. EncodeFieldBits(f, value) = raw
  <2>1. \A k \in BitMask(f.width) : ShiftRight(value, k) % 2 = 1 <=> k \in raw
    BY <1>1, <1>2, <1>3, BitsOfNumber
  <2>2. QED BY <1>1, <2>1 DEF EncodeFieldBits
<1>5. FitsField(f, value)
  <2>1. CASE f.width = 0
    <3>1. PICK g : PartialNumbers(g, raw, f.width, 0)
      BY <1>1, PlainNumber
    <3>2. value = 0
      BY <1>2, <2>1, <3>1 DEF PartialNumbers
    <3>3. QED BY <2>1, <3>2 DEF FitsField
  <2>2. CASE f.width # 0 /\ f.signed
    <3>1. value \in SignedRange(f.width)
      BY <1>1, <1>2, <2>2, SignedFits
    <3>2. QED BY <2>2, <3>1 DEF FitsField
  <2>3. CASE f.width # 0 /\ ~f.signed
    <3>1. value = Number(raw, f.width, 0)
      BY <1>2, <2>3
    <3>2. 0 <= value /\ value <= Number(BitMask(f.width), f.width, 0)
      BY <1>1, <3>1, MoreBits
    <3>3. Number(BitMask(f.width), f.width, 0) \in Int /\ value \in Int
      BY <1>1, <3>1, PlainNumber
    <3>4. value \in UnsignedRange(f.width)
      BY <3>1, <3>2, <3>3 DEF UnsignedRange
    <3>5. QED BY <2>3, <3>4 DEF FitsField
  <2>4. QED BY <2>1, <2>2, <2>3
<1>6. QED BY <1>4, <1>5 DEF value, raw

(* A value the field can hold is the one read back from its bits.            *)
LEMMA ValueReadBack ==
  ASSUME NEW f, FieldWellFormed(f), NEW word, NEW value, FitsField(f, value),
         Raw(f, word) = EncodeFieldBits(f, value)
  PROVE  ExtractFieldValue(f, word) = value
<1> DEFINE raw == Raw(f, word)
<1>1. f.width \in Nat
  BY DEF FieldWellFormed
<1>2. \A k \in BitMask(f.width) : k \in raw <=> ShiftRight(value, k) % 2 = 1
  BY DEF EncodeFieldBits
<1>3. CASE f.width = 0
  <2>1. value = 0
    BY <1>3 DEF FitsField
  <2>2. ShiftRight(value, f.width) = 0
    BY <1>3, <2>1, ShiftMeans
  <2>3. Number(raw, f.width, 0) = value
    BY <1>1, <1>2, <2>1, <2>2, NumberOfBits
  <2>4. ExtractFieldValue(f, word) = Number(raw, f.width, 0)
    BY <1>3 DEF ExtractFieldValue, SignExtend
  <2>5. QED BY <2>3, <2>4
<1>4. CASE f.width # 0 /\ f.signed
  <2>1. f.width \in Nat \ {0} /\ value \in SignedRange(f.width)
    BY <1>1, <1>4 DEF FitsField
  <2>2. /\ value \in Int
        /\ ShiftRight(value, f.width)
             = IF ShiftRight(value, f.width - 1) % 2 = 1 THEN -1 ELSE 0
    BY <2>1, SignedTop
  <2>3. f.width > 0 /\ f.width - 1 \in BitMask(f.width)
    BY <2>1 DEF BitMask
  <2>4. ShiftRight(value, f.width) = IF f.width > 0 /\ f.width - 1 \in raw THEN -1 ELSE 0
    BY <1>2, <2>2, <2>3
  <2>5. Number(raw, f.width, ShiftRight(value, f.width)) = value
    BY <1>1, <1>2, <2>2, NumberOfBits
  <2>6. SignExtend(raw, f.width) = value
    BY <2>4, <2>5 DEF SignExtend
  <2>7. QED BY <1>4, <2>6 DEF ExtractFieldValue
<1>5. CASE f.width # 0 /\ ~f.signed
  <2>1. value \in UnsignedRange(f.width)
    BY <1>5 DEF FitsField
  <2>2. value \in Int /\ ShiftRight(value, f.width) = 0
    BY <1>1, <2>1, UnsignedTop
  <2>3. Number(raw, f.width, 0) = value
    BY <1>1, <1>2, <2>2, NumberOfBits
  <2>4. QED BY <1>5, <2>3 DEF ExtractFieldValue
<1>6. QED BY <1>3, <1>4, <1>5

(* The field a name stands for in a form is one.                             *)
LEMMA NamedField ==
  ASSUME NEW form \in Forms, NEW f \in FieldsFor(form), NEW g \in FieldsFor(form),
         f.name = g.name
  PROVE  f = g
<1>1. \A j, k \in 1..Len(form.fields) : j # k => form.fields[j].name # form.fields[k].name
  BY FormAssumption DEF FormWellFormed
<1>2. PICK j \in 1..Len(form.fields), k \in 1..Len(form.fields) :
        f = form.fields[j] /\ g = form.fields[k]
  BY DEF FieldsFor
<1>3. QED BY <1>1, <1>2

LEMMA DecodedField ==
  ASSUME NEW form \in Forms, NEW word, NEW f \in FieldsFor(form)
  PROVE  /\ f.name \in DOMAIN DecodedFields(form, word)
         /\ DecodedFields(form, word)[f.name].value = ExtractFieldValue(f, word)
<1> DEFINE g == CHOOSE e \in FieldsFor(form) : e.name = f.name
<1>1. g \in FieldsFor(form) /\ g.name = f.name
  OBVIOUS
<1>2. g = f
  BY <1>1, NamedField
<1>3. f.name \in { e.name : e \in FieldsFor(form) }
  OBVIOUS
<1>4. DecodedFields(form, word)[f.name]
        = [value |-> ExtractFieldValue(g, word), width |-> g.width]
  BY Zenon, <1>3 DEF DecodedFields
<1> HIDE DEF g
<1>5. DecodedFields(form, word)[f.name].value = ExtractFieldValue(g, word)
  BY <1>4
<1>6. QED BY <1>2, <1>3, <1>5 DEF DecodedFields

LEMMA JoinedAt ==
  ASSUME NEW S, NEW a \in Seq(S), NEW b \in Seq(S)
  PROVE  /\ DOMAIN (a \o b) = 1..(Len(a) + Len(b))
         /\ \A i \in 1..Len(a) : (a \o b)[i] = a[i]
         /\ \A i \in 1..Len(b) : (a \o b)[Len(a) + i] = b[i]
OBVIOUS

LEMMA ListOf ==
  ASSUME NEW n \in Nat, NEW S, NEW a \in [1..n -> S]
  PROVE  a \in Seq(S) /\ Len(a) = n
OBVIOUS

(* EncodeMinst succeeds when no field and no constraint fails.               *)
AllPass(form, fields) ==
  /\ \A i \in 1..Len(form.fields) : FieldVerdict(form.fields[i], fields) = "Ok"
  /\ \A i \in 1..Len(form.constraints) : ConstraintVerdict(form.constraints[i], fields) = "Ok"

LEMMA EncodeSucceeds ==
  ASSUME NEW form \in Forms, NEW fields
  PROVE  EncodeStatus(form, fields) = "Ok" <=> AllPass(form, fields)
<1> DEFINE m == Len(form.fields)
           n == Len(form.constraints)
           first == [i \in 1..m |-> FieldVerdict(form.fields[i], fields)]
           second == [i \in 1..n |-> ConstraintVerdict(form.constraints[i], fields)]
           verdicts == first \o second
           failed == { i \in DOMAIN verdicts : verdicts[i] # "Ok" }
<1>1. m \in Nat /\ n \in Nat /\ form # NoForm
  <2>1. m \in Nat /\ n \in Nat /\ form.length \in Lengths
    BY FormAssumption DEF FormWellFormed
  <2>2. NoForm.length = 0
    BY DEF NoForm
  <2>3. 0 \notin Lengths
    BY LengthAssumption
  <2>4. ASSUME form = NoForm PROVE FALSE
    <3>1. form.length = NoForm.length
      BY <2>4
    <3> HIDE DEF m, n
    <3>2. form.length = 0
      BY <2>2, <3>1
    <3>3. QED BY <2>1, <2>3, <3>2
  <2>5. QED BY <2>1, <2>4
<1>2. EncodeStatus(form, fields) = IF failed = {} THEN "Ok" ELSE verdicts[Min(failed)]
  BY <1>1 DEF EncodeStatus
<1>3. /\ Len(first) = m /\ Len(second) = n
      /\ first \in Seq({ first[i] : i \in 1..m }) /\ second \in Seq({ second[i] : i \in 1..n })
  <2> HIDE DEF m, n
  <2>1. /\ first \in [1..m -> { first[i] : i \in 1..m }]
        /\ second \in [1..n -> { second[i] : i \in 1..n }]
    OBVIOUS
  <2> HIDE DEF first, second
  <2>2. QED BY <1>1, <2>1, ListOf
<1>4. /\ \A i \in 1..m : first[i] = FieldVerdict(form.fields[i], fields)
      /\ \A i \in 1..n : second[i] = ConstraintVerdict(form.constraints[i], fields)
  OBVIOUS
<1> HIDE DEF first, second, m, n
<1>5. /\ DOMAIN verdicts = 1..(m + n)
      /\ \A i \in 1..m : verdicts[i] = first[i]
      /\ \A i \in 1..n : verdicts[m + i] = second[i]
  <2>1. /\ first \in Seq({ first[i] : i \in 1..m } \cup { second[i] : i \in 1..n })
        /\ second \in Seq({ first[i] : i \in 1..m } \cup { second[i] : i \in 1..n })
    BY <1>1, <1>3
  <2>2. /\ DOMAIN (first \o second) = 1..(Len(first) + Len(second))
        /\ \A i \in 1..Len(first) : (first \o second)[i] = first[i]
        /\ \A i \in 1..Len(second) : (first \o second)[Len(first) + i] = second[i]
    BY <2>1, JoinedAt
  <2>3. QED BY Zenon, <1>3, <2>2
<1> HIDE DEF verdicts
<1>6. failed # {} => verdicts[Min(failed)] # "Ok"
  <2>1. failed \in SUBSET Nat
    BY <1>1, <1>5
  <2>2. ASSUME failed # {} PROVE Min(failed) \in failed
    <3>1. \E x \in failed : \A y \in failed : x <= y
      BY <2>1, <2>2, NatHasMinimum
    <3> HIDE DEF failed
    <3>2. QED BY <3>1 DEF Min
  <2>3. QED BY <2>2
<1>7. failed = {} <=> \A i \in DOMAIN verdicts : verdicts[i] = "Ok"
  OBVIOUS
<1> HIDE DEF failed
<1>8. (\A i \in DOMAIN verdicts : verdicts[i] = "Ok") <=> AllPass(form, fields)
  <2>1. ASSUME \A i \in DOMAIN verdicts : verdicts[i] = "Ok" PROVE AllPass(form, fields)
    <3>1. ASSUME NEW i \in 1..m PROVE first[i] = "Ok"
      BY <1>1, <1>5, <2>1
    <3>2. ASSUME NEW i \in 1..n PROVE second[i] = "Ok"
      <4>1. m + i \in 1..(m + n)
        BY <1>1
      <4>2. QED BY <1>5, <2>1, <4>1
    <3>3. QED BY <1>4, <3>1, <3>2 DEF AllPass, m, n
  <2>2. ASSUME AllPass(form, fields), NEW i \in DOMAIN verdicts PROVE verdicts[i] = "Ok"
    <3>1. (\A j \in 1..m : first[j] = "Ok") /\ (\A j \in 1..n : second[j] = "Ok")
      BY <1>4, <2>2 DEF AllPass, m, n
    <3>2. CASE i \in 1..m
      BY <1>5, <3>1, <3>2
    <3>3. CASE i \notin 1..m
      <4>1. i - m \in 1..n /\ m + (i - m) = i
        BY <1>1, <1>5, <2>2, <3>3
      <4>2. QED BY <1>5, <3>1, <4>1
    <3>4. QED BY <3>2, <3>3
  <2>3. QED BY <2>1, <2>2
<1>9. QED BY <1>2, <1>6, <1>7, <1>8

LEMMA PassesMean ==
  ASSUME NEW form \in Forms, NEW fields, AllPass(form, fields)
  PROVE  /\ \A f \in FieldsFor(form) :
              f.name \in DOMAIN fields /\ FitsField(f, fields[f.name].value)
         /\ \A i \in 1..Len(form.constraints) :
              EvaluateConstraint(form.constraints[i].op,
                                 fields[form.constraints[i].field].value,
                                 form.constraints[i].value)
<1>1. ASSUME NEW f \in FieldsFor(form)
      PROVE  f.name \in DOMAIN fields /\ FitsField(f, fields[f.name].value)
  <2>1. FieldVerdict(f, fields) = "Ok"
    BY DEF AllPass, FieldsFor
  <2>2. QED BY <2>1 DEF FieldVerdict
<1>2. ASSUME NEW i \in 1..Len(form.constraints)
      PROVE  EvaluateConstraint(form.constraints[i].op,
                                fields[form.constraints[i].field].value,
                                form.constraints[i].value)
  <2>1. ConstraintVerdict(form.constraints[i], fields) = "Ok"
    BY DEF AllPass
  <2>2. QED BY <2>1 DEF ConstraintVerdict
<1>3. QED BY <1>1, <1>2

LEMMA EncodedInLength ==
  ASSUME NEW form \in Forms, NEW fields
  PROVE  Truncated(EncodedBits(form, fields), form.length) = EncodedBits(form, fields)
<1>1. /\ form.match \subseteq form.mask
      /\ form.mask \cup UNION { FieldBits(f) : f \in FieldsFor(form) } = BitMask(form.length)
  BY FormAssumption DEF FormWellFormed
<1>2. \A f \in FieldsFor(form) : \A value : PlacedBits(f, value) \subseteq FieldBits(f)
  BY DEF PlacedBits, FieldBits, InsnBits
<1>3. EncodedBits(form, fields) \subseteq BitMask(form.length)
  <2>1. ASSUME NEW b \in EncodedBits(form, fields) PROVE b \in BitMask(form.length)
    <3>1. CASE b \in form.match
      BY <1>1, <3>1
    <3>2. CASE b \notin form.match
      <4>1. PICK f \in FieldsFor(form) : b \in PlacedBits(f, fields[f.name].value)
        BY <3>2 DEF EncodedBits
      <4>2. b \in FieldBits(f)
        BY <1>2, <4>1
      <4>3. QED BY <1>1, <4>2
    <3>3. QED BY <3>1, <3>2
  <2>2. QED BY <2>1
<1>4. QED BY <1>3 DEF Truncated

(* The constraints the encoder checked hold of the word it made: a field of   *)
(* a constraint has room for every bit.                                      *)
LEMMA EncodedMeetsConstraints ==
  ASSUME NEW form \in Forms, NEW fields, AllPass(form, fields)
  PROVE  ConstraintsOk(form, EncodedBits(form, fields))
<1> DEFINE word == EncodedBits(form, fields)
<1>1. ASSUME NEW i \in 1..Len(form.constraints)
      PROVE  \E f \in FieldsFor(form) :
               /\ f.name = form.constraints[i].field
               /\ EvaluateConstraint(form.constraints[i].op, ExtractFieldValue(f, word),
                                     form.constraints[i].value)
  <2>1. PICK f \in FieldsFor(form) :
          f.name = form.constraints[i].field /\ CarriedBits(f) = BitMask(f.width)
    BY FormAssumption DEF FormWellFormed
  <2>2. FieldWellFormed(f)
    BY FormAssumption DEF FormWellFormed
  <2>3. Raw(f, word) = EncodeFieldBits(f, fields[f.name].value) \cap CarriedBits(f)
    BY EncodedBitsReadBack
  <2>4. Raw(f, word) = EncodeFieldBits(f, fields[f.name].value)
    BY <2>1, <2>3 DEF EncodeFieldBits
  <2>5. FitsField(f, fields[f.name].value)
    BY PassesMean
  <2>6. ExtractFieldValue(f, word) = fields[f.name].value
    BY <2>2, <2>4, <2>5, ValueReadBack
  <2>7. EvaluateConstraint(form.constraints[i].op,
                           fields[form.constraints[i].field].value,
                           form.constraints[i].value)
    BY PassesMean
  <2>8. QED BY <2>1, <2>6, <2>7
<1>2. QED BY <1>1 DEF ConstraintsOk

(* A field writes back the bits it was read from, and no others.             *)
LEMMA PlacedWhereRead ==
  ASSUME NEW f, FieldWellFormed(f), NEW word
  PROVE  PlacedBits(f, ExtractFieldValue(f, word)) = word \cap FieldBits(f)
<1> DEFINE raw == Raw(f, word)
           value == ExtractFieldValue(f, word)
<1>1. EncodeFieldBits(f, value) = raw
  BY ReadValue
<1>2. ASSUME NEW p \in PiecesFor(f), NEW k \in BitMask(p.width)
      PROVE  p.value_lsb + k \in raw <=> p.insn_lsb + k \in word
  <2>1. ASSUME p.insn_lsb + k \in word PROVE p.value_lsb + k \in raw
    BY <2>1 DEF Raw
  <2>2. ASSUME p.value_lsb + k \in raw PROVE p.insn_lsb + k \in word
    <3>1. PICK q \in PiecesFor(f) : \E i \in BitMask(q.width) :
            p.value_lsb + k = q.value_lsb + i /\ q.insn_lsb + i \in word
      BY <2>2 DEF Raw
    <3>2. PICK i \in BitMask(q.width) :
            p.value_lsb + k = q.value_lsb + i /\ q.insn_lsb + i \in word
      BY <3>1
    <3>3. p.value_lsb + k \in ValueBits(p) /\ p.value_lsb + k \in ValueBits(q)
      BY <3>2 DEF ValueBits
    <3>4. q = p
      BY <3>3 DEF FieldWellFormed
    <3>5. p.value_lsb \in Nat /\ p.width \in Nat
      BY DEF FieldWellFormed, PieceWellFormed
    <3>6. i = k
      BY <3>2, <3>4, <3>5 DEF BitMask
    <3>7. QED BY <3>2, <3>4, <3>6
  <2>3. QED BY <2>1, <2>2
<1>3. PlacedBits(f, value) =
        UNION { { p.insn_lsb + i : i \in { k \in BitMask(p.width) : p.value_lsb + k \in raw } }
                : p \in PiecesFor(f) }
  BY <1>1 DEF PlacedBits
<1> HIDE DEF raw, value
<1>4. PlacedBits(f, value) =
        UNION { { p.insn_lsb + i : i \in { k \in BitMask(p.width) : p.insn_lsb + k \in word } }
                : p \in PiecesFor(f) }
  BY <1>2, <1>3
<1>5. PlacedBits(f, value) = word \cap FieldBits(f)
  BY <1>4 DEF FieldBits, InsnBits
<1>6. QED BY <1>5 DEF value

(* A word that a form accepts encodes from the values read of it, to itself.  *)
THEOREM AcceptedWordReencodes ==
  \A form \in Forms : \A word \in SUBSET BitMask(form.length) :
    Accepts(form, word, form.length) =>
      /\ EncodeStatus(form, DecodedFields(form, word)) = "Ok"
      /\ EncodedBits(form, DecodedFields(form, word)) = word
<1> SUFFICES ASSUME NEW form \in Forms, NEW word \in SUBSET BitMask(form.length),
                    Accepts(form, word, form.length)
             PROVE  /\ EncodeStatus(form, DecodedFields(form, word)) = "Ok"
                    /\ EncodedBits(form, DecodedFields(form, word)) = word
  OBVIOUS
<1> DEFINE fields == DecodedFields(form, word)
<1>1. FixedMatch(form, word, form.length) /\ ConstraintsOk(form, word)
  BY DEF Accepts
<1>2. /\ form.match \subseteq form.mask
      /\ form.mask \cup UNION { FieldBits(f) : f \in FieldsFor(form) } = BitMask(form.length)
      /\ \A f \in FieldsFor(form) : FieldWellFormed(f) /\ form.mask \cap FieldBits(f) = {}
  BY FormAssumption DEF FormWellFormed
<1>3. \A f \in FieldsFor(form) :
        /\ f.name \in DOMAIN fields
        /\ fields[f.name].value = ExtractFieldValue(f, word)
  BY DecodedField
<1> HIDE DEF fields
<1>4. AllPass(form, fields)
  <2>1. ASSUME NEW i \in 1..Len(form.fields)
        PROVE  FieldVerdict(form.fields[i], fields) = "Ok"
    <3>1. form.fields[i] \in FieldsFor(form)
      BY DEF FieldsFor
    <3>2. FitsField(form.fields[i], fields[form.fields[i].name].value)
      BY <1>2, <1>3, <3>1, ReadValue
    <3>3. QED BY <1>3, <3>1, <3>2 DEF FieldVerdict
  <2>2. ASSUME NEW i \in 1..Len(form.constraints)
        PROVE  ConstraintVerdict(form.constraints[i], fields) = "Ok"
    <3>1. PICK f \in FieldsFor(form) :
            /\ f.name = form.constraints[i].field
            /\ EvaluateConstraint(form.constraints[i].op, ExtractFieldValue(f, word),
                                  form.constraints[i].value)
      BY <1>1 DEF ConstraintsOk
    <3>2. QED BY <1>3, <3>1 DEF ConstraintVerdict
  <2>3. QED BY <2>1, <2>2 DEF AllPass
<1>5. EncodedBits(form, fields) = word
  <2>1. \A f \in FieldsFor(form) :
          PlacedBits(f, fields[f.name].value) = word \cap FieldBits(f)
    BY <1>2, <1>3, PlacedWhereRead
  <2>2. form.match = word \cap form.mask
    BY <1>1, <1>2 DEF FixedMatch
  <2>3. form.match \ UNION { FieldBits(f) : f \in FieldsFor(form) } = word \cap form.mask
    BY <1>2, <2>2
  <2>4. UNION { PlacedBits(f, fields[f.name].value) : f \in FieldsFor(form) }
          = word \cap UNION { FieldBits(f) : f \in FieldsFor(form) }
    BY <2>1
  <2>5. EncodedBits(form, fields)
          = (word \cap form.mask) \cup (word \cap UNION { FieldBits(f) : f \in FieldsFor(form) })
    BY <2>3, <2>4 DEF EncodedBits
  <2>6. QED BY <1>2, <2>5
<1>6. QED BY <1>4, <1>5, EncodeSucceeds DEF fields

-----------------------------------------------------------------------------
(***************************************************************************)
(* The packet.  Its members never change in number, so that an assignment to *)
(* one of them always takes effect.                                         *)
(***************************************************************************)
PacketMembers ==
  {"raw_bits", "length_bits", "form", "decoded_fields", "decode_status",
   "encode_status", "opcode_class", "is_branch", "is_control", "srcs", "dsts",
   "immediates", "memory", "stage", "lifecycle"}
Whole(i) == i = [k \in PacketMembers |-> i[k]]

(* The facts about a packet that every operation keeps.                      *)
PacketOK(i) ==
  /\ Whole(i)
  /\ i.form \in Forms \cup {NoForm}
  /\ i.length_bits \in Lengths \cup {0}
  /\ i.stage \in Stages \cup {"Retire", "Flush", "Dfx"}
  /\ i.lifecycle \in Lifecycles
  /\ i.opcode_class \in Classes
  /\ i.form # NoForm => i.length_bits = i.form.length
  /\ i.lifecycle = "Allocated" => i.stage = "Fetch"

IInv ==
  /\ PacketOK(inst)
  /\ edits \in 0..MaxEdits
  /\ DecodeForgets

LEMMA BlankOK ==
  /\ PacketOK(Blank)
  /\ \A word, length : length \in Lengths => PacketOK(CreateFetch(word, length))
<1>1. Whole(Blank)
  BY DEF Whole, PacketMembers, Blank
<1>2. PacketOK(Blank)
  BY <1>1 DEF PacketOK, Blank, Stages, Lifecycles, Classes
<1>3. ASSUME NEW word, NEW length \in Lengths
      PROVE  PacketOK(CreateFetch(word, length))
  <2>1. Whole(CreateFetch(word, length))
    BY ZenonT(60) DEF CreateFetch, Whole, PacketMembers, Blank
  <2>2. QED BY <2>1 DEF PacketOK, CreateFetch, Blank, Stages, Lifecycles, Classes
<1>4. QED BY <1>2, <1>3

(* The operations an owner has but decoding.                                 *)
LEMMA EditsOK ==
  ASSUME NEW i, PacketOK(i)
  PROVE  /\ \A form \in Forms \cup {NoForm} : PacketOK(SetForm(i, form))
         /\ \A name, value, width : PacketOK(SetDecodedField(i, name, value, width))
         /\ \A s \in Stages : PacketOK(StageOf(i, s))
<1>1. ASSUME NEW form \in Forms \cup {NoForm} PROVE PacketOK(SetForm(i, form))
  <2>1. form # NoForm => form.length \in Lengths
    BY FormAssumption DEF FormWellFormed
  <2>2. Whole(SetForm(i, form))
    BY DEF SetForm, PacketOK, Whole, PacketMembers
  <2>3. QED BY <2>1, <2>2 DEF SetForm, PacketOK, Whole, PacketMembers
<1>2. ASSUME NEW name, NEW value, NEW width
      PROVE  PacketOK(SetDecodedField(i, name, value, width))
  <2>1. Whole(SetDecodedField(i, name, value, width))
    BY DEF SetDecodedField, PacketOK, Whole, PacketMembers
  <2>2. QED BY <2>1 DEF SetDecodedField, PacketOK, Whole, PacketMembers
<1>3. ASSUME NEW s \in Stages PROVE PacketOK(StageOf(i, s))
  <2>1. Whole(StageOf(i, s))
    BY DEF StageOf, PacketOK, Whole, PacketMembers
  <2>2. QED BY <2>1 DEF StageOf, PacketOK, Whole, PacketMembers, Lifecycles, Stages
<1>4. QED BY <1>1, <1>2, <1>3

LEMMA ClassOfIsClass == ASSUME NEW i, PacketOK(i) PROVE ClassOf(i) \in Classes
BY DEF ClassOf, PacketOK, Classes

LEMMA RebuildOK == ASSUME NEW i, PacketOK(i) PROVE PacketOK(RebuildTypedViews(i))
<1>1. Whole(RebuildTypedViews(i))
  BY ZenonT(60) DEF RebuildTypedViews, PacketOK, Whole, PacketMembers
<1>2. QED BY <1>1, ClassOfIsClass DEF RebuildTypedViews, PacketOK, Whole, PacketMembers

LEMMA WholeEqual ==
  ASSUME NEW i, NEW j, Whole(i), Whole(j), \A k \in PacketMembers : i[k] = j[k]
  PROVE  i = j
BY DEF Whole

(* What the typed views are made of, and what they leave alone.              *)
ViewsOf(r, i) ==
  /\ r.opcode_class = ClassOf(i)
  /\ r.is_branch    = (ClassOf(i) = "Branch")
  /\ r.is_control   = (ClassOf(i) \in {"Branch", "System"})
  /\ r.srcs = Operands(i.decoded_fields, SourceFields)
  /\ r.dsts = Operands(i.decoded_fields, DestinationFields \ SourceFields)
  /\ r.immediates = [n \in DOMAIN i.decoded_fields \cap ImmediateFields
                       |-> i.decoded_fields[n].value]
  /\ r.memory = MemoryOf(ClassOf(i), i.decoded_fields)

SameButViews(r, i) ==
  /\ r.raw_bits = i.raw_bits /\ r.length_bits = i.length_bits
  /\ r.form = i.form /\ r.decoded_fields = i.decoded_fields
  /\ r.decode_status = i.decode_status /\ r.encode_status = i.encode_status
  /\ r.stage = i.stage /\ r.lifecycle = i.lifecycle

LEMMA Rebuilt ==
  ASSUME NEW i, PacketOK(i)
  PROVE  /\ ViewsOf(RebuildTypedViews(i), i)
         /\ SameButViews(RebuildTypedViews(i), i)
BY DEF RebuildTypedViews, PacketOK, Whole, PacketMembers, ViewsOf, SameButViews

(* Views made of the same members are the same.                              *)
LEMMA ViewsDetermined ==
  ASSUME NEW i, NEW j, NEW r, NEW q, Whole(r), Whole(q),
         SameButViews(r, q), ViewsOf(r, i), ViewsOf(q, j),
         i.decoded_fields = j.decoded_fields, ClassOf(i) = ClassOf(j)
  PROVE  r = q
<1>1. r.is_branch = q.is_branch /\ r.is_control = q.is_control
  BY DEF ViewsOf
<1>2. \A k \in PacketMembers : r[k] = q[k]
  BY <1>1 DEF ViewsOf, SameButViews, PacketMembers
<1>3. QED BY <1>2, WholeEqual

-----------------------------------------------------------------------------
(***************************************************************************)
(* Decoding.                                                                *)
(***************************************************************************)
(* On status Ok there is a form, of the length that was asked for.           *)
LEMMA OkHasForm ==
  ASSUME NEW bits, NEW length, DecodeStatus(bits, length) = "Ok"
  PROVE  LET form == CHOOSE f \in ValidMatches(bits, length) : TRUE
         IN  form \in Forms /\ form.length = length /\ length \in Lengths
<1>1. length \in Lengths /\ ValidMatches(bits, length) # {}
  BY DEF DecodeStatus
<1>2. \A f \in ValidMatches(bits, length) : f \in Forms /\ f.length = length
  BY DEF ValidMatches, FixedMatch
<1>3. QED BY <1>1, <1>2

(* A cleared packet is the default packet at its stage, with the new bits.   *)
LEMMA Cleared ==
  ASSUME NEW i, NEW bits, NEW length, NEW c,
         c = SetRawEncoding(ClearDecodedState(i), bits, length)
  PROVE  /\ Whole(c)
         /\ c.raw_bits = bits /\ c.length_bits = length
         /\ c.stage = i.stage /\ c.lifecycle = i.lifecycle
         /\ \A k \in PacketMembers \ {"raw_bits", "length_bits", "stage", "lifecycle"} :
              c[k] = Blank[k]
<1>1. Whole(Blank)
  BY BlankOK DEF PacketOK
<1> DEFINE b == ClearDecodedState(i)
<1>2. /\ Whole(b)
      /\ b.stage = i.stage /\ b.lifecycle = i.lifecycle
      /\ \A k \in PacketMembers \ {"raw_bits", "length_bits", "stage", "lifecycle"} :
           b[k] = Blank[k]
  BY <1>1 DEF ClearDecodedState, Whole, PacketMembers
<1> HIDE DEF b
<1>3. c = SetRawEncoding(b, bits, length)
  BY DEF b
<1>4. QED BY <1>2, <1>3 DEF SetRawEncoding, Whole, PacketMembers

(* Two packets but for where they stand.                                     *)
SameButPlace(p, q) ==
  \A k \in PacketMembers \ {"stage", "lifecycle"} : p[k] = q[k]

LEMMA PlaceApart ==
  ASSUME NEW p, NEW q, Whole(p), Whole(q)
  PROVE  p = [q EXCEPT !.stage = p.stage, !.lifecycle = p.lifecycle] <=> SameButPlace(p, q)
<1> DEFINE m == [q EXCEPT !.stage = p.stage, !.lifecycle = p.lifecycle]
<1>1. /\ Whole(m) /\ m.stage = p.stage /\ m.lifecycle = p.lifecycle
      /\ SameButPlace(m, q)
  BY DEF Whole, PacketMembers, SameButPlace
<1> HIDE DEF m
<1>2. ASSUME SameButPlace(p, q) PROVE p = m
  <2>1. \A k \in PacketMembers : p[k] = m[k]
    BY <1>1, <1>2 DEF SameButPlace, PacketMembers
  <2>2. QED BY <1>1, <2>1, WholeEqual
<1>3. p = m <=> SameButPlace(p, q)
  BY <1>1, <1>2
<1>4. QED BY <1>3 DEF m

(* The typed views of a packet are those of its own form and fields.         *)
Settled(i) == ViewsOf(i, i)

(* So they are once rebuilt, also where the class is kept (an AGU form of no *)
(* known group).                                                            *)
LEMMA Resettled ==
  ASSUME NEW i, PacketOK(i)
  PROVE  Settled(RebuildTypedViews(i))
<1> DEFINE r == RebuildTypedViews(i)
<1>1. ViewsOf(r, i) /\ SameButViews(r, i)
  BY Rebuilt
<1> HIDE DEF r
<1>2. ClassOf(r) = ClassOf(i)
  BY <1>1 DEF ViewsOf, SameButViews, ClassOf
<1>3. ViewsOf(r, r)
  BY <1>1, <1>2 DEF ViewsOf, SameButViews
<1>4. QED BY <1>3 DEF r, Settled

(* Rebuilding them then changes nothing.                                     *)
LEMMA SettledStays ==
  ASSUME NEW i, PacketOK(i), Settled(i)
  PROVE  RebuildTypedViews(i) = i
<1> DEFINE r == RebuildTypedViews(i)
<1>1. Whole(i) /\ Whole(r) /\ ViewsOf(r, i) /\ SameButViews(r, i)
  BY Rebuilt, RebuildOK DEF PacketOK
<1> HIDE DEF r
<1>2. r = i
  BY <1>1, ViewsDetermined DEF Settled
<1>3. QED BY <1>2 DEF r

LEMMA SettledByPlace ==
  ASSUME NEW p, NEW q, SameButPlace(p, q), Settled(q)
  PROVE  Settled(p)
<1>1. /\ p.form = q.form /\ p.decoded_fields = q.decoded_fields
      /\ p.opcode_class = q.opcode_class
      /\ p.is_branch = q.is_branch /\ p.is_control = q.is_control
      /\ p.srcs = q.srcs /\ p.dsts = q.dsts /\ p.immediates = q.immediates
      /\ p.memory = q.memory
  BY DEF SameButPlace, PacketMembers
<1>2. ClassOf(p) = ClassOf(q)
  BY <1>1 DEF ClassOf
<1>3. QED BY <1>1, <1>2 DEF Settled, ViewsOf

(* The cleared packet with a status: all that a failed decode leaves.        *)
Started(i, bits, length, status) ==
  [SetRawEncoding(ClearDecodedState(i), bits, length) EXCEPT !.decode_status = status]

LEMMA StartedOK ==
  ASSUME NEW i, PacketOK(i), NEW bits, NEW length \in Lengths \cup {0}, NEW status, NEW d,
         d = Started(i, bits, length, status)
  PROVE  /\ PacketOK(d) /\ Settled(d)
         /\ d.raw_bits = bits /\ d.length_bits = length /\ d.decode_status = status
         /\ d.lifecycle = i.lifecycle
         /\ \A k \in PacketMembers \ {"raw_bits", "length_bits", "decode_status",
                                      "stage", "lifecycle"} : d[k] = Blank[k]
<1> DEFINE c == SetRawEncoding(ClearDecodedState(i), bits, length)
<1>1. /\ Whole(c)
      /\ c.raw_bits = bits /\ c.length_bits = length
      /\ c.stage = i.stage /\ c.lifecycle = i.lifecycle
      /\ \A k \in PacketMembers \ {"raw_bits", "length_bits", "stage", "lifecycle"} :
           c[k] = Blank[k]
  BY Cleared
<1> HIDE DEF c
<1>2. d = [c EXCEPT !.decode_status = status]
  BY DEF c, Started
<1>3. /\ Whole(d)
      /\ d.raw_bits = bits /\ d.length_bits = length /\ d.decode_status = status
      /\ d.stage = i.stage /\ d.lifecycle = i.lifecycle
      /\ \A k \in PacketMembers \ {"raw_bits", "length_bits", "decode_status",
                                   "stage", "lifecycle"} : d[k] = Blank[k]
  BY <1>1, <1>2 DEF Whole, PacketMembers
<1>4. /\ d.form = NoForm /\ d.decoded_fields = NoValues /\ d.opcode_class = "Invalid"
      /\ d.srcs = NoValues /\ d.dsts = NoValues /\ d.immediates = NoValues
      /\ d.memory = NoMemory
  BY <1>3 DEF PacketMembers, Blank
<1>5. d.is_branch = FALSE /\ d.is_control = FALSE
  BY <1>3 DEF PacketMembers, Blank
<1>6. PacketOK(d)
  BY <1>3, <1>4 DEF PacketOK, Classes
<1>7. ClassOf(d) = "Invalid"
  <2>1. NoForm.big_kind = ""
    BY DEF NoForm
  <2>2. d.form.big_kind = ""
    BY <1>4, <2>1
  <2>3. QED BY <2>2 DEF ClassOf
<1>8. DOMAIN NoValues = {} /\ \A S : Operands(NoValues, S) = NoValues
  BY DEF NoValues, Operands
<1>9. [n \in DOMAIN NoValues \cap ImmediateFields |-> NoValues[n].value] = NoValues
  BY DEF NoValues
<1>10. MemoryOf("Invalid", NoValues) = NoMemory
  BY DEF MemoryOf
<1>11. Settled(d)
  <2>1. /\ d.is_branch    = (ClassOf(d) = "Branch")
        /\ d.is_control   = (ClassOf(d) \in {"Branch", "System"})
    <3>1. ("Invalid" = "Branch") = FALSE /\ ("Invalid" \in {"Branch", "System"}) = FALSE
      OBVIOUS
    <3>2. QED BY <1>5, <1>7, <3>1, Zenon
  <2>2. /\ d.srcs = Operands(d.decoded_fields, SourceFields)
        /\ d.dsts = Operands(d.decoded_fields, DestinationFields \ SourceFields)
    BY <1>4, <1>8
  <2>3. d.immediates = [n \in DOMAIN d.decoded_fields \cap ImmediateFields
                          |-> d.decoded_fields[n].value]
    BY <1>4, <1>9
  <2>4. d.memory = MemoryOf(ClassOf(d), d.decoded_fields)
    BY <1>4, <1>7, <1>10
  <2>5. QED BY <1>4, <1>7, <2>1, <2>2, <2>3, <2>4 DEF Settled, ViewsOf
<1>12. QED BY <1>3, <1>6, <1>11

LEMMA StartedAlike ==
  ASSUME NEW i, PacketOK(i), NEW bits, NEW length \in Lengths \cup {0}, NEW status
  PROVE  SameButPlace(Started(i, bits, length, status), Started(Blank, bits, length, status))
<1> SUFFICES ASSUME NEW d, d = Started(i, bits, length, status),
                    NEW e, e = Started(Blank, bits, length, status)
             PROVE  SameButPlace(d, e)
  OBVIOUS
<1> DEFINE Rest == PacketMembers \ {"raw_bits", "length_bits", "decode_status",
                                    "stage", "lifecycle"}
<1>1. /\ d.raw_bits = bits /\ d.length_bits = length /\ d.decode_status = status
      /\ \A k \in Rest : d[k] = Blank[k]
  BY StartedOK
<1>2. /\ e.raw_bits = bits /\ e.length_bits = length /\ e.decode_status = status
      /\ \A k \in Rest : e[k] = Blank[k]
  BY StartedOK, BlankOK
<1>3. QED BY <1>1, <1>2 DEF SameButPlace, PacketMembers

(* The packet of a successful decode, before its views are rebuilt.          *)
Filled(c, form, fields) ==
  [SetForm(c, form) EXCEPT
     !.encode_status  = "Ok",
     !.stage          = IF @ = "Invalid" THEN "Fetch" ELSE @,
     !.decoded_fields = fields]

LEMMA FilledOK ==
  ASSUME NEW c, PacketOK(c), NEW form \in Forms, NEW fields
  PROVE  PacketOK(Filled(c, form, fields)) /\ Filled(c, form, fields).lifecycle = c.lifecycle
<1> DEFINE b == SetForm(c, form)
<1>1. PacketOK(b) /\ b.lifecycle = c.lifecycle
  <2>1. PacketOK(b)
    BY EditsOK
  <2>2. b = [c EXCEPT !.form = form] \/ b = [c EXCEPT !.form = form, !.length_bits = form.length]
        \/ b = [c EXCEPT !.form = NoForm]
    BY DEF SetForm
  <2>3. b.lifecycle = c.lifecycle
    BY <2>2 DEF PacketOK, Whole, PacketMembers
  <2>4. QED BY <2>1, <2>3
<1> HIDE DEF b
<1>2. Filled(c, form, fields) = [b EXCEPT
        !.encode_status  = "Ok",
        !.stage          = IF @ = "Invalid" THEN "Fetch" ELSE @,
        !.decoded_fields = fields]
  BY DEF Filled, b
<1>3. Whole(Filled(c, form, fields))
  BY <1>1, <1>2 DEF PacketOK, Whole, PacketMembers
<1>4. QED BY ZenonT(60), <1>1, <1>2, <1>3 DEF PacketOK, Whole, PacketMembers, Stages

LEMMA FilledAlike ==
  ASSUME NEW c, PacketOK(c), NEW d, PacketOK(d), SameButPlace(c, d),
         NEW form \in Forms, NEW fields
  PROVE  LET r == RebuildTypedViews(Filled(c, form, fields))
             q == RebuildTypedViews(Filled(d, form, fields))
         IN  SameButPlace(r, q)
<1> SUFFICES ASSUME NEW p, p = Filled(c, form, fields), NEW o, o = Filled(d, form, fields),
                    NEW r, r = RebuildTypedViews(p), NEW q, q = RebuildTypedViews(o)
             PROVE  SameButPlace(r, q)
  OBVIOUS
<1>1. PacketOK(p) /\ PacketOK(o)
  BY FilledOK
<1>2. SameButPlace(p, o)
  <2>1. SameButPlace(SetForm(c, form), SetForm(d, form))
    BY DEF SameButPlace, SetForm, PacketOK, Whole, PacketMembers
  <2>2. Whole(SetForm(c, form)) /\ Whole(SetForm(d, form))
    BY EditsOK DEF PacketOK
  <2>3. QED BY <2>1, <2>2 DEF SameButPlace, Filled, Whole, PacketMembers
<1>3. ViewsOf(r, p) /\ SameButViews(r, p) /\ ViewsOf(q, o) /\ SameButViews(q, o)
  BY <1>1, Rebuilt
<1>4. /\ p.form = o.form /\ p.decoded_fields = o.decoded_fields
      /\ p.opcode_class = o.opcode_class
      /\ p.raw_bits = o.raw_bits /\ p.length_bits = o.length_bits
      /\ p.decode_status = o.decode_status /\ p.encode_status = o.encode_status
  BY <1>2 DEF SameButPlace, PacketMembers
<1>5. ClassOf(p) = ClassOf(o)
  BY <1>4 DEF ClassOf
<1>6. /\ r.raw_bits = q.raw_bits /\ r.length_bits = q.length_bits
      /\ r.form = q.form /\ r.decoded_fields = q.decoded_fields
      /\ r.decode_status = q.decode_status /\ r.encode_status = q.encode_status
  BY <1>3, <1>4 DEF SameButViews
<1>7. /\ r.opcode_class = q.opcode_class
      /\ r.srcs = q.srcs /\ r.dsts = q.dsts /\ r.immediates = q.immediates
      /\ r.memory = q.memory
  BY <1>3, <1>4, <1>5 DEF ViewsOf
<1>8. r.is_branch = q.is_branch /\ r.is_control = q.is_control
  BY <1>3, <1>5 DEF ViewsOf
<1>9. QED BY <1>6, <1>7, <1>8 DEF SameButPlace, PacketMembers

(* What a decode does: the packet is whole, its views are its own, its life   *)
(* goes on where it was, and but for where it stands it is what a decode of   *)
(* the default packet gives.                                                *)
LEMMA DecodeIntoOK ==
  ASSUME NEW i, PacketOK(i), NEW word, NEW length
  PROVE  /\ PacketOK(DecodeInto(i, word, length))
         /\ Settled(DecodeInto(i, word, length))
         /\ DecodeInto(i, word, length).lifecycle = i.lifecycle
         /\ SameButPlace(DecodeInto(i, word, length), DecodeInto(Blank, word, length))
<1> DEFINE bits == Truncated(word, length)
           status == DecodeStatus(bits, length)
           form == CHOOSE f \in ValidMatches(bits, length) : TRUE
<1>1. PacketOK(Blank)
  BY BlankOK
<1>2. CASE status = "InvalidLength"
  <2>1. \A j : DecodeInto(j, word, length) = Started(j, word, 0, status)
    BY <1>2 DEF DecodeInto, Started
  <2> HIDE DEF status
  <2>2. QED BY <2>1, StartedOK, StartedAlike
<1>3. CASE status \notin {"InvalidLength", "Ok"}
  <2>1. length \in Lengths
    BY <1>3 DEF DecodeStatus
  <2>2. \A j : DecodeInto(j, word, length) = Started(j, bits, length, status)
    BY <1>3 DEF DecodeInto, Started
  <2> HIDE DEF status, bits
  <2>3. QED BY <2>1, <2>2, StartedOK, StartedAlike
<1>4. CASE status = "Ok"
  <2> DEFINE Final(j) ==
        RebuildTypedViews(Filled(Started(j, bits, length, status), form,
                                 DecodedFields(form, bits)))
  <2>1. form \in Forms /\ form.length = length /\ length \in Lengths
    BY <1>4, OkHasForm
  <2>2. \A j : DecodeInto(j, word, length) = Final(j)
    BY <1>4 DEF DecodeInto, Started, Filled
  <2> HIDE DEF status, bits, form
  <2>3. /\ PacketOK(Started(i, bits, length, status))
        /\ PacketOK(Started(Blank, bits, length, status))
    BY <1>1, <2>1, StartedOK
  <2>4. PacketOK(Filled(Started(i, bits, length, status), form, DecodedFields(form, bits)))
    BY <2>1, <2>3, FilledOK
  <2>5. PacketOK(Final(i)) /\ Settled(Final(i))
    BY <2>4, RebuildOK, Resettled
  <2>6. Final(i).lifecycle = i.lifecycle
    <3>1. Started(i, bits, length, status).lifecycle = i.lifecycle
      BY <2>1, StartedOK
    <3>2. Filled(Started(i, bits, length, status), form,
                 DecodedFields(form, bits)).lifecycle = i.lifecycle
      BY <2>1, <2>3, <3>1, FilledOK
    <3>3. QED BY <2>4, <3>2, Rebuilt DEF SameButViews
  <2>7. SameButPlace(Final(i), Final(Blank))
    BY <2>1, <2>3, StartedAlike, FilledAlike
  <2>8. QED BY <2>2, <2>5, <2>6, <2>7
<1>5. QED BY <1>2, <1>3, <1>4

(* What a decode that succeeds leaves in the packet.                         *)
LEMMA Decoded ==
  ASSUME NEW i, PacketOK(i), NEW word, NEW length, NEW bits, bits = Truncated(word, length),
         DecodeStatus(bits, length) = "Ok"
  PROVE  LET form == CHOOSE f \in ValidMatches(bits, length) : TRUE
             d == DecodeInto(i, word, length)
         IN  /\ d.decode_status = "Ok"
             /\ d.form = form
             /\ d.raw_bits = bits
             /\ d.length_bits = length
             /\ d.decoded_fields = DecodedFields(form, bits)
<1> DEFINE form == CHOOSE f \in ValidMatches(bits, length) : TRUE
           s == Started(i, bits, length, "Ok")
           p == Filled(s, form, DecodedFields(form, bits))
<1>1. form \in Forms /\ form.length = length /\ length \in Lengths
  BY OkHasForm
<1>2. DecodeInto(i, word, length) = RebuildTypedViews(p)
  BY DEF DecodeInto, Started, Filled
<1> HIDE DEF form, s
<1>3. /\ PacketOK(s) /\ s.raw_bits = bits /\ s.length_bits = length
      /\ s.decode_status = "Ok"
  BY <1>1, StartedOK DEF s
<1> DEFINE b == SetForm(s, form)
<1>4. /\ PacketOK(b) /\ b.form = form /\ b.raw_bits = bits /\ b.length_bits = length
      /\ b.decode_status = "Ok"
  <2>1. PacketOK(b)
    BY <1>1, <1>3, EditsOK
  <2>2. Whole(s)
    BY <1>3 DEF PacketOK
  <2>3. 0 \notin Lengths /\ NoForm.length = 0
    BY LengthAssumption DEF NoForm
  <2>4. form # NoForm
    BY <1>1, <2>3
  <2>5. b = [s EXCEPT !.form = form, !.length_bits = form.length]
    BY <2>4 DEF SetForm
  <2> HIDE DEF b
  <2>6. /\ b.form = form /\ b.raw_bits = s.raw_bits /\ b.length_bits = form.length
        /\ b.decode_status = s.decode_status
    BY <2>2, <2>5 DEF Whole, PacketMembers
  <2>7. QED BY <1>1, <1>3, <2>1, <2>6
<1>5. p = [b EXCEPT !.encode_status = "Ok",
                    !.stage = IF @ = "Invalid" THEN "Fetch" ELSE @,
                    !.decoded_fields = DecodedFields(form, bits)]
  BY DEF Filled
<1>6. PacketOK(p)
  BY <1>1, <1>3, FilledOK
<1> HIDE DEF b, p
<1>7. /\ p.form = form /\ p.raw_bits = bits /\ p.length_bits = length
      /\ p.decode_status = "Ok" /\ p.decoded_fields = DecodedFields(form, bits)
  <2>1. Whole(b)
    BY <1>4 DEF PacketOK
  <2>2. QED BY <1>4, <1>5, <2>1 DEF Whole, PacketMembers
<1>8. SameButViews(RebuildTypedViews(p), p)
  BY <1>6, Rebuilt
<1>9. QED BY <1>2, <1>7, <1>8 DEF SameButViews, form

(* A decode that fails says so.                                              *)
LEMMA NotDecoded ==
  ASSUME NEW i, PacketOK(i), NEW word, NEW length,
         DecodeStatus(Truncated(word, length), length) # "Ok"
  PROVE  DecodeInto(i, word, length).decode_status # "Ok"
<1> DEFINE bits == Truncated(word, length)
           status == DecodeStatus(bits, length)
<1>1. CASE status = "InvalidLength"
  <2>1. DecodeInto(i, word, length) = Started(i, word, 0, status)
    BY <1>1 DEF DecodeInto, Started
  <2> HIDE DEF status
  <2>2. DecodeInto(i, word, length).decode_status = status
    BY <2>1, StartedOK
  <2>3. QED BY <1>1, <2>2
<1>2. CASE status # "InvalidLength"
  <2>1. length \in Lengths
    BY <1>2 DEF DecodeStatus
  <2>2. DecodeInto(i, word, length) = Started(i, bits, length, status)
    BY <1>2 DEF DecodeInto, Started
  <2>3. status # "Ok"
    OBVIOUS
  <2> HIDE DEF status, bits
  <2>4. DecodeInto(i, word, length).decode_status = status
    BY <2>1, <2>2, StartedOK
  <2>5. QED BY <2>3, <2>4
<1>3. QED BY <1>1, <1>2

(* What EncodeMinst encodes, DecodePackedWord decodes to the same form and    *)
(* the same bits of every value, for every form and all values.              *)
THEOREM EncodedDecodesBack ==
  \A form \in Forms : \A fields :
    EncodeStatus(form, fields) = "Ok" =>
      LET bits == EncodedBits(form, fields)
          back == DecodeInto(Blank, bits, form.length)
      IN  /\ back.decode_status = "Ok"
          /\ back.form = form
          /\ \A f \in FieldsFor(form) :
               EncodeFieldBits(f, back.decoded_fields[f.name].value)
                 = EncodeFieldBits(f, fields[f.name].value) \cap CarriedBits(f)
<1> SUFFICES ASSUME NEW form \in Forms, NEW fields, EncodeStatus(form, fields) = "Ok",
                    NEW bits, bits = EncodedBits(form, fields),
                    NEW back, back = DecodeInto(Blank, bits, form.length)
             PROVE  /\ back.decode_status = "Ok"
                    /\ back.form = form
                    /\ \A f \in FieldsFor(form) :
                         EncodeFieldBits(f, back.decoded_fields[f.name].value)
                           = EncodeFieldBits(f, fields[f.name].value) \cap CarriedBits(f)
  OBVIOUS
<1>1. AllPass(form, fields)
  BY EncodeSucceeds
<1>2. ValidMatches(bits, form.length) = {form}
  BY <1>1, EncodedMeetsConstraints, EncodedFindsItsForm
<1>3. DecodeStatus(bits, form.length) = "Ok"
  <2>1. form.length \in Lengths
    BY FormAssumption DEF FormWellFormed
  <2>2. Cardinality({form}) = 1 /\ {form} # {}
    BY FS_Singleton
  <2>3. QED BY <1>2, <2>1, <2>2 DEF DecodeStatus
<1>4. bits = Truncated(bits, form.length)
  BY EncodedInLength
<1> DEFINE found == CHOOSE f \in ValidMatches(bits, form.length) : TRUE
<1>5. found = form
  <2>1. found \in ValidMatches(bits, form.length)
    BY <1>2
  <2>2. QED BY <1>2, <2>1
<1>6. /\ back.decode_status = "Ok" /\ back.form = form
      /\ back.decoded_fields = DecodedFields(form, bits)
  <2>1. PacketOK(Blank)
    BY BlankOK
  <2>2. /\ back.decode_status = "Ok" /\ back.form = found
        /\ back.decoded_fields = DecodedFields(found, bits)
    BY <1>3, <1>4, <2>1, Decoded
  <2> HIDE DEF found
  <2>3. QED BY <1>5, <2>2
<1>7. ASSUME NEW f \in FieldsFor(form)
      PROVE  EncodeFieldBits(f, back.decoded_fields[f.name].value)
               = EncodeFieldBits(f, fields[f.name].value) \cap CarriedBits(f)
  <2>1. back.decoded_fields[f.name].value = ExtractFieldValue(f, bits)
    BY <1>6, DecodedField
  <2>2. EncodeFieldBits(f, ExtractFieldValue(f, bits)) = Raw(f, bits)
    BY FormAssumption, ReadValue DEF FormWellFormed
  <2>3. Raw(f, bits) = EncodeFieldBits(f, fields[f.name].value) \cap CarriedBits(f)
    BY EncodedBitsReadBack
  <2>4. QED BY <2>1, <2>2, <2>3
<1>8. QED BY <1>6, <1>7

-----------------------------------------------------------------------------
(***************************************************************************)
(* The life of a packet.                                                    *)
(***************************************************************************)
LEMMA InitIInv == Init => IInv
BY BoundAssumption, BlankOK DEF Init, IInv, DecodeForgets

(* DecodeForgets, member by member.                                          *)
LEMMA Forgets ==
  ASSUME PacketOK(inst)
  PROVE  DecodeForgets <=>
           (origin # NoOrigin =>
              SameButPlace(inst, DecodeInto(Blank, origin.word, origin.length)))
<1>1. Whole(inst) /\ Whole(DecodeInto(Blank, origin.word, origin.length))
  BY BlankOK, DecodeIntoOK DEF PacketOK
<1>2. QED BY <1>1, PlaceApart DEF DecodeForgets

LEMMA ForgetsNext ==
  ASSUME PacketOK(inst'),
         origin' # NoOrigin =>
           SameButPlace(inst', DecodeInto(Blank, origin'.word, origin'.length))
  PROVE  DecodeForgets'
<1>1. Whole(inst') /\ Whole(DecodeInto(Blank, origin'.word, origin'.length))
  BY BlankOK, DecodeIntoOK DEF PacketOK
<1>2. QED BY <1>1, PlaceApart DEF DecodeForgets

LEMMA StepIInv == IInv /\ [Next]_vars => IInv'
<1> SUFFICES ASSUME IInv, [Next]_vars PROVE IInv'
  OBVIOUS
<1>1. PacketOK(inst) /\ edits \in 0..MaxEdits /\ DecodeForgets
  BY DEF IInv
<1>2. origin # NoOrigin =>
        SameButPlace(inst, DecodeInto(Blank, origin.word, origin.length))
  BY <1>1, Forgets
<1>3. ASSUME NEW lo \in Words, NEW hi \in Halves, NEW length \in Lengths \cup {BadLength},
             Decode(lo, hi, length)
      PROVE  IInv'
  <2> DEFINE word == Packed(lo, hi, length)
  <2>1. /\ inst' = DecodeInto(inst, word, length)
        /\ origin' = [word |-> word, length |-> length]
        /\ edits' = edits
    BY <1>3 DEF Decode
  <2> HIDE DEF word
  <2>2. origin'.word = word /\ origin'.length = length
    BY <2>1
  <2>3. PacketOK(inst') /\ SameButPlace(inst', DecodeInto(Blank, word, length))
    BY <1>1, <2>1, DecodeIntoOK
  <2>4. DecodeForgets'
    BY <2>2, <2>3, ForgetsNext
  <2>5. QED BY <1>1, <2>1, <2>3, <2>4 DEF IInv
<1>4. ASSUME EditForm \/ EditField PROVE IInv'
  <2>1. PacketOK(inst')
    BY <1>1, <1>4, EditsOK DEF EditForm, EditField, Edit
  <2>2. origin' = NoOrigin /\ edits' \in 0..MaxEdits
    BY <1>1, <1>4, BoundAssumption DEF EditForm, EditField, Edit
  <2>3. QED BY <2>1, <2>2 DEF IInv, DecodeForgets
<1>5. CASE Rebuild
  <2>1. inst' = RebuildTypedViews(inst) /\ origin' = origin /\ edits' = edits
    BY <1>5 DEF Rebuild
  <2>2. PacketOK(inst')
    BY <1>1, <2>1, RebuildOK
  <2>3. ASSUME origin # NoOrigin PROVE inst' = inst
    <3>1. Settled(DecodeInto(Blank, origin.word, origin.length))
      BY BlankOK, DecodeIntoOK
    <3>2. Settled(inst)
      BY <1>2, <2>3, <3>1, SettledByPlace
    <3>3. QED BY <1>1, <2>1, <3>2, SettledStays
  <2>4. DecodeForgets'
    BY <1>2, <2>1, <2>2, <2>3, ForgetsNext
  <2>5. QED BY <1>1, <2>1, <2>2, <2>4 DEF IInv
<1>6. ASSUME \/ \E s \in Stages : MarkStage(s)
             \/ MarkRetired \/ MarkFlushed \/ MarkTraced
      PROVE  IInv'
  <2>1. PICK s \in Stages \cup {"Retire", "Flush", "Dfx"}, l \in Lifecycles :
          /\ inst' = [inst EXCEPT !.stage = s, !.lifecycle = l]
          /\ l = "Allocated" => s = "Fetch"
          /\ origin' = origin /\ edits' = edits
    <3>1. CASE \E s \in Stages : MarkStage(s)
      BY ZenonT(60), <1>1, <3>1 DEF MarkStage, StageOf, PacketOK, Lifecycles
    <3>2. CASE MarkRetired \/ MarkFlushed \/ MarkTraced
      BY ZenonT(60), <3>2 DEF MarkRetired, MarkFlushed, MarkTraced, End, Lifecycles
    <3>3. QED BY <1>6, <3>1, <3>2
  <2>2. Whole(inst') /\ SameButPlace(inst', inst)
    BY <1>1, <2>1 DEF PacketOK, Whole, PacketMembers, SameButPlace
  <2>3. PacketOK(inst')
    BY <1>1, <2>1, <2>2 DEF PacketOK, Whole, PacketMembers
  <2>4. origin' # NoOrigin =>
          SameButPlace(inst', DecodeInto(Blank, origin'.word, origin'.length))
    BY <1>2, <2>1, <2>2 DEF SameButPlace
  <2>5. DecodeForgets'
    BY <2>3, <2>4, ForgetsNext
  <2>6. QED BY <1>1, <2>1, <2>3, <2>5 DEF IInv
<1>7. CASE UNCHANGED vars
  BY <1>1, <1>7 DEF vars, IInv, DecodeForgets
<1>8. QED BY <1>3, <1>4, <1>5, <1>6, <1>7 DEF Next

(* A packet keeps its type and a form its length, through every reuse, edit   *)
(* and move (minst.cpp).                                                     *)
THEOREM PacketTypeCorrect == Spec => []TypeOK
<1>1. IInv => TypeOK
  BY DEF IInv, PacketOK, TypeOK
<1>2. QED BY <1>1, InitIInv, StepIInv, PTL DEF Spec

(* A decode leaves nothing of the packet's earlier life on any path          *)
(* (DecodePackedWord: ClearDecodedState), however the packet is used after.  *)
THEOREM DecodeLeavesNothing == Spec => []DecodeForgets
<1>1. IInv => DecodeForgets
  BY DEF IInv
<1>2. QED BY <1>1, InitIInv, StepIInv, PTL DEF Spec

(* A packet that has ended never returns to flight (minst.cpp MarkStage and   *)
(* the decode that reuses a packet).                                        *)
THEOREM EndedStaysEnded == Spec => NeverRevived
<1>1. ASSUME IInv, [Next]_vars, IsTerminal(inst) PROVE IsTerminal(inst')
  <2>1. PacketOK(inst) /\ inst.lifecycle \in {"Retired", "Flushed", "Traced"}
    BY <1>1 DEF IInv, IsTerminal
  <2>2. ASSUME NEW lo, NEW hi, NEW length, Decode(lo, hi, length)
        PROVE  inst'.lifecycle = inst.lifecycle
    BY <2>1, <2>2, DecodeIntoOK DEF Decode
  <2>3. ASSUME EditForm \/ EditField PROVE inst'.lifecycle = inst.lifecycle
    BY <2>1, <2>3 DEF EditForm, EditField, Edit, SetForm, SetDecodedField,
                      PacketOK, Whole, PacketMembers
  <2>4. ASSUME Rebuild PROVE inst'.lifecycle = inst.lifecycle
    BY <2>1, <2>4, Rebuilt DEF Rebuild, SameButViews
  <2>5. ASSUME NEW s \in Stages, MarkStage(s) PROVE inst'.lifecycle = inst.lifecycle
    BY <2>1, <2>5 DEF MarkStage, StageOf, PacketOK, Whole, PacketMembers
  <2>6. ASSUME MarkRetired \/ MarkFlushed \/ MarkTraced
        PROVE  inst'.lifecycle \in {"Retired", "Flushed", "Traced"}
    BY <2>1, <2>6 DEF MarkRetired, MarkFlushed, MarkTraced, End,
                      PacketOK, Whole, PacketMembers
  <2>7. QED BY <1>1, <2>1, <2>2, <2>3, <2>4, <2>5, <2>6 DEF Next, vars, IsTerminal
<1>2. IInv /\ [Next]_vars => [IsTerminal(inst) => IsTerminal(inst')]_vars
  BY <1>1
<1>3. QED BY <1>2, InitIInv, StepIInv, PTL DEF Spec, NeverRevived

(* What encodes decodes back, to the same form and the same bits of every     *)
(* value, in every packet however it was edited (EncodeMinst against          *)
(* DecodePackedWord).                                                        *)
THEOREM PacketsRoundTrip == Spec => []RoundTrip
<1>1. ASSUME IInv PROVE RoundTrip
  <2>1. inst.form \in Forms \cup {NoForm}
    BY <1>1 DEF IInv, PacketOK
  <2>2. CASE inst.form = NoForm
    <3>1. EncodeStatus(inst.form, inst.decoded_fields) = "InvalidForm"
      BY <2>2 DEF EncodeStatus
    <3>2. QED BY <3>1 DEF RoundTrip
  <2>3. CASE inst.form \in Forms
    BY <2>3, EncodedDecodesBack DEF RoundTrip
  <2>4. QED BY <2>1, <2>2, <2>3
<1>2. QED BY <1>1, InitIInv, StepIInv, PTL DEF Spec

(* What decodes encodes back to the very word it came from, whatever the      *)
(* packet went through since that is no edit.                                *)
THEOREM DecodedWordsReencode == Spec => []DecodedReencodes
<1>1. ASSUME IInv PROVE DecodedReencodes
  <2>1. SUFFICES ASSUME origin # NoOrigin, inst.decode_status = "Ok"
                 PROVE  /\ inst.raw_bits = Truncated(origin.word, inst.length_bits)
                        /\ EncodeStatus(inst.form, inst.decoded_fields) = "Ok"
                        /\ EncodedBits(inst.form, inst.decoded_fields) = inst.raw_bits
    BY DEF DecodedReencodes
  <2> DEFINE length == origin.length
             bits == Truncated(origin.word, length)
             form == CHOOSE f \in ValidMatches(bits, length) : TRUE
             fresh == DecodeInto(Blank, origin.word, length)
  <2>2. SameButPlace(inst, fresh)
    BY <1>1, <2>1, Forgets DEF IInv
  <2>3. /\ inst.decode_status = fresh.decode_status /\ inst.form = fresh.form
        /\ inst.raw_bits = fresh.raw_bits /\ inst.length_bits = fresh.length_bits
        /\ inst.decoded_fields = fresh.decoded_fields
    BY <2>2 DEF SameButPlace, PacketMembers
  <2>4. PacketOK(Blank)
    BY BlankOK
  <2>5. DecodeStatus(bits, length) = "Ok"
    BY <2>1, <2>3, <2>4, NotDecoded
  <2>6. /\ fresh.form = form /\ fresh.raw_bits = bits /\ fresh.length_bits = length
        /\ fresh.decoded_fields = DecodedFields(form, bits)
    BY <2>4, <2>5, Decoded
  <2>7. form \in Forms /\ form.length = length
    BY <2>5, OkHasForm
  <2>8. Accepts(form, bits, form.length)
    <3>1. ValidMatches(bits, length) # {}
      BY <2>5 DEF DecodeStatus
    <3>2. form \in ValidMatches(bits, length)
      BY <3>1
    <3>3. QED BY <2>7, <3>2 DEF ValidMatches, Accepts
  <2>9. bits \in SUBSET BitMask(form.length)
    BY <2>7 DEF Truncated
  <2> HIDE DEF form, bits, fresh
  <2>10. /\ EncodeStatus(form, DecodedFields(form, bits)) = "Ok"
         /\ EncodedBits(form, DecodedFields(form, bits)) = bits
    BY <2>7, <2>8, <2>9, AcceptedWordReencodes
  <2>11. QED BY <2>3, <2>6, <2>10 DEF bits
<1>2. QED BY <1>1, InitIInv, StepIInv, PTL DEF Spec
=============================================================================

------------------------------- MODULE Codec -------------------------------
(***************************************************************************)
(* The instruction codec: DecodeMinst, DecodeMinstPacked and EncodeMinst     *)
(* (src/isa/codec.cpp) over a table of forms.                               *)
(*                                                                          *)
(* A word is the set of the positions of its one bits.  A form has           *)
(*   mnemonic, length, fixed_bits                                           *)
(*   mask, match              as words                                      *)
(*   fields                   a sequence of [name, signed, width, pieces]    *)
(*   constraints              a sequence of [field, op, value]               *)
(*   big_kind, group          uop_big_kind and uop_group                     *)
(* and a piece is [insn_lsb, width, value_lsb].                             *)
(***************************************************************************)
EXTENDS Integers, Sequences, FiniteSets, FiniteSetsExt

CONSTANTS
  Forms,     \* the form table
  Lengths,   \* the lengths an instruction may have: 16, 32, 48, 64
  HalfBits   \* the bits of the low half of a split word: 32

ASSUME LengthAssumption == Lengths \subseteq Nat \ {0}

NoForm == [mnemonic |-> "", length |-> 0, fixed_bits |-> 0, mask |-> {}, match |-> {},
           fields |-> << >>, constraints |-> << >>, big_kind |-> "", group |-> ""]

BitMask(width) == 0..(width - 1)
FieldsFor(form) == { form.fields[i] : i \in 1..Len(form.fields) }
PiecesFor(field) == field.pieces

InsnBits(piece)  == { piece.insn_lsb + i : i \in BitMask(piece.width) }
ValueBits(piece) == { piece.value_lsb + i : i \in BitMask(piece.width) }

FieldBits(field)   == UNION { InsnBits(p) : p \in PiecesFor(field) }
CarriedBits(field) == UNION { ValueBits(p) : p \in PiecesFor(field) }

(***************************************************************************)
(* What is true of the generated table: the mask and the pieces of a form    *)
(* share no bit and leave none out, no two pieces carry the same bit of a    *)
(* value, and a constraint names a field of the form whose every bit is      *)
(* carried.  Other values may have bits that no piece carries: they are zero *)
(* in the word (the lowest of a block offset).                              *)
(***************************************************************************)
PieceWellFormed(piece) ==
  piece.insn_lsb \in Nat /\ piece.value_lsb \in Nat /\ piece.width \in Nat

FieldWellFormed(field) ==
  /\ field.width \in Nat
  /\ CarriedBits(field) \subseteq BitMask(field.width)
  /\ \A p \in PiecesFor(field) : PieceWellFormed(p)
  /\ \A p, q \in PiecesFor(field) :
       p # q => InsnBits(p) \cap InsnBits(q) = {} /\ ValueBits(p) \cap ValueBits(q) = {}

FormWellFormed(form) ==
  /\ form.length \in Lengths
  /\ Len(form.fields) \in Nat /\ Len(form.constraints) \in Nat
  /\ form.fixed_bits = Cardinality(form.mask)
  /\ form.match \subseteq form.mask
  /\ form.mask \cup UNION { FieldBits(f) : f \in FieldsFor(form) } = BitMask(form.length)
  /\ \A f \in FieldsFor(form) : FieldWellFormed(f) /\ form.mask \cap FieldBits(f) = {}
  /\ \A i, j \in 1..Len(form.fields) :
       i # j => /\ form.fields[i].name # form.fields[j].name
                /\ FieldBits(form.fields[i]) \cap FieldBits(form.fields[j]) = {}
  /\ \A i \in 1..Len(form.constraints) :
       \E f \in FieldsFor(form) :
         /\ f.name = form.constraints[i].field
         /\ CarriedBits(f) = BitMask(f.width)

ASSUME FormAssumption == \A form \in Forms : FormWellFormed(form)

-----------------------------------------------------------------------------
(***************************************************************************)
(* Values.                                                                  *)
(***************************************************************************)
\* The number with the bits of raw below width and, from there on, the sign's.
Number(raw, width, sign) ==
  LET from[k \in 0..width] ==
        IF k = width THEN sign ELSE 2 * from[k + 1] + (IF k \in raw THEN 1 ELSE 0)
  IN  from[0]

ShiftRight(value, n) ==
  LET shifted[k \in 0..n] == IF k = 0 THEN value ELSE shifted[k - 1] \div 2
  IN  shifted[n]

SignExtend(raw, width) ==
  Number(raw, width, IF width > 0 /\ width - 1 \in raw THEN -1 ELSE 0)

Unsigned(value, width) == value % 2 ^ width

Raw(field, word) ==
  UNION { { p.value_lsb + i : i \in { k \in BitMask(p.width) : p.insn_lsb + k \in word } }
          : p \in PiecesFor(field) }

ExtractFieldValue(field, word) ==
  IF field.signed THEN SignExtend(Raw(field, word), field.width)
                  ELSE Number(Raw(field, word), field.width, 0)

\* The numbers whose bits are those below width: BitMask(width) is the largest.
UnsignedRange(width) == 0..Number(BitMask(width), width, 0)
SignedRange(width)   == -Number({width - 1}, width, 0)..Number(BitMask(width - 1), width, 0)

\* Mutant: a signed field takes the values of an unsigned one.
FitsUnsigned(field, value) == value \in UnsignedRange(field.width)

FitsField(field, value) ==
  IF field.width = 0   THEN value = 0
  ELSE IF field.signed THEN value \in SignedRange(field.width)
  ELSE value \in UnsignedRange(field.width)

EncodeFieldBits(field, value) ==
  { i \in BitMask(field.width) : ShiftRight(value, i) % 2 = 1 }

EvaluateConstraint(op, lhs, rhs) ==
  CASE op = "Eq" -> lhs = rhs
    [] op = "Ne" -> lhs # rhs
    [] op = "Lt" -> lhs < rhs
    [] op = "Le" -> lhs <= rhs
    [] op = "Gt" -> lhs > rhs
    [] op = "Ge" -> lhs >= rhs

-----------------------------------------------------------------------------
(***************************************************************************)
(* Decoding.                                                                *)
(***************************************************************************)
FixedMatch(form, word, length) ==
  form.length = length /\ \A b \in form.mask : b \in word <=> b \in form.match

ConstraintsOk(form, word) ==
  \A i \in 1..Len(form.constraints) :
    LET c == form.constraints[i]
    IN  \E f \in FieldsFor(form) :
          /\ f.name = c.field
          /\ EvaluateConstraint(c.op, ExtractFieldValue(f, word), c.value)

(***************************************************************************)
(* valid_matches: of the forms that fit, those with the most fixed bits.     *)
(***************************************************************************)
ValidMatches(word, length) ==
  LET fitting == { f \in Forms : FixedMatch(f, word, length) /\ ConstraintsOk(f, word) }
  IN  { f \in fitting : \A g \in fitting : g.fixed_bits <= f.fixed_bits }

Truncated(bits, length) == bits \cap BitMask(length)

DecodeStatus(word, length) ==
  LET matches == ValidMatches(word, length)
  IN  IF length \notin Lengths THEN "InvalidLength"
      ELSE IF matches = {}
        THEN IF \E f \in Forms : FixedMatch(f, word, length) THEN "ConstraintViolation"
                                                             ELSE "NoMatch"
      ELSE IF Cardinality(matches) # 1 THEN "AmbiguousMatch"
      ELSE "Ok"

DecodedFields(form, word) ==
  [ n \in { f.name : f \in FieldsFor(form) } |->
      LET f == CHOOSE g \in FieldsFor(form) : g.name = n
      IN  [value |-> ExtractFieldValue(f, word), width |-> f.width] ]

(***************************************************************************)
(* A word longer than a half may be given in two halves.                    *)
(***************************************************************************)
Packed(lo, hi, length) ==
  IF length > HalfBits THEN (lo \cap BitMask(HalfBits)) \cup { HalfBits + i : i \in hi }
                       ELSE lo

-----------------------------------------------------------------------------
(***************************************************************************)
(* Encoding: the first field or constraint that fails decides.               *)
(***************************************************************************)
FieldVerdict(field, fields) ==
  IF field.name \notin DOMAIN fields                       THEN "MissingField"
  ELSE IF ~FitsField(field, fields[field.name].value)      THEN "ValueOutOfRange"
  ELSE "Ok"

ConstraintVerdict(c, fields) ==
  IF c.field \notin DOMAIN fields                                       THEN "MissingField"
  ELSE IF ~EvaluateConstraint(c.op, fields[c.field].value, c.value)     THEN "ConstraintViolation"
  ELSE "Ok"

\* Mutant: constraints are left to the decoder.
EncodeRangesOnly(form, fields) ==
  LET verdicts == [i \in 1..Len(form.fields) |-> FieldVerdict(form.fields[i], fields)]
      failed   == { i \in DOMAIN verdicts : verdicts[i] # "Ok" }
  IN  IF form = NoForm THEN "InvalidForm"
      ELSE IF failed = {} THEN "Ok" ELSE verdicts[Min(failed)]

EncodeStatus(form, fields) ==
  LET verdicts == [i \in 1..Len(form.fields) |-> FieldVerdict(form.fields[i], fields)]
                    \o [i \in 1..Len(form.constraints) |->
                          ConstraintVerdict(form.constraints[i], fields)]
      failed   == { i \in DOMAIN verdicts : verdicts[i] # "Ok" }
  IN  IF form = NoForm THEN "InvalidForm"
      ELSE IF failed = {} THEN "Ok" ELSE verdicts[Min(failed)]

PlacedBits(field, value) ==
  UNION { { p.insn_lsb + i : i \in
              { k \in BitMask(p.width) : p.value_lsb + k \in EncodeFieldBits(field, value) } }
          : p \in PiecesFor(field) }

EncodedBits(form, fields) ==
  (form.match \ UNION { FieldBits(f) : f \in FieldsFor(form) })
    \cup UNION { PlacedBits(f, fields[f.name].value) : f \in FieldsFor(form) }

-----------------------------------------------------------------------------
(***************************************************************************)
(* Where the fixed bits of two forms of one length agree, the fixed bits of  *)
(* one spell a value that a constraint of the other forbids (ADDTPC and      *)
(* SETRET, C.BSTART.STD and C.BSTOP, the forms of B.IOT).  So no word is     *)
(* accepted by two.                                                         *)
(***************************************************************************)
Excludes(f, g) ==
  \E i \in 1..Len(f.constraints) : \E d \in FieldsFor(f) :
    /\ d.name = f.constraints[i].field
    /\ FieldBits(d) \subseteq g.mask
    /\ ~EvaluateConstraint(f.constraints[i].op, ExtractFieldValue(d, g.match),
                           f.constraints[i].value)

FixedAgree(f, g) == f.match \cap g.mask = g.match \cap f.mask

ASSUME ExclusiveAssumption ==
  \A f, g \in Forms :
    f.length = g.length /\ FixedAgree(f, g) => f = g \/ Excludes(f, g) \/ Excludes(g, f)
=============================================================================

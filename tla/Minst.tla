------------------------------- MODULE Minst -------------------------------
(***************************************************************************)
(* One instruction packet (src/isa/minst.cpp) and the calls its owners make: *)
(* it is created for a fetch or by the default constructor, decoded, edited  *)
(* field by field, moved from stage to stage, ended, and decoded again when  *)
(* its owner reuses it.  EncodeMinst does not change the packet, so it is     *)
(* evaluated in the properties, in every state.                              *)
(***************************************************************************)
EXTENDS Codec, TLC

CONSTANTS
  SourceFields, DestinationFields, ImmediateFields,  \* names by their kind
  Shamt,         \* the name "shamt"
  Words, Halves, \* low words and high halves a packet is decoded from
  BadLength,     \* a length no instruction has
  Values,        \* the values written into fields
  MaxEdits       \* bound on SetForm and SetDecodedField calls

ASSUME BoundAssumption == MaxEdits \in Nat

VARIABLES
  inst,    \* the packet
  origin,  \* history: the word and length last decoded, if unedited since
  edits    \* edits so far

vars == <<inst, origin, edits>>

NoOrigin == [word |-> {}, length |-> 0]
NoMemory == [valid |-> FALSE, is_load |-> FALSE, is_store |-> FALSE, size |-> 0]

\* Of the stages from Decode to Rob, told apart by nothing here, only Decode.
Stages     == {"Invalid", "Fetch", "Decode"}
Lifecycles == {"Allocated", "InFlight", "Retired", "Flushed", "Traced"}
Classes    == {"Invalid", "Integer", "FloatingPoint", "Branch", "Load", "Store",
               "Atomic", "System"}

NoValues == << >>   \* the function with an empty domain

\* The members' default values in minst.hpp.
Blank ==
  [raw_bits |-> {}, length_bits |-> 0, form |-> NoForm, decoded_fields |-> NoValues,
   decode_status |-> "NoMatch", encode_status |-> "InvalidForm",
   opcode_class |-> "Invalid", is_branch |-> FALSE, is_control |-> FALSE,
   srcs |-> NoValues, dsts |-> NoValues, immediates |-> NoValues,
   memory |-> NoMemory, stage |-> "Fetch", lifecycle |-> "Allocated"]

CreateFetch(raw, length) == [Blank EXCEPT !.raw_bits = raw, !.length_bits = length]

IsTerminal(i) == i.lifecycle \in {"Retired", "Flushed", "Traced"}

-----------------------------------------------------------------------------
(***************************************************************************)
(* The packet's own operations, as functions from a packet to a packet.      *)
(***************************************************************************)
\* Mutant: the fields of the last instruction stay.
ClearKeepsFields(i) ==
  [Blank EXCEPT !.stage = i.stage, !.lifecycle = i.lifecycle,
                !.raw_bits = i.raw_bits, !.length_bits = i.length_bits,
                !.decoded_fields = i.decoded_fields]

ClearDecodedState(i) ==
  [Blank EXCEPT !.stage = i.stage, !.lifecycle = i.lifecycle,
                !.raw_bits = i.raw_bits, !.length_bits = i.length_bits]

\* Mutant: the length of the packet is not the form's.
SetFormOnly(i, desc) == [i EXCEPT !.form = desc]

SetForm(i, desc) ==
  IF desc = NoForm THEN [i EXCEPT !.form = NoForm]
                   ELSE [i EXCEPT !.form = desc, !.length_bits = desc.length]

SetRawEncoding(i, bits, length) == [i EXCEPT !.raw_bits = bits, !.length_bits = length]

SetDecodedField(i, name, value, width) ==
  [i EXCEPT !.decoded_fields = (name :> [value |-> value, width |-> width]) @@ @]

ClassOf(i) ==
  CASE i.form.big_kind = "ALU"            -> "Integer"
    [] i.form.big_kind = "FSU"            -> "FloatingPoint"
    [] i.form.big_kind = "BRU"            -> "Branch"
    [] i.form.big_kind = "AMO"            -> "Atomic"
    [] i.form.big_kind \in {"SYS", "CMD"} -> "System"
    [] i.form.big_kind = "AGU"            -> CASE i.form.group = "LDA" -> "Load"
                                               [] i.form.group = "STA" -> "Store"
                                               [] OTHER -> i.opcode_class
    [] OTHER                              -> "Invalid"

Operands(fields, names) ==
  [n \in DOMAIN fields \cap names |-> Unsigned(fields[n].value, fields[n].width)]

MemoryOf(class, fields) ==
  IF class \in {"Load", "Store", "Atomic"}
    THEN [valid |-> TRUE, is_load |-> class = "Load", is_store |-> class = "Store",
          size |-> IF Shamt \in DOMAIN fields
                     THEN Unsigned(fields[Shamt].value, fields[Shamt].width) ELSE 0]
    ELSE NoMemory

\* The immediates hold the fields themselves; a source is never a destination too.
RebuildTypedViews(i) ==
  LET class  == ClassOf(i)
      fields == i.decoded_fields
  IN  [i EXCEPT
        !.opcode_class = class,
        !.is_branch    = class = "Branch",
        !.is_control   = class \in {"Branch", "System"},
        !.srcs         = Operands(fields, SourceFields),
        !.dsts         = Operands(fields, DestinationFields \ SourceFields),
        !.immediates   = [n \in DOMAIN fields \cap ImmediateFields |-> fields[n].value],
        !.memory       = MemoryOf(class, fields)]

-----------------------------------------------------------------------------
(***************************************************************************)
(* DecodePackedWord.  A packet that had left the pipeline model (stage       *)
(* Invalid) is fetched again; a failure leaves nothing of what it held.  No   *)
(* call sets the lifecycle Invalid, so that test of the code has no effect.   *)
(***************************************************************************)
DecodeInto(i, word, length) ==
  LET bits    == Truncated(word, length)
      status  == DecodeStatus(bits, length)
      cleared == [SetRawEncoding(ClearDecodedState(i), bits, length)
                    EXCEPT !.decode_status = status]
      form    == CHOOSE f \in ValidMatches(bits, length) : TRUE
  IN  CASE status = "InvalidLength" ->
             [SetRawEncoding(ClearDecodedState(i), word, 0) EXCEPT !.decode_status = status]
        [] status = "Ok" ->
             RebuildTypedViews(
               [SetForm(cleared, form) EXCEPT
                  !.encode_status  = "Ok",
                  !.stage          = IF @ = "Invalid" THEN "Fetch" ELSE @,
                  !.decoded_fields = DecodedFields(form, bits)])
        [] OTHER -> cleared

Decode(lo, hi, length) ==
  LET word == Packed(lo, hi, length)
  IN  /\ inst' = DecodeInto(inst, word, length)
      /\ origin' = [word |-> word, length |-> length]
      /\ UNCHANGED edits

\* An edit by the packet's owner (the tests build packets this way).
Edit(i) ==
  /\ edits < MaxEdits
  /\ edits' = edits + 1
  /\ origin' = NoOrigin
  /\ inst' = i

EditForm  == \E form \in Forms \cup {NoForm} : Edit(SetForm(inst, form))
EditField == \E form \in Forms : \E f \in FieldsFor(form), value \in Values :
               Edit(SetDecodedField(inst, f.name, value, f.width))

Rebuild ==
  /\ inst' = RebuildTypedViews(inst)
  /\ UNCHANGED <<origin, edits>>

StageOf(i, new_stage) ==
  [i EXCEPT !.stage = new_stage,
            !.lifecycle = IF @ = "Allocated" /\ new_stage # "Fetch" THEN "InFlight" ELSE @]

MarkStage(new_stage) ==
  /\ inst' = StageOf(inst, new_stage)
  /\ UNCHANGED <<origin, edits>>

End(stage, lifecycle) ==
  /\ inst' = [inst EXCEPT !.stage = stage, !.lifecycle = lifecycle]
  /\ UNCHANGED <<origin, edits>>

MarkRetired == End("Retire", "Retired")
MarkFlushed == End("Flush", "Flushed")
MarkTraced  == End("Dfx", "Traced")

Init ==
  /\ inst \in {Blank} \cup { CreateFetch(word, length) : word \in Words, length \in Lengths }
  /\ origin = NoOrigin
  /\ edits = 0

Next ==
  \/ \E lo \in Words, hi \in Halves, length \in Lengths \cup {BadLength} :
       Decode(lo, hi, length)
  \/ EditForm
  \/ EditField
  \/ Rebuild
  \/ \E s \in Stages : MarkStage(s)
  \/ MarkRetired
  \/ MarkFlushed
  \/ MarkTraced

Spec == Init /\ [][Next]_vars

-----------------------------------------------------------------------------
(***************************************************************************)
(* The packet has its type; a packet with a form has that form's length, and *)
(* one never moved is still at fetch.                                        *)
(***************************************************************************)
TypeOK ==
  /\ inst.form \in Forms \cup {NoForm}
  /\ inst.length_bits \in Lengths \cup {0}
  /\ inst.stage \in Stages \cup {"Retire", "Flush", "Dfx"}
  /\ inst.lifecycle \in Lifecycles
  /\ inst.opcode_class \in Classes
  /\ inst.form # NoForm => inst.length_bits = inst.form.length
  /\ inst.lifecycle = "Allocated" => inst.stage = "Fetch"
  /\ edits \in 0..MaxEdits

(***************************************************************************)
(* What encodes decodes back: to the same form, with every bit of every      *)
(* value that the form has a place for (EncodeMinst against                   *)
(* DecodePackedWord, whatever order of edits built the packet).              *)
(***************************************************************************)
RoundTrip ==
  EncodeStatus(inst.form, inst.decoded_fields) = "Ok" =>
    LET bits == EncodedBits(inst.form, inst.decoded_fields)
        back == DecodeInto(Blank, bits, inst.form.length)
    IN  /\ back.decode_status = "Ok"
        /\ back.form = inst.form
        /\ \A f \in FieldsFor(inst.form) :
             EncodeFieldBits(f, back.decoded_fields[f.name].value)
               = EncodeFieldBits(f, inst.decoded_fields[f.name].value) \cap CarriedBits(f)

(***************************************************************************)
(* What decodes encodes back, to the very word it came from, whether it was  *)
(* given whole or in halves and whatever lay above its length.               *)
(***************************************************************************)
DecodedReencodes ==
  origin # NoOrigin /\ inst.decode_status = "Ok" =>
    /\ inst.raw_bits = Truncated(origin.word, inst.length_bits)
    /\ EncodeStatus(inst.form, inst.decoded_fields) = "Ok"
    /\ EncodedBits(inst.form, inst.decoded_fields) = inst.raw_bits

(***************************************************************************)
(* A decode leaves nothing of the packet's earlier life, on any path: but    *)
(* for its stage and lifecycle it is the packet a fresh one would be.        *)
(***************************************************************************)
DecodeForgets ==
  origin # NoOrigin =>
    LET fresh == DecodeInto(Blank, origin.word, origin.length)
    IN  inst = [fresh EXCEPT !.stage = inst.stage, !.lifecycle = inst.lifecycle]

(***************************************************************************)
(* A packet that has ended (IsTerminal) never returns to flight, whatever    *)
(* its owner does with it.                                                   *)
(***************************************************************************)
NeverRevived == [][IsTerminal(inst) => IsTerminal(inst')]_vars
=============================================================================

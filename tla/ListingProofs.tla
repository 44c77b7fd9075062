--------------------------- MODULE ListingProofs ---------------------------
(***************************************************************************)
(* What TLAPS proves of the program loader, for every set of files: which of  *)
(* them it reads nothing outside of, and where the sections of a relocatable *)
(* image come to lie as long as no sum wraps; and of the listing of what was *)
(* loaded, for every form table with the properties assumed of the generated *)
(* one: that its lines cover each section, and show what the executor would  *)
(* fetch.                                                                   *)
(***************************************************************************)
EXTENDS Listing, FiniteSetTheorems, WellFoundedInduction, TLAPS

(***************************************************************************)
(* Wrapping.                                                                *)
(***************************************************************************)
LEMMA WrapIn == \A n \in Int : Wrap(n) \in Words
BY WordAssumption, SMTT(30) DEF Wrap, Words

LEMMA WrapFits == \A n \in Words : Wrap(n) = n
BY WordAssumption, SMTT(30) DEF Wrap, Words

LEMMA WrapOver == \A n \in Word..(2 * Word - 1) : Wrap(n) = n - Word
BY WordAssumption, SMTT(30) DEF Wrap, Words

LEMMA WrapUnder == \A n \in (-Word)..(-1) : Wrap(n) = n + Word
BY WordAssumption, SMTT(30) DEF Wrap, Words

LEMMA WrapOverTwice == \A n \in (2 * Word)..(3 * Word - 1) : Wrap(n) = n - 2 * Word
BY WordAssumption, SMTT(30) DEF Wrap, Words

LEMMA WordsAre == Word \in Nat /\ Words \subseteq Nat /\ \A n \in Nat : n < Word => n \in Words
BY WordAssumption, SMTT(30) DEF Words

(* Wrapping before another sum changes nothing.                              *)
LEMMA WrapSum ==
  ASSUME NEW m \in 0..(2 * Word - 1), NEW n \in Words
  PROVE  Wrap(Wrap(m) + n) = Wrap(m + n)
<1>1. Word \in Nat /\ m \in Nat /\ n \in Nat /\ n < Word
  BY WordAssumption, WordsAre, SMTT(30) DEF Words
<1>2. CASE m < Word
  <2>1. m \in Words
    BY <1>1, <1>2, WordsAre
  <2>2. QED BY <2>1, WrapFits
<1>3. CASE m >= Word
  <2>1. Wrap(m) = m - Word
    BY <1>1, <1>3, WrapOver
  <2> DEFINE k == m - Word + n
  <2>2. k \in Nat /\ Wrap(m) + n = k /\ m + n = k + Word /\ k < 2 * Word
    BY <1>1, <1>3, <2>1
  <2> HIDE DEF k
  <2>3. CASE k < Word
    <3>1. k \in Words /\ k + Word \in Word..(2 * Word - 1)
      BY <1>1, <2>2, <2>3, WordsAre
    <3>2. Wrap(k) = k /\ Wrap(k + Word) = (k + Word) - Word
      BY <3>1, WrapFits, WrapOver
    <3>3. QED BY <1>1, <2>2, <3>2
  <2>4. CASE k >= Word
    <3>1. k \in Word..(2 * Word - 1) /\ k + Word \in (2 * Word)..(3 * Word - 1)
      BY <1>1, <2>2, <2>4
    <3>2. Wrap(k) = k - Word /\ Wrap(k + Word) = (k + Word) - 2 * Word
      BY <3>1, WrapOver, WrapOverTwice
    <3>3. QED BY <1>1, <2>2, <3>2
  <2>5. QED BY <1>1, <2>2, <2>3, <2>4
<1>4. QED BY <1>1, <1>2, <1>3

(* Nor does a sum that is taken back.                                        *)
LEMMA WrapBack ==
  ASSUME NEW m \in Words, NEW n \in Words
  PROVE  Wrap(Wrap(m + n) - m) = n
<1>1. Word \in Nat /\ m \in Nat /\ n \in Nat /\ m < Word /\ n < Word
  BY WordAssumption, SMTT(30) DEF Words
<1>2. CASE m + n < Word
  <2>1. m + n \in Words /\ (m + n) - m = n
    BY <1>1, <1>2, WordsAre
  <2>2. QED BY <2>1, WrapFits
<1>3. CASE m + n >= Word
  <2>1. m + n \in Word..(2 * Word - 1)
    BY <1>1, <1>3
  <2>2. Wrap(m + n) = (m + n) - Word
    BY <2>1, WrapOver
  <2>3. Wrap(m + n) - m = n - Word /\ n - Word \in (-Word)..(-1)
    BY <1>1, <2>2
  <2>4. Wrap(n - Word) = (n - Word) + Word
    BY <2>3, WrapUnder
  <2>5. QED BY <1>1, <2>3, <2>4
<1>4. QED BY <1>1, <1>2, <1>3

(***************************************************************************)
(* The loader.  A section of an image comes from a header of either kind, or *)
(* is a whole file.                                                         *)
(***************************************************************************)
Header  == SectionHeader \cup SegmentHeader \cup [offset : Words, size : Words]
Bytes   == { b \in Seq(Byte) : Len(b) <= MaxVector }
Section == [at : Words, header : Header, address : Words, executable : BOOLEAN, bytes : Bytes]
Image   == [entry_point : Words, sections : Seq(Section)]

TypeOK ==
  /\ file \in Files /\ base \in RawBases
  /\ phase \in {"open", "sections", "segments", "loaded", "failed", "died"}
  /\ index \in Nat /\ next_address \in Words
  /\ image \in Image

(* While the headers of a relocatable image are read, next_address lies past *)
(* every section whose end, with the gap, is in the address space.           *)
PastAll ==
  \A i \in 1..Len(image.sections) :
    Ends(image.sections[i]) + Gap < Word => Ends(image.sections[i]) <= next_address

IInv ==
  /\ TypeOK
  /\ phase \in {"open", "failed", "died"} => image.sections = << >>
  /\ phase = "sections" => Relocatable /\ PastAll
  /\ phase = "segments" => file.magic /\ file.type \in {"EXEC", "DYN"}
  /\ ReadsStayInside
  /\ PlacedApart

LEMMA InitIInv == Init => IInv
<1> SUFFICES ASSUME Init PROVE IInv
  OBVIOUS
<1>1. 0 \in Words
  BY WordAssumption, SMTT(30) DEF Words
<1>2. image = EmptyImage /\ EmptyImage \in Image /\ EmptyImage.sections = << >>
  BY <1>1 DEF Init, EmptyImage, Image
<1>3. TypeOK
  BY <1>1, <1>2 DEF Init, TypeOK
<1>4. ReadsStayInside /\ PlacedApart
  BY <1>2 DEF Init, ReadsStayInside, PlacedApart
<1>5. QED BY <1>2, <1>3, <1>4 DEF Init, IInv

(* A copy is as long as what was copied, and of bytes wherever it was.        *)
LEMMA CopyOf ==
  ASSUME NEW f \in Files, NEW around \in Surroundings,
         NEW first \in Words, NEW size \in Words, size <= MaxVector
  PROVE  BytesOf(f, around, first, size) \in Bytes /\ Len(BytesOf(f, around, first, size)) = size
<1>1. first \in Nat /\ size \in Nat /\ f.size \in Nat
  BY WordsAre, FileAssumption, MemoryAssumption
<1>2. ASSUME NEW i \in 1..size PROVE BytesOf(f, around, first, size)[i] \in Byte
  <2> DEFINE a == Wrap(first + i - 1)
  <2>1. first + i - 1 \in Int
    BY <1>1
  <2>2. a \in Words /\ a \in Nat
    BY <2>1, WrapIn, WordsAre
  <2>3. BytesOf(f, around, first, size)[i] = IF a < f.size THEN f.bytes[a] ELSE around[a]
    BY DEF BytesOf
  <2> HIDE DEF a
  <2>4. a < f.size => a \in 0..(f.size - 1)
    BY <1>1, <2>2
  <2>5. QED BY <2>2, <2>3, <2>4, FileAssumption, MemoryAssumption
<1>3. BytesOf(f, around, first, size) \in [1..size -> Byte]
  BY <1>2 DEF BytesOf
<1>4. BytesOf(f, around, first, size) \in Seq(Byte) /\ Len(BytesOf(f, around, first, size)) = size
  BY <1>1, <1>3
<1>5. QED BY <1>4 DEF Bytes

(* What ends below the top of the word, and is found in the file, is of it.   *)
LEMMA CopyInside ==
  ASSUME NEW f \in Files, NEW around \in Surroundings,
         NEW first \in Words, NEW size \in Words,
         first + size < Word, Wrap(first + size) <= f.size
  PROVE  /\ first + size <= f.size
         /\ BytesOf(f, around, first, size) = [i \in 1..size |-> f.bytes[first + i - 1]]
<1>1. first \in Nat /\ size \in Nat /\ f.size \in Nat
  BY WordsAre, FileAssumption, MemoryAssumption
<1>2. first + size <= f.size
  <2>1. first + size \in Words
    BY <1>1, WordsAre
  <2>2. QED BY <2>1, WrapFits
<1>3. ASSUME NEW i \in 1..size
      PROVE  Wrap(first + i - 1) = first + i - 1 /\ first + i - 1 < f.size
  <2>1. first + i - 1 \in Nat /\ first + i - 1 < Word /\ first + i - 1 < f.size
    BY <1>1, <1>2, WordsAre
  <2>2. QED BY <2>1, WordsAre, WrapFits
<1>4. QED BY <1>2, <1>3 DEF BytesOf

LEMMA PayloadInside ==
  ASSUME NEW f \in Files, NEW around \in Surroundings,
         NEW h, h.offset \in Words, h.size \in Words,
         ~PayloadWraps(h), Wrap(h.offset + h.size) <= f.size
  PROVE  /\ h.offset + h.size <= f.size
         /\ BytesOf(f, around, h.offset, h.size)
              = [i \in 1..h.size |-> f.bytes[h.offset + i - 1]]
<1>1. PICK first \in Words, size \in Words : first = h.offset /\ size = h.size
  OBVIOUS
<1>2. first + size < Word
  <2>1. ~(first + size >= Word)
    BY <1>1 DEF PayloadWraps
  <2>2. QED BY <2>1, WordsAre
<1>3. Wrap(first + size) <= f.size
  BY <1>1
<1>4. /\ first + size <= f.size
      /\ BytesOf(f, around, first, size) = [i \in 1..size |-> f.bytes[first + i - 1]]
  BY <1>2, <1>3, CopyInside
<1>5. QED BY Zenon, <1>1, <1>4

(* A header that does not lie across the top is read in the file.            *)
LEMMA HeaderReadInside ==
  ASSUME NEW f \in Files, NEW at \in Words, NEW members \in SUBSET (Nat \X Nat),
         \A m \in members : Wrap(at + m[1] + m[2]) <= f.size,
         \A m \in members : at + m[1] + m[2] < Word
  PROVE  HeaderInside(f, at, members)
<1> SUFFICES ASSUME NEW m \in members PROVE Wrap(at + m[1]) + m[2] <= f.size
  BY DEF HeaderInside
<1>1. at \in Nat /\ m[1] \in Nat /\ m[2] \in Nat
  BY WordsAre
<1>2. at + m[1] + m[2] \in Words /\ at + m[1] \in Words
  <2>1. at + m[1] + m[2] < Word
    OBVIOUS
  <2>2. QED BY <1>1, <2>1, WordsAre
<1>3. Wrap(at + m[1] + m[2]) = at + m[1] + m[2] /\ Wrap(at + m[1]) = at + m[1]
  BY <1>2, WrapFits
<1>4. QED BY <1>3

LEMMA MembersAre ==
  \A class : SectionMembers(class) \subseteq Nat \X Nat /\ SegmentMembers(class) \subseteq Nat \X Nat
BY DEF SectionMembers, SegmentMembers

(* An image of no section satisfies what is said of sections.                *)
LEMMA FailedStep == IInv /\ Fail => IInv'
<1> SUFFICES ASSUME IInv, Fail PROVE IInv'
  OBVIOUS
<1>1. 0 \in Words
  BY WordAssumption, SMTT(30) DEF Words
<1>2. image' = EmptyImage /\ EmptyImage \in Image /\ EmptyImage.sections = << >>
  BY <1>1 DEF Fail, EmptyImage, Image
<1>3. TypeOK'
  BY <1>2 DEF IInv, TypeOK, Fail
<1>4. ReadsStayInside' /\ PlacedApart'
  BY <1>2 DEF Fail, ReadsStayInside, PlacedApart
<1>5. QED BY <1>2, <1>3, <1>4 DEF Fail, IInv

LEMMA DeadStep ==
  IInv /\ Die /\ (LET at == IF Relocatable THEN SectionAt ELSE SegmentAt
                  IN  HeaderWraps(at) \/ PayloadWraps(HeaderOf(at))) => IInv'
<1> SUFFICES ASSUME IInv, Die,
                    LET at == IF Relocatable THEN SectionAt ELSE SegmentAt
                    IN  HeaderWraps(at) \/ PayloadWraps(HeaderOf(at))
             PROVE  IInv'
  OBVIOUS
<1>1. 0 \in Words
  BY WordAssumption, SMTT(30) DEF Words
<1>2. image' = EmptyImage /\ EmptyImage \in Image /\ EmptyImage.sections = << >>
  BY <1>1 DEF Die, EmptyImage, Image
<1>3. TypeOK'
  BY <1>2 DEF IInv, TypeOK, Die
<1>4. file' = file /\ index' = index
  BY DEF Die
<1>5. (LET at == IF Relocatable THEN SectionAt ELSE SegmentAt
       IN  HeaderWraps(at) \/ PayloadWraps(HeaderOf(at)))'
  BY <1>4 DEF Relocatable, SectionAt, SegmentAt, HeaderWraps, PayloadWraps, HeaderOf
<1>6. ReadsStayInside' /\ PlacedApart'
  BY <1>2, <1>5 DEF ReadsStayInside, PlacedApart
<1>7. QED BY <1>2, <1>3, <1>6 DEF Die, IInv

LEMMA Opened == IInv /\ (OpenRaw \/ OpenElf \/ OpenBad) => IInv'
<1> SUFFICES ASSUME IInv, OpenRaw \/ OpenElf \/ OpenBad PROVE IInv'
  OBVIOUS
<1>1. /\ file \in Files /\ base \in Words /\ file.entry \in Words
      /\ file.size \in Nat /\ file.size <= MaxVector /\ file.size \in Words
      /\ 0 \in Words
  <2>1. file \in Files /\ base \in RawBases
    BY DEF IInv, TypeOK
  <2>2. file.size \in 0..MaxVector /\ file.entry \in Words
    BY <2>1, FileAssumption
  <2>3. file.size \in Nat /\ file.size <= MaxVector /\ file.size < Word
    BY <2>2, MemoryAssumption, WordsAre
  <2>4. 0 \in Words
    BY WordAssumption, SMTT(30) DEF Words
  <2>5. QED BY <2>1, <2>2, <2>3, <2>4, WordsAre, PlaceAssumption
<1>2. CASE OpenRaw
  <2> DEFINE bytes == [i \in 1..file.size |-> file.bytes[i - 1]]
             header == [offset |-> 0, size |-> file.size]
  <2>0. PICK whole : whole = [at |-> 0, header |-> header, address |-> base,
                              executable |-> TRUE, bytes |-> bytes]
    OBVIOUS
  <2>1. bytes \in Bytes
    <3>1. \A i \in 1..file.size : i - 1 \in 0..(file.size - 1)
      BY <1>1
    <3>2. bytes \in [1..file.size -> Byte]
      BY <1>1, <3>1, FileAssumption
    <3> HIDE DEF bytes
    <3>3. bytes \in Seq(Byte) /\ Len(bytes) = file.size
      BY <1>1, <3>2
    <3>4. QED BY <1>1, <3>3 DEF Bytes
  <2>2. header \in Header
    BY <1>1 DEF Header
  <2>3. whole \in Section
    BY <1>1, <2>0, <2>1, <2>2 DEF Section
  <2>4. bytes = [b \in 1..header.size |-> file.bytes[header.offset + b - 1]]
    BY SMTT(30), <1>1
  <2>5. HoldsFile(whole)'
    <3>1. ~file'.magic /\ ~Relocatable' /\ file' = file
      BY <1>2 DEF OpenRaw, Relocatable
    <3>2. header.offset + header.size <= file.size
      BY <1>1
    <3>3. whole.header = header /\ whole.bytes = bytes
      BY <2>0
    <3> HIDE DEF bytes, header
    <3>4. QED BY <2>4, <3>1, <3>2, <3>3 DEF HoldsFile
  <2>6. /\ image' = [entry_point |-> base, sections |-> << whole >>]
        /\ file' = file /\ base' = base /\ phase' = "loaded" /\ index' = index
        /\ next_address' = next_address
    BY <1>2, <2>0 DEF OpenRaw
  <2>7. TypeOK'
    BY <1>1, <2>3, <2>6 DEF IInv, TypeOK, Image
  <2>8. ~Relocatable'
    BY <1>2 DEF OpenRaw, Relocatable
  <2>9. ReadsStayInside'
    <3>1. \A i \in 1..Len(image'.sections) : image'.sections[i] = whole
      BY <2>6
    <3>2. \A i \in 1..Len(image'.sections) : HoldsFile(image.sections[i])'
      BY <2>5, <2>6, <3>1 DEF HoldsFile
    <3>3. QED BY <2>6, <3>2 DEF ReadsStayInside
  <2>10. QED BY <2>6, <2>7, <2>8, <2>9 DEF IInv, PlacedApart
<1>3. CASE OpenElf
  <2>1. image.sections = << >> /\ image'.sections = << >> /\ image' \in Image
    BY <1>1, <1>3 DEF IInv, TypeOK, OpenElf, Image
  <2>2. TypeOK'
    BY <1>3, <2>1 DEF IInv, TypeOK, OpenElf
  <2>3. phase' = "sections" => Relocatable'
    BY <1>3 DEF OpenElf, Relocatable
  <2>4. phase' = "segments" => file'.magic /\ file'.type \in {"EXEC", "DYN"}
    BY <1>3 DEF OpenElf, HeaderFits, Types
  <2>5. phase' \in {"sections", "segments"}
    BY <1>3 DEF OpenElf
  <2>6. ReadsStayInside' /\ PlacedApart' /\ PastAll'
    BY <2>1, <2>5 DEF ReadsStayInside, PlacedApart, PastAll
  <2>7. QED BY <2>1, <2>2, <2>3, <2>4, <2>5, <2>6 DEF IInv
<1>4. CASE OpenBad
  BY <1>4, FailedStep DEF OpenBad
<1>5. QED BY <1>2, <1>3, <1>4

(* A section that is appended leaves the others what they were.              *)
LEMMA Appended ==
  ASSUME NEW old \in Seq(Section), NEW new \in Section
  PROVE  /\ Append(old, new) \in Seq(Section)
         /\ Len(Append(old, new)) = Len(old) + 1 /\ Len(old) \in Nat
         /\ Append(old, new)[Len(old) + 1] = new
         /\ \A i \in 1..Len(old) : Append(old, new)[i] = old[i] /\ old[i] \in Section
OBVIOUS

LEMMA SectionKinds ==
  ASSUME NEW s \in Section
  PROVE  s.address \in Nat /\ s.address < Word /\ Len(s.bytes) \in Nat
         /\ Ends(s) \in Nat /\ Len(s.bytes) < Word
<1>1. s.address \in Words /\ s.bytes \in Bytes
  BY DEF Section
<1>2. Len(s.bytes) \in Nat /\ Len(s.bytes) <= MaxVector
  BY <1>1 DEF Bytes
<1>3. s.address \in Nat /\ s.address < Word
  BY <1>1, WordAssumption, SMTT(30) DEF Words
<1>4. Len(s.bytes) < Word
  BY <1>2, MemoryAssumption, WordAssumption, SMTT(30)
<1>5. QED BY <1>2, <1>3, <1>4 DEF Ends

(* Below the top of the word a section is an interval.                       *)
LEMMA ExtentBelowTop ==
  ASSUME NEW s \in Section, Ends(s) <= Word
  PROVE  Extent(s) \subseteq s.address..(Ends(s) - 1)
<1>1. s.address \in Nat /\ Len(s.bytes) \in Nat
  BY SectionKinds
<1> SUFFICES ASSUME NEW b \in 0..(Len(s.bytes) - 1)
             PROVE  Wrap(s.address + b) \in s.address..(Ends(s) - 1)
  BY DEF Extent
<1>2. s.address + b \in Nat /\ s.address + b < Ends(s)
  BY <1>1 DEF Ends
<1>3. s.address + b \in Words
  BY <1>1, <1>2, WordsAre DEF Ends
<1>4. QED BY <1>1, <1>2, <1>3, WrapFits DEF Ends

LEMMA SpelledAre ==
  ASSUME IInv, phase = "sections", index < file.shnum, NEW h \in Spelled
  PROVE  h \in SectionHeader /\ SectionAt \in Words
<1>1. file \in Files /\ index \in Nat /\ file.type = "REL"
  BY DEF IInv, TypeOK, Relocatable
<1>2. file.shoff \in Nat /\ file.shentsize \in Nat /\ file.shnum \in Nat
  BY <1>1, FileAssumption, WordsAre
<1>3. file.shoff + index * file.shentsize \in Int
  BY <1>1, <1>2
<1>4. SectionAt \in Words
  BY <1>3, WrapIn DEF SectionAt
<1>5. index \in 0..(file.shnum - 1)
  BY <1>1, <1>2
<1>6. SectionAt \in TableOffsets(file.shoff, file.shentsize, file.shnum)
  BY <1>5 DEF SectionAt, TableOffsets
<1>7. SectionRead => file.sections[SectionAt] \in SectionHeader
  BY <1>1, <1>6, FileAssumption DEF SectionRead
<1>8. QED BY <1>4, <1>7, MemoryAssumption DEF Spelled

(* A header that passes the tests and does not lie across is the file's.      *)
LEMMA SectionHeaderRead ==
  ASSUME IInv, phase = "sections", index < file.shnum, SectionInFile, ~HeaderWraps(SectionAt)
  PROVE  SectionRead
<1>1. file \in Files /\ Relocatable
  BY DEF IInv, TypeOK
<1>2. SectionAt \in Words
  <2>1. file.shoff \in Nat /\ file.shentsize \in Nat /\ index \in Nat
    BY <1>1, FileAssumption, WordsAre DEF IInv, TypeOK
  <2>2. file.shoff + index * file.shentsize \in Int
    BY <2>1
  <2>3. QED BY <2>2, WrapIn DEF SectionAt
<1> DEFINE members == SectionMembers(file.class)
           at == SectionAt
<1>3. members \in SUBSET (Nat \X Nat)
  BY MembersAre
<1>4. \A m \in members : Wrap(at + m[1] + m[2]) <= file.size
  BY DEF SectionInFile, HeaderChecked
<1>5. \A m \in members : at + m[1] + m[2] < Word
  <2>1. \A m \in members : ~ (at + m[1] + m[2] >= Word)
    BY <1>1 DEF HeaderWraps
  <2>2. at \in Nat /\ \A m \in members : m[1] \in Nat /\ m[2] \in Nat
    BY <1>2, <1>3, WordsAre
  <2> HIDE DEF members, at
  <2>3. QED BY <2>1, <2>2, WordsAre
<1> HIDE DEF members, at
<1>6. HeaderInside(file, at, members)
  BY <1>1, <1>2, <1>3, <1>4, <1>5, HeaderReadInside DEF at
<1>7. QED BY <1>6 DEF SectionRead, at, members

LEMMA SectionOutsideStep == IInv /\ SectionOutside => IInv'
<1> SUFFICES ASSUME IInv, SectionOutside PROVE IInv'
  OBVIOUS
<1>1. /\ file \in Files /\ Relocatable /\ phase = "sections" /\ index < file.shnum
      /\ SectionInFile /\ Die
  BY DEF IInv, TypeOK, SectionOutside
<1>2. HeaderWraps(SectionAt) \/ PayloadWraps(HeaderOf(SectionAt))
  <2>1. SUFFICES ASSUME ~HeaderWraps(SectionAt) PROVE PayloadWraps(HeaderOf(SectionAt))
    OBVIOUS
  <2>2. SectionRead
    BY <1>1, <2>1, SectionHeaderRead
  <2>3. PICK h \in Spelled : PayloadFits(h) /\ ~h.nobits /\ h.offset + h.size > file.size
    BY <2>2 DEF SectionOutside
  <2>4. h = HeaderOf(SectionAt) /\ h \in SectionHeader
    BY <1>1, <2>2, <2>3, SpelledAre DEF Spelled, HeaderOf
  <2>5. h.offset \in Words /\ h.size \in Words
    BY <2>4 DEF SectionHeader
  <2>6. ASSUME ~PayloadWraps(h) PROVE FALSE
    <3>1. h.offset \in Nat /\ h.size \in Nat /\ Word \in Nat /\ file.size \in Nat
      <4>1. file.size \in 0..MaxVector
        BY <1>1, FileAssumption
      <4>2. file.size \in Nat
        BY <4>1, SMTT(30)
      <4>3. QED BY <2>5, <4>2, WordsAre
    <3>2. h.offset + h.size < Word
      BY <2>6, <3>1 DEF PayloadWraps
    <3>3. h.offset + h.size \in Words
      BY <3>1, <3>2, WordsAre
    <3>4. Wrap(h.offset + h.size) <= file.size
      BY <2>3 DEF PayloadFits
    <3>5. h.offset + h.size <= file.size
      BY <3>3, <3>4, WrapFits
    <3>6. QED BY <2>3, <3>1, <3>5
  <2>7. QED BY <2>4, <2>6
<1>3. QED BY <1>1, <1>2, DeadStep

LEMMA PayloadRead ==
  ASSUME NEW f \in Files, NEW around \in Surroundings, NEW h \in SectionHeader, Copied(h)
  PROVE  Payload(f, around, h) \in Bytes /\ Len(Payload(f, around, h)) = h.size
<1>1. h.size \in Words /\ h.offset \in Words /\ h.size <= MaxVector /\ h.size \in Nat
  BY WordsAre DEF SectionHeader, Copied
<1>2. CASE h.nobits
  <2>1. Payload(f, around, h) \in [1..h.size -> Byte]
    BY <1>2 DEF Payload, Byte
  <2>2. Payload(f, around, h) \in Seq(Byte) /\ Len(Payload(f, around, h)) = h.size
    BY <1>1, <2>1
  <2>3. QED BY <1>1, <2>2 DEF Bytes
<1>3. CASE ~h.nobits
  BY <1>1, <1>3, CopyOf DEF Payload
<1>4. QED BY <1>2, <1>3

(* What is appended is placed behind whatever ended with room for the gap.    *)
LEMMA SectionStep == IInv /\ (ReadSection \/ BadSection) => IInv'
<1> SUFFICES ASSUME IInv, ReadSection PROVE IInv'
  BY FailedStep DEF BadSection
<1>1. PICK h \in Spelled :
        \/ Allocated(h) /\ AddSection(h)
        \/ ~Allocated(h) /\ UNCHANGED <<next_address, image>>
  BY DEF ReadSection
<1>2. /\ file \in Files /\ Relocatable /\ PastAll /\ PlacedApart /\ ReadsStayInside
      /\ phase = "sections" /\ index < file.shnum /\ SectionInFile
      /\ file' = file /\ base' = base /\ phase' = "sections" /\ index' \in Nat
      /\ next_address \in Words /\ image.sections \in Seq(Section)
  BY DEF IInv, TypeOK, Image, ReadSection
<1>3. h \in SectionHeader /\ SectionAt \in Words
  BY <1>2, SpelledAre
<1>4. Relocatable'
  BY <1>2 DEF Relocatable
<1>5. CASE ~Allocated(h)
  <2>1. image' = image /\ next_address' = next_address
    BY <1>1, <1>5
  <2>2. TypeOK' /\ PastAll' /\ PlacedApart'
    BY <1>2, <2>1 DEF IInv, TypeOK, PastAll, PlacedApart, Relocatable
  <2>3. ReadsStayInside'
    BY <1>2, <2>1 DEF ReadsStayInside, HoldsFile, HeaderWraps, HeaderOf, Relocatable
  <2>4. QED BY <1>2, <1>4, <2>2, <2>3 DEF IInv
<1>6. CASE Allocated(h)
  <2>1. PICK around \in Surroundings :
          image' = [image EXCEPT !.sections =
                      Append(@, [at |-> SectionAt, header |-> h,
                                 address |-> AddressOf(h), executable |-> h.exec,
                                 bytes |-> Payload(file, around, h)])]
    BY <1>1, <1>6 DEF AddSection
  <2>2. PICK new : new = [at |-> SectionAt, header |-> h,
                          address |-> AddressOf(h), executable |-> h.exec,
                          bytes |-> Payload(file, around, h)]
    OBVIOUS
  <2>3. PICK old : old = image.sections
    OBVIOUS
  <2>4. PayloadFits(h) /\ Copied(h) /\ next_address' = PlaceAfter(h)
    BY <1>1, <1>6 DEF AddSection
  <2>5. AddressOf(h) \in Words /\ h.size \in Words /\ h.offset \in Words /\ h.exec \in BOOLEAN
    BY <1>2, <1>3 DEF AddressOf, SectionHeader
  <2>6. new \in Section /\ Len(new.bytes) = h.size
    <3>1. Payload(file, around, h) \in Bytes /\ Len(Payload(file, around, h)) = h.size
      BY <1>2, <1>3, <2>4, PayloadRead
    <3>2. h \in Header
      BY <1>3 DEF Header
    <3>3. QED BY <1>3, <2>2, <2>5, <3>1, <3>2 DEF Section
  <2>7. /\ image'.sections = Append(old, new) /\ image' \in Image
        /\ Len(image'.sections) = Len(old) + 1 /\ Len(old) \in Nat
        /\ image'.sections[Len(old) + 1] = new
        /\ \A i \in 1..Len(old) : image'.sections[i] = old[i] /\ old[i] \in Section
    <3>1. image' = [image EXCEPT !.sections = Append(old, new)] /\ image \in Image
      BY <2>1, <2>2, <2>3 DEF IInv, TypeOK
    <3>2. old \in Seq(Section)
      BY <1>2, <2>3
    <3>3. image'.sections = Append(old, new) /\ image' \in Image
      BY <2>6, <3>1, <3>2, Appended DEF Image
    <3>4. QED BY <2>6, <3>2, <3>3, Appended
  <2>8. /\ next_address' \in Words /\ next_address' >= next_address
        /\ Ends(new) + Gap < Word => Ends(new) <= next_address'
    <3> DEFINE end == Ends(new) + Gap
    <3>1. /\ AddressOf(h) \in Nat /\ h.size \in Nat /\ Gap \in Nat /\ end \in Nat
          /\ Ends(new) = AddressOf(h) + h.size /\ Ends(new) \in Nat
      <4>1. AddressOf(h) \in Nat /\ h.size \in Nat /\ Gap \in Nat
        BY <2>5, WordsAre, PlaceAssumption
      <4>2. Ends(new) = AddressOf(h) + h.size
        BY <2>2, <2>6 DEF Ends
      <4>3. QED BY <4>1, <4>2
    <3>2. PlaceAfter(h) = Larger(next_address, Wrap(end))
      BY <3>1 DEF PlaceAfter
    <3>3. Wrap(end) \in Words
      BY <3>1, WrapIn
    <3>4. end < Word => Wrap(end) = end
      BY <3>1, WordsAre, WrapFits
    <3>5. next_address \in Nat /\ Wrap(end) \in Nat
      BY <1>2, <3>3, WordsAre
    <3>6. Ends(new) <= end
      BY <3>1
    <3> HIDE DEF end
    <3>7. PlaceAfter(h) \in Words /\ PlaceAfter(h) >= next_address /\ PlaceAfter(h) >= Wrap(end)
      BY <1>2, <3>2, <3>3, <3>5 DEF Larger
    <3>8. end < Word => Ends(new) <= PlaceAfter(h)
      <4>1. PlaceAfter(h) \in Nat /\ end \in Nat /\ Ends(new) \in Nat
        BY <3>1, <3>7, WordsAre
      <4>2. QED BY <3>4, <3>6, <3>7, <4>1
    <3>9. QED BY <2>4, <3>7, <3>8 DEF end
  <2>9. next_address \in Nat /\ next_address' \in Nat
    BY <1>2, <2>8, WordsAre
  <2>10. TypeOK'
    BY <1>2, <2>7, <2>8 DEF IInv, TypeOK
  <2>11. \A i \in 1..Len(image'.sections) : i \in 1..Len(old) \/ i = Len(old) + 1
    BY <2>7
  <2>12. PastAll'
    <3>1. ASSUME NEW i \in 1..Len(old), Ends(old[i]) + Gap < Word
          PROVE  Ends(old[i]) <= next_address'
      <4>1. Ends(old[i]) <= next_address
        BY <1>2, <2>3, <3>1 DEF PastAll
      <4>2. Ends(old[i]) \in Nat
        BY <2>7, SectionKinds
      <4>3. QED BY <2>8, <2>9, <4>1, <4>2
    <3>2. \A i \in 1..Len(image'.sections) :
            Ends(image'.sections[i]) + Gap < Word => Ends(image'.sections[i]) <= next_address'
      BY <2>7, <2>8, <2>11, <3>1
    <3>3. QED BY <3>2 DEF PastAll, Ends
  <2>13. ReadsStayInside'
    <3>1. HoldsFile(new)
      <4>1. ~HeaderWraps(SectionAt) => h = HeaderOf(SectionAt)
        BY <1>2, SectionHeaderRead DEF Spelled, HeaderOf
      <4>2. ASSUME ~h.nobits, ~PayloadWraps(h)
            PROVE  /\ h.offset + h.size <= file.size
                   /\ new.bytes = [b \in 1..h.size |-> file.bytes[h.offset + b - 1]]
        <5>1. Wrap(h.offset + h.size) <= file.size
          BY <2>4, <4>2 DEF PayloadFits
        <5>2. new.bytes = BytesOf(file, around, h.offset, h.size)
          BY <2>2, <4>2 DEF Payload
        <5>3. QED BY <1>2, <2>5, <4>2, <5>1, <5>2, PayloadInside
      <4>3. new.at = SectionAt /\ new.header = h
        BY <2>2
      <4>4. QED BY <1>2, <4>1, <4>2, <4>3 DEF HoldsFile
    <3>2. \A i \in 1..Len(old) : HoldsFile(old[i])
      BY <1>2, <2>3 DEF ReadsStayInside
    <3>3. \A i \in 1..Len(image'.sections) : HoldsFile(image'.sections[i])
      BY <2>7, <2>11, <3>1, <3>2
    <3>4. \A s : HoldsFile(s)' <=> HoldsFile(s)
      BY <1>2 DEF HoldsFile, HeaderWraps, HeaderOf, Relocatable
    <3>5. \A i \in 1..Len(image'.sections) : HoldsFile(image.sections[i])'
      BY <1>2, <3>3 DEF HoldsFile, HeaderWraps, HeaderOf, Relocatable
    <3>6. QED BY <1>2, <3>5 DEF ReadsStayInside
  <2>14. PlacedApart'
    <3> DEFINE secs == image'.sections
    <3>1. ASSUME NEW j \in 1..Len(secs), NEW i \in 1..(j - 1),
                 Placed(secs[j]), Ends(secs[i]) + Gap < Word, Ends(secs[j]) <= Word
          PROVE  Extent(secs[i]) \cap Extent(secs[j]) = {}
      <4>1. CASE j \in 1..Len(old)
        <5>1. i \in 1..Len(old) /\ secs[i] = old[i] /\ secs[j] = old[j]
          BY <2>7, <4>1
        <5>2. QED BY <1>2, <2>3, <3>1, <4>1, <5>1 DEF PlacedApart
      <4>2. CASE j = Len(old) + 1
        <5>1. i \in 1..Len(old) /\ secs[i] = old[i] /\ secs[j] = new
          BY <2>7, <4>2
        <5>2. new.address = next_address
          BY <2>2, <3>1, <5>1 DEF Placed, AddressOf
        <5>3. Ends(old[i]) <= next_address
          BY <1>2, <2>3, <3>1, <5>1 DEF PastAll
        <5>4. Ends(old[i]) \in Nat /\ old[i] \in Section /\ Ends(old[i]) <= Word
          <6>1. Ends(old[i]) \in Nat /\ old[i] \in Section
            BY <2>7, <5>1, SectionKinds
          <6>2. Ends(old[i]) + Gap < Word
            BY <3>1, <5>1
          <6>3. QED BY <6>1, <6>2, PlaceAssumption, WordsAre
        <5>5. Extent(old[i]) \subseteq old[i].address..(Ends(old[i]) - 1)
          BY <5>4, ExtentBelowTop
        <5>6. Extent(new) \subseteq next_address..(Ends(new) - 1)
          BY <2>6, <3>1, <5>1, <5>2, ExtentBelowTop
        <5>7. \A a \in old[i].address..(Ends(old[i]) - 1) : a \notin next_address..(Ends(new) - 1)
          BY <2>9, <5>3, <5>4
        <5>8. QED BY <5>1, <5>5, <5>6, <5>7
      <4>3. QED BY <2>11, <4>1, <4>2
    <3>2. QED BY <3>1 DEF PlacedApart, Placed, Ends, Extent
  <2>15. QED BY <1>2, <1>4, <2>10, <2>12, <2>13, <2>14 DEF IInv
<1>7. QED BY <1>5, <1>6


(***************************************************************************)
(* The same of program headers.                                             *)
(***************************************************************************)
LEMMA SpelledSegmentsAre ==
  ASSUME IInv, phase = "segments", index < file.phnum, NEW h \in SpelledSegments
  PROVE  h \in SegmentHeader /\ SegmentAt \in Words
<1>1. file \in Files /\ index \in Nat /\ file.type \in {"EXEC", "DYN"}
  BY DEF IInv, TypeOK
<1>2. file.phoff \in Nat /\ file.phentsize \in Nat /\ file.phnum \in Nat
  BY <1>1, FileAssumption, WordsAre
<1>3. file.phoff + index * file.phentsize \in Int
  BY <1>1, <1>2
<1>4. SegmentAt \in Words
  BY <1>3, WrapIn DEF SegmentAt
<1>5. index \in 0..(file.phnum - 1)
  BY <1>1, <1>2
<1>6. SegmentAt \in TableOffsets(file.phoff, file.phentsize, file.phnum)
  BY <1>5 DEF SegmentAt, TableOffsets
<1>7. SegmentRead => file.segments[SegmentAt] \in SegmentHeader
  BY <1>1, <1>6, FileAssumption DEF SegmentRead
<1>8. QED BY <1>4, <1>7, MemoryAssumption DEF SpelledSegments

LEMMA NotRelocatable == IInv /\ phase = "segments" => ~Relocatable
BY DEF IInv, Relocatable

LEMMA SegmentHeaderRead ==
  ASSUME IInv, phase = "segments", index < file.phnum, SegmentInFile, ~HeaderWraps(SegmentAt)
  PROVE  SegmentRead
<1>1. file \in Files /\ ~Relocatable
  BY NotRelocatable DEF IInv, TypeOK
<1>2. SegmentAt \in Words
  <2>1. file.phoff \in Nat /\ file.phentsize \in Nat /\ index \in Nat
    BY <1>1, FileAssumption, WordsAre DEF IInv, TypeOK
  <2>2. file.phoff + index * file.phentsize \in Int
    BY <2>1
  <2>3. QED BY <2>2, WrapIn DEF SegmentAt
<1> DEFINE members == SegmentMembers(file.class)
           at == SegmentAt
<1>3. members \in SUBSET (Nat \X Nat)
  BY MembersAre
<1>4. \A m \in members : Wrap(at + m[1] + m[2]) <= file.size
  BY DEF SegmentInFile, HeaderChecked
<1>5. \A m \in members : at + m[1] + m[2] < Word
  <2>1. \A m \in members : ~ (at + m[1] + m[2] >= Word)
    BY <1>1 DEF HeaderWraps
  <2>2. at \in Nat /\ \A m \in members : m[1] \in Nat /\ m[2] \in Nat
    BY <1>2, <1>3, WordsAre
  <2> HIDE DEF members, at
  <2>3. QED BY <2>1, <2>2, WordsAre
<1> HIDE DEF members, at
<1>6. HeaderInside(file, at, members)
  BY <1>1, <1>2, <1>3, <1>4, <1>5, HeaderReadInside DEF at
<1>7. QED BY <1>6 DEF SegmentRead, at, members

LEMMA SegmentOutsideStep == IInv /\ SegmentOutside => IInv'
<1> SUFFICES ASSUME IInv, SegmentOutside PROVE IInv'
  OBVIOUS
<1>1. /\ file \in Files /\ ~Relocatable /\ phase = "segments" /\ index < file.phnum
      /\ SegmentInFile /\ Die
  BY NotRelocatable DEF IInv, TypeOK, SegmentOutside
<1>2. HeaderWraps(SegmentAt) \/ PayloadWraps(HeaderOf(SegmentAt))
  <2>1. SUFFICES ASSUME ~HeaderWraps(SegmentAt) PROVE PayloadWraps(HeaderOf(SegmentAt))
    OBVIOUS
  <2>2. SegmentRead
    BY <1>1, <2>1, SegmentHeaderRead
  <2>3. PICK h \in SpelledSegments : SegmentFits(h) /\ h.offset + h.size > file.size
    BY <2>2 DEF SegmentOutside
  <2>4. h = HeaderOf(SegmentAt) /\ h \in SegmentHeader
    BY <1>1, <2>2, <2>3, SpelledSegmentsAre DEF SpelledSegments, HeaderOf
  <2>5. h.offset \in Words /\ h.size \in Words
    BY <2>4 DEF SegmentHeader
  <2>6. ASSUME ~PayloadWraps(h) PROVE FALSE
    <3>1. h.offset \in Nat /\ h.size \in Nat /\ Word \in Nat /\ file.size \in Nat
      <4>1. file.size \in 0..MaxVector
        BY <1>1, FileAssumption
      <4>2. file.size \in Nat
        BY <4>1, SMTT(30)
      <4>3. QED BY <2>5, <4>2, WordsAre
    <3>2. h.offset + h.size < Word
      BY <2>6, <3>1 DEF PayloadWraps
    <3>3. h.offset + h.size \in Words
      BY <3>1, <3>2, WordsAre
    <3>4. Wrap(h.offset + h.size) <= file.size
      BY <2>3 DEF SegmentFits
    <3>5. h.offset + h.size <= file.size
      BY <3>3, <3>4, WrapFits
    <3>6. QED BY <2>3, <3>1, <3>5
  <2>7. QED BY <2>4, <2>6
<1>3. QED BY <1>1, <1>2, DeadStep

LEMMA SegmentStep == IInv /\ (ReadSegment \/ BadSegment) => IInv'
<1> SUFFICES ASSUME IInv, ReadSegment PROVE IInv'
  BY FailedStep DEF BadSegment
<1>1. PICK h \in SpelledSegments :
        \/ Loads(h) /\ AddSegment(h)
        \/ ~Loads(h) /\ UNCHANGED image
  BY DEF ReadSegment
<1>2. /\ file \in Files /\ ~Relocatable /\ ReadsStayInside
      /\ phase = "segments" /\ index < file.phnum /\ SegmentInFile
      /\ file' = file /\ base' = base /\ phase' = "segments" /\ index' \in Nat
      /\ next_address' = next_address /\ image.sections \in Seq(Section)
      /\ file.magic /\ file.type \in {"EXEC", "DYN"}
  BY NotRelocatable DEF IInv, TypeOK, Image, ReadSegment
<1>3. h \in SegmentHeader /\ SegmentAt \in Words
  BY <1>2, SpelledSegmentsAre
<1>4. ~Relocatable'
  BY <1>2 DEF Relocatable
<1>5. CASE ~Loads(h)
  <2>1. image' = image
    BY <1>1, <1>5
  <2>2. TypeOK'
    BY <1>2, <2>1 DEF IInv, TypeOK
  <2>3. ReadsStayInside'
    BY <1>2, <2>1 DEF ReadsStayInside, HoldsFile, HeaderWraps, HeaderOf, Relocatable
  <2>4. QED BY <1>2, <1>4, <2>2, <2>3 DEF IInv, PlacedApart
<1>6. CASE Loads(h)
  <2>1. PICK around \in Surroundings :
          image' = [image EXCEPT !.sections =
                      Append(@, [at |-> SegmentAt, header |-> h,
                                 address |-> h.address, executable |-> h.exec,
                                 bytes |-> BytesOf(file, around, h.offset, h.size)])]
    BY <1>1, <1>6 DEF AddSegment
  <2>2. PICK new : new = [at |-> SegmentAt, header |-> h,
                          address |-> h.address, executable |-> h.exec,
                          bytes |-> BytesOf(file, around, h.offset, h.size)]
    OBVIOUS
  <2>3. PICK old : old = image.sections
    OBVIOUS
  <2>4. SegmentFits(h) /\ Copied(h)
    BY <1>1, <1>6 DEF AddSegment
  <2>5. h.address \in Words /\ h.size \in Words /\ h.offset \in Words /\ h.exec \in BOOLEAN
    BY <1>3 DEF SegmentHeader
  <2>6. new \in Section
    <3>1. BytesOf(file, around, h.offset, h.size) \in Bytes
      BY <1>2, <2>4, <2>5, CopyOf DEF Copied
    <3>2. h \in Header
      BY <1>3 DEF Header
    <3>3. QED BY <1>3, <2>2, <2>5, <3>1, <3>2 DEF Section
  <2>7. /\ image' \in Image
        /\ Len(image'.sections) = Len(old) + 1 /\ Len(old) \in Nat
        /\ image'.sections[Len(old) + 1] = new
        /\ \A i \in 1..Len(old) : image'.sections[i] = old[i]
    <3>1. image' = [image EXCEPT !.sections = Append(old, new)] /\ image \in Image
      BY <2>1, <2>2, <2>3 DEF IInv, TypeOK
    <3>2. old \in Seq(Section)
      BY <1>2, <2>3
    <3>3. image'.sections = Append(old, new) /\ image' \in Image
      BY <2>6, <3>1, <3>2, Appended DEF Image
    <3>4. QED BY <2>6, <3>2, <3>3, Appended
  <2>8. TypeOK'
    BY <1>2, <2>7 DEF IInv, TypeOK
  <2>9. HoldsFile(new)
    <3>1. ~HeaderWraps(SegmentAt) => h = HeaderOf(SegmentAt)
      BY <1>2, SegmentHeaderRead DEF SpelledSegments, HeaderOf
    <3>2. ASSUME ~PayloadWraps(h)
          PROVE  /\ h.offset + h.size <= file.size
                 /\ new.bytes = [b \in 1..h.size |-> file.bytes[h.offset + b - 1]]
      <4>1. Wrap(h.offset + h.size) <= file.size
        BY <2>4 DEF SegmentFits
      <4>2. new.bytes = BytesOf(file, around, h.offset, h.size)
        BY <2>2
      <4>3. QED BY <1>2, <2>5, <3>2, <4>1, <4>2, PayloadInside
    <3>3. new.at = SegmentAt /\ new.header = h
      BY <2>2
    <3>4. QED BY <1>2, <3>1, <3>2, <3>3 DEF HoldsFile
  <2>10. ReadsStayInside'
    <3>1. \A i \in 1..Len(image'.sections) : i \in 1..Len(old) \/ i = Len(old) + 1
      BY <2>7
    <3>2. \A i \in 1..Len(old) : HoldsFile(old[i])
      BY <1>2, <2>3 DEF ReadsStayInside
    <3>3. \A i \in 1..Len(image'.sections) : HoldsFile(image'.sections[i])
      BY <2>7, <2>9, <3>1, <3>2
    <3>4. \A i \in 1..Len(image'.sections) : HoldsFile(image.sections[i])'
      BY <1>2, <3>3 DEF HoldsFile, HeaderWraps, HeaderOf, Relocatable
    <3>5. QED BY <1>2, <3>4 DEF ReadsStayInside
  <2>11. QED BY <1>2, <1>4, <2>8, <2>10 DEF IInv, PlacedApart
<1>7. QED BY <1>5, <1>6

LEMMA Ended == IInv /\ (Complete \/ Empty) => IInv'
<1> SUFFICES ASSUME IInv, Complete PROVE IInv'
  BY FailedStep DEF Empty
<1>1. /\ file' = file /\ base' = base /\ index' = index /\ next_address' = next_address
      /\ phase' = "loaded" /\ phase \in {"sections", "segments"}
      /\ image.sections # << >> /\ image \in Image
      /\ image' = IF phase = "sections"
                    THEN [image EXCEPT !.entry_point = image.sections[1].address] ELSE image
  BY DEF IInv, TypeOK, Complete
<1>2. image.sections[1].address \in Words
  <2>1. image.sections \in Seq(Section)
    BY <1>1 DEF Image
  <2>2. image.sections[1] \in Section
    BY <1>1, <2>1
  <2>3. QED BY <2>2 DEF Section
<1>3. image'.sections = image.sections /\ image' \in Image
  BY <1>1, <1>2 DEF Image
<1>4. TypeOK'
  BY <1>1, <1>3 DEF IInv, TypeOK
<1>5. ReadsStayInside'
  BY <1>1, <1>3 DEF IInv, ReadsStayInside, HoldsFile, HeaderWraps, HeaderOf, Relocatable
<1>6. PlacedApart'
  BY <1>1, <1>3 DEF IInv, PlacedApart, Relocatable
<1>7. QED BY <1>1, <1>4, <1>5, <1>6 DEF IInv

LEMMA StepIInv == IInv /\ [Next]_loader => IInv'
<1>1. ASSUME IInv, UNCHANGED loader PROVE IInv'
  <2>1. /\ file' = file /\ base' = base /\ phase' = phase /\ index' = index
        /\ next_address' = next_address /\ image' = image
    BY <1>1 DEF loader
  <2>2. TypeOK' /\ Relocatable' = Relocatable
    BY <1>1, <2>1 DEF IInv, TypeOK, Relocatable
  <2>3. PastAll' = PastAll /\ PlacedApart' = PlacedApart
    BY <2>1, <2>2 DEF PastAll, PlacedApart
  <2>4. ReadsStayInside'
    BY <1>1, <2>1 DEF IInv, ReadsStayInside, HoldsFile, HeaderWraps, PayloadWraps, HeaderOf,
                      Relocatable, SectionAt, SegmentAt
  <2>5. QED BY <1>1, <2>1, <2>2, <2>3, <2>4 DEF IInv
<1>2. QED BY <1>1, Opened, SectionStep, SectionOutsideStep, SegmentStep, SegmentOutsideStep,
             Ended DEF Next

-----------------------------------------------------------------------------
(* The types of the loader's state, section numbers and bytes included, along *)
(* every path of LoadElfImageFromBytes.                                      *)
THEOREM LoaderTypeCorrect == Spec => []TypeOK
<1>1. IInv => TypeOK
  BY DEF IInv
<1>2. QED BY <1>1, InitIInv, StepIInv, PTL DEF Spec

(* Of a file whose headers do not lie across the top of the word and whose    *)
(* payloads end below it, however broken otherwise, the loader reads nothing *)
(* that is not in the file (LoadElfImageFromBytes, ReadLe32/64 and the       *)
(* constructor of each section's vector).                                   *)
THEOREM LoaderReadsInside == Spec => []ReadsStayInside
<1>1. IInv => ReadsStayInside
  BY DEF IInv
<1>2. QED BY <1>1, InitIInv, StepIInv, PTL DEF Spec

(* A section that the loader places overlaps none before it that ended, with  *)
(* the gap, below the top of the word, provided it ends there itself        *)
(* (next_address in LoadElfImageFromBytes).                                  *)
THEOREM PlacedSectionsApart == Spec => []PlacedApart
<1>1. IInv => PlacedApart
  BY DEF IInv
<1>2. QED BY <1>1, InitIInv, StepIInv, PTL DEF Spec

-----------------------------------------------------------------------------
(***************************************************************************)
(* The two readers.                                                         *)
(***************************************************************************)
LEMMA NatHasMinimum ==
  ASSUME NEW T \in SUBSET Nat, T # {}
  PROVE  \E m \in T : \A n \in T : m <= n
<1> DEFINE R == OpToRel(<, Nat)
<1>1. \E m \in T : \A n \in T : ~ (<<n, m>> \in R)
  BY NatLessThanWellFounded, WFMin
<1>2. \A m, n \in Nat : ~ (<<n, m>> \in R) => m <= n
  BY DEF OpToRel
<1>3. QED BY <1>1, <1>2

LEMMA LengthsAre == Lengths \subseteq Nat \ {0} /\ \A n \in Lengths : n \in {16, 32, 48, 64}
BY LengthAssumption, WholeBytesAssumption

(* A form found at a length fits there and is the only one.                  *)
LEMMA CandidateFits ==
  ASSUME NEW bytes \in Seq(Byte), NEW length \in Lengths, NEW f \in DecodedAt(bytes, length)
  PROVE  /\ f \in Forms /\ f.length = length /\ 8 * Len(bytes) >= length
         /\ FixedMatch(f, PackLittleEndian(bytes, length \div 8), length)
         /\ DecodeStatus(PackLittleEndian(bytes, length \div 8), length) = "Ok"
         /\ ValidMatches(PackLittleEndian(bytes, length \div 8), length) = {f}
<1> DEFINE word == PackLittleEndian(bytes, length \div 8)
<1>1. /\ 8 * Len(bytes) >= length /\ DecodeStatus(word, length) = "Ok"
      /\ f \in ValidMatches(word, length)
  BY DEF DecodedAt
<1> HIDE DEF word
<1>2. f \in Forms /\ FixedMatch(f, word, length)
  BY <1>1 DEF ValidMatches
<1>3. f.length = length
  BY <1>2 DEF FixedMatch
<1>4. ValidMatches(word, length) = {f}
  <2>1. Cardinality(ValidMatches(word, length)) = 1
    BY <1>1 DEF DecodeStatus
  <2>2. IsFiniteSet(ValidMatches(word, length))
    <3>1. ValidMatches(word, length) \subseteq Forms
      BY DEF ValidMatches
    <3>2. QED BY <3>1, TableAssumption, FS_Subset
  <2>3. PICK x : ValidMatches(word, length) = {x}
    BY <2>1, <2>2, FS_Singleton
  <2>4. QED BY <1>1, <2>3
<1>5. QED BY <1>1, <1>2, <1>3, <1>4 DEF word

Candidates(bytes) == UNION { DecodedAt(bytes, length) : length \in Lengths }

LEMMA CandidateAt ==
  ASSUME NEW bytes \in Seq(Byte), NEW f \in Candidates(bytes)
  PROVE  f \in Forms /\ f.length \in Lengths /\ f \in DecodedAt(bytes, f.length)
<1>1. PICK length \in Lengths : f \in DecodedAt(bytes, length)
  BY DEF Candidates
<1>2. f \in Forms /\ f.length = length
  BY <1>1, CandidateFits
<1>3. QED BY <1>1, <1>2

(* There is a best of the candidates: they are no longer than the bytes.     *)
LEMMA BestIsCandidate ==
  ASSUME NEW bytes \in Seq(Byte), Candidates(bytes) # {}
  PROVE  DecodeBest(bytes) \in Candidates(bytes)
<1> DEFINE C == Candidates(bytes)
           N == 8 * Len(bytes)
<1>1. ASSUME NEW f \in C PROVE f.fixed_bits \in 0..N /\ f.length \in Nat
  <2>1. f \in Forms /\ f.length \in Lengths /\ f \in DecodedAt(bytes, f.length)
    BY CandidateAt
  <2>2. f.length \in Nat /\ f.length <= N
    <3>1. N >= f.length
      BY <2>1, CandidateFits
    <3>2. N \in Nat
      OBVIOUS
    <3>3. f.length \in Nat
      BY <2>1, LengthAssumption
    <3> HIDE DEF N
    <3>4. QED BY <3>1, <3>2, <3>3
  <2>3. f.fixed_bits = Cardinality(f.mask) /\ f.mask \subseteq 0..(f.length - 1)
    BY <2>1, FormAssumption DEF FormWellFormed, BitMask
  <2>4. IsFiniteSet(0..(f.length - 1)) /\ Cardinality(0..(f.length - 1)) = f.length
    <3>1. 0 \in Int /\ f.length - 1 \in Int
      BY <2>2
    <3>2. /\ IsFiniteSet(0..(f.length - 1))
          /\ Cardinality(0..(f.length - 1))
               = IF 0 > f.length - 1 THEN 0 ELSE (f.length - 1) - 0 + 1
      BY <3>1, FS_Interval
    <3>3. QED BY <2>2, <3>2
  <2>5. /\ IsFiniteSet(f.mask) /\ Cardinality(f.mask) <= f.length
        /\ Cardinality(f.mask) \in Nat
    <3>1. IsFiniteSet(f.mask) /\ Cardinality(f.mask) <= Cardinality(0..(f.length - 1))
      BY <2>3, <2>4, FS_Subset
    <3>2. Cardinality(f.mask) \in Nat
      BY <3>1, FS_CardinalityType
    <3>3. QED BY <2>4, <3>1, <3>2
  <2>6. QED BY <2>2, <2>3, <2>5
<1> HIDE DEF C
<1>2. N \in Nat
  OBVIOUS
<1> HIDE DEF N
<1>3. PICK most \in C : \A g \in C : g.fixed_bits <= most.fixed_bits
  <2> DEFINE T == { N - f.fixed_bits : f \in C }
  <2>1. T \in SUBSET Nat
    BY <1>1, <1>2
  <2>2. T # {}
    BY DEF C
  <2> HIDE DEF T
  <2>3. PICK m \in T : \A k \in T : m <= k
    BY <2>1, <2>2, NatHasMinimum
  <2>4. PICK f \in C : m = N - f.fixed_bits
    BY DEF T
  <2>5. ASSUME NEW g \in C PROVE g.fixed_bits <= f.fixed_bits
    <3>1. m <= N - g.fixed_bits
      BY <2>3 DEF T
    <3>2. QED BY <1>1, <1>2, <2>4, <3>1
  <2>6. QED BY <2>5
<1>4. PICK best \in C :
        \A g \in C : \/ g.fixed_bits < best.fixed_bits
                     \/ g.fixed_bits = best.fixed_bits /\ best.length <= g.length
  <2> DEFINE U == { f \in C : f.fixed_bits = most.fixed_bits }
             L == { f.length : f \in U }
  <2>1. L \in SUBSET Nat /\ L # {}
    BY <1>1
  <2> HIDE DEF L
  <2>2. PICK m \in L : \A k \in L : m <= k
    BY <2>1, NatHasMinimum
  <2>3. PICK f \in U : m = f.length
    BY DEF L
  <2>4. ASSUME NEW g \in C
        PROVE  \/ g.fixed_bits < f.fixed_bits
               \/ g.fixed_bits = f.fixed_bits /\ f.length <= g.length
    <3>1. f \in C /\ f.fixed_bits = most.fixed_bits /\ g.fixed_bits <= most.fixed_bits
      BY <1>3, <2>3
    <3>2. CASE g.fixed_bits = most.fixed_bits
      <4>1. g.length \in L
        <5>1. g \in U
          BY <3>2
        <5>2. QED BY <5>1 DEF L
      <4>2. f.length <= g.length
        BY <2>2, <2>3, <4>1
      <4>3. QED BY <3>1, <3>2, <4>2
    <3>3. CASE g.fixed_bits # most.fixed_bits
      BY <1>1, <3>1, <3>3
    <3>4. QED BY <3>2, <3>3
  <2>5. QED BY <2>3, <2>4
<1>5. DecodeBest(bytes) = CHOOSE f \in C : \A g \in C :
        \/ g.fixed_bits < f.fixed_bits
        \/ g.fixed_bits = f.fixed_bits /\ f.length <= g.length
  BY DEF DecodeBest, Candidates, C
<1>6. DecodeBest(bytes) \in C
  BY <1>4, <1>5
<1>7. QED BY <1>6 DEF C

LEMMA NoCandidate ==
  ASSUME NEW bytes, Candidates(bytes) = {}
  PROVE  DecodeBest(bytes) = NoForm
BY DEF DecodeBest, Candidates

(* A line starts where it was asked for and ends inside the bytes it was made *)
(* of, and it moves on.                                                      *)
LEMMA LineInside ==
  ASSUME NEW bytes \in Seq(Byte), bytes # << >>, NEW pc
  PROVE  /\ LineAt(bytes, pc).pc = pc
         /\ LineAt(bytes, pc).form = DecodeBest(bytes)
         /\ LineAt(bytes, pc).size_bytes \in 1..Len(bytes)
<1> DEFINE form == DecodeBest(bytes)
<1>1. LineAt(bytes, pc) =
        [pc |-> pc, form |-> form,
         size_bytes |-> IF form = NoForm THEN 1 ELSE form.length \div 8]
  BY DEF LineAt
<1>2. Len(bytes) \in Nat /\ Len(bytes) >= 1
  OBVIOUS
<1>3. form # NoForm => form.length \div 8 \in 1..Len(bytes)
  <2>1. SUFFICES ASSUME form # NoForm PROVE form.length \div 8 \in 1..Len(bytes)
    OBVIOUS
  <2>2. form \in Candidates(bytes)
    BY <2>1, NoCandidate, BestIsCandidate
  <2> HIDE DEF form
  <2>3. /\ form.length \in Lengths /\ 8 * Len(bytes) >= form.length
    BY <2>2, CandidateAt, CandidateFits
  <2>4. form.length \in {16, 32, 48, 64}
    BY <2>3, LengthsAre
  <2>5. QED BY <1>2, <2>3, <2>4
<1> HIDE DEF form
<1>4. QED BY <1>1, <1>2, <1>3 DEF form

(* The bits of a word of bytes.                                              *)
LEMMA PackedBit ==
  ASSUME NEW bytes, NEW size \in Nat, NEW b \in BitMask(8 * size)
  PROVE  /\ b \in PackLittleEndian(bytes, size) <=> b % 8 \in bytes[b \div 8 + 1]
         /\ b \div 8 + 1 \in 1..size
<1>1. b \in 0..(8 * size - 1)
  BY DEF BitMask
<1>2. b \div 8 + 1 \in 1..size
  BY <1>1
<1>3. QED BY <1>2 DEF PackLittleEndian

LEMMA PackedAlike ==
  ASSUME NEW bytes, NEW others, NEW size \in Nat, \A i \in 1..size : bytes[i] = others[i]
  PROVE  PackLittleEndian(bytes, size) = PackLittleEndian(others, size)
<1>1. ASSUME NEW b \in BitMask(8 * size)
      PROVE  b \in PackLittleEndian(bytes, size) <=> b \in PackLittleEndian(others, size)
  <2>1. /\ b \in PackLittleEndian(bytes, size) <=> b % 8 \in bytes[b \div 8 + 1]
        /\ b \in PackLittleEndian(others, size) <=> b % 8 \in others[b \div 8 + 1]
        /\ b \div 8 + 1 \in 1..size
    BY PackedBit
  <2>2. bytes[b \div 8 + 1] = others[b \div 8 + 1]
    BY <2>1
  <2>3. QED BY Zenon, <2>1, <2>2
<1>2. /\ PackLittleEndian(bytes, size) \subseteq BitMask(8 * size)
      /\ PackLittleEndian(others, size) \subseteq BitMask(8 * size)
  BY DEF PackLittleEndian
<1>3. QED BY <1>1, <1>2

(* The first byte of a form's instruction has the form's fixed bits.         *)
LEMMA FirstByteFits ==
  ASSUME NEW f \in Forms, NEW bytes, bytes[1] \in Byte, NEW size \in Nat \ {0},
         FixedMatch(f, PackLittleEndian(bytes, size), f.length)
  PROVE  bytes[1] \cap f.mask = f.match \cap 0..7
<1> DEFINE word == PackLittleEndian(bytes, size)
<1>1. f.match \subseteq f.mask
  BY FormAssumption DEF FormWellFormed
<1>2. ASSUME NEW b \in 0..7 PROVE b \in word <=> b \in bytes[1]
  <2>1. b \in BitMask(8 * size) /\ b % 8 = b /\ b \div 8 + 1 = 1
    BY DEF BitMask
  <2>2. b \in word <=> b % 8 \in bytes[b \div 8 + 1]
    BY <2>1, PackedBit
  <2>3. QED BY <2>1, <2>2
<1>3. \A b \in f.mask : b \in word <=> b \in f.match
  BY DEF FixedMatch
<1>4. bytes[1] \subseteq 0..7
  BY DEF Byte
<1> HIDE DEF word
<1>5. QED BY <1>1, <1>2, <1>3, <1>4

(* The rule of the executor for the length is that of the table.             *)
LEMMA FetchTells ==
  ASSUME NEW length \in Lengths, NEW low \in FirstBytes(length)
  PROVE  8 * FetchLength(low) = length
<1>1. low \in SUBSET (0..7)
  BY DEF FirstBytes
<1>2. length \in {16, 32, 48, 64}
  BY LengthsAre
<1>3. /\ length = 16 => 0 \notin low /\ low \cap 0..3 # {1, 2, 3}
      /\ length = 32 => 0 \in low /\ low \cap 0..3 # 0..3
      /\ length = 48 => low \cap 0..3 = {1, 2, 3}
      /\ length = 64 => low \cap 0..3 = 0..3
  BY DEF FirstBytes
<1>4. 0 \in 0..3 /\ 0 \notin {1, 2, 3}
  OBVIOUS
<1>5. length = 48 => 0 \notin low
  BY <1>3, <1>4
<1>6. length = 64 => 0 \in low /\ 0..3 \subseteq low
  BY <1>3, <1>4
<1>7. length = 32 => ~(0..3 \subseteq low)
  BY <1>3
<1>8. /\ length = 16 => FetchLength(low) = 2
      /\ length = 32 => FetchLength(low) = 4
      /\ length = 48 => FetchLength(low) = 6
      /\ length = 64 => FetchLength(low) = 8
  BY <1>3, <1>5, <1>6, <1>7 DEF FetchLength
<1>9. QED BY <1>2, <1>8

(* What FetchDecode reads in a section on its own.                           *)
FetchIn(rest) ==
  LET len  == FetchLength(rest[1])
      word == PackLittleEndian(rest, len)
  IN  IF len <= Len(rest) /\ DecodeStatus(word, 8 * len) = "Ok"
        THEN CHOOSE f \in ValidMatches(word, 8 * len) : TRUE
        ELSE NoForm

LEMMA FetchLengths ==
  ASSUME NEW low
  PROVE  FetchLength(low) \in {2, 4, 6, 8}
BY DEF FetchLength

LEMMA RestOf ==
  ASSUME NEW bytes \in Seq(Byte), NEW o \in 0..(Len(bytes) - 1), NEW rest,
         rest = SubSeq(bytes, o + 1, Len(bytes))
  PROVE  /\ rest \in Seq(Byte) /\ Len(rest) = Len(bytes) - o /\ rest # << >>
         /\ \A i \in 1..(Len(bytes) - o) : rest[i] = bytes[o + i] /\ rest[i] \in Byte
<1>1. Len(bytes) \in Nat /\ o + 1 \in 1..Len(bytes)
  OBVIOUS
<1>2. rest \in Seq(Byte) /\ Len(rest) = Len(bytes) - o
  BY <1>1
<1>3. \A i \in 1..(Len(bytes) - o) : rest[i] = bytes[(o + 1) + i - 1]
  BY <1>1
<1>4. \A i \in 1..(Len(bytes) - o) : (o + 1) + i - 1 = o + i
  OBVIOUS
<1>5. \A i \in 1..(Len(bytes) - o) : rest[i] = bytes[o + i]
  BY <1>3, <1>4
<1>6. \A i \in 1..(Len(bytes) - o) : rest[i] \in Byte
  BY <1>2
<1>7. rest # << >>
  <2>1. Len(rest) # 0
    <3> DEFINE n == Len(bytes)
    <3>1. n \in Nat /\ o \in 0..(n - 1)
      BY <1>1
    <3> HIDE DEF n
    <3>2. n - o # 0
      BY <3>1
    <3>3. Len(rest) = n - o
      BY <1>2 DEF n
    <3>4. QED BY Zenon, <3>2, <3>3
  <2>2. Len(<< >>) = 0
    OBVIOUS
  <2>3. QED BY Zenon, <2>1, <2>2
<1>8. QED BY <1>2, <1>5, <1>6, <1>7

(* From the first byte of a section on, its bytes are where the section is,   *)
(* and behind the last one is none.                                          *)
LEMMA OwnBytes ==
  ASSUME NEW s \in Section, NEW b \in 0..Len(s.bytes)
  PROVE  /\ b < Len(s.bytes) => /\ Wrap(s.address + b) \in DOMAIN OwnMemory(s)
                                /\ OwnMemory(s)[Wrap(s.address + b)] = s.bytes[b + 1]
         /\ b = Len(s.bytes) => Wrap(s.address + b) \notin DOMAIN OwnMemory(s)
<1> DEFINE n == Len(s.bytes)
<1>1. /\ s.address \in Words /\ n \in Nat /\ n < Word /\ b \in Nat /\ b <= n
      /\ \A c \in 0..n : c \in Words
  <2>1. s.address \in Words
    BY DEF Section
  <2>2. n \in Nat /\ n < Word
    BY SectionKinds
  <2> HIDE DEF n
  <2>3. \A c \in 0..n : c \in Nat /\ c < Word
    BY <2>2, WordsAre
  <2>4. b \in 0..n
    BY DEF n
  <2>5. QED BY <2>1, <2>2, <2>3, <2>4, WordsAre
<1>2. DOMAIN OwnMemory(s) = { Wrap(s.address + c) : c \in 0..(n - 1) }
  BY DEF OwnMemory, Extent
<1>3. Wrap(Wrap(s.address + b) - s.address) = b
  BY <1>1, WrapBack
<1>4. ASSUME b < n
      PROVE  /\ Wrap(s.address + b) \in DOMAIN OwnMemory(s)
             /\ OwnMemory(s)[Wrap(s.address + b)] = s.bytes[b + 1]
  <2>1. b \in 0..(n - 1)
    BY <1>1, <1>4
  <2>2. Wrap(s.address + b) \in Extent(s)
    BY <2>1 DEF Extent
  <2>3. QED BY <1>3, <2>2 DEF OwnMemory
<1>5. ASSUME b = n PROVE Wrap(s.address + b) \notin DOMAIN OwnMemory(s)
  <2>1. ASSUME NEW c \in 0..(n - 1), Wrap(s.address + b) = Wrap(s.address + c) PROVE FALSE
    <3>1. c \in 0..n /\ c # b
      BY <1>1, <1>5
    <3>2. Wrap(Wrap(s.address + c) - s.address) = c
      BY <1>1, <3>1, WrapBack
    <3>3. QED BY <1>3, <2>1, <3>1, <3>2
  <2>2. QED BY <1>2, <2>1
<1>6. QED BY <1>4, <1>5

LEMMA FetchedIn ==
  ASSUME NEW s \in Section, NEW o \in 0..(Len(s.bytes) - 1), NEW rest,
         rest = SubSeq(s.bytes, o + 1, Len(s.bytes))
  PROVE  FetchDecode(OwnMemory(s), Wrap(s.address + o)) = FetchIn(rest)
<1> DEFINE memory == OwnMemory(s)
           pc == Wrap(s.address + o)
           n == Len(s.bytes)
           len == FetchLength(rest[1])
<1>1. s.address \in Words /\ s.bytes \in Seq(Byte) /\ n \in Nat /\ n < Word /\ o \in 0..(n - 1)
  BY SectionKinds DEF Section, Bytes
<1>2. Len(rest) = n - o /\ \A i \in 1..(n - o) : rest[i] = s.bytes[o + i]
  BY <1>1, RestOf
<1> HIDE DEF n
(* So many bytes on from pc is so many on in the section.                    *)
<1>3. ASSUME NEW b \in 0..(n - o) PROVE Wrap(pc + b) = Wrap(s.address + (o + b))
  <2>1. s.address \in Nat /\ o \in Nat /\ o < Word /\ s.address < Word
    <3>1. s.address \in Nat /\ s.address < Word
      BY SectionKinds
    <3>2. QED BY <1>1, <3>1, WordsAre
  <2>2. s.address + o \in 0..(2 * Word - 1)
    BY <2>1, WordsAre
  <2>3. b \in Words
    <3>1. b \in Nat /\ b < Word
      BY <1>1, <2>1, WordsAre
    <3>2. QED BY <3>1, WordsAre
  <2>4. Wrap(pc + b) = Wrap((s.address + o) + b)
    BY <2>2, <2>3, WrapSum
  <2>5. (s.address + o) + b = s.address + (o + b)
    BY <2>1
  <2>6. QED BY <2>4, <2>5
<1>4. ASSUME NEW i \in 1..(n - o)
      PROVE  Wrap(pc + i - 1) \in DOMAIN memory /\ memory[Wrap(pc + i - 1)] = rest[i]
  <2> DEFINE b == i - 1
  <2>1. b \in 0..(n - o) /\ o + b \in 0..n /\ o + b < n /\ (o + b) + 1 = o + i
    BY <1>1
  <2>2. pc \in Int /\ pc + i - 1 = pc + b
    <3>1. pc \in Nat
      <4>1. s.address + o \in Int
        <5>1. s.address \in Nat
          BY <1>1, WordsAre
        <5>2. QED BY <1>1, <5>1
      <4>2. QED BY <4>1, WrapIn, WordsAre
    <3> HIDE DEF pc
    <3>2. QED BY <3>1
  <2> HIDE DEF b, pc
  <2>3. Wrap(pc + i - 1) = Wrap(s.address + (o + b))
    BY <1>3, <2>1, <2>2
  <2>4. /\ Wrap(s.address + (o + b)) \in DOMAIN memory
        /\ memory[Wrap(s.address + (o + b))] = s.bytes[(o + b) + 1]
    BY <2>1, OwnBytes DEF n
  <2> HIDE DEF memory
  <2>5. QED BY <1>2, <2>1, <2>3, <2>4
<1>5. pc \in Words /\ Wrap(pc + 0) = pc /\ 0 \in 0..(n - o) /\ 1 \in 1..(n - o)
  <2>1. s.address + o \in Int
    <3>1. s.address \in Nat
      BY <1>1, WordsAre
    <3>2. QED BY <1>1, <3>1
  <2>2. pc \in Words
    BY <2>1, WrapIn
  <2> HIDE DEF pc
  <2>3. pc + 0 = pc
    BY <2>2, WordsAre
  <2>4. Wrap(pc + 0) = pc
    BY <2>2, <2>3, WrapFits
  <2>5. QED BY <1>1, <2>2, <2>4
<1>6. memory[pc] = rest[1]
  <2>1. pc + 1 - 1 = pc + 0
    BY <1>5, WordsAre
  <2>2. QED BY <1>4, <1>5, <2>1
<1>7. len \in {2, 4, 6, 8}
  BY FetchLengths
<1> DEFINE read == [i \in 1..len |-> memory[Wrap(pc + i - 1)]]
           Fetched(l) == {pc, Wrap(pc + 1)} \subseteq DOMAIN memory
                         /\ { Wrap(pc + i) : i \in 0..(l - 1) } \subseteq DOMAIN memory
<1> HIDE DEF len
<1>8. Fetched(len) <=> len <= n - o
  <2>1. ASSUME NEW b \in 0..(n - o) PROVE Wrap(pc + b) \in DOMAIN memory <=> b < n - o
    <3>1. o + b \in 0..n /\ (o + b < n <=> b < n - o) /\ (o + b = n <=> ~ (b < n - o))
      BY <1>1
    <3>2. Wrap(s.address + (o + b)) \in DOMAIN memory <=> o + b < n
      BY <1>1, <3>1, OwnBytes DEF n
    <3> HIDE DEF memory, pc
    <3>3. QED BY <1>3, <3>1, <3>2
  <2> HIDE DEF memory, pc
  <2>2. ASSUME len <= n - o PROVE Fetched(len)
    <3>1. \A i \in 0..(len - 1) : i \in 0..(n - o) /\ i < n - o
      BY <1>1, <1>7, <2>2
    <3>2. 0 \in 0..(len - 1) /\ 1 \in 0..(len - 1)
      BY <1>7
    <3>3. QED BY <1>5, <2>1, <3>1, <3>2
  <2>3. ASSUME ~ (len <= n - o) PROVE ~Fetched(len)
    <3>1. n - o \in 0..(len - 1) /\ n - o \in 0..(n - o) /\ ~ (n - o < n - o)
      BY <1>1, <1>7, <2>3
    <3>2. QED BY <2>1, <3>1
  <2>4. QED BY <2>2, <2>3
<1>9. len <= n - o => PackLittleEndian(read, len) = PackLittleEndian(rest, len)
  <2>1. SUFFICES ASSUME len <= n - o
                 PROVE  PackLittleEndian(read, len) = PackLittleEndian(rest, len)
    OBVIOUS
  <2>2. \A i \in 1..len : i \in 1..(n - o)
    BY <1>1, <1>7, <2>1
  <2>3. \A i \in 1..len : read[i] = rest[i]
    BY <1>4, <2>2
  <2>4. len \in Nat
    BY <1>7
  <2> HIDE DEF read
  <2>5. QED BY <2>3, <2>4, PackedAlike
<1>10. FetchDecode(memory, pc) =
         IF Fetched(len) /\ DecodeStatus(PackLittleEndian(read, len), 8 * len) = "Ok"
           THEN CHOOSE f \in ValidMatches(PackLittleEndian(read, len), 8 * len) : TRUE
           ELSE NoForm
  <2> DEFINE word(l) == PackLittleEndian([i \in 1..l |-> memory[Wrap(pc + i - 1)]], l)
             form(l) == IF Fetched(l) /\ DecodeStatus(word(l), 8 * l) = "Ok"
                          THEN CHOOSE f \in ValidMatches(word(l), 8 * l) : TRUE
                          ELSE NoForm
  <2> HIDE DEF pc
  <2>1. FetchDecode(memory, pc) = form(FetchLength(memory[pc]))
    BY DEF FetchDecode
  <2>2. FetchLength(memory[pc]) = len
    BY <1>6 DEF len
  <2> HIDE DEF form
  <2>3. FetchDecode(memory, pc) = form(len)
    BY <2>1, <2>2
  <2>4. QED BY Zenon, <2>3 DEF form
<1> HIDE DEF read, pc, Fetched
<1>11. FetchIn(rest) =
         IF len <= n - o /\ DecodeStatus(PackLittleEndian(rest, len), 8 * len) = "Ok"
           THEN CHOOSE f \in ValidMatches(PackLittleEndian(rest, len), 8 * len) : TRUE
           ELSE NoForm
  <2> DEFINE Found(l, m) ==
        IF l <= m /\ DecodeStatus(PackLittleEndian(rest, l), 8 * l) = "Ok"
          THEN CHOOSE f \in ValidMatches(PackLittleEndian(rest, l), 8 * l) : TRUE
          ELSE NoForm
  <2>1. FetchIn(rest) = Found(FetchLength(rest[1]), Len(rest))
    BY DEF FetchIn
  <2> HIDE DEF Found
  <2>2. FetchIn(rest) = Found(len, n - o)
    BY <1>2, <2>1 DEF len
  <2>3. QED BY Zenon, <2>2 DEF Found
<1>12. FetchDecode(memory, pc) = FetchIn(rest)
  BY Zenon, <1>8, <1>9, <1>10, <1>11
<1>13. QED BY <1>12 DEF memory, pc

(* The listing shows what the executor would fetch, or HL.BSTART CALL where   *)
(* it would fetch BSTART.                                                    *)
LEMMA ReadersMeet ==
  ASSUME NEW bytes \in Seq(Byte), bytes # << >>
  PROVE  \/ DecodeBest(bytes) = FetchIn(bytes)
         \/ /\ DecodeBest(bytes).mnemonic = "HL.BSTART CALL"
            /\ FetchIn(bytes).mnemonic = "BSTART"
<1> DEFINE len == FetchLength(bytes[1])
           word(n) == PackLittleEndian(bytes, n)
<1>1. Len(bytes) \in Nat \ {0} /\ bytes[1] \in Byte
  OBVIOUS
<1>2. len \in {2, 4, 6, 8}
  BY FetchLengths
(* A candidate whose first byte tells its length is what is fetched.         *)
<1>3. ASSUME NEW f \in Candidates(bytes), TellsLength(f) PROVE f = FetchIn(bytes)
  <2>1. f \in Forms /\ f.length \in Lengths /\ f \in DecodedAt(bytes, f.length)
    BY CandidateAt
  <2>2. /\ 8 * Len(bytes) >= f.length
        /\ FixedMatch(f, word(f.length \div 8), f.length)
        /\ DecodeStatus(word(f.length \div 8), f.length) = "Ok"
        /\ ValidMatches(word(f.length \div 8), f.length) = {f}
    BY <2>1, CandidateFits
  <2>3. f.length \in {16, 32, 48, 64}
    BY <2>1, LengthsAre
  <2>4. f.length \div 8 \in Nat \ {0}
    BY <2>3
  <2>5. bytes[1] \cap f.mask = f.match \cap 0..7
    BY <1>1, <2>1, <2>2, <2>4, FirstByteFits
  <2>6. bytes[1] \in FirstBytes(f.length)
    BY <1>1, <1>3, <2>5 DEF TellsLength, Byte
  <2>7. 8 * len = f.length
    BY <2>1, <2>6, FetchTells
  <2>8. f.length \div 8 = len /\ len <= Len(bytes)
    BY <1>1, <1>2, <2>2, <2>7
  <2>9. /\ DecodeStatus(word(len), 8 * len) = "Ok"
        /\ ValidMatches(word(len), 8 * len) = {f}
    BY <2>2, <2>7, <2>8
  <2> HIDE DEF word
  <2>10. FetchIn(bytes) = CHOOSE g \in ValidMatches(word(len), 8 * len) : TRUE
    BY <2>8, <2>9 DEF FetchIn, word
  <2>11. QED BY <2>9, <2>10
<1>4. CASE Candidates(bytes) = {}
  <2>1. DecodeBest(bytes) = NoForm
    BY <1>4, NoCandidate
  <2>2. ASSUME len <= Len(bytes), DecodeStatus(word(len), 8 * len) = "Ok" PROVE FALSE
    <3>1. 8 * len \in Lengths /\ ValidMatches(word(len), 8 * len) # {}
      BY <2>2 DEF DecodeStatus
    <3>2. (8 * len) \div 8 = len /\ 8 * Len(bytes) >= 8 * len
      BY <1>1, <1>2, <2>2
    <3> HIDE DEF len
    <3>3. DecodedAt(bytes, 8 * len) = ValidMatches(word(len), 8 * len)
      BY <2>2, <3>2 DEF DecodedAt
    <3>4. QED BY <1>4, <3>1, <3>3 DEF Candidates
  <2>3. FetchIn(bytes) = NoForm
    BY <2>2 DEF FetchIn
  <2>4. QED BY <2>1, <2>3
<1>5. CASE Candidates(bytes) # {}
  <2> DEFINE best == DecodeBest(bytes)
  <2>1. best \in Candidates(bytes)
    BY <1>5, BestIsCandidate
  <2> HIDE DEF best
  <2>2. CASE TellsLength(best)
    <3>1. best = FetchIn(bytes)
      BY <1>3, <2>1, <2>2
    <3>2. QED BY <3>1 DEF best
  <2>3. CASE ~TellsLength(best)
    <3>1. best \in Forms /\ best.length \in Lengths /\ best \in DecodedAt(bytes, best.length)
      BY <2>1, CandidateAt
    <3>2. best.mnemonic = "HL.BSTART CALL"
      BY <2>3, <3>1, FirstByteAssumption
    <3>3. PICK g \in Forms : g.mnemonic = "BSTART" /\ Shadows(best, g)
      BY <2>3, <3>1, FirstByteAssumption
    <3>4. /\ TellsLength(g) /\ g.length < best.length
          /\ g.mask \subseteq best.mask /\ g.match = best.match \cap g.mask
          /\ g.constraints = << >>
          /\ \A h \in Forms : h.length = g.length /\ FixedAgree(g, h) => h = g
      BY <3>3 DEF Shadows
    <3>5. g.length \in Lengths /\ FormWellFormed(g)
      BY FormAssumption DEF FormWellFormed
    <3>6. g.length \in {16, 32, 48, 64} /\ best.length \in {16, 32, 48, 64}
      BY <3>1, <3>5, LengthsAre
    <3> DEFINE m == g.length \div 8
               n == best.length \div 8
    <3>7. m \in Nat /\ n \in Nat /\ m <= n /\ 8 * m = g.length /\ 8 * n = best.length
      BY <3>4, <3>6
    <3>8. 8 * Len(bytes) >= best.length /\ FixedMatch(best, word(n), best.length)
      BY <3>1, CandidateFits
    <3> HIDE DEF m, n
    <3>9. \A b \in BitMask(8 * m) : b \in word(m) <=> b \in word(n)
      <4>1. ASSUME NEW b \in BitMask(8 * m) PROVE b \in word(m) <=> b \in word(n)
        <5>1. b \in BitMask(8 * n)
          BY <3>7 DEF BitMask
        <5>2. b \in word(m) <=> b % 8 \in bytes[b \div 8 + 1]
          BY <3>7, PackedBit
        <5>3. b \in word(n) <=> b % 8 \in bytes[b \div 8 + 1]
          BY <3>7, <5>1, PackedBit
        <5>4. QED BY Zenon, <5>2, <5>3
      <4>2. QED BY <4>1
    <3> HIDE DEF word
    <3>10. FixedMatch(g, word(m), g.length)
      <4>1. g.mask \subseteq BitMask(8 * m)
        BY <3>5, <3>7 DEF FormWellFormed
      <4>2. \A b \in best.mask : b \in word(n) <=> b \in best.match
        BY <3>8 DEF FixedMatch
      <4>3. ASSUME NEW b \in g.mask PROVE b \in word(m) <=> b \in g.match
        BY <3>4, <3>9, <4>1, <4>2
      <4>4. QED BY <4>3 DEF FixedMatch
    <3>11. ConstraintsOk(g, word(m))
      <4>1. Len(g.constraints) = 0
        BY <3>4
      <4>2. QED BY <4>1 DEF ConstraintsOk
    <3>12. ASSUME NEW h \in Forms, FixedMatch(h, word(m), g.length) PROVE h = g
      <4>1. h.match \subseteq h.mask /\ g.match \subseteq g.mask
        BY FormAssumption DEF FormWellFormed
      <4>2. h.length = g.length /\ FixedAgree(g, h)
        BY <3>10, <3>12, <4>1 DEF FixedMatch, FixedAgree
      <4>3. QED BY <3>4, <4>2
    <3>13. ValidMatches(word(m), g.length) = {g}
      <4>1. { f \in Forms : FixedMatch(f, word(m), g.length) /\ ConstraintsOk(f, word(m)) } = {g}
        BY <3>10, <3>11, <3>12
      <4>2. g.fixed_bits <= g.fixed_bits
        <5>1. g.fixed_bits = Cardinality(g.mask) /\ g.mask \subseteq 0..(g.length - 1)
          BY <3>5 DEF FormWellFormed, BitMask
        <5>2. 0 \in Int /\ g.length - 1 \in Int
          BY <3>6
        <5>3. IsFiniteSet(g.mask)
          BY <5>1, <5>2, FS_Interval, FS_Subset
        <5>4. Cardinality(g.mask) \in Nat
          BY <5>3, FS_CardinalityType
        <5>5. QED BY <5>1, <5>4
      <4>3. QED BY <4>1, <4>2 DEF ValidMatches
    <3>14. DecodeStatus(word(m), g.length) = "Ok"
      <4>1. Cardinality({g}) = 1 /\ {g} # {}
        BY FS_Singleton
      <4>2. QED BY <3>5, <3>13, <4>1 DEF DecodeStatus
    <3>15. g \in Candidates(bytes)
      <4>1. 8 * Len(bytes) >= g.length
        BY <1>1, <3>4, <3>6, <3>8
      <4>2. DecodedAt(bytes, g.length) = {g}
        BY <3>13, <3>14, <4>1 DEF DecodedAt, word, m
      <4>3. QED BY <3>5, <4>2 DEF Candidates
    <3>16. FetchIn(bytes) = g
      BY <1>3, <3>4, <3>15
    <3>17. QED BY <3>2, <3>3, <3>16 DEF best
  <2>4. QED BY <2>2, <2>3
<1>6. QED BY <1>4, <1>5

-----------------------------------------------------------------------------
(***************************************************************************)
(* The listing.  Of each section the lines cover what was reached of it:     *)
(* nothing yet, the bytes up to offset, or all of them.                      *)
(***************************************************************************)
Line  == [pc : Words, form : Forms \cup {NoForm}, size_bytes : Nat]
Entry == [section : Nat, line : Line]

Reached(s) ==
  IF section < s \/ ~Sections[s].executable THEN 0
  ELSE IF s = section THEN offset
  ELSE Len(Sections[s].bytes)

Covered(s, n) ==
  IF n = 0
    THEN \A k \in DOMAIN lines : lines[k].section # s
    ELSE \E a, b \in DOMAIN lines :
           /\ a <= b
           /\ \A k \in DOMAIN lines : lines[k].section = s <=> k \in a..b
           /\ lines[a].line.pc = Sections[s].address
           /\ \A k \in a..(b - 1) : lines[k + 1].line.pc = EndOf(lines[k])
           /\ EndOf(lines[b]) = Wrap(Sections[s].address + n)

(* A line was made of the bytes left of its section, where they start.       *)
RestAt(s, o) == SubSeq(s.bytes, o + 1, Len(s.bytes))
AsRead(l) ==
  /\ l.section \in 1..Len(Sections)
  /\ \E o \in 0..(Len(Sections[l.section].bytes) - 1) :
       l.line = LineAt(RestAt(Sections[l.section], o), Wrap(Sections[l.section].address + o))

ListingTypeOK ==
  /\ section \in 1..(Len(Sections) + 1)
  /\ offset \in Nat
  /\ lines \in Seq(Entry)

(* Inside a section, the last line is of that section.                       *)
Midway ==
  offset # 0 =>
    /\ section <= Len(Sections) /\ Current.executable /\ offset <= Len(Current.bytes)
    /\ lines # << >> /\ lines[Len(lines)].section = section

ListingInv ==
  /\ IInv
  /\ ListingTypeOK
  /\ phase # "loaded" => section = 1 /\ offset = 0 /\ lines = << >>
  /\ Midway
  /\ \A s \in 1..Len(Sections) : Covered(s, Reached(s))
  /\ \A k \in DOMAIN lines : AsRead(lines[k])

LEMMA SectionsAre == IInv => Sections \in Seq(Section)
BY DEF IInv, TypeOK, Image, Sections

(* Before anything is listed, nothing was reached.                           *)
Unlisted == IInv /\ section = 1 /\ offset = 0 /\ lines = << >>

LEMMA NothingListed == Unlisted => ListingInv
<1> SUFFICES ASSUME IInv, section = 1, offset = 0, lines = << >> PROVE ListingInv
  BY DEF Unlisted
<1>1. Sections \in Seq(Section) /\ Len(Sections) \in Nat
  BY SectionsAre
<1>2. DOMAIN lines = {}
  OBVIOUS
<1>3. ListingTypeOK
  <2>1. section \in 1..(Len(Sections) + 1)
    BY <1>1
  <2>2. lines \in Seq(Entry)
    OBVIOUS
  <2>3. QED BY <2>1, <2>2 DEF ListingTypeOK
<1>4. ASSUME NEW s \in 1..Len(Sections) PROVE Covered(s, Reached(s))
  <2>1. Reached(s) = 0
    BY <1>1 DEF Reached
  <2>2. QED BY <1>2, <2>1 DEF Covered
<1>5. QED BY <1>2, <1>3, <1>4 DEF ListingInv, Midway

LEMMA ListingInitInv == ListingInit => ListingInv
BY InitIInv, NothingListed DEF ListingInit, Unlisted

LEMMA LoadStep == ListingInv /\ Load => ListingInv'
<1> SUFFICES ASSUME ListingInv, Load PROVE ListingInv'
  OBVIOUS
<1>1. IInv'
  BY StepIInv DEF ListingInv, Load
<1>2. phase # "loaded"
  BY DEF Load, Next, OpenRaw, OpenElf, OpenBad, ReadSection, BadSection, SectionOutside,
         ReadSegment, BadSegment, SegmentOutside, Complete, Empty
<1>3. section' = 1 /\ offset' = 0 /\ lines' = << >>
  BY <1>2 DEF ListingInv, Load, listing
<1>4. Unlisted' => ListingInv'
  BY NothingListed, PTL
<1>5. QED BY <1>1, <1>3, <1>4 DEF Unlisted

LEMMA NextSectionStep == ListingInv /\ NextSection => ListingInv'
<1> SUFFICES ASSUME ListingInv, NextSection PROVE ListingInv'
  OBVIOUS
<1>1. /\ phase = "loaded" /\ section \in 1..Len(Sections)
      /\ ~Current.executable \/ offset >= Len(Current.bytes)
      /\ section' = section + 1 /\ offset' = 0 /\ lines' = lines
      /\ UNCHANGED loader
  BY DEF NextSection, ListingInv, ListingTypeOK
<1>2. IInv'
  BY <1>1, StepIInv DEF ListingInv
<1>3. Sections \in Seq(Section) /\ Len(Sections) \in Nat /\ offset \in Nat
  BY SectionsAre DEF ListingInv, ListingTypeOK
<1>4. Sections' = Sections /\ phase' = phase
  BY <1>1 DEF loader, Sections
<1>5. ASSUME NEW s \in 1..Len(Sections) PROVE Reached(s)' = Reached(s)
  <2>1. Current \in Section /\ Len(Current.bytes) \in Nat
    <3>1. Current \in Section
      BY <1>1, <1>3 DEF Current
    <3>2. QED BY <3>1, SectionKinds
  <2>2. CASE s = section
    <3>1. Sections[s] = Current
      BY <2>2 DEF Current
    <3>2. CASE ~Current.executable
      BY <1>4, <3>1, <3>2 DEF Reached
    <3>3. CASE Current.executable
      <4>1. offset <= Len(Current.bytes)
        BY <1>3, <2>1 DEF ListingInv, Midway
      <4>2. offset = Len(Current.bytes)
        BY <1>1, <1>3, <2>1, <3>3, <4>1
      <4>3. Reached(s) = offset
        BY <1>1, <2>2, <3>1, <3>3 DEF Reached
      <4>4. Reached(s)' = Len(Sections[s].bytes)
        BY <1>1, <1>4, <2>2, <3>1, <3>3 DEF Reached
      <4>5. QED BY <3>1, <4>2, <4>3, <4>4
    <3>4. QED BY <3>2, <3>3
  <2>3. CASE s = section + 1
    BY <1>1, <1>4, <2>3 DEF Reached
  <2>4. CASE s < section
    BY <1>1, <1>4, <2>4 DEF Reached
  <2>5. CASE s > section + 1
    BY <1>1, <1>4, <2>5 DEF Reached
  <2>6. QED BY <1>1, <2>2, <2>3, <2>4, <2>5
<1>6. ASSUME NEW s \in 1..Len(Sections)' PROVE Covered(s, Reached(s))'
  <2>1. Covered(s, Reached(s)) /\ Reached(s)' = Reached(s)
    BY <1>4, <1>5 DEF ListingInv
  <2>2. QED BY <1>1, <1>4, <2>1 DEF Covered
<1>7. \A k \in DOMAIN lines' : AsRead(lines[k])'
  BY <1>1, <1>4 DEF ListingInv, AsRead
<1>8. ListingTypeOK'
  BY <1>1, <1>3, <1>4 DEF ListingInv, ListingTypeOK
<1>9. Midway'
  BY <1>1 DEF Midway
<1>10. QED BY <1>1, <1>2, <1>4, <1>6, <1>7, <1>8, <1>9 DEF ListingInv

(* One line more of the section that is being listed.                        *)
LEMMA DisassembleStep == ListingInv /\ Disassemble => ListingInv'
<1> SUFFICES ASSUME ListingInv, Disassemble PROVE ListingInv'
  OBVIOUS
<1> DEFINE bytes == Current.bytes
           pc    == Wrap(Current.address + offset)
           new   == LineAt(RestAt(Current, offset), pc)
           entry == [section |-> section, line |-> new]
           K     == Len(lines) + 1
<1>1. /\ phase = "loaded" /\ section \in 1..Len(Sections)
      /\ Current.executable /\ offset \in Nat /\ offset < Len(bytes)
      /\ UNCHANGED loader /\ section' = section
  BY DEF Disassemble, ListingInv, ListingTypeOK
<1>2. lines' = Append(lines, entry) /\ offset' = offset + new.size_bytes
  BY DEF Disassemble, RestAt
<1>3. /\ Sections \in Seq(Section) /\ Len(Sections) \in Nat /\ lines \in Seq(Entry)
      /\ IInv'
  BY <1>1, SectionsAre, StepIInv DEF ListingInv, ListingTypeOK
<1>4. Current \in Section
  BY <1>1, <1>3 DEF Current
<1>5. /\ bytes \in Seq(Byte) /\ Len(bytes) \in Nat /\ Len(bytes) < Word
      /\ Current.address \in Words /\ Current.address \in Nat /\ Current.address < Word
  BY <1>4, SectionKinds DEF Section, Bytes
<1>6. Sections' = Sections /\ phase' = phase /\ Current' = Current
  BY <1>1 DEF loader, Sections, Current
<1>7. offset \in 0..(Len(bytes) - 1)
  BY <1>1, <1>5
<1> DEFINE rest == RestAt(Current, offset)
<1>8. rest \in Seq(Byte) /\ Len(rest) = Len(bytes) - offset /\ rest # << >>
  BY <1>5, <1>7, RestOf DEF RestAt
<1> HIDE DEF rest
<1>9. new.pc = pc /\ new.size_bytes \in 1..(Len(bytes) - offset)
  <2>1. new = LineAt(rest, pc)
    BY DEF rest
  <2>2. QED BY <1>8, <2>1, LineInside
<1>10. new \in Line
  <2>1. new = LineAt(rest, pc)
    BY DEF rest
  <2>2. DecodeBest(rest) \in Forms \cup {NoForm}
    BY <1>8, NoCandidate, BestIsCandidate, CandidateAt
  <2>3. new = [pc |-> new.pc, form |-> new.form, size_bytes |-> new.size_bytes]
    BY <2>1 DEF LineAt
  <2>4. new.form = DecodeBest(rest)
    BY <1>8, <2>1, LineInside
  <2>5. new.size_bytes \in Nat /\ pc \in Words
    <3>1. Current.address + offset \in Int
      BY <1>1, <1>5
    <3>2. QED BY <1>1, <1>5, <1>9, <3>1, WrapIn
  <2> HIDE DEF new, pc
  <2>6. QED BY <1>9, <2>2, <2>3, <2>4, <2>5 DEF Line
<1>11. entry \in Entry /\ entry.section = section /\ entry.line = new
  BY <1>1, <1>10 DEF Entry
<1> HIDE DEF entry, new, pc
<1>12. /\ lines' \in Seq(Entry) /\ Len(lines') = K
       /\ DOMAIN lines = 1..(K - 1) /\ DOMAIN lines' = 1..K /\ K \in Nat \ {0}
       /\ lines'[K] = entry /\ \A k \in 1..(K - 1) : lines'[k] = lines[k]
  BY <1>2, <1>3, <1>11
<1> HIDE DEF K
<1>13. K = Len(lines) + 1
  BY DEF K
<1>14. lines'[K].section = section /\ lines'[K].line.pc = pc
       /\ EndOf(lines'[K]) = Wrap(pc + new.size_bytes)
  BY <1>9, <1>11, <1>12 DEF EndOf
<1>15. ListingTypeOK'
  <2>1. offset + new.size_bytes \in Nat
    BY <1>1, <1>5, <1>9
  <2>2. QED BY <1>1, <1>2, <1>3, <1>6, <1>12, <2>1 DEF ListingTypeOK
<1>16. Midway'
  <2>1. offset + new.size_bytes <= Len(bytes)
    BY <1>1, <1>5, <1>9
  <2>2. lines' # << >>
    BY <1>12
  <2>3. /\ section' <= Len(Sections') /\ Current'.executable
        /\ offset' <= Len(Current'.bytes)
        /\ lines'[Len(lines')].section = section'
    BY <1>1, <1>2, <1>3, <1>6, <1>12, <1>14, <2>1
  <2>4. QED BY <2>2, <2>3 DEF Midway
<1>17. ASSUME NEW s \in 1..Len(Sections), s # section PROVE Covered(s, Reached(s))'
  <2>1. Reached(s)' = Reached(s)
    BY <1>1, <1>6, <1>17 DEF Reached
  <2>2. Covered(s, Reached(s))
    BY DEF ListingInv
  <2>3. CASE Reached(s) = 0
    <3>1. \A k \in 1..(K - 1) : lines[k].section # s
      BY <1>12, <2>2, <2>3 DEF Covered
    <3>2. \A k \in 1..K : lines'[k].section # s
      <4>1. ASSUME NEW k \in 1..K PROVE lines'[k].section # s
        <5>1. k = K \/ k \in 1..(K - 1)
          BY <1>12
        <5>2. QED BY <1>12, <1>14, <1>17, <3>1, <5>1
      <4>2. QED BY <4>1
    <3>3. QED BY <1>12, <2>1, <2>3, <3>2 DEF Covered
  <2>4. CASE Reached(s) # 0
    <3>1. PICK a \in 1..(K - 1), b \in 1..(K - 1) :
            /\ a <= b
            /\ \A k \in 1..(K - 1) : lines[k].section = s <=> k \in a..b
            /\ lines[a].line.pc = Sections[s].address
            /\ \A k \in a..(b - 1) : lines[k + 1].line.pc = EndOf(lines[k])
            /\ EndOf(lines[b]) = Wrap(Sections[s].address + Reached(s))
      BY <1>12, <2>2, <2>4 DEF Covered
    <3>2. a \in 1..K /\ b \in 1..K /\ K \notin a..b
      BY <1>12
    <3>3. ASSUME NEW k \in 1..K PROVE lines'[k].section = s <=> k \in a..b
      <4>1. k = K \/ k \in 1..(K - 1)
        BY <1>12
      <4>2. CASE k = K
        BY <1>14, <1>17, <3>2, <4>2
      <4>3. CASE k \in 1..(K - 1)
        BY <1>12, <3>1, <4>3
      <4>4. QED BY <4>1, <4>2, <4>3
    <3>4. lines'[a] = lines[a] /\ lines'[b] = lines[b]
      BY <1>12
    <3>5. ASSUME NEW k \in a..(b - 1) PROVE lines'[k + 1].line.pc = EndOf(lines'[k])
      <4>1. k \in 1..(K - 1) /\ k + 1 \in 1..(K - 1)
        BY <1>12
      <4>2. lines'[k] = lines[k] /\ lines'[k + 1] = lines[k + 1]
        BY <1>12, <4>1
      <4>3. QED BY <3>1, <4>2
    <3>6. /\ lines'[a].line.pc = Sections'[s].address
          /\ EndOf(lines'[b]) = Wrap(Sections'[s].address + Reached(s)')
      BY <1>6, <2>1, <3>1, <3>4
    <3>7. Reached(s)' # 0
      BY <2>1, <2>4
    <3>8. QED BY <1>12, <3>1, <3>2, <3>3, <3>5, <3>6, <3>7 DEF Covered, EndOf
  <2>5. QED BY <2>3, <2>4
<1>18. Covered(section, Reached(section))'
  <2> DEFINE n == offset + new.size_bytes
  <2>1. Reached(section) = offset /\ Reached(section)' = n /\ n # 0
    <3>1. ~(section < section) /\ Sections[section] = Current
      BY <1>1 DEF Current
    <3>2. Reached(section) = offset
      BY <1>1, <3>1 DEF Reached
    <3>3. Reached(section)' = offset'
      BY <1>1, <1>6, <3>1 DEF Reached
    <3>4. QED BY <1>1, <1>2, <1>5, <1>9, <3>2, <3>3
  <2>2. Covered(section, offset)
    BY <1>1, <2>1 DEF ListingInv
  <2>3. EndOf(lines'[K]) = Wrap(Current.address + n)
    <3>1. new.size_bytes \in Nat /\ new.size_bytes < Word /\ offset < Word
      BY <1>1, <1>5, <1>9, WordsAre
    <3>2. new.size_bytes \in Words
      BY <3>1, WordsAre
    <3>3. Current.address + offset \in 0..(2 * Word - 1)
      BY <1>1, <1>5, <3>1, WordsAre
    <3>4. Wrap(pc + new.size_bytes) = Wrap((Current.address + offset) + new.size_bytes)
      BY <3>2, <3>3, WrapSum DEF pc
    <3>5. (Current.address + offset) + new.size_bytes = Current.address + n
      BY <1>1, <1>5, <3>1
    <3>6. QED BY <1>14, <3>4, <3>5
  <2>4. Sections[section] = Current
    BY DEF Current
  <2>5. \E a \in 1..K :
          /\ \A k \in 1..K : lines'[k].section = section <=> k \in a..K
          /\ lines'[a].line.pc = Current.address
          /\ \A k \in a..(K - 1) : lines'[k + 1].line.pc = EndOf(lines'[k])
    <3>1. CASE offset = 0
      <4>1. \A k \in 1..(K - 1) : lines[k].section # section
        BY <1>12, <2>2, <3>1 DEF Covered
      <4>2. ASSUME NEW k \in 1..K PROVE lines'[k].section = section <=> k \in K..K
        <5>1. k = K \/ (k \in 1..(K - 1) /\ k \notin K..K)
          BY <1>12
        <5>2. K \in K..K
          BY <1>12
        <5>3. QED BY <1>12, <1>14, <4>1, <5>1, <5>2
      <4>3. pc = Current.address
        <5>1. Current.address + offset = Current.address
          BY <1>5, <3>1
        <5>2. QED BY <1>5, <5>1, WrapFits DEF pc
      <4>4. K \in 1..K /\ K..(K - 1) = {}
        BY <1>12
      <4>5. QED BY <1>14, <4>2, <4>3, <4>4
    <3>2. CASE offset # 0
      <4>1. PICK a \in 1..(K - 1), b \in 1..(K - 1) :
              /\ a <= b
              /\ \A k \in 1..(K - 1) : lines[k].section = section <=> k \in a..b
              /\ lines[a].line.pc = Current.address
              /\ \A k \in a..(b - 1) : lines[k + 1].line.pc = EndOf(lines[k])
              /\ EndOf(lines[b]) = Wrap(Current.address + offset)
        BY <1>12, <2>2, <2>4, <3>2 DEF Covered
      <4>2. lines[K - 1].section = section /\ K - 1 \in 1..(K - 1)
        <5>1. lines # << >> /\ lines[Len(lines)].section = section
          BY <3>2 DEF ListingInv, Midway
        <5>2. K - 1 = Len(lines)
          BY <1>3, <1>13
        <5>3. K - 1 \in 1..(K - 1)
          BY <1>12, <4>1
        <5>4. QED BY <5>1, <5>2, <5>3
      <4>3. b = K - 1
        <5>1. K - 1 \in a..b
          BY <4>1, <4>2
        <5>2. QED BY <1>12, <5>1
      <4>4. ASSUME NEW k \in 1..K PROVE lines'[k].section = section <=> k \in a..K
        <5>1. k = K \/ k \in 1..(K - 1)
          BY <1>12
        <5>2. CASE k = K
          <6>1. K \in a..K
            BY <1>12
          <6>2. QED BY <1>14, <5>2, <6>1
        <5>3. CASE k \in 1..(K - 1)
          <6>1. k \in a..K <=> k \in a..b
            BY <1>12, <4>3, <5>3
          <6>2. lines'[k] = lines[k] /\ (lines[k].section = section <=> k \in a..b)
            BY <1>12, <4>1, <5>3
          <6>3. QED BY Zenon, <6>1, <6>2
        <5>4. QED BY <5>1, <5>2, <5>3
      <4>5. ASSUME NEW k \in a..(K - 1) PROVE lines'[k + 1].line.pc = EndOf(lines'[k])
        <5>1. CASE k = K - 1
          <6>1. lines'[k] = lines[b] /\ k + 1 = K
            BY <1>12, <4>3, <5>1
          <6>2. lines'[K].line.pc = Wrap(Current.address + offset)
            BY <1>14 DEF pc
          <6>3. QED BY <4>1, <6>1, <6>2
        <5>2. CASE k # K - 1
          <6>1. k \in a..(b - 1) /\ k \in 1..(K - 1) /\ k + 1 \in 1..(K - 1)
            BY <1>12, <4>3, <5>2
          <6>2. lines'[k] = lines[k] /\ lines'[k + 1] = lines[k + 1]
            BY <1>12, <6>1
          <6>3. QED BY <4>1, <6>1, <6>2
        <5>3. QED BY <5>1, <5>2
      <4>6. lines'[a].line.pc = Current.address /\ a \in 1..K
        BY <1>12, <4>1
      <4>7. QED BY <4>4, <4>5, <4>6
    <3>3. QED BY <3>1, <3>2
  <2> HIDE DEF n
  <2>6. PICK a \in 1..K :
          /\ \A k \in 1..K : lines'[k].section = section <=> k \in a..K
          /\ lines'[a].line.pc = Current.address
          /\ \A k \in a..(K - 1) : lines'[k + 1].line.pc = EndOf(lines'[k])
    BY <2>5
  <2>7. a <= K /\ K \in 1..K
    BY <1>12
  <2>8. Sections'[section] = Current
    BY <1>6, <2>4
  <2>9. QED BY <1>1, <1>12, <2>1, <2>3, <2>6, <2>7, <2>8, SMTT(60)
        DEF Covered, EndOf
<1>19. \A k \in DOMAIN lines' : AsRead(lines[k])'
  <2>1. ASSUME NEW k \in 1..K PROVE AsRead(lines[k])'
    <3>1. k = K \/ k \in 1..(K - 1)
      BY <1>12
    <3>2. CASE k \in 1..(K - 1)
      <4>1. AsRead(lines[k]) /\ lines'[k] = lines[k]
        BY <1>12, <3>2 DEF ListingInv
      <4>2. QED BY <1>6, <4>1 DEF AsRead
    <3>3. CASE k = K
      <4>1. /\ lines'[K].section = section
            /\ lines'[K].line = LineAt(RestAt(Current, offset), Wrap(Current.address + offset))
        BY <1>11, <1>12 DEF new, pc
      <4>2. Sections'[section] = Current /\ section \in 1..Len(Sections')
        BY <1>1, <1>6 DEF Current
      <4>3. QED BY <1>7, <3>3, <4>1, <4>2 DEF AsRead
    <3>4. QED BY <3>1, <3>2, <3>3
  <2>2. QED BY <1>12, <2>1
<1>20. \A s \in 1..Len(Sections) : Covered(s, Reached(s))'
  <2>1. ASSUME NEW s \in 1..Len(Sections) PROVE Covered(s, Reached(s))'
    <3>1. CASE s = section
      BY <1>1, <1>18, <3>1 DEF Covered, Reached, EndOf
    <3>2. CASE s # section
      BY <1>17, <3>2
    <3>3. QED BY <3>1, <3>2
  <2>2. QED BY <2>1
<1>21. QED BY <1>1, <1>3, <1>6, <1>15, <1>16, <1>19, <1>20 DEF ListingInv

LEMMA ListingStepInv == ListingInv /\ [ListingNext]_vars => ListingInv'
<1>1. ASSUME ListingInv, UNCHANGED vars PROVE ListingInv'
  <2>1. UNCHANGED loader /\ section' = section /\ offset' = offset /\ lines' = lines
    BY <1>1 DEF vars, listing
  <2>2. IInv' /\ phase' = phase /\ Sections' = Sections
    BY <1>1, <2>1, StepIInv DEF ListingInv, loader, Sections
  <2>3. \A s \in 1..Len(Sections) : Covered(s, Reached(s))'
    BY <1>1, <2>1, <2>2 DEF ListingInv, Covered, Reached, EndOf
  <2>4. \A k \in DOMAIN lines' : AsRead(lines[k])'
    BY <1>1, <2>1, <2>2 DEF ListingInv, AsRead
  <2>5. ListingTypeOK' /\ Midway'
    BY <1>1, <2>1, <2>2 DEF ListingInv, ListingTypeOK, Midway, Current
  <2>6. QED BY <1>1, <2>1, <2>2, <2>3, <2>4, <2>5 DEF ListingInv
<1>2. QED BY <1>1, LoadStep, DisassembleStep, NextSectionStep DEF ListingNext

(* What is listed was loaded by the loader: listing interferes with nothing.  *)
THEOREM ListingLoads == ListingSpec => Spec
<1>1. ListingInit => Init
  BY DEF ListingInit
<1>2. [ListingNext]_vars => [Next]_loader
  BY DEF ListingNext, Load, Disassemble, NextSection, vars
<1>3. QED BY <1>1, <1>2, PTL DEF ListingSpec, Spec

(* The lines of a section that was listed leave no byte out, repeat none and  *)
(* end with it, whatever the bytes are and wherever the section lies          *)
(* (DisassembleSection, DecodeDisassemblyLine at the last bytes).            *)
THEOREM ListedLinesTile == ListingSpec => []LinesTile
<1>1. ASSUME ListingInv PROVE LinesTile
  <2>1. SUFFICES ASSUME NEW s \in 1..(section - 1)
                 PROVE  IF Sections[s].executable /\ Sections[s].bytes # << >>
                          THEN Covered(s, Len(Sections[s].bytes))
                          ELSE Covered(s, 0)
    <3>1. ASSUME NEW s \in 1..(section - 1),
                 Sections[s].executable /\ Sections[s].bytes # << >>
          PROVE  Len(Sections[s].bytes) # 0
      <4>1. s \in 1..Len(Sections)
        BY <1>1, SectionsAre DEF ListingInv, ListingTypeOK
      <4>2. Sections[s] \in Section
        BY <1>1, <4>1, SectionsAre DEF ListingInv
      <4>3. Sections[s].bytes \in Seq(Byte)
        BY <4>2 DEF Section, Bytes
      <4>4. QED BY <3>1, <4>3
    <3>2. QED BY <2>1, <3>1 DEF LinesTile, Covered, Ends
  <2>2. /\ s \in 1..Len(Sections) /\ s # section /\ ~(section < s)
    BY <1>1, SectionsAre DEF ListingInv, ListingTypeOK
  <2>3. Covered(s, Reached(s))
    BY <1>1, <2>2 DEF ListingInv
  <2>4. CASE ~Sections[s].executable
    <3>1. Reached(s) = 0
      BY <2>4 DEF Reached
    <3>2. QED BY <2>3, <2>4, <3>1
  <2>5. CASE Sections[s].executable
    <3>1. Reached(s) = Len(Sections[s].bytes)
      BY <2>2, <2>5 DEF Reached
    <3>2. Sections[s].bytes = << >> => Len(Sections[s].bytes) = 0
      OBVIOUS
    <3>3. QED BY <2>3, <2>5, <3>1, <3>2
  <2>6. QED BY <2>4, <2>5
<1>2. QED BY <1>1, ListingInitInv, ListingStepInv, PTL DEF ListingSpec

(* Each line shows the form that the executor would fetch there, or none as   *)
(* it does (DecodeBest against FetchDecode), but for HL.BSTART CALL.         *)
THEOREM ListedAsFetched == ListingSpec => []ReadersAgree
<1>1. ASSUME ListingInv PROVE ReadersAgree
  <2>1. SUFFICES ASSUME lines # << >>, NEW last, last = lines[Len(lines)]
                 PROVE  LET executed == FetchDecode(OwnMemory(Sections[last.section]),
                                                    last.line.pc)
                        IN  \/ last.line.form = executed
                            \/ /\ last.line.form.mnemonic = "HL.BSTART CALL"
                               /\ executed.mnemonic = "BSTART"
    BY DEF ReadersAgree
  <2>2. Len(lines) \in DOMAIN lines
    <3>1. lines \in Seq(Entry)
      BY <1>1 DEF ListingInv, ListingTypeOK
    <3>2. QED BY <2>1, <3>1
  <2>3. AsRead(last)
    BY <1>1, <2>1, <2>2 DEF ListingInv
  <2> DEFINE s == Sections[last.section]
  <2>4. PICK o \in 0..(Len(s.bytes) - 1) : last.line = LineAt(RestAt(s, o), Wrap(s.address + o))
    BY <2>3 DEF AsRead
  <2>5. s \in Section
    BY <1>1, <2>3, SectionsAre DEF ListingInv, AsRead
  <2>6. s.bytes \in Seq(Byte)
    BY <2>5 DEF Section, Bytes
  <2> HIDE DEF s
  <2> DEFINE rest == RestAt(s, o)
  <2>7. rest \in Seq(Byte) /\ rest # << >>
    BY <2>6, RestOf DEF RestAt
  <2>8. FetchDecode(OwnMemory(s), Wrap(s.address + o)) = FetchIn(rest)
    BY <2>5, FetchedIn DEF RestAt
  <2> HIDE DEF rest
  <2>9. last.line.pc = Wrap(s.address + o) /\ last.line.form = DecodeBest(rest)
    BY <2>4, <2>7, LineInside DEF rest
  <2>10. FetchDecode(OwnMemory(s), last.line.pc) = FetchIn(rest)
    BY <2>8, <2>9
  <2>11. QED BY <2>7, <2>9, <2>10, ReadersMeet DEF s
<1>2. QED BY <1>1, ListingInitInv, ListingStepInv, PTL DEF ListingSpec
=============================================================================

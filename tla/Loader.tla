------------------------------- MODULE Loader -------------------------------
(***************************************************************************)
(* Program loading: LoadProgramImageFromFile and LoadElfImageFromBytes       *)
(* (src/elf_loader.cpp), one action per header read.                        *)
(*                                                                          *)
(* A file is what its bytes spell:                                          *)
(*   readable, size, bytes         bytes is a function on 0..size - 1        *)
(*   magic, class, little, type, entry                                      *)
(*   phoff, phentsize, phnum, shoff, shentsize, shnum                       *)
(*   segments, sections            the header that the bytes at an offset    *)
(*                                 spell, for offsets of the two tables      *)
(* A section header is [nobits, alloc, exec, address, offset, size], a       *)
(* program header [load, exec, address, offset, size].                      *)
(*                                                                          *)
(* Sums of the file's numbers wrap, those compared with the file's size too. *)
(* Such a comparison may hold of a range that is not in the file; what is    *)
(* read there is whatever lies around the file's bytes, or the process dies. *)
(***************************************************************************)
EXTENDS AddressSpace, Sequences

CONSTANTS
  Files,          \* the files a path may name
  RawBases,       \* values of --raw-base
  Gap,            \* 0x10, the least distance after a section before a placed one
  MaxVector,      \* the most bytes a std::vector can be given
  Surroundings,   \* what may lie around the bytes of a file, by position
  StraySections,  \* headers that may be read there
  StraySegments

\* Where in a header a member is read, and how many bytes of it.
SectionMembers(class) ==
  IF class = 64 THEN {<<4, 4>>, <<8, 8>>, <<16, 8>>, <<24, 8>>, <<32, 8>>}
                ELSE {<<4, 4>>, <<8, 4>>, <<12, 4>>, <<16, 4>>, <<20, 4>>}
SegmentMembers(class) ==
  IF class = 64 THEN {<<0, 4>>, <<4, 4>>, <<8, 8>>, <<16, 8>>, <<32, 8>>}
                ELSE {<<0, 4>>, <<4, 4>>, <<8, 4>>, <<16, 4>>, <<24, 4>>}

Byte == SUBSET (0..7)
SectionHeader == [nobits : BOOLEAN, alloc : BOOLEAN, exec : BOOLEAN,
                  address : Words, offset : Words, size : Words]
SegmentHeader == [load : BOOLEAN, exec : BOOLEAN,
                  address : Words, offset : Words, size : Words]

\* Of a header at an offset: what the code tests, and what it means to test.
HeaderChecked(f, at, entsize, members) ==
  /\ Wrap(at + entsize) <= f.size
  /\ \A m \in members : Wrap(at + m[1] + m[2]) <= f.size

HeaderInside(f, at, members) == \A m \in members : Wrap(at + m[1]) + m[2] <= f.size

\* Where the headers of a table start.
TableOffsets(offset, entsize, count) == { Wrap(offset + i * entsize) : i \in 0..(count - 1) }

(***************************************************************************)
(* Numbers read from a file are unsigned, any bytes spell some header, and   *)
(* the file is itself read into a vector.                                   *)
(***************************************************************************)
ASSUME FileAssumption ==
  \A f \in Files :
    /\ f.size \in 0..MaxVector /\ f.entry \in Words
    /\ \A a \in 0..(f.size - 1) : f.bytes[a] \in Byte
    /\ f.shoff \in Words /\ f.shentsize \in Nat /\ f.shnum \in Nat
    /\ f.phoff \in Words /\ f.phentsize \in Nat /\ f.phnum \in Nat
    /\ f.type = "REL" =>
         \A at \in TableOffsets(f.shoff, f.shentsize, f.shnum) :
           HeaderInside(f, at, SectionMembers(f.class)) => f.sections[at] \in SectionHeader
    /\ f.type \in {"EXEC", "DYN"} =>
         \A at \in TableOffsets(f.phoff, f.phentsize, f.phnum) :
           HeaderInside(f, at, SegmentMembers(f.class)) => f.segments[at] \in SegmentHeader

ASSUME PlaceAssumption == RawBases \subseteq Words /\ Gap \in Nat

\* max_size() of a vector of bytes is less than half of what a size_t counts.
ASSUME MemoryAssumption ==
  /\ MaxVector \in Nat /\ 2 * MaxVector < Word
  /\ \A around \in Surroundings : \A a \in Words : around[a] \in Byte
  /\ StraySections \subseteq SectionHeader /\ StraySegments \subseteq SegmentHeader

VARIABLES
  file, base,
  phase,          \* "open", "sections", "segments", then "loaded", "failed" or "died"
  index,          \* headers read
  next_address,   \* where a section without an address goes
  image           \* the image so far; with each section, where its header was and what it said

loader == <<file, base, phase, index, next_address, image>>

Classes == {32, 64}
Types   == {"REL", "EXEC", "DYN"}

HeaderSize(class)   == IF class = 64 THEN 64 ELSE 52

EmptyImage == [entry_point |-> 0, sections |-> << >>]

Init ==
  /\ file \in Files /\ base \in RawBases
  /\ phase = "open" /\ index = 0 /\ next_address = 0
  /\ image = EmptyImage

-----------------------------------------------------------------------------
(***************************************************************************)
(* A bad file throws: nothing of the image is left.                          *)
(***************************************************************************)
Fail ==
  /\ phase' = "failed"
  /\ image' = EmptyImage
  /\ UNCHANGED <<file, base, index, next_address>>

(***************************************************************************)
(* A read outside the file's bytes may end the process.                      *)
(***************************************************************************)
Die ==
  /\ phase' = "died"
  /\ image' = EmptyImage
  /\ UNCHANGED <<file, base, index, next_address>>

HeaderFits ==
  /\ file.size >= 16 /\ file.class \in Classes /\ file.little
  /\ file.size >= 18 /\ file.type \in Types
  /\ file.size >= HeaderSize(file.class)
  /\ IF file.type = "REL" THEN file.shentsize # 0 /\ file.shnum # 0
                          ELSE file.phentsize # 0 /\ file.phnum # 0

\* The bytes that a copy from first on finds.
BytesOf(f, around, first, size) ==
  [i \in 1..size |-> LET a == Wrap(first + i - 1)
                     IN  IF a < f.size THEN f.bytes[a] ELSE around[a]]

OpenRaw ==
  /\ phase = "open"
  /\ file.readable /\ ~file.magic
  /\ phase' = "loaded"
  /\ image' = [entry_point |-> base,
               sections |-> <<[at |-> 0, header |-> [offset |-> 0, size |-> file.size],
                               address |-> base, executable |-> TRUE,
                               bytes |-> [i \in 1..file.size |-> file.bytes[i - 1]]]>>]
  /\ UNCHANGED <<file, base, index, next_address>>

OpenElf ==
  /\ phase = "open"
  /\ file.readable /\ file.magic /\ HeaderFits
  /\ phase' = IF file.type = "REL" THEN "sections" ELSE "segments"
  /\ image' = [image EXCEPT !.entry_point = file.entry]
  /\ UNCHANGED <<file, base, index, next_address>>

OpenBad ==
  /\ phase = "open"
  /\ file.readable => file.magic /\ ~HeaderFits
  /\ Fail

-----------------------------------------------------------------------------
(***************************************************************************)
(* The section headers of a relocatable image.                              *)
(***************************************************************************)
SectionAt     == Wrap(file.shoff + index * file.shentsize)
SectionInFile == HeaderChecked(file, SectionAt, file.shentsize, SectionMembers(file.class))
SectionRead   == HeaderInside(file, SectionAt, SectionMembers(file.class))

\* What the bytes at SectionAt may spell.
Spelled == IF SectionRead THEN {file.sections[SectionAt]} ELSE StraySections

Allocated(h) == h.alloc /\ h.size # 0

\* Mutant: where the payload begins is tested, where it ends is not.
PayloadBegins(h) == h.nobits \/ h.offset <= file.size

PayloadFits(h) == h.nobits \/ Wrap(h.offset + h.size) <= file.size

Copied(h) == h.size <= MaxVector

AddressOf(h) == IF h.address = 0 THEN next_address ELSE h.address

Larger(a, b) == IF a > b THEN a ELSE b

\* Mutant: the place after this section, wherever the others are.
PlaceAfterThis(h) == Wrap(AddressOf(h) + h.size + Gap)

PlaceAfter(h) == Larger(next_address, Wrap(AddressOf(h) + h.size + Gap))

Payload(f, around, h) ==
  IF h.nobits THEN [i \in 1..h.size |-> {}] ELSE BytesOf(f, around, h.offset, h.size)

AddSection(h) ==
  /\ PayloadFits(h) /\ Copied(h)
  /\ next_address' = PlaceAfter(h)
  /\ \E around \in Surroundings :
       image' = [image EXCEPT !.sections =
                   Append(@, [at |-> SectionAt, header |-> h,
                              address |-> AddressOf(h), executable |-> h.exec,
                              bytes |-> Payload(file, around, h)])]

ReadSection ==
  /\ phase = "sections" /\ index < file.shnum
  /\ SectionInFile
  /\ \E h \in Spelled : \/ Allocated(h) /\ AddSection(h)
                        \/ ~Allocated(h) /\ UNCHANGED <<next_address, image>>
  /\ index' = index + 1
  /\ UNCHANGED <<file, base, phase>>

BadSection ==
  /\ phase = "sections" /\ index < file.shnum
  /\ SectionInFile => \E h \in Spelled : Allocated(h) /\ ~(PayloadFits(h) /\ Copied(h))
  /\ Fail

SectionOutside ==
  /\ phase = "sections" /\ index < file.shnum
  /\ SectionInFile
  /\ \/ ~SectionRead
     \/ \E h \in Spelled : /\ Allocated(h) /\ PayloadFits(h) /\ Copied(h)
                           /\ ~h.nobits /\ h.offset + h.size > file.size
  /\ Die

-----------------------------------------------------------------------------
(***************************************************************************)
(* The program headers of any other image.  Only what the file holds is      *)
(* loaded: p_memsz is not read.                                             *)
(***************************************************************************)
SegmentAt     == Wrap(file.phoff + index * file.phentsize)
SegmentInFile == HeaderChecked(file, SegmentAt, file.phentsize, SegmentMembers(file.class))
SegmentRead   == HeaderInside(file, SegmentAt, SegmentMembers(file.class))

SpelledSegments == IF SegmentRead THEN {file.segments[SegmentAt]} ELSE StraySegments

Loads(h) == h.load /\ h.size # 0

SegmentFits(h) == Wrap(h.offset + h.size) <= file.size

AddSegment(h) ==
  /\ SegmentFits(h) /\ Copied(h)
  /\ \E around \in Surroundings :
       image' = [image EXCEPT !.sections =
                   Append(@, [at |-> SegmentAt, header |-> h,
                              address |-> h.address, executable |-> h.exec,
                              bytes |-> BytesOf(file, around, h.offset, h.size)])]

ReadSegment ==
  /\ phase = "segments" /\ index < file.phnum
  /\ SegmentInFile
  /\ \E h \in SpelledSegments : \/ Loads(h) /\ AddSegment(h)
                                \/ ~Loads(h) /\ UNCHANGED image
  /\ index' = index + 1
  /\ UNCHANGED <<file, base, phase, next_address>>

BadSegment ==
  /\ phase = "segments" /\ index < file.phnum
  /\ SegmentInFile => \E h \in SpelledSegments : Loads(h) /\ ~(SegmentFits(h) /\ Copied(h))
  /\ Fail

SegmentOutside ==
  /\ phase = "segments" /\ index < file.phnum
  /\ SegmentInFile
  /\ \/ ~SegmentRead
     \/ \E h \in SpelledSegments : /\ Loads(h) /\ SegmentFits(h) /\ Copied(h)
                                   /\ h.offset + h.size > file.size
  /\ Die

-----------------------------------------------------------------------------
(***************************************************************************)
(* After the last header: an image of no section is refused, a relocatable   *)
(* one is entered at its first.                                             *)
(***************************************************************************)
Complete ==
  /\ \/ phase = "sections" /\ index >= file.shnum
     \/ phase = "segments" /\ index >= file.phnum
  /\ image.sections # << >>
  /\ phase' = "loaded"
  /\ image' = IF phase = "sections" THEN [image EXCEPT !.entry_point = image.sections[1].address]
                                    ELSE image
  /\ UNCHANGED <<file, base, index, next_address>>

Empty ==
  /\ \/ phase = "sections" /\ index >= file.shnum
     \/ phase = "segments" /\ index >= file.phnum
  /\ image.sections = << >>
  /\ Fail

Next ==
  \/ OpenRaw \/ OpenElf \/ OpenBad
  \/ ReadSection \/ BadSection \/ SectionOutside
  \/ ReadSegment \/ BadSegment \/ SegmentOutside
  \/ Complete \/ Empty

Spec == Init /\ [][Next]_loader

-----------------------------------------------------------------------------
(***************************************************************************)
(* Reading.  A sum wraps if it does not fit the word.                       *)
(***************************************************************************)
Relocatable == file.readable /\ file.magic /\ file.type = "REL"

HeaderWraps(at) ==
  \E m \in IF Relocatable THEN SectionMembers(file.class) ELSE SegmentMembers(file.class) :
    at + m[1] + m[2] >= Word
PayloadWraps(h) == h.offset + h.size >= Word

HeaderOf(at) == IF Relocatable THEN file.sections[at] ELSE file.segments[at]

\* A section is what the header at its place says, and that what the file says.
HoldsFile(s) ==
  /\ file.magic /\ ~HeaderWraps(s.at) => s.header = HeaderOf(s.at)
  /\ ~(Relocatable /\ s.header.nobits) /\ ~PayloadWraps(s.header) =>
       /\ s.header.offset + s.header.size <= file.size
       /\ s.bytes = [b \in 1..s.header.size |-> file.bytes[s.header.offset + b - 1]]

(* The loader reads nothing outside its file, and a section holds what the   *)
(* file holds where the section's header says, unless a header lies across,  *)
(* or a payload ends beyond, the top of the word (the tests against          *)
(* bytes.size() in LoadElfImageFromBytes and ReadLe32/64).                   *)
ReadsStayInside ==
  /\ phase = "died" =>
       LET at == IF Relocatable THEN SectionAt ELSE SegmentAt
       IN  HeaderWraps(at) \/ PayloadWraps(HeaderOf(at))
  /\ \A i \in 1..Len(image.sections) : HoldsFile(image.sections[i])

(***************************************************************************)
(* Addresses.                                                               *)
(***************************************************************************)
Extent(s) == { Wrap(s.address + b) : b \in 0..(Len(s.bytes) - 1) }
Ends(s)   == s.address + Len(s.bytes)
Placed(s) == s.header.address = 0

(* A section that the loader places does not overlap one before it, whatever *)
(* addresses were asked for, as long as it ends in the address space and     *)
(* what is left above the earlier one is more than the gap.  Beyond that     *)
(* next_address wraps (elf_loader.cpp, where it is advanced).                *)
PlacedApart ==
  Relocatable =>
    \A j \in 1..Len(image.sections) : \A i \in 1..(j - 1) :
      LET s == image.sections[i]
          t == image.sections[j]
      IN  Placed(t) /\ Ends(s) + Gap < Word /\ Ends(t) <= Word
            => Extent(s) \cap Extent(t) = {}
=============================================================================

----------------------------- MODULE MCListing -----------------------------
(***************************************************************************)
(* Listing for TLC, over the shipped form table: a raw file for every form,  *)
(* with its variable bits clear or set, and ELF files with up to three       *)
(* headers, well formed or not.                                             *)
(***************************************************************************)
EXTENDS Listing, FormTables

\* In a LET, so that TLC's coverage statistics do not unfold the table.
MCForms == LET shipped == AllMinstForms IN shipped

ByteOf(bits, i) == { b \in 0..7 : 8 * (i - 1) + b \in bits }

\* Every file has every field; those a file does not use are as in NotElf.
NotElf(bytes) ==
  [readable |-> TRUE, size |-> Len(bytes), bytes |-> [a \in 0..(Len(bytes) - 1) |-> bytes[a + 1]],
   magic |-> FALSE, class |-> 0, little |-> FALSE, type |-> "", entry |-> 0,
   phoff |-> 0, phentsize |-> 0, phnum |-> 0, shoff |-> 0, shentsize |-> 0, shnum |-> 0,
   segments |-> << >>, sections |-> << >>]

Encoded(form, fill) ==
  LET bits == IF fill THEN form.match \cup (BitMask(form.length) \ form.mask) ELSE form.match
  IN  [i \in 1..(form.length \div 8) |-> ByteOf(bits, i)]

\* An instruction, alone or before bytes that may belong to a longer one.
RawFiles ==
  UNION { { NotElf(Encoded(form, FALSE)), NotElf(Encoded(form, FALSE) \o <<{}>>),
            NotElf(Encoded(form, TRUE) \o <<0..7, 0..7>>) } : form \in Forms }

(***************************************************************************)
(* ELF files: header, table at 64, twelve bytes of contents after it.       *)
(***************************************************************************)
Contents == <<{2, 4}, {}, {4}, {}, 0..7, {0}, {0, 4}, {}, {1, 2, 3}, {}, {}, {}>>

ElfFile(class, type, entsize, headers) ==
  LET table == 64 + entsize * Len(headers)
      size  == table + Len(Contents)
      at    == [o \in { 64 + entsize * (i - 1) : i \in 1..Len(headers) } |->
                  headers[(o - 64) \div entsize + 1]]
  IN  [NotElf(<< >>) EXCEPT
        !.size = size, !.magic = TRUE, !.class = class, !.little = TRUE, !.type = type,
        !.bytes = [a \in 0..(size - 1) |-> IF a >= table THEN Contents[a - table + 1] ELSE {}],
        !.entry = 4, !.phoff = 64, !.shoff = 64,
        !.phentsize = entsize, !.phnum = Len(headers), !.segments = at,
        !.shentsize = entsize, !.shnum = Len(headers), !.sections = at]

ContentsAt == 64 + 3 * 40   \* behind a table of three headers of 40 bytes
SectionWith(address, size, exec) ==
  [nobits |-> ~exec /\ address = 20, alloc |-> TRUE, exec |-> exec,
   address |-> address, offset |-> IF exec THEN ContentsAt ELSE ContentsAt + 4, size |-> size]

SectionHeaders ==
  { SectionWith(a, 6, x) : a \in {0, 20, 40}, x \in BOOLEAN }
    \cup { SectionWith(20, 0, TRUE), [SectionWith(0, 4, FALSE) EXCEPT !.alloc = FALSE],
           [SectionWith(0, 9, TRUE) EXCEPT !.offset = ContentsAt + 4] }

SegmentHeaders ==
  { [load |-> l, exec |-> x, address |-> a, offset |-> ContentsAt, size |-> z] :
      l \in BOOLEAN, x \in BOOLEAN, a \in {0, 4}, z \in {0, 8, 13} }

Relocatables == { ElfFile(32, "REL", 40, h) : h \in [1..3 -> SectionHeaders] }
Executables  == { ElfFile(64, "EXEC", 40, h) :
                    h \in { <<s, t, s>> : s \in SegmentHeaders, t \in SegmentHeaders } }

\* One broken header of each kind.
Good == ElfFile(64, "REL", 40, << SectionWith(0, 6, TRUE), SectionWith(0, 6, FALSE),
                                  SectionWith(60, 6, FALSE) >>)
GoodShared == ElfFile(32, "DYN", 40, <<[load |-> TRUE, exec |-> TRUE, address |-> 0,
                                        offset |-> ContentsAt, size |-> 8]>>)
Broken ==
  { [Good EXCEPT !.readable = FALSE], [Good EXCEPT !.size = 10], [Good EXCEPT !.size = 17],
    [Good EXCEPT !.class = 3], [Good EXCEPT !.little = FALSE], [Good EXCEPT !.type = "CORE"],
    [Good EXCEPT !.size = 60], [Good EXCEPT !.shentsize = 0], [Good EXCEPT !.shnum = 0],
    [Good EXCEPT !.shnum = 5],
    [GoodShared EXCEPT !.phentsize = 0], [GoodShared EXCEPT !.phnum = 0],
    [GoodShared EXCEPT !.phnum = 9] }

(***************************************************************************)
(* Numbers near the top: sections that end there and one after them, a       *)
(* payload across it or too large, headers that begin or lie across it.      *)
(***************************************************************************)
HighHeaders ==
  { SectionWith(a, 6, TRUE) : a \in {0, Word - 40, Word - 20, Word - 3} }
    \cup { [SectionWith(0, 8, TRUE) EXCEPT !.offset = Word - 4],
           [SectionWith(0, 4, FALSE) EXCEPT !.size = Word - 100],
           [SectionWith(20, 4, FALSE) EXCEPT !.size = Word - 100] }

HighSegments ==
  { [load |-> TRUE, exec |-> TRUE, address |-> a, offset |-> o, size |-> 8] :
      a \in {0, Word - 3}, o \in {ContentsAt, Word - 4} }

\* A table of one header, at an offset near the top.
TopOffsets == { Word - 40, Word - 8, Word - 6, Word - 4, Word - 2 }

HighFiles ==
  { ElfFile(64, "REL", 40, h) : h \in [1..3 -> HighHeaders] }
    \cup { ElfFile(32, "DYN", 40, << h >>) : h \in HighSegments }
    \cup { [Good EXCEPT !.shoff = at, !.shnum = 1,
                        !.sections = [o \in {at} |-> SectionWith(0, 6, TRUE)]] : at \in TopOffsets }
    \cup { [GoodShared EXCEPT !.phoff = at, !.segments = [o \in {at} |-> GoodShared.segments[64]]] :
             at \in TopOffsets }

MCSurroundings   == { [a \in Words |-> {}], [a \in Words |-> 0..7] }
MCStraySections  == { SectionWith(0, 6, TRUE), [SectionWith(0, 4, FALSE) EXCEPT !.alloc = FALSE] }
MCStraySegments  == { [load |-> l, exec |-> TRUE, address |-> 4, offset |-> ContentsAt, size |-> 8] :
                        l \in BOOLEAN }

MCFiles == RawFiles \cup Relocatables \cup Executables \cup Broken \cup HighFiles
=============================================================================

------------------------------ MODULE Listing ------------------------------
(***************************************************************************)
(* From a file to memory and to a disassembly: LoadProgramImageFromFile,     *)
(* then ExecutionContext::LoadProgram and isa::DisassembleProgram over the   *)
(* image (src/emulator/execution_context.cpp, src/isa/disasm.cpp).           *)
(***************************************************************************)
EXTENDS Loader, Disassembler

VARIABLES
  section,   \* the section being listed
  offset,    \* where its next line starts
  lines      \* MinstDisassemblyLine of every section so far

listing == <<section, offset, lines>>
vars    == <<loader, listing>>

Sections == image.sections
Current  == Sections[section]

ListingInit ==
  /\ Init
  /\ section = 1 /\ offset = 0 /\ lines = << >>

Load == Next /\ UNCHANGED listing

(***************************************************************************)
(* DisassembleSection: one line.  Lines past the section are never asked of  *)
(* DecodeDisassemblyLine.                                                   *)
(***************************************************************************)
Disassemble ==
  /\ phase = "loaded" /\ section <= Len(Sections)
  /\ Current.executable /\ offset < Len(Current.bytes)
  /\ LET rest == SubSeq(Current.bytes, offset + 1, Len(Current.bytes))
         line == LineAt(rest, Wrap(Current.address + offset))
     IN  /\ lines' = Append(lines, [section |-> section, line |-> line])
         /\ offset' = offset + line.size_bytes
  /\ UNCHANGED <<loader, section>>

NextSection ==
  /\ phase = "loaded" /\ section <= Len(Sections)
  /\ ~Current.executable \/ offset >= Len(Current.bytes)
  /\ section' = section + 1 /\ offset' = 0
  /\ UNCHANGED <<loader, lines>>

ListingNext == Load \/ Disassemble \/ NextSection

ListingSpec == ListingInit /\ [][ListingNext]_vars

-----------------------------------------------------------------------------
(***************************************************************************)
(* Properties.                                                              *)
(***************************************************************************)

(* Of a section that was listed, the lines leave no byte out, repeat none    *)
(* and end with the section (DisassembleSection at a section's last bytes).  *)
EndOf(l) == Wrap(l.line.pc + l.line.size_bytes)
LinesTile ==
  phase = "loaded" =>
    \A s \in 1..(section - 1) :
      IF Sections[s].executable /\ Sections[s].bytes # << >>
        THEN \E a, b \in DOMAIN lines :
               /\ a <= b
               /\ \A k \in DOMAIN lines : lines[k].section = s <=> k \in a..b
               /\ lines[a].line.pc = Sections[s].address
               /\ \A k \in a..(b - 1) : lines[k + 1].line.pc = EndOf(lines[k])
               /\ EndOf(lines[b]) = Wrap(Ends(Sections[s]))
        ELSE \A k \in DOMAIN lines : lines[k].section # s

(* What a line shows is what the executor would execute there, in a section  *)
(* on its own: DecodeBest, which tries every length, finds the form that     *)
(* FetchDecode finds at the length the first byte tells, or none as it does. *)
(* HL.BSTART CALL is the one form the first byte lies about: its 48 bits     *)
(* begin as the 32 of BSTART do, and the executor reads those.              *)
OwnMemory(s) == [a \in Extent(s) |-> s.bytes[Wrap(a - s.address) + 1]]
ReadersAgree ==
  lines # << >> =>
    LET last     == lines[Len(lines)]
        executed == FetchDecode(OwnMemory(Sections[last.section]), last.line.pc)
    IN  \/ last.line.form = executed
        \/ last.line.form.mnemonic = "HL.BSTART CALL" /\ executed.mnemonic = "BSTART"
=============================================================================

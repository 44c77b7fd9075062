# A TLA+ model of linx-model

linx-model is a C++ framework for cycle-accurate simulation (queues, modules, a
two-phase scheduler) with a LinxISA emulator built beside it (a codec, a
reference executor, a comparison harness and a command line). This directory
holds TLA+ modules translated from its source, TLC configurations that check
them on small instances, and TLAPS proofs of what holds for every instance.
`PROJECT.json` names for every definition the source lines it stands for.

## 1. Inventory

| Part | Source | State | Operations |
| --- | --- | --- | --- |
| SimQueue | `include/linx/model/sim_queue.hpp` | write side, delays, read side, capacity, latency, stall, visible epoch | Write, Read/Pop, Work, FlushIf, Reset, SetLatency, SetStall, InitMaxSize |
| Module | `include/linx/model/module.hpp` | submodules, owned queues, port bindings, observed epochs, activation request, list of active submodules, whether WorkSelf ran | Build, Work, AdvanceQueuesOnly, Xfer, Reset, RequestActivation, port binding, validation |
| SimSystem | `include/linx/model/sim_system.hpp` | registered modules, cycle, termination request, program image | Build, Reset, Step, Report, RequestTerminate, LoadProgram |
| SharedTileBank | `src/emulator/shared_tile.cpp` | 64 registers: lanes, allocation and initialization masks, capacity, dtype | Write, Read, Version, Reset |
| ExecutionContext | `src/emulator/execution_context.cpp` | LinxState, memory, committed records, cycle, termination | LoadProgram, Reset, Read*, Write*, ReadMemoryRange, AppendRecord, RequestTerminate |
| ReferenceExecutor | `src/emulator/reference_executor.cpp` | none of its own | FetchDecode, Execute, Step, Run |
| CompareHarness | `src/emulator/compare.cpp` | two windows, first mismatch | Push |
| Engines | `include/linx/model/sim_main.hpp`, `src/linx_model_cli.cpp` | the chosen engine's context, clock, result | the ref, ca and compare engines, result export, exit status |
| Command line parser | `src/sim_main.cpp` | parsed arguments, position in argv | ParseSimMainArgs |
| Minst, codec | `src/isa/minst.cpp`, `codec.cpp`, `generated_tables.cpp` | one instruction's fields, views, lifecycle; the form table is data | decode, encode, views, stages, ends |
| Disassembler | `src/isa/disasm.cpp` | none | DisassembleProgram, DisassembleSection |
| Program loading | `src/elf_loader.cpp`, `src/program_image.cpp` | the image so far, next free address | ELF and raw files to sections |
| Validation | `src/validation.cpp` and `module.hpp` | issue list | CollectValidationIssues, ValidateModel |
| Logging, packet dump | `src/logging.cpp`, `include/linx/model/packet_dump.hpp` | log level | formatting |
| Suites and generators | `tests/avs/`, `tests/checks/`, `tools/` | none | trace comparison, schema checks, code generation |

How they interact. `SimSystem::Step` calls `Work` and then `Xfer` on every
registered module. `Module::Work` runs the module's own `WorkSelf` if an epoch
of an observed queue changed or activation was requested, then visits its
submodules, then calls `Work` on the queues it owns. Modules share nothing but
queues, which their parents own. The CLI parses its arguments, loads the file
they name, and hands both to one engine; the ca engine drives an
`ExecutorBackedSim`, a SimSystem without modules whose `RunReference` is one
step of the executor. The loader's sections go to the executor's memory and to
the disassembler; both find instructions through the codec and its table, the
executor at the length the first byte tells, the disassembler trying every
length.
The program is single-threaded: what is hard is not pre-emption but the order
of calls, stale epochs and flags from earlier cycles, and long legal sequences
of calls (sends, steps, resets, reloads) that no test walks through.

What makes each part correct:

* a queue is a bounded FIFO whose entries become visible neither early nor
  arbitrarily late, and whose epoch tells observers of every change;
* the scheduler never lets one module see what another wrote in the same Step,
  advances every queue once per Step, runs the modules that have events and
  only those, and forgets everything at Reset;
* the tile bank's writes are atomic across lanes and never change an allocation;
* the executor commits exactly what it executes, and refuses the rest without a
  trace;
* encode and decode are inverse, and a reused packet keeps nothing of its past;
* the parser keeps what the command line said, and the three engines agree with
  each other about the same command line;
* an image holds what its file holds, section by section, and its listing shows
  every byte once and as the executor would read it;
* a system that was built and validated is wired as the scheduler needs it.

The hazards behind these, each with its source line and the properties that
would catch it, are listed in `PROJECT.json`.

## 2. Modules

| Module | What it is |
| --- | --- |
| `QueueOps` | the member functions of SimQueue as operators on a record |
| `SimQueue` | one queue as a state machine, with histories; safety, progress, inductive invariant |
| `BoundedFifo` | the abstract bounded FIFO with a visible prefix |
| `QueueOpsProofs` | what TLAPS proves of the operators of `QueueOps` |
| `SimQueueProofs` | TLAPS proofs about `SimQueue`, and that it implements `BoundedFifo` |
| `SimSystem` | Step, Work, Xfer and Reset over trees of modules, composed from `QueueOps` |
| `SimSystemProofs` | TLAPS proofs about `SimSystem` |
| `TileStore` | the abstract promise of the tile bank |
| `SharedTileBank` | SharedTileBank with every early return of Write |
| `SharedTileBankProofs` | TLAPS proofs about `SharedTileBank` |
| `Execution` | ExecutionContext and ReferenceExecutor as operators on a context record |
| `Executor` | a context under Step, Reset and LoadProgram in any order |
| `ExecutionProofs` | TLAPS proofs about `Execution`, `Executor` and `Cli` with its engines |
| `EngineInterface` | the operations an engine is given, as operator constants |
| `EngineOps` | what the engines share: starting, listing, result export |
| `ReferenceRun` | the ref engine; also the specification of the other two |
| `SimMainRun` | the ca engine: RunSimMain over ExecutorBackedSim |
| `CompareHarness`, `CompareRun` | the harness, and the compare engine that uses it |
| `Arguments` | ParseSimMainArgs, an action for each way an argument is taken or refused |
| `Cli` | main: parser, then the engine the arguments name; composed of the modules above |
| `Codec` | decode and encode over a table of forms, and what is true of the table |
| `FormTables` | the generated tables of fields, pieces, constraints and forms, row by row |
| `Minst` | one packet under decodes, edits, stage changes and ends |
| `MinstProofs` | TLAPS proofs about `Codec` and `Minst` |
| `AddressSpace` | addresses, offsets and sizes of 64 bits, whose sums wrap |
| `Loader` | LoadProgramImageFromFile and LoadElfImageFromBytes, an action per header |
| `Disassembler` | DecodeBest and its fallback, and the executor's way of reading the same bytes |
| `Listing` | a file loaded by `Loader`, then listed by `Disassembler`, one line a step |
| `ListingProofs` | TLAPS proofs about `Loader`, `Disassembler` and `Listing` |
| `Wiring` | ports, owned queues, submodules, registration, Build and Validate |
| `WiringProofs` | TLAPS proofs about `Wiring` |
| `MC*` | instances for TLC; `MCPrograms` holds a small instruction set and programs |

Operators in the modules marked "Mutant" are plausible bugs; each is used, in
place of the definition after it, to show that a property can fail.

### Correspondence with the code

*SimQueue.* One action per member function. `delayQ` runs parallel to `writeQ`
as in the code. `sent`, `lat`, `age`, `bound` and `seen` are history: what was
written, under which latency, how many running `Work()` calls it has waited,
the longest wait ahead of it when it was written, and what an observer last
captured. The assertions of the code are guards (`~Full` before Write, `~Empty`
before Read, capacity against occupancy in InitMaxSize). Packets are distinct
and written once between Resets, which is what the properties need to tell
them apart.

*SimSystem.* The code is recursive and sequential. Its call stack is the
variable `todo`, a sequence of calls still to be made; a handler is one action
that replaces its own call by the calls it makes, in the code's order. This
keeps the order of siblings, the depth of the tree and the points where flags
are set and cleared, and leaves no interleaving the code does not have. Between
Steps (`todo` empty) the surrounding program may send, receive, request
activation or Reset. `Module::Work` splits into `WorkAwake`/`WorkAsleep`,
`WorkSelf` (`Forward`, `Push`, `Take`, `SelfDone`), `Capture`, `VisitPending`
or `AdvanceQueuesOnly` per submodule, and `QueueTick` per owned queue; Reset
into `ResetModule`, `ClearQueue`, `ResetEventState`. WorkSelf is one of the
behaviours of the system tests: ChainModule's loop, PipelineModule's step, or
nothing. The hook XferSelf is empty, except that modules in `Reactivating`
request activation there while they still see input; no module of the
repository does, and the constant exists to state what a module must do for its
packets to be delivered. Queue `Xfer()` is empty in the code and has no action.
The wiring is a constant with three assumptions: `ForestAssumption` (unique
ownership), `WiringAssumption` (a queue's users are below its owner, as
docs/architecture.md says) and `ConstantsAssumption` (ports are bound to queues
of the system, capacities are positive); the code enforces the first by
unique_ptr and does not enforce the second. `Subtree` is the least set a
recursion over `submodules_` reaches.

*SharedTileBank.* `Verdict` follows the early returns in order; `Allocated` and
`Stored` are the two update blocks. A PE mask is a set; bits that name no PE
are one extra element.

*Execution.* A context is a record, each member function an operator. One
address holds one cell, which stands for the four bytes LWI and SWI access at
once; the byte granularity of MCOPY and MSET is the same cell. Consequently
unaligned overlaps of 32-bit accesses are not represented. Words are wider than
cells, so truncation and sign extension are real. The codec is the constant
`Decoder`; five mnemonics that load an immediate and differ only in how the
codec forms it are one operation, and so are the thirty tile headers per block
kind. Fields of LinxState no implemented instruction reads or writes are
omitted. `SizesAssumption` says that a cell is no wider than a word and that the
queues and registers fit the numbers ReadGpr gives them; `DecoderAssumption` that
an instruction has a length and register numbers of five bits;
`Executor!ImagesAssumption` that a program puts cells at addresses.

*Codec, Minst.* A word is the set of its one bits; a form has the columns of the
generated table that decode, encode and the views read. `FormAssumption` and
`ExclusiveAssumption` hold of the shipped table's 794 forms: mask and pieces
partition the word, constraints name fully carried fields, and no word is
accepted by two forms; `LengthAssumption` says that no length is zero. A value is
read off its bits from the sign down, doubling and adding (`Number`, `SignExtend`),
and gives them back by repeated halving (`ShiftRight`), as the shifts and masks of
the code do. The packet's member functions are operators on a record,
the calls of its owner are actions; the names of the form the code caches in
the packet are read from `form`. Of the stages between Decode and Rob only
Decode is kept. No constructor or function sets the lifecycle Invalid, so the
model has no such value.

*Engines, Arguments, Cli.* Each loop of the code is a pair of actions, with the
tests where the code has them: Run tests the limit before a step, RunSimMain
after. The parser takes one argument, or an option with its value, per action,
in the order of the code's comparisons; a number is looked up in the constant
`Numbers` (what std::stoull would make of it, and only if it spells one from end
to end), whatever does not begin with a dash in `Names`. The engines are
INSTANCEs that share the parsed `args`; they reach the context, the executor and
the files through the operators of `EngineInterface`, which `Execution` and
`EngineOps` supply. `Cli!Reference` is `ReferenceRun` once more, with what each
engine does mapped to it (`ReferenceContext` and its neighbours).
`FilesAssumption` and `LinesAssumption` say that no file has an empty path, that
a file puts cells at addresses, that no argument is empty, that a number is a
word, and that no option is also a name. `OwnWay` names the command lines
on which an engine departs from the ref engine by design; ImplementsReference
says nothing of those.

*FormTables.* The rows of `generated_tables.cpp` in the source's order and
numbering, cut in parts of the length TLC evaluates well. A form keeps the
columns that decode, encode, views, listing and executor read; its uid and
assembly template are left out. `AllMinstForms` puts the rows
together the way `codec.cpp` follows their indices.

*Loader.* A file is what its bytes spell: the header fields are read off it
once, and a table of headers is a function from the offsets where a header
starts, so that strange entry sizes and counts read what they would read. Every
check of the loader is a guard, in order; a failed one ends in `Fail`, as the
exception leaves no image. Addresses, offsets and sizes are in `Words`, and every
sum of them wraps (`Wrap`), those that the code compares with the size of the file
too (elf_loader.cpp 190, 230, 259, 289, ReadLe32 and ReadLe64). Such a comparison
may hold of a range that is not in the file. What the code then does is undefined:
in the model it finds anything there that `Surroundings` (bytes), `StraySections`
and `StraySegments` (headers) offer, or the process dies (`Die`). Where a vector
would exceed `MaxVector`, as std::vector's max_size(), the constructor throws; an
allocation that fails below that is left out. With every section its history is
kept: where its header was (`at`) and what it said (`header`). `FileAssumption`
says that the bytes spell headers whose numbers are words, `PlaceAssumption` that
`--raw-base` is one, `WordAssumption` that there are words, and `MemoryAssumption`
that a vector holds less than half as many bytes as there are words. The numbers of
a file of class 32 have 32 bits and cannot reach the top; the model allows them to.

*Disassembler, Listing.* A line is its form, place and length; its text is left
out. `DecodeBest` takes, of the lengths at which the bytes decode, the form with
the most fixed bits and the shorter of equal ones; a byte where nothing decodes
is a line of its own. `FetchDecode` here
is the executor's reading over bytes, addresses that wrap included, the one `Execution` takes as its constant
`Decoder` over cells. Three assumptions are made of the table, and evaluated over the
shipped one in `image`. Its lengths are 16, 32, 48 and 64, it is finite
(`TableAssumption`), and the fixed bits in the first byte of a form tell its length
(`FirstByteAssumption`, written from the encodings and not from `FetchLength`),
except for HL.BSTART CALL, of which it is assumed that whatever bytes make one begin
with a BSTART.

*Wiring.* `todo` is the call stack of a Build. The program's calls (describe,
bind, add, register) happen between Builds and inside BuildSelf, where a module
wires itself and its children. A call whose assertion fails throws: it keeps
what it did before, and `Thrown` empties the stack, because the exception leaves
every Build under way; the program may go on. A port is declared by its name
and description or without them (`complete`). `late`, `early` and `found` are
history: what was added below built objects, what was made before its parent was
in the system, and whether a Build met a module already built. What lies below an
object is the least set its links close (`Below`); the recursion of
CollectIssues goes to the depth of the number of modules, and it is proved that
no tree of them is deeper. `WiringConstants` takes Modules to be finite.

## 3. Runs

| Run | Shows | Instance and why it suffices |
| --- | --- | --- |
| `queue` | FIFO refinement, capacity, latency window, epochs | 3 packets, capacities 1 and 3, latencies 0, 1, 3: entries of different latency behind each other, full queues, resizes under load, every flush predicate, stalls |
| `queue_progress` | written packets become visible | 2 packets, latencies 0 and 2, no symmetry |
| `queue_latency_claim` | violated: "readable after exactly N Work() calls" | as `queue` |
| `scheduler` | the two-phase contract: one tick per queue and Step, Xfer after all Work, events served, no input overlooked, nothing crosses a module boundary within a Step; Reset leaves nothing behind | a tree of depth 3 with a second registered module, one-place queues, latencies 0, 1, 2, 3 packets |
| `pipeline` | both WorkSelf of the system tests in one tree, ChainModule in a group feeding PipelineModule: FIFO refinement, and every packet delivered | 2 packets; room in front of the chain stage's output, one place in the pipeline's inner and output queues; latencies 0, 1, 2; requests from outside at any time |
| `shared_tiles` | refinement of the store, lanes fit, lanes stay writable | 2 lanes, valid and invalid ids, masks, size codes (0, 1, 12, 13) and descriptors on both sides of each bound |
| `shared_tiles_subset_claim` | violated: "later subset writes are legal" | as above |
| `executor` | silent rejection, trace tells state, block discipline, replay after Reset | every program of 3 cells over 20 instructions plus loops, self-modification and failing finishers; at most 8 attempted instructions (`CycleBound`) |
| `cli` | from argv to exit status: what was said is kept, exit code and result tell the outcome, every engine implements the ref engine, a limited run returns | every line of up to 3 of 20 tokens (options, values, wrong values, stray ones), and full lines: every program of 2 cells plus the longer ones on all 3 engines, limits 0, 1, 7, a stop address, compare windows of 1 and 2, listing only, result mapped, partly mapped or over the end, raw bases |
| `image` | lines tile their sections, listing and executor read the same instructions, placed sections overlap nothing and nothing outside the file is read, as long as no sum wraps | the shipped table: for each of its forms a raw file with the variable bits clear or set, alone or before bytes that make a longer instruction; relocatable files with every choice of 3 section headers, executables with 3 segments, in and out of their file; one broken file of each kind. Of a word of 1024 values (`Word`), with vectors below half of it (`MaxVector`): raw files at 0 and across its top; relocatable files with every choice of 3 sections that end 34 or 14 bytes below the top or 3 beyond it, are placed, lie in the file across the top, or are larger than a vector; headers that begin 40, 8, 6, 4 and 2 bytes below the top: refused, read in part outside the file, or read at its start; all bits clear or set around the file |
| `wiring` | one role per queue; the report accuses exactly the faulty; a built system is wired as `SimSystem` assumes; logger and clock reach what was made in order | 3 modules, a plain object, 2 queues; `MaxPorts` 2, `MaxTop` 2, `MaxSize` 4 things in all: nesting of 3, a queue shared by parent and child, a module registered and nested, every order of calls, refusals and failed Builds among them |
| `codec` | round trips between decode and encode; a decode forgets | 4 forms over words of 4 and 6 bits with a shadowed form, constraints, a signed split field with an implied zero, a load; words and halves with dirty high bits, one bad length; one edit between decodes (`MaxEdits`), values inside and outside every range |

Bounds: packets, capacities, latencies, files and the command lines are finite
sets of constants; `CycleBound` bounds the executor, `MaxEdits` the edits of a
packet between decodes, `MaxPorts`, `MaxTop` and `MaxSize` what a program wires.
The wiring bounds leave room for two defects and their interaction, not for
large trees; the proofs of `Wiring` have no such limit. Epochs and histories need no bound
because a packet is written once between two Resets. Symmetry over packets is
used in safety runs only, and over modules, plain objects and queues in
`wiring`. Engines return, listings end and a program may be unable to wire
anything more, so those runs switch the deadlock check off.

Fairness. `SimQueue`: weak fairness of `Work`, because an owner calls it every
cycle. `SimSystem`: weak fairness of the calls of a Step (the main loop of
RunSimMain calls step() again, and a call once begun ends) and strong fairness
of `Receive`, because the exit is read between Steps, where it is enabled again
and again but not continuously. Sends, Resets and requests are not fair.
`Cli`: weak fairness of Next, that is, the parser and the engine's loop keep
running.

## 4. What the checks say about the code

Two statements of the documentation do not hold of the code as written:

1. A write becomes readable after *exactly* its latency (sim_queue.hpp 47,
   docs/architecture.md 35). It waits behind slower entries; `LatencyWindow` is
   what holds: never before its latency, never after the slowest entry ahead.
2. Later subset writes of a shared tile are legal (docs/isa.md 66-67). If the
   first write gave its lanes different dtypes, lanes whose dtype is not that
   of the first selected PE can never be written again. `LanesStayWritable`
   holds with that proviso.

What follows contradicts no document, or concerns code outside the properties,
and is what a reader of the models should know.

Scheduler and wiring:

* `Delivered` fails in `pipeline` if `Reactivating` is empty: the pipeline stage
  takes one input per WorkSelf and may find its output full; what it leaves
  visible does not wake it, and it sleeps until another epoch changes
  (module.hpp 75-77). The chain stage empties its input whenever there is room
  and needs no activation. `NoUnseenInput` shows that leaving input behind is
  the only way input is overlooked. A request made inside WorkSelf is discarded
  (module.hpp 76).
* Objects added after Build are never built, and a Build that threw cannot be
  repeated: what it did build asserts in the next one. Build and Validate accept
  a queue whose owner is not in the system, which nobody clocks. A refused
  AddInput leaves its port behind, unbound. AddModule gives the runtime to the
  module alone, not to children made earlier. `WiredAsAssumed` and
  `RuntimeReaches` state what holds with these provisos.
* A slot bound after Build to another queue compares that queue's epoch with the
  old one's (module.hpp 424-436); not modelled.

Engines and parser:

* The ca engine returns 0, and exports the result, also when the program
  reported failure (sim_main.hpp 109). `Cli!Failed` maps this difference away
  and `ImplementsReference` shows there is no other outside `OwnWay`.
* `OwnWay`: RunSimMain tests the cycle limit after a step and the ref engine
  before it, so with `--max-cycles 0` the ca engine runs one cycle
  (sim_main.hpp 99, reference_executor.cpp 166). With `--disasm-only` the ca
  engine still writes the result. The compare engine ignores both disassembly
  options and simulates, although docs/architecture.md 66, docs/isa.md 111 and
  the usage text (sim_main.cpp 28) make no such exception; it also reports a
  missing program in a way of its own. The ca engine without a program fails to
  fetch and returns 0. The ref engine asked to disassemble without a program
  dereferences an empty optional (linx_model_cli.cpp 57); the model lets it abort.
* `--engine ca --no-reference` without a limit never ends; it is left out of the
  command lines of `cli`.
* A path option takes the next argument whatever it is, an option included.
  `--bin` after a positional path silently replaces it, while a positional path
  after `--bin` is refused. A number followed by other characters is refused.
* A finisher code has 16 bits, a process status 8 (linx_model_cli.cpp 68): a
  failing code that is a multiple of 256 leaves the process with status 0.
  `ExitTellsOutcome` is about what main returns, before that truncation.
* LoadProgram keeps the termination and exit code of an earlier program
  (execution_context.cpp 57). Both engines load into fresh contexts.

Loading, listing, codec:

* A section with an explicit address may overlap one placed before it;
  `PlacedApart` is about the sections the loader places, and has two provisos. The
  end of a section and the gap are added with wrapping (elf_loader.cpp 221), so
  after a section that leaves less than the gap below 2^64 `next_address` may stay
  where it was, on a section already placed; and a placed section may itself run
  over the top.
* The tests against the size of the file (elf_loader.cpp 190, 230, 259, 289 and
  ReadLe32, ReadLe64) add before they compare. A payload of 32 bytes at offset
  2^64 - 16 passes, and 16 bytes before the file are read. `ReadsStayInside`
  says that nothing else leads outside: where no header lies across the top and no
  payload ends beyond it, the tests are enough, however broken the file is.
* A relocatable image is entered at its first allocated section, code or not.
  Memory beyond the file's part of a segment is not zeroed (p_memsz is not read).
* HL.BSTART CALL is the only form that listing and executor read differently:
  its 48 bits begin like the 32 of BSTART.
* Ten pairs of forms share words by mask and match and are told apart by their
  constraints alone; `ExclusiveAssumption` checks that they are.
* EncodeMinst accepts an odd block offset for the nine HL.BSTART forms, whose
  offset has no place for bit 0, and encodes the even value below it
  (codec.cpp 278-283). `RoundTrip` therefore compares the bits the form carries.
* Records are compared with memcmp, which is right as long as every record is
  value-initialized first (minst_record.cpp 183).

## 5. Proofs

`SimQueueProofs` proves, for every set of packets and all capacities and
latencies allowed by the assumptions of `SimQueue`, that `TypeOK`,
`CapacityRespected`, `LatencyWindow` and `NoMissedChange` are invariants.
None but the first two is inductive: promotion moves entries whose histories say
nothing by themselves. `IInv` adds three parts. `OnePlace`: a packet sits in one
place, so aging by packet is aging by position. `WaitFits`: what a waiting packet
has waited plus what remains of it, and of each entry ahead, fits `bound`; this
is what makes `LatencyWindow` true at the moment of promotion. `SeenIsPast`: an
observer's epoch is not ahead of the queue's, so a changed read side has a new
epoch. The proof states what each operator does to a queue once (`MovesPrefix`
for promotion, survivor maps for FlushIf) and then has one step per action and
conjunct. The last part is the refinement of `BoundedFifo`, whose items are
`readQ \o writeQ`: promotion leaves them as they are and reveals a prefix, and the
survivor map of a FlushIf is that of the read side followed, shifted, by that of
the write side.

`SharedTileBankProofs` proves `TypeOK` and `LanesFitAllocation` for every number
of PEs and registers and all arguments. `LanesFitAllocation` needs `TypeOK` (the
lanes of a register are a function on the PEs); `WriteChecked` states what the
verdict "Applied" guarantees of each selected PE. `LanesStayWritable` is not
inductive: a register could hold a capacity no size code spells, or descriptors
no write would accept. `WInv` adds both (`Rewritable`), and `StoredFacts` says once
what an applied write leaves in the bank. `BankImplementsStore` is the
refinement of `TileStore`: an applied write is one `Store` of all its lanes,
a refused one a stutter, Reset the clearing.

`MinstProofs` has two halves. About the codec, for any table that meets
`FormAssumption` and `ExclusiveAssumption`, which TLC evaluates for the shipped
one in `image`: at most one form accepts a word, so the ambiguity error of
DecodeStatus is dead code (`NeverAmbiguous`); an encoded word has its form's
fixed bits, each field reads back from it what was written, and if it meets the
constraints it decodes to that form and no other. These go by sets of bits. That
the numbers agree too is the content of `EncodedDecodesBack` and
`AcceptedWordReencodes`: the bits of a set's number are the set, the number of the bits
of a value in range is the value, for signed fields as well, and extraction and
placement of a field's pieces undo each other. Number and shift are recursive
functions, of which the proofs use the defining equation only; where an argument
goes along the bits, it takes the least position at which it would fail
(the naturals are well-founded) and refutes it from the one before. About
the packet: type correctness, `NeverRevived` (an ended packet stays ended, which is
proved and not run), and `DecodeForgets`, which needs
that the typed views of an unedited packet are what RebuildTypedViews would make
of its fields (`Settled`), on the path of a failed decode too. `RoundTrip` and
`DecodedReencodes` join the two halves: a packet's form and fields are those of the
decode it came from, or of an edit.

`ListingProofs` proves of the loader, for every file including broken ones and with
sums that wrap, `ReadsStayInside` and `PlacedApart`, with the provisos they state.
Wrapping is used through lemmas about one word more and less (`WrapFits`,
`WrapOver`, `WrapSum`, `WrapBack`). `ReadsStayInside` needs what the members of a header and
the bytes of a payload have in common: a sum that does not reach the top is the
number compared, so the range lies in the file (`HeaderReadInside`,
`PayloadInside`). `PlacedApart` needs that `next_address` lies past the end of every
section read so far that left the gap above itself (`PastAll`), which the
larger-of in `PlaceAfter` maintains even where the sum wraps, and that a section
which ends below the top is an interval (`ExtentBelowTop`).
Of the listing, for every table that meets the assumptions of section 2, it proves
`LinesTile` and `ReadersAgree`. Their invariant is `ListingInv`: of each section the
lines cover exactly what was reached of it (`Covered`, `Reached`: nothing yet, the bytes
up to `offset`, or all), the last line of a section under way is its own (`Midway`), and
every line was made of the bytes from its place to the end of its section
(`AsRead`). `LinesTile` is the case in which all was reached; that a line ends inside its
section is `LineInside`, because a length that does not fit the bytes left is no
candidate of `DecodeBest`. `ReadersAgree` reduces to one lemma about the two readers
(`ReadersMeet`): a candidate whose first byte tells its length is the form that
`FetchDecode` accepts at that length. The only other candidate is HL.BSTART CALL, and
where it is one, what `FetchDecode` accepts is BSTART.

`WiringProofs` proves the safety properties of `Wiring`, for any number of modules,
queues and ports and any order of calls. `OneRolePerQueue` is inductive with the
types: the assertion looks at every other slot of the module, and a refused
AddPort adds a void one. `RuntimeReaches` needs `AttachInv`, that what was made in
order is attached link by link; being below is then the leastness of `Below`.
`ReportTells` needs that submodules form a forest (`TreeInv`, which the parent test
of AddSubmodule gives) and that in a forest of n modules no path is longer than n
(`CollectsAll`). `WiredAsAssumed` is about the call stack of a Build (`BuildInv`):
the stack has the shape the handlers give it (`Shape`), each call is for something
below the calls it returns to (`Nested`), a built module's children are built or
will be when the calls in front of it return (`Waits`, `Whole`), and while the
system builds, the registered modules up to the one under way are done
(`Progress`), or the Build is bound to meet a module already built (`Doomed`). When
BuildSystem returns nothing is left open (`Complete`), and leastness of `Settled`
carries that down the trees.

`ExecutionProofs` proves every safety property of `Executor` and of `Cli`, for every
decoder, program, file and command line that the assumptions allow and all sizes
of words, cells, queues and registers. Everything rests on one fact about the
operators (`StepEffect`): a Step of a typed context keeps it typed and either
leaves the architecture as it was or commits exactly one instruction, whose
record, state and memory are those of the instruction at pc. MCOPY is a recursive
function of the count; that it keeps memory typed goes by a least counterexample.
On top of it, of the executor:

* `ContextInv` (types, and an error is reported exactly when the context is
  terminated) gives `TypeOK`, and with `StepEffect` `RejectIsSilent`.
* `ReplayInv`: there is one history of states and memories, from the program's start,
  each the result of the instruction before it, off which both the trace and `past`
  can be read and at one moment of which the context is. `Replays` follows.
* `BlockInv` adds to `BlockDiscipline` that the open block's type, target and
  condition are those the records since its C.BSTART tell.
* `TraceTellsState` is kept by each instruction: what `NextState` writes is what its
  record says.

Of the command line:

* `ParserInv` says of the arguments before the current one what `ArgumentsKept` says
  of them all (`Told`): each option's last value, the switches, the one program. Which
  places hold values is a recursion along the line; it is used through its
  defining equation only (`ValuePlacesMean`).
* `EnginesInv` has a part per engine. All contexts are `Sound`: typed, and the exit
  code is zero exactly if what was reported is no failure. Under compare both sides
  are the same context at every turn, no difference is ever found, and the windows
  are the last records of the trace (`LastOnesMove`); a step that commits nothing
  terminates, so no pair is compared twice. Under ca the simulator's clock is the
  context's while RunReference() steps it. `WindowsAreTails` and `ExitTellsOutcome`
  follow.
* `EveryEngineImplements` is the refinement of `ReferenceRun`, step by step: `Seen`
  computes what each engine is mapped to, and each action is a step of the ref engine
  or none. The one step that does what no action of its own engine does is leaving
  the loop at the limit, which maps to the request to terminate.

`SimSystemProofs` proves every safety property of the scheduler, for every forest
of modules wired as section 2 assumes, every choice of the modelled behaviours
and all capacities and latencies. That no module lies below itself and that
siblings have nothing in common follows from unique ownership alone
(`ForestAssumption`), with subtrees as least closed sets. Three invariants carry
the rest, each on top of the one before:

* `IInv` is about the call stack. Of two pending calls the earlier neither runs a
  module nor advances a queue that the later one does, and advances none that a
  module of the later one observes (`Apart`, `Ordered`); what a pending call will
  advance has not moved (`Fresh`), and what has not moved will be (`Covered`). A
  handler replaces its call by calls that do the same between them (`Within`), so
  each case reduces to `PlanExpands`. `OneTickPerStep` and `CycleBoundary` follow.
* `EInv` is about events. An observer's epoch is never ahead of its queue's, so a
  queue that moves wakes its observers; each capture comes right after its
  WorkSelf; a module that was due has run or will still be asked. In a Reset each
  queue is cleared before the last capture of every module that observes it,
  which the order "submodules, own queues, event state" gives. `EventsServed`,
  `NoUnseenInput` and `ResetIsQuiet` follow.
* `XInv` is about the active lists. A module that ran is on the list of its parent,
  and so is each module above it (`Linked`). The hard case is a subtree taken over
  by `AdvanceQueuesOnly`, whose root is on no list: should a module in it wake
  before it is visited, it would run without Xfer. It cannot: the visits of
  such a subtree come before every call that runs a WorkSelf (`InertFirst`), and
  the queues that move in between are observed by nobody still to be visited.
  `XferFollowsWork` follows.

Every invariant that a passing run checks is also proved, and every action property.
Model-checked only are the liveness properties (`queue_progress`, `Delivered` in
`pipeline`, the return of the engines in `cli`) and the refinement of `BoundedFifo` by a
whole tree of modules (`pipeline`). Liveness under fairness and induction over
recursive data are outside what the installed provers do.

## 6. Not modelled yet, and the plan

Modelled so far: queue, scheduler, wiring and validation, tile bank, executor,
engines and their command line, codec with its table, packet, loading and
listing; the proofs of section 5. What is left, in order:

1. `TraceDiff`: the comparison rules of the AVS suite (`tests/avs/`).
2. `BindingAllows` and `ValidateSharedOperation` beside the tile bank; nothing
   in `src/` calls them but a test.
3. `Codec` over bytes in the place of `Execution`'s constant `Decoder`. The two
   meet in `ReadersAgree`.
4. Ports rebound after Build, with the scheduler running over `Wiring`'s ports.
5. Proofs: the pipeline's refinement of `BoundedFifo`.

Not planned: the trace files, the files a mismatch is written to, and the text of
listings, reports, dumps, messages and logs (formatting); byte-order decoding of ELF headers and file reading (I/O);
operand kinds and notes of the typed views, and the readiness and data that an
execution model would put into operands (nothing in the repository does);
BuildSystem and Report hooks (the repository only counts or prints in them);
CI scripts, schema checks and fixture generators; the padding bytes that the
comparison of records reads.

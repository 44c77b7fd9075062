----------------------------- MODULE SimSystem -----------------------------
(***************************************************************************)
(* The two-phase, event-driven scheduler: SimSystem::Step and Reset         *)
(* (include/linx/model/sim_system.hpp) over trees of Module objects         *)
(* (include/linx/model/module.hpp) that talk through queues (QueueOps).     *)
(*                                                                          *)
(* The code is sequential and recursive.  Its call stack is the variable    *)
(* todo: the calls still to be made, first the next one.  A handler is one  *)
(* action; it replaces its own call by the calls it makes.  Between Steps   *)
(* todo is empty, and the surrounding program may write to the entry queue, *)
(* read from the exit queue, request an activation, or Reset.               *)
(*                                                                          *)
(* WorkSelf is virtual; Behaviour selects one of those of the repository:   *)
(*   "none"   a parent that leaves the work to its children                 *)
(*   "chain"  ChainModule, tests/system/module_pipeline_test.cpp            *)
(*   "stage"  PipelineModule, tests/system/sim_system_test.cpp              *)
(***************************************************************************)
EXTENDS QueueOps, FiniteSets

CONSTANTS
  Modules, Queues, Packets,
  Roots,        \* modules registered with the SimSystem, in order
  Children,     \* submodules_ of each module, in order
  Owned,        \* owned_queues_ of each module, in order
  Inputs, Inners, Outputs,    \* queues bound to the ports of each module
  Behaviour,    \* the WorkSelf of each module
  Reactivating, \* modules whose XferSelf requests activation while input is left
  Requested,    \* modules the surrounding program may request activation of
  Capacity, Latency,          \* constructor arguments of each queue
  Path          \* the queues from exit to entry, the way packets came

Entry == Path[Len(Path)]
Exit  == Path[1]

Observes(m) == Inputs[m] \cup Inners[m]

Members(s) == { s[i] : i \in 1..Len(s) }

(***************************************************************************)
(* m and everything below it: what a recursion over submodules_ reaches.     *)
(***************************************************************************)
Closed(S) == \A m \in S : Members(Children[m]) \subseteq S
Subtree ==
  [m \in Modules |->
     { d \in Modules : \A S \in SUBSET Modules : m \in S /\ Closed(S) => d \in S }]

(***************************************************************************)
(* Modules form a forest with the registered modules as roots: a submodule   *)
(* is held by one unique_ptr.                                               *)
(***************************************************************************)
ASSUME ForestAssumption ==
  /\ Roots \in Seq(Modules) /\ Children \in [Modules -> Seq(Modules)]
  /\ \A i, j \in 1..Len(Roots) : Roots[i] = Roots[j] => i = j
  /\ \A m \in Modules : Members(Children[m]) \cap Members(Roots) = {}
  /\ \A m, p \in Modules : \A i \in 1..Len(Children[m]), j \in 1..Len(Children[p]) :
       Children[m][i] = Children[p][j] => m = p /\ i = j
  /\ UNION { Subtree[r] : r \in Members(Roots) } = Modules

(***************************************************************************)
(* docs/architecture.md 5-7: queues are owned and wired by parents.  Each    *)
(* queue has one owner, and whoever is bound to it is in the owner's tree.   *)
(***************************************************************************)
ASSUME WiringAssumption ==
  /\ Owned \in [Modules -> Seq(Queues)]
  /\ \A m, p \in Modules : \A i \in 1..Len(Owned[m]), j \in 1..Len(Owned[p]) :
       Owned[m][i] = Owned[p][j] => m = p /\ i = j
  /\ \A x \in Queues : \E owner \in Modules :
       /\ x \in Members(Owned[owner])
       /\ \A m \in Modules : x \in Observes(m) \cup Outputs[m] => m \in Subtree[owner]

ASSUME ConstantsAssumption ==
  /\ \A m \in Modules : Observes(m) \cup Outputs[m] \subseteq Queues
  /\ \A x \in Queues : Capacity[x] \in Nat \ {0} /\ Latency[x] \in Nat
  /\ Path # << >> /\ Path \in Seq(Queues)
  /\ Requested \subseteq Modules

VARIABLES
  queues,    \* every queue
  force,     \* force_activate_self_ of each module
  ran,       \* ran_work_self_last_cycle_
  active,    \* active_submodules_
  observed,  \* observed_input_epochs_ and observed_inner_epochs_, by queue
  todo,      \* the calls still to be made in this Step or Reset
  sent,      \* history: packets written to the entry since the last Reset
  left,      \* history: the packets each WorkSelf left visible when it last ran
  log        \* history of the current Step

vars == <<queues, force, ran, active, observed, todo, sent, left, log>>

Call(op, x)  == [op |-> op, on |-> x]
Calls(op, s) == [i \in 1..Len(s) |-> Call(op, s[i])]

Between == todo = << >>
Calling(op, x) == ~Between /\ Head(todo) = Call(op, x)

(***************************************************************************)
(* shown and due: what was visible, and who had an event, when the Step      *)
(* began; ticks, worked and xfered: which hooks ran in it.                  *)
(***************************************************************************)
NewLog(shown, due) ==
  [ shown |-> shown, due |-> due,
    ticks |-> [x \in Queues |-> 0], worked |-> {}, xfered |-> {} ]

Epochs(m, qs) == [x \in Observes(m) |-> qs[x].visibleEpoch]

Init ==
  /\ queues = [x \in Queues |-> NewQueue(Capacity[x], Latency[x])]
  /\ force  = [m \in Modules |-> FALSE]
  /\ ran    = [m \in Modules |-> FALSE]
  /\ active = [m \in Modules |-> << >>]
  /\ observed = [m \in Modules |-> Epochs(m, queues)]
  /\ todo = << >>
  /\ sent = {}
  /\ left = [m \in Modules |-> {}]
  /\ log = NewLog([x \in Queues |-> {}], {})

-----------------------------------------------------------------------------
(***************************************************************************)
(* Events.                                                                  *)
(***************************************************************************)
HasInputEvent(m) == force[m] \/ observed[m] # Epochs(m, queues)

HasPendingWorkRecursive(m) == \E d \in Subtree[m] : HasInputEvent(d)

SeesInput(m, qs) == \E x \in Observes(m) : ~Empty(qs[x])

-----------------------------------------------------------------------------
(***************************************************************************)
(* SimSystem::Step: Work() on every registered module, then Xfer().          *)
(***************************************************************************)
BeginStep ==
  /\ Between
  /\ todo' = Calls("work", Roots) \o Calls("xfer", Roots)
  /\ log' = NewLog([x \in Queues |-> Members(queues[x].readQ)],
                   { m \in Modules : HasInputEvent(m) })
  /\ UNCHANGED <<queues, force, ran, active, observed, sent, left>>

(***************************************************************************)
(* Module::Work and Module::AdvanceQueuesOnly end alike: submodules in       *)
(* order, then the owned queues.                                            *)
(***************************************************************************)
Rest(m) == Calls("visit", Children[m]) \o Calls("tick", Owned[m])

\* Mutant: active_submodules_ is not cleared.
WorkKeepsActive(m) ==
  /\ Calling("work", m)
  /\ HasInputEvent(m)
  /\ ran' = [ran EXCEPT ![m] = TRUE]
  /\ todo' = <<Call("self", m), Call("capture", m)>> \o Rest(m) \o Tail(todo)
  /\ log' = [log EXCEPT !.worked = @ \cup {m}]
  /\ UNCHANGED <<queues, force, active, observed, sent, left>>

\* Mutant: the epochs are captured at the end of Work(), after the queues moved.
WorkCapturesLate(m) ==
  /\ Calling("work", m)
  /\ HasInputEvent(m)
  /\ ran' = [ran EXCEPT ![m] = TRUE]
  /\ active' = [active EXCEPT ![m] = << >>]
  /\ todo' = <<Call("self", m)>> \o Rest(m) \o <<Call("capture", m)>> \o Tail(todo)
  /\ log' = [log EXCEPT !.worked = @ \cup {m}]
  /\ UNCHANGED <<queues, force, observed, sent, left>>

WorkAwake(m) ==
  /\ Calling("work", m)
  /\ HasInputEvent(m)
  /\ ran' = [ran EXCEPT ![m] = TRUE]
  /\ active' = [active EXCEPT ![m] = << >>]
  /\ todo' = <<Call("self", m), Call("capture", m)>> \o Rest(m) \o Tail(todo)
  /\ log' = [log EXCEPT !.worked = @ \cup {m}]
  /\ UNCHANGED <<queues, force, observed, sent, left>>

\* Mutant: a module without an event of its own skips its submodules.
AsleepSkipsSubmodules(m) ==
  /\ Calling("work", m)
  /\ ~HasInputEvent(m)
  /\ ran' = [ran EXCEPT ![m] = FALSE]
  /\ active' = [active EXCEPT ![m] = << >>]
  /\ todo' = Calls("tick", Owned[m]) \o Tail(todo)
  /\ UNCHANGED <<queues, force, observed, sent, left, log>>

WorkAsleep(m) ==
  /\ Calling("work", m)
  /\ ~HasInputEvent(m)
  /\ ran' = [ran EXCEPT ![m] = FALSE]
  /\ active' = [active EXCEPT ![m] = << >>]
  /\ todo' = Rest(m) \o Tail(todo)
  /\ UNCHANGED <<queues, force, observed, sent, left, log>>

(***************************************************************************)
(* After WorkSelf: the request that woke the module is spent, and so is any  *)
(* made by WorkSelf itself; what WorkSelf saw or did is not an event.        *)
(***************************************************************************)
Capture(m) ==
  /\ Calling("capture", m)
  /\ force' = [force EXCEPT ![m] = FALSE]
  /\ observed' = [observed EXCEPT ![m] = Epochs(m, queues)]
  /\ todo' = Tail(todo)
  /\ UNCHANGED <<queues, ran, active, sent, left, log>>

(***************************************************************************)
(* The parent's decision about one submodule.                               *)
(***************************************************************************)
VisitPending(p, c) ==
  /\ Calling("visit", c)
  /\ c \in Members(Children[p])
  /\ HasPendingWorkRecursive(c)
  /\ active' = [active EXCEPT ![p] = Append(@, c)]
  /\ todo' = <<Call("work", c)>> \o Tail(todo)
  /\ UNCHANGED <<queues, force, ran, observed, sent, left, log>>

\* Mutant: inactive modules leave their own queues alone.
AdvanceSubmodulesOnly(c) ==
  /\ Calling("visit", c)
  /\ ~HasPendingWorkRecursive(c)
  /\ active' = [active EXCEPT ![c] = << >>]
  /\ ran' = [ran EXCEPT ![c] = FALSE]
  /\ todo' = Calls("visit", Children[c]) \o Tail(todo)
  /\ UNCHANGED <<queues, force, observed, sent, left, log>>

AdvanceQueuesOnly(c) ==
  /\ Calling("visit", c)
  /\ ~HasPendingWorkRecursive(c)
  /\ active' = [active EXCEPT ![c] = << >>]
  /\ ran' = [ran EXCEPT ![c] = FALSE]
  /\ todo' = Rest(c) \o Tail(todo)
  /\ UNCHANGED <<queues, force, observed, sent, left, log>>

QueueTick(x) ==
  /\ Calling("tick", x)
  /\ queues' = [queues EXCEPT ![x] = QueueWork(@)]
  /\ log' = [log EXCEPT !.ticks[x] = @ + 1]
  /\ todo' = Tail(todo)
  /\ UNCHANGED <<force, ran, active, observed, sent, left>>

\* Mutant: Xfer() does not descend into the active submodules.
XferSelfOnly(m) ==
  /\ Calling("xfer", m)
  /\ todo' = Tail(todo)
  /\ IF ran[m]
       THEN /\ log' = [log EXCEPT !.xfered = @ \cup {m}]
            /\ force' = [force EXCEPT ![m] =
                           @ \/ (m \in Reactivating /\ SeesInput(m, queues))]
       ELSE UNCHANGED <<log, force>>
  /\ UNCHANGED <<queues, ran, active, observed, sent, left>>

Xfer(m) ==
  /\ Calling("xfer", m)
  /\ todo' = Calls("xfer", active[m]) \o Tail(todo)
  /\ IF ran[m]
       THEN /\ log' = [log EXCEPT !.xfered = @ \cup {m}]
            /\ force' = [force EXCEPT ![m] =
                           @ \/ (m \in Reactivating /\ SeesInput(m, queues))]
       ELSE UNCHANGED <<log, force>>
  /\ UNCHANGED <<queues, ran, active, observed, sent, left>>

-----------------------------------------------------------------------------
(***************************************************************************)
(* WorkSelf.                                                                *)
(***************************************************************************)
(***************************************************************************)
(* What WorkSelf leaves visible when it returns.                            *)
(***************************************************************************)
Visible(m, qs) == UNION { Members(qs[x].readQ) : x \in Observes(m) }

Leave(m) == left' = [left EXCEPT ![m] = Visible(m, queues')]

CanHand(x, y) == ~Empty(queues[x]) /\ ~Full(queues[y])

\* Mutant: Front() without the Pop().
HandCopies(x, y) ==
  queues' = [queues EXCEPT ![y] = QueueWrite(@, Head(queues[x].readQ))]

Hand(x, y) ==
  LET taken == [queues EXCEPT ![x] = QueueRead(@)]
  IN  queues' = [taken EXCEPT ![y] = QueueWrite(@, Head(queues[x].readQ))]

(***************************************************************************)
(* ChainModule: one turn of while (!in->Empty() && !out->Full()).            *)
(***************************************************************************)
Forward(m) ==
  /\ Calling("self", m)
  /\ Behaviour[m] = "chain"
  /\ \E x \in Inputs[m], y \in Outputs[m] : CanHand(x, y) /\ Hand(x, y)
  /\ UNCHANGED <<force, ran, active, observed, todo, sent, left, log>>

CanForward(m) == \E x \in Inputs[m], y \in Outputs[m] : CanHand(x, y)
CanPush(m)    == \E x \in Inners[m], y \in Outputs[m] : CanHand(x, y)
CanTake(m)    == \E x \in Inputs[m], y \in Inners[m]  : CanHand(x, y)

(***************************************************************************)
(* PipelineModule: inner to output and return, or else input to inner.       *)
(***************************************************************************)
Push(m) ==
  /\ Calling("self", m)
  /\ Behaviour[m] = "stage"
  /\ \E x \in Inners[m], y \in Outputs[m] : CanHand(x, y) /\ Hand(x, y)
  /\ Leave(m)
  /\ todo' = Tail(todo)
  /\ UNCHANGED <<force, ran, active, observed, sent, log>>

Take(m) ==
  /\ Calling("self", m)
  /\ Behaviour[m] = "stage"
  /\ ~CanPush(m)
  /\ \E x \in Inputs[m], y \in Inners[m] : CanHand(x, y) /\ Hand(x, y)
  /\ Leave(m)
  /\ todo' = Tail(todo)
  /\ UNCHANGED <<force, ran, active, observed, sent, log>>

SelfDone(m) ==
  /\ Calling("self", m)
  /\ Behaviour[m] = "chain" => ~CanForward(m)
  /\ Behaviour[m] = "stage" => ~CanPush(m) /\ ~CanTake(m)
  /\ UNCHANGED queues
  /\ Leave(m)
  /\ todo' = Tail(todo)
  /\ UNCHANGED <<force, ran, active, observed, sent, log>>

-----------------------------------------------------------------------------
(***************************************************************************)
(* SimSystem::Reset: Module::Reset on every registered module, which resets  *)
(* submodules, then owned queues, then the event state of its whole tree.    *)
(***************************************************************************)
BeginReset ==
  /\ Between
  /\ todo' = Calls("reset", Roots)
  /\ sent' = {}
  /\ log' = NewLog([x \in Queues |-> {}], {})
  /\ UNCHANGED <<queues, force, ran, active, observed, left>>

\* Mutant: the event state is reset before the owned queues.
ResetQueuesLast(m) ==
  /\ Calling("reset", m)
  /\ todo' = Calls("reset", Children[m]) \o <<Call("recapture", m)>>
               \o Calls("clear", Owned[m]) \o Tail(todo)
  /\ UNCHANGED <<queues, force, ran, active, observed, sent, left, log>>

ResetModule(m) ==
  /\ Calling("reset", m)
  /\ todo' = Calls("reset", Children[m]) \o Calls("clear", Owned[m])
               \o <<Call("recapture", m)>> \o Tail(todo)
  /\ UNCHANGED <<queues, force, ran, active, observed, sent, left, log>>

ClearQueue(x) ==
  /\ Calling("clear", x)
  /\ queues' = [queues EXCEPT ![x] = QueueReset(@)]
  /\ todo' = Tail(todo)
  /\ UNCHANGED <<force, ran, active, observed, sent, left, log>>

ResetEventState(m) ==
  LET Cleared(f, v) == [d \in Modules |-> IF d \in Subtree[m] THEN v ELSE f[d]]
  IN  /\ Calling("recapture", m)
      /\ force'  = Cleared(force, FALSE)
      /\ ran'    = Cleared(ran, FALSE)
      /\ active' = Cleared(active, << >>)
      /\ observed' = [d \in Modules |->
                        IF d \in Subtree[m] THEN Epochs(d, queues) ELSE observed[d]]
      /\ left' = Cleared(left, {})
      /\ todo' = Tail(todo)
      /\ UNCHANGED <<queues, sent, log>>

-----------------------------------------------------------------------------
(***************************************************************************)
(* The surrounding program, between Steps.                                  *)
(***************************************************************************)
Send(p) ==
  /\ Between
  /\ p \notin sent
  /\ ~Full(queues[Entry])
  /\ queues' = [queues EXCEPT ![Entry] = QueueWrite(@, p)]
  /\ sent' = sent \cup {p}
  /\ UNCHANGED <<force, ran, active, observed, todo, left, log>>

Receive ==
  /\ Between
  /\ ~Empty(queues[Exit])
  /\ queues' = [queues EXCEPT ![Exit] = QueueRead(@)]
  /\ UNCHANGED <<force, ran, active, observed, todo, sent, left, log>>

RequestActivation(m) ==
  /\ Between
  /\ force' = [force EXCEPT ![m] = TRUE]
  /\ UNCHANGED <<queues, ran, active, observed, todo, sent, left, log>>

-----------------------------------------------------------------------------
WorkPhase ==
  \/ \E m \in Modules :
       \/ WorkAwake(m) \/ WorkAsleep(m) \/ Capture(m) \/ AdvanceQueuesOnly(m)
       \/ Forward(m) \/ Push(m) \/ Take(m) \/ SelfDone(m)
  \/ \E p, c \in Modules : VisitPending(p, c)
  \/ \E x \in Queues : QueueTick(x)

XferPhase == \E m \in Modules : Xfer(m)

ResetPhase ==
  \/ \E m \in Modules : ResetModule(m) \/ ResetEventState(m)
  \/ \E x \in Queues : ClearQueue(x)

Step == BeginStep \/ WorkPhase \/ XferPhase \/ ResetPhase

Next ==
  \/ Step \/ BeginReset \/ Receive
  \/ \E p \in Packets : Send(p)
  \/ \E m \in Requested : RequestActivation(m)

Spec == Init /\ [][Next]_vars

(***************************************************************************)
(* RunSimMain calls step() again and again, and a call it has begun ends;    *)
(* the surrounding program reads the exit whenever it keeps finding packets  *)
(* there between Steps.                                                      *)
(***************************************************************************)
FairSpec == Spec /\ WF_vars(Step) /\ SF_vars(Receive)

-----------------------------------------------------------------------------
(***************************************************************************)
(* Properties.                                                              *)
(***************************************************************************)

Resetting == ~Between /\ Head(todo).op \in {"reset", "clear", "recapture"}

(* docs/architecture.md 16: a module reads in a Step only what was visible   *)
(* when the Step began, so nothing written in a Step is read in that Step,   *)
(* whatever the order of siblings and the depth of the tree.                 *)
CycleBoundary ==
  [][ \A x \in Queues :
        Members(queues[x].readQ) \ Members(queues'[x].readQ)
          \subseteq IF Between \/ Resetting THEN Packets ELSE log.shown[x] ]_vars

(* Every owned queue gets one Work() per Step, in active and in inactive     *)
(* subtrees alike: latencies count Steps.                                    *)
InXferPhase == ~Between /\ Head(todo).op = "xfer"
OneTickPerStep ==
  \A x \in Queues : /\ log.ticks[x] <= 1
                    /\ InXferPhase => log.ticks[x] = 1

(* XferSelf runs for exactly the modules whose WorkSelf ran in this Step     *)
(* (docs/architecture.md 24): the active lists reach all of them, each once, *)
(* and no flag or list of an earlier Step survives.                          *)
XferFollowsWork ==
  /\ \A m \in Modules : /\ Members(active[m]) \subseteq Members(Children[m])
                        /\ Cardinality(Members(active[m])) = Len(active[m])
  /\ log.xfered \subseteq log.worked
  /\ Between => log.xfered = log.worked

(* A module that had an event when the Step began, at whatever depth, runs   *)
(* WorkSelf in that Step; so does one whose activation was requested.        *)
EventsServed == InXferPhase => log.due \subseteq log.worked

(* A module that sleeps has seen every packet on its inputs: its last        *)
(* WorkSelf left them there.  Input that became visible later wakes it.      *)
NoUnseenInput ==
  ~Resetting => \A m \in Modules :
                  ~HasInputEvent(m) => Visible(m, queues) \subseteq left[m]

(* When Reset() returns, the queues are empty and no module has an event     *)
(* left over from before, although the queues' epochs started again.         *)
ResetIsQuiet ==
  [][ Resetting /\ todo' = << >> =>
        /\ \A x \in Queues : Occupancy(queues'[x]) = 0
        /\ \A m \in Modules : ~(HasInputEvent(m)') ]_vars

(* From entry to exit the tree of modules is one bounded FIFO: no Step       *)
(* loses, duplicates or reorders a packet, whatever sleeps or is full.       *)
Contents(x) == queues[x].readQ \o queues[x].writeQ
InTransit ==
  LET upTo[n \in 0..Len(Path)] ==
        IF n = 0 THEN << >> ELSE upTo[n - 1] \o Contents(Path[n])
  IN  upTo[Len(Path)]
TotalCapacity ==
  LET upTo[n \in 0..Len(Path)] == IF n = 0 THEN 0 ELSE upTo[n - 1] + Capacity[Path[n]]
  IN  upTo[Len(Path)]
Fifo == INSTANCE BoundedFifo WITH
          items    <- InTransit,
          visible  <- Len(queues[Exit].readQ),
          capacity <- TotalCapacity,
          Sizes    <- {TotalCapacity}
ImplementsFifo == Fifo!Spec

(* Every packet that enters leaves at the exit (or is dropped by a Reset),   *)
(* as long as the exit is read.                                              *)
Underway(p) == \E x \in Queues : p \in Members(Contents(x))
Delivered == \A p \in Packets : Underway(p) ~> ~Underway(p)
=============================================================================

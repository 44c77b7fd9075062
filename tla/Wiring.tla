------------------------------- MODULE Wiring -------------------------------
(***************************************************************************)
(* How a system is put together before it runs: ports, queues and            *)
(* submodules (include/linx/model/module.hpp), registration and Build        *)
(* (include/linx/model/sim_system.hpp), and the report of Validate           *)
(* (src/validation.cpp).                                                    *)
(*                                                                          *)
(* Wiring calls come from the surrounding program, between the calls of      *)
(* Build, and from BuildSelf, inside them.  todo is the call  *)
(* stack of a Build.  An assertion that fails throws std::logic_error out of *)
(* every Build under way; what was done before it stays done, and the        *)
(* program may catch the exception and go on, as the conflict test does.     *)
(*                                                                          *)
(* Left out: what moves a vector while a loop runs over it (AddSubmodule on  *)
(* a module whose children are being built, AddModule from a BuildSelf), and *)
(* BuildSystem, which the repository only overrides to count its calls.      *)
(***************************************************************************)
EXTENDS Naturals, Sequences, FiniteSets

CONSTANTS
  Modules,    \* the Module objects
  Plain,      \* other SimObjects: their Build does nothing, they have no ports
  Queues,
  Void,       \* the null pointer
  MaxPorts,   \* ports declared in all (a bound of the model)
  MaxTop,     \* registrations (a bound of the model)
  MaxSize     \* ports, queues, links and registrations in all (a bound of the model)

ASSUME WiringConstants ==
  /\ Modules \cap Plain = {} /\ (Modules \cup Plain) \cap Queues = {}
  /\ Void \notin Modules \cup Plain \cup Queues
  /\ IsFiniteSet(Modules)
  /\ MaxPorts \in Nat /\ MaxTop \in Nat /\ MaxSize \in Nat

VARIABLES
  ports,     \* the ports declared by each module, by role, with their slots
  relaxed,   \* modules with require_io_contract_ off
  submodules,\* submodules_ of each module
  owner,     \* the module whose owned_queues_ holds each queue
  top,       \* modules_ of the system
  attached,  \* modules and queues that have the runtime of the system
  built,     \* modules with built_ set
  simBuilt,  \* built_ of the system
  todo,      \* the calls a Build still has to make
  late,      \* history: objects added below what was built already
  early,     \* history: objects made for a module the system did not know then
  found      \* history: the last Build of the system began with a built module below it

vars == <<ports, relaxed, submodules, owner, top, attached, built, simBuilt,
          todo, late, early, found>>

Roles == {"input", "output", "inner"}
Port  == [complete : BOOLEAN, slot : Queues \cup {Void}]
Call  == [op : {"build", "self", "done"}, on : Modules \cup Plain]
           \cup [op : {"simdone"}]

Members(s) == { s[i] : i \in 1..Len(s) }
Declared(m) == UNION { Members(ports[m][r]) : r \in Roles }
Bound(m)    == { p.slot : p \in Declared(m) } \ {Void}

\* What the wiring calls have made so far.
PortsMade == { t \in Modules \X Roles \X (1..MaxPorts) : t[3] <= Len(ports[t[1]][t[2]]) }
LinksMade == { t \in Modules \X (1..MaxSize) : t[2] <= Len(submodules[t[1]]) }
Size == Cardinality(PortsMade) + Cardinality(LinksMade) + Len(top)
          + Cardinality({ q \in Queues : owner[q] # Void }) + Cardinality(relaxed)
Room == Size < MaxSize
RoomForPort == Room /\ Cardinality(PortsMade) < MaxPorts

Parents(c) == { m \in Modules : c \in Members(submodules[m]) }

(***************************************************************************)
(* What lies below the objects of S along the links of next: what is in every *)
(* set that holds S and, with a module, what next links it to.               *)
(***************************************************************************)
Objects == Modules \cup Plain
Closed(C, next) == \A m \in C \cap Modules : next[m] \subseteq C
Below(S, next) ==
  { x \in Objects : \A C \in SUBSET Objects : S \subseteq C /\ Closed(C, next) => x \in C }

SubmodulesOf == [m \in Modules |-> Members(submodules[m])]
Reachable == Below(Members(top), SubmodulesOf)

\* What was made in order, from the registered modules down.
PunctualChildren == [m \in Modules |-> Members(submodules[m]) \ early]
Punctual == Below(Members(top) \ early, PunctualChildren)
NoteEarly(m, x) == early' = IF m \in Punctual THEN early ELSE early \cup {x}

Init ==
  /\ ports = [m \in Modules |-> [r \in Roles |-> << >>]]
  /\ relaxed = {}
  /\ submodules = [m \in Modules |-> << >>]
  /\ owner = [q \in Queues |-> Void]
  /\ top = << >>
  /\ attached = {} /\ built = {} /\ simBuilt = FALSE
  /\ todo = << >>
  /\ late = {} /\ early = {} /\ found = FALSE

-----------------------------------------------------------------------------
(***************************************************************************)
(* Who is calling                                                           *)
(***************************************************************************)
Idle == todo = << >>
InBuildSelf(x) == ~Idle /\ Head(todo) = [op |-> "self", on |-> x]

\* A BuildSelf wires its own module and the children it has.
MayWire(m) ==
  \/ Idle
  \/ \E x \in {m} \cup Parents(m) : InBuildSelf(x)

\* The queues the caller can hand to m: those m or its parent owns or is bound to.
Offered(m) ==
  { q \in Queues : \E x \in {m} \cup Parents(m) : owner[q] = x \/ q \in Bound(x) }

-----------------------------------------------------------------------------
(***************************************************************************)
(* Ports                                                                    *)
(***************************************************************************)
NewPort(complete) == [complete |-> complete, slot |-> Void]

\* Mutant: inner slots are not searched.
BindableAcrossInner(m, current, q) ==
  /\ q # Void
  /\ current = q \/ \A r \in Roles \ {"inner"} : \A i \in 1..Len(ports[m][r]) : ports[m][r][i].slot # q

(***************************************************************************)
(* AssertRoleSlotBindable and the assertions before it, for a slot that      *)
(* holds current.                                                           *)
(***************************************************************************)
Bindable(m, current, q) ==
  /\ q # Void
  /\ current = q \/ q \notin Bound(m)

\* A failed assertion leaves every Build under way.
Thrown == todo' = << >>

DescribePort(m, r, complete) ==
  /\ MayWire(m) /\ RoomForPort
  /\ ports' = [ports EXCEPT ![m][r] = Append(@, NewPort(complete))]
  /\ UNCHANGED <<relaxed, submodules, owner, top, attached, built, simBuilt, todo, late, early, found>>

BindPort(m, r, i, q) ==
  /\ MayWire(m)
  /\ IF Bindable(m, ports[m][r][i].slot, q)
       THEN ports' = [ports EXCEPT ![m][r][i].slot = q] /\ UNCHANGED todo
       ELSE Thrown /\ UNCHANGED ports
  /\ UNCHANGED <<relaxed, submodules, owner, top, attached, built, simBuilt, late, early, found>>

(***************************************************************************)
(* AddInput, AddOutput, AddInner: the port is declared first and stays when  *)
(* the bind is refused.                                                     *)
(***************************************************************************)
AddPort(m, r, q) ==
  /\ MayWire(m) /\ RoomForPort
  /\ IF Bindable(m, Void, q)
       THEN /\ ports' = [ports EXCEPT ![m][r] =
                           Append(@, [NewPort(TRUE) EXCEPT !.slot = q])]
            /\ UNCHANGED todo
       ELSE /\ ports' = [ports EXCEPT ![m][r] = Append(@, NewPort(TRUE))]
            /\ Thrown
  /\ UNCHANGED <<relaxed, submodules, owner, top, attached, built, simBuilt, late, early, found>>

SetRequireIOContract(m, enabled) ==
  /\ MayWire(m) /\ (enabled \/ Room)
  /\ relaxed' = IF enabled THEN relaxed \ {m} ELSE relaxed \cup {m}
  /\ UNCHANGED <<ports, submodules, owner, top, attached, built, simBuilt, todo, late, early, found>>

-----------------------------------------------------------------------------
(***************************************************************************)
(* Queues, submodules, registration                                         *)
(***************************************************************************)
\* Mutant: a submodule has to ask for the runtime itself.
AttachNot(m, x) == UNCHANGED attached

\* AttachRuntime(RuntimeLogger(), RuntimeCyclePtr()): x gets what m has now.
AttachAs(m, x) ==
  attached' = IF m \in attached THEN attached \cup {x} ELSE attached \ {x}

CreateOwnedQueue(m, q) ==
  /\ MayWire(m) /\ Room /\ owner[q] = Void
  /\ owner' = [owner EXCEPT ![q] = m]
  /\ AttachAs(m, q) /\ NoteEarly(m, q)
  /\ UNCHANGED <<ports, relaxed, submodules, top, built, simBuilt, todo, late, found>>

(***************************************************************************)
(* The unique_ptr: a module is in one submodules_ at most, never below       *)
(* itself.                                                                  *)
(***************************************************************************)
AddSubmodule(m, c) ==
  /\ MayWire(m) /\ Room
  /\ Parents(c) = {} /\ m \notin Below({c}, SubmodulesOf)
  /\ submodules' = [submodules EXCEPT ![m] = Append(@, c)]
  /\ AttachAs(m, c) /\ NoteEarly(m, c)
  /\ late' = IF m \in built THEN late \cup {c} ELSE late
  /\ UNCHANGED <<ports, relaxed, owner, top, built, simBuilt, todo, found>>

\* AddModule and AddOwnedModule.
AddModule(x) ==
  /\ Idle
  /\ Room /\ Len(top) < MaxTop
  /\ top' = Append(top, x)
  /\ attached' = attached \cup {x}
  /\ late' = IF simBuilt THEN late \cup {x} ELSE late
  /\ UNCHANGED <<ports, relaxed, submodules, owner, built, simBuilt, todo, early, found>>

-----------------------------------------------------------------------------
(***************************************************************************)
(* Build                                                                    *)
(***************************************************************************)
Builds(s) == [i \in 1..Len(s) |-> [op |-> "build", on |-> s[i]]]

\* The assertion at the head of both Build functions.
Buildable(done) == ~done

StartSystemBuild ==
  /\ Idle /\ Buildable(simBuilt)
  /\ todo' = Append(Builds(top), [op |-> "simdone"])
  /\ found' = (Reachable \cap built # {})
  /\ UNCHANGED <<ports, relaxed, submodules, owner, top, attached, built, simBuilt, late, early>>

\* One module built without a system, as tests/system/module_pipeline_test.cpp
\* does: before any registration or other Build.
StartModuleBuild(m) ==
  /\ Idle /\ Parents(m) = {} /\ top = << >> /\ built = {}
  /\ todo' = Builds(<<m>>)
  /\ UNCHANGED <<ports, relaxed, submodules, owner, top, attached, built, simBuilt, late, early, found>>

\* Mutant: what is built already is passed over.
EnterBuildOnce(x) ==
  /\ ~Idle /\ Head(todo) = [op |-> "build", on |-> x]
  /\ IF x \in Plain \cup built THEN todo' = Tail(todo)
     ELSE todo' = <<[op |-> "self", on |-> x], [op |-> "done", on |-> x]>> \o Tail(todo)
  /\ UNCHANGED <<ports, relaxed, submodules, owner, top, attached, built, simBuilt, late, early, found>>

EnterBuild(x) ==
  /\ ~Idle /\ Head(todo) = [op |-> "build", on |-> x]
  /\ IF x \in Plain THEN todo' = Tail(todo)
     ELSE IF Buildable(x \in built)
       THEN todo' = <<[op |-> "self", on |-> x], [op |-> "done", on |-> x]>> \o Tail(todo)
       ELSE Thrown
  /\ UNCHANGED <<ports, relaxed, submodules, owner, top, attached, built, simBuilt, late, early, found>>

LeaveBuildSelf(m) ==
  /\ InBuildSelf(m)
  /\ todo' = Builds(submodules[m]) \o Tail(todo)
  /\ UNCHANGED <<ports, relaxed, submodules, owner, top, attached, built, simBuilt, late, early, found>>

FinishBuild(m) ==
  /\ ~Idle /\ Head(todo) = [op |-> "done", on |-> m]
  /\ built' = built \cup {m}
  /\ todo' = Tail(todo)
  /\ UNCHANGED <<ports, relaxed, submodules, owner, top, attached, simBuilt, late, early, found>>

FinishSystemBuild ==
  /\ ~Idle /\ Head(todo).op = "simdone"
  /\ simBuilt' = TRUE
  /\ todo' = Tail(todo)
  /\ UNCHANGED <<ports, relaxed, submodules, owner, top, attached, built, late, early, found>>

-----------------------------------------------------------------------------
(***************************************************************************)
(* Validate: the report, as a set of errors                                 *)
(***************************************************************************)
Issue(x, what) == [on |-> x, what |-> what]

PortIssues(m, r) ==
  { Issue(m, "undocumented") : p \in { p \in Members(ports[m][r]) : ~p.complete } }
    \cup { Issue(m, "unbound") : p \in { p \in Members(ports[m][r]) : p.slot = Void } }

ContractIssues(m) ==
  IF m \notin relaxed /\ \E r \in {"input", "output"} : ports[m][r] = << >>
    THEN {Issue(m, "contract")} ELSE {}

OwnIssues(m) == ContractIssues(m) \cup UNION { PortIssues(m, r) : r \in Roles }

\* Mutant: registered modules only.
CollectOwnIssues(x) == OwnIssues(x)
CollectIssues(x) ==
  LET collect[depth \in 0..Cardinality(Modules)] ==
        [m \in Modules |->
           OwnIssues(m) \cup IF depth = 0 THEN {}
                              ELSE UNION { collect[depth - 1][c] : c \in SubmodulesOf[m] }]
  IN  collect[Cardinality(Modules)][x]

ValidateModel ==
  UNION { IF x \in Plain THEN {Issue(x, "not queue based")} ELSE CollectIssues(x) :
            x \in Members(top) }

-----------------------------------------------------------------------------
Wire ==
  \E m \in Modules :
    \/ \E r \in Roles, complete \in BOOLEAN : DescribePort(m, r, complete)
    \/ \E r \in Roles, q \in Offered(m) \cup {Void} :
         \/ AddPort(m, r, q)
         \/ \E i \in 1..Len(ports[m][r]) : BindPort(m, r, i, q)
    \/ \E enabled \in BOOLEAN : SetRequireIOContract(m, enabled)
    \/ \E q \in Queues : CreateOwnedQueue(m, q)
    \/ \E c \in Modules : AddSubmodule(m, c)

Build ==
  \/ StartSystemBuild \/ FinishSystemBuild
  \/ \E x \in Modules \cup Plain : EnterBuild(x)
  \/ \E m \in Modules : StartModuleBuild(m) \/ LeaveBuildSelf(m) \/ FinishBuild(m)

Next == Wire \/ Build \/ \E x \in Modules \cup Plain : AddModule(x)

Spec == Init /\ [][Next]_vars

-----------------------------------------------------------------------------
(***************************************************************************)
(* Every variable keeps its type: in particular the ports and the slots of a *)
(* role stay one for one, as DescribePort resizes both.                      *)
(***************************************************************************)
TypeOK ==
  /\ ports \in [Modules -> [Roles -> Seq(Port)]]
  /\ relaxed \subseteq Modules
  /\ submodules \in [Modules -> Seq(Modules)]
  /\ owner \in [Queues -> Modules \cup {Void}]
  /\ top \in Seq(Modules \cup Plain)
  /\ attached \subseteq Modules \cup Plain \cup Queues
  /\ built \subseteq Modules /\ simBuilt \in BOOLEAN
  /\ todo \in Seq(Call)
  /\ late \subseteq Modules \cup Plain
  /\ early \subseteq Modules \cup Queues /\ found \in BOOLEAN

(***************************************************************************)
(* AssertRoleSlotBindable: however ports are added, bound again and refused, *)
(* no two slots of a module, whatever their roles, hold the same queue.      *)
(***************************************************************************)
OneRolePerQueue ==
  \A m \in Modules : \A r, s \in Roles :
    \A i \in 1..Len(ports[m][r]), j \in 1..Len(ports[m][s]) :
      /\ ports[m][r][i].slot = ports[m][s][j].slot
      /\ ports[m][r][i].slot # Void
      => r = s /\ i = j

(***************************************************************************)
(* Validate accuses exactly what could not run or is not documented: objects *)
(* of the system that are no modules, and modules below it, however deep and *)
(* whenever added, with a port that Input(), Output() or Inner() would refuse *)
(* (also one left behind by a refused AddInput), a port without a name or a   *)
(* description, or a side missing that the contract asks for.                *)
(***************************************************************************)
Faulty(m) ==
  \/ \E p \in Declared(m) : p.slot = Void \/ ~p.complete
  \/ m \notin relaxed /\ (ports[m]["input"] = << >> \/ ports[m]["output"] = << >>)

ReportTells ==
  { e.on : e \in ValidateModel }
    = (Members(top) \cap Plain) \cup { m \in Reachable \cap Modules : Faulty(m) }

(***************************************************************************)
(* A system whose Build returned is whole, and what SimSystem.tla assumes of  *)
(* its wiring holds, for what was there when it did.  Every module below the  *)
(* system is built, by this Build: one that an exception left half way can   *)
(* never be made good, since what it did build asserts in every later one.   *)
(* A module is registered once or is the submodule of one module of the       *)
(* system, never both (Build would reach it twice).  Whoever uses a queue is  *)
(* at or below its owner, and the owner is in the system too, unless the      *)
(* program registers somebody's submodule: then Build and Validate accept a   *)
(* queue that nobody clocks.                                                 *)
(***************************************************************************)
TimelyChildren == [m \in Modules |-> Members(submodules[m]) \ late]
Settled == Below(Members(top) \ late, TimelyChildren)

WiredAsAssumed ==
  simBuilt => ~found /\ \A m \in Settled \cap Modules :
    /\ m \in built
    /\ Cardinality({ i \in 1..Len(top) : top[i] = m })
         + Cardinality(Parents(m) \cap Settled) = 1
    /\ \A q \in Bound(m) :
         /\ owner[q] # Void /\ m \in Below({owner[q]}, SubmodulesOf)
         /\ (\A t \in Members(top) : Parents(t) = {}) => owner[q] \in Settled

(***************************************************************************)
(* AttachRuntime is not recursive: a module or a queue gets what its parent  *)
(* has at that moment.  It has the logger and the cycle counter of the       *)
(* system if each object on the way to it was made when its parent was below *)
(* the system already.                                                      *)
(***************************************************************************)
RuntimeReaches ==
  /\ Punctual \subseteq attached
  /\ \A q \in Queues \ early : owner[q] \in Punctual => q \in attached
=============================================================================

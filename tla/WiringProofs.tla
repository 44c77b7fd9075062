---------------------------- MODULE WiringProofs ----------------------------
(***************************************************************************)
(* What TLAPS proves of the wiring, for any modules and queues, any number of *)
(* ports, links and registrations, and whatever a failed assertion leaves    *)
(* half done.                                                               *)
(***************************************************************************)
EXTENDS Wiring, FiniteSetTheorems, SequenceTheorems, WellFoundedInduction, TLAPS

IInv == TypeOK /\ OneRolePerQueue

LEMMA InitIInv == Init => IInv
<1> SUFFICES ASSUME Init PROVE IInv
  OBVIOUS
<1>1. TypeOK
  <2>1. ports \in [Modules -> [Roles -> Seq(Port)]]
    <3>1. << >> \in Seq(Port)
      OBVIOUS
    <3>2. QED BY <3>1 DEF Init
  <2>2. submodules \in [Modules -> Seq(Modules)]
    <3>1. << >> \in Seq(Modules)
      OBVIOUS
    <3>2. QED BY <3>1 DEF Init
  <2>3. owner \in [Queues -> Modules \cup {Void}]
    BY DEF Init
  <2>4. top \in Seq(Modules \cup Plain) /\ todo \in Seq(Call)
    BY DEF Init
  <2>5. /\ relaxed = {} /\ attached = {} /\ built = {} /\ simBuilt = FALSE
        /\ late = {} /\ early = {} /\ found = FALSE
    BY DEF Init
  <2>6. QED BY <2>1, <2>2, <2>3, <2>4, <2>5 DEF TypeOK
<1>2. OneRolePerQueue
  BY DEF Init, OneRolePerQueue
<1>3. QED BY <1>1, <1>2 DEF IInv

-----------------------------------------------------------------------------
(* One port appended keeps the rule if no port holds its queue.              *)
LEMMA PortAppended ==
  ASSUME IInv, NEW m \in Modules, NEW r \in Roles, NEW p \in Port,
         p.slot # Void => p.slot \notin Bound(m),
         ports' = [ports EXCEPT ![m][r] = Append(@, p)]
  PROVE  /\ ports' \in [Modules -> [Roles -> Seq(Port)]]
         /\ OneRolePerQueue'
<1> DEFINE old == ports[m][r]
<1>1. /\ ports \in [Modules -> [Roles -> Seq(Port)]]
      /\ old \in Seq(Port) /\ Append(old, p) \in Seq(Port)
  BY DEF IInv, TypeOK
<1>2. /\ ports' \in [Modules -> [Roles -> Seq(Port)]]
      /\ ports'[m][r] = Append(old, p)
      /\ \A n \in Modules, s \in Roles : <<n, s>> # <<m, r>> => ports'[n][s] = ports[n][s]
  BY <1>1
<1>3. /\ Len(ports'[m][r]) = Len(old) + 1 /\ ports'[m][r][Len(old) + 1] = p
      /\ \A i \in 1..Len(old) : ports'[m][r][i] = old[i]
  BY <1>1, <1>2
<1>4. ASSUME NEW s \in Roles, NEW i \in 1..Len(ports[m][s]), p.slot # Void
      PROVE  ports[m][s][i].slot # p.slot
  BY <1>4 DEF Bound, Declared, Members
\* A port of m after the step is the new one, or was there before.
<1>5. ASSUME NEW n \in Modules, NEW s \in Roles, NEW i \in 1..Len(ports'[n][s])
      PROVE  \/ n = m /\ s = r /\ i = Len(old) + 1 /\ ports'[n][s][i] = p
             \/ i \in 1..Len(ports[n][s]) /\ ports'[n][s][i] = ports[n][s][i]
  <2>1. CASE <<n, s>> = <<m, r>>
    BY <1>1, <1>3, <2>1
  <2>2. CASE <<n, s>> # <<m, r>>
    BY <1>2, <2>2
  <2>3. QED BY <2>1, <2>2
<1>6. ASSUME NEW n \in Modules, NEW s \in Roles, NEW t \in Roles,
             NEW i \in 1..Len(ports'[n][s]), NEW j \in 1..Len(ports'[n][t]),
             ports'[n][s][i].slot = ports'[n][t][j].slot, ports'[n][s][i].slot # Void
      PROVE  s = t /\ i = j
  BY SMTT(30), <1>4, <1>5, <1>6 DEF IInv, OneRolePerQueue
<1>7. OneRolePerQueue'
  BY SMTT(30), <1>6 DEF OneRolePerQueue
<1>8. QED BY <1>2, <1>7

(* One slot bound keeps it if no other port holds the queue.                 *)
LEMMA SlotBound ==
  ASSUME IInv, NEW m \in Modules, NEW r \in Roles, NEW k \in 1..Len(ports[m][r]),
         NEW q \in Queues, Bindable(m, ports[m][r][k].slot, q),
         ports' = [ports EXCEPT ![m][r][k].slot = q]
  PROVE  /\ ports' \in [Modules -> [Roles -> Seq(Port)]]
         /\ OneRolePerQueue'
<1> DEFINE old == ports[m][r]
           new == [old EXCEPT ![k].slot = q]
<1>1. /\ ports \in [Modules -> [Roles -> Seq(Port)]]
      /\ old \in Seq(Port) /\ old[k] \in Port
  BY DEF IInv, TypeOK
<1>2. /\ new \in Seq(Port) /\ Len(new) = Len(old) /\ new[k].slot = q
      /\ \A i \in 1..Len(old) : i # k => new[i] = old[i]
  <2> DEFINE bound == [old[k] EXCEPT !.slot = q]
  <2>1. bound \in Port /\ bound.slot = q
    BY <1>1 DEF Port
  <2> HIDE DEF bound
  <2>2. new = [old EXCEPT ![k] = bound]
    BY DEF bound
  <2> HIDE DEF new
  <2>3. /\ new \in Seq(Port) /\ Len(new) = Len(old)
        /\ \A i \in 1..Len(old) : new[i] = IF i = k THEN bound ELSE old[i]
    BY <1>1, <2>1, <2>2, ExceptSeq
  <2>4. QED BY <2>1, <2>3
<1>3. /\ ports' \in [Modules -> [Roles -> Seq(Port)]]
      /\ ports'[m][r] = new
      /\ \A n \in Modules, s \in Roles : <<n, s>> # <<m, r>> => ports'[n][s] = ports[n][s]
  <2> HIDE DEF new
  <2>1. ports' = [ports EXCEPT ![m] = [ports[m] EXCEPT ![r] = new]]
    BY DEF new
  <2>2. ports'[m] = [ports[m] EXCEPT ![r] = new] /\ \A n \in Modules \ {m} : ports'[n] = ports[n]
    BY <1>1, <2>1
  <2>3. /\ ports'[m] \in [Roles -> Seq(Port)] /\ ports'[m][r] = new
        /\ \A s \in Roles \ {r} : ports'[m][s] = ports[m][s]
    BY ZenonT(60), <1>1, <1>2, <2>2
  <2>4. ports' \in [Modules -> [Roles -> Seq(Port)]]
    BY <1>1, <2>1, <2>2, <2>3
  <2>5. QED BY <2>2, <2>3, <2>4
<1> HIDE DEF new
<1>4. ASSUME NEW s \in Roles, NEW i \in 1..Len(ports[m][s]), ports[m][s][i].slot = q
      PROVE  s = r /\ i = k
  <2>1. CASE old[k].slot = q
    BY SMTT(30), <1>4, <2>1 DEF Bindable, IInv, OneRolePerQueue
  <2>2. CASE q \notin Bound(m)
    BY <1>4, <2>2 DEF Bindable, Bound, Declared, Members
  <2>3. QED BY <2>1, <2>2 DEF Bindable
\* A port after the step is the one bound, or as it was before.
<1>5. ASSUME NEW n \in Modules, NEW s \in Roles, NEW i \in 1..Len(ports'[n][s])
      PROVE  /\ i \in 1..Len(ports[n][s])
             /\ \/ n = m /\ s = r /\ i = k /\ ports'[n][s][i].slot = q
                \/ <<n, s, i>> # <<m, r, k>> /\ ports'[n][s][i] = ports[n][s][i]
  <2>1. CASE <<n, s>> = <<m, r>>
    BY <1>2, <1>3, <2>1
  <2>2. CASE <<n, s>> # <<m, r>>
    BY <1>3, <2>2
  <2>3. QED BY <2>1, <2>2
<1>6. ASSUME NEW n \in Modules, NEW s \in Roles, NEW t \in Roles,
             NEW i \in 1..Len(ports'[n][s]), NEW j \in 1..Len(ports'[n][t]),
             ports'[n][s][i].slot = ports'[n][t][j].slot, ports'[n][s][i].slot # Void
      PROVE  s = t /\ i = j
  <2>1. /\ i \in 1..Len(ports[n][s])
        /\ \/ n = m /\ s = r /\ i = k /\ ports'[n][s][i].slot = q
           \/ <<n, s, i>> # <<m, r, k>> /\ ports'[n][s][i] = ports[n][s][i]
    BY <1>5
  <2>2. /\ j \in 1..Len(ports[n][t])
        /\ \/ n = m /\ t = r /\ j = k /\ ports'[n][t][j].slot = q
           \/ <<n, t, j>> # <<m, r, k>> /\ ports'[n][t][j] = ports[n][t][j]
    BY <1>5
  <2>3. CASE ports'[n][s][i] = ports[n][s][i] /\ ports'[n][t][j] = ports[n][t][j]
    <3>1. /\ i \in 1..Len(ports[n][s]) /\ j \in 1..Len(ports[n][t])
          /\ ports[n][s][i].slot = ports[n][t][j].slot /\ ports[n][s][i].slot # Void
      BY <1>6, <2>1, <2>2, <2>3
    <3>2. OneRolePerQueue
      BY DEF IInv
    <3>3. QED BY SMTT(30), <3>1, <3>2 DEF OneRolePerQueue
  <2>4. CASE ports'[n][s][i] # ports[n][s][i]
    <3>1. n = m /\ s = r /\ i = k /\ ports'[n][t][j].slot = q
      BY <1>6, <2>1, <2>4
    <3>2. QED BY <1>4, <2>2, <3>1
  <2>5. CASE ports'[n][t][j] # ports[n][t][j]
    <3>1. n = m /\ t = r /\ j = k /\ ports'[n][s][i].slot = q
      BY SMTT(30), <1>6, <2>2, <2>5
    <3>2. QED BY <1>4, <2>1, <3>1
  <2>6. QED BY <2>3, <2>4, <2>5
<1>7. OneRolePerQueue'
  BY SMTT(30), <1>6 DEF OneRolePerQueue
<1>8. QED BY <1>3, <1>7

-----------------------------------------------------------------------------
(* The calls that change no port.                                            *)
LEMMA PortsLeft ==
  ASSUME IInv, ports' = ports
  PROVE  ports' \in [Modules -> [Roles -> Seq(Port)]] /\ OneRolePerQueue'
BY DEF IInv, TypeOK, OneRolePerQueue

Rest ==
  /\ relaxed \subseteq Modules
  /\ submodules \in [Modules -> Seq(Modules)]
  /\ owner \in [Queues -> Modules \cup {Void}]
  /\ top \in Seq(Modules \cup Plain)
  /\ attached \subseteq Modules \cup Plain \cup Queues
  /\ built \subseteq Modules /\ simBuilt \in BOOLEAN
  /\ todo \in Seq(Call)
  /\ late \subseteq Modules \cup Plain
  /\ early \subseteq Modules \cup Queues /\ found \in BOOLEAN

LEMMA WireKeeps ==
  ASSUME IInv, NEW m \in Modules,
         \/ \E r \in Roles, complete \in BOOLEAN : DescribePort(m, r, complete)
         \/ \E r \in Roles, q \in Offered(m) \cup {Void} :
              \/ AddPort(m, r, q)
              \/ \E i \in 1..Len(ports[m][r]) : BindPort(m, r, i, q)
         \/ \E enabled \in BOOLEAN : SetRequireIOContract(m, enabled)
  PROVE  Rest'
<1>1. Rest
  BY DEF IInv, TypeOK, Rest
<1>2. << >> \in Seq(Call)
  OBVIOUS
<1>3. /\ relaxed' \subseteq Modules /\ todo' \in Seq(Call)
      /\ UNCHANGED <<submodules, owner, top, attached, built, simBuilt, late, early, found>>
  BY <1>1, <1>2 DEF Rest, DescribePort, AddPort, BindPort, SetRequireIOContract, Thrown
<1>4. QED BY <1>1, <1>3 DEF Rest

LEMMA OwnedKeeps ==
  ASSUME IInv, NEW m \in Modules, NEW q \in Queues, CreateOwnedQueue(m, q)
  PROVE  Rest'
BY DEF IInv, TypeOK, Rest, CreateOwnedQueue, AttachAs, NoteEarly

LEMMA SubmoduleKeeps ==
  ASSUME IInv, NEW m \in Modules, NEW c \in Modules, AddSubmodule(m, c)
  PROVE  Rest'
BY DEF IInv, TypeOK, Rest, AddSubmodule, AttachAs, NoteEarly

LEMMA RegisterKeeps ==
  ASSUME IInv, NEW x \in Modules \cup Plain, AddModule(x)
  PROVE  Rest'
BY DEF IInv, TypeOK, Rest, AddModule

LEMMA CallTypes ==
  /\ \A x \in Modules \cup Plain :
       /\ [op |-> "build", on |-> x] \in Call
       /\ [op |-> "self", on |-> x] \in Call
       /\ [op |-> "done", on |-> x] \in Call
  /\ [op |-> "simdone"] \in Call
BY DEF Call

LEMMA BuildsTypes ==
  ASSUME NEW s \in Seq(Modules \cup Plain)
  PROVE  Builds(s) \in Seq(Call)
<1>1. Builds(s) \in [1..Len(s) -> Call]
  <2>1. \A i \in 1..Len(s) : s[i] \in Modules \cup Plain
    OBVIOUS
  <2>2. \A i \in 1..Len(s) : [op |-> "build", on |-> s[i]] \in Call
    BY <2>1, CallTypes
  <2>3. QED BY <2>2, Zenon DEF Builds
<1>2. QED BY <1>1

LEMMA BuildKeeps ==
  ASSUME IInv, Build
  PROVE  Rest' /\ ports' = ports
<1>1. Rest
  BY DEF IInv, TypeOK, Rest
<1>2. CASE StartSystemBuild
  <2>1. Append(Builds(top), [op |-> "simdone"]) \in Seq(Call)
    BY <1>1, BuildsTypes, CallTypes DEF Rest
  <2>2. QED BY <1>1, <1>2, <2>1 DEF Rest, StartSystemBuild
<1>3. CASE FinishSystemBuild
  BY <1>1, <1>3 DEF Rest, FinishSystemBuild, Idle
<1>4. ASSUME NEW x \in Modules \cup Plain, EnterBuild(x) PROVE Rest' /\ ports' = ports
  <2>1. Tail(todo) \in Seq(Call)
    BY <1>1, <1>4 DEF Rest, EnterBuild, Idle
  <2>2. <<[op |-> "self", on |-> x], [op |-> "done", on |-> x]>> \in Seq(Call)
    <3>1. \A a, b \in Call : <<a, b>> \in Seq(Call)
      OBVIOUS
    <3>2. QED BY <3>1, CallTypes
  <2>3. <<[op |-> "self", on |-> x], [op |-> "done", on |-> x]>> \o Tail(todo) \in Seq(Call)
    BY <2>1, <2>2
  <2>4. << >> \in Seq(Call)
    OBVIOUS
  <2>5. todo' \in Seq(Call)
    BY <1>4, <2>1, <2>3, <2>4 DEF EnterBuild, Thrown
  <2>6. QED BY <1>1, <1>4, <2>5 DEF Rest, EnterBuild
<1>5. ASSUME NEW m \in Modules, StartModuleBuild(m) PROVE Rest' /\ ports' = ports
  <2>1. Builds(<<m>>) \in Seq(Call)
    <3>1. <<m>> \in Seq(Modules \cup Plain)
      OBVIOUS
    <3>2. QED BY <3>1, BuildsTypes
  <2>2. QED BY <1>1, <1>5, <2>1 DEF Rest, StartModuleBuild
<1>6. ASSUME NEW m \in Modules, LeaveBuildSelf(m) PROVE Rest' /\ ports' = ports
  <2>1. Tail(todo) \in Seq(Call)
    BY <1>1, <1>6 DEF Rest, LeaveBuildSelf, InBuildSelf, Idle
  <2>2. submodules[m] \in Seq(Modules \cup Plain)
    BY <1>1 DEF Rest
  <2>3. Builds(submodules[m]) \o Tail(todo) \in Seq(Call)
    BY <2>1, <2>2, BuildsTypes
  <2>4. QED BY <1>1, <1>6, <2>3 DEF Rest, LeaveBuildSelf
<1>7. ASSUME NEW m \in Modules, FinishBuild(m) PROVE Rest' /\ ports' = ports
  <2>1. Tail(todo) \in Seq(Call)
    BY <1>1, <1>7 DEF Rest, FinishBuild, Idle
  <2>2. QED BY <1>1, <1>7, <2>1 DEF Rest, FinishBuild
<1>8. QED BY <1>2, <1>3, <1>4, <1>5, <1>6, <1>7 DEF Build

-----------------------------------------------------------------------------
LEMMA StepIInv == IInv /\ [Next]_vars => IInv'
<1> SUFFICES ASSUME IInv, [Next]_vars PROVE IInv'
  OBVIOUS
<1> DEFINE PortsOK == ports' \in [Modules -> [Roles -> Seq(Port)]] /\ OneRolePerQueue'
<1>1. Rest' /\ PortsOK => IInv'
  BY DEF IInv, TypeOK, Rest
<1>2. NewPort(TRUE) \in Port /\ NewPort(FALSE) \in Port
  BY DEF NewPort, Port
<1>3. ASSUME NEW m \in Modules, NEW r \in Roles, NEW complete \in BOOLEAN,
             DescribePort(m, r, complete)
      PROVE  IInv'
  <2>1. NewPort(complete) \in Port /\ NewPort(complete).slot = Void
    BY DEF NewPort, Port
  <2>2. ports' = [ports EXCEPT ![m][r] = Append(@, NewPort(complete))]
    BY <1>3 DEF DescribePort
  <2>3. PortsOK
    BY <2>1, <2>2, PortAppended
  <2>4. QED BY <1>1, <1>3, <2>3, WireKeeps
<1>4. ASSUME NEW m \in Modules, NEW r \in Roles, NEW q \in Offered(m) \cup {Void},
             AddPort(m, r, q)
      PROVE  IInv'
  <2>1. CASE Bindable(m, Void, q)
    <3> DEFINE p == [NewPort(TRUE) EXCEPT !.slot = q]
    <3>1. q \in Queues /\ q \notin Bound(m)
      BY <2>1 DEF Bindable, Offered
    <3>2. p \in Port /\ p.slot = q
      BY <3>1 DEF NewPort, Port
    <3>3. ports' = [ports EXCEPT ![m][r] = Append(@, p)]
      BY <1>4, <2>1 DEF AddPort
    <3> HIDE DEF p
    <3>4. PortsOK
      BY <3>1, <3>2, <3>3, PortAppended
    <3>5. QED BY <1>1, <1>4, <3>4, WireKeeps
  <2>2. CASE ~Bindable(m, Void, q)
    <3>1. NewPort(TRUE) \in Port /\ NewPort(TRUE).slot = Void
      BY DEF NewPort, Port
    <3>2. ports' = [ports EXCEPT ![m][r] = Append(@, NewPort(TRUE))]
      BY <1>4, <2>2 DEF AddPort
    <3>3. PortsOK
      BY <3>1, <3>2, PortAppended
    <3>4. QED BY <1>1, <1>4, <3>3, WireKeeps
  <2>3. QED BY <2>1, <2>2
<1>5. ASSUME NEW m \in Modules, NEW r \in Roles, NEW q \in Offered(m) \cup {Void},
             NEW i \in 1..Len(ports[m][r]), BindPort(m, r, i, q)
      PROVE  IInv'
  <2>1. CASE Bindable(m, ports[m][r][i].slot, q)
    <3>1. q \in Queues
      BY <2>1 DEF Bindable, Offered
    <3>2. ports' = [ports EXCEPT ![m][r][i].slot = q]
      BY SMTT(30), <1>5, <2>1 DEF BindPort
    <3>3. PortsOK
      BY <2>1, <3>1, <3>2, SlotBound
    <3>4. QED BY <1>1, <1>5, <3>3, WireKeeps
  <2>2. CASE ~Bindable(m, ports[m][r][i].slot, q)
    <3>1. ports' = ports
      BY <1>5, <2>2 DEF BindPort
    <3>2. QED BY <1>1, <1>5, <3>1, PortsLeft, WireKeeps
  <2>3. QED BY <2>1, <2>2
<1>6. ASSUME NEW m \in Modules, NEW enabled \in BOOLEAN, SetRequireIOContract(m, enabled)
      PROVE  IInv'
  <2>1. ports' = ports
    BY <1>6 DEF SetRequireIOContract
  <2>2. QED BY <1>1, <1>6, <2>1, PortsLeft, WireKeeps
<1>7. ASSUME NEW m \in Modules, NEW q \in Queues, CreateOwnedQueue(m, q) PROVE IInv'
  <2>1. ports' = ports
    BY <1>7 DEF CreateOwnedQueue
  <2>2. QED BY <1>1, <1>7, <2>1, PortsLeft, OwnedKeeps
<1>8. ASSUME NEW m \in Modules, NEW c \in Modules, AddSubmodule(m, c) PROVE IInv'
  <2>1. ports' = ports
    BY <1>8 DEF AddSubmodule
  <2>2. QED BY <1>1, <1>8, <2>1, PortsLeft, SubmoduleKeeps
<1>9. ASSUME NEW x \in Modules \cup Plain, AddModule(x) PROVE IInv'
  <2>1. ports' = ports
    BY <1>9 DEF AddModule
  <2>2. QED BY <1>1, <1>9, <2>1, PortsLeft, RegisterKeeps
<1>10. CASE Build
  BY <1>1, <1>10, PortsLeft, BuildKeeps
<1>11. CASE UNCHANGED vars
  BY <1>11 DEF vars, IInv, TypeOK, OneRolePerQueue
<1>12. QED
  BY <1>3, <1>4, <1>5, <1>6, <1>7, <1>8, <1>9, <1>10, <1>11 DEF Next, Wire

(* The ports, links, owners and the call stack of a Build keep their types,   *)
(* whatever calls a program makes and wherever an assertion cuts a Build off *)
(* (module.hpp, sim_system.hpp).                                            *)
THEOREM WiringTypeCorrect == Spec => []TypeOK
<1>1. IInv => TypeOK
  BY DEF IInv
<1>2. QED BY <1>1, InitIInv, StepIInv, PTL DEF Spec

(* No queue plays two roles in one module (AssertRoleSlotBindable), however   *)
(* many ports are added, bound again or left behind by a refused bind.       *)
THEOREM QueueHasOneRole == Spec => []OneRolePerQueue
<1>1. IInv => OneRolePerQueue
  BY DEF IInv
<1>2. QED BY <1>1, InitIInv, StepIInv, PTL DEF Spec

-----------------------------------------------------------------------------
(***************************************************************************)
(* What lies below.                                                         *)
(***************************************************************************)
Links == [Modules -> SUBSET Objects]

LEMMA BelowHolds ==
  ASSUME NEW next \in Links, NEW S \in SUBSET Objects
  PROVE  /\ S \subseteq Below(S, next) /\ Below(S, next) \in SUBSET Objects
         /\ Closed(Below(S, next), next)
<1>1. S \subseteq Below(S, next) /\ Below(S, next) \in SUBSET Objects
  BY DEF Below
<1>2. ASSUME NEW m \in Below(S, next) \cap Modules, NEW x \in next[m] PROVE x \in Below(S, next)
  <2>1. x \in Objects
    BY DEF Links
  <2>2. ASSUME NEW C \in SUBSET Objects, S \subseteq C, Closed(C, next) PROVE x \in C
    <3>1. m \in C \cap Modules
      BY <2>2 DEF Below
    <3>2. QED BY <2>2, <3>1 DEF Closed
  <2>3. QED BY <2>1, <2>2 DEF Below
<1>3. QED BY <1>1, <1>2 DEF Closed

LEMMA BelowIsLeast ==
  ASSUME NEW next, NEW S, NEW C \in SUBSET Objects, S \subseteq C, Closed(C, next)
  PROVE  Below(S, next) \subseteq C
BY DEF Below

LEMMA BelowGrows ==
  ASSUME NEW next \in Links, NEW more \in Links, \A m \in Modules : next[m] \subseteq more[m],
         NEW T \in SUBSET Objects, NEW S \in SUBSET T
  PROVE  Below(S, next) \subseteq Below(T, more)
<1> DEFINE C == Below(T, more)
<1>1. T \subseteq C /\ C \in SUBSET Objects /\ Closed(C, more)
  BY BelowHolds
<1> HIDE DEF C
<1>2. S \subseteq C /\ Closed(C, next)
  BY <1>1 DEF Closed
<1>3. Below(S, next) \subseteq C
  BY <1>1, <1>2, BelowIsLeast
<1>4. QED BY <1>3 DEF C

LEMMA BelowTransitive ==
  ASSUME NEW next \in Links, NEW T \in SUBSET Objects, NEW S, S \subseteq Below(T, next)
  PROVE  Below(S, next) \subseteq Below(T, next)
BY BelowHolds, BelowIsLeast

(* An object below S is below one object of S, and is of S or linked to by a  *)
(* module below S.                                                          *)
LEMMA BelowSplits ==
  ASSUME NEW next \in Links, NEW S \in SUBSET Objects, NEW y \in Below(S, next)
  PROVE  /\ \E s \in S : y \in Below({s}, next)
         /\ y \in S \/ \E m \in Below(S, next) \cap Modules : y \in next[m]
<1>1. \E s \in S : y \in Below({s}, next)
  <2> DEFINE C == { x \in Objects : \E s \in S : x \in Below({s}, next) }
  <2>1. ASSUME NEW s \in S
        PROVE  /\ {s} \subseteq Below({s}, next) /\ Below({s}, next) \in SUBSET Objects
               /\ Closed(Below({s}, next), next)
    BY BelowHolds
  <2>2. S \subseteq C
    BY <2>1
  <2>3. Closed(C, next)
    <3>1. ASSUME NEW m \in C \cap Modules, NEW x \in next[m] PROVE x \in C
      <4>1. PICK s \in S : m \in Below({s}, next)
        OBVIOUS
      <4>2. x \in Below({s}, next)
        BY <2>1, <4>1 DEF Closed
      <4>3. QED BY <2>1, <4>2
    <3>2. QED BY <3>1 DEF Closed
  <2>4. C \in SUBSET Objects
    OBVIOUS
  <2>5. y \in C
    <3> HIDE DEF C
    <3>1. QED BY <2>2, <2>3, <2>4, BelowIsLeast
  <2>6. QED BY <2>5
<1>2. y \in S \/ \E m \in Below(S, next) \cap Modules : y \in next[m]
  <2> DEFINE B == Below(S, next)
             C == { x \in B : x \in S \/ \E m \in B \cap Modules : x \in next[m] }
  <2>1. S \subseteq B /\ B \in SUBSET Objects /\ Closed(B, next)
    BY BelowHolds
  <2> HIDE DEF B
  <2>2. S \subseteq C /\ C \in SUBSET Objects /\ Closed(C, next)
    BY <2>1 DEF Closed
  <2>3. y \in C
    <3> HIDE DEF C
    <3>1. QED BY <2>2, BelowIsLeast DEF B
  <2>4. QED BY <2>3 DEF B
<1>3. QED BY <1>1, <1>2

LEMMA BelowUnfolds ==
  ASSUME NEW next \in Links, NEW m \in Modules
  PROVE  Below({m}, next) = {m} \cup Below(next[m], next)
<1> DEFINE B == Below({m}, next)   C == {m} \cup Below(next[m], next)
<1>1. m \in Objects /\ next[m] \in SUBSET Objects
  BY DEF Objects, Links
<1>2. {m} \subseteq B /\ B \in SUBSET Objects /\ Closed(B, next)
  BY <1>1, BelowHolds
<1>3. /\ next[m] \subseteq Below(next[m], next) /\ Below(next[m], next) \in SUBSET Objects
      /\ Closed(Below(next[m], next), next)
  BY <1>1, BelowHolds
<1>4. C \in SUBSET Objects /\ {m} \subseteq C /\ Closed(C, next)
  BY <1>1, <1>3 DEF Closed
<1>5. B \subseteq C
  BY <1>4, BelowIsLeast
<1>6. next[m] \subseteq B
  BY <1>2 DEF Closed
<1>7. Below(next[m], next) \subseteq B
  BY <1>2, <1>6, BelowIsLeast
<1>8. QED BY <1>2, <1>5, <1>7

LEMMA BelowPlain ==
  ASSUME NEW next \in Links, NEW x \in Plain
  PROVE  Below({x}, next) = {x}
<1>1. {x} \in SUBSET Objects /\ Closed({x}, next)
  BY WiringConstants DEF Objects, Closed
<1>2. QED BY <1>1, BelowHolds, BelowIsLeast

-----------------------------------------------------------------------------
(***************************************************************************)
(* The submodules form a forest, and queues are used at or below the module   *)
(* that owns them.                                                          *)
(***************************************************************************)
Strict(m, next) == Below(next[m], next)
Acyclic(next)   == \A m \in Modules : m \notin Strict(m, next)
OneParent(next) == \A m, n \in Modules : next[m] \cap next[n] # {} => m = n

OwnersAbove ==
  \A m \in Modules : \A q \in Bound(m) :
    q \in Queues /\ owner[q] \in Modules /\ m \in Below({owner[q]}, SubmodulesOf)

TreeInv == Acyclic(SubmodulesOf) /\ OneParent(SubmodulesOf) /\ OwnersAbove

LEMMA SubmodulesAreLinks ==
  ASSUME TypeOK
  PROVE  SubmodulesOf \in Links
<1>1. submodules \in [Modules -> Seq(Modules)]
  BY DEF TypeOK
<1>2. \A m \in Modules : Members(submodules[m]) \in SUBSET Objects
  <2>1. ASSUME NEW m \in Modules PROVE Members(submodules[m]) \in SUBSET Objects
    <3>1. submodules[m] \in Seq(Modules)
      BY <1>1
    <3>2. \A i \in 1..Len(submodules[m]) : submodules[m][i] \in Modules
      BY <3>1
    <3>3. QED BY <3>2 DEF Members, Objects
  <2>2. QED BY <2>1
<1>3. QED BY <1>2 DEF SubmodulesOf, Links

LEMMA MembersAppended ==
  ASSUME NEW X, NEW s \in Seq(X), NEW x \in X
  PROVE  Members(Append(s, x)) = Members(s) \cup {x}
<1>1. /\ Len(Append(s, x)) = Len(s) + 1 /\ Append(s, x)[Len(s) + 1] = x /\ Len(s) \in Nat
      /\ \A i \in 1..Len(s) : Append(s, x)[i] = s[i]
  OBVIOUS
<1>2. 1..(Len(s) + 1) = 1..Len(s) \cup {Len(s) + 1}
  BY <1>1
<1>3. QED BY <1>1, <1>2 DEF Members

Linked(old, m, c, new) == new = [old EXCEPT ![m] = @ \cup {c}]

LEMMA LinkAdded ==
  ASSUME TypeOK, NEW m \in Modules, NEW c \in Modules, AddSubmodule(m, c)
  PROVE  Linked(SubmodulesOf, m, c, SubmodulesOf')
<1>1. submodules \in [Modules -> Seq(Modules)] /\ submodules[m] \in Seq(Modules)
  BY DEF TypeOK
<1>2. submodules' = [submodules EXCEPT ![m] = Append(@, c)]
  BY DEF AddSubmodule
<1>3. Members(Append(submodules[m], c)) = Members(submodules[m]) \cup {c}
  BY <1>1, MembersAppended
<1>4. \A x \in Modules : submodules'[x] = IF x = m THEN Append(submodules[m], c) ELSE submodules[x]
  BY <1>1, <1>2
<1>5. \A x \in Modules : Members(submodules'[x])
                           = IF x = m THEN Members(submodules[m]) \cup {c} ELSE Members(submodules[x])
  BY <1>3, <1>4
<1>6. QED BY <1>5 DEF SubmodulesOf, Linked

LEMMA LinkValues ==
  ASSUME NEW old \in Links, NEW m \in Modules, NEW c \in Modules,
         NEW new, Linked(old, m, c, new)
  PROVE  /\ new \in Links /\ new[m] = old[m] \cup {c}
         /\ \A x \in Modules : x # m => new[x] = old[x]
         /\ \A x \in Modules : old[x] \subseteq new[x]
<1>1. old[m] \cup {c} \in SUBSET Objects
  BY DEF Links, Objects
<1>2. QED BY <1>1 DEF Links, Linked

LEMMA LinksGrow ==
  ASSUME NEW old \in Links, NEW m \in Modules, NEW c \in Modules,
         NEW new, Linked(old, m, c, new)
  PROVE  /\ \A S \in SUBSET Objects : Below(S, old) \subseteq Below(S, new)
         /\ \A S \in SUBSET Objects :
              m \notin Below(S, old) => Below(S, new) = Below(S, old)
         /\ \A S \in SUBSET Objects : Below(S, new) \subseteq Below(S, old) \cup Below({c}, old)
<1>1. /\ new \in Links /\ \A x \in Modules : old[x] \subseteq new[x]
      /\ \A x \in Modules : x # m => new[x] = old[x]
      /\ new[m] = old[m] \cup {c}
  BY LinkValues
<1>2. ASSUME NEW S \in SUBSET Objects PROVE Below(S, old) \subseteq Below(S, new)
  BY <1>1, BelowGrows
<1>3. ASSUME NEW S \in SUBSET Objects, m \notin Below(S, old)
      PROVE  Below(S, new) = Below(S, old)
  <2>1. /\ S \subseteq Below(S, old) /\ Below(S, old) \in SUBSET Objects
        /\ Closed(Below(S, old), old)
    BY BelowHolds
  <2>2. Closed(Below(S, old), new)
    BY <1>1, <1>3, <2>1 DEF Closed
  <2>3. QED BY <1>2, <2>1, <2>2, BelowIsLeast
<1>4. ASSUME NEW S \in SUBSET Objects
      PROVE  Below(S, new) \subseteq Below(S, old) \cup Below({c}, old)
  <2> DEFINE A == Below(S, old)   B == Below({c}, old)
  <2>1. S \subseteq A /\ A \in SUBSET Objects /\ Closed(A, old)
    BY BelowHolds
  <2>2. {c} \subseteq B /\ B \in SUBSET Objects /\ Closed(B, old)
    <3>1. {c} \in SUBSET Objects
      BY DEF Objects
    <3>2. QED BY <3>1, BelowHolds
  <2> HIDE DEF A, B
  <2>3. Closed(A \cup B, new)
    <3>1. ASSUME NEW n \in (A \cup B) \cap Modules PROVE new[n] \subseteq A \cup B
      <4>1. old[n] \subseteq A \cup B /\ c \in B
        BY <2>1, <2>2 DEF Closed
      <4>2. new[n] \subseteq old[n] \cup {c}
        BY <1>1
      <4>3. QED BY <4>1, <4>2
    <3>2. QED BY <3>1 DEF Closed
  <2>4. Below(S, new) \subseteq A \cup B
    BY <2>1, <2>2, <2>3, BelowIsLeast
  <2>5. QED BY <2>4 DEF A, B
<1>5. QED BY <1>2, <1>3, <1>4

LEMMA AcyclicGrows ==
  ASSUME NEW old \in Links, NEW m \in Modules, NEW c \in Modules,
         NEW new, Linked(old, m, c, new),
         Acyclic(old), m \notin Below({c}, old)
  PROVE  Acyclic(new)
<1>1. /\ new \in Links /\ \A x \in Modules : old[x] \subseteq new[x]
      /\ \A x \in Modules : x # m => new[x] = old[x]
      /\ new[m] = old[m] \cup {c}
      /\ \A S \in SUBSET Objects : m \notin Below(S, old) => Below(S, new) = Below(S, old)
      /\ \A S \in SUBSET Objects : Below(S, new) \subseteq Below(S, old) \cup Below({c}, old)
  BY LinksGrow, LinkValues
<1>2. \A x \in Modules : old[x] \in SUBSET Objects /\ {x} \in SUBSET Objects /\ x \in Objects
  BY DEF Links, Objects
<1>3. SUFFICES ASSUME NEW y \in Modules, y \in Strict(y, new) PROVE FALSE
  BY DEF Acyclic
<1>4. y \notin Below(old[y], old)
  BY DEF Acyclic, Strict
<1>5. CASE y = m
  <2>1. m \notin Below(new[m], old)
    <3>1. new[m] \in SUBSET Objects
      BY <1>1 DEF Links
    <3>2. ASSUME m \in Below(new[m], old) PROVE FALSE
      <4>1. PICK s \in new[m] : m \in Below({s}, old)
        BY <3>1, <3>2, BelowSplits
      <4>2. s \in old[m]
        BY <1>1, <4>1
      <4>3. Below({s}, old) \subseteq Below(old[m], old)
        <5>1. old[m] \subseteq Below(old[m], old)
          BY <1>2, BelowHolds
        <5>2. QED BY <1>2, <4>2, <5>1, BelowTransitive
      <4>4. QED BY <1>4, <1>5, <4>1, <4>3
    <3>3. QED BY <3>2
  <2>2. new[m] \in SUBSET Objects
    BY <1>1 DEF Links
  <2>3. Below(new[m], new) = Below(new[m], old)
    BY <1>1, <2>1, <2>2
  <2>4. QED BY <1>3, <1>5, <2>1, <2>3 DEF Strict
<1>6. CASE y # m
  <2>1. y \in Below(old[y], new)
    BY <1>1, <1>3, <1>6 DEF Strict
  <2>2. m \in Below(old[y], old)
    BY <1>1, <1>2, <1>4, <2>1
  <2>3. y \in Below({c}, old)
    BY <1>1, <1>2, <1>4, <2>1
  <2>4. Below({y}, old) \subseteq Below({c}, old)
    BY <1>2, <2>3, BelowTransitive
  <2>5. Below(old[y], old) \subseteq Below({y}, old)
    BY BelowUnfolds
  <2>6. QED BY <2>2, <2>4, <2>5
<1>7. QED BY <1>5, <1>6

(* What a step may do to the links and to the owners.                        *)
LEMMA StepLinks ==
  ASSUME TypeOK, [Next]_vars
  PROVE  /\ submodules' = submodules \/ \E m, c \in Modules : AddSubmodule(m, c)
         /\ \A q \in Queues : owner[q] # Void => owner'[q] = owner[q]
<1>1. ASSUME NEW m \in Modules, NEW q \in Queues, CreateOwnedQueue(m, q)
      PROVE  /\ submodules' = submodules
             /\ \A x \in Queues : owner[x] # Void => owner'[x] = owner[x]
  <2>1. owner \in [Queues -> Modules \cup {Void}] /\ owner' = [owner EXCEPT ![q] = m] /\ owner[q] = Void
    BY <1>1 DEF TypeOK, CreateOwnedQueue
  <2>2. QED BY <1>1, <2>1 DEF CreateOwnedQueue
<1>2. CASE Build
  BY <1>2 DEF Build, StartSystemBuild, FinishSystemBuild, EnterBuild, StartModuleBuild,
              LeaveBuildSelf, FinishBuild
<1>3. ASSUME NEW m \in Modules, NEW c \in Modules, AddSubmodule(m, c)
      PROVE  owner' = owner
  BY <1>3 DEF AddSubmodule
<1>4. ASSUME NEW x \in Modules \cup Plain, AddModule(x) PROVE submodules' = submodules /\ owner' = owner
  BY <1>4 DEF AddModule
<1>5. ASSUME NEW m \in Modules,
             \/ \E r \in Roles, complete \in BOOLEAN : DescribePort(m, r, complete)
             \/ \E r \in Roles, q \in Offered(m) \cup {Void} :
                  \/ AddPort(m, r, q)
                  \/ \E i \in 1..Len(ports[m][r]) : BindPort(m, r, i, q)
             \/ \E enabled \in BOOLEAN : SetRequireIOContract(m, enabled)
      PROVE  submodules' = submodules /\ owner' = owner
  BY <1>5 DEF DescribePort, AddPort, BindPort, SetRequireIOContract
<1>6. CASE UNCHANGED vars
  BY <1>6 DEF vars
<1>7. QED BY <1>1, <1>2, <1>3, <1>4, <1>5, <1>6 DEF Next, Wire

(* A port call binds nothing but a queue offered to its module.              *)
LEMMA BoundAfter ==
  ASSUME TypeOK, [Next]_vars, NEW n \in Modules, NEW q \in Bound(n)'
  PROVE  q \in Bound(n) \/ (q \in Offered(n) /\ submodules' = submodules)
<1>1. ports \in [Modules -> [Roles -> Seq(Port)]]
  BY DEF TypeOK
<1>2. PICK s \in Roles : \E i \in 1..Len(ports'[n][s]) : ports'[n][s][i].slot = q /\ q # Void
  BY DEF Bound, Declared, Members
<1>3. PICK i \in 1..Len(ports'[n][s]) : ports'[n][s][i].slot = q /\ q # Void
  BY <1>2
<1>4. \A k \in 1..Len(ports[n][s]) : ports[n][s][k].slot = q => q \in Bound(n)
  BY <1>3 DEF Bound, Declared, Members
<1>5. CASE ports' = ports
  BY <1>3, <1>4, <1>5
<1>6. ASSUME NEW m \in Modules, NEW r \in Roles, NEW x, x.slot = q => q \in Offered(m),
             ports' = [ports EXCEPT ![m][r] = Append(@, x)], submodules' = submodules
      PROVE  q \in Bound(n) \/ (q \in Offered(n) /\ submodules' = submodules)
  <2>1. CASE n = m /\ s = r
    <3>1. ports'[n][s] = Append(ports[n][s], x) /\ ports[n][s] \in Seq(Port)
      BY <1>1, <1>6, <2>1
    <3>2. \/ i \in 1..Len(ports[n][s]) /\ ports'[n][s][i] = ports[n][s][i]
          \/ ports'[n][s][i] = x
      BY <3>1
    <3>3. QED BY <1>3, <1>4, <1>6, <2>1, <3>2
  <2>2. CASE ~(n = m /\ s = r)
    <3>1. ports'[n][s] = ports[n][s]
      BY <1>1, <1>6, <2>2
    <3>2. QED BY <1>3, <1>4, <3>1
  <2>3. QED BY <2>1, <2>2
<1>7. ASSUME NEW m \in Modules, NEW r \in Roles, NEW x \in Offered(m), NEW k \in 1..Len(ports[m][r]),
             ports' = [ports EXCEPT ![m][r][k].slot = x], submodules' = submodules
      PROVE  q \in Bound(n) \/ (q \in Offered(n) /\ submodules' = submodules)
  <2>1. CASE n = m /\ s = r
    <3>1. ports'[n][s] = [ports[n][s] EXCEPT ![k].slot = x] /\ ports[n][s] \in Seq(Port)
      BY <1>1, <1>7, <2>1
    <3>2. /\ i \in 1..Len(ports[n][s])
          /\ ports'[n][s][i] = IF i = k THEN [ports[n][s][k] EXCEPT !.slot = x] ELSE ports[n][s][i]
      BY <1>7, <2>1, <3>1
    <3>3. ports[n][s][k] \in Port
      BY <1>7, <2>1, <3>1
    <3>4. CASE i = k
      <4>1. ports'[n][s][i].slot = x
        BY <3>2, <3>3, <3>4 DEF Port
      <4>2. QED BY <1>3, <1>7, <2>1, <4>1
    <3>5. CASE i # k
      BY <1>3, <1>4, <3>2, <3>5
    <3>6. QED BY <3>4, <3>5
  <2>2. CASE ~(n = m /\ s = r)
    <3>1. ports'[n][s] = ports[n][s]
      BY <1>1, <1>7, <2>2
    <3>2. QED BY <1>3, <1>4, <3>1
  <2>3. QED BY <2>1, <2>2
<1>8. \A complete : NewPort(complete).slot = Void
  BY DEF NewPort
<1>9. ASSUME NEW m \in Modules, NEW r \in Roles, NEW complete \in BOOLEAN, DescribePort(m, r, complete)
      PROVE  q \in Bound(n) \/ (q \in Offered(n) /\ submodules' = submodules)
  BY <1>3, <1>6, <1>8, <1>9 DEF DescribePort
<1>10. ASSUME NEW m \in Modules, NEW r \in Roles, NEW x \in Offered(m) \cup {Void}, AddPort(m, r, x)
       PROVE  q \in Bound(n) \/ (q \in Offered(n) /\ submodules' = submodules)
  <2>1. CASE Bindable(m, Void, x)
    <3>1. [NewPort(TRUE) EXCEPT !.slot = x].slot = x /\ x \in Offered(m)
      BY <2>1 DEF NewPort, Bindable
    <3>2. QED BY <1>6, <1>10, <2>1, <3>1 DEF AddPort
  <2>2. CASE ~Bindable(m, Void, x)
    BY <1>3, <1>6, <1>8, <1>10, <2>2 DEF AddPort
  <2>3. QED BY <2>1, <2>2
<1>11. ASSUME NEW m \in Modules, NEW r \in Roles, NEW x \in Offered(m) \cup {Void},
              NEW k \in 1..Len(ports[m][r]), BindPort(m, r, k, x)
       PROVE  q \in Bound(n) \/ (q \in Offered(n) /\ submodules' = submodules)
  <2>1. CASE Bindable(m, ports[m][r][k].slot, x)
    <3>1. x \in Offered(m)
      BY <2>1 DEF Bindable
    <3>2. QED BY <1>7, <1>11, <2>1, <3>1 DEF BindPort
  <2>2. CASE ~Bindable(m, ports[m][r][k].slot, x)
    BY <1>5, <1>11, <2>2 DEF BindPort
  <2>3. QED BY <2>1, <2>2
<1>12. ASSUME NEW m \in Modules,
              \/ \E enabled \in BOOLEAN : SetRequireIOContract(m, enabled)
              \/ \E x \in Queues : CreateOwnedQueue(m, x)
              \/ \E c \in Modules : AddSubmodule(m, c)
       PROVE  ports' = ports
  BY <1>12 DEF SetRequireIOContract, CreateOwnedQueue, AddSubmodule
<1>13. Build \/ (\E x \in Modules \cup Plain : AddModule(x)) \/ UNCHANGED vars => ports' = ports
  BY DEF Build, StartSystemBuild, FinishSystemBuild, EnterBuild, StartModuleBuild,
         LeaveBuildSelf, FinishBuild, AddModule, vars
<1>14. QED BY <1>5, <1>9, <1>10, <1>11, <1>12, <1>13 DEF Next, Wire

LEMMA ParentsAndLinks ==
  ASSUME NEW m \in Modules, NEW x \in Modules
  PROVE  x \in Parents(m) <=> m \in SubmodulesOf[x]
BY DEF Parents, SubmodulesOf

LEMMA InitTree == Init => TreeInv
<1> SUFFICES ASSUME Init PROVE TreeInv
  OBVIOUS
<1>1. \A m \in Modules : SubmodulesOf[m] = {}
  BY DEF Init, SubmodulesOf, Members
<1>2. \A m \in Modules : Bound(m) = {}
  BY DEF Init, Bound, Declared, Members
<1>3. Acyclic(SubmodulesOf)
  <2>1. Closed({}, SubmodulesOf) /\ {} \in SUBSET Objects
    BY DEF Closed
  <2>2. Below({}, SubmodulesOf) = {}
    BY <2>1, BelowIsLeast
  <2>3. QED BY <1>1, <2>2 DEF Acyclic, Strict
<1>4. QED BY <1>1, <1>2, <1>3 DEF TreeInv, OneParent, OwnersAbove

LEMMA StepTree ==
  ASSUME TypeOK, TypeOK', TreeInv, [Next]_vars
  PROVE  TreeInv'
<1>1. PICK old : old = SubmodulesOf
  OBVIOUS
<1>2. PICK new : new = SubmodulesOf'
  OBVIOUS
<1>3. old \in Links /\ Acyclic(old) /\ OneParent(old)
  BY <1>1, SubmodulesAreLinks DEF TreeInv
<1>4. /\ new \in Links /\ \A S \in SUBSET Objects : Below(S, old) \subseteq Below(S, new)
      /\ Acyclic(new) /\ OneParent(new)
  <2>1. CASE submodules' = submodules
    <3>1. new = old
      BY <1>1, <1>2, <2>1 DEF SubmodulesOf
    <3>2. QED BY <1>3, <3>1
  <2>2. ASSUME NEW m \in Modules, NEW c \in Modules, AddSubmodule(m, c)
        PROVE  /\ new \in Links /\ \A S \in SUBSET Objects : Below(S, old) \subseteq Below(S, new)
               /\ Acyclic(new) /\ OneParent(new)
    <3>1. Linked(old, m, c, new)
      BY <1>1, <1>2, <2>2, LinkAdded
    <3>2. m \notin Below({c}, old) /\ \A x \in Modules : c \notin old[x]
      BY <1>1, <2>2, ParentsAndLinks DEF AddSubmodule
    <3>3. /\ new \in Links /\ \A S \in SUBSET Objects : Below(S, old) \subseteq Below(S, new)
          /\ \A x \in Modules : x # m => new[x] = old[x]
          /\ new[m] = old[m] \cup {c}
      <4>1. old \in Links /\ m \in Modules /\ c \in Modules
        BY <1>3
      <4>2. \A S \in SUBSET Objects : Below(S, old) \subseteq Below(S, new)
        BY <3>1, <4>1, LinksGrow
      <4>3. /\ new \in Links /\ new[m] = old[m] \cup {c}
            /\ \A x \in Modules : x # m => new[x] = old[x]
        BY <3>1, <4>1, LinkValues
      <4>4. QED BY <4>2, <4>3
    <3>4. Acyclic(new)
      BY <1>3, <3>1, <3>2, AcyclicGrows
    <3>5. OneParent(new)
      BY <1>3, <3>2, <3>3 DEF OneParent
    <3>6. QED BY <3>3, <3>4, <3>5
  <2>3. QED BY <2>1, <2>2, StepLinks
<1>5. ASSUME NEW n \in Modules, NEW q \in Bound(n)'
      PROVE  q \in Queues /\ owner'[q] \in Modules /\ n \in Below({owner'[q]}, new)
  <2>1. \A x \in Modules : {x} \in SUBSET Objects
    BY DEF Objects
  <2>2. ASSUME NEW x \in Modules, NEW z \in Bound(x)
        PROVE  z \in Queues /\ owner[z] \in Modules /\ x \in Below({owner[z]}, old)
    BY <1>1 DEF TreeInv, OwnersAbove
  <2>3. q \in Queues /\ owner[q] \in Modules /\ n \in Below({owner[q]}, old)
    <3>1. CASE q \in Bound(n)
      BY <2>2, <3>1
    <3>2. CASE q \in Offered(n)
      <4>1. PICK x \in {n} \cup Parents(n) : owner[q] = x \/ q \in Bound(x)
        BY <3>2 DEF Offered
      <4>2. x \in Modules /\ q \in Queues
        BY <3>2 DEF Parents, Offered
      <4>3. n \in Below({x}, old)
        <5>1. {x} \subseteq Below({x}, old) /\ Closed(Below({x}, old), old)
          BY <1>3, <2>1, <4>2, BelowHolds
        <5>2. CASE x = n
          BY <5>1, <5>2
        <5>3. CASE x \in Parents(n)
          <6>1. n \in old[x]
            BY <1>1, <4>2, <5>3, ParentsAndLinks
          <6>2. QED BY <4>2, <5>1, <6>1 DEF Closed
        <5>4. QED BY <4>1, <5>2, <5>3
      <4>4. CASE owner[q] = x
        BY <4>2, <4>3, <4>4
      <4>5. CASE q \in Bound(x)
        <5>1. owner[q] \in Modules /\ x \in Below({owner[q]}, old)
          BY <2>2, <4>2, <4>5
        <5>2. Below({x}, old) \subseteq Below({owner[q]}, old)
          BY <1>3, <2>1, <5>1, BelowTransitive
        <5>3. QED BY <4>2, <4>3, <5>1, <5>2
      <4>6. QED BY <4>1, <4>4, <4>5
    <3>3. QED BY <3>1, <3>2, BoundAfter
  <2>4. owner'[q] = owner[q]
    <3>1. owner[q] # Void
      BY <2>3, WiringConstants
    <3>2. QED BY <2>3, <3>1, StepLinks
  <2>5. QED BY <1>4, <2>1, <2>3, <2>4
<1>6. OwnersAbove'
  BY <1>2, <1>5 DEF OwnersAbove
<1>7. QED BY <1>2, <1>4, <1>6 DEF TreeInv

-----------------------------------------------------------------------------
(***************************************************************************)
(* The runtime.  What was made in order is attached when it is made, and      *)
(* whatever loses the runtime again was not made in order.                   *)
(***************************************************************************)
AttachInv ==
  /\ Members(top) \ early \subseteq attached
  /\ \A m \in Modules : Members(submodules[m]) \ early \subseteq attached
  /\ \A q \in Queues \ early : owner[q] # Void => q \in attached

LEMMA MembersTyped ==
  ASSUME TypeOK
  PROVE  /\ Members(top) \in SUBSET Objects
         /\ \A m \in Modules : Members(submodules[m]) \in SUBSET Modules
<1>1. top \in Seq(Modules \cup Plain) /\ submodules \in [Modules -> Seq(Modules)]
  BY DEF TypeOK
<1>2. ASSUME NEW X, NEW s \in Seq(X) PROVE Members(s) \in SUBSET X
  BY DEF Members
<1>3. QED BY <1>1, <1>2 DEF Objects

LEMMA PunctualAttached ==
  ASSUME TypeOK, AttachInv
  PROVE  Punctual \subseteq attached
<1> DEFINE C == attached \cap Objects
<1>1. Members(top) \ early \subseteq C
  BY MembersTyped DEF AttachInv
<1>2. Closed(C, PunctualChildren)
  BY MembersTyped DEF Closed, PunctualChildren, AttachInv, Objects
<1> HIDE DEF C
<1>3. Punctual \subseteq C
  <2>1. C \in SUBSET Objects
    BY DEF C
  <2>2. QED BY <1>1, <1>2, <2>1, BelowIsLeast DEF Punctual
<1>4. QED BY <1>3 DEF C

LEMMA StepAttach ==
  ASSUME TypeOK, AttachInv, [Next]_vars
  PROVE  AttachInv'
<1>1. Punctual \subseteq attached
  BY PunctualAttached
<1>2. CASE UNCHANGED <<submodules, owner, top, attached, early>>
  BY <1>2 DEF AttachInv
<1>3. ASSUME NEW m \in Modules, NEW q \in Queues, CreateOwnedQueue(m, q) PROVE AttachInv'
  <2>1. /\ owner \in [Queues -> Modules \cup {Void}] /\ owner' = [owner EXCEPT ![q] = m]
        /\ top' = top /\ submodules' = submodules
    BY <1>3 DEF TypeOK, CreateOwnedQueue
  <2>2. /\ attached' = IF m \in attached THEN attached \cup {q} ELSE attached \ {q}
        /\ early' = IF m \in Punctual THEN early ELSE early \cup {q}
    BY <1>3 DEF CreateOwnedQueue, AttachAs, NoteEarly
  <2>3. \A x : x \in attached /\ x \notin early' => x \in attached'
    BY <1>1, <2>2
  <2>4. q \notin early' => q \in attached'
    BY <1>1, <2>2
  <2>5. \A x \in Queues : x # q => owner'[x] = owner[x]
    BY <2>1
  <2>6. early \subseteq early'
    BY <2>2
  <2>7. QED BY <2>1, <2>3, <2>4, <2>5, <2>6 DEF AttachInv
<1>4. ASSUME NEW m \in Modules, NEW c \in Modules, AddSubmodule(m, c) PROVE AttachInv'
  <2>1. /\ submodules \in [Modules -> Seq(Modules)]
        /\ submodules' = [submodules EXCEPT ![m] = Append(@, c)]
        /\ top' = top /\ owner' = owner
    BY <1>4 DEF TypeOK, AddSubmodule
  <2>2. /\ attached' = IF m \in attached THEN attached \cup {c} ELSE attached \ {c}
        /\ early' = IF m \in Punctual THEN early ELSE early \cup {c}
    BY <1>4 DEF AddSubmodule, AttachAs, NoteEarly
  <2>3. \A x : x \in attached /\ x \notin early' => x \in attached'
    BY <1>1, <2>2
  <2>4. c \notin early' => c \in attached'
    BY <1>1, <2>2
  <2>5. ASSUME NEW x \in Modules PROVE Members(submodules'[x]) \subseteq Members(submodules[x]) \cup {c}
    <3>1. submodules[x] \in Seq(Modules) /\ submodules'[x] \in {submodules[x], Append(submodules[x], c)}
      BY <2>1
    <3>2. Members(Append(submodules[x], c)) = Members(submodules[x]) \cup {c}
      BY <3>1, MembersAppended
    <3>3. QED BY <3>1, <3>2
  <2>6. early \subseteq early'
    BY <2>2
  <2>7. QED BY <2>1, <2>3, <2>4, <2>5, <2>6 DEF AttachInv
<1>5. ASSUME NEW x \in Modules \cup Plain, AddModule(x) PROVE AttachInv'
  <2>1. /\ top \in Seq(Modules \cup Plain) /\ top' = Append(top, x)
        /\ attached' = attached \cup {x} /\ UNCHANGED <<submodules, owner, early>>
    BY <1>5 DEF TypeOK, AddModule
  <2>2. Members(top') = Members(top) \cup {x}
    BY <2>1, MembersAppended
  <2>3. QED BY <2>1, <2>2 DEF AttachInv
<1>6. ASSUME NEW m \in Modules,
             \/ \E r \in Roles, complete \in BOOLEAN : DescribePort(m, r, complete)
             \/ \E r \in Roles, q \in Offered(m) \cup {Void} :
                  \/ AddPort(m, r, q)
                  \/ \E i \in 1..Len(ports[m][r]) : BindPort(m, r, i, q)
             \/ \E enabled \in BOOLEAN : SetRequireIOContract(m, enabled)
      PROVE  UNCHANGED <<submodules, owner, top, attached, early>>
  BY <1>6 DEF DescribePort, AddPort, BindPort, SetRequireIOContract
<1>7. Build \/ UNCHANGED vars => UNCHANGED <<submodules, owner, top, attached, early>>
  BY DEF Build, StartSystemBuild, FinishSystemBuild, EnterBuild, StartModuleBuild,
         LeaveBuildSelf, FinishBuild, vars
<1>8. QED BY <1>2, <1>3, <1>4, <1>5, <1>6, <1>7 DEF Next, Wire

(* AttachRuntime() is called once, when an object is made: for everything     *)
(* made from the registered modules down that is enough, for any number of    *)
(* modules and queues.                                                      *)
THEOREM RuntimeReachesAll == Spec => []RuntimeReaches
<1>1. Init => AttachInv
  BY DEF Init, AttachInv, Members
<1>2. IInv /\ AttachInv /\ [Next]_vars => AttachInv'
  BY StepAttach DEF IInv
<1>3. IInv /\ AttachInv => RuntimeReaches
  <2> SUFFICES ASSUME TypeOK, AttachInv PROVE RuntimeReaches
    BY DEF IInv
  <2>1. Punctual \subseteq attached
    BY PunctualAttached
  <2>2. Void \notin Punctual
    BY WiringConstants DEF Punctual, Below, Objects
  <2>3. QED BY <2>1, <2>2 DEF RuntimeReaches, AttachInv
<1>4. QED BY <1>1, <1>2, <1>3, InitIInv, StepIInv, PTL DEF Spec

-----------------------------------------------------------------------------
(***************************************************************************)
(* The report.  The recursion of CollectValidationIssues() ends because no   *)
(* module is below itself, and then has visited what is below.              *)
(***************************************************************************)
LEMMA NatHasMinimum ==
  ASSUME NEW T \in SUBSET Nat, T # {}
  PROVE  \E m \in T : \A n \in T : m <= n
<1> DEFINE R == OpToRel(<, Nat)
<1>1. \E m \in T : \A n \in T : ~ (<<n, m>> \in R)
  BY NatLessThanWellFounded, WFMin
<1>2. \A m, n \in Nat : ~ (<<n, m>> \in R) => m <= n
  BY DEF OpToRel
<1>3. QED BY <1>1, <1>2

LEMMA AccusesItself ==
  ASSUME NEW m \in Modules
  PROVE  /\ \A e \in OwnIssues(m) : e.on = m
         /\ OwnIssues(m) # {} <=> Faulty(m)
<1>1. \A what : Issue(m, what).on = m
  BY DEF Issue
<1>2. \A e \in OwnIssues(m) : e.on = m
  BY <1>1 DEF OwnIssues, ContractIssues, PortIssues
<1>3. ASSUME Faulty(m) PROVE OwnIssues(m) # {}
  <2>1. ASSUME NEW r \in Roles, NEW p \in Members(ports[m][r]), p.slot = Void \/ ~p.complete
        PROVE  OwnIssues(m) # {}
    <3>1. PortIssues(m, r) # {}
      BY <2>1 DEF PortIssues
    <3>2. PortIssues(m, r) \subseteq OwnIssues(m)
      BY DEF OwnIssues
    <3>3. QED BY <3>1, <3>2
  <2>2. ASSUME m \notin relaxed, ports[m]["input"] = << >> \/ ports[m]["output"] = << >>
        PROVE  OwnIssues(m) # {}
    <3>1. ContractIssues(m) # {}
      BY <2>2 DEF ContractIssues
    <3>2. QED BY <3>1 DEF OwnIssues
  <2>3. QED BY <1>3, <2>1, <2>2 DEF Faulty, Declared
<1>4. ASSUME OwnIssues(m) # {} PROVE Faulty(m)
  BY <1>4 DEF Faulty, OwnIssues, ContractIssues, PortIssues, Declared, Roles
<1>5. QED BY <1>2, <1>3, <1>4

(* The recursion, down to a depth.                                           *)
Visit(own, next, deeper) ==
  [m \in Modules |-> own[m] \cup UNION { deeper[c] : c \in next[m] }]
Collects(f, own, next, last) ==
  f = [depth \in 0..last |-> IF depth = 0 THEN own ELSE Visit(own, next, f[depth - 1])]

LEMMA CollectsExists ==
  ASSUME NEW own, NEW next, NEW last \in Nat
  PROVE  \E f : Collects(f, own, next, last)
<1> DEFINE T == { n \in Nat : ~ \E f : Collects(f, own, next, n) }
<1>1. SUFFICES ASSUME T # {} PROVE FALSE
  OBVIOUS
<1>2. PICK n \in T : \A k \in T : n <= k
  <2>1. T \in SUBSET Nat
    OBVIOUS
  <2>2. QED BY <1>1, <2>1, NatHasMinimum
<1>3. n # 0
  <2>1. Collects([k \in 0..0 |-> own], own, next, 0)
    BY DEF Collects
  <2>2. QED BY <1>2, <2>1
<1>4. n \in Nat /\ n - 1 \in Nat /\ n - 1 \notin T
  BY <1>2, <1>3
<1>5. PICK g : Collects(g, own, next, n - 1)
  BY <1>4
<1> DEFINE h == [k \in 0..n |-> IF k = n THEN Visit(own, next, g[n - 1]) ELSE g[k]]
<1>6. ASSUME NEW k \in 0..n
      PROVE  h[k] = IF k = 0 THEN own ELSE Visit(own, next, h[k - 1])
  <2>1. CASE k = n
    <3>1. n - 1 \in 0..n /\ n - 1 # n
      BY <1>4
    <3>2. h[n - 1] = g[n - 1]
      BY <3>1
    <3>3. h[n] = Visit(own, next, g[n - 1])
      BY <1>4
    <3>4. QED BY <1>3, <2>1, <3>2, <3>3
  <2>2. CASE k # n
    <3>1. k \in 0..(n - 1)
      BY <1>4, <2>2
    <3>2. h[k] = g[k] /\ (k # 0 => k - 1 \in 0..n /\ k - 1 # n)
      BY <1>4, <2>2, <3>1
    <3>3. k # 0 => h[k - 1] = g[k - 1]
      BY <3>2
    <3>4. g[k] = IF k = 0 THEN own ELSE Visit(own, next, g[k - 1])
      BY <1>5, <3>1 DEF Collects
    <3>5. QED BY <3>2, <3>3, <3>4
  <2>3. QED BY <2>1, <2>2
<1>7. Collects(h, own, next, n)
  <2>1. h = [k \in 0..n |-> h[k]]
    OBVIOUS
  <2> HIDE DEF h
  <2>2. QED BY <1>6, <2>1 DEF Collects
<1>8. QED BY <1>2, <1>7

(* Down to the number of modules, the recursion visits all that is below.    *)
LEMMA CollectsAll ==
  ASSUME NEW next \in [Modules -> SUBSET Modules], Acyclic(next),
         NEW own, own = [m \in Modules |-> own[m]],
         NEW f, Collects(f, own, next, Cardinality(Modules)), NEW x \in Modules
  PROVE  f[Cardinality(Modules)][x] = UNION { own[y] : y \in Below({x}, next) }
<1> DEFINE N == Cardinality(Modules)
           B(m) == Below({m}, next)
           All(m) == UNION { own[y] : y \in B(m) }
           T == { d \in 0..N : \E m \in Modules : Cardinality(B(m)) <= d + 1 /\ f[d][m] # All(m) }
<1>1. IsFiniteSet(Modules) /\ N \in Nat
  BY WiringConstants, FS_CardinalityType
<1>2. next \in Links
  BY DEF Links, Objects
<1>3. ASSUME NEW m \in Modules
      PROVE  /\ m \in B(m) /\ B(m) \in SUBSET Modules
             /\ B(m) = {m} \cup UNION { B(c) : c \in next[m] }
  <2>1. {m} \in SUBSET Objects /\ Modules \in SUBSET Objects /\ Closed(Modules, next)
    BY DEF Objects, Closed
  <2>2. {m} \subseteq B(m) /\ B(m) \subseteq Modules /\ Closed(B(m), next)
    BY <1>2, <2>1, BelowHolds, BelowIsLeast
  <2>3. ASSUME NEW c \in next[m] PROVE B(c) \subseteq B(m)
    <3>1. {c} \subseteq B(m)
      BY <2>2 DEF Closed
    <3>2. QED BY <1>2, <2>1, <3>1, BelowTransitive
  <2>4. ASSUME NEW y \in B(m), y # m PROVE \E c \in next[m] : y \in B(c)
    <3>1. y \in Below(next[m], next)
      BY <1>2, <2>4, BelowUnfolds
    <3>2. next[m] \in SUBSET Objects
      BY <1>2 DEF Links
    <3>3. QED BY <1>2, <3>1, <3>2, BelowSplits
  <2> HIDE DEF B
  <2>5. QED BY <2>2, <2>3, <2>4
<1>4. ASSUME NEW m \in Modules, NEW c \in next[m]
      PROVE  c \in Modules /\ Cardinality(B(c)) < Cardinality(B(m))
  <2>1. c \in Modules
    OBVIOUS
  <2>2. m \notin B(c)
    <3>1. ASSUME m \in B(c) PROVE FALSE
      <4>1. next[m] \in SUBSET Objects
        BY <1>2 DEF Links
      <4>2. {c} \subseteq Below(next[m], next)
        BY <1>2, <4>1, BelowHolds
      <4>3. B(c) \subseteq Below(next[m], next)
        BY <1>2, <4>1, <4>2, BelowTransitive
      <4>4. QED BY <3>1, <4>3 DEF Acyclic, Strict
    <3>2. QED BY <3>1
  <2>3. B(c) \subseteq B(m) /\ m \in B(m) /\ B(m) \in SUBSET Modules
    BY <1>3
  <2> HIDE DEF B
  <2>4. IsFiniteSet(B(m)) /\ B(c) # B(m)
    BY <1>1, <2>2, <2>3, FS_Subset
  <2>5. IsFiniteSet(B(c)) /\ Cardinality(B(c)) <= Cardinality(B(m))
        /\ Cardinality(B(c)) # Cardinality(B(m))
    BY <2>3, <2>4, FS_Subset
  <2>6. Cardinality(B(c)) \in Nat /\ Cardinality(B(m)) \in Nat
    BY <2>4, <2>5, FS_CardinalityType
  <2>7. QED BY <2>1, <2>5, <2>6
<1>5. ASSUME NEW m \in Modules
      PROVE  Cardinality(B(m)) \in Nat /\ Cardinality(B(m)) <= N
  <2>1. B(m) \in SUBSET Modules
    BY <1>3
  <2> HIDE DEF B
  <2>2. QED BY <1>1, <2>1, FS_Subset, FS_CardinalityType
<1>6. \A d \in 0..N : f[d] = IF d = 0 THEN own ELSE Visit(own, next, f[d - 1])
  BY DEF Collects
<1>7. ASSUME NEW m \in Modules
      PROVE  All(m) = own[m] \cup UNION { All(c) : c \in next[m] }
  <2>1. B(m) = {m} \cup UNION { B(c) : c \in next[m] }
    BY <1>3
  <2> HIDE DEF B
  <2>2. QED BY <2>1
<1>8. ASSUME T # {} PROVE FALSE
  <2>1. PICK d \in T : \A k \in T : d <= k
    <3>1. T \in SUBSET Nat
      BY <1>1
    <3> HIDE DEF T
    <3>2. QED BY <1>8, <3>1, NatHasMinimum
  <2>2. PICK m \in Modules : Cardinality(B(m)) <= d + 1 /\ f[d][m] # All(m)
    BY <2>1
  <2>3. d \in 0..N /\ d \in Nat
    BY <1>1, <2>1
  <2> HIDE DEF B, All
  <2>4. CASE d = 0
    <3>1. next[m] = {}
      <4>1. ASSUME NEW c \in next[m] PROVE FALSE
        <5>1. c \in Modules /\ Cardinality(B(c)) < 1
          BY <1>4, <1>5, <2>2, <2>4
        <5>2. Cardinality(B(c)) = 0
          BY <1>5, <5>1
        <5>3. IsFiniteSet(B(c)) /\ B(c) # {}
          BY <1>1, <1>3, <5>1, FS_Subset
        <5>4. QED BY <5>2, <5>3, FS_EmptySet
      <4>2. QED BY <4>1
    <3>2. All(m) = own[m]
      <4>1. All(m) = own[m] \cup UNION { All(c) : c \in next[m] }
        BY <1>7
      <4>2. UNION { All(c) : c \in next[m] } = {}
        BY <3>1
      <4>3. QED BY <4>1, <4>2
    <3>3. f[0] = own
      BY <1>6, <2>3, <2>4
    <3>4. QED BY <2>2, <2>4, <3>2, <3>3
  <2>5. CASE d # 0
    <3>1. d - 1 \in 0..N /\ d - 1 \notin T
      BY <1>1, <2>1, <2>3, <2>5
    <3>2. ASSUME NEW c \in next[m] PROVE f[d - 1][c] = All(c)
      <4>1. c \in Modules /\ Cardinality(B(c)) < Cardinality(B(m))
        BY <1>4
      <4>2. Cardinality(B(c)) <= (d - 1) + 1
        BY <1>5, <2>2, <2>3, <4>1
      <4>3. QED BY <3>1, <4>1, <4>2
    <3>3. f[d][m] = own[m] \cup UNION { f[d - 1][c] : c \in next[m] }
      <4>1. f[d] = Visit(own, next, f[d - 1])
        BY <1>6, <2>3, <2>5
      <4>2. Visit(own, next, f[d - 1])[m] = own[m] \cup UNION { f[d - 1][c] : c \in next[m] }
        BY DEF Visit
      <4>3. QED BY Zenon, <4>1, <4>2
    <3>4. QED BY <1>7, <2>2, <3>2, <3>3
  <2>6. QED BY <2>4, <2>5
<1>9. f[N][x] = All(x)
  <2>1. N \in 0..N
    BY <1>1
  <2>2. Cardinality(B(x)) <= N + 1
    <3>1. Cardinality(B(x)) \in Nat /\ Cardinality(B(x)) <= N
      BY <1>5
    <3> HIDE DEF B, N
    <3>2. QED BY <1>1, <3>1
  <2>3. ASSUME f[N][x] # All(x) PROVE FALSE
    <3> HIDE DEF B, All, N
    <3>1. N \in T
      BY <2>1, <2>2, <2>3
    <3> HIDE DEF T
    <3>2. QED BY <3>1, <1>8
  <2>4. QED BY <2>3
<1>10. QED BY <1>9

LEMMA CollectIssuesMeans ==
  ASSUME TypeOK, Acyclic(SubmodulesOf), NEW x \in Modules
  PROVE  CollectIssues(x) = UNION { OwnIssues(y) : y \in Below({x}, SubmodulesOf) }
<1> DEFINE own == [m \in Modules |-> OwnIssues(m)]   N == Cardinality(Modules)
           next == SubmodulesOf
           F(g) == [depth \in 0..N |->
                      [m \in Modules |->
                         OwnIssues(m) \cup IF depth = 0 THEN {}
                                            ELSE UNION { g[depth - 1][c] : c \in SubmodulesOf[m] }]]
           f == CHOOSE g : g = F(g)
<1>1. N \in Nat
  BY WiringConstants, FS_CardinalityType
<1>2. PICK h : Collects(h, own, next, N)
  <2> HIDE DEF own, next, N
  <2>1. QED BY <1>1, CollectsExists
<1>3. ASSUME NEW g PROVE Collects(g, own, next, N) <=> g = F(g)
  <2>1. ASSUME NEW depth \in 0..N
        PROVE  (IF depth = 0 THEN own ELSE Visit(own, next, g[depth - 1])) = F(g)[depth]
    BY DEF Visit
  <2>2. [depth \in 0..N |-> IF depth = 0 THEN own ELSE Visit(own, next, g[depth - 1])] = F(g)
    BY <2>1
  <2> HIDE DEF F
  <2>3. QED BY <2>2 DEF Collects
<1>4. CollectIssues(x) = f[N][x] /\ Collects(f, own, next, N)
  <2>1. CollectIssues(x) = f[N][x]
    BY DEF CollectIssues
  <2>2. h = F(h)
    BY <1>2, <1>3
  <2> HIDE DEF F
  <2>3. f = F(f)
    BY <2>2
  <2>4. QED BY <1>3, <2>1, <2>3
<1>5. next \in [Modules -> SUBSET Modules]
  BY MembersTyped DEF SubmodulesOf
<1>6. own = [m \in Modules |-> own[m]]
  OBVIOUS
<1> HIDE DEF f, own, next, N
<1>7. f[N][x] = UNION { own[y] : y \in Below({x}, next) }
  BY <1>4, <1>5, <1>6, CollectsAll DEF N, next
<1>8. \A y \in Below({x}, next) : own[y] = OwnIssues(y)
  <2>1. Closed(Modules, next) /\ Modules \in SUBSET Objects
    BY <1>5 DEF Closed, Objects
  <2>2. Below({x}, next) \subseteq Modules
    BY <2>1, BelowIsLeast
  <2>3. QED BY <2>2 DEF own
<1>9. QED BY <1>4, <1>7, <1>8 DEF next

(* Validate() accuses exactly the faulty modules below the system and the     *)
(* registered objects that are no modules, however deep the tree is.         *)
THEOREM ReportIsExact == Spec => []ReportTells
<1>1. IInv /\ TreeInv => ReportTells
  <2> SUFFICES ASSUME TypeOK, TreeInv PROVE ReportTells
    BY DEF IInv
  <2>1. Members(top) \in SUBSET Objects /\ SubmodulesOf \in Links
    BY MembersTyped, SubmodulesAreLinks
  <2>2. ASSUME NEW x \in Members(top) \ Plain
        PROVE  /\ x \in Modules /\ Below({x}, SubmodulesOf) \in SUBSET Modules
               /\ CollectIssues(x) = UNION { OwnIssues(y) : y \in Below({x}, SubmodulesOf) }
    <3>1. x \in Modules
      BY <2>1 DEF Objects
    <3>2. Closed(Modules, SubmodulesOf) /\ Modules \in SUBSET Objects
      BY MembersTyped DEF SubmodulesOf, Closed, Objects
    <3>3. Below({x}, SubmodulesOf) \in SUBSET Modules
      BY <3>1, <3>2, BelowIsLeast
    <3>4. QED BY <3>1, <3>3, CollectIssuesMeans DEF TreeInv
  <2>3. ASSUME NEW e \in ValidateModel
        PROVE  e.on \in (Members(top) \cap Plain) \cup { m \in Reachable \cap Modules : Faulty(m) }
    <3>1. \E x \in Members(top) :
            \/ x \in Plain /\ e = Issue(x, "not queue based")
            \/ x \notin Plain /\ e \in CollectIssues(x)
      BY DEF ValidateModel
    <3>a. PICK x \in Members(top) :
            \/ x \in Plain /\ e = Issue(x, "not queue based")
            \/ x \notin Plain /\ e \in CollectIssues(x)
      BY <3>1
    <3>2. CASE x \in Plain
      <4>1. e.on = x
        <5>1. e = Issue(x, "not queue based")
          BY <3>a, <3>2
        <5>2. \A what : Issue(x, what).on = x
          BY DEF Issue
        <5>3. QED BY <5>1, <5>2
      <4>2. QED BY <3>2, <4>1
    <3>3. CASE x \notin Plain
      <4>1. PICK y \in Below({x}, SubmodulesOf) : e \in OwnIssues(y)
        <5>1. e \in UNION { OwnIssues(y) : y \in Below({x}, SubmodulesOf) }
          BY <2>2, <3>a, <3>3
        <5>2. QED BY <5>1
      <4>2. y \in Modules /\ e.on = y /\ Faulty(y)
        BY <2>2, <3>3, <4>1, AccusesItself
      <4>3. Below({x}, SubmodulesOf) \subseteq Reachable
        <5>1. Members(top) \subseteq Below(Members(top), SubmodulesOf)
          BY <2>1, BelowHolds
        <5>2. QED BY <2>1, <5>1, BelowTransitive DEF Reachable
      <4>4. QED BY <4>1, <4>2, <4>3
    <3>4. QED BY <3>2, <3>3
  <2>4. ASSUME NEW x \in Members(top) \cap Plain PROVE \E e \in ValidateModel : e.on = x
    <3>1. Issue(x, "not queue based") \in ValidateModel /\ Issue(x, "not queue based").on = x
      BY DEF ValidateModel, Issue
    <3>2. QED BY <3>1
  <2>5. ASSUME NEW m \in Reachable \cap Modules, Faulty(m) PROVE \E e \in ValidateModel : e.on = m
    <3>1. PICK x \in Members(top) : m \in Below({x}, SubmodulesOf)
      BY <2>1, BelowSplits DEF Reachable
    <3>2. x \notin Plain
      BY <2>1, <3>1, BelowPlain, WiringConstants
    <3>3. PICK e \in OwnIssues(m) : e.on = m
      BY <2>5, AccusesItself
    <3>4. e \in CollectIssues(x)
      BY <2>2, <3>1, <3>2, <3>3
    <3>5. e \in ValidateModel
      BY <3>2, <3>4 DEF ValidateModel
    <3>6. QED BY <3>3, <3>5
  <2>6. QED BY <2>3, <2>4, <2>5 DEF ReportTells
<1>2. IInv /\ IInv' /\ TreeInv /\ [Next]_vars => TreeInv'
  BY StepTree DEF IInv
<1>3. QED BY <1>1, <1>2, InitIInv, StepIInv, InitTree, PTL DEF Spec

-----------------------------------------------------------------------------
(***************************************************************************)
(* The call stack s of a Build, over the links next, the built modules done  *)
(* and the late objects lt.  A module on it waits for its children once its  *)
(* BuildSelf has returned.                                                  *)
(***************************************************************************)
Tree == { next \in [Modules -> SUBSET Modules] : Acyclic(next) }

InSelf(s, i) == i = 2 /\ s[1].op = "self"
Waiting(s, i) == s[i].op = "done" /\ ~InSelf(s, i)

Shape(s, done) ==
  \A i \in 1..Len(s) :
    /\ s[i].op \in {"self", "done"} => s[i].on \in Modules \ done
    /\ s[i].op = "self" => i = 1 /\ Len(s) >= 2 /\ s[2].op = "done" /\ s[2].on = s[1].on
    /\ s[i].op = "simdone" => i = Len(s)

\* The calls above a module's own are calls for what is below it.
Nested(s, next) ==
  \A i, j \in 1..Len(s) :
    i < j /\ s[j].op = "done" /\ ~(i = 1 /\ InSelf(s, j)) => s[i].on \in Strict(s[j].on, next)

\* A child of a waiting module is built or still to be.
Waits(s, next, done, lt) ==
  \A i \in 1..Len(s) : Waiting(s, i) =>
    \A c \in next[s[i].on] \ lt : c \in done \/ \E j \in 1..Len(s) : j < i /\ s[j].on = c

Whole(next, done, lt) == \A m \in done : next[m] \ lt \subseteq done

Stack(s, next, done, lt) ==
  Shape(s, done) /\ Nested(s, next) /\ Waits(s, next, done, lt) /\ Whole(next, done, lt)

\* The first call of s gave way to k calls.
Moved(s, new, k) ==
  /\ Len(s) \in Nat /\ Len(s) >= 1 /\ k \in Nat /\ Len(new) = Len(s) - 1 + k
  /\ \A j \in 2..Len(s) : new[j - 1 + k] = s[j]
  /\ \A j \in (k + 1)..Len(new) : j + 1 - k \in 2..Len(s) /\ new[j] = s[j + 1 - k]

LEMMA PushMoves ==
  ASSUME NEW X, NEW s \in Seq(X), s # << >>, NEW pre \in Seq(X)
  PROVE  /\ Moved(s, pre \o Tail(s), Len(pre))
         /\ \A j \in 1..Len(pre) : (pre \o Tail(s))[j] = pre[j]
<1> DEFINE t == Tail(s)   new == pre \o t
<1>1. /\ Len(s) \in Nat /\ Len(s) >= 1 /\ Len(pre) \in Nat
      /\ t \in Seq(X) /\ Len(t) = Len(s) - 1 /\ \A j \in 1..Len(t) : t[j] = s[j + 1]
  OBVIOUS
<1> HIDE DEF t
<1>2. /\ Len(new) = Len(pre) + Len(t)
      /\ \A j \in 1..Len(new) : new[j] = IF j <= Len(pre) THEN pre[j] ELSE t[j - Len(pre)]
  <2>1. /\ Len(pre \o t) = Len(pre) + Len(t)
        /\ \A j \in 1..(Len(pre) + Len(t)) :
             (pre \o t)[j] = IF j <= Len(pre) THEN pre[j] ELSE t[j - Len(pre)]
    BY ZenonT(60), <1>1, ConcatProperties
  <2>2. QED BY <2>1
<1> HIDE DEF new
<1>3. ASSUME NEW j \in 1..Len(pre) PROVE new[j] = pre[j]
  <2>1. j \in 1..Len(new) /\ j <= Len(pre)
    <3>1. /\ j \in Int /\ 1 <= j /\ j <= Len(pre)
          /\ Len(pre) \in Nat /\ Len(t) \in Nat /\ Len(new) = Len(pre) + Len(t)
      BY <1>1, <1>2
    <3>2. QED BY <3>1
  <2>2. QED BY <1>2, <2>1
<1>4. ASSUME NEW j \in 2..Len(s) PROVE new[j - 1 + Len(pre)] = s[j]
  <2>1. j - 1 + Len(pre) \in 1..Len(new) /\ ~(j - 1 + Len(pre) <= Len(pre)) /\ j - 1 \in 1..Len(t)
    BY <1>1, <1>2
  <2>2. new[j - 1 + Len(pre)] = t[j - 1]
    <3>1. j - 1 + Len(pre) - Len(pre) = j - 1
      BY <1>1
    <3>2. new[j - 1 + Len(pre)] = t[j - 1 + Len(pre) - Len(pre)]
      BY <1>2, <2>1
    <3>3. QED BY <3>1, <3>2
  <2>3. QED BY <1>1, <2>1, <2>2
<1>5. ASSUME NEW j \in (Len(pre) + 1)..Len(new)
      PROVE  j + 1 - Len(pre) \in 2..Len(s) /\ new[j] = s[j + 1 - Len(pre)]
  <2>1. j \in 1..Len(new) /\ ~(j <= Len(pre)) /\ j - Len(pre) \in 1..Len(t)
    BY <1>1, <1>2
  <2>2. new[j] = t[j - Len(pre)]
    BY <1>2, <2>1
  <2>3. (j - Len(pre)) + 1 = j + 1 - Len(pre) /\ (j - Len(pre)) + 1 \in 2..Len(s)
    BY <1>1, <2>1
  <2>4. t[j - Len(pre)] = s[(j - Len(pre)) + 1]
    BY <1>1, <2>1
  <2>5. QED BY <2>2, <2>3, <2>4
<1>6. Moved(s, new, Len(pre))
  BY <1>1, <1>2, <1>4, <1>5 DEF Moved
<1>7. QED BY <1>3, <1>6 DEF new, t

LEMMA PopMoves ==
  ASSUME NEW X, NEW s \in Seq(X), s # << >>
  PROVE  Moved(s, Tail(s), 0)
BY DEF Moved

\* The first call has ended: an object with nothing to build, or a module.
Ended(s, new, done, more) ==
  /\ Moved(s, new, 0)
  /\ \/ s[1].op = "build" /\ s[1].on \notin Modules /\ more = done
     \/ s[1].op = "done" /\ more = done \cup {s[1].on}

LEMMA EndedStack ==
  ASSUME NEW s, NEW next \in Tree, NEW done \in SUBSET Modules, NEW lt,
         NEW new, NEW more, Stack(s, next, done, lt), Ended(s, new, done, more)
  PROVE  Stack(new, next, more, lt)
<1>1. /\ Len(s) \in Nat /\ Len(s) >= 1 /\ Len(new) = Len(s) - 1
      /\ \A j \in 1..Len(new) : j + 1 \in 2..Len(s) /\ new[j] = s[j + 1]
      /\ \A j \in 2..Len(s) : j - 1 \in 1..Len(new) /\ new[j - 1] = s[j]
  BY DEF Ended, Moved
<1>2. s[1].op # "self" /\ \A j \in 2..Len(s) : s[j].op # "self"
  BY <1>1 DEF Stack, Shape, Ended
<1>3. \A j \in 1..Len(new) : new[j].op # "self"
  BY <1>1, <1>2
<1>4. Nested(new, next)
  <2>1. ASSUME NEW i \in 1..Len(new), NEW j \in 1..Len(new), i < j, new[j].op = "done"
        PROVE  new[i].on \in Strict(new[j].on, next)
    <3>1. i + 1 \in 1..Len(s) /\ j + 1 \in 1..Len(s) /\ i + 1 < j + 1 /\ s[j + 1].op = "done" /\ i + 1 # 1
      BY <1>1, <2>1
    <3>2. s[i + 1].on \in Strict(s[j + 1].on, next)
      BY <3>1 DEF Stack, Nested
    <3>3. QED BY <1>1, <3>2
  <2>2. QED BY <2>1 DEF Nested
<1>5. ASSUME s[1].op = "done"
      PROVE  /\ s[1].on \in Modules
             /\ \A j \in 2..Len(s) : s[j].op = "done" => s[j].on # s[1].on
  <2>1. s[1].on \in Modules
    BY <1>1, <1>5 DEF Stack, Shape
  <2>2. ASSUME NEW j \in 2..Len(s), s[j].op = "done", s[j].on = s[1].on PROVE FALSE
    <3>1. s[1].on \in Strict(s[j].on, next)
      BY <1>1, <1>2, <2>2 DEF Stack, Nested, InSelf
    <3>2. QED BY <2>1, <2>2, <3>1 DEF Tree, Acyclic
  <2>3. QED BY <2>1, <2>2
<1>6. Shape(new, more)
  <2>1. ASSUME NEW i \in 1..Len(new)
        PROVE  /\ new[i].op \in {"self", "done"} => new[i].on \in Modules \ more
               /\ new[i].op # "self"
               /\ new[i].op = "simdone" => i = Len(new)
    <3>1. i + 1 \in 2..Len(s) /\ i + 1 \in 1..Len(s) /\ new[i] = s[i + 1] /\ s[i + 1].op # "self"
      BY <1>1, <1>2
    <3>2. /\ s[i + 1].op \in {"self", "done"} => s[i + 1].on \in Modules \ done
          /\ s[i + 1].op = "simdone" => i + 1 = Len(s)
      BY <3>1 DEF Stack, Shape
    <3>3. new[i].op = "done" => new[i].on \in Modules \ more
      BY <1>5, <3>1, <3>2 DEF Ended
    <3>4. QED BY <1>1, <3>1, <3>2, <3>3
  <2>2. QED BY <2>1 DEF Shape
<1>7. Whole(next, more, lt)
  <2>1. CASE more = done
    BY <2>1 DEF Stack, Whole
  <2>2. CASE s[1].op = "done" /\ more = done \cup {s[1].on}
    <3>1. Waiting(s, 1) /\ 1 \in 1..Len(s)
      BY <1>1, <2>2 DEF Waiting, InSelf
    <3>2. \A c \in next[s[1].on] \ lt : c \in done \/ \E j \in 1..Len(s) : j < 1 /\ s[j].on = c
      BY <3>1 DEF Stack, Waits
    <3>3. next[s[1].on] \ lt \subseteq done
      BY <1>1, <3>2
    <3>4. QED BY <2>2, <3>3 DEF Stack, Whole
  <2>3. QED BY <2>1, <2>2 DEF Ended
<1>8. Waits(new, next, more, lt)
  <2>1. ASSUME NEW i \in 1..Len(new), Waiting(new, i), NEW c \in next[new[i].on] \ lt, c \notin more
        PROVE  \E j \in 1..Len(new) : j < i /\ new[j].on = c
    <3>1. i + 1 \in 2..Len(s) /\ i + 1 \in 1..Len(s) /\ new[i] = s[i + 1]
      BY <1>1
    <3>2. Waiting(s, i + 1)
      BY <1>2, <2>1, <3>1 DEF Waiting, InSelf
    <3>3. c \notin done
      BY <2>1 DEF Ended
    <3>4. PICK j \in 1..Len(s) : j < i + 1 /\ s[j].on = c
      BY <2>1, <3>1, <3>2, <3>3 DEF Stack, Waits
    <3>5. s[i + 1].on \in Modules
      BY <3>1, <3>2 DEF Stack, Shape, Waiting
    <3>6. c \in Modules
      BY <2>1, <3>1, <3>5 DEF Tree
    <3>7. j # 1
      BY <2>1, <3>4, <3>6 DEF Ended
    <3>8. j - 1 \in 1..Len(new) /\ j - 1 < i /\ new[j - 1].on = c
      BY <1>1, <3>4, <3>7
    <3>9. QED BY <3>8
  <2>2. QED BY <2>1 DEF Waits
<1>9. QED BY <1>4, <1>6, <1>7, <1>8 DEF Stack

\* The first call, Build of a module not built yet, is in its BuildSelf.
Entered(s, new, done) ==
  /\ Moved(s, new, 2) /\ s[1].op = "build" /\ s[1].on \in Modules \ done
  /\ new[1].op = "self" /\ new[1].on = s[1].on
  /\ new[2].op = "done" /\ new[2].on = s[1].on

LEMMA EnteredStack ==
  ASSUME NEW s, NEW next \in Tree, NEW done \in SUBSET Modules, NEW lt,
         NEW new, Stack(s, next, done, lt), Entered(s, new, done)
  PROVE  Stack(new, next, done, lt)
<1> DEFINE x == s[1].on
<1>1. /\ Len(s) \in Nat /\ Len(s) >= 1 /\ Len(new) = Len(s) + 1
      /\ \A j \in 3..Len(new) : j - 1 \in 2..Len(s) /\ j - 1 \in 1..Len(s) /\ new[j] = s[j - 1]
      /\ \A j \in 2..Len(s) : j + 1 \in 3..Len(new) /\ new[j + 1] = s[j]
  BY DEF Entered, Moved
<1>2. s[1].op # "self" /\ \A j \in 2..Len(s) : s[j].op # "self"
  BY <1>1 DEF Stack, Shape, Entered
<1>3. \A j \in 3..Len(new) : new[j].op # "self"
  BY <1>1, <1>2
<1>4. Shape(new, done)
  <2>1. ASSUME NEW i \in 3..Len(new)
        PROVE  /\ new[i].op \in {"self", "done"} => new[i].on \in Modules \ done
               /\ new[i].op = "simdone" => i = Len(new)
    <3>1. i - 1 \in 1..Len(s) /\ new[i] = s[i - 1]
      BY <1>1
    <3>2. /\ s[i - 1].op \in {"self", "done"} => s[i - 1].on \in Modules \ done
          /\ s[i - 1].op = "simdone" => i - 1 = Len(s)
      BY <3>1 DEF Stack, Shape
    <3>3. QED BY <1>1, <3>1, <3>2
  <2>2. Len(new) >= 2 /\ 1..Len(new) = {1, 2} \cup 3..Len(new)
    BY <1>1
  <2>3. /\ new[1].op = "self" /\ new[1].on = x /\ new[2].op = "done" /\ new[2].on = x
        /\ x \in Modules \ done
    BY DEF Entered
  <2>4. QED BY <1>3, <2>1, <2>2, <2>3 DEF Shape
<1>5. Nested(new, next)
  <2>1. ASSUME NEW i \in 1..Len(new), NEW j \in 1..Len(new), i < j, new[j].op = "done",
               ~(i = 1 /\ InSelf(new, j))
        PROVE  new[i].on \in Strict(new[j].on, next)
    <3>1. j \in 3..Len(new)
      BY <1>1, <2>1 DEF InSelf, Entered
    <3>2. j - 1 \in 2..Len(s) /\ j - 1 \in 1..Len(s) /\ new[j] = s[j - 1] /\ s[j - 1].op = "done"
      BY <1>1, <2>1, <3>1
    <3>3. CASE i \in {1, 2}
      <4>1. new[i].on = s[1].on
        BY <3>3 DEF Entered
      <4>2. s[1].on \in Strict(s[j - 1].on, next)
        BY <1>1, <1>2, <3>2 DEF Stack, Nested, InSelf
      <4>3. QED BY <3>2, <4>1, <4>2
    <3>4. CASE i \in 3..Len(new)
      <4>1. i - 1 \in 1..Len(s) /\ new[i] = s[i - 1] /\ i - 1 < j - 1 /\ i - 1 # 1
        BY <1>1, <2>1, <3>4
      <4>2. s[i - 1].on \in Strict(s[j - 1].on, next)
        BY <3>2, <4>1 DEF Stack, Nested
      <4>3. QED BY <3>2, <4>1, <4>2
    <3>5. QED BY <1>1, <3>3, <3>4
  <2>2. QED BY <2>1 DEF Nested
<1>6. Waits(new, next, done, lt)
  <2>1. ASSUME NEW i \in 1..Len(new), Waiting(new, i), NEW c \in next[new[i].on] \ lt, c \notin done
        PROVE  \E j \in 1..Len(new) : j < i /\ new[j].on = c
    <3>1. i \in 3..Len(new)
      BY <1>1, <2>1 DEF Waiting, InSelf, Entered
    <3>2. i - 1 \in 2..Len(s) /\ i - 1 \in 1..Len(s) /\ new[i] = s[i - 1]
      BY <1>1, <3>1
    <3>3. Waiting(s, i - 1)
      BY <1>2, <2>1, <3>2 DEF Waiting, InSelf
    <3>4. PICK j \in 1..Len(s) : j < i - 1 /\ s[j].on = c
      BY <2>1, <3>2, <3>3 DEF Stack, Waits
    <3>5. CASE j = 1
      <4>1. 1 \in 1..Len(new) /\ 1 < i /\ new[1].on = c
        BY <1>1, <3>1, <3>4, <3>5 DEF Entered
      <4>2. QED BY <4>1
    <3>6. CASE j # 1
      <4>1. j + 1 \in 1..Len(new) /\ j + 1 < i /\ new[j + 1].on = c
        BY SMTT(30), <1>1, <3>1, <3>4, <3>6
      <4>2. QED BY <4>1
    <3>7. QED BY <3>5, <3>6
  <2>2. QED BY <2>1 DEF Waits
<1>7. QED BY <1>4, <1>5, <1>6 DEF Stack

\* The first module's BuildSelf has returned: its children are to be built.
Opened(s, new, subs, next) ==
  /\ subs \in Seq(Modules) /\ Moved(s, new, Len(subs)) /\ s[1].op = "self"
  /\ next[s[1].on] = Members(subs)
  /\ \A j \in 1..Len(subs) : new[j].op = "build" /\ new[j].on = subs[j]

Unfolds(s, new, k, m, next) ==
  /\ Len(s) \in Nat /\ Len(s) >= 2 /\ k \in Nat /\ Len(new) = Len(s) - 1 + k
  /\ m \in Modules /\ s[1].op = "self" /\ s[1].on = m /\ s[2].op = "done" /\ s[2].on = m
  /\ \A j \in 1..Len(new) : new[j].op # "self" /\ ~InSelf(new, j)
  /\ \A j \in 1..Len(new) :
       \/ j <= k /\ new[j].op = "build" /\ new[j].on \in next[m]
       \/ j > k /\ j + 1 - k \in 2..Len(s) /\ new[j] = s[j + 1 - k]
  /\ \A j \in 2..Len(s) : j - 1 + k \in 1..Len(new) /\ new[j - 1 + k] = s[j]
  /\ \A c \in next[m] : \E j \in 1..Len(new) : j <= k /\ new[j].op = "build" /\ new[j].on = c

LEMMA OpenedCalls ==
  ASSUME NEW s, NEW next \in Tree, NEW done, NEW lt,
         NEW new, NEW subs, Stack(s, next, done, lt), Opened(s, new, subs, next)
  PROVE  Unfolds(s, new, Len(subs), s[1].on, next)
<1> DEFINE k == Len(subs)
<1>1. /\ Len(s) \in Nat /\ Len(s) >= 1 /\ k \in Nat /\ Len(new) = Len(s) - 1 + k
      /\ \A j \in 2..Len(s) : new[j - 1 + k] = s[j]
      /\ \A j \in (k + 1)..Len(new) : j + 1 - k \in 2..Len(s) /\ new[j] = s[j + 1 - k]
  BY DEF Opened, Moved
<1>2. 1 \in 1..Len(s) /\ s[1].op = "self"
  BY <1>1 DEF Opened
<1>3. Len(s) >= 2 /\ s[2].op = "done" /\ s[2].on = s[1].on /\ s[1].on \in Modules
  BY <1>2 DEF Stack, Shape
<1>4. \A j \in 2..Len(s) : s[j].op # "self"
  BY <1>1 DEF Stack, Shape
<1>5. ASSUME NEW j \in 1..k
      PROVE  new[j].op = "build" /\ new[j].on \in next[s[1].on] /\ j \in 1..Len(new)
  BY SMTT(30), <1>1, <1>3 DEF Opened, Members
<1>6. \A j \in 1..Len(new) :
        \/ j <= k /\ new[j].op = "build" /\ new[j].on \in next[s[1].on]
        \/ j > k /\ j + 1 - k \in 2..Len(s) /\ new[j] = s[j + 1 - k]
  BY <1>1, <1>5
<1>7. \A j \in 1..Len(new) : new[j].op # "self"
  BY <1>4, <1>6
<1>8. \A j \in 1..Len(new) : ~InSelf(new, j)
  BY <1>1, <1>7 DEF InSelf
<1>9. \A j \in 2..Len(s) : j - 1 + k \in 1..Len(new) /\ new[j - 1 + k] = s[j]
  BY <1>1
<1>10. ASSUME NEW c \in next[s[1].on]
       PROVE  \E j \in 1..Len(new) : j <= k /\ new[j].op = "build" /\ new[j].on = c
  <2>1. PICK j \in 1..k : c = subs[j]
    BY DEF Opened, Members
  <2>2. j \in 1..Len(new) /\ j <= k /\ new[j].op = "build" /\ new[j].on = c
    BY <1>1, <1>5, <2>1 DEF Opened
  <2>3. QED BY <2>2
<1>11. QED BY <1>1, <1>2, <1>3, <1>6, <1>7, <1>8, <1>9, <1>10 DEF Unfolds

LEMMA StrictHolds ==
  ASSUME NEW next \in Tree, NEW m \in Modules
  PROVE  /\ next[m] \subseteq Strict(m, next) /\ Strict(m, next) \in SUBSET Modules
         /\ m \notin Strict(m, next)
         /\ \A c \in Strict(m, next) : next[c] \subseteq Strict(m, next)
<1>1. next \in Links /\ next[m] \in SUBSET Objects /\ next \in [Modules -> SUBSET Modules]
  BY DEF Tree, Links, Objects
<1>2. /\ next[m] \subseteq Strict(m, next) /\ Strict(m, next) \in SUBSET Objects
      /\ Closed(Strict(m, next), next)
  BY <1>1, BelowHolds DEF Strict
<1>3. Strict(m, next) \subseteq Modules
  <2>1. Modules \in SUBSET Objects /\ Closed(Modules, next)
    BY <1>1 DEF Objects, Closed
  <2>2. QED BY <1>1, <2>1, BelowIsLeast DEF Strict
<1>4. QED BY <1>2, <1>3 DEF Closed, Tree, Acyclic

LEMMA OpenedStack ==
  ASSUME NEW s, NEW next \in Tree, NEW done \in SUBSET Modules, NEW lt,
         NEW new, NEW subs, Stack(s, next, done, lt), Opened(s, new, subs, next)
  PROVE  Stack(new, next, done, lt)
<1>a. PICK k, m : Unfolds(s, new, k, m, next)
  BY OpenedCalls
<1>1. /\ Len(s) \in Nat /\ Len(s) >= 2 /\ k \in Nat /\ Len(new) = Len(s) - 1 + k
      /\ m \in Modules /\ s[1].op = "self" /\ s[1].on = m /\ s[2].op = "done" /\ s[2].on = m
      /\ \A j \in 1..Len(new) : new[j].op # "self" /\ ~InSelf(new, j)
  BY <1>a DEF Unfolds
<1>2. \A j \in 1..Len(new) :
        \/ j <= k /\ new[j].op = "build" /\ new[j].on \in next[m]
        \/ j > k /\ j + 1 - k \in 2..Len(s) /\ new[j] = s[j + 1 - k]
  BY <1>a DEF Unfolds
<1>3. \A j \in 2..Len(s) : j - 1 + k \in 1..Len(new) /\ new[j - 1 + k] = s[j]
  BY <1>a DEF Unfolds
<1>4. \A c \in next[m] : \E j \in 1..Len(new) : j <= k /\ new[j].op = "build" /\ new[j].on = c
  BY <1>a DEF Unfolds
<1>6. Shape(new, done)
  <2>1. ASSUME NEW i \in 1..Len(new)
        PROVE  /\ new[i].op \in {"self", "done"} => new[i].on \in Modules \ done
               /\ new[i].op = "simdone" => i = Len(new)
    <3>1. CASE i <= k
      BY <1>1, <1>2, <3>1
    <3>2. CASE i > k
      <4>1. i + 1 - k \in 1..Len(s) /\ new[i] = s[i + 1 - k]
        BY <1>1, <1>2, <3>2
      <4>2. /\ s[i + 1 - k].op \in {"self", "done"} => s[i + 1 - k].on \in Modules \ done
            /\ s[i + 1 - k].op = "simdone" => i + 1 - k = Len(s)
        BY <4>1 DEF Stack, Shape
      <4>3. QED BY <1>1, <4>1, <4>2
    <3>3. QED BY <1>1, <3>1, <3>2
  <2>2. QED BY <1>1, <2>1 DEF Shape
<1>7. Nested(new, next)
  <2>1. ASSUME NEW i \in 1..Len(new), NEW j \in 1..Len(new), i < j, new[j].op = "done"
        PROVE  new[i].on \in Strict(new[j].on, next)
    <3>1. j > k /\ j + 1 - k \in 2..Len(s) /\ new[j] = s[j + 1 - k] /\ s[j + 1 - k].op = "done"
      BY <1>2, <2>1
    <3>2. PICK h \in 2..Len(s) : h = j + 1 - k /\ s[h] = new[j] /\ s[h].op = "done"
      BY <3>1
    <3>3. s[h].on \in Modules
      BY <1>1, <3>2 DEF Stack, Shape
    <3>4. h # 2 => m \in Strict(s[h].on, next)
      BY SMTT(30), <1>1, <3>2 DEF Stack, Nested, InSelf
    <3>5. CASE i <= k
      <4>1. new[i].on \in next[m]
        BY <1>1, <1>2, <3>5
      <4>2. CASE h = 2
        BY <1>1, <3>2, <4>1, <4>2, StrictHolds
      <4>3. CASE h # 2
        BY <3>2, <3>3, <3>4, <4>1, <4>3, StrictHolds
      <4>4. QED BY <4>2, <4>3
    <3>6. CASE i > k
      <4>1. PICK g \in 2..Len(s) : g = i + 1 - k /\ s[g] = new[i]
        BY <1>1, <1>2, <3>6
      <4>2. g < h /\ g # 1 /\ g \in 1..Len(s) /\ h \in 1..Len(s)
        BY <1>1, <2>1, <3>2, <4>1
      <4>3. s[g].on \in Strict(s[h].on, next)
        BY <3>2, <4>2 DEF Stack, Nested
      <4>4. QED BY <3>2, <4>1, <4>3
    <3>7. QED BY <1>1, <3>5, <3>6
  <2>2. QED BY <2>1 DEF Nested
<1>8. Waits(new, next, done, lt)
  <2>1. ASSUME NEW i \in 1..Len(new), Waiting(new, i), NEW c \in next[new[i].on] \ lt, c \notin done
        PROVE  \E j \in 1..Len(new) : j < i /\ new[j].on = c
    <3>1. i > k /\ i + 1 - k \in 2..Len(s) /\ new[i] = s[i + 1 - k] /\ new[i].op = "done"
      BY <1>2, <2>1 DEF Waiting
    <3>2. PICK h \in 2..Len(s) : h = i + 1 - k /\ s[h] = new[i] /\ s[h].op = "done"
      BY <3>1
    <3>3. CASE h = 2
      <4>1. c \in next[m]
        BY <1>1, <2>1, <3>2, <3>3
      <4>2. PICK j \in 1..Len(new) : j <= k /\ new[j].on = c
        BY <1>4, <4>1
      <4>3. j < i
        BY <1>1, <3>1, <4>2
      <4>4. QED BY <4>2, <4>3
    <3>4. CASE h # 2
      <4>1. Waiting(s, h) /\ h \in 1..Len(s)
        BY <1>1, <3>2, <3>4 DEF Waiting, InSelf
      <4>2. PICK g \in 1..Len(s) : g < h /\ s[g].on = c
        BY <2>1, <3>2, <4>1 DEF Stack, Waits
      <4>3. PICK f \in 2..Len(s) : f < h /\ s[f].on = c
        <5>1. CASE g = 1
          <6>1. 2 \in 2..Len(s) /\ 2 < h /\ s[2].on = c
            BY <1>1, <3>4, <4>2, <5>1
          <6>2. QED BY <6>1
        <5>2. CASE g # 1
          BY <4>2, <5>2
        <5>3. QED BY <5>1, <5>2
      <4>4. f - 1 + k \in 1..Len(new) /\ f - 1 + k < i /\ new[f - 1 + k].on = c
        BY SMTT(30), <1>1, <1>3, <3>2, <4>3
      <4>5. QED BY <4>4
    <3>5. QED BY <3>3, <3>4
  <2>2. QED BY <2>1 DEF Waits
<1>9. QED BY <1>6, <1>7, <1>8 DEF Stack

(* A link made during a Build: the parent is the module in its BuildSelf, or  *)
(* a child of it; it is not waiting.                                        *)
LinkedIn(s, next, m) == s # << >> => s[1].op = "self" /\ (s[1].on = m \/ m \in next[s[1].on])

LEMMA LinkedNotWaiting ==
  ASSUME NEW s \in Seq(Call), NEW next \in Tree, NEW done \in SUBSET Modules, NEW lt,
         Stack(s, next, done, lt), NEW m \in Modules, LinkedIn(s, next, m)
  PROVE  \A i \in 1..Len(s) : Waiting(s, i) => s[i].on # m
<1> SUFFICES ASSUME NEW i \in 1..Len(s), Waiting(s, i), s[i].on = m PROVE FALSE
  OBVIOUS
<1>1. s # << >> /\ Len(s) \in Nat /\ 1 \in 1..Len(s)
  OBVIOUS
<1>2. s[1].op = "self" /\ (s[1].on = m \/ m \in next[s[1].on])
  BY <1>1 DEF LinkedIn
<1>3. s[1].on \in Modules
  BY <1>1, <1>2 DEF Stack, Shape
<1>4. i # 1 /\ ~InSelf(s, i)
  BY <1>2 DEF Waiting
<1>5. s[1].on \in Strict(m, next)
  BY <1>1, <1>4 DEF Stack, Nested, Waiting
<1>6. CASE s[1].on = m
  BY <1>5, <1>6, StrictHolds
<1>7. CASE m \in next[s[1].on]
  <2>1. m \in Strict(m, next)
    BY <1>5, <1>7, StrictHolds
  <2>2. QED BY <2>1, StrictHolds
<1>8. QED BY <1>2, <1>6, <1>7

LEMMA LinkedStack ==
  ASSUME NEW s \in Seq(Call), NEW next \in Tree, NEW done \in SUBSET Modules, NEW lt,
         Stack(s, next, done, lt), NEW m \in Modules, LinkedIn(s, next, m),
         NEW c \in Modules, NEW grown \in Tree, Linked(next, m, c, grown),
         NEW more, lt \subseteq more, m \in done => c \in more
  PROVE  Stack(s, grown, done, more)
<1>1. next \in Links
  BY DEF Tree, Links, Objects
<1>2. /\ grown[m] = next[m] \cup {c}
      /\ \A x \in Modules : x # m => grown[x] = next[x]
  BY <1>1, LinkValues
<1>3. Shape(s, done)
  BY DEF Stack
<1>4. Nested(s, grown)
  <2>1. ASSUME NEW x \in Modules PROVE Strict(x, next) \subseteq Strict(x, grown)
    <3>1. grown \in Links /\ \A y \in Modules : next[y] \subseteq grown[y]
      BY <1>1, LinkValues
    <3>2. next[x] \in SUBSET Objects /\ grown[x] \in SUBSET Objects
      BY <1>1, <3>1 DEF Links
    <3>3. QED BY <1>1, <3>1, <3>2, BelowGrows DEF Strict
  <2>2. ASSUME NEW i \in 1..Len(s), NEW j \in 1..Len(s), i < j, s[j].op = "done",
               ~(i = 1 /\ InSelf(s, j))
        PROVE  s[i].on \in Strict(s[j].on, grown)
    <3>1. s[i].on \in Strict(s[j].on, next) /\ s[j].on \in Modules
      BY <2>2 DEF Stack, Nested, Shape
    <3>2. QED BY <2>1, <3>1
  <2>3. QED BY <2>2 DEF Nested
<1>5. Waits(s, grown, done, more)
  <2>1. ASSUME NEW i \in 1..Len(s), Waiting(s, i)
        PROVE  \A x \in grown[s[i].on] \ more :
                 x \in done \/ \E j \in 1..Len(s) : j < i /\ s[j].on = x
    <3>1. s[i].on # m
      BY <2>1, LinkedNotWaiting
    <3>2. s[i].on \in Modules
      BY <2>1 DEF Stack, Shape, Waiting
    <3>3. grown[s[i].on] = next[s[i].on]
      BY <1>2, <3>1, <3>2
    <3>4. QED BY <2>1, <3>3 DEF Stack, Waits
  <2>2. QED BY <2>1 DEF Waits
<1>6. Whole(grown, done, more)
  <2>1. ASSUME NEW x \in done PROVE grown[x] \ more \subseteq done
    BY <1>2 DEF Stack, Whole
  <2>2. QED BY <2>1 DEF Whole
<1>7. QED BY <1>3, <1>4, <1>5, <1>6 DEF Stack

-----------------------------------------------------------------------------
(***************************************************************************)
(* The Build of a system: a of the registrations t are started, and the calls *)
(* up to last belong to the one under way.                                  *)
(***************************************************************************)
Calls(s, t, a, last) ==
  /\ Len(t) \in Nat /\ a \in 0..Len(t) /\ last \in Nat /\ Len(s) = last + (Len(t) - a) + 1
  /\ s[Len(s)].op = "simdone"
  /\ \A k \in (a + 1)..Len(t) : s[last + k - a].op = "build" /\ s[last + k - a].on = t[k]

Active(s, done, p) == p \in done \/ \E j \in 1..Len(s) : Waiting(s, j) /\ s[j].on = p

\* A started registration that is a child as well is going to be built twice.
Started(s, t, next, done, lt, a, last) ==
  \A i \in 1..a : t[i] \in Modules =>
    /\ t[i] \in done \/ \E j \in 1..Len(s) : s[j].op = "done" /\ s[j].on = t[i]
    /\ \A k \in 1..a : t[k] = t[i] => k = i
    /\ t[i] \notin lt => \A p \in Modules : t[i] \in next[p] /\ Active(s, done, p) =>
         \E j \in 1..Len(s) : j <= last /\ s[j].op = "build" /\ s[j].on = t[i]

Progress(s, t, next, done, lt, a, last) ==
  Calls(s, t, a, last) /\ Started(s, t, next, done, lt, a, last)

LEMMA CallsMoved ==
  ASSUME NEW s, NEW t, NEW a, NEW last, Calls(s, t, a, last), last # 0,
         NEW new, NEW k, Moved(s, new, k)
  PROVE  Calls(new, t, a, last - 1 + k)
<1>1. /\ Len(t) \in Nat /\ a \in 0..Len(t) /\ last \in Nat /\ Len(s) = last + (Len(t) - a) + 1
      /\ s[Len(s)].op = "simdone"
  BY DEF Calls
<1>2. /\ k \in Nat /\ Len(new) = Len(s) - 1 + k
      /\ \A j \in 2..Len(s) : new[j - 1 + k] = s[j]
  BY DEF Moved
<1>3. last - 1 + k \in Nat /\ Len(new) = (last - 1 + k) + (Len(t) - a) + 1
  BY <1>1, <1>2
<1>4. new[Len(new)].op = "simdone"
  <2>1. Len(s) \in 2..Len(s)
    BY <1>1
  <2>2. new[Len(s) - 1 + k] = s[Len(s)]
    BY <1>2, <2>1
  <2>3. QED BY <1>1, <1>2, <2>2
<1>5. ASSUME NEW h \in (a + 1)..Len(t)
      PROVE  new[(last - 1 + k) + h - a].op = "build" /\ new[(last - 1 + k) + h - a].on = t[h]
  <2>1. last + h - a \in 2..Len(s) /\ (last + h - a) - 1 + k = (last - 1 + k) + h - a
    BY <1>1, <1>2
  <2>2. new[(last + h - a) - 1 + k] = s[last + h - a]
    BY <1>2, <2>1
  <2>3. s[last + h - a].op = "build" /\ s[last + h - a].on = t[h]
    BY DEF Calls
  <2>4. QED BY <2>1, <2>2, <2>3
<1>6. QED BY <1>1, <1>3, <1>4, <1>5 DEF Calls

(* With nothing under way, the first call is the next registration's.        *)
LEMMA NextCall ==
  ASSUME NEW s, NEW t, NEW a, Calls(s, t, a, 0)
  PROVE  /\ s[1].op = "simdone" <=> a = Len(t)
         /\ s[1].op # "simdone" => /\ a + 1 \in 1..Len(t)
                                   /\ s[1].op = "build" /\ s[1].on = t[a + 1]
         /\ \A j \in 1..Len(s) : s[j].op # "done" /\ s[j].op # "self"
<1>1. /\ Len(t) \in Nat /\ a \in 0..Len(t) /\ Len(s) = (Len(t) - a) + 1
      /\ s[Len(s)].op = "simdone"
      /\ \A k \in (a + 1)..Len(t) : s[0 + k - a].op = "build" /\ s[0 + k - a].on = t[k]
  BY SMTT(30) DEF Calls
<1>2. ASSUME a # Len(t) PROVE a + 1 \in 1..Len(t) /\ s[1].op = "build" /\ s[1].on = t[a + 1]
  <2>1. a + 1 \in (a + 1)..Len(t) /\ 0 + (a + 1) - a = 1 /\ a + 1 \in 1..Len(t)
    BY <1>1, <1>2
  <2>2. s[0 + (a + 1) - a].op = "build" /\ s[0 + (a + 1) - a].on = t[a + 1]
    BY <1>1, <2>1
  <2>3. QED BY <2>1, <2>2
<1>3. a = Len(t) => s[1].op = "simdone"
  BY <1>1
<1>4. ASSUME NEW j \in 1..Len(s) PROVE s[j].op # "done" /\ s[j].op # "self"
  <2>1. CASE j = Len(s)
    BY <1>1, <2>1
  <2>2. CASE j # Len(s)
    <3>1. j + a \in (a + 1)..Len(t) /\ 0 + (j + a) - a = j
      BY <1>1, <2>2
    <3>2. s[0 + (j + a) - a].op = "build"
      BY <1>1, <3>1
    <3>3. QED BY <3>1, <3>2
  <2>3. QED BY <2>1, <2>2
<1>5. QED BY <1>2, <1>3, <1>4

(* The next registration is started: its call gives way to k calls.          *)
LEMMA NextStarted ==
  ASSUME NEW s, NEW t, NEW a, Calls(s, t, a, 0), a # Len(t),
         NEW new, NEW k, Moved(s, new, k)
  PROVE  Calls(new, t, a + 1, k)
<1>1. /\ Len(t) \in Nat /\ a \in 0..Len(t) /\ Len(s) = (Len(t) - a) + 1
      /\ s[Len(s)].op = "simdone"
      /\ \A h \in (a + 1)..Len(t) : s[0 + h - a].op = "build" /\ s[0 + h - a].on = t[h]
  BY DEF Calls
<1>2. /\ k \in Nat /\ Len(new) = Len(s) - 1 + k
      /\ \A j \in 2..Len(s) : new[j - 1 + k] = s[j]
  BY DEF Moved
<1>3. a + 1 \in 0..Len(t) /\ Len(new) = k + (Len(t) - (a + 1)) + 1
  BY <1>1, <1>2
<1>4. new[Len(new)].op = "simdone"
  <2>1. Len(s) \in 2..Len(s)
    BY <1>1
  <2>2. new[Len(s) - 1 + k] = s[Len(s)]
    BY <1>2, <2>1
  <2>3. QED BY <1>1, <1>2, <2>2
<1>5. ASSUME NEW h \in ((a + 1) + 1)..Len(t)
      PROVE  new[k + h - (a + 1)].op = "build" /\ new[k + h - (a + 1)].on = t[h]
  <2>1. 0 + h - a \in 2..Len(s) /\ (0 + h - a) - 1 + k = k + h - (a + 1) /\ h \in (a + 1)..Len(t)
    BY <1>1, <1>2
  <2>2. new[(0 + h - a) - 1 + k] = s[0 + h - a]
    BY <1>2, <2>1
  <2>3. s[0 + h - a].op = "build" /\ s[0 + h - a].on = t[h]
    BY <1>1, <2>1
  <2>4. QED BY <2>1, <2>2, <2>3
<1>6. QED BY <1>1, <1>2, <1>3, <1>4, <1>5 DEF Calls

LEMMA EndedProgress ==
  ASSUME NEW s, NEW next \in Tree, NEW done \in SUBSET Modules, NEW lt, Stack(s, next, done, lt),
         NEW t, NEW a, NEW last, Progress(s, t, next, done, lt, a, last),
         NEW new, NEW more, Ended(s, new, done, more)
  PROVE  \E b, l : Progress(new, t, next, more, lt, b, l)
<1>1. /\ Len(s) \in Nat /\ Len(s) >= 1 /\ Len(new) = Len(s) - 1
      /\ \A j \in 1..Len(new) : j + 1 \in 2..Len(s) /\ new[j] = s[j + 1]
      /\ \A j \in 2..Len(s) : j - 1 \in 1..Len(new) /\ new[j - 1] = s[j]
      /\ Moved(s, new, 0)
  BY DEF Ended, Moved
<1>2. s[1].op # "self" /\ \A j \in 2..Len(s) : s[j].op # "self"
  BY <1>1 DEF Stack, Shape, Ended
<1>3. \A j \in 1..Len(new) : new[j].op # "self"
  BY <1>1, <1>2
<1>4. ASSUME NEW p, Active(new, more, p) PROVE Active(s, done, p)
  <2>1. CASE p \in done
    BY <2>1 DEF Active
  <2>2. CASE p \in more \ done
    <3>1. s[1].op = "done" /\ s[1].on = p /\ Waiting(s, 1) /\ 1 \in 1..Len(s)
      BY <1>1, <2>2 DEF Ended, Waiting, InSelf
    <3>2. QED BY <3>1 DEF Active
  <2>3. CASE p \notin more
    <3>1. PICK j \in 1..Len(new) : Waiting(new, j) /\ new[j].on = p
      BY <1>4, <2>3 DEF Active
    <3>2. j + 1 \in 1..Len(s) /\ Waiting(s, j + 1) /\ s[j + 1].on = p
      BY <1>1, <1>2, <3>1 DEF Waiting, InSelf
    <3>3. QED BY <3>2 DEF Active
  <2>4. QED BY <2>1, <2>2, <2>3
<1>5. ASSUME NEW x \in Modules, x \in done \/ \E j \in 1..Len(s) : s[j].op = "done" /\ s[j].on = x
      PROVE  x \in more \/ \E j \in 1..Len(new) : new[j].op = "done" /\ new[j].on = x
  <2>1. CASE x \in done
    BY <2>1 DEF Ended
  <2>2. ASSUME NEW j \in 1..Len(s), s[j].op = "done", s[j].on = x
        PROVE  x \in more \/ \E h \in 1..Len(new) : new[h].op = "done" /\ new[h].on = x
    <3>1. CASE j = 1
      BY <2>2, <3>1 DEF Ended
    <3>2. CASE j # 1
      <4>1. j - 1 \in 1..Len(new) /\ new[j - 1].op = "done" /\ new[j - 1].on = x
        BY <1>1, <2>2, <3>2
      <4>2. QED BY <4>1
    <3>3. QED BY <3>1, <3>2
  <2>3. QED BY <1>5, <2>1, <2>2
<1>6. Calls(s, t, a, last) /\ last \in Nat /\ Started(s, t, next, done, lt, a, last)
  BY DEF Progress, Calls
<1>7. CASE last # 0
  <2>1. Calls(new, t, a, last - 1)
    <3>1. Calls(new, t, a, last - 1 + 0)
      BY <1>1, <1>6, <1>7, CallsMoved
    <3>2. QED BY <1>6, <3>1
  <2>2. ASSUME NEW i \in 1..a, t[i] \in Modules, t[i] \notin lt, NEW p \in Modules,
               t[i] \in next[p], Active(new, more, p)
        PROVE  \E j \in 1..Len(new) : j <= last - 1 /\ new[j].op = "build" /\ new[j].on = t[i]
    <3>1. PICK j \in 1..Len(s) : j <= last /\ s[j].op = "build" /\ s[j].on = t[i]
      BY <1>4, <1>6, <2>2 DEF Started
    <3>2. j # 1
      BY <2>2, <3>1 DEF Ended
    <3>3. j - 1 \in 1..Len(new) /\ j - 1 <= last - 1 /\ new[j - 1].op = "build" /\ new[j - 1].on = t[i]
      BY <1>1, <1>6, <3>1, <3>2
    <3>4. QED BY <3>3
  <2>3. Started(new, t, next, more, lt, a, last - 1)
    BY <1>5, <1>6, <2>2 DEF Started
  <2>4. QED BY <2>1, <2>3 DEF Progress
<1>8. CASE last = 0
  <2>1. Calls(s, t, a, 0) /\ 1 \in 1..Len(s)
    BY <1>1, <1>6, <1>8
  <2>2. /\ s[1].op = "build" /\ s[1].on \notin Modules /\ more = done
        /\ a # Len(t) /\ t[a + 1] \notin Modules
    BY <2>1, NextCall DEF Ended
  <2>3. Calls(new, t, a + 1, 0)
    BY <1>1, <2>1, <2>2, NextStarted
  <2>4. a \in Nat
    BY <2>1 DEF Calls
  <2>5. Started(new, t, next, more, lt, a + 1, 0)
    <3>1. ASSUME NEW i \in 1..(a + 1), t[i] \in Modules
          PROVE  i \in 1..a
      BY <2>2, <2>4, <3>1
    <3>2. ASSUME NEW i \in 1..a, t[i] \in Modules, t[i] \notin lt, NEW p \in Modules,
                 t[i] \in next[p], Active(new, more, p)
          PROVE  FALSE
      <4>1. PICK j \in 1..Len(s) : j <= last
        BY <1>4, <1>6, <3>2 DEF Started
      <4>2. QED BY <1>1, <1>8, <4>1
    <3>3. ASSUME NEW i \in 1..(a + 1), t[i] \in Modules
          PROVE  /\ t[i] \in more \/ \E j \in 1..Len(new) : new[j].op = "done" /\ new[j].on = t[i]
                 /\ \A k \in 1..(a + 1) : t[k] = t[i] => k = i
                 /\ t[i] \notin lt => \A p \in Modules : ~(t[i] \in next[p] /\ Active(new, more, p))
      <4>1. i \in 1..a
        BY <3>1, <3>3
      <4>2. /\ t[i] \in done \/ \E j \in 1..Len(s) : s[j].op = "done" /\ s[j].on = t[i]
            /\ \A k \in 1..a : t[k] = t[i] => k = i
        BY <1>6, <3>3, <4>1 DEF Started
      <4>3. \A k \in 1..(a + 1) : t[k] = t[i] => k \in 1..a
        BY <3>1, <3>3
      <4>4. QED BY <1>5, <3>2, <3>3, <4>1, <4>2, <4>3
    <3>4. QED BY <3>3 DEF Started
  <2>6. QED BY <2>3, <2>5 DEF Progress
<1>9. QED BY <1>7, <1>8

LEMMA EnteredProgress ==
  ASSUME NEW s, NEW next \in Tree, NEW done \in SUBSET Modules, NEW lt, Stack(s, next, done, lt),
         NEW t, NEW a, NEW last, Progress(s, t, next, done, lt, a, last),
         NEW new, Entered(s, new, done)
  PROVE  \E b, l : Progress(new, t, next, done, lt, b, l)
<1> DEFINE x == s[1].on
<1>1. /\ Len(s) \in Nat /\ Len(s) >= 1 /\ Len(new) = Len(s) + 1
      /\ \A j \in 3..Len(new) : j - 1 \in 2..Len(s) /\ j - 1 \in 1..Len(s) /\ new[j] = s[j - 1]
      /\ \A j \in 2..Len(s) : j + 1 \in 1..Len(new) /\ new[j + 1] = s[j]
      /\ Moved(s, new, 2)
  BY DEF Entered, Moved
<1>2. /\ s[1].op = "build" /\ x \in Modules \ done
      /\ new[1].op = "self" /\ new[2].op = "done" /\ new[2].on = x
  BY DEF Entered
<1>3. ASSUME NEW p, Active(new, done, p) PROVE Active(s, done, p)
  <2>1. CASE p \in done
    BY <2>1 DEF Active
  <2>2. CASE p \notin done
    <3>1. PICK j \in 1..Len(new) : Waiting(new, j) /\ new[j].on = p
      BY <1>3, <2>2 DEF Active
    <3>2. j \in 3..Len(new)
      BY <1>1, <1>2, <3>1 DEF Waiting, InSelf
    <3>3. j - 1 \in 1..Len(s) /\ Waiting(s, j - 1) /\ s[j - 1].on = p
      BY <1>1, <1>2, <3>1, <3>2 DEF Waiting, InSelf
    <3>4. QED BY <3>3 DEF Active
  <2>3. QED BY <2>1, <2>2
<1>4. ASSUME NEW y, y \in done \/ \E j \in 1..Len(s) : s[j].op = "done" /\ s[j].on = y
      PROVE  y \in done \/ \E j \in 1..Len(new) : new[j].op = "done" /\ new[j].on = y
  <2>1. ASSUME NEW j \in 1..Len(s), s[j].op = "done", s[j].on = y
        PROVE  \E h \in 1..Len(new) : new[h].op = "done" /\ new[h].on = y
    <3>1. j \in 2..Len(s)
      BY <1>1, <1>2, <2>1
    <3>2. j + 1 \in 1..Len(new) /\ new[j + 1].op = "done" /\ new[j + 1].on = y
      BY <1>1, <2>1, <3>1
    <3>3. QED BY <3>2
  <2>2. QED BY <1>4, <2>1
<1>5. Calls(s, t, a, last) /\ last \in Nat /\ a \in Nat /\ Started(s, t, next, done, lt, a, last)
  BY DEF Progress, Calls
<1> HIDE DEF x
<1>6. CASE last # 0
  <2>1. Calls(new, t, a, last + 1)
    <3>1. Calls(new, t, a, last - 1 + 2) /\ last - 1 + 2 = last + 1
      BY <1>1, <1>5, <1>6, CallsMoved
    <3>2. QED BY <3>1
  <2>2. ASSUME NEW i \in 1..a, t[i] \in Modules, t[i] \notin lt, NEW p \in Modules,
               t[i] \in next[p], Active(new, done, p)
        PROVE  \E j \in 1..Len(new) : j <= last + 1 /\ new[j].op = "build" /\ new[j].on = t[i]
    <3>1. PICK j \in 1..Len(s) : j <= last /\ s[j].op = "build" /\ s[j].on = t[i]
      BY <1>3, <1>5, <2>2 DEF Started
    <3>2. j # 1
      <4>1. ASSUME j = 1 PROVE FALSE
        <5>1. t[i] = x /\ x \notin done
          BY <1>2, <3>1, <4>1 DEF x
        <5>2. PICK h \in 1..Len(s) : s[h].op = "done" /\ s[h].on = x
          BY <1>5, <2>2, <5>1 DEF Started
        <5>3. 1 < h /\ ~InSelf(s, h) /\ 1 \in 1..Len(s)
          BY <1>1, <1>2, <5>2 DEF InSelf
        <5>4. x \in Strict(x, next)
          BY <5>2, <5>3 DEF Stack, Nested, x
        <5>5. QED BY <1>2, <5>4, StrictHolds
      <4>2. QED BY <4>1
    <3>3. /\ j + 1 \in 1..Len(new) /\ j + 1 <= last + 1
          /\ new[j + 1].op = "build" /\ new[j + 1].on = t[i]
      BY SMTT(30), <1>1, <1>5, <3>1, <3>2
    <3>4. QED BY <3>3
  <2>3. Started(new, t, next, done, lt, a, last + 1)
    BY <1>4, <1>5, <2>2 DEF Started
  <2>4. QED BY <2>1, <2>3 DEF Progress
<1>7. CASE last = 0
  <2>1. Calls(s, t, a, 0)
    BY <1>5, <1>7
  <2>2. a # Len(t) /\ x = t[a + 1] /\ \A j \in 1..Len(s) : s[j].op # "done"
    BY <1>2, <2>1, NextCall DEF x
  <2>3. Calls(new, t, a + 1, 2)
    BY <1>1, <2>1, <2>2, NextStarted
  \* What was started is built, so it is not x.
  <2>4. ASSUME NEW i \in 1..a, t[i] \in Modules PROVE t[i] \in done /\ t[i] # t[a + 1]
    BY <1>2, <1>5, <2>2, <2>4 DEF Started
  \* No module is waiting, and a built one would have built x.
  <2>5. ASSUME NEW p \in Modules, Active(new, done, p), NEW i \in 1..(a + 1),
               t[i] \in Modules \ lt, t[i] \in next[p]
        PROVE  FALSE
    <3>1. Active(s, done, p)
      BY <1>3, <2>5
    <3>2. p \in done
      BY <2>2, <3>1 DEF Active, Waiting
    <3>3. t[i] \in done
      BY <2>5, <3>2 DEF Stack, Whole
    <3>4. i \in 1..a
      BY <1>2, <1>5, <2>2, <3>3
    <3>5. PICK j \in 1..Len(s) : j <= last
      BY <1>5, <2>5, <3>1, <3>4 DEF Started
    <3>6. QED BY <1>1, <1>7, <3>5
  <2>6. Started(new, t, next, done, lt, a + 1, 2)
    <3>1. ASSUME NEW i \in 1..(a + 1), t[i] \in Modules
          PROVE  t[i] \in done \/ \E j \in 1..Len(new) : new[j].op = "done" /\ new[j].on = t[i]
      <4>1. CASE i = a + 1
        <5>1. 2 \in 1..Len(new) /\ new[2].op = "done" /\ new[2].on = t[i]
          BY <1>1, <1>2, <2>2, <4>1
        <5>2. QED BY <5>1
      <4>2. CASE i # a + 1
        BY <1>5, <2>4, <3>1, <4>2
      <4>3. QED BY <4>1, <4>2
    <3>2. ASSUME NEW i \in 1..(a + 1), t[i] \in Modules, NEW k \in 1..(a + 1), t[k] = t[i]
          PROVE  k = i
      <4>1. CASE i = a + 1 /\ k # a + 1
        BY <1>5, <2>4, <3>2, <4>1
      <4>2. CASE k = a + 1 /\ i # a + 1
        BY <1>5, <2>4, <3>2, <4>2
      <4>3. CASE i # a + 1 /\ k # a + 1
        <5>1. i \in 1..a /\ k \in 1..a
          BY <1>5, <4>3
        <5>2. QED BY <1>5, <3>2, <5>1 DEF Started
      <4>4. QED BY <4>1, <4>2, <4>3
    <3>3. QED BY <2>5, <3>1, <3>2 DEF Started
  <2>7. QED BY <2>3, <2>6 DEF Progress
<1>8. QED BY <1>6, <1>7

LEMMA OpenedProgress ==
  ASSUME NEW s, NEW next \in Tree, NEW done \in SUBSET Modules, NEW lt, Stack(s, next, done, lt),
         NEW t, NEW a, NEW last, Progress(s, t, next, done, lt, a, last),
         NEW new, NEW subs, Opened(s, new, subs, next)
  PROVE  \E b, l : Progress(new, t, next, done, lt, b, l)
<1>a. PICK k : Unfolds(s, new, k, s[1].on, next) /\ Moved(s, new, k)
  BY OpenedCalls DEF Opened
<1>b. PICK m : m = s[1].on
  OBVIOUS
<1>1. /\ Len(s) \in Nat /\ Len(s) >= 2 /\ k \in Nat /\ Len(new) = Len(s) - 1 + k
      /\ m \in Modules /\ s[1].op = "self" /\ s[2].op = "done" /\ s[2].on = m
      /\ \A j \in 1..Len(new) : new[j].op # "self" /\ ~InSelf(new, j)
  BY <1>a, <1>b DEF Unfolds
<1>2. \A j \in 1..Len(new) :
        \/ j <= k /\ new[j].op = "build" /\ new[j].on \in next[m]
        \/ j > k /\ j + 1 - k \in 2..Len(s) /\ new[j] = s[j + 1 - k]
  BY <1>a, <1>b DEF Unfolds
<1>3. \A j \in 2..Len(s) : j - 1 + k \in 1..Len(new) /\ new[j - 1 + k] = s[j]
  BY <1>a, <1>b DEF Unfolds
<1>4. \A c \in next[m] : \E j \in 1..Len(new) : j <= k /\ new[j].op = "build" /\ new[j].on = c
  BY <1>a, <1>b DEF Unfolds
<1>5. Calls(s, t, a, last) /\ last \in Nat /\ Started(s, t, next, done, lt, a, last)
  BY DEF Progress, Calls
<1>6. last # 0
  <2>1. ASSUME last = 0 PROVE FALSE
    <3>1. Calls(s, t, a, 0) /\ 1 \in 1..Len(s)
      BY <1>1, <1>5, <2>1
    <3>2. QED BY <1>1, <3>1, NextCall
  <2>2. QED BY <2>1
<1>7. Calls(new, t, a, last - 1 + k)
  BY <1>a, <1>5, <1>6, CallsMoved
<1>8. ASSUME NEW p, Active(new, done, p) PROVE p = m \/ Active(s, done, p)
  <2>1. CASE p \in done
    BY <2>1 DEF Active
  <2>2. CASE p \notin done
    <3>1. PICK j \in 1..Len(new) : Waiting(new, j) /\ new[j].on = p
      BY <1>8, <2>2 DEF Active
    <3>2. PICK h \in 2..Len(s) : s[h] = new[j]
      BY <1>1, <1>2, <3>1 DEF Waiting
    <3>3. CASE h = 2
      BY <1>1, <3>1, <3>2, <3>3
    <3>4. CASE h # 2
      <4>1. h \in 1..Len(s) /\ Waiting(s, h) /\ s[h].on = p
        BY <1>1, <3>1, <3>2, <3>4 DEF Waiting, InSelf
      <4>2. QED BY <4>1 DEF Active
    <3>5. QED BY <3>3, <3>4
  <2>3. QED BY <2>1, <2>2
<1>9. ASSUME NEW y, y \in done \/ \E j \in 1..Len(s) : s[j].op = "done" /\ s[j].on = y
      PROVE  y \in done \/ \E j \in 1..Len(new) : new[j].op = "done" /\ new[j].on = y
  <2>1. ASSUME NEW j \in 1..Len(s), s[j].op = "done", s[j].on = y
        PROVE  \E h \in 1..Len(new) : new[h].op = "done" /\ new[h].on = y
    <3>1. j \in 2..Len(s)
      BY <1>1, <2>1
    <3>2. j - 1 + k \in 1..Len(new) /\ new[j - 1 + k].op = "done" /\ new[j - 1 + k].on = y
      BY <1>3, <2>1, <3>1
    <3>3. QED BY <3>2
  <2>2. QED BY <1>9, <2>1
<1>10. ASSUME NEW i \in 1..a, t[i] \in Modules, t[i] \notin lt, NEW p \in Modules,
              t[i] \in next[p], Active(new, done, p)
       PROVE  \E j \in 1..Len(new) : j <= last - 1 + k /\ new[j].op = "build" /\ new[j].on = t[i]
  <2>1. CASE p = m
    <3>1. PICK j \in 1..Len(new) : j <= k /\ new[j].op = "build" /\ new[j].on = t[i]
      BY <1>4, <1>10, <2>1
    <3>2. j <= last - 1 + k
      BY <1>1, <1>5, <1>6, <3>1
    <3>3. QED BY <3>1, <3>2
  <2>2. CASE p # m
    <3>1. PICK j \in 1..Len(s) : j <= last /\ s[j].op = "build" /\ s[j].on = t[i]
      BY <1>5, <1>8, <1>10, <2>2 DEF Started
    <3>2. j \in 2..Len(s)
      BY <1>1, <3>1
    <3>3. /\ j - 1 + k \in 1..Len(new) /\ j - 1 + k <= last - 1 + k
          /\ new[j - 1 + k].op = "build" /\ new[j - 1 + k].on = t[i]
      BY <1>1, <1>3, <1>5, <3>1, <3>2
    <3>4. QED BY <3>3
  <2>3. QED BY <2>1, <2>2
<1>11. Started(new, t, next, done, lt, a, last - 1 + k)
  BY <1>5, <1>9, <1>10 DEF Started
<1>12. QED BY <1>7, <1>11 DEF Progress

LEMMA LinkedProgress ==
  ASSUME NEW s \in Seq(Call), NEW next \in Tree, NEW done \in SUBSET Modules, NEW lt,
         Stack(s, next, done, lt), NEW m \in Modules, LinkedIn(s, next, m),
         NEW t, NEW a, NEW last, Progress(s, t, next, done, lt, a, last),
         NEW c \in Modules, NEW grown \in Tree, Linked(next, m, c, grown),
         NEW more, lt \subseteq more, m \in done => c \in more
  PROVE  Progress(s, t, grown, done, more, a, last)
<1>1. next \in Links
  BY DEF Tree, Links, Objects
<1>2. /\ grown[m] = next[m] \cup {c}
      /\ \A x \in Modules : x # m => grown[x] = next[x]
  BY <1>1, LinkValues
<1>3. Started(s, t, next, done, lt, a, last) /\ Calls(s, t, a, last)
  BY DEF Progress
<1>4. ASSUME NEW i \in 1..a, t[i] \in Modules, t[i] \notin more, NEW p \in Modules,
             t[i] \in grown[p], Active(s, done, p)
      PROVE  t[i] \in next[p]
  <2>1. CASE p = m
    <3>1. p \in done
      BY <1>4, <2>1, LinkedNotWaiting DEF Active
    <3>2. QED BY <1>2, <1>4, <2>1, <3>1
  <2>2. CASE p # m
    BY <1>2, <1>4, <2>2
  <2>3. QED BY <2>1, <2>2
<1>5. Started(s, t, grown, done, more, a, last)
  BY <1>3, <1>4 DEF Started
<1>6. QED BY <1>3, <1>5 DEF Progress

(* A built module below the system when its Build begins is come across.     *)
Doomed(s, next, done) ==
  \E j \in 1..Len(s) : s[j].op \in {"build", "self"} /\ Below({s[j].on}, next) \cap done # {}

LEMMA EndedDoomed ==
  ASSUME NEW s \in Seq(Call), NEW next \in Tree, NEW done \in SUBSET Modules,
         NEW new, NEW more, Ended(s, new, done, more), Doomed(s, next, done)
  PROVE  Doomed(new, next, more)
<1>1. PICK j \in 1..Len(s) :
        s[j].op \in {"build", "self"} /\ Below({s[j].on}, next) \cap done # {}
  BY DEF Doomed
<1>2. next \in Links
  BY DEF Tree, Links, Objects
<1>3. j # 1
  <2>1. ASSUME j = 1 PROVE FALSE
    <3>1. s[1].op = "build" /\ s[1].on \notin Modules
      BY <1>1, <2>1 DEF Ended
    <3>2. s[1].on \in Objects
      BY <3>1 DEF Call, Objects
    <3>3. Below({s[1].on}, next) = {s[1].on}
      BY <1>2, <3>1, <3>2, BelowPlain DEF Objects
    <3>4. QED BY <1>1, <2>1, <3>1, <3>3
  <2>2. QED BY <2>1
<1>4. j - 1 \in 1..Len(new) /\ new[j - 1] = s[j] /\ done \subseteq more
  BY <1>1, <1>3 DEF Ended, Moved
<1>5. QED BY <1>1, <1>4 DEF Doomed

LEMMA EnteredDoomed ==
  ASSUME NEW s, NEW next, NEW done, NEW new, Entered(s, new, done), Doomed(s, next, done)
  PROVE  Doomed(new, next, done)
<1>1. PICK j \in 1..Len(s) :
        s[j].op \in {"build", "self"} /\ Below({s[j].on}, next) \cap done # {}
  BY DEF Doomed
<1>2. CASE j = 1
  <2>1. 1 \in 1..Len(new) /\ new[1].op = "self" /\ new[1].on = s[1].on
    BY DEF Entered, Moved
  <2>2. QED BY <1>1, <1>2, <2>1 DEF Doomed
<1>3. CASE j # 1
  <2>1. j + 1 \in 1..Len(new) /\ new[j + 1] = s[j]
    BY <1>1, <1>3 DEF Entered, Moved
  <2>2. QED BY <1>1, <2>1 DEF Doomed
<1>4. QED BY <1>2, <1>3

LEMMA OpenedDoomed ==
  ASSUME NEW s, NEW next \in Tree, NEW done \in SUBSET Modules, NEW lt, Stack(s, next, done, lt),
         NEW new, NEW subs, Opened(s, new, subs, next), Doomed(s, next, done)
  PROVE  Doomed(new, next, done)
<1>1. PICK j \in 1..Len(s) :
        s[j].op \in {"build", "self"} /\ Below({s[j].on}, next) \cap done # {}
  BY DEF Doomed
<1>2. PICK k : Unfolds(s, new, k, s[1].on, next)
  BY OpenedCalls
<1>3. CASE j = 1
  <2>1. s[1].on \in Modules \ done
    BY <1>2 DEF Stack, Shape, Unfolds
  <2>2. next \in Links /\ next[s[1].on] \in SUBSET Objects
    BY <2>1 DEF Tree, Links, Objects
  <2>3. PICK b \in done : b \in Below({s[1].on}, next)
    BY <1>1, <1>3
  <2>4. b \in Below(next[s[1].on], next)
    BY <2>1, <2>2, <2>3, BelowUnfolds
  <2>5. PICK c \in next[s[1].on] : b \in Below({c}, next)
    BY <2>2, <2>4, BelowSplits
  <2>6. PICK i \in 1..Len(new) : new[i].op = "build" /\ new[i].on = c
    BY <1>2 DEF Unfolds
  <2>7. QED BY <2>3, <2>5, <2>6 DEF Doomed
<1>4. CASE j # 1
  <2>1. j \in 2..Len(s)
    BY <1>2, <1>4 DEF Unfolds
  <2>2. j - 1 + k \in 1..Len(new) /\ new[j - 1 + k] = s[j]
    BY <1>2, <2>1 DEF Unfolds
  <2>3. QED BY <1>1, <2>2 DEF Doomed
<1>5. QED BY <1>3, <1>4

LEMMA LinkedDoomed ==
  ASSUME NEW s \in Seq(Call), NEW next \in Tree, NEW done, NEW m \in Modules, NEW c \in Modules,
         NEW grown, Linked(next, m, c, grown), Doomed(s, next, done)
  PROVE  Doomed(s, grown, done)
<1>1. PICK j \in 1..Len(s) :
        s[j].op \in {"build", "self"} /\ Below({s[j].on}, next) \cap done # {}
  BY DEF Doomed
<1>2. next \in Links
  BY DEF Tree, Links, Objects
<1>3. {s[j].on} \in SUBSET Objects
  BY <1>1 DEF Call, Objects
<1>4. \A S \in SUBSET Objects : Below(S, next) \subseteq Below(S, grown)
  BY <1>2, LinksGrow
<1>5. Below({s[j].on}, next) \subseteq Below({s[j].on}, grown)
  BY <1>3, <1>4
<1>6. QED BY <1>1, <1>5 DEF Doomed

-----------------------------------------------------------------------------
(***************************************************************************)
(* What a Build leaves behind.                                              *)
(***************************************************************************)
SystemCall(s) == s # << >> /\ s[Len(s)].op = "simdone"

Running(s, t, next, done, lt, fnd) ==
  /\ \E a, last : Progress(s, t, next, done, lt, a, last)
  /\ fnd => Doomed(s, next, done)

Complete(t, next, done, lt) ==
  \A i \in 1..Len(t) : t[i] \in Modules \ lt =>
    /\ t[i] \in done
    /\ \A k \in 1..Len(t) : t[k] = t[i] => k = i
    /\ \A p \in done : t[i] \notin next[p]

BuildInv ==
  /\ Stack(todo, SubmodulesOf, built, late)
  /\ SystemCall(todo) => ~simBuilt /\ Running(todo, top, SubmodulesOf, built, late, found)
  /\ simBuilt => /\ ~found /\ (todo # << >> => top = << >>)
                 /\ Complete(top, SubmodulesOf, built, late)

LEMMA NoCalls ==
  ASSUME NEW next, NEW done, NEW lt, Whole(next, done, lt)
  PROVE  Stack(<< >>, next, done, lt) /\ ~SystemCall(<< >>)
BY DEF Stack, Shape, Nested, Waits, SystemCall

LEMMA BuildsOnly ==
  ASSUME NEW next, NEW done, NEW lt, Whole(next, done, lt), NEW s,
         \A i \in 1..Len(s) : s[i].op = "build" \/ (s[i].op = "simdone" /\ i = Len(s))
  PROVE  Stack(s, next, done, lt)
BY DEF Stack, Shape, Nested, Waits, Waiting

LEMMA SystemMoved ==
  ASSUME NEW s \in Seq(Call), NEW new \in Seq(Call), NEW k, Moved(s, new, k),
         SystemCall(new), Len(s) >= 2
  PROVE  SystemCall(s)
<1>1. Len(s) \in 2..Len(s) /\ Len(new) = Len(s) - 1 + k
  BY DEF Moved
<1>2. new[Len(s) - 1 + k] = s[Len(s)]
  BY <1>1 DEF Moved
<1>3. QED BY <1>1, <1>2 DEF SystemCall

LEMMA SubmodulesAreTree ==
  ASSUME TypeOK, TreeInv
  PROVE  SubmodulesOf \in Tree
BY MembersTyped DEF SubmodulesOf, Tree, TreeInv

LEMMA HeadIsFirst ==
  ASSUME NEW s \in Seq(Call), s # << >>
  PROVE  s[1] = Head(s) /\ Len(s) \in Nat /\ Len(s) >= 1
OBVIOUS

(* A step of the Build under way, for each kind of step.                     *)
LEMMA EndedStep ==
  ASSUME NEW s \in Seq(Call), NEW next \in Tree, NEW done \in SUBSET Modules, NEW lt,
         NEW new \in Seq(Call), NEW more, Stack(s, next, done, lt), Ended(s, new, done, more),
         NEW t, NEW fnd
  PROVE  /\ Stack(new, next, more, lt)
         /\ SystemCall(new) => SystemCall(s)
         /\ Running(s, t, next, done, lt, fnd) => Running(new, t, next, more, lt, fnd)
<1>1. Stack(new, next, more, lt)
  BY EndedStack
<1>2. ASSUME SystemCall(new) PROVE SystemCall(s)
  <2>1. Moved(s, new, 0)
    BY DEF Ended
  <2>2. Len(new) \in Nat /\ Len(new) # 0 /\ Len(s) \in Nat /\ Len(new) = Len(s) - 1 + 0
    BY <1>2, <2>1 DEF SystemCall, Moved
  <2>3. Len(s) >= 2
    BY <2>2
  <2>4. QED BY <1>2, <2>1, <2>3, SystemMoved
<1>3. ASSUME Running(s, t, next, done, lt, fnd) PROVE Running(new, t, next, more, lt, fnd)
  <2>1. PICK a, last : Progress(s, t, next, done, lt, a, last)
    BY <1>3 DEF Running
  <2>2. \E b, l : Progress(new, t, next, more, lt, b, l)
    BY <2>1, EndedProgress
  <2>3. fnd => Doomed(new, next, more)
    BY <1>3, EndedDoomed DEF Running
  <2>4. QED BY <2>2, <2>3 DEF Running
<1>4. QED BY <1>1, <1>2, <1>3

LEMMA EnteredStep ==
  ASSUME NEW s \in Seq(Call), NEW next \in Tree, NEW done \in SUBSET Modules, NEW lt,
         NEW new \in Seq(Call), Stack(s, next, done, lt), Entered(s, new, done),
         NEW t, NEW fnd
  PROVE  /\ Stack(new, next, done, lt)
         /\ SystemCall(new) => SystemCall(s)
         /\ Running(s, t, next, done, lt, fnd) => Running(new, t, next, done, lt, fnd)
<1>1. Stack(new, next, done, lt)
  BY EnteredStack
<1>2. ASSUME SystemCall(new) PROVE SystemCall(s)
  <2>1. Moved(s, new, 2) /\ new[2].op = "done"
    BY DEF Entered
  <2>2. Len(s) \in Nat /\ Len(s) >= 1 /\ Len(new) = Len(s) - 1 + 2 /\ Len(new) # 2
    BY <1>2, <2>1 DEF SystemCall, Moved
  <2>3. Len(s) >= 2
    BY <2>2
  <2>4. QED BY <1>2, <2>1, <2>3, SystemMoved
<1>3. ASSUME Running(s, t, next, done, lt, fnd) PROVE Running(new, t, next, done, lt, fnd)
  <2>1. PICK a, last : Progress(s, t, next, done, lt, a, last)
    BY <1>3 DEF Running
  <2>2. \E b, l : Progress(new, t, next, done, lt, b, l)
    BY <2>1, EnteredProgress
  <2>3. fnd => Doomed(new, next, done)
    BY <1>3, EnteredDoomed DEF Running
  <2>4. QED BY <2>2, <2>3 DEF Running
<1>4. QED BY <1>1, <1>2, <1>3

LEMMA OpenedStep ==
  ASSUME NEW s \in Seq(Call), NEW next \in Tree, NEW done \in SUBSET Modules, NEW lt,
         NEW new \in Seq(Call), NEW subs, Stack(s, next, done, lt), Opened(s, new, subs, next),
         NEW t, NEW fnd
  PROVE  /\ Stack(new, next, done, lt)
         /\ SystemCall(new) => SystemCall(s)
         /\ Running(s, t, next, done, lt, fnd) => Running(new, t, next, done, lt, fnd)
<1>1. Stack(new, next, done, lt)
  BY OpenedStack
<1>2. ASSUME SystemCall(new) PROVE SystemCall(s)
  <2>1. Moved(s, new, Len(subs))
    BY DEF Opened
  <2>2. Len(s) >= 2
    BY OpenedCalls DEF Unfolds
  <2>3. QED BY <1>2, <2>1, <2>2, SystemMoved
<1>3. ASSUME Running(s, t, next, done, lt, fnd) PROVE Running(new, t, next, done, lt, fnd)
  <2>1. PICK a, last : Progress(s, t, next, done, lt, a, last)
    BY <1>3 DEF Running
  <2>2. \E b, l : Progress(new, t, next, done, lt, b, l)
    BY <2>1, OpenedProgress
  <2>3. fnd => Doomed(new, next, done)
    BY <1>3, OpenedDoomed DEF Running
  <2>4. QED BY <2>2, <2>3 DEF Running
<1>4. QED BY <1>1, <1>2, <1>3

LEMMA LinkedStep ==
  ASSUME NEW s \in Seq(Call), NEW next \in Tree, NEW done \in SUBSET Modules, NEW lt,
         Stack(s, next, done, lt), NEW m \in Modules, LinkedIn(s, next, m),
         NEW c \in Modules, NEW grown \in Tree, Linked(next, m, c, grown),
         NEW more, lt \subseteq more, m \in done => c \in more,
         NEW t, NEW fnd
  PROVE  /\ Stack(s, grown, done, more)
         /\ Running(s, t, next, done, lt, fnd) => Running(s, t, grown, done, more, fnd)
         /\ Complete(t, next, done, lt) => Complete(t, grown, done, more)
<1>1. Stack(s, grown, done, more)
  BY LinkedStack
<1>2. ASSUME Running(s, t, next, done, lt, fnd) PROVE Running(s, t, grown, done, more, fnd)
  <2>1. PICK a, last : Progress(s, t, next, done, lt, a, last)
    BY <1>2 DEF Running
  <2>2. Progress(s, t, grown, done, more, a, last)
    BY <2>1, LinkedProgress
  <2>3. fnd => Doomed(s, grown, done)
    BY <1>2, LinkedDoomed DEF Running
  <2>4. QED BY <2>2, <2>3 DEF Running
<1>3. ASSUME Complete(t, next, done, lt) PROVE Complete(t, grown, done, more)
  <2>1. next \in Links
    BY DEF Tree, Links, Objects
  <2>2. /\ grown[m] = next[m] \cup {c}
        /\ \A x \in Modules : x # m => grown[x] = next[x]
    BY <2>1, LinkValues
  <2>3. QED BY <1>3, <2>2 DEF Complete
<1>4. QED BY <1>1, <1>2, <1>3

LEMMA InitBuild == Init => BuildInv
<1> SUFFICES ASSUME Init PROVE BuildInv
  OBVIOUS
<1>1. todo = << >> /\ simBuilt = FALSE /\ Whole(SubmodulesOf, built, late)
  BY DEF Init, Whole
<1>2. QED BY <1>1, NoCalls DEF BuildInv

\* A step that changes nothing a Build depends on, or ends every Build.
LEMMA BuildKept ==
  ASSUME BuildInv, UNCHANGED <<submodules, built, late, top, found, simBuilt>>,
         todo' = todo \/ todo' = << >>
  PROVE  BuildInv'
<1>1. SubmodulesOf' = SubmodulesOf
  BY DEF SubmodulesOf
<1>2. CASE todo' = todo
  BY <1>1, <1>2 DEF BuildInv
<1>3. CASE todo' = << >>
  <2>1. Whole(SubmodulesOf, built, late)
    BY DEF BuildInv, Stack
  <2>2. Stack(<< >>, SubmodulesOf, built, late) /\ ~SystemCall(<< >>)
    BY <2>1, NoCalls
  <2>3. QED BY <1>1, <1>3, <2>2 DEF BuildInv
<1>4. QED BY <1>2, <1>3

-----------------------------------------------------------------------------
LEMMA BuildGoesOn ==
  ASSUME BuildInv, UNCHANGED <<submodules, top, late, found, simBuilt>>, todo # << >>,
         Stack(todo', SubmodulesOf, built', late),
         SystemCall(todo') => SystemCall(todo),
         Running(todo, top, SubmodulesOf, built, late, found)
           => Running(todo', top, SubmodulesOf, built', late, found)
  PROVE  BuildInv'
<1>1. SubmodulesOf' = SubmodulesOf
  BY DEF SubmodulesOf
<1>2. Stack(todo', SubmodulesOf', built', late')
  BY <1>1
<1>3. ASSUME SystemCall(todo')
      PROVE  ~simBuilt' /\ Running(todo', top', SubmodulesOf', built', late', found')
  BY <1>1, <1>3 DEF BuildInv
<1>4. ASSUME simBuilt'
      PROVE  ~found' /\ top' = << >> /\ Complete(top', SubmodulesOf', built', late')
  <2>1. ~found /\ top = << >>
    BY <1>4 DEF BuildInv
  <2>2. QED BY <2>1 DEF Complete
<1>5. QED BY <1>2, <1>3, <1>4 DEF BuildInv

LEMMA EnterKeeps ==
  ASSUME TypeOK, TypeOK', TreeInv, BuildInv, NEW x \in Objects, EnterBuild(x)
  PROVE  BuildInv'
<1>1. todo \in Seq(Call) /\ todo' \in Seq(Call) /\ built \in SUBSET Modules
  BY DEF TypeOK
<1>2. /\ todo # << >> /\ Head(todo) = [op |-> "build", on |-> x]
      /\ UNCHANGED <<submodules, top, late, found, simBuilt, built>>
  BY DEF EnterBuild, Idle
<1>3. /\ todo[1] = Head(todo) /\ todo[1].op = "build" /\ todo[1].on = x
  BY <1>1, <1>2, HeadIsFirst
<1>4. SubmodulesOf \in Tree /\ Stack(todo, SubmodulesOf, built, late)
  BY SubmodulesAreTree DEF BuildInv
<1>5. CASE x \in Plain
  <2>1. todo' = Tail(todo)
    BY <1>5 DEF EnterBuild
  <2>2. Ended(todo, todo', built, built')
    <3>1. Moved(todo, Tail(todo), 0)
      BY <1>1, <1>2, PopMoves
    <3>2. x \notin Modules
      BY <1>5, WiringConstants
    <3>3. QED BY <1>2, <1>3, <2>1, <3>1, <3>2 DEF Ended
  <2>3. /\ Stack(todo', SubmodulesOf, built', late)
        /\ SystemCall(todo') => SystemCall(todo)
        /\ Running(todo, top, SubmodulesOf, built, late, found)
             => Running(todo', top, SubmodulesOf, built', late, found)
    BY <1>1, <1>4, <2>2, EndedStep
  <2>4. QED BY <1>2, <2>3, BuildGoesOn
<1>6. CASE x \notin Plain /\ x \notin built
  <2> DEFINE pre == <<[op |-> "self", on |-> x], [op |-> "done", on |-> x]>>
  <2>1. todo' = pre \o Tail(todo)
    BY <1>6 DEF EnterBuild, Buildable
  <2>2. pre \in Seq(Call)
    <3>1. \A e, f \in Call : <<e, f>> \in Seq(Call)
      OBVIOUS
    <3>2. [op |-> "self", on |-> x] \in Call /\ [op |-> "done", on |-> x] \in Call
      BY CallTypes DEF Objects
    <3>3. QED BY <3>1, <3>2
  <2>3. pre[1].op = "self" /\ pre[1].on = x /\ pre[2].op = "done" /\ pre[2].on = x
    OBVIOUS
  <2>4. Moved(todo, todo', 2) /\ todo'[1] = pre[1] /\ todo'[2] = pre[2]
    <3>a. Len(pre) = 2 /\ 1 \in 1..2 /\ 2 \in 1..2
      OBVIOUS
    <3> HIDE DEF pre
    <3>1. /\ Moved(todo, pre \o Tail(todo), Len(pre))
          /\ \A j \in 1..Len(pre) : (pre \o Tail(todo))[j] = pre[j]
      BY <1>1, <1>2, <2>2, PushMoves
    <3>2. QED BY <2>1, <3>a, <3>1
  <2> HIDE DEF pre
  <2>5. Entered(todo, todo', built)
    <3>1. x \in Modules \ built
      BY <1>6 DEF Objects
    <3>2. QED BY <1>3, <2>3, <2>4, <3>1 DEF Entered
  <2>6. /\ Stack(todo', SubmodulesOf, built, late)
        /\ SystemCall(todo') => SystemCall(todo)
        /\ Running(todo, top, SubmodulesOf, built, late, found)
             => Running(todo', top, SubmodulesOf, built, late, found)
    BY <1>1, <1>4, <2>5, EnteredStep
  <2>7. built' = built
    BY <1>2
  <2>8. QED BY <1>2, <2>6, <2>7, BuildGoesOn
<1>7. CASE x \notin Plain /\ x \in built
  <2>1. todo' = << >>
    BY <1>7 DEF EnterBuild, Buildable, Thrown
  <2>2. QED BY <1>2, <2>1, BuildKept
<1>8. QED BY <1>5, <1>6, <1>7

LEMMA LeaveKeeps ==
  ASSUME TypeOK, TypeOK', TreeInv, BuildInv, NEW m \in Modules, LeaveBuildSelf(m)
  PROVE  BuildInv'
<1>1. todo \in Seq(Call) /\ todo' \in Seq(Call) /\ built \in SUBSET Modules
  BY DEF TypeOK
<1>2. /\ todo # << >> /\ Head(todo) = [op |-> "self", on |-> m]
      /\ todo' = Builds(submodules[m]) \o Tail(todo)
      /\ UNCHANGED <<submodules, top, late, found, simBuilt, built>>
  BY DEF LeaveBuildSelf, InBuildSelf, Idle
<1>3. /\ todo[1] = Head(todo) /\ todo[1].op = "self" /\ todo[1].on = m
  BY <1>1, <1>2, HeadIsFirst
<1>4. SubmodulesOf \in Tree /\ Stack(todo, SubmodulesOf, built, late)
  BY SubmodulesAreTree DEF BuildInv
<1> DEFINE subs == submodules[m]
<1>5. subs \in Seq(Modules) /\ subs \in Seq(Modules \cup Plain)
  BY DEF TypeOK
<1>6. /\ Builds(subs) \in Seq(Call) /\ Len(Builds(subs)) = Len(subs)
      /\ \A j \in 1..Len(subs) : Builds(subs)[j].op = "build" /\ Builds(subs)[j].on = subs[j]
  <2> HIDE DEF subs
  <2>1. Builds(subs) \in Seq(Call)
    BY <1>5, BuildsTypes
  <2>2. QED BY <1>5, <2>1 DEF Builds
<1>7. SubmodulesOf[m] = Members(subs)
  BY DEF SubmodulesOf
<1>8. Opened(todo, todo', subs, SubmodulesOf)
  <2>1. todo' = Builds(subs) \o Tail(todo)
    BY <1>2
  <2> HIDE DEF subs
  <2>2. /\ Moved(todo, Builds(subs) \o Tail(todo), Len(Builds(subs)))
        /\ \A j \in 1..Len(Builds(subs)) : (Builds(subs) \o Tail(todo))[j] = Builds(subs)[j]
    BY <1>1, <1>2, <1>6, PushMoves
  <2>3. /\ Moved(todo, todo', Len(subs))
        /\ \A j \in 1..Len(subs) : todo'[j].op = "build" /\ todo'[j].on = subs[j]
    BY <1>6, <2>1, <2>2
  <2>4. QED BY <1>3, <1>5, <1>7, <2>3 DEF Opened
<1> HIDE DEF subs
<1>9. /\ Stack(todo', SubmodulesOf, built, late)
      /\ SystemCall(todo') => SystemCall(todo)
      /\ Running(todo, top, SubmodulesOf, built, late, found)
           => Running(todo', top, SubmodulesOf, built, late, found)
  BY <1>1, <1>4, <1>8, OpenedStep
<1>10. built' = built
  BY <1>2
<1>11. QED BY <1>2, <1>9, <1>10, BuildGoesOn

LEMMA FinishKeeps ==
  ASSUME TypeOK, TypeOK', TreeInv, BuildInv, NEW m \in Modules, FinishBuild(m)
  PROVE  BuildInv'
<1>1. todo \in Seq(Call) /\ todo' \in Seq(Call) /\ built \in SUBSET Modules
  BY DEF TypeOK
<1>2. /\ todo # << >> /\ Head(todo) = [op |-> "done", on |-> m]
      /\ todo' = Tail(todo) /\ built' = built \cup {m}
      /\ UNCHANGED <<submodules, top, late, found, simBuilt>>
  BY DEF FinishBuild, Idle
<1>3. /\ todo[1] = Head(todo) /\ todo[1].op = "done" /\ todo[1].on = m
  BY <1>1, <1>2, HeadIsFirst
<1>4. SubmodulesOf \in Tree /\ Stack(todo, SubmodulesOf, built, late)
  BY SubmodulesAreTree DEF BuildInv
<1>5. Ended(todo, todo', built, built')
  <2>1. Moved(todo, Tail(todo), 0)
    BY <1>1, <1>2, PopMoves
  <2>2. QED BY <1>2, <1>3, <2>1 DEF Ended
<1>6. /\ Stack(todo', SubmodulesOf, built', late)
      /\ SystemCall(todo') => SystemCall(todo)
      /\ Running(todo, top, SubmodulesOf, built, late, found)
           => Running(todo', top, SubmodulesOf, built', late, found)
  BY <1>1, <1>4, <1>5, EndedStep
<1>7. QED BY <1>2, <1>6, BuildGoesOn

LEMMA FinishSystemKeeps ==
  ASSUME TypeOK, BuildInv, FinishSystemBuild
  PROVE  BuildInv'
<1>1. todo \in Seq(Call) /\ top \in Seq(Objects) /\ Len(top) \in Nat
  BY DEF TypeOK, Objects
<1>2. /\ todo # << >> /\ Head(todo).op = "simdone" /\ todo' = Tail(todo) /\ simBuilt'
      /\ UNCHANGED <<submodules, top, late, found, built>>
  BY DEF FinishSystemBuild, Idle
<1>3. todo[1].op = "simdone" /\ Len(todo) = 1
  <2>1. todo[1].op = "simdone" /\ 1 \in 1..Len(todo)
    BY <1>1, <1>2, HeadIsFirst
  <2>2. QED BY <2>1 DEF BuildInv, Stack, Shape
<1>4. todo' = << >>
  BY <1>1, <1>2, <1>3
<1>5. Running(todo, top, SubmodulesOf, built, late, found)
  BY <1>2, <1>3 DEF BuildInv, SystemCall
<1>6. ~found
  BY <1>3, <1>5 DEF Running, Doomed
<1>7. PICK a, last : Progress(todo, top, SubmodulesOf, built, late, a, last)
  BY <1>5 DEF Running
<1>8. a = Len(top) /\ last = 0
  <2>1. /\ a \in 0..Len(top) /\ last \in Nat /\ Len(todo) = last + (Len(top) - a) + 1
    BY <1>7 DEF Progress, Calls
  <2>2. \A n \in Nat : \A b \in 0..n, l \in Nat : 1 = l + (n - b) + 1 => b = n /\ l = 0
    OBVIOUS
  <2>3. QED BY <1>1, <1>3, <2>1, <2>2
<1>9. Started(todo, top, SubmodulesOf, built, late, Len(top), 0)
  BY <1>7, <1>8 DEF Progress
<1>10. Complete(top, SubmodulesOf, built, late)
  <2>1. ASSUME NEW i \in 1..Len(top), top[i] \in Modules \ late
        PROVE  /\ top[i] \in built
               /\ \A k \in 1..Len(top) : top[k] = top[i] => k = i
               /\ \A p \in built : top[i] \notin SubmodulesOf[p]
    <3>1. \A j \in 1..Len(todo) : j = 1 /\ todo[j].op # "done"
      BY <1>3
    <3>2. top[i] \in built /\ \A k \in 1..Len(top) : top[k] = top[i] => k = i
      BY <1>9, <2>1, <3>1 DEF Started
    <3>3. ASSUME NEW p \in built, top[i] \in SubmodulesOf[p] PROVE FALSE
      <4>1. p \in Modules /\ Active(todo, built, p)
        BY DEF TypeOK, Active
      <4>2. \E j \in 1..Len(todo) : j <= 0
        BY <1>9, <2>1, <3>3, <4>1 DEF Started
      <4>3. QED BY <3>1, <4>2
    <3>4. QED BY <3>2, <3>3
  <2>2. QED BY <2>1 DEF Complete
<1>11. SubmodulesOf' = SubmodulesOf
  BY <1>2 DEF SubmodulesOf
<1>12. Whole(SubmodulesOf, built, late)
  BY DEF BuildInv, Stack
<1>13. Stack(<< >>, SubmodulesOf, built, late) /\ ~SystemCall(<< >>)
  BY <1>12, NoCalls
<1>14. QED BY <1>2, <1>4, <1>6, <1>10, <1>11, <1>13 DEF BuildInv

LEMMA StartSystemKeeps ==
  ASSUME TypeOK, TreeInv, BuildInv, StartSystemBuild
  PROVE  BuildInv'
<1>1. top \in Seq(Objects) /\ Len(top) \in Nat
  BY DEF TypeOK, Objects
<1>2. /\ todo' = Append(Builds(top), [op |-> "simdone"]) /\ ~simBuilt
      /\ found' = (Reachable \cap built # {})
      /\ UNCHANGED <<submodules, top, late, built, simBuilt>>
  BY DEF StartSystemBuild, Buildable
<1>3. PICK s : s = todo'
  OBVIOUS
<1>4. /\ Len(s) = Len(top) + 1 /\ s[Len(top) + 1].op = "simdone"
      /\ \A j \in 1..Len(top) : s[j].op = "build" /\ s[j].on = top[j]
  <2>1. Builds(top) \in Seq(Call) /\ Len(Builds(top)) = Len(top)
    BY <1>1, BuildsTypes DEF Builds, Objects
  <2>2. \A j \in 1..Len(top) : Builds(top)[j].op = "build" /\ Builds(top)[j].on = top[j]
    BY DEF Builds
  <2>3. \A e : e \in Call => /\ Len(Append(Builds(top), e)) = Len(top) + 1
                             /\ Append(Builds(top), e)[Len(top) + 1] = e
                             /\ \A j \in 1..Len(top) : Append(Builds(top), e)[j] = Builds(top)[j]
    BY <1>1, <2>1
  <2>4. [op |-> "simdone"] \in Call /\ [op |-> "simdone"].op = "simdone"
    BY CallTypes
  <2>5. QED BY <1>2, <1>3, <2>2, <2>3, <2>4
<1>5. Stack(s, SubmodulesOf, built, late)
  <2>1. Whole(SubmodulesOf, built, late)
    BY DEF BuildInv, Stack
  <2>2. \A i \in 1..Len(s) : s[i].op = "build" \/ (s[i].op = "simdone" /\ i = Len(s))
    BY <1>1, <1>4
  <2>3. QED BY <2>1, <2>2, BuildsOnly
<1>6. Progress(s, top, SubmodulesOf, built, late, 0, 0)
  <2>1. Calls(s, top, 0, 0)
    BY <1>1, <1>4 DEF Calls
  <2>2. QED BY <2>1 DEF Progress, Started
<1>7. ASSUME found' PROVE Doomed(s, SubmodulesOf, built)
  <2>1. PICK b \in built : b \in Below(Members(top), SubmodulesOf)
    BY <1>2, <1>7 DEF Reachable
  <2>2. SubmodulesOf \in Links /\ Members(top) \in SUBSET Objects
    BY SubmodulesAreLinks, MembersTyped
  <2>3. PICK x \in Members(top) : b \in Below({x}, SubmodulesOf)
    BY <2>1, <2>2, BelowSplits
  <2>4. PICK j \in 1..Len(top) : top[j] = x
    BY DEF Members
  <2>5. j \in 1..Len(s) /\ s[j].op = "build" /\ s[j].on = x
    BY <1>1, <1>4, <2>4
  <2>6. QED BY <2>1, <2>3, <2>5 DEF Doomed
<1>8. Running(s, top, SubmodulesOf, built, late, found')
  BY <1>6, <1>7 DEF Running
<1>9. SubmodulesOf' = SubmodulesOf
  BY <1>2 DEF SubmodulesOf
<1>10. QED BY <1>2, <1>3, <1>5, <1>8, <1>9 DEF BuildInv

LEMMA StartModuleKeeps ==
  ASSUME TypeOK, BuildInv, NEW m \in Modules, StartModuleBuild(m)
  PROVE  BuildInv'
<1>1. /\ todo' = Builds(<<m>>) /\ top = << >> /\ todo = << >>
      /\ UNCHANGED <<submodules, top, late, built, simBuilt, found>>
  BY DEF StartModuleBuild, Idle
<1>2. PICK s : s = Builds(<<m>>)
  OBVIOUS
<1>3. s[1].op = "build" /\ Len(s) = 1
  <2>1. <<m>> \in Seq(Modules \cup Plain) /\ Len(<<m>>) = 1
    OBVIOUS
  <2>2. s \in Seq(Call) /\ s = [i \in 1..1 |-> [op |-> "build", on |-> <<m>>[i]]]
    BY <1>2, <2>1, BuildsTypes DEF Builds
  <2>3. QED BY <2>2
<1>4. Stack(s, SubmodulesOf, built, late) /\ ~SystemCall(s)
  <2>1. Whole(SubmodulesOf, built, late)
    BY DEF BuildInv, Stack
  <2>2. \A i \in 1..Len(s) : s[i].op = "build"
    BY <1>3
  <2>3. QED BY <1>3, <2>1, <2>2, BuildsOnly DEF SystemCall
<1>5. SubmodulesOf' = SubmodulesOf
  BY <1>1 DEF SubmodulesOf
<1>6. simBuilt => ~found /\ Complete(top, SubmodulesOf, built, late)
  BY DEF BuildInv
<1>7. QED BY <1>1, <1>2, <1>4, <1>5, <1>6 DEF BuildInv

LEMMA RegisterKeepsBuild ==
  ASSUME TypeOK, BuildInv, NEW x \in Objects, AddModule(x)
  PROVE  BuildInv'
<1>1. /\ todo = << >> /\ todo' = << >> /\ top' = Append(top, x)
      /\ late' = IF simBuilt THEN late \cup {x} ELSE late
      /\ UNCHANGED <<submodules, built, simBuilt, found>>
  BY DEF AddModule, Idle
<1>2. SubmodulesOf' = SubmodulesOf
  BY <1>1 DEF SubmodulesOf
<1>3. Whole(SubmodulesOf, built, late')
  BY <1>1 DEF BuildInv, Stack, Whole
<1>4. Stack(<< >>, SubmodulesOf, built, late') /\ ~SystemCall(<< >>)
  BY <1>3, NoCalls
<1>5. ASSUME simBuilt PROVE Complete(top', SubmodulesOf, built, late')
  <2>1. /\ top \in Seq(Objects) /\ Len(top) \in Nat /\ Len(top') = Len(top) + 1
        /\ top'[Len(top) + 1] = x /\ \A i \in 1..Len(top) : top'[i] = top[i]
    BY <1>1 DEF TypeOK, Objects
  <2>2. late' = late \cup {x} /\ Complete(top, SubmodulesOf, built, late)
    BY <1>1, <1>5 DEF BuildInv
  <2>3. ASSUME NEW i \in 1..Len(top'), top'[i] \notin late' PROVE i \in 1..Len(top)
    BY <2>1, <2>2, <2>3
  <2>4. ASSUME NEW i \in 1..Len(top'), top'[i] \in Modules \ late'
        PROVE  /\ top'[i] \in built
               /\ \A k \in 1..Len(top') : top'[k] = top'[i] => k = i
               /\ \A p \in built : top'[i] \notin SubmodulesOf[p]
    <3>1. i \in 1..Len(top) /\ top'[i] = top[i] /\ top[i] \in Modules \ late
      BY <2>1, <2>2, <2>3, <2>4
    <3>2. \A k \in 1..Len(top') : top'[k] = top'[i] => k \in 1..Len(top)
      BY <2>3, <2>4
    <3>3. QED BY <2>1, <2>2, <3>1, <3>2 DEF Complete
  <2>5. QED BY <2>4 DEF Complete
<1>6. QED BY <1>1, <1>2, <1>4, <1>5 DEF BuildInv

LEMMA LinkKeepsBuild ==
  ASSUME TypeOK, TypeOK', TreeInv, TreeInv', BuildInv,
         NEW m \in Modules, NEW c \in Modules, AddSubmodule(m, c)
  PROVE  BuildInv'
<1>1. /\ late' = IF m \in built THEN late \cup {c} ELSE late
      /\ UNCHANGED <<todo, top, built, simBuilt, found>> /\ MayWire(m)
  BY DEF AddSubmodule
<1>2. todo \in Seq(Call) /\ built \in SUBSET Modules
  BY DEF TypeOK
<1>3. SubmodulesOf \in Tree /\ Stack(todo, SubmodulesOf, built, late)
  BY SubmodulesAreTree DEF BuildInv
<1>4. PICK grown : grown = SubmodulesOf'
  OBVIOUS
<1>5. grown \in Tree /\ Linked(SubmodulesOf, m, c, grown)
  <2>1. SubmodulesOf' = [x \in Modules |-> Members(submodules'[x])] /\ Acyclic(SubmodulesOf')
    BY DEF SubmodulesOf, TreeInv
  <2>2. \A x \in Modules : Members(submodules'[x]) \in SUBSET Modules
    <3>1. submodules' \in [Modules -> Seq(Modules)]
      BY DEF TypeOK
    <3>2. ASSUME NEW t \in Seq(Modules) PROVE Members(t) \in SUBSET Modules
      BY DEF Members
    <3>3. QED BY <3>1, <3>2
  <2>3. SubmodulesOf' \in Tree
    BY <2>1, <2>2 DEF Tree
  <2>4. QED BY <1>4, <2>3, LinkAdded
<1>6. LinkedIn(todo, SubmodulesOf, m)
  <2>1. ASSUME todo # << >>
        PROVE  todo[1].op = "self" /\ (todo[1].on = m \/ m \in SubmodulesOf[todo[1].on])
    <3>1. PICK x \in {m} \cup Parents(m) : Head(todo) = [op |-> "self", on |-> x]
      BY <1>1, <2>1 DEF MayWire, Idle, InBuildSelf
    <3>2. todo[1].op = "self" /\ todo[1].on = x
      BY <1>2, <2>1, <3>1, HeadIsFirst
    <3>3. x = m \/ m \in SubmodulesOf[x]
      BY <3>1 DEF Parents, SubmodulesOf
    <3>4. QED BY <3>2, <3>3
  <2>2. QED BY <2>1 DEF LinkedIn
<1>7. late \subseteq late' /\ (m \in built => c \in late')
  BY <1>1
<1>8. /\ Stack(todo, grown, built, late')
      /\ Running(todo, top, SubmodulesOf, built, late, found)
           => Running(todo, top, grown, built, late', found)
      /\ Complete(top, SubmodulesOf, built, late) => Complete(top, grown, built, late')
  BY <1>2, <1>3, <1>5, <1>6, <1>7, LinkedStep
<1>9. QED BY <1>1, <1>4, <1>8 DEF BuildInv

LEMMA StepBuild ==
  ASSUME TypeOK, TypeOK', TreeInv, TreeInv', BuildInv, [Next]_vars
  PROVE  BuildInv'
<1>1. ASSUME NEW m \in Modules,
             \/ \E r \in Roles, complete \in BOOLEAN : DescribePort(m, r, complete)
             \/ \E r \in Roles, q \in Offered(m) \cup {Void} :
                  \/ AddPort(m, r, q)
                  \/ \E i \in 1..Len(ports[m][r]) : BindPort(m, r, i, q)
             \/ \E enabled \in BOOLEAN : SetRequireIOContract(m, enabled)
             \/ \E q \in Queues : CreateOwnedQueue(m, q)
      PROVE  BuildInv'
  <2>1. /\ UNCHANGED <<submodules, built, late, top, found, simBuilt>>
        /\ todo' = todo \/ todo' = << >>
    BY <1>1 DEF DescribePort, AddPort, BindPort, SetRequireIOContract, CreateOwnedQueue, Thrown
  <2>2. QED BY <2>1, BuildKept
<1>2. ASSUME UNCHANGED vars PROVE BuildInv'
  BY <1>2, BuildKept DEF vars
<1>3. CASE Build
  BY <1>3, StartSystemKeeps, FinishSystemKeeps, EnterKeeps, StartModuleKeeps, LeaveKeeps,
     FinishKeeps DEF Build, Objects
<1>4. ASSUME NEW x \in Modules \cup Plain, AddModule(x) PROVE BuildInv'
  BY <1>4, RegisterKeepsBuild DEF Objects
<1>5. QED BY <1>1, <1>2, <1>3, <1>4, LinkKeepsBuild DEF Next, Wire

-----------------------------------------------------------------------------
(* What was there in time and is no late object is built, and each module of  *)
(* it was come by once.                                                     *)
LEMMA SettledIsBuilt ==
  ASSUME TypeOK, TreeInv, BuildInv, simBuilt
  PROVE  Settled \in SUBSET Objects /\ Settled \cap Modules \subseteq built
<1> DEFINE C == built \cup Plain
<1>1. Whole(SubmodulesOf, built, late) /\ Complete(top, SubmodulesOf, built, late)
  BY DEF BuildInv, Stack
<1>2. Members(top) \ late \subseteq C
  <2>1. ASSUME NEW i \in 1..Len(top), top[i] \notin late PROVE top[i] \in C
    <3>1. top[i] \in Modules \cup Plain
      BY DEF TypeOK
    <3>2. QED BY <1>1, <2>1, <3>1 DEF Complete
  <2>2. QED BY <2>1 DEF Members
<1>3. Closed(C, TimelyChildren)
  <2>1. ASSUME NEW m \in C \cap Modules PROVE TimelyChildren[m] \subseteq C
    <3>1. m \in built
      BY WiringConstants
    <3>2. SubmodulesOf[m] \ late \subseteq built
      BY <1>1, <3>1 DEF Whole
    <3>3. QED BY <3>2 DEF TimelyChildren, SubmodulesOf
  <2>2. QED BY <2>1 DEF Closed
<1>4. C \in SUBSET Objects
  BY DEF TypeOK, Objects
<1> HIDE DEF C
<1>5. Settled \subseteq C
  BY <1>2, <1>3, <1>4, BelowIsLeast DEF Settled
<1>6. QED BY <1>4, <1>5, WiringConstants DEF C

LEMMA SettledComesFrom ==
  ASSUME TypeOK, TreeInv, NEW m \in Settled \cap Modules
  PROVE  /\ m \notin late
         /\ m \in Members(top) \/ \E p \in Settled \cap Modules : m \in SubmodulesOf[p]
<1>1. TimelyChildren \in Links /\ Members(top) \ late \in SUBSET Objects
  BY MembersTyped DEF TimelyChildren, Links, Objects
<1>2. \/ m \in Members(top) \ late
      \/ \E p \in Settled \cap Modules : m \in TimelyChildren[p]
  BY <1>1, BelowSplits DEF Settled
<1>3. \A p \in Modules : TimelyChildren[p] = SubmodulesOf[p] \ late
  BY DEF TimelyChildren, SubmodulesOf
<1>4. QED BY <1>2, <1>3

LEMMA ComesOnce ==
  ASSUME TypeOK, TreeInv, BuildInv, simBuilt, NEW m \in Settled \cap Modules
  PROVE  Cardinality({ i \in 1..Len(top) : top[i] = m })
           + Cardinality(Parents(m) \cap Settled) = 1
<1> DEFINE R == { i \in 1..Len(top) : top[i] = m }   P == Parents(m) \cap Settled
<1>1. Complete(top, SubmodulesOf, built, late)
  BY DEF BuildInv
<1>2. ASSUME NEW p \in P PROVE p \in built /\ p \in Modules /\ m \in SubmodulesOf[p]
  BY SettledIsBuilt DEF Parents, SubmodulesOf
<1>3. m \notin late
  BY SettledComesFrom
<1>4. CASE m \in Members(top)
  <2>1. PICK i \in 1..Len(top) : top[i] = m
    BY <1>4 DEF Members
  <2>2. /\ \A k \in 1..Len(top) : top[k] = m => k = i
        /\ \A p \in built : m \notin SubmodulesOf[p]
    BY <1>1, <1>3, <2>1 DEF Complete
  <2>3. R = {i}
    BY <2>1, <2>2
  <2>4. P = {}
    BY <1>2, <2>2
  <2> HIDE DEF R, P
  <2>5. Cardinality(R) = 1 /\ Cardinality(P) = 0
    BY <2>3, <2>4, FS_Singleton, FS_EmptySet
  <2>6. QED BY <2>5 DEF R, P
<1>5. CASE m \notin Members(top)
  <2>1. R = {}
    BY <1>5 DEF Members
  <2>2. PICK p \in Settled \cap Modules : m \in SubmodulesOf[p]
    BY <1>5, SettledComesFrom
  <2>3. p \in P
    BY <2>2 DEF Parents, SubmodulesOf
  <2>4. ASSUME NEW x \in P PROVE x = p
    <3>1. x \in Modules /\ m \in SubmodulesOf[x]
      BY <1>2, <2>4
    <3>2. QED BY <2>2, <3>1 DEF TreeInv, OneParent
  <2> HIDE DEF R, P
  <2>5. P = {p}
    BY <2>3, <2>4
  <2>6. Cardinality(R) = 0 /\ Cardinality(P) = 1
    BY <2>1, <2>5, FS_Singleton, FS_EmptySet
  <2>7. QED BY <2>6 DEF R, P
<1>6. QED BY <1>4, <1>5

LEMMA OwnerSettled ==
  ASSUME TypeOK, TreeInv, NEW m \in Settled \cap Modules, NEW o \in Modules,
         m \in Below({o}, SubmodulesOf), \A t \in Members(top) : Parents(t) = {}
  PROVE  o \in Settled
<1> SUFFICES ASSUME o \notin Settled PROVE FALSE
  OBVIOUS
<1> DEFINE C == Objects \ Settled
<1>1. {o} \subseteq C /\ C \in SUBSET Objects
  BY DEF Objects
<1>2. ASSUME NEW x \in C \cap Modules, NEW c \in SubmodulesOf[x] PROVE c \in C
  <2>1. c \in Modules
    BY MembersTyped DEF SubmodulesOf
  <2>2. ASSUME c \in Settled PROVE FALSE
    <3>1. x \in Parents(c)
      BY <2>1, ParentsAndLinks
    <3>2. c \notin Members(top)
      BY <3>1
    <3>3. PICK p \in Settled \cap Modules : c \in SubmodulesOf[p]
      BY <2>1, <2>2, <3>2, SettledComesFrom
    <3>4. p = x
      BY <1>2, <3>3 DEF TreeInv, OneParent
    <3>5. QED BY <3>3, <3>4
  <2>3. QED BY <2>1, <2>2 DEF Objects
<1>3. Closed(C, SubmodulesOf)
  BY <1>2 DEF Closed
<1> HIDE DEF C
<1>4. Below({o}, SubmodulesOf) \subseteq C
  BY <1>1, <1>3, BelowIsLeast
<1>5. QED BY <1>4 DEF C

(* A Build of the system that returned built every module that was below it,  *)
(* itself and once: however registration, wiring, single Builds and          *)
(* exceptions came before it, with any number of modules and queues.         *)
THEOREM BuiltSystemIsWired == Spec => []WiredAsAssumed
<1>1. IInv /\ TreeInv /\ BuildInv => WiredAsAssumed
  <2> SUFFICES ASSUME TypeOK, TreeInv, BuildInv, simBuilt
               PROVE  ~found /\ \A m \in Settled \cap Modules :
                        /\ m \in built
                        /\ Cardinality({ i \in 1..Len(top) : top[i] = m })
                             + Cardinality(Parents(m) \cap Settled) = 1
                        /\ \A q \in Bound(m) :
                             /\ owner[q] # Void /\ m \in Below({owner[q]}, SubmodulesOf)
                             /\ (\A t \in Members(top) : Parents(t) = {}) => owner[q] \in Settled
    BY DEF IInv, WiredAsAssumed
  <2>1. ~found
    BY DEF BuildInv
  <2>2. ASSUME NEW m \in Settled \cap Modules, NEW q \in Bound(m)
        PROVE  /\ owner[q] # Void /\ m \in Below({owner[q]}, SubmodulesOf)
               /\ (\A t \in Members(top) : Parents(t) = {}) => owner[q] \in Settled
    <3>1. owner[q] \in Modules /\ m \in Below({owner[q]}, SubmodulesOf)
      BY DEF TreeInv, OwnersAbove
    <3>2. owner[q] # Void
      BY <3>1, WiringConstants
    <3>3. QED BY <3>1, <3>2, OwnerSettled
  <2>3. \A m \in Settled \cap Modules : m \in built
    BY SettledIsBuilt
  <2>4. QED BY <2>1, <2>2, <2>3, ComesOnce
<1>2. IInv /\ IInv' /\ TreeInv /\ [Next]_vars => TreeInv'
  BY StepTree DEF IInv
<1>3. IInv /\ IInv' /\ TreeInv /\ TreeInv' /\ BuildInv /\ [Next]_vars => BuildInv'
  BY StepBuild DEF IInv
<1>4. QED BY <1>1, <1>2, <1>3, InitIInv, StepIInv, InitTree, InitBuild, PTL DEF Spec
=============================================================================

-------------------------- MODULE SimSystemProofs --------------------------
(***************************************************************************)
(* What TLAPS proves of SimSystem, for every forest of modules, wired as     *)
(* WiringAssumption says, and every choice of behaviours, capacities and     *)
(* latencies.                                                               *)
(***************************************************************************)
EXTENDS SimSystem, QueueOpsProofs, FiniteSetTheorems, TLAPS

-----------------------------------------------------------------------------
(***************************************************************************)
(* The forest.                                                              *)
(***************************************************************************)
IsChild(c, m) == c \in Members(Children[m])

LEMMA MembersType ==
  ASSUME NEW S, NEW s \in Seq(S)
  PROVE  Members(s) \subseteq S
BY DEF Members

LEMMA ChildrenAreModules ==
  /\ \A m \in Modules : Members(Children[m]) \subseteq Modules
  /\ Members(Roots) \subseteq Modules
<1>1. Roots \in Seq(Modules) /\ \A m \in Modules : Children[m] \in Seq(Modules)
  BY ForestAssumption
<1>2. QED BY <1>1, MembersType

LEMMA OneParent ==
  ASSUME NEW m \in Modules, NEW p \in Modules, NEW c, IsChild(c, m), IsChild(c, p)
  PROVE  m = p
BY ForestAssumption DEF IsChild, Members

(* A subtree is closed, holds its root, and is the least such set.           *)
LEMMA SubtreeIsClosed ==
  ASSUME NEW m \in Modules
  PROVE  Subtree[m] \subseteq Modules /\ m \in Subtree[m] /\ Closed(Subtree[m])
BY ChildrenAreModules DEF Subtree, Closed

LEMMA SubtreeIsLeast ==
  ASSUME NEW m \in Modules, NEW S \in SUBSET Modules, m \in S, Closed(S)
  PROVE  Subtree[m] \subseteq S
BY DEF Subtree

(* What is below m besides m has its parent below m.                         *)
LEMMA ParentsInside ==
  ASSUME NEW m \in Modules, NEW d \in Subtree[m], d # m
  PROVE  \E p \in Subtree[m] : IsChild(d, p)
<1> DEFINE S == {m} \cup { e \in Subtree[m] : \E p \in Subtree[m] : IsChild(e, p) }
<1>1. S \in SUBSET Modules /\ m \in S
  BY SubtreeIsClosed
<1>2. Closed(S)
  BY SubtreeIsClosed DEF Closed, IsChild
<1>3. d \in S
  BY <1>1, <1>2, SubtreeIsLeast
<1>4. QED BY <1>3

LEMMA SubtreeMonotone ==
  ASSUME NEW m \in Modules, NEW c, IsChild(c, m)
  PROVE  c \in Modules /\ Subtree[c] \subseteq Subtree[m]
<1>1. c \in Modules /\ c \in Subtree[m]
  BY SubtreeIsClosed, ChildrenAreModules DEF Closed, IsChild
<1>2. QED BY <1>1, SubtreeIsLeast, SubtreeIsClosed

(* No module is below itself: a cycle would have no registered module.       *)
LEMMA NoCycle ==
  ASSUME NEW m \in Modules, NEW c, IsChild(c, m)
  PROVE  m \notin Subtree[c]
<1> SUFFICES ASSUME m \in Subtree[c] PROVE FALSE
  OBVIOUS
<1>1. c \in Modules /\ Subtree[c] \subseteq Modules /\ c \in Subtree[c]
  BY SubtreeMonotone, SubtreeIsClosed
<1>2. \A d \in Subtree[c] : \E p \in Subtree[c] : IsChild(d, p)
  BY <1>1, ParentsInside
<1> DEFINE S == Modules \ Subtree[c]
<1>3. Closed(S)
  BY ZenonT(60), <1>1, <1>2, OneParent, ChildrenAreModules DEF Closed, IsChild
<1>4. Members(Roots) \subseteq S
  BY <1>1, <1>2, ChildrenAreModules, ForestAssumption DEF IsChild
<1>5. \A r \in Members(Roots) : Subtree[r] \subseteq S
  BY <1>3, <1>4, SubtreeIsLeast, ChildrenAreModules
<1>6. QED BY <1>1, <1>5, ForestAssumption

(* Two modules of which neither is below the other have nothing in common.   *)
LEMMA SubtreesApart ==
  ASSUME NEW c \in Modules, NEW e \in Modules, c \notin Subtree[e], e \notin Subtree[c]
  PROVE  Subtree[c] \cap Subtree[e] = {}
<1> DEFINE S == Subtree[e] \ Subtree[c]
<1>1. S \in SUBSET Modules /\ e \in S
  BY SubtreeIsClosed
<1>2. Closed(S)
  <2> SUFFICES ASSUME NEW d \in S, NEW f \in Members(Children[d]) PROVE f \in S
    BY DEF Closed
  <2>1. f \in Subtree[e] /\ d \in Modules
    BY SubtreeIsClosed DEF Closed
  <2>2. ASSUME f \in Subtree[c] PROVE FALSE
    <3>1. f # c
      BY <2>1
    <3>2. PICK p \in Subtree[c] : IsChild(f, p)
      BY <2>2, <3>1, ParentsInside
    <3>3. p = d
      BY <2>1, <3>2, OneParent, SubtreeIsClosed DEF IsChild
    <3>4. QED BY <3>2, <3>3
  <2>3. QED BY <2>1, <2>2
<1>3. Subtree[e] \subseteq S
  BY <1>1, <1>2, SubtreeIsLeast
<1>4. QED BY <1>3

LEMMA SiblingsApart ==
  ASSUME NEW m \in Modules, NEW c, NEW e, IsChild(c, m), IsChild(e, m), c # e
  PROVE  Subtree[c] \cap Subtree[e] = {}
<1>1. \A x, y : IsChild(x, m) /\ IsChild(y, m) /\ x # y => x \notin Subtree[y]
  <2> SUFFICES ASSUME NEW x, NEW y, IsChild(x, m), IsChild(y, m), x # y, x \in Subtree[y]
               PROVE  FALSE
    OBVIOUS
  <2>1. y \in Modules
    BY SubtreeMonotone
  <2>2. PICK p \in Subtree[y] : IsChild(x, p)
    BY <2>1, ParentsInside
  <2>3. p = m
    BY <2>1, <2>2, OneParent, SubtreeIsClosed
  <2>4. QED BY <2>2, <2>3, NoCycle
<1>2. c \in Modules /\ e \in Modules
  BY SubtreeMonotone
<1>3. QED BY <1>1, <1>2, SubtreesApart

LEMMA RootsApart ==
  ASSUME NEW r \in Members(Roots), NEW s \in Members(Roots), r # s
  PROVE  Subtree[r] \cap Subtree[s] = {}
<1>1. r \in Modules /\ s \in Modules
  BY ChildrenAreModules
<1>2. \A x \in Members(Roots), y \in Members(Roots) : x # y => x \notin Subtree[y]
  <2> SUFFICES ASSUME NEW x \in Members(Roots), NEW y \in Members(Roots), x # y, x \in Subtree[y]
               PROVE  FALSE
    OBVIOUS
  <2>1. y \in Modules
    BY ChildrenAreModules
  <2>2. PICK p \in Subtree[y] : IsChild(x, p)
    BY <2>1, ParentsInside
  <2>3. p \in Modules
    BY <2>1, SubtreeIsClosed
  <2>4. QED BY <2>2, <2>3, ForestAssumption DEF IsChild
<1>3. QED BY <1>1, <1>2, SubtreesApart

(* A subtree is its root and the subtrees of the children.                   *)
LEMMA SubtreeSplits ==
  ASSUME NEW m \in Modules, NEW d \in Subtree[m]
  PROVE  d = m \/ \E c \in Members(Children[m]) : d \in Subtree[c]
<1> DEFINE S == {m} \cup UNION { Subtree[c] : c \in Members(Children[m]) }
<1>1. \A c \in Members(Children[m]) : /\ c \in Modules /\ c \in Subtree[c]
                                      /\ Subtree[c] \subseteq Modules /\ Closed(Subtree[c])
  BY SubtreeMonotone, SubtreeIsClosed DEF IsChild
<1>2. S \in SUBSET Modules /\ m \in S
  BY <1>1
<1>3. Closed(S)
  <2> SUFFICES ASSUME NEW e \in S PROVE Members(Children[e]) \subseteq S
    BY DEF Closed
  <2>1. CASE e = m
    BY <1>1, <2>1
  <2>2. CASE e # m
    <3>1. PICK c \in Members(Children[m]) : e \in Subtree[c]
      BY <2>2
    <3>2. Members(Children[e]) \subseteq Subtree[c]
      BY <1>1, <3>1 DEF Closed
    <3>3. QED BY <3>2
  <2>3. QED BY <2>1, <2>2
<1>4. QED BY <1>2, <1>3, SubtreeIsLeast

(* The modules that observe a queue or own it, and the owner of each queue.  *)
LEMMA OwnersAndUsers ==
  ASSUME NEW m \in Modules
  PROVE  /\ Members(Owned[m]) \subseteq Queues
         /\ Observes(m) \subseteq Queues
         /\ \A x \in Members(Owned[m]) : \A p \in Modules :
              /\ x \in Members(Owned[p]) => p = m
              /\ x \in Observes(p) => p \in Subtree[m]
<1>1. Owned[m] \in Seq(Queues)
  BY WiringAssumption
<1>2. Members(Owned[m]) \subseteq Queues
  BY <1>1, MembersType
<1>3. \A x, p : p \in Modules /\ x \in Members(Owned[m]) /\ x \in Members(Owned[p]) => p = m
  BY WiringAssumption DEF Members
<1>4. ASSUME NEW x \in Members(Owned[m]), NEW p \in Modules, x \in Observes(p)
      PROVE  p \in Subtree[m]
  BY <1>2, <1>3, <1>4, WiringAssumption
<1>5. QED BY <1>2, <1>3, <1>4, ConstantsAssumption

-----------------------------------------------------------------------------
(***************************************************************************)
(* The call stack.  What a call will still do in this Step: the modules      *)
(* whose WorkSelf it may run, and the queues it will advance.               *)
(***************************************************************************)
StepOps  == {"work", "visit", "self", "capture", "tick", "xfer"}
ResetOps == {"reset", "clear", "recapture"}
CallType == [op : (StepOps \cup ResetOps) \ {"tick", "clear"}, on : Modules]
              \cup [op : {"tick", "clear"}, on : Queues]

OwnedBelow(m) == UNION { Members(Owned[d]) : d \in Subtree[m] }

Runs(c) ==
  CASE c.op \in {"work", "visit"} -> Subtree[c.on]
    [] c.op = "self"              -> {c.on}
    [] OTHER                      -> {}

Ticks(c) ==
  CASE c.op \in {"work", "visit"} -> OwnedBelow(c.on)
    [] c.op = "tick"              -> {c.on}
    [] OTHER                      -> {}

(* Of two calls, the first made before the second: they neither run a module *)
(* nor advance a queue twice, no queue is advanced before a module that      *)
(* observes it has run, and Xfer comes after all Work.                       *)
Apart(c, e) ==
  /\ Runs(c) \cap Runs(e) = {}
  /\ Ticks(c) \cap Ticks(e) = {}
  /\ c.op = "tick" => \A d \in Runs(e) : c.on \notin Observes(d)
  /\ c.op = "xfer" => e.op = "xfer"

Ordered(s) == \A i, j \in 1..Len(s) : i < j => Apart(s[i], s[j])

(* A call that does part of what another one was to do.                      *)
Within(c, e) ==
  /\ Runs(c) \subseteq Runs(e)
  /\ Ticks(c) \subseteq Ticks(e)
  /\ c.op = "tick" => \A d \in Modules : c.on \in Observes(d) => d \in Runs(e)
  /\ c.op = "xfer" => e.op = "xfer"

LEMMA WithinApart ==
  ASSUME NEW c, NEW e, NEW f, Within(c, e), Apart(e, f), Runs(f) \subseteq Modules
  PROVE  Apart(c, f)
BY DEF Within, Apart

LEMMA CallsJoin ==
  ASSUME NEW C, NEW a \in Seq(C), NEW b \in Seq(C)
  PROVE  /\ a \o b \in Seq(C)
         /\ Members(a \o b) = Members(a) \cup Members(b)
<1>1. a \o b \in Seq(C) /\ Joined(a \o b, a, b)
  BY ConcatJoins
<1>2. Len(a) \in Nat /\ Len(b) \in Nat /\ Len(a \o b) = Len(a) + Len(b)
  BY <1>1 DEF Joined
<1>3. \A i \in 1..Len(a) : i \in 1..Len(a \o b) /\ (a \o b)[i] = a[i]
  BY <1>1, <1>2 DEF Joined
<1>4. \A i \in 1..Len(b) : Len(a) + i \in 1..Len(a \o b) /\ (a \o b)[Len(a) + i] = b[i]
  BY <1>1, <1>2 DEF Joined
<1>5. \A i \in 1..Len(a \o b) : (a \o b)[i] \in Members(a) \cup Members(b)
  <2> SUFFICES ASSUME NEW i \in 1..Len(a \o b) PROVE (a \o b)[i] \in Members(a) \cup Members(b)
    OBVIOUS
  <2>1. CASE i <= Len(a)
    BY <1>1, <1>2, <2>1 DEF Joined, Members
  <2>2. CASE ~(i <= Len(a))
    <3>1. i - Len(a) \in 1..Len(b) /\ (a \o b)[i] = b[i - Len(a)]
      BY <1>1, <1>2, <2>2 DEF Joined
    <3>2. QED BY <3>1 DEF Members
  <2>3. QED BY <2>1, <2>2
<1> DEFINE j == a \o b
<1>6. /\ \A i \in 1..Len(a) : i \in 1..Len(j) /\ j[i] = a[i]
      /\ \A i \in 1..Len(b) : Len(a) + i \in 1..Len(j) /\ j[Len(a) + i] = b[i]
      /\ \A i \in 1..Len(j) : j[i] \in Members(a) \cup Members(b)
  BY <1>3, <1>4, <1>5
<1> HIDE DEF j
<1>7. Members(a) \subseteq Members(j)
  BY <1>6 DEF Members
<1>8. Members(b) \subseteq Members(j)
  BY <1>6 DEF Members
<1>9. Members(j) \subseteq Members(a) \cup Members(b)
  <2>1. \A e \in Members(j) : \E i \in 1..Len(j) : e = j[i]
    BY DEF Members
  <2>2. QED BY <1>6, <2>1
<1>10. Members(j) = Members(a) \cup Members(b)
  BY <1>7, <1>8, <1>9
<1>11. QED BY <1>1, <1>10 DEF j

LEMMA CallsPut ==
  ASSUME NEW n \in Seq(CallType), NEW s \in Seq(CallType)
  PROVE  n \o s \in Seq(CallType) /\ Members(n \o s) = Members(n) \cup Members(s)
BY CallsJoin

LEMMA OrderedJoin ==
  ASSUME NEW C, NEW a \in Seq(C), NEW b \in Seq(C), Ordered(a), Ordered(b),
         \A c \in Members(a), e \in Members(b) : Apart(c, e)
  PROVE  Ordered(a \o b)
<1>1. a \o b \in Seq(C) /\ Joined(a \o b, a, b)
  BY ConcatJoins
<1>2. Len(a) \in Nat /\ Len(b) \in Nat /\ Len(a \o b) = Len(a) + Len(b)
  BY <1>1 DEF Joined
<1> SUFFICES ASSUME NEW i \in 1..Len(a \o b), NEW j \in 1..Len(a \o b), i < j
             PROVE  Apart((a \o b)[i], (a \o b)[j])
  BY DEF Ordered
<1>3. i \in Nat /\ j \in Nat
  BY <1>2
<1>4. CASE j <= Len(a)
  <2>1. i \in 1..Len(a) /\ j \in 1..Len(a) /\ (a \o b)[i] = a[i] /\ (a \o b)[j] = a[j]
    BY <1>1, <1>2, <1>3, <1>4 DEF Joined
  <2>2. QED BY <2>1 DEF Ordered
<1>5. CASE i <= Len(a) /\ ~(j <= Len(a))
  <2>1. /\ i \in 1..Len(a) /\ j - Len(a) \in 1..Len(b)
        /\ (a \o b)[i] = a[i] /\ (a \o b)[j] = b[j - Len(a)]
    BY <1>1, <1>2, <1>3, <1>5 DEF Joined
  <2>2. QED BY <2>1 DEF Members
<1>6. CASE ~(i <= Len(a))
  <2>1. ~(j <= Len(a))
    BY <1>2, <1>3, <1>6
  <2>2. /\ i - Len(a) \in 1..Len(b) /\ j - Len(a) \in 1..Len(b) /\ i - Len(a) < j - Len(a)
        /\ (a \o b)[i] = b[i - Len(a)] /\ (a \o b)[j] = b[j - Len(a)]
    BY <1>1, <1>2, <1>3, <1>6, <2>1 DEF Joined
  <2>3. QED BY <2>2 DEF Ordered
<1>7. QED BY <1>4, <1>5, <1>6

(* The calls after the next one.                                             *)
LEMMA TailOfCalls ==
  ASSUME NEW C, NEW s \in Seq(C), s # << >>
  PROVE  /\ Tail(s) \in Seq(C) /\ Head(s) \in C
         /\ Members(s) = {Head(s)} \cup Members(Tail(s))
         /\ Ordered(s) => Ordered(Tail(s)) /\ \A e \in Members(Tail(s)) : Apart(Head(s), e)
<1>1. /\ Tail(s) \in Seq(C) /\ Len(Tail(s)) = Len(s) - 1 /\ Len(s) \in Nat /\ Len(s) > 0
      /\ \A i \in 1..Len(Tail(s)) : Tail(s)[i] = s[i + 1]
      /\ Head(s) = s[1] /\ Head(s) \in C
  BY HeadTailProperties
<1>2. \A i \in 1..Len(Tail(s)) : i + 1 \in 1..Len(s) /\ 1 < i + 1 /\ i \in Nat
  BY <1>1
<1>3. \A i \in 1..Len(s) : i = 1 \/ (i - 1 \in 1..Len(Tail(s)) /\ s[i] = Tail(s)[i - 1])
  BY <1>1
<1>4. Members(s) = {Head(s)} \cup Members(Tail(s))
  <2> DEFINE r == Tail(s)
  <2>1. /\ 1 \in 1..Len(s) /\ s[1] = Head(s)
        /\ \A i \in 1..Len(r) : i + 1 \in 1..Len(s) /\ r[i] = s[i + 1]
        /\ \A i \in 1..Len(s) : i = 1 \/ (i - 1 \in 1..Len(r) /\ s[i] = r[i - 1])
    BY <1>1, <1>2, <1>3
  <2> HIDE DEF r
  <2>2. Head(s) \in Members(s)
    BY <2>1 DEF Members
  <2>3. Members(r) \subseteq Members(s)
    BY <2>1 DEF Members
  <2>4. \A i \in 1..Len(s) : s[i] = Head(s) \/ s[i] \in Members(r)
    BY <2>1 DEF Members
  <2>5. Members(s) \subseteq {Head(s)} \cup Members(r)
    BY <2>4 DEF Members
  <2>6. QED BY <2>2, <2>3, <2>5 DEF r
<1>5. ASSUME Ordered(s) PROVE Ordered(Tail(s))
  <2> SUFFICES ASSUME NEW i \in 1..Len(Tail(s)), NEW j \in 1..Len(Tail(s)), i < j
               PROVE  Apart(Tail(s)[i], Tail(s)[j])
    BY DEF Ordered
  <2>1. i + 1 < j + 1
    BY <1>2
  <2>2. QED BY <1>1, <1>2, <1>5, <2>1 DEF Ordered
<1>6. ASSUME Ordered(s), NEW e \in Members(Tail(s)) PROVE Apart(Head(s), e)
  <2>1. PICK i \in 1..Len(Tail(s)) : e = Tail(s)[i]
    BY DEF Members
  <2>2. 1 \in 1..Len(s)
    BY <1>1
  <2>3. QED BY <1>1, <1>2, <1>6, <2>1, <2>2 DEF Ordered
<1>7. QED BY <1>1, <1>4, <1>5, <1>6

(* The calls a module's Work or AdvanceQueuesOnly makes once its own WorkSelf *)
(* is settled: one per submodule, one per owned queue.                       *)
LEMMA CallTyped ==
  /\ \A m \in Modules : \A op \in {"work", "visit", "self", "capture", "xfer", "reset", "recapture"} :
       Call(op, m) \in CallType
  /\ \A x \in Queues : \A op \in {"tick", "clear"} : Call(op, x) \in CallType
BY DEF Call, CallType, StepOps, ResetOps

(* A run of calls, one per member of s.                                      *)
CallsFor(op, s) ==
  /\ Calls(op, s) \in Seq(CallType)
  /\ Members(Calls(op, s)) = { Call(op, x) : x \in Members(s) }
  /\ Len(Calls(op, s)) = Len(s)
  /\ \A i \in 1..Len(s) : Calls(op, s)[i] = Call(op, s[i])

LEMMA CallsMembers ==
  ASSUME NEW op, NEW S, NEW s \in Seq(S), \A x \in S : Call(op, x) \in CallType
  PROVE  CallsFor(op, s)
<1>1. Len(s) \in Nat /\ \A i \in 1..Len(s) : s[i] \in S
  OBVIOUS
<1>2. /\ Calls(op, s) \in Seq(CallType) /\ Len(Calls(op, s)) = Len(s)
      /\ \A i \in 1..Len(s) : Calls(op, s)[i] = Call(op, s[i])
  BY <1>1 DEF Calls
<1>3. QED BY <1>2 DEF Members, CallsFor

LEMMA ModuleCalls ==
  ASSUME NEW op \in {"work", "visit", "self", "capture", "xfer", "reset", "recapture"},
         NEW s \in Seq(Modules)
  PROVE  CallsFor(op, s)
BY CallTyped, CallsMembers

LEMMA QueueCalls ==
  ASSUME NEW op \in {"tick", "clear"}, NEW s \in Seq(Queues)
  PROVE  CallsFor(op, s)
BY CallTyped, CallsMembers

LEMMA RunsTyped ==
  ASSUME NEW c \in CallType
  PROVE  Runs(c) \subseteq Modules /\ Ticks(c) \subseteq Queues
<1>1. CASE c.op \in {"work", "visit"}
  <2>1. c.on \in Modules
    BY <1>1 DEF CallType, StepOps, ResetOps
  <2>2. Subtree[c.on] \subseteq Modules
    BY <2>1, SubtreeIsClosed
  <2>3. OwnedBelow(c.on) \subseteq Queues
    BY <2>2, OwnersAndUsers DEF OwnedBelow
  <2>4. QED BY <1>1, <2>2, <2>3 DEF Runs, Ticks
<1>2. CASE c.op = "self"
  BY <1>2 DEF CallType, StepOps, ResetOps, Runs, Ticks
<1>3. CASE c.op = "tick"
  BY <1>3 DEF CallType, StepOps, ResetOps, Runs, Ticks
<1>4. CASE c.op \notin {"work", "visit", "self", "tick"}
  BY <1>4 DEF Runs, Ticks
<1>5. QED BY <1>1, <1>2, <1>3, <1>4

LEMMA CallMeans ==
  ASSUME NEW x
  PROVE  /\ \A op : Call(op, x).op = op /\ Call(op, x).on = x
         /\ Runs(Call("work", x)) = Subtree[x] /\ Runs(Call("visit", x)) = Subtree[x]
         /\ Ticks(Call("work", x)) = OwnedBelow(x) /\ Ticks(Call("visit", x)) = OwnedBelow(x)
         /\ Runs(Call("self", x)) = {x} /\ Ticks(Call("self", x)) = {}
         /\ Runs(Call("tick", x)) = {} /\ Ticks(Call("tick", x)) = {x}
         /\ \A op \in {"capture", "xfer", "reset", "clear", "recapture"} :
              Runs(Call(op, x)) = {} /\ Ticks(Call(op, x)) = {}
BY DEF Call, Runs, Ticks

(* What a module's own queues and those below it are.                        *)
LEMMA OwnedBelowSplits ==
  ASSUME NEW m \in Modules
  PROVE  OwnedBelow(m)
           = Members(Owned[m]) \cup UNION { OwnedBelow(c) : c \in Members(Children[m]) }
<1>1. ASSUME NEW c \in Members(Children[m]) PROVE Subtree[c] \subseteq Subtree[m]
  BY SubtreeMonotone DEF IsChild
<1>2. OwnedBelow(m) \subseteq Members(Owned[m]) \cup UNION { OwnedBelow(c) : c \in Members(Children[m]) }
  BY SubtreeSplits DEF OwnedBelow
<1>3. Members(Owned[m]) \subseteq OwnedBelow(m)
  BY SubtreeIsClosed DEF OwnedBelow
<1>4. \A c \in Members(Children[m]) : OwnedBelow(c) \subseteq OwnedBelow(m)
  BY <1>1 DEF OwnedBelow
<1>5. QED BY <1>2, <1>3, <1>4

LEMMA OwnedApart ==
  ASSUME NEW c \in Modules, NEW e \in Modules, Subtree[c] \cap Subtree[e] = {}
  PROVE  OwnedBelow(c) \cap OwnedBelow(e) = {}
BY OwnersAndUsers, SubtreeIsClosed DEF OwnedBelow

LEMMA RestIsOrdered ==
  ASSUME NEW m \in Modules
  PROVE  /\ Rest(m) \in Seq(CallType) /\ Ordered(Rest(m))
         /\ \A c \in Members(Rest(m)) :
              /\ Within(c, Call("work", m)) /\ Within(c, Call("visit", m))
              /\ m \notin Runs(c) /\ c.op \in {"visit", "tick"}
         /\ OwnedBelow(m) \subseteq UNION { Ticks(c) : c \in Members(Rest(m)) }
<1> DEFINE V == Calls("visit", Children[m])
           T == Calls("tick", Owned[m])
<1>1. Children[m] \in Seq(Modules) /\ Owned[m] \in Seq(Queues)
  BY ForestAssumption, WiringAssumption
<1>12. CallsFor("visit", Children[m]) /\ CallsFor("tick", Owned[m])
  BY <1>1, ModuleCalls, QueueCalls
<1>2. /\ V \in Seq(CallType) /\ Members(V) = { Call("visit", c) : c \in Members(Children[m]) }
      /\ Len(V) = Len(Children[m])
      /\ \A i \in 1..Len(Children[m]) : V[i] = Call("visit", Children[m][i])
  BY <1>12 DEF CallsFor
<1>3. /\ T \in Seq(CallType) /\ Members(T) = { Call("tick", x) : x \in Members(Owned[m]) }
      /\ Len(T) = Len(Owned[m])
      /\ \A i \in 1..Len(Owned[m]) : T[i] = Call("tick", Owned[m][i])
  BY <1>12 DEF CallsFor
<1> HIDE DEF V, T
<1>4. Ordered(V)
  <2> SUFFICES ASSUME NEW i \in 1..Len(V), NEW j \in 1..Len(V), i < j PROVE Apart(V[i], V[j])
    BY DEF Ordered
  <2> DEFINE c == Children[m][i]
             e == Children[m][j]
  <2>0. i \in 1..Len(Children[m]) /\ j \in 1..Len(Children[m]) /\ i # j
    BY <1>1, <1>2
  <2>5. Children[m][i] # Children[m][j]
    <3>1. \A k, l \in 1..Len(Children[m]) : Children[m][k] = Children[m][l] => k = l
      BY Zenon, ForestAssumption
    <3>2. QED BY <2>0, <3>1
  <2>1. c # e /\ IsChild(c, m) /\ IsChild(e, m) /\ V[i] = Call("visit", c) /\ V[j] = Call("visit", e)
    BY <1>2, <2>0, <2>5 DEF IsChild, Members
  <2> HIDE DEF c, e
  <2>2. c \in Modules /\ e \in Modules /\ Subtree[c] \cap Subtree[e] = {}
    BY <2>1, SiblingsApart, SubtreeMonotone
  <2>3. OwnedBelow(c) \cap OwnedBelow(e) = {}
    BY <2>2, OwnedApart
  <2>4. QED BY <2>1, <2>2, <2>3, CallMeans DEF Apart
<1>5. Ordered(T)
  <2> SUFFICES ASSUME NEW i \in 1..Len(T), NEW j \in 1..Len(T), i < j PROVE Apart(T[i], T[j])
    BY DEF Ordered
  <2>1. Owned[m][i] # Owned[m][j]
    BY <1>3, WiringAssumption
  <2>2. QED BY <1>3, <2>1, CallMeans DEF Apart
<1>6. \A c \in Members(V), e \in Members(T) : Apart(c, e)
  <2> SUFFICES ASSUME NEW c \in Members(Children[m]), NEW x \in Members(Owned[m])
               PROVE  Apart(Call("visit", c), Call("tick", x))
    BY <1>2, <1>3
  <2>1. IsChild(c, m) /\ c \in Modules /\ Subtree[c] \subseteq Modules /\ m \notin Subtree[c]
    BY SubtreeMonotone, SubtreeIsClosed, NoCycle DEF IsChild
  <2>2. x \notin OwnedBelow(c)
    BY <2>1, OwnersAndUsers DEF OwnedBelow
  <2>3. QED BY <2>2, CallMeans DEF Apart
<1>7. /\ Rest(m) \in Seq(CallType) /\ Ordered(Rest(m))
      /\ Members(Rest(m)) = Members(V) \cup Members(T)
  BY <1>2, <1>3, <1>4, <1>5, <1>6, OrderedJoin, CallsPut DEF Rest, V, T
<1>8. ASSUME NEW c \in Members(Children[m])
      PROVE  /\ Within(Call("visit", c), Call("work", m))
             /\ Within(Call("visit", c), Call("visit", m))
             /\ m \notin Runs(Call("visit", c)) /\ Call("visit", c).op = "visit"
  <2>1. Subtree[c] \subseteq Subtree[m] /\ m \notin Subtree[c]
    BY SubtreeMonotone, NoCycle DEF IsChild
  <2>2. OwnedBelow(c) \subseteq OwnedBelow(m)
    BY <2>1 DEF OwnedBelow
  <2>3. QED BY <2>1, <2>2, CallMeans DEF Within
<1>9. ASSUME NEW x \in Members(Owned[m])
      PROVE  /\ Within(Call("tick", x), Call("work", m))
             /\ Within(Call("tick", x), Call("visit", m))
             /\ m \notin Runs(Call("tick", x)) /\ Call("tick", x).op = "tick"
  <2>1. x \in OwnedBelow(m) /\ \A d \in Modules : x \in Observes(d) => d \in Subtree[m]
    BY OwnersAndUsers, OwnedBelowSplits
  <2>2. QED BY <2>1, CallMeans DEF Within
<1>10. OwnedBelow(m) \subseteq UNION { Ticks(c) : c \in Members(Rest(m)) }
  <2> SUFFICES ASSUME NEW x \in OwnedBelow(m)
               PROVE  \E c \in Members(Rest(m)) : x \in Ticks(c)
    OBVIOUS
  <2>1. CASE x \in Members(Owned[m])
    <3>1. Call("tick", x) \in Members(Rest(m)) /\ x \in Ticks(Call("tick", x))
      BY <1>3, <1>7, <2>1, CallMeans
    <3>2. QED BY <3>1
  <2>2. CASE \E c \in Members(Children[m]) : x \in OwnedBelow(c)
    <3>1. PICK c \in Members(Children[m]) : x \in OwnedBelow(c)
      BY <2>2
    <3>2. Call("visit", c) \in Members(Rest(m)) /\ x \in Ticks(Call("visit", c))
      BY <1>2, <1>7, <3>1, CallMeans
    <3>3. QED BY <3>2
  <2>3. QED BY <2>1, <2>2, OwnedBelowSplits
<1>11. QED BY <1>2, <1>3, <1>7, <1>8, <1>9, <1>10

-----------------------------------------------------------------------------
(***************************************************************************)
(* The calls still to be made in a Step, with what has been ticked so far.   *)
(***************************************************************************)
AllIn(s, ops) == \A c \in Members(s) : c.op \in ops

(* What a call will advance, and what the modules it will run observe, has   *)
(* not moved yet.                                                           *)
Fresh(s, ticks) ==
  \A c \in Members(s) : /\ \A x \in Ticks(c) : ticks[x] = 0
                        /\ \A d \in Runs(c) : \A x \in Observes(d) : ticks[x] = 0

Covered(s, ticks) ==
  \A x \in Queues : ticks[x] = 1 \/ \E c \in Members(s) : x \in Ticks(c)

StepPlan(s, ticks) ==
  s \in Seq(CallType) /\ Ordered(s) /\ AllIn(s, StepOps) /\ Fresh(s, ticks) /\ Covered(s, ticks)

(* A call that is replaced by calls that do the same between them.           *)
LEMMA PlanExpands ==
  ASSUME NEW s, NEW ticks, StepPlan(s, ticks), s # << >>,
         NEW n \in Seq(CallType), Ordered(n), AllIn(n, StepOps),
         \A c \in Members(n) : Within(c, Head(s)),
         \A x \in Ticks(Head(s)) : \E c \in Members(n) : x \in Ticks(c)
  PROVE  StepPlan(n \o Tail(s), ticks)
<1>1. /\ s \in Seq(CallType) /\ Tail(s) \in Seq(CallType) /\ Head(s) \in CallType
      /\ Members(s) = {Head(s)} \cup Members(Tail(s))
      /\ Ordered(Tail(s)) /\ \A e \in Members(Tail(s)) : Apart(Head(s), e)
  BY TailOfCalls DEF StepPlan
<1>2. /\ n \o Tail(s) \in Seq(CallType)
      /\ Members(n \o Tail(s)) = Members(n) \cup Members(Tail(s))
  <2>1. Tail(s) \in Seq(CallType)
    BY <1>1
  <2>2. QED BY <2>1, CallsPut
<1>3. \A c \in Members(n), e \in Members(Tail(s)) : Apart(c, e)
  <2> SUFFICES ASSUME NEW c \in Members(n), NEW e \in Members(Tail(s)) PROVE Apart(c, e)
    OBVIOUS
  <2>1. e \in CallType
    BY <1>1, MembersType
  <2>2. QED BY <1>1, <2>1, RunsTyped, WithinApart
<1>4. Ordered(n \o Tail(s))
  BY <1>1, <1>3, OrderedJoin
<1>5. AllIn(n \o Tail(s), StepOps)
  BY <1>1, <1>2 DEF AllIn, StepPlan
<1>6. Fresh(n \o Tail(s), ticks)
  BY <1>1, <1>2 DEF Fresh, StepPlan, Within
<1>7. Covered(n \o Tail(s), ticks)
  BY <1>1, <1>2 DEF Covered, StepPlan
<1>8. QED BY <1>2, <1>4, <1>5, <1>6, <1>7 DEF StepPlan

(* A call that advanced no queue is over.                                    *)
LEMMA PlanGoesOn ==
  ASSUME NEW s, NEW ticks, StepPlan(s, ticks), s # << >>, Ticks(Head(s)) = {}
  PROVE  StepPlan(Tail(s), ticks)
<1>1. /\ s \in Seq(CallType) /\ Tail(s) \in Seq(CallType)
      /\ Members(s) = {Head(s)} \cup Members(Tail(s)) /\ Ordered(Tail(s))
  BY TailOfCalls DEF StepPlan
<1>2. QED BY <1>1 DEF StepPlan, AllIn, Fresh, Covered

(* A queue has been advanced.                                                *)
LEMMA PlanTicks ==
  ASSUME NEW s, NEW ticks \in [Queues -> {0, 1}], StepPlan(s, ticks), s # << >>,
         NEW x \in Queues, Head(s) = Call("tick", x)
  PROVE  /\ ticks[x] = 0
         /\ StepPlan(Tail(s), [ticks EXCEPT ![x] = @ + 1])
         /\ [ticks EXCEPT ![x] = @ + 1] \in [Queues -> {0, 1}]
<1> DEFINE after == [ticks EXCEPT ![x] = @ + 1]
<1>1. /\ s \in Seq(CallType) /\ Tail(s) \in Seq(CallType)
      /\ Members(s) = {Head(s)} \cup Members(Tail(s))
      /\ Ordered(Tail(s)) /\ \A e \in Members(Tail(s)) : Apart(Head(s), e)
  BY TailOfCalls DEF StepPlan
<1>2. Ticks(Head(s)) = {x} /\ Head(s).op = "tick" /\ Head(s).on = x
  BY CallMeans
<1>3. ticks[x] = 0
  BY <1>1, <1>2 DEF StepPlan, Fresh
<1>4. /\ after \in [Queues -> {0, 1}] /\ after[x] = 1
      /\ \A z \in Queues : z # x => after[z] = ticks[z]
  BY <1>3
<1> HIDE DEF after
<1>5. \A e \in Members(Tail(s)) : x \notin Ticks(e) /\ \A d \in Runs(e) : x \notin Observes(d)
  BY <1>1, <1>2 DEF Apart
<1>6. \A e \in Members(Tail(s)) : /\ Runs(e) \subseteq Modules /\ Ticks(e) \subseteq Queues
                                  /\ \A d \in Runs(e) : Observes(d) \subseteq Queues
  BY <1>1, MembersType, RunsTyped, OwnersAndUsers
<1>7. Fresh(Tail(s), after)
  <2> SUFFICES ASSUME NEW e \in Members(Tail(s))
               PROVE  /\ \A z \in Ticks(e) : after[z] = 0
                      /\ \A d \in Runs(e) : \A z \in Observes(d) : after[z] = 0
    BY DEF Fresh
  <2>1. /\ \A z \in Ticks(e) : ticks[z] = 0
        /\ \A d \in Runs(e) : \A z \in Observes(d) : ticks[z] = 0
    BY <1>1 DEF StepPlan, Fresh
  <2>2. QED BY <1>4, <1>5, <1>6, <2>1
<1>8. Covered(Tail(s), after)
  <2> SUFFICES ASSUME NEW z \in Queues, z # x
               PROVE  after[z] = 1 \/ \E c \in Members(Tail(s)) : z \in Ticks(c)
    BY <1>4 DEF Covered
  <2>1. QED BY <1>1, <1>2, <1>4 DEF StepPlan, Covered
<1>9. AllIn(Tail(s), StepOps)
  BY <1>1 DEF StepPlan, AllIn
<1>10. StepPlan(Tail(s), after)
  BY <1>1, <1>7, <1>8, <1>9 DEF StepPlan
<1>11. QED BY <1>3, <1>4, <1>10 DEF after

-----------------------------------------------------------------------------
(***************************************************************************)
(* The calls each handler makes.                                            *)
(***************************************************************************)
Replaces(n, c) ==
  /\ n \in Seq(CallType) /\ Ordered(n) /\ AllIn(n, StepOps)
  /\ \A e \in Members(n) : Within(e, c)
  /\ \A x \in Ticks(c) : \E e \in Members(n) : x \in Ticks(e)

LEMMA RestReplaces ==
  ASSUME NEW m \in Modules
  PROVE  Replaces(Rest(m), Call("work", m)) /\ Replaces(Rest(m), Call("visit", m))
<1>1. /\ Rest(m) \in Seq(CallType) /\ Ordered(Rest(m))
      /\ \A c \in Members(Rest(m)) :
           /\ Within(c, Call("work", m)) /\ Within(c, Call("visit", m))
           /\ c.op \in {"visit", "tick"}
      /\ OwnedBelow(m) \subseteq UNION { Ticks(c) : c \in Members(Rest(m)) }
  BY RestIsOrdered
<1>2. AllIn(Rest(m), StepOps)
  BY <1>1 DEF AllIn, StepOps
<1>3. \A x \in OwnedBelow(m) : \E e \in Members(Rest(m)) : x \in Ticks(e)
  BY <1>1
<1>4. Ticks(Call("work", m)) = OwnedBelow(m) /\ Ticks(Call("visit", m)) = OwnedBelow(m)
  BY CallMeans
<1>5. QED BY <1>1, <1>2, <1>3, <1>4 DEF Replaces

LEMMA AwakeReplaces ==
  ASSUME NEW m \in Modules
  PROVE  Replaces(<<Call("self", m), Call("capture", m)>> \o Rest(m), Call("work", m))
<1> DEFINE own == <<Call("self", m), Call("capture", m)>>
<1>1. Call("self", m) \in CallType /\ Call("capture", m) \in CallType
  BY CallTyped
<1>2. /\ own \in Seq(CallType) /\ Len(own) = 2
      /\ own[1] = Call("self", m) /\ own[2] = Call("capture", m)
  BY <1>1
<1>3. Members(own) = {Call("self", m), Call("capture", m)}
  BY <1>2 DEF Members
<1> HIDE DEF own
<1>4. Replaces(Rest(m), Call("work", m)) /\ \A c \in Members(Rest(m)) : m \notin Runs(c)
  BY RestReplaces, RestIsOrdered
<1>5. Ordered(own)
  <2>1. Apart(Call("self", m), Call("capture", m))
    BY CallMeans DEF Apart
  <2>2. QED BY <1>2, <2>1 DEF Ordered
<1>6. \A c \in Members(own), e \in Members(Rest(m)) : Apart(c, e)
  BY <1>3, <1>4, CallMeans DEF Apart
<1>7. /\ own \o Rest(m) \in Seq(CallType) /\ Ordered(own \o Rest(m))
      /\ Members(own \o Rest(m)) = Members(own) \cup Members(Rest(m))
  BY <1>2, <1>4, <1>5, <1>6, CallsPut, OrderedJoin DEF Replaces
<1>8. AllIn(own \o Rest(m), StepOps)
  <2>1. \A c \in Members(own) : c.op \in StepOps
    BY <1>3, CallMeans DEF StepOps
  <2>2. QED BY <1>4, <1>7, <2>1 DEF AllIn, Replaces
<1>9. \A c \in Members(own) : Within(c, Call("work", m))
  BY <1>3, CallMeans, SubtreeIsClosed DEF Within
<1>10. \A e \in Members(own \o Rest(m)) : Within(e, Call("work", m))
  BY <1>4, <1>7, <1>9 DEF Replaces
<1>11. \A x \in Ticks(Call("work", m)) : \E e \in Members(own \o Rest(m)) : x \in Ticks(e)
  BY <1>4, <1>7 DEF Replaces
<1>12. QED BY <1>7, <1>8, <1>10, <1>11 DEF Replaces, own

LEMMA PendingReplaces ==
  ASSUME NEW c \in Modules
  PROVE  Replaces(<<Call("work", c)>>, Call("visit", c))
<1> DEFINE n == <<Call("work", c)>>
<1>1. n \in Seq(CallType) /\ Members(n) = {Call("work", c)} /\ Ordered(n)
  <2>1. Call("work", c) \in CallType
    BY CallTyped
  <2>2. n \in Seq(CallType) /\ Len(n) = 1 /\ n[1] = Call("work", c)
    BY <2>1
  <2>3. QED BY <2>2 DEF Members, Ordered
<1> HIDE DEF n
<1>2. AllIn(n, StepOps)
  BY <1>1, CallMeans DEF AllIn, StepOps
<1>3. Within(Call("work", c), Call("visit", c))
  BY CallMeans DEF Within
<1>4. \A x \in Ticks(Call("visit", c)) : \E e \in Members(n) : x \in Ticks(e)
  BY <1>1, CallMeans
<1>5. QED BY <1>1, <1>2, <1>3, <1>4 DEF Replaces, n

LEMMA XferReplaces ==
  ASSUME NEW m \in Modules, NEW s \in Seq(Modules)
  PROVE  Replaces(Calls("xfer", s), Call("xfer", m))
<1> DEFINE n == Calls("xfer", s)
<1>1. CallsFor("xfer", s)
  BY ModuleCalls
<1>2. /\ n \in Seq(CallType)
      /\ \A c \in Members(n) : c.op = "xfer" /\ Runs(c) = {} /\ Ticks(c) = {}
  BY <1>1, CallMeans DEF CallsFor
<1>3. \A i \in 1..Len(n) : n[i] \in Members(n)
  BY DEF Members
<1> HIDE DEF n
<1>4. Ordered(n)
  BY <1>2, <1>3 DEF Ordered, Apart
<1>5. AllIn(n, StepOps)
  BY <1>2 DEF AllIn, StepOps
<1>6. \A c \in Members(n) : Within(c, Call("xfer", m))
  BY <1>2, CallMeans DEF Within
<1>7. QED BY <1>2, <1>4, <1>5, <1>6, CallMeans DEF Replaces, n

(* SimSystem::Step visits the whole forest.                                  *)
LEMMA BeginPlan ==
  ASSUME NEW ticks, \A x \in Queues : ticks[x] = 0
  PROVE  StepPlan(Calls("work", Roots) \o Calls("xfer", Roots), ticks)
<1> DEFINE W == Calls("work", Roots)
           X == Calls("xfer", Roots)
           s == W \o X
<1>1. Roots \in Seq(Modules) /\ Len(Roots) \in Nat
  BY ForestAssumption
<1>2. CallsFor("work", Roots) /\ CallsFor("xfer", Roots)
  BY <1>1, ModuleCalls
<1>3. /\ W \in Seq(CallType) /\ Len(W) = Len(Roots)
      /\ Members(W) = { Call("work", r) : r \in Members(Roots) }
      /\ \A i \in 1..Len(Roots) : W[i] = Call("work", Roots[i])
  BY <1>2 DEF CallsFor
<1>4. /\ X \in Seq(CallType)
      /\ \A c \in Members(X) : c.op = "xfer" /\ Runs(c) = {} /\ Ticks(c) = {}
  BY <1>2, CallMeans DEF CallsFor
<1> HIDE DEF W, X
<1>5. Ordered(W)
  <2> SUFFICES ASSUME NEW i \in 1..Len(W), NEW j \in 1..Len(W), i < j PROVE Apart(W[i], W[j])
    BY DEF Ordered
  <2>1. i \in 1..Len(Roots) /\ j \in 1..Len(Roots) /\ i # j
    BY <1>1, <1>3
  <2>2. \A k, l \in 1..Len(Roots) : Roots[k] = Roots[l] => k = l
    BY Zenon, ForestAssumption
  <2>3. Roots[i] # Roots[j] /\ Roots[i] \in Members(Roots) /\ Roots[j] \in Members(Roots)
    BY <2>1, <2>2 DEF Members
  <2> DEFINE r == Roots[i]
             q == Roots[j]
  <2>4. W[i] = Call("work", r) /\ W[j] = Call("work", q)
    BY <1>3, <2>1
  <2> HIDE DEF r, q
  <2>5. r \in Modules /\ q \in Modules /\ Subtree[r] \cap Subtree[q] = {}
    BY <2>3, RootsApart, ChildrenAreModules DEF r, q
  <2>6. OwnedBelow(r) \cap OwnedBelow(q) = {}
    BY <2>5, OwnedApart
  <2>7. QED BY <2>4, <2>5, <2>6, CallMeans DEF Apart
<1>6. Ordered(X)
  <2>1. \A i \in 1..Len(X) : X[i] \in Members(X)
    BY DEF Members
  <2>2. QED BY <1>4, <2>1 DEF Ordered, Apart
<1>7. \A c \in Members(W), e \in Members(X) : Apart(c, e)
  BY <1>3, <1>4, CallMeans DEF Apart
<1>8. /\ s \in Seq(CallType) /\ Ordered(s)
      /\ Members(s) = Members(W) \cup Members(X)
  BY <1>3, <1>4, <1>5, <1>6, <1>7, CallsPut, OrderedJoin
<1> HIDE DEF s
<1>9. AllIn(s, StepOps)
  BY <1>3, <1>4, <1>8, CallMeans DEF AllIn, StepOps
<1>10. Fresh(s, ticks)
  <2> SUFFICES ASSUME NEW c \in Members(s)
               PROVE  /\ Ticks(c) \subseteq Queues
                      /\ \A d \in Runs(c) : Observes(d) \subseteq Queues
    BY DEF Fresh
  <2>1. c \in CallType
    BY <1>8, MembersType
  <2>2. QED BY <2>1, RunsTyped, OwnersAndUsers
<1>11. Covered(s, ticks)
  <2> SUFFICES ASSUME NEW x \in Queues PROVE \E c \in Members(s) : x \in Ticks(c)
    BY DEF Covered
  <2>1. PICK owner \in Modules : x \in Members(Owned[owner])
    BY WiringAssumption
  <2>2. PICK r \in Members(Roots) : owner \in Subtree[r]
    BY ForestAssumption
  <2>3. x \in OwnedBelow(r)
    BY <2>1, <2>2 DEF OwnedBelow
  <2>4. Call("work", r) \in Members(s) /\ x \in Ticks(Call("work", r))
    BY <1>3, <1>8, <2>3, CallMeans
  <2>5. QED BY <2>4
<1>12. QED BY <1>8, <1>9, <1>10, <1>11 DEF StepPlan, s, W, X

-----------------------------------------------------------------------------
(***************************************************************************)
(* What the operations used in a Step do to one queue.                       *)
(***************************************************************************)
GoodQueue(r) == r \in QueueType(Packets) /\ Len(r.delayQ) = Len(r.writeQ)

(* A change of what is visible moves the epoch, and the epoch never falls.   *)
Moves(r, s) ==
  /\ GoodQueue(s)
  /\ r.visibleEpoch \in Nat /\ s.visibleEpoch \in Nat
  /\ r.visibleEpoch <= s.visibleEpoch
  /\ s.visibleEpoch = r.visibleEpoch => s.readQ = r.readQ

LEMMA StaysMoves ==
  ASSUME NEW r, GoodQueue(r)
  PROVE  Moves(r, r)
BY DEF GoodQueue, QueueType, Moves

LEMMA WriteMoves ==
  ASSUME NEW r, GoodQueue(r), NEW p \in Packets
  PROVE  Moves(r, QueueWrite(r, p)) /\ QueueWrite(r, p).readQ = r.readQ
<1> DEFINE w == Append(r.writeQ, p)
           d == Append(r.delayQ, r.latency)
<1>1. r.writeQ \in Seq(Packets) /\ r.delayQ \in Seq(Nat) /\ r.latency \in Nat
      /\ r.visibleEpoch \in Nat
  BY DEF GoodQueue, QueueType
<1>2. w \in Seq(Packets) /\ d \in Seq(Nat) /\ Len(d) = Len(w)
  BY <1>1 DEF GoodQueue
<1>3. QueueWrite(r, p) = [r EXCEPT !.writeQ = w, !.delayQ = d]
  BY DEF QueueWrite
<1> HIDE DEF w, d
<1>4. /\ QueueWrite(r, p).readQ = r.readQ /\ QueueWrite(r, p).visibleEpoch = r.visibleEpoch
      /\ QueueWrite(r, p).writeQ = w /\ QueueWrite(r, p).delayQ = d
      /\ QueueWrite(r, p) \in QueueType(Packets)
  BY <1>2, <1>3 DEF GoodQueue, QueueType
<1>5. QED BY <1>1, <1>2, <1>4 DEF GoodQueue, Moves

LEMMA ReadMoves ==
  ASSUME NEW r, GoodQueue(r), ~Empty(r)
  PROVE  /\ Moves(r, QueueRead(r)) /\ Head(r.readQ) \in Packets
         /\ Members(QueueRead(r).readQ) \subseteq Members(r.readQ)
<1> DEFINE rest == Tail(r.readQ)
           epoch == r.visibleEpoch + 1
<1>1. r.readQ \in Seq(Packets) /\ r.readQ # << >> /\ r.visibleEpoch \in Nat
  BY DEF GoodQueue, QueueType, Empty
<1>2. /\ rest \in Seq(Packets) /\ Head(r.readQ) \in Packets
      /\ Len(rest) = Len(r.readQ) - 1 /\ Len(r.readQ) \in Nat
      /\ \A i \in 1..Len(rest) : rest[i] = r.readQ[i + 1]
  BY <1>1, HeadTailProperties
<1>3. \A i \in 1..Len(rest) : i + 1 \in 1..Len(r.readQ)
  BY <1>2
<1>4. Members(rest) \subseteq Members(r.readQ)
  BY <1>2, <1>3 DEF Members
<1>5. QueueRead(r) = [r EXCEPT !.readQ = rest, !.visibleEpoch = epoch]
  BY DEF QueueRead
<1>6. epoch \in Nat /\ r.visibleEpoch <= epoch /\ epoch # r.visibleEpoch
  BY <1>1
<1> HIDE DEF rest, epoch
<1>7. /\ QueueRead(r).readQ = rest /\ QueueRead(r).visibleEpoch = epoch
      /\ GoodQueue(QueueRead(r))
  BY <1>2, <1>5, <1>6 DEF GoodQueue, QueueType
<1>8. QED BY <1>1, <1>2, <1>4, <1>6, <1>7 DEF Moves

LEMMA WorkMoves ==
  ASSUME NEW r, GoodQueue(r)
  PROVE  Moves(r, QueueWork(r)) /\ Members(r.readQ) \subseteq Members(QueueWork(r).readQ)
<1>1. CASE r.stalled
  BY <1>1, StaysMoves DEF QueueWork
<1>2. CASE ~r.stalled
  <2> DEFINE s == QueueWork(r)
  <2>1. PICK n \in 0..Len(r.writeQ) : WorkEffect(Packets, r, s, n)
    BY <1>2, WorkHasEffect DEF GoodQueue
  <2> HIDE DEF s
  <2>2. /\ s \in QueueType(Packets) /\ r \in QueueType(Packets)
        /\ Len(s.delayQ) = Len(s.writeQ)
        /\ Len(s.readQ) = Len(r.readQ) + n
        /\ \A i \in 1..Len(r.readQ) : s.readQ[i] = r.readQ[i]
        /\ s.visibleEpoch = IF n > 0 THEN r.visibleEpoch + 1 ELSE r.visibleEpoch
    BY <2>1 DEF WorkEffect, GoodQueue
  <2>3. /\ s.readQ \in Seq(Packets) /\ r.readQ \in Seq(Packets)
        /\ Len(r.readQ) \in Nat /\ Len(r.writeQ) \in Nat
        /\ r.visibleEpoch \in Nat
    BY SMTT(30), <2>2 DEF QueueType
  <2>4. n \in Nat
    BY <2>3
  <2>5. \A i \in 1..Len(r.readQ) : i \in 1..Len(s.readQ)
    BY <2>2, <2>3, <2>4
  <2>6. Members(r.readQ) \subseteq Members(s.readQ)
    BY <2>2, <2>5 DEF Members
  <2>7. ASSUME s.visibleEpoch = r.visibleEpoch PROVE s.readQ = r.readQ
    <3>1. n = 0
      BY <2>2, <2>3, <2>4, <2>7
    <3>2. Len(s.readQ) = Len(r.readQ)
      BY <2>2, <2>3, <3>1
    <3>3. QED BY <2>2, <2>3, <3>2, SeqEqual
  <2>8. r.visibleEpoch <= s.visibleEpoch /\ s.visibleEpoch \in Nat
    BY <2>2, <2>3
  <2>9. QED BY <2>2, <2>3, <2>6, <2>7, <2>8 DEF Moves, GoodQueue, s
<1>3. QED BY <1>1, <1>2

LEMMA ResetClears ==
  ASSUME NEW r, GoodQueue(r)
  PROVE  /\ GoodQueue(QueueReset(r)) /\ QueueReset(r).readQ = << >>
         /\ QueueReset(r).writeQ = << >>
<1>1. << >> \in Seq(Packets) /\ << >> \in Seq(Nat) /\ Len(<< >>) = 0
  OBVIOUS
<1>2. QED BY <1>1 DEF GoodQueue, QueueType, QueueReset

LEMMA NewIsGood ==
  ASSUME NEW x \in Queues
  PROVE  GoodQueue(NewQueue(Capacity[x], Latency[x]))
<1>1. << >> \in Seq(Packets) /\ << >> \in Seq(Nat) /\ Len(<< >>) = 0
  OBVIOUS
<1>2. QED BY <1>1, ConstantsAssumption DEF GoodQueue, QueueType, NewQueue

-----------------------------------------------------------------------------
(***************************************************************************)
(* The state between two handlers.                                          *)
(***************************************************************************)
GoodQueues(qs) == DOMAIN qs = Queues /\ qs = [x \in Queues |-> qs[x]] /\ \A x \in Queues : GoodQueue(qs[x])

MovesAll(qs, next) ==
  GoodQueues(next) /\ \A x \in Queues : Moves(qs[x], next[x])

(* The move of one packet by a WorkSelf.                                     *)
LEMMA HandMoves ==
  ASSUME GoodQueues(queues), NEW x \in Queues, NEW y \in Queues, CanHand(x, y), Hand(x, y)
  PROVE  /\ MovesAll(queues, queues')
         /\ \A z \in Queues : z # x => queues'[z].readQ = queues[z].readQ
         /\ \A z \in Queues : Members(queues'[z].readQ) \subseteq Members(queues[z].readQ)
<1> DEFINE p == Head(queues[x].readQ)
           taken == [queues EXCEPT ![x] = QueueRead(@)]
<1>1. /\ GoodQueue(queues[x]) /\ GoodQueue(queues[y]) /\ ~Empty(queues[x])
      /\ DOMAIN queues = Queues
  BY DEF GoodQueues, CanHand
<1>2. /\ Moves(queues[x], QueueRead(queues[x])) /\ p \in Packets
      /\ Members(QueueRead(queues[x]).readQ) \subseteq Members(queues[x].readQ)
  BY <1>1, ReadMoves
<1>3. queues' = [taken EXCEPT ![y] = QueueWrite(@, p)]
  BY DEF Hand
<1> HIDE DEF p
<1>4. /\ DOMAIN taken = Queues /\ taken[x] = QueueRead(queues[x])
      /\ \A z \in Queues : z # x => taken[z] = queues[z]
  BY <1>1
<1>5. taken = [z \in Queues |-> taken[z]]
  BY <1>1
<1> HIDE DEF taken
<1>6. \A z \in Queues : Moves(queues[z], taken[z])
  BY <1>2, <1>4, StaysMoves DEF GoodQueues
<1>7. Moves(taken[y], QueueWrite(taken[y], p)) /\ QueueWrite(taken[y], p).readQ = taken[y].readQ
  <2>1. GoodQueue(taken[y])
    BY <1>6 DEF Moves
  <2>2. QED BY <1>2, <2>1, WriteMoves
<1>8. /\ queues' = [z \in Queues |-> queues'[z]] /\ DOMAIN queues' = Queues
      /\ queues'[y] = QueueWrite(taken[y], p)
      /\ \A z \in Queues : z # y => queues'[z] = taken[z]
  BY <1>3, <1>4
<1>9. \A z \in Queues : Moves(queues[z], queues'[z]) /\ queues'[z].readQ = taken[z].readQ
  <2> SUFFICES ASSUME NEW z \in Queues
               PROVE  Moves(queues[z], queues'[z]) /\ queues'[z].readQ = taken[z].readQ
    OBVIOUS
  <2>1. CASE z = y
    <3>1. Moves(queues[y], taken[y])
      BY <1>6
    <3>2. QED BY <1>7, <1>8, <2>1, <3>1 DEF Moves
  <2>2. CASE z # y
    BY <1>6, <1>8, <2>2
  <2>3. QED BY <2>1, <2>2
<1>10. \A z \in Queues : z # x => queues'[z].readQ = queues[z].readQ
  BY <1>4, <1>9
<1>11. \A z \in Queues : Members(queues'[z].readQ) \subseteq Members(queues[z].readQ)
  BY <1>2, <1>4, <1>9
<1>12. QED BY <1>8, <1>9, <1>10, <1>11 DEF MovesAll, GoodQueues, Moves

LogType ==
  [ shown : [Queues -> SUBSET Packets], due : SUBSET Modules,
    ticks : [Queues -> {0, 1}], worked : SUBSET Modules, xfered : SUBSET Modules ]

SystemType ==
  /\ GoodQueues(queues)
  /\ force \in [Modules -> BOOLEAN]
  /\ active \in [Modules -> Seq(Modules)]
  /\ log \in LogType

(* In a Step: the plan, and what is visible on a queue that has not moved    *)
(* was visible when the Step began.                                         *)
ShownSoFar ==
  \A x \in Queues : log.ticks[x] = 0 => Members(queues[x].readQ) \subseteq log.shown[x]

InStep == StepPlan(todo, log.ticks) /\ ShownSoFar

InReset == todo \in Seq(CallType) /\ AllIn(todo, ResetOps)

IInv == SystemType /\ (Between \/ InStep \/ InReset)

(* The next call tells which of Step and Reset is under way.                 *)
LEMMA NextCall ==
  ASSUME IInv, NEW op, NEW x, Calling(op, x)
  PROVE  /\ todo # << >> /\ Head(todo) = Call(op, x)
         /\ op \in StepOps => InStep
         /\ op \in ResetOps => InReset
         /\ op \in StepOps \cup ResetOps
<1>1. todo # << >> /\ Head(todo) = Call(op, x) /\ (InStep \/ InReset)
  BY DEF IInv, Calling, Between
<1>2. Head(todo) \in Members(todo) /\ Head(todo).op = op
  <2>1. todo \in Seq(CallType)
    BY <1>1 DEF InStep, StepPlan, InReset
  <2>2. Head(todo) \in Members(todo)
    BY <1>1, <2>1, TailOfCalls
  <2>3. QED BY <1>1, <2>2 DEF Call
<1>3. (InStep => op \in StepOps) /\ (InReset => op \in ResetOps)
  BY <1>2 DEF InStep, InReset, StepPlan, AllIn
<1>4. QED BY <1>1, <1>3 DEF StepOps, ResetOps

LEMMA InitEstablishesIInv == Init => IInv
<1> SUFFICES ASSUME Init PROVE IInv
  OBVIOUS
<1>1. queues = [x \in Queues |-> NewQueue(Capacity[x], Latency[x])]
  BY DEF Init
<1>2. GoodQueues(queues)
  BY <1>1, NewIsGood DEF GoodQueues
<1>3. force \in [Modules -> BOOLEAN] /\ active \in [Modules -> Seq(Modules)]
  <2>1. << >> \in Seq(Modules)
    OBVIOUS
  <2>2. QED BY <2>1 DEF Init
<1>5. log \in LogType
  BY DEF Init, NewLog, LogType
<1>4. QED BY <1>2, <1>3, <1>5 DEF Init, IInv, SystemType, Between

(* Step begins.                                                             *)
LEMMA BeginStepPreserves == IInv /\ BeginStep => IInv'
<1> SUFFICES ASSUME IInv, BeginStep PROVE IInv'
  OBVIOUS
<1> DEFINE shown == [x \in Queues |-> Members(queues[x].readQ)]
           due == { m \in Modules : HasInputEvent(m) }
<1>1. /\ todo' = Calls("work", Roots) \o Calls("xfer", Roots)
      /\ log' = NewLog(shown, due)
      /\ queues' = queues /\ force' = force /\ active' = active
  BY DEF BeginStep
<1>2. shown \in [Queues -> SUBSET Packets]
  <2>1. \A x \in Queues : queues[x].readQ \in Seq(Packets)
    BY DEF IInv, SystemType, GoodQueues, GoodQueue, QueueType
  <2>2. QED BY <2>1, MembersType
<1>3. due \subseteq Modules
  OBVIOUS
<1>4. \A x \in Queues : shown[x] = Members(queues[x].readQ)
  OBVIOUS
<1> HIDE DEF shown, due
<1>5. /\ log' \in LogType /\ log'.shown = shown
      /\ \A x \in Queues : log'.ticks[x] = 0
  BY <1>1, <1>2, <1>3 DEF NewLog, LogType
<1>6. StepPlan(todo', log'.ticks)
  BY <1>1, <1>5, BeginPlan
<1>7. ShownSoFar'
  BY <1>1, <1>4, <1>5 DEF ShownSoFar
<1>8. SystemType'
  BY <1>1, <1>5 DEF IInv, SystemType
<1>9. QED BY <1>6, <1>7, <1>8 DEF IInv, InStep

(* A handler that moves no queue and makes the calls n.                      *)
LEMMA CallsPreserve ==
  ASSUME IInv, NEW op \in StepOps, NEW m, Calling(op, m),
         NEW n, Replaces(n, Call(op, m)), todo' = n \o Tail(todo),
         queues' = queues, log' \in LogType, log'.ticks = log.ticks, log'.shown = log.shown,
         force' \in [Modules -> BOOLEAN], active' \in [Modules -> Seq(Modules)]
  PROVE  IInv'
<1>1. /\ todo # << >> /\ Head(todo) = Call(op, m)
      /\ StepPlan(todo, log.ticks) /\ ShownSoFar /\ SystemType
  BY NextCall DEF InStep, IInv
<1>2. StepPlan(n \o Tail(todo), log.ticks)
  BY <1>1, PlanExpands DEF Replaces
<1>3. StepPlan(todo', log'.ticks)
  BY <1>2
<1>4. ShownSoFar'
  BY <1>1 DEF ShownSoFar
<1>5. SystemType'
  BY <1>1 DEF SystemType
<1>6. QED BY <1>3, <1>4, <1>5 DEF IInv, InStep

(* A handler that is done with its call, and may have moved packets from     *)
(* queues that have not been advanced.                                      *)
LEMMA DonePreserves ==
  ASSUME IInv, NEW op \in StepOps, NEW m, Calling(op, m), Ticks(Call(op, m)) = {},
         todo' = Tail(todo) \/ todo' = todo,
         GoodQueues(queues'),
         \A x \in Queues : Members(queues'[x].readQ) \subseteq Members(queues[x].readQ),
         log' = log, force' \in [Modules -> BOOLEAN], active' = active
  PROVE  IInv'
<1>1. /\ todo # << >> /\ Head(todo) = Call(op, m)
      /\ StepPlan(todo, log.ticks) /\ ShownSoFar /\ SystemType
  BY NextCall DEF InStep, IInv
<1>2. StepPlan(Tail(todo), log.ticks)
  BY <1>1, PlanGoesOn
<1>3. StepPlan(todo', log'.ticks)
  BY <1>1, <1>2
<1>4. ShownSoFar'
  BY <1>1 DEF ShownSoFar
<1>5. SystemType'
  BY <1>1 DEF SystemType
<1>6. QED BY <1>3, <1>4, <1>5 DEF IInv, InStep

LEMMA WorkPreserves == \A m \in Modules : IInv /\ (WorkAwake(m) \/ WorkAsleep(m)) => IInv'
<1> SUFFICES ASSUME NEW m \in Modules, IInv, WorkAwake(m) \/ WorkAsleep(m) PROVE IInv'
  OBVIOUS
<1>1. SystemType /\ "work" \in StepOps
  BY DEF IInv, StepOps
<1>2. active' = [active EXCEPT ![m] = << >>] /\ force' = force /\ queues' = queues
  BY DEF WorkAwake, WorkAsleep
<1>3. force' \in [Modules -> BOOLEAN] /\ active' \in [Modules -> Seq(Modules)]
  <2>1. << >> \in Seq(Modules)
    OBVIOUS
  <2>2. QED BY <1>1, <1>2, <2>1 DEF SystemType
<1>4. CASE WorkAwake(m)
  <2>1. /\ Calling("work", m)
        /\ todo' = (<<Call("self", m), Call("capture", m)>> \o Rest(m)) \o Tail(todo)
        /\ log' = [log EXCEPT !.worked = @ \cup {m}]
    BY <1>4 DEF WorkAwake
  <2>2. log' \in LogType /\ log'.ticks = log.ticks /\ log'.shown = log.shown
    BY <1>1, <2>1 DEF SystemType, LogType
  <2>3. QED BY <1>1, <1>2, <1>3, <2>1, <2>2, AwakeReplaces, CallsPreserve
<1>5. CASE WorkAsleep(m)
  <2>1. Calling("work", m) /\ todo' = Rest(m) \o Tail(todo) /\ log' = log
    BY <1>5 DEF WorkAsleep
  <2>2. log' \in LogType
    BY <1>1, <2>1 DEF SystemType
  <2>3. QED BY <1>1, <1>2, <1>3, <2>1, <2>2, RestReplaces, CallsPreserve
<1>6. QED BY <1>4, <1>5

LEMMA VisitPreserves ==
  \A c \in Modules : IInv /\ (AdvanceQueuesOnly(c) \/ \E p \in Modules : VisitPending(p, c)) => IInv'
<1> SUFFICES ASSUME NEW c \in Modules, IInv,
                    AdvanceQueuesOnly(c) \/ \E p \in Modules : VisitPending(p, c)
             PROVE  IInv'
  OBVIOUS
<1>1. SystemType /\ "visit" \in StepOps
  BY DEF IInv, StepOps
<1>2. /\ Calling("visit", c) /\ queues' = queues /\ force' = force /\ log' = log
      /\ force' \in [Modules -> BOOLEAN] /\ log' \in LogType
  BY <1>1 DEF AdvanceQueuesOnly, VisitPending, SystemType
<1>3. CASE AdvanceQueuesOnly(c)
  <2>1. todo' = Rest(c) \o Tail(todo) /\ active' = [active EXCEPT ![c] = << >>]
    BY <1>3 DEF AdvanceQueuesOnly
  <2>2. active' \in [Modules -> Seq(Modules)]
    <3>1. << >> \in Seq(Modules)
      OBVIOUS
    <3>2. QED BY <1>1, <2>1, <3>1 DEF SystemType
  <2>3. QED BY <1>1, <1>2, <2>1, <2>2, RestReplaces, CallsPreserve
<1>4. ASSUME NEW p \in Modules, VisitPending(p, c) PROVE IInv'
  <2>1. todo' = <<Call("work", c)>> \o Tail(todo) /\ active' = [active EXCEPT ![p] = Append(@, c)]
    BY <1>4 DEF VisitPending
  <2>2. active' \in [Modules -> Seq(Modules)]
    <3>1. Append(active[p], c) \in Seq(Modules)
      BY <1>1 DEF SystemType
    <3>2. QED BY <1>1, <2>1, <3>1 DEF SystemType
  <2>3. QED BY <1>1, <1>2, <2>1, <2>2, PendingReplaces, CallsPreserve
<1>5. QED BY <1>3, <1>4

LEMMA XferPreserves == \A m \in Modules : IInv /\ Xfer(m) => IInv'
<1> SUFFICES ASSUME NEW m \in Modules, IInv, Xfer(m) PROVE IInv'
  OBVIOUS
<1>1. SystemType /\ "xfer" \in StepOps
  BY DEF IInv, StepOps
<1>2. /\ Calling("xfer", m) /\ todo' = Calls("xfer", active[m]) \o Tail(todo)
      /\ queues' = queues /\ active' = active
  BY DEF Xfer
<1>3. active[m] \in Seq(Modules) /\ active' \in [Modules -> Seq(Modules)]
  BY <1>1, <1>2 DEF SystemType
<1>4. /\ log' \in LogType /\ log'.ticks = log.ticks /\ log'.shown = log.shown
      /\ force' \in [Modules -> BOOLEAN]
  <2>1. CASE ran[m]
    <3>1. log' = [log EXCEPT !.xfered = @ \cup {m}]
      BY <2>1 DEF Xfer
    <3>2. force' = [force EXCEPT ![m] = @ \/ (m \in Reactivating /\ SeesInput(m, queues))]
      BY <2>1 DEF Xfer
    <3>3. (force[m] \/ (m \in Reactivating /\ SeesInput(m, queues))) \in BOOLEAN
      OBVIOUS
    <3>4. force' \in [Modules -> BOOLEAN]
      BY <1>1, <3>2, <3>3 DEF SystemType
    <3>5. log' \in LogType /\ log'.ticks = log.ticks /\ log'.shown = log.shown
      BY <1>1, <3>1 DEF SystemType, LogType
    <3>6. QED BY <3>4, <3>5
  <2>2. CASE ~ran[m]
    BY <1>1, <2>2 DEF Xfer, SystemType
  <2>3. QED BY <2>1, <2>2
<1>5. Replaces(Calls("xfer", active[m]), Call("xfer", m))
  BY <1>3, XferReplaces
<1>6. QED BY <1>1, <1>2, <1>3, <1>4, <1>5, CallsPreserve

LEMMA CapturePreserves == \A m \in Modules : IInv /\ Capture(m) => IInv'
<1> SUFFICES ASSUME NEW m \in Modules, IInv, Capture(m) PROVE IInv'
  OBVIOUS
<1>1. SystemType /\ "capture" \in StepOps /\ Ticks(Call("capture", m)) = {}
  BY CallMeans DEF IInv, StepOps
<1>2. /\ Calling("capture", m) /\ todo' = Tail(todo) /\ queues' = queues
      /\ log' = log /\ active' = active /\ force' = [force EXCEPT ![m] = FALSE]
  BY DEF Capture
<1>3. force' \in [Modules -> BOOLEAN] /\ GoodQueues(queues')
  BY <1>1, <1>2 DEF SystemType
<1>4. QED BY <1>1, <1>2, <1>3, DonePreserves

SelfStep(m) == Forward(m) \/ Push(m) \/ Take(m) \/ SelfDone(m)

(* What a WorkSelf does to the queues: nothing, or one packet is moved from  *)
(* a queue the module observes to one it writes.                            *)
LEMMA SelfMoves ==
  ASSUME NEW m \in Modules, GoodQueues(queues), SelfStep(m)
  PROVE  /\ Calling("self", m) /\ (todo' = Tail(todo) \/ todo' = todo)
         /\ log' = log /\ force' = force /\ active' = active /\ observed' = observed
         /\ MovesAll(queues, queues')
         /\ \A x \in Queues : Members(queues'[x].readQ) \subseteq Members(queues[x].readQ)
         /\ \A x \in Queues \ Observes(m) : queues'[x].readQ = queues[x].readQ
<1>1. /\ Calling("self", m) /\ (todo' = Tail(todo) \/ todo' = todo)
      /\ log' = log /\ force' = force /\ active' = active /\ observed' = observed
  BY DEF SelfStep, Forward, Push, Take, SelfDone
<1>2. CASE queues' = queues
  BY <1>1, <1>2, StaysMoves DEF MovesAll, GoodQueues
<1>3. CASE \E x \in Observes(m), y \in Queues : CanHand(x, y) /\ Hand(x, y)
  <2>1. PICK x \in Observes(m), y \in Queues : CanHand(x, y) /\ Hand(x, y)
    BY <1>3
  <2>2. x \in Queues
    BY OwnersAndUsers
  <2>3. QED BY <1>1, <2>1, <2>2, HandMoves
<1>4. Outputs[m] \subseteq Queues /\ Inputs[m] \subseteq Observes(m)
      /\ Inners[m] \subseteq Observes(m) /\ Observes(m) \subseteq Queues
  BY ConstantsAssumption DEF Observes
<1>5. queues' = queues \/ \E x \in Observes(m), y \in Queues : CanHand(x, y) /\ Hand(x, y)
  <2>1. CASE SelfDone(m)
    BY <2>1 DEF SelfDone
  <2>2. CASE Forward(m)
    <3>1. PICK x \in Inputs[m], y \in Outputs[m] : CanHand(x, y) /\ Hand(x, y)
      BY <2>2 DEF Forward
    <3>2. QED BY <1>4, <3>1
  <2>3. CASE Push(m)
    <3>1. PICK x \in Inners[m], y \in Outputs[m] : CanHand(x, y) /\ Hand(x, y)
      BY <2>3 DEF Push
    <3>2. QED BY <1>4, <3>1
  <2>4. CASE Take(m)
    <3>1. PICK x \in Inputs[m], y \in Inners[m] : CanHand(x, y) /\ Hand(x, y)
      BY <2>4 DEF Take
    <3>2. QED BY <1>4, <3>1
  <2>5. QED BY <2>1, <2>2, <2>3, <2>4 DEF SelfStep
<1>6. QED BY <1>2, <1>3, <1>5

LEMMA SelfPreserves == \A m \in Modules : IInv /\ SelfStep(m) => IInv'
<1> SUFFICES ASSUME NEW m \in Modules, IInv, SelfStep(m) PROVE IInv'
  OBVIOUS
<1>1. SystemType /\ "self" \in StepOps /\ Ticks(Call("self", m)) = {} /\ GoodQueues(queues)
  BY CallMeans DEF IInv, StepOps, SystemType
<1>2. /\ Calling("self", m) /\ (todo' = Tail(todo) \/ todo' = todo)
      /\ log' = log /\ force' = force /\ active' = active
      /\ MovesAll(queues, queues')
      /\ \A x \in Queues : Members(queues'[x].readQ) \subseteq Members(queues[x].readQ)
  BY <1>1, SelfMoves
<1>3. force' \in [Modules -> BOOLEAN] /\ GoodQueues(queues')
  BY <1>1, <1>2 DEF SystemType, MovesAll
<1>4. QED BY <1>1, <1>2, <1>3, DonePreserves

(* One queue replaced by another good one.                                   *)
LEMMA ReplaceQueue ==
  ASSUME GoodQueues(queues), NEW x \in Queues, NEW r, GoodQueue(r), queues' = [queues EXCEPT ![x] = r]
  PROVE  GoodQueues(queues') /\ queues'[x] = r /\ \A z \in Queues : z # x => queues'[z] = queues[z]
<1>1. DOMAIN queues = Queues /\ \A z \in Queues : GoodQueue(queues[z])
  BY DEF GoodQueues
<1>2. /\ DOMAIN queues' = Queues /\ queues' = [z \in Queues |-> queues'[z]]
      /\ queues'[x] = r /\ \A z \in Queues : z # x => queues'[z] = queues[z]
  BY <1>1
<1>3. QED BY <1>1, <1>2 DEF GoodQueues

LEMMA TickMoves ==
  ASSUME NEW x \in Queues, GoodQueues(queues), QueueTick(x)
  PROVE  /\ MovesAll(queues, queues')
         /\ \A z \in Queues : z # x => queues'[z] = queues[z]
         /\ Members(queues[x].readQ) \subseteq Members(queues'[x].readQ)
<1>1. Moves(queues[x], QueueWork(queues[x]))
      /\ Members(queues[x].readQ) \subseteq Members(QueueWork(queues[x]).readQ)
  BY WorkMoves DEF GoodQueues
<1>2. queues' = [queues EXCEPT ![x] = QueueWork(queues[x])]
  BY DEF QueueTick
<1>3. /\ GoodQueues(queues') /\ queues'[x] = QueueWork(queues[x])
      /\ \A z \in Queues : z # x => queues'[z] = queues[z]
  BY <1>1, <1>2, ReplaceQueue DEF Moves
<1>4. QED BY <1>1, <1>3, StaysMoves DEF MovesAll, GoodQueues

LEMMA TickPreserves == \A x \in Queues : IInv /\ QueueTick(x) => IInv'
<1> SUFFICES ASSUME NEW x \in Queues, IInv, QueueTick(x) PROVE IInv'
  OBVIOUS
<1>1. /\ Calling("tick", x) /\ todo' = Tail(todo) /\ force' = force /\ active' = active
      /\ log' = [log EXCEPT !.ticks = [log.ticks EXCEPT ![x] = @ + 1]]
  BY DEF QueueTick
<1>2. /\ todo # << >> /\ Head(todo) = Call("tick", x)
      /\ StepPlan(todo, log.ticks) /\ ShownSoFar /\ SystemType
  BY <1>1, NextCall DEF InStep, IInv, StepOps
<1>3. log \in LogType /\ log.ticks \in [Queues -> {0, 1}] /\ GoodQueues(queues)
  BY <1>2 DEF SystemType, LogType
<1> DEFINE after == [log.ticks EXCEPT ![x] = @ + 1]
<1>4. StepPlan(Tail(todo), after) /\ after \in [Queues -> {0, 1}] /\ log.ticks[x] = 0
  BY <1>2, <1>3, PlanTicks
<1>5. after[x] = 1 /\ \A z \in Queues : z # x => after[z] = log.ticks[z]
  BY <1>3, <1>4
<1>6. log' = [log EXCEPT !.ticks = after]
  BY <1>1
<1> HIDE DEF after
<1>7. log' \in LogType /\ log'.ticks = after /\ log'.shown = log.shown
  BY <1>3, <1>4, <1>6 DEF LogType
<1>8. GoodQueues(queues') /\ \A z \in Queues : z # x => queues'[z] = queues[z]
  BY <1>3, TickMoves DEF MovesAll
<1>9. ShownSoFar'
  BY <1>2, <1>5, <1>7, <1>8 DEF ShownSoFar
<1>10. SystemType'
  BY <1>1, <1>2, <1>7, <1>8 DEF SystemType
<1>11. StepPlan(todo', log'.ticks)
  BY <1>1, <1>4, <1>7
<1>12. QED BY <1>9, <1>10, <1>11 DEF IInv, InStep

-----------------------------------------------------------------------------
(***************************************************************************)
(* Reset, and the surrounding program.                                      *)
(***************************************************************************)

(* The calls one Module::Reset makes.                                        *)
LEMMA ResetCalls ==
  ASSUME NEW m \in Modules
  PROVE  LET n == Calls("reset", Children[m]) \o Calls("clear", Owned[m]) \o <<Call("recapture", m)>>
         IN  /\ n \in Seq(CallType)
             /\ Members(n) = { Call("reset", c) : c \in Members(Children[m]) }
                               \cup { Call("clear", x) : x \in Members(Owned[m]) }
                               \cup { Call("recapture", m) }
             /\ Len(n) > 0 /\ n[Len(n)] = Call("recapture", m)
<1> DEFINE R == Calls("reset", Children[m])
           Q == Calls("clear", Owned[m])
           E == <<Call("recapture", m)>>
<1>1. Children[m] \in Seq(Modules) /\ Owned[m] \in Seq(Queues)
  BY ForestAssumption, WiringAssumption
<1>2. CallsFor("reset", Children[m]) /\ CallsFor("clear", Owned[m])
  BY <1>1, ModuleCalls, QueueCalls
<1>3. /\ R \in Seq(CallType) /\ Members(R) = { Call("reset", c) : c \in Members(Children[m]) }
      /\ Q \in Seq(CallType) /\ Members(Q) = { Call("clear", x) : x \in Members(Owned[m]) }
  BY <1>2 DEF CallsFor
<1>4. E \in Seq(CallType) /\ Len(E) = 1 /\ E[1] = Call("recapture", m)
  <2>1. Call("recapture", m) \in CallType
    BY CallTyped
  <2>2. QED BY <2>1
<1>5. Members(E) = {Call("recapture", m)}
  BY <1>4 DEF Members
<1> HIDE DEF R, Q, E
<1>6. R \o Q \in Seq(CallType) /\ Members(R \o Q) = Members(R) \cup Members(Q)
  BY <1>3, CallsPut
<1> DEFINE H == R \o Q
<1>7. H \in Seq(CallType) /\ Members(H) = Members(R) \cup Members(Q)
  BY <1>6
<1> HIDE DEF H
<1>8. H \o E \in Seq(CallType) /\ Members(H \o E) = Members(H) \cup Members(E)
  BY <1>4, <1>7, CallsPut
<1>9. Joined(H \o E, H, E)
  BY <1>4, <1>7, ConcatJoins
<1>10. Len(H \o E) = Len(H) + 1 /\ Len(H) \in Nat /\ (H \o E)[Len(H) + 1] = Call("recapture", m)
  BY <1>4, <1>7, <1>9 DEF Joined
<1>11. Len(H \o E) > 0 /\ (H \o E)[Len(H \o E)] = Call("recapture", m)
  BY <1>10
<1>12. QED BY <1>3, <1>5, <1>7, <1>8, <1>11 DEF H, R, Q, E

LEMMA ResetPreserves ==
  /\ IInv /\ BeginReset => IInv'
  /\ \A m \in Modules : IInv /\ (ResetModule(m) \/ ResetEventState(m)) => IInv'
  /\ \A x \in Queues : IInv /\ ClearQueue(x) => IInv'
<1>1. ASSUME IInv, BeginReset PROVE IInv'
  <2>1. /\ todo' = Calls("reset", Roots) /\ queues' = queues /\ force' = force /\ active' = active
        /\ log' = NewLog([x \in Queues |-> {}], {})
    BY <1>1 DEF BeginReset
  <2>2. CallsFor("reset", Roots)
    BY ForestAssumption, ModuleCalls
  <2>3. InReset'
    BY <2>1, <2>2, CallMeans DEF InReset, AllIn, CallsFor, ResetOps
  <2>4. log' \in LogType
    BY <2>1 DEF NewLog, LogType
  <2>5. QED BY <1>1, <2>1, <2>3, <2>4 DEF IInv, SystemType
<1>2. ASSUME NEW m \in Modules, IInv, ResetModule(m) PROVE IInv'
  <2> DEFINE n == Calls("reset", Children[m]) \o Calls("clear", Owned[m]) \o <<Call("recapture", m)>>
  <2>1. /\ Calling("reset", m) /\ todo' = n \o Tail(todo)
        /\ queues' = queues /\ force' = force /\ active' = active /\ log' = log
    BY <1>2 DEF ResetModule
  <2>2. n \in Seq(CallType) /\ \A c \in Members(n) : c.op \in ResetOps
    <3>1. /\ n \in Seq(CallType)
          /\ Members(n) = { Call("reset", c) : c \in Members(Children[m]) }
                            \cup { Call("clear", x) : x \in Members(Owned[m]) }
                            \cup { Call("recapture", m) }
      BY ResetCalls
    <3> HIDE DEF n
    <3>2. QED BY <3>1 DEF ResetOps, Call
  <2> HIDE DEF n
  <2>3. todo # << >> /\ todo \in Seq(CallType) /\ AllIn(todo, ResetOps) /\ SystemType
    BY <1>2, <2>1, NextCall DEF InReset, IInv, ResetOps
  <2>4. Tail(todo) \in Seq(CallType) /\ Members(Tail(todo)) \subseteq Members(todo)
    BY <2>3, TailOfCalls
  <2>5. n \o Tail(todo) \in Seq(CallType) /\ Members(n \o Tail(todo)) = Members(n) \cup Members(Tail(todo))
    <3>1. n \in Seq(CallType) /\ Tail(todo) \in Seq(CallType)
      BY <2>2, <2>4
    <3>2. QED BY <3>1, CallsPut
  <2>6. InReset'
    BY <2>1, <2>2, <2>3, <2>4, <2>5 DEF InReset, AllIn
  <2>7. QED BY <2>1, <2>3, <2>6 DEF IInv, SystemType
<1>3. ASSUME NEW op \in ResetOps, NEW x, IInv, Calling(op, x), todo' = Tail(todo) PROVE InReset' /\ SystemType
  <2>1. todo # << >> /\ todo \in Seq(CallType) /\ AllIn(todo, ResetOps) /\ SystemType
    BY <1>3, NextCall DEF InReset, IInv
  <2>2. Tail(todo) \in Seq(CallType) /\ Members(Tail(todo)) \subseteq Members(todo)
    BY <2>1, TailOfCalls
  <2>3. QED BY <1>3, <2>1, <2>2 DEF InReset, AllIn
<1>4. ASSUME NEW m \in Modules, IInv, ResetEventState(m) PROVE IInv'
  <2>1. /\ Calling("recapture", m) /\ todo' = Tail(todo) /\ queues' = queues /\ log' = log
        /\ force' = [d \in Modules |-> IF d \in Subtree[m] THEN FALSE ELSE force[d]]
        /\ active' = [d \in Modules |-> IF d \in Subtree[m] THEN << >> ELSE active[d]]
    BY <1>4 DEF ResetEventState
  <2>2. InReset' /\ SystemType
    BY <1>3, <1>4, <2>1 DEF ResetOps
  <2>3. force' \in [Modules -> BOOLEAN] /\ active' \in [Modules -> Seq(Modules)]
    <3>1. << >> \in Seq(Modules)
      OBVIOUS
    <3>2. QED BY <2>1, <2>2, <3>1 DEF SystemType
  <2>4. QED BY <2>1, <2>2, <2>3 DEF IInv, SystemType
<1>5. ASSUME NEW x \in Queues, IInv, ClearQueue(x) PROVE IInv'
  <2>1. /\ Calling("clear", x) /\ todo' = Tail(todo) /\ log' = log /\ force' = force /\ active' = active
        /\ queues' = [queues EXCEPT ![x] = QueueReset(queues[x])]
    BY <1>5 DEF ClearQueue
  <2>2. InReset' /\ SystemType
    BY <1>3, <1>5, <2>1 DEF ResetOps
  <2>3. GoodQueues(queues) /\ GoodQueue(QueueReset(queues[x]))
    BY <2>2, ResetClears DEF SystemType, GoodQueues
  <2>4. GoodQueues(queues')
    BY <2>1, <2>3, ReplaceQueue
  <2>5. QED BY <2>1, <2>2, <2>4 DEF IInv, SystemType
<1>6. QED BY <1>1, <1>2, <1>4, <1>5

(* Entry and exit are queues.                                                *)
LEMMA EndsAreQueues == Entry \in Queues /\ Exit \in Queues
<1>1. Path \in Seq(Queues) /\ Path # << >>
  BY ConstantsAssumption
<1>2. Len(Path) \in Nat /\ Len(Path) # 0
  BY <1>1
<1>3. 1 \in 1..Len(Path) /\ Len(Path) \in 1..Len(Path)
  BY <1>2
<1>4. QED BY <1>1, <1>3 DEF Entry, Exit

LEMMA SendMoves ==
  ASSUME NEW p \in Packets, GoodQueues(queues), Send(p)
  PROVE  MovesAll(queues, queues')
<1>1. queues' = [queues EXCEPT ![Entry] = QueueWrite(queues[Entry], p)]
  BY DEF Send
<1>2. Entry \in Queues /\ Moves(queues[Entry], QueueWrite(queues[Entry], p))
  BY EndsAreQueues, WriteMoves DEF GoodQueues
<1> DEFINE e == Entry
           r == QueueWrite(queues[Entry], p)
<1>3. queues' = [queues EXCEPT ![e] = r] /\ e \in Queues /\ GoodQueue(r) /\ Moves(queues[e], r)
  BY <1>1, <1>2 DEF Moves
<1> HIDE DEF e, r
<1>4. GoodQueues(queues') /\ queues'[e] = r /\ \A z \in Queues : z # e => queues'[z] = queues[z]
  BY <1>3, ReplaceQueue
<1>5. QED BY <1>3, <1>4, StaysMoves DEF MovesAll, GoodQueues

LEMMA ReceiveMoves ==
  ASSUME GoodQueues(queues), Receive
  PROVE  MovesAll(queues, queues')
<1>1. queues' = [queues EXCEPT ![Exit] = QueueRead(queues[Exit])] /\ ~Empty(queues[Exit])
  BY DEF Receive
<1>2. Exit \in Queues /\ Moves(queues[Exit], QueueRead(queues[Exit]))
  BY <1>1, EndsAreQueues, ReadMoves DEF GoodQueues
<1> DEFINE e == Exit
           r == QueueRead(queues[Exit])
<1>3. queues' = [queues EXCEPT ![e] = r] /\ e \in Queues /\ GoodQueue(r) /\ Moves(queues[e], r)
  BY <1>1, <1>2 DEF Moves
<1> HIDE DEF e, r
<1>4. GoodQueues(queues') /\ queues'[e] = r /\ \A z \in Queues : z # e => queues'[z] = queues[z]
  BY <1>3, ReplaceQueue
<1>5. QED BY <1>3, <1>4, StaysMoves DEF MovesAll, GoodQueues

Outside == Receive \/ (\E p \in Packets : Send(p)) \/ (\E m \in Requested : RequestActivation(m))

LEMMA OutsidePreserves == IInv /\ Outside => IInv'
<1> SUFFICES ASSUME IInv, Outside PROVE IInv'
  OBVIOUS
<1>1. /\ Between /\ todo' = todo /\ active' = active /\ log' = log
      /\ SystemType /\ GoodQueues(queues)
  BY DEF Outside, Receive, Send, RequestActivation, IInv, SystemType
<1>2. GoodQueues(queues')
  <2>1. CASE Receive
    BY <1>1, <2>1, ReceiveMoves DEF MovesAll
  <2>2. CASE \E p \in Packets : Send(p)
    BY <1>1, <2>2, SendMoves DEF MovesAll
  <2>3. CASE \E m \in Requested : RequestActivation(m)
    BY <1>1, <2>3 DEF RequestActivation
  <2>4. QED BY <2>1, <2>2, <2>3 DEF Outside
<1>3. force' \in [Modules -> BOOLEAN]
  BY <1>1 DEF Outside, Receive, Send, RequestActivation, SystemType
<1>4. QED BY <1>1, <1>2, <1>3 DEF IInv, SystemType, Between

LEMMA NextPreservesIInv == IInv /\ [Next]_vars => IInv'
<1> SUFFICES ASSUME IInv, [Next]_vars PROVE IInv'
  OBVIOUS
<1>1. CASE WorkPhase
  <2>1. \/ \E m \in Modules : WorkAwake(m) \/ WorkAsleep(m)
        \/ \E m \in Modules : Capture(m)
        \/ \E m \in Modules : SelfStep(m)
        \/ \E c \in Modules : AdvanceQueuesOnly(c) \/ \E p \in Modules : VisitPending(p, c)
        \/ \E x \in Queues : QueueTick(x)
    BY <1>1 DEF WorkPhase, SelfStep
  <2>2. QED BY <2>1, WorkPreserves, CapturePreserves, SelfPreserves, VisitPreserves, TickPreserves
<1>2. CASE XferPhase
  BY <1>2, XferPreserves DEF XferPhase
<1>3. CASE ResetPhase \/ BeginReset
  BY <1>3, ResetPreserves DEF ResetPhase
<1>4. CASE BeginStep
  BY <1>4, BeginStepPreserves
<1>5. CASE Outside
  BY <1>5, OutsidePreserves
<1>6. CASE UNCHANGED vars
  BY <1>6 DEF vars, IInv, SystemType, InStep, InReset, ShownSoFar, Between
<1>7. QED BY <1>1, <1>2, <1>3, <1>4, <1>5, <1>6 DEF Next, Step, Outside

(* Whatever the forest, the calls pending in a Step or Reset are as planned:  *)
(* the invariant the theorems below rest on.                                 *)
THEOREM ScheduleIsPlanned == Spec => []IInv
<1>1. QED BY InitEstablishesIInv, NextPreservesIInv, PTL DEF Spec

-----------------------------------------------------------------------------
(***************************************************************************)
(* The theorems.                                                            *)
(***************************************************************************)

(* Module::Work and AdvanceQueuesOnly advance every owned queue once in a     *)
(* Step, and none is left when Xfer begins: latencies count Steps.           *)
LEMMA PlanTicksOnce == IInv => OneTickPerStep
<1> SUFFICES ASSUME IInv, NEW x \in Queues
             PROVE  log.ticks[x] <= 1 /\ (InXferPhase => log.ticks[x] = 1)
  BY DEF OneTickPerStep
<1>1. log.ticks[x] \in {0, 1}
  BY DEF IInv, SystemType, LogType
<1>2. ASSUME InXferPhase PROVE log.ticks[x] = 1
  <2>1. todo # << >> /\ Head(todo).op = "xfer" /\ (InStep \/ InReset)
    BY <1>2 DEF IInv, InXferPhase, Between
  <2>2. todo \in Seq(CallType)
    BY <2>1 DEF InStep, StepPlan, InReset
  <2>3. Members(todo) = {Head(todo)} \cup Members(Tail(todo))
        /\ (Ordered(todo) => \A e \in Members(Tail(todo)) : Apart(Head(todo), e))
    BY <2>1, <2>2, TailOfCalls
  <2>4. InStep
    BY <2>1, <2>3 DEF InReset, AllIn, ResetOps
  <2>5. \A c \in Members(todo) : c.op = "xfer"
    BY <2>1, <2>3, <2>4 DEF InStep, StepPlan, Apart
  <2>6. \A c \in Members(todo) : Ticks(c) = {}
    BY <2>5 DEF Ticks
  <2>7. QED BY <2>4, <2>6 DEF InStep, StepPlan, Covered
<1>3. QED BY <1>1, <1>2

THEOREM TicksOnce == Spec => []OneTickPerStep
<1>1. QED BY ScheduleIsPlanned, PlanTicksOnce, PTL

(* A module reads in a Step only what was visible when the Step began,        *)
(* whatever the order of siblings and the depth of the tree: a queue is       *)
(* advanced only after every module that observes it has run.                *)
LEMMA StepKeepsBoundary ==
  ASSUME IInv, [Next]_vars, NEW x \in Queues
  PROVE  Members(queues[x].readQ) \ Members(queues'[x].readQ)
           \subseteq IF Between \/ Resetting THEN Packets ELSE log.shown[x]
<1>1. Members(queues[x].readQ) \subseteq Packets
  <2>1. queues[x].readQ \in Seq(Packets)
    BY DEF IInv, SystemType, GoodQueues, GoodQueue, QueueType
  <2>2. QED BY <2>1, MembersType
<1> SUFFICES ASSUME ~Between, ~Resetting
             PROVE  Members(queues[x].readQ) \ Members(queues'[x].readQ) \subseteq log.shown[x]
  BY <1>1
<1>2. CASE queues' = queues
  BY <1>2
<1>3. ASSUME NEW m \in Modules, SelfStep(m)
      PROVE  Members(queues[x].readQ) \ Members(queues'[x].readQ) \subseteq log.shown[x]
  <2>1. Calling("self", m) /\ (x \notin Observes(m) => queues'[x].readQ = queues[x].readQ)
    BY <1>3, SelfMoves DEF IInv, SystemType
  <2>2. CASE x \notin Observes(m)
    BY <2>1, <2>2
  <2>3. CASE x \in Observes(m)
    <3>1. InStep /\ todo # << >> /\ Head(todo) = Call("self", m)
      BY <2>1, NextCall DEF StepOps
    <3>2. Head(todo) \in Members(todo) /\ Runs(Head(todo)) = {m}
      BY <3>1, TailOfCalls, CallMeans DEF InStep, StepPlan
    <3>3. log.ticks[x] = 0
      BY <2>3, <3>1, <3>2 DEF InStep, StepPlan, Fresh
    <3>4. QED BY <3>1, <3>3 DEF InStep, ShownSoFar
  <2>4. QED BY <2>2, <2>3
<1>4. ASSUME NEW z \in Queues, QueueTick(z)
      PROVE  Members(queues[x].readQ) \ Members(queues'[x].readQ) \subseteq log.shown[x]
  BY <1>4, TickMoves DEF IInv, SystemType
<1>5. ~ResetPhase
  <2> SUFFICES ASSUME NEW op \in ResetOps, NEW z, Calling(op, z) PROVE FALSE
    BY DEF ResetPhase, ResetModule, ResetEventState, ClearQueue, ResetOps
  <2>1. QED BY DEF Calling, Resetting, ResetOps, Call
<1>6. \/ queues' = queues \/ ResetPhase
      \/ (\E m \in Modules : SelfStep(m)) \/ (\E z \in Queues : QueueTick(z))
  <2>1. CASE WorkPhase
    BY <2>1 DEF WorkPhase, WorkAwake, WorkAsleep, Capture, AdvanceQueuesOnly, VisitPending, SelfStep
  <2>2. CASE XferPhase
    BY <2>2 DEF XferPhase, Xfer
  <2>3. CASE UNCHANGED vars
    BY <2>3 DEF vars
  <2>4. ~(BeginStep \/ BeginReset \/ Outside)
    BY DEF BeginStep, BeginReset, Outside, Receive, Send, RequestActivation
  <2>5. QED BY <2>1, <2>2, <2>3, <2>4 DEF Next, Step, Outside
<1>7. QED BY <1>2, <1>3, <1>4, <1>5, <1>6

THEOREM StepsReadWhatWasShown == Spec => CycleBoundary
<1> DEFINE Kept == \A x \in Queues :
              Members(queues[x].readQ) \ Members(queues'[x].readQ)
                \subseteq IF Between \/ Resetting THEN Packets ELSE log.shown[x]
<1>1. IInv /\ [Next]_vars => [Kept]_vars
  BY StepKeepsBoundary
<1> HIDE DEF Kept
<1>2. Spec => [][Kept]_vars
  BY <1>1, ScheduleIsPlanned, PTL DEF Spec
<1>3. QED BY <1>2 DEF CycleBoundary, Kept

-----------------------------------------------------------------------------
(***************************************************************************)
(* Events.  What follows is a second invariant, about what wakes a module,   *)
(* on top of the first.                                                     *)
(***************************************************************************)
EventType ==
  /\ DOMAIN observed = Modules /\ observed = [m \in Modules |-> observed[m]]
  /\ \A m \in Modules : observed[m] \in [Observes(m) -> Nat]
  /\ DOMAIN left = Modules /\ left = [m \in Modules |-> left[m]]

(* An observer is never ahead of a queue, and one without an event has seen  *)
(* what is visible.                                                         *)
Known == \A m \in Modules : \A x \in Observes(m) : observed[m][x] <= queues[x].visibleEpoch

Seen == \A m \in Modules : ~HasInputEvent(m) => Visible(m, queues) \subseteq left[m]

(* Every capture comes right after its WorkSelf.                             *)
CapturePlan(s) ==
  \A i \in 2..Len(s) : s[i].op = "capture" => s[i - 1] = Call("self", s[i].on)

StartsWithout(s) == s = << >> \/ Head(s).op # "capture"

TodoPlan(s, worked) ==
  /\ s \in Seq(CallType) /\ AllIn(s, StepOps) /\ CapturePlan(s)
  /\ \A c \in Members(s) : c.op \in {"self", "capture"} => c.on \in worked

(* A due module has run, or still has its event and will be asked.           *)
WillAsk(m, s) == \E c \in Members(s) : c.op \in {"work", "visit"} /\ m \in Subtree[c.on]
DuePlan == \A m \in log.due : m \in log.worked \/ (HasInputEvent(m) /\ WillAsk(m, todo))

AtCapture ==
  \A m \in Modules :
    todo # << >> /\ Head(todo) = Call("capture", m) => Visible(m, queues) \subseteq left[m]

EventPlan == TodoPlan(todo, log.worked) /\ DuePlan /\ AtCapture

-----------------------------------------------------------------------------
LEMMA CapturesJoin ==
  ASSUME NEW a \in Seq(CallType), NEW b \in Seq(CallType),
         CapturePlan(a), CapturePlan(b), StartsWithout(b)
  PROVE  CapturePlan(a \o b)
<1>1. a \o b \in Seq(CallType) /\ Joined(a \o b, a, b)
  BY ConcatJoins
<1>2. Len(a) \in Nat /\ Len(b) \in Nat /\ Len(a \o b) = Len(a) + Len(b)
  BY <1>1 DEF Joined
<1>3. \A i \in 1..Len(a) : (a \o b)[i] = a[i]
  BY <1>1, <1>2 DEF Joined
<1>4. \A i \in 1..Len(b) : (a \o b)[Len(a) + i] = b[i]
  BY <1>1, <1>2 DEF Joined
<1> DEFINE j == a \o b
           la == Len(a)
           lb == Len(b)
<1>5. /\ \A i \in 1..la : j[i] = a[i]
      /\ \A i \in 1..lb : j[la + i] = b[i]
      /\ la \in Nat /\ lb \in Nat /\ Len(j) = la + lb
  BY <1>2, <1>3, <1>4
<1>6. lb > 0 => b[1].op # "capture"
  BY DEF StartsWithout
<1>7. /\ \A i \in 2..la : a[i].op = "capture" => a[i - 1] = Call("self", a[i].on)
      /\ \A i \in 2..lb : b[i].op = "capture" => b[i - 1] = Call("self", b[i].on)
  BY DEF CapturePlan
<1> HIDE DEF j, la, lb
<1>8. ASSUME NEW i \in 2..(la + lb), j[i].op = "capture"
      PROVE  j[i - 1] = Call("self", j[i].on)
  <2>1. CASE i <= la
    <3>1. i \in 2..la /\ i \in 1..la /\ i - 1 \in 1..la
      BY <1>5, <2>1
    <3>2. QED BY <1>5, <1>7, <1>8, <3>1
  <2>2. CASE ~(i <= la)
    <3>1. i - la \in 1..lb /\ la + (i - la) = i
      BY <1>5, <2>2
    <3>2. j[i] = b[i - la]
      BY <1>5, <3>1
    <3>3. i - la # 1
      BY SMTT(30), <1>5, <1>6, <1>8, <3>1, <3>2
    <3>4. i - la \in 2..lb /\ (i - la) - 1 \in 1..lb /\ la + ((i - la) - 1) = i - 1
      BY <1>5, <3>1, <3>3
    <3>5. j[i - 1] = b[(i - la) - 1]
      BY <1>5, <3>4
    <3>6. QED BY <1>7, <1>8, <3>2, <3>4, <3>5
  <2>3. QED BY <2>1, <2>2
<1>9. QED BY <1>5, <1>8 DEF CapturePlan, j

LEMMA NoCaptures ==
  ASSUME NEW s \in Seq(CallType), \A c \in Members(s) : c.op # "capture"
  PROVE  CapturePlan(s) /\ StartsWithout(s)
<1>1. \A i \in 1..Len(s) : s[i] \in Members(s)
  BY DEF Members
<1>2. CapturePlan(s)
  BY <1>1 DEF CapturePlan
<1>3. s # << >> => Head(s) \in Members(s)
  BY TailOfCalls
<1>4. QED BY <1>2, <1>3 DEF StartsWithout

LEMMA TailCaptures ==
  ASSUME NEW s \in Seq(CallType), s # << >>, CapturePlan(s)
  PROVE  /\ CapturePlan(Tail(s))
         /\ Head(s).op # "self" => StartsWithout(Tail(s))
         /\ \A m : Tail(s) # << >> /\ Head(Tail(s)) = Call("capture", m) => Head(s) = Call("self", m)
<1>1. /\ Tail(s) \in Seq(CallType) /\ Len(Tail(s)) = Len(s) - 1 /\ Len(s) \in Nat
      /\ \A i \in 1..Len(Tail(s)) : Tail(s)[i] = s[i + 1]
      /\ Head(s) = s[1]
      /\ Len(s) > 0
  BY HeadTailProperties
<1>2. CapturePlan(Tail(s))
  <2> SUFFICES ASSUME NEW i \in 2..Len(Tail(s)), Tail(s)[i].op = "capture"
               PROVE  Tail(s)[i - 1] = Call("self", Tail(s)[i].on)
    BY DEF CapturePlan
  <2>1. /\ i + 1 \in 2..Len(s) /\ i \in 1..Len(Tail(s)) /\ i - 1 \in 1..Len(Tail(s))
        /\ (i + 1) - 1 = i /\ (i - 1) + 1 = i
    BY <1>1
  <2>2. Tail(s)[i] = s[i + 1] /\ Tail(s)[i - 1] = s[i]
    BY <1>1, <2>1
  <2>3. s[(i + 1) - 1] = Call("self", s[i + 1].on)
    BY <2>1, <2>2 DEF CapturePlan
  <2>4. QED BY <2>1, <2>2, <2>3
<1>3. ASSUME Tail(s) # << >>, Head(Tail(s)).op = "capture"
      PROVE  Head(s) = Call("self", Head(Tail(s)).on)
  <2>1. Len(Tail(s)) \in Nat /\ Len(Tail(s)) # 0 /\ Head(Tail(s)) = Tail(s)[1]
    BY <1>1, <1>3, HeadTailProperties
  <2>2. 1 \in 1..Len(Tail(s)) /\ 2 \in 2..Len(s)
    BY <1>1, <2>1
  <2>3. Head(Tail(s)) = s[2]
    BY <1>1, <2>1, <2>2
  <2>4. 2 - 1 = 1
    OBVIOUS
  <2>5. s[1] = Call("self", s[2].on)
    BY <1>3, <2>2, <2>3, <2>4 DEF CapturePlan
  <2>6. QED BY <1>1, <2>3, <2>5
<1>4. \A m : Call("capture", m).op = "capture" /\ Call("capture", m).on = m
             /\ Call("self", m).op = "self"
  BY DEF Call
<1>5. QED BY <1>2, <1>3, <1>4 DEF StartsWithout

LEMMA StartsJoin ==
  ASSUME NEW a \in Seq(CallType), NEW b \in Seq(CallType), StartsWithout(a), StartsWithout(b)
  PROVE  StartsWithout(a \o b)
<1>1. a \o b \in Seq(CallType) /\ Joined(a \o b, a, b)
  BY ConcatJoins
<1>2. CASE a # << >>
  <2>1. Len(a) \in Nat /\ Len(a) # 0 /\ Len(b) \in Nat
    BY <1>2
  <2>2. 1 \in 1..Len(a) /\ a \o b # << >> /\ Len(a \o b) # 0
    BY <1>1, <2>1 DEF Joined
  <2>3. (a \o b)[1] = a[1]
    BY <1>1, <2>2 DEF Joined
  <2>4. Head(a \o b) = (a \o b)[1] /\ Head(a) = a[1]
    BY <1>1, <1>2, <2>2, HeadTailProperties
  <2>5. QED BY <1>2, <2>3, <2>4 DEF StartsWithout
<1>3. CASE a = << >>
  <2>1. a \o b = b
    BY <1>3
  <2>2. QED BY <2>1
<1>4. QED BY <1>2, <1>3

LEMMA TodoExpands ==
  ASSUME NEW s, NEW w, NEW v, w \subseteq v, TodoPlan(s, w), s # << >>, Head(s).op # "self",
         NEW n \in Seq(CallType), AllIn(n, StepOps), CapturePlan(n), StartsWithout(n),
         \A c \in Members(n) : c.op \in {"self", "capture"} => c.on \in v
  PROVE  /\ TodoPlan(n \o Tail(s), v) /\ StartsWithout(n \o Tail(s))
         /\ Members(n \o Tail(s)) = Members(n) \cup Members(Tail(s))
         /\ Members(s) = {Head(s)} \cup Members(Tail(s))
<1>1. /\ s \in Seq(CallType) /\ Tail(s) \in Seq(CallType)
      /\ Members(s) = {Head(s)} \cup Members(Tail(s))
      /\ CapturePlan(Tail(s)) /\ StartsWithout(Tail(s))
  BY TailOfCalls, TailCaptures DEF TodoPlan
<1>2. /\ n \o Tail(s) \in Seq(CallType)
      /\ Members(n \o Tail(s)) = Members(n) \cup Members(Tail(s))
  <2>1. Tail(s) \in Seq(CallType)
    BY <1>1
  <2>2. QED BY <2>1, CallsPut
<1>3. CapturePlan(n \o Tail(s))
  BY <1>1, CapturesJoin
<1>4. AllIn(n \o Tail(s), StepOps)
  BY <1>1, <1>2 DEF TodoPlan, AllIn
<1>5. \A c \in Members(n \o Tail(s)) : c.op \in {"self", "capture"} => c.on \in v
  BY <1>1, <1>2 DEF TodoPlan
<1>6. StartsWithout(n \o Tail(s))
  BY <1>1, StartsJoin
<1>7. QED BY <1>1, <1>2, <1>3, <1>4, <1>5, <1>6 DEF TodoPlan

LEMMA TodoGoesOn ==
  ASSUME NEW s, NEW w, TodoPlan(s, w), s # << >>
  PROVE  /\ TodoPlan(Tail(s), w)
         /\ Members(s) = {Head(s)} \cup Members(Tail(s))
         /\ Head(s).op # "self" => StartsWithout(Tail(s))
         /\ \A m : Tail(s) # << >> /\ Head(Tail(s)) = Call("capture", m) => Head(s) = Call("self", m)
<1>1. /\ s \in Seq(CallType) /\ Tail(s) \in Seq(CallType)
      /\ Members(s) = {Head(s)} \cup Members(Tail(s))
  BY TailOfCalls DEF TodoPlan
<1>2. /\ CapturePlan(Tail(s)) /\ (Head(s).op # "self" => StartsWithout(Tail(s)))
      /\ \A m : Tail(s) # << >> /\ Head(Tail(s)) = Call("capture", m) => Head(s) = Call("self", m)
  BY <1>1, TailCaptures DEF TodoPlan
<1>3. QED BY <1>1, <1>2 DEF TodoPlan, AllIn

-----------------------------------------------------------------------------
(***************************************************************************)
(* When queues move, events stay and nothing goes unseen.                    *)
(***************************************************************************)
LEMMA EpochsAre ==
  ASSUME EventType, NEW m \in Modules, NEW qs
  PROVE  /\ observed[m] = Epochs(m, qs) <=> \A x \in Observes(m) : observed[m][x] = qs[x].visibleEpoch
         /\ \A x \in Observes(m) : Epochs(m, qs)[x] = qs[x].visibleEpoch
<1>1. observed[m] = [x \in Observes(m) |-> observed[m][x]]
  BY DEF EventType
<1>2. QED BY <1>1 DEF Epochs

LEMMA EventsStay ==
  ASSUME EventType, Known, MovesAll(queues, queues'), observed' = observed,
         \A m \in Modules : force[m] => force'[m]
  PROVE  /\ Known'
         /\ \A m \in Modules : HasInputEvent(m) => HasInputEvent(m)'
         /\ \A m \in Modules : ~HasInputEvent(m)' => Visible(m, queues') = Visible(m, queues)
<1>1. \A m \in Modules : Observes(m) \subseteq Queues
  BY OwnersAndUsers
<1>2. \A m \in Modules : \A x \in Observes(m) : observed[m][x] \in Nat
  BY DEF EventType
<1>3. \A x \in Queues : /\ queues[x].visibleEpoch \in Nat /\ queues'[x].visibleEpoch \in Nat
                        /\ queues[x].visibleEpoch <= queues'[x].visibleEpoch
                        /\ queues'[x].visibleEpoch = queues[x].visibleEpoch
                             => queues'[x].readQ = queues[x].readQ
  BY DEF MovesAll, Moves
<1>4. ASSUME NEW m \in Modules, NEW x \in Observes(m)
      PROVE  observed[m][x] <= queues'[x].visibleEpoch
  <2>1. x \in Queues /\ observed[m][x] \in Nat /\ observed[m][x] <= queues[x].visibleEpoch
    BY <1>1, <1>2 DEF Known
  <2>2. QED BY <1>3, <2>1
<1>5. Known'
  BY <1>4 DEF Known
<1>6. ASSUME NEW m \in Modules, ~HasInputEvent(m)'
      PROVE  /\ ~HasInputEvent(m)
             /\ \A x \in Observes(m) : queues'[x].readQ = queues[x].readQ
  <2>1. ~force[m] /\ observed[m] = Epochs(m, queues')
    BY <1>6 DEF HasInputEvent, Epochs
  <2>2. ASSUME NEW x \in Observes(m)
        PROVE  observed[m][x] = queues[x].visibleEpoch /\ queues'[x].readQ = queues[x].readQ
    <3>1. x \in Queues /\ observed[m][x] \in Nat /\ observed[m][x] <= queues[x].visibleEpoch
      BY <1>1, <1>2 DEF Known
    <3>2. observed[m][x] = queues'[x].visibleEpoch
      BY <2>1, EpochsAre
    <3>3. queues'[x].visibleEpoch = queues[x].visibleEpoch
      BY <1>3, <3>1, <3>2
    <3>4. QED BY <1>3, <3>1, <3>2, <3>3
  <2>3. observed[m] = Epochs(m, queues)
    BY <2>2, EpochsAre
  <2>4. QED BY <2>1, <2>2, <2>3 DEF HasInputEvent
<1>7. \A m \in Modules : ~HasInputEvent(m)' => Visible(m, queues') = Visible(m, queues)
  BY <1>6 DEF Visible
<1>8. QED BY <1>5, <1>6, <1>7

Settled == Known /\ Seen

LEMMA SettledStays ==
  ASSUME EventType, Settled, MovesAll(queues, queues'), observed' = observed, left' = left,
         \A m \in Modules : force[m] => force'[m]
  PROVE  EventType' /\ Settled' /\ \A m \in Modules : HasInputEvent(m) => HasInputEvent(m)'
<1>1. /\ Known'
      /\ \A m \in Modules : HasInputEvent(m) => HasInputEvent(m)'
      /\ \A m \in Modules : ~HasInputEvent(m)' => Visible(m, queues') = Visible(m, queues)
  BY EventsStay DEF Settled
<1>2. Seen'
  BY <1>1 DEF Settled, Seen, Visible
<1>3. EventType'
  BY DEF EventType
<1>4. QED BY <1>1, <1>2, <1>3 DEF Settled

LEMMA MovesNowhere ==
  ASSUME GoodQueues(queues), queues' = queues
  PROVE  MovesAll(queues, queues')
BY StaysMoves DEF MovesAll, GoodQueues

(***************************************************************************)
(* In a Reset: what is not yet cleared or captured anew will be, and no      *)
(* queue is cleared after the last capture of a module that observes it.     *)
(***************************************************************************)
Clears(c) ==
  CASE c.op = "reset" -> OwnedBelow(c.on)
    [] c.op = "clear" -> {c.on}
    [] OTHER          -> {}

Recaptures(c) == IF c.op \in {"reset", "recapture"} THEN Subtree[c.on] ELSE {}

Drained(q) == q.readQ = << >> /\ q.writeQ = << >>

CapturedAfter(s) ==
  \A i \in 1..Len(s) : \A x \in Clears(s[i]) : \A m \in Modules :
    x \in Observes(m) => \E j \in 1..Len(s) : i <= j /\ m \in Recaptures(s[j])

ResetPlan ==
  /\ todo \in Seq(CallType) /\ AllIn(todo, ResetOps) /\ CapturedAfter(todo)
  /\ \A x \in Queues : Drained(queues[x]) \/ \E c \in Members(todo) : x \in Clears(c)
  /\ \A m \in Modules : ~HasInputEvent(m) \/ \E c \in Members(todo) : m \in Recaptures(c)
  /\ log.due = {}

EInv == EventType /\ ((Settled /\ EventPlan) \/ (Resetting /\ ResetPlan))

(* The next call tells which part holds.                                     *)
LEMMA NextEvent ==
  ASSUME IInv, EInv
  PROVE  /\ ~Resetting => Settled /\ EventPlan
         /\ Resetting => ResetPlan
         /\ \A op, x : Calling(op, x) /\ op \in StepOps => ~Resetting
         /\ \A op, x : Calling(op, x) /\ op \in ResetOps => Resetting
         /\ Between => ~Resetting
<1>1. \A op, x : Call(op, x).op = op
  BY DEF Call
<1>2. /\ \A op, x : Calling(op, x) /\ op \in StepOps => ~Resetting
      /\ \A op, x : Calling(op, x) /\ op \in ResetOps => Resetting
  BY <1>1 DEF Calling, Resetting, StepOps, ResetOps
<1>3. ASSUME EventPlan PROVE ~Resetting
  <2>1. todo \in Seq(CallType) /\ AllIn(todo, StepOps)
    BY <1>3 DEF EventPlan, TodoPlan
  <2>2. todo # << >> => Head(todo) \in Members(todo)
    BY <2>1, TailOfCalls
  <2>3. QED BY <2>1, <2>2 DEF Resetting, Between, AllIn, StepOps
<1>4. QED BY <1>2, <1>3 DEF EInv, Resetting

LEMMA InitEstablishesEInv == Init => EInv
<1> SUFFICES ASSUME Init PROVE EInv
  OBVIOUS
<1>1. /\ queues = [x \in Queues |-> NewQueue(Capacity[x], Latency[x])]
      /\ observed = [m \in Modules |-> Epochs(m, queues)]
      /\ left = [m \in Modules |-> {}] /\ todo = << >>
      /\ log = NewLog([x \in Queues |-> {}], {})
  BY DEF Init
<1>2. \A m \in Modules : Observes(m) \subseteq Queues
  BY OwnersAndUsers
<1>3. \A x \in Queues : queues[x].visibleEpoch = 0 /\ queues[x].readQ = << >>
  BY <1>1 DEF NewQueue
<1>4. \A m \in Modules : observed[m] = [x \in Observes(m) |-> 0]
  BY <1>1, <1>2, <1>3 DEF Epochs
<1>5. EventType
  <2>1. DOMAIN observed = Modules /\ DOMAIN left = Modules
    BY <1>1
  <2>2. observed = [m \in Modules |-> observed[m]]
    BY <1>1
  <2>3. left = [m \in Modules |-> left[m]]
    BY <1>1
  <2>4. ASSUME NEW m \in Modules PROVE observed[m] \in [Observes(m) -> Nat]
    <3>1. [x \in Observes(m) |-> 0] \in [Observes(m) -> Nat]
      OBVIOUS
    <3>2. QED BY <1>4, <3>1
  <2>5. QED BY <2>1, <2>2, <2>3, <2>4 DEF EventType
<1>6. Known
  <2>1. \A m \in Modules : \A x \in Observes(m) : observed[m][x] = 0
    BY <1>4
  <2>2. QED BY <1>2, <1>3, <2>1 DEF Known
<1>7. Seen
  <2>1. Members(<< >>) = {}
    BY DEF Members
  <2>2. \A m \in Modules : Visible(m, queues) = {}
    BY <1>2, <1>3, <2>1 DEF Visible
  <2>3. QED BY <2>2 DEF Seen
<1>8. EventPlan
  <2>1. todo \in Seq(CallType) /\ Members(todo) = {} /\ Len(todo) = 0
    <3>1. << >> \in Seq(CallType) /\ Len(<< >>) = 0
      OBVIOUS
    <3>2. Members(<< >>) = {}
      BY DEF Members
    <3>3. QED BY <1>1, <3>1, <3>2
  <2>2. TodoPlan(todo, log.worked)
    BY <2>1 DEF TodoPlan, AllIn, CapturePlan
  <2>3. DuePlan /\ AtCapture
    BY <1>1 DEF DuePlan, AtCapture, NewLog
  <2>4. QED BY <2>2, <2>3 DEF EventPlan
<1>9. QED BY <1>5, <1>6, <1>7, <1>8 DEF EInv, Settled

-----------------------------------------------------------------------------
(***************************************************************************)
(* The handlers of a Step keep the second invariant.                        *)
(***************************************************************************)
(* A handler that replaces its call by the calls n.                          *)
LEMMA CallsKeepEvents ==
  ASSUME IInv, EInv, NEW op \in {"work", "visit", "xfer"}, NEW m, Calling(op, m),
         NEW n \in Seq(CallType), AllIn(n, StepOps), CapturePlan(n), StartsWithout(n),
         \A c \in Members(n) : c.op \in {"self", "capture"} => c.on \in log'.worked,
         todo' = n \o Tail(todo), log'.due = log.due, log.worked \subseteq log'.worked,
         EventType', Settled', \A d \in Modules : HasInputEvent(d) => HasInputEvent(d)',
         log.due \subseteq Modules,
         \A d \in log.due : op \in {"work", "visit"} /\ d \in Subtree[m] /\ HasInputEvent(d)
                            => d \in log'.worked \/ WillAsk(d, n)
  PROVE  EInv'
<1>1. EventPlan /\ todo # << >> /\ Head(todo) = Call(op, m)
  BY NextEvent DEF Calling, Between, StepOps
<1>2. Head(todo).op = op /\ Head(todo).on = m
  BY <1>1 DEF Call
<1>3. /\ TodoPlan(n \o Tail(todo), log'.worked) /\ StartsWithout(n \o Tail(todo))
      /\ Members(n \o Tail(todo)) = Members(n) \cup Members(Tail(todo))
      /\ Members(todo) = {Head(todo)} \cup Members(Tail(todo))
  BY <1>1, <1>2, TodoExpands DEF EventPlan
<1>4. AtCapture'
  <2>1. StartsWithout(todo')
    BY <1>3
  <2>2. QED BY <2>1 DEF StartsWithout, AtCapture, Call
<1>5. ASSUME NEW d \in log.due
      PROVE  d \in log'.worked \/ (HasInputEvent(d)' /\ WillAsk(d, todo'))
  <2>1. CASE d \in log.worked
    BY <2>1
  <2>2. CASE d \notin log.worked
    <3>1. HasInputEvent(d) /\ WillAsk(d, todo)
      BY <1>1, <2>2 DEF EventPlan, DuePlan
    <3>2. PICK c \in Members(todo) : c.op \in {"work", "visit"} /\ d \in Subtree[c.on]
      BY <3>1 DEF WillAsk
    <3>3. CASE c \in Members(Tail(todo))
      BY <1>3, <3>1, <3>2, <3>3 DEF WillAsk
    <3>4. CASE c = Head(todo)
      BY <1>2, <1>3, <3>1, <3>2, <3>4 DEF WillAsk
    <3>5. QED BY <1>3, <3>3, <3>4
  <2>3. QED BY <2>1, <2>2
<1>6. DuePlan'
  BY <1>5 DEF DuePlan
<1>7. EventPlan'
  BY <1>3, <1>4, <1>6 DEF EventPlan
<1>8. QED BY <1>7 DEF EInv

(* A handler that is done with its call, which was none to a whole module.   *)
LEMMA DoneKeepsEvents ==
  ASSUME IInv, EInv, NEW op \in {"self", "capture", "tick"}, NEW m, Calling(op, m),
         todo' = Tail(todo), log'.due = log.due, log'.worked = log.worked,
         log.due \subseteq Modules,
         EventType', Settled',
         \A d \in Modules : HasInputEvent(d) => HasInputEvent(d)' \/ d \in log.worked,
         op = "self" => Visible(m, queues') \subseteq left'[m]
  PROVE  EInv'
<1>1. EventPlan /\ todo # << >> /\ Head(todo) = Call(op, m)
  BY NextEvent DEF Calling, Between, StepOps
<1>2. Head(todo).op = op /\ Head(todo).on = m
  BY <1>1 DEF Call
<1>3. /\ TodoPlan(Tail(todo), log'.worked)
      /\ Members(todo) = {Head(todo)} \cup Members(Tail(todo))
      /\ Head(todo).op # "self" => StartsWithout(Tail(todo))
      /\ \A d : Tail(todo) # << >> /\ Head(Tail(todo)) = Call("capture", d)
                 => Head(todo) = Call("self", d)
  BY <1>1, TodoGoesOn DEF EventPlan
<1>4. AtCapture'
  <2> SUFFICES ASSUME NEW d \in Modules, todo' # << >>, Head(todo') = Call("capture", d)
               PROVE  Visible(d, queues') \subseteq left'[d]
    BY DEF AtCapture, Visible
  <2>1. Head(todo) = Call("self", d)
    BY <1>3
  <2>2. op = "self" /\ d = m
    BY <1>2, <2>1 DEF Call
  <2>3. QED BY <2>2
<1>5. ASSUME NEW d \in log.due
      PROVE  d \in log'.worked \/ (HasInputEvent(d)' /\ WillAsk(d, todo'))
  <2>1. CASE d \in log.worked
    BY <2>1
  <2>2. CASE d \notin log.worked
    <3>1. HasInputEvent(d) /\ WillAsk(d, todo)
      BY <1>1, <2>2 DEF EventPlan, DuePlan
    <3>2. PICK c \in Members(todo) : c.op \in {"work", "visit"} /\ d \in Subtree[c.on]
      BY <3>1 DEF WillAsk
    <3>3. c \in Members(Tail(todo))
      BY <1>2, <1>3, <3>2
    <3>4. QED BY <2>2, <3>1, <3>2, <3>3 DEF WillAsk
  <2>3. QED BY <2>1, <2>2
<1>6. DuePlan'
  BY <1>5 DEF DuePlan
<1>7. EventPlan'
  BY <1>3, <1>4, <1>6 DEF EventPlan
<1>8. QED BY <1>7 DEF EInv

LEMMA BeginStepKeepsEvents == IInv /\ EInv /\ BeginStep => EInv'
<1> SUFFICES ASSUME IInv, EInv, BeginStep PROVE EInv'
  OBVIOUS
<1>1. /\ Between /\ todo' = Calls("work", Roots) \o Calls("xfer", Roots)
      /\ queues' = queues /\ force' = force /\ observed' = observed /\ left' = left
      /\ log'.due = { m \in Modules : HasInputEvent(m) }
  BY DEF BeginStep, NewLog
<1>2. Settled /\ EventType
  BY <1>1, NextEvent DEF EInv
<1>3. EventType' /\ Settled' /\ \A m \in Modules : HasInputEvent(m) => HasInputEvent(m)'
  BY SMTT(30), <1>1, <1>2 DEF EventType, Settled, Known, Seen, HasInputEvent, Epochs, Visible
<1> DEFINE W == Calls("work", Roots)
           X == Calls("xfer", Roots)
<1>4. /\ W \in Seq(CallType) /\ Members(W) = { Call("work", r) : r \in Members(Roots) }
      /\ X \in Seq(CallType) /\ Members(X) = { Call("xfer", r) : r \in Members(Roots) }
  <2>1. CallsFor("work", Roots) /\ CallsFor("xfer", Roots)
    BY ForestAssumption, ModuleCalls
  <2>2. QED BY <2>1 DEF CallsFor
<1> HIDE DEF W, X
<1>5. W \o X \in Seq(CallType) /\ Members(W \o X) = Members(W) \cup Members(X)
  BY <1>4, CallsPut
<1>6. todo' = W \o X
  BY <1>1 DEF W, X
<1>7. \A c \in Members(W \o X) : c.op \in {"work", "xfer"}
  BY <1>4, <1>5 DEF Call
<1>8. CapturePlan(W \o X) /\ StartsWithout(W \o X)
  BY <1>5, <1>7, NoCaptures
<1>9. TodoPlan(W \o X, log'.worked)
  BY <1>5, <1>7, <1>8 DEF TodoPlan, AllIn, StepOps
<1>10. ASSUME NEW m \in log'.due PROVE HasInputEvent(m)' /\ WillAsk(m, W \o X)
  <2>1. m \in Modules /\ HasInputEvent(m)'
    BY <1>1, <1>3
  <2>2. PICK r \in Members(Roots) : m \in Subtree[r]
    BY <2>1, ForestAssumption
  <2>3. Call("work", r) \in Members(W \o X) /\ Call("work", r).op = "work" /\ Call("work", r).on = r
    BY <1>4, <1>5 DEF Call
  <2>4. QED BY <2>1, <2>2, <2>3 DEF WillAsk
<1>11. DuePlan'
  BY <1>6, <1>10 DEF DuePlan
<1>12. AtCapture'
  BY <1>6, <1>8 DEF StartsWithout, AtCapture, Call
<1>13. QED BY <1>3, <1>6, <1>9, <1>11, <1>12 DEF EInv, EventPlan

(* The submodules of m are visited after m, so whoever below m is due is met. *)
LEMMA RestAsks ==
  ASSUME NEW m \in Modules
  PROVE  /\ Rest(m) \in Seq(CallType) /\ AllIn(Rest(m), StepOps)
         /\ \A c \in Members(Rest(m)) : c.op \in {"visit", "tick"}
         /\ \A d \in Subtree[m] : d # m => WillAsk(d, Rest(m))
<1> DEFINE V == Calls("visit", Children[m])
           T == Calls("tick", Owned[m])
<1>1. CallsFor("visit", Children[m]) /\ CallsFor("tick", Owned[m])
  BY ForestAssumption, WiringAssumption, ModuleCalls, QueueCalls
<1>2. /\ V \in Seq(CallType) /\ Members(V) = { Call("visit", c) : c \in Members(Children[m]) }
      /\ T \in Seq(CallType)
  BY <1>1 DEF CallsFor
<1> HIDE DEF V, T
<1>3. Members(V \o T) = Members(V) \cup Members(T)
  BY <1>2, CallsPut
<1>4. Rest(m) = V \o T
  BY DEF Rest, V, T
<1>5. ASSUME NEW d \in Subtree[m], d # m PROVE WillAsk(d, Rest(m))
  <2>1. PICK c \in Members(Children[m]) : d \in Subtree[c]
    BY <1>5, SubtreeSplits
  <2>2. Call("visit", c) \in Members(Rest(m)) /\ Call("visit", c).op = "visit" /\ Call("visit", c).on = c
    BY <1>2, <1>3, <1>4 DEF Call
  <2>3. QED BY <2>1, <2>2 DEF WillAsk
<1>6. QED BY <1>5, RestReplaces, RestIsOrdered DEF Replaces

(* Handlers that touch neither queues nor events.                            *)
LEMMA NothingMoves ==
  ASSUME IInv, EInv, NEW op \in StepOps, NEW x, Calling(op, x),
         queues' = queues, observed' = observed, left' = left, force' = force
  PROVE  /\ EventType' /\ Settled' /\ \A d \in Modules : HasInputEvent(d) => HasInputEvent(d)'
         /\ log.due \subseteq Modules
<1>1. Settled /\ EventType
  BY NextEvent DEF EInv
<1>2. log.due \subseteq Modules
  BY DEF IInv, SystemType, LogType
<1>3. QED BY <1>1, <1>2 DEF EventType, Settled, Known, Seen, HasInputEvent, Epochs, Visible

LEMMA WorkKeepsEvents == \A m \in Modules : IInv /\ EInv /\ (WorkAwake(m) \/ WorkAsleep(m)) => EInv'
<1> SUFFICES ASSUME NEW m \in Modules, IInv, EInv, WorkAwake(m) \/ WorkAsleep(m) PROVE EInv'
  OBVIOUS
<1>1. Calling("work", m) /\ "work" \in StepOps
      /\ queues' = queues /\ observed' = observed /\ left' = left /\ force' = force
  BY DEF WorkAwake, WorkAsleep, StepOps
<1>2. /\ EventType' /\ Settled' /\ \A d \in Modules : HasInputEvent(d) => HasInputEvent(d)'
      /\ log.due \subseteq Modules
  BY <1>1, NothingMoves
<1>3. /\ Rest(m) \in Seq(CallType) /\ AllIn(Rest(m), StepOps)
      /\ \A c \in Members(Rest(m)) : c.op \in {"visit", "tick"}
      /\ \A d \in Subtree[m] : d # m => WillAsk(d, Rest(m))
  BY RestAsks
<1>4. CapturePlan(Rest(m)) /\ StartsWithout(Rest(m))
  BY <1>3, NoCaptures
<1>5. CASE WorkAsleep(m)
  <2>1. todo' = Rest(m) \o Tail(todo) /\ log' = log /\ ~HasInputEvent(m)
    BY <1>5 DEF WorkAsleep
  <2>2. \A c \in Members(Rest(m)) : c.op \in {"self", "capture"} => c.on \in log'.worked
    BY <1>3
  <2>3. \A d \in log.due : d \in Subtree[m] /\ HasInputEvent(d) => WillAsk(d, Rest(m))
    BY <1>3, <2>1
  <2>4. QED BY <1>1, <1>2, <1>3, <1>4, <2>1, <2>2, <2>3, CallsKeepEvents
<1>6. CASE WorkAwake(m)
  <2> DEFINE own == <<Call("self", m), Call("capture", m)>>
  <2>1. /\ todo' = (own \o Rest(m)) \o Tail(todo)
        /\ log' = [log EXCEPT !.worked = @ \cup {m}]
    BY <1>6 DEF WorkAwake
  <2>2. /\ own \in Seq(CallType) /\ Len(own) = 2 /\ own # << >> /\ Head(own) = own[1]
        /\ own[1] = Call("self", m) /\ own[2] = Call("capture", m)
    <3>1. Call("self", m) \in CallType /\ Call("capture", m) \in CallType
      BY CallTyped
    <3>2. QED BY <3>1
  <2> HIDE DEF own
  <2>3. Members(own) = {Call("self", m), Call("capture", m)}
    BY <2>2 DEF Members
  <2>4. CapturePlan(own) /\ StartsWithout(own)
    BY <2>2 DEF CapturePlan, StartsWithout, Call
  <2>5. \A c \in Members(own) : c.op \in {"self", "capture"} /\ c.on = m
    BY <2>3 DEF Call
  <2>6. log'.worked = log.worked \cup {m} /\ log'.due = log.due
    BY <2>1 DEF IInv, SystemType, LogType
  <2> DEFINE n == own \o Rest(m)
  <2>7. n \in Seq(CallType) /\ Members(n) = Members(own) \cup Members(Rest(m))
    BY <1>3, <2>2, CallsPut
  <2>8. CapturePlan(n) /\ StartsWithout(n)
    BY <1>3, <1>4, <2>2, <2>4, CapturesJoin, StartsJoin
  <2> HIDE DEF n
  <2>9. AllIn(n, StepOps)
    BY <1>3, <2>5, <2>7 DEF AllIn, StepOps
  <2>10. \A c \in Members(n) : c.op \in {"self", "capture"} => c.on \in log'.worked
    BY <1>3, <2>5, <2>6, <2>7
  <2>11. \A d \in log.due : d \in Subtree[m] => d \in log'.worked \/ WillAsk(d, n)
    BY <1>3, <2>6, <2>7 DEF WillAsk
  <2>12. todo' = n \o Tail(todo)
    BY <2>1 DEF n
  <2>13. log.worked \subseteq log'.worked
    BY <2>6
  <2>14. QED BY <1>1, <1>2, <2>6, <2>7, <2>8, <2>9, <2>10, <2>11, <2>12, <2>13, CallsKeepEvents
<1>7. QED BY <1>5, <1>6

LEMMA VisitKeepsEvents ==
  \A c \in Modules :
    IInv /\ EInv /\ (AdvanceQueuesOnly(c) \/ \E p \in Modules : VisitPending(p, c)) => EInv'
<1> SUFFICES ASSUME NEW c \in Modules, IInv, EInv,
                    AdvanceQueuesOnly(c) \/ \E p \in Modules : VisitPending(p, c)
             PROVE  EInv'
  OBVIOUS
<1>1. /\ Calling("visit", c) /\ "visit" \in StepOps /\ log' = log
      /\ queues' = queues /\ observed' = observed /\ left' = left /\ force' = force
  BY DEF AdvanceQueuesOnly, VisitPending, StepOps
<1>2. /\ EventType' /\ Settled' /\ \A d \in Modules : HasInputEvent(d) => HasInputEvent(d)'
      /\ log.due \subseteq Modules
  BY <1>1, NothingMoves
<1>3. CASE AdvanceQueuesOnly(c)
  <2>1. todo' = Rest(c) \o Tail(todo) /\ \A d \in Subtree[c] : ~HasInputEvent(d)
    BY <1>3 DEF AdvanceQueuesOnly, HasPendingWorkRecursive
  <2>2. /\ Rest(c) \in Seq(CallType) /\ AllIn(Rest(c), StepOps)
        /\ \A e \in Members(Rest(c)) : e.op \in {"visit", "tick"}
    BY RestAsks
  <2>3. CapturePlan(Rest(c)) /\ StartsWithout(Rest(c))
    BY <2>2, NoCaptures
  <2>4. \A e \in Members(Rest(c)) : e.op \in {"self", "capture"} => e.on \in log'.worked
    BY <2>2
  <2>5. QED BY <1>1, <1>2, <2>1, <2>2, <2>3, <2>4, CallsKeepEvents
<1>4. ASSUME NEW p \in Modules, VisitPending(p, c) PROVE EInv'
  <2> DEFINE n == <<Call("work", c)>>
  <2>1. todo' = n \o Tail(todo)
    BY <1>4 DEF VisitPending
  <2>2. n \in Seq(CallType) /\ AllIn(n, StepOps)
    BY PendingReplaces DEF Replaces
  <2>3. Members(n) = {Call("work", c)}
    BY DEF Members
  <2> HIDE DEF n
  <2>4. \A e \in Members(n) : e.op = "work" /\ e.on = c
    BY <2>3 DEF Call
  <2>5. CapturePlan(n) /\ StartsWithout(n)
    BY <2>2, <2>4, NoCaptures
  <2>6. \A e \in Members(n) : e.op \in {"self", "capture"} => e.on \in log'.worked
    BY <2>4
  <2>7. \A d \in log.due : d \in Subtree[c] => WillAsk(d, n)
    BY <2>3, <2>4 DEF WillAsk
  <2>8. QED BY <1>1, <1>2, <2>1, <2>2, <2>5, <2>6, <2>7, CallsKeepEvents
<1>5. QED BY <1>3, <1>4

LEMMA XferKeepsEvents == \A m \in Modules : IInv /\ EInv /\ Xfer(m) => EInv'
<1> SUFFICES ASSUME NEW m \in Modules, IInv, EInv, Xfer(m) PROVE EInv'
  OBVIOUS
<1>1. /\ Calling("xfer", m) /\ "xfer" \in StepOps /\ todo' = Calls("xfer", active[m]) \o Tail(todo)
      /\ queues' = queues /\ observed' = observed /\ left' = left
  BY DEF Xfer, StepOps
<1>2. SystemType /\ Settled /\ EventType
  BY <1>1, NextEvent DEF IInv, EInv
<1>3. /\ log'.due = log.due /\ log'.worked = log.worked /\ log.due \subseteq Modules
      /\ \A d \in Modules : force[d] => force'[d]
  <2>1. CASE ran[m]
    <3>1. /\ log' = [log EXCEPT !.xfered = @ \cup {m}]
          /\ force' = [force EXCEPT ![m] = @ \/ (m \in Reactivating /\ SeesInput(m, queues))]
      BY <2>1 DEF Xfer
    <3>2. QED BY <1>2, <3>1 DEF SystemType, LogType
  <2>2. CASE ~ran[m]
    BY <1>2, <2>2 DEF Xfer, SystemType, LogType
  <2>3. QED BY <2>1, <2>2
<1>4. MovesAll(queues, queues')
  BY <1>1, <1>2, MovesNowhere DEF SystemType
<1>5. EventType' /\ Settled' /\ \A d \in Modules : HasInputEvent(d) => HasInputEvent(d)'
  BY <1>1, <1>2, <1>3, <1>4, SettledStays
<1> DEFINE n == Calls("xfer", active[m])
<1>6. n \in Seq(CallType) /\ AllIn(n, StepOps) /\ \A c \in Members(n) : c.op = "xfer"
  <2>1. CallsFor("xfer", active[m])
    BY <1>2, ModuleCalls DEF SystemType
  <2>2. QED BY <2>1 DEF CallsFor, AllIn, StepOps, Call
<1>7. todo' = n \o Tail(todo)
  BY <1>1
<1> HIDE DEF n
<1>8. CapturePlan(n) /\ StartsWithout(n)
  BY <1>6, NoCaptures
<1>9. \A c \in Members(n) : c.op \in {"self", "capture"} => c.on \in log'.worked
  BY <1>6
<1>10. log.worked \subseteq log'.worked
  BY <1>3
<1>11. \A d \in log.due : "xfer" \in {"work", "visit"} /\ d \in Subtree[m] /\ HasInputEvent(d)
                         => d \in log'.worked \/ WillAsk(d, n)
  OBVIOUS
<1>12. QED BY <1>1, <1>3, <1>5, <1>6, <1>7, <1>8, <1>9, <1>10, <1>11, CallsKeepEvents

LEMMA TickKeepsEvents == \A x \in Queues : IInv /\ EInv /\ QueueTick(x) => EInv'
<1> SUFFICES ASSUME NEW x \in Queues, IInv, EInv, QueueTick(x) PROVE EInv'
  OBVIOUS
<1>1. /\ Calling("tick", x) /\ "tick" \in StepOps /\ todo' = Tail(todo)
      /\ force' = force /\ observed' = observed /\ left' = left
      /\ log' = [log EXCEPT !.ticks = [log.ticks EXCEPT ![x] = @ + 1]]
  BY DEF QueueTick, StepOps
<1>2. SystemType /\ Settled /\ EventType
  BY <1>1, NextEvent DEF IInv, EInv
<1>3. log'.due = log.due /\ log'.worked = log.worked /\ log.due \subseteq Modules
  BY <1>1, <1>2 DEF SystemType, LogType
<1>4. MovesAll(queues, queues')
  BY <1>2, TickMoves DEF SystemType
<1>5. EventType' /\ Settled' /\ \A d \in Modules : HasInputEvent(d) => HasInputEvent(d)'
  BY <1>1, <1>2, <1>4, SettledStays
<1>6. QED BY <1>1, <1>3, <1>5, DoneKeepsEvents

(* The capture that follows a WorkSelf: what is visible then was left there   *)
(* by that WorkSelf.                                                        *)
LEMMA CaptureKeepsEvents == \A m \in Modules : IInv /\ EInv /\ Capture(m) => EInv'
<1> SUFFICES ASSUME NEW m \in Modules, IInv, EInv, Capture(m) PROVE EInv'
  OBVIOUS
<1>1. /\ Calling("capture", m) /\ "capture" \in StepOps /\ todo' = Tail(todo)
      /\ queues' = queues /\ left' = left /\ log' = log
      /\ force' = [force EXCEPT ![m] = FALSE]
      /\ observed' = [observed EXCEPT ![m] = Epochs(m, queues)]
  BY DEF Capture, StepOps
<1>2. SystemType /\ Settled /\ EventType /\ EventPlan
  BY <1>1, NextEvent DEF IInv, EInv
<1>3. log.due \subseteq Modules
  BY <1>2 DEF SystemType, LogType
<1>4. /\ m \in log.worked /\ Visible(m, queues) \subseteq left[m]
  <2>1. todo # << >> /\ Head(todo) = Call("capture", m) /\ todo \in Seq(CallType)
    BY <1>1, <1>2 DEF Calling, Between, EventPlan, TodoPlan
  <2>2. Head(todo) \in Members(todo)
    BY <2>1, TailOfCalls
  <2>3. Head(todo).op = "capture" /\ Head(todo).on = m
    BY <2>1 DEF Call
  <2>4. QED BY <1>2, <2>1, <2>2, <2>3 DEF EventPlan, TodoPlan, AtCapture
<1>5. /\ observed'[m] = Epochs(m, queues)
      /\ \A d \in Modules : d # m => observed'[d] = observed[d] /\ force'[d] = force[d]
  BY <1>1, <1>2 DEF EventType, SystemType
<1>6. ASSUME NEW d \in Modules, d # m
      PROVE  HasInputEvent(d)' <=> HasInputEvent(d)
  BY <1>1, <1>5, <1>6 DEF HasInputEvent, Epochs
<1>7. \A x \in Observes(m) : /\ x \in Queues /\ queues[x].visibleEpoch \in Nat
                             /\ Epochs(m, queues)[x] = queues[x].visibleEpoch
  BY <1>2, EpochsAre, OwnersAndUsers DEF SystemType, GoodQueues, GoodQueue, QueueType
<1>8. Epochs(m, queues) \in [Observes(m) -> Nat]
  BY <1>7 DEF Epochs
<1>9. EventType'
  <2>1. DOMAIN observed' = Modules /\ observed' = [d \in Modules |-> observed'[d]]
    BY <1>1, <1>2 DEF EventType
  <2>2. \A d \in Modules : observed'[d] \in [Observes(d) -> Nat]
    BY <1>2, <1>5, <1>8 DEF EventType
  <2>3. QED BY <1>1, <1>2, <2>1, <2>2 DEF EventType
<1>10. Known'
  <2> SUFFICES ASSUME NEW d \in Modules, NEW x \in Observes(d)
               PROVE  observed'[d][x] <= queues'[x].visibleEpoch
    BY DEF Known
  <2>1. CASE d = m
    BY <1>1, <1>5, <1>7, <2>1
  <2>2. CASE d # m
    BY <1>1, <1>2, <1>5, <2>2 DEF Settled, Known
  <2>3. QED BY <2>1, <2>2
<1>11. Seen'
  <2> SUFFICES ASSUME NEW d \in Modules, ~HasInputEvent(d)' PROVE Visible(d, queues') \subseteq left'[d]
    BY DEF Seen, Visible
  <2>1. CASE d = m
    BY <1>1, <1>4, <2>1
  <2>2. CASE d # m
    BY <1>1, <1>2, <1>6, <2>2 DEF Settled, Seen
  <2>3. QED BY <2>1, <2>2
<1>12. \A d \in Modules : HasInputEvent(d) => HasInputEvent(d)' \/ d \in log.worked
  BY <1>4, <1>6
<1>13. QED BY <1>1, <1>3, <1>9, <1>10, <1>11, <1>12, DoneKeepsEvents DEF Settled

LEMMA SelfKeepsEvents == \A m \in Modules : IInv /\ EInv /\ SelfStep(m) => EInv'
<1> SUFFICES ASSUME NEW m \in Modules, IInv, EInv, SelfStep(m) PROVE EInv'
  OBVIOUS
<1>1. SystemType /\ "self" \in StepOps
  BY DEF IInv, StepOps
<1>2. /\ Calling("self", m) /\ log' = log /\ force' = force /\ observed' = observed
      /\ MovesAll(queues, queues')
  BY <1>1, SelfMoves DEF SystemType
<1>3. Settled /\ EventType /\ EventPlan
  BY <1>1, <1>2, NextEvent DEF EInv
<1>4. log.due \subseteq Modules
  BY <1>1 DEF SystemType, LogType
<1>5. (todo' = todo /\ left' = left) \/ (todo' = Tail(todo) /\ Leave(m))
  BY DEF SelfStep, Forward, Push, Take, SelfDone
<1>6. /\ Known'
      /\ \A d \in Modules : HasInputEvent(d) => HasInputEvent(d)'
      /\ \A d \in Modules : ~HasInputEvent(d)' => Visible(d, queues') = Visible(d, queues)
  BY <1>2, <1>3, EventsStay DEF Settled
<1>7. CASE todo' = todo /\ left' = left
  <2>1. EventType' /\ Settled'
    BY <1>2, <1>3, <1>7, SettledStays
  <2>2. Head(todo) = Call("self", m)
    BY <1>2 DEF Calling
  <2>3. AtCapture'
    BY <1>7, <2>2 DEF AtCapture, Call
  <2>4. DuePlan'
    BY <1>2, <1>3, <1>4, <1>6, <1>7 DEF EventPlan, DuePlan
  <2>5. QED BY <1>2, <1>3, <1>7, <2>1, <2>3, <2>4 DEF EInv, EventPlan
<1>8. CASE todo' = Tail(todo) /\ Leave(m)
  <2>1. left' = [left EXCEPT ![m] = Visible(m, queues')]
    BY <1>8 DEF Leave
  <2>2. /\ left'[m] = Visible(m, queues') /\ \A d \in Modules : d # m => left'[d] = left[d]
        /\ DOMAIN left' = Modules /\ left' = [d \in Modules |-> left'[d]]
    BY <1>3, <2>1 DEF EventType
  <2>3. EventType'
    BY <1>2, <1>3, <2>2 DEF EventType
  <2>4. ASSUME NEW d \in Modules, ~HasInputEvent(d)' PROVE Visible(d, queues') \subseteq left'[d]
    <3>1. CASE d = m
      BY <2>2, <3>1
    <3>2. CASE d # m
      BY <1>3, <1>6, <2>2, <2>4, <3>2 DEF Settled, Seen
    <3>3. QED BY <3>1, <3>2
  <2>5. Settled'
    BY <1>6, <2>4 DEF Settled, Seen, Visible
  <2>6. QED BY <1>2, <1>4, <1>6, <1>8, <2>2, <2>3, <2>5, DoneKeepsEvents
<1>9. QED BY <1>5, <1>7, <1>8

LEMMA OutsideKeepsEvents == IInv /\ EInv /\ Outside => EInv'
<1> SUFFICES ASSUME IInv, EInv, Outside PROVE EInv'
  OBVIOUS
<1>1. /\ Between /\ todo' = todo /\ log' = log /\ observed' = observed /\ left' = left
      /\ SystemType
  BY DEF Outside, Receive, Send, RequestActivation, IInv
<1>2. Settled /\ EventType /\ EventPlan
  BY <1>1, NextEvent DEF EInv
<1>3. MovesAll(queues, queues') /\ \A d \in Modules : force[d] => force'[d]
  <2>1. CASE Receive
    BY <1>1, <2>1, ReceiveMoves DEF SystemType, Receive
  <2>2. CASE \E p \in Packets : Send(p)
    BY <1>1, <2>2, SendMoves DEF SystemType, Send
  <2>3. CASE \E m \in Requested : RequestActivation(m)
    <3>1. queues' = queues /\ \E m \in Requested : force' = [force EXCEPT ![m] = TRUE]
      BY <2>3 DEF RequestActivation
    <3>2. \A d \in Modules : force[d] => force'[d]
      BY <1>1, <3>1 DEF SystemType
    <3>3. QED BY <1>1, <3>1, <3>2, MovesNowhere DEF SystemType
  <2>4. QED BY <2>1, <2>2, <2>3 DEF Outside
<1>4. EventType' /\ Settled' /\ \A d \in Modules : HasInputEvent(d) => HasInputEvent(d)'
  BY <1>1, <1>2, <1>3, SettledStays
<1>5. log.due \subseteq Modules
  BY <1>1 DEF SystemType, LogType
<1>6. EventPlan'
  <2>1. AtCapture'
    BY <1>1 DEF AtCapture, Between
  <2>2. DuePlan'
    BY <1>1, <1>2, <1>4, <1>5 DEF EventPlan, DuePlan
  <2>3. QED BY <1>1, <1>2, <2>1, <2>2 DEF EventPlan
<1>7. QED BY <1>4, <1>6 DEF EInv

-----------------------------------------------------------------------------
(***************************************************************************)
(* Reset.                                                                   *)
(***************************************************************************)

(* Whoever observes a queue owned at or below m is at or below m.            *)
LEMMA ObserversInside ==
  ASSUME NEW m \in Modules, NEW x \in OwnedBelow(m), NEW p \in Modules, x \in Observes(p)
  PROVE  p \in Subtree[m]
<1>1. PICK d \in Subtree[m] : x \in Members(Owned[d])
  BY DEF OwnedBelow
<1>2. d \in Modules /\ Subtree[m] \in SUBSET Modules /\ Closed(Subtree[m])
  BY SubtreeIsClosed
<1>3. p \in Subtree[d]
  BY <1>1, <1>2, OwnersAndUsers
<1>4. Subtree[d] \subseteq Subtree[m]
  BY <1>2, SubtreeIsLeast
<1>5. QED BY <1>3, <1>4

LEMMA CapturedTail ==
  ASSUME NEW s \in Seq(CallType), s # << >>, CapturedAfter(s)
  PROVE  CapturedAfter(Tail(s))
<1>1. /\ Len(Tail(s)) = Len(s) - 1 /\ Len(s) \in Nat /\ Len(s) > 0
      /\ \A i \in 1..Len(Tail(s)) : Tail(s)[i] = s[i + 1]
  BY HeadTailProperties
<1> SUFFICES ASSUME NEW i \in 1..Len(Tail(s)), NEW x \in Clears(Tail(s)[i]), NEW m \in Modules,
                    x \in Observes(m)
             PROVE  \E j \in 1..Len(Tail(s)) : i <= j /\ m \in Recaptures(Tail(s)[j])
  BY DEF CapturedAfter
<1>2. i + 1 \in 1..Len(s) /\ x \in Clears(s[i + 1])
  BY <1>1
<1>3. PICK k \in 1..Len(s) : i + 1 <= k /\ m \in Recaptures(s[k])
  BY <1>2 DEF CapturedAfter
<1>4. k - 1 \in 1..Len(Tail(s)) /\ i <= k - 1 /\ (k - 1) + 1 = k
  BY <1>1, <1>3
<1>5. Tail(s)[k - 1] = s[k]
  BY <1>1, <1>4
<1>6. QED BY <1>3, <1>4, <1>5

LEMMA CapturedJoin ==
  ASSUME NEW a \in Seq(CallType), NEW b \in Seq(CallType), CapturedAfter(a), CapturedAfter(b)
  PROVE  CapturedAfter(a \o b)
<1>1. a \o b \in Seq(CallType) /\ Joined(a \o b, a, b)
  BY ConcatJoins
<1>2. Len(a) \in Nat /\ Len(b) \in Nat /\ Len(a \o b) = Len(a) + Len(b)
  BY <1>1 DEF Joined
<1> DEFINE j == a \o b
           la == Len(a)
           lb == Len(b)
<1>3. /\ \A i \in 1..la : j[i] = a[i]
      /\ \A i \in 1..lb : j[la + i] = b[i]
      /\ la \in Nat /\ lb \in Nat /\ Len(j) = la + lb
  BY <1>1, <1>2 DEF Joined
<1>4. /\ \A i \in 1..la : \A x \in Clears(a[i]) : \A m \in Modules :
           x \in Observes(m) => \E k \in 1..la : i <= k /\ m \in Recaptures(a[k])
      /\ \A i \in 1..lb : \A x \in Clears(b[i]) : \A m \in Modules :
           x \in Observes(m) => \E k \in 1..lb : i <= k /\ m \in Recaptures(b[k])
  BY DEF CapturedAfter
<1> HIDE DEF j, la, lb
<1>5. ASSUME NEW i \in 1..(la + lb), NEW x \in Clears(j[i]), NEW m \in Modules, x \in Observes(m)
      PROVE  \E k \in 1..(la + lb) : i <= k /\ m \in Recaptures(j[k])
  <2>1. CASE i <= la
    <3>1. i \in 1..la /\ j[i] = a[i]
      BY <1>3, <2>1
    <3>2. PICK k \in 1..la : i <= k /\ m \in Recaptures(a[k])
      BY <1>4, <1>5, <3>1
    <3>3. k \in 1..(la + lb) /\ j[k] = a[k]
      BY <1>3, <3>2
    <3>4. QED BY <3>2, <3>3
  <2>2. CASE ~(i <= la)
    <3>1. i - la \in 1..lb /\ la + (i - la) = i
      BY <1>3, <2>2
    <3>2. j[i] = b[i - la]
      BY <1>3, <3>1
    <3>3. PICK k \in 1..lb : i - la <= k /\ m \in Recaptures(b[k])
      BY <1>4, <1>5, <3>1, <3>2
    <3>4. la + k \in 1..(la + lb) /\ i <= la + k
      BY <1>3, <3>1, <3>3
    <3>5. j[la + k] = b[k]
      BY <1>3, <3>3
    <3>6. QED BY <3>3, <3>4, <3>5
  <2>3. QED BY <2>1, <2>2
<1>6. QED BY <1>3, <1>5 DEF CapturedAfter, j

LEMMA ResetMeans ==
  ASSUME NEW x
  PROVE  /\ Clears(Call("reset", x)) = OwnedBelow(x) /\ Recaptures(Call("reset", x)) = Subtree[x]
         /\ Clears(Call("clear", x)) = {x} /\ Recaptures(Call("clear", x)) = {}
         /\ Clears(Call("recapture", x)) = {} /\ Recaptures(Call("recapture", x)) = Subtree[x]
BY DEF Call, Clears, Recaptures

(* The calls of one Module::Reset do its work, the capture last.             *)
LEMMA ResetCovers ==
  ASSUME NEW m \in Modules
  PROVE  LET n == Calls("reset", Children[m]) \o Calls("clear", Owned[m]) \o <<Call("recapture", m)>>
         IN  /\ n \in Seq(CallType) /\ AllIn(n, ResetOps) /\ CapturedAfter(n)
             /\ \A x \in OwnedBelow(m) : \E c \in Members(n) : x \in Clears(c)
             /\ \A d \in Subtree[m] : \E c \in Members(n) : d \in Recaptures(c)
<1> DEFINE n == Calls("reset", Children[m]) \o Calls("clear", Owned[m]) \o <<Call("recapture", m)>>
<1>1. /\ n \in Seq(CallType)
      /\ Members(n) = { Call("reset", c) : c \in Members(Children[m]) }
                        \cup { Call("clear", x) : x \in Members(Owned[m]) }
                        \cup { Call("recapture", m) }
      /\ Len(n) > 0 /\ n[Len(n)] = Call("recapture", m)
  BY ResetCalls
<1> HIDE DEF n
<1>2. AllIn(n, ResetOps)
  BY <1>1 DEF AllIn, ResetOps, Call
<1>3. \A c \in Members(Children[m]) : OwnedBelow(c) \subseteq OwnedBelow(m)
  BY OwnedBelowSplits
<1>4. \A c \in Members(n) : Clears(c) \subseteq OwnedBelow(m)
  <2>1. \A c \in Members(Children[m]) : Clears(Call("reset", c)) \subseteq OwnedBelow(m)
    BY <1>3, ResetMeans
  <2>2. \A x \in Members(Owned[m]) : Clears(Call("clear", x)) \subseteq OwnedBelow(m)
    BY ResetMeans, OwnedBelowSplits
  <2>3. Clears(Call("recapture", m)) = {}
    BY ResetMeans
  <2>4. QED BY <1>1, <2>1, <2>2, <2>3
<1>5. CapturedAfter(n)
  <2> SUFFICES ASSUME NEW i \in 1..Len(n), NEW x \in Clears(n[i]), NEW p \in Modules, x \in Observes(p)
               PROVE  \E j \in 1..Len(n) : i <= j /\ p \in Recaptures(n[j])
    BY DEF CapturedAfter
  <2>1. n[i] \in Members(n)
    BY DEF Members
  <2>2. p \in Subtree[m]
    BY <1>4, <2>1, ObserversInside
  <2>3. p \in Recaptures(n[Len(n)])
    BY <1>1, <2>2, ResetMeans
  <2>4. Len(n) \in 1..Len(n) /\ i <= Len(n)
    BY <1>1
  <2>5. QED BY <2>3, <2>4
<1>6. ASSUME NEW x \in OwnedBelow(m) PROVE \E c \in Members(n) : x \in Clears(c)
  <2>1. CASE x \in Members(Owned[m])
    <3>1. Call("clear", x) \in Members(n) /\ x \in Clears(Call("clear", x))
      BY <1>1, <2>1, ResetMeans
    <3>2. QED BY <3>1
  <2>2. CASE \E c \in Members(Children[m]) : x \in OwnedBelow(c)
    <3>1. PICK c \in Members(Children[m]) : x \in OwnedBelow(c)
      BY <2>2
    <3>2. Call("reset", c) \in Members(n) /\ x \in Clears(Call("reset", c))
      BY <1>1, <3>1, ResetMeans
    <3>3. QED BY <3>2
  <2>3. QED BY <2>1, <2>2, OwnedBelowSplits
<1>7. \A d \in Subtree[m] : d \in Recaptures(Call("recapture", m))
  BY ResetMeans
<1>8. Call("recapture", m) \in Members(n)
  BY <1>1
<1>9. QED BY <1>1, <1>2, <1>5, <1>6, <1>7, <1>8 DEF n

(* A Reset that has no call left has left no event and no packet.            *)
Quiet == /\ \A x \in Queues : Drained(queues[x])
         /\ \A m \in Modules : ~HasInputEvent(m)

LEMMA ResetLeavesQuiet == ResetPlan /\ todo = << >> => Quiet
<1> SUFFICES ASSUME ResetPlan, todo = << >>
             PROVE  Members(todo) = {}
  BY DEF ResetPlan, Quiet
<1>1. Members(<< >>) = {}
  BY DEF Members
<1>2. QED BY <1>1

LEMMA PlanOfReset == SystemType /\ EventType /\ ResetPlan => EInv
<1> SUFFICES ASSUME SystemType, EventType, ResetPlan PROVE EInv
  OBVIOUS
<1>1. CASE todo # << >>
  <2>1. Head(todo) \in Members(todo)
    BY <1>1, TailOfCalls DEF ResetPlan
  <2>2. Resetting
    BY <1>1, <2>1 DEF ResetPlan, AllIn, ResetOps, Resetting, Between
  <2>3. QED BY <2>2 DEF EInv
<1>2. CASE todo = << >>
  <2>1. /\ \A x \in Queues : Drained(queues[x])
        /\ \A m \in Modules : ~HasInputEvent(m)
    BY <1>2, ResetLeavesQuiet DEF Quiet
  <2>2. \A m \in Modules : Observes(m) \subseteq Queues
    BY OwnersAndUsers
  <2>3. Known
    <3> SUFFICES ASSUME NEW m \in Modules, NEW x \in Observes(m)
                 PROVE  observed[m][x] <= queues[x].visibleEpoch
      BY DEF Known
    <3>1. observed[m] = Epochs(m, queues)
      BY <2>1 DEF HasInputEvent
    <3>2. observed[m][x] = queues[x].visibleEpoch /\ observed[m][x] \in Nat
      BY <3>1, EpochsAre DEF EventType
    <3>3. QED BY <3>2
  <2>4. Seen
    <3>1. Members(<< >>) = {}
      BY DEF Members
    <3>2. \A m \in Modules : Visible(m, queues) = {}
      BY <2>1, <2>2, <3>1 DEF Visible, Drained
    <3>3. QED BY <3>2 DEF Seen
  <2>5. EventPlan
    <3>1. Members(todo) = {} /\ Len(todo) = 0 /\ todo \in Seq(CallType)
      <4>1. Members(<< >>) = {}
        BY DEF Members
      <4>2. QED BY <1>2, <4>1 DEF ResetPlan
    <3>2. TodoPlan(todo, log.worked)
      BY <3>1 DEF TodoPlan, AllIn, CapturePlan
    <3>3. QED BY <1>2, <3>2 DEF EventPlan, DuePlan, AtCapture, ResetPlan
  <2>6. QED BY <2>3, <2>4, <2>5 DEF EInv, Settled
<1>3. QED BY <1>1, <1>2

LEMMA BeginResetPlan == IInv /\ EInv /\ BeginReset => ResetPlan' /\ EventType'
<1> SUFFICES ASSUME IInv, EInv, BeginReset PROVE ResetPlan' /\ EventType'
  OBVIOUS
<1>1. /\ todo' = Calls("reset", Roots) /\ queues' = queues /\ force' = force
      /\ observed' = observed /\ left' = left /\ log' = NewLog([x \in Queues |-> {}], {})
  BY DEF BeginReset
<1> DEFINE n == Calls("reset", Roots)
<1>2. /\ n \in Seq(CallType) /\ Members(n) = { Call("reset", r) : r \in Members(Roots) }
      /\ Len(n) = Len(Roots) /\ \A i \in 1..Len(Roots) : n[i] = Call("reset", Roots[i])
  <2>1. CallsFor("reset", Roots)
    BY ForestAssumption, ModuleCalls
  <2>2. QED BY <2>1 DEF CallsFor
<1>3. todo' = n
  BY <1>1
<1> HIDE DEF n
<1>4. AllIn(n, ResetOps)
  BY <1>2 DEF AllIn, ResetOps, Call
<1>5. CapturedAfter(n)
  <2> SUFFICES ASSUME NEW i \in 1..Len(n), NEW x \in Clears(n[i]), NEW m \in Modules, x \in Observes(m)
               PROVE  \E j \in 1..Len(n) : i <= j /\ m \in Recaptures(n[j])
    BY DEF CapturedAfter
  <2> DEFINE r == Roots[i]
  <2>1. n[i] = Call("reset", r) /\ r \in Modules /\ i \in Nat
    BY <1>2, ForestAssumption
  <2> HIDE DEF r
  <2>2. x \in OwnedBelow(r) /\ Recaptures(n[i]) = Subtree[r]
    BY <2>1, ResetMeans
  <2>3. m \in Recaptures(n[i]) /\ i <= i
    BY <2>1, <2>2, ObserversInside
  <2>4. QED BY <2>3
<1>6. ASSUME NEW x \in Queues PROVE \E c \in Members(n) : x \in Clears(c)
  <2>1. PICK owner \in Modules : x \in Members(Owned[owner])
    BY WiringAssumption
  <2>2. PICK r \in Members(Roots) : owner \in Subtree[r]
    BY ForestAssumption
  <2>3. x \in OwnedBelow(r)
    BY <2>1, <2>2 DEF OwnedBelow
  <2>4. Call("reset", r) \in Members(n) /\ x \in Clears(Call("reset", r))
    BY <1>2, <2>3, ResetMeans
  <2>5. QED BY <2>4
<1>7. ASSUME NEW m \in Modules PROVE \E c \in Members(n) : m \in Recaptures(c)
  <2>1. PICK r \in Members(Roots) : m \in Subtree[r]
    BY ForestAssumption
  <2>2. Call("reset", r) \in Members(n) /\ m \in Recaptures(Call("reset", r))
    BY <1>2, <2>1, ResetMeans
  <2>3. QED BY <2>2
<1>8. log'.due = {}
  BY <1>1 DEF NewLog
<1>9. ResetPlan'
  BY <1>2, <1>3, <1>4, <1>5, <1>6, <1>7, <1>8 DEF ResetPlan
<1>10. EventType'
  BY <1>1 DEF EInv, EventType
<1>11. QED BY <1>9, <1>10

(* What a call of a Reset finds.                                             *)
LEMMA InResetPlan ==
  ASSUME IInv, EInv, NEW op \in ResetOps, NEW x, Calling(op, x)
  PROVE  /\ ResetPlan /\ EventType /\ SystemType
         /\ todo # << >> /\ Head(todo) = Call(op, x)
         /\ Tail(todo) \in Seq(CallType) /\ Members(todo) = {Head(todo)} \cup Members(Tail(todo))
         /\ AllIn(Tail(todo), ResetOps) /\ CapturedAfter(Tail(todo))
<1>1. ResetPlan /\ todo # << >> /\ Head(todo) = Call(op, x)
  BY NextEvent DEF Calling, Between
<1>2. Tail(todo) \in Seq(CallType) /\ Members(todo) = {Head(todo)} \cup Members(Tail(todo))
  BY <1>1, TailOfCalls DEF ResetPlan
<1>3. CapturedAfter(Tail(todo))
  BY <1>1, CapturedTail DEF ResetPlan
<1>4. AllIn(Tail(todo), ResetOps)
  BY <1>1, <1>2 DEF ResetPlan, AllIn
<1>5. QED BY <1>1, <1>2, <1>3, <1>4 DEF EInv, IInv

LEMMA ResetModulePlan ==
  \A m \in Modules : IInv /\ EInv /\ ResetModule(m) => ResetPlan' /\ EventType'
<1> SUFFICES ASSUME NEW m \in Modules, IInv, EInv, ResetModule(m) PROVE ResetPlan' /\ EventType'
  OBVIOUS
<1> DEFINE n == Calls("reset", Children[m]) \o Calls("clear", Owned[m]) \o <<Call("recapture", m)>>
<1>1. /\ Calling("reset", m) /\ "reset" \in ResetOps /\ todo' = n \o Tail(todo)
      /\ queues' = queues /\ force' = force /\ observed' = observed /\ left' = left /\ log' = log
  BY DEF ResetModule, ResetOps
<1>2. /\ n \in Seq(CallType) /\ AllIn(n, ResetOps) /\ CapturedAfter(n)
      /\ \A x \in OwnedBelow(m) : \E c \in Members(n) : x \in Clears(c)
      /\ \A d \in Subtree[m] : \E c \in Members(n) : d \in Recaptures(c)
  BY ResetCovers
<1> HIDE DEF n
<1>3. /\ ResetPlan /\ EventType /\ Head(todo) = Call("reset", m)
      /\ Tail(todo) \in Seq(CallType) /\ Members(todo) = {Head(todo)} \cup Members(Tail(todo))
      /\ AllIn(Tail(todo), ResetOps) /\ CapturedAfter(Tail(todo))
  BY <1>1, InResetPlan
<1>4. n \o Tail(todo) \in Seq(CallType) /\ Members(n \o Tail(todo)) = Members(n) \cup Members(Tail(todo))
  <2>1. n \in Seq(CallType) /\ Tail(todo) \in Seq(CallType)
    BY <1>2, <1>3
  <2>2. QED BY <2>1, CallsPut
<1>5. CapturedAfter(n \o Tail(todo))
  BY <1>2, <1>3, CapturedJoin
<1>6. Clears(Head(todo)) = OwnedBelow(m) /\ Recaptures(Head(todo)) = Subtree[m]
  BY <1>3, ResetMeans
<1>7. \A x \in Queues : Drained(queues'[x]) \/ \E c \in Members(n \o Tail(todo)) : x \in Clears(c)
  BY <1>1, <1>2, <1>3, <1>4, <1>6 DEF ResetPlan
<1>8. \A d \in Modules : ~HasInputEvent(d)' \/ \E c \in Members(n \o Tail(todo)) : d \in Recaptures(c)
  <2>1. \A d \in Modules : HasInputEvent(d)' <=> HasInputEvent(d)
    BY <1>1 DEF HasInputEvent, Epochs
  <2>2. QED BY <1>2, <1>3, <1>4, <1>6, <2>1 DEF ResetPlan
<1>9. AllIn(n \o Tail(todo), ResetOps)
  BY <1>2, <1>3, <1>4 DEF AllIn
<1>10. QED BY <1>1, <1>3, <1>4, <1>5, <1>7, <1>8, <1>9 DEF ResetPlan, EventType

LEMMA ClearPlan ==
  \A x \in Queues : IInv /\ EInv /\ ClearQueue(x) => ResetPlan' /\ EventType'
<1> SUFFICES ASSUME NEW x \in Queues, IInv, EInv, ClearQueue(x) PROVE ResetPlan' /\ EventType'
  OBVIOUS
<1>1. /\ Calling("clear", x) /\ "clear" \in ResetOps /\ todo' = Tail(todo)
      /\ queues' = [queues EXCEPT ![x] = QueueReset(queues[x])]
      /\ force' = force /\ observed' = observed /\ left' = left /\ log' = log
  BY DEF ClearQueue, ResetOps
<1>2. /\ ResetPlan /\ EventType /\ SystemType /\ todo # << >> /\ Head(todo) = Call("clear", x)
      /\ Tail(todo) \in Seq(CallType) /\ Members(todo) = {Head(todo)} \cup Members(Tail(todo))
      /\ AllIn(Tail(todo), ResetOps) /\ CapturedAfter(Tail(todo))
  BY <1>1, InResetPlan
<1>3. Clears(Head(todo)) = {x} /\ Recaptures(Head(todo)) = {}
  BY <1>2, ResetMeans
<1>4. /\ GoodQueue(queues[x]) /\ queues'[x] = QueueReset(queues[x])
      /\ \A z \in Queues : z # x => queues'[z] = queues[z]
  BY <1>1, <1>2 DEF SystemType, GoodQueues
<1>5. \A z \in Queues : Drained(queues'[z]) \/ \E c \in Members(Tail(todo)) : z \in Clears(c)
  <2>1. Drained(queues'[x])
    BY <1>4, ResetClears DEF Drained
  <2>2. QED BY <1>2, <1>3, <1>4, <2>1 DEF ResetPlan
<1>6. ASSUME NEW m \in Modules
      PROVE  ~HasInputEvent(m)' \/ \E c \in Members(Tail(todo)) : m \in Recaptures(c)
  <2>1. CASE x \in Observes(m)
    <3>1. todo \in Seq(CallType) /\ Len(todo) \in Nat /\ Len(todo) # 0 /\ todo[1] = Head(todo)
      BY <1>2, HeadTailProperties DEF ResetPlan
    <3>2. 1 \in 1..Len(todo) /\ x \in Clears(todo[1])
      BY <1>3, <3>1
    <3>3. PICK j \in 1..Len(todo) : m \in Recaptures(todo[j])
      BY <1>2, <2>1, <3>2 DEF ResetPlan, CapturedAfter
    <3>4. todo[j] \in Members(todo)
      BY DEF Members
    <3>5. QED BY <1>2, <1>3, <3>3, <3>4
  <2>2. CASE x \notin Observes(m)
    <3>1. \A z \in Observes(m) : queues'[z] = queues[z]
      BY <1>4, <2>2, OwnersAndUsers
    <3>2. Epochs(m, queues') = Epochs(m, queues)
      BY <3>1 DEF Epochs
    <3>3. HasInputEvent(m)' <=> HasInputEvent(m)
      BY <1>1, <3>2 DEF HasInputEvent, Epochs
    <3>4. QED BY <1>2, <1>3, <3>3 DEF ResetPlan
  <2>3. QED BY <2>1, <2>2
<1>7. QED BY <1>1, <1>2, <1>5, <1>6 DEF ResetPlan, EventType

LEMMA RecapturePlan ==
  \A m \in Modules : IInv /\ EInv /\ ResetEventState(m) => ResetPlan' /\ EventType'
<1> SUFFICES ASSUME NEW m \in Modules, IInv, EInv, ResetEventState(m) PROVE ResetPlan' /\ EventType'
  OBVIOUS
<1>1. /\ Calling("recapture", m) /\ "recapture" \in ResetOps /\ todo' = Tail(todo)
      /\ queues' = queues /\ log' = log
      /\ force' = [d \in Modules |-> IF d \in Subtree[m] THEN FALSE ELSE force[d]]
      /\ observed' = [d \in Modules |->
                         IF d \in Subtree[m] THEN Epochs(d, queues) ELSE observed[d]]
      /\ left' = [d \in Modules |-> IF d \in Subtree[m] THEN {} ELSE left[d]]
  BY DEF ResetEventState, ResetOps
<1>2. /\ ResetPlan /\ EventType /\ SystemType /\ Head(todo) = Call("recapture", m)
      /\ Tail(todo) \in Seq(CallType) /\ Members(todo) = {Head(todo)} \cup Members(Tail(todo))
      /\ AllIn(Tail(todo), ResetOps) /\ CapturedAfter(Tail(todo))
  BY <1>1, InResetPlan
<1>3. Clears(Head(todo)) = {} /\ Recaptures(Head(todo)) = Subtree[m]
  BY <1>2, ResetMeans
<1>4. \A z \in Queues : Drained(queues'[z]) \/ \E c \in Members(Tail(todo)) : z \in Clears(c)
  BY <1>1, <1>2, <1>3 DEF ResetPlan
<1>5. ASSUME NEW d \in Modules
      PROVE  ~HasInputEvent(d)' \/ \E c \in Members(Tail(todo)) : d \in Recaptures(c)
  <2>1. CASE d \in Subtree[m]
    <3>1. ~force'[d] /\ observed'[d] = Epochs(d, queues)
      BY <1>1, <2>1
    <3>2. QED BY <1>1, <3>1 DEF HasInputEvent, Epochs
  <2>2. CASE d \notin Subtree[m]
    <3>1. force'[d] = force[d] /\ observed'[d] = observed[d]
      BY <1>1, <2>2
    <3>2. HasInputEvent(d)' <=> HasInputEvent(d)
      BY <1>1, <3>1 DEF HasInputEvent, Epochs
    <3>3. QED BY <1>2, <1>3, <2>2, <3>2 DEF ResetPlan
  <2>3. QED BY <2>1, <2>2
<1>6. EventType'
  <2>1. ASSUME NEW d \in Modules PROVE Epochs(d, queues) \in [Observes(d) -> Nat]
    <3>1. \A x \in Observes(d) : x \in Queues /\ queues[x].visibleEpoch \in Nat
      BY <1>2, OwnersAndUsers DEF SystemType, GoodQueues, GoodQueue, QueueType
    <3>2. QED BY <3>1 DEF Epochs
  <2>2. DOMAIN observed' = Modules /\ observed' = [d \in Modules |-> observed'[d]]
    BY <1>1
  <2>3. DOMAIN left' = Modules /\ left' = [d \in Modules |-> left'[d]]
    BY <1>1
  <2>4. \A d \in Modules : observed'[d] \in [Observes(d) -> Nat]
    BY <1>1, <1>2, <2>1 DEF EventType
  <2>5. QED BY <2>2, <2>3, <2>4 DEF EventType
<1>7. QED BY <1>1, <1>2, <1>4, <1>5, <1>6 DEF ResetPlan

LEMMA ResetSteps == IInv /\ EInv /\ (ResetPhase \/ BeginReset) => ResetPlan' /\ EventType'
BY BeginResetPlan, ResetModulePlan, ClearPlan, RecapturePlan DEF ResetPhase

LEMMA ResetKeepsEvents == IInv /\ EInv /\ (ResetPhase \/ BeginReset) => EInv'
<1>1. IInv /\ (ResetPhase \/ BeginReset) => SystemType'
  <2>1. IInv /\ (ResetPhase \/ BeginReset) => IInv'
    BY ResetPreserves DEF ResetPhase
  <2>2. QED BY <2>1 DEF IInv
<1>2. SystemType' /\ EventType' /\ ResetPlan' => EInv'
  BY PlanOfReset, PTL
<1>3. QED BY <1>1, <1>2, ResetSteps

LEMMA NextPreservesEInv == IInv /\ EInv /\ [Next]_vars => EInv'
<1> SUFFICES ASSUME IInv, EInv, [Next]_vars PROVE EInv'
  OBVIOUS
<1>1. CASE WorkPhase
  <2>1. \/ \E m \in Modules : WorkAwake(m) \/ WorkAsleep(m)
        \/ \E m \in Modules : Capture(m)
        \/ \E m \in Modules : SelfStep(m)
        \/ \E c \in Modules : AdvanceQueuesOnly(c) \/ \E p \in Modules : VisitPending(p, c)
        \/ \E x \in Queues : QueueTick(x)
    BY <1>1 DEF WorkPhase, SelfStep
  <2>2. QED BY <2>1, WorkKeepsEvents, CaptureKeepsEvents, SelfKeepsEvents, VisitKeepsEvents,
               TickKeepsEvents
<1>2. CASE XferPhase
  BY <1>2, XferKeepsEvents DEF XferPhase
<1>3. CASE ResetPhase \/ BeginReset
  BY <1>3, ResetKeepsEvents
<1>4. CASE BeginStep
  BY <1>4, BeginStepKeepsEvents
<1>5. CASE Outside
  BY <1>5, OutsideKeepsEvents
<1>6. CASE UNCHANGED vars
  <2>1. /\ queues' = queues /\ force' = force /\ observed' = observed /\ todo' = todo
        /\ left' = left /\ log' = log
    BY <1>6 DEF vars
  <2>2. \A m \in Modules : /\ HasInputEvent(m)' <=> HasInputEvent(m)
                          /\ Visible(m, queues)' = Visible(m, queues)
    BY <2>1 DEF HasInputEvent, Epochs, Visible
  <2>3. EventType'
    BY <2>1 DEF EInv, EventType
  <2>4. Resetting' <=> Resetting
    BY <2>1 DEF Resetting, Between
  <2>5. Settled => Settled'
    BY <2>1, <2>2 DEF Settled, Known, Seen
  <2>6. EventPlan => EventPlan'
    <3>1. TodoPlan(todo, log.worked)' <=> TodoPlan(todo, log.worked)
      BY <2>1 DEF TodoPlan, AllIn, CapturePlan, Members
    <3>2. \A m \in Modules : WillAsk(m, todo)' <=> WillAsk(m, todo)
      BY <2>1 DEF WillAsk, Members
    <3>3. \A m \in log.due : m \in Modules
      BY DEF IInv, SystemType, LogType
    <3>4. DuePlan => DuePlan'
      BY <2>1, <2>2, <3>2, <3>3 DEF DuePlan
    <3>5. AtCapture => AtCapture'
      BY <2>1, <2>2 DEF AtCapture
    <3>6. QED BY <3>1, <3>4, <3>5 DEF EventPlan
  <2>7. ResetPlan => ResetPlan'
    BY <2>1, <2>2 DEF ResetPlan
  <2>8. QED BY <2>3, <2>4, <2>5, <2>6, <2>7 DEF EInv
<1>7. QED BY <1>1, <1>2, <1>3, <1>4, <1>5, <1>6 DEF Next, Step, Outside

(* Whatever the forest: events are never lost and captures never late.       *)
THEOREM EventsAreKept == Spec => []EInv
<1>1. QED BY InitEstablishesEInv, NextPreservesEInv, ScheduleIsPlanned, PTL DEF Spec

(* Module::Work, HasPendingWorkRecursive: whoever has an event when the Step  *)
(* begins, at whatever depth, has run when Xfer begins.                      *)
THEOREM DueAreServed == Spec => []EventsServed
<1>1. ASSUME IInv, EInv PROVE EventsServed
  <2> SUFFICES ASSUME InXferPhase, NEW m \in log.due PROVE m \in log.worked
    BY DEF EventsServed
  <2>1. todo # << >> /\ Head(todo).op = "xfer"
    BY DEF InXferPhase, Between
  <2>2. ~Resetting /\ ~InReset
    <3>1. ~Resetting
      BY <2>1 DEF Resetting
    <3>2. InReset => Head(todo) \in Members(todo)
      BY <2>1, TailOfCalls DEF InReset
    <3>3. QED BY <2>1, <3>1, <3>2 DEF InReset, AllIn, ResetOps
  <2>3. EventPlan /\ InStep
    BY <1>1, <2>1, <2>2, NextEvent DEF IInv, Between
  <2>4. Members(todo) = {Head(todo)} \cup Members(Tail(todo))
        /\ \A e \in Members(Tail(todo)) : Apart(Head(todo), e)
    BY <2>1, <2>3, TailOfCalls DEF InStep, StepPlan
  <2>5. \A c \in Members(todo) : c.op = "xfer"
    BY <2>1, <2>4 DEF Apart
  <2>6. QED BY <2>3, <2>5 DEF EventPlan, DuePlan, WillAsk
<1>2. QED BY <1>1, ScheduleIsPlanned, EventsAreKept, PTL

(* A module that sleeps has seen what is on its inputs: the epochs are        *)
(* captured before its queues move, and every later move changes them.       *)
THEOREM SleepersHaveSeen == Spec => []NoUnseenInput
<1>1. ASSUME IInv, EInv PROVE NoUnseenInput
  BY <1>1, NextEvent DEF NoUnseenInput, Settled, Seen
<1>2. QED BY <1>1, ScheduleIsPlanned, EventsAreKept, PTL

(* When Reset() returns the queues are empty and no module has an event: each *)
(* queue is cleared before the last capture of every module that observes it. *)
THEOREM ResetEndsQuiet == Spec => ResetIsQuiet
<1> DEFINE Ends == Resetting /\ todo' = << >> =>
                     /\ \A x \in Queues : Occupancy(queues'[x]) = 0
                     /\ \A m \in Modules : ~(HasInputEvent(m)')
<1>1. ResetPlan' /\ (todo = << >>)' => Quiet'
  BY ResetLeavesQuiet, PTL
<1>2. ASSUME IInv, EInv, [Next]_vars PROVE [Ends]_vars
  <2> SUFFICES ASSUME Resetting, todo' = << >>, ~(UNCHANGED vars)
               PROVE  /\ \A x \in Queues : Occupancy(queues'[x]) = 0
                      /\ \A m \in Modules : ~(HasInputEvent(m)')
    OBVIOUS
  <2>1. \A op \in StepOps : \A x : ~Calling(op, x)
    BY <1>2, NextEvent
  <2>2. ~WorkPhase /\ ~XferPhase
    BY <2>1 DEF WorkPhase, XferPhase, WorkAwake, WorkAsleep, Capture, AdvanceQueuesOnly, Forward,
                Push, Take, SelfDone, VisitPending, QueueTick, Xfer, StepOps
  <2>3. ~(BeginStep \/ BeginReset \/ Outside)
    BY DEF BeginStep, BeginReset, Outside, Receive, Send, RequestActivation, Resetting
  <2>4. ResetPhase
    BY <1>2, <2>2, <2>3 DEF Next, Step, Outside
  <2>5. ResetPlan'
    BY <1>2, <2>4, ResetSteps
  <2>6. Quiet'
    BY <1>1, <2>5
  <2>7. \A x \in Queues : Drained(queues'[x])
    BY <2>6 DEF Quiet, Drained
  <2>8. \A m \in Modules : ~(HasInputEvent(m)')
    BY <2>6 DEF Quiet
  <2>9. Len(<< >>) = 0 /\ 0 + 0 = 0
    OBVIOUS
  <2>10. \A x \in Queues : Occupancy(queues'[x]) = 0
    BY <2>7, <2>9 DEF Drained, Occupancy
  <2>11. QED BY <2>8, <2>10
<1> HIDE DEF Ends
<1>3. Spec => [][Ends]_vars
  BY <1>2, ScheduleIsPlanned, EventsAreKept, PTL DEF Spec
<1>4. QED BY <1>3 DEF ResetIsQuiet, Ends

-----------------------------------------------------------------------------
(***************************************************************************)
(* Xfer.  What follows is a third invariant, about the active lists: they    *)
(* lead from the roots to whoever has run, and to nobody else who runs       *)
(* XferSelf.                                                                *)
(***************************************************************************)
(* Every module from a root down to m is on the list of its parent.          *)
Linked(m, act) ==
  \A p \in Modules : \A d \in Members(Children[p]) :
    m \in Subtree[d] => d \in Members(act[p])

(* A visit below a module that AdvanceQueuesOnly() has taken over.           *)
Inert(c, act) ==
  c.op = "visit" /\ \E p \in Modules : IsChild(c.on, p) /\ ~Linked(p, act)

NoInert(s, act) == \A c \in Members(s) : ~Inert(c, act)

(* Such visits come before every call that runs a WorkSelf, so nothing wakes *)
(* what is below them.                                                      *)
InertFirst(s, act) ==
  \A i, j \in 1..Len(s) : i < j /\ Inert(s[j], act) => s[i].op = "tick" \/ Inert(s[i], act)

InertAsleep(s, act) ==
  \A c \in Members(s) : Inert(c, act) => ~HasPendingWorkRecursive(c.on)

WorkLinked(s, act) == \A c \in Members(s) : c.op = "work" => Linked(c.on, act)

(* A submodule that is still to be visited is not on the list yet.           *)
Unlisted(s, act) ==
  \A c \in Members(s) : c.op = "visit" =>
    \A p \in Modules : IsChild(c.on, p) => c.on \notin Members(act[p])

(* The flag of a module tells whether it ran in this Step, once it was asked.*)
Marked(s, worked, flag) ==
  \A m \in Modules : IF WillAsk(m, s) THEN m \notin worked ELSE flag[m] <=> m \in worked

(* Who has run, or may still run, is met by an Xfer() yet to come.           *)
WillXfer(m, s) == \E c \in Members(s) : c.op = "xfer" /\ m \in Subtree[c.on]
Reached(s, worked, xfered) ==
  /\ xfered \subseteq worked
  /\ \A m \in Modules :
       m \in worked \/ WillAsk(m, s) => m \in xfered \/ WillXfer(m, s)

ListsType ==
  /\ ran \in [Modules -> BOOLEAN]
  /\ \A m \in Modules : /\ IsFiniteSet(Members(active[m]))
                        /\ Members(active[m]) \subseteq Members(Children[m])
                        /\ Cardinality(Members(active[m])) = Len(active[m])

XferPlan ==
  /\ InertFirst(todo, active) /\ InertAsleep(todo, active)
  /\ WorkLinked(todo, active) /\ Unlisted(todo, active)
  /\ \A m \in log.worked : Linked(m, active)
  /\ Marked(todo, log.worked, ran) /\ Reached(todo, log.worked, log.xfered)

XInv ==
  /\ ListsType
  /\ XferPlan \/ ((Between \/ Resetting) /\ log.xfered = log.worked)

-----------------------------------------------------------------------------
(* Clearing the list of m unlinks only what is below m.                      *)
LEMMA ClearKeepsLinks ==
  ASSUME NEW m \in Modules, NEW act, NEW new, NEW x \in Modules, x \notin Subtree[m] \/ x = m,
         \A p \in Modules : p # m => new[p] = act[p]
  PROVE  Linked(x, new) <=> Linked(x, act)
<1>1. \A d \in Members(Children[m]) : x \notin Subtree[d]
  BY NoCycle, SubtreeMonotone DEF IsChild
<1>2. QED BY <1>1 DEF Linked

(* Adding to a list unlinks nobody, and links a submodule like its parent.   *)
LEMMA AppendKeepsLinks ==
  ASSUME NEW act, NEW new, NEW x, Linked(x, act),
         \A p \in Modules : Members(act[p]) \subseteq Members(new[p])
  PROVE  Linked(x, new)
BY DEF Linked

LEMMA AppendLinks ==
  ASSUME NEW act, NEW p \in Modules, NEW c, IsChild(c, p), Linked(p, act), c \in Members(act[p])
  PROVE  Linked(c, act)
<1> SUFFICES ASSUME NEW q \in Modules, NEW d \in Members(Children[q]), c \in Subtree[d]
             PROVE  d \in Members(act[q])
  BY DEF Linked
<1>1. d \in Modules
  BY ChildrenAreModules
<1>2. CASE c = d
  <2>1. q = p
    BY <1>2, OneParent DEF IsChild
  <2>2. QED BY <1>2, <2>1
<1>3. CASE c # d
  <2>1. PICK e \in Subtree[d] : IsChild(c, e)
    BY <1>1, <1>3, ParentsInside
  <2>2. e = p
    BY <1>1, <2>1, OneParent, SubtreeIsClosed
  <2>3. QED BY <2>1, <2>2 DEF Linked
<1>4. QED BY <1>2, <1>3

(* A module that its parent does not list is not linked.                     *)
LEMMA UnlistedUnlinked ==
  ASSUME NEW act, NEW p \in Modules, NEW c, IsChild(c, p), c \notin Members(act[p])
  PROVE  ~Linked(c, act)
<1>1. c \in Subtree[c]
  BY SubtreeMonotone, SubtreeIsClosed
<1>2. QED BY <1>1 DEF Linked, IsChild

LEMMA InertTail ==
  ASSUME NEW C, NEW s \in Seq(C), s # << >>, NEW act, InertFirst(s, act)
  PROVE  /\ InertFirst(Tail(s), act)
         /\ Head(s).op # "tick" /\ ~Inert(Head(s), act) => NoInert(s, act)
<1>1. /\ Len(Tail(s)) = Len(s) - 1 /\ Len(s) \in Nat /\ Len(s) > 0
      /\ \A i \in 1..Len(Tail(s)) : Tail(s)[i] = s[i + 1]
      /\ Head(s) = s[1]
  BY HeadTailProperties
<1>2. \A i \in 1..Len(Tail(s)) : i + 1 \in 1..Len(s) /\ i \in Nat
  BY <1>1
<1>3. InertFirst(Tail(s), act)
  <2> SUFFICES ASSUME NEW i \in 1..Len(Tail(s)), NEW j \in 1..Len(Tail(s)), i < j,
                      Inert(Tail(s)[j], act)
               PROVE  Tail(s)[i].op = "tick" \/ Inert(Tail(s)[i], act)
    BY DEF InertFirst
  <2>1. i + 1 < j + 1 /\ Inert(s[j + 1], act)
    BY <1>1, <1>2
  <2>2. s[i + 1].op = "tick" \/ Inert(s[i + 1], act)
    BY <1>2, <2>1 DEF InertFirst
  <2>3. QED BY <1>1, <2>2
<1>4. ASSUME Head(s).op # "tick", ~Inert(Head(s), act), NEW j \in 1..Len(s), Inert(s[j], act)
      PROVE  FALSE
  <2>1. 1 \in 1..Len(s) /\ (j = 1 \/ 1 < j)
    BY <1>1
  <2>2. QED BY <1>1, <1>4, <2>1 DEF InertFirst
<1>5. QED BY <1>3, <1>4 DEF NoInert, Members

LEMMA NoInertFirst ==
  ASSUME NEW s, NEW act, NoInert(s, act)
  PROVE  InertFirst(s, act)
BY DEF NoInert, InertFirst, Members

LEMMA InertJoin ==
  ASSUME NEW C, NEW a \in Seq(C), NEW b \in Seq(C), NEW act, InertFirst(b, act),
         \A c \in Members(a) : c.op = "tick" \/ Inert(c, act)
  PROVE  InertFirst(a \o b, act)
<1>1. a \o b \in Seq(C) /\ Joined(a \o b, a, b)
  BY ConcatJoins
<1>2. Len(a) \in Nat /\ Len(b) \in Nat /\ Len(a \o b) = Len(a) + Len(b)
  BY <1>1 DEF Joined
<1> SUFFICES ASSUME NEW i \in 1..Len(a \o b), NEW j \in 1..Len(a \o b), i < j,
                    Inert((a \o b)[j], act)
             PROVE  (a \o b)[i].op = "tick" \/ Inert((a \o b)[i], act)
  BY DEF InertFirst
<1>3. i \in Nat /\ j \in Nat
  BY <1>2
<1>4. CASE i <= Len(a)
  <2>1. i \in 1..Len(a) /\ (a \o b)[i] = a[i]
    BY <1>1, <1>2, <1>3, <1>4 DEF Joined
  <2>2. QED BY <2>1 DEF Members
<1>5. CASE ~(i <= Len(a))
  <2>1. ~(j <= Len(a))
    BY <1>2, <1>3, <1>5
  <2>2. i - Len(a) \in 1..Len(b) /\ j - Len(a) \in 1..Len(b) /\ i - Len(a) < j - Len(a)
    BY <1>1, <1>2, <1>3, <1>5, <2>1
  <2>3. (a \o b)[i] = b[i - Len(a)] /\ (a \o b)[j] = b[j - Len(a)]
    BY <1>1, <1>2, <1>3, <1>5, <2>1 DEF Joined
  <2>4. QED BY <2>2, <2>3 DEF InertFirst
<1>6. QED BY <1>4, <1>5

(* Who will be asked, and who will be met, by calls laid end to end.         *)
LEMMA AsksJoin ==
  ASSUME NEW C, NEW a \in Seq(C), NEW b \in Seq(C), NEW m
  PROVE  /\ WillAsk(m, a \o b) <=> WillAsk(m, a) \/ WillAsk(m, b)
         /\ WillXfer(m, a \o b) <=> WillXfer(m, a) \/ WillXfer(m, b)
<1>1. Members(a \o b) = Members(a) \cup Members(b)
  BY CallsJoin
<1>2. QED BY <1>1 DEF WillAsk, WillXfer

LEMMA AsksSplit ==
  ASSUME NEW C, NEW s \in Seq(C), s # << >>, NEW m
  PROVE  /\ WillAsk(m, s) <=> \/ Head(s).op \in {"work", "visit"} /\ m \in Subtree[Head(s).on]
                              \/ WillAsk(m, Tail(s))
         /\ WillXfer(m, s) <=> \/ Head(s).op = "xfer" /\ m \in Subtree[Head(s).on]
                               \/ WillXfer(m, Tail(s))
<1>1. Members(s) = {Head(s)} \cup Members(Tail(s))
  BY TailOfCalls
<1>2. QED BY <1>1 DEF WillAsk, WillXfer

-----------------------------------------------------------------------------
(* What a call of a Step finds.                                              *)
LEMMA NextXfer ==
  ASSUME IInv, EInv, XInv, NEW op \in StepOps, NEW x, Calling(op, x)
  PROVE  /\ XferPlan /\ ListsType /\ SystemType
         /\ todo \in Seq(CallType) /\ todo # << >> /\ Head(todo) = Call(op, x)
         /\ Tail(todo) \in Seq(CallType) /\ Members(todo) = {Head(todo)} \cup Members(Tail(todo))
         /\ \A e \in Members(Tail(todo)) : Apart(Head(todo), e) /\ e \in CallType /\ e.op \in StepOps
         /\ InertFirst(Tail(todo), active)
         /\ op # "tick" /\ ~Inert(Head(todo), active) => NoInert(todo, active)
<1>1. XferPlan
  BY NextEvent DEF XInv, Calling
<1>2. todo # << >> /\ Head(todo) = Call(op, x) /\ StepPlan(todo, log.ticks)
  BY NextCall DEF InStep
<1>3. /\ todo \in Seq(CallType) /\ Tail(todo) \in Seq(CallType)
      /\ Members(todo) = {Head(todo)} \cup Members(Tail(todo))
      /\ \A e \in Members(Tail(todo)) : Apart(Head(todo), e)
  BY <1>2, TailOfCalls DEF StepPlan
<1>4. \A e \in Members(Tail(todo)) : e \in CallType /\ e.op \in StepOps
  BY <1>2, <1>3, MembersType DEF StepPlan, AllIn
<1>5. /\ InertFirst(Tail(todo), active)
      /\ op # "tick" /\ ~Inert(Head(todo), active) => NoInert(todo, active)
  BY <1>1, <1>2, <1>3, InertTail DEF XferPlan, Call
<1>6. QED BY <1>1, <1>2, <1>3, <1>4, <1>5 DEF XInv, IInv

(* A handler that is done, and has neither run a module nor met one.         *)
LEMMA DoneKeepsLists ==
  ASSUME IInv, EInv, XInv, NEW op \in {"self", "capture", "tick"}, NEW x, Calling(op, x),
         todo' = Tail(todo), active' = active, ran' = ran,
         log'.worked = log.worked, log'.xfered = log.xfered,
         \A c \in Members(Tail(todo)) : Inert(c, active) => ~HasPendingWorkRecursive(c.on)'
  PROVE  XInv'
<1>1. op \in StepOps
  BY DEF StepOps
<1>2. /\ XferPlan /\ ListsType /\ todo \in Seq(CallType) /\ todo # << >> /\ Head(todo) = Call(op, x)
      /\ Members(todo) = {Head(todo)} \cup Members(Tail(todo)) /\ InertFirst(Tail(todo), active)
  BY <1>1, NextXfer
<1>3. \A m : /\ WillAsk(m, Tail(todo)) <=> WillAsk(m, todo)
             /\ WillXfer(m, Tail(todo)) <=> WillXfer(m, todo)
  BY <1>2, AsksSplit DEF Call
<1>4. Marked(Tail(todo), log.worked, ran) /\ Reached(Tail(todo), log.worked, log.xfered)
  BY <1>2, <1>3 DEF XferPlan, Marked, Reached
<1>5. WorkLinked(Tail(todo), active) /\ Unlisted(Tail(todo), active)
  BY <1>2 DEF XferPlan, WorkLinked, Unlisted
<1>6. InertAsleep(todo, active)'
  BY DEF InertAsleep
<1>7. \A m \in log'.worked : Linked(m, active')
  BY <1>2 DEF XferPlan
<1>8. XferPlan'
  BY <1>2, <1>4, <1>5, <1>6, <1>7 DEF XferPlan
<1>9. ListsType'
  BY <1>2 DEF ListsType
<1>10. QED BY <1>8, <1>9 DEF XInv

(* Whoever the next call takes care of has not run, and no other call will   *)
(* take care of it, nor visit a submodule of it.                            *)
LEMMA TakenOnce ==
  ASSUME IInv, EInv, XInv, NEW op \in {"work", "visit"}, NEW m \in Modules, Calling(op, m)
  PROVE  /\ \A d \in Subtree[m] : d \in Modules /\ d \notin log.worked /\ ~WillAsk(d, Tail(todo))
         /\ \A e \in Members(Tail(todo)) : e.op \in {"work", "visit"} =>
              /\ e.on \in Modules /\ e.on \notin Subtree[m]
              /\ \A p \in Modules : IsChild(e.on, p) => p \notin Subtree[m]
<1>1. op \in StepOps
  BY DEF StepOps
<1>2. /\ XferPlan /\ todo \in Seq(CallType) /\ todo # << >> /\ Head(todo) = Call(op, m)
      /\ \A e \in Members(Tail(todo)) : Apart(Head(todo), e) /\ e \in CallType
  BY <1>1, NextXfer
<1>3. Runs(Head(todo)) = Subtree[m] /\ Head(todo).op = op /\ Head(todo).on = m
  BY <1>2, CallMeans
<1>4. \A d \in Subtree[m] : d \in Modules /\ d \notin log.worked
  <2>1. \A d \in Subtree[m] : d \in Modules /\ WillAsk(d, todo)
    BY <1>2, <1>3, AsksSplit, SubtreeIsClosed
  <2>2. QED BY <1>2, <2>1 DEF XferPlan, Marked
<1>5. ASSUME NEW e \in Members(Tail(todo)), e.op \in {"work", "visit"}
      PROVE  /\ Subtree[m] \cap Subtree[e.on] = {} /\ e.on \in Modules /\ e.on \notin Subtree[m]
             /\ \A p \in Modules : IsChild(e.on, p) => p \notin Subtree[m]
  <2>1. Runs(e) = Subtree[e.on]
    BY <1>5 DEF Runs
  <2>2. e.on \in Modules
    BY <1>2, <1>5 DEF CallType
  <2>3. Subtree[m] \cap Subtree[e.on] = {}
    BY <1>2, <1>3, <2>1 DEF Apart
  <2>4. e.on \notin Subtree[m]
    BY <2>2, <2>3, SubtreeIsClosed
  <2>5. QED BY <2>2, <2>3, <2>4, SubtreeIsClosed DEF Closed, IsChild
<1>6. QED BY <1>4, <1>5 DEF WillAsk

(* Work() and AdvanceQueuesOnly(): the list is cleared and the submodules    *)
(* are to be visited.                                                       *)
LEMMA TakingKeepsLists ==
  ASSUME IInv, EInv, XInv, NEW op \in {"work", "visit"}, NEW m \in Modules, Calling(op, m),
         NEW runs \in BOOLEAN, op = "visit" => ~runs /\ ~HasPendingWorkRecursive(m),
         NEW n \in Seq(CallType), todo' = n \o Tail(todo),
         \A e \in Members(n) : \/ e.op = "visit" /\ IsChild(e.on, m)
                               \/ e.op = "tick"
                               \/ runs /\ e.op \in {"self", "capture"},
         \A d \in Modules : WillAsk(d, n) <=> d \in Subtree[m] /\ d # m,
         active' = [active EXCEPT ![m] = << >>], ran' = [ran EXCEPT ![m] = runs],
         log'.worked = log.worked \cup (IF runs THEN {m} ELSE {}), log'.xfered = log.xfered,
         queues' = queues, force' = force, observed' = observed, log.worked \subseteq Modules,
         active \in [Modules -> Seq(Modules)]
  PROVE  XInv'
<1>1. op \in StepOps
  BY DEF StepOps
<1>2. /\ XferPlan /\ ListsType /\ SystemType
      /\ todo \in Seq(CallType) /\ todo # << >> /\ Head(todo) = Call(op, m)
      /\ Tail(todo) \in Seq(CallType) /\ Members(todo) = {Head(todo)} \cup Members(Tail(todo))
      /\ InertFirst(Tail(todo), active)
      /\ op # "tick" /\ ~Inert(Head(todo), active) => NoInert(todo, active)
  BY <1>1, NextXfer
<1>3. /\ \A d \in Subtree[m] : d \in Modules /\ d \notin log.worked /\ ~WillAsk(d, Tail(todo))
      /\ \A e \in Members(Tail(todo)) : e.op \in {"work", "visit"} =>
           /\ e.on \in Modules /\ e.on \notin Subtree[m]
           /\ \A p \in Modules : IsChild(e.on, p) => p \notin Subtree[m]
  BY TakenOnce
<1>4. /\ active'[m] = << >> /\ \A p \in Modules : p # m => active'[p] = active[p]
      /\ Members(active'[m]) = {}
  BY DEF Members
<1>5. \A x \in Modules : x \notin Subtree[m] \/ x = m =>
        (Linked(x, active') <=> Linked(x, active))
  BY <1>4, ClearKeepsLinks
<1>6. n \o Tail(todo) \in Seq(CallType) /\ Members(n \o Tail(todo)) = Members(n) \cup Members(Tail(todo))
  <2>1. n \in Seq(CallType) /\ Tail(todo) \in Seq(CallType)
    BY <1>2
  <2>2. QED BY <2>1, CallsPut
<1>7. m \in Subtree[m]
  BY SubtreeIsClosed
<1>8. \A e \in Members(Tail(todo)) : Inert(e, active') <=> Inert(e, active)
  BY <1>3, <1>5 DEF Inert
<1>9. \A e \in Members(n) : Inert(e, active') <=> e.op = "visit" /\ ~Linked(m, active)
  <2> SUFFICES ASSUME NEW e \in Members(n), e.op = "visit"
               PROVE  Inert(e, active') <=> ~Linked(m, active)
    BY DEF Inert
  <2>1. IsChild(e.on, m)
    OBVIOUS
  <2>2. \A p \in Modules : IsChild(e.on, p) <=> p = m
    BY <2>1, OneParent
  <2>3. Linked(m, active') <=> Linked(m, active)
    BY <1>5
  <2>4. QED BY <2>2, <2>3 DEF Inert
<1>10. Linked(m, active) => NoInert(todo, active)
  <2> SUFFICES ASSUME Linked(m, active) PROVE ~Inert(Head(todo), active)
    BY <1>2
  <2>1. CASE op = "work"
    BY <1>2, <2>1 DEF Inert, Call
  <2>2. CASE op = "visit"
    <3>1. \A p \in Modules : IsChild(m, p) => m \notin Members(active[p])
      BY ZenonT(60), <1>2, <2>2 DEF XferPlan, Unlisted, Call
    <3>2. \A p \in Modules : ~IsChild(m, p)
      BY <3>1, UnlistedUnlinked
    <3>3. QED BY <1>2, <3>2 DEF Inert, Call
  <2>3. QED BY <2>1, <2>2
<1>11. op = "work" => Linked(m, active)
  <2>1. Head(todo).op = op /\ Head(todo).on = m /\ Head(todo) \in Members(todo)
    BY <1>2 DEF Call
  <2>2. WorkLinked(todo, active)
    BY <1>2 DEF XferPlan
  <2>3. QED BY <2>1, <2>2 DEF WorkLinked
<1>12. InertFirst(n \o Tail(todo), active')
  <2>1. CASE Linked(m, active)
    <3>1. NoInert(n \o Tail(todo), active')
      BY <1>2, <1>6, <1>8, <1>9, <1>10, <2>1 DEF NoInert
    <3>2. QED BY <3>1, NoInertFirst
  <2>2. CASE ~Linked(m, active)
    <3>1. op = "visit" /\ ~runs
      BY <1>11, <2>2
    <3>2. \A e \in Members(n) : e.op = "tick" \/ Inert(e, active')
      BY <1>9, <2>2, <3>1
    <3>3. InertFirst(Tail(todo), active')
      <4>1. \A i \in 1..Len(Tail(todo)) : Inert(Tail(todo)[i], active') <=> Inert(Tail(todo)[i], active)
        BY <1>8 DEF Members
      <4>2. QED BY <1>2, <4>1 DEF InertFirst
    <3>4. QED BY <1>2, <3>2, <3>3, InertJoin
  <2>3. QED BY <2>1, <2>2
<1>13. InertAsleep(todo, active)'
  <2>1. \A d \in Modules : HasInputEvent(d)' <=> HasInputEvent(d)
    BY DEF HasInputEvent, Epochs
  <2>2. \A d \in Modules : HasPendingWorkRecursive(d)' <=> HasPendingWorkRecursive(d)
    BY <2>1, SubtreeIsClosed DEF HasPendingWorkRecursive
  <2>3. ASSUME NEW e \in Members(n), Inert(e, active') PROVE ~HasPendingWorkRecursive(e.on)'
    <3>1. IsChild(e.on, m) /\ ~HasPendingWorkRecursive(m)
      BY <1>9, <1>11, <2>3
    <3>2. e.on \in Modules /\ Subtree[e.on] \subseteq Subtree[m]
      BY <3>1, SubtreeMonotone
    <3>3. ~HasPendingWorkRecursive(e.on)
      BY <3>1, <3>2 DEF HasPendingWorkRecursive
    <3>4. QED BY <2>2, <3>2, <3>3
  <2>4. ASSUME NEW e \in Members(Tail(todo)), Inert(e, active') PROVE ~HasPendingWorkRecursive(e.on)'
    <3>1. Inert(e, active) /\ e \in Members(todo) /\ e.on \in Modules
      BY <1>2, <1>3, <1>8, <2>4 DEF Inert
    <3>2. ~HasPendingWorkRecursive(e.on)
      BY <1>2, <3>1 DEF XferPlan, InertAsleep
    <3>3. QED BY <2>2, <3>1, <3>2
  <2>5. QED BY <1>6, <2>3, <2>4 DEF InertAsleep
<1>14. WorkLinked(n \o Tail(todo), active')
  <2>1. \A e \in Members(n) : e.op # "work"
    OBVIOUS
  <2>2. QED BY <1>2, <1>3, <1>5, <1>6, <2>1 DEF XferPlan, WorkLinked
<1>15. Unlisted(n \o Tail(todo), active')
  <2>1. \A e \in Members(n) : e.op = "visit" =>
          \A p \in Modules : IsChild(e.on, p) => e.on \notin Members(active'[p])
    BY <1>4, OneParent
  <2>2. \A p \in Modules : Members(active'[p]) \subseteq Members(active[p])
    BY <1>4
  <2>3. QED BY <1>2, <1>6, <2>1, <2>2 DEF XferPlan, Unlisted
<1>16. \A d \in log'.worked : Linked(d, active')
  <2>1. \A d \in log.worked : d \in Modules /\ d \notin Subtree[m] /\ Linked(d, active)
    BY <1>2, <1>3 DEF XferPlan
  <2>2. runs => Linked(m, active')
    BY <1>5, <1>11
  <2>3. QED BY <1>5, <2>1, <2>2
<1>17. \A d \in Modules : /\ WillAsk(d, n \o Tail(todo)) <=> WillAsk(d, todo) /\ d # m
                          /\ WillXfer(d, todo) => WillXfer(d, n \o Tail(todo))
  <2>1. \A d \in Modules : /\ WillAsk(d, n \o Tail(todo)) <=> WillAsk(d, n) \/ WillAsk(d, Tail(todo))
                           /\ WillXfer(d, Tail(todo)) => WillXfer(d, n \o Tail(todo))
    BY <1>2, AsksJoin
  <2>2. \A d \in Modules : /\ WillAsk(d, todo) <=> d \in Subtree[m] \/ WillAsk(d, Tail(todo))
                           /\ WillXfer(d, todo) <=> WillXfer(d, Tail(todo))
    BY <1>2, AsksSplit DEF Call
  <2>3. QED BY <1>3, <1>7, <2>1, <2>2
<1>18. Marked(n \o Tail(todo), log'.worked, ran')
  <2>1. ran'[m] = runs /\ \A d \in Modules : d # m => ran'[d] = ran[d]
    BY <1>2 DEF ListsType
  <2>2. /\ m \in log'.worked <=> runs
        /\ \A d \in Modules : d # m => (d \in log'.worked <=> d \in log.worked)
    BY <1>3, <1>7
  <2>3. QED BY <1>2, <1>17, <2>1, <2>2 DEF XferPlan, Marked
<1>19. Reached(n \o Tail(todo), log'.worked, log'.xfered)
  <2>1. \A d \in Modules : d \in log'.worked => d \in log.worked \/ WillAsk(d, todo)
    <3>1. /\ Head(todo).op \in {"work", "visit"} /\ Head(todo).on = m
          /\ Head(todo) \in Members(todo)
      BY <1>2 DEF Call
    <3>2. WillAsk(m, todo)
      BY <1>7, <3>1 DEF WillAsk
    <3>3. QED BY <3>2
  <2>2. QED BY <1>2, <1>17, <2>1 DEF XferPlan, Reached
<1>20. XferPlan'
  BY <1>12, <1>13, <1>14, <1>15, <1>16, <1>18, <1>19 DEF XferPlan
<1>21. ListsType'
  <2>1. ran' \in [Modules -> BOOLEAN]
    BY <1>2 DEF ListsType
  <2>2. Members(<< >>) = {} /\ Len(<< >>) = 0
    BY DEF Members
  <2>3. IsFiniteSet({}) /\ Cardinality({}) = 0
    BY FS_EmptySet
  <2>4. QED BY <1>2, <1>4, <2>1, <2>2, <2>3 DEF ListsType
<1>22. QED BY <1>20, <1>21 DEF XInv

(* The calls that Work() and AdvanceQueuesOnly() leave to be made.           *)
LEMMA RestTakes ==
  ASSUME NEW m \in Modules
  PROVE  /\ Rest(m) \in Seq(CallType)
         /\ \A e \in Members(Rest(m)) : (e.op = "visit" /\ IsChild(e.on, m)) \/ e.op = "tick"
         /\ \A d \in Modules : WillAsk(d, Rest(m)) <=> d \in Subtree[m] /\ d # m
<1> DEFINE V == Calls("visit", Children[m])
           T == Calls("tick", Owned[m])
<1>1. CallsFor("visit", Children[m]) /\ CallsFor("tick", Owned[m])
  BY ForestAssumption, WiringAssumption, ModuleCalls, QueueCalls
<1>2. /\ V \in Seq(CallType) /\ Members(V) = { Call("visit", c) : c \in Members(Children[m]) }
      /\ T \in Seq(CallType) /\ Members(T) = { Call("tick", x) : x \in Members(Owned[m]) }
  BY <1>1 DEF CallsFor
<1> HIDE DEF V, T
<1>3. Rest(m) = V \o T /\ V \o T \in Seq(CallType) /\ Members(V \o T) = Members(V) \cup Members(T)
  BY <1>2, CallsPut DEF Rest, V, T
<1>4. \A e \in Members(Rest(m)) : (e.op = "visit" /\ IsChild(e.on, m)) \/ e.op = "tick"
  BY <1>2, <1>3 DEF Call, IsChild
<1>5. ASSUME NEW d \in Modules, WillAsk(d, Rest(m)) PROVE d \in Subtree[m] /\ d # m
  <2>1. PICK e \in Members(Rest(m)) : e.op \in {"work", "visit"} /\ d \in Subtree[e.on]
    BY <1>5 DEF WillAsk
  <2>2. IsChild(e.on, m)
    BY <1>4, <2>1
  <2>3. QED BY <2>1, <2>2, SubtreeMonotone, NoCycle
<1>6. QED BY <1>3, <1>4, <1>5, RestAsks

LEMMA WorkKeepsLists ==
  \A m \in Modules : IInv /\ EInv /\ XInv /\ (WorkAwake(m) \/ WorkAsleep(m)) => XInv'
<1> SUFFICES ASSUME NEW m \in Modules, IInv, EInv, XInv, WorkAwake(m) \/ WorkAsleep(m) PROVE XInv'
  OBVIOUS
<1>1. /\ Calling("work", m) /\ "work" \in {"work", "visit"}
      /\ active' = [active EXCEPT ![m] = << >>]
      /\ queues' = queues /\ force' = force /\ observed' = observed
  BY DEF WorkAwake, WorkAsleep
<1>2. active \in [Modules -> Seq(Modules)] /\ log \in LogType /\ log.worked \subseteq Modules
  BY DEF IInv, SystemType, LogType
<1>3. /\ Rest(m) \in Seq(CallType)
      /\ \A e \in Members(Rest(m)) : (e.op = "visit" /\ IsChild(e.on, m)) \/ e.op = "tick"
      /\ \A d \in Modules : WillAsk(d, Rest(m)) <=> d \in Subtree[m] /\ d # m
  BY RestTakes
<1>4. CASE WorkAsleep(m)
  <2>1. todo' = Rest(m) \o Tail(todo) /\ log' = log /\ ran' = [ran EXCEPT ![m] = FALSE]
    BY <1>4 DEF WorkAsleep
  <2>2. FALSE \in BOOLEAN /\ log'.worked = log.worked \cup (IF FALSE THEN {m} ELSE {})
        /\ log'.xfered = log.xfered
    BY <2>1
  <2>3. QED BY <1>1, <1>2, <1>3, <2>1, <2>2, TakingKeepsLists
<1>5. CASE WorkAwake(m)
  <2> DEFINE own == <<Call("self", m), Call("capture", m)>>
             n == own \o Rest(m)
  <2>1. /\ todo' = n \o Tail(todo) /\ ran' = [ran EXCEPT ![m] = TRUE]
        /\ log' = [log EXCEPT !.worked = @ \cup {m}]
    BY <1>5 DEF WorkAwake
  <2>2. own \in Seq(CallType) /\ \A e \in Members(own) : e.op \in {"self", "capture"}
    <3>1. Call("self", m) \in CallType /\ Call("capture", m) \in CallType
      BY CallTyped
    <3>2. own \in Seq(CallType) /\ Len(own) = 2 /\ own[1] = Call("self", m) /\ own[2] = Call("capture", m)
      BY <3>1
    <3> HIDE DEF own
    <3>3. Members(own) = {Call("self", m), Call("capture", m)}
      BY <3>2 DEF Members
    <3>4. QED BY <3>2, <3>3 DEF Call
  <2> HIDE DEF own
  <2>3. n \in Seq(CallType) /\ Members(n) = Members(own) \cup Members(Rest(m))
    BY <1>3, <2>2, CallsPut
  <2>4. \A d \in Modules : WillAsk(d, n) <=> d \in Subtree[m] /\ d # m
    <3>1. \A d \in Modules : WillAsk(d, n) <=> WillAsk(d, own) \/ WillAsk(d, Rest(m))
      BY <1>3, <2>2, AsksJoin
    <3>2. \A d \in Modules : ~WillAsk(d, own)
      BY <2>2 DEF WillAsk
    <3>3. QED BY <1>3, <3>1, <3>2
  <2> HIDE DEF n
  <2>5. \A e \in Members(n) : \/ e.op = "visit" /\ IsChild(e.on, m)
                              \/ e.op = "tick"
                              \/ TRUE /\ e.op \in {"self", "capture"}
    BY <1>3, <2>2, <2>3
  <2>6. /\ TRUE \in BOOLEAN /\ log'.worked = log.worked \cup (IF TRUE THEN {m} ELSE {})
        /\ log'.xfered = log.xfered
    BY <1>2, <2>1 DEF LogType
  <2>7. QED BY <1>1, <1>2, <2>1, <2>3, <2>4, <2>5, <2>6, TakingKeepsLists
<1>6. QED BY <1>4, <1>5

LEMMA AdvanceKeepsLists ==
  \A m \in Modules : IInv /\ EInv /\ XInv /\ AdvanceQueuesOnly(m) => XInv'
<1> SUFFICES ASSUME NEW m \in Modules, IInv, EInv, XInv, AdvanceQueuesOnly(m) PROVE XInv'
  OBVIOUS
<1>1. /\ Calling("visit", m) /\ "visit" \in {"work", "visit"} /\ ~HasPendingWorkRecursive(m)
      /\ active' = [active EXCEPT ![m] = << >>] /\ ran' = [ran EXCEPT ![m] = FALSE]
      /\ queues' = queues /\ force' = force /\ observed' = observed
      /\ todo' = Rest(m) \o Tail(todo) /\ log' = log
  BY DEF AdvanceQueuesOnly
<1>2. active \in [Modules -> Seq(Modules)] /\ log.worked \subseteq Modules
  BY DEF IInv, SystemType, LogType
<1>3. /\ Rest(m) \in Seq(CallType)
      /\ \A e \in Members(Rest(m)) : (e.op = "visit" /\ IsChild(e.on, m)) \/ e.op = "tick"
      /\ \A d \in Modules : WillAsk(d, Rest(m)) <=> d \in Subtree[m] /\ d # m
  BY RestTakes
<1>4. FALSE \in BOOLEAN /\ log'.worked = log.worked \cup (IF FALSE THEN {m} ELSE {})
      /\ log'.xfered = log.xfered
  BY <1>1
<1>5. QED BY <1>1, <1>2, <1>3, <1>4, TakingKeepsLists

(* A pending submodule goes on the list of a module that is linked itself.   *)
LEMMA PendingKeepsLists ==
  \A p, c \in Modules : IInv /\ EInv /\ XInv /\ VisitPending(p, c) => XInv'
<1> SUFFICES ASSUME NEW p \in Modules, NEW c \in Modules, IInv, EInv, XInv, VisitPending(p, c)
             PROVE  XInv'
  OBVIOUS
<1> DEFINE n == <<Call("work", c)>>
<1>1. /\ Calling("visit", c) /\ "visit" \in StepOps /\ "visit" \in {"work", "visit"}
      /\ IsChild(c, p) /\ HasPendingWorkRecursive(c)
      /\ active' = [active EXCEPT ![p] = Append(active[p], c)]
      /\ todo' = n \o Tail(todo) /\ ran' = ran /\ log' = log
  BY DEF VisitPending, StepOps, IsChild
<1>2. /\ XferPlan /\ ListsType /\ SystemType
      /\ todo \in Seq(CallType) /\ todo # << >> /\ Head(todo) = Call("visit", c)
      /\ Tail(todo) \in Seq(CallType) /\ Members(todo) = {Head(todo)} \cup Members(Tail(todo))
      /\ ~Inert(Head(todo), active) => NoInert(todo, active)
  BY <1>1, NextXfer
<1>3. /\ \A d \in Subtree[c] : d \in Modules /\ d \notin log.worked /\ ~WillAsk(d, Tail(todo))
      /\ \A e \in Members(Tail(todo)) : e.op \in {"work", "visit"} =>
           e.on \in Modules /\ e.on \notin Subtree[c]
  BY <1>1, TakenOnce
<1>4. n \in Seq(CallType) /\ Members(n) = {Call("work", c)}
  <2>1. n \in Seq(CallType)
    BY PendingReplaces DEF Replaces
  <2>2. QED BY <2>1 DEF Members
<1> HIDE DEF n
<1>5. Members(n \o Tail(todo)) = {Call("work", c)} \cup Members(Tail(todo))
  <2>1. n \in Seq(CallType) /\ Tail(todo) \in Seq(CallType)
    BY <1>2, <1>4
  <2>2. n \o Tail(todo) \in Seq(CallType)
        /\ Members(n \o Tail(todo)) = Members(n) \cup Members(Tail(todo))
    BY <2>1, CallsPut
  <2>3. QED BY <1>4, <2>2
<1>6. /\ Members(active'[p]) = Members(active[p]) \cup {c} /\ Len(active'[p]) = Len(active[p]) + 1
      /\ \A q \in Modules : q # p => active'[q] = active[q]
  <2>1. active[p] \in Seq(Modules) /\ active'[p] = Append(active[p], c)
        /\ \A q \in Modules : q # p => active'[q] = active[q]
    BY <1>1, <1>2 DEF SystemType
  <2>2. /\ Len(active'[p]) = Len(active[p]) + 1 /\ Len(active[p]) \in Nat
        /\ \A i \in 1..Len(active[p]) : active'[p][i] = active[p][i]
        /\ active'[p][Len(active[p]) + 1] = c
    BY <2>1, AppendProperties
  <2>3. \A i \in 1..Len(active'[p]) : i \in 1..Len(active[p]) \/ i = Len(active[p]) + 1
    BY <2>2
  <2>4. (Len(active[p]) + 1) \in 1..Len(active'[p])
        /\ \A i \in 1..Len(active[p]) : i \in 1..Len(active'[p])
    BY <2>2
  <2>5. QED BY <2>1, <2>2, <2>3, <2>4 DEF Members
<1>7. \A q \in Modules : Members(active[q]) \subseteq Members(active'[q])
  BY <1>6
<1>8. \A x : Linked(x, active) => Linked(x, active')
  BY <1>7, AppendKeepsLinks
<1>9. c \notin Members(active[p])
  <2>1. Head(todo).op = "visit" /\ Head(todo).on = c /\ Head(todo) \in Members(todo)
    BY <1>2 DEF Call
  <2>2. Unlisted(todo, active)
    BY <1>2 DEF XferPlan
  <2>3. QED BY <1>1, <2>1, <2>2 DEF Unlisted
<1>10. ~Inert(Head(todo), active)
  BY <1>1, <1>2 DEF XferPlan, InertAsleep, Call
<1>11. Linked(p, active)
  BY <1>1, <1>2, <1>10 DEF Inert, Call
<1>12. Linked(c, active')
  BY <1>1, <1>6, <1>8, <1>11, AppendLinks
<1>13. NoInert(n \o Tail(todo), active')
  <2>1. NoInert(todo, active)
    BY <1>2, <1>10
  <2>2. \A e \in Members(Tail(todo)) : ~Inert(e, active')
    BY <1>2, <1>8, <2>1 DEF NoInert, Inert
  <2>3. ~Inert(Call("work", c), active')
    BY DEF Inert, Call
  <2>4. QED BY <1>5, <2>2, <2>3 DEF NoInert
<1>14. InertFirst(n \o Tail(todo), active')
  BY <1>13, NoInertFirst
<1>15. InertAsleep(todo, active)'
  BY <1>1, <1>13 DEF NoInert, InertAsleep
<1>16. WorkLinked(n \o Tail(todo), active')
  BY <1>2, <1>5, <1>8, <1>12 DEF XferPlan, WorkLinked, Call
<1>17. Unlisted(n \o Tail(todo), active')
  <2>1. ASSUME NEW e \in Members(Tail(todo)), e.op = "visit", NEW q \in Modules, IsChild(e.on, q)
        PROVE  e.on \notin Members(active'[q])
    <3>1. e.on # c
      BY <1>3, <2>1, SubtreeIsClosed
    <3>2. e.on \notin Members(active[q])
      BY <1>2, <2>1 DEF XferPlan, Unlisted
    <3>3. QED BY <1>6, <3>1, <3>2
  <2>2. QED BY <1>5, <2>1 DEF Unlisted, Call
<1>18. \A d \in log'.worked : Linked(d, active')
  BY <1>1, <1>2, <1>8 DEF XferPlan
<1>19. \A d : /\ WillAsk(d, n \o Tail(todo)) <=> WillAsk(d, todo)
              /\ WillXfer(d, n \o Tail(todo)) <=> WillXfer(d, todo)
  <2>1. \A d : /\ WillAsk(d, n) <=> d \in Subtree[c]
               /\ ~WillXfer(d, n)
    BY <1>4 DEF WillAsk, WillXfer, Call
  <2>2. \A d : /\ WillAsk(d, n \o Tail(todo)) <=> WillAsk(d, n) \/ WillAsk(d, Tail(todo))
               /\ WillXfer(d, n \o Tail(todo)) <=> WillXfer(d, n) \/ WillXfer(d, Tail(todo))
    BY <1>2, <1>4, AsksJoin
  <2>3. \A d : /\ WillAsk(d, todo) <=> d \in Subtree[c] \/ WillAsk(d, Tail(todo))
               /\ WillXfer(d, todo) <=> WillXfer(d, Tail(todo))
    BY <1>2, AsksSplit DEF Call
  <2>4. QED BY <2>1, <2>2, <2>3
<1>20. Marked(n \o Tail(todo), log.worked, ran) /\ Reached(n \o Tail(todo), log.worked, log.xfered)
  BY <1>2, <1>19 DEF XferPlan, Marked, Reached
<1>21. XferPlan'
  BY <1>1, <1>14, <1>15, <1>16, <1>17, <1>18, <1>20 DEF XferPlan
<1>22. ListsType'
  <2>1. /\ IsFiniteSet(Members(active[p])) /\ Cardinality(Members(active[p])) = Len(active[p])
        /\ Members(active[p]) \subseteq Members(Children[p])
    BY <1>2 DEF ListsType
  <2>2. /\ IsFiniteSet(Members(active'[p]))
        /\ Cardinality(Members(active'[p])) = Len(active'[p])
    <3> DEFINE S == Members(active[p])
    <3>1. IsFiniteSet(S) /\ c \notin S
      BY <1>9, <2>1
    <3> HIDE DEF S
    <3>2. IsFiniteSet(S \cup {c}) /\ Cardinality(S \cup {c}) = Cardinality(S) + 1
      BY <3>1, FS_AddElement
    <3>3. QED BY <1>6, <2>1, <3>2 DEF S
  <2>3. Members(active'[p]) \subseteq Members(Children[p])
    BY <1>1, <1>6, <2>1 DEF IsChild
  <2>4. QED BY <1>1, <1>2, <1>6, <2>2, <2>3 DEF ListsType
<1>23. QED BY <1>21, <1>22 DEF XInv

LEMMA TickKeepsLists == \A x \in Queues : IInv /\ EInv /\ XInv /\ QueueTick(x) => XInv'
<1> SUFFICES ASSUME NEW x \in Queues, IInv, EInv, XInv, QueueTick(x) PROVE XInv'
  OBVIOUS
<1>1. /\ Calling("tick", x) /\ "tick" \in StepOps /\ "tick" \in {"self", "capture", "tick"}
      /\ todo' = Tail(todo) /\ active' = active /\ ran' = ran
      /\ force' = force /\ observed' = observed
      /\ queues' = [queues EXCEPT ![x] = QueueWork(queues[x])]
      /\ log' = [log EXCEPT !.ticks = [log.ticks EXCEPT ![x] = @ + 1]]
  BY DEF QueueTick, StepOps
<1>2. /\ XferPlan /\ SystemType /\ Head(todo) = Call("tick", x)
      /\ Members(todo) = {Head(todo)} \cup Members(Tail(todo))
      /\ \A e \in Members(Tail(todo)) : Apart(Head(todo), e) /\ e \in CallType
  BY <1>1, NextXfer
<1>3. log'.worked = log.worked /\ log'.xfered = log.xfered
  BY <1>1, <1>2 DEF SystemType, LogType
<1>4. \A z \in Queues : z # x => queues'[z] = queues[z]
  BY <1>1, <1>2 DEF SystemType, GoodQueues
<1>5. ASSUME NEW c \in Members(Tail(todo)), Inert(c, active)
      PROVE  ~HasPendingWorkRecursive(c.on)'
  <2>1. c.op = "visit" /\ ~HasPendingWorkRecursive(c.on)
    BY <1>2, <1>5 DEF XferPlan, InertAsleep, Inert
  <2>2. Subtree[c.on] \subseteq Modules /\ \A d \in Subtree[c.on] : x \notin Observes(d)
    <3>1. Runs(c) = Subtree[c.on] /\ Runs(c) \subseteq Modules
      BY <1>2, <2>1, RunsTyped DEF Runs
    <3>2. Apart(Call("tick", x), c)
      BY <1>2
    <3>3. QED BY <3>1, <3>2 DEF Apart, Call
  <2>3. ASSUME NEW d \in Subtree[c.on] PROVE HasInputEvent(d)' <=> HasInputEvent(d)
    <3>1. \A z \in Observes(d) : queues'[z] = queues[z]
      BY <1>4, <2>2, OwnersAndUsers
    <3>2. Epochs(d, queues') = Epochs(d, queues)
      BY <3>1 DEF Epochs
    <3>3. QED BY <1>1, <3>2 DEF HasInputEvent, Epochs
  <2>4. QED BY <2>1, <2>3 DEF HasPendingWorkRecursive
<1>6. QED BY <1>1, <1>3, <1>5, DoneKeepsLists

(* While a WorkSelf runs, no visit is left below a module taken over by       *)
(* AdvanceQueuesOnly(): whatever it wakes will be met.                       *)
LEMMA SelfKeepsLists ==
  \A m \in Modules : IInv /\ EInv /\ XInv /\ (SelfStep(m) \/ Capture(m)) => XInv'
<1> SUFFICES ASSUME NEW m \in Modules, IInv, EInv, XInv, SelfStep(m) \/ Capture(m) PROVE XInv'
  OBVIOUS
<1>1. /\ active' = active /\ ran' = ran /\ log' = log
      /\ \/ Calling("self", m) /\ todo' \in {todo, Tail(todo)}
         \/ Calling("capture", m) /\ todo' = Tail(todo)
  BY DEF SelfStep, Forward, Push, Take, SelfDone, Capture
<1>2. PICK op \in {"self", "capture"} : Calling(op, m)
  BY <1>1
<1>3. op \in StepOps /\ op # "tick"
  BY DEF StepOps
<1>4. /\ XferPlan /\ ListsType /\ Head(todo) = Call(op, m)
      /\ Members(todo) = {Head(todo)} \cup Members(Tail(todo))
      /\ ~Inert(Head(todo), active) => NoInert(todo, active)
  BY <1>2, <1>3, NextXfer
<1>5. NoInert(todo, active)
  BY <1>4 DEF Inert, Call
<1>6. CASE todo' = todo
  <2>1. InertAsleep(todo, active)'
    BY <1>1, <1>5, <1>6 DEF NoInert, InertAsleep
  <2>2. XferPlan'
    BY <1>1, <1>4, <1>6, <2>1 DEF XferPlan
  <2>3. QED BY <1>1, <1>4, <2>2 DEF XInv, ListsType
<1>7. CASE todo' = Tail(todo)
  <2>1. \A c \in Members(Tail(todo)) : Inert(c, active) => ~HasPendingWorkRecursive(c.on)'
    BY <1>4, <1>5 DEF NoInert
  <2>2. op \in {"self", "capture", "tick"}
    OBVIOUS
  <2>3. QED BY <1>1, <1>2, <1>7, <2>1, <2>2, DoneKeepsLists
<1>8. QED BY <1>1, <1>6, <1>7

(* Module::Xfer: who ran is on the way, or met next.                         *)
LEMMA XferKeepsLists == \A m \in Modules : IInv /\ EInv /\ XInv /\ Xfer(m) => XInv'
<1> SUFFICES ASSUME NEW m \in Modules, IInv, EInv, XInv, Xfer(m) PROVE XInv'
  OBVIOUS
<1> DEFINE n == Calls("xfer", active[m])
<1>1. /\ Calling("xfer", m) /\ "xfer" \in StepOps /\ todo' = n \o Tail(todo)
      /\ active' = active /\ ran' = ran
  BY DEF Xfer, StepOps
<1>2. /\ XferPlan /\ ListsType /\ SystemType
      /\ todo \in Seq(CallType) /\ todo # << >> /\ Head(todo) = Call("xfer", m)
      /\ Tail(todo) \in Seq(CallType) /\ Members(todo) = {Head(todo)} \cup Members(Tail(todo))
      /\ \A e \in Members(Tail(todo)) : Apart(Head(todo), e)
  BY <1>1, NextXfer
<1>3. log'.worked = log.worked /\ log'.xfered = log.xfered \cup (IF ran[m] THEN {m} ELSE {})
  <2>1. CASE ran[m]
    <3>1. log' = [log EXCEPT !.xfered = @ \cup {m}]
      BY <2>1 DEF Xfer
    <3>2. QED BY <1>2, <2>1, <3>1 DEF SystemType, LogType
  <2>2. CASE ~ran[m]
    BY <2>2 DEF Xfer
  <2>3. QED BY <2>1, <2>2
<1>4. n \in Seq(CallType) /\ Members(n) = { Call("xfer", d) : d \in Members(active[m]) }
  <2>1. CallsFor("xfer", active[m])
    BY <1>2, ModuleCalls DEF SystemType
  <2>2. QED BY <2>1 DEF CallsFor
<1> HIDE DEF n
<1>5. n \o Tail(todo) \in Seq(CallType)
      /\ Members(n \o Tail(todo)) = Members(n) \cup Members(Tail(todo))
  <2>1. n \in Seq(CallType) /\ Tail(todo) \in Seq(CallType)
    BY <1>2, <1>4
  <2>2. QED BY <2>1, CallsPut
<1>6. \A e \in Members(n \o Tail(todo)) : e.op = "xfer"
  <2>1. \A e \in Members(n) : e.op = "xfer"
    BY <1>4 DEF Call
  <2>2. \A e \in Members(Tail(todo)) : e.op = "xfer"
    BY <1>2 DEF Apart, Call
  <2>3. QED BY <1>5, <2>1, <2>2
<1>7. NoInert(n \o Tail(todo), active)
  BY <1>6 DEF NoInert, Inert
<1>8. InertFirst(n \o Tail(todo), active)
  BY <1>7, NoInertFirst
<1>9. InertAsleep(todo, active)'
  BY <1>1, <1>7 DEF NoInert, InertAsleep
<1>10. WorkLinked(n \o Tail(todo), active) /\ Unlisted(n \o Tail(todo), active)
  BY <1>6 DEF WorkLinked, Unlisted
<1>11. \A d : ~WillAsk(d, todo) /\ ~WillAsk(d, n \o Tail(todo))
  <2>1. \A e \in Members(todo) : e.op = "xfer"
    BY <1>2, <1>5, <1>6 DEF Call
  <2>2. QED BY <1>6, <2>1 DEF WillAsk
<1>12. Marked(n \o Tail(todo), log.worked, ran)
  BY <1>2, <1>11 DEF XferPlan, Marked
<1>13. ran[m] <=> m \in log.worked
  BY <1>2, <1>11 DEF XferPlan, Marked
<1>14. Reached(n \o Tail(todo), log'.worked, log'.xfered)
  <2>1. log'.xfered \subseteq log'.worked
    BY <1>2, <1>3, <1>13 DEF XferPlan, Reached
  <2>2. ASSUME NEW d \in Modules, d \in log.worked, d \notin log'.xfered
        PROVE  WillXfer(d, n \o Tail(todo))
    <3>1. WillXfer(d, todo) /\ Linked(d, active) /\ d # m
      BY <1>2, <1>3, <1>13, <2>2 DEF XferPlan, Reached
    <3>2. CASE WillXfer(d, Tail(todo))
      BY <1>2, <1>4, <3>2, AsksJoin
    <3>3. CASE d \in Subtree[m]
      <4>1. PICK e \in Members(Children[m]) : d \in Subtree[e]
        BY <3>1, <3>3, SubtreeSplits
      <4>2. e \in Members(active[m])
        BY <3>1, <4>1 DEF Linked
      <4>3. Call("xfer", e) \in Members(n) /\ Call("xfer", e).op = "xfer" /\ Call("xfer", e).on = e
        BY <1>4, <4>2 DEF Call
      <4>4. QED BY <1>5, <4>1, <4>3 DEF WillXfer
    <3>4. QED BY <1>2, <3>1, <3>2, <3>3, AsksSplit DEF Call
  <2>3. QED BY <1>3, <1>11, <2>1, <2>2 DEF Reached
<1>15. XferPlan'
  BY <1>1, <1>2, <1>3, <1>8, <1>9, <1>10, <1>12, <1>14 DEF XferPlan
<1>16. QED BY <1>1, <1>2, <1>15 DEF XInv, ListsType

(* SimSystem::Step begins: every module is below a root, on both ways.       *)
LEMMA BeginKeepsLists == IInv /\ EInv /\ XInv /\ BeginStep => XInv'
<1> SUFFICES ASSUME IInv, EInv, XInv, BeginStep PROVE XInv'
  OBVIOUS
<1> DEFINE W == Calls("work", Roots)
           X == Calls("xfer", Roots)
<1>1. /\ todo' = W \o X /\ active' = active /\ ran' = ran
      /\ log'.worked = {} /\ log'.xfered = {}
  BY DEF BeginStep, NewLog
<1>2. /\ W \in Seq(CallType) /\ Members(W) = { Call("work", r) : r \in Members(Roots) }
      /\ X \in Seq(CallType) /\ Members(X) = { Call("xfer", r) : r \in Members(Roots) }
  <2>1. CallsFor("work", Roots) /\ CallsFor("xfer", Roots)
    BY ForestAssumption, ModuleCalls
  <2>2. QED BY <2>1 DEF CallsFor
<1> HIDE DEF W, X
<1>3. W \o X \in Seq(CallType) /\ Members(W \o X) = Members(W) \cup Members(X)
  BY <1>2, CallsPut
<1>4. \A e \in Members(W \o X) : e.op \in {"work", "xfer"} /\ e.on \in Members(Roots)
  BY <1>2, <1>3 DEF Call
<1>5. NoInert(W \o X, active)
  BY <1>4 DEF NoInert, Inert
<1>6. InertFirst(W \o X, active)
  BY <1>5, NoInertFirst
<1>7. InertAsleep(todo, active)'
  BY <1>1, <1>5 DEF NoInert, InertAsleep
<1>8. ASSUME NEW r \in Members(Roots) PROVE Linked(r, active)
  <2> SUFFICES ASSUME NEW p \in Modules, NEW d \in Members(Children[p]), r \in Subtree[d]
               PROVE  FALSE
    BY DEF Linked
  <2>1. d \in Modules /\ d # r
    BY ChildrenAreModules, ForestAssumption
  <2>2. PICK q \in Subtree[d] : IsChild(r, q)
    BY <2>1, ParentsInside
  <2>3. q \in Modules
    BY <2>1, SubtreeIsClosed
  <2>4. QED BY <2>2, <2>3, ForestAssumption DEF IsChild
<1>9. WorkLinked(W \o X, active) /\ Unlisted(W \o X, active)
  BY <1>4, <1>8 DEF WorkLinked, Unlisted
<1>10. ASSUME NEW m \in Modules PROVE WillAsk(m, W \o X) /\ WillXfer(m, W \o X)
  <2>1. PICK r \in Members(Roots) : m \in Subtree[r]
    BY ForestAssumption
  <2>2. Call("work", r) \in Members(W \o X) /\ Call("work", r).op = "work" /\ Call("work", r).on = r
    BY <1>2, <1>3 DEF Call
  <2>3. Call("xfer", r) \in Members(W \o X) /\ Call("xfer", r).op = "xfer" /\ Call("xfer", r).on = r
    BY <1>2, <1>3 DEF Call
  <2>4. QED BY <2>1, <2>2, <2>3 DEF WillAsk, WillXfer
<1>11. Marked(W \o X, {}, ran) /\ Reached(W \o X, {}, {})
  BY <1>10 DEF Marked, Reached
<1>12. XferPlan'
  BY <1>1, <1>6, <1>7, <1>9, <1>11 DEF XferPlan
<1>13. QED BY <1>1, <1>12 DEF XInv, ListsType

(* When a Step is over, who ran has been met.                                *)
LEMMA AllMet ==
  ASSUME IInv, EInv, XInv, Between \/ Resetting
  PROVE  log.xfered = log.worked
<1>1. CASE XferPlan
  <2>1. \A c \in Members(todo) : c.op # "xfer"
    <3>1. Between => Members(todo) = {}
      BY DEF Between, Members
    <3>2. Resetting => \A c \in Members(todo) : c.op \in ResetOps
      BY NextEvent DEF ResetPlan, AllIn
    <3>3. QED BY <3>1, <3>2 DEF ResetOps
  <2>2. \A m \in Modules : ~WillXfer(m, todo)
    BY <2>1 DEF WillXfer
  <2>3. log.worked \subseteq Modules
    BY DEF IInv, SystemType, LogType
  <2>4. QED BY <1>1, <2>2, <2>3 DEF XferPlan, Reached
<1>2. QED BY <1>1 DEF XInv

LEMMA ResetKeepsLists == IInv /\ EInv /\ XInv /\ (ResetPhase \/ BeginReset) => XInv'
<1> SUFFICES ASSUME IInv, EInv, XInv, ResetPhase \/ BeginReset PROVE XInv'
  OBVIOUS
<1>1. ResetPlan'
  BY ResetSteps
<1>2. Between' \/ Resetting'
  <2> SUFFICES ASSUME todo' # << >> PROVE Head(todo').op \in ResetOps
    BY DEF Between, Resetting, ResetOps
  <2>1. todo' \in Seq(CallType) /\ \A c \in Members(todo') : c.op \in ResetOps
    BY <1>1 DEF ResetPlan, AllIn
  <2>2. Head(todo') \in Members(todo')
    BY <2>1, TailOfCalls
  <2>3. QED BY <2>1, <2>2
<1>3. log'.xfered = log'.worked
  <2>1. CASE BeginReset
    BY <2>1 DEF BeginReset, NewLog
  <2>2. CASE ResetPhase
    <3>1. PICK op \in ResetOps : (\E x : Calling(op, x)) /\ log' = log
      BY <2>2 DEF ResetPhase, ResetModule, ClearQueue, ResetEventState, ResetOps
    <3>2. Resetting
      BY <3>1, NextEvent
    <3>3. QED BY <3>1, <3>2, AllMet
  <2>3. QED BY <2>1, <2>2
<1>4. ListsType'
  <2>1. CASE ran' = ran /\ active' = active
    BY <2>1 DEF XInv, ListsType
  <2>2. ASSUME NEW m \in Modules, ResetEventState(m) PROVE ListsType'
    <3>1. /\ ran' = [d \in Modules |-> IF d \in Subtree[m] THEN FALSE ELSE ran[d]]
          /\ active' = [d \in Modules |-> IF d \in Subtree[m] THEN << >> ELSE active[d]]
      BY <2>2 DEF ResetEventState
    <3>2. Members(<< >>) = {} /\ Len(<< >>) = 0
      BY DEF Members
    <3>3. IsFiniteSet({}) /\ Cardinality({}) = 0
      BY FS_EmptySet
    <3>4. ran' \in [Modules -> BOOLEAN]
      BY <3>1 DEF XInv, ListsType
    <3>5. \A d \in Modules : active'[d] = << >> \/ active'[d] = active[d]
      BY <3>1
    <3>6. QED BY <3>2, <3>3, <3>4, <3>5 DEF XInv, ListsType
  <2>3. QED BY <2>1, <2>2 DEF ResetPhase, BeginReset, ResetModule, ClearQueue
<1>5. QED BY <1>2, <1>3, <1>4 DEF XInv

LEMMA NextPreservesXInv == IInv /\ EInv /\ XInv /\ [Next]_vars => XInv'
<1> SUFFICES ASSUME IInv, EInv, XInv, [Next]_vars PROVE XInv'
  OBVIOUS
<1>1. CASE WorkPhase
  <2>1. \/ \E m \in Modules : WorkAwake(m) \/ WorkAsleep(m)
        \/ \E m \in Modules : SelfStep(m) \/ Capture(m)
        \/ \E m \in Modules : AdvanceQueuesOnly(m)
        \/ \E p, c \in Modules : VisitPending(p, c)
        \/ \E x \in Queues : QueueTick(x)
    BY <1>1 DEF WorkPhase, SelfStep
  <2>2. QED BY <2>1, WorkKeepsLists, SelfKeepsLists, AdvanceKeepsLists, PendingKeepsLists,
               TickKeepsLists
<1>2. CASE XferPhase
  BY <1>2, XferKeepsLists DEF XferPhase
<1>3. CASE ResetPhase \/ BeginReset
  BY <1>3, ResetKeepsLists
<1>4. CASE BeginStep
  BY <1>4, BeginKeepsLists
<1>5. CASE Outside
  <2>1. Between /\ todo' = todo /\ ran' = ran /\ active' = active /\ log' = log
    BY <1>5 DEF Outside, Receive, Send, RequestActivation
  <2>2. Between' /\ log.xfered = log.worked
    BY <2>1, AllMet DEF Between
  <2>3. QED BY <2>1, <2>2 DEF XInv, ListsType
<1>6. CASE UNCHANGED vars
  <2>1. /\ queues' = queues /\ force' = force /\ observed' = observed /\ todo' = todo
        /\ log' = log /\ ran' = ran /\ active' = active
    BY <1>6 DEF vars
  <2>2. \A m : HasPendingWorkRecursive(m)' <=> HasPendingWorkRecursive(m)
    BY <2>1 DEF HasPendingWorkRecursive, HasInputEvent, Epochs
  <2>3. XferPlan => InertAsleep(todo, active)'
    BY <2>1, <2>2 DEF XferPlan, InertAsleep
  <2>4. XferPlan => XferPlan'
    BY <2>1, <2>3 DEF XferPlan
  <2>5. (Between \/ Resetting)' <=> (Between \/ Resetting)
    BY <2>1 DEF Between, Resetting
  <2>6. QED BY <2>1, <2>4, <2>5 DEF XInv, ListsType
<1>7. QED BY <1>1, <1>2, <1>3, <1>4, <1>5, <1>6 DEF Next, Step, Outside

LEMMA InitEstablishesXInv == Init => XInv
<1> SUFFICES ASSUME Init PROVE XInv
  OBVIOUS
<1>1. /\ ran = [m \in Modules |-> FALSE] /\ active = [m \in Modules |-> << >>]
      /\ Between /\ log.xfered = {} /\ log.worked = {}
  BY DEF Init, Between, NewLog
<1>2. Members(<< >>) = {} /\ Len(<< >>) = 0
  BY DEF Members
<1>3. IsFiniteSet({}) /\ Cardinality({}) = 0
  BY FS_EmptySet
<1>4. ListsType
  BY <1>1, <1>2, <1>3 DEF ListsType
<1>5. QED BY <1>1, <1>4 DEF XInv

(* Module::Work, AdvanceQueuesOnly, Xfer: XferSelf runs for exactly those      *)
(* whose WorkSelf ran, through lists that name each submodule once.          *)
THEOREM ListsLeadToWork == Spec => []XferFollowsWork
<1>1. Spec => []XInv
  BY InitEstablishesXInv, NextPreservesXInv, ScheduleIsPlanned, EventsAreKept, PTL DEF Spec
<1>2. ASSUME IInv, EInv, XInv PROVE XferFollowsWork
  <2>1. log.xfered \subseteq log.worked
    BY <1>2 DEF XInv, XferPlan, Reached
  <2>2. Between => log.xfered = log.worked
    BY <1>2, AllMet
  <2>3. QED BY <1>2, <2>1, <2>2 DEF XInv, ListsType, XferFollowsWork
<1>3. QED BY <1>1, <1>2, ScheduleIsPlanned, EventsAreKept, PTL
=============================================================================

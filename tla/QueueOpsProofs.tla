--------------------------- MODULE QueueOpsProofs ---------------------------
(***************************************************************************)
(* What TLAPS proves of the operators of QueueOps, for every queue and every *)
(* type of payload.                                                         *)
(***************************************************************************)
EXTENDS QueueOps, SequenceTheorems, NaturalsInduction, WellFoundedInduction, TLAPS

(* A nonempty set of naturals has a least element; used to find the first    *)
(* entry of delayQ that is not ready.                                        *)
LEMMA NatHasMinimum ==
  ASSUME NEW T \in SUBSET Nat, T # {}
  PROVE  \E m \in T : \A n \in T : m <= n
<1> DEFINE R == OpToRel(<, Nat)
<1>1. \E m \in T : \A n \in T : ~ (<<n, m>> \in R)
  BY NatLessThanWellFounded, WFMin
<1>2. \A m, n \in Nat : ~ (<<n, m>> \in R) => m <= n
  BY DEF OpToRel
<1>3. QED BY <1>1, <1>2

(* Work() ages every delay and never makes one longer.                       *)
LEMMA AgedType ==
  ASSUME NEW d \in Seq(Nat)
  PROVE  /\ Aged(d) \in Seq(Nat)
         /\ Len(Aged(d)) = Len(d)
         /\ \A i \in 1..Len(d) : Aged(d)[i] = IF d[i] > 0 THEN d[i] - 1 ELSE 0
  BY DEF Aged

(* The promotion loop of Work() stops at the first entry that is not ready.  *)
LEMMA ReadyCountIsPrefix ==
  ASSUME NEW d \in Seq(Nat)
  PROVE  /\ ReadyCount(d) \in 0..Len(d)
         /\ \A i \in 1..ReadyCount(d) : d[i] = 0
         /\ ReadyCount(d) < Len(d) => d[ReadyCount(d) + 1] # 0
<1> DEFINE P(n) == /\ \A i \in 1..n : d[i] = 0
                   /\ n < Len(d) => d[n + 1] # 0
           Blocked == { i \in 1..Len(d) : d[i] # 0 }
<1>1. \E n \in 0..Len(d) : P(n)
  <2>1. CASE Blocked = {}
    BY <2>1
  <2>2. CASE Blocked # {}
    <3>1. PICK m \in Blocked : \A k \in Blocked : m <= k
      <4>1. Blocked \in SUBSET Nat
        OBVIOUS
      <4>2. QED BY <2>2, <4>1, NatHasMinimum
    <3>2. m - 1 \in 0..Len(d) /\ P(m - 1)
      BY <3>1
    <3>3. QED BY <3>2
  <2>3. QED BY <2>1, <2>2
<1>2. QED BY <1>1 DEF ReadyCount

(* b cut in two: front is what it starts with, back is the rest of it.       *)
CutInTwo(front, back, b) ==
  /\ Len(front) + Len(back) = Len(b)
  /\ \A i \in 1..Len(front) : front[i] = b[i]
  /\ \A i \in 1..Len(back) : back[i] = b[Len(front) + i]

(* Cutting a sequence in two and joining the parts behind another one.       *)
LEMMA SplitConcat ==
  ASSUME NEW P, NEW a \in Seq(P), NEW b \in Seq(P), NEW front \in Seq(P), NEW back \in Seq(P),
         CutInTwo(front, back, b)
  PROVE  (a \o front) \o back = a \o b
<1>1. front \o back = b
  <2>1. /\ front \o back \in Seq(P)
        /\ Len(front \o back) = Len(b)
    BY DEF CutInTwo
  <2>2. \A i \in 1..Len(b) : (front \o back)[i] = b[i]
    <3> SUFFICES ASSUME NEW i \in 1..Len(b) PROVE (front \o back)[i] = b[i]
      OBVIOUS
    <3>1. CASE i <= Len(front)
      BY <3>1 DEF CutInTwo
    <3>2. CASE ~(i <= Len(front))
      <4>1. i - Len(front) \in 1..Len(back) /\ i = Len(front) + (i - Len(front))
        BY <3>2 DEF CutInTwo
      <4>2. PICK j \in 1..Len(back) : i = Len(front) + j
        BY Zenon, <4>1
      <4>3. (front \o back)[Len(front) + j] = back[j]
        OBVIOUS
      <4>4. back[j] = b[Len(front) + j]
        BY Zenon DEF CutInTwo
      <4>5. (front \o back)[Len(front) + j] = b[Len(front) + j]
        BY Zenon, <4>3, <4>4
      <4>6. QED BY Zenon, <4>2, <4>5
    <3>3. QED BY Zenon, <3>1, <3>2
  <2>3. QED BY <2>1, <2>2, SeqEqual
<1>2. (a \o front) \o back = a \o (front \o back)
  BY SMTT(30), ConcatAssociative
<1>3. QED BY <1>1, <1>2

(* What Work() does to the two deques: the first n entries of b go behind a. *)
MovesPrefix(P, a, b, n) ==
  /\ a \o SubSeq(b, 1, n) \in Seq(P)
  /\ Len(a \o SubSeq(b, 1, n)) = Len(a) + n
  /\ SubSeq(b, n + 1, Len(b)) \in Seq(P)
  /\ Len(SubSeq(b, n + 1, Len(b))) = Len(b) - n
  /\ \A i \in 1..Len(a) : (a \o SubSeq(b, 1, n))[i] = a[i]
  /\ \A i \in 1..n : (a \o SubSeq(b, 1, n))[Len(a) + i] = b[i]
  /\ \A i \in 1..(Len(b) - n) : SubSeq(b, n + 1, Len(b))[i] = b[n + i]
  /\ (a \o SubSeq(b, 1, n)) \o SubSeq(b, n + 1, Len(b)) = a \o b

(* Moving a prefix of b behind a, as the promotion loop does.                *)
LEMMA MovePrefix ==
  ASSUME NEW P, NEW a \in Seq(P), NEW b \in Seq(P), NEW n \in 0..Len(b)
  PROVE  MovesPrefix(P, a, b, n)
<1> DEFINE front == SubSeq(b, 1, n)
           back  == SubSeq(b, n + 1, Len(b))
<1>1. /\ front \in Seq(P) /\ Len(front) = n
      /\ \A i \in 1..n : front[i] = b[i]
  OBVIOUS
<1>2. /\ back \in Seq(P) /\ Len(back) = Len(b) - n
      /\ \A i \in 1..(Len(b) - n) : back[i] = b[n + i]
  OBVIOUS
<1> HIDE DEF front, back
<1>3. (a \o front) \o back = a \o b
  <2>1. CutInTwo(front, back, b)
    BY <1>1, <1>2 DEF CutInTwo
  <2>2. front \in Seq(P) /\ back \in Seq(P)
    BY <1>1, <1>2
  <2> HIDE DEF front, back
  <2>3. ASSUME NEW x \in Seq(P), NEW y \in Seq(P), CutInTwo(x, y, b)
        PROVE  (a \o x) \o y = a \o b
    BY SMTT(30), <2>3, SplitConcat
  <2>4. QED BY Zenon, <2>1, <2>2, <2>3
<1>4. a \o front \in Seq(P) /\ Len(a \o front) = Len(a) + n
  <2>1. /\ a \o front \in Seq(P)
        /\ Len(a \o front) = Len(a) + Len(front)
    BY Zenon, <1>1, ConcatProperties
  <2>2. QED BY <1>1, <2>1
<1>8. \A i \in 1..(Len(a) + Len(front)) :
        (a \o front)[i] = IF i <= Len(a) THEN a[i] ELSE front[i - Len(a)]
  BY Zenon, <1>1, ConcatProperties
<1>9. Len(a) \in Nat /\ Len(front) = n /\ n \in Nat
  BY <1>1
<1> DEFINE la == Len(a)   lf == Len(front)   joined == a \o front
<1>10. /\ \A i \in 1..(la + lf) : joined[i] = IF i <= la THEN a[i] ELSE front[i - la]
       /\ la \in Nat /\ lf = n /\ n \in Nat
  BY <1>8, <1>9
<1>11. \A i \in 1..n : front[i] = b[i]
  BY <1>1
<1> HIDE DEF la, lf, joined
<1>5. \A i \in 1..Len(a) : (a \o front)[i] = a[i]
  <2>1. \A i \in 1..la : joined[i] = a[i]
    BY <1>10
  <2>2. QED BY <2>1 DEF la, joined
<1>6. \A i \in 1..n : (a \o front)[Len(a) + i] = b[i]
  <2>1. ASSUME NEW i \in 1..n PROVE joined[la + i] = b[i]
    <3>1. la + i \in 1..(la + lf) /\ ~(la + i <= la) /\ (la + i) - la = i
      BY <1>10
    <3>2. joined[la + i] = front[i]
      BY <1>10, <3>1
    <3>3. QED BY <1>11, <3>2
  <2>2. QED BY <2>1 DEF la, joined
<1>7. QED BY <1>1, <1>2, <1>3, <1>4, <1>5, <1>6 DEF front, back, MovesPrefix

(* What promoting n entries does to a queue whose delays have been aged to d. *)
PromoteEffect(P, r, d, n, s) ==
  /\ s \in QueueType(P)
  /\ Len(s.delayQ) = Len(s.writeQ)
  /\ Len(s.readQ) = Len(r.readQ) + n
  /\ Len(s.writeQ) = Len(r.writeQ) - n
  /\ s.readQ \o s.writeQ = r.readQ \o r.writeQ
  /\ \A i \in 1..Len(r.readQ) : s.readQ[i] = r.readQ[i]
  /\ \A i \in 1..n : s.readQ[Len(r.readQ) + i] = r.writeQ[i]
  /\ \A i \in 1..(Len(r.writeQ) - n) : s.writeQ[i] = r.writeQ[n + i]
  /\ \A i \in 1..(Len(d) - n) : s.delayQ[i] = d[n + i]
  /\ s.visibleEpoch = IF n > 0 THEN r.visibleEpoch + 1 ELSE r.visibleEpoch
  /\ s.maxQSize = r.maxQSize /\ s.latency = r.latency /\ s.stalled = r.stalled

(* Promotion moves a prefix of the write side behind the read side: what the *)
(* queue holds, and its order, are those before.                             *)
LEMMA PromoteHasEffect ==
  ASSUME NEW P, NEW r \in QueueType(P), NEW d \in Seq(Nat),
         Len(d) = Len(r.writeQ), NEW n \in 0..Len(d),
         NEW s, s = Promote(r, d, n)
  PROVE  PromoteEffect(P, r, d, n, s)
<1> DEFINE moved == r.readQ \o SubSeq(r.writeQ, 1, n)
           back  == SubSeq(r.writeQ, n + 1, Len(r.writeQ))
           dback == SubSeq(d, n + 1, Len(d))
           epoch == IF n > 0 THEN r.visibleEpoch + 1 ELSE r.visibleEpoch
<1>1. /\ r.writeQ \in Seq(P) /\ r.readQ \in Seq(P) /\ r.visibleEpoch \in Nat
      /\ n \in 0..Len(r.writeQ)
  BY DEF QueueType
<1>2. /\ moved \in Seq(P)
      /\ Len(moved) = Len(r.readQ) + n
      /\ back \in Seq(P) /\ Len(back) = Len(r.writeQ) - n
      /\ \A i \in 1..Len(r.readQ) : moved[i] = r.readQ[i]
      /\ \A i \in 1..n : moved[Len(r.readQ) + i] = r.writeQ[i]
      /\ \A i \in 1..(Len(r.writeQ) - n) : back[i] = r.writeQ[n + i]
      /\ moved \o back = r.readQ \o r.writeQ
  <2>1. MovesPrefix(P, r.readQ, r.writeQ, n)
    BY <1>1, MovePrefix
  <2>2. QED BY <2>1 DEF MovesPrefix
<1>3. /\ dback \in Seq(Nat) /\ Len(dback) = Len(d) - n
      /\ \A i \in 1..(Len(d) - n) : dback[i] = d[n + i]
  BY SMTT(30)
<1>4. s = [r EXCEPT !.readQ = moved, !.writeQ = back, !.delayQ = dback,
                    !.visibleEpoch = epoch]
  BY DEF Promote
<1>5. epoch \in Nat
  BY <1>1
<1> HIDE DEF moved, back, dback, epoch
<1>6. /\ s.readQ = moved /\ s.writeQ = back /\ s.delayQ = dback
      /\ s.visibleEpoch = epoch
      /\ s.maxQSize = r.maxQSize /\ s.latency = r.latency /\ s.stalled = r.stalled
      /\ s \in QueueType(P)
  BY ZenonT(60), <1>2, <1>3, <1>4, <1>5 DEF QueueType
<1>7. QED BY <1>2, <1>3, <1>6 DEF epoch, PromoteEffect

(* Work() of a queue that is not stalled, as the invariants see it.          *)
WorkEffect(P, r, s, n) ==
  /\ n \in 0..Len(r.writeQ)
  /\ s \in QueueType(P)
  /\ Len(s.delayQ) = Len(s.writeQ)
  /\ Len(s.readQ) = Len(r.readQ) + n
  /\ Len(s.writeQ) = Len(r.writeQ) - n
  /\ s.readQ \o s.writeQ = r.readQ \o r.writeQ
  /\ \A i \in 1..Len(r.readQ) : s.readQ[i] = r.readQ[i]
  /\ \A i \in 1..n : s.readQ[Len(r.readQ) + i] = r.writeQ[i]
  /\ \A i \in 1..n : r.delayQ[i] <= 1
  /\ n < Len(r.writeQ) => r.delayQ[n + 1] >= 2
  /\ \A i \in 1..(Len(r.writeQ) - n) :
       /\ s.writeQ[i] = r.writeQ[n + i]
       /\ s.delayQ[i] = IF r.delayQ[n + i] > 0 THEN r.delayQ[n + i] - 1 ELSE 0
  /\ s.visibleEpoch = IF n > 0 THEN r.visibleEpoch + 1 ELSE r.visibleEpoch
  /\ s.maxQSize = r.maxQSize /\ s.latency = r.latency /\ s.stalled = r.stalled

(* Work() has that effect: it promotes exactly the entries that become ready *)
(* before the first that does not.                                           *)
LEMMA WorkHasEffect ==
  ASSUME NEW P, NEW r \in QueueType(P), Len(r.delayQ) = Len(r.writeQ), ~r.stalled
  PROVE  \E n \in 0..Len(r.writeQ) : WorkEffect(P, r, QueueWork(r), n)
<1> DEFINE d == Aged(r.delayQ)
           n == ReadyCount(d)
           s == QueueWork(r)
<1>1. r.delayQ \in Seq(Nat)
  BY DEF QueueType
<1>2. /\ d \in Seq(Nat) /\ Len(d) = Len(r.writeQ)
      /\ \A i \in 1..Len(d) : d[i] = IF r.delayQ[i] > 0 THEN r.delayQ[i] - 1 ELSE 0
  BY <1>1, AgedType
<1>3. s = Promote(r, d, n)
  BY DEF QueueWork
<1> HIDE DEF d, s
<1>4. /\ n \in 0..Len(d)
      /\ \A i \in 1..n : d[i] = 0
      /\ n < Len(d) => d[n + 1] # 0
  BY <1>2, ReadyCountIsPrefix
<1> HIDE DEF n
<1>5. \A i \in 1..Len(r.writeQ) : r.delayQ[i] \in Nat
  BY <1>1
<1>6. /\ \A i \in 1..n : r.delayQ[i] <= 1
      /\ n < Len(r.writeQ) => r.delayQ[n + 1] >= 2
  <2>1. ASSUME NEW i \in 1..n PROVE r.delayQ[i] <= 1
    <3>1. i \in 1..Len(d) /\ i \in 1..Len(r.writeQ)
      BY <1>2, <1>4
    <3>2. QED BY SMTT(30), <3>1, <1>2, <1>4, <1>5
  <2>2. ASSUME n < Len(r.writeQ) PROVE r.delayQ[n + 1] >= 2
    <3>1. n + 1 \in 1..Len(d) /\ n + 1 \in 1..Len(r.writeQ) /\ d[n + 1] # 0
      BY <1>2, <1>4, <2>2
    <3>2. QED BY <3>1, <1>2, <1>5
  <2>3. QED BY <2>1, <2>2
<1>7. PromoteEffect(P, r, d, n, s)
  BY <1>2, <1>3, <1>4, PromoteHasEffect
<1>8. WorkEffect(P, r, s, n)
  <2>1. n \in 0..Len(r.writeQ)
    BY <1>2, <1>4
  <2>2. ASSUME NEW i \in 1..(Len(r.writeQ) - n)
        PROVE  s.delayQ[i] = IF r.delayQ[n + i] > 0 THEN r.delayQ[n + i] - 1 ELSE 0
    <3>1. n + i \in 1..Len(d) /\ i \in 1..(Len(d) - n)
      BY SMTT(30), <1>2, <2>1
    <3>2. s.delayQ[i] = d[n + i]
      BY <1>7, <3>1 DEF PromoteEffect
    <3>3. QED BY <1>2, <3>1, <3>2
  <2>3. QED BY <1>6, <1>7, <2>1, <2>2 DEF PromoteEffect, WorkEffect
<1>9. QED BY <1>2, <1>4, <1>8 DEF s

-----------------------------------------------------------------------------
(***************************************************************************)
(* FlushIf: facts about survivor maps.                                      *)
(***************************************************************************)

(* A survivor map, as the invariants see it.                                 *)
IsSurvivorMap(s, Match, w) ==
  /\ w \in Seq(1..Len(s))
  /\ Len(w) <= Len(s)
  /\ \A i \in 1..Len(w) : w[i] \in 1..Len(s)
  /\ \A i, j \in 1..Len(w) : i < j => w[i] < w[j]
  /\ \A k \in 1..Len(s) : s[k] \notin Match <=> \E i \in 1..Len(w) : w[i] = k

(* Every element of SurvivorMaps is one.                                     *)
LEMMA SurvivorMapType ==
  ASSUME NEW S, NEW s \in Seq(S), NEW Match, NEW w \in SurvivorMaps(s, Match)
  PROVE  IsSurvivorMap(s, Match, w)
<1>1. DOMAIN s = 1..Len(s)
  OBVIOUS
<1>2. PICK n \in 0..Len(s) : w \in [1..n -> 1..Len(s)]
  BY <1>1 DEF SurvivorMaps
<1>3. w \in Seq(1..Len(s)) /\ Len(w) = n /\ DOMAIN w = 1..n
  BY <1>2
<1>4. /\ \A i, j \in 1..n : i < j => w[i] < w[j]
      /\ { w[i] : i \in 1..n } = { k \in 1..Len(s) : s[k] \notin Match }
  BY <1>1, <1>3 DEF SurvivorMaps
<1>5. \A i \in 1..n : w[i] \in 1..Len(s)
  BY <1>2
<1>6. \A k \in 1..Len(s) : s[k] \notin Match <=> \E i \in 1..n : w[i] = k
  BY <1>4
<1>7. QED BY <1>2, <1>3, <1>4, <1>5, <1>6 DEF IsSurvivorMap

(* Reading a sequence through a map into its positions.                      *)
LEMMA PickType ==
  ASSUME NEW S, NEW s \in Seq(S), NEW w \in Seq(1..Len(s))
  PROVE  /\ Pick(s, w) \in Seq(S)
         /\ Len(Pick(s, w)) = Len(w)
         /\ \A i \in 1..Len(w) : Pick(s, w)[i] = s[w[i]]
<1>1. \A i \in 1..Len(w) : w[i] \in 1..Len(s)
  OBVIOUS
<1>2. \A i \in 1..Len(w) : s[w[i]] \in S
  BY <1>1
<1>3. QED BY <1>2 DEF Pick

(* If nothing matches, FlushIf leaves the side as it is: a strictly          *)
(* increasing map onto every position is the identity.                       *)
LEMMA NothingMatches ==
  ASSUME NEW S, NEW s \in Seq(S), NEW Match, NEW w, IsSurvivorMap(s, Match, w),
         \A k \in 1..Len(s) : s[k] \notin Match
  PROVE  Pick(s, w) = s
<1>1. /\ w \in Seq(1..Len(s)) /\ Len(w) \in Nat /\ Len(s) \in Nat
      /\ Len(w) <= Len(s)
      /\ \A i \in 1..Len(w) : w[i] \in 1..Len(s)
      /\ \A i, j \in 1..Len(w) : i < j => w[i] < w[j]
      /\ \A k \in 1..Len(s) : \E i \in 1..Len(w) : w[i] = k
  BY DEF IsSurvivorMap
<1>2. \A i \in 1..Len(w) : w[i] >= i
  <2> DEFINE T == { i \in 1..Len(w) : w[i] < i }
  <2>1. ASSUME T # {} PROVE FALSE
    <3>1. T \in SUBSET Nat
      OBVIOUS
    <3>2. PICK m \in T : \A n \in T : m <= n
      BY <2>1, <3>1, NatHasMinimum
    <3>3. m - 1 \in 1..Len(w)
      BY <1>1, <3>2
    <3>4. m - 1 \notin T
      BY <3>2, <3>3
    <3>5. w[m - 1] >= m - 1 /\ w[m - 1] < w[m]
      BY SMTT(30), <1>1, <3>2, <3>3, <3>4
    <3>6. QED BY SMTT(30), <1>1, <3>2, <3>3, <3>5
  <2>2. QED BY SMTT(30), <1>1, <2>1
<1>3. \A i \in 1..Len(w) : w[i] <= i
  <2> DEFINE T == { i \in 1..Len(w) : w[i] > i }
  <2>1. ASSUME T # {} PROVE FALSE
    <3>1. T \in SUBSET Nat
      OBVIOUS
    <3>2. PICK m \in T : \A n \in T : m <= n
      BY <2>1, <3>1, NatHasMinimum
    <3>3. PICK k \in 1..Len(w) : w[k] = m
      BY SMTT(30), <1>1, <3>2
    <3>4. CASE k < m
      <4>1. k \notin T
        BY <3>2, <3>4
      <4>2. k \in T
        BY <1>2, <3>2, <3>3, <3>4
      <4>3. QED BY <4>1, <4>2
    <3>5. CASE k >= m
      BY SMTT(30), <1>1, <3>2, <3>3, <3>5
    <3>6. QED BY <3>2, <3>3, <3>4, <3>5
  <2>2. QED BY SMTT(30), <1>1, <2>1
<1>4. \A i \in 1..Len(w) : w[i] = i
  BY <1>1, <1>2, <1>3
<1>5. Len(w) = Len(s)
  <2>1. CASE Len(s) = 0
    BY <1>1, <2>1
  <2>2. CASE Len(s) > 0
    <3>1. PICK i \in 1..Len(w) : w[i] = Len(s)
      BY <1>1, <2>2
    <3>2. QED BY <1>1, <1>4, <3>1
  <2>3. QED BY <1>1, <2>1, <2>2
<1>6. /\ Pick(s, w) \in Seq(S) /\ Len(Pick(s, w)) = Len(s)
      /\ \A i \in 1..Len(s) : Pick(s, w)[i] = s[i]
  <2>1. /\ Pick(s, w) \in Seq(S) /\ Len(Pick(s, w)) = Len(w)
        /\ \A i \in 1..Len(w) : Pick(s, w)[i] = s[w[i]]
    BY <1>1, PickType
  <2>2. QED BY <1>4, <1>5, <2>1
<1>7. QED BY <1>6, SeqEqual

(* FlushIf as the invariants see it: both deques and the delays keep their   *)
(* survivors in order, and the epoch moves when the read side loses an entry. *)
FlushEffect(P, Match, r, s, ww, rw) ==
  /\ IsSurvivorMap(r.writeQ, Match, ww)
  /\ IsSurvivorMap(r.readQ, Match, rw)
  /\ s \in QueueType(P)
  /\ Len(s.writeQ) = Len(ww) /\ Len(s.delayQ) = Len(ww) /\ Len(s.readQ) = Len(rw)
  /\ \A i \in 1..Len(ww) : s.writeQ[i] = r.writeQ[ww[i]] /\ s.delayQ[i] = r.delayQ[ww[i]]
  /\ \A i \in 1..Len(rw) : s.readQ[i] = r.readQ[rw[i]]
  /\ \/ s.visibleEpoch = r.visibleEpoch + 1
     \/ s.visibleEpoch = r.visibleEpoch /\ s.readQ = r.readQ
  /\ s.maxQSize = r.maxQSize /\ s.latency = r.latency /\ s.stalled = r.stalled

(* FlushIf has that effect.                                                  *)
LEMMA FlushHasEffect ==
  ASSUME NEW P, NEW r \in QueueType(P), Len(r.delayQ) = Len(r.writeQ), NEW Match,
         NEW ww \in SurvivorMaps(r.writeQ, Match),
         NEW rw \in SurvivorMaps(r.readQ, Match),
         NEW s, s = QueueFlush(r, Match, ww, rw)
  PROVE  FlushEffect(P, Match, r, s, ww, rw)
<1> DEFINE hit == \E k \in 1..Len(r.readQ) : r.readQ[k] \in Match
           epoch == IF hit THEN r.visibleEpoch + 1 ELSE r.visibleEpoch
           wq == Pick(r.writeQ, ww)
           dq == Pick(r.delayQ, ww)
           rq == Pick(r.readQ, rw)
<1>1. /\ r.writeQ \in Seq(P) /\ r.delayQ \in Seq(Nat) /\ r.readQ \in Seq(P)
      /\ r.visibleEpoch \in Nat /\ DOMAIN r.readQ = 1..Len(r.readQ)
  BY DEF QueueType
<1>2. IsSurvivorMap(r.writeQ, Match, ww) /\ IsSurvivorMap(r.readQ, Match, rw)
  BY <1>1, SurvivorMapType
<1>3. ww \in Seq(1..Len(r.writeQ)) /\ rw \in Seq(1..Len(r.readQ))
  BY <1>2 DEF IsSurvivorMap
<1>4. /\ wq \in Seq(P) /\ Len(wq) = Len(ww)
      /\ \A i \in 1..Len(ww) : wq[i] = r.writeQ[ww[i]]
  BY ZenonT(60), <1>1, <1>3, PickType
<1>5. /\ dq \in Seq(Nat) /\ Len(dq) = Len(ww)
      /\ \A i \in 1..Len(ww) : dq[i] = r.delayQ[ww[i]]
  <2>1. ww \in Seq(1..Len(r.delayQ))
    BY <1>3
  <2>2. QED BY SMTT(30), <1>1, <2>1, PickType
<1>6. /\ rq \in Seq(P) /\ Len(rq) = Len(rw)
      /\ \A i \in 1..Len(rw) : rq[i] = r.readQ[rw[i]]
  BY <1>1, <1>3, PickType
<1>7. ~hit => rq = r.readQ
  BY <1>1, <1>2, NothingMatches
<1>8. s = [r EXCEPT !.writeQ = wq, !.delayQ = dq, !.readQ = rq, !.visibleEpoch = epoch]
  BY <1>1 DEF QueueFlush
<1>9. epoch \in Nat /\ (hit => epoch = r.visibleEpoch + 1)
      /\ (~hit => epoch = r.visibleEpoch)
  BY <1>1
<1> HIDE DEF wq, dq, rq, epoch, hit
<1>10. /\ s.writeQ = wq /\ s.delayQ = dq /\ s.readQ = rq /\ s.visibleEpoch = epoch
       /\ s.maxQSize = r.maxQSize /\ s.latency = r.latency /\ s.stalled = r.stalled
       /\ s \in QueueType(P)
  BY ZenonT(60), <1>4, <1>5, <1>6, <1>8, <1>9 DEF QueueType
<1>11. QED BY <1>2, <1>4, <1>5, <1>6, <1>7, <1>9, <1>10 DEF FlushEffect

(* The components of a well-formed queue, one by one.                        *)
QueueFacts(P, r) ==
  /\ Len(r.readQ) \in Nat /\ Len(r.writeQ) \in Nat
  /\ r.visibleEpoch \in Nat /\ r.maxQSize \in Nat
  /\ \A i \in 1..Len(r.writeQ) : r.writeQ[i] \in P /\ r.delayQ[i] \in Nat
  /\ \A i \in 1..Len(r.readQ) : r.readQ[i] \in P

(* The type of a queue gives those of its components.                        *)
LEMMA QueueComponents ==
  ASSUME NEW P, NEW r \in QueueType(P), Len(r.delayQ) = Len(r.writeQ)
  PROVE  QueueFacts(P, r)
<1>1. /\ r.writeQ \in Seq(P) /\ r.delayQ \in Seq(Nat) /\ r.readQ \in Seq(P)
      /\ r.visibleEpoch \in Nat /\ r.maxQSize \in Nat
  BY DEF QueueType
<1>2. \A i \in 1..Len(r.delayQ) : r.delayQ[i] \in Nat
  BY <1>1
<1>3. \A i \in 1..Len(r.writeQ) : r.writeQ[i] \in P
  BY <1>1
<1>4. \A i \in 1..Len(r.readQ) : r.readQ[i] \in P
  BY <1>1
<1>5. QED BY <1>1, <1>2, <1>3, <1>4 DEF QueueFacts

-----------------------------------------------------------------------------
(* The items of two sequences laid end to end.                               *)
Joined(s, a, b) ==
  /\ Len(s) = Len(a) + Len(b)
  /\ \A i \in 1..Len(s) : s[i] = IF i <= Len(a) THEN a[i] ELSE b[i - Len(a)]

LEMMA ConcatJoins ==
  ASSUME NEW P, NEW a \in Seq(P), NEW b \in Seq(P)
  PROVE  a \o b \in Seq(P) /\ Joined(a \o b, a, b)
BY DEF Joined

LEMMA JoinsAsConcat ==
  ASSUME NEW P, NEW a \in Seq(P), NEW b \in Seq(P), NEW s \in Seq(P), Joined(s, a, b)
  PROVE  s = a \o b
<1>1. a \o b \in Seq(P) /\ Joined(a \o b, a, b)
  BY ConcatJoins
<1>2. Len(s) = Len(a \o b) /\ \A i \in 1..Len(s) : s[i] = (a \o b)[i]
  BY <1>1 DEF Joined
<1>3. QED BY <1>1, <1>2, SeqEqual

(* Joining and appending, joining and taking the tail, in either order.      *)
LEMMA AppendJoins ==
  ASSUME NEW P, NEW a \in Seq(P), NEW b \in Seq(P), NEW p \in P
  PROVE  a \o Append(b, p) = Append(a \o b, p)
<1>1. a \o b \in Seq(P) /\ Joined(a \o b, a, b)
  BY ConcatJoins
<1>2. /\ Append(b, p) \in Seq(P) /\ Append(a \o b, p) \in Seq(P)
      /\ Len(Append(b, p)) = Len(b) + 1 /\ Len(Append(a \o b, p)) = Len(a \o b) + 1
      /\ \A i \in 1..Len(b) : Append(b, p)[i] = b[i]
      /\ Append(b, p)[Len(b) + 1] = p
      /\ \A i \in 1..Len(a \o b) : Append(a \o b, p)[i] = (a \o b)[i]
      /\ Append(a \o b, p)[Len(a \o b) + 1] = p
      /\ Len(a) \in Nat /\ Len(b) \in Nat
  BY <1>1
<1>3. Joined(Append(a \o b, p), a, Append(b, p))
  BY <1>1, <1>2 DEF Joined
<1>4. QED BY <1>2, <1>3, JoinsAsConcat

LEMMA TailJoins ==
  ASSUME NEW P, NEW a \in Seq(P), NEW b \in Seq(P), a # << >>
  PROVE  Tail(a) \o b = Tail(a \o b)
<1>1. a \o b \in Seq(P) /\ Joined(a \o b, a, b)
  BY ConcatJoins
<1>2. Len(a) \in Nat /\ Len(b) \in Nat /\ Len(a) > 0 /\ Len(a \o b) = Len(a) + Len(b)
  BY <1>1 DEF Joined
<1>3. a \o b # << >>
  BY <1>2
<1>4. /\ Tail(a) \in Seq(P) /\ Tail(a \o b) \in Seq(P)
      /\ Len(Tail(a)) = Len(a) - 1 /\ Len(Tail(a \o b)) = Len(a \o b) - 1
      /\ \A i \in 1..Len(Tail(a)) : Tail(a)[i] = a[i + 1]
      /\ \A i \in 1..Len(Tail(a \o b)) : Tail(a \o b)[i] = (a \o b)[i + 1]
  BY <1>1, <1>3, HeadTailProperties
<1>5. Joined(Tail(a \o b), Tail(a), b)
  BY <1>1, <1>2, <1>4 DEF Joined
<1>6. QED BY <1>4, <1>5, JoinsAsConcat
=============================================================================

--------------------------- MODULE SimQueueProofs ---------------------------
(***************************************************************************)
(* What TLAPS proves of SimQueue, for every set of packets, capacities and  *)
(* latencies.                                                               *)
(***************************************************************************)
EXTENDS SimQueue, QueueOpsProofs

-----------------------------------------------------------------------------
(***************************************************************************)
(* The inductive invariant, one lemma per operation.                        *)
(***************************************************************************)

(* A queue fresh from its constructor.                                       *)
LEMMA InitEstablishesIInv == Init => IInv
<1> SUFFICES ASSUME Init PROVE IInv
  OBVIOUS
<1>1. PICK n \in Sizes, l \in Latencies : q = NewQueue(n, l)
  BY DEF Init
<1>2. n \in Nat \ {0} /\ l \in Nat
  BY SizesAssumption, LatenciesAssumption
<1>3. /\ q.writeQ = << >> /\ q.delayQ = << >> /\ q.readQ = << >>
      /\ q.maxQSize = n /\ q.visibleEpoch = 0
      /\ q \in QueueType(Packets)
  BY <1>1, <1>2 DEF NewQueue, QueueType
<1>4. seen = [epoch |-> 0, readQ |-> << >>]
  BY <1>3 DEF Init, Visible
<1>5. TypeOK
  BY <1>3, <1>4 DEF Init, TypeOK
<1>6. CapacityRespected
  BY <1>2, <1>3 DEF CapacityRespected, Occupancy
<1>7. OnePlace /\ WaitFits /\ LatencyWindow
  BY <1>3 DEF OnePlace, WaitFits, LatencyWindow
<1>8. SeenIsPast /\ NoMissedChange
  BY <1>3, <1>4 DEF SeenIsPast, NoMissedChange
<1>9. QED BY <1>5, <1>6, <1>7, <1>8 DEF IInv

(* Work(): stalled it changes nothing; otherwise every waiting packet ages,  *)
(* the ready prefix moves, and what still waits stays within its bound.      *)
LEMMA WorkPreservesIInv == IInv /\ Work => IInv'
<1> SUFFICES ASSUME IInv, Work PROVE IInv'
  OBVIOUS
<1>1. /\ q \in QueueType(Packets) /\ Len(q.delayQ) = Len(q.writeQ)
      /\ lat \in [Packets -> Nat] /\ age \in [Packets -> Nat] /\ bound \in [Packets -> Nat]
      /\ seen \in [epoch : Nat, readQ : Seq(Packets)] /\ sent \subseteq Packets
  BY DEF IInv, TypeOK
<1>2. UNCHANGED <<sent, lat, bound, seen>>
  BY DEF Work
<1>3. CASE q.stalled
  <2>1. q' = q
    BY <1>3 DEF Work, QueueWork
  <2>2. age' = age
    BY <1>1, <1>3 DEF Work
  <2>3. QED
    BY ZenonT(60), <1>2, <2>1, <2>2 DEF IInv, TypeOK, CapacityRespected, OnePlace, WaitFits,
       LatencyWindow, SeenIsPast, NoMissedChange, Occupancy
<1>4. CASE ~q.stalled
  <2>1. PICK n \in 0..Len(q.writeQ) : WorkEffect(Packets, q, q', n)
    BY <1>1, <1>4, WorkHasEffect DEF Work
  <2>2. /\ q' \in QueueType(Packets) /\ Len(q'.delayQ) = Len(q'.writeQ)
        /\ Len(q'.readQ) = Len(q.readQ) + n
        /\ Len(q'.writeQ) = Len(q.writeQ) - n
        /\ q'.maxQSize = q.maxQSize
    BY <2>1 DEF WorkEffect
  <2>3. /\ \A i \in 1..Len(q.readQ) : q'.readQ[i] = q.readQ[i]
        /\ \A i \in 1..n : q'.readQ[Len(q.readQ) + i] = q.writeQ[i]
    BY <2>1 DEF WorkEffect
  <2>4. \A i \in 1..Len(q'.writeQ) :
          /\ n + i \in 1..Len(q.writeQ)
          /\ q'.writeQ[i] = q.writeQ[n + i]
          /\ q'.delayQ[i] = IF q.delayQ[n + i] > 0 THEN q.delayQ[n + i] - 1 ELSE 0
    BY <2>1 DEF WorkEffect
  <2>5. /\ Len(q.readQ) \in Nat /\ Len(q.writeQ) \in Nat
        /\ q.visibleEpoch \in Nat /\ q.maxQSize \in Nat
        /\ \A i \in 1..Len(q.writeQ) : q.writeQ[i] \in Packets /\ q.delayQ[i] \in Nat
        /\ \A i \in 1..Len(q.readQ) : q.readQ[i] \in Packets
    BY <1>1, QueueComponents DEF QueueFacts
  <2>6. /\ age' \in [Packets -> Nat]
        /\ \A i \in 1..Len(q.writeQ) : age'[q.writeQ[i]] = age[q.writeQ[i]] + 1
        /\ \A i \in 1..Len(q.readQ) : age'[q.readQ[i]] = age[q.readQ[i]]
    <3>1. age' = [p \in Packets |-> IF p \in Waiting THEN age[p] + 1 ELSE age[p]]
      BY <1>4 DEF Work
    <3>2. \A i \in 1..Len(q.writeQ) : q.writeQ[i] \in Waiting
      BY DEF Waiting
    <3>3. \A i \in 1..Len(q.readQ) : q.readQ[i] \notin Waiting
      BY DEF IInv, OnePlace, Waiting
    <3>4. QED BY SMTT(30), <1>1, <2>5, <3>1, <3>2, <3>3
  <2>7. TypeOK'
    BY <1>1, <1>2, <2>2, <2>6 DEF TypeOK
  <2>8. CapacityRespected'
    <3> DEFINE r == Len(q.readQ)     r1 == Len(q'.readQ)
               w == Len(q.writeQ)    w1 == Len(q'.writeQ)
               m == q.maxQSize       m1 == q'.maxQSize
    <3>1. /\ r1 = r + n /\ w1 = w - n /\ m1 = m
          /\ r \in Nat /\ w \in Nat /\ n \in Nat /\ m \in Nat
      BY <2>2, <2>5
    <3>4. r + w <= m
      BY Zenon DEF IInv, CapacityRespected, Occupancy
    <3>2. SUFFICES r1 + w1 <= m1
      BY Zenon DEF CapacityRespected, Occupancy
    <3> HIDE DEF r, r1, w, w1, m, m1
    <3>3. QED BY <3>1, <3>4
  <2>9. OnePlace'
    <3>1. \A k \in 1..Len(q'.readQ) :
            \/ k \in 1..Len(q.readQ) /\ q'.readQ[k] = q.readQ[k]
            \/ k - Len(q.readQ) \in 1..n /\ q'.readQ[k] = q.writeQ[k - Len(q.readQ)]
      BY <2>2, <2>3, <2>5, SMTT(60)
    <3>2. /\ \A i \in 1..Len(q'.writeQ) : q'.writeQ[i] \in sent
          /\ \A i, j \in 1..Len(q'.writeQ) : q'.writeQ[i] = q'.writeQ[j] => i = j
      <4>1. ASSUME NEW i \in 1..Len(q'.writeQ), NEW j \in 1..Len(q'.writeQ),
                   q'.writeQ[i] = q'.writeQ[j]
            PROVE  i = j
        <5>1. q.writeQ[n + i] = q.writeQ[n + j]
          BY <2>4, <4>1
        <5>2. n + i = n + j
          BY <2>4, <5>1 DEF IInv, OnePlace
        <5>3. QED BY <5>2
      <4>2. QED BY <2>4, <4>1 DEF IInv, OnePlace
    <3>3. ASSUME NEW k \in 1..Len(q'.readQ) PROVE q'.readQ[k] \in sent
      <4>1. CASE k \in 1..Len(q.readQ) /\ q'.readQ[k] = q.readQ[k]
        BY <4>1 DEF IInv, OnePlace
      <4>2. CASE k - Len(q.readQ) \in 1..n /\ q'.readQ[k] = q.writeQ[k - Len(q.readQ)]
        <5>1. k - Len(q.readQ) \in 1..Len(q.writeQ)
          BY <2>5, <4>2
        <5>2. QED BY <4>2, <5>1 DEF IInv, OnePlace
      <4>3. QED BY <3>1, <4>1, <4>2
    <3>4. ASSUME NEW i \in 1..Len(q'.writeQ), NEW k \in 1..Len(q'.readQ)
          PROVE  q'.writeQ[i] # q'.readQ[k]
      <4>1. CASE k \in 1..Len(q.readQ) /\ q'.readQ[k] = q.readQ[k]
        BY <2>4, <4>1 DEF IInv, OnePlace
      <4>2. CASE k - Len(q.readQ) \in 1..n /\ q'.readQ[k] = q.writeQ[k - Len(q.readQ)]
        <5>1. /\ k - Len(q.readQ) \in 1..Len(q.writeQ)
              /\ k - Len(q.readQ) # n + i
          BY SMTT(30), <2>5, <4>2
        <5>2. q.writeQ[n + i] # q.writeQ[k - Len(q.readQ)]
          BY <2>4, <5>1 DEF IInv, OnePlace
        <5>3. QED BY <2>4, <4>2, <5>2
      <4>3. QED BY <3>1, <4>1, <4>2
    <3>5. QED BY <1>2, <3>2, <3>3, <3>4 DEF OnePlace
  <2>10. WaitFits'
    <3>1. SUFFICES ASSUME NEW i \in 1..Len(q'.writeQ)
                   PROVE  /\ age'[q'.writeQ[i]] + 1 <= bound[q'.writeQ[i]]
                          /\ lat[q'.writeQ[i]] <= age'[q'.writeQ[i]] + q'.delayQ[i]
                          /\ \A j \in 1..i :
                               age'[q'.writeQ[i]] + q'.delayQ[j] <= bound[q'.writeQ[i]]
      BY <1>2 DEF WaitFits
    <3> DEFINE p == q.writeQ[n + i]
    <3>2. /\ n + i \in 1..Len(q.writeQ) /\ q'.writeQ[i] = p
          /\ p \in Packets /\ age'[p] = age[p] + 1
          /\ age[p] \in Nat /\ bound[p] \in Nat /\ lat[p] \in Nat
      BY <1>1, <2>4, <2>5, <2>6
    <3>3. /\ age[p] + 1 <= bound[p]
          /\ lat[p] <= age[p] + q.delayQ[n + i]
          /\ \A j \in 1..(n + i) : age[p] + q.delayQ[j] <= bound[p]
      BY <3>2 DEF IInv, WaitFits
    <3> HIDE DEF p
    <3>4. q.delayQ[n + 1] >= 2 /\ n + 1 \in 1..(n + i)
      BY <2>1, <3>2 DEF WorkEffect
    <3>5. age[p] + 2 <= bound[p]
      <4>1. age[p] + q.delayQ[n + 1] <= bound[p] /\ q.delayQ[n + 1] \in Nat
        BY <2>5, <3>2, <3>3, <3>4, SMTT(60)
      <4>2. QED BY <3>2, <3>4, <4>1, SMTT(60)
    <3>6. lat[p] <= age[p] + 1 + q'.delayQ[i]
      <4>1. q.delayQ[n + i] \in Nat
        BY <2>5, <3>2
      <4>2. q'.delayQ[i] = IF q.delayQ[n + i] > 0 THEN q.delayQ[n + i] - 1 ELSE 0
        BY <2>4
      <4>3. QED BY <3>2, <3>3, <4>1, <4>2, SMTT(60)
    <3>7. ASSUME NEW j \in 1..i PROVE age[p] + 1 + q'.delayQ[j] <= bound[p]
      <4>1. /\ n + j \in 1..(n + i) /\ j \in 1..Len(q'.writeQ)
        BY <2>2, <2>5, <3>2, SMTT(60)
      <4>2. age[p] + q.delayQ[n + j] <= bound[p] /\ q.delayQ[n + j] \in Nat
        BY <2>4, <2>5, <3>3, <4>1, SMTT(60)
      <4>3. q'.delayQ[j] = IF q.delayQ[n + j] > 0 THEN q.delayQ[n + j] - 1 ELSE 0
        BY <2>4, <4>1
      <4>4. QED BY <3>2, <3>5, <4>2, <4>3, SMTT(60)
    <3>8. QED BY <3>2, <3>5, <3>6, <3>7
  <2>11. LatencyWindow'
    <3>1. SUFFICES ASSUME NEW k \in 1..Len(q'.readQ)
                   PROVE  /\ 1 <= age'[q'.readQ[k]]
                          /\ lat[q'.readQ[k]] <= age'[q'.readQ[k]]
                          /\ age'[q'.readQ[k]] <= bound[q'.readQ[k]]
      BY <1>2 DEF LatencyWindow
    <3>2. CASE k \in 1..Len(q.readQ)
      BY <2>3, <2>6, <3>2 DEF IInv, LatencyWindow
    <3>3. CASE k \notin 1..Len(q.readQ)
      <4>1. k - Len(q.readQ) \in 1..n
        BY <2>2, <2>5, <3>3
      <4>2. PICK i \in 1..n : k = Len(q.readQ) + i
        BY <2>5, <4>1
      <4> DEFINE p == q.writeQ[i]
      <4>3. i \in 1..Len(q.writeQ) /\ q'.readQ[k] = p
        BY <2>3, <2>5, <4>2, SMTT(60)
      <4>4. /\ p \in Packets /\ age'[p] = age[p] + 1
            /\ age[p] \in Nat /\ bound[p] \in Nat /\ lat[p] \in Nat
            /\ q.delayQ[i] \in Nat
        BY <1>1, <2>5, <2>6, <4>3
      <4>5. q.delayQ[i] <= 1
        BY <2>1 DEF WorkEffect
      <4>6. age[p] + 1 <= bound[p] /\ lat[p] <= age[p] + q.delayQ[i]
        BY <4>3 DEF IInv, WaitFits
      <4> HIDE DEF p
      <4>7. QED BY SMTT(30), <4>3, <4>4, <4>5, <4>6
    <3>4. QED BY <3>2, <3>3
  <2>12. SeenIsPast' /\ NoMissedChange'
    <3>1. CASE n = 0
      <4>1. q'.visibleEpoch = q.visibleEpoch
        BY <2>1, <3>1 DEF WorkEffect
      <4>2. q'.readQ = q.readQ
        <5>1. q'.readQ \in Seq(Packets) /\ q.readQ \in Seq(Packets)
          BY <1>1, <2>2 DEF QueueType
        <5>2. QED BY SMTT(30), <2>2, <2>3, <2>5, <3>1, <5>1, SeqEqual
      <4>3. QED BY <1>2, <4>1, <4>2 DEF IInv, SeenIsPast, NoMissedChange
    <3>2. CASE n > 0
      <4>1. q'.visibleEpoch = q.visibleEpoch + 1
        BY <2>1, <3>2 DEF WorkEffect
      <4>2. seen.epoch \in Nat /\ seen.epoch <= q.visibleEpoch
        BY <1>1 DEF IInv, SeenIsPast
      <4>3. QED BY <1>2, <2>5, <4>1, <4>2 DEF SeenIsPast, NoMissedChange
    <3>3. QED BY <3>1, <3>2
  <2>13. QED BY <2>7, <2>8, <2>9, <2>10, <2>11, <2>12 DEF IInv
<1>5. QED BY <1>3, <1>4

(* Write(): the packet is new, and its bound covers everything ahead of it.  *)
LEMMA WritePreservesIInv == \A p \in Packets : IInv /\ Write(p) => IInv'
<1> SUFFICES ASSUME NEW p \in Packets, IInv, Write(p) PROVE IInv'
  OBVIOUS
<1>1. /\ q \in QueueType(Packets) /\ Len(q.delayQ) = Len(q.writeQ)
      /\ lat \in [Packets -> Nat] /\ age \in [Packets -> Nat] /\ bound \in [Packets -> Nat]
      /\ seen \in [epoch : Nat, readQ : Seq(Packets)] /\ sent \subseteq Packets
  BY DEF IInv, TypeOK
<1>2. /\ Len(q.readQ) \in Nat /\ Len(q.writeQ) \in Nat
      /\ q.visibleEpoch \in Nat /\ q.maxQSize \in Nat
      /\ \A i \in 1..Len(q.writeQ) : q.writeQ[i] \in Packets /\ q.delayQ[i] \in Nat
      /\ \A i \in 1..Len(q.readQ) : q.readQ[i] \in Packets
  BY <1>1, QueueComponents DEF QueueFacts
<1>3. q.writeQ \in Seq(Packets) /\ q.delayQ \in Seq(Nat) /\ q.latency \in Nat
  BY <1>1 DEF QueueType
<1> DEFINE wq == Append(q.writeQ, p)
           dq == Append(q.delayQ, q.latency)
<1>4. /\ wq \in Seq(Packets) /\ Len(wq) = Len(q.writeQ) + 1
      /\ \A i \in 1..Len(q.writeQ) : wq[i] = q.writeQ[i]
      /\ wq[Len(q.writeQ) + 1] = p
  BY <1>3
<1>5. /\ dq \in Seq(Nat) /\ Len(dq) = Len(q.writeQ) + 1
      /\ \A i \in 1..Len(q.writeQ) : dq[i] = q.delayQ[i]
      /\ dq[Len(q.writeQ) + 1] = q.latency
  BY SMTT(30), <1>1, <1>3
<1>6. q' = [q EXCEPT !.writeQ = wq, !.delayQ = dq]
  BY DEF Write, QueueWrite
<1> HIDE DEF wq, dq
<1>7. /\ q' \in QueueType(Packets) /\ q'.writeQ = wq /\ q'.delayQ = dq
      /\ q'.readQ = q.readQ /\ q'.maxQSize = q.maxQSize
      /\ q'.visibleEpoch = q.visibleEpoch
  BY <1>1, <1>4, <1>5, <1>6 DEF QueueType
<1>8. /\ p \notin sent /\ sent' = sent \cup {p} /\ seen' = seen
      /\ lat' = [lat EXCEPT ![p] = q.latency]
      /\ age' = [age EXCEPT ![p] = 0]
  BY DEF Write
<1>9. PICK b \in Waits : (\A w \in Waits : w <= b) /\ bound' = [bound EXCEPT ![p] = b]
  BY DEF Write
<1>10. /\ b \in Nat /\ 1 <= b /\ q.latency <= b
       /\ \A i \in 1..Len(q.writeQ) : q.delayQ[i] <= b
  <2>1. 1 \in Waits /\ q.latency \in Waits
    BY DEF Waits
  <2>2. \A i \in 1..Len(q.writeQ) : q.delayQ[i] \in Waits
    BY <1>1 DEF Waits
  <2>3. b \in Nat
    <3>1. b = 1 \/ b = q.latency \/ \E i \in 1..Len(q.writeQ) : b = q.delayQ[i]
      BY <1>1, <1>9 DEF Waits
    <3>2. QED BY <1>2, <1>3, <3>1
  <2>4. QED BY <1>9, <2>1, <2>2, <2>3
<1>11. /\ \A i \in 1..Len(q.writeQ) : q.writeQ[i] # p /\ q.writeQ[i] \in sent
       /\ \A i \in 1..Len(q.readQ) : q.readQ[i] # p /\ q.readQ[i] \in sent
  BY <1>8 DEF IInv, OnePlace
<1>12. /\ \A x \in Packets : x # p => age'[x] = age[x] /\ lat'[x] = lat[x] /\ bound'[x] = bound[x]
       /\ age'[p] = 0 /\ lat'[p] = q.latency /\ bound'[p] = b
       /\ age' \in [Packets -> Nat] /\ lat' \in [Packets -> Nat] /\ bound' \in [Packets -> Nat]
  BY <1>1, <1>3, <1>8, <1>9, <1>10
<1>13. TypeOK'
  <2>1. Len(q'.delayQ) = Len(q'.writeQ) /\ q' \in QueueType(Packets)
    BY <1>4, <1>5, <1>7
  <2>2. sent' \subseteq Packets /\ seen' \in [epoch : Nat, readQ : Seq(Packets)]
    BY <1>1, <1>8
  <2>3. QED BY Zenon, <1>12, <2>1, <2>2 DEF TypeOK
<1>14. CapacityRespected'
  <2> DEFINE r == Len(q.readQ)     r1 == Len(q'.readQ)
             w == Len(q.writeQ)    w1 == Len(q'.writeQ)
             m == q.maxQSize       m1 == q'.maxQSize
  <2>1. /\ r1 = r /\ w1 = w + 1 /\ m1 = m
        /\ r \in Nat /\ w \in Nat /\ m \in Nat
    BY <1>2, <1>4, <1>7
  <2>2. ~ (r + w >= m)
    BY Zenon DEF Write, Full, Occupancy
  <2>3. SUFFICES r1 + w1 <= m1
    BY Zenon DEF CapacityRespected, Occupancy
  <2> HIDE DEF r, r1, w, w1, m, m1
  <2>4. QED BY <2>1, <2>2
<1>15. \A i \in 1..Len(wq) :
         \/ i \in 1..Len(q.writeQ) /\ wq[i] = q.writeQ[i] /\ dq[i] = q.delayQ[i]
         \/ i = Len(q.writeQ) + 1 /\ wq[i] = p /\ dq[i] = q.latency
  BY SMTT(30), <1>2, <1>4, <1>5
<1>16. OnePlace'
  <2>1. \A i \in 1..Len(wq) : wq[i] \in sent'
    BY <1>8, <1>11, <1>15
  <2>2. \A i, j \in 1..Len(wq) : wq[i] = wq[j] => i = j
    BY <1>11, <1>15 DEF IInv, OnePlace
  <2>3. \A i \in 1..Len(wq), j \in 1..Len(q.readQ) : wq[i] # q.readQ[j]
    BY <1>11, <1>15 DEF IInv, OnePlace
  <2>4. QED BY <1>7, <1>8, <1>11, <2>1, <2>2, <2>3 DEF OnePlace
<1>17. WaitFits'
  <2>1. SUFFICES ASSUME NEW i \in 1..Len(wq)
                 PROVE  /\ age'[wq[i]] + 1 <= bound'[wq[i]]
                        /\ lat'[wq[i]] <= age'[wq[i]] + dq[i]
                        /\ \A j \in 1..i : age'[wq[i]] + dq[j] <= bound'[wq[i]]
    BY <1>7 DEF WaitFits
  <2>2. CASE i \in 1..Len(q.writeQ)
    <3> DEFINE x == q.writeQ[i]
    <3>1. /\ wq[i] = x /\ x \in Packets /\ x # p
          /\ dq[i] = q.delayQ[i]
      BY <1>2, <1>4, <1>5, <1>11, <2>2
    <3>2. ASSUME NEW j \in 1..i PROVE dq[j] = q.delayQ[j]
      <4>1. j \in 1..Len(q.writeQ)
        BY <1>2, <2>2
      <4>2. QED BY <1>5, <4>1
    <3>3. /\ age[x] + 1 <= bound[x]
          /\ lat[x] <= age[x] + q.delayQ[i]
          /\ \A j \in 1..i : age[x] + q.delayQ[j] <= bound[x]
      BY <2>2 DEF IInv, WaitFits
    <3>4. age'[x] = age[x] /\ lat'[x] = lat[x] /\ bound'[x] = bound[x]
      BY <1>12, <3>1
    <3> HIDE DEF x
    <3>5. QED BY <3>1, <3>2, <3>3, <3>4
  <2>3. CASE i = Len(q.writeQ) + 1
    <3>1. wq[i] = p /\ dq[i] = q.latency
      BY <1>4, <1>5, <2>3
    <3>2. ASSUME NEW j \in 1..i PROVE dq[j] \in Nat /\ dq[j] <= b
      <4>1. CASE j = Len(q.writeQ) + 1
        BY <1>3, <1>5, <1>10, <4>1
      <4>2. CASE j # Len(q.writeQ) + 1
        <5>1. j \in 1..Len(q.writeQ)
          BY <1>2, <2>3, <4>2
        <5>2. QED BY <1>2, <1>5, <1>10, <5>1
      <4>3. QED BY <4>1, <4>2
    <3>3. QED BY <1>3, <1>10, <1>12, <3>1, <3>2
  <2>4. QED BY <1>15, <2>2, <2>3
<1>18. LatencyWindow'
  <2>1. SUFFICES ASSUME NEW i \in 1..Len(q.readQ)
                 PROVE  /\ 1 <= age'[q.readQ[i]]
                        /\ lat'[q.readQ[i]] <= age'[q.readQ[i]]
                        /\ age'[q.readQ[i]] <= bound'[q.readQ[i]]
    BY <1>7 DEF LatencyWindow
  <2>2. q.readQ[i] \in Packets /\ q.readQ[i] # p
    BY <1>2, <1>11
  <2>3. QED BY <1>12, <2>2 DEF IInv, LatencyWindow
<1>19. SeenIsPast' /\ NoMissedChange'
  BY <1>7, <1>8 DEF IInv, SeenIsPast, NoMissedChange
<1>20. QED BY <1>13, <1>14, <1>16, <1>17, <1>18, <1>19 DEF IInv

(* Read(): the head leaves, the rest keeps its waits, the epoch moves on.    *)
LEMMA ReadPreservesIInv == IInv /\ Read => IInv'
<1> SUFFICES ASSUME IInv, Read PROVE IInv'
  OBVIOUS
<1>1. /\ q \in QueueType(Packets) /\ Len(q.delayQ) = Len(q.writeQ)
      /\ seen \in [epoch : Nat, readQ : Seq(Packets)]
  BY DEF IInv, TypeOK
<1>2. /\ Len(q.readQ) \in Nat /\ Len(q.writeQ) \in Nat
      /\ q.visibleEpoch \in Nat /\ q.maxQSize \in Nat
  BY <1>1, QueueComponents DEF QueueFacts
<1>3. q.readQ \in Seq(Packets) /\ q.readQ # << >>
  BY <1>1 DEF QueueType, Read, Empty
<1> DEFINE rq == Tail(q.readQ)
<1>4. /\ rq \in Seq(Packets) /\ Len(rq) = Len(q.readQ) - 1
      /\ \A i \in 1..Len(rq) : rq[i] = q.readQ[i + 1] /\ i + 1 \in 1..Len(q.readQ)
  BY <1>3
<1>5. q' = [q EXCEPT !.readQ = rq, !.visibleEpoch = q.visibleEpoch + 1]
  BY DEF Read, QueueRead
<1> HIDE DEF rq
<1>6. /\ q' \in QueueType(Packets) /\ q'.readQ = rq
      /\ q'.writeQ = q.writeQ /\ q'.delayQ = q.delayQ
      /\ q'.maxQSize = q.maxQSize /\ q'.visibleEpoch = q.visibleEpoch + 1
  <2> DEFINE epoch == q.visibleEpoch + 1
  <2>1. epoch \in Nat
    BY <1>2
  <2>2. q' = [q EXCEPT !.readQ = rq, !.visibleEpoch = epoch]
    BY <1>5
  <2> HIDE DEF epoch
  <2>3. /\ q' \in QueueType(Packets) /\ q'.readQ = rq
        /\ q'.writeQ = q.writeQ /\ q'.delayQ = q.delayQ
        /\ q'.maxQSize = q.maxQSize /\ q'.visibleEpoch = epoch
    BY <1>1, <1>4, <2>1, <2>2 DEF QueueType
  <2>4. QED BY <2>3 DEF epoch
<1>7. UNCHANGED <<sent, lat, age, bound, seen>>
  BY DEF Read
<1>8. TypeOK'
  BY <1>6, <1>7 DEF IInv, TypeOK
<1>9. CapacityRespected'
  <2> DEFINE r == Len(q.readQ)     r1 == Len(q'.readQ)
             w == Len(q.writeQ)    w1 == Len(q'.writeQ)
             m == q.maxQSize       m1 == q'.maxQSize
  <2>1. /\ r1 = r - 1 /\ w1 = w /\ m1 = m
        /\ r \in Nat /\ w \in Nat /\ m \in Nat
    BY <1>2, <1>4, <1>6
  <2>2. r + w <= m
    BY Zenon DEF IInv, CapacityRespected, Occupancy
  <2>3. SUFFICES r1 + w1 <= m1
    BY Zenon DEF CapacityRespected, Occupancy
  <2> HIDE DEF r, r1, w, w1, m, m1
  <2>4. QED BY <2>1, <2>2
<1>10. OnePlace' /\ WaitFits' /\ LatencyWindow'
  <2>1. OnePlace'
    BY SMTT(30), <1>4, <1>6, <1>7 DEF IInv, OnePlace
  <2>2. WaitFits'
    BY <1>6, <1>7 DEF IInv, WaitFits
  <2>3. LatencyWindow'
    BY <1>4, <1>6, <1>7 DEF IInv, LatencyWindow
  <2>4. QED BY <2>1, <2>2, <2>3
<1>11. SeenIsPast' /\ NoMissedChange'
  BY <1>1, <1>2, <1>6, <1>7 DEF IInv, SeenIsPast, NoMissedChange
<1>12. QED BY <1>8, <1>9, <1>10, <1>11 DEF IInv

(* FlushIf(): survivors keep their place behind a subset of the entries that *)
(* were ahead of them, so no bound grows; a changed read side is announced.  *)
LEMMA FlushPreservesIInv == \A Match \in SUBSET Packets : IInv /\ FlushIf(Match) => IInv'
<1> SUFFICES ASSUME NEW Match \in SUBSET Packets, IInv, FlushIf(Match) PROVE IInv'
  OBVIOUS
<1>1. /\ q \in QueueType(Packets) /\ Len(q.delayQ) = Len(q.writeQ)
      /\ seen \in [epoch : Nat, readQ : Seq(Packets)]
      /\ lat \in [Packets -> Nat] /\ age \in [Packets -> Nat] /\ bound \in [Packets -> Nat]
  BY DEF IInv, TypeOK
<1>2. /\ Len(q.readQ) \in Nat /\ Len(q.writeQ) \in Nat
      /\ q.visibleEpoch \in Nat /\ q.maxQSize \in Nat
      /\ \A i \in 1..Len(q.writeQ) : q.writeQ[i] \in Packets /\ q.delayQ[i] \in Nat
      /\ \A i \in 1..Len(q.readQ) : q.readQ[i] \in Packets
  BY <1>1, QueueComponents DEF QueueFacts
<1>3. UNCHANGED <<sent, lat, age, bound, seen>>
  BY DEF FlushIf
<1>4. PICK ww \in SurvivorMaps(q.writeQ, Match), rw \in SurvivorMaps(q.readQ, Match) :
        q' = QueueFlush(q, Match, ww, rw)
  BY DEF FlushIf
<1>5. FlushEffect(Packets, Match, q, q', ww, rw)
  BY <1>1, <1>4, FlushHasEffect
<1>6. /\ q' \in QueueType(Packets)
      /\ Len(q'.writeQ) = Len(ww) /\ Len(q'.delayQ) = Len(ww) /\ Len(q'.readQ) = Len(rw)
      /\ Len(ww) \in Nat /\ Len(ww) <= Len(q.writeQ)
      /\ Len(rw) \in Nat /\ Len(rw) <= Len(q.readQ)
      /\ q'.maxQSize = q.maxQSize
  BY <1>5 DEF FlushEffect, IsSurvivorMap
<1>7. \A i \in 1..Len(ww) : /\ ww[i] \in 1..Len(q.writeQ)
                            /\ q'.writeQ[i] = q.writeQ[ww[i]]
                            /\ q'.delayQ[i] = q.delayQ[ww[i]]
  BY <1>5 DEF FlushEffect, IsSurvivorMap
<1>8. \A i, j \in 1..Len(ww) : i < j => ww[i] < ww[j]
  BY <1>5 DEF FlushEffect, IsSurvivorMap
<1>9. \A i \in 1..Len(rw) : rw[i] \in 1..Len(q.readQ) /\ q'.readQ[i] = q.readQ[rw[i]]
  BY <1>5 DEF FlushEffect, IsSurvivorMap
<1>10. TypeOK'
  BY <1>3, <1>6 DEF IInv, TypeOK
<1>11. CapacityRespected'
  <2> DEFINE r == Len(q.readQ)     r1 == Len(q'.readQ)
             w == Len(q.writeQ)    w1 == Len(q'.writeQ)
             m == q.maxQSize       m1 == q'.maxQSize
  <2>1. /\ r1 \in Nat /\ r1 <= r /\ w1 \in Nat /\ w1 <= w /\ m1 = m
        /\ r \in Nat /\ w \in Nat /\ m \in Nat
    BY <1>2, <1>6
  <2>2. r + w <= m
    BY Zenon DEF IInv, CapacityRespected, Occupancy
  <2>3. SUFFICES r1 + w1 <= m1
    BY Zenon DEF CapacityRespected, Occupancy
  <2> HIDE DEF r, r1, w, w1, m, m1
  <2>4. QED BY <2>1, <2>2
<1>12. OnePlace'
  <2>1. ASSUME NEW i \in 1..Len(ww), NEW j \in 1..Len(ww), q'.writeQ[i] = q'.writeQ[j]
        PROVE  i = j
    <3>1. ww[i] = ww[j]
      BY SMTT(30), <1>7, <2>1 DEF IInv, OnePlace
    <3>2. ~ (i < j) /\ ~ (j < i)
      BY <1>2, <1>7, <1>8, <3>1
    <3>3. QED BY <1>6, <3>2
  <2>2. \A i \in 1..Len(ww) : q'.writeQ[i] \in sent
    BY <1>7 DEF IInv, OnePlace
  <2>3. \A i \in 1..Len(rw) : q'.readQ[i] \in sent
    BY <1>9 DEF IInv, OnePlace
  <2>4. \A i \in 1..Len(ww), j \in 1..Len(rw) : q'.writeQ[i] # q'.readQ[j]
    BY SMTT(30), <1>7, <1>9 DEF IInv, OnePlace
  <2>5. QED BY <1>3, <1>6, <2>1, <2>2, <2>3, <2>4 DEF OnePlace
<1>13. WaitFits'
  <2>1. SUFFICES ASSUME NEW i \in 1..Len(ww)
                 PROVE  /\ age[q'.writeQ[i]] + 1 <= bound[q'.writeQ[i]]
                        /\ lat[q'.writeQ[i]] <= age[q'.writeQ[i]] + q'.delayQ[i]
                        /\ \A j \in 1..i :
                             age[q'.writeQ[i]] + q'.delayQ[j] <= bound[q'.writeQ[i]]
    BY <1>3, <1>6 DEF WaitFits
  <2>2. ww[i] \in 1..Len(q.writeQ) /\ q'.writeQ[i] = q.writeQ[ww[i]]
        /\ q'.delayQ[i] = q.delayQ[ww[i]]
    BY <1>7
  <2>3. ASSUME NEW j \in 1..i
        PROVE  ww[j] \in 1..ww[i] /\ q'.delayQ[j] = q.delayQ[ww[j]]
    <3>1. j \in 1..Len(ww)
      BY <1>6
    <3>2. ww[j] <= ww[i]
      BY SMTT(30), <1>2, <1>6, <1>7, <1>8, <3>1
    <3>3. QED BY <1>7, <3>1, <3>2, <2>2
  <2>4. QED BY <2>2, <2>3 DEF IInv, WaitFits
<1>14. LatencyWindow'
  BY <1>3, <1>6, <1>9 DEF IInv, LatencyWindow
<1>15. SeenIsPast' /\ NoMissedChange'
  <2>1. seen.epoch \in Nat /\ seen.epoch <= q.visibleEpoch
    BY <1>1 DEF IInv, SeenIsPast
  <2>2. \/ q'.visibleEpoch = q.visibleEpoch + 1
        \/ q'.visibleEpoch = q.visibleEpoch /\ q'.readQ = q.readQ
    BY <1>5 DEF FlushEffect
  <2>3. QED BY <1>2, <1>3, <2>1, <2>2 DEF IInv, SeenIsPast, NoMissedChange
<1>16. QED BY <1>10, <1>11, <1>12, <1>13, <1>14, <1>15 DEF IInv

(* The calls that change the settings of a queue and none of its entries.    *)
LEMMA SettingPreservesIInv ==
  ASSUME IInv, UNCHANGED <<sent, lat, age, bound, seen>>,
         q' \in QueueType(Packets),
         q'.writeQ = q.writeQ, q'.delayQ = q.delayQ, q'.readQ = q.readQ,
         q'.visibleEpoch = q.visibleEpoch,
         Occupancy(q) <= q'.maxQSize
  PROVE  IInv'
<1>1. TypeOK'
  BY DEF IInv, TypeOK
<1>2. CapacityRespected'
  BY Zenon DEF CapacityRespected, Occupancy
<1>3. OnePlace'
  BY DEF IInv, OnePlace
<1>4. WaitFits'
  BY DEF IInv, WaitFits
<1>5. LatencyWindow'
  BY DEF IInv, LatencyWindow
<1>6. SeenIsPast' /\ NoMissedChange'
  BY DEF IInv, SeenIsPast, NoMissedChange
<1>7. QED BY <1>1, <1>2, <1>3, <1>4, <1>5, <1>6 DEF IInv

(* SetLatency(), SetStall(), UnsetStall() and InitMaxSize() are such calls;  *)
(* the last refuses a capacity below the occupancy.                          *)
LEMMA SettingsPreserveIInv ==
  ASSUME IInv,
         \/ \E l \in Latencies : SetLatency(l)
         \/ \E b \in BOOLEAN : SetStall(b)
         \/ \E n \in Sizes : InitMaxSize(n)
  PROVE  IInv'
<1>1. q \in QueueType(Packets)
  BY DEF IInv, TypeOK
<1>2. Occupancy(q) <= q.maxQSize
  BY Zenon DEF IInv, CapacityRespected
<1>3. CASE \E l \in Latencies : SetLatency(l)
  <2>1. PICK l \in Latencies : SetLatency(l)
    BY <1>3
  <2>2. /\ q' \in QueueType(Packets) /\ q'.maxQSize = q.maxQSize
        /\ q'.writeQ = q.writeQ /\ q'.delayQ = q.delayQ /\ q'.readQ = q.readQ
        /\ q'.visibleEpoch = q.visibleEpoch
    BY <1>1, <2>1, LatenciesAssumption DEF SetLatency, QueueType
  <2>3. Occupancy(q) <= q'.maxQSize
    BY Zenon, <1>2, <2>2
  <2>4. QED BY <2>1, <2>2, <2>3, SettingPreservesIInv DEF SetLatency
<1>4. CASE \E b \in BOOLEAN : SetStall(b)
  <2>1. PICK b \in BOOLEAN : SetStall(b)
    BY <1>4
  <2>2. /\ q' \in QueueType(Packets) /\ q'.maxQSize = q.maxQSize
        /\ q'.writeQ = q.writeQ /\ q'.delayQ = q.delayQ /\ q'.readQ = q.readQ
        /\ q'.visibleEpoch = q.visibleEpoch
    BY <1>1, <2>1 DEF SetStall, QueueType
  <2>3. Occupancy(q) <= q'.maxQSize
    BY Zenon, <1>2, <2>2
  <2>4. QED BY <2>1, <2>2, <2>3, SettingPreservesIInv DEF SetStall
<1>5. CASE \E n \in Sizes : InitMaxSize(n)
  <2>1. PICK n \in Sizes : InitMaxSize(n)
    BY <1>5
  <2>2. /\ q' \in QueueType(Packets) /\ q'.maxQSize = n
        /\ q'.writeQ = q.writeQ /\ q'.delayQ = q.delayQ /\ q'.readQ = q.readQ
        /\ q'.visibleEpoch = q.visibleEpoch
    BY <1>1, <2>1, SizesAssumption DEF InitMaxSize, QueueType
  <2>3. Occupancy(q) <= q'.maxQSize
    BY Zenon, <2>1, <2>2 DEF InitMaxSize
  <2>4. QED BY <2>1, <2>2, <2>3, SettingPreservesIInv DEF InitMaxSize
<1>6. QED BY <1>3, <1>4, <1>5

(* Reset(): an empty queue, an epoch of zero and an observer that knows it.  *)
LEMMA ResetPreservesIInv == IInv /\ Reset => IInv'
<1> SUFFICES ASSUME IInv, Reset PROVE IInv'
  OBVIOUS
<1>1. q \in QueueType(Packets)
  BY DEF IInv, TypeOK
<1>2. /\ q'.writeQ = << >> /\ q'.delayQ = << >> /\ q'.readQ = << >>
      /\ q'.visibleEpoch = 0 /\ q'.maxQSize = q.maxQSize /\ q.maxQSize \in Nat
      /\ q' \in QueueType(Packets)
  <2> DEFINE e == << >>
  <2>1. e \in Seq(Packets) /\ e \in Seq(Nat)
    OBVIOUS
  <2>2. q' = [q EXCEPT !.writeQ = e, !.delayQ = e, !.readQ = e,
                       !.stalled = FALSE, !.visibleEpoch = 0]
    BY DEF Reset, QueueReset
  <2> HIDE DEF e
  <2>3. /\ q'.writeQ = e /\ q'.delayQ = e /\ q'.readQ = e
        /\ q'.visibleEpoch = 0 /\ q'.maxQSize = q.maxQSize /\ q.maxQSize \in Nat
        /\ q' \in QueueType(Packets)
    BY <1>1, <2>1, <2>2 DEF QueueType
  <2>4. QED BY <2>3 DEF e
<1>3. seen' = [epoch |-> 0, readQ |-> << >>]
  BY <1>2 DEF Reset, Visible
<1>4. TypeOK'
  BY <1>2, <1>3 DEF Reset, TypeOK
<1>5. CapacityRespected'
  BY <1>2 DEF CapacityRespected, Occupancy
<1>6. OnePlace' /\ WaitFits' /\ LatencyWindow'
  BY <1>2 DEF OnePlace, WaitFits, LatencyWindow
<1>7. SeenIsPast' /\ NoMissedChange'
  BY <1>2, <1>3 DEF SeenIsPast, NoMissedChange
<1>8. QED BY <1>4, <1>5, <1>6, <1>7 DEF IInv

(* An observer that captures the queue now.                                  *)
LEMMA ObservePreservesIInv == IInv /\ Observe => IInv'
<1> SUFFICES ASSUME IInv, Observe PROVE IInv'
  OBVIOUS
<1>1. q \in QueueType(Packets)
  BY DEF IInv, TypeOK
<1>2. q.visibleEpoch \in Nat /\ q.readQ \in Seq(Packets)
  BY <1>1 DEF QueueType
<1>3. seen'.epoch = q.visibleEpoch /\ seen'.readQ = q.readQ
      /\ seen' \in [epoch : Nat, readQ : Seq(Packets)]
  BY <1>2 DEF Observe, Visible
<1>4. UNCHANGED <<q, sent, lat, age, bound>>
  BY DEF Observe
<1>5. TypeOK'
  BY <1>3, <1>4 DEF IInv, TypeOK
<1>6. CapacityRespected'
  BY Zenon, <1>4 DEF IInv, CapacityRespected, Occupancy
<1>7. OnePlace' /\ WaitFits' /\ LatencyWindow'
  BY <1>4 DEF IInv, OnePlace, WaitFits, LatencyWindow
<1>8. SeenIsPast' /\ NoMissedChange'
  BY <1>2, <1>3, <1>4 DEF SeenIsPast, NoMissedChange
<1>9. QED BY <1>5, <1>6, <1>7, <1>8 DEF IInv

-----------------------------------------------------------------------------
(***************************************************************************)
(* The theorems.                                                            *)
(***************************************************************************)

(* Every operation preserves the inductive invariant.                        *)
LEMMA NextPreservesIInv == IInv /\ [Next]_vars => IInv'
<1> SUFFICES ASSUME IInv, [Next]_vars PROVE IInv'
  OBVIOUS
<1>1. CASE Work
  BY <1>1, WorkPreservesIInv
<1>2. CASE Read
  BY <1>2, ReadPreservesIInv
<1>3. CASE Reset
  BY <1>3, ResetPreservesIInv
<1>4. CASE Observe
  BY <1>4, ObservePreservesIInv
<1>5. CASE \E p \in Packets : Write(p)
  BY <1>5, WritePreservesIInv
<1>6. CASE \E Match \in SUBSET Packets : FlushIf(Match)
  BY <1>6, FlushPreservesIInv
<1>7. CASE \/ \E l \in Latencies : SetLatency(l)
           \/ \E b \in BOOLEAN : SetStall(b)
           \/ \E n \in Sizes : InitMaxSize(n)
  BY <1>7, SettingsPreserveIInv
<1>8. CASE UNCHANGED vars
  <2>1. UNCHANGED <<q, sent, lat, age, bound, seen>>
    BY <1>8 DEF vars
  <2>2. QED
    BY ZenonT(60), <2>1 DEF IInv, TypeOK, CapacityRespected, OnePlace, WaitFits,
       LatencyWindow, SeenIsPast, NoMissedChange, Occupancy
<1>9. QED BY <1>1, <1>2, <1>3, <1>4, <1>5, <1>6, <1>7, <1>8 DEF Next

(* The inductive invariant holds of every reachable state of a SimQueue.     *)
THEOREM InductiveInvariant == Spec => []IInv
  BY InitEstablishesIInv, NextPreservesIInv, PTL DEF Spec

(* Every variable keeps its type, and delayQ stays as long as writeQ: the    *)
(* assertions of Work, Write and FlushIf (lines 87, 135, 262) never fail.    *)
THEOREM TypeCorrect == Spec => []TypeOK
<1>1. IInv => TypeOK
  BY DEF IInv
<1>2. QED BY InductiveInvariant, <1>1, PTL

(* No sequence of calls makes a queue hold more than its capacity.           *)
THEOREM CapacityIsRespected == Spec => []CapacityRespected
<1>1. IInv => CapacityRespected
  BY DEF IInv
<1>2. QED BY InductiveInvariant, <1>1, PTL

(* What is readable waited at least its latency and one Work(), and at most  *)
(* its latency or the wait ahead of it, for any mix of SetLatency, SetStall, *)
(* FlushIf and InitMaxSize calls.                                            *)
THEOREM LatencyIsBounded == Spec => []LatencyWindow
<1>1. IInv => LatencyWindow
  BY DEF IInv
<1>2. QED BY InductiveInvariant, <1>1, PTL

(* Comparing epochs, as Module::QueuesChanged does, misses no change of the  *)
(* read side.                                                                *)
THEOREM EpochTellsEveryChange == Spec => []NoMissedChange
<1>1. IInv => NoMissedChange
  BY DEF IInv
<1>2. QED BY InductiveInvariant, <1>1, PTL
-----------------------------------------------------------------------------
(***************************************************************************)
(* A SimQueue implements the bounded FIFO.                                   *)
(***************************************************************************)
Items == q.readQ \o q.writeQ

(* An empty queue is an empty FIFO.                                         *)
LEMMA InitMaps == Init => Fifo!Init
<1> SUFFICES ASSUME Init PROVE Fifo!Init
  OBVIOUS
<1>1. q.readQ = << >> /\ q.writeQ = << >> /\ q.maxQSize \in Sizes
  BY DEF Init, NewQueue
<1>2. q.readQ \o q.writeQ = << >> /\ Len(q.readQ) = 0
  BY <1>1
<1>3. QED BY <1>1, <1>2 DEF Fifo!Init

(* What each operation leaves alone.                                         *)
LEMMA SettingMaps ==
  ASSUME q'.readQ = q.readQ, q'.writeQ = q.writeQ, q'.maxQSize = q.maxQSize
  PROVE  UNCHANGED Fifo!vars
BY DEF Fifo!vars

(* Work(): nothing becomes visible, or the oldest of what was not.           *)
LEMMA WorkMaps == IInv /\ Work => [Fifo!Next]_(Fifo!vars)
<1> SUFFICES ASSUME IInv, Work PROVE [Fifo!Next]_(Fifo!vars)
  OBVIOUS
<1>1. q \in QueueType(Packets) /\ Len(q.delayQ) = Len(q.writeQ) /\ q' = QueueWork(q)
  BY DEF IInv, TypeOK, Work
<1>2. CASE q.stalled
  BY <1>1, <1>2, SettingMaps DEF QueueWork
<1>3. CASE ~q.stalled
  <2>1. PICK n \in 0..Len(q.writeQ) : WorkEffect(Packets, q, q', n)
    BY <1>1, <1>3, WorkHasEffect
  <2>2. /\ Items' = Items /\ q'.maxQSize = q.maxQSize /\ Len(q'.readQ) = Len(q.readQ) + n
    BY <2>1 DEF WorkEffect, Items
  <2>3. Len(Items) = Len(q.readQ) + Len(q.writeQ) /\ Len(q.readQ) \in Nat /\ Len(q.writeQ) \in Nat
    BY <1>1, ConcatJoins DEF QueueType, Items, Joined
  <2>4. CASE n = 0
    BY <2>2, <2>3, <2>4 DEF Items, Fifo!vars
  <2>5. CASE n > 0
    <3>1. Len(q.readQ) + n \in (Len(q.readQ) + 1)..Len(Items)
      <4>1. \A x, y \in Nat : \A m \in 0..y : m > 0 => x + m \in (x + 1)..(x + y)
        OBVIOUS
      <4>2. n \in 0..Len(q.writeQ)
        OBVIOUS
      <4>3. Len(q.readQ) + n \in (Len(q.readQ) + 1)..(Len(q.readQ) + Len(q.writeQ))
        BY <2>3, <2>5, <4>1, <4>2, Zenon
      <4>4. QED BY <2>3, <4>3, Zenon
    <3>2. Fifo!Reveal
      BY <2>2, <3>1 DEF Items, Fifo!Reveal
    <3>3. QED BY <3>2 DEF Fifo!Next
  <2>6. QED BY <2>4, <2>5
<1>4. QED BY <1>2, <1>3

(* Write(): the packet goes behind all others.                               *)
LEMMA WriteMaps == \A p \in Packets : IInv /\ Write(p) => Fifo!Put(p)
<1> SUFFICES ASSUME NEW p \in Packets, IInv, Write(p) PROVE Fifo!Put(p)
  OBVIOUS
<1>1. q \in QueueType(Packets) /\ ~Full(q) /\ q' = QueueWrite(q, p)
  BY DEF IInv, TypeOK, Write
<1>2. /\ q.readQ \in Seq(Packets) /\ q.writeQ \in Seq(Packets) /\ q.maxQSize \in Nat
  BY <1>1 DEF QueueType
<1>3. q'.readQ = q.readQ /\ q'.writeQ = Append(q.writeQ, p) /\ q'.maxQSize = q.maxQSize
  BY <1>1 DEF QueueWrite, QueueType
<1>4. q.readQ \o Append(q.writeQ, p) = Append(Items, p)
  <2>1. \A a, b \in Seq(Packets) : a \o Append(b, p) = Append(a \o b, p)
    BY AppendJoins
  <2>2. q.readQ \o Append(q.writeQ, p) = Append(q.readQ \o q.writeQ, p)
    BY <1>2, <2>1, Zenon
  <2>3. QED BY <2>2 DEF Items
<1>5. Len(Items) < q.maxQSize
  <2>1. Len(Items) = Len(q.readQ) + Len(q.writeQ)
    BY <1>2, ConcatJoins DEF Items, Joined
  <2>2. ~(Len(q.readQ) + Len(q.writeQ) >= q.maxQSize)
    BY <1>1 DEF Full, Occupancy
  <2>3. Len(q.readQ) \in Nat /\ Len(q.writeQ) \in Nat
    BY <1>2
  <2>4. \A x, y, z \in Nat : ~(x + y >= z) => x + y < z
    OBVIOUS
  <2>5. Len(q.readQ) + Len(q.writeQ) < q.maxQSize
    BY <1>2, <2>2, <2>3, <2>4, Zenon
  <2>6. QED BY <2>1, <2>5, Zenon
<1>6. QED BY <1>3, <1>4, <1>5 DEF Items, Fifo!Put

(* Read(): the oldest packet leaves.                                         *)
LEMMA ReadMaps == IInv /\ Read => Fifo!Take
<1> SUFFICES ASSUME IInv, Read PROVE Fifo!Take
  OBVIOUS
<1>1. q \in QueueType(Packets) /\ q.readQ # << >> /\ q' = QueueRead(q)
  BY DEF IInv, TypeOK, Read, Empty
<1>2. q.readQ \in Seq(Packets) /\ q.writeQ \in Seq(Packets)
  BY <1>1 DEF QueueType
<1>3. q'.readQ = Tail(q.readQ) /\ q'.writeQ = q.writeQ /\ q'.maxQSize = q.maxQSize
  BY <1>1 DEF QueueRead, QueueType
<1>4. /\ Len(q.readQ) \in Nat /\ Len(q.readQ) > 0 /\ Len(Tail(q.readQ)) = Len(q.readQ) - 1
      /\ Tail(q.readQ) \in Seq(Packets)
  BY <1>1, <1>2
<1>5. Tail(q.readQ) \o q.writeQ = Tail(Items)
  BY <1>1, <1>2, TailJoins DEF Items
<1>6. QED BY <1>3, <1>4, <1>5 DEF Items, Fifo!Take

LEMMA ResetMaps == IInv /\ Reset => Fifo!Clear
<1> SUFFICES ASSUME IInv, Reset PROVE Fifo!Clear
  OBVIOUS
<1>1. q \in QueueType(Packets) /\ q' = QueueReset(q)
  BY DEF IInv, TypeOK, Reset
<1>2. q'.readQ = << >> /\ q'.writeQ = << >> /\ q'.maxQSize = q.maxQSize
  BY <1>1 DEF QueueReset, QueueType
<1>3. q'.readQ \o q'.writeQ = << >> /\ Len(q'.readQ) = 0
  BY <1>2
<1>4. QED BY <1>2, <1>3 DEF Fifo!Clear

LEMMA ResizeMaps == \A n \in Sizes : IInv /\ InitMaxSize(n) => Fifo!Resize
<1> SUFFICES ASSUME NEW n \in Sizes, IInv, InitMaxSize(n) PROVE Fifo!Resize
  OBVIOUS
<1>1. q \in QueueType(Packets) /\ Occupancy(q) <= n /\ q' = [q EXCEPT !.maxQSize = n]
  BY DEF IInv, TypeOK, InitMaxSize
<1>2. q'.readQ = q.readQ /\ q'.writeQ = q.writeQ /\ q'.maxQSize = n
  BY <1>1 DEF QueueType
<1>3. Len(Items) <= n
  BY <1>1 DEF Items, Occupancy, QueueType
<1>4. QED BY <1>2, <1>3 DEF Items, Fifo!Resize

(* FlushIf(): what survives on the two sides survives in order in the items, *)
(* and is visible if it was.  The map of the items is that of the read side, *)
(* then that of the write side behind it.                                    *)
LEMMA FlushMaps == \A Match \in SUBSET Packets : IInv /\ FlushIf(Match) => Fifo!Cancel(Match)
<1> SUFFICES ASSUME NEW Match \in SUBSET Packets, IInv, FlushIf(Match)
             PROVE  Fifo!Cancel(Match)
  OBVIOUS
<1>1. q \in QueueType(Packets) /\ Len(q.delayQ) = Len(q.writeQ)
  BY DEF IInv, TypeOK
<1>2. PICK ww \in SurvivorMaps(q.writeQ, Match), rw \in SurvivorMaps(q.readQ, Match) :
        q' = QueueFlush(q, Match, ww, rw)
  BY DEF FlushIf
<1> DEFINE a == q.readQ
           b == q.writeQ
           n == Len(rw) + Len(ww)
           w == [i \in 1..n |-> IF i <= Len(rw) THEN rw[i] ELSE Len(a) + ww[i - Len(rw)]]
<1>3. FlushEffect(Packets, Match, q, q', ww, rw)
  BY <1>1, <1>2, FlushHasEffect
<1>4. /\ a \in Seq(Packets) /\ b \in Seq(Packets)
      /\ q'.readQ \in Seq(Packets) /\ q'.writeQ \in Seq(Packets)
  BY <1>1, <1>3 DEF QueueType, FlushEffect
<1>5. /\ Len(q'.readQ) = Len(rw) /\ Len(q'.writeQ) = Len(ww) /\ q'.maxQSize = q.maxQSize
      /\ \A i \in 1..Len(rw) : q'.readQ[i] = a[rw[i]]
      /\ \A i \in 1..Len(ww) : q'.writeQ[i] = b[ww[i]]
      /\ IsSurvivorMap(a, Match, rw) /\ IsSurvivorMap(b, Match, ww)
  BY <1>3 DEF FlushEffect
<1> HIDE DEF a, b
<1>6. /\ Len(rw) \in Nat /\ Len(ww) \in Nat /\ Len(a) \in Nat /\ Len(b) \in Nat
      /\ Len(rw) <= Len(a) /\ Len(ww) <= Len(b)
      /\ \A i \in 1..Len(rw) : rw[i] \in 1..Len(a)
      /\ \A i \in 1..Len(ww) : ww[i] \in 1..Len(b)
  <2>1. rw \in Seq(1..Len(a)) /\ ww \in Seq(1..Len(b))
    BY <1>5 DEF IsSurvivorMap
  <2>2. Len(rw) \in Nat /\ Len(ww) \in Nat /\ Len(a) \in Nat /\ Len(b) \in Nat
    BY <1>4, <2>1
  <2>3. QED BY <1>5, <2>2 DEF IsSurvivorMap
<1>6a. /\ \A i, j \in 1..Len(rw) : i < j => rw[i] < rw[j]
       /\ \A i, j \in 1..Len(ww) : i < j => ww[i] < ww[j]
       /\ \A k \in 1..Len(a) : a[k] \notin Match <=> \E i \in 1..Len(rw) : rw[i] = k
       /\ \A k \in 1..Len(b) : b[k] \notin Match <=> \E i \in 1..Len(ww) : ww[i] = k
  BY <1>5 DEF IsSurvivorMap
<1>7. Items = a \o b /\ Items \in Seq(Packets) /\ Joined(Items, a, b)
  BY <1>4, ConcatJoins DEF Items, a, b
<1>8. Items' \in Seq(Packets) /\ Joined(Items', q'.readQ, q'.writeQ)
  BY <1>4, ConcatJoins DEF Items
<1>9. n \in 0..Len(Items)
  BY <1>6, <1>7 DEF Joined
<1>10. ASSUME NEW i \in 1..n
       PROVE  /\ i <= Len(rw) => i \in 1..Len(rw) /\ w[i] = rw[i]
              /\ ~(i <= Len(rw)) => /\ i - Len(rw) \in 1..Len(ww)
                                    /\ w[i] = Len(a) + ww[i - Len(rw)]
  BY <1>6
<1>11. w \in [1..n -> 1..Len(Items)]
  <2>1. ASSUME NEW i \in 1..n PROVE w[i] \in 1..Len(Items)
    <3>1. Len(Items) = Len(a) + Len(b)
      BY <1>7 DEF Joined
    <3> HIDE DEF w, n
    <3>2. CASE i <= Len(rw)
      BY <1>6, <1>10, <3>1, <3>2
    <3>3. CASE ~(i <= Len(rw))
      BY SMTT(60), <1>6, <1>10, <3>1, <3>3
    <3>4. QED BY <3>2, <3>3
  <2>2. QED BY <2>1
<1> HIDE DEF w
<1>12. \A i, j \in 1..n : i < j => w[i] < w[j]
  <2> SUFFICES ASSUME NEW i \in 1..n, NEW j \in 1..n, i < j PROVE w[i] < w[j]
    OBVIOUS
  <2>1. i \in Nat /\ j \in Nat
    BY <1>6
  <2>2. CASE j <= Len(rw)
    BY <1>6, <1>6a, <1>10, <2>1, <2>2
  <2>3. CASE i <= Len(rw) /\ ~(j <= Len(rw))
    BY SMTT(60), <1>6, <1>10, <2>1, <2>3
  <2>4. CASE ~(i <= Len(rw))
    <3>1. ~(j <= Len(rw)) /\ i - Len(rw) < j - Len(rw)
      BY <1>6, <2>1, <2>4
    <3>2. ww[i - Len(rw)] < ww[j - Len(rw)]
      BY <1>6, <1>6a, <1>10, <2>4, <3>1
    <3>3. ww[i - Len(rw)] \in Nat /\ ww[j - Len(rw)] \in Nat
      BY SMTT(30), <1>6, <1>10, <2>4, <3>1
    <3>4. QED BY SMTT(60), <1>6, <1>10, <2>4, <3>1, <3>2, <3>3
  <2>5. QED BY <2>2, <2>3, <2>4
<1>13. \A k \in 1..Len(Items) : Items[k] \notin Match <=> \E i \in 1..n : w[i] = k
  <2> SUFFICES ASSUME NEW k \in 1..Len(Items)
               PROVE  Items[k] \notin Match <=> \E i \in 1..n : w[i] = k
    OBVIOUS
  <2>1. k \in Nat /\ Len(Items) = Len(a) + Len(b)
    BY <1>7 DEF Joined
  <2>2. CASE k <= Len(a)
    <3>1. k \in 1..Len(a) /\ Items[k] = a[k]
      BY <1>6, <1>7, <2>1, <2>2 DEF Joined
    <3>2. ASSUME NEW i \in 1..Len(rw), rw[i] = k PROVE \E j \in 1..n : w[j] = k
      <4>1. i \in 1..n /\ i <= Len(rw)
        BY <1>6 DEF n
      <4>2. w[i] = k
        BY <1>10, <3>2, <4>1
      <4>3. QED BY <4>1, <4>2
    <3>3. ASSUME NEW i \in 1..n, w[i] = k PROVE \E j \in 1..Len(rw) : rw[j] = k
      <4>1. i <= Len(rw)
        <5>1. SUFFICES ASSUME ~(i <= Len(rw)) PROVE FALSE
          OBVIOUS
        <5>2. w[i] = Len(a) + ww[i - Len(rw)] /\ i - Len(rw) \in 1..Len(ww)
          BY <1>10, <5>1
        <5>3. ww[i - Len(rw)] \in 1..Len(b)
          BY <1>6, <5>2
        <5> DEFINE v == ww[i - Len(rw)]
        <5>4. k = Len(a) + v /\ v \in 1..Len(b)
          BY <3>3, <5>2, <5>3
        <5> HIDE DEF v
        <5>5. QED BY <1>6, <2>2, <5>4
      <4>2. QED BY <1>10, <3>3, <4>1
    <3>4. QED BY <1>6a, <3>1, <3>2, <3>3
  <2>3. CASE ~(k <= Len(a))
    <3>1. k - Len(a) \in 1..Len(b) /\ Items[k] = b[k - Len(a)]
      BY <1>6, <1>7, <2>1, <2>3 DEF Joined
    <3>2. ASSUME NEW i \in 1..Len(ww), ww[i] = k - Len(a) PROVE \E j \in 1..n : w[j] = k
      <4>1. /\ Len(rw) + i \in 1..n /\ ~(Len(rw) + i <= Len(rw))
            /\ (Len(rw) + i) - Len(rw) = i
        BY <1>6
      <4>2. w[Len(rw) + i] = Len(a) + ww[i]
        BY <1>10, <4>1
      <4>3. QED BY <1>6, <2>1, <3>2, <4>1, <4>2
    <3>3. ASSUME NEW i \in 1..n, w[i] = k PROVE \E j \in 1..Len(ww) : ww[j] = k - Len(a)
      <4>1. ~(i <= Len(rw))
        BY SMTT(60), <1>6, <1>10, <2>1, <2>3, <3>3
      <4>2. ww[i - Len(rw)] = k - Len(a)
        <5>1. i - Len(rw) \in 1..Len(ww) /\ k = Len(a) + ww[i - Len(rw)]
          BY <1>10, <3>3, <4>1
        <5>2. ww[i - Len(rw)] \in Nat
          BY SMTT(30), <1>6, <5>1
        <5>3. QED BY SMTT(30), <1>6, <2>1, <5>1, <5>2
      <4>3. QED BY <1>10, <4>1, <4>2
    <3>4. QED BY <1>6a, <3>1, <3>2, <3>3
  <2>4. QED BY <2>2, <2>3
<1>14. Items' = [i \in 1..n |-> Items[w[i]]]
  <2>1. Len(Items') = n
    BY <1>5, <1>8 DEF Joined
  <2>2. ASSUME NEW i \in 1..n PROVE Items'[i] = Items[w[i]]
    <3>1. CASE i <= Len(rw)
      <4>1. Items'[i] = a[rw[i]]
        BY <1>5, <1>8, <1>10, <2>1, <3>1 DEF Joined
      <4>2. rw[i] \in 1..Len(a) /\ w[i] = rw[i]
        BY <1>6, <1>10, <3>1
      <4>3. Items[rw[i]] = a[rw[i]]
        BY <1>6, <1>7, <4>2 DEF Joined
      <4>4. QED BY <4>1, <4>2, <4>3
    <3>2. CASE ~(i <= Len(rw))
      <4>1. Items'[i] = b[ww[i - Len(rw)]]
        BY <1>5, <1>8, <1>10, <2>1, <3>2 DEF Joined
      <4>2. ww[i - Len(rw)] \in 1..Len(b) /\ w[i] = Len(a) + ww[i - Len(rw)]
        BY <1>6, <1>10, <3>2
      <4>3. Items[w[i]] = b[ww[i - Len(rw)]]
        <5> DEFINE k == ww[i - Len(rw)]
        <5>1. k \in Nat /\ 1 <= k /\ k <= Len(b) /\ w[i] = Len(a) + k
          BY <1>6, <4>2
        <5> HIDE DEF k
        <5>2. Len(a) \in Nat /\ Len(b) \in Nat /\ Len(Items) = Len(a) + Len(b)
          BY <1>6, <1>7 DEF Joined
        <5>3. Len(a) + k \in 1..Len(Items) /\ ~(Len(a) + k <= Len(a)) /\ (Len(a) + k) - Len(a) = k
          BY <5>1, <5>2
        <5>4. Items[Len(a) + k] = b[k]
          BY <1>7, <5>3 DEF Joined
        <5>5. QED BY <5>1, <5>4 DEF k
      <4>4. QED BY <4>1, <4>3
    <3>3. QED BY <3>1, <3>2
  <2>3. QED BY <1>8, <2>1, <2>2
<1>15. Len(q'.readQ) \in 0..n /\ \A i \in 1..n : i <= Len(q'.readQ) <=> w[i] <= Len(a)
  <2>1. Len(q'.readQ) \in 0..n
    BY <1>5, <1>6
  <2>2. ASSUME NEW i \in 1..n PROVE i <= Len(rw) <=> w[i] <= Len(a)
    <3>1. CASE i <= Len(rw)
      BY <1>6, <1>10, <3>1
    <3>2. CASE ~(i <= Len(rw))
      <4>1. w[i] = Len(a) + ww[i - Len(rw)] /\ ww[i - Len(rw)] \in 1..Len(b)
        BY <1>6, <1>10, <3>2
      <4>2. ~(w[i] <= Len(a))
        BY <1>6, <4>1
      <4>3. QED BY <3>2, <4>2
    <3>3. QED BY <3>1, <3>2
  <2>3. QED BY <1>5, <2>1, <2>2
<1> HIDE DEF n
<1>16. \E m \in 0..Len(Items) : \E x \in [1..m -> 1..Len(Items)] :
         /\ \A i, j \in 1..m : i < j => x[i] < x[j]
         /\ \A k \in 1..Len(Items) : Items[k] \notin Match <=> \E i \in 1..m : x[i] = k
         /\ Items' = [i \in 1..m |-> Items[x[i]]]
         /\ Len(q.readQ)' \in 0..m
         /\ \A i \in 1..m : i <= Len(q.readQ)' <=> x[i] <= Len(q.readQ)
  <2> WITNESS n \in 0..Len(Items)
  <2> WITNESS w \in [1..n -> 1..Len(Items)]
  <2> QED BY <1>12, <1>13, <1>14, <1>15 DEF a
<1>17. QED BY <1>5, <1>16 DEF Items, Fifo!Cancel

-----------------------------------------------------------------------------
LEMMA NextMaps == IInv /\ [Next]_vars => [Fifo!Next]_(Fifo!vars)
<1> SUFFICES ASSUME IInv, [Next]_vars PROVE [Fifo!Next]_(Fifo!vars)
  OBVIOUS
<1>1. CASE Work
  BY <1>1, WorkMaps
<1>2. CASE Read
  BY <1>2, ReadMaps DEF Fifo!Next
<1>3. CASE Reset
  BY <1>3, ResetMaps DEF Fifo!Next
<1>4. CASE \E p \in Packets : Write(p)
  BY <1>4, WriteMaps DEF Fifo!Next
<1>5. CASE \E Match \in SUBSET Packets : FlushIf(Match)
  BY <1>5, FlushMaps DEF Fifo!Next
<1>6. CASE \E n \in Sizes : InitMaxSize(n)
  BY <1>6, ResizeMaps DEF Fifo!Next
<1>7. CASE (\E l \in Latencies : SetLatency(l)) \/ (\E b \in BOOLEAN : SetStall(b))
  <2>1. q \in QueueType(Packets)
    BY DEF IInv, TypeOK
  <2>2. q'.readQ = q.readQ /\ q'.writeQ = q.writeQ /\ q'.maxQSize = q.maxQSize
    BY <1>7, <2>1 DEF SetLatency, SetStall, QueueType
  <2>3. QED BY <2>2, SettingMaps
<1>8. CASE Observe \/ UNCHANGED vars
  <2>1. q' = q
    BY <1>8 DEF Observe, vars
  <2>2. QED BY <2>1, SettingMaps
<1>9. QED BY <1>1, <1>2, <1>3, <1>4, <1>5, <1>6, <1>7, <1>8 DEF Next

(* Whatever is written, promoted, read, cancelled, resized, stalled or reset, *)
(* in whatever order and with whatever latencies, the two deques behave as    *)
(* one bounded FIFO with a visible front: no packet is lost, duplicated or    *)
(* overtaken (sim_queue.hpp: Write, Work, Read, FlushIf, Reset, InitMaxSize).*)
THEOREM QueueImplementsFifo == Spec => ImplementsFifo
<1>1. QED
  BY InitEstablishesIInv, NextPreservesIInv, InitMaps, NextMaps, PTL
     DEF Spec, ImplementsFifo, Fifo!Spec
=============================================================================

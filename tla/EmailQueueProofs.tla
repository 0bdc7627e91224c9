-------------------------- MODULE EmailQueueProofs --------------------------
(***************************************************************************)
(* Theorems about EmailQueue, for any number of mails, processes, workers, *)
(* retries and faults: its safety invariant, and that every step is one of *)
(* EmailDelivery.                                                          *)
(***************************************************************************)
EXTENDS EmailQueue, FiniteSetTheorems, TLAPS

USE EmailQueueAssumption

(* What has ended is not counted any more.                                 *)
Settled == \A m \in Mails : ~ Pending(m) => failures[m] = 0

IInv == TypeOK /\ OnePlace /\ Settled
-----------------------------------------------------------------------------
(* The queue of a process is that of some process.                         *)
LEMMA HomeType == \A p \in Processes : Home(p) \in Processes
BY DEF Home, First

(* A mail that is appended is the only one that waits now and did not.     *)
LEMMA AppendWaits ==
    ASSUME TypeOK, NEW q \in Processes, NEW m \in Mails,
           ready' = [ready EXCEPT ![q] = Append(@, m)]
    PROVE  /\ ready' \in [Processes -> Seq(Mails)]
           /\ \A p \in Processes, n \in Mails : Waits(p, n)' <=> Waits(p, n) \/ (p = q /\ n = m)
<1>1. ready[q] \in Seq(Mails) /\ ready \in [Processes -> Seq(Mails)]
  BY DEF TypeOK
<1> DEFINE s == ready[q]
           t == Append(s, m)
<1>2. /\ t \in Seq(Mails) /\ Len(t) = Len(s) + 1 /\ Len(s) \in Nat /\ t[Len(s) + 1] = m
      /\ \A i \in 1 .. Len(s) : t[i] = s[i]
  BY <1>1
<1>3. ready' \in [Processes -> Seq(Mails)]
  BY <1>1, <1>2
<1>4. \A p \in Processes : ready'[p] = IF p = q THEN t ELSE ready[p]
  BY <1>1
<1> HIDE DEF t
<1>5. \A n \in Mails : (\E i \in 1 .. Len(t) : t[i] = n) <=> (\E i \in 1 .. Len(s) : s[i] = n) \/ n = m
  BY <1>2
<1> QED BY <1>3, <1>4, <1>5 DEF Waits

(* If it did not wait before, the list still holds every mail once.        *)
LEMMA AppendDistinct ==
    ASSUME TypeOK, OnePlace, NEW q \in Processes, NEW m \in Mails, ~ Waits(q, m),
           ready' = [ready EXCEPT ![q] = Append(@, m)]
    PROVE  \A p \in Processes : Once(ready'[p])
<1>1. ready[q] \in Seq(Mails) /\ ready \in [Processes -> Seq(Mails)]
  BY DEF TypeOK
<1> DEFINE s == ready[q]
           t == Append(s, m)
<1>2. /\ Len(t) = Len(s) + 1 /\ Len(s) \in Nat /\ t[Len(s) + 1] = m
      /\ \A i \in 1 .. Len(s) : t[i] = s[i]
  BY <1>1
<1>3. \A p \in Processes : ready'[p] = IF p = q THEN t ELSE ready[p]
  BY <1>1
<1> HIDE DEF t
<1>4. \A i, j \in 1 .. Len(s) : s[i] = s[j] => i = j
  BY DEF OnePlace, Once
<1>5. \A i \in 1 .. Len(s) : s[i] # m
  BY DEF Waits
<1>6. Once(t)
  BY <1>2, <1>4, <1>5 DEF Once
<1> QED BY <1>3, <1>6 DEF OnePlace

(* The mail at the head of the list no longer waits once it is taken off.  *)
LEMMA TailWaits ==
    ASSUME TypeOK, OnePlace, NEW q \in Processes, ready[q] # <<>>,
           ready' = [ready EXCEPT ![q] = Tail(@)]
    PROVE  /\ ready' \in [Processes -> Seq(Mails)] /\ Head(ready[q]) \in Mails
           /\ Waits(q, Head(ready[q]))
           /\ \A p \in Processes, n \in Mails :
                 Waits(p, n)' <=> Waits(p, n) /\ ~ (p = q /\ n = Head(ready[q]))
           /\ \A p \in Processes : Once(ready'[p])
<1>1. ready[q] \in Seq(Mails) /\ ready \in [Processes -> Seq(Mails)]
  BY DEF TypeOK
<1> DEFINE s == ready[q]
           t == Tail(s)
<1>2. /\ t \in Seq(Mails) /\ Len(s) \in Nat \ {0} /\ Len(t) = Len(s) - 1 /\ Head(s) = s[1]
      /\ \A i \in 1 .. Len(s) - 1 : t[i] = s[i + 1]
  BY <1>1
<1>3. s[1] \in Mails
  BY <1>1, <1>2
<1>4. \A i, j \in 1 .. Len(s) : s[i] = s[j] => i = j
  BY DEF OnePlace, Once
<1>5. \A p \in Processes : ready'[p] = IF p = q THEN t ELSE ready[p]
  BY <1>1
<1>6. ready' \in [Processes -> Seq(Mails)]
  BY <1>1, <1>2
<1> HIDE DEF t
<1>7. \A n \in Mails : (\E i \in 1 .. Len(t) : t[i] = n)
                       <=> (\E i \in 1 .. Len(s) : s[i] = n) /\ n # s[1]
  <2> SUFFICES ASSUME NEW n \in Mails
               PROVE  (\E i \in 1 .. Len(t) : t[i] = n)
                      <=> (\E i \in 1 .. Len(s) : s[i] = n) /\ n # s[1]
    OBVIOUS
  <2>1. ASSUME NEW i \in 1 .. Len(t), t[i] = n
        PROVE  (\E k \in 1 .. Len(s) : s[k] = n) /\ n # s[1]
    <3>1. i + 1 \in 1 .. Len(s) /\ s[i + 1] = n /\ 1 \in 1 .. Len(s) /\ i + 1 # 1
      BY <1>2, <2>1
    <3> QED BY <3>1, <1>4
  <2>2. ASSUME NEW i \in 1 .. Len(s), s[i] = n, n # s[1]
        PROVE  \E k \in 1 .. Len(t) : t[k] = n
    <3>1. i - 1 \in 1 .. Len(t) /\ t[i - 1] = n
      BY <1>2, <2>2
    <3> QED BY <3>1
  <2> QED BY <2>1, <2>2
<1>8. Once(t)
  <2> SUFFICES ASSUME NEW i \in 1 .. Len(t), NEW j \in 1 .. Len(t), t[i] = t[j] PROVE i = j
    BY DEF Once
  <2>1. i + 1 \in 1 .. Len(s) /\ j + 1 \in 1 .. Len(s) /\ s[i + 1] = s[j + 1]
    BY <1>2
  <2>2. i + 1 = j + 1
    BY <2>1, <1>4
  <2> QED BY <2>2
<1>9. Waits(q, s[1])
  BY <1>2 DEF Waits
<1>10. Head(ready[q]) = s[1]
  BY <1>2
<1> HIDE DEF s
<1>11. \A n \in Mails : Waits(q, n)' <=> (\E i \in 1 .. Len(t) : t[i] = n)
  BY <1>5 DEF Waits
<1>12. \A n \in Mails : Waits(q, n) <=> (\E i \in 1 .. Len(s) : s[i] = n)
  BY DEF Waits, s
<1>13. \A p \in Processes, n \in Mails : p # q => (Waits(p, n)' <=> Waits(p, n))
  BY <1>5 DEF Waits
<1>14. \A p \in Processes : Once(ready'[p])
  BY <1>5, <1>8 DEF OnePlace
<1>15. ASSUME NEW p \in Processes, NEW n \in Mails
       PROVE  Waits(p, n)' <=> Waits(p, n) /\ ~ (p = q /\ n = s[1])
  <2>1. CASE p = q
    BY <1>7, <1>11, <1>12, <2>1
  <2>2. CASE p # q
    BY <1>13, <2>2
  <2> QED BY <2>1, <2>2
<1> QED BY <1>3, <1>6, <1>9, <1>10, <1>14, <1>15
-----------------------------------------------------------------------------
(* Init establishes the invariant.                                         *)
LEMMA InitIInv == Init => IInv
<1> SUFFICES ASSUME Init PROVE IInv
  OBVIOUS
<1>1. <<>> \in Seq(Mails) /\ Len(<<>>) = 0
  OBVIOUS
<1>2. TypeOK
  BY <1>1 DEF Init, TypeOK
<1>3. \A p \in Processes, m \in Mails : ~ Waits(p, m) /\ retries[p] = {} /\ hands[p] = {}
  BY <1>1 DEF Init, Waits
<1>4. OnePlace
  <2>1. \A p \in Processes : Once(ready[p])
    BY <1>1 DEF Init, Once
  <2> QED BY <1>3, <2>1 DEF OnePlace
<1>5. Settled
  BY DEF Init, Settled
<1> QED BY <1>2, <1>4, <1>5 DEF IInv

(* The places of a mail, and what follows from their being apart.          *)
LEMMA NowhereElse ==
    ASSUME OnePlace, NEW p \in Processes, NEW m \in Mails, m \in hands[p]
    PROVE  \A q \in Processes : ~ Waits(q, m) /\ m \notin retries[q] /\ (m \in hands[q] => q = p)
BY DEF OnePlace

(* A mail that leaves the hands of a worker for good is nowhere.           *)
LEMMA EndsEnd ==
    ASSUME IInv, NEW p \in Processes, NEW m \in Mails, m \in hands[p],
           NEW how \in {"sent", "dropped", "lost"}, Ends(p, m, how)
    PROVE  /\ ~ Pending(m)'
           /\ \A n \in Mails \ {m} : Pending(n)' <=> Pending(n)
           /\ failures' = [failures EXCEPT ![m] = 0] /\ outcome' = [outcome EXCEPT ![m] = how]
<1>1. \A q \in Processes : ~ Waits(q, m) /\ m \notin retries[q] /\ (m \in hands[q] => q = p)
  BY NowhereElse DEF IInv
<1>2. \A q \in Processes, n \in Mails :
         /\ Waits(q, n)' <=> Waits(q, n)
         /\ n \in retries'[q] <=> n \in retries[q]
         /\ n \in hands'[q] <=> n \in hands[q] /\ ~ (q = p /\ n = m)
  BY DEF Ends, IInv, TypeOK, Waits
<1> QED BY <1>1, <1>2 DEF Ends, Pending

(* Ending keeps the invariant.                                             *)
LEMMA EndsKeepsIInv ==
    ASSUME IInv, NEW p \in Processes, NEW m \in Mails, m \in hands[p],
           NEW how \in {"sent", "dropped", "lost"}, Ends(p, m, how), faults' \in 0 .. MaxFaults
    PROVE  IInv'
<1> USE DEF IInv, Ends, staff
<1>1. TypeOK'
  BY DEF TypeOK
<1>2. \A q \in Processes, n \in Mails :
         /\ Waits(q, n)' <=> Waits(q, n)
         /\ n \in retries'[q] <=> n \in retries[q]
         /\ n \in hands'[q] => n \in hands[q]
  BY DEF TypeOK, Waits
<1>3. OnePlace'
  BY <1>2 DEF OnePlace
<1>4. Settled'
  BY EndsEnd DEF Settled, TypeOK
<1> QED BY <1>1, <1>3, <1>4

(* So does every step a process takes with a mail.                         *)
LEMMA ProcessKeepsIInv ==
    ASSUME IInv, NEW p \in Processes, NEW m \in Mails, Process(p, m)
    PROVE  IInv'
<1>1. CASE Sent(p, m)
  BY <1>1, EndsKeepsIInv DEF Sent, IInv, TypeOK
<1>2. CASE Dropped(p, m)
  BY <1>2, EndsKeepsIInv DEF Dropped, IInv, TypeOK
<1>3. CASE RetryLost(p, m)
  <2>1. faults' \in 0 .. MaxFaults
    BY <1>3 DEF RetryLost, Fails, IInv, TypeOK
  <2> QED BY <1>3, <2>1, EndsKeepsIInv DEF RetryLost
<1>4. CASE ScheduleRetry(p, m)
  <2> USE <1>4, HomeType DEF IInv, ScheduleRetry
  <2>1. TypeOK'
    BY DEF TypeOK, Last, Fails, staff
  <2>2. \A q \in Processes, n \in Mails :
           /\ Waits(q, n)' <=> Waits(q, n)
           /\ n \in retries'[q] <=> n \in retries[q] \/ (q = Home(p) /\ n = m)
           /\ n \in hands'[q] <=> n \in hands[q] /\ ~ (q = p /\ n = m)
    BY DEF TypeOK, Waits
  <2>3. \A q \in Processes : ~ Waits(q, m) /\ m \notin retries[q] /\ (m \in hands[q] => q = p)
    BY NowhereElse
  <2>4. OnePlace'
    BY <2>2, <2>3 DEF OnePlace
  <2>5. \A n \in Mails : Pending(n)' <=> Pending(n)
    BY <2>2, <2>3 DEF Pending
  <2>6. Pending(m)
    BY DEF Pending
  <2>7. Settled'
    BY <2>5, <2>6 DEF Settled, TypeOK
  <2> QED BY <2>1, <2>4, <2>7
<1> QED BY <1>1, <1>2, <1>3, <1>4 DEF Process

(* And every other step.                                                   *)
LEMMA EnqueueKeepsIInv ==
    ASSUME IInv, NEW p \in Processes, NEW m \in Mails, Enqueue(p, m)
    PROVE  IInv'
<1> USE HomeType DEF IInv, Enqueue, staff
<1>1. /\ ready' \in [Processes -> Seq(Mails)]
      /\ \A q \in Processes, n \in Mails :
            Waits(q, n)' <=> Waits(q, n) \/ (q = Home(p) /\ n = m)
  BY AppendWaits
<1>2. \A q \in Processes : ~ Waits(q, m) /\ m \notin retries[q] /\ m \notin hands[q]
  BY DEF Pending
<1>3. \A q \in Processes : Once(ready'[q])
  BY <1>2, AppendDistinct
<1>4. TypeOK'
  BY <1>1 DEF TypeOK
<1>5. OnePlace'
  BY <1>1, <1>2, <1>3 DEF OnePlace
<1>6. \A n \in Mails : Pending(n) => Pending(n)'
  BY <1>1 DEF Pending
<1>7. Settled'
  BY <1>6 DEF Settled
<1> QED BY <1>4, <1>5, <1>7

LEMMA DequeueKeepsIInv ==
    ASSUME IInv, NEW p \in Processes, Dequeue(p)
    PROVE  IInv' /\ \A n \in Mails : Pending(n)' <=> Pending(n)
<1> USE HomeType DEF IInv, Dequeue, staff
<1>0. PICK m \in Mails : m = Head(ready[Home(p)])
  BY TailWaits
<1>1. /\ ready' \in [Processes -> Seq(Mails)] /\ Waits(Home(p), m)
      /\ \A q \in Processes, n \in Mails :
            Waits(q, n)' <=> Waits(q, n) /\ ~ (q = Home(p) /\ n = m)
      /\ \A q \in Processes : Once(ready'[q])
  BY <1>0, TailWaits
<1>2. \A q \in Processes, n \in Mails :
         /\ n \in hands'[q] <=> n \in hands[q] \/ (q = p /\ n = m)
         /\ n \in retries'[q] <=> n \in retries[q]
  BY <1>0 DEF TypeOK
<1>3. TypeOK'
  BY <1>0, <1>1 DEF TypeOK
<1>4. \A q \in Processes :
         ~ Waits(q, m)' /\ m \notin retries[q] /\ m \notin hands[q]
  <2>1. Home(p) \in Processes
    BY HomeType
  <2>2. \A q \in Processes : m \notin retries[q] /\ m \notin hands[q]
    BY <1>1, <2>1 DEF OnePlace
  <2>3. \A q \in Processes : Waits(q, m) => q = Home(p)
    BY <1>1, <2>1 DEF OnePlace
  <2> QED BY <1>1, <2>2, <2>3
<1>5. OnePlace'
  BY <1>1, <1>2, <1>4 DEF OnePlace
<1>6. \A n \in Mails : Pending(n)' <=> Pending(n)
  BY <1>1, <1>2 DEF Pending
<1>7. Settled'
  BY <1>6 DEF Settled
<1> QED BY <1>3, <1>5, <1>6, <1>7

LEMMA PromoteKeepsIInv ==
    ASSUME IInv, NEW o \in Processes, NEW m \in Mails, PromoteDueRetries(o, m)
    PROVE  IInv' /\ \A n \in Mails : Pending(n)' <=> Pending(n)
<1>0. PICK q \in Processes : q = Home(o)
  BY HomeType
<1> USE <1>0 DEF IInv, PromoteDueRetries, TakenOut, staff
<1>1. /\ ready' \in [Processes -> Seq(Mails)]
      /\ \A p \in Processes, n \in Mails :
            Waits(p, n)' <=> Waits(p, n) \/ (p = q /\ n = m)
  BY AppendWaits
<1>2. \A p \in Processes :
         ~ Waits(p, m) /\ (m \in retries[p] => p = q) /\ m \notin hands[p]
  BY DEF OnePlace
<1>3. \A p \in Processes : Once(ready'[p])
  BY <1>2, AppendDistinct
<1>4. TypeOK'
  BY <1>1 DEF TypeOK
<1>5. \A p \in Processes, n \in Mails :
         /\ n \in retries'[p] <=> n \in retries[p] /\ ~ (p = q /\ n = m)
         /\ n \in hands'[p] <=> n \in hands[p]
  BY DEF TypeOK
<1>6. OnePlace'
  BY <1>1, <1>2, <1>3, <1>5 DEF OnePlace
<1>7. \A n \in Mails : Pending(n)' <=> Pending(n)
  BY <1>1, <1>5 DEF Pending
<1>8. Settled'
  BY <1>7 DEF Settled
<1> QED BY <1>4, <1>6, <1>7, <1>8

(* A mail popped by a call whose reply is lost is nowhere, and the others  *)
(* are where they were.                                                    *)
LEMMA DequeueLoses ==
    ASSUME IInv, NEW p \in Processes, DequeueLost(p)
    PROVE  /\ IInv'
           /\ \E m \in Mails :
                 /\ Pending(m) /\ ~ Pending(m)'
                 /\ \A n \in Mails \ {m} : Pending(n)' <=> Pending(n)
                 /\ outcome' = [outcome EXCEPT ![m] = "lost"]
                 /\ failures' = [failures EXCEPT ![m] = 0]
<1> USE HomeType DEF IInv, DequeueLost, staff
<1>0. PICK m \in Mails : m = Head(ready[Home(p)])
  BY TailWaits
<1>1. /\ ready' \in [Processes -> Seq(Mails)] /\ Waits(Home(p), m)
      /\ \A q \in Processes, n \in Mails :
            Waits(q, n)' <=> Waits(q, n) /\ ~ (q = Home(p) /\ n = m)
      /\ \A q \in Processes : Once(ready'[q])
  BY <1>0, TailWaits
<1>2. /\ outcome' = [outcome EXCEPT ![m] = "lost"] /\ failures' = [failures EXCEPT ![m] = 0]
      /\ faults' \in 0 .. MaxFaults
  BY <1>0 DEF Fails, TypeOK
<1>3. TypeOK'
  BY <1>1, <1>2 DEF TypeOK
<1>4. OnePlace'
  BY <1>1 DEF OnePlace
<1>5. Pending(m) /\ \A n \in Mails \ {m} : Pending(n)' <=> Pending(n)
  BY <1>1 DEF Pending
<1>6. ~ Pending(m)'
  <2>1. \A q \in Processes :
           m \notin retries[q] /\ m \notin hands[q] /\ (Waits(q, m) => q = Home(p))
    BY <1>1 DEF OnePlace
  <2> QED BY <1>1, <2>1 DEF Pending
<1>7. Settled'
  BY <1>2, <1>5, <1>6 DEF Settled, TypeOK
<1> QED BY <1>2, <1>3, <1>4, <1>5, <1>6, <1>7

(* Goroutines that exit take no mail along.                                *)
LEMMA ExitsKeepIInv ==
    ASSUME IInv, NEW p \in Processes, WorkerExits(p) \/ PromoterExits(p)
    PROVE  IInv' /\ faults < MaxFaults /\ faults' = faults + 1
           /\ \A n \in Mails : Pending(n)' <=> Pending(n)
<1> USE DEF IInv
<1>1. /\ faults < MaxFaults /\ faults' = faults + 1
      /\ UNCHANGED <<backend, ready, retries, hands, mailers, failures, outcome>>
  BY DEF WorkerExits, PromoterExits, Fails
<1>2. workers' \in [Processes -> 0 .. Workers] /\ promoting' \subseteq mailers
  <2>1. CASE WorkerExits(p)
    <3>1. IsFiniteSet(hands[p]) /\ Cardinality(hands[p]) \in Nat
      <4>1. IsFiniteSet(hands[p])
        BY FS_Subset DEF TypeOK
      <4> QED BY <4>1, FS_CardinalityType
    <3>2. workers[p] - 1 \in 0 .. Workers
      BY <2>1, <3>1 DEF WorkerExits, HasIdleWorker, TypeOK
    <3> QED BY <2>1, <3>2 DEF WorkerExits, TypeOK
  <2>2. CASE PromoterExits(p)
    BY <2>2 DEF PromoterExits, TypeOK
  <2> QED BY <2>1, <2>2
<1>3. TypeOK'
  BY <1>1, <1>2 DEF TypeOK
<1>4. \A q \in Processes, n \in Mails : Waits(q, n)' <=> Waits(q, n)
  BY <1>1 DEF Waits
<1>5. OnePlace' /\ Settled' /\ \A n \in Mails : Pending(n)' <=> Pending(n)
  BY <1>1, <1>4 DEF OnePlace, Settled, Pending
<1> QED BY <1>1, <1>3, <1>5

(* A crash loses the mails in the hands of the process, and those in its   *)
(* queue in memory; the others stay where they are.                        *)
LEMMA CrashLoses ==
    ASSUME IInv, NEW p \in Processes, Crash(p)
    PROVE  /\ IInv'
           /\ \E gone \in SUBSET Mails :
                 /\ \A m \in gone : Pending(m) /\ ~ Pending(m)' /\ m \notin Kept
                 /\ \A m \in Mails \ gone : Pending(m)' <=> Pending(m)
                 /\ outcome' = [m \in Mails |-> IF m \in gone THEN "lost" ELSE outcome[m]]
                 /\ failures' = [m \in Mails |-> IF m \in gone THEN 0 ELSE failures[m]]
<1> USE DEF IInv
<1> DEFINE gone == hands[p] \union
                   IF backend = "redis" THEN {} ELSE retries[p] \union {m \in Mails : Waits(p, m)}
<1>0. gone \subseteq Mails
  BY DEF TypeOK
<1>1. /\ outcome' = [m \in Mails |-> IF m \in gone THEN "lost" ELSE outcome[m]]
      /\ failures' = [m \in Mails |-> IF m \in gone THEN 0 ELSE failures[m]]
      /\ hands' = [hands EXCEPT ![p] = {}]
      /\ ready' = IF backend = "redis" THEN ready ELSE [ready EXCEPT ![p] = <<>>]
      /\ retries' = IF backend = "redis" THEN retries ELSE [retries EXCEPT ![p] = {}]
      /\ backend' = backend /\ faults < MaxFaults /\ faults' = faults + 1
      /\ workers' = [workers EXCEPT ![p] = IF p \in mailers THEN Workers ELSE 0]
      /\ promoting' = promoting \union ({p} \intersect mailers) /\ mailers' = mailers
  BY DEF Crash, Fails
<1>2. \A q \in Processes, m \in Mails :
         /\ Waits(q, m)' <=> Waits(q, m) /\ (backend = "redis" \/ q # p)
         /\ m \in retries'[q] <=> m \in retries[q] /\ (backend = "redis" \/ q # p)
         /\ m \in hands'[q] <=> m \in hands[q] /\ q # p
  <2>1. CASE backend = "redis"
    BY <1>1, <2>1 DEF TypeOK, Waits
  <2>2. CASE backend # "redis"
    BY <1>1, <2>2 DEF TypeOK, Waits
  <2> QED BY <2>1, <2>2
<1>3. \A m \in Mails : m \in gone <=>
         m \in hands[p] \/ (backend # "redis" /\ (m \in retries[p] \/ Waits(p, m)))
  OBVIOUS
<1> HIDE DEF gone
<1>4. TypeOK'
  <2>1. ready' \in [Processes -> Seq(Mails)] /\ retries' \in [Processes -> SUBSET Mails]
    <3>1. <<>> \in Seq(Mails)
      OBVIOUS
    <3> QED BY <1>1, <3>1 DEF TypeOK
  <2>2. outcome' \in [Mails -> {"none", "sent", "dropped", "lost"}]
    BY <1>1 DEF TypeOK
  <2>3. failures' \in [Mails -> 0 .. MaxRetries] /\ faults' \in 0 .. MaxFaults
    BY <1>1 DEF TypeOK
  <2>4. workers' \in [Processes -> 0 .. Workers] /\ promoting' \subseteq mailers'
    BY <1>1 DEF TypeOK
  <2> QED BY <1>1, <2>1, <2>2, <2>3, <2>4 DEF TypeOK
<1>5. \A q \in Processes : Once(ready'[q])
  BY <1>1 DEF OnePlace, Once, TypeOK
<1>6. OnePlace'
  BY <1>2, <1>5 DEF OnePlace
<1>7. \A m \in gone : Pending(m) /\ ~ Pending(m)' /\ m \notin Kept
  <2>1. \A m \in gone : Pending(m) /\ ~ Pending(m)'
    BY <1>0, <1>2, <1>3 DEF OnePlace, Pending
  <2>2. ASSUME NEW m \in gone, m \in Kept PROVE FALSE
    <3>1. PICK q \in Processes : backend = "redis" /\ (Waits(q, m) \/ m \in retries[q])
      BY <2>2 DEF Kept
    <3>2. m \in hands[p]
      BY <1>0, <1>3, <2>2, <3>1
    <3> QED BY <1>0, <3>1, <3>2, NowhereElse
  <2> QED BY <2>1, <2>2
<1>8. \A m \in Mails \ gone : Pending(m)' <=> Pending(m)
  BY <1>2, <1>3 DEF Pending
<1>9. Settled'
  BY <1>1, <1>8 DEF Settled
<1> QED BY <1>0, <1>1, <1>4, <1>6, <1>7, <1>8, <1>9

(* The invariant is inductive.                                             *)
LEMMA NextIInv == IInv /\ [Next]_vars => IInv'
<1> SUFFICES ASSUME IInv, [Next]_vars PROVE IInv'
  OBVIOUS
<1>1. CASE UNCHANGED vars
  BY <1>1 DEF vars, staff, IInv, TypeOK, OnePlace, Settled, Pending, Waits
<1> QED
  BY <1>1, ProcessKeepsIInv, EnqueueKeepsIInv, DequeueKeepsIInv, DequeueLoses, ExitsKeepIInv,
     PromoteKeepsIInv, CrashLoses
     DEF Next

(* Lists, retries, hands and counts stay well typed.                       *)
THEOREM QueueTypes == Spec => []TypeOK
<1>1. IInv => TypeOK
  BY DEF IInv
<1> QED BY InitIInv, NextIInv, <1>1, PTL DEF Spec

(* A mail is in one list, one retry set or one worker's hands at a time    *)
(* (Dequeue pops, and the promotion moves in one script or under the lock).*)
THEOREM MailInOnePlace == Spec => []OnePlace
<1>1. IInv => OnePlace
  BY DEF IInv
<1> QED BY InitIInv, NextIInv, <1>1, PTL DEF Spec
-----------------------------------------------------------------------------
(* What a step that concerns one mail does to the fates of all.            *)
LEMMA OneFate ==
    ASSUME NEW m \in Mails, NEW r,
           \A n \in Mails \ {m} : /\ Pending(n)' <=> Pending(n)
                                  /\ failures'[n] = failures[n] /\ outcome'[n] = outcome[n],
           [state |-> IF Pending(m)' THEN "pending" ELSE outcome'[m], failures |-> failures'[m]] = r
    PROVE  Fates' = [Fates EXCEPT ![m] = r]
BY DEF Fates

(* No mail is better or worse off for being moved.                         *)
LEMMA SameFates ==
    ASSUME \A n \in Mails : Pending(n)' <=> Pending(n), UNCHANGED <<failures, outcome>>
    PROVE  Fates' = Fates
BY DEF Fates

(* Who is served and what is kept is for the promise to take as it comes.  *)
LEMMA AnyEnvironment == Delivery!Environment
BY DEF Delivery!Environment, Served, Kept

(* Init is the initial state of the promise.                               *)
LEMMA InitImplements == Init => Delivery!Init
<1> SUFFICES ASSUME Init PROVE Delivery!Init
  OBVIOUS
<1>1. \A m \in Mails : ~ Pending(m) /\ outcome[m] = "none" /\ failures[m] = 0
  <2>1. Len(<<>>) = 0
    OBVIOUS
  <2> QED BY <2>1 DEF Init, Pending, Waits
<1>2. Fates = [m \in Mails |-> [state |-> "none", failures |-> 0]]
  BY <1>1 DEF Fates
<1>3. Served = {} /\ Kept = {} /\ faults = 0
  <2>1. \A p \in Processes, m \in Mails : ~ Waits(p, m) /\ m \notin retries[p] /\ m \notin hands[p]
    <3>1. Len(<<>>) = 0
      OBVIOUS
    <3> QED BY <3>1 DEF Init, Waits
  <2> QED BY <2>1 DEF Served, Kept, Init
<1> QED BY <1>2, <1>3 DEF Delivery!Init, Delivery!New

(* Ending in the hands of a worker is ending.                              *)
LEMMA EndsImplements ==
    ASSUME IInv, NEW p \in Processes, NEW m \in Mails, m \in hands[p],
           NEW how \in {"sent", "dropped", "lost"}, Ends(p, m, how)
    PROVE  /\ Fates[m].state = "pending"
           /\ Fates' = [Fates EXCEPT ![m] = [state |-> how, failures |-> 0]]
<1>1. Pending(m)
  BY DEF Pending
<1>2. failures'[m] = 0 /\ outcome'[m] = how
  BY EndsEnd DEF IInv, TypeOK
<1>3. \A n \in Mails \ {m} : /\ Pending(n)' <=> Pending(n)
                             /\ failures'[n] = failures[n] /\ outcome'[n] = outcome[n]
  BY EndsEnd DEF IInv, TypeOK
<1>4. Fates' = [Fates EXCEPT ![m] = [state |-> how, failures |-> 0]]
  <2>1. ~ Pending(m)'
    BY EndsEnd
  <2> HIDE DEF Pending
  <2> QED BY <1>2, <1>3, <2>1, OneFate
<1>5. Fates[m].state = "pending"
  BY <1>1 DEF Fates
<1> QED BY <1>4, <1>5

(* What a worker does with a mail is what the promise allows.              *)
LEMMA ProcessImplements ==
    ASSUME IInv, NEW p \in Processes, NEW m \in Mails, Process(p, m)
    PROVE  Delivery!Next
<1>0. /\ Fates[m].failures = failures[m] /\ Fates \in [Mails -> {Fates[n] : n \in Mails}]
      /\ failures[m] \in 0 .. MaxRetries
  BY DEF Fates, IInv, TypeOK
<1>1. CASE Sent(p, m)
  <2>1. Delivery!Ends(m, "sent")
    BY <1>1, EndsImplements DEF Sent, Delivery!Ends
  <2> QED BY <1>1, <2>1, AnyEnvironment DEF Sent, Delivery!Next, Delivery!Deliver
<1>2. CASE Dropped(p, m)
  <2>1. Delivery!Ends(m, "dropped")
    BY <1>2, EndsImplements DEF Dropped, Delivery!Ends
  <2>2. m \in Broken \/ failures[m] = MaxRetries
    BY <1>0, <1>2 DEF Dropped, Last
  <2> QED BY <1>0, <2>1, <2>2, AnyEnvironment DEF Delivery!Next, Delivery!Drop
<1>3. CASE RetryLost(p, m)
  <2>2. /\ Fates[m].state = "pending"
        /\ Fates' = [Fates EXCEPT ![m] = [state |-> "lost", failures |-> 0]]
    BY <1>3, EndsImplements DEF RetryLost
  <2>3. Fates' = [n \in Mails |-> IF n \in {m} THEN [state |-> "lost", failures |-> 0]
                                  ELSE Fates[n]]
    BY <2>2 DEF Fates
  <2>4. Delivery!Fault
    BY <1>3 DEF RetryLost, Fails, Delivery!Fault
  <2>5. Delivery!Lose({m})
    BY <2>2, <2>3, <2>4 DEF Delivery!Lose
  <2> QED BY <2>5, AnyEnvironment DEF Delivery!Next
<1>4. CASE ScheduleRetry(p, m)
  <2>1. \A q \in Processes, n \in Mails :
           /\ Waits(q, n)' <=> Waits(q, n)
           /\ n \in retries'[q] <=> n \in retries[q] \/ (q = Home(p) /\ n = m)
           /\ n \in hands'[q] <=> n \in hands[q] /\ ~ (q = p /\ n = m)
    BY <1>4, HomeType DEF ScheduleRetry, IInv, TypeOK, Waits
  <2>2. Pending(m) /\ Pending(m)'
    BY <1>4, <2>1, HomeType DEF ScheduleRetry, Pending
  <2>3. \A n \in Mails \ {m} : /\ Pending(n)' <=> Pending(n)
                               /\ failures'[n] = failures[n] /\ outcome'[n] = outcome[n]
    <3>1. \A n \in Mails \ {m} : Pending(n)' <=> Pending(n)
      BY <2>1 DEF Pending
    <3> QED BY <1>4, <3>1 DEF ScheduleRetry, IInv, TypeOK
  <2>4. failures'[m] = failures[m] + 1
    BY <1>4 DEF ScheduleRetry, IInv, TypeOK
  <2> DEFINE r == [state |-> "pending", failures |-> failures[m] + 1]
  <2>5. Fates' = [Fates EXCEPT ![m] = r]
    BY <2>2, <2>3, <2>4, OneFate
  <2>6. Fates[m] = [state |-> "pending", failures |-> failures[m]]
    BY <2>2 DEF Fates
  <2>7. r = [Fates[m] EXCEPT !.failures = @ + 1]
    BY <2>6
  <2>8. Fates' = [Fates EXCEPT ![m].failures = @ + 1]
    BY <2>5, <2>7
  <2>9. Fates[m].state = "pending" /\ Fates[m].failures < MaxRetries /\ m \notin Broken
    BY <1>0, <1>4, <2>6 DEF ScheduleRetry, Last
  <2>10. Delivery!Fault \/ UNCHANGED faults
    BY <1>4 DEF ScheduleRetry, Fails, Delivery!Fault
  <2> QED BY <2>8, <2>9, <2>10, AnyEnvironment DEF Delivery!Next, Delivery!Fail
<1> QED BY <1>1, <1>2, <1>3, <1>4 DEF Process

(* Taking a mail is taking on the promise.                                 *)
LEMMA EnqueueImplements ==
    ASSUME IInv, NEW p \in Processes, NEW m \in Mails, Enqueue(p, m)
    PROVE  Delivery!Next
<1>1. \A q \in Processes, n \in Mails :
         /\ Waits(q, n)' <=> Waits(q, n) \/ (q = Home(p) /\ n = m)
         /\ retries' = retries /\ hands' = hands
  BY HomeType, AppendWaits DEF Enqueue, IInv
<1>2. ~ Pending(m) /\ Pending(m)'
  BY <1>1, HomeType DEF Enqueue, Pending
<1>3. \A n \in Mails \ {m} : /\ Pending(n)' <=> Pending(n)
                             /\ failures'[n] = failures[n] /\ outcome'[n] = outcome[n]
  BY <1>1 DEF Enqueue, IInv, TypeOK, Pending
<1>4. failures'[m] = 0
  BY <1>2 DEF Enqueue, IInv, Settled
<1>5. Fates' = [Fates EXCEPT ![m] = [state |-> "pending", failures |-> 0]]
  BY <1>2, <1>3, <1>4, OneFate
<1>6. Fates[m].state # "pending"
  BY <1>2 DEF Fates, IInv, TypeOK
<1>7. UNCHANGED faults
  BY DEF Enqueue
<1> QED BY <1>5, <1>6, <1>7, AnyEnvironment DEF Delivery!Next, Delivery!Accept

(* A crash loses some mails, or none, and none that Redis keeps.           *)
LEMMA CrashImplements ==
    ASSUME IInv, NEW p \in Processes, Crash(p)
    PROVE  Delivery!Next
<1>1. PICK gone \in SUBSET Mails :
         /\ \A m \in gone : Pending(m) /\ ~ Pending(m)' /\ m \notin Kept
         /\ \A m \in Mails \ gone : Pending(m)' <=> Pending(m)
         /\ outcome' = [m \in Mails |-> IF m \in gone THEN "lost" ELSE outcome[m]]
         /\ failures' = [m \in Mails |-> IF m \in gone THEN 0 ELSE failures[m]]
  BY CrashLoses
<1>2. Fates' = [m \in Mails |-> IF m \in gone THEN [state |-> "lost", failures |-> 0] ELSE Fates[m]]
  BY <1>1 DEF Fates
<1>3. \A m \in gone : Fates[m].state = "pending"
  BY <1>1 DEF Fates
<1>4. Delivery!Fault /\ gone \intersect Kept = {}
  BY <1>1 DEF Crash, Fails, Delivery!Fault
<1>5. Delivery!Lose(gone)
  BY <1>2, <1>3, <1>4 DEF Delivery!Lose
<1> QED BY <1>5, AnyEnvironment DEF Delivery!Next

(* A reply that is lost loses one mail.                                    *)
LEMMA DequeueLostImplements ==
    ASSUME IInv, NEW p \in Processes, DequeueLost(p)
    PROVE  Delivery!Next
<1>1. PICK m \in Mails :
         /\ Pending(m) /\ ~ Pending(m)'
         /\ \A n \in Mails \ {m} : Pending(n)' <=> Pending(n)
         /\ outcome' = [outcome EXCEPT ![m] = "lost"]
         /\ failures' = [failures EXCEPT ![m] = 0]
  BY DequeueLoses
<1>2. outcome'[m] = "lost" /\ failures'[m] = 0
      /\ \A n \in Mails \ {m} : outcome'[n] = outcome[n] /\ failures'[n] = failures[n]
  BY <1>1 DEF IInv, TypeOK
<1>3. Fates' = [n \in Mails |-> IF n \in {m} THEN [state |-> "lost", failures |-> 0]
                                ELSE Fates[n]]
  BY <1>1, <1>2 DEF Fates
<1>4. Fates[m].state = "pending"
  BY <1>1 DEF Fates
<1>6. Delivery!Fault
  BY DEF DequeueLost, Fails, Delivery!Fault
<1>7. Delivery!Lose({m})
  BY <1>3, <1>4, <1>6 DEF Delivery!Lose
<1> QED BY <1>7, AnyEnvironment DEF Delivery!Next

(* A goroutine that exits is a fault that loses nothing.                   *)
LEMMA ExitsImplement ==
    ASSUME IInv, NEW p \in Processes, WorkerExits(p) \/ PromoterExits(p)
    PROVE  Delivery!Next
<1>1. /\ faults < MaxFaults /\ faults' = faults + 1
      /\ \A n \in Mails : Pending(n)' <=> Pending(n)
  BY ExitsKeepIInv
<1>2. UNCHANGED <<failures, outcome>>
  BY DEF WorkerExits, PromoterExits
<1>3. Fates' = Fates
  BY <1>1, <1>2, SameFates
<1>4. Fates' = [n \in Mails |-> IF n \in {} THEN [state |-> "lost", failures |-> 0] ELSE Fates[n]]
  BY <1>3 DEF Fates
<1>5. Delivery!Lose({})
  BY <1>1, <1>4 DEF Delivery!Lose, Delivery!Fault
<1> QED BY <1>5, AnyEnvironment DEF Delivery!Next

(* Every step of the queue is a step of the promise.                       *)
LEMMA NextImplements == IInv /\ [Next]_vars => [Delivery!Next]_(Delivery!vars)
<1> SUFFICES ASSUME IInv, [Next]_vars PROVE Delivery!Next
  BY DEF Delivery!vars
<1>1. CASE UNCHANGED vars
  <2>1. Fates' = Fates /\ UNCHANGED faults
    BY <1>1 DEF vars, Fates, Pending, Waits
  <2> QED BY <2>1, AnyEnvironment DEF Delivery!Next, Delivery!Move
<1>2. ASSUME NEW p \in Processes, Dequeue(p) PROVE Delivery!Next
  <2>1. Fates' = Fates
    BY <1>2, DequeueKeepsIInv, SameFates DEF Dequeue
  <2> QED BY <1>2, <2>1, AnyEnvironment DEF Dequeue, Delivery!Next, Delivery!Move
<1>3. ASSUME NEW p \in Processes, NEW m \in Mails, PromoteDueRetries(p, m) PROVE Delivery!Next
  <2>1. Fates' = Fates
    BY <1>3, PromoteKeepsIInv, SameFates DEF PromoteDueRetries
  <2> QED BY <1>3, <2>1, AnyEnvironment DEF PromoteDueRetries, Delivery!Next, Delivery!Move
<1> QED
  BY <1>1, <1>2, <1>3, ProcessImplements, EnqueueImplements, CrashImplements,
     DequeueLostImplements, ExitsImplement DEF Next

(* Whatever crashes and whoever retries, the queue keeps the safety part of*)
(* the promise EmailDelivery states: no mail is given up before its last   *)
(* attempt but in a call that fails or with its process, and none is       *)
(* attempted again that has ended (processJob).                            *)
THEOREM QueueImplementsDelivery == Spec => Delivery!Safety
<1> QED BY InitIInv, NextIInv, InitImplements, NextImplements, PTL DEF Spec, Delivery!Safety
=============================================================================

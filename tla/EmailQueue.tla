----------------------------- MODULE EmailQueue -----------------------------
(***************************************************************************)
(* The queue of the email service (services/email_async_service.go): a list*)
(* of ready mails and a set of mails to be tried again.  All processes     *)
(* share one in Redis (email/queue/redis), or each has its own in memory   *)
(* (email/queue/inmemory).  The workers of a process take mails off the    *)
(* list and have them in their hands only; a process that only serves HTTP *)
(* (run apiserver) enqueues, but has no workers.                           *)
(***************************************************************************)
EXTENDS Naturals, Sequences, FiniteSets

CONSTANTS
    Mails,       \* ids of jobs
    Broken,      \* jobs whose payload does not decode or render
    Processes,
    Workers,     \* of a process that has any
    Capacity,    \* of the list, if it is in memory
    MaxRetries,
    MaxFaults    \* bound: crashes, and calls of the queue that fail

ASSUME EmailQueueAssumption ==
    /\ Workers \in Nat \ {0} /\ Capacity \in Nat \ {0}
    /\ MaxRetries \in Nat /\ MaxFaults \in Nat
    /\ IsFiniteSet(Mails) /\ Broken \subseteq Mails

VARIABLES
    backend,   \* "redis" or "inmemory", for good
    ready,     \* the lists
    retries,   \* the sets
    hands,     \* the mails the workers of each process are at
    mailers,   \* processes that start the email service, for good
    workers,   \* goroutines that run, of each process
    promoting, \* processes whose promoter runs
    failures,  \* attempts of a job, as its payload counts them
    outcome,   \* ghost: how each mail ended when it last did
    faults

staff == <<mailers, workers, promoting>>
vars == <<backend, ready, retries, hands, staff, failures, outcome, faults>>

(* The queue of a process: its own, or the one of them all.                *)
First == CHOOSE p \in Processes : TRUE
Home(p) == IF backend = "redis" THEN First ELSE p

HasRoom(q) == backend = "redis" \/ Len(ready[q]) < Capacity

Waits(q, m) == \E i \in 1 .. Len(ready[q]) : ready[q][i] = m
Pending(m) == \E p \in Processes : Waits(p, m) \/ m \in retries[p] \/ m \in hands[p]

Init ==
    /\ backend \in {"redis", "inmemory"}
    /\ ready = [p \in Processes |-> <<>>]
    /\ retries = [p \in Processes |-> {}]
    /\ hands = [p \in Processes |-> {}]
    /\ mailers \in SUBSET Processes
    /\ workers = [p \in Processes |-> IF p \in mailers THEN Workers ELSE 0]
    /\ promoting = mailers
    /\ failures = [m \in Mails |-> 0]
    /\ outcome = [m \in Mails |-> "none"]
    /\ faults = 0
-----------------------------------------------------------------------------
(* RPUSH, or a send to the channel, which waits for room.                  *)
Enqueue(p, m) ==
    /\ ~ Pending(m) /\ HasRoom(Home(p))
    /\ ready' = [ready EXCEPT ![Home(p)] = Append(@, m)]
    /\ outcome' = [outcome EXCEPT ![m] = "none"]
    /\ UNCHANGED <<backend, retries, hands, staff, failures, faults>>

Fails == faults < MaxFaults /\ faults' = faults + 1

HasIdleWorker(p) == Cardinality(hands[p]) < workers[p]

(* BLPOP by an idle worker: from now on the mail is nowhere else.          *)
Dequeue(p) ==
    /\ ready[Home(p)] # <<>> /\ HasIdleWorker(p)
    /\ hands' = [hands EXCEPT ![p] = @ \union {Head(ready[Home(p)])}]
    /\ ready' = [ready EXCEPT ![Home(p)] = Tail(@)]
    /\ UNCHANGED <<backend, retries, staff, failures, outcome, faults>>

(* Redis has popped the mail, and its reply does not arrive: the worker    *)
(* tries again, and gets the next one.                                     *)
DequeueLost(p) ==
    LET m == Head(ready[Home(p)]) IN
    /\ backend = "redis" /\ ready[Home(p)] # <<>> /\ HasIdleWorker(p)
    /\ Fails
    /\ ready' = [ready EXCEPT ![Home(p)] = Tail(@)]
    /\ outcome' = [outcome EXCEPT ![m] = "lost"]
    /\ failures' = [failures EXCEPT ![m] = 0]
    /\ UNCHANGED <<backend, retries, hands, staff>>

(* An error that is, or wraps, a deadline passes for a shutdown, and ends  *)
(* the worker: runWorker returns, and nobody starts it again.              *)
WorkerExits(p) ==
    /\ backend = "redis" /\ HasIdleWorker(p)
    /\ Fails
    /\ workers' = [workers EXCEPT ![p] = @ - 1]
    /\ UNCHANGED <<backend, ready, retries, hands, mailers, promoting, failures, outcome>>

PromoterExits(p) ==
    /\ backend = "redis" /\ p \in promoting
    /\ Fails
    /\ promoting' = promoting \ {p}
    /\ UNCHANGED <<backend, ready, retries, hands, mailers, workers, failures, outcome>>

Ends(p, m, how) ==
    /\ hands' = [hands EXCEPT ![p] = @ \ {m}]
    /\ outcome' = [outcome EXCEPT ![m] = how]
    /\ failures' = [failures EXCEPT ![m] = 0]
    /\ UNCHANGED <<backend, ready, retries, staff>>

(* processJob: the mail is sent,                                           *)
Sent(p, m) ==
    /\ m \in hands[p] \ Broken
    /\ Ends(p, m, "sent")
    /\ UNCHANGED faults

(* or dropped with the last attempt.  Mutants: one too few, one too many.  *)
LastTooEarly(m) == failures[m] + 2 > MaxRetries
LastTooLate(m) == failures[m] > MaxRetries
Last(m) == failures[m] + 1 > MaxRetries

Dropped(p, m) ==
    /\ m \in hands[p] /\ (m \in Broken \/ Last(m))
    /\ Ends(p, m, "dropped")
    /\ UNCHANGED faults

(* or scheduled again, after a delay (and Redis may have done it though the*)
(* worker is told that it failed),                                         *)
ScheduleRetry(p, m) ==
    /\ m \in hands[p] \ Broken /\ ~ Last(m)
    /\ hands' = [hands EXCEPT ![p] = @ \ {m}]
    /\ failures' = [failures EXCEPT ![m] = @ + 1]
    /\ retries' = [retries EXCEPT ![Home(p)] = @ \union {m}]
    /\ UNCHANGED faults \/ (backend = "redis" /\ Fails)
    /\ UNCHANGED <<backend, ready, staff, outcome>>

(* or dropped because it cannot be: Redis is away, or the process is       *)
(* shutting down.                                                          *)
RetryLost(p, m) ==
    /\ m \in hands[p] \ Broken /\ ~ Last(m)
    /\ Fails
    /\ Ends(p, m, "lost")

Process(p, m) == Sent(p, m) \/ Dropped(p, m) \/ ScheduleRetry(p, m) \/ RetryLost(p, m)

(* PromoteDueRetries at a tick after the delay, one script for up to 200   *)
(* mails, which go one by one here.  What the list in memory has no room   *)
(* for stays, a second longer.  Mutant: what is promoted also stays.       *)
KeptBehind(q, m) == retries
TakenOut(q, m) == [retries EXCEPT ![q] = @ \ {m}]

PromoteDueRetries(p, m) ==
    LET q == Home(p) IN
    /\ p \in promoting /\ m \in retries[q] /\ HasRoom(q)
    /\ retries' = TakenOut(q, m)
    /\ ready' = [ready EXCEPT ![q] = Append(@, m)]
    /\ UNCHANGED <<backend, hands, staff, failures, outcome, faults>>

(* A process that dies takes with it what its workers have in their hands, *)
(* and the queue it has in memory.  It comes back with all its goroutines. *)
Crash(p) ==
    LET gone == hands[p] \union
                IF backend = "redis" THEN {}
                ELSE retries[p] \union {m \in Mails : Waits(p, m)} IN
    /\ Fails
    /\ outcome' = [m \in Mails |-> IF m \in gone THEN "lost" ELSE outcome[m]]
    /\ failures' = [m \in Mails |-> IF m \in gone THEN 0 ELSE failures[m]]
    /\ hands' = [hands EXCEPT ![p] = {}]
    /\ ready' = IF backend = "redis" THEN ready ELSE [ready EXCEPT ![p] = <<>>]
    /\ retries' = IF backend = "redis" THEN retries ELSE [retries EXCEPT ![p] = {}]
    /\ workers' = [workers EXCEPT ![p] = IF p \in mailers THEN Workers ELSE 0]
    /\ promoting' = promoting \union ({p} \intersect mailers)
    /\ UNCHANGED <<backend, mailers>>

Next ==
    \E p \in Processes :
       \/ Dequeue(p) \/ DequeueLost(p)
       \/ WorkerExits(p) \/ PromoterExits(p) \/ Crash(p)
       \/ \E m \in Mails :
            Enqueue(p, m) \/ Process(p, m) \/ PromoteDueRetries(p, m)

Spec == Init /\ [][Next]_vars

(* The workers that run take mails while there are any, a sender answers or*)
(* times out, and a promoter that runs ticks every second.  That a tick    *)
(* finds room in a list in memory again and again is an assumption: nothing*)
(* waits in line for it.  Nothing is assumed of a process without them.    *)
Fairness ==
    /\ \A p \in Processes : WF_vars(Dequeue(p)) /\ \A m \in Mails : WF_vars(Process(p, m))
    /\ \A p \in Processes, m \in Mails : SF_vars(PromoteDueRetries(p, m))

FairSpec == Spec /\ Fairness
-----------------------------------------------------------------------------
TypeOK ==
    /\ backend \in {"redis", "inmemory"}
    /\ ready \in [Processes -> Seq(Mails)]
    /\ retries \in [Processes -> SUBSET Mails]
    /\ hands \in [Processes -> SUBSET Mails]
    /\ mailers \subseteq Processes /\ promoting \subseteq mailers
    /\ workers \in [Processes -> 0 .. Workers]
    /\ failures \in [Mails -> 0 .. MaxRetries]
    /\ outcome \in [Mails -> {"none", "sent", "dropped", "lost"}]
    /\ faults \in 0 .. MaxFaults

Once(list) == \A i, j \in 1 .. Len(list) : list[i] = list[j] => i = j

(* A mail is in one place at a time: no two workers send it, and no retry  *)
(* is scheduled for a mail that waits in a list.                           *)
OnePlace ==
    /\ \A p \in Processes : Once(ready[p])
    /\ \A p, q \in Processes, m \in Mails :
          /\ p # q => /\ ~ (Waits(p, m) /\ Waits(q, m))
                      /\ ~ (m \in retries[p] /\ m \in retries[q])
                      /\ ~ (m \in hands[p] /\ m \in hands[q])
          /\ ~ (Waits(p, m) /\ m \in retries[q])
          /\ ~ (Waits(p, m) /\ m \in hands[q])
          /\ ~ (m \in retries[p] /\ m \in hands[q])

(* A mail that is in none of the places has ended, in the way last noted.  *)
Fates ==
    [m \in Mails |-> [state |-> IF Pending(m) THEN "pending" ELSE outcome[m],
                      failures |-> failures[m]]]

(* Somebody comes to a mail: a worker that has it, or a worker and a       *)
(* promoter that run at the queue it is in.                                *)
Attended(q) ==
    /\ \E p \in Processes : Home(p) = q /\ workers[p] > 0
    /\ \E p \in promoting : Home(p) = q
Served ==
    {m \in Mails : \E p \in Processes :
         m \in hands[p] \/ (Attended(p) /\ (Waits(p, m) \/ m \in retries[p]))}

Kept ==
    {m \in Mails : backend = "redis" /\ \E p \in Processes : Waits(p, m) \/ m \in retries[p]}

Delivery == INSTANCE EmailDelivery WITH fates <- Fates, served <- Served, kept <- Kept

(* Every mail the queue takes is tried until it is sent, or as often as it *)
(* may be, as long as a worker and a promoter are left at its queue; it is *)
(* lost only with a process or in a call of the queue that fails, and a    *)
(* process takes with it nothing that waits in Redis.                      *)
Delivered == Delivery!Spec
=============================================================================

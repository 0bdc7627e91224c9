--------------------------- MODULE ThumbnailJobs ---------------------------
(***************************************************************************)
(* Thumbnail generation jobs (services/thumbnail_generation_service.go and *)
(* its worker) and the slots that limit them (table user_concurrency_slots,*)
(* registry/postgres).  A tick of the worker starts a goroutine for every  *)
(* pending job and waits for them half a minute; they live for two.  Each  *)
(* transaction is one action.                                              *)
(***************************************************************************)
EXTENDS Naturals, FiniteSets

CONSTANTS
    Jobs,          \* ids of jobs, in the order they are created
    Files, Users,
    Requests,      \* handlers: a viewer, or a delete of a file
    Goroutines,    \* of all ticks and processes
    Cap,           \* THUMBNAIL_MAX_CONCURRENT_PER_USER
    MaxAttempts,
    MaxStops,      \* bound: goroutines that die, or outlive their deadline
    Null

ASSUME ThumbnailJobsAssumption ==
    /\ Jobs \subseteq Nat /\ {Cap, MaxAttempts} \subseteq Nat \ {0} /\ MaxStops \in Nat
    /\ IsFiniteSet(Jobs) /\ Null \notin Files \union Users \union Jobs

VARIABLES
    files,     \* the rows there are
    jobs,      \* thumbnail_generation_jobs
    slots,     \* user_concurrency_slots
    requests,  \* the file a handler is at, and how far it is
    runs,      \* the job of a goroutine, as it read it, and how far it is
    stops,
    robbed     \* ghost: goroutines whose slot somebody else deleted

vars == <<files, jobs, slots, requests, runs, stops, robbed>>

Statuses == {"unborn", "pending", "processing", "completed", "failed", "deleted"}

Rows  == [file : Files \union {Null}, user : Users \union {Null}, status : Statuses,
          attempts : 0 .. MaxAttempts]
Slots == [job : Jobs, user : Users, old : BOOLEAN]

Handling == [pc : {"idle", "creating", "jobs", "row"},
             file : Files \union {Null}, user : Users \union {Null}]
RunPcs   == {"idle", "read", "slotted", "marked", "started", "generated", "failed",
             "refusing", "completing", "ended"}
Running  == [pc : RunPcs, job : Jobs \union {Null}, row : Rows]

Unborn  == [file |-> Null, user |-> Null, status |-> "unborn", attempts |-> 0]
Waiting == [pc |-> "idle", file |-> Null, user |-> Null]
Idle    == [pc |-> "idle", job |-> Null, row |-> Unborn]

Born == {j \in Jobs : jobs[j].status \notin {"unborn", "deleted"}}

JobsOf(f) == {j \in Born : jobs[j].file = f}

Working(g, j) == runs[g].job = j /\ runs[g].pc \notin {"idle", "read"}

Init ==
    /\ files = Files
    /\ jobs = [j \in Jobs |-> Unborn]
    /\ slots = {}
    /\ requests = [p \in Requests |-> Waiting]
    /\ runs = [g \in Goroutines |-> Idle]
    /\ stops = 0
    /\ robbed = {}
-----------------------------------------------------------------------------
(* RequestThumbnailGeneration: the latest job of the file is looked up, and*)
(* another one created if there is none or it failed.                      *)
CheckExistingJob(p, f, u) ==
    /\ requests[p].pc = "idle" /\ f \in files
    /\ \A j \in JobsOf(f) :
         (\A k \in JobsOf(f) : k <= j) => jobs[j].status = "failed"
    /\ requests' = [requests EXCEPT ![p] = [pc |-> "creating", file |-> f, user |-> u]]
    /\ UNCHANGED <<files, jobs, slots, runs, stops, robbed>>

CreateJob(p, j) ==
    /\ requests[p].pc = "creating"
    /\ jobs[j].status = "unborn" /\ \A k \in Jobs : k < j => jobs[k].status # "unborn"
    /\ jobs' = IF requests[p].file \in files
               THEN [jobs EXCEPT ![j] = [file |-> requests[p].file, user |-> requests[p].user,
                                         status |-> "pending", attempts |-> 0]]
               ELSE jobs
    /\ requests' = [requests EXCEPT ![p] = Waiting]
    /\ UNCHANGED <<files, slots, runs, stops, robbed>>

(* deleteThumbnailGenerationChain, slots before jobs, and the row of the   *)
(* file: a slot holds its job, a job its file, and the call then fails.    *)
DeleteSlots(p, f) ==
    /\ requests[p].pc = "idle" /\ f \in files
    /\ slots' = {s \in slots : s.job \notin JobsOf(f)}
    /\ robbed' = robbed \union {g \in Goroutines : \E j \in JobsOf(f) : Working(g, j)}
    /\ requests' = [requests EXCEPT ![p] = [pc |-> "jobs", file |-> f, user |-> Null]]
    /\ UNCHANGED <<files, jobs, runs, stops>>

DeleteJobs(p) ==
    LET gone == JobsOf(requests[p].file)
        held == \E s \in slots : s.job \in gone IN
    /\ requests[p].pc = "jobs"
    /\ jobs' = IF held THEN jobs
               ELSE [j \in Jobs |-> IF j \in gone THEN [jobs[j] EXCEPT !.status = "deleted"]
                                    ELSE jobs[j]]
    /\ requests' = [requests EXCEPT ![p] = IF held THEN Waiting ELSE [@ EXCEPT !.pc = "row"]]
    /\ UNCHANGED <<files, slots, runs, stops, robbed>>

DeleteFile(p) ==
    /\ requests[p].pc = "row"
    /\ files' = IF JobsOf(requests[p].file) = {} THEN files \ {requests[p].file} ELSE files
    /\ requests' = [requests EXCEPT ![p] = Waiting]
    /\ UNCHANGED <<jobs, slots, runs, stops, robbed>>

RequestNext(p) ==
    \/ \E f \in Files : DeleteSlots(p, f) \/ \E u \in Users : CheckExistingJob(p, f, u)
    \/ \E j \in Jobs : CreateJob(p, j)
    \/ DeleteJobs(p) \/ DeleteFile(p)
-----------------------------------------------------------------------------
(* ProcessThumbnailGeneration.                                             *)

(* The goroutine of a pending job reads it.                                *)
GetJob(g, j) ==
    /\ runs[g].pc = "idle" /\ jobs[j].status = "pending"
    /\ runs' = [runs EXCEPT ![g] = [pc |-> "read", job |-> j, row |-> jobs[j]]]
    /\ UNCHANGED <<files, jobs, slots, requests, stops, robbed>>

(* The limits of 50 and 10 slots GetUserSlots is asked for before are never*)
(* met: AcquireSlot inserts a row without an id, and the empty string is   *)
(* unique as an id just as the job is.  Mutant: it is unique in nothing.   *)
TakenByNobody(j) == FALSE
Taken(j) == slots # {} \/ \E s \in slots : s.job = j

AcquireSlot(g) ==
    LET j == runs[g].job
        u == runs[g].row.user IN
    /\ runs[g].pc = "read"
    /\ \/ /\ j \in Born /\ ~ Taken(j)
          /\ Cardinality({s \in slots : s.user = u}) < Cap
          /\ slots' = slots \union {[job |-> j, user |-> u, old |-> FALSE]}
          /\ runs' = [runs EXCEPT ![g].pc = "slotted"]
       \/ /\ \/ j \notin Born \/ Taken(j)
             \/ Cardinality({s \in slots : s.user = u}) >= Cap
          /\ slots' = slots
          /\ runs' = [runs EXCEPT ![g] = Idle]
    /\ UNCHANGED <<files, jobs, requests, stops, robbed>>

(* UpdateJobStatus writes one column, and is content with no row.          *)
WithStatus(j, status) ==
    IF j \in Born THEN [jobs EXCEPT ![j].status = status] ELSE jobs

MarkProcessing(g) ==
    /\ runs[g].pc = "slotted"
    /\ jobs' = WithStatus(runs[g].job, "processing")
    /\ runs' = [runs EXCEPT ![g].pc = "marked"]
    /\ UNCHANGED <<files, slots, requests, stops, robbed>>

(* Update writes all columns, and the row read first is pending.  Its      *)
(* errors are logged.  Mutant: a row without a status.                     *)
WithoutStatus(j, row) ==
    IF j \in Born THEN [jobs EXCEPT ![j] = [row EXCEPT !.status = Null]] ELSE jobs
WithRow(j, row) == IF j \in Born THEN [jobs EXCEPT ![j] = row] ELSE jobs

WriteStarted(g) ==
    /\ runs[g].pc = "marked"
    /\ jobs' = WithRow(runs[g].job, runs[g].row)
    /\ runs' = [runs EXCEPT ![g].pc = "started"]
    /\ UNCHANGED <<files, slots, requests, stops, robbed>>

(* markJobFailed counts the attempt, as far as the comparison that follows *)
(* can tell.  Mutant: it does not.                                         *)
FailedUncounted(row) == row
Failed(row) == [row EXCEPT !.attempts = IF @ < MaxAttempts THEN @ + 1 ELSE @]

(* The file is read and its thumbnails generated, or not.                  *)
GenerateThumbnails(g) ==
    /\ runs[g].pc = "started"
    /\ \/ /\ runs[g].row.file \in files
          /\ runs' = [runs EXCEPT ![g].pc = "generated"]
       \/ runs' = [runs EXCEPT ![g].pc = "failed", ![g].row = Failed(@)]
    /\ UNCHANGED <<files, jobs, slots, requests, stops, robbed>>

WriteEnded(g) ==
    /\ runs[g].pc \in {"generated", "failed"}
    /\ jobs' = WithRow(runs[g].job, runs[g].row)
    /\ runs' = [runs EXCEPT ![g].pc = IF @ = "failed" THEN "refusing" ELSE "completing"]
    /\ UNCHANGED <<files, slots, requests, stops, robbed>>

MarkEnded(g) ==
    /\ runs[g].pc \in {"refusing", "completing"}
    /\ jobs' = WithStatus(runs[g].job,
                 IF runs[g].pc = "completing" THEN "completed"
                 ELSE IF runs[g].row.attempts < MaxAttempts THEN "pending" ELSE "failed")
    /\ runs' = [runs EXCEPT ![g].pc = "ended"]
    /\ UNCHANGED <<files, slots, requests, stops, robbed>>

ReleaseSlot(g) ==
    /\ runs[g].pc = "ended"
    /\ slots' = {s \in slots : s.job # runs[g].job}
    /\ robbed' = {h \in Goroutines : h # g /\ (h \in robbed \/ Working(h, runs[g].job))}
    /\ runs' = [runs EXCEPT ![g] = Idle]
    /\ UNCHANGED <<files, jobs, requests, stops>>

(* The process dies, or the deadline makes every further query fail, that  *)
(* of the deferred release included.                                       *)
Stop(g) ==
    /\ runs[g].pc # "idle" /\ stops < MaxStops
    /\ stops' = stops + 1
    /\ robbed' = robbed \ {g}
    /\ runs' = [runs EXCEPT ![g] = Idle]
    /\ UNCHANGED <<files, jobs, slots, requests>>

Process(g) ==
    \/ AcquireSlot(g) \/ MarkProcessing(g) \/ WriteStarted(g) \/ GenerateThumbnails(g)
    \/ WriteEnded(g) \/ MarkEnded(g) \/ ReleaseSlot(g)
-----------------------------------------------------------------------------
(* performCleanup.  No goroutine lives for an hour, or a day.              *)

(* An hour is literal: THUMBNAIL_SLOT_DURATION is not looked at.           *)
HourPasses ==
    /\ \E s \in slots : ~ s.old
    /\ \A s \in slots, g \in Goroutines : ~ Working(g, s.job)
    /\ slots' = {[s EXCEPT !.old = TRUE] : s \in slots}
    /\ UNCHANGED <<files, jobs, requests, runs, stops, robbed>>

(* Mutant: a slot is taken to belong to its job while that is pending.     *)
ExpiredUnneeded == {s \in slots : s.old /\ jobs[s.job].status # "pending"}
Expired == {s \in slots : s.old}

CleanupExpiredSlots ==
    /\ Expired # {}
    /\ slots' = slots \ Expired
    /\ UNCHANGED <<files, jobs, requests, runs, stops, robbed>>

(* After a day, in one statement, which a slot on one of the jobs fails.   *)
CleanupCompletedJobs ==
    LET ended == {j \in Jobs : jobs[j].status \in {"completed", "failed"}} IN
    /\ ended # {} /\ \A s \in slots : s.job \notin ended
    /\ \A g \in Goroutines : runs[g].job \notin ended
    /\ jobs' = [j \in Jobs |-> IF j \in ended THEN [jobs[j] EXCEPT !.status = "deleted"]
                               ELSE jobs[j]]
    /\ UNCHANGED <<files, slots, requests, runs, stops, robbed>>

Next ==
    \/ \E p \in Requests : RequestNext(p)
    \/ \E g \in Goroutines : Process(g) \/ Stop(g) \/ \E j \in Jobs : GetJob(g, j)
    \/ HourPasses \/ CleanupExpiredSlots \/ CleanupCompletedJobs

Spec == Init /\ [][Next]_vars

(* Every tick starts a goroutine for every pending job, in time the hour   *)
(* passes, and the cleanup runs every five minutes.                        *)
Fairness ==
    /\ \A g \in Goroutines : WF_vars(Process(g))
    /\ \A j \in Jobs : SF_vars(\E g \in Goroutines : GetJob(g, j))
    /\ WF_vars(HourPasses) /\ WF_vars(CleanupExpiredSlots)
-----------------------------------------------------------------------------
TypeOK ==
    /\ files \subseteq Files /\ slots \subseteq Slots /\ stops \in 0 .. MaxStops
    /\ robbed \subseteq Goroutines
    /\ jobs \in [Jobs -> Rows]
    /\ requests \in [Requests -> Handling]
    /\ runs \in [Goroutines -> Running]

(* The slot of a job is its lock, for the status is not: whoever reads a   *)
(* job that is being processed finds it pending.  No two goroutines work on*)
(* one job, unless somebody took the slot from under the first: a delete of*)
(* the file, or the release of one that was robbed itself.                 *)
OneGeneration ==
    \A g, h \in Goroutines \ robbed, j \in Jobs :
        Working(g, j) /\ Working(h, j) => g = h

(* A user waits for a slot only as long as they have as many as they may.  *)
RefusedAtCap ==
    [][\A g \in Goroutines :
          runs[g].pc = "read" /\ runs'[g].pc = "idle" /\ stops' = stops =>
          LET j == runs[g].job IN
          \/ j \notin Born \/ \E s \in slots : s.job = j
          \/ Cardinality({s \in slots : s.user = jobs[j].user}) >= Cap]_vars

(* Every job is completed, has failed for good, or is gone in the end, for *)
(* all the goroutines that stop, except one that is stopped between its two*)
(* first writes: that job is processing for ever.                          *)
JobsEnd ==
    \A j \in Jobs : []<>
        \/ jobs[j].status \notin {"pending", "processing"}
        \/ jobs[j].status = "processing" /\ \A g \in Goroutines : ~ Working(g, j)

(* A slot nobody is working for comes back.                                *)
SlotsComeBack ==
    []<>(\A s \in slots : \E g \in Goroutines : Working(g, s.job))
=============================================================================

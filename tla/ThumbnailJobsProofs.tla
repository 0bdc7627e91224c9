------------------------- MODULE ThumbnailJobsProofs -------------------------
(***************************************************************************)
(* Theorems about ThumbnailJobs, for any sets of jobs, files, users,       *)
(* handlers and goroutines and any limits.                                 *)
(***************************************************************************)
EXTENDS ThumbnailJobs, TLAPS

USE ThumbnailJobsAssumption

(* A row somebody has created.                                             *)
Whole(row) == row.file \in Files /\ row.user \in Users

(* Whoever is on the way knows what about.                                 *)
Informed ==
    /\ \A j \in Born : Whole(jobs[j])
    /\ \A p \in Requests :
          /\ requests[p].pc # "idle" => requests[p].file \in Files
          /\ requests[p].pc = "creating" => requests[p].user \in Users
    /\ \A g \in Goroutines :
          runs[g].pc # "idle" => runs[g].job \in Jobs /\ Whole(runs[g].row)

(* Who works on a job holds its slot, and the hour of it is not over.      *)
Held ==
    \A g \in Goroutines \ robbed, j \in Jobs :
        Working(g, j) => \E s \in slots : s.job = j /\ ~ s.old

IInv == TypeOK /\ Informed /\ Held /\ OneGeneration
-----------------------------------------------------------------------------
(* The records of those who do nothing are well typed.                     *)
LEMMA Blanks == Unborn \in Rows /\ Waiting \in Handling /\ Idle \in Running
BY DEF Unborn, Rows, Statuses, Waiting, Handling, Idle, Running, RunPcs

(* Init establishes the invariant.                                         *)
LEMMA InitIInv == Init => IInv
<1> SUFFICES ASSUME Init PROVE IInv
  OBVIOUS
<1>1. TypeOK
  BY Blanks DEF Init, TypeOK
<1>2. Informed
  BY DEF Init, Informed, Born, Unborn, Waiting, Idle
<1>3. Held /\ OneGeneration
  BY DEF Init, Held, OneGeneration, Working, Idle
<1> QED BY <1>1, <1>2, <1>3 DEF IInv

(* A step of a handler keeps it well typed and informed.                   *)
LEMMA RequestsAreInformed ==
    ASSUME TypeOK, Informed, NEW p \in Requests, RequestNext(p)
    PROVE  TypeOK' /\ Informed'
<1> USE DEF TypeOK, Informed
<1>0. Waiting \in Handling /\ Waiting.pc = "idle"
  BY Blanks DEF Waiting
<1>1. ASSUME NEW f \in Files, NEW u \in Users, CheckExistingJob(p, f, u)
      PROVE  TypeOK' /\ Informed'
  <2>1. [pc |-> "creating", file |-> f, user |-> u] \in Handling
    BY DEF Handling
  <2> QED BY <1>1, <2>1 DEF CheckExistingJob, Born, Whole
<1>2. ASSUME NEW j \in Jobs, CreateJob(p, j) PROVE TypeOK' /\ Informed'
  <2> DEFINE row == [file |-> requests[p].file, user |-> requests[p].user,
                     status |-> "pending", attempts |-> 0]
  <2>1. row \in Rows /\ Whole(row)
    BY <1>2 DEF CreateJob, Rows, Statuses, Whole
  <2>2. jobs' = jobs \/ jobs' = [jobs EXCEPT ![j] = row]
    BY <1>2 DEF CreateJob
  <2> HIDE DEF row
  <2>3. jobs' \in [Jobs -> Rows] /\ \A k \in Born' : Whole(jobs'[k])
    BY <2>1, <2>2 DEF Born
  <2> QED BY <1>0, <1>2, <2>3 DEF CreateJob, Whole
<1>3. ASSUME NEW f \in Files, DeleteSlots(p, f) PROVE TypeOK' /\ Informed'
  <2>1. [pc |-> "jobs", file |-> f, user |-> Null] \in Handling
    BY DEF Handling
  <2> QED BY <1>3, <2>1 DEF DeleteSlots, Born, Whole
<1>4. CASE DeleteJobs(p)
  <2>1. requests' \in [Requests -> Handling]
    BY <1>0, <1>4 DEF DeleteJobs, Handling
  <2>2. jobs' \in [Jobs -> Rows]
    BY <1>4 DEF DeleteJobs, Rows, Statuses
  <2>3. \A j \in Born' : j \in Born /\ jobs'[j] = jobs[j]
    BY <1>4 DEF DeleteJobs, Born, Rows
  <2>4. \A q \in Requests : requests'[q].pc # "idle" =>
          /\ requests'[q].file = requests[q].file /\ requests[q].pc # "idle"
          /\ requests'[q].pc = "creating" =>
               requests'[q].user = requests[q].user /\ requests[q].pc = "creating"
    BY <1>0, <1>4 DEF DeleteJobs, Handling
  <2> QED BY <1>4, <2>1, <2>2, <2>3, <2>4 DEF DeleteJobs, Whole
<1>5. CASE DeleteFile(p)
  BY <1>0, <1>5 DEF DeleteFile, Born, Whole
<1> QED BY <1>1, <1>2, <1>3, <1>4, <1>5 DEF RequestNext

(* Writing a status or a row keeps the table well typed.                   *)
LEMMA Writes ==
    ASSUME TypeOK, Informed, NEW j \in Jobs,
           NEW status \in Statuses \ {"unborn", "deleted"}, NEW row \in Rows, Whole(row),
           jobs' = WithStatus(j, status) \/ jobs' = WithRow(j, row) \/ jobs' = jobs
    PROVE  jobs' \in [Jobs -> Rows] /\ \A k \in Born' : Whole(jobs'[k])
<1>1. CASE jobs' = WithStatus(j, status)
  <2>1. jobs' \in [Jobs -> Rows]
    BY <1>1 DEF TypeOK, WithStatus, Rows
  <2>2. \A k \in Born' : k \in Born /\ jobs'[k].file = jobs[k].file /\ jobs'[k].user = jobs[k].user
    BY <1>1 DEF TypeOK, WithStatus, Born, Rows
  <2> QED BY <2>1, <2>2 DEF Informed, Whole
<1>2. CASE jobs' = WithRow(j, row)
  BY <1>2 DEF TypeOK, Informed, WithRow, Born
<1>3. CASE jobs' = jobs
  BY <1>3 DEF TypeOK, Informed, Born
<1> QED BY <1>1, <1>2, <1>3

(* A goroutine that goes on with its job stays well typed and informed.    *)
LEMMA GoesOn ==
    ASSUME TypeOK, Informed, NEW g \in Goroutines, NEW pc \in RunPcs, NEW row \in Rows,
           runs[g].pc # "idle", Whole(row),
           \/ runs' = [runs EXCEPT ![g].pc = pc]
           \/ runs' = [runs EXCEPT ![g].pc = pc, ![g].row = row]
    PROVE  /\ runs' \in [Goroutines -> Running]
           /\ \A h \in Goroutines :
                 runs'[h].pc # "idle" => runs'[h].job \in Jobs /\ Whole(runs'[h].row)
<1>1. CASE runs' = [runs EXCEPT ![g].pc = pc]
  BY <1>1 DEF TypeOK, Informed, Running
<1>2. CASE runs' = [runs EXCEPT ![g].pc = pc, ![g].row = row]
  <2>1. runs[g] \in Running /\ runs[g].job \in Jobs
    BY DEF TypeOK, Informed
  <2> DEFINE r == [runs[g] EXCEPT !.pc = pc, !.row = row]
  <2>2. r \in Running /\ r.job \in Jobs /\ r.row = row
    BY <2>1 DEF Running
  <2>3. runs' = [runs EXCEPT ![g] = r]
    BY <1>2 DEF TypeOK
  <2> HIDE DEF r
  <2> QED BY <2>2, <2>3 DEF TypeOK, Informed
<1> QED BY <1>1, <1>2

(* So does every step of one.                                              *)
LEMMA GoroutinesAreInformed ==
    ASSUME TypeOK, Informed, NEW g \in Goroutines, Process(g)
    PROVE  TypeOK' /\ Informed'
<1> USE DEF TypeOK, Informed
<1> DEFINE j == runs[g].job
           row == runs[g].row
           Good == /\ runs' \in [Goroutines -> Running]
                   /\ \A h \in Goroutines :
                        runs'[h].pc # "idle" => runs'[h].job \in Jobs /\ Whole(runs'[h].row)
<1>0. Idle \in Running /\ Idle.pc = "idle"
  BY Blanks DEF Idle
<1>a. runs[g].pc # "idle"
  BY DEF Process, AcquireSlot, MarkProcessing, WriteStarted, GenerateThumbnails, WriteEnded,
         MarkEnded, ReleaseSlot
<1>b. j \in Jobs /\ row \in Rows /\ Whole(row)
  BY <1>a DEF Running
<1>d. ASSUME runs' = [runs EXCEPT ![g] = Idle] PROVE Good
  BY <1>0, <1>d
<1>e. ASSUME NEW pc \in RunPcs, runs' = [runs EXCEPT ![g].pc = pc] PROVE Good
  BY <1>a, <1>b, <1>e, GoesOn
<1>f. ASSUME jobs' = jobs PROVE \A k \in Born' : Whole(jobs'[k])
  BY <1>f DEF Born
<1> HIDE DEF Good
<1>1. CASE AcquireSlot(g)
  <2>1. Good
    <3>1. "slotted" \in RunPcs
      BY DEF RunPcs
    <3> QED BY <1>1, <1>d, <1>e, <3>1 DEF AcquireSlot
  <2>2. slots' \subseteq Slots
    <3>1. [job |-> j, user |-> row.user, old |-> FALSE] \in Slots
      BY <1>b DEF Slots, Whole
    <3> QED BY <1>1, <3>1 DEF AcquireSlot
  <2> QED BY <1>1, <1>f, <2>1, <2>2 DEF AcquireSlot, Good
<1>2. CASE MarkProcessing(g)
  <2>1. Good
    <3>1. "marked" \in RunPcs
      BY DEF RunPcs
    <3> QED BY <1>2, <1>e, <3>1 DEF MarkProcessing
  <2>2. jobs' \in [Jobs -> Rows] /\ \A k \in Born' : Whole(jobs'[k])
    <3>1. "processing" \in Statuses \ {"unborn", "deleted"}
      BY DEF Statuses
    <3> QED BY <1>2, <1>b, <3>1, Writes DEF MarkProcessing
  <2> QED BY <1>2, <2>1, <2>2 DEF MarkProcessing, Good
<1>3. CASE WriteStarted(g)
  <2>1. Good
    <3>1. "started" \in RunPcs
      BY DEF RunPcs
    <3> QED BY <1>3, <1>e, <3>1 DEF WriteStarted
  <2>2. jobs' \in [Jobs -> Rows] /\ \A k \in Born' : Whole(jobs'[k])
    <3>1. "pending" \in Statuses \ {"unborn", "deleted"}
      BY DEF Statuses
    <3> QED BY <1>3, <1>b, <3>1, Writes DEF WriteStarted
  <2> QED BY <1>3, <2>1, <2>2 DEF WriteStarted, Good
<1>4. CASE GenerateThumbnails(g)
  <2>1. Good
    <3>1. CASE runs' = [runs EXCEPT ![g].pc = "generated"]
      <4>1. "generated" \in RunPcs
        BY DEF RunPcs
      <4> QED BY <1>e, <3>1, <4>1
    <3>2. CASE runs' = [runs EXCEPT ![g].pc = "failed", ![g].row = Failed(@)]
      <4>1. Failed(row) \in Rows /\ Whole(Failed(row))
        BY <1>b DEF Failed, Rows, Whole
      <4>2. runs' = [runs EXCEPT ![g].pc = "failed", ![g].row = Failed(row)]
        BY <3>2
      <4>3. "failed" \in RunPcs
        BY DEF RunPcs
      <4> QED BY <1>a, <4>1, <4>2, <4>3, GoesOn DEF Good
    <3> QED BY <1>4, <3>1, <3>2 DEF GenerateThumbnails
  <2> QED BY <1>4, <1>f, <2>1 DEF GenerateThumbnails, Good
<1>5. CASE WriteEnded(g)
  <2>1. Good
    <3>1. {"refusing", "completing"} \subseteq RunPcs
      BY DEF RunPcs
    <3>2. \E pc \in RunPcs : runs' = [runs EXCEPT ![g].pc = pc]
      BY <1>5, <3>1 DEF WriteEnded
    <3> QED BY <1>e, <3>2
  <2>2. jobs' \in [Jobs -> Rows] /\ \A k \in Born' : Whole(jobs'[k])
    <3>1. "pending" \in Statuses \ {"unborn", "deleted"}
      BY DEF Statuses
    <3> QED BY <1>5, <1>b, <3>1, Writes DEF WriteEnded
  <2> QED BY <1>5, <2>1, <2>2 DEF WriteEnded, Good
<1>6. CASE MarkEnded(g)
  <2>1. Good
    <3>1. "ended" \in RunPcs
      BY DEF RunPcs
    <3> QED BY <1>6, <1>e, <3>1 DEF MarkEnded
  <2>2. jobs' \in [Jobs -> Rows] /\ \A k \in Born' : Whole(jobs'[k])
    <3>1. PICK status \in {"completed", "pending", "failed"} : jobs' = WithStatus(j, status)
      BY <1>6 DEF MarkEnded
    <3>2. status \in Statuses \ {"unborn", "deleted"}
      BY DEF Statuses
    <3> QED BY <1>b, <3>1, <3>2, Writes
  <2> QED BY <1>6, <2>1, <2>2 DEF MarkEnded, Good
<1>7. CASE ReleaseSlot(g)
  <2>1. Good
    BY <1>7, <1>d DEF ReleaseSlot
  <2> QED BY <1>7, <1>f, <2>1 DEF ReleaseSlot, Good
<1> QED BY <1>1, <1>2, <1>3, <1>4, <1>5, <1>6, <1>7 DEF Process

(* And so does whatever else happens.                                      *)
LEMMA NextIsInformed == TypeOK /\ Informed /\ [Next]_vars => TypeOK' /\ Informed'
<1> SUFFICES ASSUME TypeOK, Informed, [Next]_vars PROVE TypeOK' /\ Informed'
  OBVIOUS
<1> USE DEF TypeOK, Informed
<1>1. ASSUME NEW g \in Goroutines, Stop(g) PROVE TypeOK' /\ Informed'
  <2>1. Idle \in Running /\ Idle.pc = "idle"
    BY Blanks DEF Idle
  <2> QED BY <1>1, <2>1 DEF Stop, Born
<1>2. ASSUME NEW g \in Goroutines, NEW j \in Jobs, GetJob(g, j) PROVE TypeOK' /\ Informed'
  <2>1. /\ [pc |-> "read", job |-> j, row |-> jobs[j]] \in Running
        /\ Whole(jobs[j])
    BY <1>2 DEF GetJob, Running, RunPcs, Born
  <2> QED BY <1>2, <2>1 DEF GetJob, Born
<1>3. CASE HourPasses
  <2>1. \A s \in Slots : [s EXCEPT !.old = TRUE] \in Slots
    BY DEF Slots
  <2>2. slots' \subseteq Slots
    BY <1>3, <2>1 DEF HourPasses
  <2> QED BY <1>3, <2>2 DEF HourPasses, Born
<1>4. CASE CleanupExpiredSlots
  BY <1>4 DEF CleanupExpiredSlots, Born
<1>5. CASE CleanupCompletedJobs
  <2>1. jobs' \in [Jobs -> Rows]
    BY <1>5 DEF CleanupCompletedJobs, Rows, Statuses
  <2>2. \A j \in Born' : j \in Born /\ jobs'[j] = jobs[j]
    BY <1>5 DEF CleanupCompletedJobs, Born, Rows
  <2> QED BY <1>5, <2>1, <2>2 DEF CleanupCompletedJobs
<1>6. CASE UNCHANGED vars
  BY <1>6 DEF vars, Born
<1> QED BY <1>1, <1>2, <1>3, <1>4, <1>5, <1>6, RequestsAreInformed, GoroutinesAreInformed DEF Next
-----------------------------------------------------------------------------
(* Whoever goes on working keeps the slot, and nobody joins in.            *)
LEMMA NextIsHeld == IInv /\ [Next]_vars => Held' /\ OneGeneration'
<1> SUFFICES ASSUME IInv, [Next]_vars PROVE Held' /\ OneGeneration'
  OBVIOUS
<1> USE DEF IInv, Held, OneGeneration, Working
<1>1. ASSUME \A g \in Goroutines, j \in Jobs : Working(g, j)' => Working(g, j),
             robbed \subseteq robbed',
             \A s \in slots : s \in slots' \/ \A g \in Goroutines \ robbed' : ~ Working(g, s.job)
      PROVE  Held' /\ OneGeneration'
  BY <1>1
<1>2. ASSUME NEW p \in Requests, RequestNext(p) PROVE Held' /\ OneGeneration'
  <2>1. ASSUME NEW f \in Files, DeleteSlots(p, f) PROVE Held' /\ OneGeneration'
    BY <1>1, <2>1 DEF DeleteSlots
  <2>2. UNCHANGED <<runs, slots, robbed>> => Held' /\ OneGeneration'
    BY <1>1
  <2> QED BY <1>2, <2>1, <2>2 DEF RequestNext, CheckExistingJob, CreateJob, DeleteJobs, DeleteFile
<1>3. ASSUME NEW g \in Goroutines, AcquireSlot(g) PROVE Held' /\ OneGeneration'
  <2> DEFINE j == runs[g].job
             slot == [job |-> j, user |-> runs[g].row.user, old |-> FALSE]
  <2>1. CASE runs' = [runs EXCEPT ![g] = Idle] /\ slots' = slots
    <3>1. \A h \in Goroutines, k \in Jobs : Working(h, k)' => Working(h, k)
      BY <2>1 DEF Idle, TypeOK
    <3> QED BY <1>1, <1>3, <2>1, <3>1 DEF AcquireSlot
  <2>2. CASE ~ Taken(j) /\ slots' = slots \union {slot} /\ runs' = [runs EXCEPT ![g].pc = "slotted"]
    <3>1. \A h \in Goroutines \ robbed : ~ Working(h, j) \/ j \notin Jobs
      BY <2>2 DEF Taken
    <3>2. \A h \in Goroutines, k \in Jobs :
            Working(h, k)' => Working(h, k) \/ (h = g /\ k = j)
      BY <2>2 DEF TypeOK, Running
    <3>3. slot \in slots' /\ slot.job = j /\ ~ slot.old /\ slots \subseteq slots'
      BY <2>2
    <3>4. robbed' = robbed
      BY <1>3 DEF AcquireSlot
    <3> HIDE DEF slot, Working
    <3>5. Held'
      BY <3>2, <3>3, <3>4
    <3>6. OneGeneration'
      BY <3>1, <3>2, <3>4
    <3> QED BY <3>5, <3>6
  <2> QED BY <1>3, <2>1, <2>2 DEF AcquireSlot
<1>4. ASSUME NEW g \in Goroutines, NEW pc, runs[g].pc \notin {"idle", "read"},
             \/ runs' = [runs EXCEPT ![g].pc = pc]
             \/ runs' = [runs EXCEPT ![g].pc = pc, ![g].row = Failed(@)],
             UNCHANGED <<slots, robbed>>
      PROVE  Held' /\ OneGeneration'
  <2>1. \A h \in Goroutines, j \in Jobs : Working(h, j)' => Working(h, j)
    BY <1>4 DEF TypeOK, Running
  <2> QED BY <1>1, <1>4, <2>1
<1>5. ASSUME NEW g \in Goroutines, ReleaseSlot(g) PROVE Held' /\ OneGeneration'
  <2>1. \A h \in Goroutines, j \in Jobs : Working(h, j)' => Working(h, j) /\ h # g
    BY <1>5 DEF ReleaseSlot, TypeOK, Idle
  <2>2. \A h \in Goroutines \ robbed', j \in Jobs :
          Working(h, j)' => h \notin robbed /\ j # runs[g].job
    BY <1>5, <2>1 DEF ReleaseSlot
  <2>3. slots' = {s \in slots : s.job # runs[g].job}
    BY <1>5 DEF ReleaseSlot
  <2> HIDE DEF Working
  <2> QED BY <2>1, <2>2, <2>3
<1>6. ASSUME NEW g \in Goroutines, Stop(g) PROVE Held' /\ OneGeneration'
  <2>1. \A h \in Goroutines, j \in Jobs : Working(h, j)' => Working(h, j) /\ h # g
    BY <1>6 DEF Stop, TypeOK, Idle
  <2> QED BY <1>6, <2>1 DEF Stop
<1>7. ASSUME NEW g \in Goroutines, NEW j \in Jobs, GetJob(g, j) PROVE Held' /\ OneGeneration'
  <2>1. \A h \in Goroutines, k \in Jobs : Working(h, k)' => Working(h, k)
    BY <1>7 DEF GetJob, TypeOK
  <2> QED BY <1>1, <1>7, <2>1 DEF GetJob
<1>8. CASE HourPasses
  <2>1. \A s \in slots, g \in Goroutines : ~ Working(g, s.job)
    BY <1>8 DEF HourPasses
  <2> QED BY <1>1, <1>8, <2>1 DEF HourPasses
<1>9. CASE CleanupExpiredSlots
  BY <1>9 DEF CleanupExpiredSlots, Expired
<1>10. CASE CleanupCompletedJobs
  BY <1>1, <1>10 DEF CleanupCompletedJobs
<1>11. CASE UNCHANGED vars
  BY <1>1, <1>11 DEF vars
<1>12. ASSUME NEW g \in Goroutines, Process(g) PROVE Held' /\ OneGeneration'
  <2> HIDE DEF IInv, Held, OneGeneration, Working
  <2>1. CASE MarkProcessing(g)
    BY <1>4, <2>1 DEF MarkProcessing
  <2>2. CASE WriteStarted(g)
    BY <1>4, <2>2 DEF WriteStarted
  <2>3. CASE GenerateThumbnails(g)
    <3>1. CASE runs' = [runs EXCEPT ![g].pc = "generated"]
      BY <1>4, <2>3, <3>1 DEF GenerateThumbnails
    <3>2. CASE runs' = [runs EXCEPT ![g].pc = "failed", ![g].row = Failed(@)]
      BY <1>4, <2>3, <3>2 DEF GenerateThumbnails
    <3> QED BY <2>3, <3>1, <3>2 DEF GenerateThumbnails
  <2>4. CASE WriteEnded(g)
    BY <1>4, <2>4 DEF WriteEnded
  <2>5. CASE MarkEnded(g)
    BY <1>4, <2>5 DEF MarkEnded
  <2> QED BY <1>3, <1>5, <1>12, <2>1, <2>2, <2>3, <2>4, <2>5 DEF Process
<1> QED BY <1>2, <1>6, <1>7, <1>8, <1>9, <1>10, <1>11, <1>12 DEF Next

(* Files, jobs, slots, handlers and goroutines stay well typed.            *)
THEOREM ThumbnailTypes == Spec => []TypeOK
<1>1. Init => TypeOK /\ Informed
  BY InitIInv DEF IInv
<1> QED BY <1>1, NextIsInformed, PTL DEF Spec

(* No two goroutines generate the thumbnails of one job, unless somebody   *)
(* took the slot from under the first (ProcessThumbnailGeneration acquires *)
(* the slot of a job before it touches the job).                           *)
THEOREM OneGoroutinePerJob == Spec => []OneGeneration
<1>1. IInv /\ [Next]_vars => IInv'
  BY NextIsInformed, NextIsHeld DEF IInv
<1>2. IInv => OneGeneration
  BY DEF IInv
<1> QED BY InitIInv, <1>1, <1>2, PTL DEF Spec
=============================================================================

# Inventario: a TLA+ model

Inventario keeps the inventories of groups of people: commodities in areas and
locations, their prices in the currency of the group, files, loans, exports and
restores. It is one Go binary (API server and background workers, as many
processes of either as are deployed) over PostgreSQL, an object store, and
optionally Redis and SMTP.

The processes share nothing but the database. A repository call is one short
READ COMMITTED transaction; a handler or worker is a sequence of such calls
with local variables in between, and whatever it has read may be stale by the
time it writes. `Update` writes back *every* column of the row that was read.
Locks, unique indexes and compare-and-swaps are used in chosen places only.
Nearly everything that can go wrong, and that a test hardly reaches, comes from
this; so every module is built the same way:

* an action is one transaction, with its condition and its whole effect;
* a process record carries from action to action what the code carries in local
  variables;
* what an index, a lock or a foreign key refuses, the guard refuses.

`Crash` and the `...Abort` / `...Fails` actions stop a process between any two
transactions.

## Inventory

| Part | State | Operations | What is hard, what must hold | Status |
|---|---|---|---|---|
| Currency migration: handlers | `currency_migrations`, the lock signal `currency_migration_id` of a group, the signed preview token | preview, start | five checks and two writes in seven transactions; one migration in flight per group, a daily cap, no overlap with a restore, the state converted is the state shown | `CurrencyMigration` |
| Currency migration: worker | the same, prices of commodities, audit rows, audit log | sweep, claim (TX1), convert (TX2), crash, pause | two workers, stalls past the sweep's threshold, roll back; applied once, all or nothing; ends in spite of crash and pause | `CurrencyMigration`, `Currency` |
| Lock on commodity writes | - | middleware before a write | check and write are different transactions | `CurrencyMigration` (update of a commodity) |
| Restores, seen from a migration | `restore_operations` | create, run, delete the record | check and insert are different transactions; an archive has amounts without a currency | `CurrencyMigration` |
| Groups | `location_groups` | create (with compensation), update, request deletion | full-row write of a stale row | `GroupMembership` |
| Memberships | `group_memberships` | join, leave, remove, change role | cap per user, last owner, under two kinds of advisory lock | `GroupMembership` |
| Invites | `group_invites`, `group_invites_audit` | create, accept, resend, revoke, expire | compare-and-swap and a compensating revert; redeemed by one | `GroupMembership` |
| Group purge | all of the above, object store | four steps, retried by a worker | joins and invites refill what was emptied; must end | `GroupMembership` |
| Account deletion | all of the above, `users` | classify groups, purge, delete | a decision on an unlocked read, acted on transactions later | `GroupMembership` |
| Restores | `restore_operations`, steps | list, start, run | file members under each strategy; no claim; a crash leaves `running` for ever, which refuses every later restore | run and file members: `FileStore`; commodity writes: `CurrencyMigration`; picking up: planned |
| Files | `files`, blobs and thumbnails in a bucket | upload (bytes, then row), update, delete, recursive delete, restore, purge | several rows may share one blob; asked, then deleted; no transaction spans table and bucket | `FileStore` |
| Orphan file collector | its cursors; the same rows and blobs | tick: gate, pages, probes, deletes | acts on what it read earlier; must neither take a live file's bytes nor starve behind what it keeps | `OrphanFileGC` |
| Thumbnails | jobs, slots, goroutines | request, process, retry, clean up, delete underneath | a full-row write undoes a status; slots of the dead | `ThumbnailJobs` |
| Email queue | list and retry set in memory or Redis | enqueue, take, send, retry, promote | taken before sent; a crash; a full list; goroutines that exit for good, processes without any | `EmailQueue`, `EmailDelivery` |
| Loans and their reminders | `commodity_loans`, flags on the rows | start, update, return, delete; two sweeps | sent, then flagged, while the row is written over; a failed look-up looks like a lender who is gone | `LoanReminders` |
| Default group | `users.default_group_id` | ensure, profile update, re-promotion after a purge | chosen from stale memberships, full-row write of `users` | planned |
| Export and import workers | `exports` | list, start, run | no claim | planned |
| Services, quantity guard | `commodity_services` | open, close, change the count | check, then insert, over two tables | left out |
| Other reminders (warranty, maintenance, quota) | a note per reminder | send, note | the note is a row of its own: no full-row write takes it back | left out |
| Sessions, single-use tokens | refresh tokens, magic links, resets | rotate, revoke, redeem | one conditional UPDATE each | left out |
| Soft pause | `worker_control` | pause, resume | read from a cache | the flag only |
| Cleanup workers; locations, areas, tags, supplies; rate limits; MFA, OAuth, back office; schema; frontend | | | one statement each, or no state shared with the rest | left out |

`PROJECT.json` lists the parts with their sources, and the hazards of the code
line by line with the properties that answer them. A hazard without a property
says why there is none.

## Modules

| Module | Contents |
|---|---|
| `Currency` | the conversion rules of `internal/currency/service.go`, as operators |
| `GroupCurrency` | abstract specification: what a migration promises to the readers of a group |
| `CurrencyMigration` | handlers, lock middleware, restores, worker and transactions |
| `CurrencyMigrationProofs` | invariance proofs, without an assumption |
| `PromptCurrencyMigration` | extends `CurrencyMigration` by the assumption `Prompt` and the refinement mapping to `GroupCurrency` |
| `PromptCurrencyMigrationProofs` | invariance proofs and the refinement, under `Prompt` |
| `MCCurrencyMigration` | instances |
| `GroupMembership` | groups, memberships, invites, purge, account deletion; the assumption `Calm` |
| `MCGroupMembership` | instances and the assumption of the liveness run |
| `GroupMembershipProofs` | invariance proofs |
| `FileStore` | files, blobs and thumbnails, and everybody who writes or deletes them: handlers, restores, purge, thumbnail generators |
| `OrphanFileGC` | extends `FileStore` by the collector, and states the properties of both |
| `MCOrphanFileGC` | initial states and bounds of its two runs |
| `OrphanFileGCProofs` | type correctness and invariance proofs for both |
| `ThumbnailJobs`, `MCThumbnailJobs` | jobs, slots and goroutines; the assumptions of the liveness run |
| `ThumbnailJobsProofs` | invariance proofs |
| `EmailDelivery` | abstract specification: what becomes of a mail |
| `EmailQueue` | both backends, the workers and the promoter, and the refinement mapping to `EmailDelivery` |
| `EmailQueueProofs` | invariance proofs, and the safety part of the refinement |
| `LoanReminders`, `MCLoanReminders` | loans of a commodity, and the sweeps of several processes |
| `LoanRemindersProofs` | invariance proofs |

### Currency and CurrencyMigration

`migrations`, `groups`, `commodities`, `auditRows` and `auditLogs` are the tables;
`starters`, `editors`, `groupWriters`, `restorers` and `workers` are the processes.

* `PreviewResolve`, `PreviewIssue`: `POST .../preview`. The token is a record in the
  client's hands. It can be replayed, and it can expire.
* `StartResolve` .. `StartWriteGroup`: `POST .../currency-migrations`, one action per
  check, in the order of the code, then the insert (refused by the partial unique
  index) and `setLocationGroupCurrencyMigrationID`, a read and a full-row write.
  `StartAbort` is every early or failed return.
* `EditResolve`, `EditCheckLock`, `EditPrefetch`, `EditWrite`: `PUT` of a commodity: currency of
  the group, lock middleware, read of the acquisition pair, write. When the read fails, the
  code goes on and writes the pair of its argument, which is NULL (`Prefetched`).
* `GroupUpdateRead`, `GroupUpdateWrite`: `UpdateGroup` and `InitiateGroupDeletion`, as far
  as they concern the columns of a migration.
* `RestoreCheckRunning`, `RestoreCheckLock`, `RestoreCreate`: the two checks and the insert of a
  restore request. `RestoreRead`, `RestoreRun`: the worker reads the operation and the currency of the group,
  and then sets the status. `RestorePrefetch`, `RestoreWrite`: a commodity of the archive goes through the
  same `Update` as an edit, with the amounts the archive has, in any currency: `applyCommodityModel` compares
  none. `RestoreFinish` ends it, well or not.
* `RestoreDeleteLook`, `RestoreDelete`: the record of a restore is deleted after a look at its status.
  A restore whose record is gone does not begin to run, but one that has begun goes on, and
  `HasRunningRestores` and `GroupHasInFlightRestore` do not see it.
* `Sweep`, `SweepAudit`, `Claim`, `ClaimNothing`, `Tx2Begin`, `Tx2Commit`, `Tx2Rollback`: one tick
  of the worker. `GetStuck` says that ten minutes have passed since the claim. A sweep or
  claim whose query fails ends the tick as `Crash` and `Restart` do.

An amount is abstracted to the currency it is an amount *of* (its unit) and to what it
is worth. Multiplying an amount of the old currency by the rate yields one of the
new; multiplying anything else yields `Garbled`. So a price converted twice, missed, or
written in a currency the group has left is visible, while the rate and rounding are
not. `foreign` is a ghost: the row came from an archive of another currency than its group
had when it was written. Only commodities that are not drafts are modelled: drafts may have no prices.
The set of commodities is fixed, so that of the strategies of a restore only the writing over of rows
that are there (`merge_update`) is modelled, which is the one that meets concurrent edits and conversions.

`GroupCurrency` knows two ways to write a price: `Edit`, in the currency of the group, and `Import`, in that of an
archive. Neither happens while the group is locked. `Convert` changes group and prices in one step, and turns
what is foreign into `Garbled`.

### GroupMembership

`groups`, `members`, `invites`, `audits` and `users` are the tables; `calls` holds, for
every request handler and purge worker, which call it serves and how far it got.

* Memberships: `CreateGroupCheck/Insert/Rollback`, `AdminAddMember`, `AcceptRead/MarkUsed/
  Revert`, and `Join` for the insert they share (`CreateUnderCap`, a transaction under the
  user's advisory lock). `FindMember` is the lookup before `RemoveMember` and
  `UpdateMemberRole`, each a transaction under the group's advisory lock.
* Invites: `CreateInvite`, `InviteRead` then `ResendInvite` (full-row write) or `RevokeInvite`, `Expire`.
* Groups: `GroupRead` then `GroupWrite`: an update or a request for deletion.
* Purge: `SweepList`, `PurgeSnapshot`, `PurgeDependents`, `PurgeInvites`, `PurgeRow`, `PurgeFails`.
* Accounts: `DeleteAccountList`, `ClassifyGroup` for each group, `CheckRetained`, the purge of
  private groups with the actions above, `PurgeUserDependents`, `DeleteUser`.

One tenant is modelled. Admins and viewers follow the rules of a user. A group's
dependents are its memberships; the content of a user, and the invites a
user created, are a nondeterministic refusal of the foreign keys. Ids are not
reused while a call remembers them. `JoinRejected` is an insert that is refused, or that fails
while a seat is free. What follows depends on the call (`AfterRefusal`): `CreateGroupRollback` or `AcceptRevert`. Both are
best effort: `RequestFails` stops a call at any point, the undoing included, and
the mark on the invite then stays.

### FileStore and OrphanFileGC

`files`, `entities`, `jobs` and `operations` are tables, `blobs` and `thumbs` the bucket. `procs` holds,
for everybody who can delete a blob, the local variables of the call: the file and key
in hand, the files still to do, and the keys a purge has copied.

* `DeleteFileWithPhysical` is five actions for each file, shared by all callers: read the
  row, delete its jobs, delete the row, ask who else holds the key (`CheckShared`, the
  guard of `blobSharedOutsideBatch`), delete blob and thumbnails.
* Requests: `SaveFile` (the middleware writes the bytes) then `UploadFile` (the handler
  creates the row), `BeginUpdateFile` then `UpdateFile` (full-row write), `DeleteFile`,
  `ListCommodityFiles` then `DeleteCommodity` (files listed first), `DeleteArea` then
  `DeleteLinkedFiles` (files listed last), `Abandon` for an error or crash at any point. `leaked` is a
  ghost: the keys such a call, or a purge, leaves without a row. Nothing in the code takes them back: the collector starts from rows
  and from thumbnails.
* Restores: the bytes are written under the archived key, then the row is created or
  written over; a superseded blob is deleted with the same guard. An operation can be requested while
  another runs, and its record deleted: check and write are transactions of their own.
* Purge: the blobs of the group one by one from a listed copy, then all rows at once.
* Collector, one action per query: `BeginTick` (the gate), `ListOrphanCandidates`, `SweepRowCandidate`,
  `EndPage`; then `ListAgedThumbnails`, `LiveFileIDs`, `ProbeThumbnail`, `DeleteThumbnail`. Cursors live in
  the process: `Restart` forgets them. A probe that fails (`Poison`) ends the tick *behind* the row.

A blob is a key that holds bytes or does not. Keys are the id of an upload, one legacy key
two rows may share, and the one a restore mints. Age is a bit: three days pass or do
not, and the row age, the thumbnail age and the cool-down of operations are the same 72 hours.
`RowBudget` is a multiple of `PageSize`, as the defaults are.

### ThumbnailJobs

`jobs` and `slots` are tables; a goroutine in `runs` has the job *as it read it* (`row`), which
`WriteStarted` and `WriteEnded` write back whole. `CheckExistingJob` and `CreateJob` are a request;
`DeleteSlots`, `DeleteJobs`, `DeleteFile` the delete of the file underneath; `GetJob` .. `ReleaseSlot` a
goroutine, write by write; `Stop` its death or its deadline, after which every query
fails, the deferred release included. `AcquireSlot` has a guard (`Taken`) that the code does
not mean to have: see Disagreements. `robbed` is a ghost: the goroutines whose slot was deleted by
somebody else.

### EmailQueue and EmailDelivery

`ready`, `retries` and `hands` are the places a mail can be: a list, a set of retries, a
worker. With Redis there is one list and set for all processes, in memory one for
each (`Home`). `mailers` are the processes that start the email service: `run all`, and `run workers` with
the `emails` group. `run apiserver` enqueues and has no worker; without Redis it enqueues into its own
memory. `workers` counts the goroutines of a process that still run.

`Process` is `processJob`: sent, dropped at the last attempt or because it does not
render, scheduled again (also when Redis has done it and the reply is lost), or dropped
because the retry is refused. `DequeueLost` is a mail that BLPOP has popped and whose reply does not arrive.
`WorkerExits` and `PromoterExits`: an error that wraps `DeadlineExceeded` is taken for a shutdown, and the
goroutine returns; only a restart of the process brings it back. `Crash` empties the hands of a process,
and its queue if that was in memory.

`EmailDelivery` promises that a mail is tried until it is sent, or as often as it may be; that none waits for ever
while it is `served`; and that a mail is lost only in a fault, of which there are at most `MaxFaults`. One fault may
lose several mails, but not those that are `kept`: of these at most one. The refinement maps a mail in any place to
"pending", and any other to the way it ended (`outcome`, a ghost). Served is a mail in the hands of a worker, or at a
queue at which a worker and a promoter run (`Attended`); kept is what waits in Redis.

### LoanReminders

`loans` is the table, of one commodity; `editors` hold the row that `GetLoan` read until `UpdateLoan`
or `MarkReturned` write it back whole; `sweeps` hold the ids that `ListPendingReminders` found. Each
loan of a sweep is opted out (`Skip`), without an address (`PassOver`), without one that can be read just now
(`LookupFails`: `lookupLender` turns any error into "no recipient") or mailed (`SendLoanReminderEmail`), and
then flagged (`MarkReminderSent`, `MarkFails`). A mail whose enqueue reports an error may have
been taken all the same. Due dates are later, soon, past. `told`, `missed` and `mailed` are
ghosts; `missed` are the reminders a failed look-up has passed over, as long as no mail has followed.

## Runs

| Run | What it asks | Assumption | Bounds | States |
|---|---|---|---|---|
| `migration_prompt` | prices, lock signal, token, cap, terminal states, acquisition pair, and the refinement to `GroupCurrency` | `Prompt` | one group and commodity, two currencies, one worth; one client, edit and restore, two workers; two migrations over two days, cap 1; no crash, no pause | 0.25 M |
| `migration_races` | the type invariant and the parts of the inductive invariant; who rewrites, logs and unlocks what has ended | none | two clients, two workers, two migrations, two commodities, one day, a crash | 1.1 M |
| `migration_live` | claimed migrations end, pending ones are claimed | fairness | one client, one group update at a time, one worker, two migrations, a crash, two days, cap 1, pauses without bound | 0.2 M |
| `membership_seats` | cap and owners, all calls but those on invites | none | two groups, two users, two calls at once, cap 1, one failure | 0.3 M |
| `membership_invites` | redemption by one, and none in vain | `Calm` | one group, two users, an invite, two calls at once, one failure | 1.0 M |
| `membership_live` | a purge ends | fairness, `NoLateAdds` | one group, two users, an invite, one request, one worker, one failure | 0.6 M |
| `files_bytes` | a live file keeps its bytes; the last owner takes the blob | `Apart`, `EitherStep` | three files, two of which may share a blob, one entity; one request, restore, purge and collector | 1.6 M |
| `files_live` | orphans and their thumbnails are collected in the end | fairness | four files: one to keep, one whose probe always fails, one with thumbnails generated late; pages and budgets of one; a restart, a restore | 0.3 M |
| `thumbnails_live` | one goroutine per job, jobs end, slots come back | fairness, `Fresh`, not robbed for ever | two jobs of one file, one user, two goroutines, two attempts, one stop | 0.6 M |
| `thumbnails_slots` | violation, see Findings | none | two jobs, files and users, two goroutines | |
| `email_delivers` | one place for each mail, and the refinement to `EmailDelivery`, liveness included | fairness | three mails, one of which does not render; two processes, each with a worker or none, a list of one, two retries, two faults; both backends | 32 k |
| `loans_reminders` | no flag without a mail but for a failed look-up, no mail at every tick, none waits for ever | fairness for the last | one loan, one lender, two processes, two faults, days without bound | 0.3 M |

Why the bounds are enough. A race needs two processes and one thing to race for, which
every run has: two starts on one group, two workers on one row, two joins by one user, two
demotions in one group, two redemptions of one invite, two deletes of rows that share a blob, two
goroutines on one job, two sweeps on one loan. Two migrations let one
follow another with a stale token, a stale edit or a stalled worker of the first, and let the
second exceed a cap of one; with a second day both may complete, and the second finds what the
first has filled in. What a preview has hashed changes when a restore brings a price of the other currency, or an
edit corrects one. Two currencies reach two of the three conversion cases, original price in the old
or the new currency; the third, an original price in neither, is covered by the theorem
`ConversionKeepsValuation` for any number of currencies. `migration_prompt` has no crash and no
pause, which is how a rollback and a slow tick look to the rest; `migration_live` has both, `migration_races` a
crash, and the theorems any number. Group
updates, which write over the lock signal, are in `migration_live`; under `Prompt` they are in the theorems only. A cap of one over two groups
is enough to exceed it. `Rows` has enough ids for every membership that can be live or
remembered at once. Pages and budgets of one are the hardest: every row in front of another fills
them. Two faults let a retry fail after a goroutine has exited, or a look-up after a crash. `CHECK_DEADLOCK
FALSE` is where the program may really stop: no seat and no invite is left, all files are gone, every job has
ended, or no process has a worker and the lists in memory are full. Symmetry is used in runs without a liveness property, over sets
whose members the model never tells apart.

### Assumptions of the runs

* `Prompt`: requests do not overlap one another; no migration or restore ends and no day
  begins in the middle of one; no restore begins to run between the two steps of its deletion; no worker works on
  one migration for ten minutes. Handlers take
  milliseconds, ticks come every few seconds, TX2 takes seconds; but nothing in the code
  enforces this, and each hazard that needs it says so. Stated once, in `PromptCurrencyMigration`, for
  the runs and the theorems. It does exclude what Disagreements lists: the stale write of an edit, a group update or a lock
  signal, the two requests that pass the same count or each other's look-up, and the stalled worker. Under it, handlers still
  interleave with claims, conversions that begin or fail, sweeps after a
  rollback, pauses and tokens of any age, restores of archives in another currency, and reads that fail. What holds without it is in
  `migration_races` and `CurrencyMigrationProofs`.
* `Calm`: no `ResendInvite` overlaps the acceptance of the same invite: its full-row write
  would remove the mark of the redemption. Part of `CalmSpec`, which the theorems are about, and the action constraint of the run.
* `NoLateAdds`: administrators do not add members to a group that is pending deletion. The
  code does not refuse it, and each such add may hold up one tick of the purge.
* `Apart`: while a restore is writing the archived file, nobody is deleting or writing back a row of it.
  The collector looks at its gate once a tick, handlers do not look at all, and a full-row write would put
  the superseded key back.
* `EitherStep`: a bound, not an assumption about the code: a behaviour has a restore, or else an upload and a purge; the key of the
  upload is new, and the restore never touches it.
* `Fresh`: no attempt at a job ends between the moments another goroutine reads the job and
  asks for its slot. Otherwise an attempt is counted twice as one, or the job done
  again; if that happened every time, for ever. And slots are not deleted from under goroutines for
  ever: one that was robbed releases the slot of the next.

### Fairness

Weak fairness of `WorkerStep(w)`: a worker's loop runs on a ticker for as long as the
process lives. Of `Restart(w)`: the process is started again by its supervisor. Of
`GetStuck(m)`: time passes. Of `SweepNext(p)`: the purge worker ticks. None is assumed of
requests, which may stop anywhere, nor of the pause, which may last for ever in
`RunningEnds` and must end in `PendingIsClaimed`. Failures of the object store are
bounded (`MaxFailures`): a store that fails for ever keeps the purge from ending.

Weak fairness of `Sweep(c)`: the collector ticks, and a restart is as good as a tick.
Of `Process(g)`: a goroutine goes on or is stopped; strong fairness of `GetJob` for each job, because a tick
starts a goroutine for *every* pending job, and a job that is pending again and again is found by
one of them; weak fairness of `HourPasses` and `CleanupExpiredSlots`: time, and a cleanup every five minutes.
Of `Dequeue` and `Process` of the email workers that run: they take what there is, and a sender answers
or times out. Neither is enabled in a process without workers, or whose workers have exited, and nothing is assumed of such
a process. `PromoteDueRetries` is strongly fair where a promoter runs: with Redis the promotion is never
refused; in memory it needs room in the list at one of its ticks, and that it finds some, where
every `Enqueue` waits for the same room, is an assumption. Of `Sweep(p)` of the reminders; strongly of
`ListPendingReminders`, for each kind, because every tick sweeps both. Faults are bounded everywhere: no promise survives
a worker that dies at every tick. The soft pause of these workers is not modelled; it is
assumed to end.

## Findings

* `thumbnails_slots`: `AcquireSlot` (`registry/postgres/user_concurrency_slots.go:205`) inserts a slot without an id, and the
  primary key then admits a single row with the empty string. While anybody generates
  thumbnails, nobody else does, whatever `THUMBNAIL_MAX_CONCURRENT_PER_USER` says.

### Disagreements without a run

Met while modelling. The actions are in the modules; the properties that hold are stated so that they
allow for these steps or under the assumption that excludes them, never because a step is missing.

* TX2 does not look at the migration's status again (`currency_migration_processor.go:223`). A worker that takes
  longer than the sweep's threshold completes a migration that was already `failed`, and reported as such;
  `models/currency_migration.go:36` calls that status terminal.
* An archive has amounts without a currency (`backup/restore/types/types_inb.go:124`), and a restore writes them into a group
  that has migrated since the backup (`processor.go:600` compares the original currency only). The prices are then
  amounts of the old currency, and the next migration multiplies them by the rate of the new (`foreign`, `Garbled`).
* The acquisition pair is "write-once": `CommodityRegistry.Update` reads it first "to keep the write-once invariant on the columns intact"
  (`registry/postgres/commodities.go:560`). When that read fails (`:568`), the update goes on and writes NULL over
  it; so does an edit that has read it before a conversion fills it in.
* Start looks for restores and inserts a migration; the restore handler looks for migrations
  (`export_restores.go:224`) and inserts a restore; both can pass, against the comment at `:213`.
* `UpdateGroup` (`group_service.go:270`) writes back the currency it read before a migration
  committed, though the comment at `:252` calls it immutable there. The prices of the group are then in
  another currency than the group.
* The late write of the lock signal (`currency_migrations.go:778`) may follow the end of a fast migration, and then
  names one that is not in flight, against `models/location_group.go:92`; two starts a migration apart pass the same count of the
  cap (`:616`).
* The deletion of an account (`account_deletion.go:224`) counts the owners without the lock and deletes the
  memberships later; the other owner may have stepped down. The error at `:24` exists to prevent an ownerless group.
* An invite can be accepted between the audit snapshot and the deletion of the invites
  (`group_purge_service.go:109`): "used rows are already audited" (`:108`) is not so for it.
* The collector verifies the copy of the row its page had (`orphan_file_gc_worker.go:914`). A file that a PUT
  links to another entity meanwhile (`apiserver/files.go:427`) is deleted, and the comment at `:788` says
  the window cannot invert.
* The rows of a purged group keep the blobs they share with others; when the last other owner asks
  while those rows are still there, both leave the blob, and it stays (`file_service.go:370`: "reclaimed by the LAST owner's delete").
  The model counts it as leaked.
* A restore that is pending when `deleteExportRestore` looks (`export_restores.go:321`: "Don't allow deletion of
  running restore operations") may be running when its record goes; its bytes are then written with the
  collector's gate open, and its prices while a migration is in flight.
* The bytes of an upload are written by a middleware (`uploads.go:256`), the row later by the handler (`:169`). When the
  row is refused, or the process dies in between, nobody deletes the bytes.
* The revert of an invite whose membership was refused is best effort (`group_service.go:873`): when it fails, the
  invite stays used by somebody who is no member.
* `lookupLender` takes any error of `UserRegistry.Get` for a lender who is gone (`loan_reminder_service.go:304`). "No lender / no email on
  file" (`:189`) then flags the loan unmailed, and the reminder of a lender who can be reached is lost in silence.
* Workers and promoter of the email service take an error that wraps `DeadlineExceeded` for a shutdown and return for good
  (`email_async_service.go:321`, `:487`). Without Redis, what `run apiserver` enqueues is in the memory of a process without workers, though the
  comment at `cmd/inventario/run/apiserver/apiserver.go:56` has `run workers` pop it.
* `THUMBNAIL_SLOT_DURATION` reaches `AcquireSlot`, which does not use it: slots expire after a literal hour.
* A goroutine stopped between `UpdateJobStatus` and the full-row write that follows
  (`thumbnail_generation_service.go:186`, `:193`) leaves the job `processing`, which no tick picks up. `JobsEnd` allows for it.
  Those that die later are saved by the row they wrote back, which says `pending`.
* A loan is updated and returned by full-row writes of a row read before: a return can be undone by an edit, and
  a reminder flag unset, after which the reminder is mailed again.

## Proofs

All theorems are for any sets of groups, users, files, mails, requests and workers, and any
bounds. They use the assumptions on the constants that their module states; the timing assumptions
(`Prompt`, `Calm`, `Apart`) are in the specification or the premise of a theorem, never in the constants.

### CurrencyMigrationProofs, without a timing assumption

* `ConversionKeepsValuation`: the three conversion cases keep a valued commodity valued;
* `Invariance`: `Spec => []IInv`, and from it `TypeCorrectness`, `AtMostOneInFlight`,
  `ClaimsStayLive`, `ClaimedByOneWorker`, `AppliedAllOrNothing`, `CompletedStaysCompleted`;
* `OnlyItsWorkerRewrites`, `FailedOnce` and `EndsUnlock`: what is left of "terminal", "reported once" and "the lock signal
  is true" when workers stall, sweeps race and group updates write back stale rows.

`IInv` is the conjunction of `TypeOK`, `OneInFlight`, `ClaimsAreLive`, `OneWorkerPerMigration` and
`AuditMatchesStatus`. Only together are they inductive. That TX2 applies a migration once
needs that no second worker holds it; that no second worker can claim it needs that a
held row is not `pending`; that a held row is not `completed` when its worker commits
needs, in turn, that the one worker holding it is the only one that completes it. A
sweep may fail a held row, so `failed` is part of `ClaimsAreLive`, which is where the
stalled worker comes from. The requests are handled by type lemmas per process kind and
by `OthersKeep`: a step that leaves migrations, audit tables and workers alone keeps the rest.

`MigrationWriters` names the five steps that write the table of migrations, and what each does to a row; `RowChanges`
sums them up per row, from which the two action properties follow. For `FailedOnce`, `FailuresLogged` says that the sweep which
has failed a row is the only one that has it still to log: `SweepLogsNothing`, `SweepAuditLogsOnce`, `OthersLogNothing`.
For `EndsUnlock`, TX2 clears the signal of its own group only, so the signal must not be in another: `SignalsAreOwn` says that a
signal in a row, or in the hands of a request that will write it, names a migration of the group it is for
(`StarterKeepsSignals`, `OthersKeepSignals`).

### PromptCurrencyMigrationProofs

`PromptInvariance` is `PromptSpec => []PInv`. From it follow `PricesFollowTheGroup`, `ConvertsThePreview` and the refinement
`ImplementsGroupCurrency`. They are what the design says of prices as long as the timing it relies on is given: that no step of
a handler, a worker, a sweep or a restore, in any order that timing allows, takes a
group apart from its prices.

None of the invariants is inductive: each holds because somebody has looked before, and what was seen
is still so. `PInv` says what:

* `RequestsCurrent`: what a request has found so far still holds. A start request that has passed a
  check has its result (currency, no migration, no restore, room under the cap), and the hash it compared is that of the
  group unless a restore is writing (`BeingRestored`), whom the next check but one finds; an edit has the currency of
  its group and, past the lock, no migration in flight there; a group update has the row it will write over; a
  restore that is active or writes is in a group without a migration, and the record of one that writes is neither gone
  nor being deleted.
* `TablesCurrent`: a migration in flight was inserted for the currency, the state and the room under
  the cap that its group *still* has (`RowsCurrent`); what a worker holds is running and has not
  got stuck, and its snapshot is that of its transaction (`WorkerCurrent`); a price is an amount of the group's
  currency, or of an archive's and then of no other (`PricesCurrent`). The cap and the lock signal are parts of it too.
* `IInv` and `AtMostOneMidRequest`, the part of `Prompt` that is about states.

The proof goes by who moves. A request in the middle is the only one
(`TheOneMidRequest`), so a step of a request disturbs no other: `StarterOnly`, `EditorOnly`, `RestorerOnly`. When a
migration ends or a day begins, none is in the middle (`NoMidRequest`), and `RequestsRest` is enough. A step
that leaves what a group shows alone (`SameView`) keeps everything said about the group (`ViewsStay`, `TablesStay`).
What remains are the steps that write: the insert of a migration, `StartWriteGroup`, the writes
of edits and restores, `GroupUpdateWrite`, `Sweep` and `Tx2Commit`, each with a lemma of its own (a commodity is written by `CommodityWritten`, `RestoreWriteKeeps`). A price is written
only if no migration is in flight, so what a preview has hashed stays until TX2; and TX2
converts every commodity in the step that changes the currency (`Tx2CommitConverts`).

The refinement is step by step (`StepRefines`): the insert is `Lock`, `Tx2Commit` is `Convert`, a
`Sweep` that fails a stuck row is `GiveUp`, the write of an edit is `Edit` and that of a restored commodity `Import`, whatever currency it is in (`RowWritten`), and everything else
(claims, rollbacks, crashes, restarts, the two writes of the lock signal, updates of the group) is a stutter.

### GroupMembershipProofs

`MembershipTypes`, `CapHolds` (`Spec => []WithinCap`) and `AnOwnerStays` (`Spec => KeepsAnOwner`) need no timing
assumption. For the cap, every step but
`Join` keeps or empties each row of the memberships, and `Join` inserts one row into a
free seat it has counted in the same step. For the owners, `AnotherOwner` says that
deleting or demoting one row leaves an owner whenever `LosesLastOwner` is false.

`OneRedeems` (`CalmSpec => RedeemedByOne`) and `NoMarkInVain` (`CalmSpec => NotUsedInVain`) are about an accept
that marks, joins and reverts in three transactions. `CalmInv` says that the invite a call holds exists
and was live when read (`InvitesHeld`), and that the mark on it is the caller's and of no other call
(`MarkedForOne`): the compare-and-swap lets one through, and only the reverter or a stale full-row write could take
the mark away. `Calm` excludes the latter, and is needed for nothing else. A request that fails after the mark, or whose revert does, is excepted from
`NotUsedInVain` (`RequestFails`); an insert that fails for whatever reason is not. `FoundersHaveNone` keeps the creator of
a group, who joins by the same `Join`, out of it.

### OrphanFileGCProofs

`StoreTypes` (`Spec => []TypeOK`) holds whatever anybody does. That a key about to be written or deleted is
one needs `Keyful`: it was copied from a row that was live when it was read, and a
purge has the keys of all files it has still to do. That a cursor is a file or the beginning needs `Extremes`: a nonempty finite
set of numbers has a least and a greatest member. It is proved without induction over data, from the
library's theorem that strict inclusion of finite sets is well-founded: a smallest nonempty set without one
would have a smaller one.

`BytesAreKept` (`Spec /\ []Apart => []BytesOfLiveFiles`) and `BlobsHaveOwners` (the same for
`LastOwnerTakesTheBlob`): their `IInv` says what a blob's deleter knows. Between the answer
"not shared" and the delete of the blob, new rows may come; but an upload mints a key of its own, a
full-row write puts back the key the row already has (`Reader`), and only a restore gives a row the archived key. So the key
of a deleter is that of a file that has been created (`Deleter`), and a key nobody held when it
asked nobody holds when it deletes (`Sole`); `Apart` is needed for the archived key, and nowhere else. For
the second theorem, every blob has a row, is in the hands of somebody who will give it one or take
it away (an upload, a restore, a delete), or was left by a call that failed in between (`leaked`): `Owned`. `Moves`, `Stays`, `Idles`, `Quiet` and `Rests`
are the kinds of steps, by what they leave alone; `Others` says that a bystander keeps what it knows.

### The others

`ThumbnailJobsProofs`: `ThumbnailTypes` and `OneGoroutinePerJob`
(`Spec => []OneGeneration`). The inductive invariant is `TypeOK /\ Informed /\ Held /\ OneGeneration`: `Informed` says that what
handlers and goroutines remember are jobs that were created, with the row they had; `Held` that a
goroutine that is at work and was not robbed has a slot for its job. Since a slot is given only when none
of the job exists, the second goroutine is refused.

`EmailQueueProofs`: `QueueTypes`, `MailInOnePlace` (`Spec => []OnePlace`) and
`QueueImplementsDelivery`: `Spec` implies the safety part of `EmailDelivery` under the refinement mapping, action by action
(`Enqueue` is `Accept`, `Sent` is `Deliver`, `ScheduleRetry` is `Fail`, `Dropped` is `Drop`; `RetryLost` and `DequeueLost` are `Lose` of
one mail, `Crash` of those in memory, exits of none; `Dequeue` and promotions are `Move`, which is where `OnePlace` is
needed). `CrashLoses` says that no mail kept in Redis goes with a process, and `DequeueLoses` that a lost reply takes one.

`LoanRemindersProofs`: `LoanTypes`, `NoReminderIsLost` (`Spec => []NoSilentLoss`) and
`MailedIsFlagged` (`Spec => []FlaggedOnceMailed`). `NoSilentLoss` is not inductive: a row written back may
bring flags with it, and a flag is set one step after its mail. `ToldBefore` carries what is known from the mail, or from the look-up
that failed (`missed`), to the flag, and from the read to the write; `Informed` keeps handlers and sweeps to loans that exist or did.

### Only model-checked

Of the safety properties, `TerminalIsFinal` and `AcquisitionNotReplaced` in `migration_prompt`. No theorem of their own have
`LockSignalInFlight` and `WithinDailyCap`, which are conjuncts of `PInv`. `Prompt` excludes just the case that would
break each of the four, so a theorem would say little more than the run; what of them holds without
it is in `EndsUnlock` and `OnlyItsWorkerRewrites`. Every other invariant and action property of a
passing run is stated by a theorem. And
liveness: the temporal properties of `migration_live`, `membership_live`, `files_live`, `thumbnails_live`
and `loans_reminders`, and the liveness part of `EmailDelivery` in `email_delivers`. Liveness under fairness, and `ENABLED`, are
beyond the prover. `thumbnails_slots` shows a violation, and has nothing to prove. No
theorem says that `Prompt`, `Calm` or `Apart` hold: the code does not enforce them, and Disagreements lists
what happens where they do not.

## Not modelled

Rates, rounding and sums (amounts are units and worths), drafts, the creation and deletion
of commodities, several tenants and row-level security, the in-memory registry, slugs, the
contents of rows that no property tells apart, and the loss of a COMMIT: `RLSRepository` joins
the error of COMMIT into a variable that is not returned, so a lost commit looks like
success; the model takes a call that returned to have committed. Of the files: detaching them from areas
and locations, the files of exports, size backfills, the purge of a whole tenant, the collector's report mode. Of
thumbnails: the rate limit of requests. Of mails: templates and providers, and what a
client library sends again because a reply was lost (an RPUSH or ZADD applied twice). Of restores, in `CurrencyMigration`: commodities they create
or remove, and strategies other than the update of what is there. Of reminders: the stub
mode without an email service, and the other kinds of reminder. Sessions and tokens are
guarded by one conditional UPDATE each, the shape `AcceptMarkUsed` already has. Services of commodities
repeat the check-then-insert of loans, whose window a comment accepts (`commodity_loan_service.go:43`).

## Plan

In order; each with the properties it is for.

1. `DefaultGroup`, on top of `GroupMembership`: a user's default is a group they belong to,
   or none; no profile update or re-promotion undoes a purge's.
2. Picking up restores, exports and imports: no operation runs twice; one that runs ends. Composed with
   the restores of `FileStore` and `CurrencyMigration`.
3. A lossy COMMIT as an action of the modules above.
4. Weaker timing assumptions: which part of `Prompt` each theorem needs; which invariants of
   `CurrencyMigration` survive two requests in the middle. The theorems for the modules of 1 and 2.

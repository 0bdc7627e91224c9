------------------------- MODULE CurrencyMigration -------------------------
(***************************************************************************)
(* Re-pricing a group's inventory from one currency to another: the        *)
(* preview / start handlers of apiserver/currency_migrations.go, the lock  *)
(* they put on commodity writes and on restores, the background worker of  *)
(* services/currency_migration_worker.go and the transactions it runs      *)
(* (registry/postgres/currency_migration*.go).                             *)
(*                                                                         *)
(* Every database transaction is one atomic action; what a handler read    *)
(* in an earlier transaction is carried in its process record, as the code *)
(* carries it in local variables, and may be stale when it is used.        *)
(***************************************************************************)
EXTENDS Currency, Integers, FiniteSets, Functions

CONSTANTS
    Groups, Commodities, GroupOf,
    Starters,       \* clients of the preview and start endpoints
    Editors,        \* requests that edit a commodity
    GroupWriters,   \* requests that update a group's name, icon or status
    Restorers,      \* restore requests, each with the operation it creates
    Workers,        \* worker processes
    DailyCap,       \* completed migrations a group is allowed in a day
    MaxMigrations,  \* bound: rows of currency_migrations
    MaxDay,         \* bound: days that pass
    MaxCrashes      \* bound: worker crashes

ASSUME CurrencyMigrationAssumption ==
    /\ GroupOf \in [Commodities -> Groups]
    /\ Null \notin Groups
    /\ DailyCap \in Nat /\ MaxMigrations \in Nat
    /\ MaxDay \in Nat /\ MaxCrashes \in Nat

VARIABLES
    migrations,   \* currency_migrations, by id; ids grow with created_at
    groups,       \* location_groups: group_currency, currency_migration_id
    commodities,  \* the price columns of commodities
    auditRows,    \* currency_migration_audit: rows per migration and commodity
    auditLogs,    \* audit_logs: complete and fail entries per migration
    starters, editors, groupWriters, restorers, workers,
    paused,       \* the soft pause of the currency-migration worker type
    day,          \* the UTC day
    crashes

tables   == <<migrations, groups, commodities, auditRows, auditLogs>>
requests == <<starters, editors, groupWriters, restorers>>
vars     == <<tables, requests, workers, paused, day, crashes>>

-----------------------------------------------------------------------------
(* The tables.                                                             *)

Mids == 1 .. MaxMigrations

ItemsOf(g) == {c \in Commodities : GroupOf[c] = g}

NoRow == [status |-> "unused"]

(* The first four statuses of a row are those of the code; "unused" is an  *)
(* id not inserted yet.  stuck says that started_at is older than          *)
(* currencyMigrationStuckThreshold, hash is the state hash inside the      *)
(* stored preview token.                                                   *)
InFlightStatus == {"pending", "running"}
TerminalStatus == {"completed", "failed"}

InFlight(g) ==
    {m \in Mids : /\ migrations[m].status \in InFlightStatus
                  /\ migrations[m].group = g}

(* Mutants: a claim that retries failed rows, and one that picks up stuck  *)
(* running rows instead of leaving them to the sweep.                      *)
PendingOrFailed == {m \in Mids : migrations[m].status \in {"pending", "failed"}}

PendingOrStuck ==
    {m \in Mids : \/ migrations[m].status = "pending"
                  \/ migrations[m].status = "running" /\ migrations[m].stuck}

Pending == {m \in Mids : migrations[m].status = "pending"}

(* Mutants: a sweep without the status condition, and one that never finds *)
(* anything.                                                               *)
StuckAnyStatus == {m \in Mids : migrations[m].status \in {"running", "completed"} /\ migrations[m].stuck}

StuckNever == {}

StuckRunning == {m \in Mids : migrations[m].status = "running" /\ migrations[m].stuck}

CompletedToday(g, now) ==
    {m \in Mids : /\ migrations[m].status = "completed"
                  /\ migrations[m].group = g
                  /\ migrations[m].completedOn = now}

(* HashGroupState hashes the number of commodities and the sum of their    *)
(* current prices; sums in different currencies are different numbers.     *)
StateHash(g) ==
    [count |-> Cardinality(ItemsOf(g)),
     sum   |-> [u \in Units |->
                   SumFunction([c \in {c \in ItemsOf(g) : commodities[c].price = u} |->
                                   commodities[c].worth])]]

(* What a reader of restore_operations sees: the record is there, pending  *)
(* or running, whatever still works on it once it has been deleted.        *)
RestoreActive(x) ==
    ~restorers[x].gone /\ restorers[x].pc \in {"pending", "read", "running", "fetched"}

GroupHasInFlightRestore(g) ==
    \E x \in Restorers : RestoreActive(x) /\ restorers[x].group = g

HasRunningRestores == \E x \in Restorers : RestoreActive(x)

IdleStarter(token) ==
    [pc |-> "idle", token |-> token, group |-> Null, cur |-> Null,
     now |-> 0, mig |-> 0, row |-> Null]

IdleEditor == [pc |-> "idle", item |-> Null, cur |-> Null, acq |-> Null]

IdleGroupWriter == [pc |-> "idle", group |-> Null, row |-> Null]

IdleRestorer ==
    [pc |-> "idle", group |-> Null, cur |-> Null, item |-> Null, acq |-> Null,
     seen |-> FALSE, gone |-> FALSE]

IdleWorker == [pc |-> "idle", mig |-> 0, swept |-> {}, snap |-> Null]

-----------------------------------------------------------------------------
Init ==
    /\ migrations = [m \in Mids |-> NoRow]
    /\ groups \in [Groups -> [cur : Currencies, mig : {0}]]
    /\ commodities \in [Commodities -> Commodity]
    /\ \A c \in Commodities :
          /\ ValuedIn(commodities[c], groups[GroupOf[c]].cur)
          /\ commodities[c].acq = Null /\ ~commodities[c].foreign
    /\ auditRows = [m \in Mids |-> [c \in Commodities |-> 0]]
    /\ auditLogs = [m \in Mids |-> [complete |-> 0, fail |-> 0]]
    /\ starters = [r \in Starters |-> IdleStarter(Null)]
    /\ editors = [e \in Editors |-> IdleEditor]
    /\ groupWriters = [x \in GroupWriters |-> IdleGroupWriter]
    /\ restorers = [x \in Restorers |-> IdleRestorer]
    /\ workers = [w \in Workers |-> IdleWorker]
    /\ paused = FALSE
    /\ day = 0
    /\ crashes = 0

-----------------------------------------------------------------------------
(* The preview and start handlers.                                         *)

StarterStep(r, from, to) ==
    /\ starters[r].pc = from
    /\ starters' = [starters EXCEPT ![r].pc = to]

StarterReturns(r) ==
    starters' = [starters EXCEPT ![r] = IdleStarter(@.token)]

(* The group a request works on is the row its middleware read.            *)
PreviewResolve(r, g) ==
    /\ starters[r].pc = "idle"
    /\ starters' = [starters EXCEPT ![r] =
          [pc |-> "previewing", token |-> Null, group |-> g, cur |-> groups[g].cur,
           now |-> 0, mig |-> 0, row |-> Null]]
    /\ UNCHANGED <<tables, editors, groupWriters, restorers, workers, paused, day, crashes>>

PreviewIssue(r, to) ==
    /\ starters[r].pc = "previewing"
    /\ to # starters[r].cur
    /\ starters' = [starters EXCEPT ![r] =
          IdleStarter([group |-> @.group, from |-> @.cur, to |-> to,
                       hash |-> StateHash(@.group)])]
    /\ UNCHANGED <<tables, editors, groupWriters, restorers, workers, paused, day, crashes>>

(* A start request sends the token back with the attributes it was issued  *)
(* for; the token is not consumed, so a client may send it again.          *)
StartResolve(r) ==
    /\ starters[r].pc = "idle"
    /\ starters[r].token # Null
    /\ groups[starters[r].token.group].cur = starters[r].token.from
    /\ starters' = [starters EXCEPT ![r].pc = "resolved", ![r].group = starters[r].token.group,
                                    ![r].now = day]
    /\ UNCHANGED <<tables, editors, groupWriters, restorers, workers, paused, day, crashes>>

(* Mutant: the live state hash is not compared.                            *)
StartVerifyBindingsOnly(r) ==
    /\ StarterStep(r, "resolved", "bound")
    /\ UNCHANGED <<tables, editors, groupWriters, restorers, workers, paused, day, crashes>>

StartVerify(r) ==
    /\ starters[r].pc = "resolved"
    /\ \/ /\ starters[r].token.hash = StateHash(starters[r].group)
          /\ StarterStep(r, "resolved", "bound")
       \/ /\ starters[r].token.hash # StateHash(starters[r].group)
          /\ StarterReturns(r)
       \/ starters' = [starters EXCEPT ![r] = IdleStarter(Null)]   \* token expired
    /\ UNCHANGED <<tables, editors, groupWriters, restorers, workers, paused, day, crashes>>

StartCheckInFlight(r) ==
    /\ starters[r].pc = "bound"
    /\ IF InFlight(starters[r].group) = {}
       THEN StarterStep(r, "bound", "notMigrating")
       ELSE StarterReturns(r)
    /\ UNCHANGED <<tables, editors, groupWriters, restorers, workers, paused, day, crashes>>

StartCheckRestore(r) ==
    /\ starters[r].pc = "notMigrating"
    /\ IF GroupHasInFlightRestore(starters[r].group)
       THEN StarterReturns(r)
       ELSE StarterStep(r, "notMigrating", "notRestoring")
    /\ UNCHANGED <<tables, editors, groupWriters, restorers, workers, paused, day, crashes>>

(* Mutant: the cap is compared with > instead of >=.                       *)
StartCheckCapOffByOne(r) ==
    /\ starters[r].pc = "notRestoring"
    /\ IF Cardinality(CompletedToday(starters[r].group, starters[r].now)) <= DailyCap
       THEN StarterStep(r, "notRestoring", "allowed")
       ELSE StarterReturns(r)
    /\ UNCHANGED <<tables, editors, groupWriters, restorers, workers, paused, day, crashes>>

StartCheckCap(r) ==
    /\ starters[r].pc = "notRestoring"
    /\ IF Cardinality(CompletedToday(starters[r].group, starters[r].now)) < DailyCap
       THEN StarterStep(r, "notRestoring", "allowed")
       ELSE StarterReturns(r)
    /\ UNCHANGED <<tables, editors, groupWriters, restorers, workers, paused, day, crashes>>

(* Mutants: the insert without the unique index, and without the default   *)
(* status.                                                                 *)
InsertUnguarded(r, m) ==
    migrations' = [migrations EXCEPT ![m] =
        [status |-> "pending", group |-> starters[r].token.group,
         from |-> starters[r].token.from, to |-> starters[r].token.to,
         hash |-> starters[r].token.hash, stuck |-> FALSE, completedOn |-> 0]]

InsertWithoutStatus(r, m) ==
    migrations' = [migrations EXCEPT ![m] =
        [status |-> "", group |-> starters[r].token.group,
         from |-> starters[r].token.from, to |-> starters[r].token.to,
         hash |-> starters[r].token.hash, stuck |-> FALSE, completedOn |-> 0]]

(* The insert, under the unique index on in-flight rows of a group.        *)
InsertPending(r, m) ==
    LET token == starters[r].token
    IN  /\ InFlight(token.group) = {}
        /\ migrations' = [migrations EXCEPT ![m] =
              [status |-> "pending", group |-> token.group,
               from |-> token.from, to |-> token.to, hash |-> token.hash,
               stuck |-> FALSE, completedOn |-> 0]]

StartCreate(r) ==
    /\ starters[r].pc = "allowed"
    /\ \E m \in Mids :
          /\ migrations[m] = NoRow
          /\ \A n \in 1 .. (m - 1) : migrations[n] # NoRow
          /\ InsertPending(r, m)
          /\ starters' = [starters EXCEPT ![r].pc = "created", ![r].mig = m]
    /\ UNCHANGED <<groups, commodities, auditRows, auditLogs,
                   editors, groupWriters, restorers, workers, paused, day, crashes>>

(* setLocationGroupCurrencyMigrationID: a Get, then an Update of every     *)
(* column of the row that was read.                                        *)
StartReadGroup(r) ==
    /\ starters[r].pc = "created"
    /\ starters' = [starters EXCEPT ![r].pc = "locking", ![r].row = groups[starters[r].group]]
    /\ UNCHANGED <<tables, editors, groupWriters, restorers, workers, paused, day, crashes>>

StartWriteGroup(r) ==
    /\ starters[r].pc = "locking"
    /\ groups' = [groups EXCEPT ![starters[r].group] =
                     [starters[r].row EXCEPT !.mig = starters[r].mig]]
    /\ StarterReturns(r)
    /\ UNCHANGED <<migrations, commodities, auditRows, auditLogs,
                   editors, groupWriters, restorers, workers, paused, day, crashes>>

(* A failed query or insert (the unique index included), a cancelled       *)
(* request, a server that goes down: the handler stops where it is.        *)
StartAbort(r) ==
    /\ starters[r].pc # "idle"
    /\ StarterReturns(r)
    /\ UNCHANGED <<tables, editors, groupWriters, restorers, workers, paused, day, crashes>>

-----------------------------------------------------------------------------
(* Commodity edits, behind requireGroupNotMigrating.                       *)

EditResolve(e, c) ==
    /\ editors[e].pc = "idle"
    /\ editors' = [editors EXCEPT ![e] =
          [pc |-> "resolved", item |-> c, cur |-> groups[GroupOf[c]].cur, acq |-> Null]]
    /\ UNCHANGED <<tables, starters, groupWriters, restorers, workers, paused, day, crashes>>

(* Mutant: a write route mounted without the lock middleware.              *)
EditUnlocked(e) ==
    /\ editors[e].pc = "resolved"
    /\ editors' = [editors EXCEPT ![e].pc = "unlocked"]
    /\ UNCHANGED <<tables, starters, groupWriters, restorers, workers, paused, day, crashes>>

EditCheckLock(e) ==
    /\ editors[e].pc = "resolved"
    /\ editors' = [editors EXCEPT ![e] =
          IF InFlight(GroupOf[@.item]) = {}
          THEN [@ EXCEPT !.pc = "unlocked"]
          ELSE IdleEditor]
    /\ UNCHANGED <<tables, starters, groupWriters, restorers, workers, paused, day, crashes>>

(* CommodityRegistry.Update reads the acquisition pair first; when that    *)
(* read fails it goes on with the pair of its argument, which is NULL ...  *)
Prefetched(c) == {commodities[c].acq, Null}

EditPrefetch(e) ==
    /\ editors[e].pc = "unlocked"
    /\ \E acq \in Prefetched(editors[e].item) :
          editors' = [editors EXCEPT ![e].pc = "fetched", ![e].acq = acq]
    /\ UNCHANGED <<tables, starters, groupWriters, restorers, workers, paused, day, crashes>>

(* A row entered in the currency cur.                                      *)
PricedIn(orig, worth, cur, acq) ==
    [orig |-> orig, worth |-> worth, price |-> cur,
     conv |-> IF orig = cur THEN Null ELSE cur, acq |-> acq, foreign |-> FALSE]

(* ... and then writes the row, in the currency the request resolved.      *)
EditWrite(e, orig, worth) ==
    /\ editors[e].pc = "fetched"
    /\ commodities' = [commodities EXCEPT ![editors[e].item] =
          PricedIn(orig, worth, editors[e].cur, editors[e].acq)]
    /\ editors' = [editors EXCEPT ![e] = IdleEditor]
    /\ UNCHANGED <<migrations, groups, auditRows, auditLogs,
                   starters, groupWriters, restorers, workers, paused, day, crashes>>

-----------------------------------------------------------------------------
(* GroupService.UpdateGroup and InitiateGroupDeletion: Get, then an Update *)
(* of every column.  The columns they mean to change are not modelled.     *)

GroupUpdateRead(x, g) ==
    /\ groupWriters[x].pc = "idle"
    /\ groupWriters' = [groupWriters EXCEPT ![x] =
          [pc |-> "read", group |-> g, row |-> groups[g]]]
    /\ UNCHANGED <<tables, starters, editors, restorers, workers, paused, day, crashes>>

GroupUpdateWrite(x) ==
    /\ groupWriters[x].pc = "read"
    /\ groups' = [groups EXCEPT ![groupWriters[x].group] = groupWriters[x].row]
    /\ groupWriters' = [groupWriters EXCEPT ![x] = IdleGroupWriter]
    /\ UNCHANGED <<migrations, commodities, auditRows, auditLogs,
                   starters, editors, restorers, workers, paused, day, crashes>>

-----------------------------------------------------------------------------
(* createExportRestore, the run of the operation it creates, and the       *)
(* deletion of its record.  Rows that are already there are overwritten    *)
(* (merge_update); the set of commodities is fixed.                        *)

RestoreCheckRunning(x, g) ==
    /\ restorers[x].pc = "idle"
    /\ ~HasRunningRestores
    /\ restorers' = [restorers EXCEPT ![x].pc = "noneRunning", ![x].group = g]
    /\ UNCHANGED <<tables, starters, editors, groupWriters, workers, paused, day, crashes>>

RestoreCheckLock(x) ==
    /\ restorers[x].pc = "noneRunning"
    /\ restorers' = [restorers EXCEPT ![x] =
          IF InFlight(@.group) = {} THEN [@ EXCEPT !.pc = "unlocked"] ELSE IdleRestorer]
    /\ UNCHANGED <<tables, starters, editors, groupWriters, workers, paused, day, crashes>>

RestoreCreate(x) ==
    /\ restorers[x].pc = "unlocked"
    /\ restorers' = [restorers EXCEPT ![x].pc = "pending"]
    /\ UNCHANGED <<tables, starters, editors, groupWriters, workers, paused, day, crashes>>

(* The restore worker reads the operation and the group ...                *)
RestoreRead(x) ==
    /\ restorers[x].pc = "pending"
    /\ ~restorers[x].gone
    /\ restorers' = [restorers EXCEPT ![x].pc = "read", ![x].cur = groups[restorers[x].group].cur]
    /\ UNCHANGED <<tables, starters, editors, groupWriters, workers, paused, day, crashes>>

(* ... and then writes the status, which takes the record to be there.     *)
RestoreRun(x) ==
    /\ restorers[x].pc = "read"
    /\ ~restorers[x].gone
    /\ restorers' = [restorers EXCEPT ![x].pc = "running"]
    /\ UNCHANGED <<tables, starters, editors, groupWriters, workers, paused, day, crashes>>

(* One commodity of the archive goes through CommodityRegistry.Update.     *)
RestorePrefetch(x, c) ==
    /\ restorers[x].pc = "running"
    /\ c \in ItemsOf(restorers[x].group)
    /\ \E acq \in Prefetched(c) :
          restorers' = [restorers EXCEPT ![x].pc = "fetched", ![x].item = c, ![x].acq = acq]
    /\ UNCHANGED <<tables, starters, editors, groupWriters, workers, paused, day, crashes>>

(* Its amounts are those of the archive, in the currency unit the group    *)
(* had when the backup was taken; only the converted price is dropped when *)
(* the original one is in the currency the worker read.                    *)
RestoreWrite(x, orig, worth, unit) ==
    LET s == restorers[x]
    IN  /\ s.pc = "fetched"
        /\ commodities' = [commodities EXCEPT ![s.item] =
              [orig |-> orig, worth |-> worth, price |-> unit,
               conv |-> IF orig \in {unit, s.cur} THEN Null ELSE unit, acq |-> s.acq,
               foreign |-> unit # groups[s.group].cur]]
        /\ restorers' = [restorers EXCEPT ![x].pc = "running", ![x].item = Null, ![x].acq = Null]
        /\ UNCHANGED <<migrations, groups, auditRows, auditLogs,
                       starters, editors, groupWriters, workers, paused, day, crashes>>

(* The run completes or fails, and nobody asks about its record any more.  *)
RestoreFinish(x) ==
    /\ restorers[x].pc \in {"pending", "read", "running", "fetched"}
    /\ restorers' = [restorers EXCEPT ![x] =
          [IdleRestorer EXCEPT !.pc = "finished", !.group = restorers[x].group]]
    /\ UNCHANGED <<tables, starters, editors, groupWriters, workers, paused, day, crashes>>

(* deleteExportRestore looks whether the operation runs (deleting a        *)
(* finished one is of no interest here), and then deletes it or fails to.  *)
RestoreDeleteLook(x) ==
    /\ restorers[x].pc \in {"pending", "read"}
    /\ ~restorers[x].gone
    /\ restorers' = [restorers EXCEPT ![x].seen = TRUE]
    /\ UNCHANGED <<tables, starters, editors, groupWriters, workers, paused, day, crashes>>

RestoreDelete(x) ==
    /\ restorers[x].seen
    /\ \E deleted \in BOOLEAN :
          restorers' = [restorers EXCEPT ![x].seen = FALSE, ![x].gone = @ \/ deleted]
    /\ UNCHANGED <<tables, starters, editors, groupWriters, workers, paused, day, crashes>>

-----------------------------------------------------------------------------
(* The worker: every tick sweeps, then claims and converts one migration.  *)

(* Mutants: the sweep forgets the group's lock signal, and the sweep is    *)
(* skipped while paused.                                                   *)
SweepKeepsLock(w) ==
    /\ workers[w].pc = "idle"
    /\ migrations' = [m \in Mids |->
          IF m \in StuckRunning
          THEN [migrations[m] EXCEPT !.status = "failed", !.completedOn = day]
          ELSE migrations[m]]
    /\ workers' = [workers EXCEPT ![w].pc = "swept", ![w].swept = StuckRunning]
    /\ UNCHANGED <<groups, commodities, auditRows, auditLogs, requests, paused, day, crashes>>

SweepUnlessPaused(w) ==
    /\ ~paused
    /\ workers[w].pc = "idle"
    /\ migrations' = [m \in Mids |->
          IF m \in StuckRunning
          THEN [migrations[m] EXCEPT !.status = "failed", !.completedOn = day]
          ELSE migrations[m]]
    /\ groups' = [g \in Groups |->
          IF groups[g].mig \in StuckRunning THEN [groups[g] EXCEPT !.mig = 0] ELSE groups[g]]
    /\ workers' = [workers EXCEPT ![w].pc = "swept", ![w].swept = StuckRunning]
    /\ UNCHANGED <<commodities, auditRows, auditLogs, requests, paused, day, crashes>>

(* SweepStuckRunning: one transaction.                                     *)
Sweep(w) ==
    /\ workers[w].pc = "idle"
    /\ migrations' = [m \in Mids |->
          IF m \in StuckRunning
          THEN [migrations[m] EXCEPT !.status = "failed", !.completedOn = day]
          ELSE migrations[m]]
    /\ groups' = [g \in Groups |->
          IF groups[g].mig \in StuckRunning THEN [groups[g] EXCEPT !.mig = 0] ELSE groups[g]]
    /\ workers' = [workers EXCEPT ![w].pc = "swept", ![w].swept = StuckRunning]
    /\ UNCHANGED <<commodities, auditRows, auditLogs, requests, paused, day, crashes>>

(* The best-effort fail entry of one swept migration: written, or not.     *)
SweepAudit(w, m) ==
    /\ workers[w].pc = "swept"
    /\ m \in workers[w].swept
    /\ \/ auditLogs' = [auditLogs EXCEPT ![m].fail = @ + 1]
       \/ UNCHANGED auditLogs
    /\ workers' = [workers EXCEPT ![w].swept = @ \ {m}]
    /\ UNCHANGED <<migrations, groups, commodities, auditRows, requests, paused, day, crashes>>

(* ClaimNextPending (TX1): the oldest pending row becomes running.         *)
Claim(w) ==
    /\ workers[w].pc = "swept"
    /\ workers[w].swept = {}
    /\ ~paused
    /\ \E m \in Pending :
          /\ \A n \in Pending : m <= n
          /\ migrations' = [migrations EXCEPT ![m].status = "running", ![m].stuck = FALSE]
          /\ workers' = [workers EXCEPT ![w].pc = "claimed", ![w].mig = m]
    /\ UNCHANGED <<groups, commodities, auditRows, auditLogs, requests, paused, day, crashes>>

(* The tick ends without a claim: paused, or nothing pending.              *)
ClaimNothing(w) ==
    /\ workers[w].pc = "swept"
    /\ workers[w].swept = {}
    /\ paused \/ Pending = {}
    /\ workers' = [workers EXCEPT ![w] = IdleWorker]
    /\ UNCHANGED <<tables, requests, paused, day, crashes>>

(* TX2 up to listGroupCommodities, under the per-group advisory lock.      *)
Tx2Begin(w) ==
    /\ workers[w].pc = "claimed"
    /\ \A v \in Workers : workers[v].pc = "tx2" =>
          migrations[workers[v].mig].group # migrations[workers[w].mig].group
    /\ workers' = [workers EXCEPT ![w].pc = "tx2", ![w].snap = commodities]
    /\ UNCHANGED <<tables, requests, paused, day, crashes>>

(* Mutant: the acquisition pair is overwritten by every conversion.        *)
ConvertedRefilling(c, before, from, to) ==
    [ApplyConversion(before, from, to) EXCEPT !.acq =
        IF before.orig = from THEN before.orig ELSE commodities[c].acq]

(* ConvertGroup writes the price columns it computed from what it listed;  *)
(* SetAcquisition looks at the row again and fills an empty pair only.     *)
Converted(c, before, from, to) ==
    [ApplyConversion(before, from, to) EXCEPT !.acq =
        IF FillAcquisition(before, from) /\ commodities[c].acq = Null
        THEN before.orig ELSE commodities[c].acq]

(* The rest of TX2 and its commit.  The status of the row is not looked at *)
(* again, nor is the currency of the group.                                *)
Tx2Commit(w) ==
    LET m == workers[w].mig
        op == migrations[m]
    IN  /\ workers[w].pc = "tx2"
        /\ commodities' = [c \in Commodities |->
              IF c \in ItemsOf(op.group)
              THEN Converted(c, workers[w].snap[c], op.from, op.to)
              ELSE commodities[c]]
        /\ auditRows' = [auditRows EXCEPT ![m] =
              [c \in Commodities |-> IF c \in ItemsOf(op.group) THEN @[c] + 1 ELSE @[c]]]
        /\ groups' = [groups EXCEPT ![op.group] = [cur |-> op.to, mig |-> 0]]
        /\ migrations' = [migrations EXCEPT ![m].status = "completed", ![m].completedOn = day]
        /\ auditLogs' = [auditLogs EXCEPT ![m].complete = @ + 1]
        /\ workers' = [workers EXCEPT ![w] = IdleWorker]
        /\ UNCHANGED <<requests, paused, day, crashes>>

(* Any error rolls TX2 back and leaves the row running for the sweep.      *)
Tx2Rollback(w) ==
    /\ workers[w].pc \in {"claimed", "tx2"}
    /\ workers' = [workers EXCEPT ![w] = IdleWorker]
    /\ UNCHANGED <<tables, requests, paused, day, crashes>>

Crash(w) ==
    /\ workers[w].pc # "down"
    /\ crashes < MaxCrashes
    /\ crashes' = crashes + 1
    /\ workers' = [workers EXCEPT ![w] = [IdleWorker EXCEPT !.pc = "down"]]
    /\ UNCHANGED <<tables, requests, paused, day>>

Restart(w) ==
    /\ workers[w].pc = "down"
    /\ workers' = [workers EXCEPT ![w] = IdleWorker]
    /\ UNCHANGED <<tables, requests, paused, day, crashes>>

-----------------------------------------------------------------------------
(* The environment: time and the administrator.                            *)

(* Ten minutes pass since a running row was claimed.                       *)
GetStuck(m) ==
    /\ migrations[m].status = "running"
    /\ ~migrations[m].stuck
    /\ migrations' = [migrations EXCEPT ![m].stuck = TRUE]
    /\ UNCHANGED <<groups, commodities, auditRows, auditLogs, requests,
                   workers, paused, day, crashes>>

NewDay ==
    /\ day < MaxDay
    /\ day' = day + 1
    /\ UNCHANGED <<tables, requests, workers, paused, crashes>>

TogglePause ==
    /\ paused' = ~paused
    /\ UNCHANGED <<tables, requests, workers, day, crashes>>

-----------------------------------------------------------------------------
StarterNext(r) ==
    \/ \E g \in Groups : PreviewResolve(r, g)
    \/ \E to \in Currencies : PreviewIssue(r, to)
    \/ StartResolve(r) \/ StartVerify(r) \/ StartCheckInFlight(r) \/ StartCheckRestore(r)
    \/ StartCheckCap(r) \/ StartCreate(r) \/ StartReadGroup(r) \/ StartWriteGroup(r)
    \/ StartAbort(r)

EditorNext(e) ==
    \/ \E c \in Commodities : EditResolve(e, c)
    \/ EditCheckLock(e) \/ EditPrefetch(e)
    \/ \E orig \in Currencies, worth \in Amounts : EditWrite(e, orig, worth)

GroupWriterNext(x) == (\E g \in Groups : GroupUpdateRead(x, g)) \/ GroupUpdateWrite(x)

RestorerNext(x) ==
    \/ \E g \in Groups : RestoreCheckRunning(x, g)
    \/ RestoreCheckLock(x) \/ RestoreCreate(x) \/ RestoreRead(x) \/ RestoreRun(x)
    \/ \E c \in Commodities : RestorePrefetch(x, c)
    \/ \E orig, unit \in Currencies, worth \in Amounts : RestoreWrite(x, orig, worth, unit)
    \/ RestoreFinish(x) \/ RestoreDeleteLook(x) \/ RestoreDelete(x)

WorkerStep(w) ==
    \/ Sweep(w) \/ (\E m \in Mids : SweepAudit(w, m)) \/ Claim(w) \/ ClaimNothing(w)
    \/ Tx2Begin(w) \/ Tx2Commit(w) \/ Tx2Rollback(w)

WorkerNext(w) == WorkerStep(w) \/ Crash(w) \/ Restart(w)

Next ==
    \/ \E r \in Starters : StarterNext(r)
    \/ \E e \in Editors : EditorNext(e)
    \/ \E x \in GroupWriters : GroupWriterNext(x)
    \/ \E x \in Restorers : RestorerNext(x)
    \/ \E w \in Workers : WorkerNext(w)
    \/ \E m \in Mids : GetStuck(m)
    \/ NewDay \/ TogglePause

Spec == Init /\ [][Next]_vars

(* Worker processes run (and are restarted after a crash) and time passes; *)
(* nothing is assumed of the people who send requests.                     *)
Fairness ==
    /\ \A w \in Workers : WF_vars(WorkerStep(w)) /\ WF_vars(Restart(w))
    /\ \A m \in Mids : WF_vars(GetStuck(m))

FairSpec == Spec /\ Fairness

-----------------------------------------------------------------------------
(* Properties of every behaviour.                                          *)

(* The state hash in a row or a token stays untyped: {r.hash} is its type. *)
MigrationRowOK(r) ==
    \/ r = NoRow
    \/ r \in [status : InFlightStatus \union TerminalStatus, group : Groups,
              from : Currencies, to : Currencies, hash : {r.hash},
              stuck : BOOLEAN, completedOn : 0 .. MaxDay]

GroupRow == [cur : Currencies, mig : 0 .. MaxMigrations]

TokenOK(t) ==
    t \in [group : Groups, from : Currencies, to : Currencies, hash : {t.hash}]

StarterOK(s) ==
    /\ s \in [pc : {"idle", "previewing", "resolved", "bound", "notMigrating", "notRestoring",
                    "allowed", "created", "locking"},
              token : {s.token}, group : Groups \union {Null}, cur : Currencies \union {Null},
              now : 0 .. MaxDay, mig : 0 .. MaxMigrations, row : GroupRow \union {Null}]
    /\ s.token # Null => TokenOK(s.token)
    /\ s.pc # "idle" => s.group \in Groups
    /\ s.pc = "previewing" => s.cur \in Currencies
    /\ s.pc \notin {"idle", "previewing"} => s.token # Null
    /\ s.pc = "locking" => s.row \in GroupRow

EditorOK(e) ==
    /\ e \in [pc : {"idle", "resolved", "unlocked", "fetched"}, item : Commodities \union {Null},
              cur : Currencies \union {Null}, acq : Currencies \union {Null}]
    /\ e.pc # "idle" => e.item \in Commodities /\ e.cur \in Currencies

GroupWriterOK(x) ==
    /\ x \in [pc : {"idle", "read"}, group : Groups \union {Null}, row : GroupRow \union {Null}]
    /\ x.pc = "read" => x.group \in Groups /\ x.row \in GroupRow

RestorerOK(x) ==
    /\ x \in [pc : {"idle", "noneRunning", "unlocked", "pending", "read", "running", "fetched",
                    "finished"},
              group : Groups \union {Null}, cur : Currencies \union {Null},
              item : Commodities \union {Null}, acq : Currencies \union {Null},
              seen : BOOLEAN, gone : BOOLEAN]
    /\ x.pc # "idle" => x.group \in Groups
    /\ x.pc \in {"read", "running", "fetched"} => x.cur \in Currencies
    /\ x.pc = "fetched" => x.item \in ItemsOf(x.group)
    /\ x.gone \/ x.seen => x.pc \notin {"idle", "noneRunning", "unlocked"}

WorkerOK(w) ==
    /\ w \in [pc : {"idle", "swept", "claimed", "tx2", "down"}, mig : 0 .. MaxMigrations,
              swept : SUBSET Mids, snap : [Commodities -> Commodity] \union {Null}]
    /\ w.pc = "tx2" => w.snap \in [Commodities -> Commodity]

(* The tables hold rows of their types, and a process record holds what    *)
(* its handler has read by the point it has reached.                       *)
TypeOK ==
    /\ migrations = [m \in Mids |-> migrations[m]]
    /\ \A m \in Mids : MigrationRowOK(migrations[m])
    /\ groups \in [Groups -> GroupRow]
    /\ commodities \in [Commodities -> Commodity]
    /\ auditRows \in [Mids -> [Commodities -> Nat]]
    /\ auditLogs \in [Mids -> [complete : Nat, fail : Nat]]
    /\ starters = [r \in Starters |-> starters[r]]
    /\ \A r \in Starters : StarterOK(starters[r])
    /\ editors = [e \in Editors |-> editors[e]]
    /\ \A e \in Editors : EditorOK(editors[e])
    /\ groupWriters = [x \in GroupWriters |-> groupWriters[x]]
    /\ \A x \in GroupWriters : GroupWriterOK(groupWriters[x])
    /\ restorers = [x \in Restorers |-> restorers[x]]
    /\ \A x \in Restorers : RestorerOK(restorers[x])
    /\ workers = [w \in Workers |-> workers[w]]
    /\ \A w \in Workers : WorkerOK(workers[w])
    /\ paused \in BOOLEAN /\ day \in 0 .. MaxDay /\ crashes \in 0 .. MaxCrashes

(* A group has at most one migration in flight, whoever races with whom in *)
(* the start handler and wherever a worker crashed: what the partial index *)
(* idx_currency_migrations_group_in_flight is there for.                   *)
OneInFlight ==
    \A m, n \in Mids :
        /\ migrations[m].status \in InFlightStatus
        /\ migrations[n].status \in InFlightStatus
        /\ migrations[m].group = migrations[n].group
        => m = n

(* No two workers process one migration: a row is claimed once, and is not *)
(* claimed again after a rollback, a crash or a sweep.                     *)
OneWorkerPerMigration ==
    \A v, w \in Workers :
        /\ workers[v].pc \in {"claimed", "tx2"}
        /\ workers[w].pc \in {"claimed", "tx2"}
        /\ workers[v].mig = workers[w].mig
        => v = w

(* The claim behind it: a worker holds a migration only while the row is   *)
(* running, or after a sweep has failed it behind the worker's back.       *)
ClaimsAreLive ==
    \A w \in Workers : workers[w].pc \in {"claimed", "tx2"} =>
        /\ workers[w].mig \in Mids
        /\ migrations[workers[w].mig].status \in {"running", "failed"}

(* TX2 is all or nothing, and happens at most once: a completed migration  *)
(* has repriced every commodity of its group exactly once and is logged    *)
(* exactly once; any other has touched none.                               *)
AuditMatchesStatus ==
    \A m \in Mids :
        LET done == migrations[m].status = "completed"
        IN  /\ \A c \in Commodities :
                  auditRows[m][c] = IF done /\ GroupOf[c] = migrations[m].group THEN 1 ELSE 0
            /\ auditLogs[m].complete = IF done THEN 1 ELSE 0

(* A completed migration stays completed and never reprices again.         *)
CompletedIsFinal ==
    [][\A m \in Mids : migrations[m].status = "completed" =>
          migrations'[m] = migrations[m] /\ auditRows'[m] = auditRows[m]]_vars

(* Without any assumption on time: a row that has ended is rewritten by    *)
(* nobody but the worker that held it before a sweep failed it, and only   *)
(* to completed.                                                           *)
RewrittenByItsWorkerOnly ==
    [][\A m \in Mids :
          migrations[m].status \in TerminalStatus /\ migrations'[m] # migrations[m] =>
             /\ migrations[m].status = "failed" /\ migrations'[m].status = "completed"
             /\ \E w \in Workers : workers[w].pc = "tx2" /\ workers[w].mig = m]_vars

(* Whatever stalls or crashes, a migration is logged as failed at most     *)
(* once, and only when it has ended.                                       *)
FailureLoggedOnce ==
    \A m \in Mids :
        /\ auditLogs[m].fail <= 1
        /\ auditLogs[m].fail = 1 => migrations[m].status \in TerminalStatus

(* The step that ends a migration takes its lock signal back, in whatever  *)
(* group: a signal of a dead migration can only be written after its end.  *)
EndClearsSignal ==
    [][\A m \in Mids :
          /\ migrations[m].status \in InFlightStatus
          /\ migrations'[m].status \in TerminalStatus
          => \A g \in Groups : groups'[g].mig # m]_vars

(* Statuses go pending -> running -> completed | failed (terminal), as     *)
(* models/currency_migration.go:13 has it.                                 *)
TerminalIsFinal ==
    [][\A m \in Mids : migrations[m].status \in TerminalStatus =>
          migrations'[m] = migrations[m]]_vars

(* Every price of a group is an amount of the group's currency, unless a   *)
(* restore brought it from an archive of another: no commodity is missed   *)
(* by a conversion, converted twice, or written back in the currency the   *)
(* group has left.                                                         *)
PricesInGroupCurrency ==
    \A c \in Commodities :
        commodities[c].foreign \/ ValuedIn(commodities[c], groups[GroupOf[c]].cur)

(* location_groups.currency_migration_id names a migration that is in      *)
(* flight for that very group, or is NULL (models/location_group.go:92).   *)
LockSignalInFlight ==
    \A g \in Groups : groups[g].mig # 0 => groups[g].mig \in InFlight(g)

(* No group completes more migrations in a day than the cap allows.        *)
WithinDailyCap ==
    \A g \in Groups : Cardinality(CompletedToday(g, day)) <= DailyCap

(* What a migration converts is what the user was shown: the group's state *)
(* hash when TX2 commits is the one signed into the preview token.         *)
ConvertsWhatWasPreviewed ==
    [][\A m \in Mids :
          migrations[m].status # "completed" /\ migrations'[m].status = "completed"
          => migrations[m].hash = StateHash(migrations[m].group)]_vars

(* No acquisition pair is ever replaced by another one: conversions and    *)
(* edits keep it, and an edit or a restore that could not read it loses    *)
(* it (registry/postgres/commodities.go:568).                              *)
AcquisitionNotReplaced ==
    [][\A c \in Commodities : commodities[c].acq # Null =>
          commodities'[c].acq \in {commodities[c].acq, Null}]_vars

(* A claimed migration ends, even if its worker died, and even if the      *)
(* worker type is paused from then on: the sweep runs while paused.        *)
RunningEnds ==
    \A m \in Mids :
        migrations[m].status = "running" ~> migrations[m].status \in TerminalStatus

(* Unless the worker type is paused again and again, a pending migration   *)
(* is claimed, and so the group's lock is released in the end.             *)
PendingIsClaimed ==
    <>[]~paused => \A m \in Mids :
        migrations[m].status = "pending" ~> migrations[m].status \in TerminalStatus
=============================================================================

---------------------- MODULE CurrencyMigrationProofs ----------------------
(***************************************************************************)
(* Theorems about CurrencyMigration, for any sets of groups, commodities,  *)
(* requests and workers and any bounds.                                    *)
(***************************************************************************)
EXTENDS CurrencyMigration, TLAPS

USE CurrencyMigrationAssumption, UnitsDistinct

(* A conversion of a row keeps the type of its price columns.              *)
LEMMA ApplyConversionType ==
    ASSUME NEW c \in Commodity, NEW from \in Currencies, NEW to \in Currencies
    PROVE  ApplyConversion(c, from, to) \in Commodity
BY DEF ApplyConversion, ConvertFromCurrency, ConvertToCurrency, ConvertThirdCurrency,
       Rescale, Commodity, Units

(* A conversion rescales the current price of a row, and nothing else that *)
(* a reader of another group would notice.                                 *)
LEMMA ConversionRescales ==
    ASSUME NEW c \in Commodity, NEW from \in Currencies, NEW to \in Currencies
    PROVE  /\ ApplyConversion(c, from, to).price = Rescale(c.price, from, to)
           /\ ApplyConversion(c, from, to).worth = c.worth
           /\ ApplyConversion(c, from, to).foreign = c.foreign
BY DEF ApplyConversion, ConvertFromCurrency, ConvertToCurrency, ConvertThirdCurrency,
       Rescale, Commodity, Units

(* A conversion takes a row valued in the old currency to one valued in    *)
(* the new one, whichever of its three cases applies: ApplyConversion      *)
(* leaves no price behind.                                                 *)
THEOREM ConversionKeepsValuation ==
    ASSUME NEW c \in Commodity, NEW from \in Currencies, NEW to \in Currencies,
           from # to, ValuedIn(c, from)
    PROVE  ValuedIn(ApplyConversion(c, from, to), to)
BY DEF ApplyConversion, ConvertFromCurrency, ConvertToCurrency, ConvertThirdCurrency,
       Rescale, Commodity, Units, ValuedIn
-----------------------------------------------------------------------------
(* What an idle process record holds is well typed.                        *)
LEMMA IdleOK ==
    /\ \A t : t = Null \/ TokenOK(t) => StarterOK(IdleStarter(t))
    /\ EditorOK(IdleEditor)
    /\ GroupWriterOK(IdleGroupWriter)
    /\ RestorerOK(IdleRestorer)
    /\ WorkerOK(IdleWorker)
BY DEF StarterOK, IdleStarter, EditorOK, IdleEditor, GroupWriterOK, IdleGroupWriter,
       RestorerOK, IdleRestorer, WorkerOK, IdleWorker

(* A step that only moves one starter on keeps all types.                  *)
LEMMA StarterMoves ==
    ASSUME TypeOK, NEW r \in Starters, NEW s, StarterOK(s),
           starters' = [starters EXCEPT ![r] = s],
           UNCHANGED <<tables, editors, groupWriters, restorers, workers, paused, day, crashes>>
    PROVE  TypeOK'
BY DEF TypeOK, tables

(* A start request that returns keeps its token and nothing else.          *)
LEMMA StarterReturnsOK ==
    ASSUME TypeOK, NEW r \in Starters, StarterReturns(r)
    PROVE  /\ starters' = [starters EXCEPT ![r] = IdleStarter(starters[r].token)]
           /\ StarterOK(IdleStarter(starters[r].token))
<1>1. starters[r].token = Null \/ TokenOK(starters[r].token)
  BY DEF TypeOK, StarterOK
<1> QED BY <1>1, IdleOK DEF StarterReturns

(* The handlers of preview and start keep all types.                       *)
LEMMA StarterKeepsTypes ==
    ASSUME TypeOK, NEW r \in Starters, StarterNext(r)
    PROVE  TypeOK'
<1> DEFINE s == starters[r]
<1>0. StarterOK(s)
  BY DEF TypeOK
<1>1. ASSUME NEW g \in Groups, PreviewResolve(r, g)
      PROVE  TypeOK'
  <2>1. groups[g].cur \in Currencies
    BY DEF TypeOK, GroupRow
  <2>2. StarterOK([pc |-> "previewing", token |-> Null, group |-> g, cur |-> groups[g].cur,
                   now |-> 0, mig |-> 0, row |-> Null])
    BY <2>1 DEF StarterOK
  <2> QED BY <1>1, <2>2, StarterMoves DEF PreviewResolve
<1>2. ASSUME NEW to \in Currencies, PreviewIssue(r, to)
      PROVE  TypeOK'
  <2> DEFINE t == [group |-> s.group, from |-> s.cur, to |-> to, hash |-> StateHash(s.group)]
  <2>1. TokenOK(t)
    BY <1>0, <1>2 DEF PreviewIssue, StarterOK, TokenOK
  <2> QED BY <1>2, <2>1, IdleOK, StarterMoves DEF PreviewIssue
<1>3. CASE StartResolve(r)
  <2>1. StarterOK([s EXCEPT !.pc = "resolved", !.group = s.token.group, !.now = day])
    BY <1>0, <1>3 DEF TypeOK, StartResolve, StarterOK, TokenOK
  <2> QED BY <1>3, <2>1, StarterMoves DEF StartResolve
<1>4. ASSUME NEW from \in {"resolved", "bound", "notMigrating", "notRestoring"},
             NEW to \in {"bound", "notMigrating", "notRestoring", "allowed"},
             StarterStep(r, from, to)
      PROVE  /\ starters' = [starters EXCEPT ![r] = [s EXCEPT !.pc = to]]
             /\ StarterOK([s EXCEPT !.pc = to])
  <2>1. StarterOK([s EXCEPT !.pc = to])
    BY <1>0, <1>4 DEF StarterStep, StarterOK
  <2> QED BY <1>4, <2>1 DEF StarterStep
<1>5. CASE StartVerify(r)
  <2>1. CASE StarterStep(r, "resolved", "bound")
    BY <1>4, <1>5, <2>1, StarterMoves DEF StartVerify
  <2>2. CASE StarterReturns(r)
    BY <1>5, <2>2, StarterReturnsOK, StarterMoves DEF StartVerify
  <2>3. CASE starters' = [starters EXCEPT ![r] = IdleStarter(Null)]
    BY <1>5, <2>3, IdleOK, StarterMoves DEF StartVerify
  <2> QED BY <1>5, <2>1, <2>2, <2>3 DEF StartVerify
<1>6. CASE StartCheckInFlight(r) \/ StartCheckRestore(r) \/ StartCheckCap(r)
  <2>1. CASE StarterReturns(r)
    BY <1>6, <2>1, StarterReturnsOK, StarterMoves
       DEF StartCheckInFlight, StartCheckRestore, StartCheckCap
  <2>2. CASE ~StarterReturns(r)
    BY <1>4, <1>6, <2>2, StarterMoves
       DEF StartCheckInFlight, StartCheckRestore, StartCheckCap
  <2> QED BY <2>1, <2>2
<1>7. CASE StartCreate(r)
  <2>1. PICK m \in Mids :
          /\ InsertPending(r, m)
          /\ starters' = [starters EXCEPT ![r].pc = "created", ![r].mig = m]
    BY <1>7 DEF StartCreate
  <2>2. TokenOK(s.token)
    BY <1>0, <1>7 DEF StartCreate, StarterOK
  <2> DEFINE row == [status |-> "pending", group |-> s.token.group,
                     from |-> s.token.from, to |-> s.token.to, hash |-> s.token.hash,
                     stuck |-> FALSE, completedOn |-> 0]
  <2>3. MigrationRowOK(row)
    BY <2>2 DEF TokenOK, MigrationRowOK, InFlightStatus
  <2>4. /\ migrations' = [n \in Mids |-> migrations'[n]]
        /\ \A n \in Mids : MigrationRowOK(migrations[n])'
    <3>1. migrations' = [migrations EXCEPT ![m] = row]
      BY <2>1 DEF InsertPending
    <3> HIDE DEF row
    <3> QED BY <2>3, <3>1 DEF TypeOK
  <2>5. StarterOK([s EXCEPT !.pc = "created", !.mig = m])
    <3>1. m \in 0 .. MaxMigrations
      BY DEF Mids
    <3> QED BY <1>0, <1>7, <3>1 DEF StartCreate, StarterOK
  <2>6. /\ starters' = [q \in Starters |-> starters'[q]]
        /\ \A q \in Starters : StarterOK(starters[q])'
    <3>1. starters' = [starters EXCEPT ![r] = [s EXCEPT !.pc = "created", !.mig = m]]
      BY <2>1 DEF TypeOK
    <3> QED BY <2>5, <3>1 DEF TypeOK
  <2> QED BY <1>7, <2>4, <2>6 DEF StartCreate, TypeOK
<1>8. CASE StartReadGroup(r)
  <2>1. StarterOK([s EXCEPT !.pc = "locking", !.row = groups[s.group]])
    BY <1>0, <1>8 DEF TypeOK, StartReadGroup, StarterOK
  <2> QED BY <1>8, <2>1, StarterMoves DEF StartReadGroup
<1>9. CASE StartWriteGroup(r)
  <2>1. groups' \in [Groups -> GroupRow]
    BY <1>0, <1>9 DEF StartWriteGroup, TypeOK, StarterOK, GroupRow
  <2>2. /\ starters' = [q \in Starters |-> starters'[q]]
        /\ \A q \in Starters : StarterOK(starters[q])'
    BY <1>9, StarterReturnsOK DEF StartWriteGroup, TypeOK
  <2> QED BY <1>9, <2>1, <2>2 DEF StartWriteGroup, TypeOK
<1>10. CASE StartAbort(r)
  BY <1>10, StarterReturnsOK, StarterMoves DEF StartAbort
<1> QED BY <1>1, <1>2, <1>3, <1>5, <1>6, <1>7, <1>8, <1>9, <1>10 DEF StarterNext

(* A row entered by a request is a row of commodities.                     *)
LEMMA PricedInType ==
    ASSUME NEW orig \in Currencies, NEW worth \in Amounts, NEW cur \in Currencies,
           NEW acq \in Currencies \union {Null}
    PROVE  PricedIn(orig, worth, cur, acq) \in Commodity
BY DEF PricedIn, Commodity, Units

(* What an update finds of the acquisition pair, or fails to find.         *)
LEMMA PrefetchedType ==
    ASSUME TypeOK, NEW c \in Commodities
    PROVE  Prefetched(c) \subseteq Currencies \union {Null}
BY DEF Prefetched, TypeOK, Commodity

(* A step that only moves one editor on keeps all types.                   *)
LEMMA EditorMoves ==
    ASSUME TypeOK, NEW e \in Editors, NEW s, EditorOK(s),
           editors' = [editors EXCEPT ![e] = s],
           UNCHANGED <<tables, starters, groupWriters, restorers, workers, paused, day, crashes>>
    PROVE  TypeOK'
BY DEF TypeOK, tables

(* Editing a commodity keeps all types.                                    *)
LEMMA EditorKeepsTypes ==
    ASSUME TypeOK, NEW e \in Editors, EditorNext(e)
    PROVE  TypeOK'
<1> DEFINE s == editors[e]
<1>0. EditorOK(s)
  BY DEF TypeOK
<1>1. ASSUME NEW c \in Commodities, EditResolve(e, c)
      PROVE  TypeOK'
  <2>1. groups[GroupOf[c]].cur \in Currencies
    BY DEF TypeOK, GroupRow
  <2>2. EditorOK([pc |-> "resolved", item |-> c, cur |-> groups[GroupOf[c]].cur, acq |-> Null])
    BY <2>1 DEF EditorOK
  <2> QED BY <1>1, <2>2, EditorMoves DEF EditResolve
<1>2. CASE EditCheckLock(e)
  <2>1. EditorOK([s EXCEPT !.pc = "unlocked"])
    BY <1>0, <1>2 DEF EditCheckLock, EditorOK
  <2> QED BY <1>2, <2>1, IdleOK, EditorMoves DEF EditCheckLock
<1>3. CASE EditPrefetch(e)
  <2>1. PICK acq \in Prefetched(s.item) :
           editors' = [editors EXCEPT ![e] = [s EXCEPT !.pc = "fetched", !.acq = acq]]
    BY <1>3 DEF EditPrefetch, TypeOK
  <2>2. acq \in Currencies \union {Null}
    BY <1>0, <1>3, PrefetchedType DEF EditPrefetch, EditorOK
  <2>3. EditorOK([s EXCEPT !.pc = "fetched", !.acq = acq])
    BY <1>0, <1>3, <2>2 DEF EditPrefetch, EditorOK
  <2> QED BY <1>3, <2>1, <2>3, EditorMoves DEF EditPrefetch
<1>4. ASSUME NEW orig \in Currencies, NEW worth \in Amounts, EditWrite(e, orig, worth)
      PROVE  TypeOK'
  <2> DEFINE row == PricedIn(orig, worth, s.cur, s.acq)
  <2>1. row \in Commodity
    BY <1>0, <1>4, PricedInType DEF EditWrite, EditorOK
  <2>2. commodities' \in [Commodities -> Commodity]
    <3>1. commodities' = [commodities EXCEPT ![s.item] = row]
      BY <1>4 DEF EditWrite
    <3> HIDE DEF row
    <3> QED BY <2>1, <3>1 DEF TypeOK
  <2>3. /\ editors' = [q \in Editors |-> editors'[q]]
        /\ \A q \in Editors : EditorOK(editors[q])'
    BY <1>4, IdleOK DEF EditWrite, TypeOK
  <2> QED BY <1>4, <2>2, <2>3 DEF EditWrite, TypeOK
<1> QED BY <1>1, <1>2, <1>3, <1>4 DEF EditorNext

(* A group's metadata update, or its deletion, keeps all types.            *)
LEMMA GroupWriterKeepsTypes ==
    ASSUME TypeOK, NEW x \in GroupWriters, GroupWriterNext(x)
    PROVE  TypeOK'
<1> DEFINE s == groupWriters[x]
<1>0. GroupWriterOK(s)
  BY DEF TypeOK
<1>1. ASSUME NEW g \in Groups, GroupUpdateRead(x, g)
      PROVE  TypeOK'
  <2>1. GroupWriterOK([pc |-> "read", group |-> g, row |-> groups[g]])
    BY DEF TypeOK, GroupWriterOK
  <2> QED BY <1>1, <2>1 DEF GroupUpdateRead, TypeOK, tables
<1>2. CASE GroupUpdateWrite(x)
  <2>1. groups' \in [Groups -> GroupRow]
    BY <1>0, <1>2 DEF GroupUpdateWrite, GroupWriterOK, TypeOK
  <2> QED BY <1>2, <2>1, IdleOK DEF GroupUpdateWrite, TypeOK
<1> QED BY <1>1, <1>2 DEF GroupWriterNext

(* A step that only moves one restore on keeps all types.                  *)
LEMMA RestorerMoves ==
    ASSUME TypeOK, NEW x \in Restorers, NEW s, RestorerOK(s),
           restorers' = [restorers EXCEPT ![x] = s],
           UNCHANGED <<tables, starters, editors, groupWriters, workers, paused, day, crashes>>
    PROVE  TypeOK'
BY DEF TypeOK, tables

(* A restore, from its request to its end, keeps all types.                *)
LEMMA RestorerKeepsTypes ==
    ASSUME TypeOK, NEW x \in Restorers, RestorerNext(x)
    PROVE  TypeOK'
<1> DEFINE s == restorers[x]
<1>0. RestorerOK(s)
  BY DEF TypeOK
<1>1. ASSUME NEW g \in Groups, RestoreCheckRunning(x, g)
      PROVE  TypeOK'
  <2>1. RestorerOK([s EXCEPT !.pc = "noneRunning", !.group = g])
    BY <1>0, <1>1 DEF RestoreCheckRunning, RestorerOK
  <2> QED BY <1>1, <2>1, RestorerMoves DEF RestoreCheckRunning
<1>2. CASE RestoreCheckLock(x)
  <2>1. RestorerOK([s EXCEPT !.pc = "unlocked"])
    BY <1>0, <1>2 DEF RestoreCheckLock, RestorerOK
  <2> QED BY <1>2, <2>1, IdleOK, RestorerMoves DEF RestoreCheckLock
<1>3. CASE RestoreCreate(x)
  <2>1. RestorerOK([s EXCEPT !.pc = "pending"])
    BY <1>0, <1>3 DEF RestoreCreate, RestorerOK
  <2> QED BY <1>3, <2>1, RestorerMoves DEF RestoreCreate
<1>4. CASE RestoreRead(x)
  <2>1. groups[s.group].cur \in Currencies
    BY <1>0, <1>4 DEF RestoreRead, RestorerOK, TypeOK, GroupRow
  <2>2. RestorerOK([s EXCEPT !.pc = "read", !.cur = groups[s.group].cur])
    BY <1>0, <1>4, <2>1 DEF RestoreRead, RestorerOK
  <2> QED BY <1>4, <2>2, RestorerMoves DEF RestoreRead
<1>5. CASE RestoreRun(x)
  <2>1. RestorerOK([s EXCEPT !.pc = "running"])
    BY <1>0, <1>5 DEF RestoreRun, RestorerOK
  <2> QED BY <1>5, <2>1, RestorerMoves DEF RestoreRun
<1>6. ASSUME NEW c \in Commodities, RestorePrefetch(x, c)
      PROVE  TypeOK'
  <2>1. PICK acq \in Prefetched(c) :
           restorers' = [restorers EXCEPT ![x] = [s EXCEPT !.pc = "fetched", !.item = c, !.acq = acq]]
    BY <1>6 DEF RestorePrefetch, TypeOK
  <2>2. acq \in Currencies \union {Null}
    BY PrefetchedType
  <2>3. RestorerOK([s EXCEPT !.pc = "fetched", !.item = c, !.acq = acq])
    BY <1>0, <1>6, <2>2 DEF RestorePrefetch, RestorerOK
  <2> QED BY <1>6, <2>1, <2>3, RestorerMoves DEF RestorePrefetch
<1>7. ASSUME NEW orig \in Currencies, NEW unit \in Currencies, NEW worth \in Amounts,
             RestoreWrite(x, orig, worth, unit)
      PROVE  TypeOK'
  <2>1. /\ s.pc = "fetched" /\ s.item \in Commodities /\ s.acq \in Currencies \union {Null}
        /\ restorers' = [restorers EXCEPT ![x] = [s EXCEPT !.pc = "running", !.item = Null, !.acq = Null]]
    BY <1>0, <1>7 DEF RestoreWrite, RestorerOK, ItemsOf, TypeOK
  <2> DEFINE row == [orig |-> orig, worth |-> worth, price |-> unit,
                     conv |-> IF orig \in {unit, s.cur} THEN Null ELSE unit, acq |-> s.acq,
                     foreign |-> unit # groups[s.group].cur]
  <2>2. row \in Commodity
    BY <2>1 DEF Commodity, Units
  <2>3. commodities' = [commodities EXCEPT ![s.item] = row]
    BY <1>7 DEF RestoreWrite
  <2> HIDE DEF row
  <2>4. commodities' \in [Commodities -> Commodity]
    BY <2>1, <2>2, <2>3 DEF TypeOK
  <2>5. RestorerOK([s EXCEPT !.pc = "running", !.item = Null, !.acq = Null])
    BY <1>0, <2>1 DEF RestorerOK
  <2>6. /\ restorers' = [q \in Restorers |-> restorers'[q]]
        /\ \A q \in Restorers : RestorerOK(restorers[q])'
    BY <2>1, <2>5 DEF TypeOK
  <2> QED BY <1>7, <2>4, <2>6 DEF RestoreWrite, TypeOK
<1>8. CASE RestoreFinish(x)
  <2>1. RestorerOK([IdleRestorer EXCEPT !.pc = "finished", !.group = s.group])
    BY <1>0, <1>8 DEF RestoreFinish, RestorerOK, IdleRestorer
  <2> QED BY <1>8, <2>1, RestorerMoves DEF RestoreFinish
<1>9. CASE RestoreDeleteLook(x)
  <2>1. RestorerOK([s EXCEPT !.seen = TRUE])
    BY <1>0, <1>9 DEF RestoreDeleteLook, RestorerOK
  <2> QED BY <1>9, <2>1, RestorerMoves DEF RestoreDeleteLook
<1>10. CASE RestoreDelete(x)
  <2>1. PICK deleted \in BOOLEAN :
           restorers' = [restorers EXCEPT ![x] = [s EXCEPT !.seen = FALSE, !.gone = @ \/ deleted]]
    BY <1>10 DEF RestoreDelete, TypeOK
  <2>2. RestorerOK([s EXCEPT !.seen = FALSE, !.gone = @ \/ deleted])
    BY <1>0, <1>10 DEF RestoreDelete, RestorerOK
  <2> QED BY <1>10, <2>1, <2>2, RestorerMoves DEF RestoreDelete
<1> QED BY <1>1, <1>2, <1>3, <1>4, <1>5, <1>6, <1>7, <1>8, <1>9, <1>10 DEF RestorerNext

(* A step that only moves one worker on keeps all types.                   *)
LEMMA WorkerMoves ==
    ASSUME TypeOK, NEW w \in Workers, NEW s, WorkerOK(s),
           workers' = [workers EXCEPT ![w] = s]
    PROVE  /\ workers' = [v \in Workers |-> workers'[v]]
           /\ \A v \in Workers : WorkerOK(workers[v])'
BY DEF TypeOK

(* What TX2 writes back is a row of commodities.                           *)
LEMMA ConvertedType ==
    ASSUME TypeOK, NEW c \in Commodities, NEW before \in Commodity,
           NEW from \in Currencies, NEW to \in Currencies
    PROVE  Converted(c, before, from, to) \in Commodity
<1>1. ApplyConversion(before, from, to) \in Commodity
  BY ApplyConversionType
<1>2. commodities[c].acq \in Currencies \union {Null} /\ before.orig \in Currencies
  BY DEF TypeOK, Commodity
<1> QED BY <1>1, <1>2 DEF Converted, Commodity

(* What TX2 works on: a row whose fields are those of a migration.         *)
LEMMA ClaimedRow ==
    ASSUME TypeOK, ClaimsAreLive, NEW w \in Workers, workers[w].pc \in {"claimed", "tx2"}
    PROVE  LET m == workers[w].mig
           IN  /\ m \in Mids
               /\ migrations[m].status \in {"running", "failed"}
               /\ migrations[m] # NoRow
               /\ MigrationRowOK(migrations[m])
               /\ migrations[m].group \in Groups
               /\ migrations[m].from \in Currencies
               /\ migrations[m].to \in Currencies
<1> DEFINE m == workers[w].mig
<1>1. m \in Mids /\ migrations[m].status \in {"running", "failed"}
  BY DEF ClaimsAreLive
<1>2. migrations[m] # NoRow
  BY <1>1 DEF NoRow
<1> QED BY <1>1, <1>2 DEF TypeOK, MigrationRowOK

(* The sweep keeps all types.                                              *)
LEMMA SweepKeepsTypes ==
    ASSUME TypeOK, NEW w \in Workers, Sweep(w)
    PROVE  TypeOK'
<1>1. ASSUME NEW m \in Mids, migrations[m].status = "running"
      PROVE  MigrationRowOK([migrations[m] EXCEPT !.status = "failed", !.completedOn = day])
  <2>1. MigrationRowOK(migrations[m]) /\ migrations[m] # NoRow /\ day \in 0 .. MaxDay
    BY <1>1 DEF TypeOK, NoRow
  <2> QED BY <2>1 DEF MigrationRowOK, TerminalStatus
<1>2. /\ migrations' = [m \in Mids |-> migrations'[m]]
      /\ \A m \in Mids : MigrationRowOK(migrations[m])'
  BY <1>1 DEF Sweep, TypeOK, StuckRunning
<1>3. groups' \in [Groups -> GroupRow]
  <2>1. \A g \in Groups : [groups[g] EXCEPT !.mig = 0] \in GroupRow
    BY DEF TypeOK, GroupRow
  <2> QED BY <2>1 DEF Sweep, TypeOK
<1>4. WorkerOK([workers[w] EXCEPT !.pc = "swept", !.swept = StuckRunning])
  <2>1. WorkerOK(workers[w]) /\ StuckRunning \in SUBSET Mids
    BY DEF TypeOK, StuckRunning
  <2> HIDE DEF StuckRunning
  <2> QED BY <2>1 DEF WorkerOK
<1>5. workers' = [workers EXCEPT ![w] = [workers[w] EXCEPT !.pc = "swept", !.swept = StuckRunning]]
  BY DEF Sweep, TypeOK
<1> HIDE DEF StuckRunning
<1>6. /\ workers' = [v \in Workers |-> workers'[v]]
      /\ \A v \in Workers : WorkerOK(workers[v])'
  BY <1>4, <1>5, WorkerMoves
<1> QED BY <1>2, <1>3, <1>6 DEF Sweep, TypeOK, requests

(* The claim keeps all types.                                              *)
LEMMA ClaimKeepsTypes ==
    ASSUME TypeOK, NEW w \in Workers, Claim(w)
    PROVE  TypeOK'
<1>1. PICK m \in Pending :
        /\ migrations' = [migrations EXCEPT ![m].status = "running", ![m].stuck = FALSE]
        /\ workers' = [workers EXCEPT ![w].pc = "claimed", ![w].mig = m]
  BY DEF Claim
<1>2. m \in Mids /\ migrations[m].status = "pending"
  BY DEF Pending
<1> DEFINE row == [migrations[m] EXCEPT !.status = "running", !.stuck = FALSE]
<1>3. MigrationRowOK(row)
  <2>1. MigrationRowOK(migrations[m]) /\ migrations[m] # NoRow
    BY <1>2 DEF TypeOK, NoRow
  <2> QED BY <2>1 DEF MigrationRowOK, InFlightStatus
<1>4. migrations' = [migrations EXCEPT ![m] = row]
  BY <1>1, <1>2 DEF TypeOK
<1> HIDE DEF row
<1>5. /\ migrations' = [n \in Mids |-> migrations'[n]]
      /\ \A n \in Mids : MigrationRowOK(migrations[n])'
  BY <1>2, <1>3, <1>4 DEF TypeOK
<1> DEFINE s == [workers[w] EXCEPT !.pc = "claimed", !.mig = m]
<1>6. WorkerOK(s)
  <2>1. m \in 0 .. MaxMigrations
    BY <1>2 DEF Mids
  <2> QED BY <2>1 DEF TypeOK, WorkerOK
<1>7. workers' = [workers EXCEPT ![w] = s]
  BY <1>1 DEF TypeOK
<1> HIDE DEF s
<1>8. /\ workers' = [v \in Workers |-> workers'[v]]
      /\ \A v \in Workers : WorkerOK(workers[v])'
  BY <1>6, <1>7, WorkerMoves
<1> QED BY <1>5, <1>8 DEF Claim, TypeOK, requests

(* The commit of TX2 keeps all types.                                      *)
LEMMA Tx2CommitKeepsTypes ==
    ASSUME TypeOK, ClaimsAreLive, NEW w \in Workers, Tx2Commit(w)
    PROVE  TypeOK'
<1> DEFINE m == workers[w].mig
           op == migrations[m]
<1>1. /\ m \in Mids /\ op # NoRow /\ MigrationRowOK(op)
      /\ op.group \in Groups /\ op.from \in Currencies /\ op.to \in Currencies
  BY ClaimedRow DEF Tx2Commit
<1>2. workers[w].snap \in [Commodities -> Commodity]
  BY DEF Tx2Commit, TypeOK, WorkerOK
<1>3. commodities' \in [Commodities -> Commodity]
  <2>1. \A c \in Commodities : Converted(c, workers[w].snap[c], op.from, op.to) \in Commodity
    BY <1>1, <1>2, ConvertedType
  <2> QED BY <2>1 DEF Tx2Commit, TypeOK
<1>4. auditRows' \in [Mids -> [Commodities -> Nat]]
  <2>1. [c \in Commodities |-> IF c \in ItemsOf(op.group) THEN auditRows[m][c] + 1 ELSE auditRows[m][c]]
           \in [Commodities -> Nat]
    BY <1>1 DEF TypeOK
  <2> QED BY <1>1, <2>1 DEF Tx2Commit, TypeOK
<1>5. groups' \in [Groups -> GroupRow]
  BY <1>1 DEF Tx2Commit, TypeOK, GroupRow
<1>6. /\ migrations' = [n \in Mids |-> migrations'[n]]
      /\ \A n \in Mids : MigrationRowOK(migrations[n])'
  <2> DEFINE row == [op EXCEPT !.status = "completed", !.completedOn = day]
  <2>1. MigrationRowOK(row)
    BY <1>1 DEF MigrationRowOK, TerminalStatus, TypeOK
  <2>2. migrations' = [migrations EXCEPT ![m] = row]
    BY <1>1 DEF Tx2Commit, TypeOK
  <2> HIDE DEF row
  <2> QED BY <1>1, <2>1, <2>2 DEF TypeOK
<1>7. auditLogs' \in [Mids -> [complete : Nat, fail : Nat]]
  <2> DEFINE l == [auditLogs[m] EXCEPT !.complete = @ + 1]
  <2>1. l \in [complete : Nat, fail : Nat]
    <3>1. auditLogs[m] \in [complete : Nat, fail : Nat]
      BY <1>1 DEF TypeOK
    <3> QED BY <3>1
  <2>2. auditLogs' = [auditLogs EXCEPT ![m] = l]
    BY <1>1 DEF Tx2Commit, TypeOK
  <2> HIDE DEF l
  <2> QED BY <1>1, <2>1, <2>2 DEF TypeOK
<1>8. /\ workers' = [v \in Workers |-> workers'[v]]
      /\ \A v \in Workers : WorkerOK(workers[v])'
  BY IdleOK, WorkerMoves DEF Tx2Commit
<1> QED BY <1>3, <1>4, <1>5, <1>6, <1>7, <1>8 DEF Tx2Commit, TypeOK, requests

(* So does every step of a worker.                                         *)
LEMMA WorkerKeepsTypes ==
    ASSUME TypeOK, ClaimsAreLive, NEW w \in Workers, WorkerNext(w)
    PROVE  TypeOK'
<1>1. ASSUME NEW m \in Mids, SweepAudit(w, m)
      PROVE  TypeOK'
  <2>1. auditLogs' \in [Mids -> [complete : Nat, fail : Nat]]
    <3> DEFINE l == [auditLogs[m] EXCEPT !.fail = @ + 1]
    <3>1. l \in [complete : Nat, fail : Nat]
      BY DEF TypeOK
    <3>2. auditLogs' \in {auditLogs, [auditLogs EXCEPT ![m] = l]}
      BY <1>1 DEF SweepAudit, TypeOK
    <3> HIDE DEF l
    <3> QED BY <3>1, <3>2 DEF TypeOK
  <2>2. WorkerOK([workers[w] EXCEPT !.swept = @ \ {m}])
    BY DEF TypeOK, WorkerOK
  <2>3. /\ workers' = [v \in Workers |-> workers'[v]]
        /\ \A v \in Workers : WorkerOK(workers[v])'
    BY <1>1, <2>2, WorkerMoves DEF SweepAudit
  <2> QED BY <1>1, <2>1, <2>3 DEF SweepAudit, TypeOK, requests
<1>2. CASE Tx2Begin(w)
  <2> DEFINE s == [workers[w] EXCEPT !.pc = "tx2", !.snap = commodities]
  <2>1. WorkerOK(s)
    BY DEF TypeOK, WorkerOK
  <2>2. workers' = [workers EXCEPT ![w] = s]
    BY <1>2 DEF Tx2Begin, TypeOK
  <2> HIDE DEF s
  <2>3. /\ workers' = [v \in Workers |-> workers'[v]]
        /\ \A v \in Workers : WorkerOK(workers[v])'
    BY <2>1, <2>2, WorkerMoves
  <2> QED BY <1>2, <2>3 DEF Tx2Begin, TypeOK, tables, requests
<1>3. CASE ClaimNothing(w) \/ Tx2Rollback(w) \/ Restart(w)
  <2>1. workers' = [workers EXCEPT ![w] = IdleWorker]
    BY <1>3 DEF ClaimNothing, Tx2Rollback, Restart
  <2>2. /\ workers' = [v \in Workers |-> workers'[v]]
        /\ \A v \in Workers : WorkerOK(workers[v])'
    BY <2>1, IdleOK, WorkerMoves
  <2> QED BY <1>3, <2>2 DEF ClaimNothing, Tx2Rollback, Restart, TypeOK, tables, requests
<1>4. CASE Crash(w)
  <2>1. WorkerOK([IdleWorker EXCEPT !.pc = "down"])
    BY DEF IdleWorker, WorkerOK
  <2>2. /\ workers' = [v \in Workers |-> workers'[v]]
        /\ \A v \in Workers : WorkerOK(workers[v])'
    BY <1>4, <2>1, WorkerMoves DEF Crash
  <2>3. crashes' \in 0 .. MaxCrashes
    BY <1>4 DEF Crash, TypeOK
  <2> QED BY <1>4, <2>2, <2>3 DEF Crash, TypeOK, tables, requests
<1> QED BY <1>1, <1>2, <1>3, <1>4, SweepKeepsTypes, ClaimKeepsTypes, Tx2CommitKeepsTypes
        DEF WorkerNext, WorkerStep

(* So do time and the administrator.                                       *)
LEMMA EnvironmentKeepsTypes ==
    ASSUME TypeOK, (\E m \in Mids : GetStuck(m)) \/ NewDay \/ TogglePause
    PROVE  TypeOK'
<1>1. ASSUME NEW m \in Mids, GetStuck(m)
      PROVE  TypeOK'
  <2> DEFINE row == [migrations[m] EXCEPT !.stuck = TRUE]
  <2>1. MigrationRowOK(row)
    <3>1. MigrationRowOK(migrations[m]) /\ migrations[m] # NoRow
      BY <1>1 DEF GetStuck, TypeOK, NoRow
    <3> QED BY <3>1 DEF MigrationRowOK
  <2>2. migrations' = [migrations EXCEPT ![m] = row]
    BY <1>1 DEF GetStuck, TypeOK
  <2> HIDE DEF row
  <2>3. /\ migrations' = [n \in Mids |-> migrations'[n]]
        /\ \A n \in Mids : MigrationRowOK(migrations[n])'
    BY <2>1, <2>2 DEF TypeOK
  <2> QED BY <1>1, <2>3 DEF GetStuck, TypeOK, requests
<1>2. CASE NewDay
  <2>1. day' \in 0 .. MaxDay
    BY <1>2 DEF NewDay, TypeOK
  <2> QED BY <1>2, <2>1 DEF NewDay, TypeOK, tables, requests
<1>3. CASE TogglePause
  BY <1>3 DEF TogglePause, TypeOK, tables, requests
<1> QED BY <1>1, <1>2, <1>3

(* TypeOK is inductive.                                                    *)
LEMMA NextKeepsTypes ==
    ASSUME TypeOK, ClaimsAreLive, [Next]_vars
    PROVE  TypeOK'
<1>1. CASE UNCHANGED vars
  BY <1>1 DEF vars, tables, requests, TypeOK
<1> QED BY <1>1, StarterKeepsTypes, EditorKeepsTypes, GroupWriterKeepsTypes, RestorerKeepsTypes,
           WorkerKeepsTypes, EnvironmentKeepsTypes DEF Next

-----------------------------------------------------------------------------
(* The inductive invariant.  That a row is claimed by one worker needs     *)
(* that a claimed row is no longer pending; that it is applied once needs  *)
(* that no second worker holds it.                                         *)
IInv ==
    /\ TypeOK
    /\ OneInFlight
    /\ ClaimsAreLive
    /\ OneWorkerPerMigration
    /\ AuditMatchesStatus

(* The invariant holds of empty migration tables.                          *)
LEMMA InitEstablishes == Init => IInv
<1> SUFFICES ASSUME Init PROVE IInv
  OBVIOUS
<1>1. TypeOK
  <2>1. \A m \in Mids : MigrationRowOK(migrations[m])
    BY DEF Init, MigrationRowOK
  <2>2. groups \in [Groups -> GroupRow]
    BY DEF Init, GroupRow
  <2>3. auditRows \in [Mids -> [Commodities -> Nat]]
    BY DEF Init
  <2>4. auditLogs \in [Mids -> [complete : Nat, fail : Nat]]
    BY DEF Init
  <2>5. \A r \in Starters : StarterOK(starters[r])
    BY IdleOK DEF Init
  <2>6. /\ \A e \in Editors : EditorOK(editors[e])
        /\ \A x \in GroupWriters : GroupWriterOK(groupWriters[x])
        /\ \A x \in Restorers : RestorerOK(restorers[x])
        /\ \A w \in Workers : WorkerOK(workers[w])
    BY IdleOK DEF Init
  <2>7. commodities \in [Commodities -> Commodity] /\ paused \in BOOLEAN
    BY Zenon DEF Init
  <2>9. day \in 0 .. MaxDay /\ crashes \in 0 .. MaxCrashes
    BY DEF Init
  <2>8. /\ migrations = [m \in Mids |-> migrations[m]]
        /\ starters = [r \in Starters |-> starters[r]]
        /\ editors = [e \in Editors |-> editors[e]]
        /\ groupWriters = [x \in GroupWriters |-> groupWriters[x]]
        /\ restorers = [x \in Restorers |-> restorers[x]]
        /\ workers = [w \in Workers |-> workers[w]]
    BY DEF Init
  <2> QED BY <2>1, <2>2, <2>3, <2>4, <2>5, <2>6, <2>7, <2>8, <2>9 DEF TypeOK
<1>2. \A m \in Mids : migrations[m].status = "unused"
  BY DEF Init, NoRow
<1>3. \A w \in Workers : workers[w].pc = "idle"
  BY DEF Init, IdleWorker
<1>4. OneInFlight
  BY <1>2 DEF OneInFlight, InFlightStatus
<1>5. ClaimsAreLive /\ OneWorkerPerMigration
  BY <1>3 DEF ClaimsAreLive, OneWorkerPerMigration
<1>6. AuditMatchesStatus
  BY <1>2 DEF Init, AuditMatchesStatus
<1> QED BY <1>1, <1>4, <1>5, <1>6 DEF IInv

(* The parts of the state the last four conjuncts speak of; most steps do  *)
(* not touch them.                                                         *)
lifecycle == <<migrations, auditRows, auditLogs, workers>>

(* A step that leaves the lifecycle alone keeps what is said of it.        *)
LEMMA OthersKeep ==
    ASSUME IInv, UNCHANGED lifecycle
    PROVE  OneInFlight' /\ ClaimsAreLive' /\ OneWorkerPerMigration' /\ AuditMatchesStatus'
BY DEF IInv, lifecycle, OneInFlight, ClaimsAreLive, OneWorkerPerMigration, AuditMatchesStatus

(* A step that completes no migration and logs no completion.              *)
LEMMA CompletesNothing ==
    ASSUME AuditMatchesStatus, UNCHANGED auditRows,
           \A m \in Mids : auditLogs'[m].complete = auditLogs[m].complete,
           \A m \in Mids :
               \/ migrations'[m] = migrations[m]
               \/ migrations[m].status # "completed" /\ migrations'[m].status # "completed"
    PROVE  AuditMatchesStatus'
BY DEF AuditMatchesStatus

(* Inserting a row: this is where the unique index is needed.              *)
LEMMA StartCreateKeeps ==
    ASSUME IInv, NEW r \in Starters, StartCreate(r)
    PROVE  OneInFlight' /\ ClaimsAreLive' /\ OneWorkerPerMigration' /\ AuditMatchesStatus'
<1> USE DEF IInv
<1>1. PICK m \in Mids : migrations[m] = NoRow /\ InsertPending(r, m)
  BY DEF StartCreate
<1> DEFINE t == starters[r].token
           row == [status |-> "pending", group |-> t.group, from |-> t.from, to |-> t.to,
                   hash |-> t.hash, stuck |-> FALSE, completedOn |-> 0]
<1>2. migrations' = [migrations EXCEPT ![m] = row] /\ InFlight(t.group) = {}
  BY <1>1 DEF InsertPending
<1>3. row.status = "pending" /\ row.group = t.group
  OBVIOUS
<1> HIDE DEF row
<1>4. /\ migrations'[m] = row
      /\ \A n \in Mids : n # m => migrations'[n] = migrations[n]
  BY <1>1, <1>2 DEF TypeOK
<1>5. UNCHANGED <<auditRows, auditLogs, workers>>
  BY DEF StartCreate
<1>6. migrations[m].status = "unused"
  BY <1>1 DEF NoRow
<1>7. OneInFlight'
  BY <1>2, <1>3, <1>4 DEF OneInFlight, InFlight
<1>8. ClaimsAreLive'
  BY <1>4, <1>5, <1>6 DEF ClaimsAreLive
<1>9. OneWorkerPerMigration'
  BY <1>5 DEF OneWorkerPerMigration
<1>10. AuditMatchesStatus'
  BY <1>3, <1>4, <1>5, <1>6, CompletesNothing
<1> QED BY <1>7, <1>8, <1>9, <1>10

(* The sweep fails running rows only, so it completes nothing.             *)
LEMMA SweepKeeps ==
    ASSUME IInv, NEW w \in Workers, Sweep(w)
    PROVE  OneInFlight' /\ ClaimsAreLive' /\ OneWorkerPerMigration' /\ AuditMatchesStatus'
<1> USE DEF IInv
<1>1. \A m \in Mids :
        \/ migrations'[m] = migrations[m]
        \/ /\ migrations[m].status = "running"
           /\ migrations'[m].status = "failed"
           /\ migrations'[m].group = migrations[m].group
  <2> SUFFICES ASSUME NEW m \in Mids, migrations[m].status = "running",
                      migrations'[m] = [migrations[m] EXCEPT !.status = "failed", !.completedOn = day]
               PROVE  migrations'[m].status = "failed" /\ migrations'[m].group = migrations[m].group
    BY DEF Sweep, StuckRunning
  <2>1. migrations[m] # NoRow
    BY DEF NoRow
  <2> QED BY <2>1 DEF TypeOK, MigrationRowOK
<1>2. workers[w].pc = "idle" /\ workers'[w].pc = "swept"
  BY DEF Sweep, TypeOK, WorkerOK
<1>3. \A v \in Workers : v # w => workers'[v] = workers[v]
  BY DEF Sweep, TypeOK
<1>4. OneInFlight'
  BY <1>1 DEF OneInFlight, InFlightStatus
<1>5. ClaimsAreLive'
  BY <1>1, <1>2, <1>3 DEF ClaimsAreLive
<1>6. OneWorkerPerMigration'
  BY <1>2, <1>3 DEF OneWorkerPerMigration
<1>7. AuditMatchesStatus'
  BY <1>1, CompletesNothing DEF Sweep
<1> QED BY <1>4, <1>5, <1>6, <1>7

(* The claim: the row was pending, so no worker holds it yet.              *)
LEMMA ClaimKeeps ==
    ASSUME IInv, NEW w \in Workers, Claim(w)
    PROVE  OneInFlight' /\ ClaimsAreLive' /\ OneWorkerPerMigration' /\ AuditMatchesStatus'
<1> USE DEF IInv
<1>1. PICK m \in Pending :
        /\ migrations' = [migrations EXCEPT ![m].status = "running", ![m].stuck = FALSE]
        /\ workers' = [workers EXCEPT ![w].pc = "claimed", ![w].mig = m]
  BY DEF Claim
<1>2. m \in Mids /\ migrations[m].status = "pending" /\ migrations[m] # NoRow
  BY DEF Pending, NoRow
<1>3. migrations'[m].status = "running" /\ migrations'[m].group = migrations[m].group
  <2> DEFINE row == [migrations[m] EXCEPT !.status = "running", !.stuck = FALSE]
  <2>1. migrations'[m] = row
    BY <1>1, <1>2 DEF TypeOK
  <2>2. row.status = "running" /\ row.group = migrations[m].group
    BY <1>2 DEF TypeOK, MigrationRowOK
  <2> QED BY <2>1, <2>2
<1>4. \A n \in Mids : n # m => migrations'[n] = migrations[n]
  BY <1>1, <1>2 DEF TypeOK
<1>5. workers'[w].mig = m /\ \A v \in Workers : v # w => workers'[v] = workers[v]
  <2>1. workers' = [workers EXCEPT ![w] = [workers[w] EXCEPT !.pc = "claimed", !.mig = m]]
    BY <1>1 DEF TypeOK
  <2>2. [workers[w] EXCEPT !.pc = "claimed", !.mig = m].mig = m
    BY DEF TypeOK, WorkerOK
  <2> QED BY <2>1, <2>2 DEF TypeOK
<1>6. OneInFlight'
  BY <1>2, <1>3, <1>4 DEF OneInFlight, InFlightStatus
<1>7. ClaimsAreLive'
  BY <1>2, <1>3, <1>4, <1>5 DEF ClaimsAreLive
<1>8. OneWorkerPerMigration'
  BY <1>2, <1>5 DEF OneWorkerPerMigration, ClaimsAreLive
<1>9. AuditMatchesStatus'
  BY <1>2, <1>3, <1>4, CompletesNothing DEF Claim
<1> QED BY <1>6, <1>7, <1>8, <1>9

(* The commit of TX2: the only step that completes a migration.            *)
LEMMA Tx2CommitKeeps ==
    ASSUME IInv, NEW w \in Workers, Tx2Commit(w)
    PROVE  OneInFlight' /\ ClaimsAreLive' /\ OneWorkerPerMigration' /\ AuditMatchesStatus'
<1> USE DEF IInv
<1> DEFINE m == workers[w].mig
           op == migrations[m]
<1>1. /\ m \in Mids /\ op # NoRow /\ MigrationRowOK(op)
      /\ op.status \in {"running", "failed"} /\ op.group \in Groups
  BY ClaimedRow DEF Tx2Commit
<1>2. migrations'[m].status = "completed" /\ migrations'[m].group = op.group
  <2> DEFINE row == [op EXCEPT !.status = "completed", !.completedOn = day]
  <2>1. migrations'[m] = row
    BY <1>1 DEF Tx2Commit, TypeOK
  <2>2. row.status = "completed" /\ row.group = op.group
    BY <1>1 DEF MigrationRowOK
  <2> QED BY <2>1, <2>2
<1>3. \A n \in Mids : n # m => migrations'[n] = migrations[n]
  BY <1>1 DEF Tx2Commit, TypeOK
<1>4. workers'[w].pc = "idle" /\ \A v \in Workers : v # w => workers'[v] = workers[v]
  BY DEF Tx2Commit, TypeOK, IdleWorker
<1>5. workers[w].pc = "tx2"
  BY DEF Tx2Commit
<1>6. OneInFlight'
  BY <1>2, <1>3 DEF OneInFlight, InFlightStatus
<1>7. ClaimsAreLive'
  <2>1. \A v \in Workers : v # w /\ workers[v].pc \in {"claimed", "tx2"} => workers[v].mig # m
    BY <1>5 DEF OneWorkerPerMigration
  <2> QED BY <1>3, <1>4, <2>1 DEF ClaimsAreLive
<1>8. OneWorkerPerMigration'
  BY <1>4 DEF OneWorkerPerMigration
<1>9. AuditMatchesStatus'
  <2>1. \A c \in Commodities :
           auditRows'[m][c] = IF GroupOf[c] = op.group THEN 1 ELSE 0
    <3>1. \A c \in Commodities : auditRows[m][c] = 0
      BY <1>1 DEF AuditMatchesStatus
    <3>2. auditRows'[m] =
            [c \in Commodities |-> IF c \in ItemsOf(op.group) THEN auditRows[m][c] + 1 ELSE auditRows[m][c]]
      BY <1>1 DEF Tx2Commit, TypeOK
    <3> QED BY <3>1, <3>2 DEF ItemsOf
  <2>2. auditLogs'[m].complete = 1
    <3>1. auditLogs[m].complete = 0
      BY <1>1 DEF AuditMatchesStatus
    <3> DEFINE l == [auditLogs[m] EXCEPT !.complete = @ + 1]
    <3>2. auditLogs'[m] = l
      BY <1>1 DEF Tx2Commit, TypeOK
    <3>3. l.complete = 1
      <4>1. auditLogs[m] \in [complete : Nat, fail : Nat]
        BY <1>1 DEF TypeOK
      <4> QED BY <3>1, <4>1
    <3> QED BY <3>2, <3>3
  <2>3. \A n \in Mids : n # m => auditRows'[n] = auditRows[n] /\ auditLogs'[n] = auditLogs[n]
    BY <1>1 DEF Tx2Commit, TypeOK
  <2> QED BY <1>2, <1>3, <2>1, <2>2, <2>3 DEF AuditMatchesStatus
<1> QED BY <1>6, <1>7, <1>8, <1>9

(* Every step of a worker keeps the invariant.                             *)
LEMMA WorkerKeeps ==
    ASSUME IInv, NEW w \in Workers, WorkerNext(w)
    PROVE  OneInFlight' /\ ClaimsAreLive' /\ OneWorkerPerMigration' /\ AuditMatchesStatus'
<1> USE DEF IInv
<1>1. ASSUME NEW m \in Mids, SweepAudit(w, m)
      PROVE  OneInFlight' /\ ClaimsAreLive' /\ OneWorkerPerMigration' /\ AuditMatchesStatus'
  <2>1. /\ workers'[w].pc = "swept"
        /\ \A v \in Workers : v # w => workers'[v] = workers[v]
    BY <1>1 DEF SweepAudit, TypeOK, WorkerOK
  <2>2. OneInFlight' /\ ClaimsAreLive' /\ OneWorkerPerMigration'
    BY <1>1, <2>1 DEF SweepAudit, OneInFlight, ClaimsAreLive, OneWorkerPerMigration
  <2>3. \A n \in Mids : auditLogs'[n].complete = auditLogs[n].complete
    <3> DEFINE l == [auditLogs[m] EXCEPT !.fail = @ + 1]
    <3>1. l.complete = auditLogs[m].complete
      BY DEF TypeOK
    <3>2. auditLogs' \in {auditLogs, [auditLogs EXCEPT ![m] = l]}
      BY <1>1 DEF SweepAudit, TypeOK
    <3> HIDE DEF l
    <3> QED BY <3>1, <3>2 DEF TypeOK
  <2>4. AuditMatchesStatus'
    BY <1>1, <2>3, CompletesNothing DEF SweepAudit
  <2> QED BY <2>2, <2>4
<1>2. CASE Tx2Begin(w)
  <2>1. /\ workers'[w].mig = workers[w].mig
        /\ \A v \in Workers : v # w => workers'[v] = workers[v]
    <3>1. workers'[w] = [workers[w] EXCEPT !.pc = "tx2", !.snap = commodities]
      BY <1>2 DEF Tx2Begin, TypeOK
    <3>2. workers'[w].mig = workers[w].mig
      BY <3>1 DEF TypeOK, WorkerOK
    <3> QED BY <1>2, <3>2 DEF Tx2Begin, TypeOK
  <2>2. workers[w].pc = "claimed"
    BY <1>2 DEF Tx2Begin
  <2>3. \A v \in Workers :
           /\ workers'[v].mig = workers[v].mig
           /\ workers'[v].pc \in {"claimed", "tx2"} => workers[v].pc \in {"claimed", "tx2"}
    BY <2>1, <2>2
  <2>4. ClaimsAreLive' /\ OneWorkerPerMigration'
    BY <1>2, <2>3 DEF Tx2Begin, tables, ClaimsAreLive, OneWorkerPerMigration
  <2>5. OneInFlight' /\ AuditMatchesStatus'
    BY <1>2 DEF Tx2Begin, tables, OneInFlight, AuditMatchesStatus
  <2> QED BY <2>4, <2>5
<1>3. CASE ClaimNothing(w) \/ Tx2Rollback(w) \/ Restart(w) \/ Crash(w)
  <2>1. /\ workers'[w].pc \in {"idle", "down"}
        /\ \A v \in Workers : v # w => workers'[v] = workers[v]
    BY <1>3 DEF ClaimNothing, Tx2Rollback, Restart, Crash, IdleWorker, TypeOK
  <2>2. UNCHANGED tables
    BY <1>3 DEF ClaimNothing, Tx2Rollback, Restart, Crash
  <2> QED BY <2>1, <2>2
          DEF tables, OneInFlight, ClaimsAreLive, OneWorkerPerMigration, AuditMatchesStatus
<1> QED BY <1>1, <1>2, <1>3, SweepKeeps, ClaimKeeps, Tx2CommitKeeps DEF WorkerNext, WorkerStep

(* Growing old changes no status.                                          *)
LEMMA GetStuckKeeps ==
    ASSUME IInv, NEW m \in Mids, GetStuck(m)
    PROVE  OneInFlight' /\ ClaimsAreLive' /\ OneWorkerPerMigration' /\ AuditMatchesStatus'
<1> USE DEF IInv
<1>1. migrations[m].status = "running" /\ migrations[m] # NoRow
  BY DEF GetStuck, NoRow
<1>2. migrations'[m].status = "running" /\ migrations'[m].group = migrations[m].group
  BY <1>1 DEF GetStuck, TypeOK, MigrationRowOK
<1>3. \A n \in Mids : n # m => migrations'[n] = migrations[n]
  BY DEF GetStuck, TypeOK
<1>4. OneInFlight'
  BY <1>1, <1>2, <1>3 DEF OneInFlight
<1>5. ClaimsAreLive' /\ OneWorkerPerMigration'
  BY <1>1, <1>2, <1>3 DEF GetStuck, ClaimsAreLive, OneWorkerPerMigration
<1>6. AuditMatchesStatus'
  BY <1>1, <1>2, <1>3, CompletesNothing DEF GetStuck
<1> QED BY <1>4, <1>5, <1>6

(* The invariant is inductive, and no step undoes a completed migration.   *)
LEMMA NextKeeps ==
    ASSUME IInv, [Next]_vars
    PROVE  IInv'
<1>1. TypeOK'
  BY NextKeepsTypes DEF IInv
<1>2. OneInFlight' /\ ClaimsAreLive' /\ OneWorkerPerMigration' /\ AuditMatchesStatus'
  <2>1. CASE UNCHANGED vars \/ NewDay \/ TogglePause
    BY <2>1, OthersKeep DEF vars, tables, lifecycle, NewDay, TogglePause
  <2>2. ASSUME NEW r \in Starters, StarterNext(r)
        PROVE  OneInFlight' /\ ClaimsAreLive' /\ OneWorkerPerMigration' /\ AuditMatchesStatus'
    <3>1. StartCreate(r) \/ UNCHANGED lifecycle
      BY <2>2 DEF StarterNext, PreviewResolve, PreviewIssue, StartResolve, StartVerify,
         StartCheckInFlight, StartCheckRestore, StartCheckCap, StartReadGroup, StartWriteGroup,
         StartAbort, lifecycle, tables
    <3> QED BY <3>1, StartCreateKeeps, OthersKeep
  <2>3. ASSUME NEW e \in Editors, EditorNext(e)
        PROVE  UNCHANGED lifecycle
    BY <2>3 DEF EditorNext, EditResolve, EditCheckLock, EditPrefetch, EditWrite, lifecycle, tables
  <2>4. ASSUME NEW x \in GroupWriters, GroupWriterNext(x)
        PROVE  UNCHANGED lifecycle
    BY <2>4 DEF GroupWriterNext, GroupUpdateRead, GroupUpdateWrite, lifecycle, tables
  <2>5. ASSUME NEW x \in Restorers, RestorerNext(x)
        PROVE  UNCHANGED lifecycle
    BY <2>5 DEF RestorerNext, RestoreCheckRunning, RestoreCheckLock, RestoreCreate, RestoreRead,
       RestoreRun, RestorePrefetch, RestoreWrite, RestoreFinish, RestoreDeleteLook, RestoreDelete,
       lifecycle, tables
  <2> QED BY <2>1, <2>2, <2>3, <2>4, <2>5, OthersKeep, WorkerKeeps, GetStuckKeeps DEF Next
<1> QED BY <1>1, <1>2 DEF IInv

-----------------------------------------------------------------------------
(* Every reachable state satisfies the inductive invariant.                *)
THEOREM Invariance == Spec => []IInv
<1>1. Init => IInv
  BY InitEstablishes
<1>2. IInv /\ [Next]_vars => IInv'
  BY NextKeeps
<1> QED BY <1>1, <1>2, PTL DEF Spec

(* The tables and the records of the requests keep their types.            *)
THEOREM TypeCorrectness == Spec => []TypeOK
<1>1. IInv => TypeOK
  BY DEF IInv
<1> QED BY <1>1, Invariance, PTL

(* A group never has two migrations in flight.                             *)
THEOREM AtMostOneInFlight == Spec => []OneInFlight
<1>1. IInv => OneInFlight
  BY DEF IInv
<1> QED BY <1>1, Invariance, PTL

(* A worker holds a migration only while its row is running, or failed     *)
(* behind its back.                                                        *)
THEOREM ClaimsStayLive == Spec => []ClaimsAreLive
<1>1. IInv => ClaimsAreLive
  BY DEF IInv
<1> QED BY <1>1, Invariance, PTL

(* Two workers never process the same migration.                           *)
THEOREM ClaimedByOneWorker == Spec => []OneWorkerPerMigration
<1>1. IInv => OneWorkerPerMigration
  BY DEF IInv
<1> QED BY <1>1, Invariance, PTL

(* A completed migration has repriced each commodity of its group exactly  *)
(* once, any other none.                                                   *)
THEOREM AppliedAllOrNothing == Spec => []AuditMatchesStatus
<1>1. IInv => AuditMatchesStatus
  BY DEF IInv
<1> QED BY <1>1, Invariance, PTL

-----------------------------------------------------------------------------
(* The steps that write a row of currency_migrations.                      *)
LEMMA MigrationWriters ==
    ASSUME Next
    PROVE  \/ UNCHANGED <<migrations, auditRows>>
           \/ \E r \in Starters : StartCreate(r)
           \/ \E w \in Workers : Sweep(w) \/ Claim(w) \/ Tx2Commit(w)
           \/ \E m \in Mids : GetStuck(m)
<1>1. ASSUME NEW r \in Starters, StarterNext(r)
      PROVE  StartCreate(r) \/ UNCHANGED <<migrations, auditRows>>
  BY <1>1 DEF StarterNext, PreviewResolve, PreviewIssue, StartResolve, StartVerify,
     StartCheckInFlight, StartCheckRestore, StartCheckCap, StartReadGroup, StartWriteGroup,
     StartAbort, tables
<1>2. ASSUME \/ \E e \in Editors : EditorNext(e)
             \/ \E x \in GroupWriters : GroupWriterNext(x)
             \/ NewDay \/ TogglePause
      PROVE  UNCHANGED <<migrations, auditRows>>
  BY <1>2 DEF EditorNext, EditResolve, EditCheckLock, EditPrefetch, EditWrite,
     GroupWriterNext, GroupUpdateRead, GroupUpdateWrite, NewDay, TogglePause, tables
<1>3. ASSUME NEW x \in Restorers, RestorerNext(x)
      PROVE  UNCHANGED <<migrations, auditRows>>
  BY <1>3 DEF RestorerNext, RestoreCheckRunning, RestoreCheckLock, RestoreCreate, RestoreRead,
     RestoreRun, RestorePrefetch, RestoreWrite, RestoreFinish, RestoreDeleteLook, RestoreDelete,
     tables
<1>4. ASSUME NEW w \in Workers, WorkerNext(w)
      PROVE  Sweep(w) \/ Claim(w) \/ Tx2Commit(w) \/ UNCHANGED <<migrations, auditRows>>
  BY <1>4 DEF WorkerNext, WorkerStep, SweepAudit, ClaimNothing, Tx2Begin, Tx2Rollback,
     Crash, Restart, tables
<1> QED BY <1>1, <1>2, <1>3, <1>4 DEF Next

(* What any step does to one row: insert it, move it on while it is in     *)
(* flight, fail it if it is stuck, or complete it under its worker.        *)
LEMMA RowChanges ==
    ASSUME IInv, Next, NEW m \in Mids
    PROVE  \/ migrations'[m] = migrations[m]
           \/ migrations[m] = NoRow /\ migrations'[m].status = "pending"
           \/ /\ migrations[m].status \in InFlightStatus
              /\ migrations'[m].status \in InFlightStatus
              /\ migrations'[m].group = migrations[m].group
           \/ \E w \in Workers :
                 /\ Sweep(w) /\ m \in StuckRunning
                 /\ migrations'[m].status = "failed"
                 /\ migrations'[m].group = migrations[m].group
           \/ \E w \in Workers :
                 /\ Tx2Commit(w) /\ workers[w].pc = "tx2" /\ workers[w].mig = m
                 /\ migrations[m].status \in {"running", "failed"}
                 /\ migrations'[m].status = "completed"
                 /\ migrations'[m].group = migrations[m].group
<1> DEFINE row == migrations[m]
<1>0. /\ migrations = [n \in Mids |-> migrations[n]]
      /\ MigrationRowOK(row) /\ ClaimsAreLive /\ NoRow.status = "unused"
  BY DEF IInv, TypeOK, NoRow
<1>1. CASE UNCHANGED <<migrations, auditRows>>
  BY <1>1
<1>2. ASSUME NEW r \in Starters, StartCreate(r)
      PROVE  \/ migrations'[m] = row
             \/ row = NoRow /\ migrations'[m].status = "pending"
  <2>1. PICK n \in Mids : migrations[n] = NoRow /\ InsertPending(r, n)
    BY <1>2 DEF StartCreate
  <2> QED BY <1>0, <2>1 DEF InsertPending
<1>3. ASSUME NEW w \in Workers, Sweep(w)
      PROVE  \/ migrations'[m] = row
             \/ /\ m \in StuckRunning /\ migrations'[m].status = "failed"
                /\ migrations'[m].group = row.group
  <2>1. CASE m \in StuckRunning
    <3>1. row \in [status : InFlightStatus \union TerminalStatus, group : Groups,
                   from : Currencies, to : Currencies, hash : {row.hash},
                   stuck : BOOLEAN, completedOn : 0 .. MaxDay]
      BY <1>0, <2>1 DEF StuckRunning, MigrationRowOK
    <3>2. migrations'[m] = [row EXCEPT !.status = "failed", !.completedOn = day]
      BY <1>3, <2>1 DEF Sweep
    <3> QED BY <2>1, <3>1, <3>2
  <2>2. CASE m \notin StuckRunning
    BY <1>3, <2>2 DEF Sweep
  <2> QED BY <2>1, <2>2
<1>4. ASSUME NEW w \in Workers, Claim(w)
      PROVE  \/ migrations'[m] = row
             \/ /\ row.status \in InFlightStatus /\ migrations'[m].status \in InFlightStatus
                /\ migrations'[m].group = row.group
  <2>1. PICK n \in Pending :
           migrations' = [migrations EXCEPT ![n].status = "running", ![n].stuck = FALSE]
    BY <1>4 DEF Claim
  <2>2. CASE n = m
    <3>1. row.status = "pending" /\ row # NoRow
      BY <1>0, <2>1, <2>2 DEF Pending
    <3>2. migrations'[m] = [row EXCEPT !.status = "running", !.stuck = FALSE]
      BY <1>0, <2>1, <2>2 DEF Pending
    <3> QED BY <1>0, <3>1, <3>2 DEF MigrationRowOK, InFlightStatus
  <2>3. CASE n # m
    BY <1>0, <2>1, <2>3 DEF Pending
  <2> QED BY <2>2, <2>3
<1>5. ASSUME NEW w \in Workers, Tx2Commit(w)
      PROVE  \/ migrations'[m] = row
             \/ /\ workers[w].pc = "tx2" /\ workers[w].mig = m
                /\ row.status \in {"running", "failed"}
                /\ migrations'[m].status = "completed" /\ migrations'[m].group = row.group
  <2>1. CASE workers[w].mig = m
    <3>1. workers[w].pc = "tx2" /\ row.status \in {"running", "failed"} /\ row # NoRow
      BY <1>0, <1>5, <2>1 DEF Tx2Commit, ClaimsAreLive
    <3>2. migrations'[m] = [row EXCEPT !.status = "completed", !.completedOn = day]
      BY <1>0, <1>5, <2>1 DEF Tx2Commit
    <3>3. migrations'[m].status = "completed" /\ migrations'[m].group = row.group
      BY <1>0, <3>1, <3>2 DEF MigrationRowOK
    <3> QED BY <2>1, <3>1, <3>3
  <2>2. CASE workers[w].mig # m
    BY <1>0, <1>5, <2>2 DEF Tx2Commit
  <2> QED BY <2>1, <2>2
<1>6. ASSUME NEW n \in Mids, GetStuck(n)
      PROVE  \/ migrations'[m] = row
             \/ /\ row.status \in InFlightStatus /\ migrations'[m].status \in InFlightStatus
                /\ migrations'[m].group = row.group
  <2>1. CASE n = m
    <3>1. row.status = "running" /\ row # NoRow
      BY <1>0, <1>6, <2>1 DEF GetStuck
    <3>2. migrations'[m] = [row EXCEPT !.stuck = TRUE]
      BY <1>0, <1>6, <2>1 DEF GetStuck
    <3> QED BY <1>0, <3>1, <3>2 DEF MigrationRowOK, InFlightStatus
  <2>2. CASE n # m
    BY <1>0, <1>6, <2>2 DEF GetStuck
  <2> QED BY <2>1, <2>2
<1> QED BY <1>1, <1>2, <1>3, <1>4, <1>5, <1>6, MigrationWriters

(* A migration that has ended is rewritten by nobody but the worker that   *)
(* held it before it was failed, and only to completed.                    *)
THEOREM OnlyItsWorkerRewrites == Spec => RewrittenByItsWorkerOnly
<1> DEFINE Right(m) ==
      migrations[m].status \in TerminalStatus /\ migrations'[m] # migrations[m] =>
         /\ migrations[m].status = "failed" /\ migrations'[m].status = "completed"
         /\ \E w \in Workers : workers[w].pc = "tx2" /\ workers[w].mig = m
<1>1. ASSUME IInv, Next, NEW m \in Mids
      PROVE  Right(m)
  BY <1>1, RowChanges DEF NoRow, InFlightStatus, TerminalStatus, StuckRunning
<1>2. IInv /\ [Next]_vars => [\A m \in Mids : Right(m)]_vars
  BY <1>1
<1>3. Spec => [][\A m \in Mids : Right(m)]_vars
  BY <1>2, Invariance, PTL DEF Spec
<1> QED BY <1>3 DEF RewrittenByItsWorkerOnly

-----------------------------------------------------------------------------
(* The fail entries: one at most, for a migration that has ended, and      *)
(* none yet for those a worker has still to report.                        *)
FailuresLogged ==
    /\ \A m \in Mids :
          /\ auditLogs[m].fail <= 1
          /\ auditLogs[m].fail # 0 => migrations[m].status \in TerminalStatus
    /\ \A w \in Workers : \A m \in workers[w].swept :
          migrations[m].status \in TerminalStatus /\ auditLogs[m].fail = 0
    /\ \A v, w \in Workers : v # w => workers[v].swept \intersect workers[w].swept = {}

(* A step that logs no failure and leaves nobody more to report.           *)
LEMMA FailuresStay ==
    ASSUME IInv, FailuresLogged, Next,
           \A m \in Mids : auditLogs'[m].fail = auditLogs[m].fail,
           \A w \in Workers : workers'[w].swept \subseteq workers[w].swept
    PROVE  FailuresLogged'
<1>1. \A m \in Mids : migrations[m].status \in TerminalStatus => migrations'[m].status \in TerminalStatus
  BY RowChanges DEF NoRow, InFlightStatus, TerminalStatus
<1>2. \A w \in Workers : workers[w].swept \subseteq Mids
  BY DEF IInv, TypeOK, WorkerOK
<1>3. \A m \in Mids : /\ auditLogs'[m].fail <= 1
                      /\ auditLogs'[m].fail # 0 => migrations'[m].status \in TerminalStatus
  BY <1>1 DEF FailuresLogged
<1>4. \A w \in Workers : \A m \in workers'[w].swept :
         migrations'[m].status \in TerminalStatus /\ auditLogs'[m].fail = 0
  BY <1>1, <1>2 DEF FailuresLogged
<1>5. \A v, w \in Workers : v # w => workers'[v].swept \intersect workers'[w].swept = {}
  BY DEF FailuresLogged
<1> QED BY <1>3, <1>4, <1>5 DEF FailuresLogged

(* A sweep has the rows it fails to report, which nobody else has.         *)
LEMMA SweepLogsNothing ==
    ASSUME IInv, FailuresLogged, Next, NEW w \in Workers, Sweep(w)
    PROVE  FailuresLogged'
<1>1. PICK S : S = StuckRunning
  OBVIOUS
<1>2. /\ S \subseteq Mids /\ \A m \in S : migrations[m].status \notin TerminalStatus
      /\ \A m \in Mids : auditLogs[m].fail # 0 => m \notin S
      /\ \A v \in Workers : workers[v].swept \subseteq Mids /\ workers[v].swept \intersect S = {}
  <2>1. S \subseteq Mids /\ \A m \in S : migrations[m].status \notin TerminalStatus
    BY <1>1 DEF StuckRunning, TerminalStatus
  <2>2. \A v \in Workers : workers[v].swept \subseteq Mids
    BY DEF IInv, TypeOK, WorkerOK
  <2> QED BY <2>1, <2>2 DEF FailuresLogged
<1>3. UNCHANGED auditLogs /\ \A v \in Workers : workers'[v].swept = IF v = w THEN S ELSE workers[v].swept
  BY <1>1 DEF Sweep, IInv, TypeOK, WorkerOK
<1>4. /\ \A m \in Mids : migrations[m].status \in TerminalStatus => migrations'[m].status \in TerminalStatus
      /\ \A m \in S : migrations'[m].status \in TerminalStatus
  <2>1. ASSUME NEW m \in S
        PROVE  migrations'[m].status = "failed"
    <3>1. migrations[m].status = "running" /\ migrations[m] # NoRow /\ m \in Mids
      BY <1>1, <2>1 DEF StuckRunning, NoRow
    <3>2. migrations'[m] = [migrations[m] EXCEPT !.status = "failed", !.completedOn = day]
      BY <1>1, <2>1, <3>1 DEF Sweep
    <3> QED BY <3>1, <3>2 DEF IInv, TypeOK, MigrationRowOK
  <2>2. \A m \in Mids : m \notin S => migrations'[m] = migrations[m]
    BY <1>1 DEF Sweep
  <2> QED BY <1>2, <2>1, <2>2 DEF TerminalStatus
<1>5. \A m \in Mids : /\ auditLogs'[m].fail <= 1
                      /\ auditLogs'[m].fail # 0 => migrations'[m].status \in TerminalStatus
  BY <1>3, <1>4 DEF FailuresLogged
<1>6. \A v \in Workers : \A m \in workers'[v].swept :
         migrations'[m].status \in TerminalStatus /\ auditLogs'[m].fail = 0
  <2>1. \A m \in S : auditLogs[m].fail = 0
    BY <1>2
  <2> QED BY <1>2, <1>3, <1>4, <2>1 DEF FailuresLogged
<1>7. \A u, v \in Workers : u # v => workers'[u].swept \intersect workers'[v].swept = {}
  BY <1>2, <1>3 DEF FailuresLogged
<1> QED BY <1>5, <1>6, <1>7 DEF FailuresLogged

(* The fail entry of a swept migration is the only one it gets.            *)
LEMMA SweepAuditLogsOnce ==
    ASSUME IInv, FailuresLogged, NEW w \in Workers, NEW m \in Mids, SweepAudit(w, m)
    PROVE  FailuresLogged'
<1>1. /\ auditLogs[m].fail = 0 /\ migrations[m].status \in TerminalStatus
      /\ UNCHANGED migrations
      /\ \A v \in Workers : workers[v].swept \subseteq Mids
  BY DEF SweepAudit, FailuresLogged, IInv, TypeOK, WorkerOK
<1>2. /\ auditLogs'[m].fail <= 1
      /\ \A n \in Mids : n # m => auditLogs'[n] = auditLogs[n]
  BY <1>1 DEF SweepAudit, IInv, TypeOK
<1>3. \A v \in Workers : workers'[v].swept \subseteq workers[v].swept /\ m \notin workers'[v].swept
  <2>1. workers'[w].swept = workers[w].swept \ {m}
    BY DEF SweepAudit, IInv, TypeOK, WorkerOK
  <2>2. \A v \in Workers : v # w => workers'[v] = workers[v] /\ m \notin workers[v].swept
    BY DEF SweepAudit, IInv, TypeOK, FailuresLogged
  <2> QED BY <2>1, <2>2
<1>4. \A n \in Mids : /\ auditLogs'[n].fail <= 1
                      /\ auditLogs'[n].fail # 0 => migrations'[n].status \in TerminalStatus
  BY <1>1, <1>2 DEF FailuresLogged
<1>5. \A v \in Workers : \A n \in workers'[v].swept :
         migrations'[n].status \in TerminalStatus /\ auditLogs'[n].fail = 0
  BY <1>1, <1>2, <1>3 DEF FailuresLogged
<1>6. \A u, v \in Workers : u # v => workers'[u].swept \intersect workers'[v].swept = {}
  BY <1>3 DEF FailuresLogged
<1> QED BY <1>4, <1>5, <1>6 DEF FailuresLogged

(* All other steps log no failure and take nothing up to report.           *)
LEMMA OthersLogNothing ==
    ASSUME IInv, Next,
           ~ \E w \in Workers : Sweep(w) \/ \E m \in Mids : SweepAudit(w, m)
    PROVE  /\ \A m \in Mids : auditLogs'[m].fail = auditLogs[m].fail
           /\ \A w \in Workers : workers'[w].swept \subseteq workers[w].swept
<1> DEFINE Right == /\ \A m \in Mids : auditLogs'[m].fail = auditLogs[m].fail
                    /\ \A w \in Workers : workers'[w].swept \subseteq workers[w].swept
<1>0. /\ auditLogs \in [Mids -> [complete : Nat, fail : Nat]]
      /\ workers = [w \in Workers |-> workers[w]] /\ \A w \in Workers : WorkerOK(workers[w])
  BY DEF IInv, TypeOK
<1>1. CASE UNCHANGED <<auditLogs, workers>>
  BY <1>1
<1>2. ASSUME NEW w \in Workers, WorkerNext(w)
      PROVE  Right
  <2>1. CASE Tx2Commit(w)
    <3>1. workers'[w].swept = {} /\ \A v \in Workers : v # w => workers'[v] = workers[v]
      BY <1>0, <2>1 DEF Tx2Commit, IdleWorker
    <3>2. \A m \in Mids : auditLogs'[m].fail = auditLogs[m].fail
      BY <1>0, <2>1 DEF Tx2Commit
    <3> QED BY <3>1, <3>2
  <2>2. CASE Claim(w)
    <3>1. PICK m : workers' = [workers EXCEPT ![w].pc = "claimed", ![w].mig = m]
      BY <2>2 DEF Claim
    <3>2. workers'[w].swept = workers[w].swept /\ \A v \in Workers : v # w => workers'[v] = workers[v]
      BY <1>0, <3>1 DEF WorkerOK
    <3> QED BY <2>2, <3>2 DEF Claim
  <2>3. CASE Tx2Begin(w)
    BY <1>0, <2>3 DEF Tx2Begin, WorkerOK, tables
  <2>4. CASE ClaimNothing(w) \/ Tx2Rollback(w) \/ Crash(w) \/ Restart(w)
    <3>1. \E u \in {IdleWorker, [IdleWorker EXCEPT !.pc = "down"]} : workers' = [workers EXCEPT ![w] = u]
      BY <2>4 DEF ClaimNothing, Tx2Rollback, Crash, Restart
    <3>2. workers'[w].swept = {} /\ \A v \in Workers : v # w => workers'[v] = workers[v]
      BY <1>0, <3>1 DEF IdleWorker
    <3> QED BY <2>4, <3>2 DEF ClaimNothing, Tx2Rollback, Crash, Restart, tables
  <2>5. ~Sweep(w) /\ ~ \E m \in Mids : SweepAudit(w, m)
    OBVIOUS
  <2> QED BY <1>2, <2>1, <2>2, <2>3, <2>4, <2>5 DEF WorkerNext, WorkerStep
<1>3. ASSUME NEW r \in Starters, StarterNext(r)
      PROVE  UNCHANGED <<auditLogs, workers>>
  BY <1>3 DEF StarterNext, PreviewResolve, PreviewIssue, StartResolve, StartVerify,
     StartCheckInFlight, StartCheckRestore, StartCheckCap, StartCreate, StartReadGroup,
     StartWriteGroup, StartAbort, tables
<1>4. ASSUME \/ \E e \in Editors : EditorNext(e)
             \/ \E x \in GroupWriters : GroupWriterNext(x)
             \/ \E m \in Mids : GetStuck(m)
             \/ NewDay \/ TogglePause
      PROVE  UNCHANGED <<auditLogs, workers>>
  BY <1>4 DEF EditorNext, EditResolve, EditCheckLock, EditPrefetch, EditWrite,
     GroupWriterNext, GroupUpdateRead, GroupUpdateWrite, GetStuck, NewDay, TogglePause, tables
<1>5. ASSUME NEW x \in Restorers, RestorerNext(x)
      PROVE  UNCHANGED <<auditLogs, workers>>
  BY <1>5 DEF RestorerNext, RestoreCheckRunning, RestoreCheckLock, RestoreCreate, RestoreRead,
     RestoreRun, RestorePrefetch, RestoreWrite, RestoreFinish, RestoreDeleteLook, RestoreDelete,
     tables
<1>6. Right
  BY <1>1, <1>2, <1>3, <1>4, <1>5 DEF Next
<1> QED BY <1>6

(* A migration is logged as failed at most once, and only when it has      *)
(* ended, even if its worker comes back after the sweep.                   *)
THEOREM FailedOnce == Spec => []FailureLoggedOnce
<1>1. Init => FailuresLogged
  BY DEF Init, FailuresLogged, IdleWorker
<1>2. IInv /\ FailuresLogged /\ [Next]_vars => FailuresLogged'
  <2> SUFFICES ASSUME IInv, FailuresLogged, [Next]_vars PROVE FailuresLogged'
    OBVIOUS
  <2>1. CASE UNCHANGED vars
    BY <2>1 DEF vars, tables, FailuresLogged
  <2>2. CASE Next
    BY <2>2, SweepLogsNothing, SweepAuditLogsOnce, OthersLogNothing, FailuresStay
  <2> QED BY <2>1, <2>2
<1>3. IInv /\ FailuresLogged => FailureLoggedOnce
  BY DEF IInv, TypeOK, FailuresLogged, FailureLoggedOnce
<1> QED BY <1>1, <1>2, <1>3, Invariance, PTL DEF Spec

-----------------------------------------------------------------------------
(* A lock signal, wherever it has been read or is about to be written, is  *)
(* that of a migration of the group it is for.                             *)
OwnSignal(i, g) == i # 0 => i \in Mids /\ migrations[i] # NoRow /\ migrations[i].group = g

StarterSignals(s) ==
    /\ s.pc \notin {"idle", "previewing"} => s.group = s.token.group
    /\ s.pc \in {"created", "locking"} => OwnSignal(s.mig, s.group)
    /\ s.pc = "locking" => OwnSignal(s.row.mig, s.group)

WriterSignals(x) == x.pc = "read" => OwnSignal(x.row.mig, x.group)

SignalsAreOwn ==
    /\ \A g \in Groups : OwnSignal(groups[g].mig, g)
    /\ \A r \in Starters : StarterSignals(starters[r])
    /\ \A x \in GroupWriters : WriterSignals(groupWriters[x])

(* No row that is there goes over to another group.                        *)
LEMMA SignalStays ==
    ASSUME IInv, Next, NEW i, NEW g, OwnSignal(i, g)
    PROVE  i # 0 => i \in Mids /\ migrations'[i] # NoRow /\ migrations'[i].group = g
<1>1. CASE i # 0
  <2>1. i \in Mids /\ migrations[i] # NoRow /\ migrations[i].group = g
    BY <1>1 DEF OwnSignal
  <2>2. NoRow.status = "unused"
    BY DEF NoRow
  <2> QED BY <2>1, <2>2, RowChanges DEF InFlightStatus
<1> QED BY <1>1

(* A step that hands on the signals there are.                             *)
LEMMA SignalsMove ==
    ASSUME IInv, Next,
           \A g \in Groups : OwnSignal(groups'[g].mig, g),
           \A r \in Starters : StarterSignals(starters'[r]),
           \A x \in GroupWriters : WriterSignals(groupWriters'[x])
    PROVE  SignalsAreOwn'
<1>1. \A g \in Groups : OwnSignal(groups[g].mig, g)'
  BY SignalStays DEF OwnSignal
<1>2. ASSUME NEW r \in Starters
      PROVE  StarterSignals(starters[r])'
  <2> DEFINE s == starters'[r]
  <2>1. StarterSignals(s)
    OBVIOUS
  <2>2. ASSUME s.pc \in {"created", "locking"}
        PROVE  OwnSignal(starters[r].mig, starters[r].group)'
    BY <2>1, <2>2, SignalStays DEF StarterSignals, OwnSignal
  <2>3. ASSUME s.pc = "locking"
        PROVE  OwnSignal(starters[r].row.mig, starters[r].group)'
    BY <2>1, <2>3, SignalStays DEF StarterSignals, OwnSignal
  <2> QED BY <2>1, <2>2, <2>3 DEF StarterSignals
<1>3. ASSUME NEW x \in GroupWriters
      PROVE  WriterSignals(groupWriters[x])'
  <2>1. WriterSignals(groupWriters'[x])
    OBVIOUS
  <2>2. ASSUME groupWriters'[x].pc = "read"
        PROVE  OwnSignal(groupWriters[x].row.mig, groupWriters[x].group)'
    BY <2>1, <2>2, SignalStays DEF WriterSignals, OwnSignal
  <2> QED BY <2>2 DEF WriterSignals
<1> QED BY <1>1, <1>2, <1>3 DEF SignalsAreOwn

(* A start request puts the id of the row it has inserted into the row of  *)
(* the group it was inserted for.                                          *)
LEMMA StarterKeepsSignals ==
    ASSUME IInv, SignalsAreOwn, Next, NEW r \in Starters, StarterNext(r)
    PROVE  SignalsAreOwn'
<1> DEFINE s == starters[r]
<1>0. /\ StarterOK(s) /\ StarterSignals(s)
      /\ starters = [q \in Starters |-> starters[q]]
      /\ groups \in [Groups -> GroupRow]
  BY DEF IInv, TypeOK, SignalsAreOwn
<1>1. CASE StartCreate(r)
  <2>1. PICK m \in Mids :
           /\ migrations[m] = NoRow /\ InsertPending(r, m)
           /\ starters' = [starters EXCEPT ![r].pc = "created", ![r].mig = m]
    BY <1>1 DEF StartCreate
  <2>2. UNCHANGED <<groups, groupWriters>>
    BY <1>1 DEF StartCreate
  <2>3. /\ s.pc = "allowed" /\ s.group = s.token.group
        /\ starters'[r].pc = "created" /\ starters'[r].mig = m
        /\ starters'[r].group = s.group /\ starters'[r].token = s.token
    BY <1>0, <1>1, <2>1 DEF StartCreate, StarterOK, StarterSignals
  <2>4. migrations'[m].status = "pending" /\ migrations'[m].group = s.token.group
    BY <2>1 DEF InsertPending, IInv, TypeOK
  <2>5. StarterSignals(starters[r])'
    BY <2>3, <2>4 DEF StarterSignals, OwnSignal, NoRow
  <2>6. ASSUME NEW q \in Starters
        PROVE  StarterSignals(starters[q])'
    <3>1. CASE q = r
      BY <2>5, <3>1
    <3>2. CASE q # r
      <4>1. starters'[q] = starters[q] /\ StarterSignals(starters[q])
        BY <1>0, <2>1, <3>2 DEF SignalsAreOwn
      <4>2. ASSUME starters[q].pc \in {"created", "locking"}
            PROVE  OwnSignal(starters[q].mig, starters[q].group)'
        BY <4>1, <4>2, SignalStays DEF StarterSignals, OwnSignal
      <4>3. ASSUME starters[q].pc = "locking"
            PROVE  OwnSignal(starters[q].row.mig, starters[q].group)'
        BY <4>1, <4>3, SignalStays DEF StarterSignals, OwnSignal
      <4> QED BY <4>1, <4>2, <4>3 DEF StarterSignals
    <3> QED BY <3>1, <3>2
  <2>7. \A g \in Groups : OwnSignal(groups[g].mig, g)'
    BY <2>2, SignalStays DEF SignalsAreOwn, OwnSignal
  <2>8. ASSUME NEW x \in GroupWriters
        PROVE  WriterSignals(groupWriters[x])'
    <3>1. groupWriters'[x] = groupWriters[x] /\ WriterSignals(groupWriters[x])
      BY <2>2 DEF SignalsAreOwn
    <3>2. ASSUME groupWriters[x].pc = "read"
          PROVE  OwnSignal(groupWriters[x].row.mig, groupWriters[x].group)'
      BY <3>1, <3>2, SignalStays DEF WriterSignals, OwnSignal
    <3> QED BY <3>1, <3>2 DEF WriterSignals
  <2> QED BY <2>6, <2>7, <2>8 DEF SignalsAreOwn
<1>2. ASSUME UNCHANGED groupWriters, NEW t, starters' = [starters EXCEPT ![r] = t],
             StarterSignals(t), \A g \in Groups : OwnSignal(groups'[g].mig, g)
      PROVE  SignalsAreOwn'
  <2>1. \A q \in Starters : starters'[q] = IF q = r THEN t ELSE starters[q]
    BY <1>0, <1>2
  <2> QED BY <1>2, <2>1, SignalsMove DEF SignalsAreOwn
<1>3. CASE StartReadGroup(r)
  <2> DEFINE t == [s EXCEPT !.pc = "locking", !.row = groups[s.group]]
  <2>1. /\ s.pc = "created" /\ s.group \in Groups
        /\ UNCHANGED <<groups, groupWriters>> /\ starters' = [starters EXCEPT ![r] = t]
    BY <1>0, <1>3 DEF StartReadGroup, StarterOK, tables
  <2>2. /\ t.pc = "locking" /\ t.row = groups[s.group] /\ t.group = s.group
        /\ t.token = s.token /\ t.mig = s.mig
    BY <1>0 DEF StarterOK
  <2>3. StarterSignals(t)
    BY <1>0, <2>1, <2>2 DEF SignalsAreOwn, StarterSignals
  <2> QED BY <1>2, <2>1, <2>3 DEF SignalsAreOwn
<1>4. CASE StartWriteGroup(r)
  <2>1. /\ s.pc = "locking" /\ s.group \in Groups /\ s.row \in GroupRow
        /\ UNCHANGED groupWriters /\ starters' = [starters EXCEPT ![r] = IdleStarter(s.token)]
        /\ groups' = [groups EXCEPT ![s.group] = [s.row EXCEPT !.mig = s.mig]]
    BY <1>0, <1>4 DEF StartWriteGroup, StarterReturns, StarterOK
  <2>2. StarterSignals(IdleStarter(s.token))
    BY DEF StarterSignals, IdleStarter
  <2>3. \A g \in Groups : groups'[g].mig = IF g = s.group THEN s.mig ELSE groups[g].mig
    BY <1>0, <2>1 DEF GroupRow
  <2>4. \A g \in Groups : OwnSignal(groups'[g].mig, g)
    BY <1>0, <2>1, <2>3 DEF SignalsAreOwn, StarterSignals
  <2> QED BY <1>2, <2>1, <2>2, <2>4
<1>5. ASSUME UNCHANGED <<groups, groupWriters>>, NEW t, starters' = [starters EXCEPT ![r] = t],
             t.pc \notin {"idle", "previewing", "created", "locking"} => t.group = t.token.group,
             t.pc \notin {"created", "locking"}
      PROVE  SignalsAreOwn'
  BY <1>2, <1>5 DEF SignalsAreOwn, StarterSignals
<1>6. CASE StarterReturns(r) /\ UNCHANGED <<groups, groupWriters>>
  <2>1. starters' = [starters EXCEPT ![r] = IdleStarter(s.token)]
    BY <1>0, <1>6 DEF StarterReturns
  <2> QED BY <1>5, <1>6, <2>1 DEF IdleStarter
<1>7. ASSUME NEW to \in {"resolved", "bound", "notMigrating", "notRestoring", "allowed"},
             s.pc \in {"resolved", "bound", "notMigrating", "notRestoring"},
             starters' = [starters EXCEPT ![r].pc = to], UNCHANGED <<groups, groupWriters>>
      PROVE  SignalsAreOwn'
  <2> DEFINE t == [s EXCEPT !.pc = to]
  <2>1. t.pc = to /\ t.group = s.group /\ t.token = s.token /\ s.group = s.token.group
    BY <1>0, <1>7 DEF StarterOK, StarterSignals
  <2>2. starters' = [starters EXCEPT ![r] = t]
    BY <1>7
  <2> QED BY <1>5, <1>7, <2>1, <2>2
<1>8. CASE StartVerify(r)
  <2>1. UNCHANGED <<groups, groupWriters>> /\ s.pc = "resolved"
    BY <1>8 DEF StartVerify, tables
  <2>2. CASE starters' = [starters EXCEPT ![r] = IdleStarter(Null)]
    BY <1>5, <2>1, <2>2 DEF IdleStarter
  <2>3. CASE StarterReturns(r)
    BY <1>6, <2>1, <2>3
  <2>4. CASE StarterStep(r, "resolved", "bound")
    BY <1>7, <2>1, <2>4 DEF StarterStep
  <2> QED BY <1>8, <2>2, <2>3, <2>4 DEF StartVerify
<1>9. CASE StartResolve(r)
  <2> DEFINE t == [s EXCEPT !.pc = "resolved", !.group = s.token.group, !.now = day]
  <2>1. /\ UNCHANGED <<groups, groupWriters>> /\ starters' = [starters EXCEPT ![r] = t]
    BY <1>0, <1>9 DEF StartResolve, tables
  <2>2. t.pc = "resolved" /\ t.group = s.token.group /\ t.token = s.token
    BY <1>0 DEF StarterOK
  <2> QED BY <1>5, <2>1, <2>2
<1>10. CASE StartCheckInFlight(r)
  BY <1>6, <1>7, <1>10 DEF StartCheckInFlight, StarterStep, tables
<1>11. CASE StartCheckRestore(r)
  BY <1>6, <1>7, <1>11 DEF StartCheckRestore, StarterStep, tables
<1>12. CASE StartCheckCap(r)
  BY <1>6, <1>7, <1>12 DEF StartCheckCap, StarterStep, tables
<1>13. CASE StartAbort(r)
  BY <1>6, <1>13 DEF StartAbort, tables
<1>14. ASSUME NEW g \in Groups, PreviewResolve(r, g)
       PROVE  SignalsAreOwn'
  BY <1>5, <1>14 DEF PreviewResolve, tables
<1>15. ASSUME NEW to \in Currencies, PreviewIssue(r, to)
       PROVE  SignalsAreOwn'
  <2>1. \E token : starters' = [starters EXCEPT ![r] = IdleStarter(token)]
    BY <1>15 DEF PreviewIssue
  <2> QED BY <1>5, <1>15, <2>1 DEF PreviewIssue, IdleStarter, tables
<1> QED BY <1>1, <1>3, <1>4, <1>8, <1>9, <1>10, <1>11, <1>12, <1>13, <1>14, <1>15
    DEF StarterNext

(* A group update writes back the signal it has read, a sweep or TX2 takes *)
(* signals away, and nothing else touches any.                             *)
LEMMA OthersKeepSignals ==
    ASSUME IInv, SignalsAreOwn, Next, ~ \E r \in Starters : StarterNext(r)
    PROVE  SignalsAreOwn'
<1>0. /\ groups \in [Groups -> GroupRow]
      /\ groupWriters = [x \in GroupWriters |-> groupWriters[x]]
      /\ \A x \in GroupWriters : GroupWriterOK(groupWriters[x])
  BY DEF IInv, TypeOK
<1>1. CASE UNCHANGED <<groups, starters, groupWriters>>
  BY <1>1, SignalsMove DEF SignalsAreOwn
<1>2. ASSUME NEW x \in GroupWriters, NEW g \in Groups, GroupUpdateRead(x, g)
      PROVE  SignalsAreOwn'
  <2>1. \A y \in GroupWriters : groupWriters'[y] =
            IF y = x THEN [pc |-> "read", group |-> g, row |-> groups[g]] ELSE groupWriters[y]
    BY <1>0, <1>2 DEF GroupUpdateRead
  <2>2. \A y \in GroupWriters : WriterSignals(groupWriters'[y])
    BY <2>1 DEF SignalsAreOwn, WriterSignals
  <2> QED BY <1>2, <2>2, SignalsMove DEF GroupUpdateRead, SignalsAreOwn, tables
<1>3. ASSUME NEW x \in GroupWriters, GroupUpdateWrite(x)
      PROVE  SignalsAreOwn'
  <2>1. \A y \in GroupWriters : groupWriters'[y] = IF y = x THEN IdleGroupWriter ELSE groupWriters[y]
    BY <1>0, <1>3 DEF GroupUpdateWrite
  <2>2. \A y \in GroupWriters : WriterSignals(groupWriters'[y])
    BY <2>1 DEF SignalsAreOwn, WriterSignals, IdleGroupWriter
  <2>3. \A g \in Groups : OwnSignal(groups'[g].mig, g)
    BY <1>0, <1>3 DEF GroupUpdateWrite, SignalsAreOwn, WriterSignals
  <2> QED BY <1>3, <2>2, <2>3, SignalsMove DEF GroupUpdateWrite, SignalsAreOwn
<1>4. ASSUME UNCHANGED <<starters, groupWriters>>,
             \A g \in Groups : groups'[g].mig \in {groups[g].mig, 0}
      PROVE  SignalsAreOwn'
  <2>1. \A g \in Groups : OwnSignal(groups'[g].mig, g)
    BY <1>4 DEF SignalsAreOwn, OwnSignal
  <2> QED BY <1>4, <2>1, SignalsMove DEF SignalsAreOwn
<1>5. ASSUME NEW w \in Workers, WorkerNext(w)
      PROVE  SignalsAreOwn'
  <2>1. CASE Sweep(w)
    BY <1>0, <1>4, <2>1 DEF Sweep, GroupRow, requests
  <2>2. CASE Tx2Commit(w)
    <3>1. UNCHANGED <<starters, groupWriters>>
      BY <2>2 DEF Tx2Commit, requests
    <3>2. \A g \in Groups : groups'[g].mig \in {groups[g].mig, 0}
      BY <1>0, <2>2 DEF Tx2Commit
    <3> QED BY <1>4, <3>1, <3>2
  <2> QED BY <1>1, <1>5, <2>1, <2>2 DEF WorkerNext, WorkerStep, SweepAudit, Claim, ClaimNothing,
      Tx2Begin, Tx2Rollback, Crash, Restart, tables, requests
<1>6. CASE \/ \E e \in Editors : EditorNext(e)
           \/ \E m \in Mids : GetStuck(m)
           \/ NewDay \/ TogglePause
  BY <1>1, <1>6 DEF EditorNext, EditResolve, EditCheckLock, EditPrefetch, EditWrite,
     GetStuck, NewDay, TogglePause, tables, requests
<1>7. ASSUME NEW x \in Restorers, RestorerNext(x)
      PROVE  SignalsAreOwn'
  BY <1>1, <1>7 DEF RestorerNext, RestoreCheckRunning, RestoreCheckLock, RestoreCreate,
     RestoreRead, RestoreRun, RestorePrefetch, RestoreWrite, RestoreFinish, RestoreDeleteLook,
     RestoreDelete, tables
<1> QED BY <1>2, <1>3, <1>5, <1>6, <1>7 DEF Next, GroupWriterNext

(* Whatever races, the step that ends a migration takes its lock signal    *)
(* back, in whatever group: no group is locked by the end of its migration.*)
THEOREM EndsUnlock == Spec => EndClearsSignal
<1> DEFINE Right(m) ==
      /\ migrations[m].status \in InFlightStatus
      /\ migrations'[m].status \in TerminalStatus
      => \A g \in Groups : groups'[g].mig # m
<1>1. Init => SignalsAreOwn
  <2> SUFFICES ASSUME Init PROVE SignalsAreOwn
    OBVIOUS
  <2>1. \A g \in Groups : groups[g].mig = 0
    BY DEF Init
  <2> QED BY <2>1 DEF Init, SignalsAreOwn, OwnSignal, StarterSignals, WriterSignals,
      IdleStarter, IdleGroupWriter
<1>2. IInv /\ SignalsAreOwn /\ [Next]_vars => SignalsAreOwn'
  <2>1. CASE UNCHANGED vars
    BY <2>1 DEF vars, tables, requests, SignalsAreOwn, StarterSignals, WriterSignals, OwnSignal
  <2> QED BY <2>1, StarterKeepsSignals, OthersKeepSignals
<1>3. ASSUME IInv, SignalsAreOwn, Next, NEW m \in Mids
      PROVE  Right(m)
  <2>0. groups = [g \in Groups |-> groups[g]] /\ m # 0
    BY <1>3, CurrencyMigrationAssumption DEF IInv, TypeOK, Mids
  <2>1. ASSUME NEW w \in Workers, Sweep(w), m \in StuckRunning, NEW g \in Groups
        PROVE  groups'[g].mig # m
    <3>1. groups'[g] = IF groups[g].mig \in StuckRunning
                       THEN [groups[g] EXCEPT !.mig = 0] ELSE groups[g]
      BY <2>1 DEF Sweep
    <3>2. groups[g] \in GroupRow
      BY <1>3 DEF IInv, TypeOK
    <3> QED BY <2>0, <2>1, <3>1, <3>2 DEF GroupRow
  <2>2. ASSUME NEW w \in Workers, Tx2Commit(w), workers[w].mig = m, NEW g \in Groups
        PROVE  groups'[g].mig # m
    <3> DEFINE op == migrations[m]
    <3>1. groups' = [groups EXCEPT ![op.group] = [cur |-> op.to, mig |-> 0]]
      BY <2>2 DEF Tx2Commit
    <3>2. CASE g = op.group
      BY <2>0, <3>1, <3>2
    <3>3. CASE g # op.group
      <4>1. groups'[g] = groups[g] /\ OwnSignal(groups[g].mig, g)
        BY <1>3, <2>0, <3>1, <3>3 DEF SignalsAreOwn
      <4> QED BY <2>0, <3>3, <4>1 DEF OwnSignal
    <3> QED BY <3>2, <3>3
  <2>3. NoRow.status = "unused"
    BY DEF NoRow
  <2> QED BY <1>3, <2>1, <2>2, <2>3, RowChanges DEF InFlightStatus, TerminalStatus
<1>4. IInv /\ SignalsAreOwn /\ [Next]_vars => [\A m \in Mids : Right(m)]_vars
  BY <1>3
<1>5. Spec => [][\A m \in Mids : Right(m)]_vars
  <2>1. Spec => [](IInv /\ SignalsAreOwn)
    BY <1>1, <1>2, Invariance, PTL DEF Spec
  <2> QED BY <1>4, <2>1, PTL DEF Spec
<1> QED BY <1>5 DEF EndClearsSignal

(* A completed migration stays completed and is never applied again.       *)
THEOREM CompletedStaysCompleted == Spec => CompletedIsFinal
<1> DEFINE Kept(m) == migrations[m].status = "completed" =>
                         migrations'[m] = migrations[m] /\ auditRows'[m] = auditRows[m]
<1>1. ASSUME IInv, Next, NEW m \in Mids
      PROVE  Kept(m)
  <2> USE <1>1 DEF IInv
  <2>1. CASE UNCHANGED <<migrations, auditRows>>
    BY <2>1
  <2>2. ASSUME NEW r \in Starters, StartCreate(r)
        PROVE  Kept(m)
    <3>1. PICK n \in Mids : migrations[n] = NoRow /\ InsertPending(r, n)
      BY <2>2 DEF StartCreate
    <3>2. migrations[n].status # "completed" /\ UNCHANGED auditRows
      BY <2>2, <3>1 DEF NoRow, StartCreate
    <3> QED BY <3>1, <3>2 DEF InsertPending, TypeOK
  <2>3. ASSUME NEW w \in Workers, Sweep(w)
        PROVE  Kept(m)
    BY <2>3 DEF Sweep, StuckRunning, TypeOK
  <2>4. ASSUME NEW w \in Workers, Claim(w)
        PROVE  Kept(m)
    <3>1. PICK n \in Pending :
             migrations' = [migrations EXCEPT ![n].status = "running", ![n].stuck = FALSE]
      BY <2>4 DEF Claim
    <3> QED BY <2>4, <3>1 DEF Claim, Pending, TypeOK
  <2>5. ASSUME NEW w \in Workers, Tx2Commit(w)
        PROVE  Kept(m)
    <3>1. workers[w].mig \in Mids /\ migrations[workers[w].mig].status # "completed"
      BY <2>5 DEF Tx2Commit, ClaimsAreLive
    <3> QED BY <2>5, <3>1 DEF Tx2Commit, TypeOK
  <2>6. ASSUME NEW n \in Mids, GetStuck(n)
        PROVE  Kept(m)
    BY <2>6 DEF GetStuck, TypeOK
  <2> QED BY <2>1, <2>2, <2>3, <2>4, <2>5, <2>6, <1>1, MigrationWriters
<1>2. IInv /\ [Next]_vars => [\A m \in Mids : Kept(m)]_vars
  BY <1>1
<1>3. Spec => [][\A m \in Mids : Kept(m)]_vars
  BY <1>2, Invariance, PTL DEF Spec
<1> QED BY <1>3 DEF CompletedIsFinal

=============================================================================

-------------------- MODULE PromptCurrencyMigrationProofs --------------------
(***************************************************************************)
(* Theorems about PromptCurrencyMigration: what the handlers and workers   *)
(* guarantee while requests are prompt, and that they then implement       *)
(* GroupCurrency, for any sets of groups, commodities, requests and        *)
(* workers and any bounds.                                                 *)
(***************************************************************************)
EXTENDS PromptCurrencyMigration, CurrencyMigrationProofs, FiniteSetTheorems

USE CurrencyMigrationAssumption, UnitsDistinct

-----------------------------------------------------------------------------
(* The inductive invariant: what a request or a worker has read is still   *)
(* so when it acts on it, and a row in flight was inserted for the state   *)
(* its group is still in.                                                  *)

(* What readers of restore_operations see of a restore, and one that is    *)
(* past them and writes commodities.                                       *)
Active(x) == ~x.gone /\ x.pc \in {"pending", "read", "running", "fetched"}
Writing(x) == x.pc \in {"running", "fetched"}

BeingRestored(g) == \E x \in Restorers : Writing(restorers[x]) /\ restorers[x].group = g

(* What a start request has found so far still holds.                      *)
StarterCurrent(s) ==
    /\ s.token # Null => s.token.from # s.token.to
    /\ s.pc \notin {"idle", "previewing"} => s.group = s.token.group
    /\ s.pc \in {"resolved", "bound", "notMigrating", "notRestoring", "allowed"} =>
          s.token.from = groups[s.group].cur /\ s.now = day
    /\ s.pc \in {"bound", "notMigrating"} =>
          s.token.hash = StateHash(s.group) \/ BeingRestored(s.group)
    /\ s.pc \in {"notMigrating", "notRestoring", "allowed"} => InFlight(s.group) = {}
    /\ s.pc \in {"notRestoring", "allowed"} =>
          s.token.hash = StateHash(s.group) /\ ~GroupHasInFlightRestore(s.group)
    /\ s.pc = "allowed" => Cardinality(CompletedToday(s.group, day)) < DailyCap
    /\ s.pc \in {"created", "locking"} => s.mig \in InFlight(s.group)
    /\ s.pc = "locking" => s.row = groups[s.group]

EditorCurrent(e) ==
    e.pc # "idle" =>
        /\ e.cur = groups[GroupOf[e.item]].cur
        /\ e.pc \in {"unlocked", "fetched"} => InFlight(GroupOf[e.item]) = {}

GroupWriterCurrent(x) == x.pc = "read" => x.row = groups[x.group]

RestorerCurrent(x) ==
    /\ x.pc = "unlocked" \/ Active(x) => InFlight(x.group) = {}
    /\ Writing(x) => ~x.gone /\ ~x.seen

WorkerCurrent(w) ==
    w.pc \in {"claimed", "tx2"} =>
        /\ migrations[w.mig].status = "running" /\ ~migrations[w.mig].stuck
        /\ w.pc = "tx2" =>
              \A c \in ItemsOf(migrations[w.mig].group) : w.snap[c] = commodities[c]

RowsCurrent ==
    \A g \in Groups : \A m \in InFlight(g) :
        /\ migrations[m].from = groups[g].cur
        /\ migrations[m].to # groups[g].cur
        /\ migrations[m].hash = StateHash(g)
        /\ Cardinality(CompletedToday(g, day)) < DailyCap

(* A foreign price is not by chance an amount of the group's currency.     *)
RowCurrent(row, cur) == IF row.foreign THEN row.price # cur ELSE ValuedIn(row, cur)

PricesCurrent == \A c \in Commodities : RowCurrent(commodities[c], groups[GroupOf[c]].cur)

CompletedByNow ==
    \A m \in Mids : migrations[m].status = "completed" => migrations[m].completedOn <= day

(* What the requests have read.                                            *)
RequestsCurrent ==
    /\ \A r \in Starters : StarterCurrent(starters[r])
    /\ \A e \in Editors : EditorCurrent(editors[e])
    /\ \A x \in GroupWriters : GroupWriterCurrent(groupWriters[x])
    /\ \A x \in Restorers : RestorerCurrent(restorers[x])

(* What the tables say, and the workers have claimed.                      *)
TablesCurrent ==
    /\ \A w \in Workers : WorkerCurrent(workers[w])
    /\ RowsCurrent /\ CompletedByNow /\ WithinDailyCap /\ PricesCurrent /\ LockSignalInFlight

PInv == IInv /\ AtMostOneMidRequest /\ RequestsCurrent /\ TablesCurrent

-----------------------------------------------------------------------------
(* What the requests and the rows of a group see of it.                    *)
SameView(g) ==
    /\ groups'[g] = groups[g]
    /\ InFlight(g)' = InFlight(g)
    /\ StateHash(g)' = StateHash(g)
    /\ CompletedToday(g, day)' = CompletedToday(g, day)
    /\ day' = day

Resting(s) == s.pc \in {"idle", "previewing"}

(* No restore of the group begins to show, and none stops writing.         *)
SameRestores(g) ==
    /\ GroupHasInFlightRestore(g)' => GroupHasInFlightRestore(g)
    /\ BeingRestored(g) => BeingRestored(g)'

LEMMA RestoresStay ==
    ASSUME UNCHANGED restorers
    PROVE  \A g : SameRestores(g)
BY DEF SameRestores, GroupHasInFlightRestore, RestoreActive, BeingRestored, Writing

(* The state hash of a group depends on its own commodities only.          *)
LEMMA HashOfItems ==
    ASSUME NEW g, \A c \in ItemsOf(g) : commodities'[c] = commodities[c]
    PROVE  StateHash(g)' = StateHash(g)
<1> DEFINE at(u) == {c \in ItemsOf(g) : commodities[c].price = u}
<1>1. \A u : at(u)' = at(u)
  BY DEF ItemsOf
<1>2. \A u : [c \in at(u) |-> commodities[c].worth]' = [c \in at(u) |-> commodities[c].worth]
  BY <1>1
<1> QED BY <1>1, <1>2 DEF StateHash, ItemsOf

(* Which requests are under way.                                           *)
LEMMA InMidRequest ==
    /\ \A r \in Starters : ~Resting(starters[r]) => <<"start", r>> \in MidRequest
    /\ \A e \in Editors : editors[e].pc # "idle" => <<"edit", e>> \in MidRequest
    /\ \A x \in GroupWriters : groupWriters[x].pc # "idle" => <<"update", x>> \in MidRequest
    /\ \A x \in Restorers :
          restorers[x].pc \in {"noneRunning", "unlocked"} => <<"restore", x>> \in MidRequest
BY DEF MidRequest, Resting

(* Nobody but the request that is in the middle of something is.           *)
LEMMA TheOneMidRequest ==
    ASSUME AtMostOneMidRequest, NEW k, NEW i, <<k, i>> \in MidRequest
    PROVE  /\ \A r \in Starters : Resting(starters[r]) \/ (k = "start" /\ i = r)
           /\ \A e \in Editors : editors[e].pc = "idle" \/ (k = "edit" /\ i = e)
           /\ \A x \in GroupWriters : groupWriters[x].pc = "idle" \/ (k = "update" /\ i = x)
           /\ \A x \in Restorers : restorers[x].pc \notin {"noneRunning", "unlocked"}
                                      \/ (k = "restore" /\ i = x)
<1>1. \A kk, j : <<kk, j>> \in MidRequest => k = kk /\ i = j
  BY DEF AtMostOneMidRequest
<1> QED BY <1>1, InMidRequest

(* Or everybody rests.                                                     *)
LEMMA NoMidRequest ==
    ASSUME MidRequest = {}
    PROVE  /\ \A r \in Starters : Resting(starters[r])
           /\ \A e \in Editors : editors[e].pc = "idle"
           /\ \A x \in GroupWriters : groupWriters[x].pc = "idle"
           /\ \A x \in Restorers : restorers[x].pc \notin {"noneRunning", "unlocked"}
BY InMidRequest

(* A start request that is not under way, or sees nothing change, has      *)
(* nothing to worry about.                                                 *)
LEMMA StarterStays ==
    ASSUME NEW s, StarterCurrent(s),
           \/ Resting(s)
           \/ /\ SameView(s.group)
              /\ SameRestores(s.group)
    PROVE  StarterCurrent(s)'
BY DEF StarterCurrent, Resting, SameView, SameRestores

(* The same for an edit: the currency of the group and its migrations      *)
(* matter to it.                                                           *)
LEMMA EditorStays ==
    ASSUME NEW e, EditorCurrent(e),
           e.pc # "idle" =>
              /\ groups'[GroupOf[e.item]].cur = groups[GroupOf[e.item]].cur
              /\ InFlight(GroupOf[e.item])' = InFlight(GroupOf[e.item])
    PROVE  EditorCurrent(e)'
BY DEF EditorCurrent

(* A step that leaves tables and workers alone, and the day.               *)
LEMMA TablesStay ==
    ASSUME TablesCurrent, UNCHANGED <<tables, workers, day>>
    PROVE  TablesCurrent'
<1>1. UNCHANGED <<migrations, groups, commodities, auditRows, auditLogs, workers, day>>
  BY DEF tables
<1>2. /\ \A g : StateHash(g)' = StateHash(g)
      /\ \A g : InFlight(g)' = InFlight(g)
      /\ \A g : CompletedToday(g, day)' = CompletedToday(g, day)
      /\ \A g : ItemsOf(g)' = ItemsOf(g)
  BY <1>1, HashOfItems DEF InFlight, CompletedToday, ItemsOf
<1>3. ASSUME NEW w \in Workers, WorkerCurrent(workers[w])
      PROVE  WorkerCurrent(workers[w])'
  BY <1>1, <1>2, <1>3 DEF WorkerCurrent
<1>4. RowsCurrent => RowsCurrent'
  BY <1>1, <1>2 DEF RowsCurrent
<1>5. WithinDailyCap => WithinDailyCap'
  BY <1>2 DEF WithinDailyCap
<1>6. CompletedByNow => CompletedByNow'
  BY <1>1 DEF CompletedByNow
<1>7. PricesCurrent => PricesCurrent'
  BY <1>1 DEF PricesCurrent, RowCurrent, ValuedIn
<1>8. LockSignalInFlight => LockSignalInFlight'
  BY <1>1, <1>2 DEF LockSignalInFlight
<1> QED BY <1>3, <1>4, <1>5, <1>6, <1>7, <1>8 DEF TablesCurrent

(* A step that leaves the tables and the day alone changes no view of a    *)
(* group.                                                                  *)
LEMMA ViewsStay ==
    ASSUME UNCHANGED <<tables, day>>
    PROVE  \A g : SameView(g)
<1>1. UNCHANGED <<migrations, groups, commodities, day>>
  BY DEF tables
<1>2. \A g : StateHash(g)' = StateHash(g)
  BY <1>1, HashOfItems
<1> QED BY <1>1, <1>2 DEF SameView, InFlight, CompletedToday

(* ... and so nothing of what the requests have read, restores left aside. *)
LEMMA RecordsStay ==
    ASSUME UNCHANGED <<tables, day>>
    PROVE  /\ \A e : EditorCurrent(e) => EditorCurrent(e)'
           /\ \A x : GroupWriterCurrent(x) => GroupWriterCurrent(x)'
           /\ \A x : RestorerCurrent(x) => RestorerCurrent(x)'
<1>1. UNCHANGED <<groups, commodities>> /\ \A g : InFlight(g)' = InFlight(g)
  BY ViewsStay DEF tables, SameView
<1>2. ASSUME NEW e, EditorCurrent(e)
      PROVE  EditorCurrent(e)'
  BY <1>1, <1>2, EditorStays
<1>3. ASSUME NEW x, GroupWriterCurrent(x)
      PROVE  GroupWriterCurrent(x)'
  BY <1>1, <1>3 DEF GroupWriterCurrent
<1>4. ASSUME NEW x, RestorerCurrent(x)
      PROVE  RestorerCurrent(x)'
  BY <1>1, <1>4 DEF RestorerCurrent, Active, Writing
<1> QED BY <1>2, <1>3, <1>4

(* A step of a start request that writes nothing but its own record.       *)
LEMMA StarterOnly ==
    ASSUME PInv, NEW r \in Starters, NEW s, StarterCurrent(s),
           starters' = [starters EXCEPT ![r] = s],
           UNCHANGED <<tables, editors, groupWriters, restorers, workers, paused, day, crashes>>
    PROVE  RequestsCurrent' /\ TablesCurrent'
<1>1. \A g : SameRestores(g)
  BY RestoresStay
<1>2. ASSUME NEW t, StarterCurrent(t)
      PROVE  StarterCurrent(t)'
  BY <1>1, <1>2, ViewsStay, StarterStays
<1>3. ASSUME NEW q \in Starters
      PROVE  StarterCurrent(starters[q])'
  <2>1. PICK t : t = starters'[q]
    OBVIOUS
  <2>2. StarterCurrent(t)
    BY <2>1 DEF PInv, IInv, TypeOK, RequestsCurrent
  <2>3. StarterCurrent(t)'
    BY <1>2, <2>2
  <2> QED BY <2>1, <2>3 DEF StarterCurrent
<1>4. /\ \A e \in Editors : EditorCurrent(editors[e])'
      /\ \A x \in GroupWriters : GroupWriterCurrent(groupWriters[x])'
      /\ \A x \in Restorers : RestorerCurrent(restorers[x])'
  BY RecordsStay DEF PInv, RequestsCurrent, EditorCurrent, GroupWriterCurrent, RestorerCurrent,
     Active, Writing
<1> QED BY <1>3, <1>4, TablesStay DEF PInv, RequestsCurrent

(* A request that returns keeps its token, which names two currencies.     *)
LEMMA IdleIsCurrent ==
    /\ \A t : (t # Null => t.from # t.to) => StarterCurrent(IdleStarter(t))
    /\ EditorCurrent(IdleEditor)
    /\ GroupWriterCurrent(IdleGroupWriter)
    /\ RestorerCurrent(IdleRestorer)
    /\ WorkerCurrent(IdleWorker)
BY DEF StarterCurrent, IdleStarter, EditorCurrent, IdleEditor, GroupWriterCurrent, IdleGroupWriter,
       RestorerCurrent, IdleRestorer, Active, Writing, WorkerCurrent, IdleWorker

(* The checks of a start request, one by one.                              *)
LEMMA StarterChecksKeep ==
    ASSUME PInv, NEW r \in Starters, StarterNext(r),
           ~StartCreate(r), ~StartWriteGroup(r)
    PROVE  RequestsCurrent' /\ TablesCurrent'
<1> DEFINE s == starters[r]
<1>1. /\ StarterOK(s) /\ StarterCurrent(s)
      /\ groups \in [Groups -> GroupRow] /\ day \in 0 .. MaxDay
      /\ starters = [q \in Starters |-> starters[q]]
  BY DEF PInv, IInv, TypeOK, RequestsCurrent
<1>2. ASSUME StarterReturns(r),
             UNCHANGED <<tables, editors, groupWriters, restorers, workers, paused, day, crashes>>
      PROVE  RequestsCurrent' /\ TablesCurrent'
  <2>1. StarterCurrent(IdleStarter(s.token))
    BY <1>1, IdleIsCurrent DEF StarterCurrent
  <2> QED BY <1>2, <2>1, StarterOnly DEF StarterReturns
<1>3. ASSUME NEW from, NEW to, StarterStep(r, from, to),
             StarterCurrent([s EXCEPT !.pc = to]),
             UNCHANGED <<tables, editors, groupWriters, restorers, workers, paused, day, crashes>>
      PROVE  RequestsCurrent' /\ TablesCurrent'
  <2>1. starters' = [starters EXCEPT ![r] = [s EXCEPT !.pc = to]]
    BY <1>1, <1>3 DEF StarterStep
  <2> QED BY <1>3, <2>1, StarterOnly
<1>4. ASSUME NEW g \in Groups, PreviewResolve(r, g)
      PROVE  RequestsCurrent' /\ TablesCurrent'
  <2>1. StarterCurrent([pc |-> "previewing", token |-> Null, group |-> g, cur |-> groups[g].cur,
                        now |-> 0, mig |-> 0, row |-> Null])
    BY DEF StarterCurrent
  <2> QED BY <1>4, <2>1, StarterOnly DEF PreviewResolve
<1>5. ASSUME NEW to \in Currencies, PreviewIssue(r, to)
      PROVE  RequestsCurrent' /\ TablesCurrent'
  <2> DEFINE t == [group |-> s.group, from |-> s.cur, to |-> to, hash |-> StateHash(s.group)]
  <2>1. StarterCurrent(IdleStarter(t))
    BY <1>5, IdleIsCurrent DEF PreviewIssue
  <2> QED BY <1>5, <2>1, StarterOnly DEF PreviewIssue
<1>6. CASE StartResolve(r)
  <2> DEFINE t == [s EXCEPT !.pc = "resolved", !.group = s.token.group, !.now = day]
  <2>1. StarterCurrent(t)
    BY <1>1, <1>6 DEF StartResolve, StarterOK, TokenOK, StarterCurrent
  <2>2. starters' = [starters EXCEPT ![r] = t]
    BY <1>1, <1>6 DEF StartResolve
  <2> QED BY <1>6, <2>1, <2>2, StarterOnly DEF StartResolve
<1>7. CASE StartVerify(r)
  <2>1. CASE s.token.hash = StateHash(s.group) /\ StarterStep(r, "resolved", "bound")
    <3>1. StarterCurrent([s EXCEPT !.pc = "bound"])
      BY <1>1, <1>7, <2>1 DEF StartVerify, StarterOK, StarterCurrent
    <3> QED BY <1>3, <1>7, <2>1, <3>1 DEF StartVerify
  <2>2. CASE starters' = [starters EXCEPT ![r] = IdleStarter(Null)]
    BY <1>7, <2>2, IdleIsCurrent, StarterOnly DEF StartVerify
  <2> QED BY <1>2, <1>7, <2>1, <2>2 DEF StartVerify
<1>8. CASE StartCheckInFlight(r)
  <2>1. CASE InFlight(s.group) = {}
    <3>1. StarterCurrent([s EXCEPT !.pc = "notMigrating"])
      BY <1>1, <1>8, <2>1 DEF StartCheckInFlight, StarterOK, StarterCurrent
    <3> QED BY <1>3, <1>8, <2>1, <3>1 DEF StartCheckInFlight
  <2> QED BY <1>2, <1>8, <2>1 DEF StartCheckInFlight
<1>9. CASE StartCheckRestore(r)
  <2>1. CASE ~GroupHasInFlightRestore(s.group)
    <3>1. ~BeingRestored(s.group)
      BY <2>1 DEF GroupHasInFlightRestore, RestoreActive, BeingRestored, Writing, RestorerCurrent,
         PInv, RequestsCurrent
    <3>2. StarterCurrent([s EXCEPT !.pc = "notRestoring"])
      BY <1>1, <1>9, <2>1, <3>1 DEF StartCheckRestore, StarterOK, StarterCurrent
    <3> QED BY <1>3, <1>9, <2>1, <3>2 DEF StartCheckRestore
  <2> QED BY <1>2, <1>9, <2>1 DEF StartCheckRestore
<1>10. CASE StartCheckCap(r)
  <2>1. CASE Cardinality(CompletedToday(s.group, s.now)) < DailyCap
    <3>1. StarterCurrent([s EXCEPT !.pc = "allowed"])
      BY <1>1, <1>10, <2>1 DEF StartCheckCap, StarterOK, StarterCurrent
    <3> QED BY <1>3, <1>10, <2>1, <3>1 DEF StartCheckCap
  <2> QED BY <1>2, <1>10, <2>1 DEF StartCheckCap
<1>11. CASE StartReadGroup(r)
  <2> DEFINE t == [s EXCEPT !.pc = "locking", !.row = groups[s.group]]
  <2>1. StarterCurrent(t)
    BY <1>1, <1>11 DEF StartReadGroup, StarterOK, StarterCurrent
  <2>2. starters' = [starters EXCEPT ![r] = t]
    BY <1>1, <1>11 DEF StartReadGroup
  <2> QED BY <1>11, <2>1, <2>2, StarterOnly DEF StartReadGroup
<1>12. CASE StartAbort(r)
  BY <1>2, <1>12 DEF StartAbort
<1> QED BY <1>4, <1>5, <1>6, <1>7, <1>8, <1>9, <1>10, <1>11, <1>12 DEF StarterNext

-----------------------------------------------------------------------------
(* A step of an edit that writes nothing but its own record.               *)
LEMMA EditorOnly ==
    ASSUME PInv, NEW e \in Editors, NEW s, EditorCurrent(s),
           editors' = [editors EXCEPT ![e] = s],
           UNCHANGED <<tables, starters, groupWriters, restorers, workers, paused, day, crashes>>
    PROVE  RequestsCurrent' /\ TablesCurrent'
<1>1. \A g : SameRestores(g)
  BY RestoresStay
<1>2. ASSUME NEW t, StarterCurrent(t)
      PROVE  StarterCurrent(t)'
  BY <1>1, <1>2, ViewsStay, StarterStays
<1>3. ASSUME NEW q \in Editors
      PROVE  EditorCurrent(editors[q])'
  <2>1. PICK t : t = editors'[q]
    OBVIOUS
  <2>2. EditorCurrent(t)
    BY <2>1 DEF PInv, IInv, TypeOK, RequestsCurrent
  <2>3. EditorCurrent(t)'
    BY <2>2, RecordsStay
  <2> QED BY <2>1, <2>3 DEF EditorCurrent
<1>4. /\ \A r \in Starters : StarterCurrent(starters[r])'
      /\ \A x \in GroupWriters : GroupWriterCurrent(groupWriters[x])'
      /\ \A x \in Restorers : RestorerCurrent(restorers[x])'
  BY <1>2, RecordsStay DEF PInv, RequestsCurrent, StarterCurrent, GroupWriterCurrent, RestorerCurrent,
     Active, Writing
<1> QED BY <1>3, <1>4, TablesStay DEF PInv, RequestsCurrent

(* An edit up to its write.                                                *)
LEMMA EditorChecksKeep ==
    ASSUME PInv, NEW e \in Editors,
           (\E c \in Commodities : EditResolve(e, c)) \/ EditCheckLock(e) \/ EditPrefetch(e)
    PROVE  RequestsCurrent' /\ TablesCurrent'
<1> DEFINE s == editors[e]
<1>1. EditorOK(s) /\ EditorCurrent(s) /\ editors = [q \in Editors |-> editors[q]]
  BY DEF PInv, IInv, TypeOK, RequestsCurrent
<1>2. ASSUME NEW c \in Commodities, EditResolve(e, c)
      PROVE  RequestsCurrent' /\ TablesCurrent'
  <2>1. EditorCurrent([pc |-> "resolved", item |-> c, cur |-> groups[GroupOf[c]].cur, acq |-> Null])
    BY DEF EditorCurrent
  <2> QED BY <1>2, <2>1, EditorOnly DEF EditResolve
<1>3. CASE EditCheckLock(e)
  <2>1. CASE InFlight(GroupOf[s.item]) = {}
    <3>1. EditorCurrent([s EXCEPT !.pc = "unlocked"])
      BY <1>1, <1>3, <2>1 DEF EditCheckLock, EditorOK, EditorCurrent
    <3>2. editors' = [editors EXCEPT ![e] = [s EXCEPT !.pc = "unlocked"]]
      BY <1>3, <2>1 DEF EditCheckLock
    <3> QED BY <1>3, <3>1, <3>2, EditorOnly DEF EditCheckLock
  <2>2. CASE InFlight(GroupOf[s.item]) # {}
    <3>1. editors' = [editors EXCEPT ![e] = IdleEditor]
      BY <1>3, <2>2 DEF EditCheckLock
    <3> QED BY <1>3, <3>1, IdleIsCurrent, EditorOnly DEF EditCheckLock
  <2> QED BY <2>1, <2>2
<1>4. CASE EditPrefetch(e)
  <2>1. PICK acq : editors' = [editors EXCEPT ![e].pc = "fetched", ![e].acq = acq]
    BY <1>4 DEF EditPrefetch
  <2> DEFINE t == [s EXCEPT !.pc = "fetched", !.acq = acq]
  <2>2. EditorCurrent(t)
    BY <1>1, <1>4 DEF EditPrefetch, EditorOK, EditorCurrent
  <2>3. editors' = [editors EXCEPT ![e] = t]
    BY <1>1, <2>1
  <2> QED BY <1>4, <2>2, <2>3, EditorOnly DEF EditPrefetch
<1> QED BY <1>2, <1>3, <1>4

(* A group update reads the row of the group ...                           *)
LEMMA GroupUpdateReadKeeps ==
    ASSUME PInv, NEW x \in GroupWriters, NEW g \in Groups, GroupUpdateRead(x, g)
    PROVE  RequestsCurrent' /\ TablesCurrent'
<1> DEFINE s == [pc |-> "read", group |-> g, row |-> groups[g]]
<1>1. \A h : SameRestores(h)
  BY RestoresStay DEF GroupUpdateRead
<1>2. UNCHANGED <<tables, day>>
  BY DEF GroupUpdateRead
<1>3. ASSUME NEW t, StarterCurrent(t)
      PROVE  StarterCurrent(t)'
  BY <1>1, <1>2, <1>3, ViewsStay, StarterStays
<1>4. ASSUME NEW q \in GroupWriters
      PROVE  GroupWriterCurrent(groupWriters[q])'
  <2>1. PICK t : t = groupWriters'[q]
    OBVIOUS
  <2>2. GroupWriterCurrent(s)
    BY DEF GroupWriterCurrent
  <2>3. GroupWriterCurrent(t)
    BY <2>1, <2>2 DEF PInv, IInv, TypeOK, RequestsCurrent, GroupUpdateRead
  <2>4. GroupWriterCurrent(t)'
    BY <1>2, <2>3, RecordsStay
  <2> QED BY <2>1, <2>4 DEF GroupWriterCurrent
<1>5. /\ \A r \in Starters : StarterCurrent(starters[r])'
      /\ \A e \in Editors : EditorCurrent(editors[e])'
      /\ \A r \in Restorers : RestorerCurrent(restorers[r])'
  BY <1>2, <1>3, RecordsStay
     DEF PInv, RequestsCurrent, StarterCurrent, EditorCurrent, RestorerCurrent, Active, Writing,
         GroupUpdateRead
<1> QED BY <1>4, <1>5, TablesStay DEF PInv, RequestsCurrent, GroupUpdateRead

(* ... which is still the same when it writes it back: nothing happens.    *)
LEMMA GroupUpdateWriteKeeps ==
    ASSUME PInv, NEW x \in GroupWriters, GroupUpdateWrite(x)
    PROVE  /\ RequestsCurrent' /\ TablesCurrent'
           /\ UNCHANGED tables
<1> DEFINE s == groupWriters[x]
<1>1. /\ GroupWriterOK(s) /\ GroupWriterCurrent(s) /\ s.pc = "read"
      /\ groups \in [Groups -> GroupRow]
  BY DEF PInv, IInv, TypeOK, RequestsCurrent, GroupUpdateWrite
<1>2. groups' = groups
  BY <1>1 DEF GroupUpdateWrite, GroupWriterCurrent, GroupWriterOK
<1>3. UNCHANGED <<tables, day>>
  BY <1>2 DEF GroupUpdateWrite, tables
<1>4. \A h : SameRestores(h)
  BY RestoresStay DEF GroupUpdateWrite
<1>5. ASSUME NEW t, StarterCurrent(t)
      PROVE  StarterCurrent(t)'
  BY <1>3, <1>4, <1>5, ViewsStay, StarterStays
<1>6. ASSUME NEW q \in GroupWriters
      PROVE  GroupWriterCurrent(groupWriters[q])'
  <2>1. PICK t : t = groupWriters'[q]
    OBVIOUS
  <2>2. GroupWriterCurrent(t)
    BY <2>1, IdleIsCurrent DEF PInv, IInv, TypeOK, RequestsCurrent, GroupUpdateWrite
  <2>3. GroupWriterCurrent(t)'
    BY <1>3, <2>2, RecordsStay
  <2> QED BY <2>1, <2>3 DEF GroupWriterCurrent
<1>7. /\ \A r \in Starters : StarterCurrent(starters[r])'
      /\ \A e \in Editors : EditorCurrent(editors[e])'
      /\ \A r \in Restorers : RestorerCurrent(restorers[r])'
  <2>1. UNCHANGED <<starters, editors, restorers>>
    BY DEF GroupUpdateWrite
  <2>2. \A r \in Starters : StarterCurrent(starters[r])'
    BY <1>5, <2>1 DEF PInv, RequestsCurrent, StarterCurrent
  <2>3. /\ \A e \in Editors : EditorCurrent(editors[e])'
        /\ \A r \in Restorers : RestorerCurrent(restorers[r])'
    BY <1>3, <2>1, RecordsStay
       DEF PInv, RequestsCurrent, EditorCurrent, RestorerCurrent, Active, Writing
  <2> QED BY <2>2, <2>3
<1> QED BY <1>3, <1>6, <1>7, TablesStay DEF PInv, RequestsCurrent, GroupUpdateWrite

(* A step of a restore that writes nothing but its own record: no start    *)
(* request is under way while one begins to show or ends to write.         *)
LEMMA RestorerOnly ==
    ASSUME PInv, NEW x \in Restorers, NEW s, RestorerCurrent(s),
           restorers' = [restorers EXCEPT ![x] = s],
           \/ \A r \in Starters : Resting(starters[r])
           \/ /\ Active(s) => Active(restorers[x]) /\ s.group = restorers[x].group
              /\ Writing(restorers[x]) => Writing(s) /\ s.group = restorers[x].group,
           UNCHANGED <<tables, starters, editors, groupWriters, workers, paused, day, crashes>>
    PROVE  RequestsCurrent' /\ TablesCurrent'
<1>0. restorers = [y \in Restorers |-> restorers[y]]
  BY DEF PInv, IInv, TypeOK
<1>1. ASSUME ~ \A r \in Starters : Resting(starters[r])
      PROVE  \A g : SameRestores(g)
  <2>1. \A y \in Restorers :
           /\ Active(restorers'[y]) => Active(restorers[y]) /\ restorers'[y].group = restorers[y].group
           /\ Writing(restorers[y]) => Writing(restorers'[y]) /\ restorers'[y].group = restorers[y].group
    BY <1>0, <1>1
  <2> QED BY <2>1 DEF SameRestores, GroupHasInFlightRestore, RestoreActive, Active, BeingRestored,
             Writing
<1>2. ASSUME NEW r \in Starters
      PROVE  StarterCurrent(starters[r])'
  <2>1. PICK t : t = starters[r]
    OBVIOUS
  <2>2. StarterCurrent(t)
    BY <2>1 DEF PInv, RequestsCurrent
  <2>3. StarterCurrent(t)'
    BY <1>1, <2>1, <2>2, ViewsStay, StarterStays
  <2> QED BY <2>1, <2>3 DEF StarterCurrent
<1>3. ASSUME NEW q \in Restorers
      PROVE  RestorerCurrent(restorers[q])'
  <2>1. PICK t : t = restorers'[q]
    OBVIOUS
  <2>2. RestorerCurrent(t)
    BY <1>0, <2>1 DEF PInv, RequestsCurrent
  <2>3. RestorerCurrent(t)'
    BY <2>2, RecordsStay
  <2> QED BY <2>1, <2>3 DEF RestorerCurrent, Active, Writing
<1>4. /\ \A e \in Editors : EditorCurrent(editors[e])'
      /\ \A y \in GroupWriters : GroupWriterCurrent(groupWriters[y])'
  BY RecordsStay DEF PInv, RequestsCurrent, EditorCurrent, GroupWriterCurrent
<1> QED BY <1>2, <1>3, <1>4, TablesStay DEF PInv, RequestsCurrent

(* A restore request, and the run it leads to, up to its end or to the     *)
(* deletion of its record; the commodities it writes are another matter.   *)
LEMMA RestorerChecksKeep ==
    ASSUME PInv, MidRequest # {} => Ended' = Ended, NEW x \in Restorers,
           restorers[x].seen => ~RestoreRun(x),
           \/ \E g \in Groups : RestoreCheckRunning(x, g)
           \/ RestoreCheckLock(x) \/ RestoreCreate(x) \/ RestoreRead(x) \/ RestoreRun(x)
           \/ \E c \in Commodities : RestorePrefetch(x, c)
           \/ RestoreFinish(x) \/ RestoreDeleteLook(x) \/ RestoreDelete(x)
    PROVE  RequestsCurrent' /\ TablesCurrent'
<1> DEFINE s == restorers[x]
<1>1. RestorerOK(s) /\ RestorerCurrent(s) /\ restorers = [y \in Restorers |-> restorers[y]]
  BY DEF PInv, IInv, TypeOK, RequestsCurrent
<1>2. ASSUME NEW t, restorers' = [restorers EXCEPT ![x] = t],
             RestorerCurrent(t),
             \/ \A r \in Starters : Resting(starters[r])
             \/ /\ Active(t) => Active(s) /\ t.group = s.group
                /\ Writing(s) => Writing(t) /\ t.group = s.group
      PROVE  RequestsCurrent' /\ TablesCurrent'
  <2>1. UNCHANGED <<tables, starters, editors, groupWriters, workers, paused, day, crashes>>
    BY DEF RestoreCheckRunning, RestoreCheckLock, RestoreCreate, RestoreRead, RestoreRun,
       RestorePrefetch, RestoreFinish, RestoreDeleteLook, RestoreDelete
  <2> QED BY <1>2, <2>1, RestorerOnly
<1>3. ASSUME NEW g \in Groups, RestoreCheckRunning(x, g)
      PROVE  RequestsCurrent' /\ TablesCurrent'
  <2> DEFINE t == [s EXCEPT !.pc = "noneRunning", !.group = g]
  <2>1. t.pc = "noneRunning" /\ s.pc = "idle"
    BY <1>1, <1>3 DEF RestoreCheckRunning, RestorerOK
  <2>2. restorers' = [restorers EXCEPT ![x] = t]
    BY <1>1, <1>3 DEF RestoreCheckRunning
  <2> HIDE DEF t
  <2>3. RestorerCurrent(t) /\ ~Active(t) /\ ~Writing(s)
    BY <2>1 DEF RestorerCurrent, Active, Writing
  <2> QED BY <1>2, <2>2, <2>3
<1>4. CASE RestoreCheckLock(x)
  <2> DEFINE t == IF InFlight(s.group) = {} THEN [s EXCEPT !.pc = "unlocked"] ELSE IdleRestorer
  <2>1. /\ t.pc \in {"unlocked", "idle"} /\ s.pc = "noneRunning"
        /\ t.pc = "unlocked" => InFlight(t.group) = {}
    BY <1>1, <1>4 DEF RestoreCheckLock, RestorerOK, IdleRestorer
  <2>2. restorers' = [restorers EXCEPT ![x] = t]
    BY <1>1, <1>4 DEF RestoreCheckLock
  <2> HIDE DEF t
  <2>3. RestorerCurrent(t) /\ ~Active(t) /\ ~Writing(s)
    BY <2>1 DEF RestorerCurrent, Active, Writing
  <2> QED BY <1>2, <2>2, <2>3
<1>5. CASE RestoreCreate(x)
  <2> DEFINE t == [s EXCEPT !.pc = "pending"]
  <2>1. t.pc = "pending" /\ t.group = s.group /\ s.pc = "unlocked"
    BY <1>1, <1>5 DEF RestoreCreate, RestorerOK
  <2>2. restorers' = [restorers EXCEPT ![x] = t]
    BY <1>1, <1>5 DEF RestoreCreate
  <2>3. \A r \in Starters : Resting(starters[r])
    BY <2>1, InMidRequest, TheOneMidRequest DEF PInv
  <2> HIDE DEF t
  <2>4. RestorerCurrent(t)
    BY <1>1, <2>1 DEF RestorerCurrent, Active, Writing
  <2> QED BY <1>2, <2>2, <2>3, <2>4
<1>6. CASE RestoreRead(x)
  <2> DEFINE t == [s EXCEPT !.pc = "read", !.cur = groups[s.group].cur]
  <2>1. t.pc = "read" /\ t.group = s.group /\ s.pc = "pending" /\ ~s.gone /\ ~t.gone
    BY <1>1, <1>6 DEF RestoreRead, RestorerOK
  <2>2. restorers' = [restorers EXCEPT ![x] = t]
    BY <1>1, <1>6 DEF RestoreRead
  <2> HIDE DEF t
  <2>3. RestorerCurrent(t) /\ Active(s) /\ ~Writing(s)
    BY <1>1, <2>1 DEF RestorerCurrent, Active, Writing
  <2> QED BY <1>2, <2>1, <2>2, <2>3
<1>7. CASE RestoreRun(x)
  <2> DEFINE t == [s EXCEPT !.pc = "running"]
  <2>1. /\ t.pc = "running" /\ t.group = s.group /\ s.pc = "read"
        /\ ~s.gone /\ ~t.gone /\ t.seen = s.seen /\ ~s.seen
    BY <1>1, <1>7 DEF RestoreRun, RestorerOK
  <2>2. restorers' = [restorers EXCEPT ![x] = t]
    BY <1>1, <1>7 DEF RestoreRun
  <2> HIDE DEF t
  <2>3. RestorerCurrent(t) /\ Active(s) /\ ~Writing(s)
    BY <1>1, <2>1 DEF RestorerCurrent, Active, Writing
  <2> QED BY <1>2, <2>1, <2>2, <2>3
<1>8. ASSUME NEW c \in Commodities, RestorePrefetch(x, c)
      PROVE  RequestsCurrent' /\ TablesCurrent'
  <2>1. PICK acq : restorers' = [restorers EXCEPT ![x].pc = "fetched", ![x].item = c, ![x].acq = acq]
    BY <1>8 DEF RestorePrefetch
  <2> DEFINE t == [s EXCEPT !.pc = "fetched", !.item = c, !.acq = acq]
  <2>2. /\ t.pc = "fetched" /\ t.group = s.group /\ s.pc = "running"
        /\ t.seen = s.seen /\ t.gone = s.gone
    BY <1>1, <1>8 DEF RestorePrefetch, RestorerOK
  <2>3. restorers' = [restorers EXCEPT ![x] = t]
    BY <1>1, <2>1
  <2> HIDE DEF t
  <2>4. RestorerCurrent(t) /\ Writing(t) /\ Active(s)
    BY <1>1, <2>2 DEF RestorerCurrent, Active, Writing
  <2> QED BY <1>2, <2>2, <2>3, <2>4
<1>9. CASE RestoreFinish(x)
  <2> DEFINE t == [IdleRestorer EXCEPT !.pc = "finished", !.group = s.group]
  <2>1. t.pc = "finished" /\ s.pc # "finished"
    BY <1>9 DEF RestoreFinish, IdleRestorer
  <2>2. restorers' = [restorers EXCEPT ![x] = t]
    BY <1>1, <1>9 DEF RestoreFinish
  <2> HIDE DEF t
  <2>3. MidRequest = {}
    <3> SUFFICES ASSUME Ended' = Ended PROVE FALSE
      OBVIOUS
    <3>1. restorers'[x].pc = "finished"
      BY <1>1, <2>1, <2>2
    <3> QED BY <2>1, <3>1 DEF Ended
  <2>4. \A r \in Starters : Resting(starters[r])
    BY <2>3, NoMidRequest
  <2>5. RestorerCurrent(t)
    BY <2>1 DEF RestorerCurrent, Active, Writing
  <2> QED BY <1>2, <2>2, <2>4, <2>5
<1>10. CASE RestoreDeleteLook(x)
  <2> DEFINE t == [s EXCEPT !.seen = TRUE]
  <2>1. t.pc = s.pc /\ t.group = s.group /\ t.gone = s.gone /\ s.pc \in {"pending", "read"}
    BY <1>1, <1>10 DEF RestoreDeleteLook, RestorerOK
  <2>2. restorers' = [restorers EXCEPT ![x] = t]
    BY <1>1, <1>10 DEF RestoreDeleteLook
  <2> HIDE DEF t
  <2>3. RestorerCurrent(t) /\ (Active(t) => Active(s)) /\ ~Writing(s)
    BY <1>1, <2>1 DEF RestorerCurrent, Active, Writing
  <2> QED BY <1>2, <2>1, <2>2, <2>3
<1>11. CASE RestoreDelete(x)
  <2>1. PICK deleted \in BOOLEAN :
           restorers' = [restorers EXCEPT ![x].seen = FALSE, ![x].gone = @ \/ deleted]
    BY <1>11 DEF RestoreDelete
  <2> DEFINE t == [s EXCEPT !.seen = FALSE, !.gone = @ \/ deleted]
  <2>2. t.pc = s.pc /\ t.group = s.group /\ (s.gone => t.gone) /\ s.seen
    BY <1>1, <1>11, Zenon DEF RestoreDelete, RestorerOK
  <2>3. restorers' = [restorers EXCEPT ![x] = t]
    BY <1>1, <2>1, Zenon
  <2> HIDE DEF t
  <2>4. RestorerCurrent(t) /\ (Active(t) => Active(s)) /\ ~Writing(s)
    BY <1>1, <2>2 DEF RestorerCurrent, Active, Writing
  <2> QED BY <1>2, <2>2, <2>3, <2>4
<1> QED BY <1>3, <1>4, <1>5, <1>6, <1>7, <1>8, <1>9, <1>10, <1>11

-----------------------------------------------------------------------------
(* What a worker holds is in flight for the group it is a migration of.    *)
LEMMA ClaimedInFlight ==
    ASSUME PInv, NEW w \in Workers, workers[w].pc \in {"claimed", "tx2"}
    PROVE  LET m == workers[w].mig
           IN  /\ m \in Mids /\ migrations[m].status = "running" /\ ~migrations[m].stuck
               /\ migrations[m].group \in Groups
               /\ m \in InFlight(migrations[m].group)
<1>1. migrations[workers[w].mig].status = "running" /\ ~migrations[workers[w].mig].stuck
  BY DEF PInv, TablesCurrent, WorkerCurrent
<1>2. workers[w].mig \in Mids /\ migrations[workers[w].mig].group \in Groups
  BY ClaimedRow DEF PInv, IInv
<1> QED BY <1>1, <1>2 DEF InFlight, InFlightStatus

(* A commodity of a group without a migration in flight is written, in the *)
(* currency of the group or marked as foreign.                             *)
LEMMA CommodityWritten ==
    ASSUME PInv, NEW c \in Commodities, NEW row \in Commodity,
           InFlight(GroupOf[c]) = {},
           RowCurrent(row, groups[GroupOf[c]].cur),
           commodities' = [commodities EXCEPT ![c] = row],
           UNCHANGED <<migrations, groups, auditRows, auditLogs, workers, day>>
    PROVE  /\ TablesCurrent'
           /\ \A g : InFlight(g)' = InFlight(g)
           /\ \A g : g # GroupOf[c] => SameView(g)
<1>0. commodities \in [Commodities -> Commodity]
  BY DEF PInv, IInv, TypeOK
<1>1. /\ \A g : InFlight(g)' = InFlight(g)
      /\ \A g : CompletedToday(g, day)' = CompletedToday(g, day)
  BY DEF InFlight, CompletedToday
<1>2. ASSUME NEW g, g # GroupOf[c]
      PROVE  StateHash(g)' = StateHash(g)
  BY <1>0, <1>2, HashOfItems DEF ItemsOf
<1>3. \A g : g # GroupOf[c] => SameView(g)
  BY <1>1, <1>2 DEF SameView
<1>4. ASSUME NEW w \in Workers
      PROVE  WorkerCurrent(workers[w])'
  <2> SUFFICES ASSUME workers[w].pc \in {"claimed", "tx2"}
               PROVE  WorkerCurrent(workers[w])'
    BY DEF WorkerCurrent
  <2>1. migrations[workers[w].mig].group # GroupOf[c]
    BY ClaimedInFlight
  <2>2. \A d \in ItemsOf(migrations[workers[w].mig].group) : commodities'[d] = commodities[d]
    BY <1>0, <2>1 DEF ItemsOf
  <2>3. WorkerCurrent(workers[w])
    BY DEF PInv, TablesCurrent
  <2> QED BY <2>2, <2>3 DEF WorkerCurrent, ItemsOf
<1>5. RowsCurrent'
  <2> SUFFICES ASSUME NEW g \in Groups, NEW m \in InFlight(g)'
               PROVE  (/\ migrations[m].from = groups[g].cur
                       /\ migrations[m].to # groups[g].cur
                       /\ migrations[m].hash = StateHash(g)
                       /\ Cardinality(CompletedToday(g, day)) < DailyCap)'
    BY DEF RowsCurrent
  <2>1. m \in InFlight(g) /\ g # GroupOf[c]
    BY <1>1
  <2>2. RowsCurrent
    BY DEF PInv, TablesCurrent
  <2> QED BY <1>1, <1>2, <2>1, <2>2 DEF RowsCurrent
<1>6. WithinDailyCap'
  BY <1>1 DEF PInv, TablesCurrent, WithinDailyCap
<1>7. CompletedByNow'
  BY DEF PInv, TablesCurrent, CompletedByNow
<1>8. PricesCurrent'
  <2>1. PricesCurrent
    BY DEF PInv, TablesCurrent
  <2>2. \A d \in Commodities : commodities'[d] = IF d = c THEN row ELSE commodities[d]
    BY <1>0
  <2>3. \A d \in Commodities : RowCurrent(commodities'[d], groups[GroupOf[d]].cur)
    BY <2>1, <2>2 DEF PricesCurrent
  <2> QED BY <2>3 DEF PricesCurrent, RowCurrent, ValuedIn
<1>9. LockSignalInFlight'
  BY <1>1 DEF PInv, TablesCurrent, LockSignalInFlight
<1> QED BY <1>1, <1>3, <1>4, <1>5, <1>6, <1>7, <1>8, <1>9 DEF TablesCurrent

(* A row entered by a request is valued in the currency it was entered in. *)
LEMMA PricedInValued ==
    ASSUME NEW orig, NEW worth, NEW cur, NEW acq
    PROVE  RowCurrent(PricedIn(orig, worth, cur, acq), cur)
BY DEF PricedIn, RowCurrent, ValuedIn

(* The write of an edit.                                                   *)
LEMMA EditWriteKeeps ==
    ASSUME PInv, NEW e \in Editors, NEW orig \in Currencies, NEW worth \in Amounts,
           EditWrite(e, orig, worth)
    PROVE  /\ RequestsCurrent' /\ TablesCurrent'
           /\ InFlight(GroupOf[editors[e].item]) = {}
           /\ editors[e].item \in Commodities
           /\ commodities' = [commodities EXCEPT ![editors[e].item] =
                 PricedIn(orig, worth, groups[GroupOf[editors[e].item]].cur, editors[e].acq)]
<1> DEFINE s == editors[e]
           c == s.item
           row == PricedIn(orig, worth, s.cur, s.acq)
<1>1. EditorOK(s) /\ EditorCurrent(s) /\ s.pc = "fetched"
  BY DEF PInv, IInv, TypeOK, RequestsCurrent, EditWrite
<1>2. /\ c \in Commodities /\ s.cur = groups[GroupOf[c]].cur /\ s.cur \in Currencies
      /\ s.acq \in Currencies \union {Null}
      /\ InFlight(GroupOf[c]) = {}
  BY <1>1 DEF EditorOK, EditorCurrent
<1>3. row \in Commodity /\ RowCurrent(row, groups[GroupOf[c]].cur)
  BY <1>2, PricedInType, PricedInValued
<1>4. /\ commodities' = [commodities EXCEPT ![c] = row]
      /\ editors' = [editors EXCEPT ![e] = IdleEditor]
      /\ UNCHANGED <<migrations, groups, auditRows, auditLogs, workers, day>>
      /\ UNCHANGED <<starters, groupWriters, restorers>>
  BY DEF EditWrite
<1> HIDE DEF row
<1>5. TablesCurrent' /\ \A g : InFlight(g)' = InFlight(g)
  BY <1>2, <1>3, <1>4, CommodityWritten
<1>6. /\ \A r \in Starters : Resting(starters[r])
      /\ \A q \in Editors : q # e => editors[q].pc = "idle"
  BY <1>1, InMidRequest, TheOneMidRequest DEF PInv
<1>7. ASSUME NEW r \in Starters
      PROVE  StarterCurrent(starters[r])'
  BY <1>4, <1>6 DEF PInv, RequestsCurrent, StarterCurrent, Resting
<1>8. ASSUME NEW q \in Editors
      PROVE  EditorCurrent(editors[q])'
  BY <1>4, <1>6 DEF PInv, IInv, TypeOK, EditorCurrent, IdleEditor
<1>9. ASSUME NEW x \in GroupWriters
      PROVE  GroupWriterCurrent(groupWriters[x])'
  BY <1>4 DEF PInv, RequestsCurrent, GroupWriterCurrent
<1>10. ASSUME NEW x \in Restorers
       PROVE  RestorerCurrent(restorers[x])'
  BY <1>4, <1>5 DEF PInv, RequestsCurrent, RestorerCurrent, Active, Writing
<1> USE DEF row
<1> QED BY <1>2, <1>4, <1>5, <1>7, <1>8, <1>9, <1>10 DEF RequestsCurrent

(* A commodity written by a running restore: a start request under way     *)
(* that has the old hash will see the restore.                             *)
LEMMA RestoreWriteKeeps ==
    ASSUME PInv, NEW x \in Restorers, NEW orig \in Currencies, NEW worth \in Amounts,
           NEW unit \in Currencies, RestoreWrite(x, orig, worth, unit)
    PROVE  /\ RequestsCurrent' /\ TablesCurrent'
           /\ \E c \in Commodities, row \in Commodity :
                 /\ InFlight(GroupOf[c]) = {}
                 /\ commodities' = [commodities EXCEPT ![c] = row]
                 /\ row.worth = worth /\ row.price = unit
                 /\ row.foreign = (unit # groups[GroupOf[c]].cur)
           /\ UNCHANGED <<migrations, groups>>
<1>0. PICK s : s = restorers[x]
  OBVIOUS
<1> DEFINE c == s.item
           g == s.group
           row == [orig |-> orig, worth |-> worth, price |-> unit,
                   conv |-> IF orig \in {unit, s.cur} THEN Null ELSE unit, acq |-> s.acq,
                   foreign |-> unit # groups[g].cur]
           u == [s EXCEPT !.pc = "running", !.item = Null, !.acq = Null]
<1>1. /\ RestorerOK(s) /\ RestorerCurrent(s) /\ s.pc = "fetched"
      /\ restorers = [y \in Restorers |-> restorers[y]]
  BY <1>0 DEF PInv, IInv, TypeOK, RequestsCurrent, RestoreWrite
<1>2. /\ c \in Commodities /\ GroupOf[c] = g /\ s.acq \in Currencies \union {Null}
      /\ InFlight(g) = {} /\ ~s.gone /\ ~s.seen
  BY <1>1 DEF RestorerOK, RestorerCurrent, Active, Writing, ItemsOf
<1>3. /\ row \in Commodity /\ RowCurrent(row, groups[g].cur)
      /\ row.worth = worth /\ row.price = unit /\ row.foreign = (unit # groups[g].cur)
  <2>1. row.conv \in {Null, unit} /\ (orig = unit => row.conv = Null) /\ row.orig = orig
    OBVIOUS
  <2>2. row.worth = worth /\ row.price = unit /\ row.foreign = (unit # groups[g].cur)
    BY Zenon
  <2>3. row \in Commodity
    BY <1>2 DEF Commodity, Units
  <2>4. RowCurrent(row, groups[g].cur)
    <3> HIDE DEF row
    <3> QED BY <2>1, <2>2 DEF RowCurrent, ValuedIn
  <2> QED BY <2>2, <2>3, <2>4
<1>4. /\ commodities' = [commodities EXCEPT ![c] = row]
      /\ restorers' = [restorers EXCEPT ![x] = u]
      /\ UNCHANGED <<migrations, groups, auditRows, auditLogs, workers, day>>
      /\ UNCHANGED <<starters, editors, groupWriters>>
  BY <1>0, <1>1, Zenon DEF RestoreWrite
<1>5. u.pc = "running" /\ u.group = g /\ u.gone = s.gone /\ u.seen = s.seen
  BY <1>1 DEF RestorerOK
<1> HIDE DEF row, u
<1>6. /\ TablesCurrent' /\ \A h : InFlight(h)' = InFlight(h)
      /\ \A h : h # g => SameView(h)
  BY <1>2, <1>3, <1>4, CommodityWritten
<1>7. \A h : SameRestores(h)
  <2>1. \A y \in Restorers : /\ restorers'[y].group = restorers[y].group
                             /\ Active(restorers'[y]) => Active(restorers[y])
                             /\ Writing(restorers[y]) => Writing(restorers'[y])
    BY <1>0, <1>1, <1>2, <1>4, <1>5 DEF Active, Writing
  <2> QED BY <2>1 DEF SameRestores, GroupHasInFlightRestore, RestoreActive, Active, BeingRestored,
             Writing
<1>8. ASSUME NEW r \in Starters
      PROVE  StarterCurrent(starters[r])'
  <2>1. PICK t : t = starters[r]
    OBVIOUS
  <2>2. StarterCurrent(t)
    BY <2>1 DEF PInv, RequestsCurrent
  <2>3. CASE Resting(t) \/ t.group # g
    <3>1. StarterCurrent(t)'
      BY <1>6, <1>7, <2>2, <2>3, StarterStays
    <3> QED BY <1>4, <2>1, <3>1 DEF StarterCurrent
  <2>4. CASE t.group = g
    <3>1. GroupHasInFlightRestore(g) /\ BeingRestored(g) /\ BeingRestored(g)'
      BY <1>0, <1>1, <1>2, <1>7
         DEF GroupHasInFlightRestore, RestoreActive, BeingRestored, Writing, SameRestores
    <3>2. CompletedToday(g, day)' = CompletedToday(g, day)
      BY <1>4 DEF CompletedToday
    <3>3. StarterCurrent(t)'
      BY <1>4, <1>6, <2>2, <2>4, <3>1, <3>2 DEF StarterCurrent
    <3> QED BY <1>4, <2>1, <3>3 DEF StarterCurrent
  <2> QED BY <2>3, <2>4
<1>9. ASSUME NEW e \in Editors
      PROVE  EditorCurrent(editors[e])'
  BY <1>4, <1>6 DEF PInv, RequestsCurrent, EditorCurrent
<1>10. ASSUME NEW y \in GroupWriters
       PROVE  GroupWriterCurrent(groupWriters[y])'
  BY <1>4 DEF PInv, RequestsCurrent, GroupWriterCurrent
<1>11. ASSUME NEW y \in Restorers
       PROVE  RestorerCurrent(restorers[y])'
  <2>1. PICK t : t = restorers'[y]
    OBVIOUS
  <2>2. RestorerCurrent(t)
    <3>1. CASE y = x
      <4>1. t = u
        BY <1>1, <1>4, <2>1, <3>1
      <4> QED BY <1>2, <1>5, <4>1 DEF RestorerCurrent, Active, Writing
    <3>2. CASE y # x
      BY <1>1, <1>4, <2>1, <3>2 DEF PInv, RequestsCurrent
    <3> QED BY <3>1, <3>2
  <2> QED BY <1>6, <2>1, <2>2 DEF RestorerCurrent, Active, Writing
<1>12. RequestsCurrent'
  BY <1>8, <1>9, <1>10, <1>11 DEF RequestsCurrent
<1> QED BY <1>2, <1>3, <1>4, <1>6, <1>12

-----------------------------------------------------------------------------
(* The insert of a pending row: nothing was in flight for the group, and   *)
(* the group is still in the state of the token.                           *)
LEMMA StartCreateIsCurrent ==
    ASSUME PInv, NEW r \in Starters, StartCreate(r)
    PROVE  RequestsCurrent' /\ TablesCurrent'
<1>0. PICK s : s = starters[r]
  OBVIOUS
<1> DEFINE t == s.token
           g == s.group
<1>1. /\ StarterOK(s) /\ StarterCurrent(s) /\ s.pc = "allowed"
      /\ starters = [q \in Starters |-> starters[q]]
      /\ migrations = [n \in Mids |-> migrations[n]]
  BY <1>0 DEF PInv, IInv, TypeOK, RequestsCurrent, StartCreate
<1>2. /\ g \in Groups /\ t # Null /\ t.group = g /\ t.from = groups[g].cur /\ t.from # t.to
      /\ t.hash = StateHash(g) /\ ~GroupHasInFlightRestore(g) /\ InFlight(g) = {}
      /\ Cardinality(CompletedToday(g, day)) < DailyCap
  BY <1>1 DEF StarterOK, StarterCurrent
<1>3. PICK m \in Mids :
        /\ migrations[m] = NoRow
        /\ InsertPending(r, m)
        /\ starters' = [starters EXCEPT ![r].pc = "created", ![r].mig = m]
  BY DEF StartCreate
<1> DEFINE row == [status |-> "pending", group |-> t.group, from |-> t.from, to |-> t.to,
                   hash |-> t.hash, stuck |-> FALSE, completedOn |-> 0]
           u == [s EXCEPT !.pc = "created", !.mig = m]
<1>4. migrations' = [migrations EXCEPT ![m] = row] /\ starters' = [starters EXCEPT ![r] = u]
  BY <1>0, <1>1, <1>3 DEF InsertPending
<1>5. /\ UNCHANGED <<groups, commodities, auditRows, auditLogs, day>>
      /\ UNCHANGED <<editors, groupWriters, restorers, workers>>
  BY DEF StartCreate
<1>6. row.status = "pending" /\ row.group = g /\ row.from = t.from /\ row.to = t.to /\ row.hash = t.hash
  BY <1>2
<1>7. u.pc = "created" /\ u.mig = m /\ u.token = t /\ u.group = g
  BY <1>1 DEF StarterOK
<1> HIDE DEF row, u
<1>8. /\ migrations'[m] = row /\ migrations[m].status = "unused"
      /\ \A n \in Mids : n # m => migrations'[n] = migrations[n]
  BY <1>1, <1>3, <1>4 DEF NoRow
<1>9. /\ InFlight(g)' = {m}
      /\ \A h : h # g => InFlight(h)' = InFlight(h)
      /\ \A h : CompletedToday(h, day)' = CompletedToday(h, day)
  <2>1. \A h : CompletedToday(h, day)' = CompletedToday(h, day)
    BY <1>5, <1>6, <1>8 DEF CompletedToday
  <2>2. \A h : h # g => InFlight(h)' = InFlight(h)
    BY <1>6, <1>8 DEF InFlight, InFlightStatus
  <2>3. InFlight(g)' = {m}
    BY <1>2, <1>6, <1>8 DEF InFlight, InFlightStatus
  <2> QED BY <2>1, <2>2, <2>3
<1>10. \A h : StateHash(h)' = StateHash(h)
  BY <1>5, HashOfItems
<1>11. /\ \A q \in Starters : q # r => Resting(starters[q])
       /\ \A e \in Editors : editors[e].pc = "idle"
       /\ \A x \in GroupWriters : groupWriters[x].pc = "idle"
       /\ \A x \in Restorers : restorers[x].pc \notin {"noneRunning", "unlocked"}
  BY <1>0, <1>1, InMidRequest, TheOneMidRequest DEF PInv, Resting
<1>12. ASSUME NEW q \in Starters
       PROVE  StarterCurrent(starters[q])'
  <2>1. CASE q = r
    <3>1. starters'[q] = u
      BY <1>1, <1>4, <2>1
    <3> QED BY <1>2, <1>7, <1>9, <3>1 DEF StarterCurrent
  <2>2. CASE q # r
    <3>1. starters'[q] = starters[q]
      BY <1>1, <1>4, <2>2
    <3> QED BY <1>11, <2>2, <3>1 DEF PInv, RequestsCurrent, StarterCurrent, Resting
  <2> QED BY <2>1, <2>2
<1>13. ASSUME NEW e \in Editors
       PROVE  EditorCurrent(editors[e])'
  BY <1>5, <1>11 DEF EditorCurrent
<1>14. ASSUME NEW x \in GroupWriters
       PROVE  GroupWriterCurrent(groupWriters[x])'
  BY <1>5, <1>11 DEF GroupWriterCurrent
<1>15. ASSUME NEW x \in Restorers
       PROVE  RestorerCurrent(restorers[x])'
  <2>1. restorers[x].pc # "unlocked" /\ (Active(restorers[x]) => restorers[x].group # g)
    BY <1>2, <1>11 DEF GroupHasInFlightRestore, RestoreActive, Active
  <2>2. RestorerCurrent(restorers[x])
    BY DEF PInv, RequestsCurrent
  <2> QED BY <1>5, <1>9, <2>1, <2>2 DEF RestorerCurrent, Active, Writing
<1>16. ASSUME NEW w \in Workers
       PROVE  WorkerCurrent(workers[w])'
  <2> SUFFICES ASSUME workers[w].pc \in {"claimed", "tx2"}
               PROVE  WorkerCurrent(workers[w])'
    BY <1>5 DEF WorkerCurrent
  <2>1. workers[w].mig \in Mids /\ workers[w].mig # m
    BY <1>8, ClaimedInFlight
  <2>2. migrations'[workers[w].mig] = migrations[workers[w].mig]
    BY <1>8, <2>1
  <2> QED BY <1>5, <2>2 DEF PInv, TablesCurrent, WorkerCurrent, ItemsOf
<1>17. RowsCurrent'
  <2> SUFFICES ASSUME NEW h \in Groups, NEW n \in InFlight(h)'
               PROVE  (/\ migrations[n].from = groups[h].cur
                       /\ migrations[n].to # groups[h].cur
                       /\ migrations[n].hash = StateHash(h)
                       /\ Cardinality(CompletedToday(h, day)) < DailyCap)'
    BY DEF RowsCurrent
  <2>1. CASE h = g
    <3>1. n = m
      BY <1>9, <2>1
    <3> QED BY <1>2, <1>5, <1>6, <1>8, <1>9, <1>10, <2>1, <3>1
  <2>2. CASE h # g
    <3>1. n \in InFlight(h) /\ n \in Mids /\ n # m
      BY <1>8, <1>9, <2>2 DEF InFlight, InFlightStatus
    <3> QED BY <1>5, <1>8, <1>9, <1>10, <3>1 DEF PInv, TablesCurrent, RowsCurrent
  <2> QED BY <2>1, <2>2
<1>18. WithinDailyCap'
  BY <1>9 DEF PInv, TablesCurrent, WithinDailyCap
<1>19. CompletedByNow'
  BY <1>5, <1>6, <1>8 DEF PInv, TablesCurrent, CompletedByNow
<1>20. PricesCurrent'
  BY <1>5 DEF PInv, TablesCurrent, PricesCurrent, RowCurrent, ValuedIn
<1>21. LockSignalInFlight'
  BY <1>2, <1>5, <1>9 DEF PInv, TablesCurrent, LockSignalInFlight
<1> QED BY <1>12, <1>13, <1>14, <1>15, <1>16, <1>17, <1>18, <1>19, <1>20, <1>21
        DEF RequestsCurrent, TablesCurrent

(* The lock signal is set while the migration it names is in flight.       *)
LEMMA StartWriteGroupKeeps ==
    ASSUME PInv, NEW r \in Starters, StartWriteGroup(r)
    PROVE  /\ RequestsCurrent' /\ TablesCurrent'
           /\ \A h \in Groups : groups'[h].cur = groups[h].cur
<1>0. PICK s : s = starters[r]
  OBVIOUS
<1> DEFINE g == s.group
           row == [groups[g] EXCEPT !.mig = s.mig]
<1>1. /\ StarterOK(s) /\ StarterCurrent(s) /\ s.pc = "locking"
      /\ starters = [q \in Starters |-> starters[q]]
      /\ groups \in [Groups -> GroupRow]
  BY <1>0 DEF PInv, IInv, TypeOK, RequestsCurrent, StartWriteGroup
<1>2. g \in Groups /\ s.mig \in InFlight(g) /\ s.row = groups[g]
  BY <1>1 DEF StarterOK, StarterCurrent
<1>3. /\ groups' = [groups EXCEPT ![g] = row]
      /\ starters' = [starters EXCEPT ![r] = IdleStarter(s.token)]
      /\ UNCHANGED <<migrations, commodities, auditRows, auditLogs, day>>
      /\ UNCHANGED <<editors, groupWriters, restorers, workers>>
  BY <1>0, <1>2 DEF StartWriteGroup, StarterReturns
<1>4. row.cur = groups[g].cur /\ row.mig = s.mig
  BY <1>1, <1>2 DEF GroupRow
<1> HIDE DEF row
<1>5. /\ \A h \in Groups : groups'[h].cur = groups[h].cur
      /\ groups'[g].mig = s.mig
      /\ \A h \in Groups : h # g => groups'[h] = groups[h]
  BY <1>1, <1>2, <1>3, <1>4
<1>6. /\ \A h : InFlight(h)' = InFlight(h)
      /\ \A h : CompletedToday(h, day)' = CompletedToday(h, day)
      /\ \A h : StateHash(h)' = StateHash(h)
  BY <1>3, HashOfItems DEF InFlight, CompletedToday
<1>7. /\ \A q \in Starters : q # r => Resting(starters[q])
      /\ \A e \in Editors : editors[e].pc = "idle"
      /\ \A x \in GroupWriters : groupWriters[x].pc = "idle"
  BY <1>0, <1>1, InMidRequest, TheOneMidRequest DEF PInv, Resting
<1>8. ASSUME NEW q \in Starters
      PROVE  StarterCurrent(starters[q])'
  <2>1. PICK t : t = starters'[q]
    OBVIOUS
  <2>2. StarterCurrent(t) /\ Resting(t)
    <3>1. CASE q = r
      <4>1. t = IdleStarter(s.token)
        BY <1>1, <1>3, <2>1, <3>1
      <4> QED BY <1>1, <4>1, IdleIsCurrent DEF StarterCurrent, Resting, IdleStarter
    <3>2. CASE q # r
      BY <1>1, <1>3, <1>7, <2>1, <3>2 DEF PInv, RequestsCurrent
    <3> QED BY <3>1, <3>2
  <2>3. StarterCurrent(t)'
    BY <2>2, StarterStays
  <2> QED BY <2>1, <2>3 DEF StarterCurrent
<1>9. ASSUME NEW e \in Editors
      PROVE  EditorCurrent(editors[e])'
  BY <1>3, <1>7 DEF EditorCurrent
<1>10. ASSUME NEW x \in GroupWriters
       PROVE  GroupWriterCurrent(groupWriters[x])'
  BY <1>3, <1>7 DEF GroupWriterCurrent
<1>11. ASSUME NEW x \in Restorers
       PROVE  RestorerCurrent(restorers[x])'
  BY <1>3, <1>6 DEF PInv, RequestsCurrent, RestorerCurrent, Active, Writing
<1>12. ASSUME NEW w \in Workers
       PROVE  WorkerCurrent(workers[w])'
  BY <1>3 DEF PInv, TablesCurrent, WorkerCurrent, ItemsOf
<1>13. RowsCurrent'
  BY <1>3, <1>5, <1>6 DEF PInv, TablesCurrent, RowsCurrent
<1>14. WithinDailyCap' /\ CompletedByNow'
  <2>1. WithinDailyCap'
    BY <1>6 DEF PInv, TablesCurrent, WithinDailyCap
  <2>2. CompletedByNow'
    BY <1>3 DEF PInv, TablesCurrent, CompletedByNow
  <2> QED BY <2>1, <2>2
<1>15. PricesCurrent'
  <2>1. \A c \in Commodities : RowCurrent(commodities[c], groups'[GroupOf[c]].cur)
    BY <1>5 DEF PInv, TablesCurrent, PricesCurrent
  <2> QED BY <1>3, <2>1 DEF PricesCurrent, RowCurrent, ValuedIn
<1>16. LockSignalInFlight'
  BY <1>2, <1>5, <1>6 DEF PInv, TablesCurrent, LockSignalInFlight
<1> QED BY <1>5, <1>8, <1>9, <1>10, <1>11, <1>12, <1>13, <1>14, <1>15, <1>16
        DEF RequestsCurrent, TablesCurrent

-----------------------------------------------------------------------------
(* The requests notice no step that leaves their groups as they are ...    *)
LEMMA RequestsStay ==
    ASSUME RequestsCurrent, UNCHANGED <<starters, editors, groupWriters, restorers, commodities>>,
           \A g : SameView(g)
    PROVE  RequestsCurrent'
<1>1. \A g : SameRestores(g)
  BY RestoresStay
<1>2. \A g : groups'[g] = groups[g] /\ InFlight(g)' = InFlight(g)
  BY DEF SameView
<1>3. ASSUME NEW r \in Starters
      PROVE  StarterCurrent(starters[r])'
  <2>1. PICK t : t = starters[r]
    OBVIOUS
  <2>2. StarterCurrent(t)
    BY <2>1 DEF RequestsCurrent
  <2>3. StarterCurrent(t)'
    BY <1>1, <2>2, StarterStays
  <2> QED BY <2>1, <2>3 DEF StarterCurrent
<1>4. ASSUME NEW e \in Editors
      PROVE  EditorCurrent(editors[e])'
  BY <1>2 DEF RequestsCurrent, EditorCurrent
<1>5. ASSUME NEW x \in GroupWriters
      PROVE  GroupWriterCurrent(groupWriters[x])'
  BY <1>2 DEF RequestsCurrent, GroupWriterCurrent
<1>6. ASSUME NEW x \in Restorers
      PROVE  RestorerCurrent(restorers[x])'
  BY <1>2 DEF RequestsCurrent, RestorerCurrent, Active, Writing
<1> QED BY <1>3, <1>4, <1>5, <1>6 DEF RequestsCurrent

(* ... or comes while none of them is under way, and spares the groups     *)
(* that have nothing in flight.                                            *)
LEMMA RequestsRest ==
    ASSUME PInv, MidRequest = {}, UNCHANGED <<starters, editors, groupWriters, restorers>>,
           \A g \in Groups : InFlight(g) = {} =>
               InFlight(g)' = {} /\ groups'[g].cur = groups[g].cur
    PROVE  RequestsCurrent'
<1>1. /\ \A r \in Starters : Resting(starters[r])
      /\ \A e \in Editors : editors[e].pc = "idle"
      /\ \A x \in GroupWriters : groupWriters[x].pc = "idle"
  BY NoMidRequest
<1>2. ASSUME NEW r \in Starters
      PROVE  StarterCurrent(starters[r])'
  BY <1>1 DEF PInv, RequestsCurrent, StarterCurrent, Resting
<1>3. ASSUME NEW e \in Editors
      PROVE  EditorCurrent(editors[e])'
  BY <1>1 DEF EditorCurrent
<1>4. ASSUME NEW x \in GroupWriters
      PROVE  GroupWriterCurrent(groupWriters[x])'
  BY <1>1 DEF GroupWriterCurrent
<1>5. ASSUME NEW x \in Restorers
      PROVE  RestorerCurrent(restorers[x])'
  <2>1. RestorerOK(restorers[x]) /\ RestorerCurrent(restorers[x])
    BY DEF PInv, IInv, TypeOK, RequestsCurrent
  <2> QED BY <2>1 DEF RestorerOK, RestorerCurrent, Active, Writing
<1> QED BY <1>2, <1>3, <1>4, <1>5 DEF RequestsCurrent

(* A worker moves on without touching a table of the groups.               *)
LEMMA WorkerOnly ==
    ASSUME PInv, NEW w \in Workers, NEW s, WorkerCurrent(s),
           workers' = [workers EXCEPT ![w] = s],
           UNCHANGED <<migrations, groups, commodities, day>>,
           UNCHANGED <<starters, editors, groupWriters, restorers>>
    PROVE  RequestsCurrent' /\ TablesCurrent'
<1>1. /\ \A g : StateHash(g)' = StateHash(g)
      /\ \A g : InFlight(g)' = InFlight(g)
      /\ \A g : CompletedToday(g, day)' = CompletedToday(g, day)
  BY HashOfItems DEF InFlight, CompletedToday
<1>2. RequestsCurrent'
  BY <1>1, RequestsStay DEF SameView, PInv
<1>3. workers = [v \in Workers |-> workers[v]]
  BY DEF PInv, IInv, TypeOK
<1>4. ASSUME NEW v \in Workers
      PROVE  WorkerCurrent(workers[v])'
  <2>1. PICK t : t = workers'[v]
    OBVIOUS
  <2>2. WorkerCurrent(t)
    BY <1>3, <2>1 DEF PInv, TablesCurrent
  <2> QED BY <2>1, <2>2 DEF WorkerCurrent, ItemsOf
<1>5. RowsCurrent' /\ WithinDailyCap' /\ LockSignalInFlight'
  BY <1>1 DEF PInv, TablesCurrent, RowsCurrent, WithinDailyCap, LockSignalInFlight
<1>6. CompletedByNow' /\ PricesCurrent'
  BY DEF PInv, TablesCurrent, CompletedByNow, PricesCurrent, RowCurrent, ValuedIn
<1> QED BY <1>2, <1>4, <1>5, <1>6 DEF TablesCurrent

(* A tick that claims nothing, a rollback, a crash and a restart; and the  *)
(* beginning of TX2, which lists the commodities as they are.              *)
LEMMA WorkerMovesOn ==
    ASSUME PInv, NEW w \in Workers,
           ClaimNothing(w) \/ Tx2Begin(w) \/ Tx2Rollback(w) \/ Crash(w) \/ Restart(w)
    PROVE  RequestsCurrent' /\ TablesCurrent'
<1> DEFINE u == workers[w]
<1>1. /\ WorkerOK(u) /\ WorkerCurrent(u) /\ workers = [v \in Workers |-> workers[v]]
  BY DEF PInv, IInv, TypeOK, TablesCurrent
<1>2. /\ UNCHANGED <<tables, day>>
      /\ UNCHANGED <<starters, editors, groupWriters, restorers>>
  BY DEF ClaimNothing, Tx2Begin, Tx2Rollback, Crash, Restart, requests
<1>3. CASE Tx2Begin(w)
  <2> DEFINE s == [u EXCEPT !.pc = "tx2", !.snap = commodities]
  <2>1. workers' = [workers EXCEPT ![w] = s] /\ u.pc = "claimed"
    BY <1>1, <1>3 DEF Tx2Begin
  <2>2. WorkerCurrent(s)
    BY <1>1, <2>1 DEF WorkerOK, WorkerCurrent
  <2> HIDE DEF s
  <2> QED BY <1>2, <2>1, <2>2, WorkerOnly DEF tables
<1>4. CASE ~Tx2Begin(w)
  <2>1. \E s \in {IdleWorker, [IdleWorker EXCEPT !.pc = "down"]} :
           workers' = [workers EXCEPT ![w] = s]
    BY <1>4 DEF ClaimNothing, Tx2Rollback, Crash, Restart
  <2>2. \A s \in {IdleWorker, [IdleWorker EXCEPT !.pc = "down"]} : WorkerCurrent(s)
    BY DEF WorkerCurrent, IdleWorker
  <2> QED BY <1>2, <2>1, <2>2, WorkerOnly DEF tables
<1> QED BY <1>3, <1>4

(* The fail entry of a swept migration.                                    *)
LEMMA SweepAuditKeeps ==
    ASSUME PInv, NEW w \in Workers, NEW m \in Mids, SweepAudit(w, m)
    PROVE  RequestsCurrent' /\ TablesCurrent'
<1> DEFINE s == [workers[w] EXCEPT !.swept = @ \ {m}]
<1>1. /\ workers[w].pc = "swept"
      /\ WorkerOK(workers[w]) /\ workers = [v \in Workers |-> workers[v]]
  BY DEF PInv, IInv, TypeOK, SweepAudit
<1>2. /\ workers' = [workers EXCEPT ![w] = s]
      /\ UNCHANGED <<migrations, groups, commodities, day>>
      /\ UNCHANGED <<starters, editors, groupWriters, restorers>>
  BY <1>1 DEF SweepAudit, requests
<1>3. s.pc = "swept"
  BY <1>1 DEF WorkerOK
<1> HIDE DEF s
<1> QED BY <1>2, <1>3, WorkerOnly DEF WorkerCurrent

(* A row in flight changes its status or grows old, and stays in flight.   *)
LEMMA RowStaysInFlight ==
    ASSUME PInv, NEW m \in Mids, NEW row,
           migrations[m].status \in InFlightStatus,
           row.status \in InFlightStatus,
           row.group = migrations[m].group, row.from = migrations[m].from,
           row.to = migrations[m].to, row.hash = migrations[m].hash,
           migrations' = [migrations EXCEPT ![m] = row],
           UNCHANGED <<groups, commodities, auditRows, auditLogs, day>>,
           UNCHANGED <<starters, editors, groupWriters, restorers>>
    PROVE  /\ RequestsCurrent'
           /\ RowsCurrent' /\ CompletedByNow' /\ WithinDailyCap' /\ PricesCurrent'
           /\ LockSignalInFlight'
           /\ \A g : InFlight(g)' = InFlight(g)
           /\ migrations'[m] = row
           /\ \A n \in Mids : n # m => migrations'[n] = migrations[n]
<1>1. migrations'[m] = row /\ \A n \in Mids : n # m => migrations'[n] = migrations[n]
  BY DEF PInv, IInv, TypeOK
<1>2. \A g : InFlight(g)' = InFlight(g)
  BY <1>1 DEF InFlight
<1>3. \A g : CompletedToday(g, day)' = CompletedToday(g, day)
  BY <1>1 DEF CompletedToday, InFlightStatus
<1>4. \A g : StateHash(g)' = StateHash(g)
  BY HashOfItems
<1>5. RequestsCurrent'
  BY <1>2, <1>3, <1>4, RequestsStay DEF SameView, PInv
<1>6. RowsCurrent'
  <2> SUFFICES ASSUME NEW g \in Groups, NEW n \in InFlight(g)'
               PROVE  (/\ migrations[n].from = groups[g].cur
                       /\ migrations[n].to # groups[g].cur
                       /\ migrations[n].hash = StateHash(g)
                       /\ Cardinality(CompletedToday(g, day)) < DailyCap)'
    BY DEF RowsCurrent
  <2>1. n \in InFlight(g) /\ n \in Mids
    BY <1>2 DEF InFlight
  <2>2. /\ migrations'[n].from = migrations[n].from
        /\ migrations'[n].to = migrations[n].to
        /\ migrations'[n].hash = migrations[n].hash
    BY <1>1, <2>1
  <2> QED BY <1>3, <1>4, <2>1, <2>2 DEF PInv, TablesCurrent, RowsCurrent
<1>7. CompletedByNow'
  BY <1>1 DEF PInv, TablesCurrent, CompletedByNow, InFlightStatus
<1>8. WithinDailyCap' /\ LockSignalInFlight'
  BY <1>2, <1>3 DEF PInv, TablesCurrent, WithinDailyCap, LockSignalInFlight
<1>9. PricesCurrent'
  BY DEF PInv, TablesCurrent, PricesCurrent, RowCurrent, ValuedIn
<1> QED BY <1>1, <1>2, <1>5, <1>6, <1>7, <1>8, <1>9

(* The claim: the row was pending, so nobody holds it yet.                 *)
LEMMA ClaimIsCurrent ==
    ASSUME PInv, NEW w \in Workers, Claim(w)
    PROVE  /\ RequestsCurrent' /\ TablesCurrent'
           /\ \A g : InFlight(g)' = InFlight(g)
<1>1. PICK m \in Pending :
        /\ migrations' = [migrations EXCEPT ![m].status = "running", ![m].stuck = FALSE]
        /\ workers' = [workers EXCEPT ![w].pc = "claimed", ![w].mig = m]
  BY DEF Claim
<1> DEFINE row == [migrations[m] EXCEPT !.status = "running", !.stuck = FALSE]
           s == [workers[w] EXCEPT !.pc = "claimed", !.mig = m]
<1>2. /\ m \in Mids /\ migrations[m].status = "pending" /\ migrations[m] # NoRow
      /\ MigrationRowOK(migrations[m]) /\ WorkerOK(workers[w])
      /\ workers = [v \in Workers |-> workers[v]]
  BY DEF Pending, NoRow, PInv, IInv, TypeOK
<1>3. migrations' = [migrations EXCEPT ![m] = row] /\ workers' = [workers EXCEPT ![w] = s]
  BY <1>1, <1>2 DEF PInv, IInv, TypeOK
<1>4. /\ row.status = "running" /\ row.stuck = FALSE
      /\ row.group = migrations[m].group /\ row.from = migrations[m].from
      /\ row.to = migrations[m].to /\ row.hash = migrations[m].hash
  BY <1>2 DEF MigrationRowOK
<1>5. s.pc = "claimed" /\ s.mig = m
  BY <1>2 DEF WorkerOK
<1> HIDE DEF row, s
<1>6. /\ UNCHANGED <<groups, commodities, auditRows, auditLogs, day>>
      /\ UNCHANGED <<starters, editors, groupWriters, restorers>>
  BY DEF Claim, requests
<1>7. /\ workers'[w] = s
      /\ \A v \in Workers : v # w => workers'[v] = workers[v]
  BY <1>2, <1>3
<1>8. /\ RequestsCurrent'
      /\ RowsCurrent' /\ CompletedByNow' /\ WithinDailyCap'
      /\ PricesCurrent' /\ LockSignalInFlight'
      /\ \A g : InFlight(g)' = InFlight(g)
      /\ migrations'[m] = row
      /\ \A n \in Mids : n # m => migrations'[n] = migrations[n]
  <2>1. migrations[m].status \in InFlightStatus /\ row.status \in InFlightStatus
    BY <1>2, <1>4 DEF InFlightStatus
  <2>2. migrations' = [migrations EXCEPT ![m] = row]
    BY <1>3
  <2> QED BY <1>2, <1>4, <1>6, <2>1, <2>2, RowStaysInFlight
<1>9. ASSUME NEW v \in Workers
      PROVE  WorkerCurrent(workers[v])'
  <2>1. CASE v = w
    BY <1>4, <1>5, <1>7, <1>8, <2>1 DEF WorkerCurrent
  <2>2. CASE v # w
    <3> SUFFICES ASSUME workers[v].pc \in {"claimed", "tx2"}
                 PROVE  WorkerCurrent(workers[v])'
      BY <1>7, <2>2 DEF WorkerCurrent
    <3>1. migrations'[workers[v].mig] = migrations[workers[v].mig]
      BY <1>2, <1>8, ClaimedInFlight
    <3> QED BY <1>6, <1>7, <2>2, <3>1 DEF PInv, TablesCurrent, WorkerCurrent, ItemsOf
  <2> QED BY <2>1, <2>2
<1> QED BY <1>8, <1>9 DEF TablesCurrent

(* A running row gets stuck: one that no worker works on.                  *)
LEMMA GetStuckIsCurrent ==
    ASSUME PInv, NEW m \in Mids, GetStuck(m), ~WorkedOn(m)
    PROVE  /\ RequestsCurrent' /\ TablesCurrent'
           /\ \A g : InFlight(g)' = InFlight(g)
<1> DEFINE row == [migrations[m] EXCEPT !.stuck = TRUE]
<1>1. /\ migrations[m].status = "running" /\ migrations[m] # NoRow
      /\ MigrationRowOK(migrations[m])
  BY DEF GetStuck, NoRow, PInv, IInv, TypeOK
<1>2. migrations' = [migrations EXCEPT ![m] = row]
  BY DEF GetStuck, PInv, IInv, TypeOK
<1>3. /\ row.status = "running"
      /\ row.group = migrations[m].group /\ row.from = migrations[m].from
      /\ row.to = migrations[m].to /\ row.hash = migrations[m].hash
  BY <1>1 DEF MigrationRowOK
<1> HIDE DEF row
<1>4. /\ UNCHANGED <<groups, commodities, auditRows, auditLogs, workers, day>>
      /\ UNCHANGED <<starters, editors, groupWriters, restorers>>
  BY DEF GetStuck, requests
<1>5. /\ RequestsCurrent'
      /\ RowsCurrent' /\ CompletedByNow' /\ WithinDailyCap'
      /\ PricesCurrent' /\ LockSignalInFlight'
      /\ \A g : InFlight(g)' = InFlight(g)
      /\ \A n \in Mids : n # m => migrations'[n] = migrations[n]
  <2>1. migrations[m].status \in InFlightStatus /\ row.status \in InFlightStatus
    BY <1>1, <1>3 DEF InFlightStatus
  <2> QED BY <1>2, <1>3, <1>4, <2>1, RowStaysInFlight
<1>6. ASSUME NEW v \in Workers
      PROVE  WorkerCurrent(workers[v])'
  <2> SUFFICES ASSUME workers[v].pc \in {"claimed", "tx2"}
               PROVE  WorkerCurrent(workers[v])'
    BY <1>4 DEF WorkerCurrent
  <2>1. workers[v].mig \in Mids /\ workers[v].mig # m
    BY ClaimedInFlight DEF WorkedOn
  <2>2. migrations'[workers[v].mig] = migrations[workers[v].mig]
    BY <1>5, <2>1
  <2> QED BY <1>4, <2>2 DEF PInv, TablesCurrent, WorkerCurrent, ItemsOf
<1> QED BY <1>5, <1>6 DEF TablesCurrent

-----------------------------------------------------------------------------
(* The sweep fails rows that no worker holds, while no request is under    *)
(* way, unless it finds none.                                              *)
LEMMA SweepIsCurrent ==
    ASSUME PInv, MidRequest # {} => Ended' = Ended, NEW w \in Workers, Sweep(w)
    PROVE  /\ RequestsCurrent' /\ TablesCurrent'
           /\ \A g : InFlight(g)' = InFlight(g) \ StuckRunning
           /\ StuckRunning \subseteq Mids
           /\ \A g \in Groups : groups'[g].cur = groups[g].cur
<1> DEFINE failed(m) == [migrations[m] EXCEPT !.status = "failed", !.completedOn = day]
           s == [workers[w] EXCEPT !.pc = "swept", !.swept = StuckRunning]
<1>1. /\ WorkerOK(workers[w]) /\ WorkerCurrent(workers[w]) /\ workers[w].pc = "idle"
      /\ workers = [v \in Workers |-> workers[v]]
      /\ groups \in [Groups -> GroupRow]
      /\ migrations = [m \in Mids |-> migrations[m]]
  BY DEF PInv, IInv, TypeOK, TablesCurrent, Sweep
<1>2. PICK S : S = StuckRunning
  OBVIOUS
<1>3. /\ S \subseteq Mids
      /\ \A m \in S : migrations[m].status = "running" /\ migrations[m].stuck
  BY <1>2 DEF StuckRunning
<1>4. /\ \A m \in S : /\ migrations'[m].status = "failed"
                      /\ migrations'[m].group = migrations[m].group
                      /\ migrations'[m].completedOn = day
      /\ \A m \in Mids : m \notin S => migrations'[m] = migrations[m]
  <2>1. \A m \in Mids : migrations'[m] = IF m \in S THEN failed(m) ELSE migrations[m]
    BY <1>2 DEF Sweep
  <2>2. \A m \in S : MigrationRowOK(migrations[m]) /\ migrations[m] # NoRow
    <3>1. \A m \in S : MigrationRowOK(migrations[m])
      BY <1>3 DEF PInv, IInv, TypeOK
    <3>2. NoRow.status # "running"
      BY DEF NoRow
    <3> QED BY <1>3, <3>1, <3>2
  <2>3. \A m \in S : /\ failed(m).status = "failed"
                     /\ failed(m).group = migrations[m].group
                     /\ failed(m).completedOn = day
    BY <2>2 DEF MigrationRowOK
  <2> HIDE DEF failed
  <2> QED BY <1>3, <2>1, <2>3
<1>5. /\ \A g \in Groups : groups'[g].cur = groups[g].cur
      /\ \A g \in Groups : groups'[g].mig = IF groups[g].mig \in S THEN 0 ELSE groups[g].mig
  <2>1. \A g \in Groups : groups'[g] = IF groups[g].mig \in S THEN [groups[g] EXCEPT !.mig = 0]
                                       ELSE groups[g]
    BY <1>2 DEF Sweep
  <2> QED BY <1>1, <2>1 DEF GroupRow
<1>6. /\ workers' = [workers EXCEPT ![w] = s]
      /\ UNCHANGED <<commodities, auditRows, auditLogs, day>>
      /\ UNCHANGED <<starters, editors, groupWriters, restorers>>
  BY <1>1 DEF Sweep, requests
<1>7. s.pc = "swept"
  BY <1>1, <1>2 DEF WorkerOK
<1> HIDE DEF s
<1>8. /\ \A g : InFlight(g)' = InFlight(g) \ S
      /\ \A g : CompletedToday(g, day)' = CompletedToday(g, day)
      /\ \A g : StateHash(g)' = StateHash(g)
  <2>1. \A g : InFlight(g)' = InFlight(g) \ S
    BY <1>4 DEF InFlight, InFlightStatus
  <2>2. \A g : CompletedToday(g, day)' = CompletedToday(g, day)
    BY <1>3, <1>4, <1>6 DEF CompletedToday
  <2> QED BY <1>6, <2>1, <2>2, HashOfItems
<1>9. RequestsCurrent'
  <2>1. CASE MidRequest = {}
    BY <1>5, <1>6, <1>8, <2>1, RequestsRest
  <2>2. CASE MidRequest # {}
    <3>1. S = {}
      <4>1. \A m \in S : migrations[m].status \notin TerminalStatus /\ migrations'[m].status \in TerminalStatus
        BY <1>3, <1>4 DEF TerminalStatus
      <4>2. Ended'[1] = Ended[1]
        BY <2>2
      <4> QED BY <1>3, <4>1, <4>2 DEF Ended
    <3>2. groups' = groups
      BY <1>1, <1>2, <3>1 DEF Sweep
    <3>3. \A g : SameView(g)
      BY <1>6, <1>8, <3>1, <3>2 DEF SameView
    <3> QED BY <1>6, <3>3, RequestsStay DEF PInv
  <2> QED BY <2>1, <2>2
<1>10. ASSUME NEW v \in Workers
       PROVE  WorkerCurrent(workers[v])'
  <2>1. CASE v = w
    BY <1>1, <1>6, <1>7, <2>1 DEF WorkerCurrent
  <2>2. CASE v # w
    <3>1. workers'[v] = workers[v]
      BY <1>1, <1>6, <2>2
    <3> SUFFICES ASSUME workers[v].pc \in {"claimed", "tx2"}
                 PROVE  WorkerCurrent(workers[v])'
      BY <3>1 DEF WorkerCurrent
    <3>2. migrations'[workers[v].mig] = migrations[workers[v].mig]
      BY <1>3, <1>4, ClaimedInFlight
    <3> QED BY <1>6, <3>1, <3>2 DEF PInv, TablesCurrent, WorkerCurrent, ItemsOf
  <2> QED BY <2>1, <2>2
<1>11. RowsCurrent'
  <2> SUFFICES ASSUME NEW g \in Groups, NEW n \in InFlight(g)'
               PROVE  (/\ migrations[n].from = groups[g].cur
                       /\ migrations[n].to # groups[g].cur
                       /\ migrations[n].hash = StateHash(g)
                       /\ Cardinality(CompletedToday(g, day)) < DailyCap)'
    BY DEF RowsCurrent
  <2>1. n \in InFlight(g) /\ n \in Mids /\ n \notin S
    BY <1>8 DEF InFlight
  <2>2. migrations'[n] = migrations[n]
    BY <1>4, <2>1
  <2> QED BY <1>5, <1>8, <2>1, <2>2 DEF PInv, TablesCurrent, RowsCurrent
<1>12. WithinDailyCap'
  BY <1>8 DEF PInv, TablesCurrent, WithinDailyCap
<1>13. CompletedByNow'
  BY <1>4, <1>6 DEF PInv, TablesCurrent, CompletedByNow
<1>14. PricesCurrent'
  <2>1. \A c \in Commodities : RowCurrent(commodities[c], groups'[GroupOf[c]].cur)
    BY <1>5 DEF PInv, TablesCurrent, PricesCurrent
  <2> QED BY <1>6, <2>1 DEF PricesCurrent, RowCurrent, ValuedIn
<1>15. LockSignalInFlight'
  BY <1>5, <1>8 DEF PInv, TablesCurrent, LockSignalInFlight
<1> QED BY <1>2, <1>3, <1>5, <1>8, <1>9, <1>10, <1>11, <1>12, <1>13, <1>14, <1>15
        DEF TablesCurrent

-----------------------------------------------------------------------------
(* The commit of TX2 finds the group as it was when the row was inserted,  *)
(* and its commodities as the worker listed them.                          *)
LEMMA Tx2CommitConverts ==
    ASSUME PInv, NEW w \in Workers, Tx2Commit(w), NEW m, m = workers[w].mig,
           NEW g, g = migrations[m].group, NEW to, to = migrations[m].to
    PROVE  /\ m \in Mids /\ g \in Groups /\ to \in Currencies /\ to # groups[g].cur
           /\ migrations[m].status = "running" /\ migrations[m].hash = StateHash(g)
           /\ InFlight(g) = {m} /\ Cardinality(CompletedToday(g, day)) < DailyCap
           /\ migrations'[m].status = "completed" /\ migrations'[m].group = g
           /\ migrations'[m].completedOn = day
           /\ \A n \in Mids : n # m => migrations'[n] = migrations[n]
           /\ groups' = [groups EXCEPT ![g] = [cur |-> to, mig |-> 0]]
           /\ \A c \in Commodities : GroupOf[c] = g =>
                 /\ RowCurrent(commodities'[c], to)
                 /\ commodities'[c].price = IF commodities[c].foreign THEN Garbled ELSE to
                 /\ commodities'[c].worth = commodities[c].worth
                 /\ commodities'[c].foreign = commodities[c].foreign
           /\ \A c \in Commodities : GroupOf[c] # g => commodities'[c] = commodities[c]
<1> DEFINE op == migrations[m]
<1>1. /\ workers[w].pc = "tx2" /\ WorkerOK(workers[w]) /\ WorkerCurrent(workers[w])
      /\ commodities \in [Commodities -> Commodity]
      /\ PricesCurrent /\ RowsCurrent /\ OneInFlight
      /\ groups \in [Groups -> GroupRow]
  BY DEF Tx2Commit, PInv, IInv, TypeOK, TablesCurrent
<1>2. m \in Mids /\ op.status = "running" /\ g \in Groups /\ m \in InFlight(g)
  BY <1>1, ClaimedInFlight
<1>3. MigrationRowOK(op) /\ op # NoRow
  <2>1. MigrationRowOK(op) /\ NoRow.status # "running"
    BY <1>2 DEF PInv, IInv, TypeOK, NoRow
  <2> QED BY <1>2, <2>1
<1>4. op.from \in Currencies /\ to \in Currencies
  BY <1>3 DEF MigrationRowOK
<1>5. /\ op.from = groups[g].cur /\ to # groups[g].cur /\ op.hash = StateHash(g)
      /\ Cardinality(CompletedToday(g, day)) < DailyCap
  BY <1>1, <1>2 DEF RowsCurrent
<1>6. InFlight(g) = {m}
  BY <1>1, <1>2 DEF InFlight, OneInFlight
<1>7. /\ migrations'[m].status = "completed" /\ migrations'[m].group = g
      /\ migrations'[m].completedOn = day
  <2> DEFINE row == [op EXCEPT !.status = "completed", !.completedOn = day]
  <2>1. migrations'[m] = row
    BY <1>2 DEF Tx2Commit, PInv, IInv, TypeOK
  <2>2. row.status = "completed" /\ row.group = op.group /\ row.completedOn = day
    BY <1>3 DEF MigrationRowOK
  <2> QED BY <2>1, <2>2
<1>8. \A n \in Mids : n # m => migrations'[n] = migrations[n]
  BY <1>2 DEF Tx2Commit, PInv, IInv, TypeOK
<1>9. groups' = [groups EXCEPT ![g] = [cur |-> to, mig |-> 0]]
  BY DEF Tx2Commit
<1>10. ASSUME NEW c \in Commodities, GroupOf[c] = g
       PROVE  /\ RowCurrent(commodities'[c], to)
              /\ commodities'[c].price = IF commodities[c].foreign THEN Garbled ELSE to
              /\ commodities'[c].worth = commodities[c].worth
              /\ commodities'[c].foreign = commodities[c].foreign
  <2>1. workers[w].snap[c] = commodities[c]
    BY <1>1, <1>10 DEF WorkerCurrent, ItemsOf
  <2>2. PICK k : k = commodities[c]
    OBVIOUS
  <2>3. k \in Commodity /\ RowCurrent(k, op.from)
    BY <1>1, <1>5, <1>10, <2>2 DEF PricesCurrent
  <2>4. PICK a : a = ApplyConversion(k, op.from, to)
    OBVIOUS
  <2>5. /\ a \in Commodity /\ a.worth = k.worth /\ a.foreign = k.foreign
        /\ a.price = Rescale(k.price, op.from, to)
    BY <1>4, <2>3, <2>4, ApplyConversionType, ConversionRescales
  <2>6. ~k.foreign => ValuedIn(a, to)
    BY <1>4, <1>5, <2>3, <2>4, ConversionKeepsValuation DEF RowCurrent
  <2>7. k.foreign => a.price = Garbled /\ Garbled # to
    BY <1>4, <2>3, <2>5 DEF RowCurrent, Rescale, Commodity, Units
  <2>8. commodities'[c] =
          [a EXCEPT !.acq = IF FillAcquisition(k, op.from) /\ k.acq = Null
                            THEN k.orig ELSE k.acq]
    <3>1. commodities'[c] = Converted(c, workers[w].snap[c], op.from, to)
      BY <1>10 DEF Tx2Commit, ItemsOf
    <3> QED BY <2>1, <2>2, <2>4, <3>1 DEF Converted
  <2>9. /\ commodities'[c].orig = a.orig /\ commodities'[c].conv = a.conv
        /\ commodities'[c].price = a.price /\ commodities'[c].worth = a.worth
        /\ commodities'[c].foreign = a.foreign
    BY <2>5, <2>8 DEF Commodity
  <2>10. k.foreign \in BOOLEAN
    BY <2>3 DEF Commodity
  <2> QED BY <2>2, <2>5, <2>6, <2>7, <2>9, <2>10 DEF RowCurrent, ValuedIn
<1>11. \A c \in Commodities : GroupOf[c] # g => commodities'[c] = commodities[c]
  BY DEF Tx2Commit, ItemsOf
<1> QED BY <1>2, <1>4, <1>5, <1>6, <1>7, <1>8, <1>9, <1>10, <1>11

(* One more migration was completed today, within the cap.                 *)
LEMMA OneMoreCompleted ==
    ASSUME NEW g, NEW m \in Mids, Cardinality(CompletedToday(g, day)) < DailyCap,
           CompletedToday(g, day)' \subseteq CompletedToday(g, day) \union {m}
    PROVE  Cardinality(CompletedToday(g, day)') <= DailyCap
<1>1. PICK S : S = CompletedToday(g, day)
  OBVIOUS
<1>2. PICK T : T = CompletedToday(g, day)'
  OBVIOUS
<1>3. IsFiniteSet(Mids)
  BY FS_Interval DEF Mids
<1>4. IsFiniteSet(S)
  BY <1>1, <1>3, FS_Subset DEF CompletedToday
<1>5. /\ Cardinality(S) \in Nat /\ IsFiniteSet(S \union {m})
      /\ Cardinality(S \union {m}) <= Cardinality(S) + 1
      /\ Cardinality(S \union {m}) \in Nat
  <2>1. Cardinality(S) \in Nat
    BY <1>4, FS_CardinalityType
  <2>2. /\ IsFiniteSet(S \union {m})
        /\ Cardinality(S \union {m}) = IF m \in S THEN Cardinality(S) ELSE Cardinality(S) + 1
    BY <1>4, FS_AddElement
  <2> QED BY <2>1, <2>2
<1>6. IsFiniteSet(T) /\ Cardinality(T) <= Cardinality(S \union {m})
  BY <1>1, <1>2, <1>5, FS_Subset
<1>7. Cardinality(T) \in Nat
  BY <1>6, FS_CardinalityType
<1> QED BY <1>1, <1>2, <1>5, <1>6, <1>7

(* ... after which no worker, row or request holds anything of the group   *)
(* that is out of date.                                                    *)
LEMMA Tx2CommitIsCurrent ==
    ASSUME PInv, MidRequest # {} => Ended' = Ended, NEW w \in Workers, Tx2Commit(w)
    PROVE  RequestsCurrent' /\ TablesCurrent'
<1>1. PICK m : m = workers[w].mig
  OBVIOUS
<1>2. PICK g : g = migrations[m].group
  OBVIOUS
<1>3. PICK to : to = migrations[m].to
  OBVIOUS
<1>4. /\ m \in Mids /\ g \in Groups /\ to \in Currencies /\ to # groups[g].cur
      /\ migrations[m].status = "running"
      /\ InFlight(g) = {m} /\ Cardinality(CompletedToday(g, day)) < DailyCap
      /\ migrations'[m].status = "completed" /\ migrations'[m].group = g
      /\ migrations'[m].completedOn = day
      /\ \A n \in Mids : n # m => migrations'[n] = migrations[n]
      /\ groups' = [groups EXCEPT ![g] = [cur |-> to, mig |-> 0]]
      /\ \A c \in Commodities : GroupOf[c] = g => RowCurrent(commodities'[c], to)
      /\ \A c \in Commodities : GroupOf[c] # g => commodities'[c] = commodities[c]
  BY <1>1, <1>2, <1>3, Tx2CommitConverts, SMTT(60)
<1>5. /\ workers' = [workers EXCEPT ![w] = IdleWorker] /\ UNCHANGED day
      /\ UNCHANGED <<starters, editors, groupWriters, restorers>>
      /\ workers[w].pc = "tx2"
      /\ workers = [v \in Workers |-> workers[v]]
      /\ groups \in [Groups -> GroupRow] /\ day \in 0 .. MaxDay
      /\ OneWorkerPerMigration
  BY DEF Tx2Commit, requests, PInv, IInv, TypeOK
<1>6. /\ groups'[g].cur = to /\ groups'[g].mig = 0
      /\ \A h \in Groups : h # g => groups'[h] = groups[h]
  BY <1>4, <1>5
<1>7. /\ InFlight(g)' = {}
      /\ \A h : h # g => InFlight(h)' = InFlight(h)
  <2>1. \A n \in Mids : n \in InFlight(g) => n = m
    BY <1>4
  <2> QED BY <1>2, <1>4, <2>1 DEF InFlight, InFlightStatus
<1>8. /\ CompletedToday(g, day)' \subseteq CompletedToday(g, day) \union {m}
      /\ \A h : h # g => CompletedToday(h, day)' = CompletedToday(h, day)
  BY <1>2, <1>4, <1>5 DEF CompletedToday
<1>9. \A h : h # g => StateHash(h)' = StateHash(h)
  BY <1>4, HashOfItems DEF ItemsOf
<1>10. MidRequest = {}
  <2>1. m \notin Ended[1] /\ m \in Ended'[1]
    BY <1>4 DEF Ended, TerminalStatus
  <2> QED BY <2>1
<1>11. RequestsCurrent'
  <2>1. \A h \in Groups : InFlight(h) = {} => InFlight(h)' = {} /\ groups'[h].cur = groups[h].cur
    BY <1>4, <1>6, <1>7
  <2> QED BY <1>5, <1>10, <2>1, RequestsRest
<1>12. ASSUME NEW v \in Workers
       PROVE  WorkerCurrent(workers[v])'
  <2>1. CASE v = w
    BY <1>5, <2>1 DEF WorkerCurrent, IdleWorker
  <2>2. CASE v # w
    <3>1. workers'[v] = workers[v]
      BY <1>5, <2>2
    <3> SUFFICES ASSUME workers[v].pc \in {"claimed", "tx2"}
                 PROVE  WorkerCurrent(workers[v])'
      BY <3>1 DEF WorkerCurrent
    <3>2. PICK n : n = workers[v].mig
      OBVIOUS
    <3>3. n # m /\ n \in Mids /\ n \in InFlight(migrations[n].group)
      BY <1>1, <1>5, <2>2, <3>2, ClaimedInFlight DEF OneWorkerPerMigration
    <3>4. migrations'[n] = migrations[n] /\ migrations[n].group # g
      BY <1>4, <3>3
    <3>5. \A c \in ItemsOf(migrations[n].group) : commodities'[c] = commodities[c]
      BY <1>4, <3>4 DEF ItemsOf
    <3>6. WorkerCurrent(workers[v])
      BY DEF PInv, TablesCurrent
    <3> QED BY <3>1, <3>2, <3>4, <3>5, <3>6 DEF WorkerCurrent, ItemsOf
  <2> QED BY <2>1, <2>2
<1>13. RowsCurrent'
  <2> SUFFICES ASSUME NEW h \in Groups, NEW n \in InFlight(h)'
               PROVE  (/\ migrations[n].from = groups[h].cur
                       /\ migrations[n].to # groups[h].cur
                       /\ migrations[n].hash = StateHash(h)
                       /\ Cardinality(CompletedToday(h, day)) < DailyCap)'
    BY DEF RowsCurrent
  <2>1. h # g /\ n \in InFlight(h) /\ n \in Mids
    BY <1>7 DEF InFlight
  <2>2. n # m
    BY <1>2, <2>1 DEF InFlight
  <2>3. migrations'[n] = migrations[n] /\ groups'[h] = groups[h]
    BY <1>4, <1>6, <2>1, <2>2
  <2> QED BY <1>8, <1>9, <2>1, <2>3 DEF PInv, TablesCurrent, RowsCurrent
<1>14. WithinDailyCap'
  <2>1. Cardinality(CompletedToday(g, day)') <= DailyCap
    BY <1>4, <1>8, OneMoreCompleted
  <2>2. \A h \in Groups : h # g => Cardinality(CompletedToday(h, day)') <= DailyCap
    BY <1>8 DEF PInv, TablesCurrent, WithinDailyCap
  <2> QED BY <2>1, <2>2 DEF WithinDailyCap
<1>15. CompletedByNow'
  BY <1>4, <1>5 DEF PInv, TablesCurrent, CompletedByNow
<1>16. PricesCurrent'
  <2>1. \A c \in Commodities : RowCurrent(commodities'[c], groups'[GroupOf[c]].cur)
    BY <1>4, <1>6 DEF PInv, TablesCurrent, PricesCurrent
  <2> QED BY <2>1 DEF PricesCurrent, RowCurrent, ValuedIn
<1>17. LockSignalInFlight'
  BY <1>6, <1>7 DEF PInv, TablesCurrent, LockSignalInFlight
<1> QED BY <1>11, <1>12, <1>13, <1>14, <1>15, <1>16, <1>17 DEF TablesCurrent

(* A day begins while no request is under way: nothing is completed on it. *)
LEMMA NewDayIsCurrent ==
    ASSUME PInv, MidRequest # {} => day' = day, NewDay
    PROVE  RequestsCurrent' /\ TablesCurrent'
<1>1. /\ UNCHANGED <<migrations, groups, commodities, auditRows, auditLogs, workers>>
      /\ UNCHANGED <<starters, editors, groupWriters, restorers>>
      /\ day \in Nat /\ day' = day + 1
  BY DEF NewDay, tables, requests, PInv, IInv, TypeOK
<1>2. MidRequest = {}
  BY <1>1
<1>3. /\ \A g : InFlight(g)' = InFlight(g)
      /\ \A g : StateHash(g)' = StateHash(g)
  BY <1>1, HashOfItems DEF InFlight
<1>4. RequestsCurrent'
  BY <1>1, <1>2, <1>3, RequestsRest
<1>5. \A g : CompletedToday(g, day)' = {}
  <2>1. \A m \in Mids : migrations[m].status = "completed" => migrations[m].completedOn \in Nat
    <3>1. \A m \in Mids : MigrationRowOK(migrations[m])
      BY DEF PInv, IInv, TypeOK
    <3> QED BY <3>1 DEF MigrationRowOK, NoRow
  <2>2. \A m \in Mids : migrations[m].status = "completed" => migrations[m].completedOn # day'
    BY <1>1, <2>1 DEF PInv, TablesCurrent, CompletedByNow
  <2> QED BY <1>1, <2>2 DEF CompletedToday
<1>6. ASSUME NEW g \in Groups
      PROVE  /\ Cardinality(CompletedToday(g, day)') <= DailyCap
             /\ InFlight(g) # {} => Cardinality(CompletedToday(g, day)') < DailyCap
  <2>1. Cardinality(CompletedToday(g, day)') = 0
    BY <1>5, FS_EmptySet
  <2>2. Cardinality(CompletedToday(g, day)) \in Nat
    <3>1. IsFiniteSet(Mids)
      BY FS_Interval DEF Mids
    <3>2. IsFiniteSet(CompletedToday(g, day))
      BY <3>1, FS_Subset DEF CompletedToday
    <3> QED BY <3>2, FS_CardinalityType
  <2> QED BY <2>1, <2>2 DEF PInv, TablesCurrent, RowsCurrent
<1>7. ASSUME NEW v \in Workers
      PROVE  WorkerCurrent(workers[v])'
  BY <1>1 DEF PInv, TablesCurrent, WorkerCurrent, ItemsOf
<1>8. RowsCurrent' /\ WithinDailyCap' /\ LockSignalInFlight'
  BY <1>1, <1>3, <1>6 DEF PInv, TablesCurrent, RowsCurrent, WithinDailyCap, LockSignalInFlight
<1>9. CompletedByNow'
  <2>1. \A m \in Mids : MigrationRowOK(migrations[m])
    BY DEF PInv, IInv, TypeOK
  <2>2. \A m \in Mids : migrations[m].status = "completed" => migrations[m].completedOn \in Nat
    BY <2>1 DEF MigrationRowOK, NoRow
  <2> QED BY <1>1, <2>2 DEF PInv, TablesCurrent, CompletedByNow
<1>10. PricesCurrent'
  BY <1>1 DEF PInv, TablesCurrent, PricesCurrent, RowCurrent, ValuedIn
<1> QED BY <1>4, <1>7, <1>8, <1>9, <1>10 DEF TablesCurrent

(* Pausing the worker type changes nothing that matters.                   *)
LEMMA TogglePauseKeeps ==
    ASSUME PInv, UNCHANGED <<tables, workers, day>>,
           UNCHANGED <<starters, editors, groupWriters, restorers>>
    PROVE  RequestsCurrent' /\ TablesCurrent'
<1>1. UNCHANGED <<tables, day>> /\ UNCHANGED commodities
  BY DEF tables
<1>2. \A g : SameView(g)
  BY <1>1, ViewsStay
<1>3. RequestsCurrent /\ TablesCurrent
  BY DEF PInv
<1>4. TablesCurrent'
  BY <1>3, TablesStay
<1> QED BY <1>1, <1>2, <1>3, <1>4, RequestsStay

-----------------------------------------------------------------------------
(* The invariant holds of empty tables, nobody having read anything.       *)
LEMMA PromptInit == Init => PInv
<1> SUFFICES ASSUME Init PROVE PInv
  OBVIOUS
<1>1. IInv
  BY InitEstablishes
<1>2. /\ \A m \in Mids : migrations[m].status = "unused"
      /\ \A w \in Workers : workers[w] = IdleWorker
      /\ \A r \in Starters : starters[r] = IdleStarter(Null)
      /\ \A e \in Editors : editors[e] = IdleEditor
      /\ \A x \in GroupWriters : groupWriters[x] = IdleGroupWriter
      /\ \A x \in Restorers : restorers[x] = IdleRestorer
      /\ \A m \in Mids : auditLogs[m].fail = 0
      /\ \A g \in Groups : groups[g].mig = 0
      /\ \A c \in Commodities : RowCurrent(commodities[c], groups[GroupOf[c]].cur)
  BY DEF Init, NoRow, RowCurrent
<1>3. AtMostOneMidRequest
  <2>1. MidRequest = {}
    BY <1>2 DEF MidRequest, IdleStarter, IdleEditor, IdleGroupWriter, IdleRestorer
  <2> QED BY <2>1 DEF AtMostOneMidRequest
<1>4. RequestsCurrent
  <2>1. StarterCurrent(IdleStarter(Null))
    BY IdleIsCurrent
  <2> QED BY <1>2, <2>1, IdleIsCurrent DEF RequestsCurrent
<1>5. /\ \A g : InFlight(g) = {}
      /\ \A g : CompletedToday(g, day) = {}
  BY <1>2 DEF InFlight, InFlightStatus, CompletedToday
<1>6. WithinDailyCap
  BY <1>5, FS_EmptySet DEF WithinDailyCap
<1>7. RowsCurrent /\ LockSignalInFlight
  BY <1>2, <1>5 DEF RowsCurrent, LockSignalInFlight
<1>8. CompletedByNow
  BY <1>2 DEF CompletedByNow, IdleWorker
<1>9. PricesCurrent
  BY <1>2 DEF PricesCurrent
<1>10. \A w \in Workers : WorkerCurrent(workers[w])
  BY <1>2, IdleIsCurrent
<1> QED BY <1>1, <1>3, <1>4, <1>6, <1>7, <1>8, <1>9, <1>10 DEF PInv, TablesCurrent

(* The invariant is inductive under the timing assumption.                 *)
LEMMA PromptKeeps ==
    ASSUME PInv, [PromptNext]_vars
    PROVE  PInv'
<1>1. IInv'
  BY NextKeeps DEF PInv, PromptNext
<1>2. AtMostOneMidRequest'
  <2>1. CASE PromptNext
    BY <2>1 DEF PromptNext, Prompt
  <2>2. CASE UNCHANGED vars
    BY <2>2 DEF vars, requests, PInv, AtMostOneMidRequest, MidRequest
  <2> QED BY <2>1, <2>2
<1>3. RequestsCurrent' /\ TablesCurrent'
  <2>1. ASSUME UNCHANGED <<tables, requests, workers, day>>
        PROVE  RequestsCurrent' /\ TablesCurrent'
    BY <2>1, TogglePauseKeeps DEF requests
  <2>2. CASE UNCHANGED vars
    BY <2>1, <2>2 DEF vars
  <2>3. CASE PromptNext
    <3>1. /\ MidRequest # {} => Ended' = Ended
          /\ MidRequest # {} => day' = day
          /\ \A x \in Restorers : restorers[x].seen => ~RestoreRun(x)
          /\ \A m \in Mids : GetStuck(m) => ~WorkedOn(m)
      BY <2>3 DEF PromptNext, Prompt
    <3>2. ASSUME NEW r \in Starters, StarterNext(r)
          PROVE  RequestsCurrent' /\ TablesCurrent'
      BY <3>2, StarterChecksKeep, StartCreateIsCurrent, StartWriteGroupKeeps
    <3>3. ASSUME NEW e \in Editors, EditorNext(e)
          PROVE  RequestsCurrent' /\ TablesCurrent'
      BY <3>3, EditorChecksKeep, EditWriteKeeps DEF EditorNext
    <3>4. ASSUME NEW x \in GroupWriters, GroupWriterNext(x)
          PROVE  RequestsCurrent' /\ TablesCurrent'
      BY <3>4, GroupUpdateReadKeeps, GroupUpdateWriteKeeps DEF GroupWriterNext
    <3>5. ASSUME NEW x \in Restorers, RestorerNext(x)
          PROVE  RequestsCurrent' /\ TablesCurrent'
      BY <3>1, <3>5, RestorerChecksKeep, RestoreWriteKeeps DEF RestorerNext
    <3>6. ASSUME NEW w \in Workers, WorkerNext(w)
          PROVE  RequestsCurrent' /\ TablesCurrent'
      BY <3>1, <3>6, WorkerMovesOn, SweepIsCurrent, SweepAuditKeeps, ClaimIsCurrent,
         Tx2CommitIsCurrent DEF WorkerNext, WorkerStep
    <3>7. ASSUME NEW m \in Mids, GetStuck(m)
          PROVE  RequestsCurrent' /\ TablesCurrent'
      BY <3>1, <3>7, GetStuckIsCurrent
    <3>8. CASE NewDay
      BY <3>1, <3>8, NewDayIsCurrent
    <3>9. CASE TogglePause
      BY <2>1, <3>9 DEF TogglePause
    <3> QED BY <2>3, <3>2, <3>3, <3>4, <3>5, <3>6, <3>7, <3>8, <3>9 DEF PromptNext, Next
  <2> QED BY <2>2, <2>3
<1> QED BY <1>1, <1>2, <1>3 DEF PInv

-----------------------------------------------------------------------------
(* While requests are prompt, what a request or a worker has read is still *)
(* so when it acts on it.                                                  *)
THEOREM PromptInvariance == PromptSpec => []PInv
<1>1. Init => PInv
  BY PromptInit
<1>2. PInv /\ [PromptNext]_vars => PInv'
  BY PromptKeeps
<1> QED BY <1>1, <1>2, PTL DEF PromptSpec

(* Then every price of a group is an amount of the group's currency,       *)
(* unless a restore brought it from an archive of another: no commodity is *)
(* missed by ConvertGroup, converted twice, or written back by an edit in  *)
(* the currency the group has left.                                        *)
THEOREM PricesFollowTheGroup == PromptSpec => []PricesInGroupCurrency
<1>1. PInv => PricesInGroupCurrency
  BY DEF PInv, TablesCurrent, PricesCurrent, RowCurrent, PricesInGroupCurrency
<1> QED BY <1>1, PromptInvariance, PTL

-----------------------------------------------------------------------------
(* The steps that write what the readers of a group see.                   *)
LEMMA TableSteps ==
    ASSUME PInv, [PromptNext]_vars
    PROVE  \/ /\ UNCHANGED <<migrations, commodities>>
              /\ \A g \in Groups : groups'[g].cur = groups[g].cur
           \/ \E r \in Starters : StartCreate(r)
           \/ \E e \in Editors, orig \in Currencies, worth \in Amounts : EditWrite(e, orig, worth)
           \/ \E x \in Restorers, orig, unit \in Currencies, worth \in Amounts :
                 RestoreWrite(x, orig, worth, unit)
           \/ \E w \in Workers : Sweep(w) \/ Claim(w) \/ Tx2Commit(w)
           \/ \E m \in Mids : GetStuck(m) /\ ~WorkedOn(m)
<1> DEFINE Same == /\ UNCHANGED <<migrations, commodities>>
                   /\ \A g \in Groups : groups'[g].cur = groups[g].cur
<1>1. CASE UNCHANGED vars \/ NewDay \/ TogglePause
  BY <1>1 DEF vars, tables, NewDay, TogglePause
<1>2. ASSUME NEW r \in Starters, StarterNext(r)
      PROVE  StartCreate(r) \/ Same
  <2>1. CASE StartWriteGroup(r)
    BY <2>1, StartWriteGroupKeeps DEF StartWriteGroup
  <2>2. StartCreate(r) \/ StartWriteGroup(r) \/ UNCHANGED tables
    BY <1>2 DEF StarterNext, PreviewResolve, PreviewIssue, StartResolve, StartVerify,
       StartCheckInFlight, StartCheckRestore, StartCheckCap, StartReadGroup, StartAbort
  <2> QED BY <2>1, <2>2 DEF tables
<1>3. ASSUME NEW e \in Editors, EditorNext(e)
      PROVE  (\E orig \in Currencies, worth \in Amounts : EditWrite(e, orig, worth)) \/ Same
  BY <1>3 DEF EditorNext, EditResolve, EditCheckLock, EditPrefetch, tables
<1>4. ASSUME NEW x \in GroupWriters, GroupWriterNext(x)
      PROVE  Same
  <2>1. UNCHANGED tables
    BY <1>4, GroupUpdateWriteKeeps DEF GroupWriterNext, GroupUpdateRead
  <2> QED BY <2>1 DEF tables
<1>5. ASSUME NEW x \in Restorers, RestorerNext(x)
      PROVE  \/ \E orig, unit \in Currencies, worth \in Amounts : RestoreWrite(x, orig, worth, unit)
             \/ Same
  BY <1>5 DEF RestorerNext, RestoreCheckRunning, RestoreCheckLock, RestoreCreate, RestoreRead,
     RestoreRun, RestorePrefetch, RestoreFinish, RestoreDeleteLook, RestoreDelete, tables
<1>6. ASSUME NEW w \in Workers, WorkerNext(w)
      PROVE  Sweep(w) \/ Claim(w) \/ Tx2Commit(w) \/ Same
  BY <1>6 DEF WorkerNext, WorkerStep, SweepAudit, ClaimNothing, Tx2Begin, Tx2Rollback,
     Crash, Restart, tables
<1>7. ASSUME NEW m \in Mids, GetStuck(m), PromptNext
      PROVE  ~WorkedOn(m)
  BY <1>7 DEF PromptNext, Prompt
<1> QED BY <1>1, <1>2, <1>3, <1>4, <1>5, <1>6, <1>7 DEF PromptNext, Next

(* The insert, for a group with nothing in flight.                         *)
LEMMA StartCreateInserts ==
    ASSUME PInv, NEW r \in Starters, StartCreate(r)
    PROVE  \E m \in Mids, g \in Groups :
              /\ migrations[m] = NoRow
              /\ migrations'[m].status = "pending" /\ migrations'[m].group = g
              /\ \A n \in Mids : n # m => migrations'[n] = migrations[n]
              /\ InFlight(g) = {} /\ InFlight(g)' = {m}
              /\ \A h : h # g => InFlight(h)' = InFlight(h)
              /\ UNCHANGED <<groups, commodities>>
<1>1. PICK t : t = starters[r].token
  OBVIOUS
<1>2. PICK m \in Mids : migrations[m] = NoRow /\ InsertPending(r, m)
  BY DEF StartCreate
<1>3. /\ InFlight(t.group) = {}
      /\ migrations' = [migrations EXCEPT ![m] =
            [status |-> "pending", group |-> t.group, from |-> t.from, to |-> t.to,
             hash |-> t.hash, stuck |-> FALSE, completedOn |-> 0]]
  BY <1>1, <1>2 DEF InsertPending
<1>4. t.group \in Groups
  <2>1. StarterOK(starters[r])
    BY DEF PInv, IInv, TypeOK
  <2> QED BY <1>1, <2>1 DEF StarterOK, TokenOK, StartCreate
<1>5. /\ migrations'[m].status = "pending" /\ migrations'[m].group = t.group
      /\ \A n \in Mids : n # m => migrations'[n] = migrations[n]
  BY <1>3 DEF PInv, IInv, TypeOK
<1>6. InFlight(t.group)' = {m} /\ \A h : h # t.group => InFlight(h)' = InFlight(h)
  <2>1. m \notin InFlight(t.group) /\ \A h : m \notin InFlight(h)
    BY <1>2 DEF InFlight, InFlightStatus, NoRow
  <2> QED BY <1>3, <1>5, <2>1 DEF InFlight, InFlightStatus
<1> QED BY <1>2, <1>3, <1>4, <1>5, <1>6 DEF StartCreate

(* What a step does to a migration: it completes it only in the state its  *)
(* group was previewed in.                                                 *)
LEMMA RowSteps ==
    ASSUME PInv, [PromptNext]_vars, NEW m \in Mids
    PROVE  migrations[m].status # "completed" /\ migrations'[m].status = "completed"
              => migrations[m].hash = StateHash(migrations[m].group)
<1> DEFINE Right == migrations[m].status # "completed" /\ migrations'[m].status = "completed"
                       => migrations[m].hash = StateHash(migrations[m].group)
<1>0. migrations = [n \in Mids |-> migrations[n]] /\ \A n \in Mids : MigrationRowOK(migrations[n])
  BY DEF PInv, IInv, TypeOK
<1>1. CASE UNCHANGED migrations
  BY <1>1
<1>2. ASSUME NEW r \in Starters, StartCreate(r)
      PROVE  Right
  BY <1>2, StartCreateInserts DEF NoRow
<1>3. ASSUME NEW w \in Workers, Sweep(w)
      PROVE  Right
  <2>1. PICK S : S = StuckRunning
    OBVIOUS
  <2>2. /\ m \in S => /\ migrations[m].status = "running"
                      /\ migrations'[m] = [migrations[m] EXCEPT !.status = "failed", !.completedOn = day]
        /\ m \notin S => migrations'[m] = migrations[m]
    BY <1>3, <2>1 DEF Sweep, StuckRunning
  <2>3. m \in S => migrations[m] # NoRow
    <3>1. NoRow.status # "running"
      BY DEF NoRow
    <3> QED BY <2>2, <3>1
  <2>4. m \in S => migrations'[m].status = "failed"
    BY <1>0, <2>2, <2>3 DEF MigrationRowOK
  <2> QED BY <2>2, <2>4
<1>4. ASSUME NEW w \in Workers, Claim(w)
      PROVE  Right
  <2>1. PICK n \in Pending :
           migrations' = [migrations EXCEPT ![n].status = "running", ![n].stuck = FALSE]
    BY <1>4 DEF Claim
  <2>2. CASE n = m
    <3>1. NoRow.status # "pending" /\ migrations[m].status = "pending"
      BY <2>1, <2>2 DEF NoRow, Pending
    <3>2. MigrationRowOK(migrations[m]) /\ migrations[m] # NoRow
      BY <1>0, <3>1
    <3>3. migrations'[m] = [migrations[m] EXCEPT !.status = "running", !.stuck = FALSE]
      BY <1>0, <2>1, <2>2
    <3>4. migrations'[m].status = "running"
      BY <3>2, <3>3 DEF MigrationRowOK
    <3> QED BY <3>1, <3>4
  <2>3. CASE n # m
    BY <1>0, <2>1, <2>3
  <2> QED BY <2>2, <2>3
<1>5. ASSUME NEW w \in Workers, Tx2Commit(w)
      PROVE  Right
  <2>1. PICK n : n = workers[w].mig
    OBVIOUS
  <2>2. /\ migrations[n].status = "running"
        /\ migrations[n].hash = StateHash(migrations[n].group)
        /\ \A k \in Mids : k # n => migrations'[k] = migrations[k]
    BY <1>5, <2>1, Tx2CommitConverts
  <2> QED BY <2>2
<1>6. ASSUME NEW n \in Mids, GetStuck(n)
      PROVE  Right
  <2>1. CASE n = m
    <3>1. NoRow.status # "running" /\ migrations[m].status = "running"
      BY <1>6, <2>1 DEF NoRow, GetStuck
    <3>2. MigrationRowOK(migrations[m]) /\ migrations[m] # NoRow
      BY <1>0, <3>1
    <3>3. migrations'[m] = [migrations[m] EXCEPT !.stuck = TRUE]
      BY <1>0, <1>6, <2>1 DEF GetStuck
    <3>4. migrations'[m].status = "running"
      BY <3>1, <3>2, <3>3 DEF MigrationRowOK
    <3> QED BY <3>1, <3>4
  <2>2. CASE n # m
    BY <1>0, <1>6, <2>2 DEF GetStuck
  <2> QED BY <2>1, <2>2
<1>7. ASSUME NEW e \in Editors, NEW orig, NEW worth, EditWrite(e, orig, worth)
      PROVE  UNCHANGED migrations
  BY <1>7 DEF EditWrite
<1>8. ASSUME NEW x \in Restorers, NEW orig, NEW worth, NEW unit, RestoreWrite(x, orig, worth, unit)
      PROVE  UNCHANGED migrations
  BY <1>8 DEF RestoreWrite
<1>9. \/ UNCHANGED migrations
      \/ \E r \in Starters : StartCreate(r)
      \/ \E w \in Workers : Sweep(w) \/ Claim(w) \/ Tx2Commit(w)
      \/ \E n \in Mids : GetStuck(n)
  BY <1>7, <1>8, TableSteps
<1>10. Right
  BY <1>1, <1>2, <1>3, <1>4, <1>5, <1>6, <1>9
<1> QED BY <1>10

(* While requests are prompt, what TX2 converts is what the preview token  *)
(* was issued for: nothing the state hash covers changes from the preview  *)
(* to the commit.                                                          *)
THEOREM ConvertsThePreview == PromptSpec => ConvertsWhatWasPreviewed
<1> DEFINE Previewed ==
      \A m \in Mids : migrations[m].status # "completed" /\ migrations'[m].status = "completed"
                         => migrations[m].hash = StateHash(migrations[m].group)
<1>1. PInv /\ [PromptNext]_vars => [Previewed]_vars
  BY RowSteps
<1>2. PromptSpec => [][Previewed]_vars
  BY <1>1, PromptInvariance, PTL DEF PromptSpec
<1> QED BY <1>2 DEF ConvertsWhatWasPreviewed

-----------------------------------------------------------------------------
(* The refinement: initially nothing is in flight and every price is in    *)
(* the currency of its group.                                              *)
LEMMA InitRefines == Init => Abstract!Init
<1> SUFFICES ASSUME Init PROVE Abstract!Init
  OBVIOUS
<1>1. /\ groups \in [Groups -> GroupRow] /\ commodities \in [Commodities -> Commodity]
      /\ \A c \in Commodities : commodities[c].price = groups[GroupOf[c]].cur
      /\ \A c \in Commodities : commodities[c].foreign = FALSE
  BY InitEstablishes DEF IInv, TypeOK, Commodity, Init, ValuedIn
<1>2. \A g \in Groups : InFlight(g) = {}
  BY DEF Init, InFlight, InFlightStatus, NoRow
<1>3. [g \in Groups |-> groups[g].cur] \in [Groups -> Currencies]
  BY <1>1 DEF GroupRow
<1>4. [g \in Groups |-> InFlight(g) # {}] = [g \in Groups |-> FALSE]
  BY <1>2
<1>5. [c \in Commodities |-> commodities[c].price] =
        [c \in Commodities |-> [g \in Groups |-> groups[g].cur][GroupOf[c]]]
  BY <1>1
<1>6. [c \in Commodities |-> commodities[c].worth] \in [Commodities -> Amounts]
  BY <1>1 DEF Commodity
<1>7. [c \in Commodities |-> commodities[c].foreign] = [c \in Commodities |-> FALSE]
  BY <1>1
<1> QED BY <1>3, <1>4, <1>5, <1>6, <1>7 DEF Abstract!Init

(* A step that its readers cannot tell from no step at all.                *)
LEMMA Stutters ==
    ASSUME \A g \in Groups : groups'[g].cur = groups[g].cur /\ InFlight(g)' = InFlight(g),
           UNCHANGED commodities
    PROVE  UNCHANGED Abstract!vars
BY DEF Abstract!vars

(* The insert locks the group.                                             *)
LEMMA StartCreateLocks ==
    ASSUME PInv, NEW r \in Starters, StartCreate(r)
    PROVE  \E g \in Groups : Abstract!Lock(g)
<1>1. PICK m \in Mids, g \in Groups :
              /\ InFlight(g) = {} /\ InFlight(g)' = {m}
              /\ \A h : h # g => InFlight(h)' = InFlight(h)
              /\ UNCHANGED <<groups, commodities>>
  BY StartCreateInserts
<1>2. [h \in Groups |-> InFlight(h) # {}]' =
        [[h \in Groups |-> InFlight(h) # {}] EXCEPT ![g] = TRUE]
  BY <1>1
<1>3. UNCHANGED << [h \in Groups |-> groups[h].cur], [c \in Commodities |-> commodities[c].price],
                   [c \in Commodities |-> commodities[c].worth],
                   [c \in Commodities |-> commodities[c].foreign] >>
  BY <1>1
<1>4. ~[h \in Groups |-> InFlight(h) # {}][g]
  BY <1>1
<1> QED BY <1>2, <1>3, <1>4 DEF Abstract!Lock

(* The commit of TX2 converts the group and its prices, and unlocks it.    *)
LEMMA Tx2CommitConvertsGroup ==
    ASSUME PInv, NEW w \in Workers, Tx2Commit(w)
    PROVE  \E g \in Groups, to \in Currencies : Abstract!Convert(g, to)
<1>1. PICK m : m = workers[w].mig
  OBVIOUS
<1>2. PICK g, to : g = migrations[m].group /\ to = migrations[m].to
  OBVIOUS
<1>3. /\ m \in Mids /\ g \in Groups /\ to \in Currencies /\ to # groups[g].cur
      /\ InFlight(g) = {m}
      /\ migrations'[m].status = "completed" /\ migrations[m].group = g
      /\ \A n \in Mids : n # m => migrations'[n] = migrations[n]
      /\ groups' = [groups EXCEPT ![g] = [cur |-> to, mig |-> 0]]
      /\ \A c \in Commodities : GroupOf[c] = g =>
            /\ commodities'[c].price = IF commodities[c].foreign THEN Garbled ELSE to
            /\ commodities'[c].worth = commodities[c].worth
            /\ commodities'[c].foreign = commodities[c].foreign
      /\ \A c \in Commodities : GroupOf[c] # g => commodities'[c] = commodities[c]
  BY <1>1, <1>2, Tx2CommitConverts
<1>4. \A h \in Groups : groups'[h].cur = IF h = g THEN to ELSE groups[h].cur
  BY <1>3 DEF PInv, IInv, TypeOK
<1>5. \A h \in Groups : InFlight(h)' = IF h = g THEN {} ELSE InFlight(h)
  <2>1. \A n \in Mids : n \in InFlight(g) => n = m
    BY <1>3
  <2>2. InFlight(g)' = {}
    BY <1>3, <2>1 DEF InFlight, InFlightStatus
  <2>3. \A h \in Groups : h # g => InFlight(h)' = InFlight(h)
    <3>1. migrations'[m].status \notin InFlightStatus
      BY <1>3 DEF InFlightStatus
    <3> QED BY <1>3, <3>1 DEF InFlight
  <2> QED BY <2>2, <2>3
<1>6. \A c \in Commodities :
         /\ commodities'[c].price = IF GroupOf[c] # g THEN commodities[c].price
                                    ELSE IF commodities[c].foreign THEN Garbled ELSE to
         /\ commodities'[c].worth = commodities[c].worth
         /\ commodities'[c].foreign = commodities[c].foreign
  BY <1>3
<1>7. [h \in Groups |-> groups[h].cur]' = [[h \in Groups |-> groups[h].cur] EXCEPT ![g] = to]
  BY <1>4
<1>8. [h \in Groups |-> InFlight(h) # {}]' =
        [[h \in Groups |-> InFlight(h) # {}] EXCEPT ![g] = FALSE]
  BY <1>5
<1>9. [c \in Commodities |-> commodities[c].price]' =
        [c \in Commodities |->
            IF GroupOf[c] # g THEN [d \in Commodities |-> commodities[d].price][c]
            ELSE IF [d \in Commodities |-> commodities[d].foreign][c] THEN Garbled ELSE to]
  BY <1>6
<1>10. UNCHANGED << [c \in Commodities |-> commodities[c].worth],
                    [c \in Commodities |-> commodities[c].foreign] >>
  BY <1>6
<1>11. /\ [h \in Groups |-> InFlight(h) # {}][g]
       /\ to # [h \in Groups |-> groups[h].cur][g]
  BY <1>3
<1>12. Abstract!Convert(g, to)
  BY <1>7, <1>8, <1>9, <1>10, <1>11 DEF Abstract!Convert
<1> QED BY <1>3, <1>12

(* A sweep unlocks the groups whose migrations are stuck, if any.          *)
LEMMA SweepGivesUp ==
    ASSUME PInv, MidRequest # {} => Ended' = Ended, NEW w \in Workers, Sweep(w)
    PROVE  \/ UNCHANGED Abstract!vars
           \/ \E S \in SUBSET Groups : Abstract!GiveUp(S)
<1>1. PICK stuck : stuck = StuckRunning
  OBVIOUS
<1>2. PICK S : S = {g \in Groups : InFlight(g) \intersect stuck # {}}
  OBVIOUS
<1>3. /\ \A g \in Groups : InFlight(g)' = InFlight(g) \ stuck
      /\ \A g \in Groups : groups'[g].cur = groups[g].cur
      /\ UNCHANGED commodities
  BY <1>1, SweepIsCurrent DEF Sweep
<1>4. CASE S = {}
  <2>1. \A g \in Groups : InFlight(g)' = InFlight(g)
    BY <1>2, <1>3, <1>4
  <2> QED BY <1>3, <2>1, Stutters
<1>5. CASE S # {}
  <2>1. \A g \in S : g \in Groups /\ InFlight(g) # {} /\ InFlight(g) \ stuck = {}
    <3>1. \A g \in S : InFlight(g) \subseteq stuck
      <4> SUFFICES ASSUME NEW g \in Groups, NEW m \in InFlight(g) \intersect stuck, NEW n \in InFlight(g)
                   PROVE  n = m
        BY <1>2
      <4> QED BY DEF InFlight, PInv, IInv, OneInFlight
    <3> QED BY <1>2, <3>1
  <2>2. \A g \in Groups : InFlight(g)' # {} <=> InFlight(g) # {} /\ g \notin S
    BY <1>2, <1>3, <2>1
  <2>3. [g \in Groups |-> InFlight(g) # {}]' =
          [g \in Groups |-> [h \in Groups |-> InFlight(h) # {}][g] /\ g \notin S]
    BY <2>2
  <2>4. UNCHANGED << [g \in Groups |-> groups[g].cur], [c \in Commodities |-> commodities[c].price],
                     [c \in Commodities |-> commodities[c].worth],
                     [c \in Commodities |-> commodities[c].foreign] >>
    BY <1>3
  <2>5. \A g \in S : [h \in Groups |-> InFlight(h) # {}][g]
    BY <2>1
  <2>6. Abstract!GiveUp(S)
    BY <1>5, <2>3, <2>4, <2>5 DEF Abstract!GiveUp
  <2> QED BY <1>2, <2>6
<1> QED BY <1>4, <1>5

(* An edit or a restore writes one commodity of an unlocked group.         *)
LEMMA RowWritten ==
    ASSUME PInv, NEW c \in Commodities, NEW row, InFlight(GroupOf[c]) = {},
           commodities' = [commodities EXCEPT ![c] = row],
           UNCHANGED <<migrations, groups>>
    PROVE  /\ Abstract!Write(c, row.worth, row.price)
           /\ [d \in Commodities |-> commodities[d].foreign]' =
                [[d \in Commodities |-> commodities[d].foreign] EXCEPT ![c] = row.foreign]
<1>1. \A d \in Commodities : commodities'[d] = IF d = c THEN row ELSE commodities[d]
  BY DEF PInv, IInv, TypeOK
<1>2. [d \in Commodities |-> commodities[d].worth]' =
        [[d \in Commodities |-> commodities[d].worth] EXCEPT ![c] = row.worth]
  <2>1. \A d \in Commodities : commodities'[d].worth = IF d = c THEN row.worth ELSE commodities[d].worth
    BY <1>1
  <2> QED BY <2>1
<1>3. [d \in Commodities |-> commodities[d].price]' =
        [[d \in Commodities |-> commodities[d].price] EXCEPT ![c] = row.price]
  <2>1. \A d \in Commodities : commodities'[d].price = IF d = c THEN row.price ELSE commodities[d].price
    BY <1>1
  <2> QED BY <2>1
<1>4. [d \in Commodities |-> commodities[d].foreign]' =
        [[d \in Commodities |-> commodities[d].foreign] EXCEPT ![c] = row.foreign]
  <2>1. \A d \in Commodities : commodities'[d].foreign = IF d = c THEN row.foreign ELSE commodities[d].foreign
    BY <1>1
  <2> QED BY <2>1
<1>5. UNCHANGED << [g \in Groups |-> groups[g].cur], [g \in Groups |-> InFlight(g) # {}] >>
  BY DEF InFlight
<1>6. ~[g \in Groups |-> InFlight(g) # {}][GroupOf[c]]
  OBVIOUS
<1> QED BY <1>2, <1>3, <1>4, <1>5, <1>6 DEF Abstract!Write

(* Every step of the handlers and workers is one of the abstract steps, or *)
(* shows nothing.                                                          *)
LEMMA StepRefines ==
    ASSUME PInv, [PromptNext]_vars
    PROVE  [Abstract!Next]_(Abstract!vars)
<1>1. ASSUME UNCHANGED <<migrations, commodities>>,
             \A g \in Groups : groups'[g].cur = groups[g].cur
      PROVE  UNCHANGED Abstract!vars
  <2>1. \A g : InFlight(g)' = InFlight(g)
    BY <1>1 DEF InFlight
  <2> QED BY <1>1, <2>1, Stutters
<1>2. ASSUME NEW e \in Editors, NEW orig \in Currencies, NEW worth \in Amounts,
             EditWrite(e, orig, worth)
      PROVE  \E c \in Commodities : Abstract!Edit(c, worth)
  <2>1. PICK c : c = editors[e].item
    OBVIOUS
  <2>2. /\ c \in Commodities /\ InFlight(GroupOf[c]) = {}
        /\ commodities' = [commodities EXCEPT ![c] =
              PricedIn(orig, worth, groups[GroupOf[c]].cur, editors[e].acq)]
        /\ UNCHANGED <<migrations, groups>>
    BY <1>2, <2>1, EditWriteKeeps DEF EditWrite
  <2>3. PICK row : row = PricedIn(orig, worth, groups[GroupOf[c]].cur, editors[e].acq)
    OBVIOUS
  <2>4. /\ row.worth = worth /\ row.price = [g \in Groups |-> groups[g].cur][GroupOf[c]]
        /\ row.foreign = FALSE
    BY <2>2, <2>3 DEF PricedIn
  <2>5. /\ Abstract!Write(c, row.worth, row.price)
        /\ [d \in Commodities |-> commodities[d].foreign]' =
             [[d \in Commodities |-> commodities[d].foreign] EXCEPT ![c] = row.foreign]
    BY <2>2, <2>3, RowWritten
  <2>6. Abstract!Edit(c, worth)
    BY <2>4, <2>5 DEF Abstract!Edit, Abstract!Write
  <2> QED BY <2>2, <2>6
<1>3. ASSUME NEW x \in Restorers, NEW orig \in Currencies, NEW worth \in Amounts,
             NEW unit \in Currencies, RestoreWrite(x, orig, worth, unit)
      PROVE  \E c \in Commodities : Abstract!Import(c, worth, unit)
  <2>1. PICK c \in Commodities, row \in Commodity :
           /\ InFlight(GroupOf[c]) = {}
           /\ commodities' = [commodities EXCEPT ![c] = row]
           /\ row.worth = worth /\ row.price = unit
           /\ row.foreign = (unit # groups[GroupOf[c]].cur)
           /\ UNCHANGED <<migrations, groups>>
    BY <1>3, RestoreWriteKeeps
  <2>2. /\ Abstract!Write(c, row.worth, row.price)
        /\ [d \in Commodities |-> commodities[d].foreign]' =
             [[d \in Commodities |-> commodities[d].foreign] EXCEPT ![c] = row.foreign]
    BY <2>1, RowWritten
  <2>3. [g \in Groups |-> groups[g].cur][GroupOf[c]] = groups[GroupOf[c]].cur
    OBVIOUS
  <2>4. Abstract!Import(c, worth, unit)
    BY <2>1, <2>2, <2>3 DEF Abstract!Import
  <2> QED BY <2>4
<1>4. ASSUME NEW w \in Workers, Claim(w)
      PROVE  UNCHANGED Abstract!vars
  <2>1. UNCHANGED <<groups, commodities>> /\ \A g : InFlight(g)' = InFlight(g)
    BY <1>4, ClaimIsCurrent DEF Claim
  <2> QED BY <2>1, Stutters
<1>5. ASSUME NEW m \in Mids, GetStuck(m), ~WorkedOn(m)
      PROVE  UNCHANGED Abstract!vars
  <2>1. UNCHANGED <<groups, commodities>> /\ \A g : InFlight(g)' = InFlight(g)
    BY <1>5, GetStuckIsCurrent DEF GetStuck
  <2> QED BY <2>1, Stutters
<1>6. ASSUME NEW w \in Workers, Sweep(w)
      PROVE  UNCHANGED Abstract!vars \/ \E S \in SUBSET Groups : Abstract!GiveUp(S)
  <2>1. CASE UNCHANGED vars
    BY <1>1, <2>1 DEF vars, tables
  <2>2. CASE PromptNext
    BY <1>6, <2>2, SweepGivesUp DEF PromptNext, Prompt
  <2> QED BY <2>1, <2>2
<1>7. ASSUME NEW w \in Workers, Tx2Commit(w)
      PROVE  \E g \in Groups, to \in Currencies : Abstract!Convert(g, to)
  BY <1>7, Tx2CommitConvertsGroup
<1>8. ASSUME NEW r \in Starters, StartCreate(r)
      PROVE  \E g \in Groups : Abstract!Lock(g)
  BY <1>8, StartCreateLocks
<1>9. \/ UNCHANGED Abstract!vars
      \/ \E g \in Groups : Abstract!Lock(g)
      \/ \E g \in Groups, to \in Currencies : Abstract!Convert(g, to)
      \/ \E S \in SUBSET Groups : Abstract!GiveUp(S)
      \/ \E c \in Commodities, worth \in Amounts : Abstract!Edit(c, worth)
      \/ \E c \in Commodities, worth \in Amounts, unit \in Currencies :
            Abstract!Import(c, worth, unit)
  BY <1>1, <1>2, <1>3, <1>4, <1>5, <1>6, <1>7, <1>8, TableSteps
<1> QED BY <1>9 DEF Abstract!Next

(* While requests are prompt, the tables implement GroupCurrency: to its   *)
(* readers a group changes currency in one step, with all of its prices,   *)
(* and while a migration is in flight they see nothing change.             *)
THEOREM ImplementsGroupCurrency == PromptSpec => ChangesCurrencyInOneStep
<1>1. Init => Abstract!Init
  BY InitRefines
<1>2. PInv /\ [PromptNext]_vars => [Abstract!Next]_(Abstract!vars)
  BY StepRefines
<1>3. PromptSpec => Abstract!Spec
  BY <1>1, <1>2, PromptInvariance, PTL DEF PromptSpec, Abstract!Spec
<1> QED BY <1>3 DEF ChangesCurrencyInOneStep
=============================================================================

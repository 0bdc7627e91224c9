---------------------------- MODULE OrphanFileGC ----------------------------
(***************************************************************************)
(* The collector of orphan files (services/orphan_file_gc_worker.go) in    *)
(* delete mode, over the store it shares with everybody else: rows of      *)
(* files whose linked entity is gone, and thumbnails whose row is gone.    *)
(***************************************************************************)
EXTENDS FileStore, FiniteSetsExt

CONSTANTS
    PageSize, RowBudget, ThumbBudget,
    Kept,          \* rows whose creator, group or tenant is gone or suspended
    Poison,        \* rows whose probe fails whenever it is tried
    MaxRestarts    \* bound: restarts of a collector's process

(* The defaults are 500, 5000 and 5000, and nothing overrides them.        *)
ASSUME OrphanFileGCAssumption ==
    /\ {PageSize, RowBudget, ThumbBudget} \subseteq Nat \ {0}
    /\ RowBudget % PageSize = 0
    /\ 0 \notin Files /\ MaxRestarts \in Nat
    /\ Kept \intersect Poison = {}

VARIABLES
    gc,            \* where each collector is, and its cursors
    restarts

vars == <<store, gc, restarts>>

(* A candidate is the row as the page had it.                              *)
Candidates == [id : Files, link : Entities, key : Keys]

(* Cursors survive a tick but not the process, 0 is the beginning.         *)
Begun == [pc |-> "idle", blocked |-> FALSE, page |-> {}, short |-> FALSE, scanned |-> 0,
          cursor |-> 0, keys |-> {}, thumbCursor |-> 0]

GCInit == Init /\ gc = [c \in Collectors |-> Begun] /\ restarts = 0

(* The n first ids of a listing.                                           *)
First(n, ids) == {f \in ids : Cardinality({g \in ids : g < f}) < n}

(* buildConcurrencyGate: exports, imports and restores that are in flight, *)
(* or ended less than three days ago.                                      *)
InFlight == \E r \in Restores : operations[r] \in {"pending", "running", "recent"}

(* RunOnce.  A paused worker starts no tick.                               *)
BeginTick(c) ==
    /\ gc[c].pc = "idle"
    /\ gc' = [gc EXCEPT ![c].pc = "rows", ![c].blocked = InFlight, ![c].scanned = 0]
    /\ UNCHANGED <<store, restarts>>

Orphans == {f \in Live : files[f].link \in Entities \ entities}

ListOrphanCandidates(c) ==
    LET after == {f \in Orphans : files[f].old /\ f > gc[c].cursor}
        page  == First(PageSize, after) IN
    /\ gc[c].pc = "rows"
    /\ gc' = [gc EXCEPT
           ![c].page = {[id |-> f, link |-> files[f].link, key |-> files[f].key] : f \in page},
           ![c].short = Cardinality(page) < PageSize,
           ![c].cursor = IF page = {} THEN 0 ELSE @,
           ![c].pc = IF page = {} THEN "thumbnails" ELSE "page"]
    /\ UNCHANGED <<store, restarts>>

(* verifyRowCandidate, of the copy of the row.  The age it checks is the   *)
(* one the page was selected by.  Entity and owner are asked before the    *)
(* key, but what is gone then is gone now.                                 *)
Proceeds(c, row) ==
    /\ ~ gc[c].blocked
    /\ row.id \notin Kept /\ Open(row.id)
    /\ row.link \notin entities
    /\ HeldBy(row.key) = {row.id}

(* An error of the probe ends the tick, and leaves the candidate behind.   *)
(* Mutant: the next tick begins where this one did.                        *)
AbortInPlace(c, f) == [gc[c] EXCEPT !.pc = "idle", !.page = {}]
Abort(c, f)        == [gc[c] EXCEPT !.pc = "idle", !.page = {}, !.cursor = f]

(* One candidate: it is left behind whatever comes of it.  The next page   *)
(* comes when this one is done.                                            *)
SweepRowCandidate(c) ==
    /\ gc[c].pc = "page" /\ procs[c].pc = "idle" /\ gc[c].page # {}
    /\ \E row \in gc[c].page :
         /\ \A other \in gc[c].page : row.id <= other.id
         /\ IF row.id \in Poison /\ ~ gc[c].blocked /\ Open(row.id)
            THEN /\ gc' = [gc EXCEPT ![c] = Abort(c, row.id)]
                 /\ procs' = procs
            ELSE /\ gc' = [gc EXCEPT ![c].page = @ \ {row}, ![c].cursor = row.id,
                                     ![c].scanned = @ + 1]
                 /\ procs' = IF Proceeds(c, row)
                             THEN [procs EXCEPT ![c] = [Idle EXCEPT !.pc = "next",
                                                                    !.todo = {row.id}]]
                             ELSE procs
    /\ UNCHANGED <<tables, others, leaked, restarts>>

EndPage(c) ==
    /\ gc[c].pc = "page" /\ procs[c].pc = "idle" /\ gc[c].page = {}
    /\ gc' = [gc EXCEPT ![c].cursor = IF gc[c].short THEN 0 ELSE @,
           ![c].pc = IF gc[c].short \/ gc[c].scanned >= RowBudget THEN "thumbnails" ELSE "rows"]
    /\ UNCHANGED <<store, restarts>>

(* Where the next listing resumes; a full one starts over.  Mutant: always *)
(* at the beginning.                                                       *)
ResumeAtStart(listed, after) == 0
Resume(listed, after) == IF listed # after THEN Max(listed) ELSE 0

(* sweepThumbnails and listAgedThumbnails: the keys after the cursor, as   *)
(* many as the budget allows, the old ones of which are looked at.         *)
ListAgedThumbnails(c) ==
    LET after  == {f \in Files : thumbs[f] # "none" /\ f > gc[c].thumbCursor}
        listed == First(ThumbBudget, after)
        aged   == {f \in listed : thumbs[f] = "old"} IN
    /\ gc[c].pc = "thumbnails"
    /\ gc' = [gc EXCEPT
           ![c].thumbCursor = IF gc[c].blocked THEN @ ELSE Resume(listed, after),
           ![c].keys = IF gc[c].blocked THEN {} ELSE aged,
           ![c].pc = IF gc[c].blocked \/ aged = {} THEN "idle" ELSE "keys"]
    /\ UNCHANGED <<store, restarts>>

(* liveFileIDs, of all keys together.                                      *)
LiveFileIDs(c) ==
    /\ gc[c].pc = "keys"
    /\ gc' = [gc EXCEPT ![c].keys = @ \ Live,
                        ![c].pc = IF gc[c].keys \subseteq Live THEN "idle" ELSE "rowless"]
    /\ UNCHANGED <<store, restarts>>

(* The rest of the keys, when one is done with.                            *)
Leave(c, f) ==
    IF gc[c].keys = {f} THEN [gc[c] EXCEPT !.keys = {}, !.pc = "idle"]
    ELSE [gc[c] EXCEPT !.keys = @ \ {f}, !.pc = "rowless"]

(* The row of each key is probed again; an error ends the tick, behind it. *)
ProbeThumbnail(c) ==
    /\ gc[c].pc = "rowless"
    /\ \E f \in gc[c].keys :
         /\ f = Min(gc[c].keys)
         /\ \/ /\ f \in Poison
               /\ gc' = [gc EXCEPT ![c].thumbCursor = f, ![c].keys = {}, ![c].pc = "idle"]
            \/ /\ f \in Live \ Poison
               /\ gc' = [gc EXCEPT ![c] = Leave(c, f)]
            \/ /\ f \notin Live \union Poison
               /\ gc' = [gc EXCEPT ![c].pc = "thumbnail"]
    /\ UNCHANGED <<store, restarts>>

DeleteThumbnail(c) ==
    /\ gc[c].pc = "thumbnail"
    /\ \E f \in gc[c].keys :
         /\ f = Min(gc[c].keys)
         /\ thumbs' = [thumbs EXCEPT ![f] = "none"]
         /\ gc' = [gc EXCEPT ![c] = Leave(c, f)]
    /\ UNCHANGED <<files, entities, blobs, jobs, procs, others, leaked, restarts>>

(* The process dies and another one starts.                                *)
Restart(c) ==
    /\ restarts < MaxRestarts
    /\ restarts' = restarts + 1
    /\ gc' = [gc EXCEPT ![c] = Begun]
    /\ procs' = [procs EXCEPT ![c] = Idle]
    /\ leaked' = leaked \union InHand(c)
    /\ UNCHANGED <<tables, others>>

Sweep(c) ==
    \/ BeginTick(c)
    \/ ListOrphanCandidates(c) \/ SweepRowCandidate(c) \/ EndPage(c)
    \/ DeleteFileWithPhysical(c) /\ UNCHANGED <<gc, restarts>>
    \/ ListAgedThumbnails(c) \/ LiveFileIDs(c) \/ ProbeThumbnail(c) \/ DeleteThumbnail(c)

(* A tick does not last three days.                                        *)
TimePasses ==
    /\ \A c \in Collectors : gc[c].pc = "idle"
    /\ ThreeDaysPass
    /\ UNCHANGED <<gc, restarts>>

Next ==
    \/ StoreNext /\ UNCHANGED <<gc, restarts>>
    \/ \E c \in Collectors : Sweep(c) \/ Restart(c)
    \/ TimePasses

Spec == GCInit /\ [][Next]_vars

(* The worker ticks as long as the process lives, and a delete it began    *)
(* ends.  Nobody else is obliged to anything.                              *)
Fairness == \A c \in Collectors : WF_vars(Sweep(c))

FairSpec == Spec /\ Fairness
-----------------------------------------------------------------------------
(* Nothing this store promises can hold while a restore writes the archived*)
(* file and somebody else is deleting, or writing back, a row of it: the   *)
(* collector is only kept out by a gate it looked at when its tick began.  *)
(* Assumption: that does not happen.                                       *)
Apart ==
    \A r \in Restores, p \in Procs : r # p /\
        procs[r].pc \in {"loaded", "streamed", "unlinked", "shared", "sole"} =>
            procs[p].file \notin Copies

TypeOK ==
    /\ files \in [Files -> Rows \union {Unused, Gone}]
    /\ entities \subseteq Entities /\ blobs \subseteq Keys /\ leaked \subseteq Keys
    /\ thumbs \in [Files -> {"none", "fresh", "old"}]
    /\ jobs \in [Files -> {"none", "job", "done"}]
    /\ operations \in [Restores -> {"none", "pending", "running", "recent", "old",
                                  "gone"}]
    /\ procs \in [Procs -> [pc : {"idle", "next", "read", "unchained", "unlinked", "shared",
                                  "sole", "uploading", "editing", "listed", "dropped",
                                  "loaded", "streamed", "restored", "purging"},
                            todo : SUBSET Files,
                            copy : UNION {[S -> Keys] : S \in SUBSET Files},
                            file : Files \union {Null},
                            key  : Keys \union {Null},
                            link : Entities \union {Null}]]
    /\ generating \in [Generators -> Files \union {Null}]
    /\ group \in {"active", "pending_deletion", "purged"}
    /\ gc \in [Collectors -> [pc : {"idle", "rows", "page", "thumbnails", "keys", "rowless",
                                    "thumbnail"},
                              blocked : BOOLEAN, page : SUBSET Candidates, short : BOOLEAN,
                              scanned : Nat, cursor : Files \union {0}, keys : SUBSET Files,
                              thumbCursor : Files \union {0}]]
    /\ restarts \in 0 .. MaxRestarts

(* The bytes of a live file are there, whoever shares its key and whatever *)
(* is being deleted: the promise of the shared-key guard.  (The files of a *)
(* group that is being purged are no longer live.)                         *)
BytesOfLiveFiles ==
    \A f \in Live : Open(f) => files[f].key \in blobs

(* Bytes nobody has a row for are about to be deleted or given one, unless *)
(* their deleter or writer stopped half-way or was a purge: the last owner *)
(* of a shared key takes the blob.                                         *)
LastOwnerTakesTheBlob ==
    \A k \in blobs :
        \/ HeldBy(k) # {} \/ k \in leaked
        \/ \E p \in Procs :
             \/ procs[p].pc \in {"uploading", "unlinked", "sole"} /\ procs[p].key = k
             \/ procs[p].pc = "streamed" /\ k = Archived

(* A row the collector may delete does not stay for ever, however many it  *)
(* has to keep, and whatever its probe cannot read, is in front of it.     *)
Collectable(f) ==
    /\ f \in Orphans /\ files[f].old /\ f \notin Kept \union Poison /\ Open(f)
    /\ HeldBy(files[f].key) = {f} /\ jobs[f] # "job"
    /\ ~ InFlight

OrphansAreCollected == \A f \in Files : []<>~Collectable(f)

(* Nor do the old thumbnails of a file that is gone, whoever lives in      *)
(* front of them.                                                          *)
ThumbnailsAreCollected ==
    \A f \in Files : []<>~(f \notin Live \union Poison /\ thumbs[f] = "old" /\ ~ InFlight)
=============================================================================

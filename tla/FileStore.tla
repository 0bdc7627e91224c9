----------------------------- MODULE FileStore -----------------------------
(***************************************************************************)
(* Files of one tenant: rows of the table files, the blobs and thumbnails  *)
(* they own in the bucket, and everybody who writes or destroys them - the *)
(* handlers of apiserver/uploads.go and apiserver/files.go, the recursive  *)
(* deletes of services/entity_service.go, the file members of a restore    *)
(* (backup/restore/processor), the purge of a group, the thumbnail jobs -  *)
(* all through services/file_service.go.                                   *)
(*                                                                         *)
(* Every transaction, and every access to the bucket, is one action.       *)
(* Nothing spans the database and the bucket.  Time is one step: three     *)
(* days pass, and what was there before them is old.                       *)
(***************************************************************************)
EXTENDS Naturals, FiniteSets

CONSTANTS
    Files,         \* ids of rows, in the order (created_at, id)
    Copies,        \* the ids that rows of the archived file have or will get
    Legacy,        \* a blob key minted from a name and a second, shared
    Archived,      \* the blob key a restore mints from the UUID in the archive
    Commodities, Areas,    \* entities files are linked to (one of both: either)
    Images,        \* files whose thumbnails somebody asks for
    Doomed,        \* files of the group that is to be purged
    Requests,      \* request handlers, each serving any call
    Restores,      \* restore operations, and the goroutine of each
    Purgers,       \* group purge workers
    Collectors,    \* orphan collectors, one for each process that runs one
    Generators,    \* goroutines that generate thumbnails
    Null

Entities == Commodities \union Areas
Keys     == Files \union {Legacy, Archived}
Procs    == Requests \union Restores \union Purgers \union Collectors

ASSUME FileStoreAssumption ==
    /\ Files \subseteq Nat /\ Copies \subseteq Files
    /\ Doomed \subseteq Files /\ Images \subseteq Files
    /\ IsFiniteSet(Files)
    /\ Legacy \notin Files /\ Archived \notin Files /\ Legacy # Archived
    /\ Null \notin Files \union {Legacy, Archived} \union Entities
    /\ Requests \intersect Restores = {} /\ Purgers \intersect (Requests \union Restores) = {}
    /\ Collectors \intersect (Requests \union Restores \union Purgers) = {}

VARIABLES
    files,       \* files, by id: the link, the key of the blob, and its age
    entities,    \* the ids in commodities and areas
    blobs,       \* the keys in the bucket that hold the bytes of a file
    thumbs,      \* the thumbnails of each file
    jobs,        \* files with a row in thumbnail_generation_jobs
    operations,  \* status of each restore operation
    procs,       \* what everybody is doing
    generating,  \* the file each generator read
    group,       \* status of the group of the Doomed files
    leaked       \* keys whose writer or deleter stopped half-way, or was a purge

tables == <<files, entities, blobs, thumbs, jobs>>
others == <<operations, generating, group>>
store  == <<tables, others, procs, leaked>>

(* Rows that were never there, and rows that are deleted: no id is reused. *)
Unused == [link |-> Null, key |-> Null, old |-> FALSE]
Gone   == [link |-> Null, key |-> Null, old |-> TRUE]

Rows == [link : Entities \union {Null}, key : Keys, old : BOOLEAN]

Live == {f \in Files : files[f].key # Null}

HeldBy(k) == {f \in Live : files[f].key = k}

(* file, key and link are the local variables of the call, todo the files  *)
(* it will delete after that one, copy the keys of the rows a purge listed.*)
Idle == [pc |-> "idle", todo |-> {}, copy |-> <<>>, file |-> Null, key |-> Null, link |-> Null]

Init ==
    /\ files \in [Files -> Rows \union {Unused}]
    /\ \A f \in Live : files[f].key \in {f, Legacy, Archived}
    /\ \A f \in Live : files[f].key = Archived => f \in Copies
    /\ Cardinality(Copies \intersect Live) <= 1
    /\ entities \in SUBSET Entities
    /\ blobs = {files[f].key : f \in Live}
    /\ thumbs \in [Files -> {"none", "old"}]
    /\ jobs = [f \in Files |-> "none"]
    /\ operations = [r \in Restores |-> "none"]
    /\ procs = [p \in Procs |-> Idle]
    /\ generating = [g \in Generators |-> Null]
    /\ group = "active"
    /\ leaked = {}
-----------------------------------------------------------------------------
(* DeleteFileWithPhysical, once for each file in todo.                     *)

Settle(p) == IF procs[p].todo = {} THEN Idle
             ELSE [procs[p] EXCEPT !.pc = "next", !.file = Null, !.key = Null]

(* The row is read; one that is gone is skipped.                           *)
GetFile(p) ==
    /\ procs[p].pc = "next"
    /\ \E f \in procs[p].todo :
         LET rest == [procs[p] EXCEPT !.todo = @ \ {f}] IN
         procs' = [procs EXCEPT ![p] =
             IF f \in Live
             THEN [rest EXCEPT !.pc = "read", !.file = f, !.key = files[f].key]
             ELSE IF rest.todo = {} THEN Idle ELSE rest]
    /\ UNCHANGED <<tables, others, leaked>>

(* deleteThumbnailGenerationChain: the slots of the jobs, and the jobs.    *)
DeleteThumbnailGenerationChain(p) ==
    /\ procs[p].pc = "read"
    /\ jobs' = [jobs EXCEPT ![procs[p].file] = IF @ = "job" THEN "done" ELSE @]
    /\ procs' = [procs EXCEPT ![p].pc = "unchained"]
    /\ UNCHANGED <<files, entities, blobs, thumbs, others, leaked>>

(* A job that came back holds the row (foreign key, NO ACTION); the error  *)
(* ends the call, while somebody else's delete of the row is tolerated.    *)
DeleteRow(p) ==
    LET f == procs[p].file IN
    /\ procs[p].pc = "unchained"
    /\ \/ /\ f \in Live /\ jobs[f] # "job"
          /\ files' = [files EXCEPT ![f] = Gone]
          /\ procs' = [procs EXCEPT ![p].pc = "unlinked"]
       \/ /\ f \notin Live
          /\ procs' = [procs EXCEPT ![p] = Settle(p)]
          /\ files' = files
       \/ /\ f \in Live /\ jobs[f] = "job"
          /\ procs' = [procs EXCEPT ![p] = Idle]
          /\ files' = files
    /\ UNCHANGED <<entities, blobs, thumbs, jobs, others, leaked>>

(* Mutant: without the rows of others, or with any empty answer refused.   *)
SharedUnasked(p) == HeldBy(procs[p].key) = {} /\ DOMAIN procs[p].copy # {}
SharedWhenUnseen(p) ==
    \/ ~ HeldBy(procs[p].key) \subseteq DOMAIN procs[p].copy
    \/ HeldBy(procs[p].key) = {}

(* blobSharedOutsideBatch: rows held by nobody in the batch keep the blob, *)
(* and so does a batch whose own rows cannot be seen.                      *)
Shared(p) ==
    LET ids == HeldBy(procs[p].key) IN
    \/ ~ ids \subseteq DOMAIN procs[p].copy
    \/ ids = {} /\ DOMAIN procs[p].copy # {}

CheckShared(p) ==
    /\ procs[p].pc = "unlinked"
    /\ procs' = [procs EXCEPT ![p].pc = IF Shared(p) THEN "shared" ELSE "sole"]
    /\ UNCHANGED <<tables, others, leaked>>

(* deletePhysicalFileAndThumbnails: best effort, and idempotent.           *)
DeletePhysicalFileAndThumbnails(p) ==
    /\ procs[p].pc \in {"shared", "sole"}
    /\ blobs' = IF procs[p].pc = "sole" THEN blobs \ {procs[p].key} ELSE blobs
    /\ thumbs' = IF procs[p].file = Null THEN thumbs
                 ELSE [thumbs EXCEPT ![procs[p].file] = "none"]
    /\ procs' = [procs EXCEPT ![p] =
           IF p \in Restores THEN [@ EXCEPT !.pc = "restored"]
           ELSE IF p \in Purgers THEN [@ EXCEPT !.pc = "purging"]
           ELSE Settle(p)]
    /\ UNCHANGED <<files, entities, jobs, others, leaked>>

DeleteFileWithPhysical(p) ==
    \/ GetFile(p) \/ DeleteThumbnailGenerationChain(p) \/ DeleteRow(p)
    \/ CheckShared(p) \/ DeletePhysicalFileAndThumbnails(p)
-----------------------------------------------------------------------------
(* Handlers.                                                               *)

(* The routes of a group are closed while it is being deleted.             *)
Open(f) == f \in Doomed => group = "active"

(* uploadFiles writes the bytes, under a key of their own, before any row. *)
SaveFile(p, f) ==
    /\ procs[p].pc = "idle"
    /\ files[f] = Unused /\ f \notin Copies /\ f \notin blobs /\ Open(f)
    /\ blobs' = blobs \union {f}
    /\ procs' = [procs EXCEPT ![p] = [Idle EXCEPT !.pc = "uploading", !.key = f]]
    /\ UNCHANGED <<files, entities, thumbs, jobs, others, leaked>>

(* handleFileUpload creates the row, with no link, in a group that is still*)
(* there.                                                                  *)
UploadFile(p) ==
    LET f == procs[p].key IN
    /\ procs[p].pc = "uploading"
    /\ files[f] = Unused /\ (f \in Doomed => group # "purged")
    /\ files' = [files EXCEPT ![f] = [link |-> Null, key |-> f, old |-> FALSE]]
    /\ procs' = [procs EXCEPT ![p] = Idle]
    /\ UNCHANGED <<entities, blobs, thumbs, jobs, others, leaked>>

(* Mutant: the row is made from the request, without the key of the blob.  *)
BeginUpdateFileAfresh(p, f, e) ==
    /\ procs[p].pc = "idle" /\ f \in Live /\ Open(f)
    /\ procs' = [procs EXCEPT ![p] = [Idle EXCEPT !.pc = "editing", !.file = f, !.link = e]]
    /\ UNCHANGED <<tables, others, leaked>>

(* updateFile reads the whole row and writes it back, with the link of the *)
(* request, which is not looked up.                                        *)
BeginUpdateFile(p, f, e) ==
    /\ procs[p].pc = "idle" /\ f \in Live /\ Open(f)
    /\ procs' = [procs EXCEPT ![p] = [Idle EXCEPT !.pc = "editing", !.file = f,
                                      !.key = files[f].key, !.link = e]]
    /\ UNCHANGED <<tables, others, leaked>>

UpdateFile(p) ==
    LET f == procs[p].file IN
    /\ procs[p].pc = "editing"
    /\ files' = IF f \in Live
                THEN [files EXCEPT ![f] = [link |-> procs[p].link, key |-> procs[p].key,
                                           old |-> FALSE]]
                ELSE files
    /\ procs' = [procs EXCEPT ![p] = Idle]
    /\ UNCHANGED <<entities, blobs, thumbs, jobs, others, leaked>>

(* deleteFile, and each file of bulkDeleteFiles.                           *)
DeleteFile(p, f) ==
    /\ procs[p].pc = "idle" /\ f \in Live /\ Open(f)
    /\ procs' = [procs EXCEPT ![p] = [Idle EXCEPT !.pc = "next", !.todo = {f}]]
    /\ UNCHANGED <<tables, others, leaked>>

LinkedTo(e) == {f \in Live : files[f].link = e}

(* DeleteCommodityRecursive lists the files, then deletes the commodity.   *)
ListCommodityFiles(p, e) ==
    /\ procs[p].pc = "idle" /\ e \in Commodities
    /\ procs' = [procs EXCEPT ![p] = [Idle EXCEPT !.pc = "listed", !.link = e,
                                      !.todo = LinkedTo(e)]]
    /\ UNCHANGED <<tables, others, leaked>>

DeleteCommodity(p) ==
    /\ procs[p].pc = "listed"
    /\ entities' = entities \ {procs[p].link}
    /\ procs' = [procs EXCEPT ![p] =
                   IF procs[p].link \in entities THEN Settle(p) ELSE Idle]
    /\ UNCHANGED <<files, blobs, thumbs, jobs, others, leaked>>

(* DeleteAreaRecursive, DeleteArea and their like for locations delete the *)
(* row, then list the files.  One that is gone is swept again.             *)
DeleteArea(p, e) ==
    /\ procs[p].pc = "idle" /\ e \in Areas
    /\ entities' = entities \ {e}
    /\ procs' = [procs EXCEPT ![p] = [Idle EXCEPT !.pc = "dropped", !.link = e]]
    /\ UNCHANGED <<files, blobs, thumbs, jobs, others, leaked>>

DeleteLinkedFiles(p) ==
    /\ procs[p].pc = "dropped"
    /\ procs' = [procs EXCEPT ![p] =
           LET linked == LinkedTo(procs[p].link) IN
           IF linked = {} THEN Idle ELSE [@ EXCEPT !.pc = "next", !.todo = linked]]
    /\ UNCHANGED <<tables, others, leaked>>

(* The key a process leaves behind when it stops.                          *)
InHand(p) ==
    IF procs[p].pc = "streamed" THEN {Archived}
    ELSE IF procs[p].pc \in {"uploading", "unlinked", "sole", "shared"} THEN {procs[p].key}
    ELSE {}

(* A process dies, or a call returns at an error: what it had still to do  *)
(* is left undone.  A restore stays running, for nobody ends it.  No code  *)
(* takes back the bytes of an upload whose row is refused.                 *)
Abandon(p) ==
    /\ procs[p].pc # "idle"
    /\ leaked' = leaked \union InHand(p)
    /\ procs' = [procs EXCEPT ![p] = Idle]
    /\ UNCHANGED <<tables, others>>

RequestNext(p) ==
    \/ \E f \in Files : SaveFile(p, f)
    \/ UploadFile(p)
    \/ \E f \in Files, e \in Entities \union {Null} : BeginUpdateFile(p, f, e)
    \/ UpdateFile(p)
    \/ \E f \in Files : DeleteFile(p, f)
    \/ \E e \in Entities : ListCommodityFiles(p, e) \/ DeleteArea(p, e)
    \/ DeleteCommodity(p) \/ DeleteLinkedFiles(p)
    \/ DeleteFileWithPhysical(p) \/ Abandon(p)
-----------------------------------------------------------------------------
(* A restore of an archive with one file, under any merge strategy.        *)

(* HasRunningRestores is asked in a transaction of its own, so two requests*)
(* may both be admitted.                                                   *)
RequestRestore(r) ==
    /\ operations[r] = "none"
    /\ operations' = [operations EXCEPT ![r] = "pending"]
    /\ UNCHANGED <<tables, procs, generating, group, leaked>>

(* The rows there are already are loaded once, at the start.               *)
BeginRestore(r) ==
    /\ operations[r] = "pending"
    /\ operations' = [operations EXCEPT ![r] = "running"]
    /\ LET there == Copies \intersect Live IN
       \/ /\ there = {}
          /\ procs' = [procs EXCEPT ![r] = [Idle EXCEPT !.pc = "loaded"]]
       \/ \E f \in there :
            procs' = [procs EXCEPT ![r] = [Idle EXCEPT !.pc = "loaded", !.file = f,
                                                       !.key = files[f].key]]
    /\ UNCHANGED <<tables, generating, group, leaked>>

(* merge_add skips a file that is there already.                           *)
SkipFileMember(r) ==
    /\ procs[r].pc = "loaded" /\ procs[r].file # Null
    /\ procs' = [procs EXCEPT ![r].pc = "restored"]
    /\ UNCHANGED <<tables, others, leaked>>

(* The bytes are written under the key of the UUID, before any row.        *)
StreamFileBytes(r) ==
    /\ procs[r].pc = "loaded"
    /\ blobs' = blobs \union {Archived}
    /\ procs' = [procs EXCEPT ![r].pc = "streamed"]
    /\ UNCHANGED <<files, entities, thumbs, jobs, others, leaked>>

(* The row is created or written over, linked to an entity of the archive  *)
(* and with its timestamps.  Updating a row that is gone fails the restore.*)
ApplyStrategyForFile(r) ==
    LET f == procs[r].file IN
    /\ procs[r].pc = "streamed"
    /\ \/ /\ f = Null
          /\ \E n \in Copies, e \in entities \union {Null} :
               /\ files[n] = Unused
               /\ files' = [files EXCEPT ![n] = [link |-> e, key |-> Archived, old |-> TRUE]]
          /\ procs' = [procs EXCEPT ![r].pc = "restored"]
          /\ leaked' = leaked
       \/ /\ f \in Live
          /\ \E e \in entities \union {Null} :
               files' = [files EXCEPT ![f] = [link |-> e, key |-> Archived, old |-> TRUE]]
          /\ procs' = [procs EXCEPT ![r].file = Null,
                 ![r].pc = IF procs[r].key = Archived THEN "restored" ELSE "unlinked"]
          /\ leaked' = leaked
       \/ /\ f \in Files \ Live
          /\ procs' = [procs EXCEPT ![r].pc = "restored"]
          /\ leaked' = leaked \union {Archived}
          /\ files' = files
    /\ UNCHANGED <<entities, blobs, thumbs, jobs, others>>

(* Completed or failed.                                                    *)
EndRestore(r) ==
    /\ procs[r].pc = "restored"
    /\ operations' = [operations EXCEPT ![r] = IF @ = "gone" THEN @ ELSE "recent"]
    /\ procs' = [procs EXCEPT ![r] = Idle]
    /\ UNCHANGED <<tables, generating, group, leaked>>

(* A running one is not deleted; but it may be pending when this is asked, *)
(* and running when it is deleted.                                         *)
DeleteExportRestore(r) ==
    /\ operations[r] \notin {"none", "gone"}
    /\ operations' = [operations EXCEPT ![r] = "gone"]
    /\ UNCHANGED <<tables, procs, generating, group, leaked>>

(* deleteSupersededBlob asks and deletes like everybody else.              *)
RestoreNext(r) ==
    \/ RequestRestore(r) \/ DeleteExportRestore(r)
    \/ BeginRestore(r) \/ SkipFileMember(r) \/ StreamFileBytes(r)
    \/ ApplyStrategyForFile(r) \/ EndRestore(r)
    \/ CheckShared(r) \/ DeletePhysicalFileAndThumbnails(r) \/ Abandon(r)
-----------------------------------------------------------------------------
(* The purge of the group: its blobs one by one, then all of its rows.     *)

InitiateGroupDeletion ==
    /\ group = "active" /\ Purgers # {}
    /\ group' = "pending_deletion"
    /\ UNCHANGED <<tables, operations, procs, generating, leaked>>

BeginPurge(p) ==
    LET listed == Doomed \intersect Live IN
    /\ procs[p].pc = "idle" /\ group = "pending_deletion"
    /\ procs' = [procs EXCEPT ![p] = [Idle EXCEPT !.pc = "purging", !.todo = listed,
                                      !.copy = [f \in listed |-> files[f].key]]]
    /\ UNCHANGED <<tables, others, leaked>>

DeletePhysicalFilesForGroup(p) ==
    /\ procs[p].pc = "purging"
    /\ \E f \in procs[p].todo :
         procs' = [procs EXCEPT ![p].pc = "unlinked", ![p].todo = @ \ {f},
                                ![p].file = f, ![p].key = procs[p].copy[f]]
    /\ UNCHANGED <<tables, others, leaked>>

PurgeGroupDependents(p) ==
    LET dropped == Doomed \intersect Live IN
    /\ procs[p].pc = "purging" /\ procs[p].todo = {}
    /\ files' = [f \in Files |-> IF f \in dropped THEN Gone ELSE files[f]]
    /\ jobs' = [f \in Files |-> IF f \in dropped /\ jobs[f] = "job" THEN "done" ELSE jobs[f]]
    /\ leaked' = leaked \union {files[f].key : f \in dropped}
    /\ group' = "purged"
    /\ procs' = [procs EXCEPT ![p] = Idle]
    /\ UNCHANGED <<entities, blobs, thumbs, operations, generating>>

PurgeNext(p) ==
    \/ BeginPurge(p) \/ DeletePhysicalFilesForGroup(p) \/ PurgeGroupDependents(p)
    \/ CheckShared(p) \/ DeletePhysicalFileAndThumbnails(p) \/ Abandon(p)
-----------------------------------------------------------------------------
(* Thumbnails.                                                             *)

(* A viewer of a file without thumbnails leaves a job; one for each file.  *)
RequestThumbnailGeneration(f) ==
    /\ f \in Live \intersect Images /\ jobs[f] = "none"
    /\ jobs' = [jobs EXCEPT ![f] = "job"]
    /\ UNCHANGED <<files, entities, blobs, thumbs, procs, others, leaked>>

(* Completed and failed jobs are deleted after a day.                      *)
CleanupCompletedJobs(f) ==
    /\ jobs[f] = "job"
    /\ jobs' = [jobs EXCEPT ![f] = "done"]
    /\ UNCHANGED <<files, entities, blobs, thumbs, procs, others, leaked>>

(* GenerateThumbnails, for a job or inline after an upload: the row and    *)
(* the image are read, and the thumbnails written, whatever became of the  *)
(* row since.                                                              *)
ReadOriginal(g, f) ==
    /\ generating[g] = Null /\ f \in Live \intersect Images /\ files[f].key \in blobs
    /\ generating' = [generating EXCEPT ![g] = f]
    /\ UNCHANGED <<tables, operations, group, procs, leaked>>

WriteThumbnails(g) ==
    /\ generating[g] # Null
    /\ thumbs' = [thumbs EXCEPT ![generating[g]] = "fresh"]
    /\ generating' = [generating EXCEPT ![g] = Null]
    /\ UNCHANGED <<files, entities, blobs, jobs, operations, group, procs, leaked>>

ThumbnailNext ==
    \/ \E f \in Files : RequestThumbnailGeneration(f) \/ CleanupCompletedJobs(f)
    \/ \E g \in Generators : WriteThumbnails(g) \/ \E f \in Files : ReadOriginal(g, f)
-----------------------------------------------------------------------------
(* The age of rows and thumbnails is compared with, and operations cool    *)
(* down for, the same 72 hours.                                            *)
ThreeDaysPass ==
    /\ files' = [f \in Files |-> IF f \in Live THEN [files[f] EXCEPT !.old = TRUE] ELSE files[f]]
    /\ thumbs' = [f \in Files |-> IF thumbs[f] = "fresh" THEN "old" ELSE thumbs[f]]
    /\ operations' = [r \in Restores |->
                        IF operations[r] = "recent" THEN "old" ELSE operations[r]]
    /\ UNCHANGED <<entities, blobs, jobs, generating, group, procs, leaked>>

StoreNext ==
    \/ \E p \in Requests : RequestNext(p)
    \/ \E r \in Restores : RestoreNext(r)
    \/ \E p \in Purgers : PurgeNext(p)
    \/ InitiateGroupDeletion
    \/ ThumbnailNext
=============================================================================

------------------------- MODULE OrphanFileGCProofs --------------------------
(***************************************************************************)
(* Theorems about OrphanFileGC and the store it extends, for any sets of   *)
(* files and entities and any number of requests, restores, purge workers  *)
(* and collectors: tables, calls and cursors are well typed, and as long   *)
(* as a restore and the deleters of the file it writes keep apart, no live *)
(* file loses its bytes, and no bytes are left without an owner but by a   *)
(* deleter or an upload that stopped half-way.                             *)
(***************************************************************************)
EXTENDS OrphanFileGC, FiniteSetTheorems, TLAPS

USE FileStoreAssumption

Deleting == {"unlinked", "shared", "sole"}
Reading  == {"read", "unchained"}

Steps == {"idle", "next", "uploading", "editing", "listed", "dropped", "loaded", "streamed", "restored",
          "purging"} \union Reading \union Deleting

(* What each kind of process may be doing.                                 *)
Pcs(p) ==
    {"idle"} \union
    (IF p \in Requests THEN {"next", "uploading", "editing", "listed", "dropped"} \union Reading
                             \union Deleting
     ELSE IF p \in Restores THEN {"loaded", "streamed", "restored"} \union Deleting
     ELSE IF p \in Purgers THEN {"purging"} \union Deleting
     ELSE {"next"} \union Reading \union Deleting)

Copied == UNION {[S -> Keys] : S \in SUBSET Files}

Records ==
    [pc : Steps, todo : SUBSET Files, copy : Copied, file : Files \union {Null},
     key : Keys \union {Null}, link : Entities \union {Null}]

None == <<>>

Collector ==
    [pc : {"idle", "rows", "page", "thumbnails", "keys", "rowless", "thumbnail"},
     blocked : BOOLEAN, page : SUBSET Candidates, short : BOOLEAN, scanned : Nat,
     cursor : Files \union {0}, keys : SUBSET Files, thumbCursor : Files \union {0}]

Tables ==
    /\ files \in [Files -> Rows \union {Unused, Gone}]
    /\ blobs \subseteq Keys
    /\ operations \in [Restores -> {"none", "pending", "running", "recent", "old", "gone"}]
    /\ group \in {"active", "pending_deletion", "purged"}

Processes == procs \in [Procs -> Records] /\ \A p \in Procs : procs[p].pc \in Pcs(p)

Types == Tables /\ Processes /\ gc \in [Collectors -> Collector]

(* The key of a row is its own, the shared one or the archived one.        *)
Born(f) == f \in Files /\ files[f] # Unused
KeyOf(f, k) == Born(f) /\ k \in {f, Legacy, Archived} /\ (k = Archived => f \in Copies)

Keyed == \A f \in Live : KeyOf(f, files[f].key)

(* A call knows the key of the file it is at.                              *)
Knows(x) == KeyOf(x.file, x.key) /\ (x.file \in Live => files[x.file].key = x.key)

Reader(x)   == x.pc \in Reading \union {"editing"} => Knows(x)
Restorer(x) == x.pc \in {"loaded", "streamed"} => x.file = Null \/ (x.file \in Copies /\ Knows(x))
Streamer(x) == x.pc = "streamed" => Archived \in blobs
Uploader(x) == x.pc = "uploading" => x.key \in Files /\ (Born(x.key) \/ x.key \in blobs)

(* The key a call is about to delete is in nobody else's hands to come.    *)
Deleter(x) ==
    x.pc \in Deleting =>
        x.key \in Keys /\ (x.key \in Files => Born(x.key)) /\ (x.key = Archived => x.file \in Copies)

Sole(x) == x.pc = "sole" => \A f \in Live : Open(f) => files[f].key # x.key

(* The list of a purge, which begins when the group is closed; nobody else *)
(* has one.                                                                *)
Lister(p, x) ==
    IF p \in Purgers
    THEN /\ x.pc # "idle" => group # "active" /\ x.todo \subseteq DOMAIN x.copy
         /\ DOMAIN x.copy \subseteq Doomed
         /\ \A f \in DOMAIN x.copy : KeyOf(f, x.copy[f])
    ELSE x.copy = None

Proper(p, x) ==
    Reader(x) /\ Restorer(x) /\ Streamer(x) /\ Uploader(x) /\ Deleter(x) /\ Sole(x) /\ Lister(p, x)

(* Who will take, or give a row to, the blob of a key that has none.       *)
Keeps(p, k) ==
    \/ procs[p].pc \in {"uploading", "unlinked", "sole"} /\ procs[p].key = k
    \/ procs[p].pc = "streamed" /\ k = Archived

Owned(k) == HeldBy(k) # {} \/ k \in leaked \/ \E p \in Procs \ Purgers : Keeps(p, k)

Running == \A r \in Restores : procs[r].pc # "idle" => operations[r] \in {"running", "gone"}

IInv ==
    /\ Types /\ Keyed /\ Running
    /\ \A p \in Procs : Proper(p, procs[p])
    /\ BytesOfLiveFiles
    /\ \A k \in blobs : Owned(k)
-----------------------------------------------------------------------------
(* Nobody has the Null of another set for a key, and no key is an accident.*)
LEMMA Names ==
    /\ Null \notin Keys /\ Null \notin Files /\ Files \subseteq Keys
    /\ Legacy \in Keys /\ Archived \in Keys
    /\ Legacy \notin Files /\ Archived \notin Files /\ Legacy # Archived
BY DEF Keys

(* The kinds of processes are disjoint.                                    *)
LEMMA Kinds ==
    /\ \A p \in Requests : p \in Procs /\ p \notin Restores /\ p \notin Purgers /\ p \notin Collectors
    /\ \A p \in Restores : p \in Procs /\ p \notin Requests /\ p \notin Purgers /\ p \notin Collectors
    /\ \A p \in Purgers : p \in Procs /\ p \notin Requests /\ p \notin Restores /\ p \notin Collectors
    /\ \A p \in Collectors : p \in Procs /\ p \notin Requests /\ p \notin Restores /\ p \notin Purgers
BY DEF Procs

(* A row that is gone is neither live nor unused.                          *)
LEMMA GoneRows == Gone.key = Null /\ Gone # Unused
<1>1. Gone.old = TRUE /\ Unused.old = FALSE /\ Gone.key = Null
  BY DEF Gone, Unused
<1> QED BY <1>1

(* The empty list is one.                                                  *)
LEMMA NoCopy == DOMAIN None = {} /\ None \in Copied
<1> USE DEF None
<1>1. DOMAIN None = {}
  OBVIOUS
<1>2. None = [x \in {} |-> Null]
  BY <1>1
<1>3. None \in [{} -> Keys]
  BY <1>2
<1> QED BY <1>1, <1>3 DEF Copied

(* Who does nothing is well typed.                                         *)
LEMMA IdleType == Idle \in Records /\ Idle.pc = "idle" /\ Idle.copy = None
<1>1. Idle = [pc |-> "idle", todo |-> {}, copy |-> None, file |-> Null, key |-> Null, link |-> Null]
  BY DEF Idle, None
<1> QED BY <1>1, NoCopy DEF Records, Steps, Reading, Deleting

(* A finite set of numbers that has an element has a least and a greatest. *)
LEMMA Extremes ==
    ASSUME NEW S, S \subseteq Nat, IsFiniteSet(S), S # {}
    PROVE  /\ \E x \in S : \A y \in S : x >= y
           /\ \E x \in S : \A y \in S : y >= x
<1> DEFINE Bounded(T) == /\ \E x \in T : \A y \in T : x >= y
                         /\ \E x \in T : \A y \in T : y >= x
           Bad == {T \in SUBSET S : T # {} /\ ~ Bounded(T)}
<1>1. SUFFICES ASSUME Bad # {} PROVE FALSE
  <2>1. S \notin Bad => Bounded(S)
    OBVIOUS
  <2> QED BY <2>1
<1>2. PICK T \in Bad : \A U \in Bad : <<U, T>> \notin StrictSubsetOrdering(S)
  <2>1. IsWellFoundedOn(StrictSubsetOrdering(S), SUBSET S)
    BY FS_StrictSubsetOrderingWellFounded, FS_FiniteSubsetsOfFinite
  <2>2. Bad \subseteq SUBSET S
    OBVIOUS
  <2> HIDE DEF Bad
  <2> QED BY <1>1, <2>1, <2>2, WFMin
<1>3. T \subseteq Nat /\ T \subseteq S /\ T # {} /\ ~ Bounded(T)
  OBVIOUS
<1>4. \A U \in SUBSET T : U # T /\ U # {} => Bounded(U)
  <2>1. \A U \in SUBSET T : U # T => <<U, T>> \in StrictSubsetOrdering(S)
    BY <1>3 DEF StrictSubsetOrdering
  <2>2. \A U \in SUBSET T : U # T /\ U # {} => U \notin Bad
    BY <1>2, <2>1
  <2> QED BY <1>3, <2>2
<1> HIDE DEF Bad
<1>5. PICK z \in T : TRUE
  BY <1>3
<1>6. z \in Nat
  BY <1>3
<1>7. CASE T = {z}
  BY <1>3, <1>6, <1>7
<1>8. CASE T # {z}
  <2> DEFINE U == T \ {z}
  <2>1. U \in SUBSET T /\ U # T /\ U # {} /\ U \subseteq Nat
    BY <1>3, <1>8
  <2>2. Bounded(U)
    BY <1>4, <2>1
  <2>3. PICK a \in U : \A y \in U : a >= y
    BY <2>2
  <2>4. PICK b \in U : \A y \in U : y >= b
    BY <2>2
  <2>5. a \in Nat /\ b \in Nat /\ a \in T /\ b \in T
    BY <2>1
  <2>6. \A y \in T : y = z \/ y \in U
    OBVIOUS
  <2> HIDE DEF U
  <2>7. \E x \in T : \A y \in T : x >= y
    <3>1. CASE a >= z
      BY <2>3, <2>5, <2>6, <3>1
    <3>2. CASE z >= a
      <4>1. \A y \in U : z >= y
        BY <1>6, <2>1, <2>3, <2>5, <3>2
      <4> QED BY <1>6, <2>6, <4>1
    <3> QED BY <1>6, <2>5, <3>1, <3>2
  <2>8. \E x \in T : \A y \in T : y >= x
    <3>1. CASE z >= b
      BY <2>4, <2>5, <2>6, <3>1
    <3>2. CASE b >= z
      <4>1. \A y \in U : y >= z
        BY <1>6, <2>1, <2>4, <2>5, <3>2
      <4> QED BY <1>6, <2>6, <4>1
    <3> QED BY <1>6, <2>5, <3>1, <3>2
  <2> QED BY <1>3, <2>7, <2>8
<1> QED BY <1>7, <1>8

(* A file is live in a row of its own, with a key.                         *)
LEMMA LiveRows ==
    ASSUME files \in [Files -> Rows \union {Unused, Gone}], NEW f \in Live
    PROVE  f \in Files /\ files[f] # Unused /\ files[f] \in Rows /\ files[f].key \in Keys
<1>1. f \in Files /\ files[f].key # Null /\ files[f] \in Rows \union {Unused, Gone}
  BY DEF Live
<1> QED BY <1>1 DEF Unused, Gone, Rows

(* A live file was created, and its key is one.                            *)
LEMMA LiveFiles ==
    ASSUME Types, NEW f \in Live
    PROVE  f \in Files /\ Born(f) /\ files[f] \in Rows /\ files[f].key \in Keys
BY LiveRows DEF Types, Tables, Born

(* Whom a step does not concern stays as proper as before: files are not   *)
(* created twice, keys change only to the archived one, and then of files  *)
(* the bystander is not at.                                                *)
LEMMA Others ==
    ASSUME IInv, NEW q \in Procs, procs'[q] = procs[q], Types',
           \A f \in Files : Born(f) => Born(f)',
           \A f \in Live' :
              \/ f \in Live /\ files'[f].key = files[f].key
              \/ ~ Born(f) /\ files'[f].key = f
              \/ f \in Copies /\ files'[f].key = Archived /\ procs[q].file \notin Copies,
           \A f \in Files : Open(f)' => Open(f),
           group # "active" => group' # "active",
           procs[q].pc = "streamed" /\ Archived \in blobs => Archived \in blobs',
           \A f \in Files : f \in blobs => f \in blobs' \/ Born(f)
    PROVE  Proper(q, procs[q])'
<1> DEFINE x == procs[q]
<1>1. Proper(q, x) /\ x \in Records /\ x' = x
  BY DEF IInv, Types, Processes
<1>2. \A f, k : KeyOf(f, k) => KeyOf(f, k)'
  BY DEF KeyOf, Born
<1>3. Live' \subseteq Files
  BY DEF Live
<1> HIDE DEF x
<1>4. Knows(x) => Knows(x)'
  <2>1. SUFFICES ASSUME Knows(x), x.file \in Live' PROVE files'[x.file].key = x.key
    BY <1>1, <1>2 DEF Knows
  <2>2. Born(x.file)
    BY <2>1 DEF Knows, KeyOf
  <2> QED BY <1>1, <2>1, <2>2 DEF Knows, x
<1>5. Reader(x)' /\ Restorer(x)'
  BY <1>1, <1>4 DEF Proper, Reader, Restorer
<1>6. Streamer(x)'
  BY <1>1 DEF Proper, Streamer, x
<1>11. Uploader(x)'
  BY <1>1 DEF Proper, Uploader
<1>7. Deleter(x)'
  BY <1>1 DEF Proper, Deleter
<1>8. Sole(x)'
  <2>1. SUFFICES ASSUME x.pc = "sole", NEW f \in Live', Open(f)', files'[f].key = x.key PROVE FALSE
    BY <1>1 DEF Sole
  <2>2. /\ x.key \in Files => Born(x.key)
        /\ x.key = Archived => x.file \in Copies
    BY <1>1, <2>1 DEF Proper, Deleter, Deleting
  <2>3. CASE f \in Live /\ files'[f].key = files[f].key
    BY <1>1, <1>3, <2>1, <2>3 DEF Proper, Sole
  <2>4. CASE ~ Born(f) /\ files'[f].key = f
    BY <1>3, <2>1, <2>2, <2>4
  <2>5. CASE f \in Copies /\ files'[f].key = Archived /\ procs[q].file \notin Copies
    BY <2>1, <2>2, <2>5 DEF x
  <2> QED BY <2>3, <2>4, <2>5
<1>9. Lister(q, x)'
  BY <1>1, <1>2 DEF Proper, Lister
<1>10. Proper(q, x)'
  BY <1>5, <1>6, <1>7, <1>8, <1>9, <1>11 DEF Proper
<1> QED BY <1>10 DEF x

(* A call that is at no file is proper, and so is one that is done.        *)
LEMMA RestIsProper ==
    ASSUME NEW p \in Procs, NEW x,
           x.pc \in {"idle", "next", "listed", "dropped", "restored"}, x.copy = None,
           p \in Purgers => x.pc = "idle"
    PROVE  Proper(p, x) /\ Proper(p, x)'
<1>1. /\ Reader(x) /\ Restorer(x) /\ Streamer(x) /\ Uploader(x) /\ Deleter(x) /\ Sole(x)
      /\ Reader(x)' /\ Restorer(x)' /\ Streamer(x)' /\ Uploader(x)' /\ Deleter(x)' /\ Sole(x)'
  BY DEF Reader, Restorer, Streamer, Uploader, Deleter, Sole, Reading, Deleting
<1>2. Lister(p, x) /\ Lister(p, x)'
  <2>1. DOMAIN x.copy = {}
    BY NoCopy
  <2> QED BY <2>1 DEF Lister
<1> QED BY <1>1, <1>2 DEF Proper

(* A step of one process that changes no file, no blob and not the group.  *)
LEMMA Quiet ==
    ASSUME IInv, NEW p \in Procs, NEW x \in Records, x.pc \in Pcs(p), Proper(p, x),
           procs' = [procs EXCEPT ![p] = x],
           UNCHANGED <<files, blobs, group>>,
           gc' \in [Collectors -> Collector],
           operations' \in [Restores -> {"none", "pending", "running", "recent", "old", "gone"}],
           \A r \in Restores : r # p => operations'[r] = operations[r],
           p \in Restores /\ x.pc # "idle" => operations'[p] \in {"running", "gone"},
           leaked \subseteq leaked',
           \A k \in blobs : p \notin Purgers /\ Keeps(p, k) =>
              \/ HeldBy(k) # {} \/ k \in leaked'
              \/ x.pc \in {"unlinked", "sole"} /\ x.key = k
              \/ x.pc = "streamed" /\ k = Archived
    PROVE  IInv'
<1>1. procs'[p] = x /\ \A q \in Procs : q # p => procs'[q] = procs[q]
  BY DEF IInv, Types, Processes
<1>2. Types'
  BY <1>1 DEF IInv, Types, Processes, Tables
<1>3. Keyed' /\ BytesOfLiveFiles'
  BY DEF IInv, Keyed, KeyOf, Born, BytesOfLiveFiles, Live, Open
<1>4. Running'
  BY <1>1, Kinds DEF IInv, Running
<1>5. ASSUME NEW q \in Procs PROVE Proper(q, procs[q])'
  <2>1. CASE q = p
    <3>1. Proper(p, x)'
      BY DEF Proper, Reader, Restorer, Streamer, Uploader, Deleter, Sole, Lister, Knows, KeyOf, Born, Live, Open
    <3> QED BY <1>1, <2>1, <3>1
  <2>2. CASE q # p
    <3>1. \A f \in Live' : f \in Live /\ files'[f].key = files[f].key
      BY DEF Live
    <3> QED BY <1>1, <1>2, <2>2, <3>1, Others DEF Born, Open
  <2> QED BY <2>1, <2>2
<1>6. ASSUME NEW k \in blobs' PROVE Owned(k)'
  <2>1. k \in blobs /\ HeldBy(k)' = HeldBy(k)
    BY <1>6 DEF HeldBy, Live
  <2>2. CASE \E q \in Procs \ Purgers : q # p /\ Keeps(q, k)
    <3>1. PICK q \in Procs \ Purgers : q # p /\ Keeps(q, k)
      BY <2>2
    <3>2. Keeps(q, k)'
      BY <1>1, <3>1 DEF Keeps
    <3> QED BY <3>2 DEF Owned
  <2>3. CASE p \notin Purgers /\ Keeps(p, k)
    BY <1>1, <2>1, <2>3 DEF Owned, Keeps
  <2>4. CASE HeldBy(k) # {} \/ k \in leaked
    BY <2>1, <2>4 DEF Owned
  <2> QED BY <2>1, <2>2, <2>3, <2>4 DEF IInv, Owned
<1> QED BY <1>2, <1>3, <1>4, <1>5, <1>6 DEF IInv

(* A process that was not deleting anything comes to rest.                 *)
LEMMA Rests ==
    ASSUME IInv, NEW p \in Procs, NEW x \in Records, x.pc \in Pcs(p),
           x.pc \in {"idle", "next", "listed", "dropped", "restored"}, x.copy = None,
           p \in Purgers \union Restores => x.pc = "idle",
           procs[p].pc \notin {"unlinked", "sole", "streamed", "uploading"},
           procs' = [procs EXCEPT ![p] = x],
           UNCHANGED <<files, blobs, group, operations, leaked, gc>>
    PROVE  IInv'
<1>1. Proper(p, x)
  BY RestIsProper
<1>2. gc' \in [Collectors -> Collector]
  BY DEF IInv, Types
<1>3. operations' \in [Restores -> {"none", "pending", "running", "recent", "old", "gone"}]
  BY DEF IInv, Types, Tables
<1>4. \A k \in blobs : ~ Keeps(p, k)
  BY DEF Keeps
<1> QED BY <1>1, <1>2, <1>3, <1>4, Quiet

(* Only the purge of a group has a list of keys.                           *)
LEMMA Uncopied ==
    ASSUME IInv, NEW p \in Procs \ Purgers PROVE procs[p] \in Records /\ procs[p].copy = None
BY DEF IInv, Types, Processes, Proper, Lister

(* A call goes on to its next file, or ends.                               *)
LEMMA SettleType ==
    ASSUME IInv, NEW p \in Procs \ Purgers
    PROVE  /\ Settle(p) \in Records /\ Settle(p).copy = None
           /\ Settle(p).pc = "idle" \/ Settle(p).pc = "next"
<1>1. CASE procs[p].todo = {}
  BY <1>1, IdleType DEF Settle
<1>2. CASE procs[p].todo # {}
  <2> DEFINE x == [procs[p] EXCEPT !.pc = "next", !.file = Null, !.key = Null]
  <2>1. procs[p] \in Records /\ procs[p].copy = None
    BY Uncopied
  <2>2. x \in Records /\ x.copy = None /\ x.pc = "next"
    BY <2>1 DEF Records, Steps, Reading, Deleting
  <2> HIDE DEF x
  <2>3. Settle(p) = x
    BY <1>2 DEF Settle, x
  <2> QED BY <2>2, <2>3
<1> QED BY <1>1, <1>2

(* The next file to delete is read, or passed over.                        *)
LEMMA GetFileKeeps ==
    ASSUME IInv, NEW p \in Requests \union Collectors, GetFile(p),
           UNCHANGED gc
    PROVE  IInv'
<1>0. p \in Procs /\ p \notin Purgers /\ p \notin Restores
  BY Kinds
<1>1. /\ procs[p] \in Records /\ procs[p].copy = None /\ procs[p].pc = "next"
      /\ UNCHANGED <<files, blobs, group, operations, leaked>>
  BY <1>0, Uncopied DEF GetFile, tables, others
<1>2. "read" \in Pcs(p) /\ "idle" \in Pcs(p) /\ "next" \in Pcs(p)
  BY <1>0, Kinds DEF Pcs, Reading
<1>3. PICK f \in procs[p].todo :
        LET rest == [procs[p] EXCEPT !.todo = @ \ {f}] IN
        procs' = [procs EXCEPT ![p] =
            IF f \in Live
            THEN [rest EXCEPT !.pc = "read", !.file = f, !.key = files[f].key]
            ELSE IF rest.todo = {} THEN Idle ELSE rest]
  BY DEF GetFile
<1> DEFINE rest == [procs[p] EXCEPT !.todo = @ \ {f}]
           x == [rest EXCEPT !.pc = "read", !.file = f, !.key = files[f].key]
<1>4. CASE f \in Live
  <2>1. f \in Files /\ Born(f) /\ files[f].key \in Keys
    BY <1>4, LiveFiles DEF IInv
  <2>2. x \in Records /\ x.pc = "read" /\ x.file = f /\ x.key = files[f].key /\ x.copy = None
    BY <1>1, <2>1 DEF Records, Steps, Reading, Deleting
  <2>3. procs' = [procs EXCEPT ![p] = x]
    BY <1>3, <1>4
  <2> HIDE DEF x
  <2>4. Knows(x)
    BY <1>4, <2>2 DEF IInv, Keyed, Knows
  <2>5. Proper(p, x)
    BY <1>0, <2>2, <2>4
       DEF Proper, Reader, Restorer, Streamer, Uploader, Deleter, Sole, Lister, Reading, Deleting
  <2>6. \A k \in blobs : ~ Keeps(p, k)
    BY <1>1 DEF Keeps
  <2>7. gc' \in [Collectors -> Collector]
        /\ operations' \in [Restores -> {"none", "pending", "running", "recent", "old", "gone"}]
    BY <1>1 DEF IInv, Types, Tables
  <2> QED BY <1>0, <1>1, <1>2, <2>2, <2>3, <2>5, <2>6, <2>7, Quiet
<1>5. CASE f \notin Live /\ rest.todo = {}
  BY <1>0, <1>1, <1>2, <1>3, <1>5, IdleType, Rests
<1>6. CASE f \notin Live /\ rest.todo # {}
  <2>1. rest \in Records /\ rest.pc = "next" /\ rest.copy = None
    BY <1>1 DEF Records
  <2>2. procs' = [procs EXCEPT ![p] = rest]
    BY <1>3, <1>6
  <2> HIDE DEF rest
  <2> QED BY <1>0, <1>1, <1>2, <2>1, <2>2, Rests
<1> QED BY <1>4, <1>5, <1>6

(* A step of one process in the same list, all else as in Quiet.           *)
LEMMA ChainKeeps ==
    ASSUME IInv, NEW p \in Requests \union Collectors, DeleteThumbnailGenerationChain(p),
           UNCHANGED gc
    PROVE  IInv'
<1>0. p \in Procs /\ p \notin Purgers /\ p \notin Restores
  BY Kinds
<1> DEFINE x == [procs[p] EXCEPT !.pc = "unchained"]
<1>1. /\ procs[p] \in Records /\ procs[p].copy = None /\ procs[p].pc = "read"
      /\ UNCHANGED <<files, blobs, group, operations, leaked>>
      /\ procs' = [procs EXCEPT ![p] = x]
  BY <1>0, Uncopied DEF DeleteThumbnailGenerationChain, others
<1>2. /\ x \in Records /\ x.pc = "unchained" /\ x.copy = None
      /\ x.file = procs[p].file /\ x.key = procs[p].key
  BY <1>1 DEF Records, Steps, Reading, Deleting
<1>3. "unchained" \in Pcs(p)
  BY <1>0, Kinds DEF Pcs, Reading
<1>4. Knows(x)
  <2>1. Knows(procs[p])
    BY <1>0, <1>1 DEF IInv, Proper, Reader, Reading
  <2> HIDE DEF x
  <2> QED BY <1>2, <2>1 DEF Knows
<1> HIDE DEF x
<1>5. Proper(p, x)
  BY <1>0, <1>2, <1>4 DEF Proper, Reader, Restorer, Streamer, Uploader, Deleter, Sole, Lister, Reading, Deleting
<1>6. \A k \in blobs : ~ Keeps(p, k)
  BY <1>1 DEF Keeps
<1>7. gc' \in [Collectors -> Collector]
      /\ operations' \in [Restores -> {"none", "pending", "running", "recent", "old", "gone"}]
  BY <1>1 DEF IInv, Types, Tables
<1> QED BY <1>0, <1>1, <1>2, <1>3, <1>5, <1>6, <1>7, Quiet

(* Whether a key is shared is asked: who gets no for an answer is the only *)
(* one who can still delete the blob, as far as open groups go.            *)
LEMMA CheckSharedKeeps ==
    ASSUME IInv, NEW p \in Procs, CheckShared(p), UNCHANGED gc
    PROVE  IInv'
<1> DEFINE x == [procs[p] EXCEPT !.pc = IF Shared(p) THEN "shared" ELSE "sole"]
<1>1. /\ procs[p] \in Records /\ procs[p].pc = "unlinked" /\ Proper(p, procs[p])
      /\ UNCHANGED <<files, blobs, group, operations, leaked>>
      /\ procs' = [procs EXCEPT ![p] = x]
  BY DEF CheckShared, tables, others, IInv, Types, Processes
<1>2. /\ x \in Records /\ x.pc = (IF Shared(p) THEN "shared" ELSE "sole") /\ x.copy = procs[p].copy
      /\ x.file = procs[p].file /\ x.key = procs[p].key /\ x.todo = procs[p].todo
  BY <1>1 DEF Records, Steps, Reading, Deleting
<1> HIDE DEF x
<1>3. x.pc \in Pcs(p)
  BY <1>2 DEF Pcs, Deleting
<1>4. p \notin Purgers => (Shared(p) <=> HeldBy(procs[p].key) # {})
  <2>1. p \notin Purgers => DOMAIN procs[p].copy = {}
    BY <1>1, NoCopy DEF Proper, Lister
  <2> QED BY <2>1 DEF Shared
<1>5. Sole(x)
  <2>1. SUFFICES ASSUME ~ Shared(p), NEW f \in Live, Open(f), files[f].key = x.key PROVE FALSE
    BY <1>2 DEF Sole
  <2>2. f \in HeldBy(procs[p].key)
    BY <1>2, <2>1 DEF HeldBy
  <2>3. CASE p \notin Purgers
    BY <1>4, <2>1, <2>2, <2>3
  <2>4. CASE p \in Purgers
    BY <1>1, <2>1, <2>2, <2>4 DEF Shared, Proper, Lister, Open
  <2> QED BY <2>3, <2>4
<1>6. Proper(p, x)
  BY <1>1, <1>2, <1>5 DEF Proper, Reader, Restorer, Streamer, Uploader, Deleter, Lister, Reading, Deleting
<1>7. p \in Restores => operations[p] \in {"running", "gone"}
  BY <1>1 DEF IInv, Running
<1>8. \A k \in blobs : p \notin Purgers /\ Keeps(p, k) => HeldBy(k) # {} \/ (x.pc = "sole" /\ x.key = k)
  BY <1>1, <1>2, <1>4 DEF Keeps
<1>9. gc' \in [Collectors -> Collector]
      /\ operations' \in [Restores -> {"none", "pending", "running", "recent", "old", "gone"}]
  BY <1>1 DEF IInv, Types, Tables
<1> QED BY <1>1, <1>2, <1>3, <1>6, <1>7, <1>8, <1>9, Quiet

(* A process that stops leaves behind a key it had in hand.                *)
LEMMA StopKeeps ==
    ASSUME IInv, NEW p \in Procs, procs' = [procs EXCEPT ![p] = Idle],
           leaked' = leaked \union InHand(p),
           UNCHANGED <<files, blobs, group, operations>>,
           gc' \in [Collectors -> Collector]
    PROVE  IInv'
<1>1. Idle \in Records /\ Idle.pc = "idle" /\ Idle.copy = None
  BY IdleType
<1>2. Proper(p, Idle) /\ Idle.pc \in Pcs(p)
  BY <1>1, RestIsProper DEF Pcs
<1>3. operations' \in [Restores -> {"none", "pending", "running", "recent", "old", "gone"}]
  BY DEF IInv, Types, Tables
<1>4. \A k \in blobs : Keeps(p, k) => k \in leaked'
  BY DEF Keeps, InHand
<1> QED BY <1>1, <1>2, <1>3, <1>4, Quiet

(* A step that changes files or blobs is judged by what it does to them.   *)
LEMMA Moves ==
    ASSUME IInv, NEW p \in Procs, NEW x \in Records, x.pc \in Pcs(p),
           procs' = [procs EXCEPT ![p] = x],
           Proper(p, x)',
           Tables', gc' \in [Collectors -> Collector],
           Keyed', Running', BytesOfLiveFiles',
           \A f \in Files : Born(f) => Born(f)',
           \A f \in Live' :
              \/ f \in Live /\ files'[f].key = files[f].key
              \/ ~ Born(f) /\ files'[f].key = f
              \/ /\ f \in Copies /\ files'[f].key = Archived
                 /\ \A q \in Procs : q # p => procs[q].file \notin Copies,
           \A f \in Files : Open(f)' => Open(f),
           group # "active" => group' # "active",
           Archived \in blobs =>
              Archived \in blobs' \/ \A q \in Procs : q # p => procs[q].pc # "streamed",
           \A f \in Files : f \in blobs => f \in blobs' \/ Born(f),
           \A k \in blobs' : Owned(k)'
    PROVE  IInv'
<1>1. procs'[p] = x /\ \A q \in Procs : q # p => procs'[q] = procs[q]
  BY DEF IInv, Types, Processes
<1>2. Types'
  <2>1. procs' \in [Procs -> Records] /\ \A q \in Procs : procs'[q].pc \in Pcs(q)
    BY <1>1 DEF IInv, Types, Processes
  <2> QED BY <2>1 DEF Types, Processes, Pcs
<1>3. ASSUME NEW q \in Procs PROVE Proper(q, procs[q])'
  <2>1. CASE q = p
    BY <1>1, <2>1
  <2>2. CASE q # p
    BY <1>1, <1>2, <2>2, Others
  <2> QED BY <2>1, <2>2
<1> QED BY <1>2, <1>3 DEF IInv

(* The row of a file goes before its blob; whoever deleted it has the key. *)
LEMMA DeleteRowKeeps ==
    ASSUME IInv, NEW p \in Requests \union Collectors, DeleteRow(p), UNCHANGED gc
    PROVE  IInv'
<1>0. p \in Procs /\ p \notin Purgers /\ p \notin Restores
  BY Kinds
<1>1. /\ procs[p] \in Records /\ procs[p].copy = None /\ procs[p].pc = "unchained"
      /\ Knows(procs[p])
      /\ UNCHANGED <<blobs, group, operations, leaked>>
  BY <1>0, Uncopied DEF DeleteRow, others, IInv, Proper, Reader, Reading
<1>2. {"idle", "next", "unlinked"} \subseteq Pcs(p)
  BY <1>0, Kinds DEF Pcs, Deleting
<1>3. CASE procs' = [procs EXCEPT ![p] = Settle(p)] /\ files' = files
  BY <1>0, <1>1, <1>2, <1>3, SettleType, Rests
<1>4. CASE procs' = [procs EXCEPT ![p] = Idle] /\ files' = files
  BY <1>0, <1>1, <1>2, <1>4, IdleType, Rests
<1>5. CASE /\ procs[p].file \in Live /\ files' = [files EXCEPT ![procs[p].file] = Gone]
           /\ procs' = [procs EXCEPT ![p].pc = "unlinked"]
  <2>1. PICK x : x = [procs[p] EXCEPT !.pc = "unlinked"]
    OBVIOUS
  <2>2. /\ x \in Records /\ x.pc = "unlinked" /\ x.copy = None
        /\ x.file = procs[p].file /\ x.key = procs[p].key
    BY <1>1, <2>1 DEF Records, Steps, Reading, Deleting
  <2>3. PICK f : f = x.file
    OBVIOUS
  <2>4. f \in Live /\ f \in Files /\ files[f].key = x.key /\ KeyOf(f, x.key)
    BY <1>1, <1>5, <2>2, <2>3 DEF Knows, Live
  <2>5. procs' = [procs EXCEPT ![p] = x] /\ files' = [files EXCEPT ![f] = Gone]
    BY <1>5, <2>1, <2>2, <2>3
  <2>6. procs'[p] = x /\ \A q \in Procs : q # p => procs'[q] = procs[q]
    BY <1>0, <2>5 DEF IInv, Types, Processes
  <2>7. /\ files' \in [Files -> Rows \union {Unused, Gone}]
        /\ \A g \in Files : g # f => files'[g] = files[g]
        /\ files'[f] = Gone
    BY <2>4, <2>5 DEF IInv, Types, Tables
  <2>8. Live' = Live \ {f}
    BY <2>4, <2>7, GoneRows DEF Live
  <2>9. \A g \in Files : Born(g) => Born(g)'
    BY <2>7, GoneRows DEF Born
  <2>10. \A g \in Live' : g \in Live /\ files'[g].key = files[g].key
    BY <2>7, <2>8 DEF Live
  <2>11. Tables' /\ gc' \in [Collectors -> Collector]
    BY <1>1, <2>7 DEF IInv, Types, Tables
  <2>12. Keyed' /\ BytesOfLiveFiles'
    BY <1>1, <2>9, <2>10 DEF IInv, Keyed, KeyOf, BytesOfLiveFiles, Open, Born
  <2>13. Running'
    BY <1>0, <1>1, <2>6, Kinds DEF IInv, Running
  <2>14. Proper(p, x)'
    <3>1. x.key \in Keys /\ (x.key \in Files => Born(x.key)') /\ (x.key = Archived => x.file \in Copies)
      BY <2>2, <2>3, <2>4, <2>9, Names DEF KeyOf, Keys
    <3> QED BY <1>0, <2>2, <3>1
            DEF Proper, Reader, Restorer, Streamer, Uploader, Deleter, Sole, Lister, Reading, Deleting
  <2>15. ASSUME NEW k \in blobs' PROVE Owned(k)'
    <3>1. CASE k = x.key
      BY <1>0, <2>2, <2>6, <3>1 DEF Owned, Keeps
    <3>2. CASE k # x.key
      <4>1. HeldBy(k)' = HeldBy(k)
        BY <2>4, <2>8, <2>10, <3>2 DEF HeldBy
      <4>2. \A q \in Procs : Keeps(q, k) => Keeps(q, k)'
        BY <1>1, <2>6 DEF Keeps
      <4>3. k \in blobs /\ leaked' = leaked
        BY <1>1
      <4> QED BY <4>1, <4>2, <4>3 DEF IInv, Owned
    <3> QED BY <3>1, <3>2
  <2>16. /\ \A g \in Files : Open(g)' => Open(g)
         /\ group # "active" => group' # "active"
         /\ Archived \in blobs => Archived \in blobs'
         /\ \A g \in Files : g \in blobs => g \in blobs'
    BY <1>1 DEF Open
  <2> QED BY <1>0, <1>2, <2>2, <2>5, <2>9, <2>10, <2>11, <2>12, <2>13, <2>14, <2>15, <2>16, Moves
<1> QED BY <1>3, <1>4, <1>5 DEF DeleteRow

(* The blob goes after the answer that nobody else owns it; who could want *)
(* the archived one keeps away from its deleters.                          *)
LEMMA DeletePhysicalKeeps ==
    ASSUME IInv, Apart, NEW p \in Procs, DeletePhysicalFileAndThumbnails(p), UNCHANGED gc
    PROVE  IInv'
<1>1. /\ procs[p] \in Records /\ procs[p].pc \in {"shared", "sole"} /\ Proper(p, procs[p])
      /\ procs[p].key \in Keys
      /\ blobs' = IF procs[p].pc = "sole" THEN blobs \ {procs[p].key} ELSE blobs
      /\ UNCHANGED <<files, group, operations, leaked>>
  BY DEF DeletePhysicalFileAndThumbnails, others, IInv, Types, Processes, Proper, Deleter, Deleting
<1>2. PICK x : x = (IF p \in Restores THEN [procs[p] EXCEPT !.pc = "restored"]
                    ELSE IF p \in Purgers THEN [procs[p] EXCEPT !.pc = "purging"]
                    ELSE Settle(p))
  OBVIOUS
<1>3. procs' = [procs EXCEPT ![p] = x]
  BY <1>2 DEF DeletePhysicalFileAndThumbnails
<1>4. procs'[p] = x /\ \A q \in Procs : q # p => procs'[q] = procs[q]
  BY <1>3 DEF IInv, Types, Processes
<1>5. x \in Records /\ x.pc \in Pcs(p) /\ Proper(p, x)'
  <2>1. CASE p \in Restores
    <3>1. x \in Records /\ x.pc = "restored" /\ x.copy = None
      BY <1>1, <1>2, <2>1, Kinds, Uncopied DEF Records, Steps, Reading, Deleting
    <3>2. "restored" \in Pcs(p)
      BY <2>1, Kinds DEF Pcs
    <3> QED BY <2>1, <3>1, <3>2, Kinds, RestIsProper
  <2>2. CASE p \in Purgers
    <3>1. /\ x \in Records /\ x.pc = "purging"
          /\ x.copy = procs[p].copy /\ x.todo = procs[p].todo
      BY <1>1, <1>2, <2>2, Kinds DEF Records, Steps, Reading, Deleting
    <3>2. "purging" \in Pcs(p)
      BY <2>2, Kinds DEF Pcs
    <3>3. Proper(p, x)'
      BY <1>1, <2>2, <3>1
         DEF Proper, Reader, Restorer, Streamer, Uploader, Deleter, Sole, Lister, Reading, Deleting, KeyOf, Born
    <3> QED BY <3>1, <3>2, <3>3
  <2>3. CASE p \notin Restores /\ p \notin Purgers
    <3>1. x \in Records /\ x.copy = None /\ x.pc \in {"idle", "next"}
      BY <1>2, <2>3, SettleType
    <3>2. {"idle", "next"} \subseteq Pcs(p)
      BY <2>3 DEF Pcs
    <3> QED BY <2>3, <3>1, <3>2, RestIsProper
  <2> QED BY <2>1, <2>2, <2>3
<1>6. Tables' /\ gc' \in [Collectors -> Collector]
  BY <1>1 DEF IInv, Types, Tables
<1>7. /\ Keyed'
      /\ \A f \in Files : Born(f) => Born(f)'
      /\ \A f \in Files : Open(f)' => Open(f)
      /\ group # "active" => group' # "active"
      /\ \A f \in Live' : f \in Live /\ files'[f].key = files[f].key
  BY <1>1 DEF IInv, Keyed, KeyOf, Born, Live, Open
<1>8. BytesOfLiveFiles'
  BY <1>1 DEF IInv, BytesOfLiveFiles, Live, Open, Proper, Sole
<1>9. Running'
  BY <1>1, <1>4, Kinds DEF IInv, Running
<1>10. ASSUME Archived \in blobs, Archived \notin blobs', NEW q \in Procs, q # p
       PROVE  procs[q].pc # "streamed"
  <2>1. procs[p].file \in Copies
    BY <1>1, <1>10 DEF Proper, Deleter, Deleting
  <2>2. procs[q].pc = "streamed" => q \in Restores
    BY DEF IInv, Types, Processes, Pcs, Reading, Deleting
  <2> QED BY <1>10, <2>1, <2>2 DEF Apart
<1>11. ASSUME NEW k \in blobs' PROVE Owned(k)'
  <2>1. k \in blobs /\ HeldBy(k)' = HeldBy(k) /\ leaked' = leaked /\ ~ Keeps(p, k)
    BY <1>1, <1>11 DEF HeldBy, Live, Keeps
  <2>2. \A q \in Procs : Keeps(q, k) => Keeps(q, k)'
    BY <1>4, <2>1 DEF Keeps
  <2> QED BY <2>1, <2>2 DEF IInv, Owned
<1>12. \A f \in Files : f \in blobs => f \in blobs' \/ Born(f)
  BY <1>1 DEF Proper, Deleter, Deleting
<1> QED BY <1>3, <1>5, <1>6, <1>7, <1>8, <1>9, <1>10, <1>11, <1>12, Moves

(* All of DeleteFileWithPhysical.                                          *)
LEMMA DeleteFileKeeps ==
    ASSUME IInv, Apart, NEW p \in Requests \union Collectors, DeleteFileWithPhysical(p), UNCHANGED gc
    PROVE  IInv'
BY Kinds, GetFileKeeps, ChainKeeps, DeleteRowKeeps, CheckSharedKeeps, DeletePhysicalKeeps
   DEF DeleteFileWithPhysical

(* A step in which no process moves: rows and blobs may come, none goes.   *)
LEMMA Stays ==
    ASSUME IInv, procs' = procs, Tables', gc' \in [Collectors -> Collector], Running',
           \A f \in Files : Born(f) => Born(f)',
           \A f \in Live : f \in Live',
           \A f \in Live' :
              \/ f \in Live /\ files'[f].key = files[f].key
              \/ ~ Born(f) /\ files'[f].key = f /\ f \in blobs',
           \A f \in Files : Open(f)' => Open(f),
           group # "active" => group' # "active",
           leaked \subseteq leaked', blobs \subseteq blobs',
           \A k \in blobs' : k \in blobs \/ HeldBy(k)' # {}
    PROVE  IInv'
<1>1. Live' \subseteq Files /\ Live \subseteq Files
  BY DEF Live
<1>2. Types'
  <2>1. Processes'
    BY DEF IInv, Types, Processes, Pcs
  <2> QED BY <2>1 DEF Types
<1>3. ASSUME NEW f \in Live' PROVE KeyOf(f, files[f].key)'
  <2>1. CASE f \in Live /\ files'[f].key = files[f].key
    BY <1>1, <2>1 DEF IInv, Keyed, KeyOf
  <2>2. CASE ~ Born(f) /\ files'[f].key = f
    <3>1. f \in Files /\ Born(f)'
      BY <1>1 DEF Born, Live, Unused
    <3> QED BY <2>2, <3>1, Names DEF KeyOf
  <2> QED BY <2>1, <2>2
<1>4. BytesOfLiveFiles'
  BY <1>1 DEF IInv, BytesOfLiveFiles
<1>5. ASSUME NEW q \in Procs PROVE Proper(q, procs[q])'
  BY <1>1, <1>2, Others DEF Live
<1>6. ASSUME NEW k \in blobs' PROVE Owned(k)'
  <2>1. CASE k \in blobs /\ HeldBy(k) # {}
    <3>1. PICK f \in Live : files[f].key = k
      BY <2>1 DEF HeldBy
    <3>2. Born(f)
      BY <3>1, LiveFiles DEF IInv
    <3>3. f \in HeldBy(k)'
      BY <3>1, <3>2 DEF HeldBy
    <3> QED BY <3>3 DEF Owned
  <2>2. CASE k \in blobs /\ HeldBy(k) = {}
    <3>1. \A q \in Procs : Keeps(q, k) => Keeps(q, k)'
      BY DEF Keeps
    <3>2. Owned(k)
      BY <2>2 DEF IInv
    <3> QED BY <2>2, <3>1, <3>2 DEF Owned
  <2>3. CASE HeldBy(k)' # {}
    BY <2>3 DEF Owned
  <2> QED BY <2>1, <2>2, <2>3
<1> QED BY <1>2, <1>3, <1>4, <1>5, <1>6 DEF IInv, Keyed

(* No process moves and no row or blob comes or goes.                      *)
LEMMA Idles ==
    ASSUME IInv, UNCHANGED <<procs, blobs, leaked>>,
           Tables', gc' \in [Collectors -> Collector], Running',
           \A f \in Files : files'[f].key = files[f].key /\ (Born(f) => Born(f)'),
           group' = group \/ (group = "active" /\ group' # "active")
    PROVE  IInv'
<1>1. Live' = Live
  BY DEF Live
<1>2. \A f \in Files : Open(f)' => Open(f)
  BY DEF Open
<1> QED BY <1>1, <1>2, Stays DEF Live

(* An upload first brings the blob ...                                     *)
LEMMA SaveFileKeeps ==
    ASSUME IInv, NEW p \in Requests, NEW f \in Files, SaveFile(p, f), UNCHANGED gc
    PROVE  IInv'
<1>0. p \in Procs /\ p \notin Purgers /\ p \notin Restores
  BY Kinds
<1>1. PICK x : x = [Idle EXCEPT !.pc = "uploading", !.key = f]
  OBVIOUS
<1>2. x \in Records /\ x.pc = "uploading" /\ x.key = f /\ x.copy = None
  BY <1>1, IdleType, Names DEF Records, Steps, Reading, Deleting
<1>3. /\ procs' = [procs EXCEPT ![p] = x] /\ procs[p].pc = "idle"
      /\ blobs' = blobs \union {f}
      /\ UNCHANGED <<files, group, operations, leaked, gc>>
  BY <1>1 DEF SaveFile, others
<1>4. procs'[p] = x /\ \A q \in Procs : q # p => procs'[q] = procs[q]
  BY <1>0, <1>3 DEF IInv, Types, Processes
<1>5. x.pc \in Pcs(p)
  BY <1>2 DEF Pcs
<1>6. Proper(p, x)'
  BY <1>0, <1>2, <1>3
     DEF Proper, Reader, Restorer, Streamer, Uploader, Deleter, Sole, Lister, Reading, Deleting
<1>7. Tables' /\ gc' \in [Collectors -> Collector]
  BY <1>3, Names DEF IInv, Types, Tables
<1>8. Keyed' /\ BytesOfLiveFiles'
  BY <1>3 DEF IInv, Keyed, KeyOf, Born, BytesOfLiveFiles, Live, Open
<1>9. Running'
  BY <1>0, <1>3, <1>4, Kinds DEF IInv, Running
<1>10. /\ \A g \in Files : Born(g) => Born(g)'
       /\ \A g \in Live' : g \in Live /\ files'[g].key = files[g].key
       /\ \A g \in Files : Open(g)' => Open(g)
       /\ group # "active" => group' # "active"
       /\ blobs \subseteq blobs'
  BY <1>3 DEF Born, Live, Open
<1>11. ASSUME NEW k \in blobs' PROVE Owned(k)'
  <2>1. CASE k = f
    BY <1>0, <1>2, <1>4, <2>1 DEF Owned, Keeps
  <2>2. CASE k # f
    <3>1. k \in blobs /\ HeldBy(k)' = HeldBy(k) /\ leaked' = leaked
      BY <1>3, <1>11, <2>2 DEF HeldBy, Live
    <3>2. \A q \in Procs : Keeps(q, k) => Keeps(q, k)'
      BY <1>3, <1>4 DEF Keeps
    <3> QED BY <3>1, <3>2 DEF IInv, Owned
  <2> QED BY <2>1, <2>2
<1> QED BY <1>0, <1>2, <1>3, <1>5, <1>6, <1>7, <1>8, <1>9, <1>10, <1>11, Moves

(* ... then the row, whose bytes nobody has taken, for nobody knew the key.*)
LEMMA UploadFileKeeps ==
    ASSUME IInv, NEW p \in Requests, UploadFile(p), UNCHANGED gc
    PROVE  IInv'
<1>0. p \in Procs /\ p \notin Purgers /\ p \notin Restores
  BY Kinds
<1>1. PICK f : f = procs[p].key
  OBVIOUS
<1>2. /\ procs' = [procs EXCEPT ![p] = Idle] /\ procs[p].pc = "uploading"
      /\ ~ Born(f) /\ files[f] = Unused
      /\ files' = [files EXCEPT ![f] = [link |-> Null, key |-> f, old |-> FALSE]]
      /\ UNCHANGED <<blobs, group, operations, leaked, gc>>
  BY <1>1 DEF UploadFile, Born, others
<1>3. f \in Files /\ f \in blobs
  BY <1>0, <1>1, <1>2 DEF IInv, Proper, Uploader
<1>4. procs'[p] = Idle /\ \A q \in Procs : q # p => procs'[q] = procs[q]
  BY <1>0, <1>2 DEF IInv, Types, Processes
<1>5. /\ files' \in [Files -> Rows \union {Unused, Gone}]
      /\ files'[f] = [link |-> Null, key |-> f, old |-> FALSE]
      /\ \A g \in Files : g # f => files'[g] = files[g]
  BY <1>2, <1>3, Names DEF IInv, Types, Tables, Rows
<1>6. files'[f].key = f /\ f # Null /\ f \in Live'
  BY <1>3, <1>5, Names DEF Live
<1>7. Idle \in Records /\ Idle.pc \in Pcs(p) /\ Proper(p, Idle)'
  BY <1>0, IdleType, RestIsProper DEF Pcs
<1>8. Tables' /\ gc' \in [Collectors -> Collector]
  BY <1>2, <1>5 DEF IInv, Types, Tables
<1>9. Running'
  BY <1>0, <1>2, <1>4, Kinds DEF IInv, Running
<1>10. Born(f)'
  BY <1>3, <1>6 DEF Born, Unused
<1>11. \A g \in Files : Born(g) => Born(g)'
  BY <1>5, <1>10 DEF Born
<1>12. \A g \in Live' : g # f => g \in Live /\ files'[g].key = files[g].key
  BY <1>5 DEF Live
<1>13. ASSUME NEW g \in Live' PROVE KeyOf(g, files[g].key)'
  <2>1. CASE g = f
    BY <1>3, <1>6, <1>10, <2>1, Names DEF KeyOf
  <2>2. CASE g # f
    BY <1>11, <1>12, <2>2 DEF IInv, Keyed, KeyOf, Born
  <2> QED BY <2>1, <2>2
<1>14. BytesOfLiveFiles'
  <2> SUFFICES ASSUME NEW g \in Live', Open(g)' PROVE files'[g].key \in blobs'
    BY DEF BytesOfLiveFiles
  <2>1. CASE g = f
    BY <1>2, <1>3, <1>6, <2>1
  <2>2. CASE g # f
    BY <1>2, <1>12, <2>2 DEF IInv, BytesOfLiveFiles, Open
  <2> QED BY <2>1, <2>2
<1>15. ASSUME NEW k \in blobs' PROVE Owned(k)'
  <2>1. CASE k = f
    BY <1>6, <2>1 DEF Owned, HeldBy
  <2>2. CASE k # f
    <3>1. k \in blobs /\ leaked' = leaked
      BY <1>2
    <3>2. \A q \in Procs : Keeps(q, k) => Keeps(q, k)'
      BY <1>1, <1>2, <1>4, <2>2 DEF Keeps
    <3>3. \A g \in Live : g \in Live' /\ files'[g].key = files[g].key
      BY <1>2, <1>5, <1>6 DEF Live, Unused
    <3>4. HeldBy(k) # {} => HeldBy(k)' # {}
      BY <3>3 DEF HeldBy
    <3> QED BY <3>1, <3>2, <3>4 DEF IInv, Owned
  <2> QED BY <2>1, <2>2
<1>16. /\ \A g \in Files : Open(g)' => Open(g)
       /\ group # "active" => group' # "active"
       /\ blobs \subseteq blobs'
       /\ \A g \in Live' :
             \/ g \in Live /\ files'[g].key = files[g].key
             \/ ~ Born(g) /\ files'[g].key = g
  BY <1>2, <1>6, <1>12 DEF Open
<1>17. Keyed'
  <2> SUFFICES ASSUME NEW g \in Live' PROVE KeyOf(g, files[g].key)'
    BY DEF Keyed
  <2> QED BY <1>13
<1> QED BY <1>0, <1>2, <1>7, <1>8, <1>9, <1>11, <1>14, <1>15, <1>16, <1>17, Moves

(* The group is closed.                                                    *)
LEMMA InitiateGroupDeletionKeeps ==
    ASSUME IInv, InitiateGroupDeletion, UNCHANGED gc
    PROVE  IInv'
BY Idles DEF InitiateGroupDeletion, tables, IInv, Types, Tables, Running, Born

(* A restore that nobody runs yet, or whose record is deleted.             *)
LEMMA RequestRestoreKeeps ==
    ASSUME IInv, NEW r \in Restores, RequestRestore(r) \/ DeleteExportRestore(r), UNCHANGED gc
    PROVE  IInv'
<1>1. UNCHANGED <<files, blobs, procs, group, leaked>>
  BY DEF RequestRestore, DeleteExportRestore, tables
<1>2. Tables' /\ Running'
  BY DEF RequestRestore, DeleteExportRestore, tables, IInv, Types, Tables, Running
<1>3. gc' \in [Collectors -> Collector]
  BY DEF IInv, Types
<1> QED BY <1>1, <1>2, <1>3, Idles DEF Born

(* Thumbnails are nobody's blobs.                                          *)
LEMMA ThumbnailsKeep ==
    ASSUME IInv, ThumbnailNext, UNCHANGED gc
    PROVE  IInv'
<1>1. UNCHANGED <<files, blobs, operations, group, procs, leaked>>
  BY DEF ThumbnailNext, RequestThumbnailGeneration, CleanupCompletedJobs, ReadOriginal,
         WriteThumbnails, others, tables
<1>2. Tables' /\ Running' /\ gc' \in [Collectors -> Collector]
  BY <1>1 DEF IInv, Types, Tables, Running
<1> QED BY <1>1, <1>2, Idles DEF Born

(* Files grow old.                                                         *)
LEMMA TimeKeeps ==
    ASSUME IInv, TimePasses
    PROVE  IInv'
<1>1. UNCHANGED <<blobs, group, procs, leaked, gc>>
  BY DEF TimePasses, ThreeDaysPass
<1>2. ASSUME NEW f \in Files
      PROVE  files'[f] \in Rows \union {Unused, Gone} /\ files'[f].key = files[f].key /\ (Born(f) => Born(f)')
  <2>1. files'[f] = IF f \in Live THEN [files[f] EXCEPT !.old = TRUE] ELSE files[f]
    BY DEF TimePasses, ThreeDaysPass
  <2>2. CASE f \in Live
    <3>1. files[f] \in Rows
      BY <2>2, LiveFiles DEF IInv
    <3>2. files'[f] \in Rows /\ files'[f].key = files[f].key
      BY <2>1, <2>2, <3>1 DEF Rows
    <3>3. files'[f] # Unused
      BY <3>2, Names DEF Rows, Unused
    <3> QED BY <3>2, <3>3 DEF Born
  <2>3. CASE f \notin Live
    BY <2>1, <2>3 DEF IInv, Types, Tables, Born
  <2> QED BY <2>2, <2>3
<1>3. Running' /\ operations' \in [Restores -> {"none", "pending", "running", "recent", "old", "gone"}]
  BY DEF TimePasses, ThreeDaysPass, IInv, Types, Tables, Running
<1>4. files' \in [Files -> Rows \union {Unused, Gone}]
  <2>1. files' = [f \in Files |-> IF f \in Live THEN [files[f] EXCEPT !.old = TRUE] ELSE files[f]]
    BY DEF TimePasses, ThreeDaysPass
  <2> QED BY <1>2, <2>1
<1>5. Tables' /\ gc' \in [Collectors -> Collector]
  BY <1>1, <1>3, <1>4 DEF IInv, Types, Tables
<1> QED BY <1>1, <1>2, <1>3, <1>5, Idles

(* A listing that is cut off resumes at a file: the last one it has, for   *)
(* it has one.                                                             *)
LEMMA ResumesAtFile ==
    ASSUME NEW after \in SUBSET Files
    PROVE  Resume(First(ThumbBudget, after), after) \in Files \union {0}
<1> DEFINE listed == First(ThumbBudget, after)
<1>1. SUFFICES ASSUME listed # after PROVE Max(listed) \in Files
  BY DEF Resume
<1>2. listed \subseteq after /\ after \subseteq Nat /\ IsFiniteSet(after) /\ after # {}
  BY <1>1, FS_Subset DEF First
<1>3. listed # {}
  <2>1. PICK f \in after : \A g \in after : g >= f
    BY <1>2, Extremes
  <2>2. {g \in after : g < f} = {}
    <3>1. \A g \in after : g \in Nat /\ f \in Nat /\ g >= f
      BY <1>2, <2>1
    <3>2. \A g \in after : ~ (g < f)
      BY <3>1
    <3> QED BY <3>2
  <2>3. Cardinality({g \in after : g < f}) = 0
    BY <2>2, FS_EmptySet
  <2>4. f \in listed
    BY <2>1, <2>3, OrphanFileGCAssumption DEF First
  <2> QED BY <2>4
<1> HIDE DEF listed
<1>4. \E x \in listed : \A y \in listed : x >= y
  BY <1>2, <1>3, Extremes, FS_Subset
<1>5. Max(listed) \in listed
  BY <1>4 DEF Max
<1> QED BY <1>2, <1>5

(* What the collector writes down between two deletes.                     *)
LEMMA CollectorType ==
    ASSUME files \in [Files -> Rows \union {Unused, Gone}], gc \in [Collectors -> Collector],
           NEW c \in Collectors,
           \/ BeginTick(c) \/ ListOrphanCandidates(c) \/ EndPage(c) \/ SweepRowCandidate(c)
           \/ ListAgedThumbnails(c) \/ LiveFileIDs(c) \/ ProbeThumbnail(c) \/ DeleteThumbnail(c)
           \/ Restart(c)
    PROVE  gc' \in [Collectors -> Collector]
<1>1. gc[c] \in Collector
  OBVIOUS
<1>2. SUFFICES \E g \in Collector : gc' = [gc EXCEPT ![c] = g]
  BY <1>1
<1>3. CASE BeginTick(c)
  <2>1. [gc[c] EXCEPT !.pc = "rows", !.blocked = InFlight, !.scanned = 0] \in Collector
    BY <1>1 DEF Collector, InFlight
  <2> QED BY <1>3, <2>1 DEF BeginTick
<1>4. CASE ListOrphanCandidates(c)
  <2> DEFINE after == {f \in Orphans : files[f].old /\ f > gc[c].cursor}
             page  == First(PageSize, after)
             rows  == {[id |-> f, link |-> files[f].link, key |-> files[f].key] : f \in page}
             next  == [gc[c] EXCEPT !.page = rows,
                          !.short = Cardinality(page) < PageSize,
                          !.cursor = IF page = {} THEN 0 ELSE @,
                          !.pc = IF page = {} THEN "thumbnails" ELSE "page"]
  <2>1. gc' = [gc EXCEPT ![c] = next]
    BY <1>4 DEF ListOrphanCandidates
  <2>2. rows \subseteq Candidates
    <3>1. \A f \in page : f \in Live /\ files[f].link \in Entities
      BY DEF First, Orphans
    <3>2. \A f \in page : f \in Files /\ files[f].key \in Keys
      BY <3>1, LiveRows
    <3> HIDE DEF page
    <3> QED BY <3>1, <3>2 DEF Candidates
  <2>3. (Cardinality(page) < PageSize) \in BOOLEAN
    OBVIOUS
  <2> HIDE DEF rows, page
  <2>4. next \in Collector
    BY <1>1, <2>2, <2>3 DEF Collector
  <2> QED BY <2>1, <2>4
<1>5. CASE EndPage(c)
  <2>1. [gc[c] EXCEPT !.cursor = IF gc[c].short THEN 0 ELSE @,
           !.pc = IF gc[c].short \/ gc[c].scanned >= RowBudget THEN "thumbnails" ELSE "rows"]
          \in Collector
    BY <1>1 DEF Collector
  <2> QED BY <1>5, <2>1 DEF EndPage
<1>6. CASE SweepRowCandidate(c)
  <2>1. PICK row \in gc[c].page :
          \/ gc' = [gc EXCEPT ![c] = Abort(c, row.id)]
          \/ gc' = [gc EXCEPT ![c].page = @ \ {row}, ![c].cursor = row.id, ![c].scanned = @ + 1]
    BY <1>6 DEF SweepRowCandidate
  <2>2. row.id \in Files
    BY <1>1 DEF Collector, Candidates
  <2>3. Abort(c, row.id) \in Collector
    BY <1>1, <2>2 DEF Abort, Collector
  <2>4. [gc[c] EXCEPT !.page = @ \ {row}, !.cursor = row.id, !.scanned = @ + 1] \in Collector
    <3>1. gc[c].scanned + 1 \in Nat /\ gc[c].page \ {row} \subseteq Candidates
      BY <1>1 DEF Collector
    <3>2. PICK n, rows : n = gc[c].scanned + 1 /\ rows = gc[c].page \ {row}
      OBVIOUS
    <3>3. [gc[c] EXCEPT !.page = rows, !.cursor = row.id, !.scanned = n] \in Collector
      BY <1>1, <2>2, <3>1, <3>2 DEF Collector
    <3> QED BY <3>2, <3>3
  <2> QED BY <1>1, <2>1, <2>3, <2>4
<1>7. CASE ListAgedThumbnails(c)
  <2> DEFINE after  == {f \in Files : thumbs[f] # "none" /\ f > gc[c].thumbCursor}
             listed == First(ThumbBudget, after)
             aged   == {f \in listed : thumbs[f] = "old"}
             next   == [gc[c] EXCEPT
                           !.thumbCursor = IF gc[c].blocked THEN @ ELSE Resume(listed, after),
                           !.keys = IF gc[c].blocked THEN {} ELSE aged,
                           !.pc = IF gc[c].blocked \/ aged = {} THEN "idle" ELSE "keys"]
  <2>1. gc' = [gc EXCEPT ![c] = next]
    BY <1>7 DEF ListAgedThumbnails
  <2>2. listed \subseteq Files /\ aged \subseteq Files
    BY DEF First
  <2> HIDE DEF aged
  <2>3. Resume(listed, after) \in Files \union {0}
    BY ResumesAtFile
  <2> HIDE DEF listed, after
  <2>4. next \in Collector
    BY <1>1, <2>2, <2>3 DEF Collector
  <2> QED BY <2>1, <2>4
<1>8. CASE LiveFileIDs(c)
  <2>1. [gc[c] EXCEPT !.keys = @ \ Live, !.pc = IF gc[c].keys \subseteq Live THEN "idle" ELSE "rowless"]
          \in Collector
    BY <1>1 DEF Collector
  <2> QED BY <1>8, <2>1 DEF LiveFileIDs
<1>9. ASSUME NEW f \in Files PROVE Leave(c, f) \in Collector
  BY <1>1 DEF Leave, Collector
<1>10. CASE ProbeThumbnail(c)
  <2>1. PICK f \in gc[c].keys :
          \/ gc' = [gc EXCEPT ![c].thumbCursor = f, ![c].keys = {}, ![c].pc = "idle"]
          \/ gc' = [gc EXCEPT ![c] = Leave(c, f)]
          \/ gc' = [gc EXCEPT ![c].pc = "thumbnail"]
    BY <1>10 DEF ProbeThumbnail
  <2>2. f \in Files
    BY <1>1 DEF Collector
  <2>3. [gc[c] EXCEPT !.thumbCursor = f, !.keys = {}, !.pc = "idle"] \in Collector
    BY <1>1, <2>2 DEF Collector
  <2>4. [gc[c] EXCEPT !.pc = "thumbnail"] \in Collector
    BY <1>1 DEF Collector
  <2> QED BY <1>1, <1>9, <2>1, <2>2, <2>3, <2>4
<1>11. CASE DeleteThumbnail(c)
  <2>1. PICK f \in gc[c].keys : gc' = [gc EXCEPT ![c] = Leave(c, f)]
    BY <1>11 DEF DeleteThumbnail
  <2> QED BY <1>1, <1>9, <2>1 DEF Collector
<1>12. CASE Restart(c)
  <2>1. Begun \in Collector
    BY DEF Collector, Begun
  <2> QED BY <1>12, <2>1 DEF Restart
<1> QED BY <1>3, <1>4, <1>5, <1>6, <1>7, <1>8, <1>10, <1>11, <1>12

(* A collector that looks, or goes on to the next.                         *)
LEMMA LookingKeeps ==
    ASSUME IInv, NEW c \in Collectors,
           \/ BeginTick(c) \/ ListOrphanCandidates(c) \/ EndPage(c)
           \/ ListAgedThumbnails(c) \/ LiveFileIDs(c) \/ ProbeThumbnail(c) \/ DeleteThumbnail(c)
    PROVE  IInv'
<1>1. UNCHANGED <<files, blobs, operations, group, procs, leaked>>
  BY DEF BeginTick, ListOrphanCandidates, EndPage, ListAgedThumbnails, LiveFileIDs,
         ProbeThumbnail, DeleteThumbnail, store, tables, others
<1>2. Tables' /\ Running' /\ gc' \in [Collectors -> Collector]
  BY <1>1, CollectorType DEF IInv, Types, Tables, Running
<1> QED BY <1>1, <1>2, Idles DEF Born

(* A collector that passes a candidate over, or begins to delete it.       *)
LEMMA SweepRowCandidateKeeps ==
    ASSUME IInv, NEW c \in Collectors, SweepRowCandidate(c)
    PROVE  IInv'
<1>1. /\ UNCHANGED <<files, blobs, operations, group, leaked>>
      /\ procs[c].pc = "idle"
  BY DEF SweepRowCandidate, tables, others
<1>2. gc' \in [Collectors -> Collector]
  BY CollectorType DEF IInv, Types, Tables
<1>3. CASE procs' = procs
  <2>1. Tables' /\ Running'
    BY <1>1, <1>3 DEF IInv, Types, Tables, Running
  <2> QED BY <1>1, <1>2, <1>3, <2>1, Idles DEF Born
<1>4. CASE procs' # procs
  <2>1. PICK row \in gc[c].page :
          procs' = [procs EXCEPT ![c] = [Idle EXCEPT !.pc = "next", !.todo = {row.id}]]
    BY <1>4 DEF SweepRowCandidate
  <2>2. PICK x : x = [Idle EXCEPT !.pc = "next", !.todo = {row.id}]
    OBVIOUS
  <2>3. row.id \in Files
    BY DEF IInv, Types, Collector, Candidates
  <2>4. x \in Records /\ x.pc = "next" /\ x.copy = None
    BY <2>2, <2>3, IdleType DEF Records, Steps, Reading, Deleting
  <2>5. c \in Procs /\ c \notin Restores /\ x.pc \in Pcs(c) /\ Proper(c, x)
    BY <2>4, Kinds, RestIsProper DEF Pcs
  <2>6. \A k \in blobs : ~ Keeps(c, k)
    BY <1>1 DEF Keeps
  <2>7. operations' \in [Restores -> {"none", "pending", "running", "recent", "old", "gone"}]
    BY <1>1 DEF IInv, Types, Tables
  <2> QED BY <1>1, <1>2, <2>1, <2>2, <2>4, <2>5, <2>6, <2>7, Quiet
<1> QED BY <1>3, <1>4

(* The process of a collector dies.                                        *)
LEMMA RestartKeeps ==
    ASSUME IInv, NEW c \in Collectors, Restart(c)
    PROVE  IInv'
<1>1. c \in Procs /\ procs[c].pc # "streamed"
  BY Kinds DEF IInv, Types, Processes, Pcs, Reading, Deleting
<1>2. gc' \in [Collectors -> Collector]
  BY CollectorType DEF IInv, Types, Tables
<1> QED BY <1>1, <1>2, StopKeeps DEF Restart, tables, others

(* Everything a collector does.                                            *)
LEMMA CollectorKeeps ==
    ASSUME IInv, Apart, NEW c \in Collectors, Sweep(c) \/ Restart(c)
    PROVE  IInv'
BY LookingKeeps, SweepRowCandidateKeeps, RestartKeeps, DeleteFileKeeps DEF Sweep

(* A process stops in the middle of a call.                                *)
LEMMA AbandonKeeps ==
    ASSUME IInv, NEW p \in Procs, Abandon(p), UNCHANGED gc
    PROVE  IInv'
<1>1. gc' \in [Collectors -> Collector]
  BY DEF IInv, Types
<1> QED BY <1>1, StopKeeps DEF Abandon, tables, others

(* The handler of an update knows the key of the row it has read.          *)
LEMMA BeginUpdateFileKeeps ==
    ASSUME IInv, NEW p \in Requests, NEW f \in Files, NEW e \in Entities \union {Null},
           BeginUpdateFile(p, f, e), UNCHANGED gc
    PROVE  IInv'
<1>0. p \in Procs /\ p \notin Purgers /\ p \notin Restores
  BY Kinds
<1>1. /\ UNCHANGED <<files, blobs, operations, group, leaked>>
      /\ procs[p].pc = "idle" /\ f \in Live
  BY DEF BeginUpdateFile, tables, others
<1>2. PICK x : x = [Idle EXCEPT !.pc = "editing", !.file = f, !.key = files[f].key, !.link = e]
  OBVIOUS
<1>3. procs' = [procs EXCEPT ![p] = x]
  BY <1>2 DEF BeginUpdateFile
<1>4. files[f].key \in Keys
  BY <1>1, LiveFiles DEF IInv
<1>5. x \in Records /\ x.pc = "editing" /\ x.copy = None /\ x.file = f /\ x.key = files[f].key
  BY <1>2, <1>4, IdleType DEF Records, Steps, Reading, Deleting
<1>6. Knows(x)
  BY <1>1, <1>5 DEF Knows, IInv, Keyed
<1>7. Proper(p, x) /\ x.pc \in Pcs(p)
  BY <1>0, <1>5, <1>6
     DEF Proper, Reader, Restorer, Streamer, Uploader, Deleter, Sole, Lister, Reading, Deleting, Pcs
<1>8. \A k \in blobs : ~ Keeps(p, k)
  BY <1>1 DEF Keeps
<1>9. gc' \in [Collectors -> Collector]
      /\ operations' \in [Restores -> {"none", "pending", "running", "recent", "old", "gone"}]
  BY <1>1 DEF IInv, Types, Tables
<1> QED BY <1>0, <1>1, <1>3, <1>5, <1>7, <1>8, <1>9, Quiet

(* It writes the row back with the key it had.                             *)
LEMMA UpdateFileKeeps ==
    ASSUME IInv, NEW p \in Requests, UpdateFile(p), UNCHANGED gc
    PROVE  IInv'
<1>0. p \in Procs /\ p \notin Purgers /\ p \notin Restores
  BY Kinds
<1>1. /\ procs[p] \in Records /\ procs[p].pc = "editing" /\ Knows(procs[p])
      /\ UNCHANGED <<blobs, group, operations, leaked>>
      /\ procs' = [procs EXCEPT ![p] = Idle]
  BY <1>0, Uncopied DEF UpdateFile, others, IInv, Proper, Reader
<1>2. PICK f, row : f = procs[p].file
          /\ row = [link |-> procs[p].link, key |-> procs[p].key, old |-> FALSE]
  OBVIOUS
<1>3. files' = IF f \in Live THEN [files EXCEPT ![f] = row] ELSE files
  BY <1>2 DEF UpdateFile
<1>4. f \in Live => f \in Files /\ row \in Rows /\ row.key = files[f].key /\ row # Unused
  <2>1. SUFFICES ASSUME f \in Live PROVE f \in Files /\ row \in Rows /\ row.key = files[f].key /\ row # Unused
    OBVIOUS
  <2>2. f \in Files /\ files[f].key \in Keys /\ row.key = files[f].key
    BY <1>1, <1>2, <2>1, LiveFiles DEF IInv, Knows
  <2>3. row \in Rows
    BY <1>1, <1>2, <2>2 DEF Rows, Records
  <2>4. row # Unused
    BY <2>2, Names DEF Unused
  <2> QED BY <2>2, <2>3, <2>4
<1>5. /\ files' \in [Files -> Rows \union {Unused, Gone}]
      /\ \A g \in Files : files'[g].key = files[g].key /\ (Born(g) => Born(g)')
  <2>1. CASE f \in Live
    <3>1. /\ files' \in [Files -> Rows \union {Unused, Gone}]
          /\ files'[f] = row /\ \A g \in Files : g # f => files'[g] = files[g]
      BY <1>3, <1>4, <2>1 DEF IInv, Types, Tables
    <3> QED BY <1>4, <2>1, <3>1 DEF Born
  <2>2. CASE f \notin Live
    BY <1>3, <2>2 DEF IInv, Types, Tables, Born
  <2> QED BY <2>1, <2>2
<1>6. Idle \in Records /\ Idle.pc \in Pcs(p) /\ Proper(p, Idle)'
  BY <1>0, IdleType, RestIsProper DEF Pcs
<1>7. Live' = Live
  BY <1>5 DEF Live
<1>8. Tables' /\ gc' \in [Collectors -> Collector]
  BY <1>1, <1>5 DEF IInv, Types, Tables
<1>9. /\ \A g \in Files : Open(g)' => Open(g)
      /\ \A g \in Live' : g \in Files /\ g \in Live /\ files'[g].key = files[g].key
  BY <1>1, <1>5, <1>7 DEF Open, Live
<1>10. Keyed' /\ BytesOfLiveFiles'
  BY <1>1, <1>5, <1>9 DEF IInv, Keyed, KeyOf, BytesOfLiveFiles, Open
<1>11. \A q \in Procs : q # p => procs'[q] = procs[q]
  BY <1>0, <1>1 DEF IInv, Types, Processes
<1>12. Running'
  BY <1>0, <1>1, <1>11, Kinds DEF IInv, Running
<1>13. ASSUME NEW k \in blobs' PROVE Owned(k)'
  <2>1. HeldBy(k)' = HeldBy(k)
    BY <1>7, <1>9 DEF HeldBy
  <2>2. \A q \in Procs : Keeps(q, k) => Keeps(q, k)'
    BY <1>1, <1>11 DEF Keeps
  <2>3. Owned(k) /\ leaked' = leaked
    BY <1>1, <1>13 DEF IInv
  <2> QED BY <2>1, <2>2, <2>3 DEF Owned
<1> QED BY <1>0, <1>1, <1>5, <1>6, <1>8, <1>9, <1>10, <1>12, <1>13, Moves

(* A delete of one file, or of those of an entity.                         *)
LEMMA HandlersKeep ==
    ASSUME IInv, NEW p \in Requests, UNCHANGED gc,
           \/ \E f \in Files : DeleteFile(p, f)
           \/ \E e \in Entities : ListCommodityFiles(p, e) \/ DeleteArea(p, e)
           \/ DeleteCommodity(p) \/ DeleteLinkedFiles(p)
    PROVE  IInv'
<1>0. p \in Procs /\ p \notin Purgers /\ p \notin Restores
  BY Kinds
<1>1. /\ UNCHANGED <<files, blobs, operations, group, leaked>>
      /\ procs[p].pc \in {"idle", "listed", "dropped"}
  BY DEF DeleteFile, ListCommodityFiles, DeleteArea, DeleteCommodity, DeleteLinkedFiles, tables, others
<1>2. \A e : LinkedTo(e) \subseteq Files
  BY DEF LinkedTo, Live
<1>3. procs[p] \in Records /\ procs[p].copy = None
  BY <1>0, Uncopied
<1> DEFINE Rested == \E x \in Records : /\ x.pc \in {"idle", "next", "listed", "dropped"}
                                        /\ x.copy = None
                                        /\ procs' = [procs EXCEPT ![p] = x]
<1>4. Rested
  <2>1. ASSUME NEW f \in Files, DeleteFile(p, f) PROVE Rested
    <3>1. PICK x : x = [Idle EXCEPT !.pc = "next", !.todo = {f}]
      OBVIOUS
    <3>2. x \in Records /\ x.pc = "next" /\ x.copy = None
      BY <3>1, IdleType DEF Records, Steps, Reading, Deleting
    <3> QED BY <2>1, <3>1, <3>2 DEF DeleteFile
  <2>2. ASSUME NEW e \in Entities, ListCommodityFiles(p, e) PROVE Rested
    <3>1. PICK x : x = [Idle EXCEPT !.pc = "listed", !.link = e, !.todo = LinkedTo(e)]
      OBVIOUS
    <3>2. x \in Records /\ x.pc = "listed" /\ x.copy = None
      BY <1>2, <3>1, IdleType DEF Records, Steps, Reading, Deleting
    <3> QED BY <2>2, <3>1, <3>2 DEF ListCommodityFiles
  <2>3. ASSUME NEW e \in Entities, DeleteArea(p, e) PROVE Rested
    <3>1. PICK x : x = [Idle EXCEPT !.pc = "dropped", !.link = e]
      OBVIOUS
    <3>2. x \in Records /\ x.pc = "dropped" /\ x.copy = None
      BY <3>1, IdleType DEF Records, Steps, Reading, Deleting
    <3> QED BY <2>3, <3>1, <3>2 DEF DeleteArea
  <2>4. CASE DeleteCommodity(p)
    BY <1>0, <2>4, IdleType, SettleType DEF DeleteCommodity
  <2>5. CASE DeleteLinkedFiles(p)
    <3>1. PICK x : x = [procs[p] EXCEPT !.pc = "next", !.todo = LinkedTo(procs[p].link)]
      OBVIOUS
    <3>2. x \in Records /\ x.pc = "next" /\ x.copy = None
      BY <1>2, <1>3, <3>1 DEF Records, Steps, Reading, Deleting
    <3>3. procs' = [procs EXCEPT ![p] = Idle] \/ procs' = [procs EXCEPT ![p] = x]
      BY <2>5, <3>1 DEF DeleteLinkedFiles
    <3> QED BY <3>2, <3>3, IdleType
  <2> QED BY <2>1, <2>2, <2>3, <2>4, <2>5
<1>5. {"idle", "next", "listed", "dropped"} \subseteq Pcs(p)
  BY <1>0, Kinds DEF Pcs
<1> QED BY <1>0, <1>1, <1>4, <1>5, Rests

(* Everything a request does.                                              *)
LEMMA RequestKeeps ==
    ASSUME IInv, Apart, NEW p \in Requests, RequestNext(p), UNCHANGED gc
    PROVE  IInv'
BY Kinds, SaveFileKeeps, UploadFileKeeps, BeginUpdateFileKeeps, UpdateFileKeeps, HandlersKeep, DeleteFileKeeps, AbandonKeeps
   DEF RequestNext

(* A restore takes what is there down, and knows its key.                  *)
LEMMA BeginRestoreKeeps ==
    ASSUME IInv, NEW r \in Restores, BeginRestore(r), UNCHANGED gc
    PROVE  IInv'
<1>0. r \in Procs /\ r \notin Purgers /\ r \notin Requests
  BY Kinds
<1>1. /\ UNCHANGED <<files, blobs, group, leaked>>
      /\ operations[r] = "pending" /\ operations' = [operations EXCEPT ![r] = "running"]
  BY DEF BeginRestore, tables
<1>2. procs[r].pc = "idle"
  BY <1>1 DEF IInv, Running
<1> DEFINE Loaded == \E x \in Records : /\ x.pc = "loaded" /\ x.copy = None
                                        /\ x.file = Null \/ (x.file \in Copies /\ Knows(x))
                                        /\ procs' = [procs EXCEPT ![r] = x]
<1>3. Loaded
  <2>1. CASE procs' = [procs EXCEPT ![r] = [Idle EXCEPT !.pc = "loaded"]]
    <3>1. PICK x : x = [Idle EXCEPT !.pc = "loaded"]
      OBVIOUS
    <3>2. Idle.file = Null
      BY DEF Idle
    <3>3. x \in Records /\ x.pc = "loaded" /\ x.copy = None /\ x.file = Null
      BY <3>1, <3>2, IdleType DEF Records, Steps, Reading, Deleting
    <3> QED BY <2>1, <3>1, <3>3
  <2>2. ASSUME NEW f \in Copies \intersect Live,
               procs' = [procs EXCEPT ![r] = [Idle EXCEPT !.pc = "loaded", !.file = f,
                                                          !.key = files[f].key]]
        PROVE  Loaded
    <3>1. PICK x : x = [Idle EXCEPT !.pc = "loaded", !.file = f, !.key = files[f].key]
      OBVIOUS
    <3>2. f \in Files /\ files[f].key \in Keys
      BY LiveFiles DEF IInv
    <3>3. /\ x \in Records /\ x.pc = "loaded" /\ x.copy = None
          /\ x.file = f /\ x.key = files[f].key
      BY <3>1, <3>2, IdleType DEF Records, Steps, Reading, Deleting
    <3>4. Knows(x)
      BY <3>3 DEF Knows, IInv, Keyed
    <3> QED BY <2>2, <3>1, <3>3, <3>4
  <2> QED BY <2>1, <2>2 DEF BeginRestore
<1>4. PICK x \in Records : /\ x.pc = "loaded" /\ x.copy = None
                           /\ x.file = Null \/ (x.file \in Copies /\ Knows(x))
                           /\ procs' = [procs EXCEPT ![r] = x]
  BY <1>3
<1>5. Proper(r, x) /\ x.pc \in Pcs(r)
  BY <1>0, <1>4 DEF Proper, Reader, Restorer, Streamer, Uploader, Deleter, Sole, Lister, Reading, Deleting, Pcs
<1>6. \A k \in blobs : ~ Keeps(r, k)
  BY <1>2 DEF Keeps
<1>7. /\ gc' \in [Collectors -> Collector]
      /\ operations' \in [Restores -> {"none", "pending", "running", "recent", "old", "gone"}]
      /\ operations'[r] = "running" /\ \A q \in Restores : q # r => operations'[q] = operations[q]
  BY <1>1 DEF IInv, Types, Tables
<1> QED BY <1>0, <1>1, <1>4, <1>5, <1>6, <1>7, Quiet

(* A member that is skipped, and the end.                                  *)
LEMMA EndRestoreKeeps ==
    ASSUME IInv, NEW r \in Restores, SkipFileMember(r) \/ EndRestore(r), UNCHANGED gc
    PROVE  IInv'
<1>0. r \in Procs /\ r \notin Purgers /\ r \notin Requests
  BY Kinds
<1>1. /\ UNCHANGED <<files, blobs, group, leaked>>
      /\ procs[r].pc \in {"loaded", "restored"}
      /\ procs[r] \in Records /\ procs[r].copy = None
      /\ operations[r] \in {"running", "gone"}
  BY <1>0, Uncopied DEF SkipFileMember, EndRestore, tables, others, IInv, Running
<1>2. {"idle", "restored"} \subseteq Pcs(r)
  BY <1>0 DEF Pcs
<1>3. \A k \in blobs : ~ Keeps(r, k)
  BY <1>1 DEF Keeps
<1>4. gc' \in [Collectors -> Collector]
  BY DEF IInv, Types
<1>5. CASE SkipFileMember(r)
  <2>1. PICK x : x = [procs[r] EXCEPT !.pc = "restored"]
    OBVIOUS
  <2>2. x \in Records /\ x.pc = "restored" /\ x.copy = None
    BY <1>1, <2>1 DEF Records, Steps, Reading, Deleting
  <2>3. Proper(r, x)
    BY <1>0, <2>2, RestIsProper
  <2>4. procs' = [procs EXCEPT ![r] = x] /\ operations' = operations
    BY <1>5, <2>1 DEF SkipFileMember, others
  <2>5. operations' \in [Restores -> {"none", "pending", "running", "recent", "old", "gone"}]
    BY <2>4 DEF IInv, Types, Tables
  <2> QED BY <1>0, <1>1, <1>2, <1>3, <1>4, <2>2, <2>3, <2>4, <2>5, Quiet
<1>6. CASE EndRestore(r)
  <2>1. Idle \in Records /\ Idle.pc = "idle" /\ Proper(r, Idle)
    BY <1>0, IdleType, RestIsProper
  <2>2. procs' = [procs EXCEPT ![r] = Idle]
    BY <1>6 DEF EndRestore
  <2>3. /\ operations' \in [Restores -> {"none", "pending", "running", "recent", "old", "gone"}]
        /\ \A q \in Restores : q # r => operations'[q] = operations[q]
    BY <1>6 DEF EndRestore, IInv, Types, Tables
  <2> QED BY <1>0, <1>1, <1>2, <1>3, <1>4, <2>1, <2>2, <2>3, Quiet
<1> QED BY <1>5, <1>6

(* The bytes come first, in the hands of the restore.                      *)
LEMMA StreamFileBytesKeeps ==
    ASSUME IInv, NEW r \in Restores, StreamFileBytes(r), UNCHANGED gc
    PROVE  IInv'
<1>0. r \in Procs /\ r \notin Purgers /\ r \notin Requests
  BY Kinds
<1>1. /\ UNCHANGED <<files, operations, group, leaked>>
      /\ procs[r].pc = "loaded" /\ procs[r] \in Records /\ procs[r].copy = None
      /\ Proper(r, procs[r])
      /\ blobs' = blobs \union {Archived}
  BY <1>0, Uncopied DEF StreamFileBytes, others, IInv
<1>2. PICK x : x = [procs[r] EXCEPT !.pc = "streamed"]
  OBVIOUS
<1>3. procs' = [procs EXCEPT ![r] = x]
  BY <1>2 DEF StreamFileBytes
<1>4. /\ x \in Records /\ x.pc = "streamed" /\ x.copy = None
      /\ x.file = procs[r].file /\ x.key = procs[r].key
  BY <1>1, <1>2 DEF Records, Steps, Reading, Deleting
<1>5. procs'[r] = x /\ \A q \in Procs : q # r => procs'[q] = procs[q]
  BY <1>0, <1>3 DEF IInv, Types, Processes
<1>6. (x.file = Null \/ (x.file \in Copies /\ Knows(x)))'
  BY <1>1, <1>4 DEF Proper, Restorer, Knows, KeyOf, Born, Live
<1>7. Proper(r, x)' /\ x.pc \in Pcs(r)
  BY <1>0, <1>1, <1>4, <1>6
     DEF Proper, Reader, Restorer, Streamer, Uploader, Deleter, Sole, Lister, Reading, Deleting, Pcs
<1>8. Tables' /\ gc' \in [Collectors -> Collector]
  BY <1>1, Names DEF IInv, Types, Tables
<1>9. /\ Keyed' /\ BytesOfLiveFiles'
      /\ \A f \in Files : Born(f) => Born(f)'
      /\ \A f \in Files : Open(f)' => Open(f)
      /\ \A f \in Live' : f \in Live /\ files'[f].key = files[f].key
  BY <1>1 DEF IInv, Keyed, KeyOf, BytesOfLiveFiles, Born, Live, Open
<1>10. Running'
  BY <1>0, <1>1, <1>5, Kinds DEF IInv, Running
<1>11. ASSUME NEW k \in blobs' PROVE Owned(k)'
  <2>1. CASE k = Archived
    BY <1>0, <1>4, <1>5, <2>1 DEF Owned, Keeps
  <2>2. CASE k # Archived
    <3>1. Owned(k) /\ HeldBy(k)' = HeldBy(k) /\ leaked' = leaked
      BY <1>1, <1>11, <2>2 DEF IInv, HeldBy, Live
    <3>2. \A q \in Procs : Keeps(q, k) => Keeps(q, k)'
      BY <1>1, <1>5 DEF Keeps
    <3> QED BY <3>1, <3>2 DEF Owned
  <2> QED BY <2>1, <2>2
<1> QED BY <1>0, <1>1, <1>3, <1>4, <1>7, <1>8, <1>9, <1>10, <1>11, Moves

(* The row of the archived file is made, or takes the archived key, while  *)
(* nobody else is at a row of that file.                                   *)
LEMMA RowOfArchived ==
    ASSUME IInv, Apart, NEW r \in Restores, NEW x \in Records, NEW n \in Copies, NEW row \in Rows,
           procs[r].pc = "streamed", row.key = Archived,
           files' = [files EXCEPT ![n] = row],
           procs' = [procs EXCEPT ![r] = x],
           UNCHANGED <<blobs, operations, group, leaked, gc>>,
           \/ x.pc = "restored"
           \/ /\ x.pc = "unlinked" /\ x.key \in Keys /\ x.key # Archived
              /\ x.key \in Files => Born(x.key),
           x.copy = None,
           n \in Live =>
              (x.pc = "unlinked" /\ x.key = files[n].key) \/ files[n].key = Archived
    PROVE  IInv'
<1>0. r \in Procs /\ r \notin Purgers /\ r \notin Requests /\ n \in Files
  BY Kinds
<1>1. procs'[r] = x /\ \A q \in Procs : q # r => procs'[q] = procs[q]
  BY <1>0 DEF IInv, Types, Processes
<1>2. /\ files' \in [Files -> Rows \union {Unused, Gone}]
      /\ files'[n] = row /\ \A f \in Files : f # n => files'[f] = files[f]
  BY <1>0 DEF IInv, Types, Tables
<1>3. Tables' /\ gc' \in [Collectors -> Collector]
  BY <1>2 DEF IInv, Types, Tables
<1>4. n \in Live' /\ Born(n)'
  BY <1>0, <1>2, Names DEF Live, Born, Unused, Keys
<1>5. \A f \in Files : Born(f) => Born(f)'
  BY <1>2, <1>4 DEF Born
<1>6. \A f \in Live' : f \in Files /\ (f # n => f \in Live /\ files'[f].key = files[f].key)
  BY <1>2 DEF Live
<1>7. Archived \in blobs
  BY <1>0 DEF IInv, Proper, Streamer
<1>8. \A f \in Files : Open(f)' => Open(f)
  BY DEF Open
<1>9. Keyed'
  <2>1. KeyOf(n, files[n].key)'
    BY <1>2, <1>4 DEF KeyOf
  <2>2. ASSUME NEW f \in Live', f # n PROVE KeyOf(f, files[f].key)'
    BY <1>5, <1>6, <2>2 DEF IInv, Keyed, KeyOf
  <2> QED BY <2>1, <2>2 DEF Keyed
<1>10. BytesOfLiveFiles'
  BY <1>2, <1>6, <1>7, <1>8 DEF IInv, BytesOfLiveFiles
<1>11. Running'
  BY <1>0, <1>1, Kinds DEF IInv, Running
<1>12. \A q \in Procs : q # r => procs[q].file \notin Copies
  BY DEF Apart
<1>13. Proper(r, x)'
  <2>1. CASE x.pc = "restored"
    BY <1>0, <2>1, RestIsProper
  <2>2. CASE /\ x.pc = "unlinked" /\ x.key \in Keys /\ x.key # Archived
             /\ x.key \in Files => Born(x.key)
    <3>1. x.key \in Files => Born(x.key)'
      BY <1>5, <2>2
    <3> QED BY <1>0, <2>2, <3>1
            DEF Proper, Reader, Restorer, Streamer, Uploader, Deleter, Sole, Lister, Reading, Deleting
  <2> QED BY <2>1, <2>2
<1>14. x.pc \in Pcs(r)
  BY <1>0 DEF Pcs, Deleting
<1>15. ASSUME NEW k \in blobs' PROVE Owned(k)'
  <2>1. CASE k = Archived
    <3>1. n \in HeldBy(k)'
      BY <1>2, <1>4, <2>1 DEF HeldBy
    <3> QED BY <3>1 DEF Owned
  <2>2. CASE k # Archived /\ n \in Live /\ files[n].key = k
    BY <1>0, <1>1, <2>2 DEF Owned, Keeps
  <2>3. CASE k # Archived /\ ~ (n \in Live /\ files[n].key = k)
    <3>1. \A f \in HeldBy(k) : f \in HeldBy(k)'
      BY <1>2, <2>3 DEF HeldBy, Live
    <3>2. \A q \in Procs : Keeps(q, k) => Keeps(q, k)'
      BY <1>1, <2>3 DEF Keeps
    <3>3. Owned(k)
      BY <1>15 DEF IInv
    <3> QED BY <3>1, <3>2, <3>3 DEF Owned
  <2> QED BY <2>1, <2>2, <2>3
<1>16. \A f \in Live' :
          \/ f \in Live /\ files'[f].key = files[f].key
          \/ /\ f \in Copies /\ files'[f].key = Archived
             /\ \A q \in Procs : q # r => procs[q].file \notin Copies
  BY <1>2, <1>6, <1>12
<1> QED BY <1>0, <1>3, <1>5, <1>7, <1>8, <1>9, <1>10, <1>11, <1>13, <1>14, <1>15, <1>16, Moves

(* The strategy is applied, or the file is gone meanwhile.                 *)
LEMMA ApplyStrategyKeeps ==
    ASSUME IInv, Apart, entities \subseteq Entities,
           NEW r \in Restores, ApplyStrategyForFile(r), UNCHANGED gc
    PROVE  IInv'
<1>0. r \in Procs /\ r \notin Purgers /\ r \notin Requests
  BY Kinds
<1>1. /\ UNCHANGED <<blobs, operations, group>>
      /\ procs[r].pc = "streamed" /\ procs[r] \in Records /\ procs[r].copy = None
      /\ procs[r].file = Null \/ (procs[r].file \in Copies /\ Knows(procs[r]))
  BY <1>0, Uncopied DEF ApplyStrategyForFile, others, IInv, Proper, Restorer
<1>2. \A e \in entities \union {Null} : [link |-> e, key |-> Archived, old |-> TRUE] \in Rows
  BY Names DEF Rows
<1>3. PICK x, f : x = [procs[r] EXCEPT !.pc = "restored"] /\ f = procs[r].file
  OBVIOUS
<1>4. x \in Records /\ x.pc = "restored" /\ x.copy = None /\ x.key = procs[r].key
  BY <1>1, <1>3 DEF Records, Steps, Reading, Deleting
<1>5. CASE /\ f = Null
           /\ \E n \in Copies, e \in entities \union {Null} :
                /\ files[n] = Unused
                /\ files' = [files EXCEPT ![n] = [link |-> e, key |-> Archived, old |-> TRUE]]
           /\ procs' = [procs EXCEPT ![r].pc = "restored"]
           /\ leaked' = leaked
  <2>1. PICK n \in Copies, e \in entities \union {Null} :
          /\ files[n] = Unused
          /\ files' = [files EXCEPT ![n] = [link |-> e, key |-> Archived, old |-> TRUE]]
    BY <1>5
  <2>2. PICK row : row = [link |-> e, key |-> Archived, old |-> TRUE]
    OBVIOUS
  <2>3. row \in Rows /\ row.key = Archived /\ files' = [files EXCEPT ![n] = row]
    BY <1>2, <2>1, <2>2
  <2>4. n \notin Live
    BY <2>1 DEF Live, Unused
  <2> QED BY <1>1, <1>3, <1>4, <1>5, <2>3, <2>4, RowOfArchived
<1>6. CASE /\ f \in Live
           /\ \E e \in entities \union {Null} :
                files' = [files EXCEPT ![f] = [link |-> e, key |-> Archived, old |-> TRUE]]
           /\ procs' = [procs EXCEPT ![r].file = Null,
                  ![r].pc = IF procs[r].key = Archived THEN "restored" ELSE "unlinked"]
           /\ leaked' = leaked
  <2>1. PICK e \in entities \union {Null} :
          files' = [files EXCEPT ![f] = [link |-> e, key |-> Archived, old |-> TRUE]]
    BY <1>6
  <2>2. PICK row : row = [link |-> e, key |-> Archived, old |-> TRUE]
    OBVIOUS
  <2>3. row \in Rows /\ row.key = Archived /\ files' = [files EXCEPT ![f] = row]
    BY <1>2, <2>1, <2>2
  <2>4. f \in Copies /\ KeyOf(f, procs[r].key) /\ files[f].key = procs[r].key
    BY <1>1, <1>3, <1>6, Names DEF Knows, Live
  <2>5. PICK y : y = [procs[r] EXCEPT !.file = Null,
                         !.pc = IF procs[r].key = Archived THEN "restored" ELSE "unlinked"]
    OBVIOUS
  <2>6. procs' = [procs EXCEPT ![r] = y]
    BY <1>6, <2>5
  <2>7. /\ y \in Records /\ y.copy = None /\ y.key = procs[r].key
        /\ y.pc = IF procs[r].key = Archived THEN "restored" ELSE "unlinked"
    BY <1>1, <2>5 DEF Records, Steps, Reading, Deleting
  <2>8. procs[r].key \in Keys /\ (procs[r].key \in Files => Born(procs[r].key))
    BY <2>4, Names DEF KeyOf, Born
  <2>9. UNCHANGED <<blobs, operations, group, leaked, gc>>
    BY <1>1, <1>6
  <2>10. CASE procs[r].key = Archived
    <3>1. y.pc = "restored" /\ files[f].key = Archived
      BY <2>4, <2>7, <2>10
    <3> QED BY <1>1, <2>3, <2>4, <2>6, <2>7, <2>9, <3>1, RowOfArchived
  <2>11. CASE procs[r].key # Archived
    <3>1. y.pc = "unlinked" /\ y.key \in Keys /\ y.key # Archived /\ y.key = files[f].key
          /\ (y.key \in Files => Born(y.key))
      BY <2>4, <2>7, <2>8, <2>11
    <3> QED BY <1>1, <2>3, <2>4, <2>6, <2>7, <2>9, <3>1, RowOfArchived
  <2> QED BY <2>10, <2>11
<1>7. CASE /\ f \in Files \ Live
           /\ procs' = [procs EXCEPT ![r].pc = "restored"]
           /\ leaked' = leaked \union {Archived}
           /\ files' = files
  <2>1. procs' = [procs EXCEPT ![r] = x]
    BY <1>3, <1>7
  <2>2. Proper(r, x) /\ x.pc \in Pcs(r)
    BY <1>0, <1>4, RestIsProper DEF Pcs
  <2>3. operations[r] \in {"running", "gone"}
    BY <1>1 DEF IInv, Running
  <2>4. \A k \in blobs : Keeps(r, k) => k \in leaked'
    BY <1>1, <1>7 DEF Keeps
  <2>5. /\ gc' \in [Collectors -> Collector]
        /\ operations' \in [Restores -> {"none", "pending", "running", "recent", "old", "gone"}]
    BY <1>1 DEF IInv, Types, Tables
  <2> QED BY <1>0, <1>1, <1>4, <1>7, <2>1, <2>2, <2>3, <2>4, <2>5, Quiet
<1> QED BY <1>3, <1>5, <1>6, <1>7 DEF ApplyStrategyForFile

(* Everything a restore does.                                              *)
LEMMA RestoreKeeps ==
    ASSUME IInv, Apart, entities \subseteq Entities,
           NEW r \in Restores, RestoreNext(r), UNCHANGED gc
    PROVE  IInv'
BY Kinds, RequestRestoreKeeps, BeginRestoreKeeps, EndRestoreKeeps, StreamFileBytesKeeps,
   ApplyStrategyKeeps, CheckSharedKeeps, DeletePhysicalKeeps, AbandonKeeps
   DEF RestoreNext

(* The purge takes the keys down of what it is to delete.                  *)
LEMMA BeginPurgeKeeps ==
    ASSUME IInv, NEW p \in Purgers, BeginPurge(p), UNCHANGED gc
    PROVE  IInv'
<1>0. p \in Procs /\ p \notin Requests /\ p \notin Restores
  BY Kinds
<1>1. /\ UNCHANGED <<files, blobs, operations, group, leaked>>
      /\ group # "active"
  BY DEF BeginPurge, tables, others
<1>2. PICK listed, keys : /\ listed = Doomed \intersect Live
                          /\ keys = [f \in listed |-> files[f].key]
  OBVIOUS
<1>3. /\ listed \subseteq Doomed /\ listed \subseteq Files
      /\ \A f \in listed : files[f].key \in Keys /\ KeyOf(f, files[f].key)
  BY <1>2, LiveFiles DEF IInv, Keyed
<1>4. keys \in Copied /\ DOMAIN keys = listed /\ \A f \in listed : KeyOf(f, keys[f])
  <2>1. keys \in [listed -> Keys]
    BY <1>2, <1>3
  <2> QED BY <1>2, <1>3, <2>1 DEF Copied
<1>5. PICK x : x = [Idle EXCEPT !.pc = "purging", !.todo = listed, !.copy = keys]
  OBVIOUS
<1>6. x \in Records /\ x.pc = "purging" /\ x.todo = listed /\ x.copy = keys
  BY <1>3, <1>4, <1>5, IdleType DEF Records, Steps, Reading, Deleting
<1>7. procs' = [procs EXCEPT ![p] = x]
  BY <1>2, <1>5 DEF BeginPurge
<1>8. Proper(p, x) /\ x.pc \in Pcs(p)
  BY <1>0, <1>1, <1>3, <1>4, <1>6
     DEF Proper, Reader, Restorer, Streamer, Uploader, Deleter, Sole, Lister, Reading, Deleting, Pcs
<1>9. gc' \in [Collectors -> Collector]
      /\ operations' \in [Restores -> {"none", "pending", "running", "recent", "old", "gone"}]
  BY <1>1 DEF IInv, Types, Tables
<1> QED BY <1>0, <1>1, <1>6, <1>7, <1>8, <1>9, Quiet

(* It takes one of them at a time.                                         *)
LEMMA DeletePhysicalFilesKeep ==
    ASSUME IInv, NEW p \in Purgers, DeletePhysicalFilesForGroup(p), UNCHANGED gc
    PROVE  IInv'
<1>0. p \in Procs /\ p \notin Requests /\ p \notin Restores
  BY Kinds
<1>1. /\ UNCHANGED <<files, blobs, operations, group, leaked>>
      /\ procs[p].pc = "purging" /\ procs[p] \in Records /\ Lister(p, procs[p])
  BY <1>0 DEF DeletePhysicalFilesForGroup, tables, others, IInv, Types, Processes, Proper
<1>2. PICK f \in procs[p].todo :
        procs' = [procs EXCEPT ![p].pc = "unlinked", ![p].todo = @ \ {f},
                               ![p].file = f, ![p].key = procs[p].copy[f]]
  BY DEF DeletePhysicalFilesForGroup
<1>3. PICK k : k = procs[p].copy[f]
  OBVIOUS
<1>4. f \in Files /\ KeyOf(f, k)
  BY <1>0, <1>1, <1>2, <1>3 DEF Lister, Records
<1>5. k \in Keys /\ (k \in Files => Born(k)) /\ (k = Archived => f \in Copies)
  BY <1>4, Names DEF KeyOf
<1>6. PICK x : x = [procs[p] EXCEPT !.pc = "unlinked", !.todo = @ \ {f}, !.file = f, !.key = k]
  OBVIOUS
<1>7. procs' = [procs EXCEPT ![p] = x]
  BY <1>0, <1>2, <1>3, <1>6 DEF IInv, Types, Processes
<1>8. /\ x \in Records /\ x.pc = "unlinked" /\ x.file = f /\ x.key = k
      /\ x.copy = procs[p].copy /\ x.todo \subseteq procs[p].todo
  BY <1>1, <1>4, <1>5, <1>6 DEF Records, Steps, Reading, Deleting
<1>9. Proper(p, x) /\ x.pc \in Pcs(p)
  BY <1>0, <1>1, <1>5, <1>8
     DEF Proper, Reader, Restorer, Streamer, Uploader, Deleter, Sole, Lister, Reading, Deleting, Pcs
<1>10. gc' \in [Collectors -> Collector]
      /\ operations' \in [Restores -> {"none", "pending", "running", "recent", "old", "gone"}]
  BY <1>1 DEF IInv, Types, Tables
<1> QED BY <1>0, <1>1, <1>7, <1>8, <1>9, <1>10, Quiet

(* All rows of the group go; what they held is left behind.                *)
LEMMA PurgeGroupKeeps ==
    ASSUME IInv, NEW p \in Purgers, PurgeGroupDependents(p), UNCHANGED gc
    PROVE  IInv'
<1>0. p \in Procs /\ p \notin Requests /\ p \notin Restores
  BY Kinds
<1>1. /\ UNCHANGED <<blobs, operations>> /\ group' = "purged"
      /\ procs[p].pc = "purging" /\ Lister(p, procs[p])
      /\ procs' = [procs EXCEPT ![p] = Idle]
      /\ files' = [f \in Files |-> IF f \in Doomed \intersect Live THEN Gone ELSE files[f]]
      /\ leaked' = leaked \union {files[f].key : f \in Doomed \intersect Live}
  BY <1>0 DEF PurgeGroupDependents, IInv, Proper
<1>2. group # "active"
  BY <1>0, <1>1 DEF Lister
<1>3. Idle \in Records /\ Idle.pc = "idle" /\ Idle.pc \in Pcs(p) /\ Proper(p, Idle)'
  BY <1>0, IdleType, RestIsProper DEF Pcs
<1>4. procs'[p] = Idle /\ \A q \in Procs : q # p => procs'[q] = procs[q]
  BY <1>0, <1>1 DEF IInv, Types, Processes
<1>5. Live' = Live \ Doomed
  BY <1>1, GoneRows DEF Live
<1>6. \A f \in Files : f \in Live' => f \in Live /\ files'[f] = files[f]
  BY <1>1, <1>5
<1>7. \A f \in Files : Born(f) => Born(f)'
  BY <1>1, GoneRows DEF Born
<1>8. Live' \subseteq Files
  BY DEF Live
<1>9. Tables' /\ gc' \in [Collectors -> Collector]
  <2>1. files' \in [Files -> Rows \union {Unused, Gone}]
    BY <1>1 DEF IInv, Types, Tables
  <2> QED BY <1>1, <2>1 DEF IInv, Types, Tables
<1>10. \A f \in Files : Open(f)' => Open(f)
  BY <1>1 DEF Open
<1>11. Keyed' /\ BytesOfLiveFiles'
  BY <1>1, <1>6, <1>7, <1>8, <1>10 DEF IInv, Keyed, KeyOf, BytesOfLiveFiles
<1>12. Running'
  BY <1>0, <1>1, <1>4, Kinds DEF IInv, Running
<1>13. ASSUME NEW k \in blobs' PROVE Owned(k)'
  <2>1. Owned(k)
    BY <1>1, <1>13 DEF IInv
  <2>2. \A q \in Procs \ Purgers : Keeps(q, k) => Keeps(q, k)'
    BY <1>4 DEF Keeps
  <2>3. ASSUME NEW f \in HeldBy(k) PROVE k \in leaked' \/ HeldBy(k)' # {}
    <3>1. f \in Files /\ f \in Live /\ files[f].key = k
      BY <2>3 DEF HeldBy, Live
    <3>2. CASE f \in Doomed
      BY <1>1, <3>1, <3>2
    <3>3. CASE f \notin Doomed
      <4>1. f \in Live' /\ files'[f] = files[f]
        BY <1>5, <1>6, <3>1, <3>3
      <4>2. f \in HeldBy(k)'
        BY <3>1, <4>1 DEF HeldBy
      <4> QED BY <4>2
    <3> QED BY <3>2, <3>3
  <2> QED BY <1>1, <2>1, <2>2, <2>3 DEF Owned
<1> QED BY <1>0, <1>1, <1>2, <1>3, <1>6, <1>7, <1>8, <1>9, <1>10, <1>11, <1>12, <1>13, Moves

(* Everything a purge does.                                                *)
LEMMA PurgeKeeps ==
    ASSUME IInv, Apart, NEW p \in Purgers, PurgeNext(p), UNCHANGED gc
    PROVE  IInv'
BY Kinds, BeginPurgeKeeps, DeletePhysicalFilesKeep, PurgeGroupKeeps, CheckSharedKeeps,
   DeletePhysicalKeeps, AbandonKeeps
   DEF PurgeNext
-----------------------------------------------------------------------------
(* The invariant holds at first: every blob has its rows.                  *)
LEMMA InitIInv == GCInit => IInv
<1> SUFFICES ASSUME GCInit PROVE IInv
  OBVIOUS
<1>1. Idle \in Records /\ Idle.pc = "idle" /\ Idle.copy = None
  BY IdleType
<1>2. \A p \in Procs : procs[p] = Idle
  BY DEF GCInit, Init
<1>3. Processes
  BY <1>1, <1>2 DEF Processes, GCInit, Init, Pcs
<1>4. files \in [Files -> Rows \union {Unused, Gone}]
  BY DEF GCInit, Init
<1>5. blobs = {files[f].key : f \in Live}
  BY DEF GCInit, Init
<1>6. \A f \in Live : files[f].key \in {f, Legacy, Archived} /\ (files[f].key = Archived => f \in Copies)
  BY DEF GCInit, Init
<1>7. \A f \in Live : f \in Files
  BY DEF Live
<1>8. Tables
  <2>1. blobs \subseteq Keys
    BY <1>5, <1>6, <1>7, Names
  <2> QED BY <1>4, <2>1 DEF Tables, GCInit, Init
<1>9. gc \in [Collectors -> Collector]
  <2>1. Begun \in Collector
    BY DEF Begun, Collector
  <2> QED BY <2>1 DEF GCInit
<1>10. Keyed
  <2>1. \A f \in Live : Born(f)
    BY DEF Born, Live, Unused
  <2> QED BY <1>6, <2>1 DEF Keyed, KeyOf
<1>11. Running
  BY <1>1, <1>2, Kinds DEF Running
<1>12. \A p \in Procs : Proper(p, procs[p])
  BY <1>1, <1>2, RestIsProper
<1>13. BytesOfLiveFiles
  BY <1>5 DEF BytesOfLiveFiles
<1>14. \A k \in blobs : Owned(k)
  BY <1>5 DEF Owned, HeldBy
<1> QED BY <1>3, <1>8, <1>9, <1>10, <1>11, <1>12, <1>13, <1>14 DEF IInv, Types

(* Everything that happens.                                                *)
LEMMA NextIInv ==
    ASSUME IInv, Apart, entities \subseteq Entities, [Next]_vars
    PROVE  IInv'
<1>1. CASE UNCHANGED vars
  <2>1. UNCHANGED <<files, blobs, operations, group, procs, leaked, gc>>
    BY <1>1 DEF vars, store, tables, others
  <2>2. Tables' /\ Running' /\ gc' \in [Collectors -> Collector]
    BY <2>1 DEF IInv, Types, Tables, Running
  <2> QED BY <2>1, <2>2, Idles DEF Born
<1>2. CASE StoreNext /\ UNCHANGED gc
  BY <1>2, RequestKeeps, RestoreKeeps, PurgeKeeps, InitiateGroupDeletionKeeps,
     ThumbnailsKeep DEF StoreNext
<1> QED BY <1>1, <1>2, CollectorKeeps, TimeKeeps DEF Next

(* Nobody makes an entity up.                                              *)
LEMMA EntitiesOnlyGo == Spec => [](entities \subseteq Entities)
<1> DEFINE Sub == entities \subseteq Entities
<1>1. GCInit => Sub
  BY DEF GCInit, Init
<1>2. ASSUME Sub, [Next]_vars PROVE Sub'
  <2>1. entities' \subseteq entities
    <3>1. CASE UNCHANGED vars
      BY <3>1 DEF vars, store, tables
    <3>2. ASSUME NEW p \in Procs, DeleteFileWithPhysical(p) \/ Abandon(p) PROVE UNCHANGED entities
      BY <3>2 DEF DeleteFileWithPhysical, GetFile, DeleteThumbnailGenerationChain, DeleteRow,
                  CheckShared, DeletePhysicalFileAndThumbnails, Abandon, tables
    <3>3. ASSUME NEW p \in Requests, RequestNext(p) PROVE entities' \subseteq entities
      <4>1. p \in Procs
        BY Kinds
      <4> QED BY <3>2, <3>3, <4>1
              DEF RequestNext, SaveFile, UploadFile, BeginUpdateFile, UpdateFile, DeleteFile,
                  ListCommodityFiles, DeleteCommodity, DeleteArea, DeleteLinkedFiles, tables
    <3>4. ASSUME NEW r \in Restores, RestoreNext(r) PROVE UNCHANGED entities
      BY <3>2, <3>4, Kinds
         DEF RestoreNext, RequestRestore, DeleteExportRestore, BeginRestore, SkipFileMember,
             StreamFileBytes, ApplyStrategyForFile, EndRestore, CheckShared,
             DeletePhysicalFileAndThumbnails, tables
    <3>5. ASSUME NEW p \in Purgers, PurgeNext(p) PROVE UNCHANGED entities
      BY <3>2, <3>5, Kinds
         DEF PurgeNext, BeginPurge, DeletePhysicalFilesForGroup, PurgeGroupDependents,
             CheckShared, DeletePhysicalFileAndThumbnails, tables
    <3>6. ASSUME NEW c \in Collectors, Sweep(c) \/ Restart(c) PROVE UNCHANGED entities
      BY <3>2, <3>6, Kinds
         DEF Sweep, BeginTick, ListOrphanCandidates, EndPage, SweepRowCandidate, ListAgedThumbnails,
             LiveFileIDs, ProbeThumbnail, DeleteThumbnail, Restart, store, tables
    <3>7. ASSUME ThumbnailNext \/ InitiateGroupDeletion \/ TimePasses PROVE UNCHANGED entities
      BY <3>7
         DEF ThumbnailNext, RequestThumbnailGeneration, CleanupCompletedJobs, ReadOriginal,
             WriteThumbnails, InitiateGroupDeletion, TimePasses, ThreeDaysPass, tables
    <3> QED BY <1>2, <3>1, <3>3, <3>4, <3>5, <3>6, <3>7 DEF Next, StoreNext
  <2> QED BY <1>2, <2>1
<1> HIDE DEF Sub
<1>3. Spec => []Sub
  BY <1>1, <1>2, PTL DEF Spec
<1> QED BY <1>3 DEF Sub

(* As long as the writers and the deleters of an archived file keep apart, *)
(* the invariant holds.                                                    *)
LEMMA Invariance == Spec /\ []Apart => []IInv
BY InitIInv, NextIInv, EntitiesOnlyGo, PTL DEF Spec

(* No live file loses its bytes: whoever deletes a blob - a request, an    *)
(* entity's delete, a restore that supersedes it, the purge of a group or  *)
(* the collector - deletes no key another row has, in any interleaving,    *)
(* as long as a restore and the deleters of what it writes keep apart.     *)
THEOREM BytesAreKept == Spec /\ []Apart => []BytesOfLiveFiles
<1>1. IInv => BytesOfLiveFiles
  BY DEF IInv
<1> QED BY <1>1, Invariance, PTL

(* And no blob is left without a row, or somebody about to delete it or to *)
(* give it one, but by a process that stopped half-way, or by a purge.     *)
THEOREM BlobsHaveOwners == Spec /\ []Apart => []LastOwnerTakesTheBlob
<1>1. IInv => LastOwnerTakesTheBlob
  BY DEF IInv, LastOwnerTakesTheBlob, Owned, Keeps
<1> QED BY <1>1, Invariance, PTL
-----------------------------------------------------------------------------
(* Types, whether or not restores and deleters keep apart.  A key that is  *)
(* about to be written or deleted is one, because it was read from a row;  *)
(* and a purge has the keys of the files it has still to do.               *)

Shapes ==
    /\ files \in [Files -> Rows \union {Unused, Gone}]
    /\ blobs \subseteq Keys /\ leaked \subseteq Keys
    /\ thumbs \in [Files -> {"none", "fresh", "old"}]
    /\ jobs \in [Files -> {"none", "job", "done"}]
    /\ operations \in [Restores -> {"none", "pending", "running", "recent", "old", "gone"}]
    /\ generating \in [Generators -> Files \union {Null}]
    /\ group \in {"active", "pending_deletion", "purged"}

Keyful(p, x) ==
    /\ x.pc = "uploading" => x.key \in Files
    /\ x.pc \in {"editing"} \union Reading \union Deleting => x.key \in Keys
    /\ x.pc \in {"loaded", "streamed"} /\ x.file # Null => x.key \in Keys
    /\ p \in Purgers /\ x.pc # "idle" => x.todo \subseteq DOMAIN x.copy

Typed(p, x) == x \in Records /\ Keyful(p, x)

Calls == procs \in [Procs -> Records] /\ \A p \in Procs : Keyful(p, procs[p])

TInv ==
    /\ Shapes /\ Calls
    /\ gc \in [Collectors -> Collector] /\ restarts \in 0 .. MaxRestarts

(* A call moves on, and the others do not.                                 *)
LEMMA CallMoves ==
    ASSUME Calls, NEW p \in Procs, NEW x, Typed(p, x), procs' = [procs EXCEPT ![p] = x]
    PROVE  Calls'
BY DEF Calls, Typed, Keyful

LEMMA CallIsTyped ==
    ASSUME Calls, NEW p \in Procs
    PROVE  Typed(p, procs[p])
BY DEF Calls, Typed

LEMMA IdleIsTyped == \A p : Typed(p, Idle)
BY IdleType DEF Typed, Keyful, Reading, Deleting

(* A call goes on to its next file, or ends.                               *)
LEMMA SettleIsTyped ==
    ASSUME NEW p \in Procs \ Purgers, Typed(p, procs[p])
    PROVE  Typed(p, Settle(p))
<1>1. CASE procs[p].todo = {}
  BY <1>1, IdleIsTyped DEF Settle
<1>2. CASE procs[p].todo # {}
  <2> DEFINE x == [procs[p] EXCEPT !.pc = "next", !.file = Null, !.key = Null]
  <2>1. x \in Records /\ x.pc = "next"
    BY DEF Typed, Records, Steps
  <2> HIDE DEF x
  <2>2. Typed(p, x)
    BY <2>1 DEF Typed, Keyful, Reading, Deleting
  <2>3. Settle(p) = x
    BY <1>2 DEF Settle, x
  <2> QED BY <2>2, <2>3
<1> QED BY <1>1, <1>2

(* The next file to delete is read, or passed over.                        *)
LEMMA GetFileIsTyped ==
    ASSUME Shapes, Calls, NEW p \in Procs \ Purgers, GetFile(p)
    PROVE  Shapes' /\ Calls'
<1>0. procs[p] \in Records /\ procs[p].pc = "next"
  BY CallIsTyped DEF Typed, GetFile
<1>1. UNCHANGED <<files, entities, blobs, thumbs, jobs, operations, generating, group, leaked>>
  BY DEF GetFile, tables, others
<1>2. PICK f \in procs[p].todo :
        LET rest == [procs[p] EXCEPT !.todo = @ \ {f}] IN
        procs' = [procs EXCEPT ![p] =
            IF f \in Live
            THEN [rest EXCEPT !.pc = "read", !.file = f, !.key = files[f].key]
            ELSE IF rest.todo = {} THEN Idle ELSE rest]
  BY Zenon DEF GetFile
<1> DEFINE rest == [procs[p] EXCEPT !.todo = @ \ {f}]
           read == [rest EXCEPT !.pc = "read", !.file = f, !.key = files[f].key]
<1>3. rest \in Records /\ rest.pc = "next"
  BY <1>0 DEF Records
<1>4. procs' = [procs EXCEPT ![p] = IF f \in Live THEN read
                                    ELSE IF rest.todo = {} THEN Idle ELSE rest]
  BY <1>2
<1> HIDE DEF rest
<1>5. Typed(p, rest)
  BY <1>3 DEF Typed, Keyful, Reading, Deleting
<1>6. ASSUME f \in Live PROVE Typed(p, read)
  <2>1. files[f].key \in Keys /\ f \in Files
    BY <1>6, LiveRows DEF Shapes
  <2>2. read \in Records /\ read.pc = "read" /\ read.key = files[f].key
    BY <1>3, <2>1 DEF Records, Steps, Reading
  <2> HIDE DEF read
  <2> QED BY <2>1, <2>2 DEF Typed, Keyful, Reading, Deleting
<1> HIDE DEF read
<1>7. \E x : Typed(p, x) /\ procs' = [procs EXCEPT ![p] = x]
  BY <1>4, <1>5, <1>6, IdleIsTyped
<1>8. Calls'
  BY <1>7, CallMoves
<1> QED BY <1>1, <1>8 DEF Shapes

(* The steps of the delete of a file up to its row.                        *)
LEMMA DeleteIsTyped ==
    ASSUME Shapes, Calls, NEW p \in Procs \ Purgers,
           GetFile(p) \/ DeleteThumbnailGenerationChain(p) \/ DeleteRow(p)
    PROVE  Shapes' /\ Calls'
<1>0. Typed(p, procs[p]) /\ procs[p] \in Records
  BY CallIsTyped DEF Typed
<1>1. CASE GetFile(p)
  BY <1>1, GetFileIsTyped
<1>2. CASE DeleteThumbnailGenerationChain(p)
  <2> DEFINE x == [procs[p] EXCEPT !.pc = "unchained"]
  <2>1. x \in Records /\ x.pc = "unchained" /\ x.key = procs[p].key
    BY <1>0 DEF Records, Steps, Reading
  <2>2. procs[p].key \in Keys
    BY <1>0, <1>2 DEF DeleteThumbnailGenerationChain, Typed, Keyful, Reading
  <2> HIDE DEF x
  <2>3. Typed(p, x)
    BY <2>1, <2>2 DEF Typed, Keyful, Reading, Deleting
  <2>4. Calls'
    BY <1>2, <2>3, CallMoves DEF DeleteThumbnailGenerationChain, x
  <2>5. Shapes'
    BY <1>2 DEF DeleteThumbnailGenerationChain, Shapes, others
  <2> QED BY <2>4, <2>5
<1>3. CASE DeleteRow(p)
  <2> DEFINE x == [procs[p] EXCEPT !.pc = "unlinked"]
  <2>1. x \in Records /\ x.pc = "unlinked" /\ x.key = procs[p].key
    BY <1>0 DEF Records, Steps, Deleting
  <2>2. procs[p].key \in Keys
    BY <1>0, <1>3 DEF DeleteRow, Typed, Keyful, Reading
  <2> HIDE DEF x
  <2>3. Typed(p, x)
    BY <2>1, <2>2 DEF Typed, Keyful, Reading, Deleting
  <2>4. Calls'
    BY <1>0, <1>3, <2>3, CallMoves, SettleIsTyped, IdleIsTyped DEF DeleteRow, x
  <2>5. files' = files \/ files' = [files EXCEPT ![procs[p].file] = Gone]
    BY <1>3 DEF DeleteRow
  <2>6. Shapes'
    BY <1>3, <2>5 DEF DeleteRow, Shapes, others
  <2> QED BY <2>4, <2>6
<1> QED BY <1>1, <1>2, <1>3

(* And its end, shared by all.                                             *)
LEMMA EndOfDeleteIsTyped ==
    ASSUME Shapes, Calls, NEW p \in Procs,
           CheckShared(p) \/ DeletePhysicalFileAndThumbnails(p) \/ Abandon(p)
    PROVE  Shapes' /\ Calls'
<1>0. Typed(p, procs[p]) /\ procs[p] \in Records
  BY CallIsTyped DEF Typed
<1>1. ASSUME procs[p].pc \in Deleting, NEW pc \in {"shared", "sole", "restored", "purging"}
      PROVE  Typed(p, [procs[p] EXCEPT !.pc = pc])
  <2> DEFINE x == [procs[p] EXCEPT !.pc = pc]
  <2>1. /\ x \in Records /\ x.pc = pc /\ x.key = procs[p].key
        /\ x.todo = procs[p].todo /\ x.copy = procs[p].copy
    BY <1>0 DEF Records, Steps, Deleting
  <2> HIDE DEF x
  <2>2. procs[p].key \in Keys /\ procs[p].pc # "idle"
    BY <1>0, <1>1 DEF Typed, Keyful, Deleting
  <2>3. Typed(p, x)
    BY <1>0, <2>1, <2>2 DEF Typed, Keyful
  <2> QED BY <2>3 DEF x
<1>2. CASE CheckShared(p)
  <2>1. procs[p].pc \in Deleting
    BY <1>2 DEF CheckShared, Deleting
  <2>2. Calls'
    BY <1>1, <1>2, <2>1, CallMoves DEF CheckShared
  <2>3. Shapes'
    BY <1>2 DEF CheckShared, Shapes, tables, others
  <2> QED BY <2>2, <2>3
<1>3. CASE DeletePhysicalFileAndThumbnails(p)
  <2>1. procs[p].pc \in Deleting
    BY <1>3 DEF DeletePhysicalFileAndThumbnails, Deleting
  <2>2. Calls'
    <3>1. CASE p \in Restores
      BY <1>1, <1>3, <2>1, <3>1, CallMoves DEF DeletePhysicalFileAndThumbnails
    <3>2. CASE p \in Purgers /\ p \notin Restores
      BY <1>1, <1>3, <2>1, <3>2, CallMoves DEF DeletePhysicalFileAndThumbnails
    <3>3. CASE p \notin Purgers \union Restores
      BY <1>0, <1>3, <3>3, SettleIsTyped, CallMoves DEF DeletePhysicalFileAndThumbnails
    <3> QED BY <3>1, <3>2, <3>3
  <2>3. thumbs' = thumbs \/ thumbs' = [thumbs EXCEPT ![procs[p].file] = "none"]
    BY <1>3 DEF DeletePhysicalFileAndThumbnails
  <2>4. blobs' \subseteq blobs
    BY <1>3 DEF DeletePhysicalFileAndThumbnails
  <2>5. Shapes'
    BY <1>3, <2>3, <2>4 DEF DeletePhysicalFileAndThumbnails, Shapes, others
  <2> QED BY <2>2, <2>5
<1>4. CASE Abandon(p)
  <2>1. Calls'
    BY <1>4, CallMoves, IdleIsTyped DEF Abandon
  <2>2. leaked' \subseteq Keys
    BY <1>0, <1>4, Names DEF Abandon, InHand, Shapes, Typed, Keyful, Deleting
  <2>3. Shapes'
    BY <1>4, <2>2 DEF Abandon, Shapes, tables, others
  <2> QED BY <2>1, <2>3
<1> QED BY <1>2, <1>3, <1>4

(* Requests.                                                               *)
LEMMA RequestIsTyped ==
    ASSUME Shapes, Calls, NEW p \in Requests, RequestNext(p)
    PROVE  Shapes' /\ Calls'
<1>0. p \in Procs \ Purgers /\ Typed(p, procs[p]) /\ procs[p] \in Records
  BY Kinds, CallIsTyped DEF Typed
<1>1. ASSUME NEW f \in Files, NEW e \in Entities \union {Null}, BeginUpdateFile(p, f, e)
      PROVE  Shapes' /\ Calls'
  <2> DEFINE x == [Idle EXCEPT !.pc = "editing", !.file = f, !.key = files[f].key, !.link = e]
  <2>1. files[f].key \in Keys
    BY <1>1, LiveRows DEF BeginUpdateFile, Shapes
  <2>2. x \in Records /\ x.pc = "editing" /\ x.key = files[f].key
    BY <2>1, IdleType DEF Records, Steps
  <2>3. procs' = [procs EXCEPT ![p] = x]
    BY <1>1 DEF BeginUpdateFile
  <2> HIDE DEF x
  <2>4. Typed(p, x)
    BY <1>0, <2>1, <2>2 DEF Typed, Keyful
  <2>5. Calls'
    BY <1>0, <2>3, <2>4, CallMoves
  <2>6. Shapes'
    BY <1>1 DEF BeginUpdateFile, Shapes, tables, others
  <2> QED BY <2>5, <2>6
<1>2. CASE UpdateFile(p)
  <2> DEFINE f   == procs[p].file
             row == [link |-> procs[p].link, key |-> procs[p].key, old |-> FALSE]
  <2>1. procs[p].key \in Keys
    BY <1>0, <1>2 DEF UpdateFile, Typed, Keyful
  <2>2. row \in Rows
    BY <1>0, <2>1 DEF Records, Rows
  <2>3. files' = IF f \in Live THEN [files EXCEPT ![f] = row] ELSE files
    BY <1>2 DEF UpdateFile
  <2> HIDE DEF row
  <2>4. files' \in [Files -> Rows \union {Unused, Gone}]
    BY <2>2, <2>3 DEF Shapes
  <2>5. Shapes'
    BY <1>2, <2>4 DEF UpdateFile, Shapes, others
  <2>6. Calls'
    BY <1>0, <1>2, CallMoves, IdleIsTyped DEF UpdateFile
  <2> QED BY <2>5, <2>6
<1>3. ASSUME NEW x \in Records, x.pc \in {"next", "listed", "dropped"}
      PROVE  Typed(p, x)
  BY <1>0, <1>3 DEF Typed, Keyful, Reading, Deleting
<1>5. ASSUME NEW f \in Files, DeleteFile(p, f) PROVE Shapes' /\ Calls'
  <2>1. procs' = [procs EXCEPT ![p] = [Idle EXCEPT !.pc = "next", !.todo = {f}]]
    BY <1>5 DEF DeleteFile
  <2> DEFINE x == [Idle EXCEPT !.pc = "next", !.todo = {f}]
  <2>2. x \in Records /\ x.pc = "next"
    BY IdleType DEF Records, Steps
  <2> HIDE DEF x
  <2>3. Typed(p, x)
    BY <1>3, <2>2
  <2>4. Calls'
    BY <1>0, <2>1, <2>3, CallMoves DEF x
  <2>5. Shapes'
    BY <1>5 DEF DeleteFile, Shapes, tables, others
  <2> QED BY <2>4, <2>5
<1>6. ASSUME NEW e \in Entities, ListCommodityFiles(p, e) PROVE Shapes' /\ Calls'
  <2>1. procs' = [procs EXCEPT ![p] = [Idle EXCEPT !.pc = "listed", !.link = e,
                                                   !.todo = LinkedTo(e)]]
    BY <1>6 DEF ListCommodityFiles
  <2>2. LinkedTo(e) \in SUBSET Files
    BY DEF LinkedTo, Live
  <2> DEFINE x == [Idle EXCEPT !.pc = "listed", !.link = e, !.todo = LinkedTo(e)]
  <2>3. x \in Records /\ x.pc = "listed"
    BY <2>2, IdleType DEF Records, Steps
  <2> HIDE DEF x
  <2>4. Typed(p, x)
    BY <1>3, <2>3
  <2>5. Calls'
    BY <1>0, <2>1, <2>4, CallMoves DEF x
  <2>6. Shapes'
    BY <1>6 DEF ListCommodityFiles, Shapes, tables, others
  <2> QED BY <2>5, <2>6
<1>7. CASE DeleteCommodity(p)
  <2>1. Calls'
    BY <1>0, <1>7, CallMoves, SettleIsTyped, IdleIsTyped DEF DeleteCommodity
  <2>2. Shapes'
    BY <1>7 DEF DeleteCommodity, Shapes, others
  <2> QED BY <2>1, <2>2
<1>8. ASSUME NEW e \in Entities, DeleteArea(p, e) PROVE Shapes' /\ Calls'
  <2>1. procs' = [procs EXCEPT ![p] = [Idle EXCEPT !.pc = "dropped", !.link = e]]
    BY <1>8 DEF DeleteArea
  <2> DEFINE x == [Idle EXCEPT !.pc = "dropped", !.link = e]
  <2>2. x \in Records /\ x.pc = "dropped"
    BY IdleType DEF Records, Steps
  <2> HIDE DEF x
  <2>3. Typed(p, x)
    BY <1>3, <2>2
  <2>4. Calls'
    BY <1>0, <2>1, <2>3, CallMoves DEF x
  <2>5. Shapes'
    BY <1>8 DEF DeleteArea, Shapes, others
  <2> QED BY <2>4, <2>5
<1>9. CASE DeleteLinkedFiles(p)
  <2> DEFINE linked == LinkedTo(procs[p].link)
             x == [procs[p] EXCEPT !.pc = "next", !.todo = linked]
  <2>1. procs' = [procs EXCEPT ![p] = IF linked = {} THEN Idle ELSE x]
    BY <1>0, <1>9 DEF DeleteLinkedFiles, Calls
  <2>2. linked \subseteq Files
    BY DEF LinkedTo, Live
  <2> HIDE DEF linked
  <2>3. x \in Records /\ x.pc = "next"
    BY <1>0, <2>2 DEF Records, Steps
  <2> HIDE DEF x
  <2>4. Typed(p, x)
    BY <1>0, <2>3 DEF Typed, Keyful, Reading, Deleting
  <2>5. Calls'
    BY <1>0, <2>1, <2>4, CallMoves, IdleIsTyped
  <2>6. Shapes'
    BY <1>9 DEF DeleteLinkedFiles, Shapes, tables, others
  <2> QED BY <2>5, <2>6
<1>10. CASE DeleteFileWithPhysical(p) \/ Abandon(p)
  BY <1>0, <1>10, DeleteIsTyped, EndOfDeleteIsTyped DEF DeleteFileWithPhysical
<1>11. ASSUME NEW f \in Files, SaveFile(p, f) PROVE Shapes' /\ Calls'
  <2> DEFINE x == [Idle EXCEPT !.pc = "uploading", !.key = f]
  <2>1. procs' = [procs EXCEPT ![p] = x]
    BY <1>11 DEF SaveFile
  <2>2. x \in Records /\ x.pc = "uploading" /\ x.key = f
    BY IdleType, Names DEF Records, Steps
  <2> HIDE DEF x
  <2>3. Typed(p, x)
    BY <1>0, <2>2, Kinds DEF Typed, Keyful, Reading, Deleting
  <2>4. Calls'
    BY <1>0, <2>1, <2>3, CallMoves
  <2>5. Shapes'
    BY <1>11, Names DEF SaveFile, Shapes, others
  <2> QED BY <2>4, <2>5
<1>12. CASE UploadFile(p)
  <2>1. Calls'
    BY <1>0, <1>12, CallMoves, IdleIsTyped DEF UploadFile
  <2>2. PICK f : f = procs[p].key
    OBVIOUS
  <2>3. f \in Files
    BY <1>0, <1>12, <2>2 DEF UploadFile, Typed, Keyful
  <2>4. [link |-> Null, key |-> f, old |-> FALSE] \in Rows
    BY <2>3, Names DEF Rows
  <2>5. files' \in [Files -> Rows \union {Unused, Gone}]
    BY <1>12, <2>2, <2>4 DEF UploadFile, Shapes
  <2>6. Shapes'
    BY <1>12, <2>5 DEF UploadFile, Shapes, others
  <2> QED BY <2>1, <2>6
<1> QED BY <1>1, <1>2, <1>5, <1>6, <1>7, <1>8, <1>9, <1>10, <1>11, <1>12 DEF RequestNext

(* Restores.                                                               *)
LEMMA RestoreIsTyped ==
    ASSUME Shapes, Calls, entities \subseteq Entities, NEW r \in Restores, RestoreNext(r)
    PROVE  Shapes' /\ Calls'
<1>0. r \in Procs /\ r \notin Purgers /\ Typed(r, procs[r]) /\ procs[r] \in Records
  BY Kinds, CallIsTyped DEF Typed
<1>1. CASE RequestRestore(r) \/ DeleteExportRestore(r)
  <2>1. UNCHANGED <<tables, procs, generating, group, leaked>>
    BY <1>1 DEF RequestRestore, DeleteExportRestore
  <2>2. operations' \in [Restores -> {"none", "pending", "running", "recent", "old", "gone"}]
    BY <1>1 DEF RequestRestore, DeleteExportRestore, Shapes
  <2> QED BY <2>1, <2>2 DEF Shapes, Calls, tables
<1>2. ASSUME NEW pc \in {"loaded", "streamed", "restored"}, NEW x \in Records, x.pc = pc,
             pc # "restored" /\ x.file # Null => x.key \in Keys
      PROVE  Typed(r, x)
  BY <1>0, <1>2 DEF Typed, Keyful, Reading, Deleting
<1>3. CASE BeginRestore(r)
  <2>0. /\ operations' = [operations EXCEPT ![r] = "running"]
        /\ UNCHANGED <<tables, generating, group, leaked>>
    BY <1>3, Zenon DEF BeginRestore
  <2>1. operations' \in [Restores -> {"none", "pending", "running", "recent", "old", "gone"}]
    BY <2>0 DEF Shapes
  <2>2. Shapes'
    BY <2>0, <2>1 DEF Shapes, tables
  <2>3. CASE procs' = [procs EXCEPT ![r] = [Idle EXCEPT !.pc = "loaded"]]
    <3> DEFINE x == [Idle EXCEPT !.pc = "loaded"]
    <3>1. x \in Records /\ x.pc = "loaded" /\ x.file = Null
      BY IdleType DEF Idle, Records, Steps
    <3> HIDE DEF x
    <3>2. Typed(r, x)
      BY <1>2, <3>1
    <3> QED BY <1>0, <2>2, <2>3, <3>2, CallMoves DEF x
  <2>4. ASSUME NEW f \in Live,
               procs' = [procs EXCEPT ![r] = [Idle EXCEPT !.pc = "loaded", !.file = f,
                                                          !.key = files[f].key]]
        PROVE  Calls'
    <3> DEFINE x == [Idle EXCEPT !.pc = "loaded", !.file = f, !.key = files[f].key]
    <3>1. f \in Files /\ files[f].key \in Keys
      BY LiveRows DEF Shapes
    <3>2. x \in Records /\ x.pc = "loaded" /\ x.key = files[f].key
      BY <3>1, IdleType DEF Records, Steps
    <3> HIDE DEF x
    <3>3. Typed(r, x)
      BY <1>2, <3>1, <3>2
    <3> QED BY <1>0, <2>4, <3>3, CallMoves DEF x
  <2>5. \/ procs' = [procs EXCEPT ![r] = [Idle EXCEPT !.pc = "loaded"]]
        \/ \E f \in Live : procs' = [procs EXCEPT ![r] = [Idle EXCEPT !.pc = "loaded", !.file = f,
                                                                      !.key = files[f].key]]
    BY <1>3, Zenon DEF BeginRestore
  <2>6. CASE \E f \in Live : procs' = [procs EXCEPT ![r] = [Idle EXCEPT !.pc = "loaded", !.file = f,
                                                                      !.key = files[f].key]]
    <3>1. PICK f \in Live : procs' = [procs EXCEPT ![r] = [Idle EXCEPT !.pc = "loaded", !.file = f,
                                                                   !.key = files[f].key]]
      BY <2>6, Zenon
    <3> QED BY <2>2, <2>4, <3>1, Zenon
  <2> QED BY <2>2, <2>3, <2>5, <2>6, Zenon
<1>4. CASE SkipFileMember(r)
  <2> DEFINE x == [procs[r] EXCEPT !.pc = "restored"]
  <2>1. x \in Records /\ x.pc = "restored"
    BY <1>0 DEF Records, Steps
  <2> HIDE DEF x
  <2>2. Typed(r, x)
    BY <1>2, <2>1
  <2>3. Calls'
    BY <1>0, <1>4, <2>2, CallMoves DEF SkipFileMember, x
  <2>4. Shapes'
    BY <1>4 DEF SkipFileMember, Shapes, tables, others
  <2> QED BY <2>3, <2>4
<1>5. CASE StreamFileBytes(r)
  <2> DEFINE x == [procs[r] EXCEPT !.pc = "streamed"]
  <2>1. x \in Records /\ x.pc = "streamed" /\ x.file = procs[r].file /\ x.key = procs[r].key
    BY <1>0 DEF Records, Steps
  <2> HIDE DEF x
  <2>2. Typed(r, x)
    BY <1>0, <1>2, <1>5, <2>1 DEF StreamFileBytes, Typed, Keyful
  <2>3. Calls'
    BY <1>0, <1>5, <2>2, CallMoves DEF StreamFileBytes, x
  <2>4. Shapes'
    BY <1>5, Names DEF StreamFileBytes, Shapes, others
  <2> QED BY <2>3, <2>4
<1>6. CASE ApplyStrategyForFile(r)
  <2>1. ASSUME NEW e \in entities \union {Null}
        PROVE  [link |-> e, key |-> Archived, old |-> TRUE] \in Rows
    BY Names DEF Rows
  <2>2. \/ files' = files
        \/ \E n \in Files, row \in Rows : files' = [files EXCEPT ![n] = row]
    <3>1. \/ files' = files
          \/ \E n \in Files, e \in entities \union {Null} :
                files' = [files EXCEPT ![n] = [link |-> e, key |-> Archived, old |-> TRUE]]
      BY <1>6 DEF ApplyStrategyForFile, Live
    <3> QED BY <2>1, <3>1
  <2>3. files' \in [Files -> Rows \union {Unused, Gone}]
    BY <2>2 DEF Shapes
  <2>4. leaked' \subseteq Keys
    BY <1>6, Names DEF ApplyStrategyForFile, Shapes
  <2>5. Shapes'
    BY <1>6, <2>3, <2>4 DEF ApplyStrategyForFile, Shapes, others
  <2> DEFINE x == [procs[r] EXCEPT !.pc = "restored"]
             y(pc) == [procs[r] EXCEPT !.file = Null, !.pc = pc]
  <2>6. Typed(r, x)
    <3>1. x \in Records /\ x.pc = "restored"
      BY <1>0 DEF Records, Steps
    <3> HIDE DEF x
    <3> QED BY <1>2, <3>1
  <2>7. Typed(r, y("restored"))
    <3>1. y("restored") \in Records /\ y("restored").pc = "restored"
      BY <1>0 DEF Records, Steps
    <3> HIDE DEF y
    <3> QED BY <1>2, <3>1
  <2>8. ASSUME procs[r].file \in Live PROVE Typed(r, y("unlinked"))
    <3>1. procs[r].key \in Keys
      BY <1>0, <1>6, <2>8, Names DEF ApplyStrategyForFile, Typed, Keyful, Live
    <3>2. y("unlinked") \in Records /\ y("unlinked").pc = "unlinked" /\ y("unlinked").key = procs[r].key
      BY <1>0 DEF Records, Steps, Deleting
    <3> HIDE DEF y
    <3> QED BY <1>0, <3>1, <3>2 DEF Typed, Keyful
  <2>9. \/ procs' = [procs EXCEPT ![r] = x]
        \/ procs' = [procs EXCEPT ![r] = y("restored")]
        \/ procs[r].file \in Live /\ procs' = [procs EXCEPT ![r] = y("unlinked")]
    BY <1>0, <1>6 DEF ApplyStrategyForFile, Calls
  <2> HIDE DEF x, y
  <2>10. Calls'
    BY <1>0, <2>6, <2>7, <2>8, <2>9, CallMoves
  <2> QED BY <2>5, <2>10
<1>7. CASE EndRestore(r)
  <2>1. operations' \in [Restores -> {"none", "pending", "running", "recent", "old", "gone"}]
    BY <1>7 DEF EndRestore, Shapes
  <2>2. Calls'
    BY <1>0, <1>7, CallMoves, IdleIsTyped DEF EndRestore
  <2>3. Shapes'
    BY <1>7, <2>1 DEF EndRestore, Shapes, tables
  <2> QED BY <2>2, <2>3
<1>8. CASE CheckShared(r) \/ DeletePhysicalFileAndThumbnails(r) \/ Abandon(r)
  BY <1>0, <1>8, EndOfDeleteIsTyped
<1> QED BY <1>1, <1>3, <1>4, <1>5, <1>6, <1>7, <1>8 DEF RestoreNext

(* The purge.                                                              *)
LEMMA PurgeIsTyped ==
    ASSUME Shapes, Calls, NEW p \in Purgers, PurgeNext(p)
    PROVE  Shapes' /\ Calls'
<1>0. p \in Procs /\ Typed(p, procs[p]) /\ procs[p] \in Records
  BY Kinds, CallIsTyped DEF Typed
<1>1. CASE BeginPurge(p)
  <2> DEFINE listed == Doomed \intersect Live
             keys == [f \in listed |-> files[f].key]
             x == [Idle EXCEPT !.pc = "purging", !.todo = listed, !.copy = keys]
  <2>1. listed \subseteq Files /\ DOMAIN keys = listed
    BY DEF Live
  <2>2. keys \in Copied
    <3>1. \A f \in listed : files[f].key \in Keys
      BY LiveRows DEF Shapes
    <3>2. keys \in [listed -> Keys]
      BY <3>1
    <3> QED BY <2>1, <3>2 DEF Copied
  <2>3. procs' = [procs EXCEPT ![p] = x]
    BY <1>1 DEF BeginPurge
  <2> HIDE DEF listed, keys
  <2>4. x \in Records /\ x.pc = "purging" /\ x.todo = listed /\ x.copy = keys
    BY <2>1, <2>2, IdleType DEF Records, Steps
  <2> HIDE DEF x
  <2>5. Typed(p, x)
    BY <2>1, <2>4 DEF Typed, Keyful, Reading, Deleting
  <2>6. Shapes'
    BY <1>1 DEF BeginPurge, Shapes, tables, others
  <2> QED BY <1>0, <2>3, <2>5, <2>6, CallMoves
<1>2. CASE DeletePhysicalFilesForGroup(p)
  <2>1. PICK f \in procs[p].todo :
          procs' = [procs EXCEPT ![p].pc = "unlinked", ![p].todo = @ \ {f},
                                 ![p].file = f, ![p].key = procs[p].copy[f]]
    BY <1>2, Zenon DEF DeletePhysicalFilesForGroup
  <2> DEFINE x == [procs[p] EXCEPT !.pc = "unlinked", !.todo = @ \ {f}, !.file = f,
                                   !.key = procs[p].copy[f]]
  <2>2. procs[p].todo \subseteq DOMAIN procs[p].copy /\ procs[p].todo \subseteq Files
    BY <1>0, <1>2 DEF DeletePhysicalFilesForGroup, Typed, Keyful, Records
  <2>3. procs[p].copy[f] \in Keys
    <3>1. procs[p].copy \in Copied /\ f \in DOMAIN procs[p].copy
      BY <1>0, <2>2 DEF Records
    <3>2. PICK S \in SUBSET Files : procs[p].copy \in [S -> Keys]
      BY <3>1 DEF Copied
    <3> QED BY <3>1, <3>2
  <2>4. /\ x \in Records /\ x.pc = "unlinked" /\ x.key = procs[p].copy[f]
        /\ x.todo \subseteq procs[p].todo /\ x.copy = procs[p].copy
    BY <1>0, <2>2, <2>3 DEF Records, Steps, Deleting
  <2>5. procs' = [procs EXCEPT ![p] = x]
    BY <1>0, <2>1 DEF Calls
  <2> HIDE DEF x
  <2>6. Typed(p, x)
    BY <2>2, <2>3, <2>4 DEF Typed, Keyful, Reading, Deleting
  <2>7. Shapes'
    BY <1>2 DEF DeletePhysicalFilesForGroup, Shapes, tables, others
  <2> QED BY <1>0, <2>5, <2>6, <2>7, CallMoves
<1>3. CASE PurgeGroupDependents(p)
  <2>1. leaked' \subseteq Keys
    <3>1. \A f \in Live : files[f].key \in Keys
      BY LiveRows DEF Shapes
    <3> QED BY <1>3, <3>1 DEF PurgeGroupDependents, Shapes
  <2>2. /\ files' \in [Files -> Rows \union {Unused, Gone}]
        /\ jobs' \in [Files -> {"none", "job", "done"}]
    BY <1>3 DEF PurgeGroupDependents, Shapes
  <2>3. Shapes'
    BY <1>3, <2>1, <2>2 DEF PurgeGroupDependents, Shapes
  <2>4. Calls'
    BY <1>0, <1>3, CallMoves, IdleIsTyped DEF PurgeGroupDependents
  <2> QED BY <2>3, <2>4
<1>4. CASE CheckShared(p) \/ DeletePhysicalFileAndThumbnails(p) \/ Abandon(p)
  BY <1>0, <1>4, EndOfDeleteIsTyped
<1> QED BY <1>1, <1>2, <1>3, <1>4 DEF PurgeNext

(* The columns that change by themselves: the status of the group, and the *)
(* ages.                                                                   *)
LEMMA ShapesAge ==
    ASSUME Shapes, UNCHANGED <<blobs, jobs, generating, leaked>>,
           files' \in [Files -> Rows \union {Unused, Gone}],
           thumbs' \in [Files -> {"none", "fresh", "old"}],
           operations' \in [Restores -> {"none", "pending", "running", "recent", "old", "gone"}],
           group' \in {group, "pending_deletion"}
    PROVE  Shapes'
BY DEF Shapes

(* What needs no call.                                                     *)
LEMMA TablesAreTyped ==
    ASSUME Shapes, Calls,
           InitiateGroupDeletion \/ ThumbnailNext \/ ThreeDaysPass
    PROVE  Shapes' /\ Calls'
<1>0. procs' = procs
  BY DEF InitiateGroupDeletion, ThumbnailNext, RequestThumbnailGeneration,
         CleanupCompletedJobs, ReadOriginal, WriteThumbnails, ThreeDaysPass
<1>1. Calls'
  BY <1>0 DEF Calls
<1>3. ASSUME InitiateGroupDeletion PROVE Shapes'
  <2>1. /\ UNCHANGED <<files, entities, blobs, thumbs, jobs, operations, generating, leaked>>
        /\ group' = "pending_deletion"
    BY <1>3 DEF InitiateGroupDeletion, tables
  <2>2. /\ files' \in [Files -> Rows \union {Unused, Gone}]
        /\ thumbs' \in [Files -> {"none", "fresh", "old"}]
        /\ operations' \in [Restores -> {"none", "pending", "running", "recent", "old", "gone"}]
    BY <2>1 DEF Shapes
  <2> QED BY <2>1, <2>2, ShapesAge
<1>4. ASSUME NEW f \in Files, RequestThumbnailGeneration(f) \/ CleanupCompletedJobs(f) PROVE Shapes'
  BY <1>4 DEF RequestThumbnailGeneration, CleanupCompletedJobs, Shapes, others
<1>5. ASSUME NEW g \in Generators, NEW f \in Files, ReadOriginal(g, f) PROVE Shapes'
  BY <1>5 DEF ReadOriginal, Shapes, tables
<1>6. ASSUME NEW g \in Generators, WriteThumbnails(g) PROVE Shapes'
  BY <1>6 DEF WriteThumbnails, Shapes
<1>7. ASSUME ThreeDaysPass PROVE Shapes'
  <2>1. \A f \in Live : [files[f] EXCEPT !.old = TRUE] \in Rows
    BY LiveRows DEF Shapes, Rows
  <2>2. files' \in [Files -> Rows \union {Unused, Gone}]
    BY <1>7, <2>1 DEF ThreeDaysPass, Shapes
  <2>3. /\ thumbs' \in [Files -> {"none", "fresh", "old"}]
        /\ operations' \in [Restores -> {"none", "pending", "running", "recent", "old", "gone"}]
    BY <1>7 DEF ThreeDaysPass, Shapes
  <2>4. UNCHANGED <<blobs, jobs, generating, group, leaked>>
    BY <1>7 DEF ThreeDaysPass
  <2> QED BY <2>2, <2>3, <2>4, ShapesAge
<1> QED BY <1>1, <1>3, <1>4, <1>5, <1>6, <1>7 DEF ThumbnailNext

(* The collector, but for its deletes.                                     *)
LEMMA CollectorIsTyped ==
    ASSUME TInv, NEW c \in Collectors,
           \/ BeginTick(c) \/ ListOrphanCandidates(c) \/ EndPage(c) \/ SweepRowCandidate(c)
           \/ ListAgedThumbnails(c) \/ LiveFileIDs(c) \/ ProbeThumbnail(c) \/ DeleteThumbnail(c)
           \/ Restart(c)
    PROVE  TInv'
<1>0. c \in Procs /\ Typed(c, procs[c]) /\ c \notin Purgers
  BY Kinds, CallIsTyped DEF TInv
<1>1. gc' \in [Collectors -> Collector]
  BY CollectorType DEF TInv, Shapes
<1>2. CASE BeginTick(c) \/ ListOrphanCandidates(c) \/ EndPage(c) \/ ListAgedThumbnails(c)
           \/ LiveFileIDs(c) \/ ProbeThumbnail(c)
  <2>1. UNCHANGED <<store, restarts>>
    BY <1>2, Zenon DEF BeginTick, ListOrphanCandidates, EndPage, ListAgedThumbnails, LiveFileIDs,
                       ProbeThumbnail
  <2> QED BY <1>1, <2>1 DEF TInv, Shapes, Calls, store, tables, others
<1>3. CASE DeleteThumbnail(c)
  <2>1. thumbs' \in [Files -> {"none", "fresh", "old"}]
    <3>1. \E f : thumbs' = [thumbs EXCEPT ![f] = "none"]
      BY <1>3, Zenon DEF DeleteThumbnail
    <3> QED BY <3>1 DEF TInv, Shapes
  <2>2. UNCHANGED <<files, entities, blobs, jobs, procs, others, leaked, restarts>>
    BY <1>3, Zenon DEF DeleteThumbnail
  <2> QED BY <1>1, <2>1, <2>2 DEF TInv, Shapes, Calls, others
<1>4. CASE SweepRowCandidate(c)
  <2>1. \/ procs' = procs
        \/ \E row \in gc[c].page :
              procs' = [procs EXCEPT ![c] = [Idle EXCEPT !.pc = "next", !.todo = {row.id}]]
    BY <1>4, Zenon DEF SweepRowCandidate
  <2>2. ASSUME NEW row \in gc[c].page,
               procs' = [procs EXCEPT ![c] = [Idle EXCEPT !.pc = "next", !.todo = {row.id}]]
        PROVE  Calls'
    <3> DEFINE x == [Idle EXCEPT !.pc = "next", !.todo = {row.id}]
    <3>1. row.id \in Files
      BY DEF TInv, Collector, Candidates
    <3>2. x \in Records /\ x.pc = "next"
      BY <3>1, IdleType DEF Records, Steps
    <3> HIDE DEF x
    <3>3. Typed(c, x)
      BY <1>0, <3>2 DEF Typed, Keyful, Reading, Deleting
    <3>4. Calls
      BY DEF TInv
    <3> QED BY <1>0, <2>2, <3>3, <3>4, CallMoves DEF x
  <2>5. Calls'
    <3>1. CASE procs' = procs
      BY <3>1 DEF TInv, Calls
    <3>2. ASSUME \E row \in gc[c].page :
                    procs' = [procs EXCEPT ![c] = [Idle EXCEPT !.pc = "next", !.todo = {row.id}]]
          PROVE  Calls'
      <4>1. PICK row \in gc[c].page :
                    procs' = [procs EXCEPT ![c] = [Idle EXCEPT !.pc = "next", !.todo = {row.id}]]
        BY <3>2, Zenon
      <4> QED BY <2>2, <4>1, Zenon
    <3> QED BY <2>1, <3>1, <3>2, Zenon
  <2>6. UNCHANGED <<tables, others, leaked, restarts>>
    BY <1>4, Zenon DEF SweepRowCandidate
  <2>7. Shapes'
    BY <2>6 DEF TInv, Shapes, tables, others
  <2> QED BY <1>1, <2>5, <2>6, <2>7 DEF TInv
<1>5. CASE Restart(c)
  <2>1. restarts' \in 0 .. MaxRestarts
    BY <1>5, OrphanFileGCAssumption DEF Restart, TInv
  <2>2. leaked' \subseteq Keys
    BY <1>0, <1>5, Names DEF Restart, InHand, TInv, Shapes, Typed, Keyful, Deleting
  <2>3. Shapes'
    BY <1>5, <2>2 DEF Restart, TInv, Shapes, tables, others
  <2>4. Calls'
    BY <1>0, <1>5, CallMoves, IdleIsTyped DEF Restart, TInv
  <2> QED BY <1>1, <2>1, <2>3, <2>4 DEF TInv
<1> QED BY <1>2, <1>3, <1>4, <1>5

(* Tables, calls and collectors are well typed, whatever anybody does: no  *)
(* call writes or deletes a key it has not read, and the collector's       *)
(* cursors are files, or the beginning.                                    *)
THEOREM StoreTypes == Spec => []TypeOK
<1>1. GCInit => TInv
  <2> SUFFICES ASSUME GCInit PROVE TInv
    OBVIOUS
  <2>1. blobs \subseteq Keys
    <3>1. files \in [Files -> Rows \union {Unused, Gone}] /\ blobs = {files[f].key : f \in Live}
      BY DEF GCInit, Init
    <3> QED BY <3>1, LiveRows
  <2>2. Shapes
    BY <2>1 DEF GCInit, Init, Shapes
  <2>3. \A p \in Procs : procs[p] = Idle /\ Typed(p, Idle)
    BY IdleIsTyped DEF GCInit, Init
  <2>4. Calls
    BY <2>3 DEF GCInit, Init, Calls, Typed
  <2>5. Begun \in Collector
    BY DEF Begun, Collector
  <2> QED BY <2>2, <2>4, <2>5, OrphanFileGCAssumption DEF GCInit, TInv
<1>2. ASSUME TInv, entities \subseteq Entities, [Next]_vars PROVE TInv'
  <2>1. CASE UNCHANGED vars
    BY <1>2, <2>1 DEF vars, store, tables, others, TInv, Shapes, Calls
  <2>2. CASE StoreNext /\ UNCHANGED <<gc, restarts>>
    <3>1. Shapes' /\ Calls'
      BY <1>2, <2>2, TablesAreTyped, RequestIsTyped, RestoreIsTyped, PurgeIsTyped DEF StoreNext, TInv
    <3> QED BY <1>2, <2>2, <3>1 DEF TInv
  <2>3. ASSUME NEW c \in Collectors, DeleteFileWithPhysical(c), UNCHANGED <<gc, restarts>> PROVE TInv'
    <3>1. c \in Procs \ Purgers
      BY Kinds
    <3>2. Shapes' /\ Calls'
      BY <1>2, <2>3, <3>1, DeleteIsTyped, EndOfDeleteIsTyped DEF DeleteFileWithPhysical, TInv
    <3> QED BY <1>2, <2>3, <3>2 DEF TInv
  <2>4. ASSUME NEW c \in Collectors, Sweep(c) \/ Restart(c) PROVE TInv'
    BY <1>2, <2>3, <2>4, CollectorIsTyped DEF Sweep
  <2>5. CASE TimePasses
    <3>1. Shapes' /\ Calls'
      BY <1>2, <2>5, TablesAreTyped DEF TimePasses, TInv
    <3> QED BY <1>2, <2>5, <3>1 DEF TimePasses, TInv
  <2> QED BY <1>2, <2>1, <2>2, <2>4, <2>5 DEF Next
<1>3. Spec => []TInv
  BY <1>1, <1>2, EntitiesOnlyGo, PTL DEF Spec
<1>4. TInv /\ entities \subseteq Entities => TypeOK
  BY DEF TInv, Shapes, Calls, TypeOK, Records, Steps, Reading, Deleting, Copied, Collector
<1> QED BY <1>3, <1>4, EntitiesOnlyGo, PTL
=============================================================================

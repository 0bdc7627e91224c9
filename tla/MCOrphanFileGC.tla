--------------------------- MODULE MCOrphanFileGC ---------------------------
(***************************************************************************)
(* Instances of OrphanFileGC for TLC.                                      *)
(***************************************************************************)
EXTENDS OrphanFileGC

CONSTANTS e1

(* Files 1 and 2 may share the legacy key; file 2 is the one a restore may *)
(* write again, under its archived key or as file 3; file 1 may have to be *)
(* uploaded yet.                                                           *)
MCInit ==
    /\ GCInit /\ entities = Entities /\ thumbs = [f \in Files |-> "none"]
    /\ files[1] \in {Unused, [link |-> e1, key |-> Legacy, old |-> TRUE]}
    /\ files[1] = Unused => files[2].key = Archived
    /\ files[2] \in {[link |-> e1, key |-> k, old |-> TRUE] : k \in {Legacy, Archived}}
    /\ \A f \in Files \ {1, 2} : files[f] = Unused

MCSpec == MCInit /\ [][Next]_vars

(* Orphans of one commodity, in the order the collector sees them.         *)
SweepInit ==
    /\ GCInit /\ entities = {} /\ thumbs = [f \in Files |-> "old"]
    /\ \A f \in Files : files[f] = [link |-> e1, key |-> f, old |-> TRUE]

SweepSpec == SweepInit /\ [][Next]_vars /\ Fairness

(* Bound: a restore comes in other behaviours than the purge of the group  *)
(* and the upload, whose key the restore never touches.                    *)
EitherStep ==
    /\ Apart'
    /\ (group' = "active" /\ 1 \notin blobs') \/ \A r \in Restores : operations'[r] = "none"
=============================================================================

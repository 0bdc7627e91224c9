--------------------------- MODULE EmailDelivery ---------------------------
(***************************************************************************)
(* What the email service promises to whoever hands it a mail: an attempt, *)
(* as many as MaxRetries more while attempts fail, and that the mail is not*)
(* pending for ever where somebody is at work.  A mail is lost only when   *)
(* something breaks, and what is kept outside of the processes only one at *)
(* a time.                                                                 *)
(***************************************************************************)
EXTENDS Naturals

CONSTANTS Mails, Broken, MaxRetries, MaxFaults

VARIABLES
    fates,
    served,    \* mails with somebody at work who will come to them
    kept,      \* mails that wait where no process can take them along
    faults

vars == <<fates, served, kept, faults>>

New == [state |-> "none", failures |-> 0]

Fates == [state : {"none", "pending"}, failures : 0 .. MaxRetries]
         \union [state : {"sent", "dropped", "lost"}, failures : {0}]

Init ==
    /\ fates = [m \in Mails |-> New]
    /\ served = {} /\ kept = {}
    /\ faults = 0

(* Who works, and where mails wait, is up to those who run the processes.  *)
Environment == served' \in SUBSET Mails /\ kept' \in SUBSET Mails

Fault == faults < MaxFaults /\ faults' = faults + 1

Ends(m, how) ==
    /\ fates[m].state = "pending"
    /\ fates' = [fates EXCEPT ![m] = [state |-> how, failures |-> 0]]
    /\ UNCHANGED faults

(* The id of a mail that has ended may be used again.                      *)
Accept(m) ==
    /\ fates[m].state # "pending"
    /\ fates' = [fates EXCEPT ![m] = [state |-> "pending", failures |-> 0]]
    /\ UNCHANGED faults

Deliver(m) == m \notin Broken /\ Ends(m, "sent")

(* The retry is scheduled, whether the worker learns of it or not.         *)
Fail(m) ==
    /\ fates[m].state = "pending" /\ fates[m].failures < MaxRetries /\ m \notin Broken
    /\ fates' = [fates EXCEPT ![m].failures = @ + 1]
    /\ Fault \/ UNCHANGED faults

(* The attempt that is not retried was the last one there are, or the mail *)
(* cannot be rendered at all.                                              *)
Drop(m) == (fates[m].failures = MaxRetries \/ m \in Broken) /\ Ends(m, "dropped")

(* A reply that does not come loses the mail it is about; a process those  *)
(* that are not kept elsewhere; either may lose none.                      *)
Lose(M) ==
    /\ Fault
    /\ \A m \in M : fates[m].state = "pending"
    /\ M \intersect kept = {} \/ \A m, n \in M : m = n
    /\ fates' = [m \in Mails |-> IF m \in M THEN [state |-> "lost", failures |-> 0]
                                 ELSE fates[m]]

Move == UNCHANGED <<fates, faults>>

Next ==
    /\ \/ \E m \in Mails : Accept(m) \/ Deliver(m) \/ Fail(m) \/ Drop(m)
       \/ \E M \in SUBSET Mails : Lose(M)
       \/ Move
    /\ Environment

Safety == Init /\ [][Next]_vars

(* No mail is pending for ever while somebody is at work on it.            *)
Prompt == \A m \in Mails : []<>(fates[m].state # "pending" \/ m \notin served)

Spec == Safety /\ Prompt
=============================================================================

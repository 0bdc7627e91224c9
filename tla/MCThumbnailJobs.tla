--------------------------- MODULE MCThumbnailJobs ---------------------------
(***************************************************************************)
(* Instances of ThumbnailJobs for TLC.                                     *)
(***************************************************************************)
EXTENDS ThumbnailJobs

(* Assumption: no attempt ends between the moments another goroutine reads *)
(* the job and asks for its slot.  The attempt would be counted twice as   *)
(* one, or the job be done again; for ever, if that happened every time.   *)
Fresh ==
    \A g \in Goroutines : runs[g].pc = "read" =>
        /\ jobs[runs[g].job].status \in {"pending", "processing"}
        /\ jobs[runs[g].job].attempts = runs[g].row.attempts

(* And assumption: slots are not for ever deleted from under goroutines.   *)
(* One robbed goroutine robs the next when it releases the slot of the job *)
(* they share, and that one the next.                                      *)
LiveSpec == Init /\ [][Next /\ Fresh']_vars /\ Fairness /\ <>[](robbed = {})
=============================================================================

--------------------------- MODULE LoanReminders ---------------------------
(***************************************************************************)
(* Loans of commodities (services/commodity_loan_service.go), the sweeps   *)
(* that remind lenders of them (loan_reminder_service.go, one worker in    *)
(* every process).  Each transaction is one action; of the email queue only*)
(* whether it takes a mail matters (EmailQueue says what it does with it). *)
(***************************************************************************)
EXTENDS Naturals

CONSTANTS
    Loans,        \* ids of rows, not used again
    Editors,      \* handlers of people who lend
    Processes,
    MaxFaults,    \* bound: crashes, and calls that fail
    Null

ASSUME LoanRemindersAssumption ==
    Null \notin Loans /\ MaxFaults \in Nat

VARIABLES
    loans,     \* commodity_loans, all of one commodity
    editors,   \* the row a handler has read, and how far it is
    sweeps,    \* the reminders a sweep has listed, and the one it is at
    unreachable, \* loans whose lender has no account or no address
    optedOut,  \* loans whose lender wants no reminders
    told,      \* ghost: the reminders that have been mailed
    missed,    \* ghost: those a failed look-up has passed over, and none has been mailed of
    mailed,    \* ghost: by which process, unless the flag was unset since
    faults

vars == <<unreachable, faults, loans, editors, sweeps, optedOut, told, missed, mailed>>

Kinds == {"overdue", "due_soon"}
Dues  == {"none", "later", "soon", "past"}
Rows  == [state : {"unborn", "open", "returned", "deleted"}, due : Dues, flags : SUBSET Kinds]

Editing  == [pc : {"idle", "starting", "read"}, loan : Loans \union {Null}, row : Rows]
Sweeping == [pc : {"idle", "listed", "flag"}, kind : Kinds, todo : SUBSET Loans,
             loan : Loans \union {Null}]

Unborn  == [state |-> "unborn", due |-> "none", flags |-> {}]
Waiting == [pc |-> "idle", loan |-> Null, row |-> Unborn]
Idle    == [pc |-> "idle", kind |-> "overdue", todo |-> {}, loan |-> Null]

Born == {l \in Loans : loans[l].state \in {"open", "returned"}}

(* ListPendingReminders.  Mutant: what is due today is not due soon.       *)
MatchesStrictly(row, kind) ==
    row.state = "open" /\ kind \notin row.flags /\ row.due = "past" /\ kind = "overdue"
Matches(row, kind) ==
    /\ row.state = "open" /\ kind \notin row.flags
    /\ row.due = IF kind = "overdue" THEN "past" ELSE "soon"

Init ==
    /\ loans = [l \in Loans |-> Unborn]
    /\ editors = [e \in Editors |-> Waiting]
    /\ sweeps = [p \in Processes |-> Idle]
    /\ unreachable \in SUBSET Loans
    /\ optedOut = {}
    /\ told = {}
    /\ missed = {}
    /\ mailed = {}
    /\ faults = 0
-----------------------------------------------------------------------------
(* StartLoan: no loan of the commodity is open when it looks.              *)
CheckFree(e) ==
    /\ editors[e].pc = "idle"
    /\ \A l \in Loans : loans[l].state # "open"
    /\ editors' = [editors EXCEPT ![e].pc = "starting"]
    /\ UNCHANGED <<unreachable, faults, loans, sweeps, optedOut, told, missed, mailed>>

CreateLoan(e, l, due) ==
    /\ editors[e].pc = "starting" /\ loans[l].state = "unborn"
    /\ loans' = [loans EXCEPT ![l] = [state |-> "open", due |-> due, flags |-> {}]]
    /\ editors' = [editors EXCEPT ![e] = Waiting]
    /\ UNCHANGED <<unreachable, faults, sweeps, optedOut, told, missed, mailed>>

GetLoan(e, l) ==
    /\ editors[e].pc = "idle" /\ l \in Born
    /\ editors' = [editors EXCEPT ![e] = [pc |-> "read", loan |-> l, row |-> loans[l]]]
    /\ UNCHANGED <<unreachable, faults, loans, sweeps, optedOut, told, missed, mailed>>

(* Update writes all columns of the row as it was read, the flags among    *)
(* them; a row that is gone is an error.                                   *)
Write(e, row) ==
    LET l == editors[e].loan IN
    /\ editors[e].pc = "read"
    /\ loans' = IF l \in Born THEN [loans EXCEPT ![l] = row] ELSE loans
    /\ mailed' = {x \in mailed : x.loan # l \/ x.kind \in row.flags}
    /\ editors' = [editors EXCEPT ![e] = Waiting]
    /\ UNCHANGED <<unreachable, faults, sweeps, optedOut, told, missed>>

(* The borrower may be edited at any time, the date of an open loan only.  *)
UpdateLoan(e, due) ==
    /\ due # editors[e].row.due => editors[e].row.state = "open"
    /\ Write(e, [editors[e].row EXCEPT !.due = due])

MarkReturned(e) ==
    /\ editors[e].row.state = "open"
    /\ Write(e, [editors[e].row EXCEPT !.state = "returned"])

DeleteLoan(l) ==
    /\ l \in Born
    /\ loans' = [loans EXCEPT ![l].state = "deleted"]
    /\ UNCHANGED <<unreachable, faults, editors, sweeps, optedOut, told, missed, mailed>>

SetPreference(l) ==
    /\ optedOut' = IF l \in optedOut THEN optedOut \ {l} ELSE optedOut \union {l}
    /\ UNCHANGED <<unreachable, faults, loans, editors, sweeps, told, missed, mailed>>

(* Sweeps take no time that would count in days.                           *)
DaysPass ==
    /\ \E l \in Born : loans[l].due \in {"later", "soon"}
    /\ \A e \in Editors : editors[e].pc # "read"
    /\ loans' = [l \in Loans |->
           [loans[l] EXCEPT !.due = IF @ = "later" THEN "soon" ELSE IF @ = "soon" THEN "past" ELSE @]]
    /\ UNCHANGED <<unreachable, faults, editors, sweeps, optedOut, told, missed, mailed>>

EditorNext(e) ==
    \/ CheckFree(e)
    \/ \E l \in Loans : GetLoan(e, l) \/ \E due \in Dues : CreateLoan(e, l, due)
    \/ MarkReturned(e)
    \/ \E due \in Dues : UpdateLoan(e, due)
-----------------------------------------------------------------------------
(* RemindOnce: first what is overdue, then what is due soon.               *)
ListPendingReminders(p, kind) ==
    LET found == {l \in Loans : Matches(loans[l], kind)} IN
    /\ sweeps[p].pc = "idle" /\ found # {}
    /\ sweeps' = [sweeps EXCEPT ![p] = [pc |-> "listed", kind |-> kind, todo |-> found,
                                        loan |-> Null]]
    /\ UNCHANGED <<unreachable, faults, loans, editors, optedOut, told, missed, mailed>>

(* A sweep goes on without a loan, or to set its flag; with the last of its*)
(* list it ends.                                                           *)
Onward(sweep) == IF sweep.todo = {} THEN Idle ELSE sweep
Without(sweep, l) == [sweep EXCEPT !.todo = @ \ {l}]
Flagging(sweep, l) == [Without(sweep, l) EXCEPT !.pc = "flag", !.loan = l]
Flagged(sweep) == [sweep EXCEPT !.pc = "listed", !.loan = Null]

(* A lender who has opted out is skipped, and keeps the flag unset.        *)
Skip(p, l) ==
    /\ sweeps[p].pc = "listed" /\ l \in sweeps[p].todo \ unreachable
    /\ l \in optedOut
    /\ sweeps' = [sweeps EXCEPT ![p] = Onward(Without(sweeps[p], l))]
    /\ UNCHANGED <<unreachable, faults, loans, editors, optedOut, told, missed, mailed>>

(* Who cannot be reached is not mailed but flagged.                        *)
PassOver(p, l) ==
    /\ sweeps[p].pc = "listed" /\ l \in sweeps[p].todo \intersect unreachable
    /\ sweeps' = [sweeps EXCEPT ![p] = Flagging(sweeps[p], l)]
    /\ UNCHANGED <<unreachable, faults, loans, editors, optedOut, told, missed, mailed>>

(* Neither is one whose account cannot be read just now: lookupLender makes*)
(* no difference between an error and an account that is gone.             *)
LookupFails(p, l) ==
    /\ sweeps[p].pc = "listed" /\ l \in sweeps[p].todo \ unreachable
    /\ faults < MaxFaults /\ faults' = faults + 1
    /\ sweeps' = [sweeps EXCEPT ![p] = Flagging(sweeps[p], l)]
    /\ missed' = missed \union ({<<l, sweeps[p].kind>>} \ told)
    /\ UNCHANGED <<unreachable, loans, editors, optedOut, told, mailed>>

(* What a sweep does next with a loan it has tried to mail: its flag is set*)
(* only when the queue said it has the mail.  Mutant: in any case.         *)
FlagRegardless(sweep, l, ok) == Flagging(sweep, l)
FlagAfter(sweep, l, ok) == IF ok THEN Flagging(sweep, l) ELSE Onward(Without(sweep, l))

SendLoanReminderEmail(p, l, ok, taken) ==
    LET about == [by |-> p, loan |-> l, kind |-> sweeps[p].kind] IN
    /\ sweeps[p].pc = "listed" /\ l \in sweeps[p].todo \ (unreachable \union optedOut)
    /\ ok => taken
    /\ ok \/ faults < MaxFaults
    /\ faults' = IF ok THEN faults ELSE faults + 1
    /\ sweeps' = [sweeps EXCEPT ![p] = FlagAfter(sweeps[p], l, ok)]
    /\ told' = IF taken THEN told \union {<<l, sweeps[p].kind>>} ELSE told
    /\ mailed' = IF ok THEN mailed \union {about} ELSE mailed
    /\ missed' = missed \ told'
    /\ UNCHANGED <<unreachable, loans, editors, optedOut>>

(* MarkReminderSent sets a flag that is not set.  Mutants: that of the     *)
(* other kind, and a column without a name.                                *)
FlagUnnamed(kind) == ""
FlagOfOther(kind) == CHOOSE k \in Kinds : k # kind
FlagOf(kind) == kind

MarkReminderSent(p) ==
    LET l == sweeps[p].loan IN
    /\ sweeps[p].pc = "flag"
    /\ loans' = IF l \in Born
                THEN [loans EXCEPT ![l].flags = @ \union {FlagOf(sweeps[p].kind)}]
                ELSE loans
    /\ sweeps' = [sweeps EXCEPT ![p] = Onward(Flagged(sweeps[p]))]
    /\ UNCHANGED <<unreachable, faults, editors, optedOut, told, missed, mailed>>

MarkFails(p) ==
    /\ sweeps[p].pc = "flag"
    /\ faults < MaxFaults /\ faults' = faults + 1
    /\ sweeps' = [sweeps EXCEPT ![p] = Onward(Flagged(sweeps[p]))]
    /\ mailed' = mailed \ {[by |-> p, loan |-> sweeps[p].loan, kind |-> sweeps[p].kind]}
    /\ UNCHANGED <<unreachable, loans, editors, optedOut, told, missed>>

Sweep(p) ==
    \/ MarkReminderSent(p) \/ MarkFails(p)
    \/ \E l \in Loans : \/ Skip(p, l) \/ PassOver(p, l) \/ LookupFails(p, l)
                        \/ \E ok, taken \in BOOLEAN : SendLoanReminderEmail(p, l, ok, taken)

(* The sweep of a process ends with the process.                           *)
Crash(p) ==
    /\ faults < MaxFaults /\ faults' = faults + 1
    /\ sweeps' = [sweeps EXCEPT ![p] = Idle]
    /\ mailed' = {x \in mailed : x.by # p}
    /\ UNCHANGED <<unreachable, loans, editors, optedOut, told, missed>>

Next ==
    \/ \E e \in Editors : EditorNext(e)
    \/ \E l \in Loans : DeleteLoan(l) \/ SetPreference(l)
    \/ DaysPass
    \/ \E p \in Processes :
         Crash(p) \/ Sweep(p) \/ \E k \in Kinds : ListPendingReminders(p, k)

Spec == Init /\ [][Next]_vars

(* A worker sweeps at every tick, for both kinds.                          *)
Fairness ==
    \A p \in Processes :
        /\ WF_vars(Sweep(p))
        /\ \A k \in Kinds : SF_vars(ListPendingReminders(p, k))
-----------------------------------------------------------------------------
TypeOK ==
    /\ loans \in [Loans -> Rows]
    /\ editors \in [Editors -> Editing]
    /\ sweeps \in [Processes -> Sweeping]
    /\ unreachable \subseteq Loans /\ optedOut \subseteq Loans
    /\ told \subseteq Loans \X Kinds /\ missed \subseteq Loans \X Kinds
    /\ mailed \subseteq [by : Processes, loan : Loans, kind : Kinds]
    /\ faults \in 0 .. MaxFaults

(* A duplicate beats silent loss: whatever crashes, fails, or is written   *)
(* over, a flag is set only on a loan whose lender the queue has had a mail*)
(* for.  The one way a reminder is lost in silence is that the account of  *)
(* its lender could not be read.                                           *)
NoSilentLoss ==
    \A l \in Loans \ unreachable, k \in Kinds :
        k \in loans[l].flags => <<l, k>> \in told \union missed

(* And no process mails the same reminder at every tick: what it has mailed*)
(* and is done with is flagged, until somebody writes an older row over it.*)
FlaggedOnceMailed ==
    \A x \in mailed :
        \/ x.kind \in loans[x.loan].flags
        \/ loans[x.loan].state = "deleted"
        \/ LET s == sweeps[x.by] IN s.pc = "flag" /\ s.loan = x.loan /\ s.kind = x.kind

(* A reminder that is due does not wait for ever: it is mailed, and flagged*)
(* or the loan comes back, is deleted or is due another day, or the lender *)
(* does not want it.                                                       *)
Waited(l, kind) ==
    /\ loans[l].state = "open" /\ kind \notin loans[l].flags /\ l \notin optedOut
    /\ <<loans[l].due, kind>> \in {<<"past", "overdue">>, <<"soon", "due_soon">>}

RemindersGoOut == \A l \in Loans, k \in Kinds : []<>~ Waited(l, k)
=============================================================================

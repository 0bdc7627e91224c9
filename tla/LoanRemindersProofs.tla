------------------------- MODULE LoanRemindersProofs -------------------------
(***************************************************************************)
(* Theorems about LoanReminders, for any sets of loans, handlers and       *)
(* processes.                                                              *)
(***************************************************************************)
EXTENDS LoanReminders, TLAPS

USE LoanRemindersAssumption

Exists(l) == l \in Loans /\ loans[l].state # "unborn"

(* Handlers and sweeps are at loans that exist, or did.                    *)
Informed ==
    /\ \A e \in Editors : editors[e].pc = "read" =>
          Exists(editors[e].loan) /\ editors[e].row.state \in {"open", "returned"}
    /\ \A p \in Processes :
          /\ \A l \in sweeps[p].todo : Exists(l)
          /\ sweeps[p].pc = "flag" => Exists(sweeps[p].loan)
    /\ \A l \in Loans : loans[l].state = "unborn" => loans[l].flags = {}
    /\ \A x \in mailed : Exists(x.loan)

(* What a handler would write back, and what a sweep is about to flag, has *)
(* been told to the lender, unless there was no way to tell them.           *)
ToldBefore ==
    /\ \A e \in Editors : editors[e].pc = "read" /\ editors[e].loan \notin unreachable =>
          \A k \in editors[e].row.flags : <<editors[e].loan, k>> \in told \union missed
    /\ \A p \in Processes : sweeps[p].pc = "flag" /\ sweeps[p].loan \notin unreachable =>
          <<sweeps[p].loan, sweeps[p].kind>> \in told \union missed

IInv == TypeOK /\ Informed /\ ToldBefore /\ NoSilentLoss /\ FlaggedOnceMailed
-----------------------------------------------------------------------------
(* The records of those who do nothing are well typed.                     *)
LEMMA Blanks == Unborn \in Rows /\ Waiting \in Editing /\ Idle \in Sweeping
BY DEF Unborn, Rows, Dues, Kinds, Waiting, Editing, Idle, Sweeping

(* Init establishes the invariant.                                         *)
LEMMA InitIInv == Init => IInv
<1> SUFFICES ASSUME Init PROVE IInv
  OBVIOUS
<1>1. TypeOK
  BY Blanks DEF Init, TypeOK
<1>2. Informed /\ ToldBefore
  BY DEF Init, Informed, ToldBefore, Waiting, Idle, Unborn
<1>3. NoSilentLoss /\ FlaggedOnceMailed
  BY DEF Init, NoSilentLoss, FlaggedOnceMailed, Unborn
<1> QED BY <1>1, <1>2, <1>3 DEF IInv

(* The handlers of people who lend keep the invariant: what they write back*)
(* is what somebody has been told, and what they unset nobody relies on.   *)
LEMMA EditorsKeepIInv ==
    ASSUME IInv, NEW e \in Editors, EditorNext(e)
    PROVE  IInv'
<1> USE DEF IInv, TypeOK
<1>0. Waiting \in Editing /\ Waiting.pc = "idle"
  BY Blanks DEF Waiting
<1>1. CASE CheckFree(e)
  <2>1. editors' \in [Editors -> Editing]
    BY <1>1 DEF CheckFree, Editing
  <2>2. \A d \in Editors : editors'[d].pc = "read" => editors'[d] = editors[d]
    BY <1>1 DEF CheckFree, Editing
  <2> QED BY <1>1, <2>1, <2>2
          DEF CheckFree, Informed, Exists, ToldBefore, NoSilentLoss, FlaggedOnceMailed
<1>2. ASSUME NEW l \in Loans, NEW due \in Dues, CreateLoan(e, l, due) PROVE IInv'
  <2> DEFINE row == [state |-> "open", due |-> due, flags |-> {}]
  <2>1. row \in Rows /\ row.state = "open" /\ row.flags = {}
    BY DEF Rows
  <2>2. /\ loans' = [loans EXCEPT ![l] = row] /\ loans[l].state = "unborn"
        /\ editors' = [editors EXCEPT ![e] = Waiting]
        /\ UNCHANGED <<unreachable, faults, sweeps, optedOut, told, missed, mailed>>
    BY <1>2 DEF CreateLoan
  <2> HIDE DEF row
  <2>3. TypeOK'
    BY <1>0, <2>1, <2>2
  <2>4. Informed'
    BY <1>0, <2>1, <2>2 DEF Informed, Exists
  <2>5. ToldBefore' /\ NoSilentLoss'
    BY <1>0, <2>1, <2>2 DEF ToldBefore, NoSilentLoss
  <2>6. FlaggedOnceMailed'
    <3>1. \A x \in mailed : x.loan # l
      BY <2>2 DEF Informed, Exists
    <3> QED BY <2>2, <3>1 DEF FlaggedOnceMailed
  <2> QED BY <2>3, <2>4, <2>5, <2>6
<1>3. ASSUME NEW l \in Loans, GetLoan(e, l) PROVE IInv'
  <2> DEFINE read == [pc |-> "read", loan |-> l, row |-> loans[l]]
  <2>1. /\ read \in Editing /\ read.loan = l /\ read.row = loans[l]
        /\ Exists(l) /\ loans[l].state \in {"open", "returned"}
    BY <1>3 DEF GetLoan, Editing, Born, Exists
  <2>2. /\ editors' = [editors EXCEPT ![e] = read]
        /\ UNCHANGED <<unreachable, faults, loans, sweeps, optedOut, told, missed, mailed>>
    BY <1>3 DEF GetLoan
  <2> HIDE DEF read
  <2>3. TypeOK' /\ Informed'
    BY <2>1, <2>2 DEF Informed, Exists
  <2>4. ToldBefore'
    BY <2>1, <2>2 DEF ToldBefore, NoSilentLoss, Rows
  <2>5. NoSilentLoss' /\ FlaggedOnceMailed'
    BY <2>2 DEF NoSilentLoss, FlaggedOnceMailed
  <2> QED BY <2>3, <2>4, <2>5
<1>4. ASSUME NEW row \in Rows, row.flags = editors[e].row.flags,
             row.state \in {"open", "returned"}, Write(e, row)
      PROVE  IInv'
  <2>0. PICK l \in Loans : l = editors[e].loan
    BY <1>4 DEF Write, Informed, Exists
  <2>1. /\ editors[e].pc = "read" /\ Exists(l)
        /\ loans' = IF l \in Born THEN [loans EXCEPT ![l] = row] ELSE loans
        /\ mailed' = {x \in mailed : x.loan # l \/ x.kind \in row.flags}
        /\ editors' = [editors EXCEPT ![e] = Waiting]
        /\ UNCHANGED <<unreachable, faults, sweeps, optedOut, told, missed>>
    BY <1>4, <2>0 DEF Write, Informed
  <2>2. TypeOK'
    BY <1>0, <1>4, <2>1
  <2>3. \A k \in Loans : loans'[k].state = "unborn" => loans[k].state = "unborn" /\ loans'[k] = loans[k]
    BY <1>4, <2>1 DEF Exists
  <2>4. \A k \in Loans : Exists(k) => Exists(k)'
    BY <1>4, <2>1 DEF Exists
  <2>5. Informed'
    <3>1. \A d \in Editors : editors'[d].pc = "read" => editors'[d] = editors[d]
      BY <1>0, <2>1
    <3>2. \A x \in mailed' : x.loan \in Loans /\ loans'[x.loan].state # "unborn"
      BY <2>1, <2>4 DEF Informed, Exists
    <3>3. \A d \in Editors : editors'[d].pc = "read" =>
             /\ editors'[d].loan \in Loans /\ loans'[editors'[d].loan].state # "unborn"
             /\ editors'[d].row.state \in {"open", "returned"}
      BY <2>4, <3>1 DEF Informed, Exists
    <3>4. \A k \in Loans : loans'[k].state = "unborn" => loans'[k].flags = {}
      BY <2>3 DEF Informed
    <3>5. \A p \in Processes :
             /\ \A k \in sweeps'[p].todo : k \in Loans /\ loans'[k].state # "unborn"
             /\ sweeps'[p].pc = "flag" =>
                  sweeps'[p].loan \in Loans /\ loans'[sweeps'[p].loan].state # "unborn"
      BY <2>1, <2>4 DEF Informed, Exists
    <3> QED BY <3>2, <3>3, <3>4, <3>5 DEF Informed, Exists
  <2>6. ToldBefore'
    BY <1>0, <2>1 DEF ToldBefore
  <2>7. NoSilentLoss'
    BY <1>4, <2>0, <2>1 DEF ToldBefore, NoSilentLoss
  <2>8. FlaggedOnceMailed'
    <3>1. CASE l \in Born
      <4> SUFFICES ASSUME NEW x \in mailed'
                   PROVE  \/ x.kind \in loans'[x.loan].flags
                          \/ loans'[x.loan].state = "deleted"
                          \/ /\ sweeps[x.by].pc = "flag" /\ sweeps[x.by].loan = x.loan
                             /\ sweeps[x.by].kind = x.kind
        BY <2>1 DEF FlaggedOnceMailed
      <4>1. x \in mailed /\ x.loan \in Loans /\ (x.loan = l => x.kind \in row.flags)
        BY <2>1
      <4>2. loans' = [loans EXCEPT ![l] = row]
        BY <2>1, <3>1
      <4>3. CASE x.loan = l
        BY <4>1, <4>2, <4>3
      <4>4. CASE x.loan # l
        BY <4>1, <4>2, <4>4 DEF FlaggedOnceMailed
      <4> QED BY <4>3, <4>4
    <3>2. CASE l \notin Born
      BY <2>1, <3>2 DEF FlaggedOnceMailed
    <3> QED BY <3>1, <3>2
  <2> QED BY <2>2, <2>5, <2>6, <2>7, <2>8
<1>5. CASE MarkReturned(e)
  <2>1. [editors[e].row EXCEPT !.state = "returned"] \in Rows
    BY DEF Rows, Editing
  <2> QED BY <1>4, <1>5, <2>1 DEF MarkReturned, Rows, Editing
<1>6. ASSUME NEW due \in Dues, UpdateLoan(e, due) PROVE IInv'
  <2>1. editors[e].row \in Rows /\ editors[e].row.state \in {"open", "returned"}
    BY <1>6 DEF UpdateLoan, Write, Informed, Editing
  <2>2. [editors[e].row EXCEPT !.due = due] \in Rows
    BY <2>1 DEF Rows
  <2> QED BY <1>4, <1>6, <2>1, <2>2 DEF UpdateLoan, Rows
<1> QED BY <1>1, <1>2, <1>3, <1>5, <1>6 DEF EditorNext
-----------------------------------------------------------------------------
(* The rest of a list is a sweep of loans of the list, or none.            *)
LEMMA OnwardType ==
    ASSUME NEW s \in Sweeping, s.pc # "flag"
    PROVE  Onward(s) \in Sweeping /\ Onward(s).pc # "flag" /\ Onward(s).todo = s.todo
BY Blanks DEF Onward, Idle

(* A sweep that goes on to its next loan keeps the invariant, if what it   *)
(* has mailed is flagged by then, or forgotten.                            *)
LEMMA GoesOn ==
    ASSUME IInv, NEW p \in Processes, NEW s \in Sweeping, s.pc # "flag", s.todo \subseteq sweeps[p].todo,
           sweeps' = [sweeps EXCEPT ![p] = s], mailed' \subseteq mailed,
           sweeps[p].pc = "flag" =>
              \A x \in mailed' :
                 x.by = p /\ x.loan = sweeps[p].loan /\ x.kind = sweeps[p].kind =>
                 x.kind \in loans[x.loan].flags \/ loans[x.loan].state = "deleted",
           faults' \in 0 .. MaxFaults, UNCHANGED <<unreachable, loans, editors, optedOut, told, missed>>
    PROVE  IInv'
<1> USE DEF IInv, TypeOK
<1>1. TypeOK'
  OBVIOUS
<1>2. Informed'
  BY DEF Informed, Exists
<1>3. ToldBefore' /\ NoSilentLoss'
  BY DEF ToldBefore, NoSilentLoss
<1>4. FlaggedOnceMailed'
  <2> SUFFICES ASSUME NEW x \in mailed'
               PROVE  \/ x.kind \in loans[x.loan].flags
                      \/ loans[x.loan].state = "deleted"
                      \/ /\ sweeps'[x.by].pc = "flag" /\ sweeps'[x.by].loan = x.loan
                         /\ sweeps'[x.by].kind = x.kind
    BY DEF FlaggedOnceMailed
  <2>1. x.by \in Processes /\ x \in mailed
    OBVIOUS
  <2>2. CASE x.by = p
    BY <2>1, <2>2 DEF FlaggedOnceMailed
  <2>3. CASE x.by # p
    BY <2>1, <2>3 DEF FlaggedOnceMailed
  <2> QED BY <2>2, <2>3
<1> QED BY <1>1, <1>2, <1>3, <1>4

(* A sweep that is about to set a flag keeps the invariant, if the lender  *)
(* has been told or cannot be.                                             *)
LEMMA GoesToFlag ==
    ASSUME IInv, NEW p \in Processes, NEW l \in sweeps[p].todo, sweeps[p].pc = "listed",
           sweeps' = [sweeps EXCEPT ![p] = Flagging(sweeps[p], l)],
           l \in unreachable \/ <<l, sweeps[p].kind>> \in told' \union missed',
           told \union missed \subseteq told' \union missed',
           told' \subseteq Loans \X Kinds, missed' \subseteq Loans \X Kinds,
           faults' \in 0 .. MaxFaults,
           mailed' \subseteq mailed \union {[by |-> p, loan |-> l, kind |-> sweeps[p].kind]},
           UNCHANGED <<unreachable, loans, editors, optedOut>>
    PROVE  IInv'
<1> USE DEF IInv, TypeOK
<1> DEFINE s == Flagging(sweeps[p], l)
<1>0. l \in Loans /\ sweeps[p] \in Sweeping
  BY DEF Sweeping
<1>1. /\ s \in Sweeping /\ s.pc = "flag" /\ s.loan = l /\ s.kind = sweeps[p].kind
      /\ s.todo \subseteq sweeps[p].todo
  BY <1>0 DEF Sweeping, Flagging, Without
<1>2. sweeps' = [sweeps EXCEPT ![p] = s]
  OBVIOUS
<1> HIDE DEF s
<1>3. TypeOK'
  <2>1. [by |-> p, loan |-> l, kind |-> sweeps[p].kind] \in [by : Processes, loan : Loans, kind : Kinds]
    BY <1>0 DEF Sweeping
  <2>2. mailed' \subseteq [by : Processes, loan : Loans, kind : Kinds]
    BY <2>1
  <2> QED BY <1>1, <1>2, <2>2
<1>4. Informed'
  <2>1. \A x \in mailed' : Exists(x.loan)
    BY DEF Informed
  <2> QED BY <1>1, <1>2, <2>1 DEF Informed, Exists
<1>5. ToldBefore' /\ NoSilentLoss'
  BY <1>1, <1>2 DEF ToldBefore, NoSilentLoss
<1>6. FlaggedOnceMailed'
  <2> SUFFICES ASSUME NEW x \in mailed'
               PROVE  \/ x.kind \in loans[x.loan].flags
                      \/ loans[x.loan].state = "deleted"
                      \/ /\ sweeps'[x.by].pc = "flag" /\ sweeps'[x.by].loan = x.loan
                         /\ sweeps'[x.by].kind = x.kind
    BY DEF FlaggedOnceMailed
  <2>1. CASE x \in mailed
    <3>1. CASE x.by = p
      BY <2>1, <3>1 DEF FlaggedOnceMailed
    <3>2. CASE x.by # p
      BY <1>2, <2>1, <3>2 DEF FlaggedOnceMailed
    <3> QED BY <3>1, <3>2
  <2>2. CASE x = [by |-> p, loan |-> l, kind |-> sweeps[p].kind]
    BY <1>1, <1>2, <2>2
  <2> QED BY <2>1, <2>2
<1> QED BY <1>3, <1>4, <1>5, <1>6

(* The steps of a sweep keep the invariant.                                *)
LEMMA SweepsKeepIInv ==
    ASSUME IInv, NEW p \in Processes, Sweep(p)
    PROVE  IInv'
<1>0. sweeps[p] \in Sweeping /\ sweeps \in [Processes -> Sweeping] /\ faults \in 0 .. MaxFaults
  BY DEF IInv, TypeOK
<1> DEFINE Rest(l) == Onward(Without(sweeps[p], l))
           Back == Onward(Flagged(sweeps[p]))
<1>a. ASSUME NEW l, sweeps[p].pc = "listed"
      PROVE  Rest(l) \in Sweeping /\ Rest(l).pc # "flag" /\ Rest(l).todo \subseteq sweeps[p].todo
  <2>1. /\ Without(sweeps[p], l) \in Sweeping /\ Without(sweeps[p], l).pc # "flag"
        /\ Without(sweeps[p], l).todo \subseteq sweeps[p].todo
    BY <1>0, <1>a DEF Sweeping, Without
  <2> QED BY <2>1, OnwardType
<1>b. Back \in Sweeping /\ Back.pc # "flag" /\ Back.todo \subseteq sweeps[p].todo
  <2>1. /\ Flagged(sweeps[p]) \in Sweeping /\ Flagged(sweeps[p]).pc # "flag"
        /\ Flagged(sweeps[p]).todo = sweeps[p].todo
    BY <1>0 DEF Sweeping, Flagged
  <2> QED BY <2>1, OnwardType
<1>1. CASE MarkReminderSent(p)
  <2>0. PICK l \in Loans : l = sweeps[p].loan
    BY <1>1 DEF MarkReminderSent, IInv, Informed, Exists
  <2>1. /\ sweeps[p].pc = "flag"
        /\ loans' = IF l \in Born THEN [loans EXCEPT ![l].flags = @ \union {sweeps[p].kind}] ELSE loans
        /\ sweeps' = [sweeps EXCEPT ![p] = Back]
        /\ UNCHANGED <<unreachable, faults, editors, optedOut, told, missed, mailed>>
    BY <1>1, <2>0 DEF MarkReminderSent, FlagOf
  <2> HIDE DEF Back
  <2>2. loans' \in [Loans -> Rows]
    BY <1>0, <2>1 DEF IInv, TypeOK, Rows, Sweeping
  <2>3. \A k \in Loans : /\ loans'[k].state = loans[k].state
                         /\ loans'[k].flags = IF k = l /\ l \in Born
                                              THEN loans[k].flags \union {sweeps[p].kind}
                                              ELSE loans[k].flags
    BY <2>1 DEF IInv, TypeOK, Rows
  <2>4. TypeOK'
    BY <1>b, <2>1, <2>2 DEF IInv, TypeOK
  <2>5. Informed'
    <3>1. \A k : Exists(k) <=> Exists(k)'
      BY <2>3 DEF Exists
    <3>2. \A k \in Loans : loans'[k].state = "unborn" => loans'[k].flags = {}
      BY <2>3 DEF IInv, Informed, Born
    <3> QED BY <1>b, <2>1, <3>1, <3>2 DEF IInv, TypeOK, Informed
  <2>6. ToldBefore'
    BY <1>b, <2>1 DEF IInv, TypeOK, ToldBefore
  <2>7. NoSilentLoss'
    BY <2>0, <2>1, <2>3 DEF IInv, ToldBefore, NoSilentLoss
  <2>8. FlaggedOnceMailed'
    <3> SUFFICES ASSUME NEW x \in mailed
                 PROVE  \/ x.kind \in loans'[x.loan].flags
                        \/ loans'[x.loan].state = "deleted"
                        \/ /\ sweeps'[x.by].pc = "flag" /\ sweeps'[x.by].loan = x.loan
                           /\ sweeps'[x.by].kind = x.kind
      BY <2>1 DEF FlaggedOnceMailed
    <3>1. x.by \in Processes /\ x.loan \in Loans /\ Exists(x.loan)
      BY DEF IInv, TypeOK, Informed
    <3>2. CASE x.by = p /\ x.loan = l /\ x.kind = sweeps[p].kind
      <4>1. l \in Born \/ loans[l].state = "deleted"
        BY <3>1, <3>2 DEF IInv, TypeOK, Rows, Born, Exists
      <4> QED BY <2>3, <3>2, <4>1
    <3>3. CASE ~ (x.by = p /\ x.loan = l /\ x.kind = sweeps[p].kind)
      BY <2>0, <2>1, <2>3, <3>1, <3>3 DEF IInv, TypeOK, FlaggedOnceMailed
    <3> QED BY <3>2, <3>3
  <2> QED BY <2>4, <2>5, <2>6, <2>7, <2>8 DEF IInv
<1>2. CASE MarkFails(p)
  <2>1. faults' \in 0 .. MaxFaults
    BY <1>0, <1>2 DEF MarkFails
  <2>2. \A x \in mailed' :
          ~ (x.by = p /\ x.loan = sweeps[p].loan /\ x.kind = sweeps[p].kind)
    BY <1>2 DEF MarkFails, IInv, TypeOK
  <2> HIDE DEF Back
  <2>3. sweeps' = [sweeps EXCEPT ![p] = Back] /\ mailed' \subseteq mailed
    BY <1>2 DEF MarkFails, Back
  <2> QED BY <1>b, <1>2, <2>1, <2>2, <2>3, GoesOn DEF MarkFails
<1>3. ASSUME NEW l \in Loans, Skip(p, l) PROVE IInv'
  <2> HIDE DEF Rest
  <2>1. /\ sweeps' = [sweeps EXCEPT ![p] = Rest(l)] /\ sweeps[p].pc = "listed"
        /\ UNCHANGED <<unreachable, faults, loans, editors, optedOut, told, missed, mailed>>
    BY <1>3 DEF Skip, Rest
  <2> QED BY <1>0, <1>a, <2>1, GoesOn
<1>4. ASSUME NEW l \in Loans, PassOver(p, l) PROVE IInv'
  BY <1>4, GoesToFlag DEF PassOver, IInv, TypeOK
<1>6. ASSUME NEW l \in Loans, LookupFails(p, l) PROVE IInv'
  <2>1. /\ <<l, sweeps[p].kind>> \in told' \union missed'
        /\ told \union missed \subseteq told' \union missed' /\ told' \subseteq Loans \X Kinds
        /\ missed' \subseteq Loans \X Kinds
    BY <1>0, <1>6 DEF LookupFails, IInv, TypeOK, Sweeping
  <2>2. faults' \in 0 .. MaxFaults
    BY <1>0, <1>6 DEF LookupFails
  <2> QED BY <1>6, <2>1, <2>2, GoesToFlag DEF LookupFails, IInv, TypeOK
<1>5. ASSUME NEW l \in Loans, NEW ok \in BOOLEAN, NEW taken \in BOOLEAN,
             SendLoanReminderEmail(p, l, ok, taken)
      PROVE  IInv'
  <2>0. sweeps[p].kind \in Kinds
    BY <1>0 DEF Sweeping
  <2>1. CASE ok
    <3>1. /\ sweeps[p].pc = "listed" /\ l \in sweeps[p].todo
          /\ sweeps' = [sweeps EXCEPT ![p] = Flagging(sweeps[p], l)]
          /\ UNCHANGED <<unreachable, faults, loans, editors, optedOut>>
      BY <1>5, <2>1 DEF SendLoanReminderEmail, FlagAfter
    <3>2. told' = told \union {<<l, sweeps[p].kind>>}
      BY <1>5, <2>1 DEF SendLoanReminderEmail
    <3>3. mailed' = mailed \union {[by |-> p, loan |-> l, kind |-> sweeps[p].kind]}
      BY <1>5, <2>1 DEF SendLoanReminderEmail
    <3>4. told' \subseteq Loans \X Kinds
      BY <2>0, <3>2 DEF IInv, TypeOK
    <3>5. missed' = missed \ told' /\ missed' \subseteq Loans \X Kinds
      BY <1>5 DEF IInv, TypeOK, SendLoanReminderEmail
    <3> QED BY <1>0, <3>1, <3>2, <3>3, <3>4, <3>5, GoesToFlag
  <2>2. CASE ~ ok
    <3>1. /\ sweeps' = [sweeps EXCEPT ![p] = Rest(l)] /\ sweeps[p].pc = "listed"
          /\ faults' \in 0 .. MaxFaults
          /\ told \subseteq told' /\ told' \subseteq Loans \X Kinds
          /\ missed' = missed \ told'
          /\ UNCHANGED <<unreachable, loans, editors, optedOut, mailed>>
      BY <1>0, <1>5, <2>0, <2>2 DEF SendLoanReminderEmail, FlagAfter, IInv, TypeOK
    <3> HIDE DEF Rest
    <3>2. TypeOK'
      BY <1>0, <1>a, <3>1 DEF IInv, TypeOK
    <3>3. Informed'
      BY <1>0, <1>a, <3>1 DEF IInv, Informed, Exists
    <3>4. ToldBefore' /\ NoSilentLoss'
      BY <1>0, <1>a, <3>1 DEF IInv, ToldBefore, NoSilentLoss
    <3>5. FlaggedOnceMailed'
      BY <1>0, <1>a, <3>1 DEF IInv, FlaggedOnceMailed
    <3> QED BY <3>2, <3>3, <3>4, <3>5 DEF IInv
  <2> QED BY <2>1, <2>2
<1> QED BY <1>1, <1>2, <1>3, <1>4, <1>5, <1>6 DEF Sweep
-----------------------------------------------------------------------------
(* The invariant is inductive.                                             *)
LEMMA NextIInv == IInv /\ [Next]_vars => IInv'
<1> SUFFICES ASSUME IInv, [Next]_vars PROVE IInv'
  OBVIOUS
<1> USE DEF IInv
<1>1. ASSUME NEW l \in Loans, DeleteLoan(l) PROVE IInv'
  <2> USE <1>1 DEF DeleteLoan
  <2>1. /\ loans' \in [Loans -> Rows]
        /\ \A k \in Loans : /\ loans'[k].flags = loans[k].flags
                            /\ loans'[k].state = loans[k].state
                               \/ (loans'[k].state = "deleted" /\ loans[k].state # "unborn")
    BY DEF TypeOK, Rows, Born
  <2>2. TypeOK'
    BY <2>1 DEF TypeOK
  <2>3. \A k : Exists(k) => Exists(k)'
    BY <2>1 DEF Exists
  <2>4. Informed'
    BY <2>1, <2>3 DEF Informed
  <2>5. ToldBefore' /\ NoSilentLoss'
    BY <2>1 DEF ToldBefore, NoSilentLoss
  <2>6. FlaggedOnceMailed'
    BY <2>1 DEF FlaggedOnceMailed, TypeOK
  <2> QED BY <2>2, <2>4, <2>5, <2>6
<1>2. ASSUME NEW l \in Loans, SetPreference(l) PROVE IInv'
  BY <1>2 DEF SetPreference, TypeOK, Informed, Exists, ToldBefore, NoSilentLoss, FlaggedOnceMailed
<1>3. CASE DaysPass
  <2> USE <1>3 DEF DaysPass
  <2>1. /\ loans' \in [Loans -> Rows]
        /\ \A k \in Loans : loans'[k].flags = loans[k].flags /\ loans'[k].state = loans[k].state
    BY DEF TypeOK, Rows, Dues
  <2>2. TypeOK'
    BY <2>1 DEF TypeOK
  <2>3. Informed'
    BY <2>1 DEF Informed, Exists
  <2>4. ToldBefore' /\ NoSilentLoss'
    BY <2>1 DEF ToldBefore, NoSilentLoss
  <2>5. FlaggedOnceMailed'
    BY <2>1 DEF FlaggedOnceMailed, TypeOK
  <2> QED BY <2>2, <2>3, <2>4, <2>5
<1>4. ASSUME NEW p \in Processes, Crash(p) PROVE IInv'
  <2>1. Idle \in Sweeping /\ Idle.pc # "flag" /\ Idle.todo = {}
    BY Blanks DEF Idle
  <2>2. \A x \in mailed' : x.by # p
    BY <1>4 DEF Crash
  <2>3. faults' \in 0 .. MaxFaults
    BY <1>4 DEF Crash, TypeOK
  <2> QED BY <1>4, <2>1, <2>2, <2>3, GoesOn DEF Crash
<1>5. ASSUME NEW p \in Processes, NEW k \in Kinds, ListPendingReminders(p, k) PROVE IInv'
  <2> DEFINE found == {l \in Loans : Matches(loans[l], k)}
             s == [pc |-> "listed", kind |-> k, todo |-> found, loan |-> Null]
  <2>1. s \in Sweeping /\ s.pc = "listed" /\ s.todo = found
    BY DEF Sweeping
  <2>2. \A l \in found : Exists(l)
    BY DEF Matches, Exists
  <2>3. /\ sweeps' = [sweeps EXCEPT ![p] = s] /\ sweeps[p].pc = "idle"
        /\ UNCHANGED <<unreachable, faults, loans, editors, optedOut, told, missed, mailed>>
    BY <1>5 DEF ListPendingReminders
  <2> HIDE DEF s, found
  <2>4. TypeOK'
    BY <2>1, <2>3 DEF TypeOK
  <2>5. \A l : Exists(l) => Exists(l)'
    BY <2>3 DEF Exists
  <2>6. Informed'
    BY <2>1, <2>2, <2>3, <2>5 DEF TypeOK, Informed
  <2>7. ToldBefore' /\ NoSilentLoss'
    BY <2>1, <2>3 DEF TypeOK, ToldBefore, NoSilentLoss
  <2>8. FlaggedOnceMailed'
    BY <2>1, <2>3 DEF TypeOK, FlaggedOnceMailed
  <2> QED BY <2>4, <2>6, <2>7, <2>8
<1>6. CASE UNCHANGED vars
  BY <1>6 DEF vars, TypeOK, Informed, Exists, ToldBefore, NoSilentLoss, FlaggedOnceMailed
<1> QED BY <1>1, <1>2, <1>3, <1>4, <1>5, <1>6, EditorsKeepIInv, SweepsKeepIInv DEF Next

(* Loans, handlers and sweeps stay well typed.                             *)
THEOREM LoanTypes == Spec => []TypeOK
<1>1. IInv => TypeOK
  BY DEF IInv
<1> QED BY InitIInv, NextIInv, <1>1, PTL DEF Spec

(* A reminder is flagged as sent only when the queue has had a mail for it,*)
(* or the account of its lender could not be read: processOne enqueues     *)
(* before it flips the flag, and an update writes back only flags it read. *)
THEOREM NoReminderIsLost == Spec => []NoSilentLoss
<1>1. IInv => NoSilentLoss
  BY DEF IInv
<1> QED BY InitIInv, NextIInv, <1>1, PTL DEF Spec

(* A process that has mailed a reminder is on its way to flag it, or has,  *)
(* until the call fails or an older row is written over it (processOne).   *)
THEOREM MailedIsFlagged == Spec => []FlaggedOnceMailed
<1>1. IInv => FlaggedOnceMailed
  BY DEF IInv
<1> QED BY InitIInv, NextIInv, <1>1, PTL DEF Spec
=============================================================================

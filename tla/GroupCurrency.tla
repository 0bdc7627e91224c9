--------------------------- MODULE GroupCurrency ---------------------------
(***************************************************************************)
(* What a currency migration promises to whoever reads a group: the group  *)
(* and all of its prices change currency together, in one step, and while  *)
(* a migration is under way nothing else changes a price.  Prices entered  *)
(* by hand are in the group's currency; those of an archive may not be,    *)
(* and a conversion makes nonsense of them.                                *)
(***************************************************************************)
CONSTANTS Groups, Commodities, GroupOf, Currencies, Amounts, Garbled

VARIABLES
    cur,     \* the currency of each group
    locked,  \* whether a migration is in flight for it
    unit,    \* the currency each price is expressed in
    worth,   \* what each commodity is worth, whatever the currency
    foreign  \* whether its price came from an archive of another currency

vars == <<cur, locked, unit, worth, foreign>>

Init ==
    /\ cur \in [Groups -> Currencies]
    /\ locked = [g \in Groups |-> FALSE]
    /\ unit = [c \in Commodities |-> cur[GroupOf[c]]]
    /\ worth \in [Commodities -> Amounts]
    /\ foreign = [c \in Commodities |-> FALSE]

Lock(g) ==
    /\ ~locked[g]
    /\ locked' = [locked EXCEPT ![g] = TRUE]
    /\ UNCHANGED <<cur, unit, worth, foreign>>

(* The migration takes effect and the group is open again.                 *)
Convert(g, to) ==
    /\ locked[g]
    /\ to # cur[g]
    /\ locked' = [locked EXCEPT ![g] = FALSE]
    /\ cur' = [cur EXCEPT ![g] = to]
    /\ unit' = [c \in Commodities |->
                   IF GroupOf[c] # g THEN unit[c]
                   ELSE IF foreign[c] THEN Garbled ELSE to]
    /\ UNCHANGED <<worth, foreign>>

(* Migrations that fail leave no trace; one sweep may fail several.        *)
GiveUp(S) ==
    /\ S # {} /\ \A g \in S : locked[g]
    /\ locked' = [g \in Groups |-> locked[g] /\ g \notin S]
    /\ UNCHANGED <<cur, unit, worth, foreign>>

Write(c, amount, u) ==
    /\ ~locked[GroupOf[c]]
    /\ worth' = [worth EXCEPT ![c] = amount]
    /\ unit' = [unit EXCEPT ![c] = u]
    /\ UNCHANGED <<cur, locked>>

(* A price entered by hand, and a row of an archive that was made when the *)
(* group had the currency u.                                               *)
Edit(c, amount) ==
    /\ Write(c, amount, cur[GroupOf[c]])
    /\ foreign' = [foreign EXCEPT ![c] = FALSE]

Import(c, amount, u) ==
    /\ Write(c, amount, u)
    /\ foreign' = [foreign EXCEPT ![c] = u # cur[GroupOf[c]]]

Next ==
    \/ \E c \in Commodities, amount \in Amounts :
          Edit(c, amount) \/ \E u \in Currencies : Import(c, amount, u)
    \/ \E g \in Groups : Lock(g) \/ \E to \in Currencies : Convert(g, to)
    \/ \E S \in SUBSET Groups : GiveUp(S)

Spec == Init /\ [][Next]_vars
=============================================================================

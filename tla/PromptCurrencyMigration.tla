---------------------- MODULE PromptCurrencyMigration ----------------------
(***************************************************************************)
(* The timing assumption under which the handlers and workers of           *)
(* CurrencyMigration are free of races, and the view in which they then    *)
(* implement GroupCurrency.                                                *)
(***************************************************************************)
EXTENDS CurrencyMigration

(* Requests between their first read and their last write.                 *)
MidRequest ==
    ({"start"} \X {r \in Starters : starters[r].pc \notin {"idle", "previewing"}})
    \union ({"edit"} \X {e \in Editors : editors[e].pc # "idle"})
    \union ({"update"} \X {x \in GroupWriters : groupWriters[x].pc # "idle"})
    \union ({"restore"} \X {x \in Restorers : restorers[x].pc \in {"noneRunning", "unlocked"}})

Ended ==
    <<{m \in Mids : migrations[m].status \in TerminalStatus},
      {x \in Restorers : restorers[x].pc = "finished"}>>

AtMostOneMidRequest == \A p, q \in MidRequest : p = q

WorkedOn(m) == \E w \in Workers : workers[w].pc \in {"claimed", "tx2"} /\ workers[w].mig = m

(* The assumption: requests do not overlap one another, no migration or    *)
(* restore ends and no day begins in the middle of one (they take          *)
(* milliseconds), no restore begins to run in the middle of its deletion,  *)
(* and no worker works on one migration for ten minutes.  Nothing in the   *)
(* code enforces any of this.                                              *)
Prompt ==
    /\ AtMostOneMidRequest'
    /\ MidRequest # {} => day' = day /\ Ended' = Ended
    /\ \A x \in Restorers : restorers[x].seen => ~RestoreRun(x)
    /\ \A m \in Mids : GetStuck(m) => ~WorkedOn(m)

PromptNext == Next /\ Prompt
PromptSpec == Init /\ [][PromptNext]_vars

(* The abstract view of the tables.                                        *)
Abstract == INSTANCE GroupCurrency WITH
    cur <- [g \in Groups |-> groups[g].cur],
    locked <- [g \in Groups |-> InFlight(g) # {}],
    unit <- [c \in Commodities |-> commodities[c].price],
    worth <- [c \in Commodities |-> commodities[c].worth],
    foreign <- [c \in Commodities |-> commodities[c].foreign]

(* To its readers a group changes currency in one step, with all of its    *)
(* prices, and nothing they can see changes while a migration is in        *)
(* flight: claims, rollbacks, crashes and sweeps included.                 *)
ChangesCurrencyInOneStep == Abstract!Spec
=============================================================================

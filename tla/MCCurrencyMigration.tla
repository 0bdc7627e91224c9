------------------------ MODULE MCCurrencyMigration ------------------------
(***************************************************************************)
(* Instances of CurrencyMigration for TLC, with and without the timing     *)
(* assumption of PromptCurrencyMigration.                                  *)
(***************************************************************************)
EXTENDS PromptCurrencyMigration, TLC

CONSTANTS g1, g2, c1, c2, usd

MCGroupOf == [c \in Commodities |-> IF c = c2 /\ g2 \in Groups THEN g2 ELSE g1]

(* Every group starts in usd, with its prices entered in usd.              *)
MCInit ==
    /\ Init
    /\ \A g \in Groups : groups[g].cur = usd
    /\ \A c \in Commodities : commodities[c].orig = usd

(* Clients are interchangeable, and so are worker processes, and so are the*)
(* currencies nobody starts in.                                            *)
Symmetry == Permutations(Starters) \union Permutations(Workers)
            \union Permutations(Currencies \ {usd})

MCSpec == MCInit /\ [][Next]_vars
MCFairSpec == MCSpec /\ Fairness

(* Without the soft pause: all it does is to keep workers from claiming.   *)
MCPromptSpec == MCInit /\ [][PromptNext /\ ~paused']_vars
=============================================================================

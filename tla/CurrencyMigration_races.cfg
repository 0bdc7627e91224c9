SPECIFICATION MCSpec
CONSTANTS
    g1 = g1  g2 = g2  c1 = c1  c2 = c2  usd = usd
    Garbled = Garbled  Null = Null
    GroupOf <- MCGroupOf
    Groups = {g1}  Commodities = {c1, c2}
    Currencies = {usd, eur}  Amounts = {1}
    Starters = {s1, s2}  Editors = {}  GroupWriters = {}  Restorers = {}  Workers = {w1, w2}
    DailyCap = 1  MaxMigrations = 2  MaxDay = 0  MaxCrashes = 1
INVARIANTS TypeOK OneInFlight ClaimsAreLive OneWorkerPerMigration AuditMatchesStatus FailureLoggedOnce
PROPERTIES CompletedIsFinal RewrittenByItsWorkerOnly EndClearsSignal
SYMMETRY Symmetry

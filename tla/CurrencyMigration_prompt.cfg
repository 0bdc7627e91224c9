SPECIFICATION MCPromptSpec
CONSTANTS
    g1 = g1  g2 = g2  c1 = c1  c2 = c2  usd = usd
    Garbled = Garbled  Null = Null
    GroupOf <- MCGroupOf
    Groups = {g1}  Commodities = {c1}
    Currencies = {usd, eur}  Amounts = {1}
    Starters = {s1}  Editors = {e1}  GroupWriters = {}  Restorers = {r1}  Workers = {w1, w2}
    DailyCap = 1  MaxMigrations = 2  MaxDay = 1  MaxCrashes = 0
INVARIANTS PricesInGroupCurrency LockSignalInFlight WithinDailyCap
PROPERTIES TerminalIsFinal ChangesCurrencyInOneStep ConvertsWhatWasPreviewed AcquisitionNotReplaced
SYMMETRY Symmetry

SPECIFICATION BalanceSpec
CONSTANTS
    annual = annual
    sick = sick
    Workers = {w1, w2}
    Types = {annual, sick}
    Vacation = {annual}
    CarryCap = 3
    Hours = {1}
    Totals = {3}
    TypesAtStart <- MCTypesAtStart
    BalAtStart <- MCBalAtStart
    Apart = TRUE
    None = None
SYMMETRY Symmetry
INVARIANT BalanceTypeOK
INVARIANT Balanced
INVARIANT NoGaps
PROPERTY LedgerSpec
CHECK_DEADLOCK FALSE

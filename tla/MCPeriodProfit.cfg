CONSTANTS
    Operators = {o1, o2}
    Accounts <- MCAccounts
    AccountType <- MCAccountType
    Postable <- MCAccounts
    Result = "911"
    Retained = "4212"
    Fallback <- MCFallback
    Bands <- MCBands
    MonthDays = 30
    Opening <- MCOpening
    Additions <- MCAdditions
    VoucherIds = {"k1", "k2"}
    Commands <- MCCommands
    FactSets <- MCFactSets
    Entries <- MCEntries
    OpenDocuments <- MCDocuments
    None = None
    MaxAttempts = 2
    MaxEntries = 2
SPECIFICATION Spec
SYMMETRY Symmetry
INVARIANTS
    NetProfitIsCarried
CHECK_DEADLOCK FALSE

SPECIFICATION MCSpec
CONSTANTS
    s1 = s1
    s2 = s2
    NoDocument = NoDocument
    NoOrder = NoOrder
    Sessions <- MCSessions
    Docs <- MCDocs
    Orders <- MCOrders
    Items <- MCItems
    Moves <- MCMoves
    Partner <- MCPartner
    VATRates <- MCVATRates
    MaxAmount = 1000000
    Commands <- MCCommands
    MaxCalls = 6
    v1 = v1
    v2 = v2
    Visitors <- MCVisitors
    Requests <- MCRequests
    TT133Chart <- MCChart
    NumericCodes <- MCNumericCodes
    Year <- MCYear
    Today = 3
    Cash <- MCCash
    Suppliers <- MCSuppliers
    MaxArrivals = 4
    c1 = c1
    c2 = c2
    Clerks <- MCClerks
    Papers <- MCPapers
    Receipts <- MCReceipts
    MaxAttempts = 2
    Forms <- MCForms
    Calls <- MCCalls
    Operators <- MCVisitors
    DefaultChart <- MCChart
SYMMETRY Symmetry
INVARIANTS
    DashboardReadsTrialBalance
CHECK_DEADLOCK FALSE

\* Three arrivals of one key, two callers over two invoices, or two callers
\* over two books and two days.
SPECIFICATION SessionsSpec
CHECK_DEADLOCK FALSE
CONSTANTS
    r1 = r1
    r2 = r2
    r3 = r3
    k1 = k1
    NoRecord = NoRecord
    NoFlight = NoFlight
    Arrivals <- MCArrivals
    Keys <- MCKeys
    KeyOf <- MCKeyOf
    HashOf <- MCHashOf
    TTL = 1
    MaxTime = 2
    MaxRestarts = 1
    s1 = s1
    s2 = s2
    NoSession = NoSession
    NoDocument = NoDocument
    Sessions <- MCSessions
    Docs <- MCDocs
    Drafts <- MCDrafts
    Applications <- MCApplications
    c1 = c1
    c2 = c2
    d1 = d1
    d2 = d2
    None = None
    Callers <- MCSessions
    Days <- MCDays
    Lockable <- MCLockable
    Closable <- MCClosable
    Books <- MCBooks
    Postings <- MCPostings
    Moves <- MCMoves
    OpeningLog <- MCOpeningLog
    OpeningSeq <- MCOpeningSeq
    MaxCalls = 2
INVARIANTS
    MiddlewareTypeOK
    OneLeaderPerKey
    OneAnswerOneRequest
    StoreTypeOK
    RowsExplainHeader
    AcknowledgedIsAccounted
    DecidedOnCurrentRow
    TypeOK
    NumbersHandedOutOnce
    WholePostings
    OneEntryPerRequest
PROPERTIES
    AnsweredKeyNotRun
    ImplementsContract
    EveryArrivalAnswered
    NothingIsTakenBack
    ImplementsBook
    EveryTxAnswered
    LockedDaysFreeze
    OnlyOverlapSpoilsStock
    EveryCallAnswered

SPECIFICATION Spec
CHECK_DEADLOCK FALSE
CONSTANTS
    c1 = c1
    c2 = c2
    d1 = d1
    d2 = d2
    None = None
    Callers <- MCCallers
    Days <- MCDays
    Lockable <- MCLockable
    Closable <- MCClosable
    Books <- MCBooks
    Postings <- LineSales
    Moves <- NoMoves
    OpeningLog <- MCOpeningLog
    OpeningSeq <- MCOpeningSeq
    MaxCalls = 2
INVARIANT
    StockMovedMeansMoved

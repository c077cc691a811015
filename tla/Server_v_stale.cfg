SPECIFICATION Spec
CONSTANTS
    Nil = Nil
    NoEvent = NoEvent
    RawIds <- MCRawIds
    Blank = ""
    Trim <- MCTrim
    HalfRange = 2
    Dispatcher = dispatcher
    Ticker = ticker
    Handlers = {h1, h2}
    Savers = {h1, h2, ticker}
    TmpNames = {t1, t2}
    Finite = {"v1", "v2"}
    NonFinite = {}
    MaxFaults = 0
    Sinks <- NoSinks
    QueueSize = 1
    FailingSinks = {}
    TickerOn = FALSE
    RestoreOn = TRUE
    Batches <- TwoBatches
    Singles <- NoSingles
    ClientsLeave = FALSE
    MaxRequests = 2
    MaxCrashes = 0
INVARIANTS AckedBatchesSaved
CHECK_DEADLOCK FALSE

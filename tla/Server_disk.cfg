SPECIFICATION FairSpec
CONSTANTS
    Nil = Nil
    NoEvent = NoEvent
    RawIds <- MCRawIds
    Blank = ""
    Trim <- MCTrim
    HalfRange = 2
    Dispatcher = dispatcher
    Ticker = ticker
    Handlers = {h1}
    Savers = {h1, ticker}
    TmpNames = {t1, t2, t3, t4}
    Finite = {"v1"}
    NonFinite = {"nan"}
    MaxFaults = 1
    Sinks <- NoSinks
    QueueSize = 1
    FailingSinks = {}
    TickerOn = TRUE
    RestoreOn = TRUE
    Batches <- GoodAndBad
    Singles <- NaNOrNothing
    ClientsLeave = FALSE
    MaxRequests = 2
    MaxCrashes = 1
INVARIANTS TypeOK FileIsPastState TempsAccounted SavesApart
PROPERTIES RestartRestoresFile EventuallyPersisted
CHECK_DEADLOCK FALSE

SPECIFICATION Spec
CONSTANTS
    Nil = Nil
    NoEvent = NoEvent
    RawIds <- MCRawIds
    Blank = ""
    Trim <- MCTrim
    HalfRange = 2
    Dispatcher = dispatcher
    Ticker = ticker
    Handlers = {h1}
    Savers = {h1, ticker}
    TmpNames = {t1}
    Finite = {"v1"}
    NonFinite = {}
    MaxFaults = 0
    Sinks <- BothSinks
    QueueSize = 2
    FailingSinks = {}
    TickerOn = FALSE
    RestoreOn = FALSE
    Batches <- NoBatches
    Singles <- OneSingle
    ClientsLeave = FALSE
    MaxRequests = 1
    MaxCrashes = 0
INVARIANTS RemoteSinkComplete
CHECK_DEADLOCK FALSE

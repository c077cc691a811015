SPECIFICATION FairSpec
CONSTANTS
    Nil = Nil
    NoEvent = NoEvent
    RawIds <- MCRawIds
    Blank = ""
    Trim <- MCTrim
    HalfRange = 2
    Dispatcher = dispatcher
    Ticker = ticker
    Handlers = {h1, h2}
    Savers = {h1, h2, ticker}
    TmpNames = {t1}
    Finite = {"v1"}
    NonFinite = {}
    MaxFaults = 0
    Sinks <- BothSinks
    QueueSize = 2
    FailingSinks = {"remote"}
    TickerOn = FALSE
    RestoreOn = FALSE
    Batches <- NoBatches
    Singles <- OneGauge
    ClientsLeave = TRUE
    MaxRequests = 3
    MaxCrashes = 1
INVARIANTS  DeliveredOnceInOrder NoSilentLoss
PROPERTIES RequestsComplete QueueDrains
CHECK_DEADLOCK FALSE

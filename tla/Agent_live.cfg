SPECIFICATION AgentSpec
CONSTANTS
    RawIds <- MCRawIds
    Trim <- MCTrim
    Blank = ""
    Finite = {1, 2}
    NonFinite = {NaN}
    HalfRange = 8
    Nil = Nil
    RuntimeGauges <- NoGauges
    HostGauges <- HostGauge
    PollCount = "PollCount"
    MaxPolls <- OneHostPoll
    RateLimits = {1}
    Delays = 1
    MaxReports = 4
    MaxFailures <- Two
PROPERTIES ShutdownCompletes ReportsHandled
CHECK_DEADLOCK FALSE

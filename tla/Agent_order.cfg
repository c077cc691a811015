SPECIFICATION Spec
CONSTANTS
    RawIds <- MCRawIds
    Trim <- MCTrim
    Blank = ""
    Finite = {1, 2}
    NonFinite = {NaN}
    HalfRange = 8
    Nil = Nil
    RuntimeGauges <- OneGauge
    HostGauges <- NoGauges
    PollCount = "PollCount"
    MaxPolls <- TwoRuntimePolls
    RateLimits = {0, 2}
    Delays = 1
    MaxReports = 2
    MaxFailures <- TwoOrOne
INVARIANTS SnapshotsCoherent DuplicatesBounded OneFailureTolerated DrainedAtExit
PROPERTIES GaugesFresh
CHECK_DEADLOCK FALSE

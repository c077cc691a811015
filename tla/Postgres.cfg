SPECIFICATION FairSpec
CONSTANTS
    Nil = Nil
    v1 = v1
    RawIds <- MCRawIds
    Blank = ""
    Trim <- MCTrim
    Finite = {v1}
    NonFinite = {}
    HalfRange = 2
    Clients = {c1, c2}
    Ops <- Mix
    Delays = 1
    MaxFaults = 2
INVARIANTS CallsSerialize AppliedAsAnswered ReadsCommitted AnswersLikeMemory DeadlocksRecovered
PROPERTY CallsReturn
CHECK_DEADLOCK FALSE

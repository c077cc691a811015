\* Every configuration, then starts, crashes and outages of the database.
SPECIFICATION FairSpec
CONSTANTS
    Texts <- MCTexts
    Blank = ""
    TrimSpace <- MCTrimSpace
    ParseInt <- MCParseInt
    ParseDur <- MCParseDur
    ParseBool <- MCParseBool
    ParseAddr <- MCParseAddr
    NotParsed = NotParsed
    Second = 4
    HalfRange = 32
    DefStore = 3
    DefReport = 2
    DefPoll = 1
    Inputs <- MCInputs
    Writes = {w1, w2, w3}
    Batches = {w1, w2}
    NoWrite = NoWrite
    Handlers = {h1, h2}
    Ticker = Ticker
    Delays = 1
    MaxEvents = 3
INVARIANTS
    TypeOK
    SharedAddressMeets
    AckedVisible
    AckedDurable
PROPERTIES
    StartsEnd
\* A configuration that is refused ends the process.
CHECK_DEADLOCK FALSE

SPECIFICATION Spec
CONSTANTS
    Nil = Nil
    RawIds <- MCRawIds
    Blank = ""
    Trim <- MCTrim
    HalfRange = 2
    Finite = {"v1", "v2"}
    NonFinite = {"nan"}
    Conns = {c1, c2}
    Slots = 2
    Buffers = {s1, s2}
    NoBuf = NoBuf
    Keys = {"", "k", " k", "q"}
    TrimKey <- MCTrimKey
    NoKey = ""
    Reports <- OneReport
    Others <- MCOthers
    MaxRequests = 3
INVARIANTS OwnFieldsKept AnswersTellEffect OnlyVerifiedStored ReportsGetThrough AnswersReadable
SYMMETRY Symmetry
CHECK_DEADLOCK FALSE

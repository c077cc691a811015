SPECIFICATION FairSpec
CONSTANTS
    Nil = Nil
    RawIds <- MCRawIds
    Blank = ""
    Trim <- MCTrim
    Finite = {"v1", "v2"}
    NonFinite = {}
    HalfRange = 2
    Clients = {c1, c2}
    Ops <- AllOps
INVARIANT StepsUnderLock
PROPERTIES RefinesRepo CallsReturn

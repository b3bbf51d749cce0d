CONSTANTS
    d1 = d1
    d2 = d2
    d3 = d3
    s1 = s1
    s2 = s2
    None = None
    Symbols = {s1}
    Decisions = {d1, d2}
    SymbolOf <- SameBarSymbol
    BarOf <- SameBar
    FirstTradeId <- DisjointIds
    Lots = 1
    LastBar = 1
    Retries = 2
    Faults = {"refused", "lost", "crash", "limits", "stale", "declined"}
    MaxFlips = 2
    MaxCrashes = 1
SPECIFICATION Spec
INVARIANTS
    TypeOK
    RecordedBeforeSent
    OnePositionPerSymbol
    FillsArePrefix
    AtMostOneEntryAfterArm

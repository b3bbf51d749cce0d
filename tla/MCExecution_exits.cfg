CONSTANTS
    d1 = d1
    d2 = d2
    d3 = d3
    s1 = s1
    s2 = s2
    None = None
    Symbols = {s1}
    Decisions = {d1}
    SymbolOf <- OneSymbol
    BarOf <- OneBar
    FirstTradeId <- DisjointIds
    Lots = 2
    LastBar = 2
    Retries = 2
    Faults = {"refused", "lost", "garbled", "partial"}
    MaxFlips = 2
    MaxCrashes = 0
SPECIFICATION FairSpec
PROPERTIES
    ExitClosesPosition
    OpenRowSettles
    UnknownOrderHalts

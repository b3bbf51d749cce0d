CONSTANTS
    d1 = d1
    d2 = d2
    d3 = d3
    s1 = s1
    s2 = s2
    None = None
    Symbols = {s1}
    Decisions = {d1}
    SymbolOf <- OneSymbol
    BarOf <- OneBar
    FirstTradeId <- DisjointIds
    Lots = 1
    LastBar = 1
    Retries = 2
    Faults = {"refused"}
    MaxFlips = 1
    MaxCrashes = 0
SPECIFICATION Spec
INVARIANTS
    NeverNaked

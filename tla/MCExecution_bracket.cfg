CONSTANTS
    d1 = d1
    d2 = d2
    d3 = d3
    s1 = s1
    s2 = s2
    None = None
    Symbols = {s1, s2}
    Decisions = {d1, d3}
    SymbolOf <- TwoSymbols
    BarOf <- OneBarEach
    FirstTradeId <- DisjointIds
    Lots = 2
    LastBar = 1
    Retries = 2
    Faults = {"refused", "declined", "getfails"}
    MaxFlips = 0
    MaxCrashes = 0
SPECIFICATION Spec
INVARIANTS
    NeverNaked
    ClosedExactlyWhenSold

SPECIFICATION Spec
CONSTANTS
    RiskPct = 23
    PositionPct = 50
    DeployedPct = 80
    MaxConcurrent = 2
    MinQty = 1
    MinNotional = 3
    DrawdownPct = 26
    DailyLossPct = 23
    s1 = s1
    s2 = s2
    a = a
    b = b
    unknown = unknown
    None = None
    Symbols = {s1, s2}
    Configured = {s1, s2}
    Strategies = {a, b}
    SymbolOf <- OneEach
    Unknown = unknown
    Prices = {2, 3}
    StopGaps = {1}
    Multipliers = {100}
    StartCash = 9
    MaxEntries = 2
    MaxFaults = 1
INVARIANTS
    TypeOK
    LimitsAreExact
    CapsHold
    EverySymbolDecided
PROPERTIES
    EntersOnlyValued

SPECIFICATION Spec
CONSTANTS
    RiskPct = 25
    PositionPct = 50
    DeployedPct = 100
    MaxConcurrent = 1
    MinQty = 1
    MinNotional = 1500
    N = 6
    MaxPeriod = 2
    Unknown = Unknown
    Specs <- MCSpecs
    History = 3
    StopBand <- MCStopBand
    Candles <- MCCandles
    FeePct = 1
    SlipPct = 1
    StartEquity = 10000
    MinTrades = 1
    MaxDropPct = 20
    MinFactorPct = 120
    None = None
INVARIANTS
    TypeOK
    LiveActsAsBacktested
    EnginesAgree
    BacktestIsSound
    PaperIsNotFlattering
CHECK_DEADLOCK FALSE

CONSTANTS
    i1 = i1
    i2 = i2
    c1 = c1
    c2 = c2
    batch = batch
    human = human
    Monitor = runtime
    None = None
    Ids = {i1, i2}
    Specs = {c1, c2}
    Researchers = {batch}
    Operators = {human}
    MinDays = 1
    MaxDay = 2
    MaxCalls = 5
    MaxCrashes = 1
SPECIFICATION FairSpec
INVARIANTS
    TypeOK
    EvidenceChain
    ObservedBeforePromotion
    OneRowPerSpec
PROPERTIES
    FailingStrategyStops

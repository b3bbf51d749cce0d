CONSTANTS
    runtime = runtime
    cli = cli
    cli2 = cli2
    Procs = {runtime, cli, cli2}
    Operators = {cli, cli2}
    MaxOps = 4
SPECIFICATION Spec
INVARIANTS
    TypeOK
PROPERTIES
    ImplementsSwitch
    SoloWriteWhole
CHECK_DEADLOCK FALSE

\* Workflows written operation by operation, with the macros and in Python.
CONSTANTS
    f = f
    f_task = f_task
    Task = {a, b, c}
    Listing <- MCListing
    Flow = {flow}
    Name = {f, f_task}
    Renamed <- MCRenamed
    Written <- MCWritten
    MaxSkips = 1
    Thread = {t1, t2}
    Module = {v}
    Embedded = Embedded
    v = v
    pack = pack
    Context <- MCContexts
    Function = {g, h}
    MaxDefs = 3
    MaxBlocks = 3
    Nothing = Nothing
SPECIFICATION EverySpec
INVARIANTS
    CarriedOutInOrder
    GraphAlgorithmsAgree
    CompiledCanRun
    RulesAreKept
    RegisteredCanRun
    TasksGoWhereWritten
CHECK_DEADLOCK FALSE

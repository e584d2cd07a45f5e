\* Every way the contexts of a diamond of tasks can be merged; and runners of two
\* tenants and one of none, under an administrator.
CONSTANTS
    a = a
    b = b
    c = c
    d = d
    x = x
    y = y
    f = f
    g = g
    Caller = Caller
    Task = {a, b, c, d}
    Key = {x, y}
    Field = {f, g}
    Depends <- MCDepends
    Kind <- MCKind
    Rule <- MCRule
    Policy <- MCPolicy
    Bodies <- MCBodies
    Inputs <- MCInputs
    MaxMisses = 1
    acme = acme
    globex = globex
    acme1 = acme1
    globex1 = globex1
    shared1 = shared1
    Tenant = {acme, globex}
    Public = Public
    Runner = {acme1, globex1, shared1}
    Home <- MCHome
    PoolSize = 2
    MaxCalls = 3
    MaxFaults = 1
SPECIFICATION EverySpec
INVARIANTS TypeOK SoleWriterIsSeen KindIsTransparent RuleAndBodyAgree DecisionsAgree
    RowsStayHome TenantIsWhole
CHECK_DEADLOCK FALSE

CONSTANTS
    Callers = {main, g1, g2}
    Timers = {t1, t2}
    NoTimer = NoTimer
    Free = Free
    Main = main
    MaxCalls = 4

    Logins = {l1, l2}
    MaxFailures = 2
    Window = 2
    MaxInWindow = 2
    MaxTime = 5

    People = {alice, bob}
    Names = {n1, n2}
    ApiTokens = {k1, k2}
    Handlers = {h1, h2}
    MaxChanges = 3

    Admins = {s1, s2}
    MaxSaves = 2
    MaxStStarts = 2
    MaxSealFaults = 1

    Requests = {q1, q2}
    TTL = 1
    MaxClock = 2
    MaxEdits = 1

    Conns = {x1, x2}
    Inbounds = {i1, i2}
    MaxEpochs = 2

    Reloaders = {w1, w2}
    LateServices = {clash, clock}
    MaxBoxes = 3
    MaxBoxFaults = 2

SPECIFICATION RuntimeFairSpec

INVARIANTS
    ACTokensFollowRows
    STSecretsAreSafe
    SBOutputIsRecent
    CTConnectionsKept
    CBBoxIsWhole

PROPERTIES
    RestartsComplete
    RLLimitsHold

\* The process may exit; requests, logins and edits run out.
CHECK_DEADLOCK FALSE

CONSTANTS
    Producers = {p1, p2}
    Capacity = 2
    BatchSize = 2
    Threshold = 1
    MaxEvents = 3
    MaxErrors = 1

    Tokens = {t1}
    Callbacks = {c1, c2}
    MaxUses = 3
    MaxFaults = 2
    MaxStops = 2

    Users = {u1}
    Slots = {s1, s2}
    MaxPerUser = 1
    MaxPerIP = 2
    MaxWSTokens = 1
    QueueSize = 1
    MaxRotations = 1

    MemberLists <- Groups
    Direct = "direct"
    Hysteresis = 2
    MaxOutages = 2

    Creates = {r1, r2}
    MaxRows = 3

SPECIFICATION ServicesFairSpec

INVARIANTS
    RTClientsAreAccounted
    TUUsesAreKept
    SDClaimIsExact

PROPERTIES
    AuditIsKept
    FOStaysCalm
    ServicesGetOn

\* Calls of producers, uses, logins and creates run out.
CHECK_DEADLOCK FALSE

\* One client with both kinds of limit, delayed start and periodic reset, one browser
\* of each kind.  The inputs run out, so the system may stop.
CONSTANTS
    Editors = {e1}
    BulkEditors = {b1}
    DepleteJob = job
    Payer = payer
    NoForm = NoForm
    MaxDay = 3
    MaxUse = 2
    MaxEdits = 1
    MaxRenewals = 1
    MaxFaults = 1
    Volumes = {1}
    Expiries = {0, 1}
    Periods = {0}

SPECIFICATION MCSpec

INVARIANTS
    NeverOvercharged
    TrafficIsAccounted
    CoreAgrees

PROPERTIES
    DepletePassIsSound
    OverLimitIsStopped

CHECK_DEADLOCK FALSE

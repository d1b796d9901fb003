\* A bulk edit and nothing that fails: what it writes over the columns that the
\* list of clients does not carry.
CONSTANTS
    Editors = {}
    BulkEditors = {b1}
    DepleteJob = job
    Payer = payer
    NoForm = NoForm
    MaxDay = 2
    MaxUse = 1
    MaxEdits = 1
    MaxRenewals = 0
    MaxFaults = 0
    Volumes = {0}
    Expiries = {0}
    Periods = {0}

SPECIFICATION FairSpec

PROPERTY BulkKeepsTheRest

CHECK_DEADLOCK FALSE

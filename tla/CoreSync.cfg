CONSTANTS
    Objects = {inbound, blob}
    Blob = blob
    Savers = {s1, s2}
    Cron = cron
    Admins = {admin}
    Reloaders = {d1}
    Free = Free
    Absent = Absent
    MaxVer = 2
    MaxFails = 1
    MaxRestarts = 1

SPECIFICATION FairSpec

INVARIANTS
    LagIsOwed

PROPERTIES
    CoreFollows

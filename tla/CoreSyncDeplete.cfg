\* No call of the core fails (MaxFails = 0): what is left is the reload of the
\* deplete cron next to the sections of the restart manager.
CONSTANTS
    Objects = {inbound, blob}
    Blob = blob
    Savers = {s1}
    Cron = cron
    Admins = {admin}
    Reloaders = {d1}
    Free = Free
    Absent = Absent
    MaxVer = 2
    MaxFails = 0
    MaxRestarts = 1

SPECIFICATION Spec

INVARIANT QuietCoreInSync

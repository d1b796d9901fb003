\* No crash, no I/O error and no in-process restart: only a release that does
\* not boot.
CONSTANTS
    MaxVersion = 1
    Broken = {1}
    NoFile = NoFile
    Torn = Torn
    MaxBoots = 4
    MaxErrors = 0
    MaxReloads = 0

SPECIFICATION Spec

INVARIANT RolledBackInTime

CHECK_DEADLOCK FALSE

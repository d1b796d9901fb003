CONSTANTS
    Callers = {main, g1, g2}
    Timers = {t1, t2}
    NoTimer = NoTimer
    Free = Free
    Main = main
    MaxCalls = 4

SPECIFICATION AppFairSpec

PROPERTIES
    ImportReloaded

\* The process may exit, and requests stop arriving.
CHECK_DEADLOCK FALSE

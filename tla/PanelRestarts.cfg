\* Three callers let two goroutines sleep while a third owns the slot; two
\* timers let a second restart be armed next to a live one, if the slot allowed
\* it.  Two notifiers and two pollers let a new one work next to a stopped one;
\* a queue of two overflows with the third message.  The life of a certificate
\* and the threshold are those of the code, in periods of twelve hours.
CONSTANTS
    Callers = {c1, c2, c3}
    Timers = {t1, t2}
    NoTimer = NoTimer
    Free = Free

    Notifying = {n1, n2}
    Notifiers = 2
    QueueLimit = 2
    Backoffs = 1
    MaxMessages = 3

    Senders = {u1, u2}
    Pollers = 2
    MaxClients = 1
    MaxUpdates = 2
    MaxMishaps = 1

    Hosts = {h1, h2}
    NoHost = NoHost
    Life = 13
    RenewBelow = 6
    MaxRefused = 4
    MaxMoves = 2
    MaxIncidents = 1

SPECIFICATION RestartsFairSpec

INVARIANTS
    ICCertificateIsValid
    SlotExclusive
    PendingPublished
    NoLostWakeup

PROPERTIES
    ImplementsSlot
    TNMessagesAreHeld
    RGSubscribersAreKept
    RestartsAreSurvived

----------------------------- MODULE RateLimits -----------------------------
(***************************************************************************)
(* The limiters of api/rateLimit.go for one key each: failed logins block  *)
(* an address, failed logins of a user slow it down, manual Telegram       *)
(* backups are limited in a sliding window, WebSocket handshakes and audit *)
(* queries in a fixed one.  Every limiter sits behind a mutex, so a call   *)
(* is one step; between the check of a login and the count of its failure  *)
(* other requests run.  A call may first collect its table; when that still*)
(* holds more keys than its cap (loginRateLimitMaxKeys and the like), the  *)
(* collection forgets any of them but a blocked address.  The other keys   *)
(* are not modelled: any collection may find the table over its cap.       *)
(***************************************************************************)
EXTENDS Naturals, FiniteSets

CONSTANTS
    Logins,         \* login requests that run at the same time
    MaxFailures,    \* loginRateLimitMax
    Window,         \* ticks of every window and of the block
    MaxInWindow,    \* requests a window allows
    MaxTime         \* bound on the clock

ASSUME RateLimitAssumption ==
    {MaxFailures, Window, MaxInWindow, MaxTime} \subseteq Nat \ {0}

\* No attempt is recorded under the key.
RLNone == [failures |-> 0, first |-> 0, until |-> 0]

VARIABLES
    rlNow,          \* the clock, from 1 on: 0 is the zero time
    rlLogin,        \* loginRateLimits[address]
    rlAt,           \* a login: idle, between its check and its outcome
    rlBackups,      \* telegramBackupManualRateLimits[key].timestamps
    rlFixed,        \* a fixed window: its start and count
    rlServed        \* the times of the requests the fixed window let through
                    \* since its key was last forgotten

rlVars == <<rlNow, rlLogin, rlAt, rlBackups, rlFixed, rlServed>>

\* The time of a request, and its place in the list it was appended to.
RLStamps == [at : 1..MaxTime, nr : Nat]

RLAppend(s) == s \cup {[at |-> rlNow, nr |-> Cardinality(s) + 1]}

\* pruneTelegramBackupManualTimestamps.
RLPrune(s, now) == {r \in s : r.at + Window > now}

RLTypeOK ==
    /\ rlNow \in 1..MaxTime
    /\ rlLogin \in [failures : Nat, first : 0..MaxTime, until : 0..(MaxTime + Window)]
    /\ rlAt \in [Logins -> {"idle", "checked"}]
    /\ rlBackups \subseteq RLStamps /\ rlServed \subseteq RLStamps
    /\ rlFixed \in [at : 0..MaxTime, count : 0..MaxInWindow]

RLInit ==
    /\ rlNow = 1 /\ rlLogin = RLNone
    /\ rlAt = [l \in Logins |-> "idle"]
    /\ rlBackups = {} /\ rlServed = {} /\ rlFixed = [at |-> 0, count |-> 0]

\* The clock; a request that was let through is forgotten after a window.
RLTick ==
    /\ rlNow < MaxTime /\ rlNow' = rlNow + 1
    /\ rlServed' = RLPrune(rlServed, rlNow')
    /\ UNCHANGED <<rlLogin, rlAt, rlBackups, rlFixed>>

RLBlocked(a) == a.until # 0 /\ rlNow < a.until
RLOver(a)    == a.first # 0 /\ rlNow - a.first > Window

RLOpen(a)    == a.first # 0 /\ rlNow - a.first < Window

\* Variant: the collection only looks at the age of the first failure.
RLGCForgetsBlocks(a, over) == IF RLOpen(a) /\ ~over THEN a ELSE RLNone

\* gcLoginRateLimitsLocked, when it is due: blocked keys stay, and so do open
\* windows unless the table is over its cap.
RLGC(a, over) == IF RLBlocked(a) \/ (RLOpen(a) /\ ~over) THEN a ELSE RLNone

\* The key after the collection that may run first.
RLCollected == {rlLogin} \cup {RLGC(rlLogin, over) : over \in BOOLEAN}

\* checkLoginRateLimit: a blocked address is refused.
RLCheck(l) ==
    /\ rlAt[l] = "idle"
    /\ \E a \in RLCollected :
         /\ rlLogin' = IF ~RLBlocked(a) /\ RLOver(a) THEN RLNone ELSE a
         /\ rlAt' = [rlAt EXCEPT ![l] = IF RLBlocked(a) THEN "idle" ELSE "checked"]
    /\ UNCHANGED <<rlNow, rlBackups, rlFixed, rlServed>>

\* recordLoginFailure: a new window, or one failure more; the last one blocks.
RLFailure(a) ==
    LET b == IF a.first = 0 \/ RLOver(a) THEN [RLNone EXCEPT !.first = rlNow] ELSE a
        n == b.failures + 1
    IN  [b EXCEPT !.failures = n,
                  !.until = IF n >= MaxFailures THEN rlNow + Window ELSE @]

\* The outcome of UserService.Login: count the failure or forget them all.
RLLogin(l) ==
    /\ rlAt[l] = "checked" /\ rlAt' = [rlAt EXCEPT ![l] = "idle"]
    /\ \/ \E a \in RLCollected : rlLogin' = RLFailure(a)
             \/ rlLogin' = RLNone
    /\ UNCHANGED <<rlNow, rlBackups, rlFixed, rlServed>>

\* checkTelegramBackupManualRateLimit, after a collection that may have
\* forgotten the key.
RLBackup ==
    /\ \E forgotten \in BOOLEAN :
          LET s == IF forgotten THEN {} ELSE RLPrune(rlBackups, rlNow)
          IN  rlBackups' = IF Cardinality(s) >= MaxInWindow THEN s ELSE RLAppend(s)
    /\ UNCHANGED <<rlNow, rlLogin, rlAt, rlFixed, rlServed>>

\* The window of a request: the one that is open, or a new one.
RLWindow(forgotten) ==
    IF forgotten \/ rlFixed.at = 0 \/ rlNow - rlFixed.at >= Window
    THEN [at |-> rlNow, count |-> 0] ELSE rlFixed

\* checkWSHandshakeRateLimit and checkAuditEndpointRateLimit, likewise.
RLFixedWindow ==
    /\ \E forgotten \in BOOLEAN :
          LET w == RLWindow(forgotten)
              s == IF forgotten THEN {} ELSE rlServed
          IN  IF w.count >= MaxInWindow
              THEN rlFixed' = w /\ rlServed' = s
              ELSE /\ rlFixed' = [w EXCEPT !.count = @ + 1]
                   /\ rlServed' = RLAppend(s)
    /\ UNCHANGED <<rlNow, rlLogin, rlAt, rlBackups>>

RLNext ==
    \/ RLTick \/ RLBackup \/ RLFixedWindow
    \/ \E l \in Logins : RLCheck(l) \/ RLLogin(l)

RLSpec == RLInit /\ [][RLNext]_rlVars

----------------------------------------------------------------------------

\* A block lasts: while it does no login reaches its check, and refused attempts
\* and the collection, even of a table over its cap, leave it alone.  Only a login
\* that had passed its check before touches it: success clears it, and so does a
\* failure that comes more than a window after the first one, for it starts a new
\* window.
RLBlockHolds ==
    [][RLBlocked(rlLogin) /\ rlNow' < rlLogin.until =>
         \/ rlLogin' = rlLogin /\ \A l \in Logins : rlAt'[l] = "checked" => rlAt[l] = "checked"
         \/ \E l \in Logins : rlAt[l] = "checked" /\ rlAt'[l] = "idle"]_rlVars

\* No window of the sliding limiter, wherever it starts, lets more requests
\* through than it allows; the fixed ones let through twice as many.  Both count
\* from the last time their key was forgotten: above the cap of the table the
\* code gives a key up together with its open window, and it starts afresh.
RLWindowsHold ==
    /\ Cardinality(RLPrune(rlBackups, rlNow)) <= MaxInWindow
    /\ Cardinality(rlServed) <= 2 * MaxInWindow

\* Both: neither the block nor the windows can be got round by waiting for the
\* collection of old entries or for a login that is on its way.
RLLimitsHold == []RLTypeOK /\ RLBlockHolds /\ []RLWindowsHold
=============================================================================

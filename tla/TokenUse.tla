------------------------------ MODULE TokenUse ------------------------------
(***************************************************************************)
(* The debouncer of API token uses (service/token_use_debouncer.go): every *)
(* authorised request records the last use of its token in memory, a timer *)
(* writes what is pending.  A failed write is queued again and opens a     *)
(* circuit that delays the next one; Stop and the reset after a database   *)
(* import flush under a gate that holds back the timers.                   *)
(*                                                                         *)
(* d.epoch only tells a callback whether it is stale, and every step that  *)
(* increments it also drops the timer: tuFresh[c] says that callback c was *)
(* started in the current epoch.  A use is its position among all uses,    *)
(* which stands for its time stamp.                                        *)
(***************************************************************************)
EXTENDS Naturals, FiniteSets

CONSTANTS
    Tokens,
    Callbacks,      \* timer callbacks that can run at the same time
    MaxUses,        \* bound on recorded uses
    MaxFaults,      \* bound on failed writes
    MaxStops        \* bound on calls of Stop and of the reset

ASSUME TokenUseAssumption == {MaxUses, MaxFaults, MaxStops} \subseteq Nat

VARIABLES
    tuPending,      \* d.pending: the use to write, 0 for none
    tuTimer,        \* d.timer: none, armed, or fired and still referenced
    tuCircuit,      \* d.circuitUntil: zero, in the future, in the past
    tuAt,           \* a callback: where it is in flushTimer
    tuFresh,        \* a callback: its epoch is d.epoch
    tuBatch,        \* a callback: the updates it has taken
    tuForced,       \* the updates Stop or the reset has taken
    tuSuspended,    \* tokenUseFlushGate.suspended
    tuHolder,       \* who holds the gate exclusively, and where it is
    tuQuiet,        \* the quiet timer: armed, its callback waits for the gate
    tuRow,          \* the row: the use written last
    tuSaved,        \* the newest use ever written
    tuOvertaken,    \* tokens of which a newer use was written while an older
                    \* one was still on its way
    tuLost,         \* the newest use dropped by a forced flush that failed
    tuNewest,       \* the newest use recorded
    tuUses, tuFaults, tuStops

tuCallback == <<tuAt, tuFresh, tuBatch>>
tuGate     == <<tuSuspended, tuHolder, tuQuiet, tuStops>>
tuData     == <<tuRow, tuSaved, tuOvertaken, tuLost, tuFaults>>
tuRecorded == <<tuNewest, tuUses>>
tuVars     == <<tuPending, tuTimer, tuCircuit, tuCallback, tuForced, tuGate,
                tuData, tuRecorded>>

TUNothing == [t \in Tokens |-> 0]
TUWriting == {"write", "requeue", "close", "resched"}

TUTypeOK ==
    /\ {tuPending, tuRow, tuSaved, tuLost, tuNewest} \subseteq [Tokens -> 0..MaxUses]
    /\ tuTimer \in {"none", "armed", "fired"}
    /\ tuCircuit \in {"closed", "open", "over"}
    /\ tuAt \in [Callbacks -> {"idle", "begin", "circuit", "take"} \cup TUWriting]
    /\ tuFresh \in [Callbacks -> BOOLEAN]
    /\ tuBatch \in [Callbacks -> [Tokens -> 0..MaxUses]]
    /\ tuForced \in [Tokens -> 0..MaxUses]
    /\ tuOvertaken \subseteq Tokens
    /\ tuSuspended \in BOOLEAN /\ tuQuiet \subseteq {"armed", "running"}
    /\ tuHolder \in {"none", "stop", "reset", "write stop", "write reset"}

TUInit ==
    /\ tuPending = TUNothing /\ tuTimer = "none" /\ tuCircuit = "closed"
    /\ tuAt = [c \in Callbacks |-> "idle"]
    /\ tuFresh = [c \in Callbacks |-> FALSE]
    /\ tuBatch = [c \in Callbacks |-> TUNothing] /\ tuForced = TUNothing
    /\ tuSuspended = FALSE /\ tuHolder = "none" /\ tuQuiet = {}
    /\ tuRow = TUNothing /\ tuSaved = TUNothing /\ tuOvertaken = {} /\ tuLost = TUNothing
    /\ tuNewest = TUNothing /\ tuUses = 0 /\ tuFaults = 0 /\ tuStops = 0

TUMax(a, b)   == IF a > b THEN a ELSE b
TUMerge(f, g) == [t \in Tokens |-> TUMax(f[t], g[t])]

----------------------------------------------------------------------------

\* scheduleLocked: d.timer when p is pending and the timer was tm before.
TUSchedule(tm, p) == IF p # TUNothing /\ tm = "none" THEN "armed" ELSE tm

TURecord(t) ==
    /\ tuUses < MaxUses /\ tuUses' = tuUses + 1
    /\ tuNewest' = [tuNewest EXCEPT ![t] = tuUses']
    /\ tuPending' = [tuPending EXCEPT ![t] = tuUses']
    /\ tuTimer' = TUSchedule(tuTimer, tuPending')
    /\ UNCHANGED <<tuCircuit, tuCallback, tuForced, tuGate, tuData>>

\* The timer starts its callback in the epoch that armed it.
TUFire(c) ==
    /\ tuTimer = "armed" /\ tuAt[c] = "idle"
    /\ tuTimer' = "fired"
    /\ tuAt' = [tuAt EXCEPT ![c] = "begin"]
    /\ tuFresh' = [tuFresh EXCEPT ![c] = TRUE]
    /\ UNCHANGED <<tuPending, tuCircuit, tuBatch, tuForced, tuGate, tuData, tuRecorded>>

TUGoto(c, l) ==
    /\ tuAt' = [tuAt EXCEPT ![c] = l]
    /\ tuFresh' = [tuFresh EXCEPT ![c] = @ /\ l # "idle"]

\* A suspended gate: the callback arms the timer again and leaves.
TUTurnedAway(c) ==
    /\ TUGoto(c, "idle")
    /\ tuTimer' = IF tuFresh[c] THEN TUSchedule("none", tuPending) ELSE tuTimer

\* flushTimer up to beginTokenUseFlush, which takes the gate shared.
TUBegin(c) ==
    /\ tuAt[c] = "begin" /\ tuHolder = "none"
    /\ IF tuSuspended THEN TUTurnedAway(c)
       ELSE TUGoto(c, "circuit") /\ UNCHANGED tuTimer
    /\ UNCHANGED <<tuPending, tuCircuit, tuBatch, tuForced, tuGate, tuData, tuRecorded>>

\* timerCircuitOpen: nothing is written before the circuit is over.
TUTimerCircuit(c) ==
    /\ tuAt[c] = "circuit"
    /\ CASE ~tuFresh[c] -> TUGoto(c, "idle") /\ UNCHANGED tuTimer
         [] tuFresh[c] /\ tuCircuit = "open" ->
              /\ TUGoto(c, "idle")
              /\ tuTimer' = TUSchedule("none", tuPending)
         [] OTHER -> TUGoto(c, "take") /\ UNCHANGED tuTimer
    /\ UNCHANGED <<tuPending, tuCircuit, tuBatch, tuForced, tuGate, tuData, tuRecorded>>

\* takePending: a stale callback takes nothing.
TUTakePending(c) ==
    /\ tuAt[c] = "take"
    /\ IF tuFresh[c]
       THEN /\ tuBatch' = [tuBatch EXCEPT ![c] = tuPending]
            /\ tuPending' = TUNothing /\ tuTimer' = "none"
            /\ TUGoto(c, IF tuPending = TUNothing THEN "idle" ELSE "write")
       ELSE TUGoto(c, "idle") /\ UNCHANGED <<tuPending, tuTimer, tuBatch>>
    /\ UNCHANGED <<tuCircuit, tuForced, tuGate, tuData, tuRecorded>>

\* A use of t on its way that is older than n.
TUOlder(t, n) ==
    \/ tuPending[t] \in 1..(n - 1) \/ tuForced[t] \in 1..(n - 1)
    \/ \E c \in Callbacks : tuBatch[c][t] \in 1..(n - 1)

\* flushTokenUseUpdates: the batch replaces what its rows hold, newer or older.
TUStore(b) ==
    /\ tuRow' = [t \in Tokens |-> IF b[t] > 0 THEN b[t] ELSE tuRow[t]]
    /\ tuSaved' = TUMerge(tuSaved, b)
    /\ tuOvertaken' = tuOvertaken \cup {t \in Tokens : TUOlder(t, b[t])}
    /\ UNCHANGED <<tuLost, tuFaults>>

TUWrite(c) ==
    /\ tuAt[c] = "write"
    /\ \/ /\ TUStore(tuBatch[c])
          /\ tuBatch' = [tuBatch EXCEPT ![c] = TUNothing]
          /\ TUGoto(c, "close")
       \/ /\ tuFaults < MaxFaults /\ tuFaults' = tuFaults + 1
          /\ TUGoto(c, "requeue")
          /\ UNCHANGED <<tuBatch, tuRow, tuSaved, tuOvertaken, tuLost>>
    /\ UNCHANGED <<tuPending, tuTimer, tuCircuit, tuForced, tuGate, tuRecorded>>

TUNewEpoch == [c \in Callbacks |-> FALSE]

\* Variant: the batch that failed replaces what was recorded meanwhile.
TURequeueOver(c) ==
    /\ tuAt[c] = "requeue"
    /\ tuPending' = [t \in Tokens |-> IF tuBatch[c][t] > 0 THEN tuBatch[c][t] ELSE tuPending[t]]
    /\ tuBatch' = [tuBatch EXCEPT ![c] = TUNothing]
    /\ tuCircuit' = "open" /\ tuFresh' = TUNewEpoch
    /\ tuTimer' = TUSchedule("none", tuPending')
    /\ tuAt' = [tuAt EXCEPT ![c] = "idle"]
    /\ UNCHANGED <<tuForced, tuGate, tuData, tuRecorded>>

\* requeueAfterWriteError, mergeTokenUseUpdatesLocked: the newer use stays.
TURequeue(c) ==
    /\ tuAt[c] = "requeue"
    /\ tuPending' = TUMerge(tuPending, tuBatch[c])
    /\ tuBatch' = [tuBatch EXCEPT ![c] = TUNothing]
    /\ tuCircuit' = "open" /\ tuFresh' = TUNewEpoch
    /\ tuTimer' = TUSchedule("none", tuPending')
    /\ tuAt' = [tuAt EXCEPT ![c] = "idle"]
    /\ UNCHANGED <<tuForced, tuGate, tuData, tuRecorded>>

\* closeFailureCircuit: a write got through, the delayed timer is advanced.
TUCloseCircuit ==
    /\ tuCircuit' = "closed"
    /\ IF tuCircuit # "closed" /\ tuPending # TUNothing
       THEN tuTimer' = "armed"
       ELSE UNCHANGED tuTimer

TUAdvances == tuCircuit # "closed" /\ tuPending # TUNothing /\ tuTimer # "none"

TUClose(c) ==
    /\ tuAt[c] = "close"
    /\ TUCloseCircuit
    /\ tuAt' = [tuAt EXCEPT ![c] = "resched"]
    /\ tuFresh' = IF TUAdvances THEN TUNewEpoch ELSE tuFresh
    /\ UNCHANGED <<tuPending, tuBatch, tuForced, tuGate, tuData, tuRecorded>>

\* The end of flushTimer.
TUResched(c) ==
    /\ tuAt[c] = "resched"
    /\ tuTimer' = TUSchedule(tuTimer, tuPending)
    /\ TUGoto(c, "idle")
    /\ UNCHANGED <<tuPending, tuCircuit, tuBatch, tuForced, tuGate, tuData, tuRecorded>>

TUCircuitElapses ==
    /\ tuCircuit = "open" /\ tuCircuit' = "over"
    /\ UNCHANGED <<tuPending, tuTimer, tuCallback, tuForced, tuGate, tuData, tuRecorded>>

----------------------------------------------------------------------------

\* The gate can be taken exclusively: no callback holds it shared.
TUGateFree ==
    /\ tuHolder = "none"
    /\ \A c \in Callbacks : tuAt[c] \in {"idle", "begin"}

\* beginTokenUseStop: a second Stop before the gate opens again only restarts
\* the quiet timer.  beginTokenUseReset always goes on.
TUBeginStop(who) ==
    /\ TUGateFree /\ tuStops < MaxStops /\ tuStops' = tuStops + 1
    /\ IF who = "stop" /\ tuSuspended
       THEN tuQuiet' = tuQuiet \cup {"armed"} /\ UNCHANGED <<tuSuspended, tuHolder>>
       ELSE /\ tuSuspended' = TRUE /\ tuHolder' = who
            /\ tuQuiet' = tuQuiet \ {"armed"}
    /\ UNCHANGED <<tuPending, tuTimer, tuCircuit, tuCallback, tuForced, tuData, tuRecorded>>

\* The deferred release: the gate stays suspended until the quiet timer fires.
TURelease ==
    /\ tuHolder' = "none" /\ tuQuiet' = tuQuiet \cup {"armed"}
    /\ UNCHANGED <<tuSuspended, tuStops>>

\* A new debouncer starts without a circuit.
TUCircuitAfter(who) == IF who \in {"reset", "write reset"} THEN "closed" ELSE tuCircuit
TUWriter == [stop |-> "write stop", reset |-> "write reset"]

\* flushNow with force takes everything; a context that ran out leaves it.
TUForceTake ==
    /\ tuHolder \in {"stop", "reset"}
    /\ \/ /\ tuHolder = "stop"
          /\ TURelease
          /\ UNCHANGED <<tuPending, tuTimer, tuFresh, tuForced, tuCircuit>>
       \/ /\ tuFresh' = TUNewEpoch /\ tuTimer' = "none"
          /\ tuForced' = tuPending /\ tuPending' = TUNothing
          /\ IF tuPending = TUNothing
             THEN TURelease /\ tuCircuit' = TUCircuitAfter(tuHolder)
             ELSE /\ tuHolder' = TUWriter[tuHolder]
                  /\ UNCHANGED <<tuCircuit, tuSuspended, tuQuiet, tuStops>>
    /\ UNCHANGED <<tuAt, tuBatch, tuData, tuRecorded>>

\* The forced write: a failure drops the batch.  The reset then installs a new
\* debouncer; uses recorded meanwhile stay with the timers of the old one.
TUForceWrite ==
    /\ tuHolder \in {"write stop", "write reset"}
    /\ \/ /\ TUStore(tuForced)
          /\ TUCloseCircuit
          /\ tuFresh' = IF TUAdvances THEN TUNewEpoch ELSE tuFresh
       \/ /\ tuFaults < MaxFaults /\ tuFaults' = tuFaults + 1
          /\ tuLost' = TUMerge(tuLost, tuForced)
          /\ tuCircuit' = TUCircuitAfter(tuHolder)
          /\ UNCHANGED <<tuRow, tuSaved, tuOvertaken, tuTimer, tuFresh>>
    /\ tuForced' = TUNothing
    /\ TURelease
    /\ UNCHANGED <<tuPending, tuAt, tuBatch, tuRecorded>>

TUQuietFires ==
    /\ "armed" \in tuQuiet /\ "running" \notin tuQuiet
    /\ tuQuiet' = {"running"}
    /\ UNCHANGED <<tuPending, tuTimer, tuCircuit, tuCallback, tuForced, tuSuspended,
                   tuHolder, tuStops, tuData, tuRecorded>>

\* Variant: the gate opens once nothing waits to be written.
TUResumeDrained ==
    /\ "running" \in tuQuiet /\ TUGateFree /\ tuPending = TUNothing
    /\ tuSuspended' = FALSE /\ tuQuiet' = {}
    /\ UNCHANGED <<tuPending, tuTimer, tuCircuit, tuCallback, tuForced, tuHolder,
                   tuStops, tuData, tuRecorded>>

\* resumeTokenUseFlush.
TUResume ==
    /\ "running" \in tuQuiet /\ TUGateFree
    /\ tuSuspended' = FALSE /\ tuQuiet' = {}
    /\ UNCHANGED <<tuPending, tuTimer, tuCircuit, tuCallback, tuForced, tuHolder,
                   tuStops, tuData, tuRecorded>>

TUCallbackStep(c) ==
    \/ TUBegin(c) \/ TUTimerCircuit(c) \/ TUTakePending(c) \/ TUWrite(c)
    \/ TURequeue(c) \/ TUClose(c) \/ TUResched(c)

TUGateStep == TUForceTake \/ TUForceWrite \/ TUQuietFires \/ TUResume

TUNext ==
    \/ \E t \in Tokens : TURecord(t)
    \/ \E c \in Callbacks : TUFire(c) \/ TUCallbackStep(c)
    \/ TUCircuitElapses
    \/ \E who \in {"stop", "reset"} : TUBeginStop(who)
    \/ TUGateStep

TUSpec == TUInit /\ [][TUNext]_tuVars

\* Timers fire, goroutines run on and locks are granted.
TUFairness ==
    /\ WF_tuVars(TUCircuitElapses)
    /\ WF_tuVars(\E c \in Callbacks : TUFire(c))
    /\ \A c \in Callbacks : WF_tuVars(TUCallbackStep(c))
    /\ WF_tuVars(TUForceTake) /\ WF_tuVars(TUForceWrite)
    /\ WF_tuVars(TUQuietFires) /\ SF_tuVars(TUResume)

----------------------------------------------------------------------------

\* No use waits in memory without a timer that will come for it: whatever is
\* pending, a timer is armed or a callback of the current epoch has not yet
\* passed takePending.  Every reschedule of flushTimer, requeueAfterWriteError
\* and closeFailureCircuit is there for this.
TUFlushIsOwed ==
    tuPending = TUNothing
    \/ tuTimer = "armed"
    \/ \E c \in Callbacks : tuFresh[c] /\ tuAt[c] \in {"begin", "circuit", "take"}

TUHeld(t) == {tuPending[t], tuForced[t], tuSaved[t], tuLost[t]}
             \cup {tuBatch[c][t] : c \in Callbacks}

\* The newest use of a token is not lost: it is pending, in the hands of a
\* flush, or has reached its row, unless a forced flush failed with it (record,
\* takePending, mergeTokenUseUpdatesLocked, flushNow).
TUNewestIsKept == \A t \in Tokens : tuNewest[t] \in TUHeld(t)

\* It stays in its row: the row holds the newest use written, unless a newer one
\* got through while an older one was in the hands of another flush or queued
\* again by it; that one then replaces it, for the write compares nothing.
TURowIsNewest == \A t \in Tokens \ tuOvertaken : tuRow[t] = tuSaved[t]

\* While Stop or the reset holds the gate no timer writes to the database that
\* is about to be closed or replaced.
TUGateExcludes ==
    tuHolder # "none" => \A c \in Callbacks : tuAt[c] \in {"idle", "begin"}

\* What has been recorded leaves the memory: failed writes, a suspended gate
\* and the circuit only delay it.
TUDrains ==
    <>[](tuPending = TUNothing /\ \A c \in Callbacks : tuBatch[c] = TUNothing)

\* A use that was recorded is on its way to its row: a flush is owed for it,
\* what fails meanwhile does not drop it, and only a flush that was overtaken
\* by a newer one takes it back.
TUUsesAreKept == TUTypeOK /\ TUFlushIsOwed /\ TUNewestIsKept /\ TURowIsNewest
=============================================================================

--------------------------- MODULE RestartManager ---------------------------
(***************************************************************************)
(* The restart manager of service/restart_manager.go: one in-flight slot   *)
(* under a mutex and a condition variable, shared by the core operations   *)
(* (run, runBlocking) and by the delayed SIGHUP of the panel               *)
(* (ScheduleRestart, scheduleRestartBlocking, cancelPending).              *)
(*                                                                         *)
(* Every locked section of the code is one action, because no section      *)
(* blocks while it holds the mutex.  cond.Wait releases the mutex and      *)
(* sleeps: a sleeper is in "waitOp" or "waitArm" until a Broadcast moves   *)
(* it to "wokeOp" or "wokeArm", from where it tests the loop again.        *)
(***************************************************************************)

CONSTANTS
    Callers,    \* goroutines that call the manager
    Timers,     \* identities of the *time.Timer values AfterFunc returns
    NoTimer,    \* nil
    Free        \* the owner of a slot that nobody holds, in the abstract slot

ASSUME RestartAssumption ==
    /\ NoTimer \notin Timers
    /\ Callers \cap Timers = {}
    /\ Free \notin Callers \cup Timers

VARIABLES
    inFlight,       \* the slot
    pendingTimer,   \* the published timer, or NoTimer
    timer,          \* what the Go runtime does with each timer
    pc              \* where each caller is

rmVars == <<inFlight, pendingTimer, timer, pc>>

Sleeping  == {"waitOp", "waitArm"}
PcStates  == {"idle", "section", "arming", "wokeOp", "wokeArm"} \cup Sleeping

\* "idle": never armed, stopped before it fired, or its callback has returned.
TimerStates == {"idle", "armed", "started", "signalled"}

TypeOK ==
    /\ inFlight \in BOOLEAN
    /\ pendingTimer \in Timers \cup {NoTimer}
    /\ timer \in [Timers -> TimerStates]
    /\ pc \in [Callers -> PcStates]

Init ==
    /\ inFlight = FALSE
    /\ pendingTimer = NoTimer
    /\ timer = [t \in Timers |-> "idle"]
    /\ pc = [c \in Callers |-> "idle"]

----------------------------------------------------------------------------

\* The callers and the timers that own the slot.
Holders == {c \in Callers : pc[c] \in {"section", "arming"}}
Live    == {t \in Timers : timer[t] # "idle"}

\* cond.Broadcast, on the program counters p.
Broadcast(p) ==
    [c \in Callers |-> CASE p[c] = "waitOp"  -> "wokeOp"
                         [] p[c] = "waitArm" -> "wokeArm"
                         [] OTHER            -> p[c]]

\* begin: take the free slot, or return false at once.
BeginOr(c, next, busy) ==
    /\ inFlight' = TRUE
    /\ pc' = [pc EXCEPT ![c] = IF inFlight THEN busy ELSE next]
    /\ UNCHANGED <<pendingTimer, timer>>

\* run: a busy slot makes the whole operation a no-op.
Run(c) ==
    /\ pc[c] = "idle"
    /\ BeginOr(c, "section", "idle")

\* runBlocking, from the call and from each wake-up of beginBlocking's loop.
RunBlocking(c) ==
    /\ pc[c] \in {"idle", "wokeOp"}
    /\ BeginOr(c, "section", "waitOp")

\* The deferred end() of run and of runBlocking.
End(c) ==
    /\ pc[c] = "section"
    /\ inFlight' = FALSE
    /\ pc' = Broadcast([pc EXCEPT ![c] = "idle"])
    /\ UNCHANGED <<pendingTimer, timer>>

\* ScheduleRestart up to the return of begin: a busy slot drops the request.
ScheduleRestart(c) ==
    /\ pc[c] = "idle"
    /\ BeginOr(c, "arming", "idle")

\* Variant: the loop around cond.Wait is an if.
ScheduleWithoutRetest(c) ==
    /\ pc[c] \in {"idle", "wokeArm"}
    /\ inFlight' = TRUE
    /\ pc' = [pc EXCEPT ![c] = IF ~inFlight \/ pc[c] = "wokeArm" THEN "arming"
                               ELSE IF pendingTimer # NoTimer THEN "idle" ELSE "waitArm"]
    /\ UNCHANGED <<pendingTimer, timer>>

\* scheduleRestartBlocking up to its Unlock: a published timer makes it a
\* no-op, a busy slot without one makes it sleep.
ScheduleRestartBlocking(c) ==
    /\ pc[c] \in {"idle", "wokeArm"}
    /\ BeginOr(c, "arming", IF pendingTimer # NoTimer THEN "idle" ELSE "waitArm")

\* Variant: the slot is freed when the timer is armed.
ArmAndFree(c) ==
    /\ pc[c] = "arming"
    /\ \E t \in Timers :
        /\ timer[t] = "idle"
        /\ timer' = [timer EXCEPT ![t] = "armed"]
        /\ pendingTimer' = t
    /\ inFlight' = FALSE
    /\ pc' = Broadcast([pc EXCEPT ![c] = "idle"])

\* armRestartTimer: a second locked section; between the two the slot is held
\* and no timer is published.
ArmRestartTimer(c) ==
    /\ pc[c] = "arming"
    /\ \E t \in Timers :
        /\ timer[t] = "idle"
        /\ timer' = [timer EXCEPT ![t] = "armed"]
        /\ pendingTimer' = t
    /\ pc' = [pc EXCEPT ![c] = "idle"]
    /\ UNCHANGED inFlight

----------------------------------------------------------------------------

\* The delay is over: the runtime starts the callback in its own goroutine.
TimerFires(t) ==
    /\ timer[t] = "armed"
    /\ timer' = [timer EXCEPT ![t] = "started"]
    /\ UNCHANGED <<inFlight, pendingTimer, pc>>

\* The callback calls signal(); an error is only logged.
Signal(t) ==
    /\ timer[t] = "started"
    /\ timer' = [timer EXCEPT ![t] = "signalled"]
    /\ UNCHANGED <<inFlight, pendingTimer, pc>>

\* Variant: endPending frees the slot but leaves the timer published.
EndPendingKeepsTimer(t) ==
    /\ timer[t] = "signalled"
    /\ timer' = [timer EXCEPT ![t] = "idle"]
    /\ inFlight' = FALSE
    /\ pc' = Broadcast(pc)
    /\ UNCHANGED pendingTimer

\* Variant: a callback whose timer was cancelled in vain does not free the slot.
EndPendingIfPublished(t) ==
    /\ timer[t] = "signalled"
    /\ timer' = [timer EXCEPT ![t] = "idle"]
    /\ IF pendingTimer = t
       THEN pendingTimer' = NoTimer /\ inFlight' = FALSE /\ pc' = Broadcast(pc)
       ELSE UNCHANGED <<pendingTimer, inFlight, pc>>

\* The callback's deferred endPending.
EndPending(t) ==
    /\ timer[t] = "signalled"
    /\ timer' = [timer EXCEPT ![t] = "idle"]
    /\ pendingTimer' = IF pendingTimer = t THEN NoTimer ELSE pendingTimer
    /\ inFlight' = FALSE
    /\ pc' = Broadcast(pc)

\* Variant: the cancellation frees the slot without a broadcast.
CancelSilently ==
    /\ pendingTimer' = NoTimer
    /\ IF pendingTimer # NoTimer /\ timer[pendingTimer] = "armed"
       THEN timer' = [timer EXCEPT ![pendingTimer] = "idle"] /\ inFlight' = FALSE
       ELSE UNCHANGED <<inFlight, timer>>
    /\ UNCHANGED pc

\* timer.Stop() is true exactly when the callback has not been started; a
\* started callback keeps the slot and still sends its signal.
CancelPending ==
    IF pendingTimer # NoTimer /\ timer[pendingTimer] = "armed"
    THEN /\ timer' = [timer EXCEPT ![pendingTimer] = "idle"]
         /\ inFlight' = FALSE
         /\ pc' = Broadcast(pc)
         /\ pendingTimer' = NoTimer
    ELSE /\ pendingTimer' = NoTimer
         /\ UNCHANGED <<inFlight, timer, pc>>

----------------------------------------------------------------------------

CallerStep(c) ==
    \/ Run(c) \/ RunBlocking(c) \/ End(c)
    \/ ScheduleRestart(c) \/ ScheduleRestartBlocking(c) \/ ArmRestartTimer(c)

TimerStep(t) == TimerFires(t) \/ Signal(t) \/ EndPending(t)

Next ==
    \/ \E c \in Callers : CallerStep(c)
    \/ \E t \in Timers : TimerStep(t)
    \/ CancelPending

Spec == Init /\ [][Next]_rmVars

\* Operations return, the runtime fires due timers and runs their callbacks.
\* Nothing is assumed of new calls, nor of who wins the slot.
Fairness ==
    /\ \A c \in Callers : WF_rmVars(End(c)) /\ WF_rmVars(ArmRestartTimer(c))
    /\ \A t \in Timers : WF_rmVars(TimerStep(t))

FairSpec == Spec /\ Fairness

----------------------------------------------------------------------------

\* The slot has at most one owner, a caller or a live timer, and is busy
\* exactly when it has one: a core operation never overlaps another one nor a
\* SIGHUP that is about to be sent, and no path leaves the slot taken by nobody.
SlotExclusive ==
    /\ \A c, d \in Holders : c = d
    /\ \A t, u \in Live : t = u
    /\ Holders = {} \/ Live = {}
    /\ inFlight <=> (Holders # {} \/ Live # {})

\* The published timer is live, and a timer that may still be stopped is
\* published: cancelPending never misses the restart it is meant to cancel.
PendingPublished ==
    /\ pendingTimer # NoTimer => pendingTimer \in Live
    /\ \A t \in Timers : timer[t] = "armed" => pendingTimer = t

\* Nobody sleeps on the condition variable next to a free slot: every path that
\* frees the slot broadcasts, the conditional one of cancelPending included.
NoLostWakeup ==
    \A c \in Callers : pc[c] \in Sleeping => inFlight

\* A goroutine that sleeps in cond.Wait is woken, whatever mix of operations,
\* signals and cancellations holds the slot.
EverySleeperWakes ==
    \A c \in Callers : pc[c] \in Sleeping ~> pc[c] \notin Sleeping

SlotOwner ==
    IF Holders \cup Live = {} THEN Free
    ELSE CHOOSE o \in Holders \cup Live : TRUE

Slot == INSTANCE RestartSlot WITH owner <- SlotOwner

\* The manager implements the abstract slot of RestartSlot: nobody takes a busy
\* slot, arming a restart never frees it on the way to the timer, only its
\* owner or the cancellation of that timer frees it.
ImplementsSlot == Slot!SlotSafe

\* The rest of Slot!SlotSpec, and what it is for: whoever holds the slot, it is
\* always free again later, and every sleeper is woken.
SlotIsServed == Slot!SlotComesFree /\ EverySleeperWakes

=============================================================================

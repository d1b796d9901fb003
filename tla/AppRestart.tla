------------------------------ MODULE AppRestart ------------------------------
(***************************************************************************)
(* The panel process around the restart manager: main.go's signal loop and *)
(* app.RestartApp, with the goroutines that write settings the panel only  *)
(* reads when it starts.  A renewal of the panel certificate asks for its  *)
(* restart with scheduleRestartBlocking; a database import (and the        *)
(* restart button of the API) asks with ScheduleRestart.                   *)
(*                                                                         *)
(* Main calls the manager like any other goroutine (StopCore, StartCore).  *)
(***************************************************************************)
EXTENDS RestartManager, Naturals

CONSTANTS
    Main,       \* the main goroutine, one of the Callers
    MaxCalls    \* bound on the requests and signals that arrive from outside

ASSUME AppAssumption == Main \in Callers /\ MaxCalls \in Nat

VARIABLES
    mainPc,     \* where main is in runApp, Stop and Start
    sigCh,      \* the signal channel, of capacity one
    stale,      \* settings written to the database since the panel read them
    task,       \* per goroutine: the write whose restart it has not requested
    calls       \* requests so far

appVars == <<mainPc, sigCh, stale, task, calls>>
vars    == <<rmVars, appVars>>

Writes  == {"import", "renewal"}
Others  == Callers \ {Main}

AppTypeOK ==
    /\ TypeOK
    /\ mainPc \in {"serve", "stopCore", "quitting", "restarting", "startCore",
                   "exited"}
    /\ sigCh \in {"empty", "HUP", "TERM"}
    /\ stale \subseteq Writes
    /\ task \in [Callers -> Writes \cup {"none"}]
    /\ calls \in 0..MaxCalls

AppInit ==
    /\ Init
    /\ mainPc = "serve"
    /\ sigCh = "empty"
    /\ stale = {}
    /\ task = [c \in Callers |-> "none"]
    /\ calls = 0

Alive   == mainPc # "exited"
Arrives == Alive /\ calls < MaxCalls /\ calls' = calls + 1

\* signal.Notify never blocks: a signal that finds the buffer full is dropped.
Notify(sig) == sigCh' = IF sigCh = "empty" THEN sig ELSE sigCh

----------------------------------------------------------------------------

\* A request that writes nothing the panel reads at its start: a cron start of
\* the core, a core restart or sync, the restart button.
Request(c) ==
    /\ pc[c] = "idle" /\ task[c] = "none" /\ Arrives
    /\ Run(c) \/ RunBlocking(c) \/ ScheduleRestart(c)
    /\ UNCHANGED <<mainPc, sigCh, stale, task>>

\* ImportDB makes the uploaded database live, or setPanelCertSettings stores
\* the renewed certificate; the restart is requested in a later step.
WriteSettings(c, w) ==
    /\ pc[c] = "idle" /\ task[c] = "none" /\ Arrives
    /\ stale' = stale \cup {w}
    /\ task' = [task EXCEPT ![c] = w]
    /\ UNCHANGED <<rmVars, mainPc, sigCh>>

\* ImportDB's SendSighup.
ImportRestart(c) ==
    /\ Alive /\ task[c] = "import"
    /\ ScheduleRestart(c)
    /\ task' = [task EXCEPT ![c] = "none"]
    /\ UNCHANGED <<mainPc, sigCh, stale, calls>>

\* applyToPanel's restart.
RenewalRestart(c) ==
    /\ Alive /\ task[c] = "renewal"
    /\ ScheduleRestartBlocking(c)
    /\ task' = [task EXCEPT ![c] = "none"]
    /\ UNCHANGED <<mainPc, sigCh, stale, calls>>

\* A goroutine inside the manager goes on.
Resume(c) ==
    /\ Alive
    /\ \/ pc[c] = "wokeOp" /\ RunBlocking(c)
       \/ pc[c] = "wokeArm" /\ ScheduleRestartBlocking(c)
       \/ End(c)
       \/ ArmRestartTimer(c)
    /\ UNCHANGED appVars

Timer(t) ==
    /\ Alive
    /\ \/ (TimerFires(t) \/ EndPending(t)) /\ UNCHANGED sigCh
       \/ Signal(t) /\ Notify("HUP")
    /\ UNCHANGED <<mainPc, stale, task, calls>>

\* The service manager reloads or stops the process.
ExternalSignal ==
    /\ Arrives
    /\ Notify("HUP") \/ Notify("TERM")
    /\ UNCHANGED <<rmVars, mainPc, stale, task>>

----------------------------------------------------------------------------

\* A signal starts app.Stop, whose first call is StopRestartManager; SIGHUP
\* goes on with Start, SIGTERM leaves the loop.
MainSignal ==
    /\ mainPc = "serve" /\ sigCh # "empty"
    /\ mainPc' = IF sigCh = "HUP" THEN "stopCore" ELSE "quitting"
    /\ sigCh' = "empty"
    /\ CancelPending
    /\ UNCHANGED <<stale, task, calls>>

\* Stop's StopCore, under runBlocking: main waits for whoever holds the slot,
\* a callback that cancelPending came too late for included.
MainStopCore ==
    /\ mainPc \in {"stopCore", "quitting"} /\ pc[Main] \in {"idle", "wokeOp"}
    /\ RunBlocking(Main)
    /\ UNCHANGED appVars

MainCoreStopped ==
    /\ mainPc \in {"stopCore", "quitting"}
    /\ End(Main)
    /\ mainPc' = IF mainPc = "stopCore" THEN "restarting" ELSE "exited"
    /\ UNCHANGED <<sigCh, stale, task, calls>>

\* Start up to the servers: the settings are read again.
MainStart ==
    /\ mainPc = "restarting"
    /\ stale' = {}
    /\ mainPc' = "startCore"
    /\ UNCHANGED <<rmVars, sigCh, task, calls>>

\* Start's StartCore, under run: a busy slot skips it (CheckCoreJob retries).
MainStartCore ==
    /\ mainPc = "startCore" /\ pc[Main] = "idle"
    /\ Run(Main)
    /\ mainPc' = IF inFlight THEN "serve" ELSE "startCore"
    /\ UNCHANGED <<sigCh, stale, task, calls>>

MainCoreStarted ==
    /\ mainPc = "startCore"
    /\ End(Main)
    /\ mainPc' = "serve"
    /\ UNCHANGED <<sigCh, stale, task, calls>>

MainStep ==
    \/ MainSignal \/ MainStopCore \/ MainCoreStopped
    \/ MainStart \/ MainStartCore \/ MainCoreStarted

Goroutine(c) == ImportRestart(c) \/ RenewalRestart(c) \/ Resume(c)

AppNext ==
    \/ \E c \in Others : Request(c)
    \/ \E c \in Others, w \in Writes : WriteSettings(c, w)
    \/ \E c \in Others : Goroutine(c)
    \/ \E t \in Timers : Timer(t)
    \/ ExternalSignal
    \/ MainStep

AppSpec == AppInit /\ [][AppNext]_vars

\* Goroutines that are inside a call, timers and main go on; nothing arrives
\* by fairness.
AppFairness ==
    /\ \A c \in Others : WF_vars(Goroutine(c))
    /\ \A t \in Timers : WF_vars(Timer(t))
    /\ WF_vars(MainStep)

AppFairSpec == AppSpec /\ AppFairness

----------------------------------------------------------------------------

\* A renewed panel certificate is eventually served: its restart is neither
\* dropped behind a core operation, nor merged into a pending restart that
\* reads the settings too early, nor lost when RestartApp cancels the pending
\* timer.  Only the end of the process gives it up.
RenewalReloaded ==
    "renewal" \in stale ~> "renewal" \notin stale \/ mainPc = "exited"

\* Stop and RestartApp always come to their end, although StopCore waits for
\* the slot and Stop may race with a restart callback that already runs.
StopCompletes ==
    mainPc \notin {"serve", "exited"} ~> mainPc \in {"serve", "exited"}

\* What RenewalReloaded rests on: as long as the panel has not read the renewed
\* certificate, somebody is about to ask for the restart or waits to, or a timer is
\* going to send the signal, or main has it or acts on it.  The slot may be busy,
\* the pending restart may be merged with it or cancelled at any moment.
RenewalIsOwed ==
    "renewal" \in stale =>
        \/ \E c \in Callers : task[c] = "renewal" \/ pc[c] \in {"arming", "waitArm", "wokeArm"}
        \/ \E t \in Timers : timer[t] \in {"armed", "started"}
        \/ sigCh # "empty"
        \/ mainPc \in {"stopCore", "quitting", "restarting", "exited"}

\* All: what was asked of a restart happens, and the restart ends.
RestartsComplete == []AppTypeOK /\ []RenewalIsOwed /\ RenewalReloaded /\ StopCompletes

\* What the comment in database/backup.go says of a database import: it
\* triggers an in-process restart.
ImportReloaded ==
    "import" \in stale ~> "import" \notin stale \/ mainPc = "exited"

=============================================================================

------------------------------- MODULE CoreSync -------------------------------
(***************************************************************************)
(* How the running sing-box core follows the configuration database:       *)
(* ConfigService.Save and its post-commit plan (service/config.go,         *)
(* service/coresync.go), the cron core starter, RestartCore, and the two   *)
(* writers that reload inbounds outside the restart manager (the deplete   *)
(* cron and the paid orders, both through InboundService.RestartInbounds). *)
(*                                                                         *)
(* The content of an object (its row with the users addUsers puts in it)   *)
(* is the number of commits that changed it.  slot is the owner of the     *)
(* in-flight slot, as RestartSlot promises it; a step of an actor is what  *)
(* it does between two points where another goroutine can be seen.         *)
(***************************************************************************)
EXTENDS Naturals, FiniteSets

CONSTANTS
    Objects,        \* configuration objects
    Blob,           \* the one no hot reload covers: the raw sing-box settings
    Savers,         \* API requests in ConfigService.Save
    Cron,           \* the goroutine of CheckCoreJob
    Admins,         \* API requests in RestartCore
    Reloaders,      \* the deplete job and the paid orders
    Free,           \* slot owner when nobody is in a section
    Absent,         \* an object the core does not run
    MaxVer,         \* bound on the commits that change one object
    MaxFails,       \* bound on the failures of the core and of sing-box calls
    MaxRestarts     \* bound on the calls of RestartCore

ASSUME CoreSyncAssumption ==
    /\ Blob \in Objects
    /\ Absent \notin 0..MaxVer
    /\ {MaxVer, MaxFails, MaxRestarts} \subseteq Nat
    /\ Savers \cap Admins = {} /\ (Savers \cup Admins) \cap Reloaders = {}
    /\ Cron \notin Savers \cup Admins \cup Reloaders
    /\ Free \notin Savers \cup Admins \cup Reloaders \cup {Cron}

Actors  == Savers \cup {Cron} \cup Admins \cup Reloaders
Version == 0..MaxVer

VARIABLES
    db,         \* committed version of each object
    running,    \* Core.isRunning
    served,     \* version of each object in the running core
    cooldown,   \* a failed start is less than coreStartCooldown ago
    slot,       \* owner of the restart manager's slot
    pc,
    ids,        \* objects of an actor's plan that are not yet reloaded
    restart,    \* the plan asks for a full restart
    object,     \* the object a hot reload works on
    config,     \* the versions an actor has read from the database
    fails, restarts,
    raced       \* a reload outside the manager met a section or another
                \* reload, or failed and was only logged

core  == <<db, running, served, cooldown>>
local == <<ids, restart, object, config>>
vars  == <<core, slot, pc, local, fails, restarts, raced>>

Nothing == [o \in Objects |-> Absent]

TypeOK ==
    /\ db \in [Objects -> Version]
    /\ running \in BOOLEAN /\ cooldown \in BOOLEAN /\ raced \in BOOLEAN
    /\ served \in [Objects -> Version \cup {Absent}]
    /\ slot \in Actors \cup {Free}
    /\ pc \in [Actors -> {"idle", "enter", "apply", "stop", "start", "config",
                          "launch", "check", "hot", "read", "add"}]
    /\ ids \in [Actors -> SUBSET Objects]
    /\ restart \in [Actors -> BOOLEAN]
    /\ object \in [Actors -> Objects]
    /\ config \in [Actors -> [Objects -> Version \cup {Absent}]]
    /\ fails \in 0..MaxFails /\ restarts \in 0..MaxRestarts

Init ==
    /\ db = [o \in Objects |-> 0]
    /\ running = FALSE
    /\ served = Nothing
    /\ cooldown = FALSE
    /\ slot = Free
    /\ pc = [a \in Actors |-> "idle"]
    /\ ids = [a \in Actors |-> {}]
    /\ restart = [a \in Actors |-> FALSE]
    /\ object = [a \in Actors |-> Blob]
    /\ config = [a \in Actors |-> Nothing]
    /\ fails = 0 /\ restarts = 0
    /\ raced = FALSE

----------------------------------------------------------------------------

Reloading == {d \in Reloaders : pc[d] # "idle"}

\* A reload outside the restart manager is under way next to a section or to
\* another such reload.
Overlap ==
    \/ Reloading # {} /\ slot # Free
    \/ \E d, e \in Reloading : d # e

Observe == raced' = (raced \/ Overlap)

Goto(a, l) == pc' = [pc EXCEPT ![a] = l]

\* The deferred end of a section, or the return of RestartInbounds.
Return(a) ==
    /\ Goto(a, "idle")
    /\ slot' = IF slot = a THEN Free ELSE slot
    /\ ids' = [ids EXCEPT ![a] = {}]
    /\ restart' = [restart EXCEPT ![a] = FALSE]
    /\ object' = [object EXCEPT ![a] = Blob]
    /\ config' = [config EXCEPT ![a] = Nothing]

\* A hot reload reads the rows of all its objects in one query.
ReadRows(a) ==
    /\ Goto(a, "hot")
    /\ config' = [config EXCEPT ![a] =
                    [o \in Objects |-> IF o \in ids[a] THEN db[o] ELSE Absent]]

Fails == fails < MaxFails /\ fails' = fails + 1

Commit(os) ==
    /\ \A o \in os : db[o] < MaxVer
    /\ db' = [o \in Objects |-> IF o \in os THEN db[o] + 1 ELSE db[o]]

----------------------------------------------------------------------------

\* Save up to its commit: the plan covers what the transaction changed, and
\* asks for a restart when that cannot be hot reloaded (or when the entity
\* service says so).
Save(s, os, full) ==
    /\ pc[s] = "idle" /\ os # {}
    /\ Blob \in os => full
    /\ Commit(os)
    /\ ids' = [ids EXCEPT ![s] = os]
    /\ restart' = [restart EXCEPT ![s] = full]
    /\ Goto(s, "enter")
    /\ Observe
    /\ UNCHANGED <<running, served, cooldown, slot, object, config, fails,
                   restarts>>

\* RestartCore is called.
RestartCore(a) ==
    /\ pc[a] = "idle"
    /\ restarts < MaxRestarts /\ restarts' = restarts + 1
    /\ Goto(a, "enter")
    /\ Observe
    /\ UNCHANGED <<core, slot, local, fails>>

\* Variant: run instead of runBlocking, a busy slot skips the call.
EnterOrSkip(a) ==
    /\ pc[a] = "enter"
    /\ IF slot = Free
       THEN slot' = a /\ Goto(a, IF a \in Savers THEN "apply" ELSE "stop")
                      /\ UNCHANGED local
       ELSE Return(a)
    /\ Observe
    /\ UNCHANGED <<core, fails, restarts>>

\* runBlocking gets the slot.
EnterSection(a) ==
    /\ pc[a] = "enter" /\ slot = Free
    /\ slot' = a
    /\ Goto(a, IF a \in Savers THEN "apply" ELSE "stop")
    /\ Observe
    /\ UNCHANGED <<core, local, fails, restarts>>

\* CheckCoreJob's StartCore, under run: a busy slot skips the tick.
CronTick ==
    /\ pc[Cron] = "idle" /\ slot = Free
    /\ slot' = Cron
    /\ Goto(Cron, "start")
    /\ Observe
    /\ UNCHANGED <<core, local, fails, restarts>>

CooldownEnds ==
    /\ cooldown
    /\ cooldown' = FALSE
    /\ Observe
    /\ UNCHANGED <<db, running, served, slot, pc, local, fails, restarts>>

\* applyPostCommitCoreChangesLocked chooses.
Apply(s) ==
    /\ pc[s] = "apply"
    /\ \/ ~running /\ Goto(s, "start") /\ UNCHANGED config
       \/ running /\ restart[s] /\ Goto(s, "stop") /\ UNCHANGED config
       \/ running /\ ~restart[s] /\ ReadRows(s)
    /\ Observe
    /\ UNCHANGED <<core, slot, ids, restart, object, fails, restarts>>

\* Core.Stop; when the instance's Close fails, restartCoreLocked returns without
\* a start.
StopCore(a) ==
    /\ pc[a] = "stop"
    /\ running' = FALSE
    /\ served' = Nothing
    /\ \/ Goto(a, "start") /\ UNCHANGED <<slot, local, fails>>
       \/ Return(a) /\ Fails
    /\ Observe
    /\ UNCHANGED <<db, cooldown, restarts>>

\* startCoreLocked up to GetConfig; only the cron starter respects the cooldown.
StartCoreLocked(a) ==
    /\ pc[a] = "start"
    /\ IF running \/ (a = Cron /\ cooldown)
       THEN Return(a)
       ELSE /\ Goto(a, "config")
            /\ ids' = [ids EXCEPT ![a] = Objects]
            /\ UNCHANGED <<slot, restart, object, config>>
    /\ Observe
    /\ UNCHANGED <<core, fails, restarts>>

\* GetConfig reads table after table, in no transaction; an error ends the
\* start without a cooldown.
GetConfig(a) ==
    /\ pc[a] = "config"
    /\ \/ \E o \in ids[a] :
            /\ config' = [config EXCEPT ![a][o] = db[o]]
            /\ ids' = [ids EXCEPT ![a] = @ \ {o}]
            /\ Goto(a, IF ids[a] = {o} THEN "launch" ELSE "config")
            /\ UNCHANGED <<slot, restart, object, fails>>
       \/ Return(a) /\ Fails
    /\ Observe
    /\ UNCHANGED <<core, restarts>>

\* Variant: a failed start returns without end().
CoreStartLeaks(a) ==
    /\ pc[a] = "launch"
    /\ \/ running' = TRUE /\ served' = config[a] /\ cooldown' = FALSE
          /\ Return(a) /\ UNCHANGED fails
       \/ cooldown' = TRUE /\ Fails /\ Goto(a, "idle")
          /\ UNCHANGED <<running, served, slot, local>>
    /\ Observe
    /\ UNCHANGED <<db, restarts>>

\* Core.Start: the new instance runs and is published, or start fails and the
\* cooldown begins.
CoreStart(a) ==
    /\ pc[a] = "launch"
    /\ \/ running' = TRUE /\ served' = config[a] /\ cooldown' = FALSE
          /\ UNCHANGED fails
       \/ cooldown' = TRUE /\ Fails /\ UNCHANGED <<running, served>>
    /\ Return(a)
    /\ Observe
    /\ UNCHANGED <<db, restarts>>

----------------------------------------------------------------------------

\* The deplete job or a paid order commits changed users of the inbounds os.
Reload(d, os) ==
    /\ pc[d] = "idle" /\ os # {} /\ Blob \notin os
    /\ Commit(os)
    /\ ids' = [ids EXCEPT ![d] = os]
    /\ Goto(d, "check")
    /\ Observe
    /\ UNCHANGED <<running, served, cooldown, slot, restart, object, config,
                   fails, restarts>>

\* RestartInbounds returns nil when the core is not running.
CheckRunning(d) ==
    /\ pc[d] = "check"
    /\ \/ running /\ ReadRows(d) /\ UNCHANGED <<slot, ids, restart, object>>
       \/ ~running /\ Return(d)
    /\ Observe
    /\ UNCHANGED <<core, fails, restarts>>

\* Variant: a failed hot reload is only logged for a save, too.
ReloadFailsLogged(a) ==
    /\ Return(a)
    /\ raced' = (raced \/ Overlap \/ a \notin Savers)

\* A failed hot reload is a full restart for a save, and only a log line for
\* the writers outside the manager.
ReloadFails(a) ==
    IF a \in Savers
    THEN /\ Goto(a, "stop")
         /\ UNCHANGED <<slot, local>>
         /\ Observe
    ELSE Return(a) /\ raced' = TRUE

\* RemoveInbound, under the core's read lock; a missing tag is tolerated.
HotRemove(a) ==
    /\ pc[a] = "hot"
    /\ \/ /\ running
          /\ \E o \in ids[a] :
                /\ served' = [served EXCEPT ![o] = Absent]
                /\ object' = [object EXCEPT ![a] = o]
          /\ Goto(a, "read")
          /\ Observe
          /\ UNCHANGED <<slot, ids, restart, config, fails>>
       \/ /\ ~running
          /\ ReloadFails(a) /\ UNCHANGED <<served, fails>>
    /\ UNCHANGED <<db, running, cooldown, restarts>>

\* addUsers reads the committed users; what was committed since ReadRows may be
\* in the users, which are fresh, or in the row, which is not.
HotRead(a) ==
    /\ pc[a] = "read"
    /\ \E v \in {config[a][object[a]], db[object[a]]} :
            config' = [config EXCEPT ![a][object[a]] = v]
    /\ Goto(a, "add")
    /\ Observe
    /\ UNCHANGED <<core, slot, ids, restart, object, fails, restarts>>

\* AddInbound: Create starts the new inbound, and replaces one that came back
\* under the same tag in the meantime or fails on its listener.
HotAdd(a) ==
    /\ pc[a] = "add"
    /\ \/ /\ running
          /\ served' = [served EXCEPT ![object[a]] = config[a][object[a]]]
          /\ IF ids[a] = {object[a]}
             THEN Return(a)
             ELSE /\ ids' = [ids EXCEPT ![a] = @ \ {object[a]}]
                  /\ Goto(a, "hot")
                  /\ UNCHANGED <<slot, restart, object, config>>
          /\ Observe
          /\ UNCHANGED fails
       \/ /\ ~running \/ served[object[a]] # Absent
          /\ ReloadFails(a) /\ UNCHANGED <<served, fails>>
       \/ /\ running
          /\ Fails /\ ReloadFails(a) /\ UNCHANGED served
    /\ UNCHANGED <<db, running, cooldown, restarts>>

----------------------------------------------------------------------------

Step(a) ==
    \/ EnterSection(a) \/ Apply(a) \/ StopCore(a) \/ StartCoreLocked(a)
    \/ GetConfig(a) \/ CoreStart(a) \/ CheckRunning(a)
    \/ HotRemove(a) \/ HotRead(a) \/ HotAdd(a)

Next ==
    \/ \E s \in Savers, os \in SUBSET Objects, full \in BOOLEAN : Save(s, os, full)
    \/ \E d \in Reloaders, os \in SUBSET Objects : Reload(d, os)
    \/ \E a \in Admins : RestartCore(a)
    \/ \E a \in Actors : Step(a)
    \/ CronTick
    \/ CooldownEnds

Spec == Init /\ [][Next]_vars

\* Goroutines inside a call go on and the cron ticks; the tick may find the slot
\* busy any number of times, hence strong fairness of the two ways to take it.
Fairness ==
    /\ \A a \in Actors : WF_vars(Step(a))
    /\ \A a \in Savers \cup Admins : SF_vars(EnterSection(a))
    /\ SF_vars(CronTick)
    /\ WF_vars(CooldownEnds)

FairSpec == Spec /\ Fairness

----------------------------------------------------------------------------

\* Somebody is still going to bring object o of the core up to date.
Owed(o) ==
    \/ \E a \in Savers \cup Reloaders :
            o \in ids[a] /\ pc[a] \in {"enter", "apply", "check", "hot", "read", "add"}
    \/ slot # Free /\ pc[slot] = "stop"

\* As long as no reload outside the restart manager has met a section or
\* another reload, a running core differs from the database only in objects
\* that a save or a reload still owes it: whatever reads of GetConfig commits
\* fall between, whatever fails, nothing is forgotten and no inbound removed by
\* a hot reload stays out of the core.
LagIsOwed ==
    /\ TypeOK
    /\ running /\ ~raced /\ ~Overlap =>
           \A o \in Objects : served[o] = db[o] \/ Owed(o)

\* The changelog's promise, with the reloads of the deplete cron and of the paid
\* orders included: when nothing is under way and no call of the core failed,
\* the running core is in sync with the database.
QuietCoreInSync ==
    running /\ fails = 0 /\ (\A a \in Actors : pc[a] = "idle")
        => served = db

\* A core that failed to start is started again, by a save or by the cron once
\* the cooldown is over: when failures and requests stop, it runs for good.
CoreComesBack == <>[]running

\* Every committed change is eventually served: neither a save that waits for
\* the slot, nor a failed hot reload, nor a failed stop or start of the core
\* loses it.  Only a reload outside the restart manager may, see LagIsOwed.
ChangeIsServed ==
    \A o \in Objects, v \in Version \ {0} :
        db[o] = v ~> raced \/ (running /\ served[o] \in v..MaxVer)

\* Both: the running core follows the database, over failures of its own.
CoreFollows == CoreComesBack /\ ChangeIsServed

=============================================================================

---------------------------- MODULE CoreSyncProofs ----------------------------
(***************************************************************************)
(* Theorems about CoreSync, for any objects, savers, administrators and    *)
(* reloaders.                                                              *)
(*                                                                         *)
(* LagIsOwed is not inductive: an actor uses later what it has read        *)
(* before.  ReadsAreCurrent says what such a read is still worth, and      *)
(* Places who can be at work at all while it waits to be used.             *)
(***************************************************************************)
EXTENDS CoreSync, TLAPS

Managed == Savers \cup Admins \cup {Cron}

\* Who works under the restart manager holds the slot; reloaders never do.
Places ==
    /\ \A a \in Managed : pc[a] \in {"idle", "enter"} \/ slot = a
    /\ \A a \in Managed : pc[a] # "check"
    /\ \A a \in Admins \cup {Cron} : pc[a] \notin {"apply", "hot", "read", "add"}
    /\ \A d \in Reloaders : pc[d] \in {"idle", "check", "hot", "read", "add"}
    /\ slot \notin Reloaders
    /\ \A a \in Actors : pc[a] = "launch" => ids[a] = {}
    /\ \A a \in Actors : pc[a] \in {"read", "add"} => object[a] \in ids[a]

\* What actor a has read of object o and will put into the core.
Uses(a, o) ==
    \/ pc[a] \in {"config", "launch"} /\ o \notin ids[a]
    \/ pc[a] \in {"hot", "read", "add"} /\ o \in ids[a]

\* A save that changed o has yet to enter its section.
Waiting(o) == \E s \in Savers : pc[s] = "enter" /\ o \in ids[s]

Clean == ~raced /\ ~Overlap

\* A read is as new as the database, or the save that made it old comes after it.
ReadsAreCurrent ==
    Clean => \A a \in Actors, o \in Objects :
                 Uses(a, o) => config[a][o] = db[o] \/ Waiting(o)

\* LagIsOwed without the types.
Lag == Clean /\ running => \A o \in Objects : served[o] = db[o] \/ Owed(o)

\* A step of actor b leaves what all others hold alone.
OnlyBy(b) ==
    \A a \in Actors \ {b} : pc'[a] = pc[a] /\ ids'[a] = ids[a] /\ config'[a] = config[a]

Inv == TypeOK /\ Places /\ ReadsAreCurrent /\ Lag

\* The invariant holds before the first start of the core.
LEMMA InitInv == Init => Inv
<1> SUFFICES ASSUME Init PROVE Inv
  OBVIOUS
<1>1. TypeOK
  <2>1. db \in [Objects -> Version] /\ fails \in 0..MaxFails /\ restarts \in 0..MaxRestarts
    BY CoreSyncAssumption DEF Init, Version
  <2>2. \A a \in Actors : object[a] \in Objects
    BY CoreSyncAssumption DEF Init
  <2>3. Nothing \in [Objects -> Version \cup {Absent}]
    BY DEF Nothing
  <2> QED BY <2>1, <2>2, <2>3 DEF Init, TypeOK
<1>2. Places
  BY CoreSyncAssumption DEF Init, Places, Managed, Actors
<1>3. ReadsAreCurrent
  BY DEF Init, ReadsAreCurrent, Uses
<1>4. Lag
  BY DEF Init, Lag
<1> QED BY <1>1, <1>2, <1>3, <1>4 DEF Inv

-----------------------------------------------------------------------------
\* A return clears what the actor holds and leaves all others alone.
LEMMA ReturnFacts ==
    ASSUME TypeOK, NEW a \in Actors, Return(a)
    PROVE  /\ pc' = [pc EXCEPT ![a] = "idle"] /\ slot' \in Actors \cup {Free}
           /\ ids' \in [Actors -> SUBSET Objects] /\ restart' \in [Actors -> BOOLEAN]
           /\ object' \in [Actors -> Objects]
           /\ config' \in [Actors -> [Objects -> Version \cup {Absent}]]
  BY CoreSyncAssumption DEF Return, Goto, TypeOK, Nothing

\* A failure counts within its bound.
LEMMA FailsFacts == ASSUME TypeOK, Fails PROVE fails' \in 0..MaxFails
  BY CoreSyncAssumption DEF Fails, TypeOK

\* What a commit leaves are versions.
LEMMA CommitFacts ==
    ASSUME TypeOK, NEW os \in SUBSET Objects, Commit(os)
    PROVE  db' \in [Objects -> Version] /\ \A o \in Objects \ os : db'[o] = db[o]
  BY CoreSyncAssumption DEF Commit, TypeOK, Version

\* Every variable keeps its type.
LEMMA NextTypes == TypeOK /\ [Next]_vars => TypeOK'
<1> SUFFICES ASSUME TypeOK, [Next]_vars PROVE TypeOK'
  OBVIOUS
<1> USE CoreSyncAssumption
<1>1. ASSUME NEW s \in Savers, NEW os \in SUBSET Objects, NEW full \in BOOLEAN, Save(s, os, full)
      PROVE  TypeOK'
  BY <1>1, CommitFacts DEF Save, Goto, Observe, TypeOK, Actors
<1>2. ASSUME NEW d \in Reloaders, NEW os \in SUBSET Objects, Reload(d, os)
      PROVE  TypeOK'
  BY <1>2, CommitFacts DEF Reload, Goto, Observe, TypeOK, Actors
<1>3. ASSUME NEW a \in Admins, RestartCore(a) PROVE TypeOK'
  BY <1>3 DEF RestartCore, Goto, Observe, TypeOK, Actors, core, local
<1>4. ASSUME NEW a \in Actors, EnterSection(a) PROVE TypeOK'
  BY <1>4 DEF EnterSection, Goto, Observe, TypeOK, core, local
<1>5. ASSUME NEW a \in Actors, Apply(a) PROVE TypeOK'
  <2>1. CASE ReadRows(a)
    <3>1. config' \in [Actors -> [Objects -> Version \cup {Absent}]] /\ pc' = [pc EXCEPT ![a] = "hot"]
      BY <2>1 DEF ReadRows, Goto, TypeOK
    <3> QED BY <1>5, <3>1 DEF Apply, Observe, TypeOK, core
  <2>2. CASE UNCHANGED config
    BY <1>5, <2>2 DEF Apply, ReadRows, Goto, Observe, TypeOK, core
  <2> QED BY <1>5, <2>1, <2>2 DEF Apply
<1>6. ASSUME NEW a \in Actors, StopCore(a) PROVE TypeOK'
  <2>1. CASE Return(a) /\ Fails
    BY <1>6, <2>1, ReturnFacts, FailsFacts DEF StopCore, Observe, TypeOK, Nothing
  <2>2. CASE Goto(a, "start") /\ UNCHANGED <<slot, local, fails>>
    BY <1>6, <2>2 DEF StopCore, Goto, Observe, TypeOK, Nothing, local
  <2> QED BY <1>6, <2>1, <2>2 DEF StopCore
<1>7. ASSUME NEW a \in Actors, StartCoreLocked(a) PROVE TypeOK'
  <2>1. CASE Return(a)
    BY <1>7, <2>1, ReturnFacts DEF StartCoreLocked, Observe, TypeOK, core
  <2>2. CASE ~Return(a)
    BY <1>7, <2>2 DEF StartCoreLocked, Goto, Observe, TypeOK, core
  <2> QED BY <2>1, <2>2
<1>8. ASSUME NEW a \in Actors, GetConfig(a) PROVE TypeOK'
  <2>1. CASE Return(a) /\ Fails
    BY <1>8, <2>1, ReturnFacts, FailsFacts DEF GetConfig, Observe, TypeOK, core
  <2>2. ASSUME NEW o \in ids[a],
               config' = [config EXCEPT ![a][o] = db[o]],
               ids' = [ids EXCEPT ![a] = @ \ {o}],
               Goto(a, IF ids[a] = {o} THEN "launch" ELSE "config"),
               UNCHANGED <<slot, restart, object, fails>>
        PROVE  TypeOK'
    <3>1. o \in Objects
      BY <2>2 DEF TypeOK
    <3>2. config' \in [Actors -> [Objects -> Version \cup {Absent}]]
      BY <2>2, <3>1 DEF TypeOK
    <3>3. ids' \in [Actors -> SUBSET Objects]
      BY <2>2 DEF TypeOK
    <3> QED BY <1>8, <2>2, <3>2, <3>3 DEF GetConfig, Goto, Observe, TypeOK, core
  <2> QED BY <1>8, <2>1, <2>2 DEF GetConfig
<1>9. ASSUME NEW a \in Actors, CoreStart(a) PROVE TypeOK'
  <2>1. CASE running' = TRUE /\ served' = config[a] /\ cooldown' = FALSE /\ UNCHANGED fails
    BY <1>9, <2>1, ReturnFacts DEF CoreStart, Observe, TypeOK
  <2>2. CASE cooldown' = TRUE /\ Fails /\ UNCHANGED <<running, served>>
    BY <1>9, <2>2, ReturnFacts, FailsFacts DEF CoreStart, Observe, TypeOK
  <2> QED BY <1>9, <2>1, <2>2 DEF CoreStart
<1>10. ASSUME NEW a \in Actors, CheckRunning(a) PROVE TypeOK'
  <2>1. CASE Return(a)
    BY <1>10, <2>1, ReturnFacts DEF CheckRunning, Observe, TypeOK, core
  <2>2. CASE ReadRows(a) /\ UNCHANGED <<slot, ids, restart, object>>
    <3>1. config' \in [Actors -> [Objects -> Version \cup {Absent}]] /\ pc' = [pc EXCEPT ![a] = "hot"]
      BY <2>2 DEF ReadRows, Goto, TypeOK
    <3> QED BY <1>10, <2>2, <3>1 DEF CheckRunning, Observe, TypeOK, core
  <2> QED BY <1>10, <2>1, <2>2 DEF CheckRunning
<1>11. ASSUME NEW a \in Actors, ReloadFails(a), UNCHANGED <<db, running, cooldown, restarts, served>>,
              fails' \in 0..MaxFails
       PROVE  TypeOK'
  BY <1>11, ReturnFacts DEF ReloadFails, Goto, Observe, TypeOK, local
<1>12. ASSUME NEW a \in Actors, HotRemove(a) PROVE TypeOK'
  <2>1. CASE ReloadFails(a) /\ UNCHANGED <<served, fails>>
    BY <1>11, <1>12, <2>1 DEF HotRemove, TypeOK
  <2>2. ASSUME NEW o \in ids[a],
               served' = [served EXCEPT ![o] = Absent],
               object' = [object EXCEPT ![a] = o],
               Goto(a, "read"), Observe, UNCHANGED <<slot, ids, restart, config, fails>>
        PROVE  TypeOK'
    <3>1. o \in Objects
      BY <2>2 DEF TypeOK
    <3> QED BY <1>12, <2>2, <3>1 DEF HotRemove, Goto, Observe, TypeOK
  <2> QED BY <1>12, <2>1, <2>2 DEF HotRemove
<1>13. ASSUME NEW a \in Actors, HotRead(a) PROVE TypeOK'
  <2>1. config' \in [Actors -> [Objects -> Version \cup {Absent}]]
    BY <1>13 DEF HotRead, TypeOK
  <2> QED BY <1>13, <2>1 DEF HotRead, Goto, Observe, TypeOK, core
<1>14. ASSUME NEW a \in Actors, HotAdd(a) PROVE TypeOK'
  <2>1. CASE ReloadFails(a) /\ UNCHANGED served
    BY <1>11, <1>14, <2>1 DEF HotAdd, Fails, TypeOK
  <2>2. CASE /\ running
             /\ served' = [served EXCEPT ![object[a]] = config[a][object[a]]]
             /\ Observe /\ UNCHANGED fails
             /\ ids[a] = {object[a]} /\ Return(a)
    BY <1>14, <2>2, ReturnFacts DEF HotAdd, Observe, TypeOK
  <2>3. CASE /\ running
             /\ served' = [served EXCEPT ![object[a]] = config[a][object[a]]]
             /\ Observe /\ UNCHANGED fails
             /\ ids' = [ids EXCEPT ![a] = @ \ {object[a]}] /\ Goto(a, "hot")
             /\ UNCHANGED <<slot, restart, object, config>>
    BY <1>14, <2>3 DEF HotAdd, Goto, Observe, TypeOK
  <2> QED BY <1>14, <2>1, <2>2, <2>3 DEF HotAdd
<1>15. CASE CronTick
  BY <1>15 DEF CronTick, Goto, Observe, TypeOK, Actors, core, local
<1>16. CASE CooldownEnds
  BY <1>16 DEF CooldownEnds, Observe, TypeOK, local
<1>17. CASE UNCHANGED vars
  BY <1>17 DEF vars, core, local, TypeOK
<1> QED
  BY <1>1, <1>2, <1>3, <1>4, <1>5, <1>6, <1>7, <1>8, <1>9, <1>10, <1>12, <1>13, <1>14,
     <1>15, <1>16, <1>17 DEF Next, Step, Actors

-----------------------------------------------------------------------------
\* Who is who: a managed actor is no reloader, and nobody is Free.
LEMMA Kinds ==
    /\ Managed \cap Reloaders = {} /\ Free \notin Actors /\ Actors = Managed \cup Reloaders
    /\ Savers \cap (Admins \cup {Cron}) = {}
  BY CoreSyncAssumption DEF Managed, Actors

\* A return of an actor under the manager, or of a reloader, keeps the places.
LEMMA ReturnPlaces == ASSUME TypeOK, Places, NEW a \in Actors, Return(a) PROVE Places'
<1>1. pc' = [pc EXCEPT ![a] = "idle"] /\ ids'= [ids EXCEPT ![a] = {}] /\ object' = [object EXCEPT ![a] = Blob]
  BY DEF Return, Goto
<1>2. slot' = IF slot = a THEN Free ELSE slot
  BY DEF Return
<1> QED BY <1>1, <1>2, Kinds DEF Places, TypeOK

\* Every step keeps the places.
LEMMA NextPlaces == TypeOK /\ Places /\ [Next]_vars => Places'
<1> SUFFICES ASSUME TypeOK, Places, [Next]_vars PROVE Places'
  OBVIOUS
<1> USE Kinds
<1>1. ASSUME NEW s \in Savers, NEW os \in SUBSET Objects, NEW full \in BOOLEAN, Save(s, os, full)
      PROVE  Places'
  BY <1>1 DEF Save, Goto, Places, TypeOK, Managed
<1>2. ASSUME NEW d \in Reloaders, NEW os \in SUBSET Objects, Reload(d, os)
      PROVE  Places'
  BY <1>2 DEF Reload, Goto, Places, TypeOK
<1>3. ASSUME NEW a \in Admins, RestartCore(a) PROVE Places'
  BY <1>3 DEF RestartCore, Goto, Places, TypeOK, Managed, local
<1>4. ASSUME NEW a \in Actors, EnterSection(a) PROVE Places'
  <2>1. a \in Managed /\ (pc'[a] = "apply" => a \in Savers)
    BY <1>4 DEF EnterSection, Goto, Places, TypeOK
  <2> QED BY <1>4, <2>1 DEF EnterSection, Goto, Places, TypeOK, local
<1>5. ASSUME NEW a \in Actors, Apply(a) PROVE Places'
  <2>1. a \in Savers /\ slot = a
    BY <1>5 DEF Apply, Places, Managed
  <2>2. pc' \in {[pc EXCEPT ![a] = l] : l \in {"start", "stop", "hot"}}
    BY <1>5 DEF Apply, ReadRows, Goto
  <2>3. UNCHANGED <<slot, ids, object>>
    BY <1>5 DEF Apply
  <2> QED BY <2>1, <2>2, <2>3 DEF Places, TypeOK, Managed
<1>6. ASSUME NEW a \in Actors, StopCore(a) PROVE Places'
  <2>1. CASE Goto(a, "start") /\ UNCHANGED <<slot, local, fails>>
    BY <1>6, <2>1 DEF StopCore, Goto, Places, TypeOK, local
  <2> QED BY <1>6, <2>1, ReturnPlaces DEF StopCore
<1>7. ASSUME NEW a \in Actors, StartCoreLocked(a) PROVE Places'
  <2>1. CASE /\ Goto(a, "config") /\ ids' = [ids EXCEPT ![a] = Objects]
             /\ UNCHANGED <<slot, restart, object, config>>
    BY <1>7, <2>1 DEF StartCoreLocked, Goto, Places, TypeOK
  <2> QED BY <1>7, <2>1, ReturnPlaces DEF StartCoreLocked
<1>8. ASSUME NEW a \in Actors, GetConfig(a) PROVE Places'
  <2>1. ASSUME NEW o \in ids[a],
               ids' = [ids EXCEPT ![a] = @ \ {o}],
               Goto(a, IF ids[a] = {o} THEN "launch" ELSE "config"),
               UNCHANGED <<slot, restart, object, fails>>
        PROVE  Places'
    BY <1>8, <2>1 DEF GetConfig, Goto, Places, TypeOK
  <2> QED BY <1>8, <2>1, ReturnPlaces DEF GetConfig
<1>9. ASSUME NEW a \in Actors, CoreStart(a) PROVE Places'
  BY <1>9, ReturnPlaces DEF CoreStart
<1>10. ASSUME NEW a \in Actors, CheckRunning(a) PROVE Places'
  <2>1. CASE ReadRows(a) /\ UNCHANGED <<slot, ids, restart, object>>
    <3>1. pc' = [pc EXCEPT ![a] = "hot"] /\ pc[a] = "check"
      BY <1>10, <2>1 DEF CheckRunning, ReadRows, Goto
    <3>2. a \in Reloaders
      BY <3>1 DEF Places
    <3> QED BY <2>1, <3>1, <3>2 DEF Places, TypeOK, Managed
  <2> QED BY <1>10, <2>1, ReturnPlaces DEF CheckRunning
<1>11. ASSUME NEW a \in Actors, pc[a] \in {"hot", "add"}, ReloadFails(a) PROVE Places'
  <2>1. CASE a \in Savers
    <3>1. pc' = [pc EXCEPT ![a] = "stop"] /\ UNCHANGED <<slot, ids, object>>
      BY <1>11, <2>1 DEF ReloadFails, Goto, local
    <3>2. a \in Savers /\ slot = a
      BY <1>11, <2>1 DEF Places, Managed
    <3> QED BY <3>1, <3>2 DEF Places, TypeOK, Managed
  <2> QED BY <1>11, <2>1, ReturnPlaces DEF ReloadFails
<1>12. ASSUME NEW a \in Actors, HotRemove(a) PROVE Places'
  <2>1. CASE ReloadFails(a)
    BY <1>11, <1>12, <2>1 DEF HotRemove
  <2>2. ASSUME NEW o \in ids[a], object' = [object EXCEPT ![a] = o],
               Goto(a, "read"), UNCHANGED <<slot, ids, restart, config, fails>>
        PROVE  Places'
    BY <1>12, <2>2 DEF HotRemove, Goto, Places, TypeOK
  <2> QED BY <1>12, <2>1, <2>2 DEF HotRemove
<1>13. ASSUME NEW a \in Actors, HotRead(a) PROVE Places'
  BY <1>13 DEF HotRead, Goto, Places, TypeOK
<1>14. ASSUME NEW a \in Actors, HotAdd(a) PROVE Places'
  <2>1. CASE ReloadFails(a)
    BY <1>11, <1>14, <2>1 DEF HotAdd
  <2>2. CASE Return(a)
    BY <2>2, ReturnPlaces
  <2>3. CASE /\ ids' = [ids EXCEPT ![a] = @ \ {object[a]}] /\ Goto(a, "hot")
             /\ UNCHANGED <<slot, restart, object, config>>
    BY <1>14, <2>3 DEF HotAdd, Goto, Places, TypeOK
  <2> QED BY <1>14, <2>1, <2>2, <2>3 DEF HotAdd
<1>15. CASE CronTick
  BY <1>15 DEF CronTick, Goto, Places, TypeOK, Managed, local
<1>16. CASE CooldownEnds
  BY <1>16 DEF CooldownEnds, Places, local
<1>17. CASE UNCHANGED vars
  BY <1>17 DEF vars, local, Places
<1> QED
  BY <1>1, <1>2, <1>3, <1>4, <1>5, <1>6, <1>7, <1>8, <1>9, <1>10, <1>12, <1>13, <1>14,
     <1>15, <1>16, <1>17 DEF Next, Step, Actors
-----------------------------------------------------------------------------
\* What a step observes, a clean state had behind it already.
LEMMA CleanBack == ASSUME Observe, Clean' PROVE Clean
  BY DEF Observe, Clean

\* A return is a step of its actor alone, who then uses nothing.
LEMMA ReturnUses ==
    ASSUME TypeOK, NEW a \in Actors, Return(a)
    PROVE  OnlyBy(a) /\ \A o \in Objects : ~Uses(a, o)'
  BY DEF Return, Goto, OnlyBy, Uses, TypeOK

\* A hot reload reads what it is going to use.
LEMMA ReadRowsUses ==
    ASSUME TypeOK, NEW b \in Actors, ReadRows(b), UNCHANGED ids
    PROVE  OnlyBy(b) /\ \A o \in Objects : Uses(b, o)' => config'[b][o] = db[o]
  BY DEF ReadRows, Goto, OnlyBy, Uses, TypeOK

\* A step of one actor keeps the reads current when it does not end a wait and
\* what it uses is fresh, or was in use already.
LEMMA SameReads ==
    ASSUME TypeOK, ReadsAreCurrent, Clean' => Clean, NEW b \in Actors, OnlyBy(b),
           UNCHANGED db, pc[b] # "enter",
           \A o \in Objects : Uses(b, o)' =>
               config'[b][o] = db[o] \/ (Uses(b, o) /\ config'[b][o] = config[b][o])
    PROVE  ReadsAreCurrent'
<1> SUFFICES ASSUME Clean', NEW a \in Actors, NEW o \in Objects, Uses(a, o)'
             PROVE  config'[a][o] = db[o] \/ Waiting(o)'
  BY DEF ReadsAreCurrent
<1>1. Waiting(o) => Waiting(o)'
  BY DEF Waiting, OnlyBy, Actors
<1>2. CASE a = b
  BY <1>1, <1>2 DEF ReadsAreCurrent
<1>3. CASE a # b
  <2>1. Uses(a, o) /\ config'[a][o] = config[a][o]
    BY <1>3 DEF OnlyBy, Uses
  <2> QED BY <1>1, <2>1 DEF ReadsAreCurrent
<1> QED BY <1>2, <1>3

\* Reads stay current.
LEMMA NextReads ==
    TypeOK /\ TypeOK' /\ Places /\ ReadsAreCurrent /\ [Next]_vars => ReadsAreCurrent'
<1> SUFFICES ASSUME TypeOK, TypeOK', Places, ReadsAreCurrent, [Next]_vars
             PROVE  ReadsAreCurrent'
  OBVIOUS
<1> USE Kinds
<1>1. ASSUME NEW s \in Savers, NEW os \in SUBSET Objects, NEW full \in BOOLEAN, Save(s, os, full)
      PROVE  ReadsAreCurrent'
  <2> SUFFICES ASSUME Clean', NEW a \in Actors, NEW o \in Objects, Uses(a, o)'
               PROVE  config'[a][o] = db'[o] \/ Waiting(o)'
    BY DEF ReadsAreCurrent
  <2>1. s \in Actors /\ pc[s] = "idle" /\ pc' = [pc EXCEPT ![s] = "enter"]
    BY <1>1 DEF Save, Goto, Actors
  <2>2. ids' = [ids EXCEPT ![s] = os] /\ config' = config
    BY <1>1 DEF Save
  <2>3. CASE o \in os
    BY <2>1, <2>2, <2>3 DEF Waiting, TypeOK
  <2>4. CASE o \notin os
    <3>1. a # s
      BY <2>1 DEF Uses, TypeOK
    <3>2. Uses(a, o)
      BY <2>1, <2>2, <3>1 DEF Uses, TypeOK
    <3>3. Clean
      BY <1>1, CleanBack DEF Save
    <3>4. Waiting(o) => Waiting(o)'
      BY <2>1, <2>2 DEF Waiting, TypeOK, Actors
    <3>5. db'[o] = db[o]
      BY <1>1, <2>4, CommitFacts DEF Save
    <3> QED BY <2>2, <3>2, <3>3, <3>4, <3>5 DEF ReadsAreCurrent
  <2> QED BY <2>3, <2>4
<1>2. ASSUME NEW d \in Reloaders, NEW os \in SUBSET Objects, Reload(d, os)
      PROVE  ReadsAreCurrent'
  <2> SUFFICES ASSUME Clean', NEW a \in Actors, NEW o \in Objects, Uses(a, o)'
               PROVE  FALSE
    BY DEF ReadsAreCurrent
  <2>1. d \in Actors /\ pc' = [pc EXCEPT ![d] = "check"] /\ ids' = [ids EXCEPT ![d] = os] /\ slot' = slot
    BY <1>2 DEF Reload, Goto, Actors
  <2>2. a # d /\ pc'[a] = pc[a] /\ pc[a] \notin {"idle", "enter"}
    BY <2>1 DEF Uses, TypeOK
  <2>3. d \in Reloading'
    BY <2>1 DEF Reloading, TypeOK
  <2>4. slot = Free
    BY <2>1, <2>3 DEF Clean, Overlap
  <2>5. a \in Reloaders
    BY <2>2, <2>4 DEF Places
  <2>6. a \in Reloading'
    BY <2>2, <2>5 DEF Reloading
  <2> QED BY <2>2, <2>3, <2>6 DEF Clean, Overlap
<1>3. ASSUME NEW b \in Admins, RestartCore(b) PROVE ReadsAreCurrent'
  <2>1. b \in Actors /\ pc[b] = "idle" /\ pc' = [pc EXCEPT ![b] = "enter"]
    BY <1>3 DEF RestartCore, Goto, Actors
  <2>2. UNCHANGED <<db, ids, config>>
    BY <1>3 DEF RestartCore, core, local
  <2>3. OnlyBy(b) /\ \A o \in Objects : ~Uses(b, o)'
    BY <2>1, <2>2 DEF OnlyBy, Uses, TypeOK
  <2> QED BY <1>3, <2>1, <2>2, <2>3, CleanBack, SameReads DEF RestartCore
<1>4. ASSUME NEW b \in Actors, EnterSection(b) PROVE ReadsAreCurrent'
  <2> SUFFICES ASSUME Clean', NEW a \in Actors, NEW o \in Objects, Uses(a, o)'
               PROVE  FALSE
    BY DEF ReadsAreCurrent
  <2>1. /\ pc[b] = "enter" /\ slot = Free /\ slot' = b /\ ids' = ids
        /\ pc' = [pc EXCEPT ![b] = IF b \in Savers THEN "apply" ELSE "stop"]
    BY <1>4 DEF EnterSection, Goto, local
  <2>2. a # b /\ pc'[a] = pc[a] /\ pc[a] \notin {"idle", "enter"}
    BY <2>1 DEF Uses, TypeOK
  <2>3. a \in Reloaders
    BY <2>1, <2>2 DEF Places
  <2>4. a \in Reloading' /\ slot' # Free
    BY <2>1, <2>2, <2>3 DEF Reloading
  <2> QED BY <2>4 DEF Clean, Overlap
<1>5. ASSUME NEW b \in Actors, Apply(b) PROVE ReadsAreCurrent'
  <2>1. pc[b] = "apply" /\ UNCHANGED <<db, ids>> /\ Observe
    BY <1>5 DEF Apply, core
  <2>2. CASE UNCHANGED config /\ pc' \in {[pc EXCEPT ![b] = l] : l \in {"start", "stop"}}
    <3>1. OnlyBy(b) /\ \A o \in Objects : ~Uses(b, o)'
      BY <2>1, <2>2 DEF OnlyBy, Uses, TypeOK
    <3> QED BY <2>1, <3>1, CleanBack, SameReads
  <2>3. CASE ReadRows(b)
    <3>1. OnlyBy(b) /\ \A o \in Objects : Uses(b, o)' => config'[b][o] = db[o]
      BY <2>1, <2>3, ReadRowsUses
    <3>2. \A o \in Objects : Uses(b, o)' =>
              config'[b][o] = db[o] \/ (Uses(b, o) /\ config'[b][o] = config[b][o])
      BY <3>1
    <3> QED BY <3>2, <2>1, <3>1, CleanBack, SameReads
  <2> QED BY <1>5, <2>2, <2>3 DEF Apply, Goto
<1>6. ASSUME NEW b \in Actors, StopCore(b) PROVE ReadsAreCurrent'
  <2>1. pc[b] = "stop" /\ UNCHANGED db /\ Observe
    BY <1>6 DEF StopCore
  <2>2. OnlyBy(b) /\ \A o \in Objects : ~Uses(b, o)'
    <3>1. CASE pc' = [pc EXCEPT ![b] = "start"] /\ UNCHANGED <<ids, config>>
      BY <3>1 DEF OnlyBy, Uses, TypeOK
    <3> QED BY <1>6, <3>1, ReturnUses DEF StopCore, Goto, local
  <2> QED BY <2>1, <2>2, CleanBack, SameReads
<1>7. ASSUME NEW b \in Actors, StartCoreLocked(b) PROVE ReadsAreCurrent'
  <2>1. pc[b] = "start" /\ UNCHANGED db /\ Observe
    BY <1>7 DEF StartCoreLocked, core
  <2>2. OnlyBy(b) /\ \A o \in Objects : ~Uses(b, o)'
    <3>1. CASE /\ pc' = [pc EXCEPT ![b] = "config"] /\ ids' = [ids EXCEPT ![b] = Objects]
               /\ UNCHANGED config
      BY <3>1 DEF OnlyBy, Uses, TypeOK
    <3> QED BY <1>7, <3>1, ReturnUses DEF StartCoreLocked, Goto
  <2> QED BY <2>1, <2>2, CleanBack, SameReads
<1>8. ASSUME NEW b \in Actors, GetConfig(b) PROVE ReadsAreCurrent'
  <2>1. pc[b] = "config" /\ UNCHANGED db /\ Observe
    BY <1>8 DEF GetConfig, core
  <2>2. CASE Return(b)
    BY <2>1, <2>2, ReturnUses, CleanBack, SameReads
  <2>3. ASSUME NEW p \in ids[b],
               config' = [config EXCEPT ![b][p] = db[p]],
               ids' = [ids EXCEPT ![b] = @ \ {p}],
               Goto(b, IF ids[b] = {p} THEN "launch" ELSE "config")
        PROVE  ReadsAreCurrent'
    <3>1. p \in Objects /\ pc'[b] \in {"config", "launch"} /\ OnlyBy(b)
      BY <2>3 DEF Goto, OnlyBy, TypeOK
    <3>2. ASSUME NEW o \in Objects, Uses(b, o)'
          PROVE  config'[b][o] = db[o] \/ (Uses(b, o) /\ config'[b][o] = config[b][o])
      <4>1. o \notin ids[b] \ {p}
        BY <2>3, <3>1, <3>2 DEF Uses, TypeOK
      <4>2. CASE o = p
        <5>1. config'[b][p] = db[p]
          BY <2>3, <3>1 DEF TypeOK
        <5> QED BY <4>2, <5>1
      <4>3. CASE o # p
        BY <2>1, <2>3, <4>1, <4>3 DEF Uses, TypeOK
      <4> QED BY <4>2, <4>3
    <3> QED BY <2>1, <3>1, <3>2, CleanBack, SameReads
  <2> QED BY <1>8, <2>2, <2>3 DEF GetConfig
<1>9. ASSUME NEW b \in Actors, CoreStart(b) PROVE ReadsAreCurrent'
  <2>1. pc[b] = "launch" /\ UNCHANGED db /\ Observe /\ Return(b)
    BY <1>9 DEF CoreStart
  <2> QED BY <2>1, ReturnUses, CleanBack, SameReads
<1>10. ASSUME NEW b \in Actors, CheckRunning(b) PROVE ReadsAreCurrent'
  <2>1. pc[b] = "check" /\ UNCHANGED db /\ Observe
    BY <1>10 DEF CheckRunning, core
  <2>2. CASE Return(b)
    BY <2>1, <2>2, ReturnUses, CleanBack, SameReads
  <2>3. CASE ReadRows(b) /\ UNCHANGED ids
    <3>1. OnlyBy(b) /\ \A o \in Objects : Uses(b, o)' => config'[b][o] = db[o]
      BY <2>3, ReadRowsUses
    <3>2. \A o \in Objects : Uses(b, o)' =>
              config'[b][o] = db[o] \/ (Uses(b, o) /\ config'[b][o] = config[b][o])
      BY <3>1
    <3> QED BY <3>2, <2>1, <3>1, CleanBack, SameReads
  <2> QED BY <1>10, <2>2, <2>3 DEF CheckRunning
<1>11. ASSUME NEW b \in Actors, pc[b] \in {"hot", "add"}, ReloadFails(b), UNCHANGED db
       PROVE  ReadsAreCurrent'
  <2>1. CASE b \in Savers
    <3>1. pc' = [pc EXCEPT ![b] = "stop"] /\ UNCHANGED <<ids, config>> /\ Observe
      BY <1>11, <2>1 DEF ReloadFails, Goto, local
    <3>2. OnlyBy(b) /\ \A o \in Objects : ~Uses(b, o)'
      BY <3>1 DEF OnlyBy, Uses, TypeOK
    <3> QED BY <1>11, <3>1, <3>2, CleanBack, SameReads
  <2>2. CASE b \notin Savers
    BY <1>11, <2>2 DEF ReloadFails, ReadsAreCurrent, Clean
  <2> QED BY <2>1, <2>2
<1>12. ASSUME NEW b \in Actors, HotRemove(b) PROVE ReadsAreCurrent'
  <2>1. pc[b] = "hot" /\ UNCHANGED db
    BY <1>12 DEF HotRemove
  <2>2. CASE ReloadFails(b)
    BY <1>11, <2>1, <2>2
  <2>3. CASE pc' = [pc EXCEPT ![b] = "read"] /\ Observe /\ UNCHANGED <<ids, config>>
    <3>1. OnlyBy(b) /\ \A o \in Objects : Uses(b, o)' => Uses(b, o) /\ config'[b][o] = config[b][o]
      BY <2>1, <2>3 DEF OnlyBy, Uses, TypeOK
    <3> QED BY <2>1, <2>3, <3>1, CleanBack, SameReads
  <2> QED BY <1>12, <2>2, <2>3 DEF HotRemove, Goto
<1>13. ASSUME NEW b \in Actors, HotRead(b) PROVE ReadsAreCurrent'
  <2>1. pc[b] = "read" /\ UNCHANGED <<db, ids>> /\ Observe /\ pc' = [pc EXCEPT ![b] = "add"]
    BY <1>13 DEF HotRead, Goto, core
  <2>2. PICK v \in {config[b][object[b]], db[object[b]]} :
            config' = [config EXCEPT ![b][object[b]] = v]
    BY <1>13 DEF HotRead
  <2>3. OnlyBy(b)
    BY <2>1, <2>2 DEF OnlyBy, TypeOK
  <2>4. ASSUME NEW o \in Objects, Uses(b, o)'
        PROVE  config'[b][o] = db[o] \/ (Uses(b, o) /\ config'[b][o] = config[b][o])
    <3>1. Uses(b, o)
      BY <2>1, <2>4 DEF Uses, TypeOK
    <3>2. config'[b][o] = IF o = object[b] THEN v ELSE config[b][o]
      BY <2>2 DEF TypeOK
    <3>3. object[b] \in Objects
      BY DEF TypeOK
    <3>4. CASE o = object[b]
      BY <2>2, <3>1, <3>2, <3>4
    <3>5. CASE o # object[b]
      BY <3>1, <3>2, <3>5
    <3> QED BY <3>4, <3>5
  <2> QED BY <2>1, <2>3, <2>4, CleanBack, SameReads
<1>14. ASSUME NEW b \in Actors, HotAdd(b) PROVE ReadsAreCurrent'
  <2>1. pc[b] = "add" /\ UNCHANGED db
    BY <1>14 DEF HotAdd
  <2>2. CASE ReloadFails(b)
    BY <1>11, <2>1, <2>2
  <2>3. CASE Observe /\ Return(b)
    BY <2>1, <2>3, ReturnUses, CleanBack, SameReads
  <2>4. CASE /\ Observe /\ ids' = [ids EXCEPT ![b] = @ \ {object[b]}]
             /\ pc' = [pc EXCEPT ![b] = "hot"] /\ UNCHANGED config
    <3>1. OnlyBy(b) /\ \A o \in Objects : Uses(b, o)' => Uses(b, o) /\ config'[b][o] = config[b][o]
      BY <2>1, <2>4 DEF OnlyBy, Uses, TypeOK
    <3> QED BY <2>1, <2>4, <3>1, CleanBack, SameReads
  <2> QED BY <1>14, <2>2, <2>3, <2>4 DEF HotAdd, Goto
<1>15. CASE CronTick
  <2>1. Cron \in Actors /\ pc[Cron] = "idle" /\ pc' = [pc EXCEPT ![Cron] = "start"]
    BY <1>15 DEF CronTick, Goto, Actors
  <2>2. UNCHANGED <<db, ids, config>> /\ Observe
    BY <1>15 DEF CronTick, core, local
  <2>3. OnlyBy(Cron) /\ \A o \in Objects : ~Uses(Cron, o)'
    BY <2>1, <2>2 DEF OnlyBy, Uses, TypeOK
  <2> QED BY <2>1, <2>2, <2>3, CleanBack, SameReads
<1>16. CASE CooldownEnds
  <2>1. UNCHANGED <<db, pc, ids, config>> /\ (Clean' => Clean)
    BY <1>16, CleanBack DEF CooldownEnds, local
  <2> QED BY <2>1 DEF ReadsAreCurrent, Uses, Waiting
<1>17. CASE UNCHANGED vars
  BY <1>17 DEF vars, core, local, ReadsAreCurrent, Uses, Waiting, Clean, Overlap, Reloading
<1> QED
  BY <1>1, <1>2, <1>3, <1>4, <1>5, <1>6, <1>7, <1>8, <1>9, <1>10, <1>12, <1>13, <1>14,
     <1>15, <1>16, <1>17 DEF Next, Step, Actors
-----------------------------------------------------------------------------
\* An actor that still holds o, on its way to put it into the core.
Holds(a, o) ==
    /\ a \in Savers \cup Reloaders
    /\ o \in ids[a] /\ pc[a] \in {"enter", "apply", "check", "hot", "read", "add"}

\* What is owed is held, or the slot's owner is about to stop the core.
LEMMA OwedFacts ==
    ASSUME NEW o
    PROVE  Owed(o) <=> (\E a \in Actors : Holds(a, o)) \/ (slot # Free /\ pc[slot] = "stop")
  BY DEF Owed, Holds, Actors

\* The same of the next state.
LEMMA OwedNextFacts ==
    ASSUME NEW o
    PROVE  Owed(o)' <=> (\E a \in Actors : Holds(a, o)') \/ (slot' # Free /\ pc'[slot'] = "stop")
  BY DEF Owed, Holds, Actors

\* A step of one actor keeps what is owed owed when it gives up nothing that it
\* holds, and is not the stop of the core.
LEMMA SameOwed ==
    ASSUME TypeOK, NEW b \in Actors, OnlyBy(b), slot' = slot \/ slot \in {b, Free},
           pc[b] # "stop", NEW o, Holds(b, o) => Holds(b, o)', Owed(o)
    PROVE  Owed(o)'
<1>1. CASE \E a \in Actors : Holds(a, o)
  <2>1. PICK a \in Actors : Holds(a, o)
    BY <1>1
  <2>2. Holds(a, o)'
    BY <2>1 DEF OnlyBy, Holds
  <2> QED BY <2>2, OwedNextFacts
<1>2. CASE slot # Free /\ pc[slot] = "stop"
  <2>1. slot \in Actors \ {b} /\ slot' = slot
    BY <1>2, Kinds DEF TypeOK
  <2> QED BY <1>2, <2>1, OwedNextFacts DEF OnlyBy
<1> QED BY <1>1, <1>2, OwedFacts

\* So it keeps the core's lag owed when it leaves the core and the database alone.
LEMMA SameLag ==
    ASSUME TypeOK, Lag, Clean' => Clean, NEW b \in Actors, OnlyBy(b),
           slot' = slot \/ slot \in {b, Free}, pc[b] # "stop",
           UNCHANGED <<db, served, running>>,
           \A o \in Objects : Holds(b, o) => Holds(b, o)'
    PROVE  Lag'
<1> SUFFICES ASSUME Clean', running', NEW o \in Objects
             PROVE  served'[o] = db'[o] \/ Owed(o)'
  BY DEF Lag
<1>1. served[o] = db[o] \/ Owed(o)
  BY DEF Lag
<1> QED BY <1>1, SameOwed

\* The owner of the slot that stops the core owes everything.
LEMMA StopOwes ==
    ASSUME NEW b \in Actors, slot' = b, pc'[b] = "stop" PROVE Lag'
  BY Kinds, OwedNextFacts DEF Lag

\* The rows a hot reload reads stay with the actor.
LEMMA ReadRowsHolds ==
    ASSUME TypeOK, NEW b \in Actors, ReadRows(b), UNCHANGED ids
    PROVE  OnlyBy(b) /\ \A o \in Objects : Holds(b, o) => Holds(b, o)'
  BY DEF ReadRows, Goto, OnlyBy, Holds, TypeOK

\* What a save waits to change stays owed when another actor moves.
LEMMA WaitingOwes ==
    ASSUME NEW b \in Actors, OnlyBy(b), pc[b] # "enter", NEW o, Waiting(o)
    PROVE  Owed(o)'
  BY DEF Waiting, OnlyBy, Owed, Actors

\* A return leaves no trace in the slot of anybody else.
LEMMA ReturnSlot == ASSUME NEW b, Return(b) PROVE slot' = slot \/ slot \in {b, Free}
  BY DEF Return

\* The lag of the core stays owed.
LEMMA NextLag ==
    TypeOK /\ TypeOK' /\ Places /\ ReadsAreCurrent /\ Lag /\ [Next]_vars => Lag'
<1> SUFFICES ASSUME TypeOK, TypeOK', Places, ReadsAreCurrent, Lag, [Next]_vars
             PROVE  Lag'
  OBVIOUS
<1> USE Kinds
<1>1. ASSUME NEW s \in Savers, NEW os \in SUBSET Objects, NEW full \in BOOLEAN, Save(s, os, full)
      PROVE  Lag'
  <2> SUFFICES ASSUME Clean', running', NEW o \in Objects
               PROVE  served'[o] = db'[o] \/ Owed(o)'
    BY DEF Lag
  <2>1. s \in Actors /\ pc[s] = "idle" /\ pc' = [pc EXCEPT ![s] = "enter"]
    BY <1>1 DEF Save, Goto, Actors
  <2>2. ids' = [ids EXCEPT ![s] = os] /\ UNCHANGED <<config, served, running, slot>>
    BY <1>1 DEF Save
  <2>3. CASE o \in os
    <3>1. Holds(s, o)'
      BY <2>1, <2>2, <2>3 DEF Holds, TypeOK
    <3> QED BY <2>1, <3>1, OwedNextFacts
  <2>4. CASE o \notin os
    <3>1. db'[o] = db[o]
      BY <1>1, <2>4, CommitFacts DEF Save
    <3>2. served[o] = db[o] \/ Owed(o)
      BY <1>1, <2>2, CleanBack DEF Save, Lag
    <3>3. OnlyBy(s) /\ ~Holds(s, o)
      BY <2>1, <2>2 DEF OnlyBy, Holds, TypeOK
    <3> QED BY <2>1, <2>2, <3>1, <3>2, <3>3, SameOwed
  <2> QED BY <2>3, <2>4
<1>2. ASSUME NEW d \in Reloaders, NEW os \in SUBSET Objects, Reload(d, os)
      PROVE  Lag'
  <2> SUFFICES ASSUME Clean', running', NEW o \in Objects
               PROVE  served'[o] = db'[o] \/ Owed(o)'
    BY DEF Lag
  <2>1. d \in Actors /\ pc[d] = "idle" /\ pc' = [pc EXCEPT ![d] = "check"]
    BY <1>2 DEF Reload, Goto, Actors
  <2>2. ids' = [ids EXCEPT ![d] = os] /\ UNCHANGED <<config, served, running, slot>>
    BY <1>2 DEF Reload
  <2>3. CASE o \in os
    <3>1. Holds(d, o)'
      BY <2>1, <2>2, <2>3 DEF Holds, TypeOK
    <3> QED BY <2>1, <3>1, OwedNextFacts
  <2>4. CASE o \notin os
    <3>1. db'[o] = db[o]
      BY <1>2, <2>4, CommitFacts DEF Reload
    <3>2. served[o] = db[o] \/ Owed(o)
      BY <1>2, <2>2, CleanBack DEF Reload, Lag
    <3>3. OnlyBy(d) /\ ~Holds(d, o)
      BY <2>1, <2>2 DEF OnlyBy, Holds, TypeOK
    <3> QED BY <2>1, <2>2, <3>1, <3>2, <3>3, SameOwed
  <2> QED BY <2>3, <2>4
<1>3. ASSUME NEW b \in Admins, RestartCore(b) PROVE Lag'
  <2>1. b \in Actors /\ pc[b] = "idle" /\ pc' = [pc EXCEPT ![b] = "enter"]
    BY <1>3 DEF RestartCore, Goto, Actors
  <2>2. UNCHANGED <<db, served, running, slot, ids, config>> /\ Observe
    BY <1>3 DEF RestartCore, core, local
  <2>3. OnlyBy(b) /\ \A o \in Objects : ~Holds(b, o)
    BY <2>1, <2>2 DEF OnlyBy, Holds, TypeOK
  <2> QED BY <2>1, <2>2, <2>3, CleanBack, SameLag
<1>4. ASSUME NEW b \in Actors, EnterSection(b) PROVE Lag'
  <2>1. /\ pc[b] = "enter" /\ slot = Free /\ slot' = b /\ Observe
        /\ pc' = [pc EXCEPT ![b] = IF b \in Savers THEN "apply" ELSE "stop"]
        /\ UNCHANGED <<db, served, running, ids, config>>
    BY <1>4 DEF EnterSection, Goto, core, local
  <2>2. CASE b \in Savers
    <3>1. OnlyBy(b) /\ \A o \in Objects : Holds(b, o) => Holds(b, o)'
      BY <2>1, <2>2 DEF OnlyBy, Holds, TypeOK
    <3> QED BY <2>1, <3>1, CleanBack, SameLag
  <2>3. CASE b \notin Savers
    BY <2>1, <2>3, StopOwes DEF TypeOK
  <2> QED BY <2>2, <2>3
<1>5. ASSUME NEW b \in Actors, Apply(b) PROVE Lag'
  <2>1. /\ pc[b] = "apply" /\ slot = b /\ Observe
        /\ UNCHANGED <<db, served, running, ids, slot>>
    BY <1>5 DEF Apply, core, Places
  <2>2. CASE ~running
    BY <2>1, <2>2 DEF Lag
  <2>3. CASE Goto(b, "stop")
    BY <2>1, <2>3, StopOwes DEF Goto, TypeOK
  <2>4. CASE ReadRows(b)
    <3>1. OnlyBy(b) /\ \A o \in Objects : Holds(b, o) => Holds(b, o)'
      BY <2>1, <2>4, ReadRowsHolds
    <3> QED BY <2>1, <3>1, CleanBack, SameLag
  <2> QED BY <1>5, <2>2, <2>3, <2>4 DEF Apply
<1>6. ASSUME NEW b \in Actors, StopCore(b) PROVE Lag'
  BY <1>6 DEF StopCore, Lag
<1>7. ASSUME NEW b \in Actors, StartCoreLocked(b) PROVE Lag'
  <2>1. /\ pc[b] = "start" /\ Observe /\ UNCHANGED <<db, served, running>>
        /\ \A o \in Objects : ~Holds(b, o)
    BY <1>7 DEF StartCoreLocked, core, Holds
  <2>2. CASE Return(b)
    BY <2>1, <2>2, ReturnUses, ReturnSlot, CleanBack, SameLag
  <2>3. CASE ~running
    BY <2>1, <2>3 DEF Lag
  <2> QED BY <1>7, <2>2, <2>3 DEF StartCoreLocked
<1>8. ASSUME NEW b \in Actors, GetConfig(b) PROVE Lag'
  <2>1. /\ pc[b] = "config" /\ Observe /\ UNCHANGED <<db, served, running>>
        /\ \A o \in Objects : ~Holds(b, o)
    BY <1>8 DEF GetConfig, core, Holds
  <2>2. CASE Return(b)
    BY <2>1, <2>2, ReturnUses, ReturnSlot, CleanBack, SameLag
  <2>3. ASSUME NEW p \in ids[b],
               config' = [config EXCEPT ![b][p] = db[p]],
               ids' = [ids EXCEPT ![b] = @ \ {p}],
               Goto(b, IF ids[b] = {p} THEN "launch" ELSE "config"),
               UNCHANGED slot
        PROVE  Lag'
    <3>1. OnlyBy(b)
      BY <2>3 DEF Goto, OnlyBy, TypeOK
    <3> QED BY <2>1, <2>3, <3>1, CleanBack, SameLag
  <2> QED BY <1>8, <2>2, <2>3 DEF GetConfig
<1>9. ASSUME NEW b \in Actors, CoreStart(b) PROVE Lag'
  <2>1. pc[b] = "launch" /\ UNCHANGED db /\ Observe /\ Return(b) /\ ids[b] = {}
    BY <1>9 DEF CoreStart, Places
  <2>2. OnlyBy(b) /\ \A o \in Objects : ~Holds(b, o)
    BY <2>1, ReturnUses DEF Holds
  <2>3. CASE UNCHANGED <<running, served>>
    BY <2>1, <2>2, <2>3, ReturnSlot, CleanBack, SameLag
  <2>4. CASE served' = config[b]
    <3> SUFFICES ASSUME Clean', NEW o \in Objects PROVE config[b][o] = db[o] \/ Owed(o)'
      BY <2>1, <2>4 DEF Lag
    <3>1. Uses(b, o) /\ Clean
      BY <2>1, CleanBack DEF Uses
    <3>2. config[b][o] = db[o] \/ Waiting(o)
      BY <3>1 DEF ReadsAreCurrent
    <3> QED BY <2>1, <2>2, <3>2, WaitingOwes
  <2> QED BY <1>9, <2>3, <2>4 DEF CoreStart
<1>10. ASSUME NEW b \in Actors, CheckRunning(b) PROVE Lag'
  <2>1. pc[b] = "check" /\ Observe /\ UNCHANGED <<db, served, running>>
    BY <1>10 DEF CheckRunning, core
  <2>2. CASE ~running
    BY <2>1, <2>2 DEF Lag
  <2>3. CASE ReadRows(b) /\ UNCHANGED <<ids, slot>>
    <3>1. OnlyBy(b) /\ \A o \in Objects : Holds(b, o) => Holds(b, o)'
      BY <2>1, <2>3, ReadRowsHolds
    <3> QED BY <2>1, <2>3, <3>1, CleanBack, SameLag
  <2> QED BY <1>10, <2>2, <2>3 DEF CheckRunning
<1>11. ASSUME NEW b \in Actors, pc[b] \in {"hot", "add"}, ReloadFails(b) PROVE Lag'
  <2>1. CASE b \in Savers
    <3>1. pc'[b] = "stop" /\ slot' = slot
      BY <1>11, <2>1 DEF ReloadFails, Goto, TypeOK
    <3>2. slot = b
      BY <1>11, <2>1 DEF Places, Managed
    <3> QED BY <3>1, <3>2, StopOwes
  <2>2. CASE b \notin Savers
    BY <1>11, <2>2 DEF ReloadFails, Lag, Clean
  <2> QED BY <2>1, <2>2
<1>12. ASSUME NEW b \in Actors, HotRemove(b) PROVE Lag'
  <2>1. pc[b] = "hot" /\ UNCHANGED <<db, running>>
    BY <1>12 DEF HotRemove
  <2>2. CASE ReloadFails(b)
    BY <1>11, <2>1, <2>2
  <2>3. ASSUME NEW p \in ids[b], served' = [served EXCEPT ![p] = Absent],
               pc' = [pc EXCEPT ![b] = "read"], Observe, UNCHANGED <<slot, ids, config>>
        PROVE  Lag'
    <3>1. OnlyBy(b) /\ \A o \in Objects : Holds(b, o) => Holds(b, o)'
      BY <2>1, <2>3 DEF OnlyBy, Holds, TypeOK
    <3>2. Holds(b, p)'
      BY <2>1, <2>3 DEF Holds, Places, Managed, Actors, TypeOK
    <3> SUFFICES ASSUME Clean', running', NEW o \in Objects
                 PROVE  served'[o] = db[o] \/ Owed(o)'
      BY <2>1 DEF Lag
    <3>3. CASE o = p
      BY <3>2, <3>3, OwedNextFacts
    <3>4. CASE o # p
      <4>1. served'[o] = served[o] /\ (served[o] = db[o] \/ Owed(o))
        BY <2>1, <2>3, <3>4, CleanBack DEF Lag, TypeOK
      <4> QED BY <2>1, <2>3, <3>1, <4>1, SameOwed
    <3> QED BY <3>3, <3>4
  <2> QED BY <1>12, <2>2, <2>3 DEF HotRemove, Goto
<1>13. ASSUME NEW b \in Actors, HotRead(b) PROVE Lag'
  <2>1. /\ pc[b] = "read" /\ pc' = [pc EXCEPT ![b] = "add"] /\ Observe
        /\ UNCHANGED <<db, served, running, ids, slot>>
    BY <1>13 DEF HotRead, Goto, core
  <2>2. PICK v \in {config[b][object[b]], db[object[b]]} :
            config' = [config EXCEPT ![b][object[b]] = v]
    BY <1>13 DEF HotRead
  <2>3. OnlyBy(b) /\ \A o \in Objects : Holds(b, o) => Holds(b, o)'
    BY <2>1, <2>2 DEF OnlyBy, Holds, TypeOK
  <2> QED BY <2>1, <2>3, CleanBack, SameLag
<1>14. ASSUME NEW b \in Actors, HotAdd(b) PROVE Lag'
  <2>1. pc[b] = "add" /\ UNCHANGED <<db, running>> /\ object[b] \in ids[b] /\ object[b] \in Objects
    BY <1>14 DEF HotAdd, Places, TypeOK
  <2>2. CASE ReloadFails(b)
    BY <1>11, <2>1, <2>2
  <2>3. ASSUME Observe, served' = [served EXCEPT ![object[b]] = config[b][object[b]]],
               OnlyBy(b), slot' = slot \/ slot \in {b, Free},
               \A o \in Objects \ {object[b]} : Holds(b, o) => Holds(b, o)'
        PROVE  Lag'
    <3> SUFFICES ASSUME Clean', running', NEW o \in Objects
                 PROVE  served'[o] = db[o] \/ Owed(o)'
      BY <2>1 DEF Lag
    <3>1. CASE o = object[b]
      <4>1. Uses(b, o) /\ Clean
        BY <2>1, <2>3, <3>1, CleanBack DEF Uses
      <4>2. config[b][o] = db[o] \/ Waiting(o)
        BY <4>1 DEF ReadsAreCurrent
      <4>3. served'[o] = config[b][o]
        BY <2>1, <2>3, <3>1 DEF TypeOK
      <4> QED BY <2>1, <2>3, <4>2, <4>3, WaitingOwes
    <3>2. CASE o # object[b]
      <4>1. served'[o] = served[o] /\ (served[o] = db[o] \/ Owed(o))
        BY <2>1, <2>3, <3>2, CleanBack DEF Lag, TypeOK
      <4> QED BY <2>1, <2>3, <3>2, <4>1, SameOwed
    <3> QED BY <3>1, <3>2
  <2>4. CASE /\ Observe /\ served' = [served EXCEPT ![object[b]] = config[b][object[b]]]
             /\ ids[b] = {object[b]} /\ Return(b)
    <3>1. \A o \in Objects \ {object[b]} : ~Holds(b, o)
      BY <2>4 DEF Holds
    <3> QED BY <2>3, <2>4, <3>1, ReturnUses, ReturnSlot
  <2>5. CASE /\ Observe /\ served' = [served EXCEPT ![object[b]] = config[b][object[b]]]
             /\ ids' = [ids EXCEPT ![b] = @ \ {object[b]}]
             /\ pc' = [pc EXCEPT ![b] = "hot"] /\ UNCHANGED <<slot, config>>
    <3>1. OnlyBy(b) /\ \A o \in Objects \ {object[b]} : Holds(b, o) => Holds(b, o)'
      BY <2>1, <2>5 DEF OnlyBy, Holds, TypeOK
    <3> QED BY <2>3, <2>5, <3>1
  <2> QED BY <1>14, <2>2, <2>4, <2>5 DEF HotAdd, Goto
<1>15. CASE CronTick
  <2>1. /\ Cron \in Actors /\ pc[Cron] = "idle" /\ pc' = [pc EXCEPT ![Cron] = "start"]
        /\ slot = Free
    BY <1>15 DEF CronTick, Goto, Actors
  <2>2. UNCHANGED <<db, served, running, ids, config>> /\ Observe
    BY <1>15 DEF CronTick, core, local
  <2>3. OnlyBy(Cron) /\ \A o \in Objects : ~Holds(Cron, o)
    BY <2>1, <2>2 DEF OnlyBy, Holds, TypeOK
  <2> QED BY <2>1, <2>2, <2>3, CleanBack, SameLag
<1>16. CASE CooldownEnds
  <2>1. UNCHANGED <<db, served, running, slot, pc, ids>> /\ (Clean' => Clean)
    BY <1>16, CleanBack DEF CooldownEnds, local
  <2> QED BY <2>1 DEF Lag, Owed
<1>17. CASE UNCHANGED vars
  BY <1>17 DEF vars, core, local, Lag, Owed, Clean, Overlap, Reloading
<1> QED
  BY <1>1, <1>2, <1>3, <1>4, <1>5, <1>6, <1>7, <1>8, <1>9, <1>10, <1>12, <1>13, <1>14,
     <1>15, <1>16, <1>17 DEF Next, Step, Actors

-----------------------------------------------------------------------------
\* The invariant holds in every reachable state.
LEMMA Invariance == Spec => []Inv
<1>1. Inv /\ [Next]_vars => Inv'
  BY NextTypes, NextPlaces, NextReads, NextLag DEF Inv
<1> QED BY <1>1, InitInv, PTL DEF Spec

\* Every variable keeps to its type: the core and the plans of the actors hold
\* versions of objects, whatever order their reads and their failures come in.
THEOREM TypeCorrect == Spec => []TypeOK
  BY Invariance, PTL DEF Inv

\* For any objects, savers, administrators and reloaders, as long as no reload
\* outside the restart manager has met a section, another reload or a failure, a
\* running core differs from the database only where a save, a reload or a
\* restart under way is going to bring it up to date (service/config.go,
\* service/coresync.go, core/main.go).
THEOREM LagIsAlwaysOwed == Spec => []LagIsOwed
<1>1. Inv => LagIsOwed
  BY DEF Inv, Lag, Clean, LagIsOwed
<1> QED BY <1>1, Invariance, PTL
=============================================================================

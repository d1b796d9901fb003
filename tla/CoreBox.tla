------------------------------- MODULE CoreBox -------------------------------
(***************************************************************************)
(* The life of the sing-box instance inside the core (core/main.go,        *)
(* core/box.go, core/endpoint.go, core/validate.go): NewBox creates the    *)
(* managers and registers them in the core's context, Start takes every    *)
(* part through the stages, a failure or Stop closes them, and the hot     *)
(* reloads work on the live managers under the read lock of Core.access.   *)
(*                                                                         *)
(* The caller of Start and Stop holds the restart manager's slot, so there *)
(* is one of them; the hot reloads of the deplete job and of the paid      *)
(* orders do not.                                                          *)
(***************************************************************************)
EXTENDS Naturals, Sequences

CONSTANTS
    Reloaders,      \* goroutines that call AddInbound, RemoveInbound, ...
    LateServices,   \* the optional services that NewBox creates last: the cache
                    \* file, the Clash and V2Ray servers, the clock
    MaxBoxes,       \* bound on the boxes built
    MaxBoxFaults    \* bound on the parts that fail to be built or started


\* The parts of a box.  "internal" stands for its list of optional services,
\* which is started and closed as one: the certificate store, created before
\* the managers, and the services created after them.  A box has any of them.
Accepting == {"inbound", "endpoint", "service"}
Carrying  == {"network", "connection", "router", "outbound", "dns", "dnsRouter"}
Managers  == Accepting \cup Carrying
Parts     == Managers \cup {"logger", "internal"}
Services  == {"certificates"} \cup LateServices

ASSUME CoreBoxAssumption ==
    /\ MaxBoxes \in Nat /\ MaxBoxFaults \in Nat
    /\ Services \cap Parts = {}

Open   == {"initialize", "start", "postStart", "started"}
Serving == Open \ {"initialize"}

VARIABLES
    cbPc,           \* what the holder of the slot does
    cbStep,         \* steps of the start or of the close already made
    cbBox,          \* the box it works on, or that runs; 0 for none
    cbHas,          \* the optional services of that box
    cbStage,        \* how far each part of that box is
    cbRunning,      \* Core.isRunning with Core.instance
    cbRegistered,   \* the box whose manager or service the core's context yields
    cbReaders,      \* goroutines inside withRuntime
    cbBuilt,        \* boxes built so far
    cbFaults

cbVars == <<cbPc, cbStep, cbBox, cbHas, cbStage, cbRunning, cbRegistered, cbReaders,
            cbBuilt, cbFaults>>

CBTypeOK ==
    /\ cbPc \in {"idle", "start", "close", "lock"}
    /\ cbStep \in 0..64
    /\ {cbBox, cbBuilt} \subseteq 0..MaxBoxes
    /\ cbHas \subseteq Services
    /\ cbStage \in [Parts -> {"none", "created", "closed"} \cup Open]
    /\ cbRunning \in BOOLEAN
    /\ cbRegistered \in [Managers \cup Services -> 0..MaxBoxes]
    /\ cbReaders \subseteq Reloaders
    /\ cbFaults \in 0..MaxBoxFaults

CBInit ==
    /\ cbPc = "idle"
    /\ cbStep = 0
    /\ cbBox = 0
    /\ cbHas = {}
    /\ cbStage = [p \in Parts |-> "none"]
    /\ cbRunning = FALSE
    /\ cbRegistered = [p \in Managers \cup Services |-> 0]
    /\ cbReaders = {}
    /\ cbBuilt = 0
    /\ cbFaults = 0

-----------------------------------------------------------------------------
(* Building.  *)

\* NewBox puts what it creates into the context it is given, in the place of
\* what an earlier box has put there, and takes nothing out of it.
CBRegister(box, created) ==
    [p \in Managers \cup Services |-> IF p \in created THEN box ELSE cbRegistered[p]]

\* Core.Start: the configuration is parsed and the box built, with the optional
\* services the configuration asks for.
CBNewBox(has) ==
    /\ cbPc = "idle" /\ ~cbRunning /\ cbBuilt < MaxBoxes
    /\ cbBuilt' = cbBuilt + 1
    /\ cbBox' = cbBuilt + 1
    /\ cbHas' = has
    /\ cbStage' = [p \in Parts |-> IF p = "internal" /\ has = {} THEN "none" ELSE "created"]
    /\ cbRegistered' = CBRegister(cbBuilt + 1, Managers \cup has)
    /\ cbPc' = "start"
    /\ cbStep' = 0
    /\ UNCHANGED <<cbRunning, cbReaders, cbFaults>>

CBRegisterOrder == <<"endpoint", "inbound", "outbound", "dns", "service",
                     "dnsRouter", "network", "connection", "router">>

\* NewBox fails at one of its objects: what it has registered until then stays
\* in the context, nothing was started and nothing is closed.
CBNewBoxFails ==
    /\ cbPc = "idle" /\ ~cbRunning
    /\ cbBuilt < MaxBoxes /\ cbFaults < MaxBoxFaults
    /\ cbBuilt' = cbBuilt + 1
    /\ cbFaults' = cbFaults + 1
    /\ \E n \in 0..Len(CBRegisterOrder), has \in SUBSET Services :
          /\ n < Len(CBRegisterOrder) => has \subseteq {"certificates"}
          /\ cbRegistered' = CBRegister(cbBuilt + 1, has \cup {CBRegisterOrder[i] : i \in 1..n})
    /\ UNCHANGED <<cbPc, cbStep, cbBox, cbHas, cbStage, cbRunning, cbReaders>>

\* ValidateConfig builds a box in a context of its own and closes it.
CBValidate ==
    /\ cbBuilt < MaxBoxes
    /\ cbBuilt' = cbBuilt + 1
    /\ UNCHANGED <<cbPc, cbStep, cbBox, cbHas, cbStage, cbRunning, cbRegistered, cbReaders, cbFaults>>

-----------------------------------------------------------------------------
(* Starting.  *)

CBAt(stage, parts) == [i \in 1..Len(parts) |-> <<parts[i], stage>>]

CBAll == <<"network", "dns", "dnsRouter", "connection", "router", "outbound",
           "inbound", "endpoint", "service">>

\* Box.preStart, then the rest of Box.start.
CBPreStart ==
       << <<"logger", "started">> >>
    \o CBAt("initialize", <<"internal">>)
    \o CBAt("initialize", CBAll)
    \o CBAt("start", <<"outbound", "dns", "dnsRouter", "network", "connection", "router">>)

CBStartOrder ==
       CBPreStart
    \o CBAt("start", <<"internal">>)
    \o CBAt("start", <<"inbound", "endpoint", "service">>)
    \o CBAt("postStart", <<"outbound", "network", "dns", "dnsRouter", "connection",
                           "router", "inbound", "endpoint", "service">>)
    \o CBAt("postStart", <<"internal">>)
    \o CBAt("started", CBAll)
    \o CBAt("started", <<"internal">>)

\* One part takes its next stage; a part the box does not have is skipped.
CBStartPart ==
    /\ cbPc = "start" /\ cbStep < Len(CBStartOrder)
    /\ LET part == CBStartOrder[cbStep + 1][1]
           to   == CBStartOrder[cbStep + 1][2]
       IN  cbStage' = [cbStage EXCEPT ![part] = IF @ = "none" THEN @ ELSE to]
    /\ cbStep' = cbStep + 1
    /\ UNCHANGED <<cbPc, cbBox, cbHas, cbRunning, cbRegistered, cbReaders, cbBuilt, cbFaults>>

\* The part fails: it may hold what it opened.  Start closes the box.
CBStartFails ==
    /\ cbPc = "start" /\ cbStep < Len(CBStartOrder) /\ cbFaults < MaxBoxFaults
    /\ LET part == CBStartOrder[cbStep + 1][1]
           to   == CBStartOrder[cbStep + 1][2]
       IN  /\ cbStage[part] # "none"
           /\ cbStage' = [cbStage EXCEPT ![part] = to]
    /\ cbFaults' = cbFaults + 1
    /\ cbPc' = "close"
    /\ cbStep' = 0
    /\ UNCHANGED <<cbBox, cbHas, cbRunning, cbRegistered, cbReaders, cbBuilt>>

\* Core.Start publishes the box and its managers, under the write lock.
CBPublish ==
    /\ cbPc = "start" /\ cbStep = Len(CBStartOrder)
    /\ cbReaders = {}
    /\ cbRunning' = TRUE
    /\ cbPc' = "idle"
    /\ UNCHANGED <<cbStep, cbBox, cbHas, cbStage, cbRegistered, cbReaders, cbBuilt, cbFaults>>

-----------------------------------------------------------------------------
(* Stopping.  *)

\* Core.Stop asks for the write lock: from here no reader enters.
CBStop ==
    /\ cbPc = "idle" /\ cbRunning
    /\ cbPc' = "lock"
    /\ UNCHANGED <<cbStep, cbBox, cbHas, cbStage, cbRunning, cbRegistered, cbReaders, cbBuilt, cbFaults>>

\* It takes the instance without waiting for them: a wrong CBDetach.
CBDetachUnlocked ==
    /\ cbPc = "lock"
    /\ cbRunning' = FALSE
    /\ cbPc' = "close"
    /\ cbStep' = 0
    /\ UNCHANGED <<cbBox, cbHas, cbStage, cbRegistered, cbReaders, cbBuilt, cbFaults>>

\* It takes the instance once the readers have left.
CBDetach ==
    /\ cbPc = "lock" /\ cbReaders = {}
    /\ cbRunning' = FALSE
    /\ cbPc' = "close"
    /\ cbStep' = 0
    /\ UNCHANGED <<cbBox, cbHas, cbStage, cbRegistered, cbReaders, cbBuilt, cbFaults>>

\* Box.Close takes the parts in this order, and goes on when one returns an
\* error or panics.
CBCloseOrder == <<"service", "endpoint", "inbound", "outbound", "router",
                  "connection", "dnsRouter", "dns", "network", "internal", "logger">>

CBClosePart ==
    /\ cbPc = "close" /\ cbStep < Len(CBCloseOrder)
    /\ cbStage' = [cbStage EXCEPT ![CBCloseOrder[cbStep + 1]] =
                     IF @ = "none" THEN @ ELSE "closed"]
    /\ cbStep' = cbStep + 1
    /\ UNCHANGED <<cbPc, cbBox, cbHas, cbRunning, cbRegistered, cbReaders, cbBuilt, cbFaults>>

\* The trackers are reset and the box is forgotten.
CBClosed ==
    /\ cbPc = "close" /\ cbStep = Len(CBCloseOrder)
    /\ cbPc' = "idle"
    /\ cbBox' = 0
    /\ UNCHANGED <<cbStep, cbHas, cbStage, cbRunning, cbRegistered, cbReaders, cbBuilt, cbFaults>>

-----------------------------------------------------------------------------
(* Hot reloads.  *)

\* withRuntime takes the read lock for the whole call, unless a writer waits,
\* and gives up when no box runs.
CBEnter(r) ==
    /\ r \notin cbReaders
    /\ cbPc # "lock" /\ cbRunning
    /\ cbReaders' = cbReaders \cup {r}
    /\ UNCHANGED <<cbPc, cbStep, cbBox, cbHas, cbStage, cbRunning, cbRegistered, cbBuilt, cbFaults>>

\* The manager has created or removed its object.
CBLeave(r) ==
    /\ r \in cbReaders
    /\ cbReaders' = cbReaders \ {r}
    /\ UNCHANGED <<cbPc, cbStep, cbBox, cbHas, cbStage, cbRunning, cbRegistered, cbBuilt, cbFaults>>

CBNext ==
    \/ \E has \in SUBSET Services : CBNewBox(has)
    \/ CBNewBoxFails
    \/ CBValidate
    \/ CBStartPart
    \/ CBStartFails
    \/ CBPublish
    \/ CBStop
    \/ CBDetach
    \/ CBClosePart
    \/ CBClosed
    \/ \E r \in Reloaders : CBEnter(r) \/ CBLeave(r)

CBSpec == CBInit /\ [][CBNext]_cbVars

-----------------------------------------------------------------------------
\* Whatever stage a start fails at and wherever a close is, a part that accepts
\* traffic is served: the router, the outbounds, the DNS and the network it
\* sends it through were started before it and are closed after it.
CBTrafficIsCarried ==
    \A p \in Accepting : cbStage[p] \in Serving =>
        \A q \in Carrying : cbStage[q] \in Serving

\* A hot reload works on managers of the running box, none of which is closed.
CBReloadsMeetLiveParts ==
    cbReaders # {} => cbRunning /\ \A p \in Managers : cbStage[p] = "started"

\* A core that does not run leaves nothing open: not a listener, not a device,
\* not the log file, wherever its last start failed.
CBStoppedIsClosed ==
    cbPc = "idle" /\ ~cbRunning => \A p \in Parts : cbStage[p] \notin Open

\* What the parts of the running box find in the context are the managers and
\* the services of that box, whatever boxes were built, failed or validated
\* before and since.  Of a service the box does not have they find what an
\* earlier box has left there, which CBStoppedIsClosed had closed.
CBContextIsOwn ==
    cbRunning => /\ \A p \in Managers \cup cbHas : cbRegistered[p] = cbBox
                 /\ \A p \in Services \ cbHas : cbRegistered[p] < cbBox

\* The core's box is whole while it runs and gone when it does not.
CBBoxIsWhole ==
    /\ CBTypeOK
    /\ CBTrafficIsCarried
    /\ CBReloadsMeetLiveParts
    /\ CBStoppedIsClosed
    /\ CBContextIsOwn
=============================================================================

----------------------------- MODULE AuditWriter -----------------------------
(***************************************************************************)
(* The asynchronous audit writer (service/audit_writer.go): producers push *)
(* events into a bounded queue, one goroutine pops them in batches, writes *)
(* them and drains the queue when it is stopped.                           *)
(*                                                                         *)
(* The queue is guarded by a mutex; notify is a channel of capacity one    *)
(* that is sent to and received from without blocking while the mutex is   *)
(* held, or outside of it.  An event is its severity and the position of   *)
(* its push.                                                               *)
(***************************************************************************)
EXTENDS Naturals, Sequences, FiniteSets

CONSTANTS
    Producers,      \* goroutines that call Enqueue
    Capacity,       \* capacity of the queue
    BatchSize,
    Threshold,      \* auditDropMarkerThreshold
    MaxEvents,      \* bound on the calls of Enqueue
    MaxErrors       \* bound on failed writes

ASSUME AuditAssumption ==
    /\ {Capacity, BatchSize, Threshold} \subseteq Nat \ {0}
    /\ {MaxEvents, MaxErrors} \subseteq Nat

Severities == {"info", "warn"}
Event      == [sev : Severities, at : Nat]

VARIABLES
    queue, notify, started, stopped,
    batch,      \* what run has popped and not yet written
    runPc,      \* where run is
    written,    \* what the database has, in the order of the inserts
    dropped,    \* overflow victims; auditDroppedTotal counts them
    lost,       \* events of batches whose insert failed
    pushes,     \* pushes so far
    base,       \* auditDropMarkerBase
    recent,     \* the last marker is younger than the window
    pc, sev,    \* a producer: where it is, the event it pushes
    seen,       \* the total it loaded in maybeEmitDropMarker
    calls, errors

writer   == <<batch, runPc, written, lost, errors>>
marker   == <<base, recent>>
producer == <<pc, sev, seen, calls>>
vars     == <<queue, notify, started, stopped, writer, dropped, pushes, marker,
              producer>>

TypeOK ==
    /\ queue \in Seq(Event) /\ batch \in Seq(Event) /\ written \in Seq(Event)
    /\ notify \in BOOLEAN /\ started \in BOOLEAN /\ stopped \in BOOLEAN
    /\ runPc \in {"none", "run", "wait", "fill", "select", "write", "drain",
                  "flush", "done"}
    /\ dropped \subseteq Event /\ lost \subseteq Event
    /\ pushes \in Nat /\ base \in Nat /\ recent \in BOOLEAN
    /\ pc \in [Producers -> {"idle", "push", "load", "check", "mark"}]
    /\ sev \in [Producers -> Severities] /\ seen \in [Producers -> Nat]

Init ==
    /\ queue = <<>> /\ notify = FALSE /\ started = FALSE /\ stopped = FALSE
    /\ batch = <<>> /\ runPc = "none" /\ written = <<>>
    /\ dropped = {} /\ lost = {} /\ pushes = 0
    /\ base = 0 /\ recent = FALSE
    /\ pc = [p \in Producers |-> "idle"]
    /\ sev = [p \in Producers |-> "info"]
    /\ seen = [p \in Producers |-> 0]
    /\ calls = 0 /\ errors = 0

SeqRange(s) == {s[i] : i \in 1..Len(s)}

----------------------------------------------------------------------------

\* Start, from Enqueue: the first event starts run, a stopped writer takes none.
Start(p, s) ==
    /\ pc[p] = "idle"
    /\ calls < MaxEvents /\ calls' = calls + 1
    /\ IF stopped
       THEN UNCHANGED <<started, runPc, pc, sev>>
       ELSE /\ started' = TRUE
            /\ runPc' = IF started THEN runPc ELSE "run"
            /\ pc' = [pc EXCEPT ![p] = "push"]
            /\ sev' = [sev EXCEPT ![p] = s]
    /\ UNCHANGED <<queue, notify, stopped, batch, written, lost, errors, dropped,
                   pushes, marker, seen>>

Low == {i \in 1..Len(queue) : queue[i].sev = "info"}

\* Variant: the oldest event is the victim, whatever it is.
VictimOldest(e) == IF Low = {} /\ e.sev = "info" THEN 0 ELSE 1

\* auditOverflowVictimIndex: the oldest event of low priority, else the new one
\* if it is of low priority itself, else the oldest.
Victim(e) ==
    IF Low # {} THEN CHOOSE i \in Low : \A j \in Low : i <= j
    ELSE IF e.sev = "info" THEN 0 ELSE 1

Without(q, i) == SubSeq(q, 1, i - 1) \o SubSeq(q, i + 1, Len(q))

\* push, of an event or of a marker.
Push(s) ==
    LET e == [sev |-> s, at |-> pushes + 1] IN
    IF stopped
    THEN UNCHANGED <<queue, notify, dropped, pushes>>
    ELSE /\ pushes' = pushes + 1
         /\ notify' = TRUE
         /\ IF Len(queue) < Capacity
            THEN queue' = Append(queue, e) /\ UNCHANGED dropped
            ELSE IF Victim(e) = 0
            THEN dropped' = dropped \cup {e} /\ UNCHANGED queue
            ELSE /\ queue' = Append(Without(queue, Victim(e)), e)
                 /\ dropped' = dropped \cup {queue[Victim(e)]}

PushEvent(p) ==
    /\ pc[p] = "push"
    /\ Push(sev[p])
    /\ pc' = [pc EXCEPT ![p] = "load"]
    /\ sev' = [sev EXCEPT ![p] = "info"]
    /\ UNCHANGED <<started, stopped, writer, marker, seen, calls>>

\* maybeEmitDropMarker loads the total before it takes the marker's mutex ...
LoadTotal(p) ==
    /\ pc[p] = "load"
    /\ seen' = [seen EXCEPT ![p] = Cardinality(dropped)]
    /\ pc' = [pc EXCEPT ![p] = "check"]
    /\ UNCHANGED <<queue, notify, started, stopped, writer, dropped, pushes, marker,
                   sev, calls>>

\* ... and subtracts the base as unsigned integers: a base that has moved past
\* the loaded total is a huge difference.
CheckThreshold(p) ==
    /\ pc[p] = "check"
    /\ IF recent \/ (seen[p] >= base /\ seen[p] - base < Threshold)
       THEN pc' = [pc EXCEPT ![p] = "idle"] /\ UNCHANGED marker
       ELSE /\ base' = seen[p] /\ recent' = TRUE
            /\ pc' = [pc EXCEPT ![p] = "mark"]
    /\ seen' = [seen EXCEPT ![p] = 0]
    /\ UNCHANGED <<queue, notify, started, stopped, writer, dropped, pushes, sev,
                   calls>>

PushMarker(p) ==
    /\ pc[p] = "mark"
    /\ Push("warn")
    /\ pc' = [pc EXCEPT ![p] = "idle"]
    /\ UNCHANGED <<started, stopped, writer, marker, sev, seen, calls>>

WindowElapses ==
    /\ recent
    /\ recent' = FALSE
    /\ UNCHANGED <<queue, notify, started, stopped, writer, dropped, pushes, base,
                   producer>>

\* Stop up to its wait: a writer that never started has nothing to drain.
Stop ==
    /\ ~stopped
    /\ stopped' = TRUE
    /\ UNCHANGED <<queue, notify, started, writer, dropped, pushes, marker, producer>>

----------------------------------------------------------------------------

\* popBatch moves up to n events from the queue into the batch.
PopBatch(n) ==
    LET k == IF n < Len(queue) THEN n ELSE Len(queue) IN
    /\ batch' = batch \o SubSeq(queue, 1, k)
    /\ queue' = SubSeq(queue, k + 1, Len(queue))

RunStep(from, to) == runPc = from /\ runPc' = to
Elsewhere == UNCHANGED <<started, stopped, dropped, pushes, marker, producer>>

Pop ==
    /\ RunStep("run", IF queue = <<>> THEN "wait" ELSE "fill")
    /\ PopBatch(BatchSize)
    /\ UNCHANGED <<notify, written, lost, errors>> /\ Elsewhere

\* The select of an idle writer, and the one of a batch that is not full: the
\* latter also ends when the flush timer fires.
Wake(from, to) ==
    /\ RunStep(from, to)
    /\ notify /\ notify' = FALSE
    /\ UNCHANGED <<queue, batch, written, lost, errors>> /\ Elsewhere

Stopping(from, to) ==
    /\ RunStep(from, to)
    /\ stopped
    /\ UNCHANGED <<queue, notify, batch, written, lost, errors>> /\ Elsewhere

Fill ==
    /\ IF Len(batch) < BatchSize
       THEN /\ RunStep("fill", IF queue = <<>> THEN "select" ELSE "fill")
            /\ PopBatch(BatchSize - Len(batch))
       ELSE RunStep("fill", "write") /\ UNCHANGED <<batch, queue>>
    /\ UNCHANGED <<notify, written, lost, errors>> /\ Elsewhere

FlushTimer ==
    /\ RunStep("select", "write")
    /\ UNCHANGED <<queue, notify, batch, written, lost, errors>> /\ Elsewhere

\* writeBatch: a failed insert is only logged.
WriteBatch(from, to) ==
    /\ RunStep(from, to)
    /\ batch' = <<>>
    /\ \/ written' = written \o batch /\ UNCHANGED <<lost, errors>>
       \/ /\ errors < MaxErrors /\ errors' = errors + 1
          /\ lost' = lost \cup SeqRange(batch)
          /\ UNCHANGED written
    /\ UNCHANGED <<queue, notify>> /\ Elsewhere

\* flushRemaining.
Drain ==
    /\ RunStep("drain", IF queue = <<>> THEN "done" ELSE "flush")
    /\ PopBatch(BatchSize)
    /\ UNCHANGED <<notify, written, lost, errors>> /\ Elsewhere

Run ==
    \/ Pop \/ Fill \/ FlushTimer \/ Drain
    \/ Wake("wait", "run") \/ Wake("select", "fill")
    \/ Stopping("wait", "drain") \/ Stopping("select", "flush")
    \/ WriteBatch("write", "run") \/ WriteBatch("flush", "drain")

Produce(p) == PushEvent(p) \/ LoadTotal(p) \/ CheckThreshold(p) \/ PushMarker(p)

Next ==
    \/ \E p \in Producers, s \in Severities : Start(p, s)
    \/ \E p \in Producers : Produce(p)
    \/ WindowElapses
    \/ Stop
    \/ Run

Spec == Init /\ [][Next]_vars

\* The writer's goroutine runs; nothing is assumed of the producers.
FairSpec == Spec /\ WF_vars(Run)

----------------------------------------------------------------------------

\* The writer never sleeps next to a queued event: there is a signal in notify,
\* or stopCh is closed, whichever way the non-blocking sends and the pops fell.
NoLostSignal ==
    runPc \in {"wait", "select"} /\ queue # <<>> => notify \/ stopped

Flow == written \o batch \o queue

\* Every event a push accepted is in exactly one place: written, in the batch,
\* queued, an overflow victim or in a batch whose insert failed; and what is
\* not dropped stays in the order of the pushes.
EventsConserved ==
    /\ \A i, j \in 1..Len(Flow) : i < j => Flow[i].at < Flow[j].at
    /\ Len(Flow) + Cardinality(dropped) + Cardinality(lost) = pushes
    /\ Cardinality({e.at : e \in SeqRange(Flow) \cup dropped \cup lost}) = pushes

\* A warning is only dropped in favour of another one, out of a queue that
\* holds nothing but warnings.
WarningsOutliveInfo ==
    [][\A e \in dropped' \ dropped :
            e.sev = "warn" => Low = {} /\ queue'[Len(queue')].sev = "warn"]_vars

\* A writer that has stopped left nothing behind, a push that raced with Stop
\* included.
StopDrains ==
    runPc = "done" => queue = <<>> /\ batch = <<>>

\* Every queued event is written (or its loss logged), without another Enqueue
\* to push it along.
QueueEmpties == queue # <<>> \/ batch # <<>> ~> queue = <<>> /\ batch = <<>>

\* An accepted event is written, or given up for a reason: it was a victim of
\* overflow that the policy allows, or its insert failed.
AuditIsKept ==
    /\ []TypeOK
    /\ []NoLostSignal
    /\ []EventsConserved
    /\ []StopDrains
    /\ WarningsOutliveInfo
=============================================================================

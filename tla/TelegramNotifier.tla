--------------------------- MODULE TelegramNotifier ---------------------------
(***************************************************************************)
(* The notifier of the administrator's Telegram chat (service/telegram.go, *)
(* service/runtime.go): handlers and jobs queue a message, one goroutine   *)
(* per notifier sends it, with a back-off between attempts.  A full queue  *)
(* drops its oldest message and reports the loss in the audit log.  Stop   *)
(* waits for the goroutine for a while, then puts a new notifier in place  *)
(* of the old one, whose goroutine may still be sending.                   *)
(*                                                                         *)
(* A message is its number in the order the queues accepted them.          *)
(***************************************************************************)
EXTENDS Naturals, Sequences

CONSTANTS
    Notifying,      \* goroutines that notify
    Notifiers,      \* bound on the notifiers of a process: 1..Notifiers
    QueueLimit,     \* telegramQueueCapacity
    Backoffs,       \* the length of the back-off schedule
    MaxMessages     \* bound on accepted messages

ASSUME NotifierAssumption ==
    {Notifiers, QueueLimit, Backoffs, MaxMessages} \subseteq Nat \ {0}

Boxes == 1..Notifiers
Messages == 1..MaxMessages

VARIABLES
    tnCurrent,      \* Runtime.telegramNotifier
    tnQueue,        \* n.queue
    tnStarted, tnStopped,
    tnDone,         \* n.done is closed
    tnRun,          \* run: asleep in cond.Wait, awake, sending, backing off, reporting
    tnJob, tnTries, \* the message run has in hand, the attempts it has made
    tnCall,         \* a notifying goroutine: where it is in Enqueue
    tnBox,          \* and the notifier it has read
    tnOwed,         \* and the dropped message it has yet to report
    tnStopper,      \* StopTelegramNotifier: the notifier it waits for, 0 for none
    tnFate,         \* a message: where it ended
    tnNext          \* the messages accepted so far

tnSide  == <<tnStarted, tnStopped>>
tnSend  == <<tnRun, tnJob, tnTries>>
tnCalls == <<tnCall, tnBox, tnOwed>>
tnVars  == <<tnCurrent, tnQueue, tnSide, tnDone, tnSend, tnCalls, tnStopper,
             tnFate, tnNext>>

TNFates == {"none", "open", "sent", "failed", "overflow", "abandoned"}

TNTypeOK ==
    /\ tnCurrent \in Boxes /\ tnStopper \in Boxes \cup {0}
    /\ \A b \in Boxes : Len(tnQueue[b]) <= QueueLimit
    /\ {tnStarted, tnStopped, tnDone} \subseteq [Boxes -> BOOLEAN]
    /\ tnRun \in [Boxes -> {"none", "asleep", "awake", "send", "backoff", "report"}]
    /\ tnJob \in [Boxes -> Messages \cup {0}] /\ tnTries \in [Boxes -> 0..(Backoffs + 1)]
    /\ tnCall \in [Notifying -> {"idle", "start", "push", "audit"}]
    /\ tnBox \in [Notifying -> Boxes] /\ tnOwed \in [Notifying -> Messages \cup {0}]
    /\ tnFate \in [Messages -> TNFates] /\ tnNext \in 0..MaxMessages

TNInit ==
    /\ tnCurrent = 1 /\ tnQueue = [b \in Boxes |-> <<>>]
    /\ tnStarted = [b \in Boxes |-> FALSE] /\ tnStopped = [b \in Boxes |-> FALSE]
    /\ tnDone = [b \in Boxes |-> FALSE] /\ tnRun = [b \in Boxes |-> "none"]
    /\ tnJob = [b \in Boxes |-> 0] /\ tnTries = [b \in Boxes |-> 0]
    /\ tnCall = [c \in Notifying |-> "idle"] /\ tnBox = [c \in Notifying |-> 1]
    /\ tnOwed = [c \in Notifying |-> 0] /\ tnStopper = 0
    /\ tnFate = [m \in Messages |-> "none"] /\ tnNext = 0

----------------------------------------------------------------------------

\* cond.Signal and cond.Broadcast: there is one waiter.
TNWake(b) == tnRun' = [tnRun EXCEPT ![b] = IF @ = "asleep" THEN "awake" ELSE @]

\* NotifyTelegramEvent reads the notifier of the runtime.
TNNotify(c) ==
    /\ tnCall[c] = "idle" /\ tnNext < MaxMessages
    /\ tnCall' = [tnCall EXCEPT ![c] = "start"]
    /\ tnBox' = [tnBox EXCEPT ![c] = tnCurrent]
    /\ UNCHANGED <<tnCurrent, tnQueue, tnSide, tnDone, tnSend, tnOwed, tnStopper,
                   tnFate, tnNext>>

TNStart(c) ==
    LET b == tnBox[c]
    IN  /\ tnCall[c] = "start" /\ tnCall' = [tnCall EXCEPT ![c] = "push"]
        /\ IF tnStopped[b] \/ tnStarted[b] THEN UNCHANGED <<tnStarted, tnRun>>
           ELSE /\ tnStarted' = [tnStarted EXCEPT ![b] = TRUE]
                /\ tnRun' = [tnRun EXCEPT ![b] = "awake"]
        /\ UNCHANGED <<tnCurrent, tnQueue, tnStopped, tnDone, tnJob, tnTries, tnBox,
                       tnOwed, tnStopper, tnFate, tnNext>>

\* The queue takes message m; a full one gives up its oldest.
TNAppend(q, m) == IF Len(q) >= QueueLimit THEN Append(Tail(q), m) ELSE Append(q, m)

\* push into the queue of notifier b, when it is not stopped.
TNAccept(c, b) ==
    /\ tnNext < MaxMessages /\ tnNext' = tnNext + 1
    /\ tnQueue' = [tnQueue EXCEPT ![b] = TNAppend(@, tnNext')]
    /\ tnFate' = [tnFate EXCEPT ![tnNext'] = "open"]
    /\ TNWake(b)
    /\ IF Len(tnQueue[b]) < QueueLimit
       THEN tnCall' = [tnCall EXCEPT ![c] = "idle"] /\ UNCHANGED tnOwed
       ELSE /\ tnCall' = [tnCall EXCEPT ![c] = "audit"]
            /\ tnOwed' = [tnOwed EXCEPT ![c] = Head(tnQueue[b])]

TNPush(c) ==
    LET b == tnBox[c]
    IN  /\ tnCall[c] = "push"
        /\ IF tnStopped[b]
           THEN /\ tnCall' = [tnCall EXCEPT ![c] = "idle"]
                /\ UNCHANGED <<tnQueue, tnRun, tnOwed, tnFate, tnNext>>
           ELSE TNAccept(c, b)
        /\ UNCHANGED <<tnCurrent, tnSide, tnDone, tnJob, tnTries, tnBox, tnStopper>>

\* Enqueue records the overflow in the audit log.
TNReport(c) ==
    /\ tnCall[c] = "audit" /\ tnCall' = [tnCall EXCEPT ![c] = "idle"]
    /\ tnFate' = [tnFate EXCEPT ![tnOwed[c]] = "overflow"]
    /\ tnOwed' = [tnOwed EXCEPT ![c] = 0]
    /\ UNCHANGED <<tnCurrent, tnQueue, tnSide, tnDone, tnSend, tnBox, tnStopper, tnNext>>

\* run and next: take a message, sleep, or end once stopped with an empty queue.
TNTake(b) ==
    /\ tnRun[b] = "awake"
    /\ \/ /\ tnQueue[b] # <<>>
          /\ tnRun' = [tnRun EXCEPT ![b] = "send"] /\ tnTries' = [tnTries EXCEPT ![b] = 0]
          /\ tnJob' = [tnJob EXCEPT ![b] = Head(tnQueue[b])]
          /\ tnQueue' = [tnQueue EXCEPT ![b] = Tail(@)] /\ UNCHANGED tnDone
       \/ /\ tnQueue[b] = <<>> /\ ~tnStopped[b]
          /\ tnRun' = [tnRun EXCEPT ![b] = "asleep"]
          /\ UNCHANGED <<tnQueue, tnJob, tnTries, tnDone>>
       \/ /\ tnQueue[b] = <<>> /\ tnStopped[b]
          /\ tnRun' = [tnRun EXCEPT ![b] = "none"] /\ tnDone' = [tnDone EXCEPT ![b] = TRUE]
          /\ UNCHANGED <<tnQueue, tnJob, tnTries>>
    /\ UNCHANGED <<tnCurrent, tnSide, tnCalls, tnStopper, tnFate, tnNext>>

\* Run leaves the message it has in hand, which ended as f.
TNFinish(b, f) ==
    /\ tnRun' = [tnRun EXCEPT ![b] = "awake"] /\ tnJob' = [tnJob EXCEPT ![b] = 0]
    /\ tnFate' = [tnFate EXCEPT ![tnJob[b]] = f]

\* One attempt: send succeeds, or fails for any of its reasons.
TNSend(b) ==
    /\ tnRun[b] = "send" /\ tnTries' = [tnTries EXCEPT ![b] = @ + 1]
    /\ \/ TNFinish(b, "sent")
       \/ /\ tnRun' = [tnRun EXCEPT ![b] = IF tnTries[b] < Backoffs THEN "backoff" ELSE "report"]
          /\ UNCHANGED <<tnJob, tnFate>>
    /\ UNCHANGED <<tnCurrent, tnQueue, tnSide, tnDone, tnCalls, tnStopper, tnNext>>

\* Variant: the select does not tell a Stop from the end of the delay.
TNBackoffUnstopped(b) ==
    /\ tnRun[b] = "backoff"
    /\ \/ tnRun' = [tnRun EXCEPT ![b] = "send"] /\ UNCHANGED <<tnJob, tnFate>>
       \/ TNFinish(b, "abandoned")
    /\ UNCHANGED <<tnCurrent, tnQueue, tnSide, tnDone, tnTries, tnCalls, tnStopper, tnNext>>

\* sleepBackoff: the delay passes, or the notifier is stopped and the message,
\* without a record, given up.  Once both are so, select takes either.
TNBackoff(b) ==
    /\ tnRun[b] = "backoff"
    /\ \/ tnRun' = [tnRun EXCEPT ![b] = "send"] /\ UNCHANGED <<tnJob, tnFate>>
       \/ tnStopped[b] /\ TNFinish(b, "abandoned")
    /\ UNCHANGED <<tnCurrent, tnQueue, tnSide, tnDone, tnTries, tnCalls, tnStopper, tnNext>>

\* The last attempt failed: deliver records it.
TNGiveUp(b) ==
    /\ tnRun[b] = "report" /\ TNFinish(b, "failed")
    /\ UNCHANGED <<tnCurrent, tnQueue, tnSide, tnDone, tnTries, tnCalls, tnStopper, tnNext>>

\* Variant: Stop wakes nobody.
TNStopQuietly ==
    /\ tnStopper = 0 /\ tnStopper' = tnCurrent
    /\ tnStopped' = [tnStopped EXCEPT ![tnCurrent] = TRUE]
    /\ tnDone' = [tnDone EXCEPT ![tnCurrent] = @ \/ ~tnStarted[tnCurrent]]
    /\ UNCHANGED <<tnCurrent, tnQueue, tnStarted, tnSend, tnCalls, tnFate, tnNext>>

\* StopTelegramNotifier up to the wait.  closeStopCh follows at once, and what
\* it can let run waits in sleepBackoff for a delay or for it.
TNStop ==
    /\ tnStopper = 0 /\ tnStopper' = tnCurrent
    /\ tnStopped' = [tnStopped EXCEPT ![tnCurrent] = TRUE]
    /\ TNWake(tnCurrent)
    /\ tnDone' = [tnDone EXCEPT ![tnCurrent] = @ \/ ~tnStarted[tnCurrent]]
    /\ UNCHANGED <<tnCurrent, tnQueue, tnStarted, tnJob, tnTries, tnCalls, tnFate, tnNext>>

\* Stop returns, done or out of time, and a fresh notifier takes the place.
TNStopEnds ==
    /\ tnStopper # 0 /\ tnStopper' = 0
    /\ tnCurrent < Notifiers /\ tnCurrent' = tnCurrent + 1
    /\ UNCHANGED <<tnQueue, tnSide, tnDone, tnSend, tnCalls, tnFate, tnNext>>

----------------------------------------------------------------------------

TNRunner(b) == TNTake(b) \/ TNSend(b) \/ TNBackoff(b) \/ TNGiveUp(b)
TNCaller(c) == TNStart(c) \/ TNPush(c) \/ TNReport(c)

TNNext ==
    \/ \E c \in Notifying : TNNotify(c) \/ TNCaller(c)
    \/ \E b \in Boxes : TNTake(b) \/ TNSend(b) \/ TNBackoff(b) \/ TNGiveUp(b)
    \/ TNStop
    \/ TNStopEnds

\* Goroutines are scheduled, send has a client with a time limit and the delays
\* are bounded (telegramMaxRetryAfter).
TNFairness ==
    /\ \A b \in Boxes : WF_tnVars(TNRunner(b))
    /\ \A c \in Notifying : WF_tnVars(TNCaller(c))

TNSpec == TNInit /\ [][TNNext]_tnVars /\ TNFairness

----------------------------------------------------------------------------

Pending(b) == {tnQueue[b][i] : i \in DOMAIN tnQueue[b]} \cup ({tnJob[b]} \ {0})

\* Every accepted message that has not ended is in exactly one place: a queue,
\* the hand of a goroutine, or the debt of a caller.  Within a notifier the order
\* of acceptance is kept.  An overflow cannot lose, double or overtake a message.
TNOpenIsHeld ==
    /\ \A m \in Messages : tnFate[m] = "open" <=>
         \/ \E b \in Boxes : m \in Pending(b)
         \/ \E c \in Notifying : tnOwed[c] = m
    /\ \A b \in Boxes : \A i, j \in DOMAIN tnQueue[b] : i < j => tnQueue[b][i] < tnQueue[b][j]
    /\ \A b \in Boxes : \A m \in Pending(b) : tnJob[b] <= m

\* A message is given up without a record only by a notifier that is stopped,
\* and only the one it was about to repeat.
TNAbandonsWhenStopped ==
    [][\A m \in Messages : tnFate'[m] = "abandoned" /\ tnFate[m] # "abandoned" =>
           \E b \in Boxes : tnStopped[b] /\ tnJob[b] = m /\ tnTries[b] > 0]_tnVars

\* A message that waits ends: sent, reported, or given up because of a Stop.
\* Neither a signal that comes when nobody waits nor a stop strands one.
TNMessagesEnd == \A m \in Messages : (tnFate[m] = "open") ~> (tnFate[m] # "open")

\* A goroutine of a stopped notifier ends, so Stop need not run out of time.
TNStoppedEnds == \A b \in Boxes : tnStopped[b] ~> tnDone[b]

\* No message is lost without a record, whoever stops or overflows the queue.
TNMessagesAreHeld == []TNTypeOK /\ []TNOpenIsHeld /\ TNAbandonsWhenStopped

\* None waits for ever either, nor does the goroutine that has it.
TNMessagesAreDelivered == TNMessagesEnd /\ TNStoppedEnds
=============================================================================

----------------------------- MODULE Registration -----------------------------
(***************************************************************************)
(* The receiver of the clients' Telegram bot and the registration of a new *)
(* client by /start (paidsub/bot.go, paidsub/autoregister.go).             *)
(*                                                                         *)
(* A poller asks for updates from the stored offset, handles them one by   *)
(* one and then stores the next offset; Telegram forgets an update when a  *)
(* later offset is asked for.  StopBot waits for the poller for a while    *)
(* only, and a cancelled one still finishes its batch: the next poller may *)
(* run next to it.  Steps that fail, and the death of the process, count   *)
(* as faults.  Every update is a /start with room in its rate limits; a    *)
(* client is its number in the order of creation.                          *)
(***************************************************************************)
EXTENDS Naturals, Sequences, FiniteSets

CONSTANTS
    Senders,        \* Telegram users
    Pollers,        \* bound on the pollers ever started: 1..Pollers
    MaxClients,     \* the cap on registered clients, paidSubMaxClients
    MaxUpdates,     \* bound on updates
    MaxMishaps      \* bound on faults

ASSUME RegistrationAssumption ==
    {MaxUpdates, MaxMishaps} \subseteq Nat /\ {Pollers, MaxClients} \subseteq Nat \ {0}

Bots == 1..Pollers

VARIABLES
    rgFrom,         \* the updates sent so far: the sender of each
    rgForgotten,    \* updates up to this one are confirmed to Telegram
    rgOffset,       \* the setting: updates up to this one need no handling
    rgCurrent,      \* the poller StopBot would cancel, 0 for none (botCancel)
    rgStarted,      \* pollers started so far
    rgStopping,     \* the poller StopBot waits for, 0 for none
    rgAt, rgCancelled,
    rgLeft, rgLast, \* a poller's batch: the update in hand, the last one
    rgMade,         \* and the client it has created for the update in hand
    rgClients,      \* the clients the bot created: the sender each was made for
    rgBinding,      \* paidsub_bindings: the client of a sender, 0 for none
    rgHandled,      \* the updates whose handler has run
    rgOverlapped,   \* two pollers were at work at the same time
    rgMishaps

rgPolls == <<rgCurrent, rgStarted, rgStopping, rgCancelled, rgOverlapped>>
rgBatch == <<rgLeft, rgLast>>
rgTg    == <<rgFrom, rgForgotten>>
rgRows  == <<rgClients, rgBinding>>
rgVars  == <<rgPolls, rgBatch, rgTg, rgRows, rgOffset, rgAt, rgMade, rgHandled, rgMishaps>>

RGTypeOK ==
    /\ rgFrom \in Seq(Senders) /\ Len(rgFrom) <= MaxUpdates
    /\ {rgForgotten, rgOffset} \subseteq 0..Len(rgFrom)
    /\ {rgCurrent, rgStopping, rgStarted} \subseteq 0..Pollers
    /\ rgAt \in [Bots -> {"none", "poll", "lookup", "cap", "create", "bind", "store", "done"}]
    /\ rgCancelled \in [Bots -> BOOLEAN]
    /\ rgLeft \in [Bots -> 0..(MaxUpdates + 1)] /\ rgLast \in [Bots -> 0..MaxUpdates]
    /\ rgMade \in [Bots -> 0..Len(rgClients)]
    /\ rgBinding \in [Senders -> 0..Len(rgClients)]
    /\ rgHandled \subseteq 1..Len(rgFrom) /\ rgMishaps \in 0..MaxMishaps

RGAlive == {p \in Bots : rgAt[p] \notin {"none", "done"}}

RGInit ==
    /\ rgFrom = <<>> /\ rgForgotten = 0 /\ rgOffset = 0
    /\ rgCurrent = 1 /\ rgStarted = 1 /\ rgStopping = 0
    /\ rgAt = [p \in Bots |-> IF p = 1 THEN "poll" ELSE "none"]
    /\ rgCancelled = [p \in Bots |-> FALSE]
    /\ rgLeft = [p \in Bots |-> 0] /\ rgLast = [p \in Bots |-> 0]
    /\ rgMade = [p \in Bots |-> 0]
    /\ rgClients = <<>> /\ rgBinding = [u \in Senders |-> 0]
    /\ rgHandled = {} /\ rgOverlapped = FALSE /\ rgMishaps = 0

RGFault == rgMishaps < MaxMishaps /\ rgMishaps' = rgMishaps + 1
RGGoto(p, l) == rgAt' = [rgAt EXCEPT ![p] = l]

----------------------------------------------------------------------------

RGSend(u) ==
    /\ Len(rgFrom) < MaxUpdates /\ rgFrom' = Append(rgFrom, u)
    /\ UNCHANGED <<rgPolls, rgBatch, rgRows, rgForgotten, rgOffset, rgAt, rgMade,
                   rgHandled, rgMishaps>>

RGConfirm == rgForgotten' = IF rgOffset > rgForgotten THEN rgOffset ELSE rgForgotten

\* Variant: the offset is stored with the batch, before it is handled.
RGFetchStoring(p) ==
    /\ rgAt[p] = "poll" /\ ~rgCancelled[p] /\ RGConfirm
    /\ rgForgotten' < Len(rgFrom) /\ RGGoto(p, "lookup")
    /\ rgLeft' = [rgLeft EXCEPT ![p] = rgForgotten' + 1]
    /\ rgLast' = [rgLast EXCEPT ![p] = Len(rgFrom)] /\ rgOffset' = Len(rgFrom)
    /\ UNCHANGED <<rgPolls, rgRows, rgFrom, rgMade, rgHandled, rgMishaps>>

\* run up to the answer of getUpdates, which confirms what lies before the offset
\* and brings the rest, if any.  An error changes nothing.
RGFetch(p) ==
    /\ rgAt[p] = "poll" /\ ~rgCancelled[p] /\ RGConfirm
    /\ IF rgForgotten' = Len(rgFrom) THEN UNCHANGED <<rgAt, rgBatch>>
       ELSE /\ RGGoto(p, "lookup")
            /\ rgLeft' = [rgLeft EXCEPT ![p] = rgForgotten' + 1]
            /\ rgLast' = [rgLast EXCEPT ![p] = Len(rgFrom)]
    /\ UNCHANGED <<rgPolls, rgRows, rgFrom, rgOffset, rgMade, rgHandled, rgMishaps>>

\* The handler of the update in hand has returned.
RGDone(p) ==
    /\ rgHandled' = rgHandled \cup {rgLeft[p]}
    /\ rgLeft' = [rgLeft EXCEPT ![p] = @ + 1]
    /\ RGGoto(p, IF rgLeft[p] < rgLast[p] THEN "lookup" ELSE "store")

RGSender(p) == rgFrom[rgLeft[p]]

\* cmdStart: a bound sender is greeted, a lookup that fails ends the handler.
RGLookup(p) ==
    /\ rgAt[p] = "lookup"
    /\ \/ rgBinding[RGSender(p)] # 0 /\ RGDone(p) /\ UNCHANGED rgMishaps
       \/ RGFault /\ RGDone(p)
       \/ /\ rgBinding[RGSender(p)] = 0 /\ RGGoto(p, "cap")
          /\ UNCHANGED <<rgLeft, rgHandled, rgMishaps>>
    /\ UNCHANGED <<rgPolls, rgTg, rgRows, rgOffset, rgLast, rgMade>>

RGBound == {u \in Senders : rgBinding[u] # 0}

\* tryAutoRegister: the cap; bindings that cannot be counted refuse.
RGCap(p) ==
    /\ rgAt[p] = "cap"
    /\ \/ Cardinality(RGBound) >= MaxClients /\ RGDone(p) /\ UNCHANGED rgMishaps
       \/ RGFault /\ RGDone(p)
       \/ /\ Cardinality(RGBound) < MaxClients /\ RGGoto(p, "create")
          /\ UNCHANGED <<rgLeft, rgHandled, rgMishaps>>
    /\ UNCHANGED <<rgPolls, rgTg, rgRows, rgOffset, rgLast, rgMade>>

\* ConfigService.Save creates the client, in a transaction that may fail.
RGCreate(p) ==
    /\ rgAt[p] = "create"
    /\ \/ RGFault /\ RGDone(p) /\ UNCHANGED <<rgClients, rgMade>>
       \/ /\ rgClients' = Append(rgClients, RGSender(p)) /\ RGGoto(p, "bind")
          /\ rgMade' = [rgMade EXCEPT ![p] = Len(rgClients')]
          /\ UNCHANGED <<rgLeft, rgHandled, rgMishaps>>
    /\ UNCHANGED <<rgPolls, rgTg, rgBinding, rgOffset, rgLast>>

\* SetBinding, the latest wins; one that fails is logged and forgotten.
RGBind(p) ==
    /\ rgAt[p] = "bind" /\ RGDone(p) /\ rgMade' = [rgMade EXCEPT ![p] = 0]
    /\ \/ RGFault /\ UNCHANGED rgBinding
       \/ /\ rgBinding' = [rgBinding EXCEPT ![RGSender(p)] = rgMade[p]]
          /\ UNCHANGED rgMishaps
    /\ UNCHANGED <<rgPolls, rgTg, rgClients, rgOffset, rgLast>>

\* The offset of the batch, also when another poller has stored a later one.
RGStore(p) ==
    /\ rgAt[p] = "store" /\ RGGoto(p, "poll")
    /\ \/ RGFault /\ UNCHANGED rgOffset
       \/ rgOffset' = rgLast[p] /\ UNCHANGED rgMishaps
    /\ UNCHANGED <<rgPolls, rgBatch, rgTg, rgRows, rgMade, rgHandled>>

\* run sees the cancelled context.
RGEnd(p) ==
    /\ rgAt[p] = "poll" /\ rgCancelled[p] /\ RGGoto(p, "done")
    /\ UNCHANGED <<rgPolls, rgBatch, rgTg, rgRows, rgOffset, rgMade, rgHandled, rgMishaps>>

\* StartBot, unless one runs.
RGStart ==
    /\ rgCurrent = 0 /\ rgStopping = 0 /\ rgStarted < Pollers
    /\ rgStarted' = rgStarted + 1 /\ rgCurrent' = rgStarted' /\ RGGoto(rgStarted', "poll")
    /\ rgOverlapped' = (rgOverlapped \/ RGAlive # {})
    /\ UNCHANGED <<rgBatch, rgTg, rgRows, rgOffset, rgMade, rgHandled, rgMishaps,
                   rgStopping, rgCancelled>>

\* StopBot cancels the context, and waits until the poller or the time is out.
RGStop ==
    /\ rgCurrent # 0 /\ rgStopping' = rgCurrent /\ rgCurrent' = 0
    /\ rgCancelled' = [rgCancelled EXCEPT ![rgCurrent] = TRUE]
    /\ UNCHANGED <<rgBatch, rgTg, rgRows, rgOffset, rgAt, rgMade, rgHandled, rgMishaps,
                   rgStarted, rgOverlapped>>

RGStopReturns ==
    /\ rgStopping # 0 /\ rgStopping' = 0
    /\ UNCHANGED <<rgBatch, rgTg, rgRows, rgOffset, rgAt, rgMade, rgHandled, rgMishaps,
                   rgCurrent, rgStarted, rgCancelled, rgOverlapped>>

\* The process dies and is started again: every poller is gone.
RGCrash ==
    /\ RGFault /\ rgStarted < Pollers
    /\ rgStarted' = rgStarted + 1 /\ rgCurrent' = rgStarted' /\ rgStopping' = 0
    /\ rgAt' = [p \in Bots |-> IF p = rgStarted' THEN "poll"
                              ELSE IF rgAt[p] = "none" THEN "none" ELSE "done"]
    /\ rgMade' = [p \in Bots |-> 0]
    /\ UNCHANGED <<rgBatch, rgTg, rgRows, rgOffset, rgHandled, rgCancelled, rgOverlapped>>

----------------------------------------------------------------------------

RGPoller(p) ==
    \/ RGFetch(p) \/ RGLookup(p) \/ RGCap(p) \/ RGCreate(p) \/ RGBind(p)
    \/ RGStore(p) \/ RGEnd(p)

RGNext ==
    \/ \E u \in Senders : RGSend(u)
    \/ \E p \in Bots : RGFetch(p) \/ RGLookup(p) \/ RGCap(p) \/ RGCreate(p)
                          \/ RGBind(p) \/ RGStore(p) \/ RGEnd(p)
    \/ RGStart \/ RGStop \/ RGStopReturns
    \/ RGCrash

\* Pollers are scheduled, their requests have a time limit and a poll in the end
\* gets through; APP.Stop and Start run on.
RGFairness ==
    /\ \A p \in Bots : WF_rgVars(RGPoller(p))
    /\ WF_rgVars(RGStopReturns) /\ WF_rgVars(RGStart)

RGSpec == RGInit /\ [][RGNext]_rgVars /\ RGFairness

----------------------------------------------------------------------------

\* Telegram forgets an update only when its handler has run: neither a stop nor
\* a crash in a batch, nor a second poller that stores its offset late, loses a
\* /start.
RGForgetsHandled == [][\A i \in (rgForgotten + 1)..rgForgotten' : i \in rgHandled]_rgVars

\* The cap holds up to the pollers that counted at the same time.
RGCapHolds ==
    /\ Cardinality(RGBound) <= MaxClients + Pollers - 1
    /\ ~rgOverlapped => Cardinality(RGBound) <= MaxClients

\* Each client the bot made is bound to the sender it was made for, or is about
\* to be; others exist only after a fault or next to a second poller.
RGClientsAreBound ==
    rgMishaps = 0 /\ ~rgOverlapped =>
        \A c \in DOMAIN rgClients :
            rgBinding[rgClients[c]] = c \/ \E p \in Bots : rgMade[p] = c

\* Registration never takes a subscription away: a bound sender keeps the client,
\* whatever fails, unless two pollers work on the same /start.
RGBindingsStay ==
    [][\A u \in Senders : rgBinding[u] # 0 /\ ~rgOverlapped' => rgBinding'[u] = rgBinding[u]]_rgVars

\* Every /start is handled, as long as pollers may be started.
RGStartsAreHandled ==
    \A i \in 1..MaxUpdates :
        i \in DOMAIN rgFrom /\ i \notin rgHandled
            ~> i \in rgHandled \/ (rgCurrent = 0 /\ rgStarted = Pollers)

\* A cancelled poller ends.
RGCancelledEnds == \A p \in Bots : rgCancelled[p] ~> rgAt[p] = "done"

\* No /start and no subscription is lost, and the cap holds.
RGSubscribersAreKept ==
    /\ []RGTypeOK /\ []RGCapHolds /\ []RGClientsAreBound
    /\ RGForgetsHandled /\ RGBindingsStay

\* The pollers get on, also with each other.
RGStartsGetThrough == RGStartsAreHandled /\ RGCancelledEnds
=============================================================================

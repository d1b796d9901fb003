------------------------------ MODULE Realtime ------------------------------
(***************************************************************************)
(* The realtime channel: one-time WebSocket tokens and the handshake       *)
(* (api/realtime.go), the hub that counts and feeds the sockets            *)
(* (realtime/hub.go), and the rotation of the session generation that ends *)
(* every session (service/setting.go, api/session.go).                     *)
(*                                                                         *)
(* A slot is one browser tab: it asks for a token, opens a socket with it, *)
(* and may start again when the socket is gone.  All slots share one       *)
(* address.  The hub and the tokens have a mutex each, so a locked section *)
(* is one step.                                                            *)
(***************************************************************************)
EXTENDS Naturals, Sequences, FiniteSets

CONSTANTS
    Users, Slots,
    MaxPerUser, MaxPerIP,   \* maxWSPerUser, maxWSPerIP
    MaxWSTokens,
    QueueSize,              \* wsQueueSize
    MaxRotations            \* bound on rotations

ASSUME RealtimeAssumption ==
    /\ {MaxPerUser, MaxPerIP, MaxWSTokens, QueueSize} \subseteq Nat \ {0}
    /\ MaxRotations \in Nat

VARIABLES
    rtGen,          \* the setting sessionGeneration
    rtLogin,        \* the generations of a user's sessions
    rtRotator,      \* the rotation in progress: who runs it, its next step
    rtTokens,       \* wsTokens.tokens, in the order of their expiry
    rtExpired,      \* how many of them are past their time to live
    rtTokenGen,     \* the generation when the token was added
    rtSweepTimer,   \* wsTokens.sweepTimer is set
    rtAt,           \* a slot: where its request is
    rtUser,         \* a slot: the user its token was issued to, then of its socket
    rtByUser, rtByIP,       \* the reservation counters of the hub
    rtClients,      \* hub.clients
    rtRegGen,       \* the generation when the socket was registered
    rtQueue,        \* events in sendCh
    rtConn,         \* the connection is open
    rtSending,      \* subscribers the publication in progress has left
    rtDropping      \* removed from the hub, onDrop not called yet

rtSession == <<rtGen, rtLogin, rtRotator>>
rtTokenVs == <<rtTokens, rtExpired, rtTokenGen, rtSweepTimer>>
rtRequest == <<rtAt, rtUser>>
rtCounts  == <<rtByUser, rtByIP>>
rtHub     == <<rtClients, rtRegGen, rtDropping>>
rtSocket  == <<rtQueue, rtConn, rtSending>>
rtVars    == <<rtSession, rtTokenVs, rtRequest, rtCounts, rtHub, rtSocket>>

RTUserOrNone == Users \cup {"none"}
RTHolding    == {"reserved", "accepted", "open", "leaving", "unregistered"}

RTTypeOK ==
    /\ rtGen \in 0..MaxRotations
    /\ rtLogin \in [Users -> SUBSET (0..MaxRotations)]
    /\ rtRotator \in [step : {"none", "close", "tokens", "renew"}, by : RTUserOrNone]
    /\ rtTokens \in Seq(Slots) /\ rtExpired \in 0..Len(rtTokens)
    /\ rtTokenGen \in [Slots -> 0..MaxRotations] /\ rtSweepTimer \in BOOLEAN
    /\ rtAt \in [Slots -> {"idle", "issue", "token", "authed", "stranger", "consumed"} \cup RTHolding]
    /\ rtUser \in [Slots -> RTUserOrNone]
    /\ rtByUser \in [Users -> Nat] /\ rtByIP \in Nat
    /\ rtClients \subseteq Slots /\ rtRegGen \in [Slots -> 0..MaxRotations]
    /\ rtQueue \in [Slots -> 0..QueueSize] /\ rtConn \in [Slots -> BOOLEAN]
    /\ rtSending \subseteq Slots /\ rtDropping \subseteq Slots

RTInit ==
    /\ rtGen = 0 /\ rtLogin = [u \in Users |-> {}]
    /\ rtRotator = [step |-> "none", by |-> "none"]
    /\ rtTokens = <<>> /\ rtExpired = 0 /\ rtTokenGen = [h \in Slots |-> 0]
    /\ rtSweepTimer = FALSE
    /\ rtAt = [h \in Slots |-> "idle"]
    /\ rtUser = [h \in Slots |-> "none"]
    /\ rtByUser = [u \in Users |-> 0] /\ rtByIP = 0
    /\ rtClients = {} /\ rtRegGen = [h \in Slots |-> 0]
    /\ rtQueue = [h \in Slots |-> 0] /\ rtConn = [h \in Slots |-> FALSE]
    /\ rtSending = {} /\ rtDropping = {}

----------------------------------------------------------------------------

\* GetLoginUser: the session carries the current generation.
RTLoggedIn(u) == rtGen \in rtLogin[u]

\* Login and the SetLoginUser at its end.  A generation that is rotated between
\* the two leaves the session a login that a later rotation ends would leave.
RTLoginUser(u) ==
    /\ rtLogin' = [rtLogin EXCEPT ![u] = @ \cup {rtGen}]
    /\ UNCHANGED <<rtGen, rtRotator, rtTokenVs, rtRequest, rtCounts, rtHub, rtSocket>>

\* Logout clears the session; the sockets of the user stay.
RTLogout(u) ==
    /\ \E g \in rtLogin[u] : rtLogin' = [rtLogin EXCEPT ![u] = @ \ {g}]
    /\ UNCHANGED <<rtGen, rtRotator, rtTokenVs, rtRequest, rtCounts, rtHub, rtSocket>>

\* RotateSessionGeneration stores the new generation before it closes sockets.
RTRotate(u) ==
    /\ rtRotator.step = "none" /\ RTLoggedIn(u) /\ rtGen < MaxRotations
    /\ rtGen' = rtGen + 1
    /\ rtRotator' = [step |-> "close", by |-> u]
    /\ UNCHANGED <<rtLogin, rtTokenVs, rtRequest, rtCounts, rtHub, rtSocket>>

\* hub.CloseAll: the hub is emptied at once, the callbacks run afterwards.
RTCloseAll ==
    /\ rtRotator.step = "close"
    /\ rtRotator' = [rtRotator EXCEPT !.step = "tokens"]
    /\ rtClients' = {} /\ rtDropping' = rtDropping \cup rtClients
    /\ UNCHANGED <<rtGen, rtLogin, rtTokenVs, rtRequest, rtCounts, rtRegGen, rtSocket>>

\* sweepAllWSTokensLocked.
RTSweepAll == rtTokens' = <<>> /\ rtExpired' = 0 /\ rtSweepTimer' = FALSE

\* The hook of the WebSocket tokens, the last step of RotateSessionGeneration.
RTInvalidateTokens ==
    /\ rtRotator.step = "tokens"
    /\ rtRotator' = [rtRotator EXCEPT !.step = "renew"]
    /\ RTSweepAll
    /\ UNCHANGED <<rtGen, rtLogin, rtTokenGen, rtRequest, rtCounts, rtHub,
                   rtSocket>>

\* ChangePass gives its own caller a session of the new generation,
\* LogoutAllAdmins clears it.
RTEndRotation ==
    /\ rtRotator.step = "renew"
    /\ rtRotator' = [step |-> "none", by |-> "none"]
    /\ \E session \in {{rtGen}, {}} :
          rtLogin' = [rtLogin EXCEPT ![rtRotator.by] = @ \cup session]
    /\ UNCHANGED <<rtGen, rtTokenVs, rtRequest, rtCounts, rtHub, rtSocket>>

\* The reset hook after a database import.
RTResetTokens ==
    /\ rtTokens # <<>> /\ RTSweepAll
    /\ UNCHANGED <<rtTokenGen, rtSession, rtRequest, rtCounts, rtHub, rtSocket>>

----------------------------------------------------------------------------

RTGoto(h, l) == rtAt' = [rtAt EXCEPT ![h] = l] /\ UNCHANGED rtUser
RTLeave(h)   == rtAt' = [rtAt EXCEPT ![h] = "idle"] /\ rtUser' = [rtUser EXCEPT ![h] = "none"]

\* IssueWSToken up to the check of the session.
RTAskToken(h, u) ==
    /\ rtAt[h] = "idle" /\ RTLoggedIn(u)
    /\ rtAt' = [rtAt EXCEPT ![h] = "issue"]
    /\ rtUser' = [rtUser EXCEPT ![h] = u]
    /\ UNCHANGED <<rtSession, rtTokenVs, rtCounts, rtHub, rtSocket>>

\* enforceWSTokenCapLocked: of what a sweep of the first n tokens leaves, those
\* that expire first have to go.
RTCapped(s, n) == IF Len(s) > n + MaxWSTokens THEN Len(s) - MaxWSTokens ELSE n

\* sweepWSTokensLocked; all tokens live equally long, so they expire in order.
RTKeep(s, n) ==
    LET gone == RTCapped(s, n) IN
    /\ rtTokens' = SubSeq(s, gone + 1, Len(s))
    /\ rtExpired' = IF rtExpired > gone THEN rtExpired - gone ELSE 0

\* The locked section of IssueWSToken, with the sweep that may be due.
RTIssueToken(h) ==
    /\ rtAt[h] = "issue" /\ RTGoto(h, "token")
    /\ \E n \in {0, rtExpired} : RTKeep(Append(rtTokens, h), n)
    /\ rtTokenGen' = [rtTokenGen EXCEPT ![h] = rtGen]
    /\ rtSweepTimer' = TRUE
    /\ UNCHANGED <<rtSession, rtCounts, rtHub, rtSocket>>

RTExpireToken ==
    /\ rtExpired < Len(rtTokens) /\ rtExpired' = rtExpired + 1
    /\ UNCHANGED <<rtTokens, rtTokenGen, rtSweepTimer, rtSession, rtRequest, rtCounts, rtHub,
                   rtSocket>>

\* runWSTokenSweep; a callback of an earlier sweepGeneration does nothing.
RTSweep ==
    /\ rtSweepTimer /\ RTKeep(rtTokens, rtExpired)
    /\ rtSweepTimer' = (rtTokens' # <<>>)
    /\ UNCHANGED <<rtTokenGen, rtSession, rtRequest, rtCounts, rtHub, rtSocket>>

\* realtimeWS looks the session up; without one, or with that of another user,
\* the request goes on to the token all the same.
RTAuth(h) ==
    /\ rtAt[h] = "token"
    /\ \/ RTLoggedIn(rtUser[h]) /\ RTGoto(h, "authed")
       \/ RTGoto(h, "stranger")
    /\ UNCHANGED <<rtSession, rtTokenVs, rtCounts, rtHub, rtSocket>>

RTFound(h) == {i \in 1..Len(rtTokens) : rtTokens[i] = h}

RTRemove(i) ==
    /\ rtTokens' = SubSeq(rtTokens, 1, i - 1) \o SubSeq(rtTokens, i + 1, Len(rtTokens))
    /\ rtExpired' = IF i > rtExpired THEN rtExpired ELSE rtExpired - 1

\* consumeWSToken: a token is gone after its first use, whoever presents it.
RTConsume(h) ==
    /\ rtAt[h] \in {"authed", "stranger"}
    /\ IF rtAt[h] = "authed" /\ \E i \in RTFound(h) : i > rtExpired
       THEN RTGoto(h, "consumed") ELSE RTLeave(h)
    /\ \/ RTFound(h) = {} /\ UNCHANGED <<rtTokens, rtExpired>>
       \/ \E i \in RTFound(h) : RTRemove(i)
    /\ UNCHANGED <<rtTokenGen, rtSweepTimer, rtSession, rtCounts, rtHub, rtSocket>>

\* hub.Reserve.
RTReserve(h) ==
    /\ rtAt[h] = "consumed"
    /\ IF rtByUser[rtUser[h]] >= MaxPerUser \/ rtByIP >= MaxPerIP
       THEN RTLeave(h) /\ UNCHANGED rtCounts
       ELSE /\ RTGoto(h, "reserved")
            /\ rtByUser' = [rtByUser EXCEPT ![rtUser[h]] = @ + 1]
            /\ rtByIP' = rtByIP + 1
    /\ UNCHANGED <<rtSession, rtTokenVs, rtHub, rtSocket>>

\* hub.release.
RTRelease(h) ==
    /\ rtByUser' = [rtByUser EXCEPT ![rtUser[h]] = IF @ > 0 THEN @ - 1 ELSE 0]
    /\ rtByIP' = IF rtByIP > 0 THEN rtByIP - 1 ELSE 0

\* websocket.Accept upgrades the request or fails.
RTAccept(h) ==
    /\ rtAt[h] = "reserved"
    /\ \/ RTGoto(h, "accepted") /\ rtConn' = [rtConn EXCEPT ![h] = TRUE] /\ UNCHANGED rtCounts
       \/ RTLeave(h) /\ RTRelease(h) /\ UNCHANGED rtConn
    /\ UNCHANGED <<rtSession, rtTokenVs, rtHub, rtQueue, rtSending>>

\* hub.Register, and the event "connected" in the empty queue.
RTRegister(h) ==
    /\ rtAt[h] = "accepted" /\ RTGoto(h, "open")
    /\ rtClients' = rtClients \cup {h}
    /\ rtRegGen' = [rtRegGen EXCEPT ![h] = rtGen]
    /\ rtQueue' = [rtQueue EXCEPT ![h] = 1]
    /\ UNCHANGED <<rtDropping, rtSession, rtTokenVs, rtCounts, rtConn, rtSending>>

\* The loop of realtimeWS writes the next event, or fails and leaves.
RTWrite(h) ==
    /\ rtAt[h] = "open" /\ rtQueue[h] > 0
    /\ rtQueue' = [rtQueue EXCEPT ![h] = @ - 1]
    /\ \/ rtConn[h] /\ UNCHANGED rtRequest
       \/ RTGoto(h, "leaving")
    /\ UNCHANGED <<rtSession, rtTokenVs, rtCounts, rtHub, rtConn, rtSending>>

\* The context of a closed connection ends the loop.
RTDone(h) ==
    /\ rtAt[h] = "open" /\ ~rtConn[h] /\ RTGoto(h, "leaving")
    /\ UNCHANGED <<rtSession, rtTokenVs, rtCounts, rtHub, rtSocket>>

\* Variant: the deferred calls wait for the hub to take the client out.
RTUnregisterWaits(h) ==
    /\ rtAt[h] = "leaving" /\ h \in rtClients /\ RTGoto(h, "unregistered")
    /\ rtClients' = rtClients \ {h}
    /\ UNCHANGED <<rtRegGen, rtDropping, rtSession, rtTokenVs, rtCounts, rtSocket>>

\* The deferred calls: unregister, release, close.
RTUnregister(h) ==
    /\ rtAt[h] = "leaving" /\ RTGoto(h, "unregistered")
    /\ rtClients' = rtClients \ {h}
    /\ UNCHANGED <<rtRegGen, rtDropping, rtSession, rtTokenVs, rtCounts,
                   rtSocket>>

\* Callbacks and events that still come find a closed connection.
RTEndRequest(h) ==
    /\ rtAt[h] = "unregistered" /\ RTLeave(h)
    /\ RTRelease(h)
    /\ rtConn' = [rtConn EXCEPT ![h] = FALSE] /\ rtQueue' = [rtQueue EXCEPT ![h] = 0]
    /\ rtSending' = rtSending \ {h} /\ rtDropping' = rtDropping \ {h}
    /\ rtRegGen' = [rtRegGen EXCEPT ![h] = 0] /\ rtTokenGen' = [rtTokenGen EXCEPT ![h] = 0]
    /\ UNCHANGED <<rtSession, rtTokens, rtExpired, rtSweepTimer, rtClients>>

\* The peer goes away, or a ping of startWSHeartbeat fails.
RTPeerGone(h) ==
    /\ rtConn[h] /\ rtConn' = [rtConn EXCEPT ![h] = FALSE]
    /\ UNCHANGED <<rtSession, rtTokenVs, rtRequest, rtCounts, rtHub, rtQueue, rtSending>>

----------------------------------------------------------------------------

\* hub.snapshot: a topic every scope may see reaches all, one for admins some.
RTPublish ==
    /\ rtSending = {}
    /\ \E s \in SUBSET rtClients : s # {} /\ rtSending' = s
    /\ UNCHANGED <<rtSession, rtTokenVs, rtRequest, rtCounts, rtHub, rtQueue, rtConn>>

\* Publish does not wait: hub.drop takes out a client whose queue is full.
RTSend(h) ==
    /\ h \in rtSending /\ rtSending' = rtSending \ {h}
    /\ IF rtQueue[h] < QueueSize
       THEN rtQueue' = [rtQueue EXCEPT ![h] = @ + 1] /\ UNCHANGED rtHub
       ELSE /\ rtClients' = rtClients \ {h}
            /\ rtDropping' = IF h \in rtClients THEN rtDropping \cup {h} ELSE rtDropping
            /\ UNCHANGED <<rtQueue, rtRegGen>>
    /\ UNCHANGED <<rtSession, rtTokenVs, rtRequest, rtCounts, rtConn>>

\* Variant: onDrop gives the slot back, too.
RTCallDropReleases(h) ==
    /\ h \in rtDropping /\ rtDropping' = rtDropping \ {h}
    /\ rtConn' = [rtConn EXCEPT ![h] = FALSE]
    /\ IF rtAt[h] = "open" THEN RTRelease(h) ELSE UNCHANGED rtCounts
    /\ UNCHANGED <<rtClients, rtRegGen, rtSession, rtTokenVs, rtRequest, rtQueue, rtSending>>

\* onDrop closes the connection.
RTCallDrop(h) ==
    /\ h \in rtDropping /\ rtDropping' = rtDropping \ {h}
    /\ rtConn' = [rtConn EXCEPT ![h] = FALSE]
    /\ UNCHANGED <<rtClients, rtRegGen, rtSession, rtTokenVs, rtRequest, rtCounts, rtQueue,
                   rtSending>>

RTRotation == RTCloseAll \/ RTInvalidateTokens \/ RTEndRotation

RTHandler(h) ==
    \/ RTIssueToken(h) \/ RTAuth(h) \/ RTConsume(h) \/ RTReserve(h) \/ RTAccept(h) \/ RTRegister(h)
    \/ RTWrite(h) \/ RTDone(h) \/ RTUnregister(h) \/ RTEndRequest(h)

RTNext ==
    \/ \E u \in Users : RTLoginUser(u) \/ RTLogout(u) \/ RTRotate(u)
    \/ RTRotation \/ RTResetTokens \/ RTExpireToken \/ RTSweep \/ RTPublish
    \/ \E h \in Slots :
         \/ \E u \in Users : RTAskToken(h, u)
         \/ RTHandler(h) \/ RTPeerGone(h) \/ RTSend(h) \/ RTCallDrop(h)

RTSpec == RTInit /\ [][RTNext]_rtVars

\* The goroutines of the server run on; browsers and peers owe nothing.
RTFairness == \A h \in Slots : WF_rtVars(RTHandler(h)) /\ WF_rtVars(RTCallDrop(h))

----------------------------------------------------------------------------

RTHolders == {h \in Slots : rtAt[h] \in RTHolding}

\* A reservation lives exactly as long as the request that made it, over refused
\* upgrades, drops and rotations: no counter leaks, and the limits per user and
\* per address hold.
RTSlotsMatchSockets ==
    /\ rtByIP = Cardinality(RTHolders) /\ rtByIP <= MaxPerIP
    /\ \A u \in Users :
         /\ rtByUser[u] = Cardinality({h \in RTHolders : rtUser[h] = u})
         /\ rtByUser[u] <= MaxPerUser

\* An open connection that the hub no longer feeds is about to be closed:
\* nobody is left connected to silence (hub.drop, hub.CloseAll).
RTDroppedIsClosed ==
    \A h \in Slots : rtAt[h] = "open" /\ rtConn[h] => h \in rtClients \cup rtDropping

RTSocketsAreCurrent == \A h \in rtClients : rtRegGen[h] = rtGen
RTTokensAreCurrent  == \A i \in 1..Len(rtTokens) : rtTokenGen[rtTokens[i]] = rtGen

\* When RotateSessionGeneration has returned, every socket and every token that
\* is left was added under the new generation.  (A handshake that was past its
\* check of the session may still register afterwards.)
RTRotationEndsAll ==
    rtRotator.step \in {"none", "renew"} => RTSocketsAreCurrent /\ RTTokensAreCurrent

\* Tokens are bounded, and none is left without a timer that will sweep it.
RTTokensAreSwept == Len(rtTokens) <= MaxWSTokens /\ (rtTokens # <<>> => rtSweepTimer)

\* The slot of a socket that was dropped is given back.
RTDroppedLeaves == \A h \in Slots : h \in rtDropping ~> rtAt[h] = "idle"

\* Sockets and tokens are accounted for from the request to the end.
RTClientsAreAccounted ==
    /\ RTTypeOK
    /\ RTSlotsMatchSockets
    /\ RTDroppedIsClosed
    /\ RTRotationEndsAll
    /\ RTTokensAreSwept
=============================================================================

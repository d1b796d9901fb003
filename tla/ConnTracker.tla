---------------------------- MODULE ConnTracker ----------------------------
(***************************************************************************)
(* The connections the core routes (core/tracker_conn.go).  A tracked      *)
(* connection is in the map and counted by the wait group of its epoch; a  *)
(* wrapper reports its end once, at Close or at the first terminal error.  *)
(* An EOF of a peer that only has no more to send is such an error: the    *)
(* other direction still relays, in no map.  Reset closes what is in the   *)
(* map, opens a new epoch and waits, for a while, for the wrappers of the  *)
(* old one.                                                                *)
(***************************************************************************)
EXTENDS Naturals, FiniteSets

CONSTANTS
    Conns,
    Inbounds,
    MaxEpochs       \* bound on calls of Reset

ASSUME ConnTrackerAssumption == IsFiniteSet(Conns) /\ MaxEpochs \in Nat

VARIABLES
    ctTracked,      \* c.connections
    ctInbound,      \* the inbound of a connection
    ctEpoch,        \* c.epoch
    ctOf,           \* the epoch a wrapper was made in
    ctState,        \* a connection: "new", "open", "half" (one direction is over,
                    \* the other relays), "closed" or "ended" by its peer
    ctWrapper,      \* untrackOnce: not run, "untracked" but not counted off, "done"
    ctClosing,      \* wrappers whose Close has begun and not closed yet
    ctRevoked,      \* connections that relayed when their inbound was removed
    ctInflight,     \* the counter of the wait group of each epoch
    ctReset,        \* a Reset at work: no epoch, or the one it waits for
    ctClean         \* the epochs whose Reset saw every wrapper end

ctOutside == <<ctInbound, ctRevoked>>
ctVars == <<ctTracked, ctEpoch, ctOf, ctState, ctWrapper, ctClosing, ctInflight,
            ctReset, ctClean, ctOutside>>

CTNone == MaxEpochs + 1

CTTypeOK ==
    /\ ctTracked \subseteq Conns /\ ctInbound \in [Conns -> Inbounds]
    /\ ctEpoch \in 0..MaxEpochs /\ ctOf \in [Conns -> 0..MaxEpochs]
    /\ ctState \in [Conns -> {"new", "open", "half", "closed", "ended"}]
    /\ ctWrapper \in [Conns -> {"live", "untracked", "done"}]
    /\ ctClosing \subseteq Conns /\ ctRevoked \subseteq Conns
    /\ ctInflight \in [0..MaxEpochs -> 0..Cardinality(Conns)]
    /\ ctReset \in 0..CTNone /\ ctClean \subseteq 0..MaxEpochs

CTInit ==
    /\ ctTracked = {} /\ ctEpoch = 0 /\ ctReset = CTNone /\ ctClean = {}
    /\ ctInbound \in [Conns -> Inbounds] /\ ctOf = [k \in Conns |-> 0]
    /\ ctState = [k \in Conns |-> "new"] 
    /\ ctWrapper = [k \in Conns |-> "live"] /\ ctClosing = {} /\ ctRevoked = {}
    /\ ctInflight = [e \in 0..MaxEpochs |-> 0]

----------------------------------------------------------------------------

\* trackConnection: the map, the epoch and the wait group under one lock.
CTTrack(k) ==
    /\ ctState[k] = "new"
    /\ ctState' = [ctState EXCEPT ![k] = "open"]
    /\ ctTracked' = ctTracked \cup {k}
    /\ ctOf' = [ctOf EXCEPT ![k] = ctEpoch]
    /\ ctInflight' = [ctInflight EXCEPT ![ctEpoch] = @ + 1]
    /\ UNCHANGED <<ctEpoch, ctWrapper, ctClosing, ctReset, ctClean, ctOutside>>

CTRelays(k) == ctState[k] \in {"open", "half"}

\* The peer has no more to send, or one direction fails; or both are over.
CTPeerEnds(k) ==
    /\ \/ ctState[k] = "open" /\ ctState' = [ctState EXCEPT ![k] = "half"]
       \/ CTRelays(k) /\ ctState' = [ctState EXCEPT ![k] = "ended"]
    /\ UNCHANGED <<ctTracked, ctEpoch, ctOf, ctWrapper, ctClosing, ctInflight, ctReset,
                   ctClean, ctOutside>>

\* untrackConnection leaves the map alone when the epoch is over.
CTUntracked(k) == IF ctOf[k] = ctEpoch THEN ctTracked \ {k} ELSE ctTracked

\* doUntrack, under untrackOnce: the map first,
CTUntrack(k) ==
    /\ ctState[k] # "new" /\ ctWrapper[k] = "live"
    /\ ctWrapper' = [ctWrapper EXCEPT ![k] = "untracked"]
    /\ ctTracked' = CTUntracked(k)
    /\ UNCHANGED <<ctEpoch, ctOf, ctState, ctInflight, ctReset, ctClean, ctOutside>>

\* from a read or a write that meets a terminal error in its direction (a timeout
\* is not one),
CTIOError(k) == ~(ctState[k] = "open") /\ CTUntrack(k) /\ UNCHANGED ctClosing

\* or from Close of a wrapper, by the core;
CTBeginClose(k) == CTUntrack(k) /\ ctClosing' = ctClosing \cup {k}

\* then the wait group.
CTCountOff(k) ==
    /\ ctWrapper[k] = "untracked" /\ ctWrapper' = [ctWrapper EXCEPT ![k] = "done"]
    /\ ctInflight' = [ctInflight EXCEPT ![ctOf[k]] = @ - 1]
    /\ UNCHANGED <<ctTracked, ctEpoch, ctOf, ctState, ctClosing, ctReset, ctClean, ctOutside>>

\* Close of the connection itself, after doUntrack has returned.
CTClose(k) ==
    /\ ctWrapper[k] = "done" /\ (ctState[k] # "closed" \/ k \in ctClosing)
    /\ ctState' = [ctState EXCEPT ![k] = "closed"] /\ ctClosing' = ctClosing \ {k}
    /\ UNCHANGED <<ctTracked, ctEpoch, ctOf, ctWrapper, ctInflight, ctReset, ctClean, ctOutside>>

\* The connections of the map are closed below their wrappers.
CTClosed(ks) ==
    [k \in Conns |-> IF k \in ks /\ ctState[k] # "new" THEN "closed" ELSE ctState[k]]

\* CloseConnByInbound, when an inbound is removed or restarted.
CTCloseByInbound(i) ==
    LET hit == {k \in ctTracked : ctInbound[k] = i}
    IN  /\ ctState' = CTClosed(hit) /\ ctTracked' = ctTracked \ hit
        /\ ctRevoked' = ctRevoked \cup {k \in Conns : ctInbound[k] = i /\ CTRelays(k)}
        /\ UNCHANGED <<ctInbound, ctEpoch, ctOf, ctWrapper, ctClosing, ctInflight, ctReset, ctClean>>

\* Variant: Reset takes a new map and leaves the old connections open.
CTBeginResetOpen ==
    /\ ctReset = CTNone /\ ctEpoch < MaxEpochs
    /\ ctTracked' = {} /\ ctEpoch' = ctEpoch + 1 /\ ctReset' = ctEpoch
    /\ UNCHANGED <<ctOf, ctState, ctWrapper, ctClosing, ctInflight, ctClean, ctOutside>>

CTBeginReset ==
    /\ ctReset = CTNone /\ ctEpoch < MaxEpochs
    /\ ctState' = CTClosed(ctTracked)
    /\ ctTracked' = {} /\ ctEpoch' = ctEpoch + 1 /\ ctReset' = ctEpoch
    /\ UNCHANGED <<ctOf, ctWrapper, ctClosing, ctInflight, ctClean, ctOutside>>

\* waitForTrackerIdle: every wrapper of the old epoch has ended, or time is up.
CTEndReset ==
    /\ ctReset # CTNone /\ ctReset' = CTNone
    /\ \/ ctInflight[ctReset] = 0 /\ ctClean' = ctClean \cup {ctReset}
       \/ UNCHANGED ctClean
    /\ UNCHANGED <<ctTracked, ctEpoch, ctOf, ctState, ctWrapper, ctClosing, ctInflight, ctOutside>>

CTNext ==
    \/ \E k \in Conns : \/ CTTrack(k) \/ CTPeerEnds(k) \/ CTIOError(k)
                        \/ CTBeginClose(k) \/ CTCountOff(k) \/ CTClose(k)
    \/ \E i \in Inbounds : CTCloseByInbound(i)
    \/ CTBeginReset \/ CTEndReset

CTSpec == CTInit /\ [][CTNext]_ctVars

----------------------------------------------------------------------------

\* What relays is in the map, where a reset of the core or the removal of its
\* inbound finds it, and belongs to the present epoch, whatever wrappers of older
\* epochs do at any time.  It escapes in two ways only: one direction is over and
\* the wrapper has met the error, or the wrapper's own Close is about to close it.
CTNoStray ==
    \A k \in Conns : CTRelays(k) =>
        \/ k \in ctTracked /\ ctOf[k] = ctEpoch
        \/ ctState[k] = "half" /\ ctWrapper[k] # "live"
        \/ k \in ctClosing

\* A Reset that says it is idle has seen every wrapper of its epoch end: the
\* counter of an epoch is the number of its wrappers still at work.
CTResetIsClean ==
    \A k \in Conns : ctState[k] # "new" /\ ctOf[k] \in ctClean => ctWrapper[k] = "done"

CTConnectionsKept == CTTypeOK /\ CTNoStray /\ CTResetIsClean

\* "Existing connections on those inbounds are closed, so revoked or disabled
\* credentials stop working immediately": of the connections that relayed when
\* CloseConnByInbound ran, none relays any more but one that is just closing.
CTRevokedAreClosed == \A k \in ctRevoked : CTRelays(k) => k \in ctClosing
=============================================================================

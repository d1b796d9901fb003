---------------------------- MODULE Subscriptions ----------------------------
(***************************************************************************)
(* What a subscription URL answers while the panel changes what it should  *)
(* answer (sub/subService.go, sub/subHandler.go, sub/output_cache.go,      *)
(* service/client_secret.go and the end of ConfigService.Save): one client *)
(* asked for by its secret or, when the administrator allows it, by name.  *)
(*                                                                         *)
(* An answer is built without a lock: the cache is asked, then the row and *)
(* the links are read, then the answer is stored, each at a time of its    *)
(* own.  A body is the version of the client's row it was built from; the  *)
(* display settings are left out.                                          *)
(***************************************************************************)
EXTENDS Naturals

CONSTANTS
    Requests,       \* requests of subscribers that may be in flight together
    TTL,            \* life of a cached answer, in ticks
    MaxClock,       \* bound on the clock
    MaxEdits        \* bound on the changes of the row and of the settings

ASSUME SubscriptionsAssumption ==
    {TTL, MaxClock, MaxEdits} \subseteq Nat

Versions == 0..MaxEdits
Secrets  == 0..MaxEdits
Name     == <<"name", 0>>
NoAnswer == [row |-> 0, epoch |-> 0, stored |-> 0, expires |-> 0]

VARIABLES
    sbNow,
    sbRow,          \* version of the client's row
    sbSecret,       \* its sub_secret
    sbEnabled,
    sbRequired,     \* the setting subSecretRequired
    sbCache,        \* the cached answers, by the id in the URL
    sbPc,           \* what each request does
    sbId,           \* the id it asks for
    sbBody,         \* the answer it builds, and when it expires
    sbSaver,        \* the request in ConfigService.Save
    sbEdits,
    \* history: not state of the program
    sbRowUntil,     \* when each version of the row was replaced
    sbSavedRow,     \* the oldest row no cleared cache may hold
    sbEpoch,        \* clearings of the cache
    sbGateHit       \* a cached answer was served by name although required

sbVars == <<sbNow, sbRow, sbSecret, sbEnabled, sbRequired,
            sbCache, sbPc, sbId, sbBody, sbSaver, sbEdits, sbRowUntil,
            sbSavedRow, sbEpoch, sbGateHit>>

sbRowVars == <<sbRow, sbSecret, sbEnabled, sbRowUntil>>
sbRequests == <<sbPc, sbId, sbBody>>

Ids == {Name} \cup {<<"secret", s>> : s \in Secrets}

SBTypeOK ==
    /\ sbNow \in 0..MaxClock
    /\ {sbRow, sbEdits} \subseteq Versions
    /\ sbSecret \in Secrets
    /\ {sbEnabled, sbRequired, sbGateHit} \subseteq BOOLEAN
    /\ sbPc \in [Requests -> {"idle", "read", "store"}]
    /\ sbSaver \in {"idle", "clear"}

SBInit ==
    /\ sbNow = 0
    /\ sbRow = 0
    /\ sbSecret = 0
    /\ sbEnabled = TRUE
    /\ sbRequired = FALSE
    /\ sbCache = [i \in Ids |-> NoAnswer]
    /\ sbPc = [r \in Requests |-> "idle"]
    /\ sbId = [r \in Requests |-> Name]
    /\ sbBody = [r \in Requests |-> NoAnswer]
    /\ sbSaver = "idle"
    /\ sbEdits = 0
    /\ sbRowUntil = [v \in Versions |-> MaxClock]
    /\ sbSavedRow = 0
    /\ sbEpoch = 0
    /\ sbGateHit = FALSE

-----------------------------------------------------------------------------
(* Requests.  *)

\* subscriptionCacheGet: an answer that has expired is forgotten.
SBUsable(answer) == sbNow < answer.expires

\* A request asks the cache first and is done when it finds its answer there.
SBHit(r, id) ==
    /\ sbPc[r] = "idle"
    /\ SBUsable(sbCache[id])
    /\ sbGateHit' = (sbGateHit \/ (id = Name /\ sbRequired))
    /\ UNCHANGED <<sbNow, sbRowVars, sbRequired, sbCache, sbRequests,
                   sbSaver, sbEdits, sbSavedRow, sbEpoch>>

\* Otherwise it remembers when it began: the life of its answer counts from there.
SBMiss(r, id) ==
    /\ sbPc[r] = "idle"
    /\ ~SBUsable(sbCache[id])
    /\ sbCache' = [sbCache EXCEPT ![id] = NoAnswer]
    /\ sbPc' = [sbPc EXCEPT ![r] = "read"]
    /\ sbId' = [sbId EXCEPT ![r] = id]
    /\ sbBody' = [sbBody EXCEPT ![r] = [NoAnswer EXCEPT !.expires = sbNow + TTL]]
    /\ UNCHANGED <<sbNow, sbRowVars, sbRequired, sbSaver, sbEdits,
                   sbSavedRow, sbEpoch, sbGateHit>>

\* getClientBySubId: by the secret, else by the name unless secrets are required.
SBFinds(id) ==
    /\ sbEnabled
    /\ id = <<"secret", sbSecret>> \/ (id = Name /\ ~sbRequired)

SBDone(r) ==
    /\ sbPc' = [sbPc EXCEPT ![r] = "idle"]
    /\ sbId' = [sbId EXCEPT ![r] = Name]
    /\ sbBody' = [sbBody EXCEPT ![r] = NoAnswer]

SBRead(r) ==
    /\ sbPc[r] = "read"
    /\ IF SBFinds(sbId[r])
       THEN /\ sbPc' = [sbPc EXCEPT ![r] = "store"]
            /\ sbBody' = [sbBody EXCEPT ![r].row = sbRow,
                                        ![r].epoch = sbEpoch]
            /\ UNCHANGED sbId
       ELSE SBDone(r)
    /\ UNCHANGED <<sbNow, sbRowVars, sbRequired, sbCache,
                   sbSaver, sbEdits, sbSavedRow, sbEpoch, sbGateHit>>

\* subscriptionCacheSet.
SBStored(r) == sbBody[r]

SBStore(r) ==
    /\ sbPc[r] = "store"
    /\ sbCache' = [sbCache EXCEPT ![sbId[r]] = [SBStored(r) EXCEPT !.stored = sbEpoch]]
    /\ SBDone(r)
    /\ UNCHANGED <<sbNow, sbRowVars, sbRequired, sbSaver, sbEdits,
                   sbSavedRow, sbEpoch, sbGateHit>>

-----------------------------------------------------------------------------
(* Changes.  *)

NewRow ==
    /\ sbEdits < MaxEdits
    /\ sbEdits' = sbEdits + 1
    /\ sbRow' = sbRow + 1
    /\ sbRowUntil' = [sbRowUntil EXCEPT ![sbRow] = sbNow]

\* Save of the client commits, then clears the cache.
SBSaveClient ==
    /\ sbSaver = "idle"
    /\ NewRow
    /\ \E on \in BOOLEAN : sbEnabled' = on
    /\ sbSaver' = "clear"
    /\ UNCHANGED <<sbNow, sbSecret, sbRequired, sbCache, sbRequests,
                   sbSavedRow, sbEpoch, sbGateHit>>

\* So does Save of the settings.
SBSaveSettings ==
    /\ sbSaver = "idle" /\ sbEdits < MaxEdits
    /\ sbEdits' = sbEdits + 1
    /\ sbRequired' = ~sbRequired
    /\ sbSaver' = "clear"
    /\ UNCHANGED <<sbNow, sbRowVars, sbCache, sbRequests, sbSavedRow,
                   sbEpoch, sbGateHit>>

\* Only the answers that have expired are dropped: a wrong SBClear.
SBClearExpired ==
    /\ sbSaver = "clear"
    /\ sbCache' = [i \in Ids |-> IF SBUsable(sbCache[i]) THEN sbCache[i] ELSE NoAnswer]
    /\ sbSaver' = "idle"
    /\ sbSavedRow' = sbRow
    /\ sbEpoch' = sbEpoch + 1
    /\ UNCHANGED <<sbNow, sbRowVars, sbRequired, sbRequests, sbEdits, sbGateHit>>

\* ClearSubscriptionOutputCache.
SBClear ==
    /\ sbSaver = "clear"
    /\ sbCache' = [i \in Ids |-> NoAnswer]
    /\ sbSaver' = "idle"
    /\ sbSavedRow' = sbRow
    /\ sbEpoch' = sbEpoch + 1
    /\ UNCHANGED <<sbNow, sbRowVars, sbRequired, sbRequests, sbEdits, sbGateHit>>

\* RotateSubSecret writes the row and leaves the cache alone.
SBRotateSecret ==
    /\ NewRow
    /\ sbSecret' = sbSecret + 1
    /\ UNCHANGED <<sbNow, sbEnabled, sbRequired, sbCache, sbRequests,
                   sbSaver, sbSavedRow, sbEpoch, sbGateHit>>

\* So do the deplete job and the paid orders, and the traffic counters.
SBJobWrites ==
    /\ NewRow
    /\ sbEnabled' = FALSE
    /\ UNCHANGED <<sbNow, sbSecret, sbRequired, sbCache, sbRequests,
                   sbSaver, sbSavedRow, sbEpoch, sbGateHit>>

SBTick ==
    /\ sbNow < MaxClock
    /\ sbNow' = sbNow + 1
    /\ UNCHANGED <<sbRowVars, sbRequired, sbCache, sbRequests, sbSaver,
                   sbEdits, sbSavedRow, sbEpoch, sbGateHit>>

SBNext ==
    \/ \E r \in Requests :
          \/ \E id \in Ids : SBHit(r, id) \/ SBMiss(r, id)
          \/ SBRead(r) \/ SBStore(r)
    \/ SBSaveClient \/ SBSaveSettings \/ SBClear
    \/ SBRotateSecret \/ SBJobWrites
    \/ SBTick

SBSpec == SBInit /\ [][SBNext]_sbVars

-----------------------------------------------------------------------------
\* However slowly an answer was built and whoever changed the row meanwhile, an
\* answer the cache still gives was true at most TTL ago.
SBHitsAreRecent ==
    \A i \in Ids : SBUsable(sbCache[i]) =>
        sbRowUntil[sbCache[i].row] + TTL > sbNow

\* Once a Save has cleared the cache, only a request that had read the row
\* before can bring an older one back.
SBSaveIsSeen ==
    \A i \in Ids : SBUsable(sbCache[i]) /\ sbCache[i].row < sbSavedRow =>
        sbCache[i].epoch < sbEpoch /\ sbCache[i].stored = sbEpoch

\* Both: what subscribers get is recent.
SBOutputIsRecent == SBTypeOK /\ SBHitsAreRecent /\ SBSaveIsSeen

\* The gate of the secrets is read on every request, as the comment of the
\* settings cache says: no cached answer goes round it.
SBGateIsFresh == ~sbGateHit
=============================================================================

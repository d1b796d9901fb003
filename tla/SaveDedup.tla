----------------------------- MODULE SaveDedup -----------------------------
(***************************************************************************)
(* The guard against duplicate creates (api/save_dedup.go) around          *)
(* ApiService.Save: identical requests share one key; the key is claimed   *)
(* before the save, kept for a window after it and released when it fails. *)
(* A save that panics is neither completed nor released: its key stays     *)
(* claimed until the cap, with nothing in flight.                          *)
(* Two requests may carry the key at the same time; the ages that matter   *)
(* are those at which evict drops an entry.                                *)
(***************************************************************************)
EXTENDS Naturals, FiniteSets

CONSTANTS
    Creates,        \* identical create requests that can run at once
    MaxRows         \* bound on the rows they insert

ASSUME SaveDedupAssumption == MaxRows \in Nat

VARIABLES
    sdSeen,         \* the entry: none, in flight, in flight past the cap,
                    \* done, done past the window
    sdAt,           \* a request: idle, saving, saved, failed
    sdCapped,       \* a save has run longer than saveDedupMaxInFlight
    sdLost,         \* the entry is that of a save that panicked
    sdRecent,       \* a row was inserted by a save whose window is running
    sdRows

sdVars == <<sdSeen, sdAt, sdCapped, sdLost, sdRecent, sdRows>>

SDTypeOK ==
    /\ sdSeen \in {"none", "running", "stuck", "done", "past"}
    /\ sdAt \in [Creates -> {"idle", "saving", "saved", "failed"}]
    /\ {sdCapped, sdLost, sdRecent} \subseteq BOOLEAN /\ sdRows \in 0..MaxRows

\* The requests between their claim and their end.
SDInFlight == {r \in Creates : sdAt[r] # "idle"}

SDInit ==
    /\ sdSeen = "none" /\ sdAt = [r \in Creates |-> "idle"]
    /\ sdCapped = FALSE /\ sdLost = FALSE /\ sdRecent = FALSE /\ sdRows = 0

\* claim: evict has dropped the entries past their age.
SDDuplicate == sdSeen \in {"running", "done"}

\* Save up to the claim; a duplicate gets the current rows and is over.
SDClaim(r) ==
    /\ sdAt[r] = "idle" /\ ~SDDuplicate
    /\ sdSeen' = "running" /\ sdAt' = [sdAt EXCEPT ![r] = "saving"]
    /\ sdLost' = FALSE
    /\ UNCHANGED <<sdCapped, sdRecent, sdRows>>

\* ConfigService.Save inserts the rows or fails, and takes its time.
SDSave(r) ==
    /\ sdAt[r] = "saving"
    /\ \/ /\ sdRows < MaxRows /\ sdRows' = sdRows + 1
          /\ sdAt' = [sdAt EXCEPT ![r] = "saved"]
       \/ sdAt' = [sdAt EXCEPT ![r] = "failed"] /\ UNCHANGED sdRows
    /\ UNCHANGED <<sdSeen, sdCapped, sdLost, sdRecent>>

\* It panics, before the commit or in what follows it: the panic is raised again
\* and ends the request, which leaves its claim as it is.
SDPanic(r) ==
    /\ sdAt[r] = "saving" /\ sdAt' = [sdAt EXCEPT ![r] = "idle"]
    /\ sdLost' = (sdSeen = "running" /\ SDInFlight = {r})
    /\ \/ UNCHANGED sdRows
       \/ sdRows < MaxRows /\ sdRows' = sdRows + 1
    /\ UNCHANGED <<sdSeen, sdCapped, sdRecent>>

SDComplete(r) ==
    /\ sdAt[r] = "saved" /\ sdAt' = [sdAt EXCEPT ![r] = "idle"]
    /\ sdSeen' = IF sdSeen = "none" THEN "none" ELSE "done"
    /\ sdRecent' = TRUE
    /\ UNCHANGED <<sdCapped, sdLost, sdRows>>

\* Variant: a failed save is completed like any other.
SDReleaseKept(r) ==
    /\ sdAt[r] = "failed" /\ sdAt' = [sdAt EXCEPT ![r] = "idle"]
    /\ sdSeen' = "done"
    /\ UNCHANGED <<sdCapped, sdLost, sdRecent, sdRows>>

SDRelease(r) ==
    /\ sdAt[r] = "failed" /\ sdAt' = [sdAt EXCEPT ![r] = "idle"]
    /\ sdSeen' = "none"
    /\ UNCHANGED <<sdCapped, sdLost, sdRecent, sdRows>>

\* Time: the cap of an entry in flight, the window of a completed one.
SDAge ==
    \/ /\ sdSeen = "running" /\ sdSeen' = "stuck"
       /\ sdCapped' = (sdCapped \/ SDInFlight # {}) /\ sdLost' = FALSE
       /\ UNCHANGED <<sdAt, sdRecent, sdRows>>
    \/ /\ sdSeen = "done" /\ sdSeen' = "past" /\ sdRecent' = FALSE
       /\ UNCHANGED <<sdAt, sdCapped, sdLost, sdRows>>

SDNext ==
    \/ SDAge
    \/ \E r \in Creates : SDClaim(r) \/ SDSave(r) \/ SDPanic(r) \/ SDComplete(r) \/ SDRelease(r)

SDSpec == SDInit /\ [][SDNext]_sdVars

----------------------------------------------------------------------------

\* Unless a save outlives the cap, identical creates run one at a time and none
\* within the window of one that succeeded.  The key is held for a reason: a
\* failed create can be retried at once, and one that panicked when the cap has
\* passed, which is the only time that the key is held with nothing in flight.
SDClaimIsExact ==
    /\ SDTypeOK
    /\ ~sdCapped =>
           /\ Cardinality(SDInFlight) <= 1
           /\ sdRecent => SDInFlight = {}
           /\ SDDuplicate => SDInFlight # {} \/ sdRecent \/ sdLost
           /\ sdLost => sdSeen = "running" /\ SDInFlight = {} /\ ~sdRecent

\* "A key stays a duplicate while the first request is still IN-FLIGHT (any
\* duration ...)": two identical creates never run at the same time.
SDOneInFlight == Cardinality(SDInFlight) <= 1
=============================================================================

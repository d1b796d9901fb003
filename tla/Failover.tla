------------------------------ MODULE Failover ------------------------------
(***************************************************************************)
(* Failover groups (service/failover_*.go, cronjob/failoverJob.go,         *)
(* core/group_select.go).  The job probes the members of a group, counts   *)
(* their consecutive good samples and points the selector of the running   *)
(* core at the member SelectFailoverMember chooses.  Between two runs it   *)
(* keeps only the counters: the group may be edited, the core restarted    *)
(* with or without its cache, and members come and go meanwhile.           *)
(*                                                                         *)
(* One group: the maps of the code are keyed by its tag.  Due times are    *)
(* left out: a cycle may begin whenever none runs.                         *)
(***************************************************************************)
EXTENDS Naturals, Sequences, FiniteSets

CONSTANTS
    MemberLists,    \* the lists of members an administrator may save
    Direct,         \* the tag of the direct outbound
    Hysteresis,     \* the resolved hysteresis of the group, at least 1
    MaxOutages      \* bound on the changes of the members' health

FOTags == UNION {{l[i] : i \in DOMAIN l} : l \in MemberLists}
FOIn(l) == {l[i] : i \in DOMAIN l}

ASSUME FailoverAssumption ==
    /\ Hysteresis \in Nat \ {0} /\ MaxOutages \in Nat
    /\ \A l \in MemberLists : l \in Seq(FOTags) /\ Len(l) > 0

VARIABLES
    foMembers,      \* the list in the database; <<>> when the group is deleted
    foEnabled,      \* the group is probed
    foDirect,       \* a direct outbound exists in the database
    foGroup,        \* the group a run of the job has read: members and fallback
    foSelector,     \* the running selector: its members and the active one
    foUp,           \* the members whose outbound works
    foResults,      \* the probes of this cycle that succeeded, when "probed"
    foPhase,        \* the cycle: idle, probing, probed, read
    foCurrent,      \* the active member a cycle has read, "" of a stopped core
    foReplaced,     \* the core was stopped or started since that was read
    foRun,          \* ConsecutiveUp of a member, up to Hysteresis
    foAllDown,      \* prevAllDown
    foLive,         \* the live status published last
    foOutages

foConfig == <<foMembers, foEnabled, foDirect>>
foCycle  == <<foGroup, foResults, foPhase, foCurrent>>
foVars   == <<foConfig, foCycle, foReplaced, foSelector, foUp, foRun, foAllDown, foLive,
              foOutages>>

\* The core runs and knows the group.  Of a stopped one `now` is the cache file.
FORuns == foSelector.members # <<>>
FONotPublished == [active |-> "", allDown |-> FALSE]

FOTypeOK ==
    /\ foMembers \in MemberLists \cup {<<>>} /\ {foEnabled, foDirect} \subseteq BOOLEAN
    /\ foSelector.now \in FOTags \cup {Direct}
    /\ foUp \subseteq FOTags /\ foResults \subseteq FOTags
    /\ foPhase \in {"idle", "probing", "probed", "read"}
    /\ foCurrent \in FOTags \cup {Direct, ""} /\ foReplaced \in BOOLEAN
    /\ foRun \in [FOTags -> 0..Hysteresis] /\ foAllDown \in BOOLEAN
    /\ foOutages \in 0..MaxOutages

----------------------------------------------------------------------------

FOIndex(l, tag) == CHOOSE i \in DOMAIN l : l[i] = tag
FOFirst(l, ok)  == l[CHOOSE i \in DOMAIN l :
                        l[i] \in ok /\ \A j \in 1..(i - 1) : l[j] \notin ok]

\* Variant: a member that is up once wins over a healthy junior.
FOSelectEager(l, run, current, fallback) ==
    LET up == {m \in FOIn(l) : run[m] >= 1}
    IN  IF up # {} THEN FOFirst(l, up) ELSE IF fallback # "" THEN fallback ELSE l[1]

\* SelectFailoverMember: strict priority down at once, and up only to a member
\* that is confirmed; everything down goes to the direct outbound.
FOSelect(l, run, current, fallback) ==
    LET up        == {m \in FOIn(l) : run[m] >= 1}
        confirmed == {m \in FOIn(l) : run[m] >= Hysteresis}
    IN  IF up = {} THEN IF fallback # "" THEN fallback ELSE l[1]
        ELSE IF current \notin up THEN FOFirst(l, up)
        ELSE IF /\ confirmed # {}
                /\ FOIndex(l, FOFirst(l, confirmed)) < FOIndex(l, current)
             THEN FOFirst(l, confirmed)
        ELSE current

\* assembleFailoverForCore: the members, the direct outbound when it is not one
\* of them, the first member as the default.
FOAssembled(l) ==
    IF foDirect /\ Direct \notin FOIn(l) THEN Append(l, Direct) ELSE l

FOInit ==
    /\ foMembers \in MemberLists /\ foEnabled = TRUE /\ foDirect \in BOOLEAN
    /\ foGroup = [members |-> <<>>, fallback |-> ""]
    /\ foSelector = [members |-> FOAssembled(foMembers), now |-> foMembers[1]]
    /\ foUp = FOTags /\ foResults = {} /\ foPhase = "idle"
    /\ foCurrent = "" /\ foReplaced = FALSE
    /\ foRun = [m \in FOTags |-> 0] /\ foAllDown = FALSE
    /\ foLive = FONotPublished /\ foOutages = 0

\* A member stops or starts to work.
FOChange(m) ==
    /\ foOutages < MaxOutages /\ foOutages' = foOutages + 1
    /\ foUp' = IF m \in foUp THEN foUp \ {m} ELSE foUp \cup {m}
    /\ UNCHANGED <<foConfig, foCycle, foReplaced, foSelector, foRun, foAllDown, foLive>>

\* A save of the outbounds, validated: the members, whether they are probed,
\* or the direct outbound.  The core that runs has it after its restart.
FOEdit ==
    /\ foOutages < MaxOutages /\ foOutages' = foOutages + 1
    /\ \/ foMembers' \in (MemberLists \cup {<<>>}) \ {foMembers}
          /\ UNCHANGED <<foEnabled, foDirect>>
       \/ foEnabled' = ~foEnabled /\ UNCHANGED <<foMembers, foDirect>>
       \/ foDirect' = ~foDirect /\ UNCHANGED <<foMembers, foEnabled>>
    /\ UNCHANGED <<foCycle, foReplaced, foSelector, foUp, foRun, foAllDown, foLive>>

\* The core starts, from the database, when it is stopped or outdated: the
\* selector takes its default, or the member its cache file remembers.
FOOutdated == foMembers # <<>> /\ foSelector.members # FOAssembled(foMembers)

FORestartCore ==
    /\ FOOutdated
    /\ foSelector' = [members |-> FOAssembled(foMembers), now |-> foMembers[1]]
    /\ foReplaced' = (foPhase = "read")
    /\ UNCHANGED <<foConfig, foCycle, foUp, foRun, foAllDown, foLive, foOutages>>

FORestartCached ==
    /\ FOOutdated /\ foSelector.now \in FOIn(FOAssembled(foMembers))
    /\ foSelector' = [foSelector EXCEPT !.members = FOAssembled(foMembers)]
    /\ foReplaced' = (foPhase = "read")
    /\ UNCHANGED <<foConfig, foCycle, foUp, foRun, foAllDown, foLive, foOutages>>

FOStopCore ==
    /\ foOutages < MaxOutages /\ foOutages' = foOutages + 1
    /\ FORuns /\ foSelector' = [foSelector EXCEPT !.members = <<>>]
    /\ foReplaced' = (foPhase = "read")
    /\ UNCHANGED <<foConfig, foCycle, foUp, foRun, foAllDown, foLive>>

----------------------------------------------------------------------------

\* Run: the groups of the database, the running core, the fallback.
FOBegin ==
    /\ foPhase = "idle" /\ foEnabled /\ foMembers # <<>> /\ FORuns
    /\ foPhase' = "probing" /\ foResults' = {}
    /\ foGroup' = [members  |-> foMembers,
                   fallback |-> IF foDirect /\ Direct \notin FOIn(foMembers)
                                THEN Direct ELSE ""]
    /\ UNCHANGED <<foConfig, foCurrent, foReplaced, foSelector, foUp, foRun, foAllDown, foLive, foOutages>>

\* PruneFailoverLiveStatus, at the head of Run, for a group that is gone.
FOPrune ==
    /\ foPhase = "idle" /\ foMembers = <<>> /\ foLive # FONotPublished
    /\ foLive' = FONotPublished
    /\ UNCHANGED <<foConfig, foCycle, foReplaced, foSelector, foUp, foRun, foAllDown,
                   foOutages>>

\* probeMembers and the merge of its results; without a core every probe fails.
\* The counters of members that left the list stay as they are.
FOProbe ==
    /\ foPhase = "probing" /\ foPhase' = "probed"
    /\ foResults' = IF FORuns THEN foUp \cap FOIn(foGroup.members) ELSE {}
    /\ foRun' = [m \in FOTags |->
                    IF m \notin FOIn(foGroup.members) THEN foRun[m]
                    ELSE IF m \notin foResults' THEN 0
                    ELSE IF foRun[m] < Hysteresis THEN foRun[m] + 1 ELSE foRun[m]]
    /\ UNCHANGED <<foConfig, foGroup, foCurrent, foReplaced, foSelector, foUp, foAllDown,
                   foLive, foOutages>>

\* GroupNow: the active member of the running core.
FORead ==
    /\ foPhase = "probed" /\ foPhase' = "read"
    /\ foCurrent' = IF FORuns THEN foSelector.now ELSE ""
    /\ foReplaced' = FALSE
    /\ UNCHANGED <<foConfig, foGroup, foResults, foSelector, foUp, foRun, foAllDown, foLive,
                   foOutages>>

FOTarget == FOSelect(foGroup.members, foRun, foCurrent, foGroup.fallback)

\* SelectGroupMember refuses a member the selector that now runs does not have.
FOSwitched == FOTarget # foCurrent /\ FOTarget \in FOIn(foSelector.members)

\* The decision on what was read, the switch of whatever core runs by now, the
\* live status, the alert.
FODecide ==
    /\ foPhase = "read" /\ foPhase' = "idle"
    /\ foSelector' = IF FOSwitched THEN [foSelector EXCEPT !.now = FOTarget] ELSE foSelector
    /\ foAllDown' = (foResults = {})
    /\ foLive' = [active  |-> IF FOSwitched THEN FOTarget ELSE foCurrent,
                  allDown |-> foAllDown']
    /\ foGroup' = [members |-> <<>>, fallback |-> ""] /\ foResults' = {}
    /\ foCurrent' = "" /\ foReplaced' = FALSE
    /\ UNCHANGED <<foConfig, foUp, foRun, foOutages>>

FONext ==
    \/ \E m \in FOTags : FOChange(m)
    \/ FOEdit \/ FORestartCore \/ FORestartCached \/ FOStopCore
    \/ FOBegin \/ FOPrune \/ FOProbe \/ FORead \/ FODecide

FOSpec == FOInit /\ [][FONext]_foVars

\* The scheduler runs the job again and again and a run does not hang: probes
\* have a deadline.  A stopped or outdated core is started again.
FOFairness ==
    /\ WF_foVars(FOBegin) /\ WF_foVars(FOProbe)
    /\ WF_foVars(FORead) /\ WF_foVars(FODecide)
    /\ WF_foVars(FORestartCore \/ FORestartCached)

----------------------------------------------------------------------------

\* A move from a working member goes to a senior one that passed the last
\* Hysteresis probes: one good sample of a flapping primary moves nothing.
FOConfirmed(from) ==
    /\ FOIndex(foGroup.members, foSelector'.now) < FOIndex(foGroup.members, from)
    /\ foRun[foSelector'.now] = Hysteresis

\* A switch never goes to a member that failed its probe while another passed.
\* It moves for a confirmed senior only when the member it has read works; so
\* does the traffic that really moves, unless the core was stopped or started
\* between the reading and the switch: then the decision is about a selector
\* that is gone, and one good sample may move the new one.
FONoFlap ==
    [][ FODecide /\ foSelector' # foSelector
        => /\ foResults # {} => foSelector'.now \in foResults
           /\ foCurrent \in foResults => FOConfirmed(foCurrent)
           /\ foSelector.now \in foResults => FOConfirmed(foSelector.now) \/ foReplaced
      ]_foVars

\* Once the members are quiet the selector comes to rest on the first one that
\* works, whatever restarts, edits and cached choices came before, as long as
\* the group exists and is probed; with none it rests on the direct outbound.
FOBest ==
    LET l == foMembers  up == foUp \cap FOIn(l)
    IN  IF up # {} THEN FOFirst(l, up)
        ELSE IF foDirect /\ Direct \notin FOIn(l) THEN Direct ELSE l[1]

FOSettles == <>[](foMembers # <<>> /\ foEnabled => foSelector.now = FOBest)

\* The group is calm while its members flap (and, by FOSettles, right when they
\* are quiet).
FOStaysCalm == []FOTypeOK /\ FONoFlap
=============================================================================

----------------------------- MODULE UpdateCheck -----------------------------
(***************************************************************************)
(* The check for a newer release: the cached conditional requests per      *)
(* channel (service/update.go, service/update_github.go) and the request   *)
(* that starts an update (api/apiUpdate.go).                               *)
(***************************************************************************)
EXTENDS Versions, FiniteSets

CONSTANTS Checkers,      \* requests that may be checking at one time
          MaxPublished,  \* releases published in a behaviour
          MaxChecks,     \* checks begun
          MaxResets      \* resets of the caches by a restored backup

ASSUME UpdateCheckAssumption == /\ MaxPublished \in Nat /\ MaxChecks \in Nat
                                /\ MaxResets \in Nat

UCChannels == {"main", "beta"}
-----------------------------------------------------------------------------
(* The releases of the example: a stable one, its successor's beta, the    *)
(* successor, a tag that is no version; one without the platform's asset.  *)
UCRelease(tag, version, asset) == [tag |-> tag, version |-> version, asset |-> asset]
UCNoRelease == UCRelease("none", NoVersion, FALSE)
UCCurrent == VXVersion(1, 5, 11, <<>>)
UCReleases == {UCRelease("v1.5.11", UCCurrent, TRUE),
             UCRelease("v1.6.0-beta2", VXVersion(1, 6, 0, <<<<1, 1>>>>), TRUE),
             UCRelease("v1.6.0", VXVersion(1, 6, 0, <<>>), TRUE),
             UCRelease("v1.7.0", VXVersion(1, 7, 0, <<>>), FALSE),
             UCRelease("nightly", NoVersion, TRUE)}
UCStable(r) == r.version.ok /\ r.version.pre = <<>>

\* selectBetaRelease walks the list, newest first.
UCBetter(best, r) == IF best = UCNoRelease \/ VXAbove(r.version, best.version) THEN r ELSE best
SelectBetaRelease(list) ==
  LET best[n \in 0..Len(list)] == IF n = 0 THEN UCNoRelease ELSE UCBetter(best[n - 1], list[n])
  IN best[Len(list)]
UCStableAt(list) == {i \in 1..Len(list) : UCStable(list[i])}
\* What the service answers on a channel: the list, or the last stable release.
UCAnswer(ch, published) ==
  IF ch = "beta" THEN SelectBetaRelease(published)
  ELSE LET stable == UCStableAt(published)
       IN IF stable = {} THEN UCNoRelease
          ELSE published[CHOOSE i \in stable : \A j \in stable : i <= j]
\* The entity tag of an answer changes when the answer does.
UCETag(ch, published) ==
  IF ch = "beta" THEN Len(published) ELSE Cardinality(UCStableAt(published))

VARIABLES ucPublished,   \* the releases the service knows, newest first
          ucCache,       \* versionCheckState.channels: release and entity tag
          ucRequest,     \* the request of each checker, or idle
          ucStarted,     \* history: the updates started, with the version confirmed
          ucOvertaken,   \* history: a store or a reset overtook a request that was out
          ucChecks, ucResets
ucVars == <<ucPublished, ucCache, ucRequest, ucStarted, ucOvertaken, ucChecks, ucResets>>

UCEmpty == [release |-> UCNoRelease, etag |-> 0, checked |-> FALSE]
UCIdle == [phase |-> "idle", ch |-> "main", etag |-> 0, apply |-> UCNoRelease,
         kind |-> "none", release |-> UCNoRelease]
UCInit == /\ ucPublished = <<>> /\ ucStarted = {} /\ ucOvertaken = FALSE
          /\ ucCache = [ch \in UCChannels |-> UCEmpty]
          /\ ucRequest = [c \in Checkers |-> UCIdle]
          /\ ucChecks = 0 /\ ucResets = 0

UCPublish == /\ Len(ucPublished) < MaxPublished
             /\ \E r \in UCReleases : /\ \A i \in DOMAIN ucPublished : ucPublished[i] # r
                                    /\ ucPublished' = <<r>> \o ucPublished
             /\ UNCHANGED <<ucCache, ucRequest, ucStarted, ucOvertaken, ucChecks, ucResets>>

\* A check within the hour answers from the cache; a forced one, or the first,
\* or the step of an update that resolves its target, leaves with the entity tag
\* the cache holds.  The lock is released while the request is out.
UCSend(c, apply) ==
  /\ ucRequest[c].phase = "idle" /\ ucChecks < MaxChecks
  /\ \E ch \in UCChannels :
        ucRequest' = [ucRequest EXCEPT ![c] =
          [UCIdle EXCEPT !.phase = "sent", !.ch = ch, !.etag = ucCache[ch].etag,
                       !.apply = apply]]
  /\ ucChecks' = ucChecks + 1
  /\ UNCHANGED <<ucPublished, ucCache, ucStarted, ucOvertaken, ucResets>>
UCCheck(c) == UCSend(c, UCNoRelease)
\* The administrator confirms the release a check has shown.
UCApply(c) == \E ch \in UCChannels : /\ ucCache[ch].release # UCNoRelease
                                   /\ UCSend(c, ucCache[ch].release)

\* doReleaseRequest: not modified, a body, or an error (also when the main
\* channel has no release yet); the answer takes its time to come back.
UCReply(c) ==
  LET q == ucRequest[c]
      tag == UCETag(q.ch, ucPublished)
      reply(kind, release, etag) ==
        ucRequest' = [ucRequest EXCEPT ![c] =
          [q EXCEPT !.phase = "answered", !.kind = kind, !.release = release,
                    !.etag = etag]]
  IN /\ q.phase = "sent"
     /\ \/ reply("error", UCNoRelease, 0)
        \/ q.etag # 0 /\ q.etag = tag /\ reply("not modified", UCNoRelease, tag)
        \/ /\ q.etag = 0 \/ q.etag # tag
           /\ q.ch = "beta" \/ UCAnswer(q.ch, ucPublished) # UCNoRelease
           /\ reply("body", UCAnswer(q.ch, ucPublished), tag)
     /\ UNCHANGED <<ucPublished, ucCache, ucStarted, ucOvertaken, ucChecks, ucResets>>

\* Mutant: the tag of a body that could not be read is remembered.
UCStoredErrorTag(old, q) ==
  CASE q.kind = "error" -> [old EXCEPT !.checked = TRUE, !.etag = UCETag(q.ch, ucPublished)]
    [] q.kind = "not modified" -> [old EXCEPT !.checked = TRUE, !.etag = q.etag]
    [] q.kind = "body" -> [release |-> q.release, etag |-> q.etag, checked |-> TRUE]
\* cachedReleaseForChannel stores the answer under the lock; an error keeps the
\* release of before.
UCStored(old, q) ==
  CASE q.kind = "error" -> [old EXCEPT !.checked = TRUE]
    [] q.kind = "not modified" -> [old EXCEPT !.checked = TRUE, !.etag = q.etag]
    [] q.kind = "body" -> [release |-> q.release, etag |-> q.etag, checked |-> TRUE]
\* ResolveTarget and targetVersionMatches: the update starts when the release is
\* newer than the one that runs, has the asset of this platform, and is the one
\* confirmed.
UCStartable(release, confirmed) == /\ VersionIsNewer(release.version, UCCurrent)
                                 /\ release.asset
                                 /\ confirmed.tag = release.tag
UCOut(c) == ucRequest[c].phase # "idle"
UCStore(c) ==
  LET q == ucRequest[c]
      entry == UCStored(ucCache[q.ch], q)
  IN /\ q.phase = "answered"
     /\ ucCache' = [ucCache EXCEPT ![q.ch] = entry]
     /\ ucRequest' = [ucRequest EXCEPT ![c] = UCIdle]
     /\ ucStarted' = IF q.apply # UCNoRelease /\ UCStartable(entry.release, q.apply)
                       THEN ucStarted \cup {[release |-> entry.release, from |-> q.apply]}
                       ELSE ucStarted
     /\ ucOvertaken' = (ucOvertaken \/ \E d \in Checkers \ {c} : UCOut(d) /\ ucRequest[d].ch = q.ch)
     /\ UNCHANGED <<ucPublished, ucChecks, ucResets>>

\* resetVersionCheckCache, the hook a restored backup runs.
UCReset == /\ ucResets < MaxResets /\ ucResets' = ucResets + 1
           /\ ucCache' = [ch \in UCChannels |-> UCEmpty]
           /\ ucOvertaken' = (ucOvertaken \/ \E c \in Checkers : UCOut(c))
           /\ UNCHANGED <<ucPublished, ucRequest, ucStarted, ucChecks>>

UCNext == \/ UCPublish \/ UCReset
          \/ \E c \in Checkers : UCCheck(c) \/ UCApply(c) \/ UCReply(c) \/ UCStore(c)
UCSpec == UCInit /\ [][UCNext]_ucVars
-----------------------------------------------------------------------------
UCTypeOK == /\ ucPublished \in Seq(UCReleases) /\ ucCache \in [UCChannels ->
                 [release : UCReleases \cup {UCNoRelease}, etag : Nat, checked : BOOLEAN]]
            /\ ucStarted \subseteq [release : UCReleases, from : UCReleases]

\* An entity tag in the cache stands for the release next to it: the answer the
\* service gave under that tag.  Otherwise "not modified" would keep a wrong
\* release, or none, until the next publication.  Errors, forced checks and
\* resets in any order keep the pair together.  Overtaking does not: a reset, or
\* an older answer, stored while a conditional request is out is joined by the
\* "not modified" that comes back for another release.
UCEtagMatches ==
  ~ucOvertaken =>
    \A ch \in UCChannels :
      ucCache[ch].etag # 0 =>
        \E n \in 0..Len(ucPublished) :
          LET then == SubSeq(ucPublished, n + 1, Len(ucPublished))
          IN /\ UCETag(ch, then) = ucCache[ch].etag
             /\ UCAnswer(ch, then) = ucCache[ch].release

\* An update that starts leads to a version above the running one and above
\* every pre-release of it, whatever was published between the check and the
\* confirmation (ResolveTarget, FR-016).
UCInstallsUpwards ==
  \A u \in ucStarted : u.release = u.from /\ VXAbove(u.release.version, UCCurrent)
\* A check finds what is published and an update leads upwards.
UCUpdatesAreSound == UCTypeOK /\ UCEtagMatches /\ UCInstallsUpwards

\* The comment of selectBetaRelease: the highest semver, drafts apart.
UCBetaIsHighest ==
  \A i \in DOMAIN ucPublished :
    ~VXAbove(ucPublished[i].version, SelectBetaRelease(ucPublished).version)
       /\ (ucPublished[i].version.ok => SelectBetaRelease(ucPublished).version.ok)
=============================================================================

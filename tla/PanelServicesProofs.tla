------------------------ MODULE PanelServicesProofs -------------------------
(***************************************************************************)
(* Theorems about the machinery of the panel that runs by itself, one      *)
(* section for each part, and about their composition: the guard of        *)
(* repeated creates, the audit writer, the debouncer of token uses, the    *)
(* realtime hub and the failover groups.                                   *)
(***************************************************************************)
EXTENDS PanelServices, WellFoundedInduction, FunctionTheorems, FiniteSetTheorems, SequenceTheorems, TLAPS

-----------------------------------------------------------------------------
(***************************************************************************)
(* Theorems about SaveDedup, for any number of identical creates.          *)
(*                                                                         *)
(* SDClaimIsExact is not inductive: that nobody saves within the window    *)
(* needs that the entry of a window is still there, and that one request   *)
(* saves at a time needs that its entry stays in flight until it is over.  *)
(***************************************************************************)

\* Before any save outlives the cap, the entry says what is going on: one
\* request is at work, or one that panicked was, or none is and the window runs
\* exactly for "done".
EntryTells ==
    ~sdCapped =>
        \/ sdSeen = "running" /\ ~sdRecent /\ ~sdLost /\ \E r \in Creates : SDInFlight = {r}
        \/ sdSeen = "running" /\ ~sdRecent /\ sdLost /\ SDInFlight = {}
        \/ /\ sdSeen \in {"none", "stuck", "done", "past"} /\ ~sdLost
           /\ SDInFlight = {} /\ (sdRecent <=> (sdSeen = "done"))

SDInv == SDTypeOK /\ EntryTells

\* The invariant holds before the first request.
LEMMA SDInitInv == SDInit => SDInv
<1> SUFFICES ASSUME SDInit PROVE SDInv
  OBVIOUS
<1>1. SDInFlight = {}
  BY DEF SDInit, SDInFlight
<1>2. SDTypeOK
  <2>1. sdAt \in [Creates -> {"idle", "saving", "saved", "failed"}]
    BY DEF SDInit
  <2>2. {sdCapped, sdLost, sdRecent} \subseteq BOOLEAN
    BY DEF SDInit
  <2>3. sdRows \in 0..MaxRows
    BY SaveDedupAssumption DEF SDInit
  <2>4. sdSeen \in {"none", "running", "stuck", "done", "past"}
    BY DEF SDInit
  <2> QED BY <2>1, <2>2, <2>3, <2>4 DEF SDTypeOK
<1>3. EntryTells
  <2>1. sdSeen = "none" /\ ~sdRecent /\ ~sdLost
    BY DEF SDInit
  <2> QED BY <1>1, <2>1 DEF EntryTells
<1> QED BY <1>2, <1>3 DEF SDInv

\* Every step keeps it: a claim finds no request at work, the request at work
\* is the one that completes or releases, and only time ends a window.
LEMMA SDNextInv == SDInv /\ [SDNext]_sdVars => SDInv'
<1> SUFFICES ASSUME SDInv, [SDNext]_sdVars PROVE SDInv'
  OBVIOUS
<1> USE DEF SDInv
<1>1. CASE SDAge
  <2>1. SDInFlight' = SDInFlight
    BY <1>1 DEF SDAge, SDInFlight
  <2>2. CASE sdSeen = "running" /\ sdSeen' = "stuck"
    <3>1. /\ sdCapped' = (sdCapped \/ SDInFlight # {}) /\ sdLost' = FALSE
          /\ UNCHANGED <<sdAt, sdRecent, sdRows>>
      BY <1>1, <2>2 DEF SDAge
    <3>2. SDTypeOK'
      <4>1. sdCapped' \in BOOLEAN /\ sdLost' \in BOOLEAN /\ sdRecent' \in BOOLEAN
        BY <3>1 DEF SDTypeOK
      <4>2. UNCHANGED <<sdAt, sdRows>> /\ sdSeen' = "stuck"
        BY <2>2, <3>1
      <4> QED BY <4>1, <4>2 DEF SDTypeOK
    <3>3. EntryTells'
      BY <2>1, <2>2, <3>1 DEF EntryTells
    <3> QED BY <3>2, <3>3
  <2>3. CASE sdSeen = "done" /\ sdSeen' = "past"
    <3>1. sdRecent' = FALSE /\ UNCHANGED <<sdAt, sdCapped, sdLost, sdRows>>
      BY <1>1, <2>3 DEF SDAge
    <3>2. SDTypeOK'
      <4>1. sdCapped' \in BOOLEAN /\ sdLost' \in BOOLEAN /\ sdRecent' \in BOOLEAN
        BY <3>1 DEF SDTypeOK
      <4>2. UNCHANGED <<sdAt, sdRows>> /\ sdSeen' = "past"
        BY <2>3, <3>1
      <4> QED BY <4>1, <4>2 DEF SDTypeOK
    <3>3. EntryTells'
      BY <2>1, <2>3, <3>1 DEF EntryTells
    <3> QED BY <3>2, <3>3
  <2> QED BY <1>1, <2>2, <2>3 DEF SDAge
<1>2. ASSUME NEW r \in Creates, SDClaim(r) PROVE SDInv'
  <2>1. SDTypeOK'
    BY <1>2 DEF SDClaim, SDTypeOK
  <2>2. SDInFlight' = SDInFlight \cup {r}
    BY <1>2 DEF SDClaim, SDTypeOK, SDInFlight
  <2> QED BY <1>2, <2>1, <2>2 DEF SDClaim, SDDuplicate, EntryTells
<1>3. ASSUME NEW r \in Creates, SDSave(r) PROVE SDInv'
  <2>1. SDTypeOK'
    BY <1>3, SaveDedupAssumption DEF SDSave, SDTypeOK
  <2>2. SDInFlight' = SDInFlight
    BY <1>3 DEF SDSave, SDTypeOK, SDInFlight
  <2> QED BY <1>3, <2>1, <2>2 DEF SDSave, EntryTells
<1>4. ASSUME NEW r \in Creates, SDComplete(r) PROVE SDInv'
  <2>1. SDTypeOK'
    BY <1>4 DEF SDComplete, SDTypeOK
  <2>2. r \in SDInFlight /\ SDInFlight' = SDInFlight \ {r}
    BY <1>4 DEF SDComplete, SDTypeOK, SDInFlight
  <2> QED BY <1>4, <2>1, <2>2 DEF SDComplete, EntryTells
<1>5. ASSUME NEW r \in Creates, SDRelease(r) PROVE SDInv'
  <2>1. SDTypeOK'
    BY <1>5 DEF SDRelease, SDTypeOK
  <2>2. r \in SDInFlight /\ SDInFlight' = SDInFlight \ {r}
    BY <1>5 DEF SDRelease, SDTypeOK, SDInFlight
  <2> QED BY <1>5, <2>1, <2>2 DEF SDRelease, EntryTells
<1>7. ASSUME NEW r \in Creates, SDPanic(r) PROVE SDInv'
  <2>1. SDTypeOK'
    BY <1>7, SaveDedupAssumption DEF SDPanic, SDTypeOK
  <2>2. r \in SDInFlight /\ SDInFlight' = SDInFlight \ {r}
    BY <1>7 DEF SDPanic, SDTypeOK, SDInFlight
  <2>3. EntryTells'
    <3>1. /\ sdSeen' = sdSeen /\ sdCapped' = sdCapped /\ sdRecent' = sdRecent
          /\ sdLost' = (sdSeen = "running" /\ SDInFlight = {r})
      BY <1>7 DEF SDPanic
    <3> QED BY <2>2, <3>1 DEF EntryTells
  <2> QED BY <2>1, <2>3
<1>6. CASE UNCHANGED sdVars
  BY <1>6 DEF sdVars, SDTypeOK, EntryTells, SDInFlight
<1> QED BY <1>1, <1>2, <1>3, <1>4, <1>5, <1>6, <1>7 DEF SDNext

\* The invariant holds in every behaviour of the guard.
THEOREM EntryAlwaysTells == SDSpec => []SDInv
  BY SDInitInv, SDNextInv, PTL DEF SDSpec

\* Identical creates run one at a time and none in the window of one that
\* succeeded, and a failed one frees the key (save_dedup.go, ApiService.Save).
THEOREM ClaimIsExact == SDSpec => []SDClaimIsExact
<1>1. ASSUME SDInv PROVE SDClaimIsExact
  <2>1. ASSUME ~sdCapped PROVE Cardinality(SDInFlight) <= 1
    <3>1. CASE \E r \in Creates : SDInFlight = {r}
      BY <3>1, FS_Singleton
    <3>2. CASE SDInFlight = {}
      BY <3>2, FS_EmptySet
    <3> QED BY <1>1, <2>1, <3>1, <3>2 DEF SDInv, EntryTells
  <2> QED BY <1>1, <2>1 DEF SDInv, EntryTells, SDClaimIsExact, SDDuplicate
<1> QED BY <1>1, EntryAlwaysTells, PTL

-----------------------------------------------------------------------------
(* The audit writer.  An event is known by the position of its push: the   *)
(* queue, the batch and the table are in the order of the pushes, one      *)
(* after the other, and what was dropped or lost is in none of them.       *)

AWSorted(s) == \A i, j \in 1..Len(s) : i < j => s[i].at < s[j].at
AWBelow(s, t) == \A i \in 1..Len(s), j \in 1..Len(t) : s[i].at < t[j].at
AWHas(s, e) == \E i \in 1..Len(s) : s[i] = e
AWKept(e) == AWHas(written, e) \/ AWHas(batch, e) \/ AWHas(queue, e)
AWGone == dropped \cup lost

AWOrder == /\ AWSorted(written) /\ AWSorted(batch) /\ AWSorted(queue)
           /\ AWBelow(written, batch) /\ AWBelow(written, queue) /\ AWBelow(batch, queue)
AWPlaces == /\ \A e \in Event : AWKept(e) \/ e \in AWGone => e.at \in 1..pushes
            /\ \A n \in 1..pushes : \E e \in Event : e.at = n /\ (AWKept(e) \/ e \in AWGone)
            /\ \A e \in Event, f \in AWGone : AWKept(e) => e.at # f.at
AWCounts == /\ IsFiniteSet(dropped) /\ IsFiniteSet(lost)
            /\ Len(written) + Len(batch) + Len(queue) + Cardinality(dropped) + Cardinality(lost) = pushes
AWRun == /\ ~started => runPc = "none"
         /\ runPc \in {"drain", "flush", "done"} => stopped
         /\ runPc \in {"none", "run", "wait", "drain", "done"} => batch = <<>>
         /\ runPc = "done" => queue = <<>>
AWInv == TypeOK /\ AWOrder /\ AWPlaces /\ AWCounts /\ AWRun /\ NoLostSignal

\* A set of numbers that is not empty has a least one.
LEMMA AWLeastExists ==
  ASSUME NEW S, S \subseteq Nat, S # {}
  PROVE  \E i \in S : \A j \in S : i <= j
<1> DEFINE Below == {ss \in Nat \X Nat : ss[1] < ss[2]}
<1>1. IsWellFoundedOn(Below, Nat)
  BY NatLessThanWellFounded DEF OpToRel
<1>2. \A i, j \in Nat : <<j, i>> \in Below <=> j < i
  OBVIOUS
<1> HIDE DEF Below
<1>3. PICK i \in S : \A j \in S : ~ (<<j, i>> \in Below)
  BY <1>1, WFMin
<1>4. ASSUME NEW j \in S PROVE i <= j
  <2>1. i \in Nat /\ j \in Nat
    OBVIOUS
  <2>2. ~ (j < i)
    BY <1>2, <1>3, <2>1
  <2> QED BY <2>1, <2>2
<1> QED BY <1>4

\* Sequences that follow each other are one sequence in order.
LEMMA AWSortedConcat ==
  ASSUME NEW s \in Seq(Event), NEW t \in Seq(Event)
  PROVE  AWSorted(s \o t) <=> AWSorted(s) /\ AWSorted(t) /\ AWBelow(s, t)
<1> DEFINE u == s \o t
<1>1. PICK m \in Nat, n \in Nat : m = Len(s) /\ n = Len(t)
  BY LenProperties
<1>2. Len(u) = m + n /\ (\A i \in 1..m : u[i] = s[i]) /\ \A j \in 1..n : u[m + j] = t[j]
  BY <1>1, ConcatProperties
<1> HIDE DEF u
<1>3. ASSUME AWSorted(u) PROVE AWSorted(s) /\ AWSorted(t) /\ AWBelow(s, t)
  <2>1. \A i, j \in 1..(m + n) : i < j => u[i].at < u[j].at
    BY <1>2, <1>3 DEF AWSorted
  <2>2. AWSorted(s)
    BY <1>1, <1>2, <2>1 DEF AWSorted
  <2>3. AWSorted(t)
    <3>1. ASSUME NEW i \in 1..n, NEW j \in 1..n, i < j PROVE t[i].at < t[j].at
      <4>1. m + i \in 1..(m + n) /\ m + j \in 1..(m + n) /\ m + i < m + j
        BY <1>1, <3>1
      <4> QED BY <1>2, <2>1, <4>1
    <3> QED BY <1>1, <3>1 DEF AWSorted
  <2>4. AWBelow(s, t)
    <3>1. ASSUME NEW i \in 1..m, NEW j \in 1..n PROVE s[i].at < t[j].at
      <4>1. i \in 1..(m + n) /\ m + j \in 1..(m + n) /\ i < m + j
        BY <1>1, <3>1
      <4> QED BY <1>2, <2>1, <4>1
    <3> QED BY <1>1, <3>1 DEF AWBelow
  <2> QED BY <2>2, <2>3, <2>4
<1>4. ASSUME AWSorted(s), AWSorted(t), AWBelow(s, t) PROVE AWSorted(u)
  <2>1. ASSUME NEW i \in 1..(m + n), NEW j \in 1..(m + n), i < j PROVE u[i].at < u[j].at
    <3>1. CASE j <= m
      <4>1. i \in 1..m /\ j \in 1..m
        BY <1>1, <2>1, <3>1
      <4> QED BY <1>1, <1>2, <1>4, <2>1, <4>1 DEF AWSorted
    <3>2. CASE j > m
      <4>1. PICK l \in 1..n : j = m + l
        <5>1. j - m \in 1..n /\ j = m + (j - m)
          BY <1>1, <2>1, <3>2
        <5> QED BY <5>1
      <4>2. CASE i <= m
        <5>1. i \in 1..m
          BY <1>1, <2>1, <4>2
        <5> QED BY <1>1, <1>2, <1>4, <4>1, <5>1 DEF AWBelow
      <4>3. CASE i > m
        <5>1. PICK k \in 1..n : i = m + k
          <6>1. i - m \in 1..n /\ i = m + (i - m)
            BY <1>1, <2>1, <4>3
          <6> QED BY <6>1
        <5>2. k < l
          BY <1>1, <2>1, <4>1, <5>1
        <5> QED BY <1>1, <1>2, <1>4, <4>1, <5>1, <5>2 DEF AWSorted
      <4> QED BY <1>1, <2>1, <4>2, <4>3
    <3> QED BY <1>1, <2>1, <3>1, <3>2
  <2> QED BY <1>2, <2>1 DEF AWSorted
<1> QED BY <1>3, <1>4 DEF u

LEMMA AWHasConcat ==
  ASSUME NEW s \in Seq(Event), NEW t \in Seq(Event), NEW e
  PROVE  AWHas(s \o t, e) <=> AWHas(s, e) \/ AWHas(t, e)
<1> DEFINE u == s \o t
<1>1. PICK m \in Nat, n \in Nat : m = Len(s) /\ n = Len(t)
  BY LenProperties
<1>2. Len(u) = m + n /\ (\A i \in 1..m : u[i] = s[i]) /\ \A j \in 1..n : u[m + j] = t[j]
  BY <1>1, ConcatProperties
<1> HIDE DEF u
<1>3. ASSUME NEW i \in 1..(m + n), u[i] = e PROVE AWHas(s, e) \/ AWHas(t, e)
  <2>1. CASE i <= m
    BY <1>1, <1>2, <1>3, <2>1 DEF AWHas
  <2>2. CASE i > m
    <3>1. i - m \in 1..n /\ i = m + (i - m)
      BY <1>1, <1>3, <2>2
    <3> QED BY <1>1, <1>2, <1>3, <3>1 DEF AWHas
  <2> QED BY <1>1, <1>3, <2>1, <2>2
<1>4. ASSUME NEW i \in 1..m, s[i] = e PROVE AWHas(u, e)
  <2>1. i \in 1..(m + n)
    BY <1>1, <1>4
  <2> QED BY <1>2, <1>4, <2>1 DEF AWHas
<1>5. ASSUME NEW j \in 1..n, t[j] = e PROVE AWHas(u, e)
  <2>1. m + j \in 1..(m + n)
    BY <1>1, <1>5
  <2> QED BY <1>2, <1>5, <2>1 DEF AWHas
<1> QED BY <1>1, <1>2, <1>3, <1>4, <1>5 DEF AWHas, u

\* Without removes one element, and keeps the others in their order.
LEMMA AWWithoutFacts ==
  ASSUME NEW q \in Seq(Event), NEW v \in 1..Len(q)
  PROVE  /\ Without(q, v) \in Seq(Event) /\ Len(Without(q, v)) = Len(q) - 1
         /\ \A i \in 1..(Len(q) - 1) : Without(q, v)[i] = IF i < v THEN q[i] ELSE q[i + 1]
<1> DEFINE a == SubSeq(q, 1, v - 1)
           b == SubSeq(q, v + 1, Len(q))
<1>1. PICK n \in Nat : n = Len(q)
  BY LenProperties
<1>2. v \in 1..n /\ v \in Int /\ v - 1 \in Int /\ v + 1 \in Int /\ n \in Int /\ 1 \in Int
  BY <1>1
<1>3. \A i \in 1..n : q[i] \in Event
  BY <1>1, ElementOfSeq
<1>4. a \in Seq(Event) /\ Len(a) = v - 1 /\ \A i \in 1..(v - 1) : a[i] = q[i]
  <2>1. \A i \in 1..(v - 1) : q[i] \in Event
    BY <1>2, <1>3
  <2>2. /\ a \in Seq(Event) /\ Len(a) = (IF 1 <= v - 1 THEN (v - 1) - 1 + 1 ELSE 0)
        /\ \A i \in 1..((v - 1) - 1 + 1) : a[i] = q[1 + i - 1]
    BY <1>2, <2>1, SubSeqProperties
  <2> HIDE DEF a
  <2>3. Len(a) = v - 1
    BY <1>2, <2>2
  <2>4. ASSUME NEW i \in 1..(v - 1) PROVE a[i] = q[i]
    <3>1. i \in 1..((v - 1) - 1 + 1) /\ 1 + i - 1 = i
      BY <1>2, <2>4
    <3> QED BY <2>2, <3>1
  <2> QED BY <2>2, <2>3, <2>4
<1>5. b \in Seq(Event) /\ Len(b) = n - v /\ \A i \in 1..(n - v) : b[i] = q[v + i]
  <2>1. \A i \in (v + 1)..n : q[i] \in Event
    BY <1>2, <1>3
  <2>2. /\ b \in Seq(Event) /\ Len(b) = (IF v + 1 <= n THEN n - (v + 1) + 1 ELSE 0)
        /\ \A i \in 1..(n - (v + 1) + 1) : b[i] = q[(v + 1) + i - 1]
    BY <1>1, <1>2, <2>1, SubSeqProperties
  <2> HIDE DEF b
  <2>3. Len(b) = n - v
    BY <1>2, <2>2
  <2>4. ASSUME NEW i \in 1..(n - v) PROVE b[i] = q[v + i]
    <3>1. i \in 1..(n - (v + 1) + 1) /\ (v + 1) + i - 1 = v + i
      BY <1>2, <2>4
    <3> QED BY <2>2, <3>1
  <2> QED BY <2>2, <2>3, <2>4
<1> HIDE DEF a, b
<1>6. Without(q, v) = a \o b
  BY DEF Without, a, b
<1>7. PICK w : w = a \o b
  OBVIOUS
<1>8. /\ w \in Seq(Event) /\ Len(w) = Len(a) + Len(b)
      /\ \A i \in 1..Len(a) : w[i] = a[i]
      /\ \A j \in 1..Len(b) : w[Len(a) + j] = b[j]
  <2>1. \A x \in Seq(Event), y \in Seq(Event) :
          /\ x \o y \in Seq(Event) /\ Len(x \o y) = Len(x) + Len(y)
          /\ \A i \in 1..Len(x) : (x \o y)[i] = x[i]
          /\ \A j \in 1..Len(y) : (x \o y)[Len(x) + j] = y[j]
    <3> SUFFICES ASSUME NEW x \in Seq(Event), NEW y \in Seq(Event)
                 PROVE  /\ x \o y \in Seq(Event) /\ Len(x \o y) = Len(x) + Len(y)
                        /\ \A i \in 1..Len(x) : (x \o y)[i] = x[i]
                        /\ \A j \in 1..Len(y) : (x \o y)[Len(x) + j] = y[j]
      OBVIOUS
    <3>1. PICK k \in Nat, l \in Nat : k = Len(x) /\ l = Len(y)
      BY LenProperties
    <3> QED BY <3>1, ConcatProperties
  <2> QED BY <1>4, <1>5, <1>7, <2>1
<1>9. Len(w) = n - 1
  BY <1>2, <1>4, <1>5, <1>8
<1>10. ASSUME NEW i \in 1..(n - 1) PROVE w[i] = IF i < v THEN q[i] ELSE q[i + 1]
  <2>1. CASE i < v
    <3>1. i \in 1..(v - 1)
      BY <1>2, <1>10, <2>1
    <3> QED BY <1>4, <1>8, <2>1, <3>1
  <2>2. CASE i >= v
    <3>1. PICK j \in 1..(n - v) : i = (v - 1) + j /\ v + j = i + 1
      <4>1. i - (v - 1) \in 1..(n - v) /\ i = (v - 1) + (i - (v - 1)) /\ v + (i - (v - 1)) = i + 1
        BY <1>2, <1>10, <2>2
      <4> QED BY <4>1
    <3>2. w[i] = b[j] /\ b[j] = q[i + 1]
      BY <1>4, <1>5, <1>8, <3>1
    <3>3. ~(i < v)
      BY <1>2, <1>10, <2>2
    <3> QED BY <3>2, <3>3
  <2> QED BY <1>2, <1>10, <2>1, <2>2
<1> QED BY <1>1, <1>6, <1>7, <1>8, <1>9, <1>10

LEMMA AWWithoutKeeps ==
  ASSUME NEW q \in Seq(Event), AWSorted(q), NEW v \in 1..Len(q)
  PROVE  /\ AWSorted(Without(q, v))
         /\ \A t \in Seq(Event) : AWBelow(t, q) => AWBelow(t, Without(q, v))
         /\ \A e : AWHas(Without(q, v), e) <=> AWHas(q, e) /\ e # q[v]
<1>1. PICK n \in Nat : n = Len(q)
  BY LenProperties
<1>2. PICK w \in Seq(Event) : w = Without(q, v)
  BY AWWithoutFacts
<1>3. Len(w) = n - 1 /\ \A i \in 1..(n - 1) : w[i] = IF i < v THEN q[i] ELSE q[i + 1]
  BY <1>1, <1>2, AWWithoutFacts
<1>4. \A i \in 1..n : q[i] \in Event /\ q[i].at \in Nat
  <2>1. \A i \in 1..n : q[i] \in Event
    BY <1>1, ElementOfSeq
  <2> QED BY <2>1 DEF Event
<1>5. \A i, j \in 1..n : i < j => q[i].at < q[j].at
  BY <1>1 DEF AWSorted
<1>6. v \in 1..n
  BY <1>1
<1>7. \A i \in 1..(n - 1) : \E k \in 1..n : w[i] = q[k] /\ k # v /\ (k = i \/ k = i + 1) /\ (k = i <=> i < v)
  <2>1. ASSUME NEW i \in 1..(n - 1) PROVE \E k \in 1..n : w[i] = q[k] /\ k # v /\ (k = i \/ k = i + 1) /\ (k = i <=> i < v)
    <3>1. CASE i < v
      BY <1>3, <1>6, <2>1, <3>1
    <3>2. CASE ~(i < v)
      <4>1. i + 1 \in 1..n /\ w[i] = q[i + 1] /\ i + 1 # v /\ i + 1 # i
        BY <1>1, <1>3, <1>6, <2>1, <3>2
      <4> QED BY <3>2, <4>1
    <3> QED BY <3>1, <3>2
  <2> QED BY <2>1
<1>8. AWSorted(w)
  <2>1. ASSUME NEW i \in 1..(n - 1), NEW j \in 1..(n - 1), i < j PROVE w[i].at < w[j].at
    <3>1. PICK k \in 1..n : w[i] = q[k] /\ (k = i \/ k = i + 1) /\ (k = i <=> i < v)
      BY <1>7
    <3>2. PICK l \in 1..n : w[j] = q[l] /\ (l = j \/ l = j + 1) /\ (l = j <=> j < v)
      BY <1>7
    <3>3. k < l
      BY <1>6, <2>1, <3>1, <3>2
    <3> QED BY <1>5, <3>1, <3>2, <3>3
  <2> QED BY <1>3, <2>1 DEF AWSorted
<1>9. ASSUME NEW t \in Seq(Event), AWBelow(t, q) PROVE AWBelow(t, w)
  <2>1. ASSUME NEW i \in 1..Len(t), NEW j \in 1..(n - 1) PROVE t[i].at < w[j].at
    <3>1. PICK k \in 1..n : w[j] = q[k]
      BY <1>7
    <3> QED BY <1>1, <1>9, <3>1 DEF AWBelow
  <2> QED BY <1>3, <2>1 DEF AWBelow
<1>10. ASSUME NEW e, AWHas(w, e) PROVE AWHas(q, e) /\ e # q[v]
  <2>1. PICK i \in 1..(n - 1) : w[i] = e
    BY <1>3, <1>10 DEF AWHas
  <2>2. PICK k \in 1..n : e = q[k] /\ k # v
    BY <1>7, <2>1
  <2>3. q[k].at < q[v].at \/ q[v].at < q[k].at
    BY <1>5, <1>6, <2>2
  <2>4. q[k] # q[v]
    BY <1>4, <1>6, <2>3
  <2> QED BY <1>1, <2>2, <2>4 DEF AWHas
<1>11. ASSUME NEW e, AWHas(q, e), e # q[v] PROVE AWHas(w, e)
  <2>1. PICK k \in 1..n : q[k] = e
    BY <1>1, <1>11 DEF AWHas
  <2>2. k # v
    BY <1>11, <2>1
  <2>3. CASE k < v
    <3>1. k \in 1..(n - 1) /\ w[k] = q[k]
      BY <1>3, <1>6, <2>3
    <3> QED BY <1>3, <2>1, <3>1 DEF AWHas
  <2>4. CASE k > v
    <3>1. k - 1 \in 1..(n - 1) /\ ~(k - 1 < v) /\ (k - 1) + 1 = k
      BY <1>1, <1>6, <2>4
    <3>2. w[k - 1] = q[k]
      BY <1>3, <3>1
    <3> QED BY <1>3, <2>1, <3>1, <3>2 DEF AWHas
  <2> QED BY <1>6, <2>2, <2>3, <2>4
<1> QED BY <1>2, <1>8, <1>9, <1>10, <1>11

\* A new event comes last.
LEMMA AWAppendKeeps ==
  ASSUME NEW q \in Seq(Event), AWSorted(q), NEW e \in Event,
         \A f \in Event : AWHas(q, f) => f.at < e.at
  PROVE  /\ Append(q, e) \in Seq(Event) /\ Len(Append(q, e)) = Len(q) + 1
         /\ Append(q, e)[Len(q) + 1] = e
         /\ AWSorted(Append(q, e))
         /\ \A t \in Seq(Event) : AWBelow(t, q) /\ (\A f \in Event : AWHas(t, f) => f.at < e.at)
                                  => AWBelow(t, Append(q, e))
         /\ \A f : AWHas(Append(q, e), f) <=> AWHas(q, f) \/ f = e
<1>1. PICK n \in Nat : n = Len(q)
  BY LenProperties
<1>2. PICK w : w = Append(q, e)
  OBVIOUS
<1>3. w \in Seq(Event) /\ Len(w) = n + 1 /\ w[n + 1] = e /\ \A i \in 1..n : w[i] = q[i]
  BY <1>1, <1>2, AppendProperties
<1>4. \A i \in 1..n : q[i] \in Event /\ AWHas(q, q[i])
  BY <1>1, ElementOfSeq DEF AWHas
<1>5. \A i \in 1..(n + 1) : i \in 1..n \/ i = n + 1
  BY <1>1
<1>6. AWSorted(w)
  <2>1. ASSUME NEW i \in 1..(n + 1), NEW j \in 1..(n + 1), i < j PROVE w[i].at < w[j].at
    <3>1. i \in 1..n
      BY <1>1, <2>1
    <3>2. CASE j \in 1..n
      BY <1>1, <1>3, <2>1, <3>1, <3>2 DEF AWSorted
    <3>3. CASE j = n + 1
      BY <1>3, <1>4, <3>1, <3>3
    <3> QED BY <1>5, <3>2, <3>3
  <2> QED BY <1>3, <2>1 DEF AWSorted
<1>7. ASSUME NEW t \in Seq(Event), AWBelow(t, q), \A f \in Event : AWHas(t, f) => f.at < e.at
      PROVE  AWBelow(t, w)
  <2>1. ASSUME NEW i \in 1..Len(t), NEW j \in 1..(n + 1) PROVE t[i].at < w[j].at
    <3>1. t[i] \in Event /\ AWHas(t, t[i])
      BY ElementOfSeq DEF AWHas
    <3>2. CASE j \in 1..n
      BY <1>1, <1>3, <1>7, <3>2 DEF AWBelow
    <3>3. CASE j = n + 1
      BY <1>3, <1>7, <3>1, <3>3
    <3> QED BY <1>5, <3>2, <3>3
  <2> QED BY <1>3, <2>1 DEF AWBelow
<1>8. \A f : AWHas(w, f) <=> AWHas(q, f) \/ f = e
  <2>1. 1..(n + 1) = 1..n \cup {n + 1}
    BY <1>1
  <2> QED BY <1>1, <1>3, <2>1 DEF AWHas
<1> QED BY <1>1, <1>2, <1>3, <1>6, <1>7, <1>8

\* No two events that are kept have the same place in the order of the pushes.
LEMMA AWKeptOnce ==
  ASSUME TypeOK, AWOrder, NEW e \in Event, NEW f \in Event, AWKept(e), AWKept(f), e.at = f.at
  PROVE  e = f
<1>1. written \in Seq(Event) /\ batch \in Seq(Event) /\ queue \in Seq(Event)
  BY DEF TypeOK
<1>2. e.at \in Nat /\ f.at \in Nat /\ ~(e.at < f.at) /\ ~(f.at < e.at)
  BY DEF Event
<1>3. \A s \in Seq(Event) : AWSorted(s) /\ AWHas(s, e) /\ AWHas(s, f) => e = f
  <2> SUFFICES ASSUME NEW s \in Seq(Event), AWSorted(s), AWHas(s, e), AWHas(s, f) PROVE e = f
    OBVIOUS
  <2>1. PICK i \in 1..Len(s), j \in 1..Len(s) : s[i] = e /\ s[j] = f
    BY DEF AWHas
  <2>2. ~(i < j) /\ ~(j < i)
    BY <1>2, <2>1 DEF AWSorted
  <2>3. i = j
    BY <2>1, <2>2
  <2> QED BY <2>1, <2>3
<1>4. \A s, t \in Seq(Event) : AWBelow(s, t) => ~(AWHas(s, e) /\ AWHas(t, f)) /\ ~(AWHas(s, f) /\ AWHas(t, e))
  BY <1>2 DEF AWHas, AWBelow
<1> QED BY <1>1, <1>3, <1>4 DEF AWKept, AWOrder

-----------------------------------------------------------------------------
(* The steps.                                                              *)

\* The victim of an overflow is the new event, or one of the queue; a warning
\* gives way to another one only, when nothing else is queued.
LEMMA AWVictimFacts ==
  ASSUME TypeOK, Capacity \in Nat \ {0}, Len(queue) >= Capacity, NEW e \in Event
  PROVE  /\ Victim(e) = 0 => e.sev = "info"
         /\ Victim(e) # 0 => /\ Victim(e) \in 1..Len(queue)
                             /\ queue[Victim(e)].sev = "warn" => Low = {} /\ e.sev = "warn"
<1>1. PICK n \in Nat : n = Len(queue) /\ n >= 1
  BY LenProperties DEF TypeOK
<1>2. e.sev = "info" \/ e.sev = "warn"
  BY DEF Event, Severities
<1>3. CASE Low # {}
  <2>1. \E i \in Low : \A j \in Low : i <= j
    <3>1. Low \subseteq Nat
      BY <1>1 DEF Low
    <3> QED BY <1>3, <3>1, AWLeastExists
  <2>2. Victim(e) = CHOOSE i \in Low : \A j \in Low : i <= j
    BY <1>3 DEF Victim
  <2>3. Victim(e) \in Low
    BY <2>1, <2>2
  <2>4. Victim(e) \in 1..n /\ queue[Victim(e)].sev = "info"
    BY <1>1, <2>3 DEF Low
  <2> QED BY <1>1, <2>4
<1>4. CASE Low = {} /\ e.sev = "info"
  BY <1>4 DEF Victim
<1>5. CASE Low = {} /\ e.sev = "warn"
  <2>1. Victim(e) = 1
    BY <1>5 DEF Victim
  <2> QED BY <1>1, <1>5, <2>1
<1> QED BY <1>2, <1>3, <1>4, <1>5

LEMMA AWPush ==
  ASSUME AWInv, AuditAssumption, NEW s \in Severities, Push(s), UNCHANGED <<started, stopped, writer>>
  PROVE  /\ queue' \in Seq(Event) /\ dropped' \subseteq Event /\ pushes' \in Nat /\ notify' \in BOOLEAN
         /\ AWOrder' /\ AWPlaces' /\ AWCounts' /\ AWRun' /\ NoLostSignal'
         /\ \A f \in dropped' \ dropped : f.sev = "warn" => Low = {} /\ queue'[Len(queue')].sev = "warn"
<1> DEFINE new == [sev |-> s, at |-> pushes + 1]
<1>0. /\ queue \in Seq(Event) /\ batch \in Seq(Event) /\ written \in Seq(Event) /\ dropped \subseteq Event
      /\ lost \subseteq Event /\ pushes \in Nat /\ notify \in BOOLEAN /\ TypeOK
      /\ AWOrder /\ AWPlaces /\ AWCounts /\ AWRun /\ NoLostSignal /\ Capacity \in Nat \ {0}
  BY DEF AWInv, TypeOK, AuditAssumption
<1>1. batch' = batch /\ written' = written /\ lost' = lost /\ runPc' = runPc /\ stopped' = stopped /\ started' = started
  BY DEF writer
<1>2. CASE stopped
  <2>1. UNCHANGED <<queue, notify, dropped, pushes>>
    BY <1>2 DEF Push
  <2> QED BY <1>0, <1>1, <2>1 DEF AWOrder, AWPlaces, AWCounts, AWRun, NoLostSignal, AWKept, AWGone
<1>3. CASE ~stopped
  <2>0. new \in Event
    BY <1>0 DEF Event
  <2>1. PICK e \in Event : e = new /\ e.sev = s /\ e.at = pushes + 1
    BY <2>0
  <2>2. /\ pushes' = pushes + 1 /\ notify' = TRUE
        /\ \/ Len(queue) < Capacity /\ queue' = Append(queue, e) /\ UNCHANGED dropped
           \/ ~(Len(queue) < Capacity) /\ Victim(e) = 0 /\ dropped' = dropped \cup {e} /\ UNCHANGED queue
           \/ /\ ~(Len(queue) < Capacity) /\ Victim(e) # 0 /\ queue' = Append(Without(queue, Victim(e)), e)
              /\ dropped' = dropped \cup {queue[Victim(e)]}
    BY <1>3, <2>1 DEF Push
  <2>3. PICK n \in Nat : n = Len(queue)
    BY <1>0, LenProperties
  <2>4. \A f \in Event : AWKept(f) \/ f \in AWGone => f.at < e.at /\ f.at \in 1..pushes
    BY <1>0, <2>1 DEF AWPlaces
  <2>5. e \notin AWGone
    BY <2>1, <2>4, <1>0
  <2>6. AWRun'
    BY <1>0, <1>1, <1>3 DEF AWRun
  <2>7. NoLostSignal'
    BY <2>2 DEF NoLostSignal
  <2>8. 1..(pushes + 1) = 1..pushes \cup {pushes + 1}
    BY <1>0
  <2> HIDE DEF new
  <2>9. CASE /\ ~(Len(queue) < Capacity) /\ Victim(e) = 0
             /\ dropped' = dropped \cup {e} /\ UNCHANGED queue
    <3>1. e.sev = "info"
      BY <1>0, <2>3, <2>9, AWVictimFacts
    <3>2. AWOrder' /\ (\A f : AWKept(f)' <=> AWKept(f)) /\ AWGone' = AWGone \cup {e}
      BY <1>0, <1>1, <2>9 DEF AWOrder, AWKept, AWGone
    <3>3. AWPlaces'
      <4>1. ASSUME NEW f \in Event, AWKept(f) \/ f \in AWGone' PROVE f.at \in 1..(pushes + 1)
        BY <2>1, <2>4, <2>8, <3>2, <4>1
      <4>2. ASSUME NEW k \in 1..(pushes + 1) PROVE \E f \in Event : f.at = k /\ (AWKept(f) \/ f \in AWGone')
        BY <1>0, <2>1, <2>8, <3>2 DEF AWPlaces
      <4>3. ASSUME NEW f \in Event, NEW g \in AWGone', AWKept(f) PROVE f.at # g.at
        <5>1. CASE g = e
          <6>1. f.at < e.at /\ f.at \in Nat /\ e.at \in Nat
            BY <2>4, <4>3 DEF Event
          <6> QED BY <5>1, <6>1
        <5>2. CASE g \in AWGone
          BY <1>0, <4>3, <5>2 DEF AWPlaces
        <5> QED BY <3>2, <5>1, <5>2
      <4> QED BY <2>2, <3>2, <4>1, <4>2, <4>3 DEF AWPlaces
    <3>4. AWCounts'
      <4>1. IsFiniteSet(dropped) /\ e \notin dropped
        BY <1>0, <2>5 DEF AWCounts, AWGone
      <4>2. Cardinality(dropped') = Cardinality(dropped) + 1 /\ IsFiniteSet(dropped')
        BY <2>9, <4>1, FS_AddElement
      <4>3. PICK a \in Nat, b \in Nat, c \in Nat, d \in Nat :
               /\ a = Len(written) /\ b = Len(batch) /\ c = Cardinality(dropped) /\ d = Cardinality(lost)
        BY <1>0, LenProperties, FS_CardinalityType DEF AWCounts
      <4>4. a + b + n + c + d = pushes /\ IsFiniteSet(lost)
        BY <1>0, <2>3, <4>3 DEF AWCounts
      <4>5. a + b + n + (c + 1) + d = pushes + 1
        BY <1>0, <4>4
      <4> QED BY <1>1, <2>2, <2>3, <2>9, <4>2, <4>3, <4>4, <4>5 DEF AWCounts
    <3>5. \A f \in dropped' \ dropped : f.sev # "warn"
      BY <2>9, <3>1
    <3>6. queue' \in Seq(Event) /\ dropped' \subseteq Event /\ pushes' \in Nat /\ notify' \in BOOLEAN
      BY <1>0, <2>2, <2>9
    <3> QED BY <2>6, <2>7, <3>2, <3>3, <3>4, <3>5, <3>6
  <2>10. ASSUME NEW q \in Seq(Event), NEW gone \in SUBSET Event, AWSorted(q), queue' = Append(q, e),
                AWBelow(written, q), AWBelow(batch, q), dropped' = dropped \cup gone,
                \A f \in gone : AWHas(queue, f), \A f : AWHas(q, f) <=> AWHas(queue, f) /\ f \notin gone
         PROVE  AWOrder' /\ AWPlaces' /\ queue' \in Seq(Event) /\ queue'[Len(queue')] = e
    <3>1. \A f \in Event : AWHas(q, f) \/ AWHas(batch, f) \/ AWHas(written, f) => f.at < e.at
      BY <2>4, <2>10 DEF AWKept
    <3>2. PICK w \in Seq(Event) : w = queue'
      BY <2>10, <3>1, AWAppendKeeps
    <3>3. /\ w = Append(q, e) /\ Len(w) = Len(q) + 1 /\ w[Len(w)] = e
          /\ AWSorted(w) /\ AWBelow(written, w) /\ AWBelow(batch, w)
          /\ \A f : AWHas(w, f) <=> AWHas(q, f) \/ f = e
      BY <1>0, <2>10, <3>1, <3>2, AWAppendKeeps
    <3>4. AWOrder'
      BY <1>0, <1>1, <3>2, <3>3 DEF AWOrder
    <3>5. \A f : AWKept(f)' <=> AWHas(written, f) \/ AWHas(batch, f) \/ AWHas(q, f) \/ f = e
      BY <1>1, <3>2, <3>3 DEF AWKept
    <3>6. AWGone' = AWGone \cup gone
      BY <1>1, <2>10 DEF AWGone
    <3>7. \A f \in gone : AWKept(f)
      BY <2>10 DEF AWKept
    <3>8. \A f : AWKept(f)' => AWKept(f) \/ f = e
      BY <2>10, <3>5 DEF AWKept
    <3>9. \A f : AWKept(f) => AWKept(f)' \/ f \in gone
      BY <2>10, <3>5 DEF AWKept
    <3>10. \A f \in gone : ~(AWKept(f)')
      <4> SUFFICES ASSUME NEW f \in gone, AWKept(f)' PROVE FALSE
        OBVIOUS
      <4>1. f \in Event /\ AWHas(queue, f) /\ f.at < e.at /\ f.at \in Nat /\ e.at \in Nat
        BY <2>4, <2>10, <3>7 DEF Event
      <4>2. f # e /\ ~AWHas(q, f)
        BY <2>10, <4>1
      <4>3. AWHas(written, f) \/ AWHas(batch, f)
        BY <3>5, <4>2
      <4>4. PICK t \in Seq(Event) : AWBelow(t, queue) /\ AWHas(t, f)
        BY <1>0, <4>3 DEF AWOrder
      <4> QED BY <4>1, <4>4 DEF AWBelow, AWHas
    <3>11. AWPlaces'
      <4>1. ASSUME NEW f \in Event, AWKept(f)' \/ f \in AWGone' PROVE f.at \in 1..(pushes + 1)
        BY <2>1, <2>4, <2>8, <3>6, <3>7, <3>8, <4>1
      <4>2. ASSUME NEW k \in 1..(pushes + 1) PROVE \E f \in Event : f.at = k /\ (AWKept(f)' \/ f \in AWGone')
        <5>1. CASE k = pushes + 1
          BY <2>1, <3>5, <5>1
        <5>2. CASE k \in 1..pushes
          <6>1. PICK f \in Event : f.at = k /\ (AWKept(f) \/ f \in AWGone)
            BY <1>0, <5>2 DEF AWPlaces
          <6> QED BY <3>6, <3>9, <6>1
        <5> QED BY <2>8, <5>1, <5>2
      <4>3. ASSUME NEW f \in Event, NEW g \in AWGone', AWKept(f)' PROVE f.at # g.at
        <5>1. g \in Event
          BY <1>0, <2>10, <3>6 DEF AWGone
        <5>2. g.at < e.at /\ g.at \in Nat /\ e.at \in Nat
          BY <2>4, <3>6, <3>7, <5>1 DEF Event
        <5>3. CASE f = e
          BY <5>2, <5>3
        <5>4. CASE AWKept(f) /\ g \in AWGone
          BY <1>0, <5>4 DEF AWPlaces
        <5>5. CASE AWKept(f) /\ g \in gone
          <6>1. f # g
            BY <3>10, <4>3, <5>5
          <6> QED BY <1>0, <3>7, <5>1, <5>5, <6>1, AWKeptOnce
        <5> QED BY <3>6, <3>8, <4>3, <5>3, <5>4, <5>5
      <4> QED BY <2>2, <4>1, <4>2, <4>3 DEF AWPlaces
    <3> QED BY <3>2, <3>3, <3>4, <3>11
  <2>11. CASE Len(queue) < Capacity /\ queue' = Append(queue, e) /\ UNCHANGED dropped
    <3>1. AWSorted(queue) /\ AWBelow(written, queue) /\ AWBelow(batch, queue)
      BY <1>0 DEF AWOrder
    <3>2. dropped' = dropped \cup {}
      BY <2>11
    <3>3. AWOrder' /\ AWPlaces' /\ queue' \in Seq(Event)
      <4>1. PICK none \in SUBSET Event : none = {}
        OBVIOUS
      <4>2. dropped' = dropped \cup none /\ (\A f \in none : AWHas(queue, f))
            /\ \A f : AWHas(queue, f) <=> AWHas(queue, f) /\ f \notin none
        BY <3>2, <4>1
      <4> HIDE DEF AWOrder
      <4> QED BY <1>0, <2>10, <2>11, <3>1, <4>2
    <3>4. AWCounts'
      <4>1. Len(queue') = n + 1
        BY <1>0, <2>3, <2>11, AppendProperties
      <4>2. PICK a \in Nat, b \in Nat, c \in Nat, d \in Nat :
               /\ a = Len(written) /\ b = Len(batch) /\ c = Cardinality(dropped) /\ d = Cardinality(lost)
        BY <1>0, LenProperties, FS_CardinalityType DEF AWCounts
      <4>3. a + b + n + c + d = pushes /\ IsFiniteSet(lost) /\ IsFiniteSet(dropped)
        BY <1>0, <2>3, <4>2 DEF AWCounts
      <4>4. a + b + (n + 1) + c + d = pushes + 1
        BY <1>0, <4>3
      <4> QED BY <1>1, <2>2, <2>11, <4>1, <4>2, <4>3, <4>4 DEF AWCounts
    <3> QED BY <1>0, <2>2, <2>6, <2>7, <2>11, <3>3, <3>4
  <2>12. CASE /\ ~(Len(queue) < Capacity) /\ Victim(e) # 0 /\ queue' = Append(Without(queue, Victim(e)), e)
              /\ dropped' = dropped \cup {queue[Victim(e)]}
    <3>0. Len(queue) >= Capacity
      BY <1>0, <2>3, <2>12
    <3>1. PICK v \in 1..Len(queue) :
            v = Victim(e) /\ (queue[v].sev = "warn" => Low = {} /\ e.sev = "warn")
      BY <1>0, <2>12, <3>0, AWVictimFacts
    <3>2. AWSorted(queue) /\ AWBelow(written, queue) /\ AWBelow(batch, queue)
      BY <1>0 DEF AWOrder
    <3>3. PICK q \in Seq(Event) : q = Without(queue, v) /\ Len(q) = n - 1
      BY <1>0, <2>3, AWWithoutFacts
    <3>4. /\ AWSorted(q) /\ AWBelow(written, q) /\ AWBelow(batch, q)
          /\ \A f : AWHas(q, f) <=> AWHas(queue, f) /\ f # queue[v]
      BY <1>0, <3>2, <3>3, AWWithoutKeeps
    <3>5. PICK victim \in Event : victim = queue[v] /\ AWHas(queue, victim)
      BY <1>0, ElementOfSeq DEF AWHas
    <3>6. AWOrder' /\ AWPlaces' /\ queue' \in Seq(Event) /\ queue'[Len(queue')] = e
      BY <2>10, <2>12, <3>1, <3>3, <3>4, <3>5
    <3>7. AWCounts'
      <4>1. Len(queue') = n
        <5>1. Len(Append(q, e)) = Len(q) + 1
          BY AppendProperties
        <5> QED BY <2>3, <2>12, <3>1, <3>3, <5>1
      <4>2. IsFiniteSet(dropped) /\ victim \notin dropped
        <5>1. AWKept(victim)
          BY <3>5 DEF AWKept
        <5> QED BY <1>0, <5>1 DEF AWCounts, AWPlaces, AWGone
      <4>3. Cardinality(dropped') = Cardinality(dropped) + 1 /\ IsFiniteSet(dropped')
        BY <2>12, <3>1, <3>5, <4>2, FS_AddElement
      <4>4. PICK a \in Nat, b \in Nat, c \in Nat, d \in Nat :
               /\ a = Len(written) /\ b = Len(batch) /\ c = Cardinality(dropped) /\ d = Cardinality(lost)
        BY <1>0, LenProperties, FS_CardinalityType DEF AWCounts
      <4>5. a + b + n + c + d = pushes /\ IsFiniteSet(lost)
        BY <1>0, <2>3, <4>4 DEF AWCounts
      <4>6. a + b + n + (c + 1) + d = pushes + 1
        BY <1>0, <4>5
      <4> QED BY <1>1, <2>2, <4>1, <4>3, <4>4, <4>5, <4>6 DEF AWCounts
    <3>8. \A f \in dropped' \ dropped : f.sev = "warn" => Low = {} /\ queue'[Len(queue')].sev = "warn"
      BY <2>12, <3>1, <3>6
    <3> QED BY <1>0, <2>2, <2>6, <2>7, <2>12, <3>1, <3>5, <3>6, <3>7, <3>8
  <2> QED BY <2>2, <2>9, <2>11, <2>12
<1> QED BY <1>2, <1>3

LEMMA AWBelowHas ==
  ASSUME NEW s \in Seq(Event), NEW t \in Seq(Event)
  PROVE  AWBelow(s, t) <=> \A e, f \in Event : AWHas(s, e) /\ AWHas(t, f) => e.at < f.at
<1>1. \A i \in 1..Len(s) : s[i] \in Event
  BY ElementOfSeq
<1>2. \A j \in 1..Len(t) : t[j] \in Event
  BY ElementOfSeq
<1> QED BY <1>1, <1>2 DEF AWBelow, AWHas

\* An event moves from the head of the queue to the end of the batch.
LEMMA AWPop ==
  ASSUME AWInv, NEW n \in Nat, PopBatch(n), UNCHANGED <<written, lost, dropped, pushes>>
  PROVE  /\ queue' \in Seq(Event) /\ batch' \in Seq(Event)
         /\ queue = <<>> => queue' = <<>> /\ batch' = batch
         /\ AWOrder' /\ AWPlaces' /\ AWCounts'
<1>0. /\ queue \in Seq(Event) /\ batch \in Seq(Event) /\ written \in Seq(Event) /\ dropped \subseteq Event
      /\ lost \subseteq Event /\ pushes \in Nat /\ AWOrder /\ AWPlaces /\ AWCounts
  BY DEF AWInv, TypeOK
<1>1. PICK m \in Nat : m = Len(queue)
  BY <1>0, LenProperties
<1>2. PICK k \in 0..m : batch' = batch \o SubSeq(queue, 1, k) /\ queue' = SubSeq(queue, k + 1, Len(queue))
  <2> DEFINE k == IF n < Len(queue) THEN n ELSE Len(queue)
  <2>1. k \in 0..m
    BY <1>1
  <2>2. batch' = batch \o SubSeq(queue, 1, k) /\ queue' = SubSeq(queue, k + 1, Len(queue))
    BY DEF PopBatch
  <2> QED BY <2>1, <2>2
<1>3. \A i \in 1..m : queue[i] \in Event
  BY <1>0, <1>1, ElementOfSeq
<1>4. PICK a \in Seq(Event) : a = SubSeq(queue, 1, k) /\ Len(a) = k
  <2>1. 1 \in Int /\ k \in Int /\ \A i \in 1..k : queue[i] \in Event
    BY <1>1, <1>3
  <2>2. SubSeq(queue, 1, k) \in Seq(Event) /\ Len(SubSeq(queue, 1, k)) = IF 1 <= k THEN k - 1 + 1 ELSE 0
    BY <2>1, SubSeqProperties
  <2>3. (IF 1 <= k THEN k - 1 + 1 ELSE 0) = k
    BY <1>1
  <2> QED BY <2>2, <2>3
<1>5. PICK b \in Seq(Event) : b = SubSeq(queue, k + 1, Len(queue)) /\ Len(b) = m - k
  <2>1. k + 1 \in Int /\ m \in Int /\ \A i \in (k + 1)..m : queue[i] \in Event
    BY <1>1, <1>3
  <2>2. SubSeq(queue, k + 1, m) \in Seq(Event)
        /\ Len(SubSeq(queue, k + 1, m)) = IF k + 1 <= m THEN m - (k + 1) + 1 ELSE 0
    BY <2>1, SubSeqProperties
  <2>3. (IF k + 1 <= m THEN m - (k + 1) + 1 ELSE 0) = m - k
    BY <1>1
  <2> QED BY <1>1, <2>2, <2>3
<1>6. queue = a \o b
  <2>1. SubSeq(queue, 1, k) \o SubSeq(queue, k + 1, m) = SubSeq(queue, 1, m)
    <3>1. 1 \in 1..(Len(queue) + 1) /\ k \in (1 - 1)..Len(queue) /\ m \in k..Len(queue)
      BY <1>1
    <3> QED BY <1>0, <3>1, ConcatAdjacentSubSeq
  <2>2. SubSeq(queue, 1, m) = queue
    BY <1>0, <1>1, SubSeqFull
  <2> QED BY <1>1, <1>4, <1>5, <2>1, <2>2
<1>7. PICK c \in Seq(Event) : c = batch \o a
  BY <1>0, ConcatProperties
<1>8. batch' = c /\ queue' = b
  BY <1>2, <1>4, <1>5, <1>7
<1>9. \A e : /\ AWHas(queue, e) <=> AWHas(a, e) \/ AWHas(b, e)
             /\ AWHas(c, e) <=> AWHas(batch, e) \/ AWHas(a, e)
  BY <1>0, <1>6, <1>7, AWHasConcat
<1>10. AWSorted(a) /\ AWSorted(b) /\ AWBelow(a, b)
  BY <1>0, <1>6, AWSortedConcat DEF AWOrder
<1>11. AWBelow(batch, a) /\ AWBelow(batch, b) /\ AWBelow(written, c) /\ AWBelow(written, b) /\ AWBelow(c, b)
  <2>1. /\ \A e, f \in Event : AWHas(written, e) /\ AWHas(batch, f) => e.at < f.at
        /\ \A e, f \in Event : AWHas(written, e) /\ AWHas(queue, f) => e.at < f.at
        /\ \A e, f \in Event : AWHas(batch, e) /\ AWHas(queue, f) => e.at < f.at
        /\ \A e, f \in Event : AWHas(a, e) /\ AWHas(b, f) => e.at < f.at
    BY <1>0, <1>10, AWBelowHas DEF AWOrder
  <2>2. /\ \A e, f \in Event : AWHas(batch, e) /\ AWHas(a, f) => e.at < f.at
        /\ \A e, f \in Event : AWHas(batch, e) /\ AWHas(b, f) => e.at < f.at
        /\ \A e, f \in Event : AWHas(written, e) /\ AWHas(c, f) => e.at < f.at
        /\ \A e, f \in Event : AWHas(written, e) /\ AWHas(b, f) => e.at < f.at
        /\ \A e, f \in Event : AWHas(c, e) /\ AWHas(b, f) => e.at < f.at
    BY <1>9, <2>1
  <2> QED BY <1>0, <2>2, AWBelowHas
<1>12. AWSorted(c)
  BY <1>0, <1>7, <1>10, <1>11, AWSortedConcat DEF AWOrder
<1>13. AWOrder'
  BY <1>0, <1>8, <1>10, <1>11, <1>12 DEF AWOrder
<1>14. AWPlaces'
  <2>1. \A e : AWKept(e)' <=> AWKept(e)
    BY <1>8, <1>9 DEF AWKept
  <2>2. AWGone' = AWGone
    BY DEF AWGone
  <2> QED BY <1>0, <2>1, <2>2 DEF AWPlaces
<1>15. AWCounts'
  <2>1. PICK l \in Nat, w \in Nat : l = Len(batch) /\ w = Len(written)
    BY <1>0, LenProperties
  <2>2. Len(c) = l + k
    BY <1>0, <1>4, <1>7, <2>1, ConcatProperties
  <2>3. PICK d \in Nat, g \in Nat : d = Cardinality(dropped) /\ g = Cardinality(lost)
    BY <1>0, FS_CardinalityType DEF AWCounts
  <2>4. w + l + m + d + g = pushes
    BY <1>0, <1>1, <2>1, <2>3 DEF AWCounts
  <2>5. w + (l + k) + (m - k) + d + g = pushes
    BY <1>1, <2>4
  <2> QED BY <1>0, <1>5, <1>8, <2>1, <2>2, <2>3, <2>5 DEF AWCounts
<1>16. queue = <<>> => queue' = <<>> /\ batch' = batch
  <2> SUFFICES ASSUME queue = <<>> PROVE queue' = <<>> /\ batch' = batch
    OBVIOUS
  <2>1. m = 0 /\ k = 0
    BY <1>1
  <2>2. a = <<>> /\ b = <<>>
    BY <1>4, <1>5, <2>1, EmptySeq
  <2> QED BY <1>0, <1>7, <1>8, <2>2, ConcatEmptySeq
<1> QED BY <1>8, <1>13, <1>14, <1>15, <1>16

\* The batch is written as a whole, or lost as a whole.
LEMMA AWWrite ==
  ASSUME AWInv, batch' = <<>>, UNCHANGED <<queue, dropped, pushes>>,
         \/ written' = written \o batch /\ UNCHANGED lost
         \/ lost' = lost \cup SeqRange(batch) /\ UNCHANGED written
  PROVE  written' \in Seq(Event) /\ lost' \subseteq Event /\ AWOrder' /\ AWPlaces' /\ AWCounts'
<1>0. /\ queue \in Seq(Event) /\ batch \in Seq(Event) /\ written \in Seq(Event) /\ dropped \subseteq Event
      /\ lost \subseteq Event /\ pushes \in Nat /\ AWOrder /\ AWPlaces /\ AWCounts /\ TypeOK
  BY DEF AWInv, TypeOK
<1>1. PICK k \in Nat, l \in Nat, m \in Nat : k = Len(written) /\ l = Len(batch) /\ m = Len(queue)
  BY <1>0, LenProperties
<1>2. PICK d \in Nat, g \in Nat : d = Cardinality(dropped) /\ g = Cardinality(lost)
  BY <1>0, FS_CardinalityType DEF AWCounts
<1>3. k + l + m + d + g = pushes
  BY <1>0, <1>1, <1>2 DEF AWCounts
<1>4. AWSorted(<<>>) /\ (\A t \in Seq(Event) : AWBelow(<<>>, t) /\ AWBelow(t, <<>>)) /\ \A e : ~AWHas(<<>>, e)
  BY DEF AWSorted, AWBelow, AWHas
<1>5. CASE written' = written \o batch /\ UNCHANGED lost
  <2>1. PICK w \in Seq(Event) : w = written \o batch /\ Len(w) = k + l
    BY <1>0, <1>1, ConcatProperties
  <2>2. written' = w
    BY <1>5, <2>1
  <2>3. \A e : AWHas(w, e) <=> AWHas(written, e) \/ AWHas(batch, e)
    BY <1>0, <2>1, AWHasConcat
  <2>4. AWSorted(w)
    BY <1>0, <2>1, AWSortedConcat DEF AWOrder
  <2>5. AWBelow(w, queue)
    <3>1. /\ \A e, f \in Event : AWHas(written, e) /\ AWHas(queue, f) => e.at < f.at
          /\ \A e, f \in Event : AWHas(batch, e) /\ AWHas(queue, f) => e.at < f.at
      BY <1>0, AWBelowHas DEF AWOrder
    <3>2. \A e, f \in Event : AWHas(w, e) /\ AWHas(queue, f) => e.at < f.at
      BY <2>3, <3>1
    <3> QED BY <1>0, <3>2, AWBelowHas
  <2>6. AWOrder'
    BY <1>0, <1>4, <2>2, <2>4, <2>5 DEF AWOrder
  <2>7. AWPlaces'
    <3>1. \A e : AWKept(e)' <=> AWKept(e)
      BY <1>4, <2>2, <2>3 DEF AWKept
    <3>2. AWGone' = AWGone
      BY <1>5 DEF AWGone
    <3> QED BY <1>0, <3>1, <3>2 DEF AWPlaces
  <2>8. AWCounts'
    <3>1. (k + l) + 0 + m + d + g = pushes
      BY <1>3
    <3>2. Len(<<>>) = 0
      OBVIOUS
    <3> QED BY <1>0, <1>1, <1>2, <1>5, <2>1, <2>2, <3>1, <3>2 DEF AWCounts
  <2> QED BY <1>0, <1>5, <2>2, <2>6, <2>7, <2>8
<1>6. CASE lost' = lost \cup SeqRange(batch) /\ UNCHANGED written
  <2> DEFINE R == SeqRange(batch)
  <2>1. \A i \in 1..l : batch[i] \in Event
    BY <1>0, <1>1, ElementOfSeq
  <2>2. \A e : e \in R <=> AWHas(batch, e)
    BY DEF SeqRange, AWHas
  <2>3. R \subseteq Event
    BY <1>1, <2>1 DEF SeqRange
  <2>4. IsFiniteSet(R) /\ Cardinality(R) = l
    <3> DEFINE F == [i \in 1..l |-> batch[i]]
    <3>1. F \in [1..l -> R]
      BY <1>1 DEF SeqRange
    <3>2. \A i, j \in 1..l : F[i] = F[j] => i = j
      <4> SUFFICES ASSUME NEW i \in 1..l, NEW j \in 1..l, batch[i] = batch[j] PROVE i = j
        OBVIOUS
      <4>1. batch[i].at \in Nat /\ batch[i].at = batch[j].at
        BY <2>1 DEF Event
      <4>2. ~(i < j) /\ ~(j < i)
        BY <1>0, <1>1, <4>1 DEF AWOrder, AWSorted
      <4> QED BY <4>2
    <3>3. \A e \in R : \E i \in 1..l : F[i] = e
      BY <1>1 DEF SeqRange
    <3> HIDE DEF F, R
    <3>4. F \in Bijection(1..l, R)
      BY <3>1, <3>2, <3>3, Fun_IsBij
    <3>5. ExistsBijection(1..l, R)
      BY <3>4, Fun_ExistsBij
    <3>6. IsFiniteSet(1..l) /\ Cardinality(1..l) = l
      <4>1. 1 \in Int /\ l \in Int
        BY <1>1
      <4>2. IsFiniteSet(1..l) /\ Cardinality(1..l) = IF 1 > l THEN 0 ELSE l - 1 + 1
        BY <4>1, FS_Interval
      <4> QED BY <1>1, <4>2
    <3> QED BY <3>5, <3>6, FS_Bijection
  <2>5. lost \cap R = {}
    <3>1. \A e \in R : e \in Event /\ AWKept(e)
      BY <2>2, <2>3 DEF AWKept
    <3> QED BY <1>0, <3>1 DEF AWPlaces, AWGone
  <2> HIDE DEF R
  <2>6. lost' = lost \cup R
    BY <1>6 DEF R
  <2>7. IsFiniteSet(lost') /\ Cardinality(lost') = g + l
    <3>1. IsFiniteSet(lost)
      BY <1>0 DEF AWCounts
    <3>2. IsFiniteSet(lost \cup R) /\ Cardinality(lost \cup R) = Cardinality(lost) + Cardinality(R) - Cardinality(lost \cap R)
      BY <2>4, <3>1, FS_Union
    <3>3. Cardinality(lost \cap R) = 0
      BY <2>5, FS_EmptySet
    <3>4. Cardinality(lost \cup R) = (g + l) - 0
      BY <1>2, <2>4, <3>2, <3>3
    <3> QED BY <2>6, <3>2, <3>4
  <2>8. AWOrder'
    BY <1>0, <1>4, <1>6 DEF AWOrder
  <2>9. \A e : AWKept(e)' <=> AWHas(written, e) \/ AWHas(queue, e)
    BY <1>4, <1>6 DEF AWKept
  <2>10. AWGone' = AWGone \cup R
    BY <2>6 DEF AWGone
  <2>11. \A e : AWKept(e) \/ e \in AWGone <=> AWKept(e)' \/ e \in AWGone'
    BY <2>2, <2>9, <2>10 DEF AWKept
  <2>12. ASSUME NEW e \in Event, NEW f \in AWGone', AWKept(e)' PROVE e.at # f.at
    <3>1. AWKept(e)
      BY <2>9, <2>12 DEF AWKept
    <3>2. CASE f \in AWGone
      BY <1>0, <3>1, <3>2 DEF AWPlaces
    <3>3. CASE f \in R
      <4>1. f \in Event /\ AWHas(batch, f) /\ e.at \in Nat /\ f.at \in Nat
        BY <2>2, <2>3, <3>3 DEF Event
      <4>2. AWHas(written, e) => e.at < f.at
        BY <1>0, <4>1, AWBelowHas DEF AWOrder
      <4>3. AWHas(queue, e) => f.at < e.at
        BY <1>0, <4>1, AWBelowHas DEF AWOrder
      <4> QED BY <2>9, <2>12, <4>1, <4>2, <4>3
    <3> QED BY <2>10, <3>2, <3>3
  <2>13. AWPlaces'
    BY <1>0, <2>11, <2>12 DEF AWPlaces
  <2>14. AWCounts'
    <3>1. k + 0 + m + d + (g + l) = pushes
      BY <1>3
    <3>2. Len(<<>>) = 0
      OBVIOUS
    <3>3. IsFiniteSet(dropped)
      BY <1>0 DEF AWCounts
    <3> QED BY <1>1, <1>2, <1>6, <2>7, <3>1, <3>2, <3>3 DEF AWCounts
  <2> QED BY <1>0, <1>6, <2>3, <2>6, <2>8, <2>13, <2>14
<1> QED BY <1>5, <1>6

LEMMA AWInitInv == Init => AWInv
<1> SUFFICES ASSUME Init PROVE AWInv
  OBVIOUS
<1>1. TypeOK
  <2>1. <<>> \in Seq(Event)
    OBVIOUS
  <2> QED BY <2>1 DEF Init, TypeOK, Severities
<1>2. \A e : ~AWHas(<<>>, e)
  BY DEF AWHas
<1>3. AWPlaces
  BY <1>2 DEF Init, AWPlaces, AWKept, AWGone
<1>4. AWCounts
  BY FS_EmptySet DEF Init, AWCounts
<1>5. AWOrder
  BY DEF Init, AWOrder, AWSorted, AWBelow
<1> QED BY <1>1, <1>3, <1>4, <1>5 DEF Init, AWInv, AWRun, NoLostSignal

\* What the steps that move no event leave alone.
LEMMA AWStill ==
  ASSUME AWInv, UNCHANGED <<queue, batch, written, dropped, lost, pushes>>
  PROVE  AWOrder' /\ AWPlaces' /\ AWCounts'
<1>1. (\A e : AWKept(e)' <=> AWKept(e)) /\ AWGone' = AWGone
  BY DEF AWKept, AWGone
<1> QED BY <1>1 DEF AWInv, AWOrder, AWPlaces, AWCounts

LEMMA AWNextInv ==
  ASSUME AWInv, AuditAssumption, [Next]_vars
  PROVE  /\ AWInv'
         /\ \A e \in dropped' \ dropped : e.sev = "warn" => Low = {} /\ queue'[Len(queue')].sev = "warn"
<1> DEFINE Warned == \A e \in dropped' \ dropped : e.sev = "warn" => Low = {} /\ queue'[Len(queue')].sev = "warn"
<1>0. TypeOK /\ AWRun /\ NoLostSignal
  BY DEF AWInv
<1>1. ASSUME NEW p \in Producers, NEW s \in Severities, Start(p, s) PROVE AWInv' /\ Warned
  <2>1. AWOrder' /\ AWPlaces' /\ AWCounts'
    BY <1>1, AWStill DEF Start
  <2>2. TypeOK'
    BY <1>0, <1>1 DEF Start, TypeOK, marker
  <2>3. AWRun' /\ NoLostSignal'
    BY <1>0, <1>1 DEF Start, AWRun, NoLostSignal
  <2> QED BY <1>1, <2>1, <2>2, <2>3 DEF AWInv, Start
<1>2. ASSUME NEW p \in Producers, PushEvent(p) PROVE AWInv' /\ Warned
  <2>1. sev[p] \in Severities /\ Push(sev[p]) /\ UNCHANGED <<started, stopped, writer>>
    BY <1>0, <1>2 DEF PushEvent, TypeOK
  <2>2. /\ queue' \in Seq(Event) /\ dropped' \subseteq Event /\ pushes' \in Nat /\ notify' \in BOOLEAN
        /\ AWOrder' /\ AWPlaces' /\ AWCounts' /\ AWRun' /\ NoLostSignal' /\ Warned
    BY <2>1, AWPush
  <2>3. pc' \in [Producers -> {"idle", "push", "load", "check", "mark"}] /\ sev' \in [Producers -> Severities]
    BY <1>0, <1>2 DEF PushEvent, TypeOK, Severities
  <2>4. TypeOK'
    BY <1>0, <1>2, <2>2, <2>3 DEF PushEvent, TypeOK, writer, marker
  <2> QED BY <2>2, <2>4 DEF AWInv
<1>3. ASSUME NEW p \in Producers, LoadTotal(p) PROVE AWInv' /\ Warned
  <2>1. AWOrder' /\ AWPlaces' /\ AWCounts'
    BY <1>3, AWStill DEF LoadTotal, writer
  <2>2. Cardinality(dropped) \in Nat
    BY FS_CardinalityType DEF AWInv, AWCounts
  <2>3. TypeOK'
    BY <1>0, <1>3, <2>2 DEF LoadTotal, TypeOK, writer, marker
  <2>4. AWRun' /\ NoLostSignal'
    BY <1>0, <1>3 DEF LoadTotal, AWRun, NoLostSignal, writer
  <2> QED BY <1>3, <2>1, <2>3, <2>4 DEF AWInv, LoadTotal
<1>4. ASSUME NEW p \in Producers, CheckThreshold(p) PROVE AWInv' /\ Warned
  <2>1. AWOrder' /\ AWPlaces' /\ AWCounts'
    BY <1>4, AWStill DEF CheckThreshold, writer
  <2>2. base' \in Nat /\ recent' \in BOOLEAN
    BY <1>0, <1>4 DEF CheckThreshold, TypeOK, marker
  <2>3. TypeOK'
    BY <1>0, <1>4, <2>2 DEF CheckThreshold, TypeOK, writer
  <2>4. AWRun' /\ NoLostSignal'
    BY <1>0, <1>4 DEF CheckThreshold, AWRun, NoLostSignal, writer
  <2> QED BY <1>4, <2>1, <2>3, <2>4 DEF AWInv, CheckThreshold
<1>5. ASSUME NEW p \in Producers, PushMarker(p) PROVE AWInv' /\ Warned
  <2>1. "warn" \in Severities /\ Push("warn") /\ UNCHANGED <<started, stopped, writer>>
    BY <1>5 DEF PushMarker, Severities
  <2>2. /\ queue' \in Seq(Event) /\ dropped' \subseteq Event /\ pushes' \in Nat /\ notify' \in BOOLEAN
        /\ AWOrder' /\ AWPlaces' /\ AWCounts' /\ AWRun' /\ NoLostSignal' /\ Warned
    BY <2>1, AWPush
  <2>3. pc' \in [Producers -> {"idle", "push", "load", "check", "mark"}]
    BY <1>0, <1>5 DEF PushMarker, TypeOK
  <2>4. TypeOK'
    BY <1>0, <1>5, <2>2, <2>3 DEF PushMarker, TypeOK, writer, marker
  <2> QED BY <2>2, <2>4 DEF AWInv
<1>6. CASE WindowElapses
  <2>1. AWOrder' /\ AWPlaces' /\ AWCounts'
    BY <1>6, AWStill DEF WindowElapses, writer
  <2>2. TypeOK'
    BY <1>0, <1>6 DEF WindowElapses, TypeOK, writer, producer
  <2>3. AWRun' /\ NoLostSignal'
    BY <1>0, <1>6 DEF WindowElapses, AWRun, NoLostSignal, writer
  <2> QED BY <1>6, <2>1, <2>2, <2>3 DEF AWInv, WindowElapses
<1>7. CASE Stop
  <2>1. AWOrder' /\ AWPlaces' /\ AWCounts'
    BY <1>7, AWStill DEF Stop, writer
  <2>2. TypeOK'
    BY <1>0, <1>7 DEF Stop, TypeOK, writer, producer, marker
  <2>3. AWRun' /\ NoLostSignal'
    BY <1>0, <1>7 DEF Stop, AWRun, NoLostSignal, writer
  <2> QED BY <1>7, <2>1, <2>2, <2>3 DEF AWInv, Stop
<1>8. ASSUME NEW n \in Nat, PopBatch(n), UNCHANGED <<notify, written, lost, errors>>, Elsewhere, runPc # "none",
             NEW to \in {"run", "wait", "fill", "select", "flush", "done"}, runPc' = to,
             to = "wait" => runPc = "run" /\ queue = <<>>,
             to = "select" => queue = <<>>,
             to = "run" => FALSE,
             to = "flush" => runPc = "drain",
             to = "done" => runPc = "drain" /\ queue = <<>>
      PROVE  AWInv' /\ Warned
  <2>1. UNCHANGED <<started, stopped, dropped, pushes, base, recent, pc, sev, seen, calls>>
    BY <1>8 DEF Elsewhere, marker, producer
  <2>2. /\ queue' \in Seq(Event) /\ batch' \in Seq(Event)
        /\ queue = <<>> => queue' = <<>> /\ batch' = batch
        /\ AWOrder' /\ AWPlaces' /\ AWCounts'
    BY <1>8, <2>1, AWPop
  <2>3. TypeOK'
    BY <1>0, <1>8, <2>1, <2>2 DEF TypeOK
  <2>4. AWRun'
    BY <1>0, <1>8, <2>1, <2>2 DEF AWRun
  <2>5. NoLostSignal'
    BY <1>0, <1>8, <2>2 DEF NoLostSignal
  <2> QED BY <2>1, <2>2, <2>3, <2>4, <2>5 DEF AWInv
<1>9. ASSUME UNCHANGED <<queue, batch, written, lost, errors>>, Elsewhere, notify' \in BOOLEAN, runPc # "none",
             NEW to \in {"run", "fill", "write", "drain", "flush"}, runPc' = to,
             to = "run" => runPc = "wait",
             to = "drain" => runPc = "wait" /\ stopped, to = "flush" => stopped
      PROVE  AWInv' /\ Warned
  <2>1. UNCHANGED <<started, stopped, dropped, pushes, base, recent, pc, sev, seen, calls>>
    BY <1>9 DEF Elsewhere, marker, producer
  <2>2. AWOrder' /\ AWPlaces' /\ AWCounts'
    BY <1>9, <2>1, AWStill
  <2>3. TypeOK'
    BY <1>0, <1>9, <2>1 DEF TypeOK
  <2>4. AWRun' /\ NoLostSignal'
    BY <1>0, <1>9, <2>1 DEF AWRun, NoLostSignal
  <2> QED BY <2>1, <2>2, <2>3, <2>4 DEF AWInv
<1>10. ASSUME NEW from, NEW to, WriteBatch(from, to),
              (from = "write" /\ to = "run") \/ (from = "flush" /\ to = "drain")
       PROVE  AWInv' /\ Warned
  <2>1. UNCHANGED <<started, stopped, dropped, pushes, base, recent, pc, sev, seen, calls, queue, notify>>
    BY <1>10 DEF WriteBatch, Elsewhere, marker, producer
  <2>2. /\ batch' = <<>> /\ runPc = from /\ runPc' = to
        /\ \/ written' = written \o batch /\ UNCHANGED lost
           \/ lost' = lost \cup SeqRange(batch) /\ UNCHANGED written
    BY <1>10 DEF WriteBatch, RunStep
  <2>3. written' \in Seq(Event) /\ lost' \subseteq Event /\ AWOrder' /\ AWPlaces' /\ AWCounts'
    BY <2>1, <2>2, AWWrite
  <2>4. (from = "write" /\ to = "run") \/ (from = "flush" /\ to = "drain")
    BY <1>10
  <2>5. TypeOK'
    <3>1. <<>> \in Seq(Event)
      OBVIOUS
    <3> QED BY <1>0, <2>1, <2>2, <2>3, <2>4, <3>1 DEF TypeOK
  <2>6. AWRun' /\ NoLostSignal'
    BY <1>0, <2>1, <2>2, <2>4 DEF AWRun, NoLostSignal
  <2> QED BY <2>1, <2>3, <2>5, <2>6 DEF AWInv
<1>11. BatchSize \in Nat \ {0}
  BY DEF AuditAssumption
<1>12. CASE Pop
  <2>1. PICK to \in {"wait", "fill"} : to = IF queue = <<>> THEN "wait" ELSE "fill"
    OBVIOUS
  <2> QED BY <1>8, <1>11, <1>12, <2>1 DEF Pop, RunStep
<1>13. CASE Fill
  <2>1. CASE Len(batch) < BatchSize
    <3>1. BatchSize - Len(batch) \in Nat
      <4>1. Len(batch) \in Nat
        BY <1>0, LenProperties DEF TypeOK
      <4> QED BY <1>11, <2>1, <4>1
    <3>2. PICK to \in {"select", "fill"} : to = IF queue = <<>> THEN "select" ELSE "fill"
      OBVIOUS
    <3> QED BY <1>8, <1>13, <2>1, <3>1, <3>2 DEF Fill, RunStep
  <2>2. CASE ~(Len(batch) < BatchSize)
    BY <1>0, <1>9, <1>13, <2>2 DEF Fill, RunStep, TypeOK
  <2> QED BY <2>1, <2>2
<1>14. CASE FlushTimer
  BY <1>0, <1>9, <1>14 DEF FlushTimer, RunStep, TypeOK
<1>15. CASE Drain
  <2>1. PICK to \in {"done", "flush"} : to = IF queue = <<>> THEN "done" ELSE "flush"
    OBVIOUS
  <2> QED BY <1>8, <1>11, <1>15, <2>1 DEF Drain, RunStep
<1>16. CASE Wake("wait", "run") \/ Wake("select", "fill")
  BY <1>0, <1>9, <1>16 DEF Wake, RunStep, TypeOK
<1>17. CASE Stopping("wait", "drain") \/ Stopping("select", "flush")
  BY <1>0, <1>9, <1>17 DEF Stopping, RunStep, TypeOK
<1>18. CASE UNCHANGED vars
  <2>1. AWOrder' /\ AWPlaces' /\ AWCounts'
    BY <1>18, AWStill DEF vars, writer
  <2>2. TypeOK' /\ AWRun' /\ NoLostSignal'
    BY <1>0, <1>18 DEF vars, writer, marker, producer, TypeOK, AWRun, NoLostSignal
  <2> QED BY <1>18, <2>1, <2>2 DEF AWInv, vars
<1>19. CASE Run
  <2>1. CASE WriteBatch("write", "run")
    BY <1>10, <2>1
  <2>2. CASE WriteBatch("flush", "drain")
    BY <1>10, <2>2
  <2> QED BY <1>12, <1>13, <1>14, <1>15, <1>16, <1>17, <1>19, <2>1, <2>2 DEF Run
<1>20. AWInv' /\ Warned
  <2> HIDE DEF AWInv
  <2>1. CASE \E p \in Producers, s \in Severities : Start(p, s)
    BY <1>1, <2>1
  <2>2. CASE \E p \in Producers : Produce(p)
    BY <1>2, <1>3, <1>4, <1>5, <2>2 DEF Produce
  <2> QED BY <1>6, <1>7, <1>18, <1>19, <2>1, <2>2 DEF Next
<1> QED BY <1>20 DEF Warned

\* What is accepted is written in the order of the pushes, dropped by the policy
\* of the overflow or lost with its batch, and is in one of these places only; a
\* writer that sleeps or has stopped owes nothing (audit_writer.go): for any
\* producers, capacity, size of a batch and number of events and failures.
THEOREM EventsAreKept ==
  Spec => AuditIsKept
<1>1. Init /\ [][Next]_vars => []AWInv
  BY AuditAssumption, AWInitInv, AWNextInv, PTL
<1>2. AWInv => EventsConserved
  <2> SUFFICES ASSUME AWInv PROVE EventsConserved
    OBVIOUS
  <2>1. /\ queue \in Seq(Event) /\ batch \in Seq(Event) /\ written \in Seq(Event) /\ dropped \subseteq Event
        /\ lost \subseteq Event /\ pushes \in Nat /\ AWOrder /\ AWPlaces /\ AWCounts
    BY DEF AWInv, TypeOK
  <2>2. PICK f \in Seq(Event) : f = written \o batch
    BY <2>1, ConcatProperties
  <2>3. PICK g \in Seq(Event) : g = f \o queue
    BY <2>1, ConcatProperties
  <2>4. Flow = g
    BY <2>2, <2>3 DEF Flow
  <2>5. \A e : AWHas(g, e) <=> AWKept(e)
    BY <2>1, <2>2, <2>3, AWHasConcat DEF AWKept
  <2>6. AWSorted(g)
    <3>1. AWSorted(f)
      BY <2>1, <2>2, AWSortedConcat DEF AWOrder
    <3>2. AWBelow(f, queue)
      <4>1. \A e : AWHas(f, e) <=> AWHas(written, e) \/ AWHas(batch, e)
        BY <2>1, <2>2, AWHasConcat
      <4>2. /\ \A e, h \in Event : AWHas(written, e) /\ AWHas(queue, h) => e.at < h.at
            /\ \A e, h \in Event : AWHas(batch, e) /\ AWHas(queue, h) => e.at < h.at
        BY <2>1, AWBelowHas DEF AWOrder
      <4>3. \A e, h \in Event : AWHas(f, e) /\ AWHas(queue, h) => e.at < h.at
        BY <4>1, <4>2
      <4> QED BY <2>1, <4>3, AWBelowHas
    <3> QED BY <2>1, <2>3, <3>1, <3>2, AWSortedConcat DEF AWOrder
  <2>7. Len(Flow) + Cardinality(dropped) + Cardinality(lost) = pushes
    <3>1. PICK k \in Nat, l \in Nat, m \in Nat : k = Len(written) /\ l = Len(batch) /\ m = Len(queue)
      BY <2>1, LenProperties
    <3>2. Len(f) = k + l
      BY <2>1, <2>2, <3>1, ConcatProperties
    <3>3. PICK j \in Nat : j = Len(f)
      BY LenProperties
    <3>4. Len(g) = j + m
      BY <2>1, <2>3, <3>1, <3>3, ConcatProperties
    <3>5. Len(g) = (k + l) + m
      BY <3>2, <3>3, <3>4
    <3> QED BY <2>1, <2>4, <3>1, <3>5 DEF AWCounts
  <2>8. Cardinality({e.at : e \in SeqRange(Flow) \cup dropped \cup lost}) = pushes
    <3> DEFINE All == SeqRange(Flow) \cup dropped \cup lost
    <3>1. \A e : e \in All <=> AWKept(e) \/ e \in AWGone
      BY <2>4, <2>5 DEF SeqRange, AWHas, AWGone
    <3>2. All \subseteq Event
      <4>1. \A i \in 1..Len(g) : g[i] \in Event
        BY ElementOfSeq
      <4> QED BY <2>1, <2>4, <4>1 DEF SeqRange
    <3> HIDE DEF All
    <3>3. {e.at : e \in All} = 1..pushes
      <4>1. \A e \in All : e.at \in 1..pushes
        BY <2>1, <3>1, <3>2 DEF AWPlaces
      <4>2. \A n \in 1..pushes : \E e \in All : e.at = n
        BY <2>1, <3>1 DEF AWPlaces
      <4> QED BY <4>1, <4>2
    <3>4. Cardinality(1..pushes) = pushes
      <4>1. 1 \in Int /\ pushes \in Int
        BY <2>1
      <4>2. Cardinality(1..pushes) = IF 1 > pushes THEN 0 ELSE pushes - 1 + 1
        BY <4>1, FS_Interval
      <4> QED BY <2>1, <4>2
    <3> QED BY <3>3, <3>4 DEF All
  <2> QED BY <2>4, <2>6, <2>7, <2>8 DEF EventsConserved, AWSorted
<1>3. AWInv => TypeOK /\ NoLostSignal /\ StopDrains
  BY DEF AWInv, AWRun, StopDrains
<1>4. AWInv /\ [Next]_vars =>
        [\A e \in dropped' \ dropped : e.sev = "warn" => Low = {} /\ queue'[Len(queue')].sev = "warn"]_vars
  BY AuditAssumption, AWNextInv
<1> QED BY <1>1, <1>2, <1>3, <1>4, PTL DEF Spec, AuditIsKept, WarningsOutliveInfo

-----------------------------------------------------------------------------
(***************************************************************************)
(* The debouncer of token uses.  That a flush is owed needs that a timer   *)
(* that has fired still has its callback before it takes the updates; that *)
(* the newest use is kept needs that everything held is at most as new and *)
(* that a flush only takes updates into empty hands.  That a row holds the *)
(* newest use written needs that whatever is on its way is newer, unless   *)
(* it was overtaken.                                                       *)
(***************************************************************************)

\* The types without those of the rows.
TUFlushTypes ==
    /\ {tuPending, tuSaved, tuLost, tuNewest} \subseteq [Tokens -> 0..MaxUses]
    /\ tuTimer \in {"none", "armed", "fired"}
    /\ tuCircuit \in {"closed", "open", "over"}
    /\ tuAt \in [Callbacks -> {"idle", "begin", "circuit", "take"} \cup TUWriting]
    /\ tuFresh \in [Callbacks -> BOOLEAN]
    /\ tuBatch \in [Callbacks -> [Tokens -> 0..MaxUses]]
    /\ tuForced \in [Tokens -> 0..MaxUses]
    /\ tuSuspended \in BOOLEAN /\ tuQuiet \subseteq {"armed", "running"}
    /\ tuHolder \in {"none", "stop", "reset", "write stop", "write reset"}

TUBefore == {"begin", "circuit", "take"}
TUComing == \E c \in Callbacks : tuFresh[c] /\ tuAt[c] \in TUBefore
TUOwed   == (tuTimer = "fired" => TUComing) /\ (tuPending # TUNothing /\ tuTimer # "armed" => TUComing)

\* The hands of a flush are empty before it has taken the updates.
TUHands ==
    /\ \A c \in Callbacks : tuAt[c] \notin {"write", "requeue"} => tuBatch[c] = TUNothing
    /\ tuHolder \notin {"write stop", "write reset"} => tuForced = TUNothing

TUNoneNewer ==
    \A t \in Tokens :
        /\ tuNewest[t] <= tuUses
        /\ tuPending[t] <= tuNewest[t] /\ tuForced[t] <= tuNewest[t]
        /\ tuSaved[t] <= tuNewest[t] /\ tuLost[t] <= tuNewest[t]
        /\ \A c \in Callbacks : tuBatch[c][t] <= tuNewest[t]

TUSomewhere(t) ==
    \/ tuNewest[t] = tuPending[t] \/ tuNewest[t] = tuForced[t]
    \/ tuNewest[t] = tuSaved[t] \/ tuNewest[t] = tuLost[t]
    \/ \E c \in Callbacks : tuNewest[t] = tuBatch[c][t]

TUKept == TUNoneNewer /\ \A t \in Tokens : TUSomewhere(t)

TUInv == TUFlushTypes /\ tuUses \in 0..MaxUses /\ TUOwed /\ TUHands /\ TUKept

LEMMA TUNothingFacts ==
  ASSUME TokenUseAssumption
  PROVE  TUNothing \in [Tokens -> 0..MaxUses] /\ \A t \in Tokens : TUNothing[t] = 0
BY DEF TUNothing, TokenUseAssumption

\* What the types say of every token.
LEMMA TUTypes ==
  ASSUME TUFlushTypes, TokenUseAssumption
  PROVE  /\ tuPending \in [Tokens -> 0..MaxUses] /\ tuSaved \in [Tokens -> 0..MaxUses]
         /\ tuLost \in [Tokens -> 0..MaxUses] /\ tuNewest \in [Tokens -> 0..MaxUses]
         /\ \A t \in Tokens : /\ tuNewest[t] \in Nat /\ tuPending[t] \in Nat /\ tuForced[t] \in Nat
                              /\ tuSaved[t] \in Nat /\ tuLost[t] \in Nat
                              /\ \A c \in Callbacks : tuBatch[c] \in [Tokens -> 0..MaxUses] /\ tuBatch[c][t] \in Nat
<1>1. MaxUses \in Nat
  BY DEF TokenUseAssumption
<1>2. /\ tuPending \in [Tokens -> 0..MaxUses] /\ tuSaved \in [Tokens -> 0..MaxUses]
      /\ tuLost \in [Tokens -> 0..MaxUses] /\ tuNewest \in [Tokens -> 0..MaxUses]
      /\ tuForced \in [Tokens -> 0..MaxUses] /\ \A c \in Callbacks : tuBatch[c] \in [Tokens -> 0..MaxUses]
  BY DEF TUFlushTypes
<1> QED BY <1>1, <1>2

LEMMA TUMergeFacts ==
  ASSUME TokenUseAssumption, NEW f \in [Tokens -> 0..MaxUses], NEW g \in [Tokens -> 0..MaxUses]
  PROVE  /\ TUMerge(f, g) \in [Tokens -> 0..MaxUses]
         /\ \A t \in Tokens : TUMerge(f, g)[t] = IF f[t] > g[t] THEN f[t] ELSE g[t]
BY DEF TUMerge, TUMax, TokenUseAssumption

LEMMA TUInitInv == ASSUME TokenUseAssumption, TUInit PROVE TUInv
<1>1. TUNothing \in [Tokens -> 0..MaxUses] /\ \A t \in Tokens : TUNothing[t] = 0
  BY TUNothingFacts
<1>2. 0 \in 0..MaxUses
  BY DEF TokenUseAssumption
<1> HIDE DEF TUNothing
<1>3. TUFlushTypes
  BY <1>1 DEF TUInit, TUFlushTypes
<1>4. TUKept
  BY <1>1 DEF TUInit, TUKept, TUNoneNewer, TUSomewhere
<1> QED BY <1>2, <1>3, <1>4 DEF TUInit, TUInv, TUOwed, TUHands

\* What the steps leave alone that move no use.
LEMMA TUKeptStill ==
  ASSUME TUKept, UNCHANGED <<tuPending, tuForced, tuSaved, tuLost, tuBatch, tuNewest, tuUses>>
  PROVE  TUKept'
BY DEF TUKept, TUNoneNewer, TUSomewhere

\* A timer that is scheduled is armed, or there is nothing to write.
LEMMA TUScheduleFacts ==
  ASSUME NEW p
  PROVE  /\ TUSchedule("none", p) \in {"none", "armed"}
         /\ p # TUNothing => TUSchedule("none", p) = "armed"
BY DEF TUSchedule

\* A callback that leaves, or goes on, before it has taken the updates.
LEMMA TUGotoFacts ==
  ASSUME TUInv, NEW c \in Callbacks, NEW l \in {"idle", "begin", "circuit", "take"}, TUGoto(c, l),
         UNCHANGED <<tuPending, tuBatch, tuForced, tuHolder, tuSaved, tuLost, tuNewest, tuUses>>,
         tuAt[c] \notin {"write", "requeue"},
         l = "idle" => tuAt[c] \notin TUBefore \/ ~tuFresh[c] \/ tuTimer' = TUSchedule("none", tuPending),
         tuTimer' \in {tuTimer, TUSchedule("none", tuPending), TUSchedule(tuTimer, tuPending)},
         l # "idle" => l \in TUBefore,
         UNCHANGED <<tuCircuit, tuSuspended, tuQuiet>>
  PROVE  TUInv'
<1>0. TUFlushTypes /\ tuUses \in 0..MaxUses /\ TUOwed /\ TUHands /\ TUKept
  BY DEF TUInv
<1>1. /\ tuAt' = [tuAt EXCEPT ![c] = l] /\ tuFresh' = [tuFresh EXCEPT ![c] = tuFresh[c] /\ l # "idle"]
      /\ tuAt \in [Callbacks -> {"idle", "begin", "circuit", "take"} \cup TUWriting]
      /\ tuFresh \in [Callbacks -> BOOLEAN]
  BY <1>0 DEF TUGoto, TUFlushTypes
<1>2. tuTimer \in {"none", "armed", "fired"} /\ tuTimer' \in {"none", "armed", "fired"}
  BY <1>0, TUScheduleFacts DEF TUFlushTypes, TUSchedule
<1>3. TUFlushTypes'
  BY <1>0, <1>1, <1>2 DEF TUFlushTypes
<1>4. TUOwed'
  <2>1. CASE tuTimer' = TUSchedule("none", tuPending)
    BY <2>1, TUScheduleFacts DEF TUOwed
  <2>2. CASE tuTimer' # TUSchedule("none", tuPending)
    <3>1. TUComing => TUComing'
      <4> SUFFICES ASSUME NEW d \in Callbacks, tuFresh[d], tuAt[d] \in TUBefore
                   PROVE  tuFresh'[d] /\ tuAt'[d] \in TUBefore
        BY DEF TUComing
      <4>1. CASE d = c
        BY <1>1, <2>2, <4>1
      <4>2. CASE d # c
        BY <1>1, <4>2
      <4> QED BY <4>1, <4>2
    <3>2. tuTimer' = tuTimer \/ (tuTimer' = "armed" /\ tuTimer = "none")
      BY <2>2 DEF TUSchedule
    <3> QED BY <1>0, <3>1, <3>2 DEF TUOwed
  <2> QED BY <2>1, <2>2
<1>5. TUHands'
  BY <1>0, <1>1 DEF TUHands
<1>6. TUKept'
  BY <1>0, TUKeptStill
<1> QED BY <1>0, <1>3, <1>4, <1>5, <1>6 DEF TUInv

LEMMA TURecordInv ==
  ASSUME TokenUseAssumption, TUInv, NEW t \in Tokens, TURecord(t)
  PROVE  TUInv'
<1>0. TUFlushTypes /\ tuUses \in 0..MaxUses /\ TUOwed /\ TUHands /\ TUKept /\ MaxUses \in Nat
  BY DEF TUInv, TokenUseAssumption
<1>1. /\ tuUses < MaxUses /\ tuUses' = tuUses + 1
      /\ tuNewest' = [tuNewest EXCEPT ![t] = tuUses'] /\ tuPending' = [tuPending EXCEPT ![t] = tuUses']
      /\ tuTimer' = TUSchedule(tuTimer, tuPending')
      /\ UNCHANGED <<tuCircuit, tuAt, tuFresh, tuBatch, tuForced, tuSuspended, tuHolder, tuQuiet, tuSaved, tuLost>>
  BY DEF TURecord, tuCallback, tuGate, tuData
<1>2. tuUses' \in 0..MaxUses /\ tuUses' > tuUses
  BY <1>0, <1>1
<1>3. /\ tuPending' \in [Tokens -> 0..MaxUses] /\ tuNewest' \in [Tokens -> 0..MaxUses]
      /\ \A u \in Tokens : IF u = t THEN tuPending'[u] = tuUses' /\ tuNewest'[u] = tuUses'
                                    ELSE tuPending'[u] = tuPending[u] /\ tuNewest'[u] = tuNewest[u]
  BY <1>0, <1>1, <1>2 DEF TUFlushTypes
<1>4. tuPending' # TUNothing
  BY <1>0, <1>2, <1>3, TUNothingFacts
<1>5. tuTimer' = IF tuTimer = "none" THEN "armed" ELSE tuTimer
  BY <1>1, <1>4 DEF TUSchedule
<1>6. TUFlushTypes'
  <2>1. {tuPending', tuSaved', tuLost', tuNewest'} \subseteq [Tokens -> 0..MaxUses]
    BY <1>0, <1>1, <1>3, TUTypes
  <2>2. tuTimer' \in {"none", "armed", "fired"}
    BY <1>0, <1>5 DEF TUFlushTypes
  <2> QED BY <1>0, <1>1, <2>1, <2>2 DEF TUFlushTypes
<1>7. TUOwed'
  BY <1>0, <1>1, <1>5 DEF TUOwed, TUComing, TUFlushTypes
<1>8. TUHands'
  BY <1>0, <1>1 DEF TUHands
<1>9. TUNoneNewer'
  <2> SUFFICES ASSUME NEW u \in Tokens
               PROVE  /\ tuNewest'[u] <= tuUses'
                      /\ tuPending'[u] <= tuNewest'[u] /\ tuForced[u] <= tuNewest'[u]
                      /\ tuSaved[u] <= tuNewest'[u] /\ tuLost[u] <= tuNewest'[u]
                      /\ \A c \in Callbacks : tuBatch[c][u] <= tuNewest'[u]
    BY <1>1 DEF TUNoneNewer
  <2>1. /\ tuNewest[u] \in Nat /\ tuForced[u] \in Nat /\ tuSaved[u] \in Nat /\ tuLost[u] \in Nat
        /\ tuPending[u] \in Nat /\ \A c \in Callbacks : tuBatch[c][u] \in Nat
    BY <1>0, TUTypes
  <2>2. /\ tuNewest[u] <= tuUses /\ tuPending[u] <= tuNewest[u] /\ tuForced[u] <= tuNewest[u]
        /\ tuSaved[u] <= tuNewest[u] /\ tuLost[u] <= tuNewest[u]
        /\ \A c \in Callbacks : tuBatch[c][u] <= tuNewest[u]
    BY <1>0 DEF TUKept, TUNoneNewer
  <2>3. tuUses \in Nat /\ tuUses' \in Nat
    BY <1>0, <1>2
  <2> QED BY <1>2, <1>3, <2>1, <2>2, <2>3
<1>10. \A u \in Tokens : TUSomewhere(u)'
  BY <1>0, <1>1, <1>3 DEF TUKept, TUSomewhere
<1> QED BY <1>2, <1>6, <1>7, <1>8, <1>9, <1>10 DEF TUInv, TUKept

LEMMA TUFireInv ==
  ASSUME TUInv, NEW c \in Callbacks, TUFire(c)
  PROVE  TUInv'
<1>0. TUFlushTypes /\ tuUses \in 0..MaxUses /\ TUOwed /\ TUHands /\ TUKept
  BY DEF TUInv
<1>1. /\ tuTimer' = "fired" /\ tuAt' = [tuAt EXCEPT ![c] = "begin"] /\ tuFresh' = [tuFresh EXCEPT ![c] = TRUE]
      /\ tuAt[c] = "idle"
      /\ UNCHANGED <<tuPending, tuCircuit, tuBatch, tuForced, tuSuspended, tuHolder, tuQuiet, tuSaved, tuLost,
                     tuNewest, tuUses>>
  BY DEF TUFire, tuGate, tuData, tuRecorded
<1>2. TUFlushTypes'
  BY <1>0, <1>1 DEF TUFlushTypes
<1>3. tuFresh'[c] /\ tuAt'[c] \in TUBefore
  BY <1>0, <1>1 DEF TUFlushTypes, TUBefore
<1>4. TUOwed'
  BY <1>3 DEF TUOwed, TUComing
<1>5. TUHands'
  BY <1>0, <1>1 DEF TUHands, TUFlushTypes
<1>6. TUKept'
  BY <1>0, <1>1, TUKeptStill
<1> QED BY <1>0, <1>1, <1>2, <1>4, <1>5, <1>6 DEF TUInv

\* The steps of a callback that only decide where it goes.
LEMMA TUWalkInv ==
  ASSUME TUInv, NEW c \in Callbacks, TUBegin(c) \/ TUTimerCircuit(c) \/ TUResched(c)
  PROVE  TUInv'
<1>1. UNCHANGED <<tuPending, tuBatch, tuForced, tuHolder, tuSaved, tuLost, tuNewest, tuUses, tuCircuit,
                  tuSuspended, tuQuiet>>
  BY DEF TUBegin, TUTimerCircuit, TUResched, tuGate, tuData, tuRecorded
<1>2. CASE TUBegin(c)
  <2>1. CASE tuSuspended
    <3>1. /\ TUGoto(c, "idle") /\ tuTimer' = IF tuFresh[c] THEN TUSchedule("none", tuPending) ELSE tuTimer
          /\ tuAt[c] = "begin"
      BY <1>2, <2>1 DEF TUBegin, TUTurnedAway
    <3> QED BY <1>1, <3>1, TUGotoFacts
  <2>2. CASE ~tuSuspended
    <3>1. TUGoto(c, "circuit") /\ tuTimer' = tuTimer /\ tuAt[c] = "begin"
      BY <1>2, <2>2 DEF TUBegin
    <3> QED BY <1>1, <3>1, TUGotoFacts DEF TUBefore
  <2> QED BY <2>1, <2>2
<1>3. CASE TUTimerCircuit(c)
  <2>0. tuAt[c] = "circuit"
    BY <1>3 DEF TUTimerCircuit
  <2>1. CASE ~tuFresh[c]
    <3>1. TUGoto(c, "idle") /\ tuTimer' = tuTimer
      BY <1>3, <2>1 DEF TUTimerCircuit
    <3> QED BY <1>1, <2>0, <2>1, <3>1, TUGotoFacts
  <2>2. CASE tuFresh[c] /\ tuCircuit = "open"
    <3>1. TUGoto(c, "idle") /\ tuTimer' = TUSchedule("none", tuPending)
      BY <1>3, <2>2 DEF TUTimerCircuit
    <3> QED BY <1>1, <2>0, <3>1, TUGotoFacts
  <2>3. CASE tuFresh[c] /\ tuCircuit # "open"
    <3>1. TUGoto(c, "take") /\ tuTimer' = tuTimer
      BY <1>3, <2>3 DEF TUTimerCircuit
    <3> QED BY <1>1, <2>0, <3>1, TUGotoFacts DEF TUBefore
  <2> QED BY <2>1, <2>2, <2>3
<1>4. CASE TUResched(c)
  <2>1. TUGoto(c, "idle") /\ tuTimer' = TUSchedule(tuTimer, tuPending) /\ tuAt[c] = "resched"
    BY <1>4 DEF TUResched
  <2> QED BY <1>1, <2>1, TUGotoFacts DEF TUBefore
<1> QED BY <1>2, <1>3, <1>4

LEMMA TUTakeInv ==
  ASSUME TokenUseAssumption, TUInv, NEW c \in Callbacks, TUTakePending(c)
  PROVE  TUInv'
<1>0. TUFlushTypes /\ tuUses \in 0..MaxUses /\ TUOwed /\ TUHands /\ TUKept
  BY DEF TUInv
<1>1. /\ tuAt[c] = "take"
      /\ UNCHANGED <<tuCircuit, tuForced, tuSuspended, tuHolder, tuQuiet, tuSaved, tuLost, tuNewest, tuUses>>
  BY DEF TUTakePending, tuGate, tuData, tuRecorded
<1>2. CASE ~tuFresh[c]
  <2>1. TUGoto(c, "idle") /\ tuTimer' = tuTimer /\ UNCHANGED <<tuPending, tuBatch>>
    BY <1>2 DEF TUTakePending
  <2> QED BY <1>1, <1>2, <2>1, TUGotoFacts
<1>3. CASE tuFresh[c]
  <2> DEFINE l == IF tuPending = TUNothing THEN "idle" ELSE "write"
  <2>1. /\ tuBatch' = [tuBatch EXCEPT ![c] = tuPending] /\ tuPending' = TUNothing /\ tuTimer' = "none"
        /\ tuAt' = [tuAt EXCEPT ![c] = l] /\ tuFresh' = [tuFresh EXCEPT ![c] = tuFresh[c] /\ l # "idle"]
    BY <1>3 DEF TUTakePending, TUGoto
  <2>2. TUNothing \in [Tokens -> 0..MaxUses] /\ \A t \in Tokens : TUNothing[t] = 0
    BY TUNothingFacts
  <2>3. tuBatch[c] = TUNothing
    BY <1>0, <1>1 DEF TUHands
  <2> HIDE DEF TUNothing
  <2>4. /\ tuBatch' \in [Callbacks -> [Tokens -> 0..MaxUses]] /\ tuBatch'[c] = tuPending
        /\ \A d \in Callbacks : d # c => tuBatch'[d] = tuBatch[d]
    BY <1>0, <2>1 DEF TUFlushTypes
  <2>5. tuAt'[c] = l /\ \A d \in Callbacks : d # c => tuAt'[d] = tuAt[d]
    BY <1>0, <2>1 DEF TUFlushTypes
  <2>6. TUFlushTypes'
    BY <1>0, <1>1, <2>1, <2>2, <2>4 DEF TUFlushTypes, TUWriting
  <2>7. TUOwed'
    BY <2>1 DEF TUOwed
  <2>8. TUHands'
    <3>1. \A d \in Callbacks : tuAt'[d] \notin {"write", "requeue"} => tuBatch'[d] = TUNothing
      BY <1>0, <2>4, <2>5 DEF TUHands
    <3> QED BY <1>0, <1>1, <3>1 DEF TUHands
  <2>9. TUKept'
    <3>1. \A t \in Tokens : /\ tuPending[t] \in Nat /\ tuNewest[t] \in Nat
                            /\ \A d \in Callbacks : tuBatch[d][t] \in Nat
      BY <1>0, TUTypes
    <3>2. TUNoneNewer'
      <4> SUFFICES ASSUME NEW t \in Tokens
                   PROVE  tuPending'[t] <= tuNewest[t] /\ \A d \in Callbacks : tuBatch'[d][t] <= tuNewest[t]
        BY <1>0, <1>1 DEF TUKept, TUNoneNewer
      <4>1. tuPending[t] <= tuNewest[t] /\ \A d \in Callbacks : tuBatch[d][t] <= tuNewest[t]
        BY <1>0 DEF TUKept, TUNoneNewer
      <4> QED BY <2>1, <2>2, <2>4, <3>1, <4>1
    <3>3. ASSUME NEW t \in Tokens PROVE TUSomewhere(t)'
      <4>1. TUSomewhere(t)
        BY <1>0 DEF TUKept
      <4>2. CASE tuNewest[t] = tuPending[t]
        BY <1>1, <2>4, <4>2 DEF TUSomewhere
      <4>3. CASE \E d \in Callbacks : tuNewest[t] = tuBatch[d][t]
        BY <1>1, <2>1, <2>2, <2>3, <2>4, <4>3 DEF TUSomewhere
      <4> QED BY <1>1, <4>1, <4>2, <4>3 DEF TUSomewhere
    <3> QED BY <3>2, <3>3 DEF TUKept
  <2> QED BY <1>0, <1>1, <2>6, <2>7, <2>8, <2>9 DEF TUInv
<1> QED BY <1>2, <1>3

\* A batch that is merged into what is saved, lost or pending.
LEMMA TUMergeKeeps ==
  ASSUME TokenUseAssumption, TUInv, NEW f \in [Tokens -> 0..MaxUses], NEW g \in [Tokens -> 0..MaxUses],
         \A t \in Tokens : f[t] <= tuNewest[t] /\ g[t] <= tuNewest[t]
  PROVE  /\ TUMerge(f, g) \in [Tokens -> 0..MaxUses]
         /\ \A t \in Tokens : /\ TUMerge(f, g)[t] <= tuNewest[t]
                              /\ tuNewest[t] = f[t] \/ tuNewest[t] = g[t] => tuNewest[t] = TUMerge(f, g)[t]
<1>1. /\ TUMerge(f, g) \in [Tokens -> 0..MaxUses]
      /\ \A t \in Tokens : TUMerge(f, g)[t] = IF f[t] > g[t] THEN f[t] ELSE g[t]
  BY TUMergeFacts
<1>2. \A t \in Tokens : f[t] \in Nat /\ g[t] \in Nat /\ tuNewest[t] \in Nat
  <2>1. \A t \in Tokens : f[t] \in 0..MaxUses /\ g[t] \in 0..MaxUses /\ MaxUses \in Nat
    BY DEF TokenUseAssumption
  <2> QED BY <2>1, TUTypes DEF TUInv
<1> HIDE DEF TUMerge
<1>3. ASSUME NEW t \in Tokens
      PROVE  /\ TUMerge(f, g)[t] <= tuNewest[t]
             /\ tuNewest[t] = f[t] \/ tuNewest[t] = g[t] => tuNewest[t] = TUMerge(f, g)[t]
  BY <1>1, <1>2
<1> QED BY <1>1, <1>3

\* closeFailureCircuit leaves a timer for what is pending.
LEMMA TUCloseOwed ==
  ASSUME TUInv, TUCloseCircuit, UNCHANGED tuPending,
         tuFresh' = IF TUAdvances THEN TUNewEpoch ELSE tuFresh,
         \A c \in Callbacks : tuAt[c] \in TUBefore => tuAt'[c] = tuAt[c]
  PROVE  /\ TUOwed' /\ tuTimer' \in {"none", "armed", "fired"} /\ tuFresh' \in [Callbacks -> BOOLEAN]
         /\ tuCircuit' = "closed"
<1>0. TUFlushTypes /\ TUOwed
  BY DEF TUInv
<1>1. tuTimer' = "armed" \/ (tuTimer' = tuTimer /\ ~TUAdvances)
  BY DEF TUCloseCircuit, TUAdvances
<1>2. tuTimer' \in {"none", "armed", "fired"} /\ tuFresh' \in [Callbacks -> BOOLEAN] /\ tuCircuit' = "closed"
  BY <1>0, <1>1 DEF TUFlushTypes, TUNewEpoch, TUCloseCircuit
<1>3. CASE tuTimer' = "armed"
  BY <1>2, <1>3 DEF TUOwed
<1>4. CASE tuTimer' = tuTimer /\ ~TUAdvances
  <2>1. tuFresh' = tuFresh
    BY <1>4
  <2>2. TUComing => TUComing'
    BY <2>1 DEF TUComing
  <2> QED BY <1>0, <1>2, <1>4, <2>2 DEF TUOwed
<1> QED BY <1>1, <1>2, <1>3, <1>4

LEMMA TUWriteInv ==
  ASSUME TokenUseAssumption, TUInv, NEW c \in Callbacks, TUWrite(c)
  PROVE  TUInv'
<1>0. TUFlushTypes /\ tuUses \in 0..MaxUses /\ TUOwed /\ TUHands /\ TUKept
  BY DEF TUInv
<1>1. /\ tuAt[c] = "write"
      /\ UNCHANGED <<tuPending, tuTimer, tuCircuit, tuForced, tuSuspended, tuHolder, tuQuiet, tuNewest, tuUses>>
  BY DEF TUWrite, tuGate, tuRecorded
<1>2. PICK l \in {"close", "requeue"} :
         /\ TUGoto(c, l)
         /\ \/ /\ l = "close" /\ tuSaved' = TUMerge(tuSaved, tuBatch[c]) /\ tuLost' = tuLost
               /\ tuBatch' = [tuBatch EXCEPT ![c] = TUNothing]
            \/ l = "requeue" /\ UNCHANGED <<tuBatch, tuSaved, tuLost>>
  BY DEF TUWrite, TUStore
<1>3. /\ tuAt' = [tuAt EXCEPT ![c] = l] /\ tuFresh' = tuFresh
      /\ tuAt' \in [Callbacks -> {"idle", "begin", "circuit", "take"} \cup TUWriting]
      /\ tuAt'[c] = l /\ \A d \in Callbacks : d # c => tuAt'[d] = tuAt[d]
  BY <1>0, <1>2 DEF TUGoto, TUFlushTypes, TUWriting
<1>4. TUOwed'
  BY <1>0, <1>1, <1>3 DEF TUOwed, TUComing, TUBefore
<1>5. CASE l = "requeue"
  <2>1. UNCHANGED <<tuBatch, tuSaved, tuLost>>
    BY <1>2, <1>5
  <2>2. TUKept'
    BY <1>0, <1>1, <2>1, TUKeptStill
  <2>3. TUFlushTypes' /\ TUHands'
    BY <1>0, <1>1, <1>3, <1>5, <2>1 DEF TUFlushTypes, TUHands
  <2> QED BY <1>0, <1>1, <1>4, <2>2, <2>3 DEF TUInv
<1>6. CASE l = "close"
  <2> DEFINE b == tuBatch[c]
  <2>1. tuSaved' = TUMerge(tuSaved, b) /\ tuLost' = tuLost /\ tuBatch' = [tuBatch EXCEPT ![c] = TUNothing]
    BY <1>2, <1>6
  <2>2. TUNothing \in [Tokens -> 0..MaxUses] /\ \A t \in Tokens : TUNothing[t] = 0
    BY TUNothingFacts
  <2>3. /\ tuSaved \in [Tokens -> 0..MaxUses] /\ b \in [Tokens -> 0..MaxUses]
        /\ \A t \in Tokens : tuSaved[t] <= tuNewest[t] /\ b[t] <= tuNewest[t]
    BY <1>0 DEF TUKept, TUNoneNewer, TUFlushTypes
  <2>4. /\ tuSaved' \in [Tokens -> 0..MaxUses]
        /\ \A t \in Tokens : /\ tuSaved'[t] <= tuNewest[t]
                             /\ tuNewest[t] = tuSaved[t] \/ tuNewest[t] = b[t] => tuNewest[t] = tuSaved'[t]
    BY <2>1, <2>3, TUMergeKeeps
  <2> HIDE DEF TUNothing
  <2>5. /\ tuBatch' \in [Callbacks -> [Tokens -> 0..MaxUses]] /\ tuBatch'[c] = TUNothing
        /\ \A d \in Callbacks : d # c => tuBatch'[d] = tuBatch[d]
    BY <1>0, <2>1, <2>2 DEF TUFlushTypes
  <2>6. TUFlushTypes'
    <3>1. {tuPending', tuSaved', tuLost', tuNewest'} \subseteq [Tokens -> 0..MaxUses]
      BY <1>0, <1>1, <2>1, <2>4, TUTypes
    <3> QED BY <1>0, <1>1, <1>3, <2>5, <3>1 DEF TUFlushTypes
  <2>7. TUHands'
    <3>1. \A d \in Callbacks : tuAt'[d] \notin {"write", "requeue"} => tuBatch'[d] = TUNothing
      BY <1>0, <1>3, <2>5 DEF TUHands
    <3> QED BY <1>0, <1>1, <3>1 DEF TUHands
  <2>8. TUNoneNewer'
    <3> SUFFICES ASSUME NEW t \in Tokens
                 PROVE  tuSaved'[t] <= tuNewest[t] /\ \A d \in Callbacks : tuBatch'[d][t] <= tuNewest[t]
      BY <1>0, <1>1, <2>1 DEF TUKept, TUNoneNewer
    <3>1. tuNewest[t] \in Nat /\ \A d \in Callbacks : tuBatch[d][t] <= tuNewest[t]
      BY <1>0, TUTypes DEF TUKept, TUNoneNewer
    <3>2. \A d \in Callbacks : tuBatch'[d][t] <= tuNewest[t]
      BY <2>2, <2>5, <3>1
    <3> QED BY <2>4, <3>2
  <2>9. ASSUME NEW t \in Tokens PROVE TUSomewhere(t)'
    <3>1. TUSomewhere(t)
      BY <1>0 DEF TUKept
    <3>2. CASE tuNewest[t] = tuSaved[t] \/ tuNewest[t] = b[t]
      BY <1>1, <2>4, <3>2 DEF TUSomewhere
    <3>3. CASE \E d \in Callbacks : d # c /\ tuNewest[t] = tuBatch[d][t]
      BY <1>1, <2>5, <3>3 DEF TUSomewhere
    <3> QED BY <1>1, <2>1, <3>1, <3>2, <3>3 DEF TUSomewhere
  <2> QED BY <1>0, <1>1, <1>4, <2>6, <2>7, <2>8, <2>9 DEF TUInv, TUKept
<1> QED BY <1>5, <1>6

LEMMA TURequeueInv ==
  ASSUME TokenUseAssumption, TUInv, NEW c \in Callbacks, TURequeue(c)
  PROVE  TUInv'
<1> DEFINE b == tuBatch[c]
<1>0. TUFlushTypes /\ tuUses \in 0..MaxUses /\ TUOwed /\ TUHands /\ TUKept
  BY DEF TUInv
<1>1. /\ tuPending' = TUMerge(tuPending, b) /\ tuBatch' = [tuBatch EXCEPT ![c] = TUNothing]
      /\ tuCircuit' = "open" /\ tuFresh' = TUNewEpoch /\ tuTimer' = TUSchedule("none", tuPending')
      /\ tuAt' = [tuAt EXCEPT ![c] = "idle"]
      /\ UNCHANGED <<tuForced, tuSuspended, tuHolder, tuQuiet, tuSaved, tuLost, tuNewest, tuUses>>
  BY DEF TURequeue, tuGate, tuData, tuRecorded
<1>2. TUNothing \in [Tokens -> 0..MaxUses] /\ \A t \in Tokens : TUNothing[t] = 0
  BY TUNothingFacts
<1>3. /\ tuPending \in [Tokens -> 0..MaxUses] /\ b \in [Tokens -> 0..MaxUses]
      /\ \A t \in Tokens : tuPending[t] <= tuNewest[t] /\ b[t] <= tuNewest[t]
  BY <1>0 DEF TUKept, TUNoneNewer, TUFlushTypes
<1>4. /\ tuPending' \in [Tokens -> 0..MaxUses]
      /\ \A t \in Tokens : /\ tuPending'[t] <= tuNewest[t]
                           /\ tuNewest[t] = tuPending[t] \/ tuNewest[t] = b[t] => tuNewest[t] = tuPending'[t]
  BY <1>1, <1>3, TUMergeKeeps
<1>5. tuTimer' \in {"none", "armed"} /\ (tuPending' # TUNothing => tuTimer' = "armed")
  BY <1>1, TUScheduleFacts
<1> HIDE DEF TUNothing
<1>6. /\ tuBatch' \in [Callbacks -> [Tokens -> 0..MaxUses]] /\ tuBatch'[c] = TUNothing
      /\ \A d \in Callbacks : d # c => tuBatch'[d] = tuBatch[d]
  BY <1>0, <1>1, <1>2 DEF TUFlushTypes
<1>7. /\ tuAt' \in [Callbacks -> {"idle", "begin", "circuit", "take"} \cup TUWriting]
      /\ \A d \in Callbacks : d # c => tuAt'[d] = tuAt[d]
  BY <1>0, <1>1 DEF TUFlushTypes
<1>8. TUFlushTypes'
  <2>1. {tuPending', tuSaved', tuLost', tuNewest'} \subseteq [Tokens -> 0..MaxUses]
    BY <1>0, <1>1, <1>4, TUTypes
  <2>2. tuFresh' \in [Callbacks -> BOOLEAN]
    BY <1>1 DEF TUNewEpoch
  <2> QED BY <1>0, <1>1, <1>5, <1>6, <1>7, <2>1, <2>2 DEF TUFlushTypes
<1>9. TUOwed'
  BY <1>5 DEF TUOwed
<1>10. TUHands'
  <2>1. \A d \in Callbacks : tuAt'[d] \notin {"write", "requeue"} => tuBatch'[d] = TUNothing
    BY <1>0, <1>6, <1>7 DEF TUHands
  <2> QED BY <1>0, <1>1, <2>1 DEF TUHands
<1>11. TUNoneNewer'
  <2> SUFFICES ASSUME NEW t \in Tokens
               PROVE  tuPending'[t] <= tuNewest[t] /\ \A d \in Callbacks : tuBatch'[d][t] <= tuNewest[t]
    BY <1>0, <1>1 DEF TUKept, TUNoneNewer
  <2>1. tuNewest[t] \in Nat /\ \A d \in Callbacks : tuBatch[d][t] <= tuNewest[t]
    BY <1>0, TUTypes DEF TUKept, TUNoneNewer
  <2>2. \A d \in Callbacks : tuBatch'[d][t] <= tuNewest[t]
    BY <1>2, <1>6, <2>1
  <2> QED BY <1>4, <2>2
<1>12. ASSUME NEW t \in Tokens PROVE TUSomewhere(t)'
  <2>1. TUSomewhere(t)
    BY <1>0 DEF TUKept
  <2>2. CASE tuNewest[t] = tuPending[t] \/ tuNewest[t] = b[t]
    BY <1>1, <1>4, <2>2 DEF TUSomewhere
  <2>3. CASE \E d \in Callbacks : d # c /\ tuNewest[t] = tuBatch[d][t]
    BY <1>1, <1>6, <2>3 DEF TUSomewhere
  <2> QED BY <1>1, <2>1, <2>2, <2>3 DEF TUSomewhere
<1> QED BY <1>0, <1>1, <1>8, <1>9, <1>10, <1>11, <1>12 DEF TUInv, TUKept

LEMMA TUCloseInv ==
  ASSUME TokenUseAssumption, TUInv, NEW c \in Callbacks, TUClose(c)
  PROVE  TUInv'
<1>0. TUFlushTypes /\ tuUses \in 0..MaxUses /\ TUOwed /\ TUHands /\ TUKept
  BY DEF TUInv
<1>1. /\ tuAt[c] = "close" /\ TUCloseCircuit /\ tuAt' = [tuAt EXCEPT ![c] = "resched"]
      /\ tuFresh' = IF TUAdvances THEN TUNewEpoch ELSE tuFresh
      /\ UNCHANGED <<tuPending, tuBatch, tuForced, tuSuspended, tuHolder, tuQuiet, tuSaved, tuLost, tuNewest, tuUses>>
  BY DEF TUClose, tuGate, tuData, tuRecorded
<1>2. \A d \in Callbacks : tuAt[d] \in TUBefore => tuAt'[d] = tuAt[d]
  BY <1>0, <1>1 DEF TUFlushTypes, TUBefore
<1>3. /\ TUOwed' /\ tuTimer' \in {"none", "armed", "fired"} /\ tuFresh' \in [Callbacks -> BOOLEAN]
      /\ tuCircuit' = "closed"
  BY <1>1, <1>2, TUCloseOwed
<1>4. TUFlushTypes'
  BY <1>0, <1>1, <1>3 DEF TUFlushTypes, TUWriting
<1>5. TUHands'
  BY <1>0, <1>1 DEF TUHands, TUFlushTypes
<1>6. TUKept'
  BY <1>0, <1>1, TUKeptStill
<1> QED BY <1>0, <1>1, <1>3, <1>4, <1>5, <1>6 DEF TUInv

\* The steps of the gate and of the clock that move no use.
LEMMA TUStillInv ==
  ASSUME TUInv,
         UNCHANGED <<tuPending, tuTimer, tuAt, tuFresh, tuBatch, tuForced, tuSaved, tuLost, tuNewest, tuUses>>,
         tuHolder' = tuHolder \/ tuHolder \notin {"write stop", "write reset"}, TUFlushTypes'
  PROVE  TUInv'
<1>0. TUFlushTypes /\ tuUses \in 0..MaxUses /\ TUOwed /\ TUHands /\ TUKept
  BY DEF TUInv
<1>1. TUOwed' /\ TUHands'
  BY <1>0 DEF TUOwed, TUComing, TUHands
<1> QED BY <1>0, <1>1, TUKeptStill DEF TUInv

LEMMA TUForceTakeInv ==
  ASSUME TokenUseAssumption, TUInv, TUForceTake
  PROVE  TUInv'
<1>0. TUFlushTypes /\ tuUses \in 0..MaxUses /\ TUOwed /\ TUHands /\ TUKept
  BY DEF TUInv
<1>1. /\ tuHolder \in {"stop", "reset"}
      /\ UNCHANGED <<tuAt, tuBatch, tuSaved, tuLost, tuNewest, tuUses>>
  BY DEF TUForceTake, tuData, tuRecorded
<1>2. CASE TURelease /\ UNCHANGED <<tuPending, tuTimer, tuFresh, tuForced, tuCircuit>>
  <2>1. TUFlushTypes'
    BY <1>0, <1>1, <1>2 DEF TUFlushTypes, TURelease
  <2> QED BY <1>1, <1>2, <2>1, TUStillInv
<1>3. CASE /\ tuFresh' = TUNewEpoch /\ tuTimer' = "none"
           /\ tuForced' = tuPending /\ tuPending' = TUNothing
           /\ IF tuPending = TUNothing
              THEN TURelease /\ tuCircuit' = TUCircuitAfter(tuHolder)
              ELSE /\ tuHolder' = TUWriter[tuHolder]
                   /\ UNCHANGED <<tuCircuit, tuSuspended, tuQuiet, tuStops>>
  <2>1. TUNothing \in [Tokens -> 0..MaxUses] /\ \A t \in Tokens : TUNothing[t] = 0
    BY TUNothingFacts
  <2>2. tuForced = TUNothing
    BY <1>0, <1>1 DEF TUHands
  <2> HIDE DEF TUNothing
  <2>3. /\ tuHolder' \in {"none", "write stop", "write reset"}
        /\ tuHolder' = "none" => tuPending = TUNothing
        /\ tuCircuit' \in {"closed", "open", "over"} /\ tuSuspended' \in BOOLEAN
        /\ tuQuiet' \subseteq {"armed", "running"}
    <3>1. CASE tuPending = TUNothing
      <4>1. TURelease /\ tuCircuit' = TUCircuitAfter(tuHolder)
        BY <1>3, <3>1
      <4> QED BY <1>0, <3>1, <4>1 DEF TUFlushTypes, TURelease, TUCircuitAfter
    <3>2. CASE tuPending # TUNothing
      <4>1. tuHolder' = TUWriter[tuHolder] /\ UNCHANGED <<tuCircuit, tuSuspended, tuQuiet>>
        BY <1>3, <3>2
      <4>2. tuHolder' \in {"write stop", "write reset"}
        <5>1. TUWriter["stop"] = "write stop" /\ TUWriter["reset"] = "write reset"
          BY DEF TUWriter
        <5> QED BY <1>1, <4>1, <5>1
      <4> QED BY <1>0, <4>1, <4>2 DEF TUFlushTypes
    <3> QED BY <3>1, <3>2
  <2>4. TUFlushTypes'
    <3>1. {tuPending', tuSaved', tuLost', tuNewest'} \subseteq [Tokens -> 0..MaxUses]
      BY <1>0, <1>1, <1>3, <2>1, TUTypes
    <3>2. tuFresh' \in [Callbacks -> BOOLEAN] /\ tuForced' \in [Tokens -> 0..MaxUses]
      BY <1>0, <1>3, TUTypes DEF TUNewEpoch
    <3>3. tuHolder' \in {"none", "stop", "reset", "write stop", "write reset"}
      BY <2>3
    <3> QED BY <1>0, <1>1, <1>3, <2>3, <3>1, <3>2, <3>3 DEF TUFlushTypes
  <2>5. TUOwed'
    BY <1>3 DEF TUOwed
  <2>6. TUHands'
    <3>1. tuHolder' \notin {"write stop", "write reset"} => tuForced' = TUNothing
      BY <1>3, <2>3
    <3> QED BY <1>0, <1>1, <3>1 DEF TUHands
  <2>7. TUNoneNewer'
    <3> SUFFICES ASSUME NEW t \in Tokens PROVE tuPending'[t] <= tuNewest[t] /\ tuForced'[t] <= tuNewest[t]
      BY <1>0, <1>1 DEF TUKept, TUNoneNewer
    <3>1. tuNewest[t] \in Nat /\ tuPending[t] <= tuNewest[t]
      BY <1>0, TUTypes DEF TUKept, TUNoneNewer
    <3> QED BY <1>3, <2>1, <3>1
  <2>8. ASSUME NEW t \in Tokens PROVE TUSomewhere(t)'
    <3>1. TUSomewhere(t)
      BY <1>0 DEF TUKept
    <3> QED BY <1>1, <1>3, <2>2, <3>1 DEF TUSomewhere
  <2> QED BY <1>0, <1>1, <2>4, <2>5, <2>6, <2>7, <2>8 DEF TUInv, TUKept
<1> QED BY <1>2, <1>3 DEF TUForceTake

LEMMA TUForceWriteInv ==
  ASSUME TokenUseAssumption, TUInv, TUForceWrite
  PROVE  TUInv'
<1>0. TUFlushTypes /\ tuUses \in 0..MaxUses /\ TUOwed /\ TUHands /\ TUKept
  BY DEF TUInv
<1>1. /\ tuForced' = TUNothing /\ tuHolder' = "none" /\ tuQuiet' = tuQuiet \cup {"armed"}
      /\ UNCHANGED <<tuPending, tuAt, tuBatch, tuNewest, tuUses, tuSuspended>>
  BY DEF TUForceWrite, tuRecorded, TURelease
<1>2. TUNothing \in [Tokens -> 0..MaxUses] /\ \A t \in Tokens : TUNothing[t] = 0
  BY TUNothingFacts
<1>3. /\ tuForced \in [Tokens -> 0..MaxUses] /\ tuSaved \in [Tokens -> 0..MaxUses]
      /\ tuLost \in [Tokens -> 0..MaxUses]
      /\ \A t \in Tokens : tuForced[t] <= tuNewest[t] /\ tuSaved[t] <= tuNewest[t] /\ tuLost[t] <= tuNewest[t]
  BY <1>0, TUTypes DEF TUKept, TUNoneNewer, TUFlushTypes
<1>4. \/ tuSaved' = TUMerge(tuSaved, tuForced) /\ tuLost' = tuLost
      \/ tuLost' = TUMerge(tuLost, tuForced) /\ tuSaved' = tuSaved
  BY DEF TUForceWrite, TUStore
<1>5. /\ TUOwed' /\ tuTimer' \in {"none", "armed", "fired"} /\ tuFresh' \in [Callbacks -> BOOLEAN]
      /\ tuCircuit' \in {"closed", "open", "over"}
  <2>1. CASE TUCloseCircuit /\ tuFresh' = IF TUAdvances THEN TUNewEpoch ELSE tuFresh
    BY <1>1, <2>1, TUCloseOwed
  <2>2. CASE tuCircuit' = TUCircuitAfter(tuHolder) /\ UNCHANGED <<tuTimer, tuFresh>>
    BY <1>0, <1>1, <2>2 DEF TUOwed, TUComing, TUFlushTypes, TUCircuitAfter
  <2> QED BY <2>1, <2>2 DEF TUForceWrite
<1>6. /\ tuSaved' \in [Tokens -> 0..MaxUses] /\ tuLost' \in [Tokens -> 0..MaxUses]
      /\ \A t \in Tokens : /\ tuSaved'[t] <= tuNewest[t] /\ tuLost'[t] <= tuNewest[t]
                           /\ tuNewest[t] \in {tuSaved[t], tuLost[t], tuForced[t]}
                              => tuNewest[t] \in {tuSaved'[t], tuLost'[t]}
  <2>1. CASE tuSaved' = TUMerge(tuSaved, tuForced) /\ tuLost' = tuLost
    <3>1. /\ tuSaved' \in [Tokens -> 0..MaxUses]
          /\ \A t \in Tokens : /\ tuSaved'[t] <= tuNewest[t]
                               /\ tuNewest[t] = tuSaved[t] \/ tuNewest[t] = tuForced[t] => tuNewest[t] = tuSaved'[t]
      BY <1>3, <2>1, TUMergeKeeps
    <3> QED BY <1>3, <2>1, <3>1
  <2>2. CASE tuLost' = TUMerge(tuLost, tuForced) /\ tuSaved' = tuSaved
    <3>1. /\ tuLost' \in [Tokens -> 0..MaxUses]
          /\ \A t \in Tokens : /\ tuLost'[t] <= tuNewest[t]
                               /\ tuNewest[t] = tuLost[t] \/ tuNewest[t] = tuForced[t] => tuNewest[t] = tuLost'[t]
      BY <1>3, <2>2, TUMergeKeeps
    <3> QED BY <1>3, <2>2, <3>1
  <2> QED BY <1>4, <2>1, <2>2
<1> HIDE DEF TUNothing
<1>7. TUFlushTypes'
  <2>1. {tuPending', tuSaved', tuLost', tuNewest'} \subseteq [Tokens -> 0..MaxUses]
    BY <1>0, <1>1, <1>6, TUTypes
  <2> QED BY <1>0, <1>1, <1>2, <1>5, <2>1 DEF TUFlushTypes
<1>8. TUHands'
  BY <1>0, <1>1 DEF TUHands
<1>9. TUNoneNewer'
  <2> SUFFICES ASSUME NEW t \in Tokens PROVE tuForced'[t] <= tuNewest[t]
    BY <1>0, <1>1, <1>6 DEF TUKept, TUNoneNewer
  <2>1. tuNewest[t] \in Nat
    BY <1>0, TUTypes
  <2> QED BY <1>1, <1>2, <2>1
<1>10. ASSUME NEW t \in Tokens PROVE TUSomewhere(t)'
  <2>1. TUSomewhere(t)
    BY <1>0 DEF TUKept
  <2>2. CASE tuNewest[t] \in {tuSaved[t], tuLost[t], tuForced[t]}
    BY <1>1, <1>6, <2>2 DEF TUSomewhere
  <2>3. CASE tuNewest[t] = tuPending[t] \/ \E c \in Callbacks : tuNewest[t] = tuBatch[c][t]
    BY <1>1, <2>3 DEF TUSomewhere
  <2> QED BY <2>1, <2>2, <2>3 DEF TUSomewhere
<1> QED BY <1>0, <1>1, <1>5, <1>7, <1>8, <1>9, <1>10 DEF TUInv, TUKept

LEMMA TUNextInv ==
  ASSUME TokenUseAssumption, TUInv, [TUNext]_tuVars
  PROVE  TUInv'
<1>0. TUFlushTypes
  BY DEF TUInv
<1>1. CASE \E t \in Tokens : TURecord(t)
  BY <1>1, TURecordInv
<1>2. CASE \E c \in Callbacks : TUFire(c) \/ TUCallbackStep(c)
  <2>1. PICK c \in Callbacks : TUFire(c) \/ TUCallbackStep(c)
    BY <1>2
  <2> QED BY <2>1, TUFireInv, TUWalkInv, TUTakeInv, TUWriteInv, TURequeueInv, TUCloseInv DEF TUCallbackStep
<1>3. CASE TUCircuitElapses
  <2>1. UNCHANGED <<tuPending, tuTimer, tuAt, tuFresh, tuBatch, tuForced, tuSaved, tuLost, tuNewest, tuUses,
                    tuHolder, tuSuspended, tuQuiet>> /\ tuCircuit' = "over"
    BY <1>3 DEF TUCircuitElapses, tuCallback, tuGate, tuData, tuRecorded
  <2>2. TUFlushTypes'
    BY <1>0, <2>1 DEF TUFlushTypes
  <2> QED BY <2>1, <2>2, TUStillInv
<1>4. ASSUME NEW who \in {"stop", "reset"}, TUBeginStop(who) PROVE TUInv'
  <2>1. UNCHANGED <<tuPending, tuTimer, tuAt, tuFresh, tuBatch, tuForced, tuSaved, tuLost, tuNewest, tuUses,
                    tuCircuit>> /\ tuHolder = "none"
    BY <1>4 DEF TUBeginStop, TUGateFree, tuCallback, tuData, tuRecorded
  <2>2. tuHolder' \in {"none", "stop", "reset"} /\ tuSuspended' \in BOOLEAN /\ tuQuiet' \subseteq {"armed", "running"}
    BY <1>0, <1>4, <2>1 DEF TUBeginStop, TUFlushTypes
  <2>3. TUFlushTypes'
    BY <1>0, <2>1, <2>2 DEF TUFlushTypes
  <2> QED BY <2>1, <2>3, TUStillInv
<1>5. CASE TUQuietFires \/ TUResume
  <2>1. UNCHANGED <<tuPending, tuTimer, tuAt, tuFresh, tuBatch, tuForced, tuSaved, tuLost, tuNewest, tuUses,
                    tuCircuit, tuHolder>>
    BY <1>5 DEF TUQuietFires, TUResume, tuCallback, tuData, tuRecorded
  <2>2. tuSuspended' \in BOOLEAN /\ tuQuiet' \subseteq {"armed", "running"}
    BY <1>0, <1>5 DEF TUQuietFires, TUResume, TUFlushTypes
  <2>3. TUFlushTypes'
    BY <1>0, <2>1, <2>2 DEF TUFlushTypes
  <2> QED BY <2>1, <2>3, TUStillInv
<1>6. CASE UNCHANGED tuVars
  <2>1. UNCHANGED <<tuPending, tuTimer, tuAt, tuFresh, tuBatch, tuForced, tuSaved, tuLost, tuNewest, tuUses,
                    tuCircuit, tuHolder, tuSuspended, tuQuiet>>
    BY <1>6 DEF tuVars, tuCallback, tuGate, tuData, tuRecorded
  <2>2. TUFlushTypes'
    BY <1>0, <2>1 DEF TUFlushTypes
  <2> QED BY <2>1, <2>2, TUStillInv
<1>7. CASE TUForceTake \/ TUForceWrite
  BY <1>7, TUForceTakeInv, TUForceWriteInv
<1>8. CASE TUNext
  BY <1>1, <1>2, <1>3, <1>4, <1>5, <1>7, <1>8 DEF TUNext, TUGateStep
<1> QED BY <1>6, <1>8

-----------------------------------------------------------------------------
(* The rows. *)

\* The uses of a token on their way.
TUOnWay(t) == {tuPending[t], tuForced[t]} \cup {tuBatch[c][t] : c \in Callbacks}

TURowHolds(t) ==
    t \notin tuOvertaken =>
        /\ tuRow[t] = tuSaved[t]
        /\ \A x \in TUOnWay(t) : x = 0 \/ x >= tuRow[t]

TURows ==
    /\ tuRow \in [Tokens -> 0..MaxUses] /\ tuOvertaken \subseteq Tokens
    /\ \A t \in Tokens : TURowHolds(t)

\* A step that writes nothing, and only moves the uses that are on their way.
LEMMA TURowsMove ==
  ASSUME TURows, UNCHANGED <<tuRow, tuSaved, tuOvertaken>>,
         \A t \in Tokens : \A x \in TUOnWay(t)' : x = 0 \/ x \in TUOnWay(t)
  PROVE  TURows'
BY DEF TURows, TURowHolds

LEMMA TURowsStill ==
  ASSUME TURows, UNCHANGED <<tuRow, tuSaved, tuOvertaken, tuPending, tuForced, tuBatch>>
  PROVE  TURows'
BY DEF TURows, TURowHolds, TUOnWay

\* A write: the row takes the batch, and what is older is overtaken.
LEMMA TURowsStore ==
  ASSUME TokenUseAssumption, TUInv, TURows, NEW b \in [Tokens -> 0..MaxUses], TUStore(b),
         \A t \in Tokens : b[t] \in TUOnWay(t),
         \A t \in Tokens : \A x \in TUOnWay(t)' : x = 0 \/ x \in TUOnWay(t)
  PROVE  TURows'
<1>0. MaxUses \in Nat /\ tuSaved \in [Tokens -> 0..MaxUses] /\ tuRow \in [Tokens -> 0..MaxUses]
  BY DEF TokenUseAssumption, TUInv, TUFlushTypes, TURows
<1>1. /\ tuRow' = [t \in Tokens |-> IF b[t] > 0 THEN b[t] ELSE tuRow[t]]
      /\ tuSaved' = TUMerge(tuSaved, b)
      /\ tuOvertaken' = tuOvertaken \cup {t \in Tokens : TUOlder(t, b[t])}
  BY DEF TUStore
<1>2. tuRow' \in [Tokens -> 0..MaxUses] /\ tuOvertaken' \subseteq Tokens
  BY <1>0, <1>1 DEF TURows
<1>3. ASSUME NEW t \in Tokens, t \notin tuOvertaken'
      PROVE  /\ tuRow'[t] = tuSaved'[t]
             /\ \A x \in TUOnWay(t)' : x = 0 \/ x >= tuRow'[t]
  <2>1. t \notin tuOvertaken /\ ~TUOlder(t, b[t])
    BY <1>1, <1>3
  <2>2. tuRow[t] = tuSaved[t] /\ \A x \in TUOnWay(t) : x = 0 \/ x >= tuRow[t]
    BY <2>1 DEF TURows, TURowHolds
  <2>3. \A x \in TUOnWay(t) : x \in Nat
    BY TUTypes DEF TUInv, TUOnWay
  <2>4. \A x \in TUOnWay(t) : x \notin 1..(b[t] - 1)
    BY <2>1 DEF TUOlder, TUOnWay
  <2>5. b[t] \in Nat /\ tuRow[t] \in Nat /\ tuSaved[t] \in Nat
    BY <1>0
  <2>6. tuSaved'[t] = IF tuSaved[t] > b[t] THEN tuSaved[t] ELSE b[t]
    BY <1>0, <1>1, TUMergeFacts
  <2>7. tuRow'[t] = IF b[t] > 0 THEN b[t] ELSE tuRow[t]
    BY <1>1
  <2>8. b[t] = 0 \/ b[t] >= tuRow[t]
    BY <2>2
  <2>9. \A x \in TUOnWay(t) : x = 0 \/ x >= tuRow'[t]
    BY <2>2, <2>3, <2>4, <2>5, <2>7
  <2> QED BY <2>2, <2>5, <2>6, <2>7, <2>8, <2>9
<1> QED BY <1>2, <1>3 DEF TURows, TURowHolds

LEMMA TURowsInit == ASSUME TokenUseAssumption, TUInit PROVE TURows
<1>1. TUNothing \in [Tokens -> 0..MaxUses] /\ \A t \in Tokens : TUNothing[t] = 0
  BY TUNothingFacts
<1> HIDE DEF TUNothing
<1> QED BY <1>1 DEF TUInit, TURows, TURowHolds, TUOnWay

\* A new use is newer than the row.
LEMMA TURowsRecord ==
  ASSUME TokenUseAssumption, TUInv, TURows, NEW t \in Tokens, TURecord(t)
  PROVE  TURows'
<1>1. /\ tuUses' = tuUses + 1 /\ tuUses \in Nat
      /\ tuPending' = [tuPending EXCEPT ![t] = tuUses']
      /\ UNCHANGED <<tuForced, tuBatch, tuRow, tuSaved, tuOvertaken>>
  BY DEF TURecord, TUInv, TokenUseAssumption, tuCallback, tuData
<1>2. ASSUME NEW u \in Tokens PROVE TURowHolds(u)'
  <2>1. TURowHolds(u) /\ tuPending \in [Tokens -> 0..MaxUses]
    BY DEF TURows, TUInv, TUFlushTypes
  <2>2. CASE u # t
    BY <1>1, <2>1, <2>2 DEF TURowHolds, TUOnWay
  <2>3. CASE u = t
    <3>1. tuSaved[t] <= tuNewest[t] /\ tuNewest[t] <= tuUses /\ tuSaved[t] \in Nat /\ tuNewest[t] \in Nat
      BY TUTypes DEF TUInv, TUKept, TUNoneNewer
    <3>2. tuPending'[t] = tuUses + 1 /\ tuUses + 1 >= tuSaved[t]
      BY <1>1, <2>1, <3>1
    <3> QED BY <1>1, <2>1, <2>3, <3>2 DEF TURowHolds, TUOnWay
  <2> QED BY <2>2, <2>3
<1> QED BY <1>1, <1>2 DEF TURows

LEMMA TURowsCallback ==
  ASSUME TokenUseAssumption, TUInv, TURows, NEW c \in Callbacks,
         TUTakePending(c) \/ TUWrite(c) \/ TURequeue(c)
  PROVE  TURows'
<1>0. /\ tuBatch \in [Callbacks -> [Tokens -> 0..MaxUses]] /\ tuPending \in [Tokens -> 0..MaxUses]
      /\ MaxUses \in Nat
  BY DEF TUInv, TUFlushTypes, TokenUseAssumption
<1>1. TUNothing \in [Tokens -> 0..MaxUses] /\ \A t \in Tokens : TUNothing[t] = 0
  BY TUNothingFacts
<1> HIDE DEF TUNothing
<1>2. CASE TUTakePending(c)
  <2>1. UNCHANGED <<tuRow, tuSaved, tuOvertaken, tuForced>>
    BY <1>2 DEF TUTakePending, tuData
  <2>2. CASE tuFresh[c]
    <3>1. tuBatch' = [tuBatch EXCEPT ![c] = tuPending] /\ tuPending' = TUNothing
      BY <1>2, <2>2 DEF TUTakePending
    <3>2. tuBatch'[c] = tuPending /\ \A d \in Callbacks : d # c => tuBatch'[d] = tuBatch[d]
      BY <1>0, <3>1
    <3>3. ASSUME NEW t \in Tokens, NEW x \in TUOnWay(t)' PROVE x = 0 \/ x \in TUOnWay(t)
      BY <1>1, <2>1, <3>1, <3>2, <3>3 DEF TUOnWay
    <3> QED BY <2>1, <3>3, TURowsMove
  <2>3. CASE ~tuFresh[c]
    BY <1>2, <2>1, <2>3, TURowsStill DEF TUTakePending
  <2> QED BY <2>2, <2>3
<1>3. CASE TUWrite(c)
  <2>1. UNCHANGED <<tuPending, tuForced>>
    BY <1>3 DEF TUWrite
  <2>2. CASE TUStore(tuBatch[c]) /\ tuBatch' = [tuBatch EXCEPT ![c] = TUNothing]
    <3>1. tuBatch'[c] = TUNothing /\ \A d \in Callbacks : d # c => tuBatch'[d] = tuBatch[d]
      BY <1>0, <2>2
    <3>2. ASSUME NEW t \in Tokens, NEW x \in TUOnWay(t)' PROVE x = 0 \/ x \in TUOnWay(t)
      BY <1>1, <2>1, <3>1, <3>2 DEF TUOnWay
    <3>3. tuBatch[c] \in [Tokens -> 0..MaxUses] /\ \A t \in Tokens : tuBatch[c][t] \in TUOnWay(t)
      BY <1>0 DEF TUOnWay
    <3> QED BY <2>2, <3>2, <3>3, TURowsStore
  <2>3. CASE UNCHANGED <<tuBatch, tuRow, tuSaved, tuOvertaken, tuLost>>
    BY <2>1, <2>3, TURowsStill
  <2> QED BY <1>3, <2>2, <2>3 DEF TUWrite
<1>4. CASE TURequeue(c)
  <2>1. /\ tuPending' = TUMerge(tuPending, tuBatch[c]) /\ tuBatch' = [tuBatch EXCEPT ![c] = TUNothing]
        /\ UNCHANGED <<tuForced, tuRow, tuSaved, tuOvertaken>>
    BY <1>4 DEF TURequeue, tuData
  <2>2. tuBatch'[c] = TUNothing /\ \A d \in Callbacks : d # c => tuBatch'[d] = tuBatch[d]
    BY <1>0, <2>1
  <2>3. \A t \in Tokens : tuPending'[t] \in {tuPending[t], tuBatch[c][t]}
    <3>1. tuBatch[c] \in [Tokens -> 0..MaxUses]
      BY <1>0
    <3>2. \A t \in Tokens : TUMerge(tuPending, tuBatch[c])[t] =
                              IF tuPending[t] > tuBatch[c][t] THEN tuPending[t] ELSE tuBatch[c][t]
      BY <1>0, <3>1, TUMergeFacts
    <3> QED BY <2>1, <3>2
  <2>4. ASSUME NEW t \in Tokens, NEW x \in TUOnWay(t)' PROVE x = 0 \/ x \in TUOnWay(t)
    BY <1>1, <2>1, <2>2, <2>3, <2>4 DEF TUOnWay
  <2> QED BY <2>1, <2>4, TURowsMove
<1> QED BY <1>2, <1>3, <1>4

LEMMA TURowsForce ==
  ASSUME TokenUseAssumption, TUInv, TURows, TUForceTake \/ TUForceWrite
  PROVE  TURows'
<1>1. TUNothing \in [Tokens -> 0..MaxUses] /\ \A t \in Tokens : TUNothing[t] = 0
  BY TUNothingFacts
<1>2. tuForced \in [Tokens -> 0..MaxUses]
  BY DEF TUInv, TUFlushTypes
<1> HIDE DEF TUNothing
<1>3. CASE TUForceTake
  <2>1. UNCHANGED <<tuBatch, tuRow, tuSaved, tuOvertaken>>
    BY <1>3 DEF TUForceTake, tuData
  <2>2. CASE UNCHANGED <<tuPending, tuForced>>
    BY <2>1, <2>2, TURowsStill
  <2>3. CASE tuForced' = tuPending /\ tuPending' = TUNothing
    <3>1. ASSUME NEW t \in Tokens, NEW x \in TUOnWay(t)' PROVE x = 0 \/ x \in TUOnWay(t)
      BY <1>1, <2>1, <2>3, <3>1 DEF TUOnWay
    <3> QED BY <2>1, <3>1, TURowsMove
  <2> QED BY <1>3, <2>2, <2>3 DEF TUForceTake
<1>4. CASE TUForceWrite
  <2>1. tuForced' = TUNothing /\ UNCHANGED <<tuPending, tuBatch>>
    BY <1>4 DEF TUForceWrite
  <2>2. ASSUME NEW t \in Tokens, NEW x \in TUOnWay(t)' PROVE x = 0 \/ x \in TUOnWay(t)
    BY <1>1, <2>1, <2>2 DEF TUOnWay
  <2>3. CASE TUStore(tuForced)
    <3>1. \A t \in Tokens : tuForced[t] \in TUOnWay(t)
      BY DEF TUOnWay
    <3> QED BY <1>2, <2>2, <2>3, <3>1, TURowsStore
  <2>4. CASE UNCHANGED <<tuRow, tuSaved, tuOvertaken>>
    BY <2>2, <2>4, TURowsMove
  <2> QED BY <1>4, <2>3, <2>4 DEF TUForceWrite
<1> QED BY <1>3, <1>4

LEMMA TURowsNext ==
  ASSUME TokenUseAssumption, TUInv, TURows, [TUNext]_tuVars
  PROVE  TURows'
<1>1. CASE \E t \in Tokens : TURecord(t)
  BY <1>1, TURowsRecord
<1>2. ASSUME NEW c \in Callbacks,
             TUFire(c) \/ TUBegin(c) \/ TUTimerCircuit(c) \/ TUClose(c) \/ TUResched(c)
      PROVE  TURows'
  <2>1. UNCHANGED <<tuRow, tuSaved, tuOvertaken, tuPending, tuForced, tuBatch>>
    BY <1>2 DEF TUFire, TUBegin, TUTimerCircuit, TUClose, TUResched, tuData
  <2> QED BY <2>1, TURowsStill
<1>3. CASE \E c \in Callbacks : TUFire(c) \/ TUCallbackStep(c)
  BY <1>2, <1>3, TURowsCallback DEF TUCallbackStep
<1>4. CASE \/ TUCircuitElapses \/ TUQuietFires \/ TUResume \/ UNCHANGED tuVars
           \/ \E who \in {"stop", "reset"} : TUBeginStop(who)
  <2>1. UNCHANGED <<tuRow, tuSaved, tuOvertaken, tuPending, tuForced, tuBatch>>
    BY <1>4 DEF TUCircuitElapses, TUQuietFires, TUResume, TUBeginStop, tuVars, tuData, tuCallback
  <2> QED BY <2>1, TURowsStill
<1> QED BY <1>1, <1>3, <1>4, TURowsForce DEF TUNext, TUGateStep

\* A use that was recorded has a flush that will come for it, what fails,
\* overlaps or is stopped in between does not drop the newest one, and a row only
\* goes back when an older use was on its way while the newer was written
\* (token_use_debouncer.go): for any tokens, callbacks and number of uses.
THEOREM UsesAreKept == TUSpec => []TUUsesAreKept
<1>1. TUInit => TUInv /\ TURows
  BY TokenUseAssumption, TUInitInv, TURowsInit
<1>2. TUInv /\ TURows /\ [TUNext]_tuVars => (TUInv /\ TURows)'
  BY TokenUseAssumption, TUNextInv, TURowsNext
<1>3. TUInv => TUFlushIsOwed
  BY DEF TUInv, TUOwed, TUComing, TUBefore, TUFlushIsOwed
<1>4. TUInv => TUNewestIsKept
  <2> SUFFICES ASSUME TUInv, NEW t \in Tokens PROVE tuNewest[t] \in TUHeld(t)
    BY DEF TUNewestIsKept
  <2>1. TUSomewhere(t)
    BY DEF TUInv, TUKept
  <2> QED BY <2>1 DEF TUSomewhere, TUHeld
<1>5. TUInv /\ TURows => TUTypeOK /\ TURowIsNewest
  BY DEF TUInv, TUFlushTypes, TURows, TURowHolds, TUTypeOK, TURowIsNewest
<1>6. TUInv /\ TURows => TUUsesAreKept
  BY <1>3, <1>4, <1>5 DEF TUUsesAreKept
<1> QED BY <1>1, <1>2, <1>6, PTL DEF TUSpec

-----------------------------------------------------------------------------
(***************************************************************************)
(* The realtime hub.  That the counters match the sockets needs that a     *)
(* request has a user from its token on; that a rotation leaves no older   *)
(* socket needs that the hub only feeds requests in their loop, and no     *)
(* older token, that a token is listed once, for a request yet to use it.  *)
(***************************************************************************)

RTStations == {"idle", "issue", "token", "authed", "stranger", "consumed"} \cup RTHolding

\* The types of what the sockets depend on.
RTTyped ==
    /\ rtGen \in 0..MaxRotations
    /\ rtRotator \in [step : {"none", "close", "tokens", "renew"}, by : RTUserOrNone]
    /\ rtAt \in [Slots -> RTStations] /\ rtUser \in [Slots -> RTUserOrNone]
    /\ rtByUser \in [Users -> Nat] /\ rtByIP \in Nat
    /\ rtClients \subseteq Slots /\ rtRegGen \in [Slots -> 0..MaxRotations]
    /\ rtConn \in [Slots -> BOOLEAN] /\ rtDropping \subseteq Slots

RTOwned   == \A h \in Slots : rtAt[h] # "idle" => rtUser[h] \in Users
RTFed     == \A h \in rtClients : rtAt[h] \in {"open", "leaving"}
RTCurrent == rtRotator.step # "close" => RTSocketsAreCurrent
RTHoldersOf(u) == {h \in RTHolders : rtUser[h] = u}
RTCounted == IsFiniteSet(RTHolders) /\ RTSlotsMatchSockets

RTInv == RTTyped /\ RTOwned /\ RTFed /\ RTCurrent /\ RTDroppedIsClosed /\ RTCounted

LEMMA RTInitInv == ASSUME RealtimeAssumption, RTInit PROVE RTInv
<1>1. RTTyped
  BY DEF RealtimeAssumption, RTInit, RTTyped, RTStations, RTUserOrNone
<1>2. RTHolders = {}
  BY DEF RTInit, RTHolders, RTHolding
<1>3. \A u \in Users : {h \in RTHolders : rtUser[h] = u} = {}
  BY <1>2
<1>4. RTCounted
  BY <1>2, <1>3, FS_EmptySet DEF RealtimeAssumption, RTInit, RTCounted, RTSlotsMatchSockets
<1> QED BY <1>1, <1>4 DEF RTInit, RTInv, RTOwned, RTFed, RTCurrent, RTSocketsAreCurrent, RTDroppedIsClosed

\* A request that moves neither into nor out of its reservation.
LEMMA RTCountedStill ==
  ASSUME RTCounted, UNCHANGED rtCounts,
         \A h \in Slots : rtAt'[h] \in RTHolding <=> rtAt[h] \in RTHolding,
         \A h \in Slots : rtAt[h] \in RTHolding => rtUser'[h] = rtUser[h]
  PROVE  RTCounted'
<1>1. RTHolders' = RTHolders
  BY DEF RTHolders
<1>2. \A u \in Users : {h \in RTHolders : rtUser[h] = u}' = {h \in RTHolders : rtUser[h] = u}
  BY <1>1 DEF RTHolders
<1> QED BY <1>1, <1>2 DEF RTCounted, RTSlotsMatchSockets, rtCounts

\* A request gets its reservation.
LEMMA RTCountedAdd ==
  ASSUME RealtimeAssumption, RTInv, NEW h \in Slots, rtAt[h] \notin RTHolding, rtUser[h] \in Users,
         rtByIP < MaxPerIP, rtByUser[rtUser[h]] < MaxPerUser,
         rtByUser' = [rtByUser EXCEPT ![rtUser[h]] = @ + 1], rtByIP' = rtByIP + 1, rtUser' = rtUser,
         \A k \in Slots : rtAt'[k] \in RTHolding <=> rtAt[k] \in RTHolding \/ k = h
  PROVE  RTCounted'
<1>0. RTTyped /\ RTCounted /\ MaxPerIP \in Nat /\ MaxPerUser \in Nat
  BY DEF RTInv, RealtimeAssumption
<1>1. RTHolders' = RTHolders \cup {h} /\ h \notin RTHolders
  BY DEF RTHolders
<1>2. IsFiniteSet(RTHolders') /\ Cardinality(RTHolders') = Cardinality(RTHolders) + 1
  BY <1>0, <1>1, FS_AddElement DEF RTCounted
<1>3. ASSUME NEW u \in Users
      PROVE  rtByUser'[u] = Cardinality({k \in RTHolders' : rtUser'[k] = u}) /\ rtByUser'[u] <= MaxPerUser
  <2> DEFINE Old == {k \in RTHolders : rtUser[k] = u}
             New == {k \in RTHolders' : rtUser'[k] = u}
  <2>1. rtByUser[u] = Cardinality(Old) /\ rtByUser[u] <= MaxPerUser /\ rtByUser[u] \in Nat
    BY <1>0 DEF RTTyped, RTCounted, RTSlotsMatchSockets
  <2>2. IsFiniteSet(Old)
    BY <1>0, FS_Subset DEF RTCounted
  <2>3. CASE u = rtUser[h]
    <3>1. New = Old \cup {h} /\ h \notin Old
      BY <1>1, <2>3
    <3>2. rtByUser'[u] = rtByUser[u] + 1
      BY <1>0, <2>3 DEF RTTyped
    <3> HIDE DEF Old, New
    <3>3. Cardinality(New) = Cardinality(Old) + 1
      BY <2>2, <3>1, FS_AddElement
    <3>4. rtByUser'[u] <= MaxPerUser
      BY <1>0, <2>1, <2>3, <3>2
    <3> QED BY <2>1, <3>2, <3>3, <3>4 DEF New
  <2>4. CASE u # rtUser[h]
    <3>1. New = Old
      BY <1>1, <2>4
    <3>2. rtByUser'[u] = rtByUser[u]
      BY <1>0, <2>4 DEF RTTyped
    <3> QED BY <2>1, <3>1, <3>2
  <2> QED BY <2>3, <2>4
<1>4. rtByIP' = Cardinality(RTHolders') /\ rtByIP' <= MaxPerIP
  BY <1>0, <1>2 DEF RTTyped, RTCounted, RTSlotsMatchSockets
<1> QED BY <1>2, <1>3, <1>4 DEF RTCounted, RTSlotsMatchSockets

\* A request gives its reservation back: the counters are not at zero.
LEMMA RTCountedRemove ==
  ASSUME RealtimeAssumption, RTInv, NEW h \in Slots, rtAt[h] \in RTHolding, RTRelease(h), RTLeave(h)
  PROVE  RTCounted' /\ rtByIP' \in Nat /\ rtByUser' \in [Users -> Nat]
<1>0. RTTyped /\ RTCounted /\ MaxPerIP \in Nat /\ MaxPerUser \in Nat /\ rtUser[h] \in Users
  BY DEF RTInv, RealtimeAssumption, RTOwned, RTHolding
<1>1. /\ rtAt' = [rtAt EXCEPT ![h] = "idle"] /\ rtUser' = [rtUser EXCEPT ![h] = "none"]
      /\ rtByUser' = [rtByUser EXCEPT ![rtUser[h]] = IF rtByUser[rtUser[h]] > 0 THEN rtByUser[rtUser[h]] - 1 ELSE 0]
      /\ rtByIP' = IF rtByIP > 0 THEN rtByIP - 1 ELSE 0
  BY DEF RTLeave, RTRelease
<1>2. \A k \in Slots : k # h => rtAt'[k] = rtAt[k] /\ rtUser'[k] = rtUser[k]
  BY <1>0, <1>1 DEF RTTyped
<1>3. RTHolders' = RTHolders \ {h} /\ h \in RTHolders
  <2>1. rtAt'[h] = "idle"
    BY <1>0, <1>1 DEF RTTyped
  <2> QED BY <1>2, <2>1 DEF RTHolders, RTHolding
<1>4. IsFiniteSet(RTHolders') /\ Cardinality(RTHolders') = Cardinality(RTHolders) - 1
  BY <1>0, <1>3, FS_RemoveElement DEF RTCounted
<1>5. IsFiniteSet(RTHolders) /\ rtByIP = Cardinality(RTHolders) /\ rtByIP \in Nat /\ rtByIP <= MaxPerIP
  BY <1>0 DEF RTTyped, RTCounted, RTSlotsMatchSockets
<1>6. rtByIP > 0
  <2>1. Cardinality(RTHolders') \in Nat
    BY <1>4, FS_CardinalityType
  <2> QED BY <1>4, <1>5, <2>1
<1>7. ASSUME NEW u \in Users
      PROVE  rtByUser'[u] = Cardinality({k \in RTHolders' : rtUser'[k] = u}) /\ rtByUser'[u] <= MaxPerUser
  <2> DEFINE Old == {k \in RTHolders : rtUser[k] = u}
             New == {k \in RTHolders' : rtUser'[k] = u}
  <2>1. rtByUser[u] = Cardinality(Old) /\ rtByUser[u] <= MaxPerUser /\ rtByUser[u] \in Nat
    BY <1>0 DEF RTTyped, RTCounted, RTSlotsMatchSockets
  <2>2. IsFiniteSet(Old)
    BY <1>5, FS_Subset
  <2>3. \A k \in RTHolders' : k \in Slots /\ k # h
    BY <1>3 DEF RTHolders
  <2>4. CASE u = rtUser[h]
    <3>1. New = Old \ {h} /\ h \in Old
      BY <1>2, <1>3, <2>3, <2>4
    <3> HIDE DEF Old, New
    <3>2. Cardinality(New) = Cardinality(Old) - 1 /\ IsFiniteSet(New)
      BY <2>2, <3>1, FS_RemoveElement
    <3>3. Cardinality(New) \in Nat
      BY <3>2, FS_CardinalityType
    <3>4. rtByUser[u] > 0
      BY <2>1, <3>2, <3>3
    <3>5. rtByUser'[u] = rtByUser[u] - 1
      BY <1>0, <1>1, <2>4, <3>4 DEF RTTyped
    <3>6. rtByUser'[u] <= MaxPerUser
      BY <1>0, <2>1, <3>5
    <3> QED BY <2>1, <3>2, <3>5, <3>6 DEF New
  <2>5. CASE u # rtUser[h]
    <3>1. New = Old
      BY <1>2, <1>3, <2>3, <2>5
    <3>2. rtByUser'[u] = rtByUser[u]
      BY <1>0, <1>1, <2>5 DEF RTTyped
    <3> QED BY <2>1, <3>1, <3>2
  <2> QED BY <2>4, <2>5
<1>8. rtByIP' = Cardinality(RTHolders') /\ rtByIP' <= MaxPerIP /\ rtByIP' \in Nat
  BY <1>0, <1>1, <1>4, <1>5, <1>6
<1>9. rtByUser' \in [Users -> Nat]
  <2>1. rtByUser[rtUser[h]] \in Nat
    BY <1>0 DEF RTTyped
  <2>2. (IF rtByUser[rtUser[h]] > 0 THEN rtByUser[rtUser[h]] - 1 ELSE 0) \in Nat
    BY <2>1
  <2> QED BY <1>0, <1>1, <2>2 DEF RTTyped
<1> QED BY <1>4, <1>7, <1>8, <1>9 DEF RTCounted, RTSlotsMatchSockets

\* The steps that move no request.
LEMMA RTSessionInv ==
  ASSUME RealtimeAssumption, RTInv,
         \/ \E u \in Users : RTLoginUser(u) \/ RTLogout(u) \/ RTRotate(u)
         \/ RTRotation \/ RTResetTokens \/ RTExpireToken \/ RTSweep \/ RTPublish
         \/ UNCHANGED rtVars
  PROVE  RTInv'
<1> USE DEF rtSession, rtTokenVs, rtRequest, rtCounts, rtHub, rtSocket
<1>0. RTTyped /\ RTOwned /\ RTFed /\ RTCurrent /\ RTDroppedIsClosed /\ RTCounted /\ MaxRotations \in Nat
  BY DEF RTInv, RealtimeAssumption
<1>1. UNCHANGED <<rtAt, rtUser, rtByUser, rtByIP, rtRegGen, rtConn>>
  BY DEF RTLoginUser, RTLogout, RTRotate, RTRotation, RTCloseAll, RTInvalidateTokens, RTEndRotation,
         RTResetTokens, RTSweep, RTPublish, RTExpireToken, rtVars
<1>2. RTCounted' /\ RTOwned'
  BY <1>0, <1>1, RTCountedStill DEF RTOwned
<1>3. CASE \E u \in Users : RTRotate(u)
  <2>1. PICK u \in Users : RTRotate(u)
    BY <1>3
  <2>2. /\ rtGen' = rtGen + 1 /\ rtGen < MaxRotations /\ rtRotator' = [step |-> "close", by |-> u]
        /\ UNCHANGED <<rtClients, rtDropping>>
    BY <2>1 DEF RTRotate
  <2>3. RTTyped'
    BY <1>0, <1>1, <2>2 DEF RTTyped, RTUserOrNone
  <2> QED BY <1>0, <1>1, <1>2, <2>2, <2>3 DEF RTInv, RTFed, RTCurrent, RTDroppedIsClosed
<1>4. CASE RTCloseAll
  <2>1. /\ rtClients' = {} /\ rtDropping' = rtDropping \cup rtClients /\ rtGen' = rtGen
        /\ rtRotator' = [rtRotator EXCEPT !.step = "tokens"]
    BY <1>4 DEF RTCloseAll
  <2>2. RTTyped'
    BY <1>0, <1>1, <2>1 DEF RTTyped
  <2> QED BY <1>0, <1>1, <1>2, <2>1, <2>2 DEF RTInv, RTFed, RTCurrent, RTSocketsAreCurrent, RTDroppedIsClosed
<1>5. CASE RTInvalidateTokens \/ RTEndRotation
  <2>1. /\ UNCHANGED <<rtClients, rtDropping, rtGen>> /\ rtRotator.step # "close"
        /\ rtRotator' = [rtRotator EXCEPT !.step = "renew"] \/ rtRotator' = [step |-> "none", by |-> "none"]
    BY <1>5 DEF RTInvalidateTokens, RTEndRotation
  <2>2. RTTyped' /\ rtRotator'.step # "close"
    BY <1>0, <1>1, <2>1 DEF RTTyped, RTUserOrNone
  <2> QED BY <1>0, <1>1, <1>2, <2>1, <2>2 DEF RTInv, RTFed, RTCurrent, RTSocketsAreCurrent, RTDroppedIsClosed
<1>6. CASE UNCHANGED <<rtGen, rtRotator, rtClients, rtDropping>>
  BY <1>0, <1>1, <1>2, <1>6 DEF RTInv, RTTyped, RTFed, RTCurrent, RTSocketsAreCurrent, RTDroppedIsClosed
<1> QED BY <1>3, <1>4, <1>5, <1>6
        DEF RTLoginUser, RTLogout, RTRotation, RTResetTokens, RTSweep, RTPublish, RTExpireToken, rtVars

\* The steps of a request before its reservation.
LEMMA RTHandshakeInv ==
  ASSUME RealtimeAssumption, RTInv, NEW h \in Slots,
         (\E u \in Users : RTAskToken(h, u)) \/ RTIssueToken(h) \/ RTAuth(h) \/ RTConsume(h)
  PROVE  RTInv'
<1> USE DEF rtSession, rtTokenVs, rtRequest, rtCounts, rtHub, rtSocket
<1>0. RTTyped /\ RTOwned /\ RTFed /\ RTCurrent /\ RTDroppedIsClosed /\ RTCounted
  BY DEF RTInv
<1>1. UNCHANGED <<rtByUser, rtByIP, rtRegGen, rtConn, rtGen, rtRotator, rtClients, rtDropping>>
  BY DEF RTAskToken, RTIssueToken, RTAuth, RTConsume
<1>2. PICK l \in {"idle", "issue", "token", "authed", "stranger", "consumed"}, w \in RTUserOrNone :
        /\ rtAt' = [rtAt EXCEPT ![h] = l] /\ rtUser' = [rtUser EXCEPT ![h] = w]
        /\ l # "idle" => w \in Users
        /\ rtAt[h] \in {"idle", "issue", "token", "authed", "stranger"}
  <2>1. rtUser[h] \in RTUserOrNone /\ rtUser = [rtUser EXCEPT ![h] = rtUser[h]] /\ "none" \in RTUserOrNone
    BY <1>0 DEF RTTyped, RTUserOrNone
  <2>2. rtAt[h] # "idle" => rtUser[h] \in Users
    BY <1>0 DEF RTOwned
  <2>3. CASE \E u \in Users : RTAskToken(h, u)
    BY <2>3 DEF RTAskToken, RTUserOrNone
  <2>4. CASE RTIssueToken(h)
    BY <2>1, <2>2, <2>4 DEF RTIssueToken, RTGoto
  <2>5. CASE RTAuth(h)
    BY <2>1, <2>2, <2>5 DEF RTAuth, RTGoto
  <2>6. CASE RTConsume(h)
    BY <2>1, <2>2, <2>6 DEF RTConsume, RTGoto, RTLeave
  <2> QED BY <2>3, <2>4, <2>5, <2>6
<1>3. /\ rtAt'[h] = l /\ rtUser'[h] = w
      /\ \A k \in Slots : k # h => rtAt'[k] = rtAt[k] /\ rtUser'[k] = rtUser[k]
  BY <1>0, <1>2 DEF RTTyped
<1>4. rtAt[h] \notin RTHolding /\ rtAt'[h] \notin RTHolding
  BY <1>2, <1>3 DEF RTHolding
<1>5. RTCounted'
  <2>1. \A k \in Slots : rtAt'[k] \in RTHolding <=> rtAt[k] \in RTHolding
    BY <1>3, <1>4
  <2>2. \A k \in Slots : rtAt[k] \in RTHolding => rtUser'[k] = rtUser[k]
    BY <1>3, <1>4
  <2> QED BY <1>0, <1>1, <2>1, <2>2, RTCountedStill
<1>6. RTTyped'
  BY <1>0, <1>1, <1>2 DEF RTTyped, RTStations
<1>7. RTOwned'
  BY <1>0, <1>2, <1>3 DEF RTOwned
<1>8. RTFed' /\ RTDroppedIsClosed' /\ RTCurrent'
  <2>1. h \notin rtClients
    BY <1>0, <1>2 DEF RTFed
  <2> QED BY <1>0, <1>1, <1>2, <1>3, <2>1 DEF RTTyped, RTFed, RTDroppedIsClosed, RTCurrent, RTSocketsAreCurrent
<1> QED BY <1>5, <1>6, <1>7, <1>8 DEF RTInv

LEMMA RTReserveInv ==
  ASSUME RealtimeAssumption, RTInv, NEW h \in Slots, RTReserve(h)
  PROVE  RTInv'
<1> USE DEF rtSession, rtTokenVs, rtRequest, rtCounts, rtHub, rtSocket
<1>0. /\ RTTyped /\ RTOwned /\ RTFed /\ RTCurrent /\ RTDroppedIsClosed /\ RTCounted
      /\ MaxPerIP \in Nat /\ MaxPerUser \in Nat
  BY DEF RTInv, RealtimeAssumption
<1>1. /\ rtAt[h] = "consumed" /\ rtUser[h] \in Users
      /\ UNCHANGED <<rtRegGen, rtConn, rtGen, rtRotator, rtClients, rtDropping>>
  BY <1>0 DEF RTReserve, RTOwned
<1>2. h \notin rtClients /\ rtAt[h] \notin RTHolding
  BY <1>0, <1>1 DEF RTFed, RTHolding
<1>3. CASE RTLeave(h) /\ UNCHANGED rtCounts
  <2>1. /\ rtAt'[h] = "idle" /\ rtAt' \in [Slots -> RTStations] /\ rtUser' \in [Slots -> RTUserOrNone]
        /\ \A k \in Slots : k # h => rtAt'[k] = rtAt[k] /\ rtUser'[k] = rtUser[k]
    BY <1>0, <1>3 DEF RTLeave, RTTyped, RTStations, RTUserOrNone
  <2>2. RTCounted'
    BY <1>0, <1>2, <1>3, <2>1, RTCountedStill DEF RTHolding
  <2>3. RTTyped' /\ RTOwned'
    BY <1>0, <1>1, <1>3, <2>1 DEF RTTyped, RTOwned
  <2>4. RTFed' /\ RTDroppedIsClosed' /\ RTCurrent'
    BY <1>0, <1>1, <1>2, <2>1 DEF RTTyped, RTFed, RTDroppedIsClosed, RTCurrent, RTSocketsAreCurrent
  <2> QED BY <2>2, <2>3, <2>4 DEF RTInv
<1>4. CASE /\ ~(rtByUser[rtUser[h]] >= MaxPerUser \/ rtByIP >= MaxPerIP)
           /\ RTGoto(h, "reserved")
           /\ rtByUser' = [rtByUser EXCEPT ![rtUser[h]] = @ + 1]
           /\ rtByIP' = rtByIP + 1
  <2>1. /\ rtAt'[h] = "reserved" /\ rtAt' \in [Slots -> RTStations] /\ rtUser' = rtUser
        /\ \A k \in Slots : k # h => rtAt'[k] = rtAt[k]
    BY <1>0, <1>4 DEF RTGoto, RTTyped, RTStations, RTHolding
  <2>2. \A k \in Slots : rtAt'[k] \in RTHolding <=> rtAt[k] \in RTHolding \/ k = h
    BY <2>1 DEF RTHolding
  <2>3. rtByIP \in Nat /\ rtByUser[rtUser[h]] \in Nat
    BY <1>0, <1>1 DEF RTTyped
  <2>4. RTCounted'
    <3>1. rtByIP < MaxPerIP /\ rtByUser[rtUser[h]] < MaxPerUser
      BY <1>0, <1>4, <2>3
    <3> QED BY <1>1, <1>2, <1>4, <2>1, <2>2, <3>1, RTCountedAdd
  <2>5. rtByUser' \in [Users -> Nat] /\ rtByIP' \in Nat
    BY <1>0, <1>1, <1>4, <2>3 DEF RTTyped
  <2>6. RTTyped' /\ RTOwned'
    BY <1>0, <1>1, <2>1, <2>5 DEF RTTyped, RTOwned
  <2>7. RTFed' /\ RTDroppedIsClosed' /\ RTCurrent'
    BY <1>0, <1>1, <1>2, <2>1 DEF RTTyped, RTFed, RTDroppedIsClosed, RTCurrent, RTSocketsAreCurrent
  <2> QED BY <2>4, <2>6, <2>7 DEF RTInv
<1> QED BY <1>3, <1>4 DEF RTReserve

\* The steps of a request that keeps its reservation.
LEMMA RTServeInv ==
  ASSUME RealtimeAssumption, RTInv, NEW h \in Slots,
         \/ RTAccept(h) /\ RTGoto(h, "accepted") /\ UNCHANGED rtCounts
         \/ RTRegister(h) \/ RTWrite(h) \/ RTDone(h) \/ RTUnregister(h)
  PROVE  RTInv'
<1> USE DEF rtSession, rtTokenVs, rtRequest, rtCounts, rtHub, rtSocket
<1>0. RTTyped /\ RTOwned /\ RTFed /\ RTCurrent /\ RTDroppedIsClosed /\ RTCounted
  BY DEF RTInv
<1>1. UNCHANGED <<rtUser, rtByUser, rtByIP, rtGen, rtRotator, rtDropping>>
  BY DEF RTAccept, RTRegister, RTWrite, RTDone, RTUnregister, RTGoto
<1>2. PICK l \in RTHolding : rtAt' = [rtAt EXCEPT ![h] = l] /\ rtAt[h] \in RTHolding
  <2>1. rtAt = [rtAt EXCEPT ![h] = rtAt[h]]
    BY <1>0 DEF RTTyped
  <2> QED BY <2>1 DEF RTAccept, RTRegister, RTWrite, RTDone, RTUnregister, RTGoto, RTHolding
<1>3. /\ rtAt'[h] = l /\ rtAt' \in [Slots -> RTStations]
      /\ \A k \in Slots : k # h => rtAt'[k] = rtAt[k]
  BY <1>0, <1>2 DEF RTTyped, RTStations
<1>4. RTCounted'
  BY <1>0, <1>1, <1>2, <1>3, RTCountedStill
<1>5. RTOwned'
  BY <1>0, <1>1, <1>2, <1>3 DEF RTOwned, RTHolding
<1>6. CASE RTAccept(h) /\ RTGoto(h, "accepted")
  <2>1. /\ rtAt[h] = "reserved" /\ rtAt'[h] = "accepted" /\ UNCHANGED <<rtClients, rtRegGen>>
        /\ rtConn' \in [Slots -> BOOLEAN] /\ \A k \in Slots : k # h => rtConn'[k] = rtConn[k]
    BY <1>0, <1>6 DEF RTAccept, RTGoto, RTTyped, RTLeave
  <2>2. h \notin rtClients
    BY <1>0, <2>1 DEF RTFed
  <2>3. RTTyped'
    BY <1>0, <1>1, <1>3, <2>1 DEF RTTyped
  <2> QED BY <1>0, <1>1, <1>3, <1>4, <1>5, <2>1, <2>2, <2>3
          DEF RTInv, RTTyped, RTFed, RTDroppedIsClosed, RTCurrent, RTSocketsAreCurrent
<1>7. CASE RTRegister(h)
  <2>1. /\ rtAt'[h] = "open" /\ rtClients' = rtClients \cup {h} /\ rtConn' = rtConn
        /\ rtRegGen' = [rtRegGen EXCEPT ![h] = rtGen]
    BY <1>0, <1>7 DEF RTRegister, RTGoto, RTTyped
  <2>2. RTTyped'
    BY <1>0, <1>1, <1>3, <2>1 DEF RTTyped
  <2>3. RTFed' /\ RTDroppedIsClosed'
    BY <1>0, <1>1, <1>3, <2>1 DEF RTTyped, RTFed, RTDroppedIsClosed
  <2>4. RTCurrent'
    BY <1>0, <1>1, <2>1 DEF RTTyped, RTCurrent, RTSocketsAreCurrent
  <2> QED BY <1>4, <1>5, <2>2, <2>3, <2>4 DEF RTInv
<1>8. CASE RTWrite(h) \/ RTDone(h)
  <2>1. /\ rtAt[h] = "open" /\ rtAt'[h] \in {"open", "leaving"} /\ UNCHANGED <<rtClients, rtRegGen, rtConn>>
    BY <1>0, <1>8 DEF RTWrite, RTDone, RTGoto, RTTyped
  <2>2. RTTyped'
    BY <1>0, <1>1, <1>3, <2>1 DEF RTTyped
  <2> QED BY <1>0, <1>1, <1>3, <1>4, <1>5, <2>1, <2>2
          DEF RTInv, RTTyped, RTFed, RTDroppedIsClosed, RTCurrent, RTSocketsAreCurrent
<1>9. CASE RTUnregister(h)
  <2>1. rtAt'[h] = "unregistered" /\ rtClients' = rtClients \ {h} /\ UNCHANGED <<rtRegGen, rtConn>>
    BY <1>0, <1>9 DEF RTUnregister, RTGoto, RTTyped
  <2>2. RTTyped'
    BY <1>0, <1>1, <1>3, <2>1 DEF RTTyped
  <2> QED BY <1>0, <1>1, <1>3, <1>4, <1>5, <2>1, <2>2
          DEF RTInv, RTTyped, RTFed, RTDroppedIsClosed, RTCurrent, RTSocketsAreCurrent
<1> QED BY <1>6, <1>7, <1>8, <1>9

\* A request that is over: a refused upgrade, or the end of its deferred calls.
LEMMA RTEndInv ==
  ASSUME RealtimeAssumption, RTInv, NEW h \in Slots,
         RTEndRequest(h) \/ (RTAccept(h) /\ RTLeave(h) /\ RTRelease(h) /\ UNCHANGED rtConn)
  PROVE  RTInv'
<1> USE DEF rtSession, rtTokenVs, rtRequest, rtCounts, rtHub, rtSocket
<1>0. RTTyped /\ RTOwned /\ RTFed /\ RTCurrent /\ RTDroppedIsClosed /\ RTCounted /\ MaxRotations \in Nat
  BY DEF RTInv, RealtimeAssumption
<1>1. /\ rtAt[h] \in {"unregistered", "reserved"} /\ RTLeave(h) /\ RTRelease(h)
      /\ UNCHANGED <<rtGen, rtRotator, rtClients>>
  BY DEF RTEndRequest, RTAccept
<1>2. rtAt[h] \in RTHolding /\ h \notin rtClients
  BY <1>0, <1>1 DEF RTFed, RTHolding
<1>3. RTCounted' /\ rtByIP' \in Nat /\ rtByUser' \in [Users -> Nat]
  BY <1>1, <1>2, RTCountedRemove
<1>4. /\ rtAt'[h] = "idle" /\ rtAt' \in [Slots -> RTStations] /\ rtUser' \in [Slots -> RTUserOrNone]
      /\ \A k \in Slots : k # h => rtAt'[k] = rtAt[k] /\ rtUser'[k] = rtUser[k]
  BY <1>0, <1>1 DEF RTLeave, RTTyped, RTStations, RTUserOrNone
<1>5. /\ rtRegGen' \in [Slots -> 0..MaxRotations] /\ rtConn' \in [Slots -> BOOLEAN] /\ rtDropping' \subseteq Slots
      /\ \A k \in Slots : k # h => /\ rtRegGen'[k] = rtRegGen[k] /\ rtConn'[k] = rtConn[k]
                                   /\ k \in rtDropping => k \in rtDropping'
  <2>1. CASE RTEndRequest(h)
    <3>1. /\ rtConn' = [rtConn EXCEPT ![h] = FALSE] /\ rtRegGen' = [rtRegGen EXCEPT ![h] = 0]
          /\ rtDropping' = rtDropping \ {h}
      BY <2>1 DEF RTEndRequest
    <3> QED BY <1>0, <3>1 DEF RTTyped
  <2>2. CASE RTAccept(h) /\ UNCHANGED rtConn
    <3>1. UNCHANGED <<rtConn, rtRegGen, rtDropping>>
      BY <2>2 DEF RTAccept
    <3> QED BY <1>0, <3>1 DEF RTTyped
  <2> QED BY <2>1, <2>2
<1>6. RTTyped' /\ RTOwned'
  BY <1>0, <1>1, <1>3, <1>4, <1>5 DEF RTTyped, RTOwned
<1>7. RTFed' /\ RTDroppedIsClosed' /\ RTCurrent'
  BY <1>0, <1>1, <1>2, <1>4, <1>5 DEF RTTyped, RTFed, RTDroppedIsClosed, RTCurrent, RTSocketsAreCurrent
<1> QED BY <1>3, <1>6, <1>7 DEF RTInv

\* The steps of the peer, of a publication and of the callbacks.
LEMMA RTSocketInv ==
  ASSUME RealtimeAssumption, RTInv, NEW h \in Slots, RTPeerGone(h) \/ RTSend(h) \/ RTCallDrop(h)
  PROVE  RTInv'
<1> USE DEF rtSession, rtTokenVs, rtRequest, rtCounts, rtHub, rtSocket
<1>0. RTTyped /\ RTOwned /\ RTFed /\ RTCurrent /\ RTDroppedIsClosed /\ RTCounted
  BY DEF RTInv
<1>1. UNCHANGED <<rtAt, rtUser, rtByUser, rtByIP, rtRegGen, rtGen, rtRotator>>
  BY DEF RTPeerGone, RTSend, RTCallDrop
<1>2. RTCounted' /\ RTOwned'
  BY <1>0, <1>1, RTCountedStill DEF RTOwned
<1>3. /\ rtClients' \subseteq rtClients /\ rtDropping' \subseteq Slots /\ rtConn' \in [Slots -> BOOLEAN]
      /\ \A k \in Slots : k \in rtClients \cup rtDropping /\ rtConn'[k] => k \in rtClients' \cup rtDropping'
      /\ \A k \in Slots : rtConn'[k] => rtConn[k]
  BY <1>0 DEF RTPeerGone, RTSend, RTCallDrop, RTTyped
<1> QED BY <1>0, <1>1, <1>2, <1>3
        DEF RTInv, RTTyped, RTFed, RTDroppedIsClosed, RTCurrent, RTSocketsAreCurrent

LEMMA RTNextInv ==
  ASSUME RealtimeAssumption, RTInv, [RTNext]_rtVars
  PROVE  RTInv'
<1>1. ASSUME NEW h \in Slots, RTAccept(h) PROVE RTInv'
  <2>1. \/ RTGoto(h, "accepted") /\ UNCHANGED rtCounts
        \/ RTLeave(h) /\ RTRelease(h) /\ UNCHANGED rtConn
    BY <1>1 DEF RTAccept
  <2> QED BY <1>1, <2>1, RTServeInv, RTEndInv
<1>2. ASSUME NEW h \in Slots, RTHandler(h) PROVE RTInv'
  BY <1>1, <1>2, RTHandshakeInv, RTReserveInv, RTServeInv, RTEndInv DEF RTHandler
<1> QED BY <1>2, RTSessionInv, RTHandshakeInv, RTSocketInv DEF RTNext

-----------------------------------------------------------------------------
(* The tokens, and the types of the rest.                                  *)

\* The types of the rest of the state.
RTLoose ==
    /\ rtLogin \in [Users -> SUBSET (0..MaxRotations)]
    /\ rtQueue \in [Slots -> 0..QueueSize] /\ rtSending \subseteq Slots

\* Each token is in the list once, and belongs to a request that has yet to use it.
RTListed ==
    /\ rtTokens \in Seq(Slots) /\ rtExpired \in 0..Len(rtTokens) /\ rtSweepTimer \in BOOLEAN
    /\ rtTokenGen \in [Slots -> 0..MaxRotations]
    /\ \A i, j \in 1..Len(rtTokens) : rtTokens[i] = rtTokens[j] => i = j
    /\ \A i \in 1..Len(rtTokens) : rtAt[rtTokens[i]] \in {"token", "authed", "stranger"}

RTFresh == rtRotator.step \notin {"close", "tokens"} => RTTokensAreCurrent

RTTokenInv == RTLoose /\ RTListed /\ RTFresh /\ RTTokensAreSwept

LEMMA RTInitTokens == ASSUME RealtimeAssumption, RTInit PROVE RTTokenInv
<1>1. rtTokens = <<>> /\ Len(rtTokens) = 0 /\ rtTokens \in Seq(Slots)
  BY EmptySeq DEF RTInit
<1>2. 1..Len(rtTokens) = {}
  BY <1>1
<1>3. RTLoose
  BY DEF RealtimeAssumption, RTInit, RTLoose
<1>4. RTListed
  <2>0. rtExpired = 0 /\ rtSweepTimer = FALSE
    BY DEF RTInit
  <2>1. Len(rtTokens) = 0 /\ rtTokens \in Seq(Slots)
    BY <1>1
  <2>2. rtExpired \in 0..Len(rtTokens)
    BY <2>0, <2>1
  <2>3. rtTokenGen \in [Slots -> 0..MaxRotations]
    BY DEF RealtimeAssumption, RTInit
  <2>4. rtSweepTimer \in BOOLEAN
    BY <2>0
  <2> QED BY <1>2, <2>1, <2>2, <2>3, <2>4 DEF RTListed
<1>5. RTFresh /\ RTTokensAreSwept
  BY <1>1, <1>2 DEF RealtimeAssumption, RTFresh, RTTokensAreCurrent, RTTokensAreSwept
<1> QED BY <1>3, <1>4, <1>5 DEF RTTokenInv

\* A sweep of the first n tokens and the cap leave the last ones, in their order.
LEMMA RTKeepFacts ==
  ASSUME RealtimeAssumption, NEW s \in Seq(Slots), NEW n \in 0..Len(s), rtExpired \in 0..Len(s), RTKeep(s, n)
  PROVE  /\ rtTokens' \in Seq(Slots) /\ rtExpired' \in 0..Len(rtTokens')
         /\ Len(rtTokens') \in Nat /\ Len(rtTokens') <= MaxWSTokens
         /\ \E d \in Nat : \A i \in 1..Len(rtTokens') : i + d \in 1..Len(s) /\ rtTokens'[i] = s[i + d]
<1> DEFINE gone == RTCapped(s, n)
<1>0. Len(s) \in Nat /\ MaxWSTokens \in Nat
  BY LenProperties DEF RealtimeAssumption
<1>1. gone \in 0..Len(s) /\ Len(s) - gone <= MaxWSTokens
  BY <1>0 DEF RTCapped
<1>2. rtTokens' = SubSeq(s, gone + 1, Len(s)) /\ rtExpired' = IF rtExpired > gone THEN rtExpired - gone ELSE 0
  BY DEF RTKeep
<1> HIDE DEF gone
<1>3. \A i \in (gone + 1)..Len(s) : s[i] \in Slots
  BY <1>0, <1>1, ElementOfSeq
<1>4. /\ rtTokens' \in Seq(Slots)
      /\ Len(rtTokens') = IF gone + 1 <= Len(s) THEN Len(s) - (gone + 1) + 1 ELSE 0
      /\ \A i \in 1 .. Len(s) - (gone + 1) + 1 : rtTokens'[i] = s[gone + 1 + i - 1]
  BY <1>0, <1>1, <1>2, <1>3, SubSeqProperties
<1>5. Len(rtTokens') = Len(s) - gone
  BY <1>0, <1>1, <1>4
<1>6. \A i \in 1..Len(rtTokens') : i + gone \in 1..Len(s) /\ rtTokens'[i] = s[i + gone]
  <2> TAKE i \in 1..Len(rtTokens')
  <2>1. i \in 1 .. Len(s) - (gone + 1) + 1 /\ gone + 1 + i - 1 = i + gone
    BY <1>0, <1>1, <1>5
  <2>2. rtTokens'[i] = s[gone + 1 + i - 1]
    BY <1>4, <2>1
  <2>3. i + gone \in 1..Len(s)
    BY <1>0, <1>1, <1>5
  <2> QED BY <2>1, <2>2, <2>3
<1>7. rtExpired' \in 0..Len(rtTokens')
  BY <1>0, <1>1, <1>2, <1>5
<1>8. Len(rtTokens') \in Nat /\ Len(rtTokens') <= MaxWSTokens /\ gone \in Nat
  BY <1>0, <1>1, <1>5
<1> QED BY <1>4, <1>6, <1>7, <1>8

\* The removal of one token leaves the others, in their order.
LEMMA RTRemoveFacts ==
  ASSUME rtTokens \in Seq(Slots), rtExpired \in 0..Len(rtTokens), NEW k \in 1..Len(rtTokens), RTRemove(k)
  PROVE  /\ rtTokens' \in Seq(Slots) /\ rtExpired' \in 0..Len(rtTokens')
         /\ Len(rtTokens') = Len(rtTokens) - 1
         /\ \A i \in 1..Len(rtTokens') : rtTokens'[i] = rtTokens[IF i < k THEN i ELSE i + 1]
<1> DEFINE a == SubSeq(rtTokens, 1, k - 1)
           b == SubSeq(rtTokens, k + 1, Len(rtTokens))
<1>0. Len(rtTokens) \in Nat /\ \A i \in 1..Len(rtTokens) : rtTokens[i] \in Slots
  BY LenProperties, ElementOfSeq
<1>1. rtTokens' = a \o b /\ rtExpired' = IF k > rtExpired THEN rtExpired ELSE rtExpired - 1
  BY DEF RTRemove
<1>2. a \in Seq(Slots) /\ Len(a) = k - 1 /\ \A i \in 1..(k - 1) : a[i] = rtTokens[i]
  <2>1. /\ a \in Seq(Slots) /\ Len(a) = IF 1 <= k - 1 THEN k - 1 - 1 + 1 ELSE 0
        /\ \A i \in 1 .. k - 1 - 1 + 1 : a[i] = rtTokens[1 + i - 1]
    BY <1>0, SubSeqProperties
  <2> HIDE DEF a
  <2> QED BY <1>0, <2>1
<1>3. /\ b \in Seq(Slots) /\ Len(b) = Len(rtTokens) - k
      /\ \A i \in 1..(Len(rtTokens) - k) : b[i] = rtTokens[k + i]
  <2>1. /\ b \in Seq(Slots) /\ Len(b) = IF k + 1 <= Len(rtTokens) THEN Len(rtTokens) - (k + 1) + 1 ELSE 0
        /\ \A i \in 1 .. Len(rtTokens) - (k + 1) + 1 : b[i] = rtTokens[k + 1 + i - 1]
    BY <1>0, SubSeqProperties
  <2> HIDE DEF b
  <2> QED BY <1>0, <2>1
<1> HIDE DEF a, b
<1>4. /\ a \o b \in Seq(Slots) /\ Len(a \o b) = Len(a) + Len(b)
      /\ \A i \in 1 .. Len(a) + Len(b) : (a \o b)[i] = IF i <= Len(a) THEN a[i] ELSE b[i - Len(a)]
  BY <1>2, <1>3, ConcatProperties
<1>5. Len(rtTokens') = Len(rtTokens) - 1
  BY <1>0, <1>1, <1>2, <1>3, <1>4
<1>6. ASSUME NEW i \in 1..Len(rtTokens')
      PROVE  rtTokens'[i] = rtTokens[IF i < k THEN i ELSE i + 1]
  <2>1. i \in 1 .. Len(a) + Len(b) /\ i \in Nat
    BY <1>0, <1>1, <1>4, <1>5, <1>2, <1>3
  <2>2. CASE i < k
    BY <1>0, <1>1, <1>2, <1>4, <2>1, <2>2
  <2>3. CASE ~(i < k)
    <3>1. i - Len(a) \in 1..(Len(rtTokens) - k) /\ k + (i - Len(a)) = i + 1 /\ ~(i <= Len(a))
      BY <1>0, <1>2, <1>5, <2>1, <2>3
    <3>2. b[i - Len(a)] = rtTokens[k + (i - Len(a))]
      BY <1>3, <3>1
    <3> QED BY <1>1, <1>4, <2>1, <2>3, <3>1, <3>2
  <2> QED BY <2>2, <2>3
<1>7. rtExpired' \in 0..Len(rtTokens')
  BY <1>0, <1>1, <1>5
<1> QED BY <1>1, <1>4, <1>5, <1>6, <1>7

\* The steps that leave the list alone, and no request with a token in it.
LEMMA RTTokensStill ==
  ASSUME RTTokenInv, RTLoose', UNCHANGED <<rtTokens, rtSweepTimer>>, rtExpired' \in 0..Len(rtTokens'),
         rtTokenGen' \in [Slots -> 0..MaxRotations],
         \A h \in Slots : rtAt[h] \in {"token", "authed", "stranger"} =>
                            rtAt'[h] \in {"token", "authed", "stranger"} /\ rtTokenGen'[h] = rtTokenGen[h],
         \/ rtGen' = rtGen /\ (rtRotator'.step \notin {"close", "tokens"} => rtRotator.step \notin {"close", "tokens"})
         \/ rtRotator'.step \in {"close", "tokens"}
  PROVE  RTTokenInv'
<1>1. \A i \in 1..Len(rtTokens) : rtTokens[i] \in Slots
  BY ElementOfSeq DEF RTTokenInv, RTListed
<1>2. RTListed'
  BY <1>1 DEF RTTokenInv, RTListed
<1>3. RTFresh'
  BY <1>1 DEF RTTokenInv, RTListed, RTFresh, RTTokensAreCurrent
<1> QED BY <1>2, <1>3 DEF RTTokenInv, RTTokensAreSwept

LEMMA RTStillTokens ==
  ASSUME RealtimeAssumption, RTInv, RTTokenInv,
         \/ \E u \in Users : RTLoginUser(u) \/ RTLogout(u) \/ RTRotate(u)
         \/ RTCloseAll \/ RTEndRotation \/ RTExpireToken \/ RTPublish \/ UNCHANGED rtVars
         \/ \E h \in Slots :
              \/ \E u \in Users : RTAskToken(h, u)
              \/ RTAuth(h) \/ RTReserve(h) \/ RTAccept(h) \/ RTRegister(h) \/ RTWrite(h) \/ RTDone(h)
              \/ RTUnregister(h) \/ RTEndRequest(h) \/ RTPeerGone(h) \/ RTSend(h) \/ RTCallDrop(h)
  PROVE  RTTokenInv'
<1> USE DEF rtSession, rtTokenVs, rtRequest, rtCounts, rtHub, rtSocket
<1> DEFINE Stations == {"token", "authed", "stranger"}
<1>0. /\ RTTyped /\ RTLoose /\ RTListed /\ MaxRotations \in Nat /\ QueueSize \in Nat \ {0}
      /\ Len(rtTokens) \in Nat
  BY LenProperties DEF RTInv, RTTokenInv, RTListed, RealtimeAssumption
<1>1. CASE \E u \in Users : RTLoginUser(u) \/ RTLogout(u) \/ RTRotate(u)
  <2>1. PICK u \in Users : RTLoginUser(u) \/ RTLogout(u) \/ RTRotate(u)
    BY <1>1
  <2>2. rtLogin' \in [Users -> SUBSET (0..MaxRotations)]
    BY <1>0, <2>1 DEF RTLoginUser, RTLogout, RTRotate, RTLoose, RTTyped
  <2>3. /\ UNCHANGED <<rtTokens, rtExpired, rtTokenGen, rtSweepTimer, rtAt, rtQueue, rtSending>>
        /\ \/ rtGen' = rtGen /\ rtRotator' = rtRotator
           \/ rtRotator' = [step |-> "close", by |-> u]
    BY <2>1 DEF RTLoginUser, RTLogout, RTRotate
  <2> QED BY <1>0, <2>2, <2>3, RTTokensStill DEF RTLoose, RTListed
<1>2. CASE RTCloseAll \/ RTEndRotation
  <2>1. rtLogin' \in [Users -> SUBSET (0..MaxRotations)]
    <3>1. CASE RTCloseAll
      BY <1>0, <3>1 DEF RTCloseAll, RTLoose
    <3>2. CASE RTEndRotation
      <4>1. PICK session \in {{rtGen}, {}} :
              rtLogin' = [rtLogin EXCEPT ![rtRotator.by] = @ \cup session]
        BY <3>2 DEF RTEndRotation
      <4>2. session \subseteq 0..MaxRotations
        BY <1>0 DEF RTTyped
      <4> QED BY <1>0, <4>1, <4>2 DEF RTLoose
    <3> QED BY <1>2, <3>1, <3>2
  <2>2. /\ UNCHANGED <<rtTokens, rtExpired, rtTokenGen, rtSweepTimer, rtAt, rtQueue, rtSending, rtGen>>
        /\ rtRotator'.step \notin {"close", "tokens"} => rtRotator.step \notin {"close", "tokens"}
    BY <1>0, <1>2 DEF RTCloseAll, RTEndRotation, RTTyped
  <2> QED BY <1>0, <2>1, <2>2, RTTokensStill DEF RTLoose, RTListed
<1>3. CASE RTExpireToken \/ RTPublish \/ UNCHANGED rtVars
  <2>1. /\ UNCHANGED <<rtTokens, rtTokenGen, rtSweepTimer, rtAt, rtQueue, rtGen, rtRotator, rtLogin>>
        /\ rtSending' \subseteq Slots
    BY <1>0, <1>3 DEF RTExpireToken, RTPublish, rtVars, RTLoose, RTTyped
  <2>2. rtExpired' \in 0..Len(rtTokens')
    BY <1>0, <1>3, <2>1 DEF RTExpireToken, RTPublish, rtVars, RTListed
  <2> QED BY <1>0, <2>1, <2>2, RTTokensStill DEF RTLoose, RTListed
<1>4. CASE \E h \in Slots :
             \/ \E u \in Users : RTAskToken(h, u)
             \/ RTAuth(h) \/ RTReserve(h) \/ RTAccept(h) \/ RTRegister(h) \/ RTWrite(h) \/ RTDone(h)
             \/ RTUnregister(h) \/ RTEndRequest(h) \/ RTPeerGone(h) \/ RTSend(h) \/ RTCallDrop(h)
  <2>1. PICK h \in Slots :
             \/ \E u \in Users : RTAskToken(h, u)
             \/ RTAuth(h) \/ RTReserve(h) \/ RTAccept(h) \/ RTRegister(h) \/ RTWrite(h) \/ RTDone(h)
             \/ RTUnregister(h) \/ RTEndRequest(h) \/ RTPeerGone(h) \/ RTSend(h) \/ RTCallDrop(h)
    BY <1>4
  <2>2. UNCHANGED <<rtTokens, rtExpired, rtSweepTimer, rtGen, rtRotator, rtLogin>>
    BY <2>1 DEF RTAskToken, RTAuth, RTReserve, RTAccept, RTRegister, RTWrite, RTDone,
                RTUnregister, RTEndRequest, RTPeerGone, RTSend, RTCallDrop
  <2>3. /\ rtTokenGen' \in [Slots -> 0..MaxRotations]
        /\ \A k \in Slots : k # h \/ rtAt[h] # "unregistered" => rtTokenGen'[k] = rtTokenGen[k]
    <3>1. CASE RTEndRequest(h)
      BY <1>0, <3>1 DEF RTEndRequest, RTListed
    <3>2. CASE ~RTEndRequest(h)
      <4>1. rtTokenGen' = rtTokenGen
        BY <2>1, <3>2 DEF RTAskToken, RTAuth, RTReserve, RTAccept, RTRegister, RTWrite, RTDone,
                RTUnregister, RTPeerGone, RTSend, RTCallDrop
      <4> QED BY <1>0, <4>1 DEF RTListed
    <3> QED BY <3>1, <3>2
  <2>4. \A k \in Slots : rtAt[k] \in Stations => rtAt'[k] \in Stations
    <3>1. CASE RTAuth(h)
      BY <1>0, <3>1 DEF RTAuth, RTGoto, RTTyped
    <3>2. CASE rtAt[h] \notin Stations /\ \A k \in Slots : k # h => rtAt'[k] = rtAt[k]
      BY <3>2
    <3>3. CASE RTPeerGone(h) \/ RTSend(h) \/ RTCallDrop(h)
      BY <3>3 DEF RTPeerGone, RTSend, RTCallDrop
    <3>4. CASE RTReserve(h) \/ RTAccept(h) \/ RTRegister(h)
      BY <1>0, <3>2, <3>4 DEF RTReserve, RTAccept, RTRegister, RTGoto, RTLeave, RTTyped
    <3>5. CASE RTWrite(h) \/ RTDone(h) \/ RTUnregister(h) \/ RTEndRequest(h)
      BY <1>0, <3>2, <3>5 DEF RTWrite, RTDone, RTUnregister, RTEndRequest, RTGoto, RTLeave, RTTyped
    <3>6. CASE \E u \in Users : RTAskToken(h, u)
      BY <1>0, <3>2, <3>6 DEF RTAskToken, RTTyped
    <3> QED BY <2>1, <3>1, <3>3, <3>4, <3>5, <3>6
  <2>5. rtQueue' \in [Slots -> 0..QueueSize]
    <3>1. CASE RTRegister(h) \/ RTWrite(h)
      BY <1>0, <3>1 DEF RTRegister, RTWrite, RTLoose
    <3>2. CASE RTEndRequest(h) \/ RTSend(h)
      BY <1>0, <3>2 DEF RTEndRequest, RTSend, RTLoose
    <3>3. CASE ~(RTRegister(h) \/ RTWrite(h) \/ RTEndRequest(h) \/ RTSend(h))
      <4>1. rtQueue' = rtQueue
        BY <2>1, <3>3 DEF RTAskToken, RTAuth, RTReserve, RTAccept, RTDone, RTUnregister, RTPeerGone, RTCallDrop
      <4> QED BY <1>0, <4>1 DEF RTLoose
    <3> QED BY <3>1, <3>2, <3>3
  <2>6. rtSending' \subseteq Slots
    BY <1>0, <2>1 DEF RTLoose, RTAskToken, RTAuth, RTReserve, RTAccept, RTRegister, RTWrite, RTDone,
                RTUnregister, RTEndRequest, RTPeerGone, RTSend, RTCallDrop
  <2> QED BY <1>0, <2>2, <2>3, <2>4, <2>5, <2>6, RTTokensStill DEF RTLoose, RTListed
<1> QED BY <1>1, <1>2, <1>3, <1>4

LEMMA RTSweptTokens ==
  ASSUME RealtimeAssumption, RTInv, RTTokenInv, RTInvalidateTokens \/ RTResetTokens
  PROVE  RTTokenInv'
<1> USE DEF rtSession, rtTokenVs, rtRequest, rtCounts, rtHub, rtSocket
<1>1. /\ rtTokens' = <<>> /\ rtExpired' = 0 /\ rtSweepTimer' = FALSE
      /\ UNCHANGED <<rtTokenGen, rtLogin, rtQueue, rtSending>>
  BY DEF RTInvalidateTokens, RTResetTokens, RTSweepAll
<1>2. rtTokens' \in Seq(Slots) /\ Len(rtTokens') = 0 /\ 1..Len(rtTokens') = {} /\ rtExpired' \in 0..Len(rtTokens')
  BY <1>1, EmptySeq
<1>3. RTListed'
  BY <1>1, <1>2 DEF RTTokenInv, RTListed
<1>4. RTFresh' /\ RTTokensAreSwept'
  BY <1>1, <1>2 DEF RealtimeAssumption, RTFresh, RTTokensAreCurrent, RTTokensAreSwept
<1> QED BY <1>1, <1>3, <1>4 DEF RTTokenInv, RTLoose

\* What is kept of a list of good tokens is one.
LEMMA RTKeptTokens ==
  ASSUME RealtimeAssumption, RTInv, RTTokenInv, NEW s \in Seq(Slots), NEW n \in 0..Len(s),
         rtExpired \in 0..Len(s), RTKeep(s, n),
         \A i, j \in 1..Len(s) : s[i] = s[j] => i = j,
         \A i \in 1..Len(s) : rtAt'[s[i]] \in {"token", "authed", "stranger"},
         rtTokenGen' \in [Slots -> 0..MaxRotations],
         rtRotator.step \notin {"close", "tokens"} => \A i \in 1..Len(s) : rtTokenGen'[s[i]] = rtGen,
         rtTokens' # <<>> => rtSweepTimer', rtSweepTimer' \in BOOLEAN,
         UNCHANGED <<rtGen, rtRotator, rtLogin, rtQueue, rtSending>>
  PROVE  RTTokenInv'
<1>1. /\ rtTokens' \in Seq(Slots) /\ rtExpired' \in 0..Len(rtTokens')
      /\ Len(rtTokens') \in Nat /\ Len(rtTokens') <= MaxWSTokens
  BY RTKeepFacts
<1>2. PICK d \in Nat : \A i \in 1..Len(rtTokens') : i + d \in 1..Len(s) /\ rtTokens'[i] = s[i + d]
  BY RTKeepFacts
<1>3. RTListed'
  <2>1. ASSUME NEW i \in 1..Len(rtTokens'), NEW j \in 1..Len(rtTokens'), rtTokens'[i] = rtTokens'[j] PROVE i = j
    <3>1. i + d \in 1..Len(s) /\ j + d \in 1..Len(s) /\ s[i + d] = s[j + d]
      BY <1>2, <2>1
    <3>2. i + d = j + d
      BY <3>1
    <3> QED BY <1>1, <3>2
  <2>2. \A i \in 1..Len(rtTokens') : rtAt'[rtTokens'[i]] \in {"token", "authed", "stranger"}
    BY <1>2
  <2> QED BY <1>1, <2>1, <2>2 DEF RTListed
<1>4. RTFresh'
  <2> SUFFICES ASSUME rtRotator'.step \notin {"close", "tokens"}, NEW i \in 1..Len(rtTokens')
               PROVE  rtTokenGen'[rtTokens'[i]] = rtGen'
    BY DEF RTFresh, RTTokensAreCurrent
  <2>1. i + d \in 1..Len(s) /\ rtTokens'[i] = s[i + d]
    BY <1>2
  <2>2. rtTokenGen'[s[i + d]] = rtGen
    BY <2>1
  <2> QED BY <2>1, <2>2
<1> QED BY <1>1, <1>3, <1>4 DEF RTTokenInv, RTLoose, RTTokensAreSwept

LEMMA RTIssuedTokens ==
  ASSUME RealtimeAssumption, RTInv, RTTokenInv, NEW h \in Slots, RTIssueToken(h)
  PROVE  RTTokenInv'
<1> USE DEF rtSession, rtTokenVs, rtRequest, rtCounts, rtHub, rtSocket
<1> DEFINE s == Append(rtTokens, h)
<1>0. RTTyped /\ RTListed /\ RTFresh /\ Len(rtTokens) \in Nat
  BY LenProperties DEF RTInv, RTTokenInv, RTListed
<1>1. /\ rtAt[h] = "issue" /\ rtAt' = [rtAt EXCEPT ![h] = "token"] /\ rtSweepTimer' = TRUE
      /\ rtTokenGen' = [rtTokenGen EXCEPT ![h] = rtGen]
      /\ UNCHANGED <<rtGen, rtRotator, rtLogin, rtQueue, rtSending>>
  BY DEF RTIssueToken, RTGoto
<1>2. PICK n \in {0, rtExpired} : RTKeep(s, n)
  BY DEF RTIssueToken
<1>3. /\ s \in Seq(Slots) /\ Len(s) = Len(rtTokens) + 1 /\ s[Len(rtTokens) + 1] = h
      /\ \A i \in 1..Len(rtTokens) : s[i] = rtTokens[i]
  BY <1>0, AppendProperties DEF RTListed
<1> HIDE DEF s
<1>4. ASSUME NEW i \in 1..Len(s), i # Len(rtTokens) + 1
      PROVE  i \in 1..Len(rtTokens) /\ s[i] = rtTokens[i]
  <2>1. i \in 1..Len(rtTokens)
    BY <1>0, <1>3, <1>4
  <2> QED BY <1>3, <2>1
<1>5. \A i \in 1..Len(rtTokens) : rtTokens[i] \in Slots /\ rtTokens[i] # h
  BY <1>0, <1>1, ElementOfSeq DEF RTListed
<1>6. ASSUME NEW i \in 1..Len(s), NEW j \in 1..Len(s), s[i] = s[j] PROVE i = j
  <2>1. CASE i = Len(rtTokens) + 1 /\ j # Len(rtTokens) + 1
    BY <1>3, <1>4, <1>5, <1>6, <2>1
  <2>2. CASE i # Len(rtTokens) + 1 /\ j = Len(rtTokens) + 1
    BY <1>3, <1>4, <1>5, <1>6, <2>2
  <2>3. CASE i # Len(rtTokens) + 1 /\ j # Len(rtTokens) + 1
    BY <1>0, <1>4, <1>6, <2>3 DEF RTListed
  <2> QED BY <2>1, <2>2, <2>3
<1>7. ASSUME NEW i \in 1..Len(s)
      PROVE  /\ rtAt'[s[i]] \in {"token", "authed", "stranger"}
             /\ rtRotator.step \notin {"close", "tokens"} => rtTokenGen'[s[i]] = rtGen
  <2>1. CASE i = Len(rtTokens) + 1
    <3>1. rtAt'[h] = "token" /\ rtTokenGen'[h] = rtGen
      BY <1>0, <1>1 DEF RTTyped, RTListed
    <3> QED BY <1>3, <2>1, <3>1
  <2>2. CASE i # Len(rtTokens) + 1
    <3>1. i \in 1..Len(rtTokens) /\ s[i] = rtTokens[i] /\ rtTokens[i] \in Slots /\ rtTokens[i] # h
      BY <1>4, <1>5, <2>2
    <3>2. rtAt'[rtTokens[i]] = rtAt[rtTokens[i]] /\ rtTokenGen'[rtTokens[i]] = rtTokenGen[rtTokens[i]]
      BY <1>0, <1>1, <3>1 DEF RTTyped, RTListed
    <3>3. rtAt[rtTokens[i]] \in {"token", "authed", "stranger"}
      BY <1>0, <3>1 DEF RTListed
    <3>4. rtRotator.step \notin {"close", "tokens"} => rtTokenGen[rtTokens[i]] = rtGen
      BY <1>0, <3>1 DEF RTFresh, RTTokensAreCurrent
    <3> QED BY <3>1, <3>2, <3>3, <3>4
  <2> QED BY <2>1, <2>2
<1>8. rtTokenGen' \in [Slots -> 0..MaxRotations]
  BY <1>0, <1>1 DEF RTListed, RTTyped
<1>9. rtRotator.step \notin {"close", "tokens"} => \A i \in 1..Len(s) : rtTokenGen'[s[i]] = rtGen
  BY <1>7
<1>10. n \in 0..Len(s) /\ rtExpired \in 0..Len(s)
  BY <1>0, <1>3 DEF RTListed
<1> QED BY <1>1, <1>2, <1>3, <1>6, <1>7, <1>8, <1>9, <1>10, RTKeptTokens

LEMMA RTSweepTokens ==
  ASSUME RealtimeAssumption, RTInv, RTTokenInv, RTSweep
  PROVE  RTTokenInv'
<1> USE DEF rtSession, rtTokenVs, rtRequest, rtCounts, rtHub, rtSocket
<1>0. RTListed /\ RTFresh /\ Len(rtTokens) \in Nat
  BY LenProperties DEF RTTokenInv, RTListed
<1>1. /\ RTKeep(rtTokens, rtExpired) /\ rtSweepTimer' = (rtTokens' # <<>>)
      /\ UNCHANGED <<rtTokenGen, rtAt, rtGen, rtRotator, rtLogin, rtQueue, rtSending>>
  BY DEF RTSweep
<1>2. rtTokens' # <<>> => rtSweepTimer'
  BY <1>1
<1>3. rtSweepTimer' \in BOOLEAN
  BY <1>1
<1>4. rtRotator.step \notin {"close", "tokens"} => \A i \in 1..Len(rtTokens) : rtTokenGen'[rtTokens[i]] = rtGen
  BY <1>0, <1>1 DEF RTFresh, RTTokensAreCurrent
<1> QED BY <1>0, <1>1, <1>2, <1>3, <1>4, RTKeptTokens DEF RTListed

LEMMA RTConsumedTokens ==
  ASSUME RealtimeAssumption, RTInv, RTTokenInv, NEW h \in Slots, RTConsume(h)
  PROVE  RTTokenInv'
<1> USE DEF rtSession, rtTokenVs, rtRequest, rtCounts, rtHub, rtSocket
<1>0. RTTyped /\ RTListed /\ RTFresh /\ RTLoose /\ RTTokensAreSwept /\ Len(rtTokens) \in Nat
  BY LenProperties DEF RTInv, RTTokenInv, RTListed
<1>1. /\ UNCHANGED <<rtTokenGen, rtSweepTimer, rtGen, rtRotator, rtLogin, rtQueue, rtSending>>
      /\ \A k \in Slots : k # h => rtAt'[k] = rtAt[k]
  BY <1>0 DEF RTConsume, RTGoto, RTLeave, RTTyped
<1>2. \A i \in 1..Len(rtTokens) : rtTokens[i] \in Slots
  BY <1>0, ElementOfSeq DEF RTListed
<1>3. CASE RTFound(h) = {} /\ UNCHANGED <<rtTokens, rtExpired>>
  <2>1. \A i \in 1..Len(rtTokens) : rtTokens[i] # h
    BY <1>3 DEF RTFound
  <2>2. RTListed'
    BY <1>0, <1>1, <1>2, <1>3, <2>1 DEF RTListed
  <2> QED BY <1>0, <1>1, <1>3, <2>2 DEF RTTokenInv, RTLoose, RTFresh, RTTokensAreCurrent, RTTokensAreSwept
<1>4. CASE \E k \in RTFound(h) : RTRemove(k)
  <2>1. PICK k \in 1..Len(rtTokens) : rtTokens[k] = h /\ RTRemove(k)
    BY <1>4 DEF RTFound
  <2>2. /\ rtTokens' \in Seq(Slots) /\ rtExpired' \in 0..Len(rtTokens') /\ Len(rtTokens') = Len(rtTokens) - 1
        /\ \A i \in 1..Len(rtTokens') : rtTokens'[i] = rtTokens[IF i < k THEN i ELSE i + 1]
    BY <1>0, <2>1, RTRemoveFacts DEF RTListed
  <2> DEFINE p(i) == IF i < k THEN i ELSE i + 1
  <2>3. ASSUME NEW i \in 1..Len(rtTokens')
        PROVE  p(i) \in 1..Len(rtTokens) /\ p(i) # k /\ rtTokens'[i] = rtTokens[p(i)]
    <3>1. i \in Nat /\ i >= 1 /\ i <= Len(rtTokens) - 1
      BY <1>0, <2>2
    <3>2. p(i) \in 1..Len(rtTokens) /\ p(i) # k
      BY <1>0, <3>1
    <3> QED BY <2>2, <3>2
  <2>4. ASSUME NEW i \in 1..Len(rtTokens'), NEW j \in 1..Len(rtTokens'), p(i) = p(j) PROVE i = j
    <3>1. i \in Nat /\ j \in Nat
      BY <1>0, <2>2
    <3> QED BY <2>4, <3>1
  <2> HIDE DEF p
  <2>5. ASSUME NEW i \in 1..Len(rtTokens') PROVE rtTokens'[i] \in Slots /\ rtTokens'[i] # h
    <3>1. p(i) \in 1..Len(rtTokens) /\ p(i) # k /\ rtTokens'[i] = rtTokens[p(i)]
      BY <2>3
    <3>2. rtTokens[p(i)] # rtTokens[k]
      BY <1>0, <3>1 DEF RTListed
    <3> QED BY <1>2, <2>1, <3>1, <3>2
  <2>6. RTListed'
    <3>1. ASSUME NEW i \in 1..Len(rtTokens'), NEW j \in 1..Len(rtTokens'), rtTokens'[i] = rtTokens'[j]
          PROVE  i = j
      <4>1. rtTokens[p(i)] = rtTokens[p(j)] /\ p(i) \in 1..Len(rtTokens) /\ p(j) \in 1..Len(rtTokens)
        BY <2>3, <3>1
      <4>2. p(i) = p(j)
        BY <1>0, <4>1 DEF RTListed
      <4> QED BY <2>4, <4>2
    <3>2. ASSUME NEW i \in 1..Len(rtTokens') PROVE rtAt'[rtTokens'[i]] \in {"token", "authed", "stranger"}
      <4>1. rtTokens'[i] = rtTokens[p(i)] /\ p(i) \in 1..Len(rtTokens)
        BY <2>3
      <4>2. rtAt[rtTokens[p(i)]] \in {"token", "authed", "stranger"}
        BY <1>0, <4>1 DEF RTListed
      <4>3. rtAt'[rtTokens'[i]] = rtAt[rtTokens'[i]]
        BY <1>1, <2>5
      <4> QED BY <4>1, <4>2, <4>3
    <3> QED BY <1>0, <1>1, <2>2, <3>1, <3>2 DEF RTListed
  <2>7. RTFresh'
    BY <1>0, <1>1, <2>3 DEF RTFresh, RTTokensAreCurrent
  <2>8. RTTokensAreSwept'
    <3>1. rtTokens # <<>>
      BY <1>0, <2>1, EmptySeq
    <3>2. Len(rtTokens') <= MaxWSTokens
      BY <1>0, <2>2 DEF RTTokensAreSwept, RealtimeAssumption
    <3> QED BY <1>0, <1>1, <3>1, <3>2 DEF RTTokensAreSwept
  <2> QED BY <1>0, <1>1, <2>6, <2>7, <2>8 DEF RTTokenInv, RTLoose
<1> QED BY <1>3, <1>4 DEF RTConsume

LEMMA RTNextTokens ==
  ASSUME RealtimeAssumption, RTInv, RTTokenInv, [RTNext]_rtVars
  PROVE  RTTokenInv'
<1>1. ASSUME NEW h \in Slots, RTHandler(h) PROVE RTTokenInv'
  BY <1>1, RTIssuedTokens, RTConsumedTokens, RTStillTokens DEF RTHandler
<1>2. CASE RTRotation
  BY <1>2, RTSweptTokens, RTStillTokens DEF RTRotation
<1> QED BY <1>1, <1>2, RTSweptTokens, RTSweepTokens, RTStillTokens DEF RTNext

\* A reservation lives as long as its request, a connection that the hub has
\* dropped is about to be closed, a rotation that is over has left no socket and no
\* token of an earlier generation, and tokens are bounded and have a timer
\* (realtime.go, hub.go, session.go): for any users, slots and limits.
THEOREM ClientsAreAccounted ==
  RTSpec => []RTClientsAreAccounted
<1>1. RTInit => RTInv /\ RTTokenInv
  BY RealtimeAssumption, RTInitInv, RTInitTokens
<1>2. RTInv /\ RTTokenInv /\ [RTNext]_rtVars => (RTInv /\ RTTokenInv)'
  BY RealtimeAssumption, RTNextInv, RTNextTokens
<1>3. RTInv /\ RTTokenInv => /\ RTSlotsMatchSockets /\ RTDroppedIsClosed
                             /\ RTRotationEndsAll /\ RTTokensAreSwept
  BY DEF RTInv, RTCounted, RTCurrent, RTTokenInv, RTFresh, RTRotationEndsAll
<1>4. RTInv /\ RTTokenInv => RTTypeOK
  BY DEF RTInv, RTTyped, RTStations, RTTokenInv, RTLoose, RTListed, RTTypeOK
<1>5. RTInv /\ RTTokenInv => RTClientsAreAccounted
  BY <1>3, <1>4 DEF RTClientsAreAccounted
<1> QED BY <1>1, <1>2, <1>5, PTL DEF RTSpec

-----------------------------------------------------------------------------
(***************************************************************************)
(* The failover groups.  FONoFlap needs that the counters agree with the   *)
(* probes of the cycle when the decision is made, although members, core   *)
(* and group may have changed since they were probed, and that the member  *)
(* that was read is the active one unless the core was replaced.           *)
(***************************************************************************)

FOAnyTag == FOTags \cup {Direct}

FOInv ==
    /\ FOTypeOK
    /\ foSelector \in [members : Seq(FOAnyTag), now : FOAnyTag]
    /\ foPhase # "idle" => foGroup.members \in MemberLists
    /\ foPhase \in {"probed", "read"} =>
         /\ foResults \subseteq FOIn(foGroup.members)
         /\ \A m \in FOIn(foGroup.members) : foRun[m] >= 1 <=> m \in foResults
    /\ foPhase = "read" /\ ~foReplaced /\ FORuns => foCurrent = foSelector.now

\* A list of members is a sequence of tags with a first one.
LEMMA FOListFacts ==
  ASSUME FailoverAssumption, NEW l \in MemberLists
  PROVE  /\ l \in Seq(FOTags) /\ l \in Seq(FOAnyTag) /\ l # <<>> /\ l[1] \in FOTags
         /\ DOMAIN l = 1..Len(l) /\ Len(l) \in Nat /\ FOIn(l) \subseteq FOTags
<1>1. l \in Seq(FOTags) /\ Len(l) > 0
  BY DEF FailoverAssumption
<1>2. DOMAIN l = 1..Len(l) /\ Len(l) \in Nat
  BY <1>1, LenProperties
<1>3. \A i \in 1..Len(l) : l[i] \in FOTags
  BY <1>1, ElementOfSeq
<1>4. l \in Seq(FOAnyTag)
  <2>1. FOTags \subseteq FOAnyTag
    BY DEF FOAnyTag
  <2> QED BY <1>1, <2>1, SeqMonotonic
<1> QED BY <1>1, <1>2, <1>3, <1>4, EmptySeq DEF FOIn

\* The first member of a list that is in a set, when there is one.
LEMMA FOFirstFacts ==
  ASSUME FailoverAssumption, NEW l \in MemberLists, NEW ok, FOIn(l) \cap ok # {}
  PROVE  FOFirst(l, ok) \in FOIn(l) \cap ok
<1>1. DOMAIN l = 1..Len(l) /\ Len(l) \in Nat
  BY FOListFacts
<1> DEFINE Good == {i \in 1..Len(l) : l[i] \in ok}
<1>2. Good \subseteq Nat /\ Good # {}
  BY <1>1 DEF FOIn
<1>3. PICK i \in Good : \A j \in Good : i <= j
  <2> HIDE DEF Good
  <2> QED BY <1>2, AWLeastExists
<1>4. i \in DOMAIN l /\ l[i] \in ok /\ \A j \in 1..(i - 1) : l[j] \notin ok
  BY <1>1, <1>3
<1>5. LET n == CHOOSE n \in DOMAIN l : l[n] \in ok /\ \A j \in 1..(n - 1) : l[j] \notin ok
      IN  n \in DOMAIN l /\ l[n] \in ok
  BY <1>4
<1> QED BY <1>5 DEF FOFirst, FOIn

\* The selector that a started core has.
LEMMA FOAssembledFacts ==
  ASSUME FailoverAssumption, NEW l \in MemberLists
  PROVE  FOAssembled(l) \in Seq(FOAnyTag)
<1>1. l \in Seq(FOAnyTag) /\ Direct \in FOAnyTag
  BY FOListFacts DEF FOAnyTag
<1>2. Append(l, Direct) \in Seq(FOAnyTag)
  BY <1>1, AppendProperties
<1> QED BY <1>1, <1>2 DEF FOAssembled

LEMMA FOInitInv == ASSUME FailoverAssumption, FOInit PROVE FOInv
<1>1. foMembers \in MemberLists
  BY DEF FOInit
<1>2. foMembers[1] \in FOTags /\ FOAssembled(foMembers) \in Seq(FOAnyTag)
  BY <1>1, FOListFacts, FOAssembledFacts
<1>3. foSelector \in [members : Seq(FOAnyTag), now : FOAnyTag]
  BY <1>2 DEF FOInit, FOAnyTag
<1>4. 0 \in 0..Hysteresis /\ 0 \in 0..MaxOutages
  BY DEF FailoverAssumption
<1>5. FOTypeOK
  BY <1>1, <1>3, <1>4 DEF FOInit, FOTypeOK, FOAnyTag
<1> QED BY <1>3, <1>5 DEF FOInit, FOInv

\* What the properties say of the decision.
FOMove ==
    /\ foResults # {} => foSelector'.now \in foResults
    /\ foCurrent \in foResults => FOConfirmed(foCurrent)
    /\ foSelector.now \in foResults => FOConfirmed(foSelector.now) \/ foReplaced

\* What the decision does to the selector.
LEMMA FODecideFacts ==
  ASSUME FailoverAssumption, FOInv, FODecide
  PROVE  /\ foSelector' \in [members : Seq(FOAnyTag), now : FOAnyTag]
         /\ foSelector' # foSelector => FOMove
<1> DEFINE l == foGroup.members
           up == {m \in FOIn(l) : foRun[m] >= 1}
           confirmed == {m \in FOIn(l) : foRun[m] >= Hysteresis}
<1>0. /\ foSelector \in [members : Seq(FOAnyTag), now : FOAnyTag] /\ foPhase = "read"
      /\ l \in MemberLists /\ foResults \subseteq FOIn(l)
      /\ \A m \in FOIn(l) : foRun[m] >= 1 <=> m \in foResults
  BY DEF FOInv, FODecide
<1>1. FOIn(l) \subseteq FOTags
  BY <1>0, FOListFacts
<1>2. CASE ~FOSwitched
  BY <1>0, <1>2 DEF FODecide
<1>3. CASE FOSwitched
  <2>1. foSelector' = [members |-> foSelector.members, now |-> FOTarget]
    BY <1>0, <1>3 DEF FODecide
  <2>2. DOMAIN foSelector.members = 1..Len(foSelector.members)
    BY <1>0, LenProperties
  <2>3. \A i \in 1..Len(foSelector.members) : foSelector.members[i] \in FOAnyTag
    BY <1>0, ElementOfSeq
  <2>4. FOTarget \in FOAnyTag /\ foSelector.members # <<>> /\ FOTarget # foCurrent
    BY <1>3, <2>2, <2>3 DEF FOSwitched, FOIn
  <2>5. ~foReplaced => foCurrent = foSelector.now
    BY <1>0, <2>4 DEF FORuns, FOInv
  <2>6. up = foResults
    BY <1>0
  <2>7. FOTarget = IF up = {} THEN IF foGroup.fallback # "" THEN foGroup.fallback ELSE l[1]
                   ELSE IF foCurrent \notin up THEN FOFirst(l, up)
                   ELSE IF /\ confirmed # {}
                           /\ FOIndex(l, FOFirst(l, confirmed)) < FOIndex(l, foCurrent)
                        THEN FOFirst(l, confirmed)
                   ELSE foCurrent
    BY DEF FOTarget, FOSelect
  <2>8. ASSUME foCurrent \in foResults
        PROVE  /\ FOIndex(l, FOTarget) < FOIndex(l, foCurrent)
               /\ foRun[FOTarget] = Hysteresis /\ FOTarget \in foResults
    <3>1. foCurrent \in up
      BY <2>6, <2>8
    <3> HIDE DEF up
    <3>4. /\ confirmed # {} /\ FOTarget = FOFirst(l, confirmed)
          /\ FOIndex(l, FOFirst(l, confirmed)) < FOIndex(l, foCurrent)
      <4> HIDE DEF confirmed, l
      <4> QED BY <3>1, <2>4, <2>7
    <3>5. FOFirst(l, confirmed) \in FOIn(l) \cap confirmed
      <4>1. FOIn(l) \cap confirmed # {}
        BY <3>4
      <4> HIDE DEF confirmed, l
      <4> QED BY <1>0, <4>1, FOFirstFacts
    <3>6. FOTarget \in FOIn(l) /\ FOTarget \in FOTags /\ foRun[FOTarget] >= Hysteresis
      BY <1>1, <3>4, <3>5
    <3>7. foRun[FOTarget] \in 0..Hysteresis /\ Hysteresis \in Nat \ {0}
      BY <3>6 DEF FOInv, FOTypeOK, FailoverAssumption
    <3>8. FOTarget \in foResults
      BY <1>0, <3>6, <3>7
    <3> QED BY <3>4, <3>6, <3>7, <3>8
  <2>9. ASSUME foCurrent \notin foResults, foResults # {}
        PROVE  FOTarget \in foResults
    <3>1. FOIn(l) \cap foResults # {}
      BY <1>0, <2>9
    <3>2. FOFirst(l, foResults) \in foResults
      <4> HIDE DEF l
      <4> QED BY <1>0, <3>1, FOFirstFacts
    <3>3. FOTarget = FOFirst(l, up)
      <4> HIDE DEF up, confirmed, l
      <4> QED BY <2>6, <2>7, <2>9
    <3> QED BY <2>6, <3>2, <3>3
  <2>10. /\ foResults # {} => foSelector'.now \in foResults
         /\ foCurrent \in foResults => FOConfirmed(foCurrent)
    BY <2>1, <2>8, <2>9 DEF FOConfirmed
  <2>11. foSelector.now \in foResults => FOConfirmed(foSelector.now) \/ foReplaced
    BY <2>5, <2>10
  <2>12. foSelector' \in [members : Seq(FOAnyTag), now : FOAnyTag]
    BY <1>0, <2>1, <2>4
  <2> QED BY <2>10, <2>11, <2>12 DEF FOMove
<1> QED BY <1>2, <1>3

LEMMA FONextInv ==
  ASSUME FailoverAssumption, FOInv, [FONext]_foVars
  PROVE  FOInv'
<1>0. /\ FOTypeOK /\ foSelector \in [members : Seq(FOAnyTag), now : FOAnyTag]
      /\ Hysteresis \in Nat \ {0} /\ MaxOutages \in Nat
  BY DEF FOInv, FailoverAssumption
<1>1. ASSUME NEW m \in FOTags, FOChange(m) PROVE FOInv'
  <2>1. /\ foUp' \subseteq FOTags /\ foOutages' \in 0..MaxOutages
        /\ UNCHANGED <<foMembers, foEnabled, foDirect, foGroup, foResults, foPhase, foCurrent,
                       foReplaced, foSelector, foRun, foAllDown>>
    <3>1. foUp \subseteq FOTags /\ foOutages \in 0..MaxOutages
      BY <1>0 DEF FOTypeOK
    <3>2. foUp' \subseteq FOTags
      BY <1>1, <3>1 DEF FOChange
    <3>3. foOutages' \in 0..MaxOutages
      BY <1>0, <1>1, <3>1 DEF FOChange
    <3> QED BY <1>1, <3>2, <3>3 DEF FOChange, foConfig, foCycle
  <2>2. FOTypeOK'
    BY <1>0, <2>1 DEF FOTypeOK
  <2> QED BY <2>1, <2>2 DEF FOInv, FORuns
<1>2. CASE FOEdit
  <2>1. /\ foOutages' = foOutages + 1 /\ foOutages < MaxOutages
        /\ UNCHANGED <<foGroup, foResults, foPhase, foSelector, foUp, foRun, foAllDown,
                        foCurrent, foReplaced>>
    BY <1>2 DEF FOEdit, foCycle
  <2>2. foMembers' \in MemberLists \cup {<<>>} /\ foEnabled' \in BOOLEAN /\ foDirect' \in BOOLEAN
    BY <1>0, <1>2 DEF FOEdit, FOTypeOK
  <2>3. foOutages' \in 0..MaxOutages
    <3>1. foOutages \in 0..MaxOutages
      BY <1>0 DEF FOTypeOK
    <3> QED BY <1>0, <2>1, <3>1
  <2>4. FOTypeOK'
    BY <1>0, <2>1, <2>2, <2>3 DEF FOTypeOK
  <2> QED BY <2>1, <2>4 DEF FOInv, FORuns
<1>3. CASE FORestartCore
  <2>1. foMembers \in MemberLists
    BY <1>0, <1>3 DEF FORestartCore, FOOutdated, FOTypeOK
  <2>2. foMembers[1] \in FOTags /\ FOAssembled(foMembers) \in Seq(FOAnyTag)
    BY <2>1, FOListFacts, FOAssembledFacts
  <2>3. foSelector' \in [members : Seq(FOAnyTag), now : FOAnyTag] /\ foSelector'.now \in FOTags \cup {Direct}
    BY <1>3, <2>2 DEF FORestartCore, FOAnyTag
  <2> QED BY <1>0, <1>3, <2>3 DEF FORestartCore, FOInv, FOTypeOK, foConfig, foCycle
<1>4. CASE FORestartCached
  <2>1. foMembers \in MemberLists
    BY <1>0, <1>4 DEF FORestartCached, FOOutdated, FOTypeOK
  <2>2. FOAssembled(foMembers) \in Seq(FOAnyTag)
    BY <2>1, FOAssembledFacts
  <2>3. foSelector' \in [members : Seq(FOAnyTag), now : FOAnyTag] /\ foSelector'.now = foSelector.now
    BY <1>0, <1>4, <2>2 DEF FORestartCached
  <2> QED BY <1>0, <1>4, <2>3 DEF FORestartCached, FOInv, FOTypeOK, foConfig, foCycle
<1>5. CASE FOStopCore
  <2>1. <<>> \in Seq(FOAnyTag)
    BY EmptySeq
  <2>2. foSelector' \in [members : Seq(FOAnyTag), now : FOAnyTag] /\ foSelector'.now = foSelector.now
    BY <1>0, <1>5, <2>1 DEF FOStopCore
  <2>3. /\ foOutages' = foOutages + 1 /\ foOutages < MaxOutages
        /\ foReplaced' = (foPhase = "read") /\ foSelector'.members = <<>>
        /\ UNCHANGED <<foMembers, foEnabled, foDirect, foGroup, foResults, foPhase, foCurrent,
                       foUp, foRun, foAllDown>>
    BY <1>0, <1>5 DEF FOStopCore, foConfig, foCycle
  <2>4. foOutages' \in 0..MaxOutages
    <3>1. foOutages \in 0..MaxOutages
      BY <1>0 DEF FOTypeOK
    <3> QED BY <1>0, <2>3, <3>1
  <2>5. FOTypeOK'
    <3>1. foReplaced' \in BOOLEAN
      BY <2>3
    <3> QED BY <1>0, <2>2, <2>3, <2>4, <3>1 DEF FOTypeOK
  <2> QED BY <2>2, <2>3, <2>5 DEF FOInv, FORuns
<1>6. CASE FOBegin
  <2>1. foMembers \in MemberLists /\ foGroup'.members = foMembers
    BY <1>0, <1>6 DEF FOBegin, FOTypeOK
  <2> QED BY <1>0, <1>6, <2>1 DEF FOBegin, FOInv, FOTypeOK, foConfig
<1>7. CASE FOPrune
  BY <1>0, <1>7 DEF FOPrune, FOInv, FOTypeOK, foConfig, foCycle
<1>8. CASE FOProbe
  <2> DEFINE l == foGroup.members
  <2>1. l \in MemberLists /\ foGroup' = foGroup
    BY <1>8 DEF FOInv, FOProbe
  <2>2. FOIn(l) \subseteq FOTags
    BY <2>1, FOListFacts
  <2>3. foResults' \subseteq FOIn(l) /\ foResults' \subseteq FOTags
    BY <1>8, <2>2 DEF FOProbe
  <2>4. \A m \in FOTags : foRun[m] \in 0..Hysteresis
    BY <1>0 DEF FOTypeOK
  <2>5. foRun' \in [FOTags -> 0..Hysteresis]
    BY <1>0, <1>8, <2>4 DEF FOProbe
  <2>6. \A m \in FOIn(l) : foRun'[m] >= 1 <=> m \in foResults'
    BY <1>0, <1>8, <2>2, <2>4 DEF FOProbe
  <2> QED BY <1>0, <1>8, <2>1, <2>3, <2>5, <2>6 DEF FOProbe, FOInv, FOTypeOK, foConfig
<1>9. CASE FORead
  <2>1. foCurrent' \in FOTags \cup {Direct, ""}
    BY <1>0, <1>9 DEF FORead, FOTypeOK
  <2> QED BY <1>0, <1>9, <2>1 DEF FORead, FOInv, FOTypeOK, FORuns, foConfig
<1>10. CASE FODecide
  <2>1. foSelector' \in [members : Seq(FOAnyTag), now : FOAnyTag]
    BY <1>10, FODecideFacts
  <2>2. foSelector'.now \in FOTags \cup {Direct}
    BY <2>1 DEF FOAnyTag
  <2> QED BY <1>0, <1>10, <2>1, <2>2 DEF FODecide, FOInv, FOTypeOK, foConfig
<1>11. CASE UNCHANGED foVars
  BY <1>0, <1>11 DEF FOInv, FOTypeOK, FORuns, foVars, foConfig, foCycle
<1>12. CASE FONext
  BY <1>1, <1>2, <1>3, <1>4, <1>5, <1>6, <1>7, <1>8, <1>9, <1>10, <1>12 DEF FONext
<1> QED BY <1>11, <1>12

\* Traffic leaves a member that works only for a senior one that has passed the
\* last Hysteresis probes (failover_select.go), for any lists of members and any
\* hysteresis, whatever is edited in the middle of a cycle; only a core stopped
\* or started between the reading of the active member and the switch is moved
\* by a decision about its predecessor.
THEOREM GroupsAreCalm == FOSpec => FOStaysCalm
<1>1. FOInit => FOInv
  BY FailoverAssumption, FOInitInv
<1>2. FOInv /\ [FONext]_foVars => FOInv'
  BY FailoverAssumption, FONextInv
<1>3. FOInv => FOTypeOK
  BY DEF FOInv
<1>4. FOInv /\ [FONext]_foVars => [FODecide /\ foSelector' # foSelector => FOMove]_foVars
  BY FailoverAssumption, FODecideFacts
<1> QED BY <1>1, <1>2, <1>3, <1>4, PTL DEF FOSpec, FOStaysCalm, FONoFlap, FOMove

-----------------------------------------------------------------------------
(* The composition.  One part moves at a time and the others stutter.      *)

\* What the parts promise of every step, they promise in the composition.
THEOREM ServicesAreSafe ==
  ServicesFairSpec => /\ []SDClaimIsExact /\ AuditIsKept /\ []TUUsesAreKept
                      /\ []RTClientsAreAccounted /\ FOStaysCalm
<1>1. ServicesInit => SDInit /\ Init /\ TUInit /\ RTInit /\ FOInit
  BY DEF ServicesInit
<1>2. [ServicesNext]_servicesVars =>
        /\ [SDNext]_sdVars /\ [Next]_vars /\ [TUNext]_tuVars /\ [RTNext]_rtVars /\ [FONext]_foVars
  BY DEF ServicesNext, servicesVars
<1>3. ServicesFairSpec => SDSpec /\ Spec /\ TUSpec /\ RTSpec /\ FOSpec
  BY <1>1, <1>2, PTL DEF ServicesFairSpec, ServicesSpec, SDSpec, Spec, TUSpec, RTSpec, FOSpec
<1> QED BY <1>3, ClaimIsExact, EventsAreKept, UsesAreKept, ClientsAreAccounted, GroupsAreCalm, PTL
=============================================================================

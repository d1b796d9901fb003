--------------------------- MODULE ClientQuotaProofs ---------------------------
(***************************************************************************)
(* Theorems about ClientQuota, for any browsers, limits, periods and       *)
(* bounds on the inputs.                                                   *)
(*                                                                         *)
(* NeverOvercharged is not inductive alone: a save puts a form in place of *)
(* the row, so the forms that are open must satisfy it too.  Nor is        *)
(* CoreAgrees: what a start, the inbound and the last reload have read is  *)
(* out of date only while somebody still has to read.                      *)
(***************************************************************************)
EXTENDS ClientQuota, TLAPS

FormsBounded ==
    \A b \in Browsers :
        form[b] # NoForm => Usage(form[b]) + counter + taken <= used

Inv == TypeOK /\ NeverOvercharged /\ FormsBounded /\ TrafficIsAccounted

----------------------------------------------------------------------------
(* What the operators of the deplete pass and of the forms do to a row. *)

\* A pass of the deplete job moves usage between the columns and changes no sum.
LEMMA StartPeriodFacts ==
    ASSUME NEW r \in Row, today \in Nat
    PROVE  /\ StartPeriod(r) \in Row
           /\ Usage(StartPeriod(r)) = Usage(r)
           /\ StartPeriod(r).enable = r.enable
<1>1. ResetPeriod(r.resetDays) \in Nat
  BY DEF ResetPeriod, Row
<1>2. CASE FirstUse(r) /\ r.autoReset
  <2>1. StartPeriod(r) = [r EXCEPT !.delayStart = FALSE,
                            !.nextReset = today + ResetPeriod(r.resetDays)]
    BY <1>2 DEF StartPeriod
  <2>2. today + ResetPeriod(r.resetDays) \in Nat
    BY <1>1
  <2> QED BY <2>1, <2>2 DEF Row, Usage
<1>3. CASE FirstUse(r) /\ ~r.autoReset
  <2>1. StartPeriod(r) = [r EXCEPT !.delayStart = FALSE,
                                   !.expiry = today + r.resetDays]
    BY <1>3 DEF StartPeriod
  <2>2. today + r.resetDays \in Nat
    BY DEF Row
  <2> QED BY <2>1, <2>2 DEF Row, Usage
<1>4. CASE ~FirstUse(r)
  BY <1>4 DEF StartPeriod, Usage
<1> QED BY <1>2, <1>3, <1>4

\* A reset moves the counter to the total and keeps their sum.
LEMMA ResetFacts ==
    ASSUME NEW r \in Row, today \in Nat
    PROVE  /\ Reset(r) \in Row
           /\ Usage(Reset(r)) = Usage(r)
           /\ ~ResetDue(r) => Reset(r) = r
<1>1. ResetPeriod(r.resetDays) \in Nat
  BY DEF ResetPeriod, Row
<1>2. CASE ResetDue(r)
  <2> DEFINE sum  == r.total + r.up
             next == today + ResetPeriod(r.resetDays)
  <2>1. Reset(r) = [r EXCEPT !.total = sum, !.up = 0, !.enable = TRUE,
                             !.nextReset = next]
    BY <1>2 DEF Reset
  <2>2. sum \in Nat /\ next \in Nat
    BY <1>1 DEF Row
  <2>3. Reset(r) \in Row /\ Reset(r).total = sum /\ Reset(r).up = 0
    <3> HIDE DEF sum, next
    <3>1. [r EXCEPT !.total = sum, !.up = 0, !.enable = TRUE,
                    !.nextReset = next] \in Row
      BY <2>2 DEF Row
    <3>2. Reset(r).total = sum /\ Reset(r).up = 0
      BY <2>1 DEF Row
    <3> QED BY <2>1, <3>1, <3>2
  <2> QED BY <1>2, <2>3 DEF Row, Usage
<1>3. CASE ~ResetDue(r)
  BY <1>3 DEF Reset, Usage
<1> QED BY <1>2, <1>3

\* The whole pass keeps the row typed and the sum of the counters.
LEMMA DepletePassFacts ==
    ASSUME NEW r \in Row, today \in Nat
    PROVE  /\ DepletePass(r) \in Row
           /\ Usage(DepletePass(r)) = Usage(r)
           /\ ~NeedsReload(r) => DepletePass(r).enable = r.enable
<1> DEFINE s == Reset(StartPeriod(r))
<1>1. s \in Row /\ Usage(s) = Usage(r)
  BY StartPeriodFacts, ResetFacts
<1>2. /\ DepletePass(r) \in Row
      /\ Usage(DepletePass(r)) = Usage(s)
      /\ DepletePass(r).enable = (s.enable /\ ~Depleted(s))
  <2>1. Depleted(s) \in BOOLEAN
    BY DEF Depleted
  <2> HIDE DEF s
  <2>2. Disable(s) \in Row /\ Usage(Disable(s)) = Usage(s)
          /\ Disable(s).enable = (s.enable /\ ~Depleted(s))
    BY <1>1, <2>1 DEF Disable, Row, Usage
  <2> QED BY <2>2 DEF DepletePass, s
<1>3. ASSUME ~NeedsReload(r) PROVE DepletePass(r).enable = r.enable
  <2>1. CASE ResetDue(StartPeriod(r))
    <3>1. r.enable
      BY <1>3, <2>1 DEF NeedsReload
    <3>2. s.enable
      BY <2>1, StartPeriodFacts DEF Reset, Row
    <3>3. DepletePass(r).enable
      BY <1>3, <3>2 DEF NeedsReload
    <3>4. r.enable \in BOOLEAN /\ DepletePass(r).enable \in BOOLEAN
      BY <1>2 DEF Row
    <3> QED BY <3>1, <3>3, <3>4
  <2>2. CASE ~ResetDue(StartPeriod(r))
    <3>1. s.enable = r.enable
      BY <2>2, StartPeriodFacts, ResetFacts
    <3>2. s.enable => DepletePass(r).enable
      BY <1>3 DEF NeedsReload
    <3>3. DepletePass(r).enable => s.enable
      BY <1>2
    <3>4. r.enable \in BOOLEAN /\ DepletePass(r).enable \in BOOLEAN
      BY <1>2 DEF Row
    <3> QED BY <3>1, <3>2, <3>3, <3>4
  <2> QED BY <2>1, <2>2
<1> QED BY <1>1, <1>2, <1>3

SameReset(q, r) == q.nextReset = r.nextReset /\ q.delayStart = r.delayStart

\* What a user does in a form keeps the sum of the counters of the form, and the
\* next reset.
LEMMA EditsFacts ==
    ASSUME NEW r \in Row, NEW q \in Edits(r)
    PROVE  q \in Row /\ Usage(q) = Usage(r) /\ SameReset(q, r)
<1>1. Sent(r) \in Row /\ Usage(Sent(r)) = Usage(r) /\ SameReset(Sent(r), r)
  <2>1. CASE r.delayStart /\ ~r.autoReset
    <3>1. [r EXCEPT !.expiry = 0] \in Row
      BY DEF Row
    <3>2. Sent(r) = [r EXCEPT !.expiry = 0]
      BY <2>1 DEF Sent
    <3>3. Usage(Sent(r)) = Usage(r) /\ SameReset(Sent(r), r)
      BY <3>2 DEF Row, Usage, SameReset
    <3> QED BY <3>1, <3>2, <3>3
  <2>2. CASE ~(r.delayStart /\ ~r.autoReset)
    BY <2>2 DEF Sent, SameReset
  <2> QED BY <2>1, <2>2
<1>2. ASSUME NEW p \in Row
      PROVE  /\ ResetUsage(p) \in Row
             /\ Usage(ResetUsage(p)) = Usage(p)
             /\ SameReset(ResetUsage(p), p)
  <2> DEFINE sum == p.total + p.up
  <2>1. ResetUsage(p) = [p EXCEPT !.total = sum, !.up = 0] /\ sum \in Nat
    BY DEF ResetUsage, Row
  <2>2. ResetUsage(p).total = sum /\ ResetUsage(p).up = 0
    <3> HIDE DEF sum
    <3> QED BY <2>1 DEF Row
  <2>3. [p EXCEPT !.total = sum, !.up = 0] \in Row
    <3> HIDE DEF sum
    <3> QED BY <2>1 DEF Row
  <2>4. SameReset(ResetUsage(p), p)
    BY <2>1 DEF SameReset, Row
  <2> QED BY <2>1, <2>2, <2>3, <2>4 DEF Usage, Row
<1>3. ASSUME NEW p \in Row, NEW on \in BOOLEAN
      PROVE  LET s == [p EXCEPT !.enable = on]
             IN  s \in Row /\ Usage(s) = Usage(p) /\ SameReset(s, p)
  BY DEF Row, Usage, SameReset
<1>4. PICK p \in {Sent(r), ResetUsage(Sent(r))}, on \in BOOLEAN :
          q = [p EXCEPT !.enable = on]
  BY DEF Edits
<1>5. p \in Row /\ Usage(p) = Usage(r) /\ SameReset(p, r)
  BY <1>1, <1>2 DEF SameReset
<1> QED BY <1>3, <1>4, <1>5 DEF SameReset

\* A bulk edit keeps the sum of the counters of the form, and the next reset.
LEMMA ChangeLimitsFacts ==
    ASSUME NEW r \in Row, NEW q \in ChangeLimits(r), today \in Nat
    PROVE  q \in Row /\ Usage(q) = Usage(r) /\ SameReset(q, r)
<1> DEFINE raised == {[r EXCEPT !.volume = Raise(@, v), !.expiry = Raise(@, d)]
                        : v \in 0..1, d \in 0..1}
<1>1. ASSUME NEW p \in raised
      PROVE  p \in Row /\ Usage(p) = Usage(r) /\ SameReset(p, r)
  <2>1. PICK v \in 0..1, d \in 0..1 :
            p = [r EXCEPT !.volume = Raise(r.volume, v),
                          !.expiry = Raise(r.expiry, d)]
    BY DEF Row
  <2> DEFINE volume == Raise(r.volume, v)
             expiry == Raise(r.expiry, d)
  <2>2. volume \in Nat /\ expiry \in Nat
    BY DEF Raise, Row
  <2>3. p \in Row /\ p.up = r.up /\ p.total = r.total /\ SameReset(p, r)
    <3>1. p = [r EXCEPT !.volume = volume, !.expiry = expiry]
      BY <2>1
    <3> HIDE DEF volume, expiry, raised
    <3>2. [r EXCEPT !.volume = volume, !.expiry = expiry] \in Row
      BY <2>2 DEF Row
    <3>3. p.up = r.up /\ p.total = r.total
      BY <3>1 DEF Row
    <3>4. SameReset(p, r)
      BY <3>1 DEF Row, SameReset
    <3> QED BY <3>1, <3>2, <3>3, <3>4
  <2> QED BY <2>3 DEF Usage
<1>2. q \in raised \/ \E p \in raised : q = [p EXCEPT !.enable = Within(p)]
  BY DEF ChangeLimits
<1>3. ASSUME NEW p \in raised, q = [p EXCEPT !.enable = Within(p)]
      PROVE  q \in Row /\ Usage(q) = Usage(r) /\ SameReset(q, r)
  <2>1. Within(p) \in BOOLEAN
    BY DEF Within
  <2>2. p \in Row /\ Usage(p) = Usage(r) /\ SameReset(p, r)
    BY <1>1, <1>3
  <2> HIDE DEF raised
  <2>3. q \in Row /\ q.up = p.up /\ q.total = p.total
    BY <1>3, <2>1, <2>2 DEF Row
  <2>4. SameReset(q, p)
    BY <1>3, <2>2 DEF Row, SameReset
  <2> QED BY <2>2, <2>3, <2>4 DEF Usage, SameReset
<1> QED BY <1>1, <1>2, <1>3

\* A renewal keeps the sum of the counters and enables the client.
LEMMA RenewalFacts ==
    ASSUME NEW r \in Row, NEW days \in 0..1, NEW traffic \in 0..1, today \in Nat
    PROVE  LET s == [Refill(Extend(r, days), traffic) EXCEPT !.enable = TRUE]
           IN  s \in Row /\ Usage(s) = Usage(r) /\ s.enable
<1> DEFINE x == Extend(r, days)
           y == Refill(x, traffic)
<1>1. x \in Row /\ Usage(x) = Usage(r)
  <2>1. CASE days > 0
    <3> DEFINE expiry == days + (IF r.expiry < today THEN today ELSE r.expiry)
    <3>1. x = [r EXCEPT !.expiry = expiry]
      BY <2>1 DEF Extend
    <3>2. expiry \in Nat
      BY DEF Row
    <3> HIDE DEF expiry, x
    <3>3. [r EXCEPT !.expiry = expiry] \in Row
      BY <3>2 DEF Row
    <3>4. x.up = r.up /\ x.total = r.total
      BY <3>1 DEF Row
    <3> QED BY <3>1, <3>3, <3>4 DEF Usage
  <2>2. CASE ~(days > 0)
    BY <2>2 DEF Extend
  <2> QED BY <2>1, <2>2
<1>2. ASSUME NEW q \in Row
      PROVE  Refill(q, traffic) \in Row /\ Usage(Refill(q, traffic)) = Usage(q)
  <2>1. CASE traffic > 0
    <3> DEFINE volume == q.volume + traffic
               sum    == q.total + q.up
    <3>1. Refill(q, traffic) = [q EXCEPT !.volume = volume, !.total = sum,
                                         !.up = 0]
      BY <2>1 DEF Refill
    <3>2. volume \in Nat /\ sum \in Nat
      BY DEF Row
    <3>3. /\ [q EXCEPT !.volume = volume, !.total = sum, !.up = 0] \in Row
          /\ Refill(q, traffic).total = sum
          /\ Refill(q, traffic).up = 0
      <4> HIDE DEF volume, sum, x, y
      <4>1. [q EXCEPT !.volume = volume, !.total = sum, !.up = 0] \in Row
        BY <3>2 DEF Row
      <4>2. Refill(q, traffic).total = sum /\ Refill(q, traffic).up = 0
        BY <3>1 DEF Row
      <4> QED BY <4>1, <4>2
    <3>4. Usage(Refill(q, traffic)) = Usage(q)
      BY <3>3 DEF Usage, Row
    <3> QED BY <3>1, <3>3, <3>4
  <2>2. CASE ~(traffic > 0)
    BY <2>2 DEF Refill
  <2> QED BY <2>1, <2>2
<1>3. y \in Row /\ Usage(y) = Usage(x)
  BY <1>1, <1>2
<1>4. ASSUME NEW q \in Row
      PROVE  LET s == [q EXCEPT !.enable = TRUE]
             IN  s \in Row /\ Usage(s) = Usage(q) /\ s.enable
  BY DEF Row, Usage
<1> HIDE DEF x
<1> QED BY <1>1, <1>3, <1>4 DEF x

----------------------------------------------------------------------------
(* The invariant. *)

\* The invariant holds of a new client.
LEMMA InitInv == Init => Inv
<1> SUFFICES ASSUME Init PROVE Inv
  OBVIOUS
<1>1. row \in Row /\ Usage(row) = 0
  <2>1. row \in [enable : {TRUE}, up : {0}, total : {0}, volume : Volumes,
                 expiry : Expiries, delayStart : BOOLEAN, autoReset : BOOLEAN,
                 resetDays : Periods, nextReset : {0}]
    BY DEF Init, FirstRows
  <2>2. row.up = 0 /\ row.total = 0
    BY <2>1
  <2>3. /\ {TRUE} \subseteq BOOLEAN /\ {0} \subseteq Nat
        /\ Volumes \subseteq Nat /\ Expiries \subseteq Nat
        /\ Periods \subseteq Nat
    BY QuotaAssumption
  <2>4. row \in Row
    BY <2>1, <2>3, Zenon DEF Row
  <2> QED BY <2>2, <2>4 DEF Usage
<1>2. TypeOK
  BY <1>1 DEF Init, TypeOK, Row, On
<1>3. NeverOvercharged /\ FormsBounded /\ TrafficIsAccounted
  BY <1>1 DEF Init, NeverOvercharged, FormsBounded, TrafficIsAccounted
<1> QED BY <1>2, <1>3 DEF Inv

\* A save replaces the row by a row with the sum of the counters of the form.
LEMMA SaveInv ==
    ASSUME Inv, NEW b \in Browsers, NEW r \in Row,
           Usage(r) = Usage(form[b]), SaveClient(b, r)
    PROVE  Inv'
<1> USE DEF Inv
<1>1. TypeOK'
  BY DEF SaveClient, TypeOK, Reloaders, inputs
<1>2. form[b] \in Row /\ form[b] # NoForm
  BY DEF SaveClient, TypeOK
<1>3. NeverOvercharged'
  BY <1>2 DEF SaveClient, NeverOvercharged, FormsBounded, inputs, Usage, TypeOK
<1>4. FormsBounded'
  BY DEF SaveClient, FormsBounded, inputs, TypeOK, Usage
<1>5. TrafficIsAccounted'
  BY DEF SaveClient, TrafficIsAccounted, inputs, Usage, TypeOK
<1> QED BY <1>1, <1>3, <1>4, <1>5

\* A stop of the core may throw traffic away, which is then known.
LEMMA StopInv ==
    ASSUME Inv, CoreStops,
           reloading' \subseteq Reloaders,
           held' \in [Reloaders -> {"none", "removed", "on", "off"}],
           faults' \in Nat,
           UNCHANGED <<row, form, today, taken, used, edits, renewals, clobbered,
                       lastReset>>
    PROVE  Inv'
<1> USE DEF Inv
<1>1. row \in Row /\ Usage(row) \in Nat
      /\ \A b \in Browsers : form[b] # NoForm => Usage(form[b]) \in Nat
  BY DEF TypeOK, Row, Usage
<1>2. row.enable \in BOOLEAN /\ (counter > 0) \in BOOLEAN
  BY <1>1 DEF Row, TypeOK
<1>3. startUsers' \in BOOLEAN /\ dropped' \in BOOLEAN
  BY <1>2, Zenon DEF CoreStops, TypeOK
<1>4. /\ core' \in {"down", "bare", "on", "off"} /\ counter' \in Nat
      /\ latest' \in Reloaders \cup {"core"}
      /\ missed' \in {"none", "failed", "skipped", "overtaken"}
  BY DEF CoreStops
<1>5. TypeOK'
  BY <1>3, <1>4 DEF TypeOK
<1>6. NeverOvercharged' /\ FormsBounded'
  BY <1>1 DEF CoreStops, NeverOvercharged, FormsBounded, TypeOK
<1>7. TrafficIsAccounted'
  <2>1. CASE counter > 0
    BY <2>1 DEF CoreStops, TrafficIsAccounted
  <2>2. CASE ~(counter > 0)
    <3>1. counter' = counter /\ (~dropped' => ~dropped)
      BY <2>2 DEF CoreStops, TypeOK
    <3> QED BY <3>1 DEF TrafficIsAccounted
  <2> QED BY <2>1, <2>2
<1> QED BY <1>5, <1>6, <1>7

\* A reload leaves the traffic alone, unless it ends in a restart.
LEMMA ReloadInv ==
    ASSUME Inv, NEW a \in Reloaders, ReloadStep(a)
    PROVE  Inv'
<1> USE DEF Inv
<1>1. Done(a) => /\ reloading' \subseteq Reloaders
                 /\ held' \in [Reloaders -> {"none", "removed", "on", "off"}]
  BY DEF Done, TypeOK
<1>2. Refused(a) => faults' \in Nat
  BY DEF Refused, Fault, TypeOK
<1>3. CASE ReloadRestarts(a)
  <2>1. /\ Refused(a) /\ Done(a) /\ CoreStops
        /\ UNCHANGED <<row, form, today, taken, used, edits, renewals, clobbered,
                       lastReset>>
    BY <1>3, Zenon DEF ReloadRestarts
  <2> QED BY <1>1, <1>2, <2>1, StopInv
<1>4. ASSUME UNCHANGED <<reloadInputs, counter, dropped>>,
             core' \in {"down", "bare", "on", "off"},
             reloading' \subseteq Reloaders,
             held' \in [Reloaders -> {"none", "removed", "on", "off"}],
             latest' \in Reloaders \cup {"core"},
             missed' \in {"none", "failed", "skipped", "overtaken"},
             faults' \in Nat
      PROVE  Inv'
  <2>1. TypeOK'
    BY <1>4 DEF TypeOK, reloadInputs
  <2> QED BY <1>4, <2>1 DEF reloadInputs, NeverOvercharged, FormsBounded,
            TrafficIsAccounted
<1>5. CASE ReloadRemoves(a)
  <2>1. held' \in [Reloaders -> {"none", "removed", "on", "off"}]
    BY <1>5 DEF ReloadRemoves, TypeOK
  <2> QED BY <1>4, <1>5, <2>1 DEF ReloadRemoves, TypeOK
<1>6. CASE ReloadReads(a)
  <2>1. held' \in [Reloaders -> {"none", "removed", "on", "off"}]
    BY <1>6 DEF ReloadReads, TypeOK, On
  <2> QED BY <1>4, <1>6, <2>1 DEF ReloadReads, TypeOK
<1>7. CASE ReloadAdds(a)
  <2>1. core' \in {"down", "bare", "on", "off"} /\ Done(a)
    BY <1>7 DEF ReloadAdds, HasRead
  <2> QED BY <1>1, <1>4, <1>7, <2>1 DEF ReloadAdds, TypeOK
<1>8. CASE ReloadSkipped(a)
  BY <1>1, <1>4, <1>8 DEF ReloadSkipped, TypeOK
<1>9. CASE ReloadFails(a)
  BY <1>1, <1>2, <1>4, <1>9 DEF ReloadFails, TypeOK
<1> QED BY <1>3, <1>5, <1>6, <1>7, <1>8, <1>9 DEF ReloadStep

\* Every step keeps the invariant.
LEMMA NextInv == Inv /\ [Next]_vars => Inv'
<1> SUFFICES ASSUME Inv, [Next]_vars PROVE Inv'
  OBVIOUS
<1> USE DEF Inv
<1>a. row \in Row /\ today \in Nat /\ Usage(row) \in Nat
  BY DEF TypeOK, Row, Usage
<1>b. \A b \in Browsers : form[b] # NoForm => Usage(form[b]) \in Nat
  BY DEF TypeOK, Row, Usage
<1>1. CASE DayPasses
  <2>1. TypeOK'
    BY <1>1 DEF DayPasses, TypeOK, coreVars, inputs, ghosts
  <2> QED BY <1>1, <2>1 DEF DayPasses, inputs, ghosts, NeverOvercharged,
        FormsBounded, TrafficIsAccounted
<1>2. CASE Use
  <2>1. TypeOK'
    BY <1>2 DEF Use, TypeOK, coreVars, ghosts
  <2>2. NeverOvercharged' /\ FormsBounded'
    BY <1>2, <1>a, <1>b DEF Use, NeverOvercharged, FormsBounded, TypeOK
  <2>3. TrafficIsAccounted'
    BY <1>2, <1>a DEF Use, ghosts, TrafficIsAccounted, TypeOK
  <2> QED BY <2>1, <2>2, <2>3
<1>3. CASE GetStats
  <2>1. TypeOK'
    BY <1>3 DEF GetStats, TypeOK, coreVars, inputs, ghosts
  <2>2. NeverOvercharged' /\ FormsBounded'
    BY <1>3, <1>a, <1>b DEF GetStats, inputs, NeverOvercharged, FormsBounded,
        TypeOK
  <2>3. TrafficIsAccounted'
    BY <1>3, <1>a DEF GetStats, inputs, ghosts, TrafficIsAccounted, TypeOK
  <2> QED BY <2>1, <2>2, <2>3
<1>4. CASE SaveStats
  <2>1. /\ row' \in Row /\ Usage(row') = Usage(row) + taken
        /\ row'.enable = row.enable
    <3> DEFINE up == row.up + taken
    <3>1. row' = [row EXCEPT !.up = up] /\ up \in Nat
      BY <1>4, <1>a DEF SaveStats, TypeOK, Row
    <3>2. Usage(row) + taken = up + row.total
      BY <1>a DEF Usage, Row, TypeOK
    <3> HIDE DEF up
    <3>3. [row EXCEPT !.up = up] \in Row
      BY <1>a, <3>1 DEF Row
    <3>4. row'.up = up /\ row'.total = row.total /\ row'.enable = row.enable
      BY <1>a, <3>1 DEF Row
    <3> QED BY <3>1, <3>2, <3>3, <3>4 DEF Usage
  <2>2. TypeOK'
    BY <1>4, <2>1 DEF SaveStats, TypeOK, coreVars, inputs, ghosts
  <2>3. NeverOvercharged' /\ TrafficIsAccounted'
    BY <1>4, <1>a, <2>1 DEF SaveStats, inputs, ghosts, NeverOvercharged,
        TrafficIsAccounted, TypeOK
  <2>4. FormsBounded'
    BY <1>4, <1>b DEF SaveStats, inputs, FormsBounded, TypeOK
  <2> QED BY <2>2, <2>3, <2>4
<1>5. CASE SaveStatsFails
  <2>1. TypeOK'
    BY <1>5 DEF SaveStatsFails, Fault, TypeOK, coreVars
  <2>2. NeverOvercharged' /\ FormsBounded'
    BY <1>5, <1>a, <1>b DEF SaveStatsFails, NeverOvercharged, FormsBounded,
        TypeOK
  <2>3. TrafficIsAccounted'
    BY <1>5 DEF SaveStatsFails, TrafficIsAccounted
  <2> QED BY <2>1, <2>2, <2>3
<1>6. CASE RestartCore
  <2>1. Fault /\ CoreStops
    BY <1>6, Zenon DEF RestartCore
  <2>2. UNCHANGED <<row, form, today, taken, reloading, held, used, edits, renewals,
                    clobbered, lastReset>>
    BY <1>6, Zenon DEF RestartCore
  <2> QED BY <2>1, <2>2, StopInv DEF Fault, TypeOK
<1>7. CASE DepleteClients
  <2>1. row' \in Row /\ Usage(row') = Usage(row)
    BY <1>7, <1>a, DepletePassFacts DEF DepleteClients
  <2>2. TypeOK'
    BY <1>7, <2>1 DEF DepleteClients, TypeOK, Reloaders, inputs
  <2>3. NeverOvercharged' /\ FormsBounded'
    BY <1>7, <2>1 DEF DepleteClients, inputs, NeverOvercharged, FormsBounded
  <2>4. TrafficIsAccounted'
    BY <1>7, <2>1 DEF DepleteClients, inputs, TrafficIsAccounted
  <2> QED BY <2>2, <2>3, <2>4
<1>8. ASSUME NEW days \in 0..1, NEW traffic \in 0..1,
             ApplyPaidOrder(days, traffic)
      PROVE  Inv'
  <2>1. row' \in Row /\ Usage(row') = Usage(row)
    BY <1>8, <1>a, RenewalFacts DEF ApplyPaidOrder
  <2>2. TypeOK'
    BY <1>8, <2>1 DEF ApplyPaidOrder, TypeOK, Reloaders, ghosts
  <2>3. NeverOvercharged' /\ FormsBounded'
    BY <1>8, <2>1 DEF ApplyPaidOrder, NeverOvercharged, FormsBounded
  <2>4. TrafficIsAccounted'
    BY <1>8, <2>1 DEF ApplyPaidOrder, ghosts, TrafficIsAccounted
  <2> QED BY <2>2, <2>3, <2>4
<1>9. ASSUME NEW b \in Editors, LoadClient(b) PROVE Inv'
  <2>1. b \in Browsers
    BY DEF Browsers
  <2>2. TypeOK'
    BY <1>9, <1>a, <2>1 DEF LoadClient, Open, TypeOK, coreVars, ghosts
  <2>3. NeverOvercharged' /\ FormsBounded'
    BY <1>9, <2>1 DEF LoadClient, NeverOvercharged, FormsBounded, TypeOK
  <2>4. TrafficIsAccounted'
    BY <1>9 DEF LoadClient, ghosts, TrafficIsAccounted
  <2> QED BY <2>2, <2>3, <2>4
<1>10. ASSUME NEW b \in BulkEditors, LoadList(b) PROVE Inv'
  <2>1. b \in Browsers
    BY DEF Browsers
  <2>2. Listed(row) \in Row /\ Usage(Listed(row)) <= Usage(row)
    <3>1. Listed(row) \in Row
      BY <1>a DEF Listed, Row
    <3>2. Listed(row).up = row.up /\ Listed(row).total = 0
      BY <1>a DEF Listed, Row
    <3> QED BY <1>a, <3>1, <3>2 DEF Usage, Row
  <2>3. TypeOK'
    BY <1>10, <2>1, <2>2 DEF LoadList, Open, TypeOK, coreVars, ghosts
  <2>4. Usage(Listed(row)) + counter + taken <= used
    BY <1>a, <2>2 DEF NeverOvercharged, TypeOK, Usage, Row
  <2>5. NeverOvercharged' /\ FormsBounded'
    BY <1>10, <2>1, <2>4 DEF LoadList, NeverOvercharged, FormsBounded, TypeOK
  <2>6. TrafficIsAccounted'
    BY <1>10 DEF LoadList, ghosts, TrafficIsAccounted
  <2> QED BY <2>3, <2>5, <2>6
<1>11. ASSUME NEW b \in Editors, Edit(b) PROVE Inv'
  <2>1. b \in Browsers /\ form[b] \in Row
    BY <1>11 DEF Browsers, Edit, TypeOK
  <2> QED BY <1>11, <2>1, EditsFacts, SaveInv DEF Edit
<1>12. ASSUME NEW b \in BulkEditors, EditBulk(b) PROVE Inv'
  <2>1. b \in Browsers /\ form[b] \in Row
    BY <1>12 DEF Browsers, EditBulk, TypeOK
  <2> QED BY <1>12, <1>a, <2>1, ChangeLimitsFacts, SaveInv DEF EditBulk
<1>13. ASSUME NEW a \in Reloaders, ReloadStep(a) PROVE Inv'
  BY <1>13, ReloadInv
<1>14. CASE CoreStarts
  <2>1. core' \in {"down", "bare", "on", "off"} /\ startUsers' \in BOOLEAN
    BY <1>14 DEF CoreStarts, On
  <2>2. UNCHANGED <<row, form, today, counter, taken, reloading, held, latest,
                    missed, used, edits, renewals, faults, dropped, clobbered,
                    lastReset>>
    BY <1>14, Zenon DEF CoreStarts, inputs, ghosts
  <2>3. TypeOK'
    BY <2>1, <2>2 DEF TypeOK
  <2> QED BY <2>2, <2>3 DEF NeverOvercharged, FormsBounded, TrafficIsAccounted
<1>15. CASE UNCHANGED vars
  BY <1>15 DEF vars, coreVars, inputs, ghosts, TypeOK, NeverOvercharged,
        FormsBounded, TrafficIsAccounted
<1> QED BY <1>1, <1>2, <1>3, <1>4, <1>5, <1>6, <1>7, <1>8, <1>9, <1>10, <1>11,
          <1>12, <1>13, <1>14, <1>15 DEF Next, Traffic

\* The invariant holds in every reachable state.
THEOREM InvHolds == Spec => []Inv
  BY InitInv, NextInv, PTL DEF Spec

\* The row, and everything an invariant says of it, is well typed.
THEOREM TypeCorrect == Spec => []TypeOK
  BY InvHolds, PTL DEF Inv

\* No traffic is counted twice, however old the forms are that are saved
\* (SaveStats, tx.Save in ClientService.Save).
THEOREM TrafficIsCountedOnce == Spec => []NeverOvercharged
  BY InvHolds, PTL DEF Inv

\* Without a stale save, a failed commit or a restart of the core, all traffic is
\* in the row, the collector or the core.
THEOREM NoTrafficIsLost == Spec => []TrafficIsAccounted
  BY InvHolds, PTL DEF Inv

----------------------------------------------------------------------------
(* Who still has to read the users. *)

\* A reload was missed, or somebody has yet to read, or the last to read has the
\* row as it is now and has yet to add the inbound.
Pending ==
    \/ missed # "none"
    \/ \E a \in reloading :
          \/ ~HasRead(a)
          \/ latest = a /\ held[a] = On(row.enable)

\* A goroutine that has got somewhere still reloads, and one with a form does not.
Reloading ==
    /\ \A a \in Reloaders : held[a] # "none" => a \in reloading
    /\ \A b \in Browsers : form[b] # NoForm => b \notin reloading

\* What has been read of the row is out of date only while a reload is pending: the
\* users a start has read, those of the inbound, and those read last.
StartCurrent == core = "down" /\ startUsers # row.enable => Pending
CoreCurrent  == core # "down" /\ core # On(row.enable) => Pending
LastCurrent  ==
    \A a \in Reloaders :
        latest = a /\ HasRead(a) /\ held[a] # On(row.enable) => Pending

CoreInv == Inv /\ Reloading /\ StartCurrent /\ CoreCurrent /\ LastCurrent

\* It says what CoreAgrees says.
LEMMA CoreInvAgrees == CoreInv => CoreAgrees
<1> SUFFICES ASSUME CoreInv, core # "down", Served # row.enable
             PROVE  reloading # {} \/ missed # "none"
  BY DEF CoreAgrees
<1>1. row.enable \in BOOLEAN
  BY DEF CoreInv, Inv, TypeOK, Row
<1>2. core # On(row.enable)
  BY <1>1 DEF Served, On
<1>3. Pending
  BY <1>2 DEF CoreInv, CoreCurrent
<1> QED BY <1>3 DEF Pending

\* The core starts with the row as it is.
LEMMA InitCore == Init => CoreInv
<1> SUFFICES ASSUME Init PROVE CoreInv
  OBVIOUS
<1> QED BY InitInv DEF Init, CoreInv, Reloading, StartCurrent, CoreCurrent,
          LastCurrent, HasRead, On

\* A step that leaves the switch and the core alone keeps what is pending.
LEMMA QuietCore ==
    ASSUME CoreInv, UNCHANGED coreVars, row'.enable = row.enable,
           \A b \in Browsers : form'[b] # NoForm => b \notin reloading
    PROVE  (Reloading /\ StartCurrent /\ CoreCurrent /\ LastCurrent)'
<1>1. UNCHANGED <<core, startUsers, reloading, held, latest, missed>>
  BY DEF coreVars
<1>2. UNCHANGED Pending
  BY <1>1 DEF Pending, HasRead, On
<1> QED BY <1>1, <1>2 DEF CoreInv, Reloading, StartCurrent, CoreCurrent,
          LastCurrent, HasRead, On

\* Who has written the row and did not reload before will read it, if the client
\* has been switched.
LEMMA WriteCore ==
    ASSUME CoreInv, NEW a \in Reloaders, a \notin reloading,
           reloading' \in {reloading, reloading \cup {a}},
           row'.enable # row.enable => reloading' = reloading \cup {a},
           \A b \in Browsers : form'[b] # NoForm => b \notin reloading',
           UNCHANGED <<core, startUsers, held, latest, missed>>
    PROVE  (Reloading /\ StartCurrent /\ CoreCurrent /\ LastCurrent)'
<1>1. held[a] = "none"
  BY DEF CoreInv, Reloading
<1>2. Reloading'
  BY DEF CoreInv, Reloading
<1>3. CASE row'.enable # row.enable
  <2>1. a \in reloading' /\ ~HasRead(a)'
    BY <1>1, <1>3 DEF HasRead
  <2>2. Pending'
    BY <2>1 DEF Pending, HasRead
  <2> QED BY <1>2, <2>2 DEF StartCurrent, CoreCurrent, LastCurrent
<1>4. CASE row'.enable = row.enable
  <2>1. Pending => Pending'
    BY <1>4 DEF Pending, HasRead, On
  <2> QED BY <1>2, <1>4, <2>1 DEF CoreInv, StartCurrent, CoreCurrent,
            LastCurrent, HasRead, On
<1> QED BY <1>3, <1>4

\* A stop of the core reads the row.
LEMMA StopCore ==
    ASSUME CoreInv, CoreStops, UNCHANGED <<row, form>>, reloading' \subseteq reloading,
           \A a \in Reloaders : held'[a] # "none" => a \in reloading'
    PROVE  (Reloading /\ StartCurrent /\ CoreCurrent /\ LastCurrent)'
<1>1. Reloading'
  BY DEF CoreInv, Reloading
<1>2. core' = "down" /\ startUsers' = row'.enable /\ latest' = "core"
  BY DEF CoreStops
<1> QED BY <1>1, <1>2, QuotaAssumption DEF StartCurrent, CoreCurrent, LastCurrent

\* Every step of a reload keeps what is pending.
LEMMA ReloadCore ==
    ASSUME CoreInv, NEW a \in Reloaders, ReloadStep(a)
    PROVE  (Reloading /\ StartCurrent /\ CoreCurrent /\ LastCurrent)'
<1>a. held \in [Reloaders -> {"none", "removed", "on", "off"}]
  BY DEF CoreInv, Inv, TypeOK
<1>b. held[a] # "none" => a \in reloading
  BY DEF CoreInv, Reloading
<1>c. UNCHANGED <<row, form>>
  BY DEF ReloadStep, ReloadRemoves, ReloadReads, ReloadAdds, ReloadSkipped,
         ReloadFails, ReloadRestarts, reloadInputs
<1>d. ASSUME Done(a)
      PROVE  /\ Reloading' /\ reloading' \subseteq reloading
             /\ \A c \in Reloaders : held'[c] # "none" => c \in reloading'
             /\ held'[a] = "none"
             /\ \A c \in reloading : c # a => c \in reloading' /\ held'[c] = held[c]
  <2>1. reloading \subseteq Reloaders
    BY DEF CoreInv, Inv, TypeOK
  <2>2. /\ reloading' = reloading \ {a}
        /\ \A c \in Reloaders : held'[c] = IF c = a THEN "none" ELSE held[c]
    BY <1>a, <1>d DEF Done
  <2> QED BY <1>c, <2>1, <2>2 DEF CoreInv, Reloading
<1>1. CASE ReloadRestarts(a)
  <2>1. Done(a) /\ CoreStops
    BY <1>1, Zenon DEF ReloadRestarts
  <2> QED BY <1>c, <1>d, <2>1, StopCore
<1>2. CASE ReloadSkipped(a) \/ ReloadFails(a)
  <2>1. Done(a) /\ missed' # "none"
    BY <1>2 DEF ReloadSkipped, ReloadFails
  <2>2. Pending'
    BY <2>1 DEF Pending
  <2> QED BY <1>d, <2>1, <2>2 DEF StartCurrent, CoreCurrent, LastCurrent
<1>3. CASE ReloadRemoves(a)
  <2>1. a \in reloading /\ reloading' = reloading /\ held' = [held EXCEPT ![a] = "removed"]
    BY <1>3 DEF ReloadRemoves
  <2>2. held'[a] = "removed" /\ \A c \in Reloaders : c # a => held'[c] = held[c]
    BY <1>a, <2>1
  <2>3. Pending'
    BY <2>1, <2>2 DEF Pending, HasRead
  <2>4. Reloading'
    BY <1>c, <2>1, <2>2 DEF CoreInv, Reloading
  <2> QED BY <2>3, <2>4 DEF StartCurrent, CoreCurrent, LastCurrent
<1>4. CASE ReloadReads(a)
  <2>1. /\ held[a] = "removed" /\ reloading' = reloading /\ latest' = a
        /\ held' = [held EXCEPT ![a] = On(row.enable)]
    BY <1>4 DEF ReloadReads
  <2>2. /\ held'[a] = On(row.enable)
        /\ \A c \in Reloaders : c # a => held'[c] = held[c]
    BY <1>a, <2>1
  <2>3. a \in reloading'
    BY <1>b, <2>1
  <2>4. Pending'
    BY <1>c, <2>1, <2>2, <2>3 DEF Pending, On
  <2>5. Reloading'
    BY <1>c, <2>1, <2>2, <2>3 DEF CoreInv, Reloading
  <2> QED BY <2>4, <2>5 DEF StartCurrent, CoreCurrent, LastCurrent
<1>5. CASE ReloadAdds(a)
  <2>1. /\ HasRead(a) /\ core # "down" /\ core' = held[a] /\ Done(a)
        /\ missed' = (IF latest = a THEN missed ELSE "overtaken")
        /\ latest' = latest
    BY <1>5 DEF ReloadAdds
  <2>2. CASE latest # a
    <3>1. Pending'
      BY <2>1, <2>2 DEF Pending
    <3> QED BY <1>d, <2>1, <3>1 DEF StartCurrent, CoreCurrent, LastCurrent
  <2>3. CASE latest = a
    <3>1. ~HasRead(a)'
      BY <1>d, <2>1 DEF HasRead
    <3>2. LastCurrent'
      BY <2>1, <2>3, <3>1 DEF LastCurrent
    <3>3. StartCurrent'
      BY <2>1 DEF StartCurrent, HasRead
    <3>4. ASSUME core' # On(row'.enable) PROVE Pending'
      <4>1. Pending /\ held[a] # On(row.enable)
        BY <1>c, <2>1, <2>3, <3>4 DEF CoreInv, LastCurrent
      <4>2. CASE missed # "none"
        BY <2>1, <2>3, <4>2 DEF Pending
      <4>3. CASE missed = "none"
        <5>1. PICK c \in reloading :
                  ~HasRead(c) \/ (latest = c /\ held[c] = On(row.enable))
          BY <4>1, <4>3 DEF Pending
        <5>2. c # a /\ ~HasRead(c)
          BY <2>1, <2>3, <4>1, <5>1
        <5>3. c \in reloading' /\ ~HasRead(c)'
          BY <1>d, <2>1, <5>2 DEF HasRead
        <5> QED BY <5>3 DEF Pending, HasRead
      <4> QED BY <4>2, <4>3
    <3> QED BY <1>d, <2>1, <3>2, <3>3, <3>4 DEF CoreCurrent
  <2> QED BY <2>2, <2>3
<1> QED BY <1>1, <1>2, <1>3, <1>4, <1>5 DEF ReloadStep

\* A save switches the client only with a reload to come.
LEMMA SaveCore ==
    ASSUME CoreInv, NEW b \in Browsers, NEW r, SaveClient(b, r)
    PROVE  (Reloading /\ StartCurrent /\ CoreCurrent /\ LastCurrent)'
<1>1. /\ form[b] # NoForm /\ row' = r /\ form' = [form EXCEPT ![b] = NoForm]
      /\ reloading' = IF r.enable # row.enable THEN reloading \cup {b} ELSE reloading
      /\ UNCHANGED <<core, startUsers, held, latest, missed>>
  BY DEF SaveClient
<1>2. \A c \in Browsers : form'[c] # NoForm => c # b /\ form[c] # NoForm
  BY <1>1 DEF CoreInv, Inv, TypeOK
<1>3. b \notin reloading /\ b \in Reloaders
  BY <1>1 DEF CoreInv, Reloading, Reloaders
<1>4. \A c \in Browsers : form'[c] # NoForm => c \notin reloading'
  BY <1>1, <1>2 DEF CoreInv, Reloading
<1>5. /\ reloading' \in {reloading, reloading \cup {b}}
      /\ row'.enable # row.enable => reloading' = reloading \cup {b}
  BY <1>1
<1> QED BY <1>1, <1>3, <1>4, <1>5, WriteCore

\* Every step keeps what is pending.
LEMMA NextCore == CoreInv /\ [Next]_vars => CoreInv'
<1> SUFFICES ASSUME CoreInv, [Next]_vars
             PROVE  (Reloading /\ StartCurrent /\ CoreCurrent /\ LastCurrent)'
  BY NextInv DEF CoreInv
<1>a. /\ row \in Row /\ today \in Nat /\ taken \in Nat
      /\ form \in [Browsers -> Row \cup {NoForm}] /\ startUsers \in BOOLEAN
  BY DEF CoreInv, Inv, TypeOK
<1>b. \A b \in Browsers : form[b] # NoForm => b \notin reloading
  BY DEF CoreInv, Reloading
<1>1. CASE DayPasses \/ Use \/ GetStats \/ SaveStatsFails \/ UNCHANGED vars
  <2>1. UNCHANGED <<row, form>> /\ UNCHANGED coreVars
    BY <1>1 DEF DayPasses, Use, GetStats, SaveStatsFails, vars
  <2> QED BY <1>b, <2>1, QuietCore
<1>2. CASE SaveStats
  <2>1. row'.enable = row.enable /\ UNCHANGED form /\ UNCHANGED coreVars
    BY <1>2, <1>a DEF SaveStats, Row
  <2> QED BY <1>b, <2>1, QuietCore
<1>3. CASE RestartCore
  <2>1. CoreStops /\ UNCHANGED <<row, form, reloading, held>>
    BY <1>3, Zenon DEF RestartCore
  <2> QED BY <2>1, StopCore DEF CoreInv, Reloading
<1>4. CASE CoreStarts
  <2>1. /\ core = "down" /\ core' = On(startUsers)
        /\ UNCHANGED <<row, form, reloading, held, latest, missed>>
    BY <1>4, Zenon DEF CoreStarts
  <2>2. UNCHANGED Pending /\ UNCHANGED Reloading
    BY <2>1 DEF Pending, HasRead, On, Reloading
  <2>3. startUsers = row.enable \/ Pending
    BY <2>1 DEF CoreInv, StartCurrent
  <2>4. CoreCurrent' /\ StartCurrent'
    BY <2>1, <2>2, <2>3 DEF CoreCurrent, StartCurrent, On
  <2>5. LastCurrent'
    BY <2>1, <2>2 DEF CoreInv, LastCurrent, HasRead, On
  <2> QED BY <2>2, <2>4, <2>5 DEF CoreInv
<1>5. CASE DepleteClients
  <2>1. /\ DepleteJob \notin reloading /\ row' = DepletePass(row)
        /\ reloading' = IF NeedsReload(row) THEN reloading \cup {DepleteJob}
                                            ELSE reloading
        /\ UNCHANGED <<form, core, startUsers, held, latest, missed>>
    BY <1>5 DEF DepleteClients
  <2>2. ~NeedsReload(row) => row'.enable = row.enable
    BY <1>a, <2>1, DepletePassFacts
  <2>3. DepleteJob \in Reloaders /\ DepleteJob \notin Browsers
    BY QuotaAssumption DEF Reloaders
  <2>4. \A b \in Browsers : form'[b] # NoForm => b \notin reloading'
    BY <1>b, <2>1, <2>3
  <2> QED BY <2>1, <2>2, <2>3, <2>4, WriteCore
<1>6. ASSUME NEW days \in 0..1, NEW traffic \in 0..1, ApplyPaidOrder(days, traffic)
      PROVE  (Reloading /\ StartCurrent /\ CoreCurrent /\ LastCurrent)'
  <2>1. /\ Payer \notin reloading /\ reloading' = reloading \cup {Payer}
        /\ UNCHANGED <<form, core, startUsers, held, latest, missed>>
    BY <1>6 DEF ApplyPaidOrder
  <2>2. Payer \in Reloaders /\ Payer \notin Browsers
    BY QuotaAssumption DEF Reloaders
  <2>3. \A b \in Browsers : form'[b] # NoForm => b \notin reloading'
    BY <1>b, <2>1, <2>2
  <2> QED BY <2>1, <2>2, <2>3, WriteCore
<1>7. ASSUME NEW b \in Browsers, LoadClient(b) \/ LoadList(b)
      PROVE  (Reloading /\ StartCurrent /\ CoreCurrent /\ LastCurrent)'
  <2>1. /\ b \notin reloading /\ UNCHANGED row /\ UNCHANGED coreVars
        /\ \E f : form' = [form EXCEPT ![b] = f]
    BY <1>7 DEF LoadClient, LoadList, Open
  <2>2. \A c \in Browsers : form'[c] # NoForm => c \notin reloading
    BY <1>a, <1>b, <2>1
  <2> QED BY <2>1, <2>2, QuietCore
<1>8. ASSUME NEW b \in Browsers, Edit(b) \/ EditBulk(b)
      PROVE  (Reloading /\ StartCurrent /\ CoreCurrent /\ LastCurrent)'
  BY <1>8, SaveCore DEF Edit, EditBulk
<1>9. ASSUME NEW a \in Reloaders, ReloadStep(a)
      PROVE  (Reloading /\ StartCurrent /\ CoreCurrent /\ LastCurrent)'
  BY <1>9, ReloadCore
<1> QED BY <1>1, <1>2, <1>3, <1>4, <1>5, <1>6, <1>7, <1>8, <1>9
        DEF Next, Traffic, Browsers

\* While a core runs that disagrees with the row, somebody still has to reload it,
\* or the reload was missed: it failed, found a core that was starting, or was
\* overtaken by an older reading.
THEOREM CoreIsReloaded == Spec => []CoreAgrees
<1>1. Spec => []CoreInv
  BY InitCore, NextCore, PTL DEF Spec
<1> QED BY <1>1, CoreInvAgrees, PTL

----------------------------------------------------------------------------
(* Action properties. *)

\* The last operation of the pass disables whoever is over a limit.
LEMMA DepletedStep ==
    Inv => (DepleteClients => ~(row'.enable /\ Depleted(row')))
<1> SUFFICES ASSUME Inv, DepleteClients
             PROVE  ~(row'.enable /\ Depleted(row'))
  OBVIOUS
<1> DEFINE s == Reset(StartPeriod(row))
<1>1. row \in Row /\ today \in Nat
  BY DEF Inv, TypeOK
<1>2. s \in Row
  BY <1>1, StartPeriodFacts, ResetFacts
<1>3. row' = Disable(s)
  BY DEF DepleteClients, DepletePass
<1> HIDE DEF s
<1>4. Depleted(s) \in BOOLEAN
  BY DEF Depleted
<1>5. /\ row'.enable = (s.enable /\ ~Depleted(s))
      /\ row'.volume = s.volume /\ row'.up = s.up /\ row'.expiry = s.expiry
  BY <1>2, <1>3, <1>4 DEF Disable, Row
<1>6. Depleted(row') <=> Depleted(s)
  BY <1>5 DEF Depleted
<1> QED BY <1>4, <1>5, <1>6

\* The pass of the deplete job leaves nobody enabled who is over a limit.
THEOREM DepletedClientsStayOff == Spec => DepletedStaysOff
<1>1. Inv /\ [Next]_vars =>
        [DepleteClients => ~(row'.enable /\ Depleted(row'))]_vars
  BY DepletedStep
<1> QED BY <1>1, InvHolds, PTL DEF Spec, DepletedStaysOff

\* A reset puts the next one after the day it is made on, and only a stale save
\* can put it back.
Spaced == lastReset > 0 /\ ~clobbered =>
              row.nextReset > lastReset /\ row.delayStart = FALSE

SpacedInv == Inv /\ lastReset \in Nat /\ Spaced

\* A pass moves the next reset only when it resets or starts the period.
LEMMA PassKeepsReset ==
    ASSUME NEW r \in Row, today \in Nat
    PROVE  /\ r.delayStart = FALSE => StartPeriod(r) = r
           /\ DepletePass(r).nextReset = Reset(StartPeriod(r)).nextReset
           /\ DepletePass(r).delayStart = StartPeriod(r).delayStart
           /\ ResetDue(StartPeriod(r)) =>
                 DepletePass(r).nextReset > today
<1> DEFINE p == StartPeriod(r)
           s == Reset(p)
<1>1. p \in Row /\ s \in Row
  BY StartPeriodFacts, ResetFacts
<1>2. r.delayStart = FALSE => p = r
  BY DEF StartPeriod, FirstUse
<1>3. DepletePass(r) = Disable(s)
  BY DEF DepletePass
<1>4. ASSUME ResetDue(p) PROVE s.nextReset > today /\ s.delayStart = p.delayStart
  <2> HIDE DEF p
  <2> DEFINE sum  == p.total + p.up
             next == today + ResetPeriod(p.resetDays)
  <2>1. Reset(p) = [p EXCEPT !.total = sum, !.up = 0, !.enable = TRUE,
                             !.nextReset = next]
    BY <1>4 DEF Reset
  <2>2. next > today
    BY <1>1 DEF ResetPeriod, Row
  <2> HIDE DEF sum, next
  <2>3. Reset(p).nextReset = next /\ Reset(p).delayStart = p.delayStart
    BY <1>1, <2>1 DEF Row
  <2> QED BY <2>2, <2>3
<1>5. ASSUME ~ResetDue(p) PROVE s = p
  BY <1>5 DEF Reset
<1> HIDE DEF p, s
<1>6. s.delayStart = p.delayStart
  BY <1>4, <1>5
<1>7. /\ Disable(s).nextReset = s.nextReset
      /\ Disable(s).delayStart = s.delayStart
  BY <1>1 DEF Disable, Row
<1> QED BY <1>2, <1>3, <1>4, <1>6, <1>7 DEF p, s

\* A renewal does not touch the next reset.
LEMMA RenewalKeepsReset ==
    ASSUME NEW r \in Row, NEW days \in 0..1, NEW traffic \in 0..1, today \in Nat
    PROVE  LET s == [Refill(Extend(r, days), traffic) EXCEPT !.enable = TRUE]
           IN  s.nextReset = r.nextReset /\ s.delayStart = r.delayStart
<1> DEFINE Same(q) == /\ q.nextReset = r.nextReset
                      /\ q.delayStart = r.delayStart
                      /\ DOMAIN q = DOMAIN r
<1>1. Same(Extend(r, days))
  BY DEF Extend, Row
<1>2. ASSUME NEW q, Same(q) PROVE Same(Refill(q, traffic))
  BY <1>2 DEF Refill, Row
<1>3. ASSUME NEW q, Same(q) PROVE Same([q EXCEPT !.enable = TRUE])
  BY <1>3 DEF Row
<1> HIDE DEF Same
<1>4. Same([Refill(Extend(r, days), traffic) EXCEPT !.enable = TRUE])
  BY <1>1, <1>2, <1>3
<1> QED BY <1>4 DEF Same

\* A reload writes no row.
LEMMA ReloadKeepsRow ==
    ASSUME NEW a, ReloadStep(a)
    PROVE  UNCHANGED <<row, form, lastReset, clobbered>>
  BY DEF ReloadStep, ReloadRemoves, ReloadReads, ReloadAdds, ReloadSkipped,
         ReloadFails, ReloadRestarts, reloadInputs

\* Before the first reset there is nothing to be spaced from.
LEMMA InitSpaced == Init => SpacedInv
  BY InitInv DEF Init, SpacedInv, Spaced

\* Every step keeps the next reset later than the last one.
LEMMA NextSpaced == SpacedInv /\ [Next]_vars => SpacedInv'
<1> SUFFICES ASSUME SpacedInv, [Next]_vars PROVE Spaced' /\ lastReset' \in Nat
  BY NextInv DEF SpacedInv
<1> USE DEF SpacedInv
<1>a. row \in Row /\ today \in Nat /\ (form \in [Browsers -> Row \cup {NoForm}])
  BY DEF Inv, TypeOK
<1>1. CASE DayPasses \/ Use \/ GetStats \/ UNCHANGED vars
  BY <1>1 DEF DayPasses, Use, GetStats, vars, ghosts, Spaced
<1>2. CASE SaveStats
  <2>1. row'.nextReset = row.nextReset /\ row'.delayStart = row.delayStart
    BY <1>2, <1>a DEF SaveStats, Row
  <2> QED BY <1>2, <2>1 DEF SaveStats, ghosts, Spaced
<1>3. CASE SaveStatsFails \/ RestartCore \/ CoreStarts
  BY <1>3 DEF SaveStatsFails, RestartCore, CoreStarts, ghosts, Spaced
<1>4. CASE DepleteClients
  <2>1. row' = DepletePass(row) /\ clobbered' = clobbered
    BY <1>4 DEF DepleteClients
  <2>2. CASE ResetDue(StartPeriod(row))
    <3>1. lastReset' = today
      BY <1>4, <2>2 DEF DepleteClients
    <3>2. StartPeriod(row).delayStart = FALSE
      <4>1. StartPeriod(row).delayStart \in BOOLEAN
        BY <1>a, StartPeriodFacts DEF Row
      <4> QED BY <2>2, <4>1 DEF ResetDue
    <3> QED BY <1>a, <2>1, <2>2, <3>1, <3>2, PassKeepsReset DEF Spaced
  <2>3. CASE ~ResetDue(StartPeriod(row))
    <3>1. lastReset' = lastReset
      BY <1>4, <2>3 DEF DepleteClients
    <3>2. ASSUME row.delayStart = FALSE
          PROVE  /\ row'.nextReset = row.nextReset
                 /\ row'.delayStart = FALSE
      <4>1. Reset(StartPeriod(row)) = row
        BY <1>a, <2>3, <3>2, PassKeepsReset DEF Reset
      <4> QED BY <1>a, <2>1, <3>2, <4>1, PassKeepsReset
    <3> QED BY <2>1, <3>1, <3>2 DEF Spaced
  <2> QED BY <2>2, <2>3
<1>5. ASSUME NEW days \in 0..1, NEW traffic \in 0..1,
             ApplyPaidOrder(days, traffic)
      PROVE  Spaced' /\ lastReset' \in Nat
  <2>1. row'.nextReset = row.nextReset /\ row'.delayStart = row.delayStart
    BY <1>5, <1>a, RenewalKeepsReset DEF ApplyPaidOrder
  <2> QED BY <1>5, <2>1 DEF ApplyPaidOrder, ghosts, Spaced
<1>6. ASSUME NEW b \in Browsers, LoadClient(b) \/ LoadList(b)
      PROVE  Spaced' /\ lastReset' \in Nat
  BY <1>6 DEF LoadClient, LoadList, ghosts, Spaced
<1>7. ASSUME NEW b \in Browsers, Edit(b) \/ EditBulk(b)
      PROVE  Spaced' /\ lastReset' \in Nat
  <2>1. form[b] \in Row
    BY <1>7, <1>a DEF Edit, EditBulk
  <2>2. PICK r \in Edits(form[b]) \cup ChangeLimits(form[b]) : SaveClient(b, r)
    BY <1>7 DEF Edit, EditBulk
  <2>3. SameReset(r, form[b])
    BY <1>a, <2>1, EditsFacts, ChangeLimitsFacts
  <2>4. /\ row' = r /\ lastReset' = lastReset
        /\ ~clobbered' => form[b] = row /\ ~clobbered
    BY <2>2 DEF SaveClient
  <2> QED BY <2>3, <2>4 DEF SameReset, Spaced
<1>8. ASSUME NEW a \in Reloaders, ReloadStep(a)
      PROVE  Spaced' /\ lastReset' \in Nat
  <2>1. UNCHANGED <<row, lastReset, clobbered>>
    BY <1>8, ReloadKeepsRow
  <2> QED BY <2>1 DEF Spaced
<1> QED BY <1>1, <1>2, <1>3, <1>4, <1>5, <1>6, <1>7, <1>8
        DEF Next, Traffic, Browsers, Reloaders

\* Two periodic resets are more than a day apart unless a stale form was saved,
\* for any period the row was saved with (clientResetPeriodDays).
THEOREM PeriodicResetsAreSpaced == Spec => ResetsAreSpaced
<1>1. SpacedInv /\ [Next]_vars =>
        [lastReset' # lastReset =>
            lastReset = 0 \/ clobbered \/ lastReset' > lastReset + 1]_lastReset
  <2> SUFFICES ASSUME SpacedInv, [Next]_vars, lastReset' # lastReset,
                      lastReset # 0, ~clobbered
               PROVE  lastReset' > lastReset + 1
    OBVIOUS
  <2>1. DepleteClients
    <3>1. \A a : ReloadStep(a) => lastReset' = lastReset
      BY ReloadKeepsRow
    <3>2. \A b : Edit(b) \/ EditBulk(b) => lastReset' = lastReset
      BY DEF Edit, EditBulk, SaveClient
    <3> QED BY <3>1, <3>2 DEF Next, Traffic, vars, ghosts, DayPasses, Use, GetStats,
              SaveStats, SaveStatsFails, RestartCore, CoreStarts, ApplyPaidOrder,
              LoadClient, LoadList
  <2>2. lastReset' = today /\ ResetDue(StartPeriod(row))
    BY <2>1 DEF DepleteClients
  <2>3. /\ row \in Row /\ today \in Nat /\ lastReset \in Nat
        /\ row.nextReset > lastReset /\ row.delayStart = FALSE
    BY DEF SpacedInv, Spaced, Inv, TypeOK
  <2>4. row.nextReset < today
    BY <2>2, <2>3, PassKeepsReset DEF ResetDue
  <2> QED BY <2>2, <2>3, <2>4 DEF Row
<1> QED BY <1>1, InitSpaced, NextSpaced, PTL DEF Spec, ResetsAreSpaced

\* A pass of the deplete job disables whoever is over a limit, and does not reset a
\* client twice in a period (DepleteClients).
THEOREM DepletePassesAreSound == Spec => DepletePassIsSound
  BY DepletedClientsStayOff, PeriodicResetsAreSpaced, PTL DEF DepletePassIsSound

=============================================================================

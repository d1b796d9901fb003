------------------------------ MODULE ClientQuota ------------------------------
(***************************************************************************)
(* The row of one client and everybody who writes it: the traffic          *)
(* collector (StatsJob), the cron that resets and disables (DepleteJob),   *)
(* the paid renewals, and browsers that load the row, keep it in a form    *)
(* and save the whole of it later (Client.vue, ClientEditBulk.vue).        *)
(*                                                                         *)
(* A transaction is one step.  The client has one inbound; a reload of it  *)
(* removes it, reads its users and adds it again, and a start of the core  *)
(* reads the users before it runs.  The job and the renewals reload        *)
(* outside the restart manager.  up stands for up and down together, total *)
(* for total_up and total_down, and time is counted in days, the unit of   *)
(* the reset period; the jobs run any number of times in a day.            *)
(***************************************************************************)
EXTENDS Naturals

CONSTANTS
    Editors,        \* browsers with the edit form of the client
    BulkEditors,    \* browsers with the list of clients, for a bulk edit
    DepleteJob,     \* the goroutine of the cron job
    Payer,          \* the goroutine of ApplyPaidOrder
    NoForm,         \* a browser without a form
    Volumes, Expiries, Periods,   \* limits and periods a client may start with
    MaxDay, MaxUse, MaxEdits, MaxRenewals,  \* bounds on the inputs
    MaxFaults       \* bound on failed commits and reloads and on core restarts

Browsers  == Editors \cup BulkEditors
Reloaders == Browsers \cup {DepleteJob, Payer}

\* model.Client, the columns that matter to the quota.
Row == [enable : BOOLEAN, up : Nat, total : Nat, volume : Nat, expiry : Nat,
        delayStart : BOOLEAN, autoReset : BOOLEAN, resetDays : Nat,
        nextReset : Nat]

ASSUME QuotaAssumption ==
    /\ NoForm \notin Row /\ "core" \notin Reloaders
    /\ DepleteJob \notin Browsers /\ Payer \notin Browsers
    /\ Volumes \subseteq Nat /\ Expiries \subseteq Nat /\ Periods \subseteq Nat
    /\ {MaxDay, MaxUse, MaxEdits, MaxRenewals, MaxFaults} \subseteq Nat
    /\ Editors \cap BulkEditors = {}

\* A client as it is created; one with a delayed start and no periodic reset has
\* no expiry yet.
FirstRows ==
    {r \in [enable : {TRUE}, up : {0}, total : {0}, volume : Volumes,
            expiry : Expiries, delayStart : BOOLEAN, autoReset : BOOLEAN,
            resetDays : Periods, nextReset : {0}] :
        r.delayStart /\ ~r.autoReset => r.expiry = 0}

VARIABLES
    row,        \* the row in the database
    form,       \* what a browser holds of it
    today,      \* the clock
    counter,    \* traffic counted by the core since it was last collected
    taken,      \* traffic taken from the core and not yet committed
    core,       \* "down" while it starts, "bare" without the inbound, or what
                \* the inbound says of the client: "on", "off"
    startUsers, \* the core that starts has read the client as enabled
    reloading,  \* goroutines that have committed and still have to reload
    held,       \* how far each has got: "none", "removed", or what it has read
    latest,     \* who has read the users last, "core" when a start has
    used, edits, renewals, faults,   \* what has happened so far
    dropped,    \* a failed commit or a restart of the core threw traffic away
    clobbered,  \* a form was saved that was not the row any more
    missed,     \* why what was committed may not have reached the core since
                \* the users were read last: "none", "failed", "skipped" by a
                \* core that was starting, "overtaken" by an older reading
    lastReset   \* day of the last periodic reset, 0 before the first

inputs == <<used, edits, renewals, faults>>
ghosts == <<dropped, clobbered, lastReset>>
coreVars == <<core, startUsers, reloading, held, latest, missed>>
vars   == <<row, form, today, counter, taken, coreVars, inputs, ghosts>>

\* Whether the core lets the client in.
Served == core = "on"
On(enable) == IF enable THEN "on" ELSE "off"

TypeOK ==
    /\ row \in Row
    /\ form \in [Browsers -> Row \cup {NoForm}]
    /\ today \in Nat /\ counter \in Nat /\ taken \in Nat /\ lastReset \in Nat
    /\ used \in Nat /\ edits \in Nat /\ renewals \in Nat /\ faults \in Nat
    /\ dropped \in BOOLEAN /\ clobbered \in BOOLEAN /\ startUsers \in BOOLEAN
    /\ core \in {"down", "bare", "on", "off"}
    /\ reloading \subseteq Reloaders
    /\ held \in [Reloaders -> {"none", "removed", "on", "off"}]
    /\ latest \in Reloaders \cup {"core"}
    /\ missed \in {"none", "failed", "skipped", "overtaken"}

Init ==
    /\ row \in FirstRows
    /\ form = [b \in Browsers |-> NoForm]
    /\ today = 1
    /\ counter = 0 /\ taken = 0
    /\ core = On(row.enable) /\ startUsers = FALSE
    /\ reloading = {} /\ held = [a \in Reloaders |-> "none"]
    /\ latest = "core" /\ missed = "none"
    /\ used = 0 /\ edits = 0 /\ renewals = 0 /\ faults = 0
    /\ dropped = FALSE /\ clobbered = FALSE
    /\ lastReset = 0

----------------------------------------------------------------------------
(* Traffic: the core counts it, StatsJob collects and commits it. *)

Fault == faults < MaxFaults /\ faults' = faults + 1

DayPasses ==
    /\ today < MaxDay
    /\ today' = today + 1
    /\ UNCHANGED <<row, form, counter, taken, coreVars,
                   inputs, ghosts>>

Use ==
    /\ Served /\ used < MaxUse
    /\ counter' = counter + 1
    /\ used' = used + 1
    /\ UNCHANGED <<row, form, today, taken, coreVars,
                   edits, renewals, faults, ghosts>>

\* Variant: the counters are read and not swapped with zero.
GetStatsWithoutSwap ==
    /\ taken = 0 /\ counter > 0
    /\ taken' = counter
    /\ UNCHANGED <<row, form, today, counter, coreVars,
                   inputs, ghosts>>

\* GetStats swaps the counters with zero.  The job never overlaps itself.
GetStats ==
    /\ taken = 0 /\ counter > 0
    /\ taken' = counter
    /\ counter' = 0
    /\ UNCHANGED <<row, form, today, coreVars, inputs,
                   ghosts>>

\* The transaction of SaveStats adds to whatever is in the row by now.
SaveStats ==
    /\ taken > 0
    /\ row' = [row EXCEPT !.up = @ + taken]
    /\ taken' = 0
    /\ UNCHANGED <<form, today, counter, coreVars, inputs,
                   ghosts>>

\* The transaction fails; nobody puts the traffic back.
SaveStatsFails ==
    /\ taken > 0 /\ Fault
    /\ taken' = 0
    /\ dropped' = TRUE
    /\ UNCHANGED <<row, form, today, counter, coreVars,
                   used, edits, renewals, clobbered, lastReset>>

\* A new core has a new tracker.  restartCoreLocked stops the old one and reads
\* the enabled clients.
CoreStops ==
    /\ core' = "down" /\ startUsers' = row.enable
    /\ latest' = "core" /\ missed' = "none"
    /\ dropped' = (dropped \/ counter > 0) /\ counter' = 0

\* The section of a restart, or of a save that reloads, in the restart manager.
SectionBusy == core = "down" \/ \E b \in Browsers : held[b] # "none"

RestartCore ==
    /\ ~SectionBusy /\ Fault
    /\ CoreStops
    /\ UNCHANGED <<row, form, today, taken, reloading, held, used, edits,
                   renewals, clobbered, lastReset>>

\* The core is published with what the start has read.
CoreStarts ==
    /\ core = "down"
    /\ core' = On(startUsers) /\ startUsers' = FALSE
    /\ UNCHANGED <<row, form, today, counter, taken, reloading, held, latest,
                   missed, inputs, ghosts>>

----------------------------------------------------------------------------
(* The deplete job. *)

Depleted(r) == \/ r.volume > 0 /\ r.up > r.volume
               \/ r.expiry > 0 /\ r.expiry < today

\* Variant: the period is not clamped.
BarePeriod(days) == days

ResetPeriod(days) == IF days < 1 THEN 1 ELSE days

\* The first use of a client with a delayed start fixes its expiry, or its
\* first reset.
FirstUse(r) == r.enable /\ r.delayStart /\ r.up > 0

StartPeriod(r) ==
    CASE FirstUse(r) /\ r.autoReset ->
            [r EXCEPT !.delayStart = FALSE,
                      !.nextReset = today + ResetPeriod(r.resetDays)]
      [] FirstUse(r) /\ ~r.autoReset ->
            [r EXCEPT !.delayStart = FALSE, !.expiry = today + r.resetDays]
      [] OTHER -> r

ResetDue(r) == ~r.delayStart /\ r.autoReset /\ r.nextReset < today

\* Variant: a reset forgets what it removes from the counter.
ForgetfulReset(r) ==
    IF ResetDue(r)
    THEN [r EXCEPT !.up = 0, !.enable = TRUE,
                   !.nextReset = today + ResetPeriod(r.resetDays)]
    ELSE r

Reset(r) ==
    IF ResetDue(r)
    THEN [r EXCEPT !.total = @ + r.up, !.up = 0, !.enable = TRUE,
                   !.nextReset = today + ResetPeriod(r.resetDays)]
    ELSE r

Disable(r) == [r EXCEPT !.enable = @ /\ ~Depleted(r)]

\* Variant: clients are disabled first and reset afterwards.
DisableThenReset(r) == Reset(StartPeriod(Disable(r)))

DepletePass(r) == Disable(Reset(StartPeriod(r)))

\* Variants: only a client that is disabled, or only one that is enabled, is
\* reloaded.
NeedsReloadOnDisable(r) == r.enable /\ ~DepletePass(r).enable
NeedsReloadOnReset(r)   == ResetDue(StartPeriod(r)) /\ ~r.enable

\* ResetClients collects the inbounds of a disabled client it enables,
\* DepleteClients those of a client it disables.
NeedsReload(r) ==
    \/ ResetDue(StartPeriod(r)) /\ ~r.enable
    \/ Reset(StartPeriod(r)).enable /\ ~DepletePass(r).enable

\* One transaction; the cron skips a tick while its last run still reloads.
DepleteClients ==
    /\ DepleteJob \notin reloading
    /\ row' = DepletePass(row)
    /\ reloading' = IF NeedsReload(row) THEN reloading \cup {DepleteJob}
                                        ELSE reloading
    /\ lastReset' = IF ResetDue(StartPeriod(row)) THEN today ELSE lastReset
    /\ UNCHANGED <<form, today, counter, taken, core, startUsers, held, latest,
                   missed, inputs, dropped, clobbered>>

----------------------------------------------------------------------------
(* Paid renewals. *)

\* A tariff adds days to the expiry, or to today when that has passed.
Extend(r, days) ==
    IF days > 0
    THEN [r EXCEPT !.expiry = days + (IF @ < today THEN today ELSE @)]
    ELSE r

\* Variant: a new window forgets the old one.
ForgetfulRefill(r, traffic) ==
    IF traffic > 0 THEN [r EXCEPT !.volume = @ + traffic, !.up = 0] ELSE r

\* Traffic starts a new window.
Refill(r, traffic) ==
    IF traffic > 0
    THEN [r EXCEPT !.volume = @ + traffic, !.total = @ + r.up, !.up = 0]
    ELSE r

\* A renewal for a tariff with days, with traffic, or with both.
ApplyPaidOrder(days, traffic) ==
    /\ Payer \notin reloading
    /\ renewals < MaxRenewals /\ renewals' = renewals + 1
    /\ days + traffic > 0
    /\ row' = [Refill(Extend(row, days), traffic) EXCEPT !.enable = TRUE]
    /\ reloading' = reloading \cup {Payer}
    /\ UNCHANGED <<form, today, counter, taken, core, startUsers, held, latest,
                   missed, used, edits, faults, ghosts>>

----------------------------------------------------------------------------
(* Browsers. *)

Open(b) ==
    /\ form[b] = NoForm /\ b \notin reloading
    /\ edits < MaxEdits /\ edits' = edits + 1

\* getById returns all columns.
LoadClient(b) ==
    /\ Open(b)
    /\ form' = [form EXCEPT ![b] = row]
    /\ UNCHANGED <<row, today, counter, taken, coreVars,
                   used, renewals, faults, ghosts>>

\* GetAll leaves the totals and the reset settings out; they arrive as zeros.
Listed(r) == [r EXCEPT !.total = 0, !.delayStart = FALSE, !.autoReset = FALSE,
                       !.resetDays = 0, !.nextReset = 0]

LoadList(b) ==
    /\ Open(b)
    /\ form' = [form EXCEPT ![b] = Listed(row)]
    /\ UNCHANGED <<row, today, counter, taken, coreVars,
                   used, renewals, faults, ghosts>>

\* What a user may do in the form: switch the client, reset its usage.  A client
\* whose start is delayed is sent without an expiry.
Sent(r) == IF r.delayStart /\ ~r.autoReset THEN [r EXCEPT !.expiry = 0] ELSE r

ResetUsage(r) == [r EXCEPT !.total = @ + r.up, !.up = 0]

Edits(r) == {[q EXCEPT !.enable = on] : q \in {Sent(r), ResetUsage(Sent(r))},
                                       on \in BOOLEAN}

\* What change_limits does: add to limits that are set, and enable whoever is
\* within them.
Raise(limit, by) == IF limit > 0 THEN limit + by ELSE limit

Within(r) == /\ r.volume = 0 \/ r.up < r.volume
             /\ r.expiry = 0 \/ r.expiry > today

ChangeLimits(r) ==
    LET raised == {[r EXCEPT !.volume = Raise(@, v), !.expiry = Raise(@, d)]
                     : v \in 0..1, d \in 0..1}
    IN  raised \cup {[q EXCEPT !.enable = Within(q)] : q \in raised}

\* The row that is saved replaces the one in the database, whatever that is by
\* now.  The inbounds are reloaded if the client has been switched.
SaveClient(b, r) ==
    /\ form[b] # NoForm
    /\ row' = r
    /\ form' = [form EXCEPT ![b] = NoForm]
    /\ reloading' = IF r.enable # row.enable THEN reloading \cup {b}
                                             ELSE reloading
    /\ clobbered' = (clobbered \/ form[b] # row)
    /\ UNCHANGED <<today, counter, taken, core, startUsers, held, latest, missed,
                   inputs, dropped, lastReset>>

Edit(b) == form[b] # NoForm /\ \E r \in Edits(form[b]) : SaveClient(b, r)

EditBulk(b) ==
    form[b] # NoForm /\ \E r \in ChangeLimits(form[b]) : SaveClient(b, r)

----------------------------------------------------------------------------
(* Reloads. *)

reloadInputs == <<row, form, today, taken, startUsers, used, edits, renewals,
                  clobbered, lastReset>>

Done(a) == /\ reloading' = reloading \ {a}
           /\ held' = [held EXCEPT ![a] = "none"]

\* RestartInbounds, of the job and of a renewal at any time, of a save in a section
\* of the manager: the inbound is removed, and its connections are closed.
ReloadRemoves(a) ==
    /\ a \in reloading /\ held[a] = "none" /\ core # "down"
    /\ a \in Browsers => ~SectionBusy
    /\ held' = [held EXCEPT ![a] = "removed"] /\ core' = "bare"
    /\ UNCHANGED <<reloadInputs, counter, reloading, latest, missed, faults, dropped>>

\* addUsers reads who is enabled.
ReloadReads(a) ==
    /\ held[a] = "removed"
    /\ held' = [held EXCEPT ![a] = On(row.enable)]
    /\ latest' = a /\ missed' = "none"
    /\ UNCHANGED <<reloadInputs, counter, core, reloading, faults, dropped>>

HasRead(a) == held[a] \in {"on", "off"}

\* AddInbound; an inbound that somebody else has added meanwhile is replaced.
ReloadAdds(a) ==
    /\ HasRead(a) /\ core # "down"
    /\ core' = held[a] /\ Done(a)
    /\ missed' = IF latest = a THEN missed ELSE "overtaken"
    /\ UNCHANGED <<reloadInputs, counter, latest, faults, dropped>>

\* A core that is not running, or has not been published yet, has nothing to reload.
ReloadSkipped(a) ==
    /\ a \in reloading \ Browsers /\ held[a] = "none" /\ core = "down"
    /\ Done(a) /\ missed' = "skipped"
    /\ UNCHANGED <<reloadInputs, counter, core, latest, faults, dropped>>

\* The core refuses the inbound: it is stopped, or has taken another one on the
\* same port; or any step fails for a reason of its own.
Refused(a) == \/ HasRead(a) /\ core # "bare" /\ UNCHANGED faults
              \/ Fault

\* The job and the renewal only log it.
ReloadFails(a) ==
    /\ a \in reloading \ Browsers /\ Refused(a)
    /\ Done(a) /\ missed' = "failed"
    /\ UNCHANGED <<reloadInputs, counter, core, latest, dropped>>

\* A save restarts the core in the same section.
ReloadRestarts(b) ==
    /\ b \in Browsers /\ held[b] # "none" /\ Refused(b)
    /\ Done(b) /\ CoreStops
    /\ UNCHANGED <<row, form, today, taken, used, edits, renewals, clobbered, lastReset>>

ReloadStep(a) ==
    \/ ReloadRemoves(a) \/ ReloadReads(a) \/ ReloadAdds(a)
    \/ ReloadSkipped(a) \/ ReloadFails(a) \/ ReloadRestarts(a)

----------------------------------------------------------------------------

Traffic == Use \/ GetStats \/ SaveStats \/ SaveStatsFails \/ RestartCore \/ CoreStarts

Next ==
    \/ DayPasses
    \/ Traffic
    \/ DepleteClients
    \/ \E days, traffic \in 0..1 : ApplyPaidOrder(days, traffic)
    \/ \E b \in Editors : LoadClient(b) \/ Edit(b)
    \/ \E b \in BulkEditors : LoadList(b) \/ EditBulk(b)
    \/ \E a \in Reloaders : ReloadStep(a)

Spec == Init /\ [][Next]_vars

\* The cron ticks, a start ends and a goroutine that has to reload goes on.
Fairness ==
    /\ WF_vars(DepleteClients) /\ WF_vars(CoreStarts)
    /\ \A a \in Reloaders : WF_vars(ReloadStep(a))

FairSpec == Spec /\ Fairness

----------------------------------------------------------------------------
(* Properties. *)

Usage(r) == r.up + r.total

\* No traffic is counted twice: what the row, the collector and the core hold of
\* it never exceeds what was used, whatever is saved, reset, renewed or
\* restarted, and however old a saved form is (SaveStats adds a delta, the
\* browser writes absolute numbers).
NeverOvercharged == Usage(row) + counter + taken <= used

\* While the client keeps its name, traffic is lost in two ways only: a form that
\* was out of date was saved, or a failed commit or a restart of the core dropped
\* it.  Otherwise all of it is in the row, in the collector or in the core
\* (SaveStats, ResetClients, ApplyPaidOrder, the usage reset of the form).
TrafficIsAccounted ==
    ~clobbered /\ ~dropped => Usage(row) + counter + taken = used

\* When a core that runs and the row disagree on whether the client is let in,
\* somebody still has to reload its inbound; or the last reload was missed: it
\* failed, found a core that was starting, or added users it had read before
\* somebody else read them (the inbound ids that DepleteClients, ApplyPaidOrder
\* and findInboundsChanges return, RestartInbounds).
CoreAgrees ==
    core # "down" /\ Served # row.enable => reloading # {} \/ missed # "none"

\* The same of a disabled client when reloads fail and are not raced.
DisabledIsStopped ==
    Served /\ ~row.enable => reloading # {} \/ missed \in {"skipped", "overtaken"}

\* The pass of the deplete job leaves no client enabled that is over a limit,
\* although its first part may enable it (DepleteClients).
DepletedStaysOff == [][DepleteClients => ~(row'.enable /\ Depleted(row'))]_vars

\* Two periodic resets are more than a day apart, also when the row was saved
\* with a period of zero (clientResetPeriodDays), unless a stale form has put
\* the old date back.
ResetsAreSpaced ==
    [][lastReset' # lastReset =>
          lastReset = 0 \/ clobbered \/ lastReset' > lastReset + 1]_lastReset

\* Both, of every pass of the deplete job.
DepletePassIsSound == DepletedStaysOff /\ ResetsAreSpaced

\* A client over a limit is disabled and stopped in the end, or no longer over it,
\* or its reload was missed (DepleteJob.Run, RestartInbounds).
OverLimitIsStopped ==
    Depleted(row) /\ Served ~>
        (~row.enable /\ ~Served) \/ ~Depleted(row) \/ missed # "none"

\* What the list of clients does not carry.
Uncarried(r) == <<r.total, r.delayStart, r.autoReset, r.resetDays, r.nextReset>>

\* A bulk edit keeps the columns it does not carry (editbulk of ClientService.Save).
BulkKeepsTheRest ==
    [][(\E b \in BulkEditors : EditBulk(b)) => Uncarried(row') = Uncarried(row)]_vars

=============================================================================

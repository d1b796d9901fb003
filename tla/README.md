# S-UI-X in TLA+

TLA+ models of the parts of the S-UI-X panel whose correctness depends on the
order in which things happen: goroutines that share the sing-box core, delayed
restarts, self-updates that crash half way, payments that arrive twice, queues
that overflow while they are being stopped, sessions that end while a handshake
is under way, imports that fail between two renames. Next to them stand the pure
algorithms that have a reference to be compared with: the order of versions, the
upgrade of old databases, the import of another panel's database, the three
representations of an inbound. Every module is translated from the Go sources
(paths below are relative to `src/`); `PROJECT.json` maps each definition to the
lines it stands for.

## 1. Inventory

The panel is one Go process: an HTTP API with a web UI, a subscription server, a
SQLite database, a sing-box core embedded as a library, cron jobs, a Telegram
notifier and a Telegram bot that sells subscriptions.

| Component | State it keeps | Operations | What is hard, and what must hold |
|---|---|---|---|
| Restart manager (`service/restart_manager.go`) | `inFlight`, `pendingTimer`, condition variable | `run`, `runBlocking`, `ScheduleRestart`, `scheduleRestartBlocking`, `cancelPending`, timer callback | One slot over two locked sections, a callback and a cancellation. One owner at a time; no path leaks the slot or forgets a sleeper |
| Process lifecycle (`main.go`, `app/app.go`) | signal channel of capacity one, what the servers read at their start | `Init`, `Start`, `Stop`, `RestartApp` | A restart can be dropped, merged or cancelled. A setting that needs one must be loaded in the end; `Stop` must end |
| Configuration save and core sync (`service/config.go`, `coresync.go`, `core/main.go`, `cronjob/checkCoreJob.go`) | database rows, the running instance, start cooldown | `Save`, `RestartCore`, cron start, hot reload, full restart | The plan of a save is applied after its commit, next to other saves and restarts. The running core must follow the database |
| Inbounds (`service/inbounds.go`) | rows, users of each inbound | CRUD, `RestartInbounds`, `addUsers` | Called inside the restart manager by saves, outside by the deplete cron and the paid orders |
| Other configuration entities (`service/outbounds.go`, `endpoints.go`, `services.go`, `tagrefs*.go`) | rows that name each other by tags | CRUD, rename, the plan of a reload | Some references are captured when an adapter is built, others looked up per connection. Neither may be left without its tag |
| Core wrapper (`core/main.go`, `core/box.go`) | the box, its parts, the context they register in | `NewBox`, `Start`, `Close`, hot reload | A start that fails at any stage must leave nothing open; a reload must not meet a closed part |
| Connection and IP tracking (`core/tracker_*.go`, `ipmonitor/`) | tracked connections per epoch; pending and stored addresses, a cache | track, `Reset`, `Record`, flush, `Clear`, `Allow` | The enforcement reads a cache next to the flush; wrappers of an old epoch end at any time |
| Self-update (`service/panel_update*.go`, `app/app.go`) | binary, backup and marker files, the job | `Apply`, pipeline, `fail`, `CheckPendingUpdate`, `ClearPendingUpdate` | Crashes between two files; roll-back after failed boots. No fault may leave a binary that does not boot |
| Update check (`service/update*.go`, `config/version_policy.go`) | per channel the last release with its entity tag | `Check`, forced check, reset, `ResolveTarget` | The lock is released during the request; tag and release must stay a pair |
| Paid orders (`paidsub/payment.go`, `poll.go`) | orders, the client's volume and counters | create, confirm, poll, expire, refund | Redelivery, late payments, concurrent refunds. A payment grants exactly once, money and grant agree |
| Paid-subscription bot (`paidsub/bot.go`, `autoregister.go`, `broadcast.go`) | update offset, the poller, bindings, clients | start, stop, poll, `/start`, broadcast | An update is handled again when the offset was not stored; a stopped poller may outlive its successor's start |
| Client accounting (`service/client.go`, `service/stats.go`, `cronjob/depleteJob.go`) | usage counters, expiry, enable flag | collect, reset, deplete, edit | Counters live in the core, in the database and in the browser that edits the client. No usage may get lost, no depleted client may stay enabled |
| Audit writer (`service/audit_writer.go`) | bounded queue, notify channel, drop marker | `Enqueue`, `run`, `Stop` | Lost wake-ups, overflow, a push that races with `Stop`. Nothing vanishes uncounted |
| Telegram notifier (`service/telegram.go`, `runtime.go`) | bounded queue, condition variable, the notifier in place | `Enqueue`, `run`, `Stop`, replacement | Overflow next to a goroutine that sends, repeats or is stopped; a stopped notifier works next to its successor |
| Token-use debouncer (`service/token_use_debouncer.go`) | pending map, timer epoch, failure circuit, stop gate | `Record`, flush, `Stop` | A stale timer, a failed flush that is queued again, `Stop` during a flush |
| Failover groups (`service/failover_*.go`, `core/group_select.go`, `cronjob/failoverJob.go`) | active member, streaks | probe, select, switch | Hysteresis; a cycle that works with a group that has been edited, or a core that has been restarted |
| Realtime hub (`realtime/hub.go`, `api/realtime.go`) | tokens, clients, reservations, per-user counts | issue, reserve, register, publish, rotate | Counter and set must agree on every exit path; a rotation ends what belonged to old sessions |
| API layer (`api/save_dedup.go`, `rateLimit.go`, `apiV2Handler.go`) | claims of creates, attempts, windows, the map of tokens | dispatch, claim, limit, reload | A repeated create while the first one runs; a token map loaded next to changes of its table |
| Users and settings (`service/user.go`, `setting.go`, `secret_settings.go`) | accounts, tokens, settings, sealed secrets | CRUD, save of a form, re-sealing at a start | Forms are older than the rows they overwrite; the key of the secrets may change between two starts |
| Subscriptions (`sub/`) | cached answers | gates, cache, clear | An answer computed before an edit is stored after the cache was cleared |
| Links (`util/genLink.go`, `linkToJson.go`, `outJson.go`, `sub/clashService.go`) | - | one inbound to a link, an outbound, a proxy | Three translations written apart, that must tell a client the same |
| Database import (`database/backup.go`) | the database file, its fallback, the staged upload | swap, verify, restore, restart | Each step can fail or be the last one of the process; the live database must stay usable |
| Migrations (`cmd/migration/`, `database/adapt.go`, `db.go`) | the version of the database | the ladder, adaptation, repair | Failure and repetition: every rung once, nothing lost |
| 3x-ui import (`database/importxui/`, `api/import_xui.go`) | plans, backups | plan, review, apply, one shot, roll-back | A plan is applied to a database that has changed since |
| IP certificates (`service/ip_certificate_*.go`, `cronjob/certRenewJob.go`) | two files, nine settings, what the server has loaded | issue, renew, apply, command line | Written one by one; the renewal only counts when the listener uses it |
| Cron scheduler, doctor, observability, frontend | - | - | The jobs are actors of the modules above; reports only read; the frontend is another program |

They interact in four ways:

- **The slot of the restart manager.** Saves, `RestartCore`, `StopCore`, the cron
  starter, `RestartApp`, the certificate renewal and the database import all need
  it. The deplete cron and the paid orders change the core without it.
- **The core's own read/write lock** guards the instance during one call, not
  over a hot reload (remove, read users, add).
- **SQLite** has one writer, so a transaction is a step; several reads that are
  not in one transaction (`GetConfig`, `RestartInbounds`) are several steps.
- **Signals.** A restart of the panel is a SIGHUP of the process to itself, over
  a timer and a channel of capacity one.

## 2. Modules

| Module | Models | Uses |
|---|---|---|
| `RestartSlot` | What the restart manager promises: a slot with one owner, handed to a timer without being freed, free again and again | - |
| `RestartManager` | Every locked section of `restart_manager.go`, one action each | `RestartSlot` (as refinement target) |
| `AppRestart` | Signal loop, `Stop`, `Start`, certificate renewal and database import around the manager | EXTENDS `RestartManager` |
| `CoreSync` | The running core against the database. The slot is the one of `RestartSlot`, as its variable `slot` | - |
| `CoreBox` | The box inside the core: its parts, their stages and the context they register in | - |
| `TagRefs` | The references between rows, and the captures in the running core | - |
| `ConnTracker`, `IpMonitor` | Tracked connections and their epochs; the addresses of a client and its limit | - |
| `SelfUpdate` | Update job, its files, the boots after it | - |
| `UpdateCheck` | The caches of the two channels, and the update that starts from them | EXTENDS `Versions` |
| `Versions` | The order of version strings, with the definition it is compared with | - |
| `PaidOrders` | Orders, provider calls, refunds and the client's traffic counters | - |
| `Registration` | The receiver of the clients' bot and `/start` | - |
| `ClientQuota` | The row of a client between the collector, the deplete job, the renewals and two kinds of browsers | - |
| `AuditWriter`, `TelegramNotifier` | Two bounded queues with one goroutine each, their overflow and their stop | - |
| `TokenUse` | The debouncer with its timers, circuit and gate | - |
| `Failover` | The job of the failover groups | - |
| `Realtime` | Tokens, handshakes, the hub and the rotation of sessions | - |
| `SaveDedup`, `RateLimits`, `Accounts` | The guards in front of the API, accounts and the map of tokens | - |
| `Settings` | Forms, validation, sealed secrets | - |
| `Subscriptions` | Gates and cache of the subscription server | - |
| `Links` | The representations of an inbound, as functions | - |
| `DbImport`, `Migration`, `XuiImport` | What replaces or rewrites the database | - |
| `IpCertificate` | Files, settings and what is served | - |
| `PanelRestarts`, `PanelRuntime`, `PanelServices`, `PanelData` | Compositions of the components that share one run | all of the above but `CoreSync`, `PaidOrders`, `ClientQuota` |
| `RestartManagerProofs`, `CoreSyncProofs`, `ClientQuotaProofs`, `PaidOrdersProofs` | Theorems about the module of that name | that module, TLAPS |
| `PanelRestartsProofs`, `PanelRuntimeProofs`, `PanelServicesProofs`, `PanelDataProofs` | Theorems about the parts of a composition, one section each, and about the composition | that composition, TLAPS |

**Compositions.** Components that meet in the code meet in one module:
`AppRestart` extends `RestartManager`, `CoreSync` has the slot and the reloads
outside it, `TokenUse` its gate, `UpdateCheck` the order of versions. The four
`Panel...` modules put components next to each other that do not meet: they
share no variable, and no step of one enables or disables a step of another. A
property of one component then holds in the full interleaving exactly when it
holds in the behaviours where the others stutter, so a composition explores those:
`focus`, chosen in the initial state, is the component that moves. Fairness is
stated per component as `WF_vars(focus = ... /\ Action)`, and each property is
that of its component, unchanged. Where one component may trigger another (a
restart that ends a poller, a save that reloads the core), the second module
lets the trigger come at any time, which is more than the first one does.

How state and actions correspond to the code:

- **RestartManager.** `inFlight` and `pendingTimer` are the fields. `pc[c]` is the
  place of a goroutine: in an operation (`section`), between `begin` and
  `armRestartTimer` (`arming`), asleep in `cond.Wait` (`waitOp`, `waitArm`),
  woken and about to test the loop again (`wokeOp`, `wokeArm`). `timer[t]` is
  what the Go runtime does with a timer: `armed`, callback `started`, signal
  sent (`signalled`). No section blocks with the mutex held, so a section is one
  step. `time.Timer.Stop` is true exactly while the timer is `armed`.
- **AppRestart.** `stale` are the settings written since the panel read them.
  A goroutine writes first and asks for its restart in a later step (`task`), as
  `applyToPanel` and `ImportDB` do. `Notify` drops a signal that finds the
  buffer full, as `os/signal` does.
- **CoreSync.** The content of an object is the number of commits that changed
  it: `db[o]` in the database, `served[o]` in the running core. `pc[a]` walks
  through `applyPostCommitCoreChangesLocked`, `restartCoreLocked`,
  `startCoreLocked` and `RestartInbounds`. `config[a]` is what an actor has read
  and not used yet: that it may be old by then is the point of the module. The
  object `Blob` stands for the raw sing-box settings, which have no hot reload.
  `raced` remembers that a reload outside the manager met a section, another
  reload, or failed.
- **SelfUpdate.** A file is the version it holds, `Torn` while a copy has
  truncated it, or `NoFile`. `image` is what the process runs, `busy` says that
  execPath is still that file: the rename makes it false. `guarded` is a kernel
  that refuses to open a running image for writing (ETXTBSY, as Linux does);
  both kinds are explored.
- **PaidOrders.** One client, one traffic tariff. A transaction is one step, a
  provider call lies between two. `age` replaces the clock: before the TTL,
  after it, after the grace window of polled orders. `notice[o]` is a payment
  update that Telegram still delivers. `granted`, `up` and `total` are the
  uploaded half of the counters; the code treats the other half the same way.
- **AuditWriter.** An event is its severity and the position of its push.
  `runPc` is the place of `run` between the places where it can lose the
  processor; a producer walks through `push` and the four steps of
  `maybeEmitDropMarker`, the load outside of the marker's mutex included.

- **ClientQuota.** One client. `row` is its row, `form[b]` what a browser has
  loaded of it (`LoadList` is the list of clients, which lacks some columns).
  `counter` is what the core has counted, `taken` what `GetStats` has taken out
  of it and `SaveStats` has not committed. A transaction is one step, and the
  goroutine is in `reloading` until the reload that follows; `CoreSync` takes
  that reload apart. `up` stands for up and down together, time is in days.
  `dropped`, `clobbered` and `lastReset` only record what happened: traffic
  thrown away, a form saved that was out of date, the last periodic reset.

- **PanelRestarts** adds three parts that live through a restart in place. In
  **TelegramNotifier** a message is its number; `tnQueue[b]`, `tnRun[b]` and
  `tnJob[b]` are the queue of a notifier and what its goroutine does with the
  message in hand, `tnCall[c]` is a caller between the places where it holds no
  lock, `tnFate[m]` records how a message ended. `TNStop` sets the flag,
  `TNStopEnds` is the end of the wait, in time or not, and puts the next
  notifier in place. In **Registration** `rgAt[p]` is the place of a poller, `rgLeft`
  and `rgLast` its batch; the lookup, the count for the cap, the creation and
  the binding are four transactions and four actions (`RGLookup`, `RGCap`,
  `RGCreate`, `RGBind`). `RGStore` writes the offset after the batch. A cancelled
  poller goes on until its batch is done. In **IpCertificate** `icAt` is the next
  write of `obtainAndPersist` and `apply`, in the order of `ICAfter`; `ICFail`
  lets any of them fail, `ICDie` kills the process between any two, `ICPass` is
  the cron job and the unit of time.
- **CoreBox.** `cbStage[p]` is how far a part of the box is, `cbPc` and `cbStep`
  the position in `Start` or `Close`; `cbRegistered[p]` is the box whose part the
  context of the core yields. `CBEnter` and `CBLeave` are the read lock of
  `withRuntime`, `CBDetach` the write lock of `Stop`.
- **TagRefs.** `trTag[r]` is the tag of a row, `trRefs`, `trSsm` and `trLazy` who
  names it; `trStale` are captures whose adapter is gone. A save is one action
  with its checks, its transaction and its plan of reloads.
- **ConnTracker, IpMonitor.** Wrappers belong to the epoch they were made in
  (`ctOf`), `ctInflight` is the wait group of each. An address goes from
  `imPending` through `imFlush` to `imRows`; `imEntry` and `imKnown` are the
  cache, `imRefresh` the load in the background. `imLate` and `imOverlapped`
  record that a load ran next to a flush.
- **Accounts, SaveDedup, RateLimits.** A handler commits (`ACAddToken`, ...),
  reads the table (`ACLoadTokens`) and publishes the map (`ACReloadTokens`).
  `sdSeen` is the entry of a claim with the age that matters; `SDAge` lets it
  pass the window or the cap. A limiter is a record under one key, a call is one
  step, the clock ticks between. A list of times is the set of its requests, each
  with its time and its place (`RLStamps`).
- **Settings.** `stForm[a]` is the form in a browser, with markers for secrets;
  `STPost` is the validation of a save, `STCommit` its transaction, `STBoot` a
  start with its re-sealing. `stMeant` records what the operators last made of a
  secret. A sealed value is the value and the box that seals it.
- **Subscriptions.** A request asks the cache (`SBHit`, `SBMiss`), reads the row,
  stores the answer, at three times. A body is the version of the row it comes
  from.
- **TokenUse.** `tuTimer` and `tuFresh[c]` stand for `d.timer` and the epoch of
  a callback; `tuAt[c]` is its place between two sections; `tuHolder` holds the
  gate. A use is its position among all uses.
- **Realtime.** `rtAt[h]` is the place of a browser tab from its request for a
  token to the end of its handler; `rtByUser` and `rtByIP` are the counters,
  `rtClients` the set of the hub. A rotation is `rtRotator` with the steps that
  change the setting, close the sockets and reset the tokens. Tokens live equally
  long, so `rtTokens` is in the order of their expiry and the first `rtExpired` of
  them are over.
- **Failover.** One group. `FOBegin` reads the group, `FOProbe` probes it,
  `FODecide` counts, chooses and switches; edits and restarts fall between.
- **UpdateCheck, Versions.** A release is its position and its version;
  a check is the lock, the request and the lock again. `CompareSemver` is the
  code, `VXKey` and `VXBefore` the definition of semantic versions it is
  compared with.
- **Migration, DbImport, XuiImport.** A database is a record of what the code
  rewrites. The ladder is one function per rung and one action `MGRung`; the
  import is a stage per file operation (`DIStep`), each of which may fail or be
  the last one; `XITransaction` is what applying a plan does to the database: one
  step per row (`XITlsStep`, `XIRowStep`, `XIClientStep`), in the order of the
  source. `XIUploads` are the files an operator may upload and `XILive` the databases
  they may meet. `XIUploadOK` and `XIDbOK` say what both are: tags are unique, while
  certificates and clients may be alike in all but their ids, and then the first one
  is used, as gorm's `First` and `findExistingRealityTLS` do. An operator who renames
  an item takes `XINewName`, a name that no row of the file has.
- **Links.** An inbound is a function from fields to values, `LinkParams`,
  `FromLink`, `JsonOutbound` and `ClashProxy` are the translations. `Lost` names
  the fields a link is known not to carry; there is no state. `One` and `++` stand
  for `:>` and `@@`, and `Unset` for the empty text: the provers know nothing of
  `TLC.tla` and cannot read an empty string.

Operators that a comment calls a *variant* are plausible mistakes in the code,
kept next to the definition they change: each shows that a property can fail.

## 3. What the runs check

| Run | Bounds | Shows |
|---|---|---|
| `PanelRestarts.cfg` | 3 callers and 2 timers; 2 notifiers with a queue of 2, 3 messages; 2 pollers, 2 senders, a cap of 1, 2 updates, 1 fault; a certificate of 13 passes, 2 addresses, 4 refusals, 1 incident | The slot: `SlotExclusive`, `PendingPublished`, `NoLostWakeup`, the manager implements `RestartSlot` (`ImplementsSlot`). `TNMessagesAreHeld`, `RGSubscribersAreKept`, `ICCertificateIsValid`, and all of it gets on (`RestartsAreSurvived`, below) |
| `PanelRuntime.cfg` | main and 2 goroutines, 2 timers, 4 arrivals; 2 of each actor, 1 fault of each kind, 3 changes of accounts, 3 boxes, 2 epochs | `RestartsComplete`, `RLLimitsHold`, `ACTokensFollowRows`, `STSecretsAreSafe`, `SBOutputIsRecent`, `IMAddressesKept`, `CTConnectionsKept`, `CBBoxIsWhole` |
| `PanelServices.cfg` | audit: 2 producers, queue and batch of 2, 3 events, threshold 1, 1 failed insert; 3 uses of a token, 2 failed writes, 2 stops; 2 sockets of 1 user, 1 rotation; groups of 2, hysteresis 2, 2 outages; 2 creates | `AuditIsKept`, `TUUsesAreKept`, `RTClientsAreAccounted`, `FOStaysCalm`, `SDClaimIsExact`, and `ServicesGetOn` |
| `PanelData.cfg` | versions 0 to 2, version 2 does not boot, 4 boots, 3 faults, 1 reload; 2 checkers, 2 releases; 1 importer with 2 imports, 2 faults, 2 crashes; 1 plan, 1 one-shot import, 1 save between, 1 fault; every database of `MGDatabases`; 2 uploads and 3 live databases, one of them with two clients of a name and two rows of a certificate; every pair of `VXSample`, every inbound of `Links` with no, one or two addresses that name the same server | `UpdatesAreSound`, an update job ends (`JobEnds`), `DIDataSurvives`, `MGUpgradeIsSafe`, `XIImportIsFaithful`, `TRReferencesHold`, `RepresentationsAgree` |
| `CoreSync.cfg` | 1 inbound and the blob, 2 versions each, 2 saves, 1 `RestartCore`, 1 reloader, 1 failure | A core behind the database is owed an update by somebody (`LagIsOwed`); it comes back after a failed start and every commit is served in the end (`CoreFollows`: `CoreComesBack`, `ChangeIsServed`) |
| `PaidOrders.cfg` | 2 orders, 2 refunders, 2 units of traffic, 1 deletion of the tariff, 1 error | Volume and totals are those of the orders in force (`BooksMatchOrders`); money before grant and before refund (`MoneyComesFirst`); a payment is not dropped (`PaymentIsNotDropped`) |
| `ClientQuota.cfg` | 1 editor, 1 bulk editor, each opening one form, 3 days, 2 units of traffic, 1 renewal, 1 fault; clients with and without expiry, delayed start and periodic reset | No traffic is counted twice (`NeverOvercharged`) or lost unless a stale form is saved or a commit fails (`TrafficIsAccounted`); the core is reloaded when it disagrees (`CoreAgrees`); the pass of the job leaves no depleted client enabled (`DepletedStaysOff`) and resets at most every other day (`ResetsAreSpaced`); a client over a limit is stopped (`OverLimitIsStopped`) |
| `AppRestartImport.cfg` | as `PanelRuntime.cfg` | **Violated:** the restart after a database import can be dropped (finding 1) |
| `CoreSyncDeplete.cfg` | 1 save, no failure | **Violated:** a reload of the deplete cron is lost next to a starting core (finding 2) |
| `SelfUpdateRollback.cfg` | 1 release that does not boot, no fault | **Violated:** the roll-back fails on a kernel that guards running images (finding 3) |
| `PaidOrdersRefund.cfg` | 2 orders, no error | **Violated:** a refund overwrites the counter of a newer window (finding 4) |
| `ClientQuotaBulk.cfg` | 1 bulk edit, 2 days, 1 unit, no fault | **Violated:** a bulk edit sets the totals to zero (finding 5) |

A property of a composition is the conjunction of what one component promises;
its parts have names of their own in the module of the component, and the type
invariant is one of them:

| Property | Parts |
|---|---|
| `RestartsComplete` | the restart of a renewal the panel has not read is asked for or on its way (`RenewalIsOwed`), and the certificate is loaded in the end (`RenewalReloaded`); `Stop` and `RestartApp` end (`StopCompletes`) |
| `TNMessagesAreHeld` | an open message is in exactly one place and in order (`TNOpenIsHeld`); it is given up without a record only because of a stop (`TNAbandonsWhenStopped`) |
| `RGSubscribersAreKept` | the cap holds up to the pollers at work (`RGCapHolds`); clients are bound (`RGClientsAreBound`) and bindings stay (`RGBindingsStay`); Telegram forgets only what was handled (`RGForgetsHandled`) |
| `ICCertificateIsValid` | the served certificate is valid (`ICServedIsValid`); what is stored never promises more than the files hold (`ICStoredIsTrue`) |
| `RestartsAreSurvived` | the liveness of the four: every sleeper wakes and the slot comes free (`SlotIsServed`); a message and a stopped notifier end (`TNMessagesAreDelivered`); a `/start` is handled and a cancelled poller ends (`RGStartsGetThrough`); the target comes to be served, and half of a pair is made good by the renewal that goes on (`ICCertificateIsServed`) |
| `RLLimitsHold` | a block lasts (`RLBlockHolds`); a sliding window lets through no more than its limit, a fixed one no more than twice (`RLWindowsHold`) |
| `ACTokensFollowRows` | a name is one account (`ACNamesUnique`); between requests the map is what the rows say, unless a reload failed or was overtaken (`ACMapIsCurrent`) |
| `STSecretsAreSafe` | a secret is what an operator last made it (`STSecretsKept`); it opens (`STSecretsOpen`); with a key none is left under the table's own (`STSealedOutside`) |
| `SBOutputIsRecent` | a hit was true at most `TTL` ago (`SBHitsAreRecent`); after a save only a request that was under way brings an older answer back (`SBSaveIsSeen`) |
| `IMAddressesKept` | a recorded address is pending, in a flush or stored (`IMNothingForgotten`); an entry counts every one but those of an overlapped load (`IMEntryCounts`) |
| `CTConnectionsKept` | an open connection is in the map and of this epoch (`CTNoStray`); a `Reset` that reports idle has seen every wrapper end (`CTResetIsClean`) |
| `CBBoxIsWhole` | what accepts traffic can carry it (`CBTrafficIsCarried`); a reload meets live parts (`CBReloadsMeetLiveParts`); a stopped core leaves nothing open (`CBStoppedIsClosed`); the context yields parts of the same box (`CBContextIsOwn`) |
| `AuditIsKept` | `NoLostSignal`, `EventsConserved`, `StopDrains`, `WarningsOutliveInfo` |
| `TUUsesAreKept` | a flush is owed for what is pending (`TUFlushIsOwed`); an older use never replaces a newer one (`TUNewestIsKept`) |
| `RTClientsAreAccounted` | the counters are those of the sockets (`RTSlotsMatchSockets`); a dropped socket is closed (`RTDroppedIsClosed`); a rotation ends the sockets and the tokens of earlier generations (`RTRotationEndsAll`); tokens are swept (`RTTokensAreSwept`) |
| `FOStaysCalm` | one good sample moves nothing (`FONoFlap`) |
| `ServicesGetOn` | the liveness of the services: the queue empties (`QueueEmpties`), uses are written (`TUDrains`), a dropped socket gives its slot back (`RTDroppedLeaves`); quiet members, and the selector rests on the best one (`FOSettles`) |
| `UpdatesAreSound` | a failed update keeps a version that was installed on purpose (`VersionsAreSafe`: `FailedUpdateKeepsVersion`, `NoStaleMarker`, `OneFaultIsSurvived`); tag and release are a pair (`UCEtagMatches`); an update leads upwards (`UCInstallsUpwards`); the order is that of semantic versions (`SemverOrder`) |
| `DIDataSurvives` | the panel serves the data in force (`DIServesData`); the last copy leaves the disk only when the next import begins (`DILastCopy`; the live file counts as a copy unless it is an import's own that is still on trial, `DIOnTrial`) |
| `MGUpgradeIsSafe` | every rung once (`MGEveryRungOnce`); what was configured is kept (`MGMeaningKept`); a failure changes nothing (`MGFailureChangesNothing`) |
| `XIImportIsFaithful` | what was there stays (`XIKept`), what was taken arrives whole (`XIArrived`), and a repetition changes nothing (`XIRepeats`) |
| `TRReferencesHold` | no capture is bound to what is gone (`TRCapturesFresh`); no save takes away what a reference names (`TRNothingDangles`) |
| `RepresentationsAgree` | `LinkMatchesJson` and `ClashMatches`, up to the fields `Lost` names |
| `BooksMatchOrders` | `VolumeMatchesOrders`; `TotalMatchesOrders`: there is a running total over the orders in force that ends in the total |

**Why the bounds are enough.** Three callers let two goroutines sleep in
`beginBlocking` while a third owns the slot, and two timers let a cancelled
callback run next to a new restart; the proofs below remove both bounds. Two
saves and a reload give every pair of writers that can meet in `CoreSync`, two
versions let a read be old by one commit and the next one come before it is
used, and the one failure may fall on any call. Two orders are what the rule
about the most recent purchase needs, two refunders what a double refund needs.
In `ClientQuota` a form of either kind can be open next to every other writer of
the row; three days are a reset, the day that must pass, and the next reset; the
volume is 1, so the second unit of traffic is the one over it; the one fault may
fall on any commit, reload or core. The reset period is 0, the value that must be
clamped.

In `AuditWriter` three events overflow a queue of two, or are written as a batch
of two with one left for the next; the threshold of 1 is reached by the first
drop. Two notifiers and two pollers let a new one work next to a stopped one; a
queue of two overflows with the third message. The life of the certificate and
its threshold are those of the code, in periods of the cron job. In `TokenUse`
two callbacks are a stale and a current one, three uses one that is queued
again, one that overtakes it and one for the flush of the stop. Two
sockets of a user with one slot are the refused and the accepted one, and the
event that fills a queue of one makes its client slow. The lists of members
contain a group in both orders, so an edit swaps senior and junior. Two requests
are what a race of a read with a clearing needs, two handlers what an overtaken
reload needs. Two resets leave two epochs behind; three boxes are one that runs,
one that is validated next to it and one that comes after it. In `DbImport` the
second import meets what the first one left, and either fault or crash may fall
on the roll-back of the other. `MGDatabases` has every version of the ladder with
every kind of object it converts; `VXSample` every kind of identifier at the
positions that decide. The proofs hold without these bounds.

Counters that bound the inputs (`MaxCalls`, `MaxVer`, `MaxFails`, `MaxRestarts`,
`MaxBoots`, `MaxErrors`, `MaxReloads`, `MaxUse`, `MaxEdits`, `MaxEvents`, `MaxDay`,
`MaxRenewals`, `MaxFaults`, `MaxUses`, `MaxStops`, `MaxRotations`, `MaxOutages`,
`MaxRows`, `MaxTime`, `MaxChanges`, `MaxSaves`, `MaxStStarts`, `MaxSealFaults`,
`MaxClock`, `MaxIPFaults`, `MaxIPClears`, `MaxEpochs`, `MaxBoxes`, `MaxBoxFaults`,
`MaxPublished`, `MaxChecks`, `MaxResets`, `MaxMigrateFaults`, `MaxStarts`,
`MaxImports`, `MaxDbFaults`, `MaxDbCrashes`, `MaxXi...`, `MaxMessages`, `Notifiers`,
`Pollers`, `MaxUpdates`, `MaxMishaps`, `MaxRefused`, `MaxMoves`, `MaxIncidents`)
guard only what comes from outside or fails, never a step of the code. `MaxPerUser`,
`MaxPerIP`, `MaxWSTokens`, `QueueSize`, `QueueLimit`, `Capacity`, `BatchSize`,
`Threshold`, `MaxFailures`, `Window`, `MaxInWindow`, `TTL`, `Limit`, `Hysteresis`,
`MaxClients` and `Backoffs` are limits of the code, made small.

**Fairness.**

- Restart manager (`SlotFairness`): operations and `armRestartTimer` return, the
  runtime fires due timers. Nothing is assumed of new calls. A woken goroutine
  need not win the slot: a stream of cron ticks may overtake it, so
  `EverySleeperWakes` promises the wake-up and not the slot.
- `AppRestart` (in `RuntimeFairSpec`): goroutines inside a call, timers and main go on.
- `CoreSync`: goroutines go on, the cron ticks, the cooldown ends. Strong
  fairness for `EnterSection` (a save or a `RestartCore` that waits for the slot)
  and for `CronTick`: each release broadcasts to all sleepers, sections are
  short, and the cron ticks every few seconds, so neither loses the race for
  ever. Admins and savers start no call by fairness.
- `SelfUpdate` (in `DataFairSpec`): the job goes on (the download has a timeout)
  and the service manager starts the process again.
- `PaidOrders`: the poll job ticks and the bot handles its updates
  (`PaidOrdersRefund.cfg` only; the passing run checks invariants).
- `AuditFairness`: the goroutine `run` is scheduled; nothing of the producers.
- `NotifierFairness`: goroutines are scheduled, a request has a time limit and
  the delays between attempts are bounded (`telegramMaxRetryAfter`). Nobody needs
  to notify.
- `BotFairness`: a poller goes on, its requests have a time limit; `StopBot`
  returns after its wait, and what stopped a bot starts it again.
- `CertificateFairness`: the cron job keeps its period, an issuance ends (its
  requests have time limits). Nothing makes the authority agree: it refuses at
  most `MaxRefused` times in a row, less than the margin of the threshold.
- `TokenUseFairness`: timers fire, callbacks and forced flushes go on, the circuit
  elapses. Strong fairness for the end of the suspension (`TUResume`), because
  the quiet timer may be armed again by another stop before it runs.
- `RealtimeFairness`: handlers and `onDrop` calls are scheduled; browsers, peers
  and administrators owe nothing.
- `FailoverFairness`: the job runs again and again, a probe has a deadline, and a
  stopped or outdated core is started again by the cron starter.
- `ClientQuota`: the deplete job ticks, and a goroutine that has committed goes
  on to its reload. Nobody needs to use, save, pay or collect.

Deadlock checking is on where the system cannot stop, and off where the process
may exit or where the inputs run out; each `.cfg` says which.

## 4. Findings

1. **A database import may not restart the panel** (`database/backup.go:334`).
   Its restart is `ScheduleRestart`, which a core operation in progress turns
   into a no-op that returns `nil`. The panel keeps the settings of the old
   database. The certificate renewal had the same problem and uses
   `scheduleRestartBlocking` for it: `AppRestart` checks one and refutes the other.
2. **A deplete reload may be lost** (`cronjob/depleteJob.go:25`).
   `RestartInbounds` outside the manager sees a core that is not running and
   returns; the start in progress has read the users before they were disabled.
   Nothing failed, nothing is under way, and the core differs from the database.
3. **The boot-time roll-back cannot write the binary**
   (`service/panel_update_apply.go:285`). The process that restores execPath
   runs it; `copyFile` opens it with `O_TRUNC`, and Linux answers ETXTBSY. (A
   rename of a copy, as the swap does, would not.)
4. **The refund of an order that was paid first but created last**
   (`paidsub/payment.go:432`) overwrites the live counters, because the most
   recent purchase is looked up by id and not by the time of payment.
5. **A bulk edit wipes what the list of clients does not carry**
   (`service/client.go:219`). It upserts whole rows that come from `GetAll`: the
   totals and the reset settings arrive as zeros and are stored. Only links and
   configuration are filled in from the old row.


Further observations, which no run states because they qualify a property above
or lie outside the model:

- Two imports at once share the names of the staged file and the fallback; with
  two `Importers`, `DIServesData` fails (`database/backup.go`).
- A create that runs longer than two minutes loses its claim
  (`api/save_dedup.go`): `SDOneInFlight`, the comment taken literally, fails then.
- An answer of the subscription server that was stored by name is still served
  after the administrator requires secrets, for at most the life of an entry: the
  setting is only read when the cache has no answer (`SBGateIsFresh`).
- A service that names an inbound keeps the adapter of an inbound that is edited
  until the core restarts (`TRServicesFresh`).
- A reload of the token map that fails, or that publishes what it had read before
  another change, leaves the map behind until the next one (`ACCacheIsReloaded`).
- On the beta channel a newest release whose tag does not parse is kept as the
  best one, because no comparison with it answers (`UCBetaIsHighest`).
- An inbound with an address that overrides two server names gives links that
  differ from the JSON subscription (`LinkMatchesJson` with a list of two
  names in `Overrides`). That the addresses of an inbound are alike is therefore the
  hypothesis of `RepresentationsStayAligned`, and needed.
- Certificates: the job writes the target back over one an administrator saves
  meanwhile; a crash between the two files leaves the panel without a web server
  until the command line issues again; a failed apply puts the retry off until
  the expiry is near; a panel that restarts more often than every 12 hours never
  reaches the next pass of the cron job.
- Bot: two pollers after a stop that timed out may pass the cap by one and leave
  a client without a binding; a binding an administrator makes during the
  registration is replaced; the bindings of deleted clients count toward the cap;
  a cancelled poller handles the rest of its batch without being able to answer.

## 5. What is proved

### The restart manager

`RestartManagerProofs` proves for every set of callers and timers
(`RestartAssumption` only says that the sets, `NoTimer` and `Free` are distinct):

| Theorem | Statement |
|---|---|
| `TypeCorrect` | `Spec => []TypeOK` |
| `InvHolds` | `Spec => []Inv` |
| `SlotIsExclusive` | `Spec => []SlotExclusive` |
| `PendingIsPublished` | `Spec => []PendingPublished` |
| `WakeupsAreNotLost` | `Spec => []NoLostWakeup` |
| `SlotRefinement` | `Spec => ImplementsSlot`: the initial state of `RestartSlot`, and each step a step of the slot or a stutter |

The inductive invariant is `Inv == TypeOK /\ SlotExclusive /\ PendingPublished /\
NoLostWakeup`. None of the last three is inductive alone. `EndPending` frees the
slot whoever owns it: that this is its own slot needs that a live timer excludes
every caller and every other timer. That a freed slot leaves no sleeper needs
that no path frees it without `Broadcast` (`BroadcastFacts`), and
`cancelPending` frees it only for the timer it has stopped, which
`PendingPublished` identifies with the one owner. The proof of `NextInv` has one
step per action; `BeginInv` serves the four that only take the slot. The refinement maps `owner` to the
one holder (`OwnerFacts`) and goes through the same actions (`StepRefines`).

### The running core

`CoreSyncProofs` proves for any objects, saves, administrators and reloaders
(`CoreSyncAssumption`: the bounds are numbers, the kinds of actors and `Free` are
distinct, the blob is an object):

| Theorem | Statement |
|---|---|
| `TypeCorrect` | `Spec => []TypeOK` |
| `LagIsAlwaysOwed` | `Spec => []LagIsOwed` |

An actor puts into the core what it has read steps before, so `LagIsOwed` is not
inductive. `Inv == TypeOK /\ Places /\ ReadsAreCurrent /\ Lag` adds what such a
read is still worth: it is what the database says, or a save that changed the
object still waits for its section, which comes after this one. That no read is
in use when a section begins or a reload commits is the work of the slot
(`Places`: who works under the manager holds it) and of the condition in
`LagIsOwed` that no reload outside the manager has met a section; the case of
the lost reload in finding 2 is exactly where the step of `Reload` would fail.
`SameReads` and `SameLag` are the frame of the proof: they reduce a step of one
actor to what that actor uses and holds.

### The client's quota

`ClientQuotaProofs` proves for any browsers, limits, periods and bounds on the
inputs (`QuotaAssumption`: limits, periods and bounds are natural numbers, the
browsers of the two kinds are different, and `NoForm` is not a row):

| Theorem | Statement |
|---|---|
| `TypeCorrect` | `Spec => []TypeOK` |
| `TrafficIsCountedOnce` | `Spec => []NeverOvercharged` |
| `NoTrafficIsLost` | `Spec => []TrafficIsAccounted` |
| `CoreIsReloaded` | `Spec => []CoreAgrees` |
| `DepletedClientsStayOff` | `Spec => DepletedStaysOff` |
| `PeriodicResetsAreSpaced` | `Spec => ResetsAreSpaced` |

`Inv == TypeOK /\ NeverOvercharged /\ FormsBounded /\ TrafficIsAccounted /\
CoreAgrees`. `NeverOvercharged` alone is not inductive: a save puts a form in the
place of the row, so every open form must satisfy the same bound
(`FormsBounded`), and it does because traffic never moves back from the database
to the collector or the core. The lemmas `StartPeriodFacts` to `RenewalFacts`
say of each operator on rows that it keeps the sum of the counters. Two resets are
spaced (`SpacedInv`) because, as long as no stale form was saved, the next reset
of the row is later than the last one, `clientResetPeriodDays` adding at least
one day.

### Paid orders

`PaidOrdersProofs` proves for any number of orders and refunders, any tariffs and
errors (`PaidAssumption`: the bounds and the tariffs are numbers, the bot is one
of the refunders):

| Theorem | Statement |
|---|---|
| `TypeCorrect` | `Spec => []TypeOK`: no roll-back of a grant makes a counter negative |
| `MoneyIsFirst` | `Spec => []MoneyComesFirst` |
| `VolumeIsGranted` | `Spec => []VolumeMatchesOrders` |

A grant comes from an update or an answer of the provider that is older than the
grant, and a refund finishes what a call has begun; `Backed` says what such
knowledge is worth when it is used: its money was taken, its order was paid, its
Stars are back. The volume is a product of a cardinality, so each step needs the
effect of one order more or less on `Granting` (`OneOrder`): `ApplyBooks` and
`FinalizeBooks` have that argument, every other action leaves the books alone
(`SameBooks`). `Books` also keeps that an order that kept its grant was refunded.

| Theorem | Statement |
|---|---|
| `BooksAreRight` | `Spec => []BooksMatchOrders` |
| `PaymentsAreKept` | `Spec => []PaymentIsNotDropped` |

`TotalMatchesOrders` asks for a running total over the orders, and not for a fold,
so that an order more or less in force is a step of the proof and no induction:
`HasTotal` keeps a running total, and a grant or a refund of one order adds the same
difference to it from that order on. `PaymentsAreKept` needs `Expected`:
without an error a polled order has its invoice, and an order that expired was past
its time and stays so.

### The process around the manager

`PanelRuntimeProofs` proves that every step of `AppRestart` is a step of the manager
or leaves it alone (`AppStepsManager`), so the process inherits the theorems above,
main and its `Stop` included. `ProcessKeepsTheSlot` adds `RenewalIsOwed`, what the
liveness property `RenewalReloaded` rests on. It needs one fact more
(`PublishedIsToCome`): a request that is merged into the published restart is not
lost, because a published timer that has sent its signal has left it in the signal
channel, and main takes the publication back (`cancelPending`) in the same step in
which it takes the signal. A request that is dropped instead, as the one of the
import is (finding 1), breaks it.

### The parts of the running panel

All of these hold for any sets and bounds that the named assumption of the module
admits; the type invariant of the module is part of each.

| `PanelRuntimeProofs` | Statement | Inductive because of |
|---|---|---|
| `TokensFollowRows` | `ACSpec => []ACTokensFollowRows` | `MapFollows`, which also speaks of the time during requests, and `LoadsFollow`: a list that a handler has loaded and no change has overtaken is still what the rows say when it is published |
| `SecretsAreSafe` | `STSpec => []STSecretsAreSafe` | `STShape`: a form lives in a browser across restarts, so it says what any form, however stale, and any validated save may hold of a secret |
| `OutputIsRecent` | `SBSpec => []SBOutputIsRecent` | `SBAnswersHold`: what a request has built and what the cache holds ends within `TTL` of the end of its row, and was read before a save if its row is older than that save; a row in force has no end yet (`SBUntilIsOpen`) |
| `AddressesKept` | `IMSpec => []IMAddressesKept` | `LoadCounts`: what a load in the background has read lacks only what is pending, from the read to the publication; `OnTheirWay`: a flush that does not run holds nothing |
| `ConnectionsKept` | `CTSpec => []CTConnectionsKept` | `Counted`: the counter of each epoch is the number of its wrappers at work; `PastEpochs`: nobody is added to an epoch that is over |
| `BoxIsWhole` | `CBSpec => []CBBoxIsWhole` | `CBInv`: at step n of `Start` or of `Close` exactly the parts up to n have the stage of that step (`CBStarted`, `CBClosedUpTo`) |
| `LimitsHold` | `RLSpec => RLLimitsHold` | a block lasts by `RLBlockFacts`: a collection or a refused attempt leaves it alone. `RLInv`: the requests of the last window's length lie in the fixed window that is open, which counts them, or in the one before it (`RLCounts`) |
| `RuntimeIsSafe` | all of these, and those of the process, in `PanelRuntime` | |

### The services

| `PanelServicesProofs` | Statement | Inductive because of |
|---|---|---|
| `ClaimIsExact` | `SDSpec => []SDClaimIsExact` | `EntryTells`: before a save outlives the cap the entry says what is going on - in flight and one request at work, or none at work and the window open exactly while it is `done` |
| `EventsAreKept` | `Spec => AuditIsKept` | `AWInv`: events are known by the position of their push; table, batch and queue are in that order, one after the other (`AWOrder`), a lost or dropped event is in none of them (`AWPlaces`), and the lengths add up (`AWCounts`) |
| `UsesAreKept` | `TUSpec => []TUUsesAreKept` | `TUInv`: a timer that has fired still has its callback before `takePending` (`TUOwed`); a flush takes into empty hands (`TUHands`) and nothing that is held is newer than the newest use (`TUKept`) |
| `ClientsAreAccounted` | `RTSpec => []RTClientsAreAccounted` | `RTInv`: a request has a user from its token on (`RTOwned`), the hub only feeds requests in their loop (`RTFed`); `RTTokenInv`: a token is in the list once, for a request that has yet to use it (`RTListed`), and outside a rotation all are current (`RTFresh`) |
| `GroupsAreCalm` | `FOSpec => FOStaysCalm` | `FOInv`: at the decision the counters agree with the probes of this cycle, although the members may have changed since |
| `ServicesAreSafe` | all of these in `PanelServices` | |

### The parts that live through restarts

| `PanelRestartsProofs` | Statement | Inductive because of |
|---|---|---|
| `MessagesAreHeld` | `TNInit /\ [][TNNext]_tnVars => TNMessagesAreHeld` | `TNInv`: which places of a goroutine hold a message (`TNHands`), that no two places hold the same one (`TNPlaced`), and that the messages held are the open ones, all of them accepted (`TNOpen`) |
| `SubscribersAreKept` | the same of `RGSubscribersAreKept` | `RGInv`: a poller that has passed the cap keeps its place, so the bound clients and the pollers past the cap are counted together (`RGCount`); what lies before a stored offset was handled (`RGBatches`); alone, a poller past the lookup has a sender without a binding (`RGAlone`) |
| `CertificateIsValid` | the same of `[]ICCertificateIsValid` | `ICInv`: the life that is left covers the refusals still to come (`ICSettled`), and an issuance in its writes leaves no pair that could be loaded and is older than that (`ICHalfWay`) |
| `RestartsAreSafe` | all of these, and those of the manager, in `PanelRestarts` | |

### What is on disk

| `PanelDataProofs` | Statement | Inductive because of |
|---|---|---|
| `OrderIsSemver` | `compareSemver` is the order of `VXKey`, for all versions that parse, pre-releases of any length, and what does not parse | no state: the first position where two pre-releases differ exists by well-foundedness of the natural numbers, and decides on both sides |
| `ChecksAreSound`, `UpdatesStaySound` | `UCSpec => []UCUpdatesAreSound`, `DataFairSpec => []UpdatesAreSound` | `UCInv`: what a request under way carries is a pair as well (`UCRequestMatches`), unless another store or a reset has overtaken a request |
| `VersionsStaySafe` | `Spec => []VersionsAreSafe`, a part of `UpdatesAreSound` | `SUInv`: once the swap has taken the name of the running file, the backup was made of that very file (`SUFiles`); the errors it takes to come to each step of a job (`SUErrors`) |
| `UpgradesAreSafe` | `MGSpec => []MGUpgradeIsSafe` | `MGInv`: inside the transaction the database has climbed exactly the rungs before the next one, from what was found; outside it has climbed all of them or none. The effects of each rung are functions of the database that was found |
| `DataSurvives` | `DIOneAtATime`: `DISpec => DIDataSurvives` | `DIInv`: at every stage of an import, where the data in force are (`DIFilesAt`, `DIDataAt`) |
| `ReferencesHold` | `TRSpec => TRReferencesHold` | `TRInv`: captures are fresh, and an inbound names nothing |
| `AnyInboundIsRepresented`, `RepresentationsStayAligned` | `LinkMatchesJson` and `ClashMatches` for an inbound with any values in its fields; `DataFairSpec => []RepresentationsAgree` for any lists of addresses that override the same server name | no state: see below |
| `ImportIsFaithful` | `XISpec => XIImportIsFaithful` | `XIInv`: the database, every backup and every plan are well formed (`XIDbOK`, `XIPlanned`), whatever was saved, reviewed or rolled back since the plan was made; the rest is about one transaction, see below |
| `StoredDataIsSafe` | all of these, the representations apart, in `PanelData` | |

`DIOneAtATime` says that there is at most one importer. The code does not enforce
it: two imports at once share the names of the staged file and of the fallback
(section 4), and `DIServesData` is false then. The administrator who imports one
backup at a time is the case the theorem is about; failures, crashes, starts and the
number of imports are any.

`RepresentationsAgree` compares four translations of one inbound. The run evaluates
it on the inbounds of `Inbounds`, whose fields have one or two values each;
`AnyInboundIsRepresented` holds for `AnyInbound`, where server names, keys, paths,
speeds and passwords are any values, and `LinkInboundsAreAny` says that the inbounds
of the run are among them. The argument reads a function one field at a time: for
each translation a lemma (`LinkTlsParams` to `LinkClashTransport`) says what each of
its fields is, in terms of the fields of its argument, and that it has no field
without a value (`LinkFilled`). What is left is a comparison of the two sides per
type and field. Its hypothesis on addresses (`AddressesAlike`) is where
`getOutbounds` shares one TLS map among the copies it makes.

`XIImportIsFaithful` is about what one transaction computes, which is a recursive
function over the rows of the file. The provers have no induction over data, but
they have the least element of a set of numbers (`LeastExists`): what holds before
the first row and from each row to the next holds after the last one (`XIUpTo`), and
the function exists for the same reason (`XITlsRun`, `XIRowsRun`, `XIClientsRun`,
`XIRulesRun`). So each step has a lemma that says what it keeps and what it
adds (`XITlsStepSound`, `XIInboundStepSound`, `XIEndpointStepSound`,
`XIClientStepSound`, `XIAppendSound`), each run over the rows one that sums them up
(`XITlsSound` to `XIRulesSound`), and `XITransactionSound` puts the tables together.
What must not be undone by a later row is the point of each: a certificate that is
known keeps its row (`XITlsKnown`), an inbound that was imported is not written over
by the next, because the targets of a plan differ (`XIPlanned`), and a client is met
once per name. That a repetition changes nothing (`XITransactionRepeats`) needs that
it finds the same rows: the first client of a name is the one that has been given
the inbounds (`XIGiven`), and, unless a certificate was replaced, the first row of a
certificate is the one the inbounds refer to (`XITlsFirst`). The theorem
holds for any number of files, rows, clients, databases, requests, plans and saves.

**The compositions.** In each `Panel...` module one part moves and the others stutter,
so a behaviour of the composition is a behaviour of every part (`RuntimeNext` implies
`[ACNext]_acVars`, and so on): the last theorem of each module carries the
properties over to the specification the run explores.

### Not proved

Only model-checked:

- liveness of every module, which TLAPS does not cover under fairness. It is in
  properties of its own: `RestartsAreSurvived` (with the `[]<>(owner = Free)` of
  `RestartSlot`), `ServicesGetOn`, `JobEnds`, `CoreFollows`, `OverLimitIsStopped`
  and `RestartsComplete`, whose invariant part `RenewalIsOwed` is proved.

Every safety property of a passing run, invariant or action property, is stated by a
theorem.

## 6. What is left out

- Data: the contents of configuration objects, messages, amounts. A
  payment with the wrong amount or payer (marked failed) and the days a tariff
  adds are not in `PaidOrders`; nor is the enable flag of a client. Days and flag
  are in `ClientQuota`, which has no orders and no refunds.
- In `ClientQuota`: creation and deletion of the client, a rename (traffic
  counted under the old name finds no row any more), edits of the limits and the
  reset settings in the form of one client, changes of its inbounds, inbound
  lists that cannot be decoded.
- `Start` failing inside `RestartApp`; the servers, bots and crons that `Stop`
  and `Start` handle around the core.
- In `CoreSync`, sing-box is external: a start, a close, a removal or an
  addition is one step that succeeds or fails. `HotRead` covers a row and its
  users by either version. A failed removal of a live tag is one with a failed
  addition, because both lead to `ReloadFails`.
- In `SelfUpdate` the copy of the boot-time roll-back is one step, download,
  checksum and extraction are one step, and a failed update of the attempt
  counter is left out.
- A failed expiry pass of `PaidOrders` is the same as time that has not passed.
- The replacement of a stopped audit writer by `Runtime`, and the retention job.
- In `Registration`, menus, `/start` with a link or a code, rate limits and the
  broadcast; in `IpCertificate`, a certificate for an inbound, the account at the
  authority and the settings only the status shows.
- In `TelegramNotifier`, documents, backups and the detection of a chat, which
  are requests without a queue.
- In `Failover`, the due times of a group (a cycle may begin whenever none runs)
  and the throttling of alerts; other groups, which share nothing with it.
- In `Realtime`, more than one address, and the contents of events.
- In `Settings`, the single settings that have no rule among each other; of the
  numbers only their limits are checked.
- In `Subscriptions`, the texts of an answer: info lines, headers, routing rules.
- In `Migration`, pragmas, indexes, and columns that are added with a default; in
  `DbImport`, the checks of an upload before the swap are one step that accepts
  or refuses; in `XuiImport`, the history of imports and the conversion of the
  fields of a protocol.
- In `Links`, the encoding of a link as text and protocols that have no link.
- The dispatch of the API, its CSRF check and its responses; WARP; the doctor and
  the observability reports, which only read; the logger; the scheduler of the
  cron jobs, each of which is an actor of the module whose state it changes; the
  frontend.

## 7. Plan

1. *(done)* `RestartSlot`, `RestartManager` with proofs, `AppRestart`.
2. *(done)* `CoreSync` and `PaidOrders` with proofs, `SelfUpdate`, `AuditWriter`.
3. *(done)* `ClientQuota` with proofs.
4. *(done)* The services with timers and queues: `TokenUse`, `Realtime`, `Failover`,
   `SaveDedup`, `TelegramNotifier`, `Registration`.
5. *(done)* The API and the core: `RateLimits`, `Accounts`, `Settings`, `Subscriptions`,
   `IpMonitor`, `ConnTracker`, `CoreBox`, with the proofs listed above.
6. *(done)* What is on disk: `UpdateCheck`, `Versions`, `Migration`, `DbImport`,
   `XuiImport`, `TagRefs`, `IpCertificate`; the functions of `Links`.
7. *(done)* Proofs of the safety of every module, of the four
   compositions, and of the translations of `Links`.
8. Extensions: edits of limits and reset settings in `ClientQuota`, a rename
   between collection and commit, and a renewal of a client whose start is still
   delayed (`StartPeriod` replaces the expiry that was paid for); the
   replacement of a stopped audit writer; a `Start` that fails in `RestartApp`;
   several failover groups in one core.

------------------------------ MODULE SelfUpdate ------------------------------
(***************************************************************************)
(* The self-update of the panel: the job that downloads a release, swaps   *)
(* the binary and exits (service/panel_update.go, panel_update_apply.go),  *)
(* and the safety net of the next boots, which counts them in a marker     *)
(* file and restores the backup (app/app.go, CheckPendingUpdate).          *)
(*                                                                         *)
(* A file is the version it holds, Torn while a copy truncated it, or      *)
(* NoFile.  Every file the job touches survives the process.               *)
(***************************************************************************)
EXTENDS Naturals

CONSTANTS
    MaxVersion,     \* versions are 0..MaxVersion, 0 is installed first
    Broken,         \* versions that die in every boot before their API is up
    NoFile, Torn,
    MaxBoots,       \* bound on the boots
    MaxErrors,      \* bound on crashes and I/O errors
    MaxReloads      \* bound on in-process restarts

RollbackAfterAttempts == 2

Versions == 0..MaxVersion

ASSUME UpdateAssumption ==
    /\ MaxVersion \in Nat /\ Broken \subseteq Versions \ {0}
    /\ {NoFile, Torn} \cap Versions = {} /\ NoFile # Torn
    /\ {MaxBoots, MaxErrors, MaxReloads} \subseteq Nat

VARIABLES
    live,       \* the file at execPath
    backup,     \* execPath.bak
    marker,     \* the attempts in execPath.update-pending, or NoFile
    image,      \* the version the process runs, NoFile when there is none
    busy,       \* execPath is still the file the process runs
    guarded,    \* the kernel refuses to open a running image for writing
    phase,      \* of the process: "check", "boot", "starting", "serving"
    job,        \* the step of the update goroutine
    target,     \* the version the job installs
    boots, errors, reloads

files   == <<live, backup, marker>>
bounds  == <<boots, errors, reloads>>
vars    == <<files, image, busy, guarded, phase, job, target, bounds>>

\* panelUpdateState.active; "failed" keeps the job for Status.
Active == job \notin {"idle", "failed"}

TypeOK ==
    /\ live \in Versions \cup {Torn}
    /\ backup \in Versions \cup {Torn, NoFile}
    /\ marker \in Nat \cup {NoFile}
    /\ image \in Versions \cup {NoFile}
    /\ busy \in BOOLEAN /\ guarded \in BOOLEAN
    /\ phase \in {"down", "check", "boot", "starting", "serving"}
    /\ job \in {"idle", "fetch", "backup", "copying", "swap", "mark", "exit",
                "undo", "restoring", "failed"}
    /\ target \in Versions
    /\ boots \in 0..MaxBoots /\ errors \in 0..MaxErrors
    /\ reloads \in 0..MaxReloads

Init ==
    /\ live = 0 /\ backup = NoFile /\ marker = NoFile
    /\ image = 0 /\ busy = TRUE /\ guarded \in BOOLEAN
    /\ phase = "serving" /\ job = "idle" /\ target = 0
    /\ boots = 0 /\ errors = 0 /\ reloads = 0

Process == <<image, busy, guarded, phase>>
Error   == errors < MaxErrors /\ errors' = errors + 1

\* RestoreBackup can open both files: a guarded kernel answers ETXTBSY to a
\* write of the running image.
CanRestore == backup # NoFile /\ ~(guarded /\ busy)

----------------------------------------------------------------------------

\* Apply: one job at a time, to a newer version.
Apply ==
    /\ phase \in {"starting", "serving"} /\ ~Active
    /\ \E v \in Versions : v > image /\ target' = v
    /\ job' = "fetch"
    /\ UNCHANGED <<files, Process, bounds>>

\* Download, checksum and extraction next to the live binary.
Fetch ==
    /\ job = "fetch"
    /\ \/ job' = "backup" /\ UNCHANGED errors
       \/ job' = "undo" /\ Error
    /\ UNCHANGED <<files, Process, target, boots, reloads>>

\* swapBinary's copy of the live binary to .bak opens it with O_TRUNC.
BeginBackup ==
    /\ job = "backup"
    /\ backup' = Torn /\ job' = "copying"
    /\ UNCHANGED <<live, marker, Process, target, bounds>>

EndBackup ==
    /\ job = "copying"
    /\ \/ backup' = live /\ job' = "swap" /\ UNCHANGED errors
       \/ job' = "undo" /\ Error /\ UNCHANGED backup
    /\ UNCHANGED <<live, marker, Process, target, boots, reloads>>

\* The rename: the process goes on with the file that lost its name.
Swap ==
    /\ job = "swap"
    /\ \/ live' = target /\ busy' = FALSE /\ job' = "mark" /\ UNCHANGED errors
       \/ job' = "undo" /\ Error /\ UNCHANGED <<live, busy>>
    /\ UNCHANGED <<backup, marker, image, guarded, phase, target, boots, reloads>>

WritePendingMarker ==
    /\ job = "mark"
    /\ \/ marker' = 0 /\ job' = "exit" /\ UNCHANGED errors
       \/ job' = "undo" /\ Error /\ UNCHANGED marker
    /\ UNCHANGED <<live, backup, Process, target, boots, reloads>>

\* Variant: fail returns when there is nothing to restore.
RestoreOrReturn ==
    /\ job = "undo" /\ CanRestore
    /\ job' = "restoring" /\ live' = Torn
    /\ UNCHANGED <<backup, marker, Process, target, bounds>>

\* fail, from any step: RestoreBackup does not know whether the swap happened,
\* nor which job wrote the backup.
BeginRestore ==
    /\ job = "undo"
    /\ IF CanRestore
       THEN job' = "restoring" /\ live' = Torn
       ELSE job' = "failed" /\ UNCHANGED live
    /\ UNCHANGED <<backup, marker, Process, target, bounds>>

EndRestore ==
    /\ job = "restoring"
    /\ \/ live' = backup /\ UNCHANGED errors
       \/ Error /\ UNCHANGED live
    /\ job' = "failed"
    /\ UNCHANGED <<backup, marker, Process, target, boots, reloads>>

----------------------------------------------------------------------------

Dies ==
    /\ image' = NoFile /\ busy' = FALSE /\ phase' = "down"
    /\ job' = "idle" /\ target' = 0
    /\ UNCHANGED guarded

\* run's os.Exit(1), after the audit record.
Exit ==
    /\ job = "exit"
    /\ Dies
    /\ UNCHANGED <<files, bounds>>

\* The process or the machine crashes.
Crash ==
    /\ phase # "down" /\ Error
    /\ Dies
    /\ UNCHANGED <<files, boots, reloads>>

\* The service manager starts what is at execPath.
Boot ==
    /\ phase = "down" /\ live # Torn
    /\ boots < MaxBoots /\ boots' = boots + 1
    /\ image' = live /\ busy' = TRUE /\ phase' = "check"
    /\ UNCHANGED <<files, guarded, job, target, errors, reloads>>

\* CheckPendingUpdate, the first call of Init, with a marker at or past the
\* threshold: RestoreBackup would write the image of this very process.  (Its
\* copy is one step here.)
RollbackDue ==
    marker # NoFile /\ marker + 1 >= RollbackAfterAttempts /\ CanRestore

Rollback ==
    /\ phase = "check" /\ RollbackDue
    /\ live' = backup
    /\ marker' = NoFile
    /\ Dies
    /\ UNCHANGED <<backup, bounds>>

\* CheckPendingUpdate in all other cases: the attempt is counted.
CountAttempt ==
    /\ phase = "check" /\ ~RollbackDue
    /\ marker' = IF marker = NoFile THEN NoFile ELSE marker + 1
    /\ phase' = "boot"
    /\ UNCHANGED <<live, backup, image, busy, guarded, job, target, bounds>>

BootFails ==
    /\ phase = "boot" /\ image \in Broken
    /\ Dies
    /\ UNCHANGED <<files, bounds>>

\* Start up to the web server, from where the API can start an update.
StartWeb ==
    /\ phase = "boot" /\ image \notin Broken
    /\ phase' = "starting"
    /\ UNCHANGED <<files, image, busy, guarded, job, target, bounds>>

\* The end of Start, whichever way it was reached.
ClearPendingUpdate ==
    /\ phase = "starting"
    /\ marker' = NoFile
    /\ phase' = "serving"
    /\ UNCHANGED <<live, backup, image, busy, guarded, job, target, bounds>>

\* SIGHUP: RestartApp runs Start again, not Init; a job goes on meanwhile.
RestartApp ==
    /\ phase = "serving"
    /\ reloads < MaxReloads /\ reloads' = reloads + 1
    /\ phase' = "starting"
    /\ UNCHANGED <<files, image, busy, guarded, job, target, boots, errors>>

----------------------------------------------------------------------------

JobStep ==
    \/ Fetch \/ BeginBackup \/ EndBackup \/ Swap \/ WritePendingMarker
    \/ BeginRestore \/ EndRestore \/ Exit

ProcessStep ==
    \/ Boot \/ Rollback \/ CountAttempt \/ BootFails \/ StartWeb
    \/ ClearPendingUpdate

Next == Apply \/ JobStep \/ ProcessStep \/ Crash \/ RestartApp

Spec == Init /\ [][Next]_vars

\* The download has a timeout, and the service manager restarts the process.
FairSpec == Spec /\ WF_vars(JobStep) /\ WF_vars(ProcessStep)

----------------------------------------------------------------------------

\* An update that failed leaves the version that runs, or a file whose restore
\* was cut short, at execPath: neither the version it failed to install nor the
\* stale backup of an earlier update.  A kernel that lets the running image be
\* written does not keep that promise.
FailedUpdateKeepsVersion ==
    guarded /\ job = "failed" => live \in {image, Torn}

\* A process that serves has no pending marker other than the one its own job
\* is about to exit with: later restarts are never counted as failed boots.
NoStaleMarker ==
    phase = "serving" /\ marker # NoFile => job = "exit"

\* One fault, a crash or an I/O error at any step, never leaves a torn binary at
\* execPath for the next boot: the live file is only truncated by the restore
\* that a first error after the swap asks for.
OneFaultIsSurvived ==
    guarded /\ live = Torn => job = "restoring" \/ errors >= 2

\* Whatever goes wrong, the next boot finds a version that was installed on
\* purpose, and counts only the boots of that one.
VersionsAreSafe == FailedUpdateKeepsVersion /\ NoStaleMarker /\ OneFaultIsSurvived

\* An update job always ends, and releases the guard against a second one.
JobEnds == Active ~> ~Active

\* What the comments in app.go and of CheckPendingUpdate say: a release that
\* keeps failing to boot is rolled back at the threshold, so no boot past it is
\* ever counted.
RolledBackInTime ==
    marker # NoFile => marker <= RollbackAfterAttempts

=============================================================================

------------------------------ MODULE DbImport ------------------------------
(***************************************************************************)
(* Restoring a backup over the live database (database/backup.go) and the  *)
(* start of the process on whatever the disk holds (cmd/migration/main.go, *)
(* database/db.go).  The database lives in one file with two helpers next  *)
(* to it: the staged upload and the fallback the import rolls back to; the *)
(* rows committed last may be in the write-ahead log beside the live file  *)
(* only (db.go opens it in WAL mode), until its last connection closes.    *)
(* ImportDB takes no lock: two requests, or a request and an upload of     *)
(* the 3x-ui wizard, may run at the same time.                             *)
(***************************************************************************)
EXTENDS Naturals, FiniteSets

CONSTANTS Importers,     \* the requests that may be importing at one time
          MaxImports,    \* imports started in a behaviour
          MaxDbFaults,   \* file and database operations that fail
          MaxDbCrashes   \* crashes of the process

ASSUME DbImportAssumption == /\ MaxImports \in Nat
                             /\ MaxDbFaults \in Nat
                             /\ MaxDbCrashes \in Nat

DINothing == "none"
\* What an upload may hold: a database the current build can open, one whose
\* migration fails, and one the checks before the swap refuse.
DIUploads == {"sound", "unmigratable", "refused"}
\* "own" is the data in force at the beginning, "fresh" what InitDB creates on
\* an empty path, "partial" what a crash inside that first InitDB leaves.
DIContents == DIUploads \cup {"own", "fresh", "partial", DINothing}
DIStages == {"idle", "clean", "stage", "validate", "close", "aside", "install",
           "migrate", "open", "caches", "drop", "rollback", "restore", "reopen"}

VARIABLES diLive, diFallback, diTemp,   \* the three files
          diHandle,      \* the global handle: the content it serves
          diStage, diUpload, diReady,   \* each import: where it is, its file, fallbackReady
          diRows,        \* where the rows committed last are: "wal", "live", "fallback"
          diBusy,        \* a request's connection: none, of the file at the live path, of
                         \* one that was moved aside, of one that is gone
          diCommitted,   \* history: the data in force has such rows
          diInUse,       \* history: its file was moved aside under a connection in use
          diData,        \* history: the data the last successful import or start left in force
          diBroken,      \* history: bringing the previous data back failed itself
          diUp,          \* the process runs
          diImports, diFaults, diCrashes
diRowVars == <<diRows, diBusy, diCommitted, diInUse>>
diVars == <<diLive, diFallback, diTemp, diHandle, diStage, diUpload, diReady,
            diRowVars, diData, diBroken, diUp, diImports, diFaults, diCrashes>>
diFiles == <<diLive, diFallback, diTemp>>
diCounts == <<diImports, diFaults, diCrashes>>

DIInit == /\ diLive = "own" /\ diFallback = DINothing /\ diTemp = DINothing
          /\ diHandle = "own" /\ diData = "own" /\ diBroken = FALSE /\ diUp = TRUE
          /\ diRows = {} /\ diBusy = "no" /\ diCommitted = FALSE /\ diInUse = FALSE
          /\ diStage = [i \in Importers |-> "idle"]
          /\ diUpload = [i \in Importers |-> DINothing]
          /\ diReady = [i \in Importers |-> FALSE]
          /\ diImports = 0 /\ diFaults = 0 /\ diCrashes = 0

\* InitDB completes an empty path with a new database, and cannot open what
\* the migrations refuse.
DIOpens(content) == content \notin {"unmigratable", "partial"}
DIInitDB(content) == IF content = DINothing THEN "fresh" ELSE content
\* MigrateDb leaves a missing file alone and is one transaction on the others;
\* a file without settings and version takes the oldest path and fails in it.
DIMigrates(content) == content \notin {"unmigratable", "partial"}

DIAt(i, stage) == diUp /\ diStage[i] = stage
DIGo(i, stage) == diStage' = [diStage EXCEPT ![i] = stage]
DIFault == diFaults < MaxDbFaults /\ diFaults' = diFaults + 1

\* An imported file, while it is on trial, is no copy of the data in force.
DIOnTrial == \E i \in Importers : diStage[i] \in {"migrate", "open", "caches", "rollback"}

\* A request takes a connection of the pool and commits with it; what it commits
\* is in the log.  A connection of a file that was moved commits to a log without
\* a name, which SQLite does not write back when it closes.
DIUse == /\ diUp /\ diHandle # DINothing /\ diBusy = "no" /\ diBusy' = "current"
         /\ UNCHANGED <<diFiles, diHandle, diStage, diUpload, diReady, diRows, diCommitted,
                        diInUse, diData, diBroken, diUp, diCounts>>
DIWrite == /\ diUp
           /\ \/ /\ diBusy = "current" /\ diRows' = (diRows \ {"live"}) \cup {"wal"}
                 /\ diCommitted' = (diCommitted \/ (~DIOnTrial /\ diLive = diData))
              \/ /\ diBusy = "moved" /\ diCommitted' = TRUE
                 /\ diRows' = diRows \ (IF DIOnTrial \/ diLive = DINothing
                                        THEN {"fallback"} ELSE {"wal", "live"})
           /\ UNCHANGED <<diFiles, diHandle, diStage, diUpload, diReady, diBusy, diInUse,
                          diData, diBroken, diUp, diCounts>>
\* The last connection of a file writes the log back and removes it.
DIWrittenBack == IF "wal" \in diRows THEN (diRows \ {"wal"}) \cup {"live"} ELSE diRows
DIRelease == /\ diUp /\ diBusy # "no" /\ diBusy' = "no"
             /\ diRows' = IF diBusy = "current" /\ diHandle = DINothing
                            THEN DIWrittenBack ELSE diRows
             /\ UNCHANGED <<diFiles, diHandle, diStage, diUpload, diReady, diCommitted,
                            diInUse, diData, diBroken, diUp, diCounts>>
\* Opening an empty path removes the log beside it.
DIOpenedRows == IF diLive = DINothing THEN diRows \ {"wal"} ELSE diRows

\* The upload opens as SQLite; leftovers of an earlier import are removed, the
\* fallback among them, whoever it belongs to.  The panel needs its database
\* to let the administrator in.
DIBegin(i) == /\ DIAt(i, "idle") /\ diImports < MaxImports /\ diHandle # DINothing
              /\ \E u \in DIUploads : diUpload' = [diUpload EXCEPT ![i] = u]
              /\ diReady' = [diReady EXCEPT ![i] = FALSE]
              /\ diImports' = diImports + 1 /\ DIGo(i, "clean")
              /\ UNCHANGED <<diFiles, diHandle, diRowVars, diData, diBroken, diUp, diFaults, diCrashes>>
DIClean(i) == /\ DIAt(i, "clean") /\ DIGo(i, "stage")
              /\ diTemp' = DINothing /\ diFallback' = DINothing
              /\ diRows' = diRows \ {"fallback"}
              /\ UNCHANGED <<diLive, diHandle, diUpload, diReady, diBusy, diCommitted, diInUse,
                             diData, diBroken, diUp, diCounts>>
\* stageBackupToFile: a write that fails removes the staged file.
DIStage(i) == /\ DIAt(i, "stage")
              /\ \/ diTemp' = diUpload[i] /\ DIGo(i, "validate") /\ UNCHANGED diFaults
                 \/ diTemp' = DINothing /\ DIGo(i, "idle") /\ DIFault
              /\ UNCHANGED <<diLive, diFallback, diHandle, diUpload, diReady, diRowVars,
                             diData, diBroken, diUp, diImports, diCrashes>>
\* validateSQLiteBackup reads whatever is staged: integrity, not a 3x-ui file.
DIValidate(i) == /\ DIAt(i, "validate")
                 /\ IF diTemp \in {"refused", DINothing}
                      THEN diTemp' = DINothing /\ DIGo(i, "idle")
                      ELSE diTemp' = diTemp /\ DIGo(i, "close")
                 /\ UNCHANGED <<diLive, diFallback, diHandle, diUpload, diReady, diRowVars,
                                diData, diBroken, diUp, diCounts>>
\* closeLiveDB: from here GetDB answers nil.  sql.DB.Close closes the idle
\* connections and leaves one in use to the request that has it.
DIClose(i) == /\ DIAt(i, "close") /\ diHandle' = DINothing /\ DIGo(i, "aside")
              /\ diRows' = IF diBusy = "current" \/ diHandle = DINothing
                             THEN diRows ELSE DIWrittenBack
              /\ UNCHANGED <<diFiles, diUpload, diReady, diBusy, diCommitted, diInUse,
                             diData, diBroken, diUp, diCounts>>
\* The live file becomes the fallback, and its log stays behind; without a live
\* file there is no fallback.
DIAside(i) == /\ DIAt(i, "aside")
              /\ \/ /\ diLive # DINothing /\ diFallback' = diLive /\ diLive' = DINothing
                    /\ diReady' = [diReady EXCEPT ![i] = TRUE]
                    /\ diRows' = (diRows \ {"live", "fallback"})
                                   \cup (IF "live" \in diRows THEN {"fallback"} ELSE {})
                    /\ diBusy' = IF diBusy = "current" THEN "moved" ELSE diBusy
                    /\ diInUse' = (diInUse \/ diBusy = "current")
                    /\ DIGo(i, "install") /\ UNCHANGED <<diCommitted, diFaults>>
                 \/ /\ diLive = DINothing /\ DIGo(i, "install")
                    /\ UNCHANGED <<diLive, diFallback, diReady, diRowVars, diFaults>>
                 \/ /\ diLive # DINothing /\ DIFault /\ DIGo(i, "reopen")
                    /\ UNCHANGED <<diLive, diFallback, diReady, diRowVars>>
              /\ UNCHANGED <<diTemp, diHandle, diUpload, diData, diBroken, diUp, diImports, diCrashes>>
\* The log of the live path is removed, then the upload is moved there.
DIInstall(i) == /\ DIAt(i, "install")
                /\ \/ /\ diTemp # DINothing /\ diLive' = diTemp /\ diTemp' = DINothing
                      /\ DIGo(i, "migrate") /\ UNCHANGED diFaults
                   \/ /\ diTemp = DINothing /\ DIGo(i, "rollback")
                      /\ UNCHANGED <<diLive, diTemp, diFaults>>
                   \/ /\ diTemp # DINothing /\ DIFault /\ DIGo(i, "rollback")
                      /\ UNCHANGED <<diLive, diTemp>>
                /\ diRows' = diRows \ (IF diStage'[i] = "migrate" THEN {"wal", "live"} ELSE {"wal"})
                /\ UNCHANGED <<diFallback, diHandle, diUpload, diReady, diBusy, diCommitted,
                               diInUse, diData, diBroken, diUp, diImports, diCrashes>>
DIMigrate(i) == /\ DIAt(i, "migrate")
                /\ \/ DIMigrates(diLive) /\ DIGo(i, "open") /\ UNCHANGED diFaults
                   \/ ~DIMigrates(diLive) /\ DIGo(i, "rollback") /\ UNCHANGED diFaults
                   \/ DIMigrates(diLive) /\ DIFault /\ DIGo(i, "rollback")
                /\ UNCHANGED <<diFiles, diHandle, diUpload, diReady, diRowVars, diData, diBroken,
                               diUp, diImports, diCrashes>>
\* Mutant: the fallback goes as soon as the imported file opens.
DIOpenDrops(i) ==
  /\ DIAt(i, "open") /\ DIGo(i, "caches") /\ DIOpens(diLive)
  /\ diLive' = DIInitDB(diLive) /\ diHandle' = DIInitDB(diLive) /\ diFallback' = DINothing
  /\ diRows' = DIOpenedRows \ {"fallback"}
  /\ UNCHANGED <<diTemp, diUpload, diReady, diBusy, diCommitted, diInUse, diData, diBroken,
                 diUp, diCounts>>
DIOpen(i) == /\ DIAt(i, "open")
             /\ \/ /\ DIOpens(diLive) /\ DIGo(i, "caches") /\ UNCHANGED diFaults
                   /\ diLive' = DIInitDB(diLive) /\ diHandle' = DIInitDB(diLive)
                   /\ diRows' = DIOpenedRows
                \/ /\ DIOpens(diLive) /\ DIFault /\ DIGo(i, "rollback")
                   /\ UNCHANGED <<diLive, diHandle, diRows>>
                \/ /\ ~DIOpens(diLive) /\ DIGo(i, "rollback")
                   /\ UNCHANGED <<diLive, diHandle, diRows, diFaults>>
             /\ UNCHANGED <<diFallback, diTemp, diUpload, diReady, diBusy, diCommitted, diInUse,
                            diData, diBroken, diUp, diImports, diCrashes>>
\* ResetCaches runs the hooks in the order of their names.
DICaches(i) == /\ DIAt(i, "caches")
               /\ \/ /\ DIGo(i, "drop") /\ diData' = diLive
                     /\ diRows' = diRows \ {"fallback"} /\ diCommitted' = (diRows' # {})
                     /\ diBusy' = IF diBusy = "moved" THEN "gone" ELSE diBusy
                     /\ diInUse' = FALSE /\ UNCHANGED diFaults
                  \/ DIFault /\ DIGo(i, "rollback") /\ UNCHANGED <<diData, diRowVars>>
               /\ UNCHANGED <<diFiles, diHandle, diUpload, diReady, diBroken, diUp,
                              diImports, diCrashes>>
\* The import is in force: its fallback goes, and a restart is asked for.
DIDrop(i) == /\ DIAt(i, "drop") /\ diFallback' = DINothing /\ DIGo(i, "idle")
             /\ diRows' = diRows \ {"fallback"}
             /\ UNCHANGED <<diLive, diTemp, diHandle, diUpload, diReady, diBusy, diCommitted,
                            diInUse, diData, diBroken, diUp, diCounts>>
\* rollbackImportedDB: close, remove the live file, then bring the fallback back.
DIRollback(i) == /\ DIAt(i, "rollback") /\ diHandle' = DINothing /\ diLive' = DINothing
                 /\ DIGo(i, IF diReady[i] THEN "restore" ELSE "idle")
                 /\ diRows' = diRows \ {"wal", "live"}
                 /\ diBusy' = IF diBusy = "current" THEN "gone" ELSE diBusy
                 /\ UNCHANGED <<diFallback, diTemp, diUpload, diReady, diCommitted, diInUse,
                                diData, diBroken, diUp, diCounts>>
DIRestore(i) == /\ DIAt(i, "restore")
                /\ \/ /\ diFallback # DINothing /\ diLive' = diFallback
                      /\ diFallback' = DINothing /\ DIGo(i, "reopen")
                      /\ diRows' = (diRows \ {"live", "fallback"})
                                     \cup (IF "fallback" \in diRows THEN {"live"} ELSE {})
                      /\ UNCHANGED <<diFaults, diBroken>>
                   \/ /\ diFallback = DINothing /\ DIGo(i, "idle")
                      /\ UNCHANGED <<diLive, diFallback, diRows, diFaults, diBroken>>
                   \/ /\ diFallback # DINothing /\ DIFault /\ DIGo(i, "idle")
                      /\ diBroken' = TRUE /\ UNCHANGED <<diLive, diFallback, diRows>>
                /\ UNCHANGED <<diTemp, diHandle, diUpload, diReady, diBusy, diCommitted, diInUse,
                               diData, diUp, diImports, diCrashes>>
DIReopen(i) == /\ DIAt(i, "reopen") /\ DIGo(i, "idle")
               /\ \/ /\ DIOpens(diLive) /\ UNCHANGED diFaults
                     /\ diLive' = DIInitDB(diLive) /\ diHandle' = DIInitDB(diLive)
                     /\ diRows' = DIOpenedRows /\ UNCHANGED diBroken
                  \/ /\ IF DIOpens(diLive) THEN DIFault ELSE UNCHANGED diFaults
                     /\ diBroken' = TRUE /\ UNCHANGED <<diLive, diHandle, diRows>>
               /\ UNCHANGED <<diFallback, diTemp, diUpload, diReady, diBusy, diCommitted,
                              diInUse, diData, diUp, diImports, diCrashes>>

\* The process dies: the files stay, everything else is gone.
DICrash == /\ diUp /\ diCrashes < MaxDbCrashes /\ diCrashes' = diCrashes + 1
           /\ diUp' = FALSE /\ diHandle' = DINothing
           /\ diStage' = [i \in Importers |-> "idle"] /\ diBusy' = "no"
           /\ UNCHANGED <<diFiles, diRows, diCommitted, diInUse, diUpload, diReady, diData, diBroken, diImports, diFaults>>
\* APP.Init migrates and opens what the path holds; it knows no fallback.  On an
\* empty path it makes a new database, whose first steps a crash may interrupt.
DIBoot == /\ ~diUp /\ DIMigrates(diLive) /\ DIOpens(diLive)
          /\ \/ /\ diLive' = DIInitDB(diLive) /\ diHandle' = diLive'
                /\ diUp' = TRUE /\ UNCHANGED diCrashes
             \/ /\ diLive = DINothing /\ diCrashes < MaxDbCrashes
                /\ diCrashes' = diCrashes + 1 /\ diLive' = "partial"
                /\ UNCHANGED <<diHandle, diUp>>
          /\ diRows' = DIOpenedRows /\ UNCHANGED <<diBusy, diCommitted, diInUse>>
          /\ UNCHANGED <<diFallback, diTemp, diStage, diUpload, diReady, diData, diBroken,
                         diImports, diFaults>>
\* The start fails on a file it cannot migrate, as often as it is tried.
DIBootFails == /\ ~diUp /\ ~(DIMigrates(diLive) /\ DIOpens(diLive))
               /\ UNCHANGED diVars

DIStep(i) == \/ DIClean(i) \/ DIStage(i) \/ DIValidate(i) \/ DIClose(i)
             \/ DIAside(i) \/ DIInstall(i) \/ DIMigrate(i) \/ DIOpen(i)
             \/ DICaches(i) \/ DIDrop(i) \/ DIRollback(i) \/ DIRestore(i)
             \/ DIReopen(i)
DINext == \/ \E i \in Importers : DIBegin(i) \/ DIStep(i)
          \/ DIUse \/ DIWrite \/ DIRelease \/ DICrash \/ DIBoot \/ DIBootFails
DISpec == DIInit /\ [][DINext]_diVars

-----------------------------------------------------------------------------
DITypeOK == /\ {diLive, diFallback, diTemp, diHandle, diData} \subseteq DIContents
            /\ diStage \in [Importers -> DIStages]
            /\ diUpload \in [Importers -> DIUploads \cup {DINothing}]
            /\ diReady \in [Importers -> BOOLEAN]
            /\ diRows \subseteq {"wal", "live", "fallback"}
            /\ diBusy \in {"no", "current", "moved", "gone"}

\* No import runs, and none of what an import relies on to come back has failed.
DIAtRest ==
  (\A i \in Importers : diStage[i] = "idle") /\ diCrashes = 0 /\ ~diBroken

\* Whenever no import runs, the panel serves the data in force: what the last
\* successful import installed or, after one that failed at any step, what was
\* there before it, with every row committed to it; unless the process died,
\* bringing the fallback back failed as well, or a request was using a connection
\* when the file was moved aside (ImportDB, rollbackImportedDB,
\* reopenLiveDBAfterImportError).
DIServesData ==
  DIAtRest => /\ diHandle = diData /\ diLive = diData
              /\ diCommitted /\ ~diInUse => diRows \cap {"wal", "live"} # {}

\* The comments of ImportDB promise it without that last exception: "Move the live
\* DB aside as a fallback. Move the WAL/SHM sidecars too", and "on any failure we
\* attempt to restore the fallback so the panel keeps running on the previous data
\* set".  The code removes the log instead, and does not wait for its connections.
DIRowsSurvive == DIAtRest /\ diCommitted => diRows \cap {"wal", "live"} # {}

DIOnDisk(content) == content = diFallback \/ (content = diLive /\ ~DIOnTrial)
DIRowsOnDisk == "fallback" \in diRows \/ (diRows # {} /\ ~DIOnTrial)

\* The last copy of the data in force, or of the rows committed last, leaves the
\* disk in one step only: the clean-up of leftovers by the next import.  No
\* failure, crash or start in between removes it, whatever the panel shows; the
\* rows go also when their file was moved aside under a connection in use.
DILastCopy ==
  [][ /\ DIOnDisk(diData) /\ ~DIOnDisk(diData)' => \E i \in Importers : DIAt(i, "clean")
      /\ diCommitted /\ diCommitted' /\ DIRowsOnDisk /\ ~DIRowsOnDisk'
           => diInUse' \/ \E i \in Importers : DIAt(i, "clean") ]_diVars

\* The data of the panel outlives every import.
DIDataSurvives == []DITypeOK /\ []DIServesData /\ DILastCopy
=============================================================================

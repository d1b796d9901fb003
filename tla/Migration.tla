------------------------------ MODULE Migration ------------------------------
(***************************************************************************)
(* The upgrade of a database of an earlier release when the process starts *)
(* (cmd/migration: one transaction over the ladder of versions, and the    *)
(* adaptation of database/adapt.go and db.go after it).  A database is a   *)
(* record of what the ladder rewrites; the rest of a row stays out.  What  *)
(* the start writes before the transaction is committed by itself.         *)
(***************************************************************************)
EXTENDS Naturals, Sequences, SequencesExt, FiniteSets

CONSTANTS MaxMigrateFaults,   \* statements of the ladder that fail
          MaxStarts           \* starts of the process

ASSUME MigrationAssumption == MaxMigrateFaults \in Nat /\ MaxStarts \in Nat

\* The version of a database: none before 1.2, a release 1.k below the build,
\* the build itself, a later build.
MGVersions == {"none", "1.2", "1.3", "1.4", "1.5", "build", "later"}
\* The rungs each of them still has to climb; the build carries 1.5.11, and a
\* database of an earlier 1.5 runs the rungs to 1.6 and 1.7 as well.
MGRungs == <<"1.1", "1.2", "1.3", "1.4", "1.5", "1.6", "1.7">>
MGReached(version) ==
  CASE version = "none" -> 0 [] version = "1.2" -> 2 [] version = "1.3" -> 3
    [] version = "1.4" -> 4 [] version = "1.5" -> 5 [] OTHER -> 7

(* The example: two inbounds whose tags a LIKE pattern confuses, one        *)
(* outbound the rules use, one client, one token.                           *)
MGTags == <<"in_a", "in-a">>
\* tag LIKE '%"pattern"%': the underscore of a pattern matches any character.
MGLike(tag, pattern) == tag = pattern \/ pattern = "in_a"
MGKinds == {"direct", "block", "dns", "wireguard"}
\* The rows without a parent: tokens of no user, rows of other tables, or both.
MGOrphans == {"", "token", "other", "both"}
MGRepaired(orphan) ==
  CASE orphan = "token" -> "" [] orphan = "both" -> "other" [] OTHER -> orphan
MGOld ==
  [version : MGVersions \ {"build"}, columns : {"text"}, refs : SUBSET {"in_a", "in-a", "gone"},
   ids : {{}}, tls : [{1, 2} -> {{}, {"in_a"}, {"in-a"}}], bound : {<<0, 0>>},
   kind : MGKinds, rule : {"route"}, stored : {"config"}, trojan : BOOLEAN,
   anytls : {"none", "own"}, scope : {"", "full", "read"}, orphan : MGOrphans, secret : {"own", ""}, ip : {"plain"}, rungs : {<<>>}]
MGAnytls(db) ==
  IF db.anytls # "none" THEN db.anytls ELSE IF db.trojan THEN "trojan" ELSE "none"
\* A database that already has a version was written by the code of then.
MGWritten(db) ==
  LET ids == {i \in 1..2 : MGTags[i] \in db.refs}
      at(k) == MGReached(db.version) >= k
  IN [db EXCEPT !.columns = IF at(2) THEN "json" ELSE "text",
                !.ids = IF at(2) THEN ids ELSE {},
                !.stored = IF ~at(2) THEN "config" ELSE IF db.kind = "wireguard" THEN "endpoint"
                           ELSE IF db.kind = "direct" THEN "outbound" ELSE "action",
                !.rule = CASE at(2) /\ db.kind = "block" -> "reject"
                           [] at(2) /\ db.kind = "dns" -> "hijack-dns" [] OTHER -> "route",
                !.anytls = IF at(3) THEN MGAnytls(db) ELSE db.anytls,
                !.scope = IF at(4) /\ db.scope # "read" THEN "admin" ELSE db.scope,
                !.ip = IF at(5) THEN "hashed" ELSE "plain",
                !.secret = IF at(5) THEN "own" ELSE db.secret,
                !.bound = IF at(2) THEN <<1, 2>> ELSE <<0, 0>>]
\* The databases a start may find: they differ in one respect at a time.
MGPlain(db) == db.refs = {"in_a", "gone"} /\ db.tls = <<{"in-a"}, {"in_a"}>>
MGDefault(db) == db.kind = "direct" /\ db.scope = "" /\ db.secret = ""
MGVaried(db) ==
  \/ MGPlain(db) /\ db.orphan = "" /\ (db.anytls = "own" => db.kind = "direct")
  \/ MGPlain(db) /\ MGDefault(db) /\ db.anytls = "none"
  \/ db.version = "none" /\ MGDefault(db) /\ db.orphan = "" /\ db.anytls = "none" /\ db.trojan
MGDatabases == {MGWritten(db) : db \in {d \in MGOld : MGVaried(d)}}

-----------------------------------------------------------------------------
(* The rungs, as functions of the database.                                *)
\* to1_1: text columns of a client become JSON; an old secret setting goes.
To11(db) == [db EXCEPT !.columns = "json"]
\* moveJsonToDb: the inbounds of config.json become rows; each one with TLS is
\* bound to the last TLS row whose list of tags matches (the query has no limit and
\* the scan keeps the last row), or gets a row of its own, 3.
MGBoundTo(db, tag) ==
  LET rows == {r \in 1..2 : \E known \in db.tls[r] : MGLike(known, tag)}
  IN IF rows = {} THEN 3 ELSE CHOOSE r \in rows : \A s \in rows : s <= r
MGInboundRows(db) == [db EXCEPT !.bound = <<MGBoundTo(db, MGTags[1]), MGBoundTo(db, MGTags[2])>>]
\* Outbounds become rows, WireGuard ones endpoints; those of type block and dns
\* go, and a rule that pointed at one gets the action instead.
MGOutboundRows(db) ==
  [db EXCEPT !.stored = CASE db.kind = "wireguard" -> "endpoint" [] db.kind = "direct" -> "outbound"
                          [] OTHER -> "action"]
MGRouteRules(db) ==
  [db EXCEPT !.rule = CASE db.kind = "block" -> "reject" [] db.kind = "dns" -> "hijack-dns"
                        [] OTHER -> "route"]
\* migrateClients: a client's tags become the ids of the rows that exist.
MGClientRows(db) == [db EXCEPT !.ids = {i \in 1..2 : MGTags[i] \in db.refs}]
To12(db) == MGClientRows(MGRouteRules(MGOutboundRows(MGInboundRows(db))))
\* to1_3: credentials of the new protocol are those of trojan, unless it has some.
To13(db) == [db EXCEPT !.anytls = MGAnytls(db)]
\* to1_4: an unnamed or full scope is spelt admin.
To14(db) == [db EXCEPT !.scope = IF db.scope \in {"", "full"} THEN "admin" ELSE db.scope]
\* to1_5: addresses are hashed, subscription secrets are made where missing.
\* Mutant: every client gets a new secret.
To15Anew(db) == [db EXCEPT !.ip = "hashed", !.secret = "made"]
To15(db) == [db EXCEPT !.ip = "hashed", !.secret = IF db.secret = "" THEN "made" ELSE db.secret]
\* to1_6 and to1_7 add indexes and tables only.
MGApply(db, rung) ==
  LET next == CASE rung = "1.1" -> To11(db) [] rung = "1.2" -> To12(db) [] rung = "1.3" -> To13(db)
                [] rung = "1.4" -> To14(db) [] rung = "1.5" -> To15(db) [] OTHER -> db
  IN [next EXCEPT !.rungs = Append(db.rungs, rung)]
\* Before a rung: where an upgrade from this version begins.
MGFirstRung(version) == MGReached(version) + 1

VARIABLES mgDb,       \* the committed database
          mgAside,    \* committed outside the transaction: the TLS row 0, the audit events
          mgTx,       \* the transaction of the ladder: its database and next rung
          mgPhase,    \* where the start is
          mgCommand,  \* what was started: the panel, or the command with or without repair
          mgFound,    \* history: the database of the beginning
          mgAsked,    \* history: the operator has asked for a repair
          mgFaults, mgStarts
mgVars == <<mgDb, mgAside, mgTx, mgPhase, mgCommand, mgFound, mgAsked, mgFaults, mgStarts>>

MGNoTx == [db |-> {}, next |-> 0]
MGInit == /\ mgDb \in MGDatabases /\ mgFound = mgDb
          /\ mgAside = [noTls |-> FALSE, audited |-> 0] /\ mgCommand = "panel"
          /\ mgTx = MGNoTx /\ mgPhase = "down" /\ mgAsked = FALSE
          /\ mgFaults = 0 /\ mgStarts = 0

MGStart(command) ==
          /\ mgPhase = "down" /\ mgStarts < MaxStarts /\ mgStarts' = mgStarts + 1
          /\ mgPhase' = "parent" /\ mgCommand' = command
          /\ mgAsked' = (mgAsked \/ command = "repair")
          /\ UNCHANGED <<mgDb, mgAside, mgTx, mgFound, mgFaults>>
\* ensureNoTLSForeignKeyParent: the row that inbounds without TLS refer to.
MGParent == /\ mgPhase = "parent" /\ mgPhase' = "check"
            /\ mgAside' = [mgAside EXCEPT !.noTls = TRUE]
            /\ UNCHANGED <<mgDb, mgTx, mgCommand, mgFound, mgAsked, mgFaults, mgStarts>>
\* recordForeignKeyAudit: an event, where the table exists; an error is ignored.
MGAudited ==
  {mgAside} \cup IF MGReached(mgDb.version) < 4 THEN {}
                ELSE {[mgAside EXCEPT !.audited = @ + 1]}
\* verifyForeignKeysBeforeMigration: an orphan stops the start, unless the
\* operator has asked for the repair.
MGCheck == /\ mgPhase = "check"
           /\ \/ mgDb.orphan = "" /\ mgPhase' = "open" /\ UNCHANGED mgAside
              \/ /\ mgDb.orphan # "" /\ mgAside' \in MGAudited
                 /\ mgPhase' = IF mgCommand = "repair" THEN "repair" ELSE "down"
           /\ UNCHANGED <<mgDb, mgTx, mgCommand, mgFound, mgAsked, mgFaults, mgStarts>>
\* repairSafeForeignKeyOrphans deletes the tokens of no user, and only those;
\* with anything left the start fails all the same.
MGRepair == /\ mgPhase = "repair" /\ mgPhase' = "recheck"
            /\ mgDb' = [mgDb EXCEPT !.orphan = MGRepaired(mgDb.orphan)]
            /\ UNCHANGED <<mgAside, mgTx, mgCommand, mgFound, mgAsked, mgFaults, mgStarts>>
MGRecheck == /\ mgPhase = "recheck" /\ mgAside' \in MGAudited
             /\ mgPhase' = IF mgDb.orphan = "" THEN "open" ELSE "down"
             /\ UNCHANGED <<mgDb, mgTx, mgCommand, mgFound, mgAsked, mgFaults, mgStarts>>
\* The command ends with the ladder; the panel goes on and adapts the database.
MGLadderDone == mgPhase' = IF mgCommand = "panel" THEN "adapt" ELSE "down"
\* The transaction begins; an equal or a later version has nothing to climb.
MGBegin == /\ mgPhase = "open"
           /\ IF mgDb.version \in {"build", "later"}
                THEN MGLadderDone /\ UNCHANGED mgTx
                ELSE /\ mgPhase' = "ladder"
                     /\ mgTx' = [db |-> mgDb, next |-> MGFirstRung(mgDb.version)]
           /\ UNCHANGED <<mgDb, mgAside, mgCommand, mgFound, mgAsked, mgFaults, mgStarts>>
MGRung == /\ mgPhase = "ladder" /\ mgTx.next <= Len(MGRungs)
          /\ mgTx' = [db |-> MGApply(mgTx.db, MGRungs[mgTx.next]), next |-> mgTx.next + 1]
          /\ UNCHANGED <<mgDb, mgAside, mgPhase, mgCommand, mgFound, mgAsked, mgFaults, mgStarts>>
\* The version row is written in the same transaction, which then commits.
MGCommit == /\ mgPhase = "ladder" /\ mgTx.next > Len(MGRungs)
            /\ mgDb' = [mgTx.db EXCEPT !.version = "build"] /\ mgTx' = MGNoTx
            /\ MGLadderDone
            /\ UNCHANGED <<mgAside, mgCommand, mgFound, mgAsked, mgFaults, mgStarts>>
\* A statement fails, or the process dies: the transaction is rolled back, what
\* was committed before it stays.
MGFail == /\ mgPhase \notin {"down", "up"} /\ mgFaults < MaxMigrateFaults
          /\ mgFaults' = mgFaults + 1 /\ mgPhase' = "down" /\ mgTx' = MGNoTx
          /\ UNCHANGED <<mgDb, mgAside, mgCommand, mgFound, mgAsked, mgStarts>>
\* AdaptToCurrentVersion: the version row never goes down.
MGAdapt == /\ mgPhase = "adapt" /\ mgPhase' = "up"
           /\ mgDb' = [mgDb EXCEPT !.version = IF @ = "later" THEN "later" ELSE "build"]
           /\ UNCHANGED <<mgAside, mgTx, mgCommand, mgFound, mgAsked, mgFaults, mgStarts>>
MGStop == /\ mgPhase = "up" /\ mgPhase' = "down"
          /\ UNCHANGED <<mgDb, mgAside, mgTx, mgCommand, mgFound, mgAsked, mgFaults, mgStarts>>

MGNext == \/ \E command \in {"panel", "migrate", "repair"} : MGStart(command)
          \/ MGParent \/ MGCheck \/ MGRepair \/ MGRecheck \/ MGBegin \/ MGRung
          \/ MGCommit \/ MGFail \/ MGAdapt \/ MGStop
MGSpec == MGInit /\ [][MGNext]_mgVars
-----------------------------------------------------------------------------
\* A database that is served has climbed every rung above the version it was
\* found with, each once and in order, however many starts failed before.
MGEveryRungOnce ==
  mgPhase = "up" =>
    mgDb.rungs = SubSeq(MGRungs, MGFirstRung(mgFound.version), Len(MGRungs))

\* The upgrade keeps what the operator configured: a client keeps its inbounds,
\* its subscription secret, its own credentials and a token its scope; a rule treats traffic as the
\* outbound it named did; an inbound keeps the TLS row that lists its tag, where
\* no other tag matches the same pattern.
MGOwnRows(db, tag) == {r \in 1..2 : tag \in db.tls[r]}
MGUnambiguous(db, tag) == \A r \in 1..2 : (\E known \in db.tls[r] : MGLike(known, tag)) => tag \in db.tls[r]
MGMeaningKept ==
  mgPhase = "up" =>
    /\ mgDb.ids = {i \in 1..2 : MGTags[i] \in mgFound.refs}
    /\ mgFound.secret # "" => mgDb.secret = mgFound.secret
    /\ mgDb.secret # "" /\ mgDb.ip = "hashed"
    /\ mgDb.scope = IF mgFound.scope \in {"", "full"} THEN "admin" ELSE mgFound.scope
    /\ mgDb.anytls = MGAnytls(mgFound)
    /\ mgFound.version = "later" => mgDb.version = "later"
    /\ mgDb.stored = "action" <=> mgDb.rule # "route"
    /\ mgFound.version = "none" => \A i \in 1..2 :
         LET own == MGOwnRows(mgFound, MGTags[i])
         IN own # {} /\ MGUnambiguous(mgFound, MGTags[i]) => mgDb.bound[i] \in own
\* Until the ladder has committed, whatever failed and whenever the process died,
\* every row the ladder is about is as it was found; only orphaned tokens may be
\* gone, and only after the operator asked for it.  Beside them a start that
\* fails leaves what it writes before the transaction: the TLS row 0, audit events.
MGFailureChangesNothing ==
  /\ mgDb.version = mgFound.version
       => mgDb = mgFound \/ mgDb = [mgFound EXCEPT !.orphan = MGRepaired(mgFound.orphan)]
  /\ mgDb.orphan # mgFound.orphan => mgAsked
\* An upgrade is complete, keeps what it upgrades, and changes none of it when it fails.
MGUpgradeIsSafe == MGEveryRungOnce /\ MGMeaningKept /\ MGFailureChangesNothing
=============================================================================

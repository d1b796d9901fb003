------------------------------ MODULE PanelData ------------------------------
(***************************************************************************)
(* What the panel keeps on disk and what changes it from outside the       *)
(* ordinary handlers: the update of the binary and the check that finds    *)
(* it, the order of versions both rest on, the migration of the database,  *)
(* its replacement by a backup, the import of a 3x-ui database, the        *)
(* references between stored rows, and the representations of an inbound   *)
(* that are computed from its row.                                         *)
(*                                                                         *)
(* Each of these has its own files, rows and locks in the model: a step of *)
(* one neither enables nor disables a step of another.  So the composition *)
(* explores one at a time, the component in `focus`; the pure functions    *)
(* are evaluated on one pair of versions or one inbound at a time.         *)
(***************************************************************************)
EXTENDS SelfUpdate, UpdateCheck, Migration, DbImport, XuiImport, TagRefs, Links

VARIABLES
    focus,
    versionPair,    \* two versions to compare, or none
    sharedInbound   \* the inbound to represent, or none

functionVars == <<versionPair, sharedInbound>>
dataVars == <<focus, vars, ucVars, mgVars, diVars, xiVars, trVars,
              functionVars>>

Stores == {"binary", "release", "migration", "backup", "xui", "references",
           "functions"}

\* What the addresses of an inbound override: all the same.
AlikeAddresses ==
    {<<>>, <<None>>, <<Override(Unset)>>, <<Override("b"), Override("b")>>}

\* Two files of a 3x-ui panel: inbounds 1 and 2 of the first share one
\* certificate; the second has one inbound and no certificate.
SourceRow(tag, kind, key, clients) ==
    [tag |-> tag, kind |-> kind, key |-> key, clients |-> clients]
SomeUploads ==
    [first |->
       [rows |-> <<SourceRow("A", "inbound", "k", {"u"}),
                   SourceRow("B", "inbound", "k", {"u", "v"}),
                   SourceRow("W", "endpoint", XINoKey, {}),
                   SourceRow("T", "unsupported", XINoKey, {"v"})>>,
        names |-> <<"u", "v">>, settings |-> {"webPort", "webListen"}, admins |-> {"adm"},
        outbounds |-> {"px"}, rules |-> <<"px", "direct">>],
     second |->
       [rows |-> <<SourceRow("A", "inbound", XINoKey, {"u"})>>,
        names |-> <<"u">>, settings |-> {}, admins |-> {}, outbounds |-> {}, rules |-> <<>>]]

\* A database may have an inbound A like the source; another one, Z, with a second
\* certificate and a second client of the same name; and what else the source has
\* too: an endpoint, a setting, an administrator, outbounds.
LiveDatabase(a, z, own) ==
    [tls |-> (IF a THEN {[id |-> 1, key |-> "k"]} ELSE {}) \cup (IF z THEN {[id |-> 2, key |-> "k"]} ELSE {}),
     lastTls |-> IF z THEN 2 ELSE IF a THEN 1 ELSE 0,
     inbounds |-> (IF a THEN {[id |-> 1, tag |-> "A", tls |-> 1, from |-> "own"]} ELSE {})
                    \cup (IF z THEN {[id |-> 2, tag |-> "Z", tls |-> 1, from |-> "own"]} ELSE {}),
     lastInbound |-> IF z THEN 2 ELSE IF a THEN 1 ELSE 0,
     endpoints |-> IF own THEN {[tag |-> "W", from |-> "own"]} ELSE {},
     clients |-> {[id |-> 1, name |-> "u", ids |-> (IF a THEN {1} ELSE {}) \cup (IF z THEN {2} ELSE {}),
                   secret |-> "own", from |-> "own"]}
                   \cup (IF z THEN {[id |-> 2, name |-> "u", ids |-> {}, secret |-> "other", from |-> "own"]} ELSE {}),
     lastClient |-> IF z THEN 2 ELSE 1,
     settings |-> [k \in {"webListen"} \cup (IF own THEN {"webPort"} ELSE {}) |-> "own"],
     admins |-> IF own THEN {[name |-> "adm", password |-> "own", reset |-> FALSE]} ELSE {},
     outbounds |-> IF own THEN {[tag |-> "direct", from |-> "own"], [tag |-> "px", from |-> "own"]} ELSE {},
     rules |-> IF own THEN <<"sniff", "direct">> ELSE <<"sniff">>]

\* The import meets a new database, one that shares a name with the source,
\* and one that shares two.
SomeLiveDatabases ==
    {LiveDatabase(FALSE, FALSE, FALSE), LiveDatabase(TRUE, FALSE, TRUE),
     LiveDatabase(TRUE, TRUE, FALSE)}

DataInit ==
    /\ focus \in Stores
    /\ Init /\ UCInit /\ MGInit /\ DIInit /\ XIInit /\ TRInit
    /\ versionPair = <<>> /\ sharedInbound = <<>>
    /\ focus # "binary"    => guarded
    /\ focus # "migration" => mgDb = CHOOSE db \in MGDatabases : TRUE
    /\ focus # "xui"       => xiDb = CHOOSE db \in XILive : TRUE

\* Two versions are compared, or the representations of an inbound are made.
Evaluate ==
    /\ versionPair = <<>> /\ sharedInbound = <<>>
    /\ \/ /\ \E l, r \in VXSample : versionPair' = <<l, r>>
          /\ UNCHANGED sharedInbound
       \/ /\ \E i \in Inbounds : sharedInbound' = <<i>>
          /\ UNCHANGED versionPair

DataNext ==
    \/ /\ focus = "binary" /\ Next
       /\ UNCHANGED <<focus, ucVars, mgVars, diVars, xiVars, trVars, functionVars>>
    \/ /\ focus = "release" /\ UCNext
       /\ UNCHANGED <<focus, vars, mgVars, diVars, xiVars, trVars, functionVars>>
    \/ /\ focus = "migration" /\ MGNext
       /\ UNCHANGED <<focus, vars, ucVars, diVars, xiVars, trVars, functionVars>>
    \/ /\ focus = "backup" /\ DINext
       /\ UNCHANGED <<focus, vars, ucVars, mgVars, xiVars, trVars, functionVars>>
    \/ /\ focus = "xui" /\ XINext
       /\ UNCHANGED <<focus, vars, ucVars, mgVars, diVars, trVars, functionVars>>
    \/ /\ focus = "references" /\ TRNext
       /\ UNCHANGED <<focus, vars, ucVars, mgVars, diVars, xiVars, functionVars>>
    \/ /\ focus = "functions" /\ Evaluate
       /\ UNCHANGED <<focus, vars, ucVars, mgVars, diVars, xiVars, trVars>>

\* The download has a timeout, and the service manager restarts the process.
DataFairSpec ==
    /\ DataInit /\ [][DataNext]_dataVars
    /\ WF_vars(focus = "binary" /\ JobStep)
    /\ WF_vars(focus = "binary" /\ ProcessStep)

-----------------------------------------------------------------------------
\* An update finds what is published and leads upwards, in the order that the
\* definition of semantic versions gives (compareSemver, parseVersion), and one
\* that fails leaves a version that was installed on purpose (applyUpdate, fail).
UpdatesAreSound ==
    /\ TypeOK /\ VersionsAreSafe
    /\ UCUpdatesAreSound
    /\ versionPair # <<>> => SemverOrder(versionPair[1], versionPair[2])

\* The share link, the JSON subscription and the Clash subscription tell a
\* client the same about an inbound (LinkGenerator, GetOutbound, FillOutJson,
\* ConvertToClashMeta), up to the fields Lost names.
RepresentationsAgree ==
    sharedInbound # <<>> =>
        LinkMatchesJson(sharedInbound[1]) /\ ClashMatches(sharedInbound[1])
=============================================================================

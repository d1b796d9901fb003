------------------------------ MODULE Settings ------------------------------
(***************************************************************************)
(* The settings table (service/setting.go, secret_settings.go): a form is  *)
(* loaded with markers in place of secrets and posted back whole, a save   *)
(* is validated and written in one transaction, secrets are sealed with a  *)
(* key of the environment or one derived from the table itself, and a      *)
(* start with a new key seals again what it can open.                      *)
(***************************************************************************)
EXTENDS Integers, Sequences, SequencesExt, FiniteSets

CONSTANTS Admins,          \* browsers that hold a settings form
          MaxSaves,        \* saves posted
          MaxStStarts,        \* starts of the process
          MaxSealFaults    \* reads and writes of the table that fail

ASSUME SettingsAssumption == {MaxSaves, MaxStStarts, MaxSealFaults} \subseteq Nat

\* Two secrets stand for all: an empty field clears the passphrase of backups
\* and leaves every other secret alone.
STSecretKeys == {"token", "passphrase"}
STEnvironments == {"unset", "invalid", "key"}
\* The boxes of a secret, in the order they are tried; the first one seals.
STDatabaseBoxes == <<"db", "dbLegacy">>
STCandidates(env) == IF env = "key" THEN <<"env", "envLegacy", "db", "dbLegacy">> ELSE STDatabaseBoxes
\* A stored secret: nothing, its plain value, or a value under a box.
STNoSecret == [value |-> "", box |-> "plain"]
STSealed(env, value) ==
  IF value = "" THEN STNoSecret ELSE [value |-> value, box |-> Head(STCandidates(env))]
STOpens(env, secret) == secret.box = "plain" \/ secret.box \in Range(STCandidates(env))

(* Numbers: the least and the greatest value each setting takes.            *)
STRanges ==
  [telegramCpuThreshold |-> <<1, 100>>, telegramBackupMaxSizeMB |-> <<1, 50>>,
   observabilityMemoryCapMB |-> <<1, 1024>>, subRateLimitPerIP |-> <<1, 10000>>,
   paidSubBotPollSeconds |-> <<1, 50>>, paidSubTrialDays |-> <<0, 3650>>,
   paidSubTrialVolumeGB |-> <<0, 1048576>>, paidSubMaxClients |-> <<0, 10000000>>,
   paidSubStartRateLimitPerMin |-> <<0, 1000>>, paidSubOrderTTLMinutes |-> <<1, 1440>>,
   ipCertChallengePort |-> <<1, 65535>>]
STNumberValid(key, n) == STRanges[key][1] <= n /\ n <= STRanges[key][2]
\* A number a form may carry: at and just beyond its limits.
STNumbers == {<<>>} \cup UNION {{<<key, STRanges[key][1] - 1>>, <<key, STRanges[key][1]>>, <<key, STRanges[key][2]>>, <<key, STRanges[key][2] + 1>>} :
                                key \in DOMAIN STRanges}

(* Paths: of the three subscription formats, as the validation tells them   *)
(* apart.                                                                  *)
STPathKeys == {"subPath", "subJsonPath", "subClashPath"}
STDefaultPaths == [subPath |-> "/sub/", subJsonPath |-> "/json/", subClashPath |-> "/clash/"]
STPathValues == Range(STDefaultPaths) \cup {"/x/", "/x/y/", "/"}
\* A prefix of the panel's own is reserved, but for the setting it belongs to.
STReserved(key) == Range(STDefaultPaths) \ {STDefaultPaths[key]}
STBeneath(path, prefix) == path = prefix \/ (path = "/x/y/" /\ prefix = "/x/")
STPathsValid(paths) ==
  /\ \A key \in STPathKeys : paths[key] \notin STReserved(key)
  /\ paths["subJsonPath"] # paths["subClashPath"]
  /\ "/" \notin {paths["subJsonPath"], paths["subClashPath"]}
  /\ paths["subPath"] # "/" => /\ ~STBeneath(paths["subJsonPath"], paths["subPath"])
                               /\ ~STBeneath(paths["subClashPath"], paths["subPath"])

VARIABLES stPaths,     \* the stored paths
          stSecrets,   \* the stored secrets
          stEnv,       \* the environment of the running process, or "down"
          stForm,      \* per admin: the form in the browser
          stPosted,    \* per admin: the payload of a save that was validated
          stMeant,     \* history: what the operators last made each secret
          stSaves, stBoots, stFaults
stVars == <<stPaths, stSecrets, stEnv, stForm, stPosted, stMeant, stSaves, stBoots, stFaults>>

STNothing == [at |-> "none", paths |-> STDefaultPaths, token |-> "", passphrase |-> "", number |-> <<>>]
STInit == /\ stPaths = STDefaultPaths /\ stEnv = "down"
          /\ stSecrets \in [STSecretKeys -> {STNoSecret, [value |-> "old", box |-> "db"],
                                             [value |-> "old", box |-> "dbLegacy"]}]
          /\ stForm = [a \in Admins |-> STNothing] /\ stPosted = [a \in Admins |-> STNothing]
          /\ stMeant = [k \in STSecretKeys |-> stSecrets[k].value]
          /\ stSaves = 0 /\ stBoots = 0 /\ stFaults = 0

-----------------------------------------------------------------------------
\* GetAllSetting: a secret is not shown; the passphrase shows whether it is set.
STMarker == "stored"
STView == [at |-> "loaded", paths |-> stPaths, token |-> "",
           passphrase |-> IF stSecrets["passphrase"].value = "" THEN "" ELSE STMarker, number |-> <<>>]
STLoad(a) == /\ stEnv # "down" /\ stForm[a].at = "none" /\ stForm' = [stForm EXCEPT ![a] = STView]
             /\ UNCHANGED <<stPaths, stSecrets, stEnv, stPosted, stMeant, stSaves, stBoots, stFaults>>
\* One field of a form is changed: a path, a secret or a number.
STPathEdited(form) == {[form EXCEPT !.paths[k] = p] : k \in STPathKeys, p \in STPathValues}
STSecretEdited(form) ==
  {[form EXCEPT !.token = "new"], [form EXCEPT !.passphrase = "new"], [form EXCEPT !.passphrase = ""]}
STNumberEdited(form) == {[form EXCEPT !.number = n] : n \in STNumbers}
STEdited(form) == {form} \cup STPathEdited(form) \cup STSecretEdited(form) \cup STNumberEdited(form)
\* validateSaveKeys, validateAll: every field, before anything is written.
STFieldsValid(form) == form.number # <<>> => STNumberValid(form.number[1], form.number[2])
STPost(a) ==
  /\ stEnv # "down" /\ stForm[a].at = "loaded" /\ stPosted[a].at = "none" /\ stSaves < MaxSaves
  /\ stSaves' = stSaves + 1
  /\ \E form \in STEdited(stForm[a]) :
       stPosted' = [stPosted EXCEPT ![a] = IF STFieldsValid(form) /\ STPathsValid(form.paths)
                                             THEN [form EXCEPT !.at = "validated", !.number = <<>>] ELSE @]
  /\ UNCHANGED <<stPaths, stSecrets, stEnv, stForm, stMeant, stBoots, stFaults>>

\* Save: a secret left as its marker, or empty, stays; the passphrase is
\* cleared by an empty field; a new value is sealed.
\* Mutant: the marker is taken for a value.
STWrittenAsPosted(env, key, posted, stored) ==
  IF posted = "" /\ key # "passphrase" THEN stored ELSE STSealed(env, posted)
STWritten(env, key, posted, stored) ==
  IF posted = STMarker \/ (posted = "" /\ key # "passphrase") THEN stored ELSE STSealed(env, posted)
STPostedOf(a) == [token |-> stPosted[a].token, passphrase |-> stPosted[a].passphrase]
STMeans(key, posted, meant) ==
  IF posted = STMarker \/ (posted = "" /\ key # "passphrase") THEN meant ELSE posted
STCommit(a) ==
  /\ stEnv # "down" /\ stPosted[a].at = "validated"
  /\ \/ /\ stPaths' = stPosted[a].paths
        /\ stSecrets' = [k \in STSecretKeys |-> STWritten(stEnv, k, STPostedOf(a)[k], stSecrets[k])]
        /\ stMeant' = [k \in STSecretKeys |-> STMeans(k, STPostedOf(a)[k], stMeant[k])]
        /\ UNCHANGED stFaults
     \/ /\ stFaults < MaxSealFaults /\ stFaults' = stFaults + 1 /\ UNCHANGED <<stPaths, stSecrets, stMeant>>
  /\ stPosted' = [stPosted EXCEPT ![a] = STNothing] /\ stForm' = [stForm EXCEPT ![a] = STNothing]
  /\ UNCHANGED <<stEnv, stSaves, stBoots>>
\* importxui writes a setting as it comes, without a seal.
STUpsert(key) ==
  /\ stEnv # "down" /\ stSaves < MaxSaves /\ stSaves' = stSaves + 1
  /\ stSecrets' = [stSecrets EXCEPT ![key] = [value |-> "imported", box |-> "plain"]]
  /\ stMeant' = [stMeant EXCEPT ![key] = "imported"]
  /\ UNCHANGED <<stPaths, stEnv, stForm, stPosted, stBoots, stFaults>>

\* ResealSecretSettings at a start: with a key in the environment, whatever
\* opens under a later candidate is sealed again under the first one; a row
\* that does not open, or whose write fails, is left.
STResealed(env, secret) ==
  IF env = "unset" \/ secret.box = "plain" \/ ~STOpens(env, secret) THEN secret
  ELSE STSealed(env, secret.value)
STBoot(env) ==
  /\ stEnv = "down" /\ stBoots < MaxStStarts /\ stBoots' = stBoots + 1 /\ stEnv' = env
  /\ \E failed \in SUBSET STSecretKeys :
       /\ Cardinality(failed) + stFaults <= MaxSealFaults /\ stFaults' = stFaults + Cardinality(failed)
       /\ stSecrets' = [k \in STSecretKeys |-> IF k \in failed THEN stSecrets[k]
                                               ELSE STResealed(env, stSecrets[k])]
  /\ UNCHANGED <<stPaths, stForm, stPosted, stMeant, stSaves>>
\* The process goes down; a save that has not committed is lost, forms stay.
STStop == /\ stEnv # "down" /\ stEnv' = "down" /\ stPosted' = [a \in Admins |-> STNothing]
          /\ UNCHANGED <<stPaths, stSecrets, stForm, stMeant, stSaves, stBoots, stFaults>>
\* setting -reset while the process is down: every row goes, the key as well.
STReset == /\ stEnv = "down" /\ stPaths' = STDefaultPaths
           /\ stSecrets' = [k \in STSecretKeys |-> STNoSecret] /\ stMeant' = [k \in STSecretKeys |-> ""]
           /\ UNCHANGED <<stEnv, stForm, stPosted, stSaves, stBoots, stFaults>>

STNext == \/ \E a \in Admins : STLoad(a) \/ STPost(a) \/ STCommit(a)
          \/ \E key \in STSecretKeys : STUpsert(key)
          \/ \E env \in STEnvironments : STBoot(env)
          \/ STStop \/ STReset
STSpec == STInit /\ [][STNext]_stVars

-----------------------------------------------------------------------------
\* Secrets, paths and forms have their types.
STTypeOK == /\ stPaths \in [STPathKeys -> STPathValues] /\ stEnv \in STEnvironments \cup {"down"}
            /\ \A k \in STSecretKeys :
                 stSecrets[k].box \in {"plain", "env", "envLegacy"} \cup Range(STDatabaseBoxes)
\* Whatever forms are posted, however stale, and whatever keys the process is
\* started with, a secret is what an operator last made it (Save's markers,
\* "the round-trip cannot lose data", secret_settings.go).
STSecretsKept == \A k \in STSecretKeys : stSecrets[k].value = stMeant[k]
\* ... and it opens, unless it was sealed with a key the environment no
\* longer has.
STSecretsOpen == stEnv # "down" =>
  \A k \in STSecretKeys : STOpens(stEnv, stSecrets[k]) \/ (stEnv # "key" /\ stSecrets[k].box = "env")
\* A process started with a key leaves no secret that the table alone opens,
\* but for rows whose seal failed and rows that were never sealed.
STSealedOutside == stEnv = "key" /\ stFaults = 0 =>
  \A k \in STSecretKeys : stSecrets[k].box \notin Range(STDatabaseBoxes)
STSecretsAreSafe == STTypeOK /\ STSecretsKept /\ STSecretsOpen /\ STSealedOutside
=============================================================================

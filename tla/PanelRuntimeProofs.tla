------------------------- MODULE PanelRuntimeProofs -------------------------
(***************************************************************************)
(* Theorems about the parts of the running panel, one section for each,    *)
(* and about their composition: the accounts and tokens, the settings, the *)
(* answers of the subscription server, the addresses of clients (which     *)
(* have a run of their own and are not in the composition), the tracked    *)
(* connections, the box of the core, the limits in front of the API and    *)
(* the process around the restart manager.                                 *)
(***************************************************************************)
EXTENDS PanelRuntime, IpMonitor, RestartManagerProofs, FiniteSetTheorems, SequenceTheorems, TLAPS

-----------------------------------------------------------------------------
(***************************************************************************)
(* Theorems about Accounts, for any people, names, tokens and handlers.    *)
(*                                                                         *)
(* ACMapIsCurrent speaks of the moments between requests; what is kept in  *)
(* between is MapFollows and, for the copies that handlers carry from      *)
(* LoadTokens to ReloadTokens, LoadsFollow.                                *)
(***************************************************************************)

\* The map in memory is right as long as no change came after its load.
MapFollows == ~acRaced => ACAccepted = ACLive

\* So is a list that was loaded and that no change has overtaken.
LoadsFollow ==
    \A h \in Handlers :
        acAt[h] = "loaded" /\ h \notin acBehind => acLoaded[h] \ acExpired = ACLive

ACInv == ACTypeOK /\ ACNamesUnique /\ ACSomebody /\ MapFollows /\ LoadsFollow

\* The invariant holds at the first start: one name, no token, nothing loaded.
LEMMA ACInitInv == ACInit => ACInv
<1> SUFFICES ASSUME ACInit PROVE ACInv
  OBVIOUS
<1>1. ACTypeOK /\ ACNamesUnique /\ ACSomebody
  BY AccountsAssumption DEF ACInit, ACTypeOK, ACNamesUnique, ACSomebody
<1>2. MapFollows /\ LoadsFollow
  BY DEF ACInit, MapFollows, LoadsFollow, ACAccepted, ACLive
<1> QED BY <1>1, <1>2 DEF ACInv

\* A wrapped change may touch any row: it marks the map and every list that is
\* loaded as overtaken, so nothing is claimed of them until the next load.
LEMMA WrappedFollows ==
    ASSUME ACInv, NEW h \in Handlers, ACWrapped(h)
    PROVE  MapFollows' /\ LoadsFollow'
<1>1. acRaced'
  BY DEF ACWrapped
<1>2. \A g \in Handlers : acAt'[g] = "loaded" => g \in acBehind'
  BY DEF ACWrapped, ACInv, ACTypeOK
<1> QED BY <1>1, <1>2 DEF MapFollows, LoadsFollow

\* The parts that a wrapped change leaves alone keep their types.
LEMMA WrappedTypes ==
    ASSUME ACInv, NEW h \in Handlers, ACWrapped(h)
    PROVE  /\ acMap' \subseteq ApiTokens
           /\ acAt' \in [Handlers -> {"idle", "changed", "loaded"}]
           /\ acLoaded' \in [Handlers -> SUBSET ApiTokens]
           /\ acBehind' \subseteq Handlers /\ acRaced' \in BOOLEAN
  BY DEF ACWrapped, ACInv, ACTypeOK

\* A step that changes neither tokens nor copies of them keeps both.
LEMMA UntouchedFollows ==
    ASSUME ACInv,
           UNCHANGED <<acOwner, acOn, acExpired, acMap, acLoad, acRaced>>
    PROVE  MapFollows' /\ LoadsFollow'
<1>1. ACLive' = ACLive /\ ACAccepted' = ACAccepted
  BY DEF ACLive, ACAccepted
<1> QED BY <1>1 DEF ACInv, MapFollows, LoadsFollow, acLoad

\* Every step keeps the invariant.
LEMMA ACNextInv == ACInv /\ [ACNext]_acVars => ACInv'
<1> SUFFICES ASSUME ACInv, [ACNext]_acVars PROVE ACInv'
  OBVIOUS
<1>1. ASSUME NEW p \in People, NEW n \in Names, ACAddUser(p, n) PROVE ACInv'
  <2>1. ACTypeOK'
    BY <1>1 DEF ACAddUser, ACInv, ACTypeOK, acLoad
  <2>2. ACNamesUnique' /\ ACSomebody'
    BY <1>1, AccountsAssumption
    DEF ACAddUser, ACTaken, ACInv, ACTypeOK, ACNamesUnique, ACSomebody
  <2>3. MapFollows' /\ LoadsFollow'
    BY <1>1, UntouchedFollows DEF ACAddUser
  <2> QED BY <2>1, <2>2, <2>3 DEF ACInv
<1>2. ASSUME NEW p \in People, NEW n \in Names, ACChangePass(p, n) PROVE ACInv'
  <2>1. ACTypeOK'
    BY <1>2 DEF ACChangePass, ACInv, ACTypeOK, acLoad
  <2>2. ACNamesUnique' /\ ACSomebody'
    BY <1>2, AccountsAssumption
    DEF ACChangePass, ACTaken, ACFound, ACInv, ACTypeOK, ACNamesUnique, ACSomebody
  <2>3. MapFollows' /\ LoadsFollow'
    BY <1>2, UntouchedFollows DEF ACChangePass
  <2> QED BY <2>1, <2>2, <2>3 DEF ACInv
<1>3. ASSUME NEW t \in ApiTokens, ACExpire(t) PROVE ACInv'
  <2>1. ACTypeOK' /\ ACNamesUnique' /\ ACSomebody'
    BY <1>3 DEF ACExpire, ACInv, ACTypeOK, ACNamesUnique, ACSomebody, acLoad
  <2>2. ACLive' = ACLive \ {t} /\ ACAccepted' = ACAccepted \ {t}
    BY <1>3 DEF ACExpire, ACLive, ACAccepted
  <2>3. \A h \in Handlers : acLoaded'[h] \ acExpired' = (acLoaded[h] \ acExpired) \ {t}
    BY <1>3 DEF ACExpire, acLoad
  <2>4. MapFollows'
    BY <1>3, <2>2 DEF ACExpire, ACInv, MapFollows
  <2>5. LoadsFollow'
    BY <1>3, <2>2, <2>3 DEF ACExpire, ACInv, LoadsFollow, acLoad
  <2> QED BY <2>1, <2>4, <2>5 DEF ACInv
<1>4. ASSUME NEW h \in Handlers, NEW p \in People, NEW q \in People, ACDeleteUser(h, p, q)
      PROVE  ACInv'
  <2>1. ACTypeOK'
    BY <1>4, WrappedTypes DEF ACDeleteUser, ACInv, ACTypeOK
  <2>2. acName' \in [People -> Names \cup {"none"}]
    BY <1>4 DEF ACDeleteUser, ACInv, ACTypeOK
  <2>3. \A r \in People : acName'[r] = (IF r = q THEN "none" ELSE acName[r])
    BY <1>4 DEF ACDeleteUser, ACInv, ACTypeOK
  <2>4. ACSomebody'
    BY <1>4, <2>3 DEF ACDeleteUser, ACInv, ACTypeOK, ACSomebody
  <2>5. ACNamesUnique'
    <3> SUFFICES ASSUME NEW r \in People, NEW z \in People,
                        acName'[r] = acName'[z], acName'[r] # "none", r # z
                 PROVE  acName'[r] = acForced' /\ acFirst' \in {r, z}
      BY DEF ACNamesUnique
    <3>1. acName[r] = acName[z] /\ acName[r] # "none" /\ acName'[r] = acName[r] /\ r # q /\ z # q
      BY <2>3
    <3>2. acName[r] = acForced /\ acFirst \in {r, z}
      BY <3>1 DEF ACInv, ACNamesUnique
    <3> QED BY <1>4, <3>1, <3>2 DEF ACDeleteUser
  <2> QED BY <1>4, <2>1, <2>4, <2>5, WrappedFollows DEF ACDeleteUser, ACInv
<1>5. ASSUME NEW h \in Handlers, NEW p \in People, NEW t \in ApiTokens, ACAddToken(h, p, t)
      PROVE  ACInv'
  <2>1. ACTypeOK'
    BY <1>5, WrappedTypes DEF ACAddToken, ACInv, ACTypeOK
  <2> QED BY <1>5, <2>1, WrappedFollows
         DEF ACAddToken, ACInv, ACNamesUnique, ACSomebody
<1>6. ASSUME NEW h \in Handlers, NEW t \in ApiTokens, ACDeleteToken(h, t) PROVE ACInv'
  <2>1. ACTypeOK'
    BY <1>6, WrappedTypes DEF ACDeleteToken, ACInv, ACTypeOK
  <2> QED BY <1>6, <2>1, WrappedFollows
         DEF ACDeleteToken, ACInv, ACNamesUnique, ACSomebody
<1>7. ASSUME NEW h \in Handlers, NEW t \in ApiTokens, ACSetTokenEnabled(h, t) PROVE ACInv'
  <2>1. ACTypeOK'
    BY <1>7, WrappedTypes DEF ACSetTokenEnabled, ACInv, ACTypeOK
  <2> QED BY <1>7, <2>1, WrappedFollows
         DEF ACSetTokenEnabled, ACInv, ACNamesUnique, ACSomebody
<1>8. ASSUME NEW h \in Handlers, ACLoadTokens(h) PROVE ACInv'
  <2>1. ACTypeOK' /\ ACNamesUnique' /\ ACSomebody'
    BY <1>8 DEF ACLoadTokens, ACInv, ACTypeOK, ACNamesUnique, ACSomebody, ACLive, acRows
  <2>2. ACLive' = ACLive /\ ACAccepted' = ACAccepted
    BY <1>8 DEF ACLoadTokens, ACLive, ACAccepted, acRows
  <2>3. ACLive \ acExpired = ACLive
    BY DEF ACLive
  <2>4. LoadsFollow'
    <3> SUFFICES ASSUME NEW g \in Handlers, acAt'[g] = "loaded", g \notin acBehind'
                 PROVE  acLoaded'[g] \ acExpired = ACLive
      BY <1>8, <2>2 DEF LoadsFollow, ACLoadTokens, acRows
    <3>1. CASE g = h
      BY <1>8, <2>3, <3>1 DEF ACLoadTokens, ACInv, ACTypeOK
    <3>2. CASE g # h
      BY <1>8, <3>2 DEF ACLoadTokens, ACInv, ACTypeOK, LoadsFollow
    <3> QED BY <3>1, <3>2
  <2>5. MapFollows'
    BY <1>8, <2>2 DEF ACLoadTokens, ACInv, MapFollows
  <2> QED BY <2>1, <2>4, <2>5 DEF ACInv
<1>9. ASSUME NEW h \in Handlers, ACReloadTokens(h) PROVE ACInv'
  <2>1. ACTypeOK' /\ ACNamesUnique' /\ ACSomebody'
    BY <1>9 DEF ACReloadTokens, ACInv, ACTypeOK, ACNamesUnique, ACSomebody, acRows
  <2>2. ACLive' = ACLive /\ acExpired' = acExpired
    BY <1>9 DEF ACReloadTokens, ACLive, acRows
  <2>3. MapFollows'
    BY <1>9, <2>2 DEF ACReloadTokens, ACInv, MapFollows, LoadsFollow, ACAccepted
  <2>4. \A g \in Handlers : acAt'[g] = "loaded" /\ g \notin acBehind' =>
            /\ acAt[g] = "loaded" /\ g \notin acBehind /\ acLoaded'[g] = acLoaded[g]
    BY <1>9 DEF ACReloadTokens, ACInv, ACTypeOK
  <2>5. LoadsFollow'
    BY <2>2, <2>4 DEF ACInv, LoadsFollow
  <2> QED BY <2>1, <2>3, <2>5 DEF ACInv
<1>10. ASSUME UNCHANGED acVars PROVE ACInv'
  <2>1. MapFollows' /\ LoadsFollow'
    BY <1>10, UntouchedFollows DEF acVars, acRows
  <2> QED BY <1>10, <2>1 DEF acVars, acRows, acLoad, ACInv, ACTypeOK, ACNamesUnique,
                                  ACSomebody
<1>11. ASSUME NEW n \in Names, ACUpdateFirstUser(n) PROVE ACInv'
  <2>1. ACTypeOK'
    BY <1>11 DEF ACUpdateFirstUser, ACInv, ACTypeOK, acLoad
  <2>2. ACNamesUnique' /\ ACSomebody'
    BY <1>11, AccountsAssumption
    DEF ACUpdateFirstUser, ACInv, ACTypeOK, ACNamesUnique, ACSomebody
  <2>3. MapFollows' /\ LoadsFollow'
    BY <1>11, UntouchedFollows DEF ACUpdateFirstUser
  <2> QED BY <2>1, <2>2, <2>3 DEF ACInv
<1> QED
  BY <1>1, <1>2, <1>3, <1>4, <1>5, <1>6, <1>7, <1>8, <1>9, <1>10, <1>11 DEF ACNext

\* The invariant holds in every behaviour of the handlers of accounts and tokens.
THEOREM AccountsInvariant == ACSpec => []ACInv
  BY ACInitInv, ACNextInv, PTL DEF ACSpec

\* A name means one account, unless the command line gave the oldest account a
\* taken one (UpdateFirstUser), and between requests the token API accepts exactly
\* the live tokens (reloadTokensAfter), unless a reload was overtaken or failed.
THEOREM TokensFollowRows == ACSpec => []ACTokensFollowRows
<1>1. ACInv => ACTokensFollowRows
  BY DEF ACInv, ACTokensFollowRows, ACMapIsCurrent, MapFollows
<1> QED BY <1>1, AccountsInvariant, PTL

-----------------------------------------------------------------------------
(* The settings.  Forms live in browsers across restarts, so the invariant *)
(* says what any form, however stale, may hold: stored paths or defaults.  *)

STValues == {"", "old", "new", "imported", STMarker}
STBoxes == {"plain", "env", "db", "dbLegacy"}
STStored == [value : STValues, box : STBoxes]
STForms == [at : {"none", "loaded", "validated"}, paths : [STPathKeys -> STPathValues], token : STValues,
            passphrase : STValues, number : STNumbers]

STShape ==
    /\ stSecrets \in [STSecretKeys -> STStored]
    /\ stForm \in [Admins -> STForms] /\ stPosted \in [Admins -> STForms]
    /\ stMeant \in [STSecretKeys -> STValues]
    /\ stFaults \in Nat

STInv == STTypeOK /\ STShape /\ STSecretsKept /\ STSealedOutside

LEMMA STDefaultPathsType == STDefaultPaths \in [STPathKeys -> STPathValues]
<1>1. Range(STDefaultPaths) = {"/sub/", "/json/", "/clash/"}
  BY DEF Range, STDefaultPaths
<1>2. DOMAIN STDefaultPaths = STPathKeys
  BY DEF STDefaultPaths, STPathKeys
<1> QED BY <1>1, <1>2 DEF STDefaultPaths, STPathKeys, STPathValues

LEMMA STCandidatesRange ==
    /\ Range(STDatabaseBoxes) = {"db", "dbLegacy"}
    /\ Range(STCandidates("key")) = {"env", "envLegacy", "db", "dbLegacy"}
    /\ Head(STCandidates("key")) = "env"
    /\ \A env : env # "key" => STCandidates(env) = STDatabaseBoxes /\ Head(STCandidates(env)) = "db"
<1>1. Range(STDatabaseBoxes) = {"db", "dbLegacy"}
  BY DEF Range, STDatabaseBoxes
<1>2. Range(STCandidates("key")) = {"env", "envLegacy", "db", "dbLegacy"}
  BY DEF Range, STCandidates
<1>3. Head(STCandidates("key")) = "env"
  BY DEF STCandidates
<1>4. \A env : env # "key" => STCandidates(env) = STDatabaseBoxes /\ Head(STCandidates(env)) = "db"
  BY DEF STCandidates, STDatabaseBoxes
<1> QED BY <1>1, <1>2, <1>3, <1>4

\* What a write, a seal or a new seal leaves of a secret.
LEMMA STSealFacts ==
    ASSUME NEW env, NEW value \in STValues
    PROVE  /\ STSealed(env, value) \in STStored /\ STSealed(env, value).value = value
           /\ env = "key" => STSealed(env, value).box \notin {"db", "dbLegacy"}
           /\ STSealed(env, value).box = "env" => env = "key"
  BY STCandidatesRange DEF STSealed, STNoSecret, STStored, STBoxes

LEMMA STWrittenFacts ==
    ASSUME NEW env, NEW key, NEW posted \in STValues, NEW stored \in STStored
    PROVE  /\ STWritten(env, key, posted, stored) \in STStored
           /\ \A meant : stored.value = meant =>
                  STWritten(env, key, posted, stored).value = STMeans(key, posted, meant)
           /\ env = "key" /\ stored.box \notin {"db", "dbLegacy"} =>
                  STWritten(env, key, posted, stored).box \notin {"db", "dbLegacy"}
  BY STSealFacts DEF STWritten, STMeans

LEMMA STResealedFacts ==
    ASSUME NEW env, NEW secret \in STStored
    PROVE  /\ STResealed(env, secret) \in STStored /\ STResealed(env, secret).value = secret.value
           /\ env = "key" => STResealed(env, secret).box \notin {"db", "dbLegacy"}
<1>1. secret.value \in STValues /\ secret.box \in STBoxes
  BY DEF STStored
<1>2. env = "key" => STOpens(env, secret)
  BY <1>1, STCandidatesRange DEF STOpens, STBoxes
<1> QED BY <1>1, <1>2, STSealFacts DEF STResealed

\* What is edited in a form is a form, and so is an empty one and one just loaded.
LEMMA STEditedType == ASSUME NEW form \in STForms, NEW edited \in STEdited(form) PROVE edited \in STForms
<1>1. form.paths \in [STPathKeys -> STPathValues]
  BY DEF STForms
<1>2. ASSUME NEW k \in STPathKeys, NEW p \in STPathValues PROVE [form EXCEPT !.paths[k] = p] \in STForms
  <2>1. [form.paths EXCEPT ![k] = p] \in [STPathKeys -> STPathValues]
    BY <1>1
  <2> QED BY <2>1 DEF STForms
<1>3. /\ [form EXCEPT !.token = "new"] \in STForms /\ [form EXCEPT !.passphrase = "new"] \in STForms
      /\ [form EXCEPT !.passphrase = ""] \in STForms
  BY DEF STForms, STValues
<1>4. ASSUME NEW n \in STNumbers PROVE [form EXCEPT !.number = n] \in STForms
  BY DEF STForms
<1>5. \A e \in STPathEdited(form) : e \in STForms
  BY <1>2 DEF STPathEdited
<1>6. \A e \in STSecretEdited(form) : e \in STForms
  BY <1>3 DEF STSecretEdited
<1>7. \A e \in STNumberEdited(form) : e \in STForms
  BY <1>4 DEF STNumberEdited
<1> QED BY <1>5, <1>6, <1>7 DEF STEdited

LEMMA STFormTypes == /\ STNothing \in STForms
                     /\ STTypeOK /\ STShape => STView \in STForms
<1>1. <<>> \in STNumbers
  BY DEF STNumbers
<1> QED BY <1>1, STDefaultPathsType DEF STNothing, STView, STForms, STTypeOK, STShape, STValues

\* Every settings table the process may find: sealed by the table's key or empty.
LEMMA STInitInv == STInit => STInv
<1> SUFFICES ASSUME STInit PROVE STInv
  OBVIOUS
<1>1. stSecrets \in [STSecretKeys -> STStored]
  <2>1. /\ STNoSecret \in STStored /\ [value |-> "old", box |-> "db"] \in STStored
        /\ [value |-> "old", box |-> "dbLegacy"] \in STStored
    BY DEF STStored, STBoxes, STNoSecret, STValues
  <2> QED BY <2>1 DEF STInit
<1>2. stMeant \in [STSecretKeys -> STValues] /\ STSecretsKept
  BY <1>1 DEF STInit, STSecretsKept, STStored
<1>3. STShape
  BY <1>1, <1>2, STFormTypes DEF STInit, STShape
<1>4. STTypeOK
  BY <1>1, STDefaultPathsType, STCandidatesRange DEF STInit, STTypeOK, STStored, STBoxes
<1> QED BY <1>2, <1>3, <1>4 DEF STInv, STInit, STSealedOutside

\* Every step keeps the invariant.
LEMMA STNextInv == STInv /\ [STNext]_stVars => STInv'
<1> SUFFICES ASSUME STInv, [STNext]_stVars PROVE STInv'
  OBVIOUS
<1>0. /\ stPaths \in [STPathKeys -> STPathValues] /\ stEnv \in STEnvironments \cup {"down"}
      /\ stSecrets \in [STSecretKeys -> STStored]
      /\ stForm \in [Admins -> STForms] /\ stPosted \in [Admins -> STForms]
      /\ stMeant \in [STSecretKeys -> STValues] /\ stFaults \in Nat
      /\ \A k \in STSecretKeys : stSecrets[k].value = stMeant[k]
      /\ stEnv = "key" /\ stFaults = 0 => \A k \in STSecretKeys : stSecrets[k].box \notin {"db", "dbLegacy"}
  BY STCandidatesRange DEF STInv, STTypeOK, STShape, STSecretsKept, STSealedOutside
<1>1. ASSUME /\ stPaths' \in [STPathKeys -> STPathValues] /\ stEnv' \in STEnvironments \cup {"down"}
             /\ stSecrets' \in [STSecretKeys -> STStored]
             /\ stForm' \in [Admins -> STForms] /\ stPosted' \in [Admins -> STForms]
             /\ stMeant' \in [STSecretKeys -> STValues] /\ stFaults' \in Nat
             /\ \A k \in STSecretKeys : stSecrets'[k].value = stMeant'[k]
             /\ stEnv' = "key" /\ stFaults' = 0 =>
                  \A k \in STSecretKeys : stSecrets'[k].box \notin {"db", "dbLegacy"}
      PROVE STInv'
  <2>1. \A k \in STSecretKeys : stSecrets'[k].box \in {"plain", "env", "envLegacy", "db", "dbLegacy"}
    BY <1>1 DEF STStored, STBoxes
  <2> QED BY <1>1, <2>1, STCandidatesRange DEF STInv, STTypeOK, STShape, STSecretsKept, STSealedOutside
<1>2. ASSUME NEW a \in Admins, STLoad(a) PROVE STInv'
  <2>1. STView \in STForms
    BY STFormTypes DEF STInv
  <2> QED BY <1>0, <1>1, <1>2, <2>1 DEF STLoad
<1>3. ASSUME NEW a \in Admins, STPost(a) PROVE STInv'
  <2>1. PICK form \in STEdited(stForm[a]) :
           stPosted' = [stPosted EXCEPT ![a] = IF STFieldsValid(form) /\ STPathsValid(form.paths)
                                               THEN [form EXCEPT !.at = "validated", !.number = <<>>] ELSE @]
    BY <1>3 DEF STPost
  <2>2. form \in STForms
    BY <1>0, <2>1, STEditedType
  <2>3. <<>> \in STNumbers
    BY DEF STNumbers
  <2>4. [form EXCEPT !.at = "validated", !.number = <<>>] \in STForms
    BY <2>2, <2>3 DEF STForms
  <2>5. stPosted' \in [Admins -> STForms]
    BY <1>0, <2>1, <2>4
  <2> QED BY <1>0, <1>1, <1>3, <2>5 DEF STPost
<1>4. ASSUME NEW a \in Admins, STCommit(a) PROVE STInv'
  <2>1. /\ stPosted' = [stPosted EXCEPT ![a] = STNothing] /\ stForm' = [stForm EXCEPT ![a] = STNothing]
        /\ UNCHANGED stEnv
    BY <1>4 DEF STCommit
  <2>2. stPosted' \in [Admins -> STForms] /\ stForm' \in [Admins -> STForms]
    BY <1>0, <2>1, STFormTypes
  <2>3. CASE /\ stPaths' = stPosted[a].paths
             /\ stSecrets' = [k \in STSecretKeys |-> STWritten(stEnv, k, STPostedOf(a)[k], stSecrets[k])]
             /\ stMeant' = [k \in STSecretKeys |-> STMeans(k, STPostedOf(a)[k], stMeant[k])]
             /\ UNCHANGED stFaults
    <3>1. \A k \in STSecretKeys : STPostedOf(a)[k] \in STValues
      BY <1>0 DEF STPostedOf, STSecretKeys, STForms
    <3>2. stPosted[a].paths \in [STPathKeys -> STPathValues]
      BY <1>0 DEF STForms
    <3>3. ASSUME NEW k \in STSecretKeys
          PROVE  /\ stSecrets'[k] \in STStored /\ stMeant'[k] \in STValues /\ stSecrets'[k].value = stMeant'[k]
                 /\ stEnv = "key" /\ stSecrets[k].box \notin {"db", "dbLegacy"} =>
                      stSecrets'[k].box \notin {"db", "dbLegacy"}
      <4>1. /\ stSecrets'[k] = STWritten(stEnv, k, STPostedOf(a)[k], stSecrets[k])
            /\ stMeant'[k] = STMeans(k, STPostedOf(a)[k], stMeant[k])
            /\ stSecrets[k] \in STStored /\ STPostedOf(a)[k] \in STValues /\ stSecrets[k].value = stMeant[k]
            /\ stMeant[k] \in STValues
        BY <1>0, <2>3, <3>1
      <4>2. stMeant'[k] \in STValues
        BY <4>1 DEF STMeans
      <4> QED BY <4>1, <4>2, STWrittenFacts
    <3>4. stSecrets' \in [STSecretKeys -> STStored] /\ stMeant' \in [STSecretKeys -> STValues]
      BY <2>3, <3>3
    <3> QED BY <1>0, <1>1, <2>1, <2>2, <2>3, <3>2, <3>3, <3>4
  <2>4. CASE stFaults' = stFaults + 1 /\ UNCHANGED <<stPaths, stSecrets, stMeant>>
    <3>1. stFaults' \in Nat /\ stFaults' # 0
      BY <1>0, <2>4
    <3> QED BY <1>0, <1>1, <2>1, <2>2, <2>4, <3>1
  <2> QED BY <1>4, <2>3, <2>4 DEF STCommit
<1>5. ASSUME NEW key \in STSecretKeys, STUpsert(key) PROVE STInv'
  <2>1. [value |-> "imported", box |-> "plain"] \in STStored
    BY DEF STStored, STBoxes, STValues
  <2>2. /\ stSecrets' = [stSecrets EXCEPT ![key] = [value |-> "imported", box |-> "plain"]]
        /\ stMeant' = [stMeant EXCEPT ![key] = "imported"]
        /\ UNCHANGED <<stPaths, stEnv, stForm, stPosted, stFaults>>
    BY <1>5 DEF STUpsert, STSealedOutside
  <2>3. stSecrets' \in [STSecretKeys -> STStored] /\ stMeant' \in [STSecretKeys -> STValues]
    BY <1>0, <2>1, <2>2 DEF STValues
  <2>4. \A k \in STSecretKeys : /\ stSecrets'[k].value = stMeant'[k]
                                /\ stSecrets'[k] = stSecrets[k] \/ stSecrets'[k].box = "plain"
    BY <1>0, <2>2
  <2> QED BY <1>0, <1>1, <2>2, <2>3, <2>4
<1>6. ASSUME NEW env \in STEnvironments, STBoot(env) PROVE STInv'
  <2>1. PICK failed \in SUBSET STSecretKeys :
           /\ Cardinality(failed) + stFaults <= MaxSealFaults /\ stFaults' = stFaults + Cardinality(failed)
           /\ stSecrets' = [k \in STSecretKeys |-> IF k \in failed THEN stSecrets[k]
                                                   ELSE STResealed(env, stSecrets[k])]
    BY <1>6 DEF STBoot
  <2>2. stEnv' = env /\ UNCHANGED <<stPaths, stForm, stPosted, stMeant>>
    BY <1>6 DEF STBoot
  <2>3. IsFiniteSet(failed) /\ Cardinality(failed) \in Nat /\ (Cardinality(failed) = 0 => failed = {})
    <3>1. IsFiniteSet(STSecretKeys)
      <4>1. STSecretKeys = {"token"} \cup {"passphrase"}
        BY DEF STSecretKeys
      <4> QED BY <4>1, FS_Singleton, FS_AddElement
    <3> QED BY <3>1, FS_Subset, FS_CardinalityType, FS_EmptySet
  <2>4. ASSUME NEW k \in STSecretKeys
        PROVE  /\ stSecrets'[k] \in STStored /\ stSecrets'[k].value = stMeant[k]
               /\ env = "key" /\ failed = {} => stSecrets'[k].box \notin {"db", "dbLegacy"}
    BY <1>0, <2>1, STResealedFacts
  <2>5. stSecrets' \in [STSecretKeys -> STStored]
    BY <2>1, <2>4
  <2>6. stFaults' \in Nat /\ (stFaults' = 0 => failed = {})
    BY <1>0, <2>1, <2>3
  <2> QED BY <1>0, <1>1, <2>2, <2>4, <2>5, <2>6
<1>7. CASE STStop
  <2>1. [a \in Admins |-> STNothing] \in [Admins -> STForms]
    BY STFormTypes
  <2> QED BY <1>0, <1>1, <1>7, <2>1 DEF STStop
<1>8. CASE STReset
  <2>1. STNoSecret \in STStored /\ STNoSecret.value = ""
    BY DEF STNoSecret, STStored, STBoxes, STValues
  <2>2. stSecrets' \in [STSecretKeys -> STStored] /\ stMeant' \in [STSecretKeys -> STValues]
    BY <1>8, <2>1 DEF STReset, STValues
  <2>3. \A k \in STSecretKeys : stSecrets'[k].value = stMeant'[k]
    BY <1>8, <2>1 DEF STReset
  <2> QED BY <1>0, <1>1, <1>8, <2>2, <2>3, STDefaultPathsType DEF STReset
<1>9. CASE UNCHANGED stVars
  BY <1>0, <1>1, <1>9 DEF stVars
<1> QED BY <1>2, <1>3, <1>4, <1>5, <1>6, <1>7, <1>8, <1>9 DEF STNext

\* Whatever forms are posted, however stale, by any number of admins, whatever keys
\* the process is started with and whichever writes fail: a secret is what an
\* operator last made it, it opens unless the environment lost its key, and a
\* clean start with a key leaves none that the table alone opens
\* (service/setting.go Save, secret_settings.go ResealSecretSettings).
THEOREM SecretsAreSafe == STSpec => []STSecretsAreSafe
<1>1. STInv => STSecretsAreSafe
  <2> SUFFICES ASSUME STInv PROVE STSecretsOpen
    BY DEF STInv, STSecretsAreSafe
  <2> SUFFICES ASSUME stEnv # "down", NEW k \in STSecretKeys
               PROVE  STOpens(stEnv, stSecrets[k]) \/ (stEnv # "key" /\ stSecrets[k].box = "env")
    BY DEF STSecretsOpen
  <2>1. stSecrets[k].box \in STBoxes
    BY DEF STInv, STShape, STStored
  <2> QED BY <2>1, STCandidatesRange DEF STOpens, STBoxes
<1>2. STSpec => []STInv
  BY STInitInv, STNextInv, PTL DEF STSpec
<1> QED BY <1>1, <1>2, PTL

-----------------------------------------------------------------------------
(* The answers of the subscription server.  An answer says how long it may *)
(* be given before anybody knows what becomes of the row, so the invariant *)
(* relates its end to the time at which its row was replaced.              *)

SBAnswers == [row : Versions, epoch : Nat, stored : Nat, expires : Nat]

\* The types that SBTypeOK leaves out, and how the counters are ordered.
SBShape ==
    /\ sbCache \in [Ids -> SBAnswers]
    /\ sbBody \in [Requests -> SBAnswers]
    /\ sbId \in [Requests -> Ids]
    /\ sbRowUntil \in [Versions -> 0..MaxClock]
    /\ sbEpoch \in Nat /\ sbSavedRow \in Nat
    /\ sbSavedRow <= sbRow /\ sbRow <= sbEdits /\ sbSecret <= sbEdits

\* A row that was not replaced has all the time of the clock.
SBUntilIsOpen == \A v \in Versions : v >= sbRow => sbRowUntil[v] = MaxClock

\* An answer ends within TTL of the end of its row, and was built by a request
\* that is not older than TTL.
SBLastsAsItsRow(answer) == answer.expires <= sbRowUntil[answer.row] + TTL
SBIsYoung(answer) == answer.expires <= sbNow + TTL

\* An answer from a row older than the last one saved was read before that save.
SBReadBefore(answer) == answer.row < sbSavedRow => answer.epoch < sbEpoch

SBAnswersHold ==
    /\ \A i \in Ids :
          /\ SBLastsAsItsRow(sbCache[i]) /\ SBIsYoung(sbCache[i])
          /\ sbCache[i].expires # 0 => SBReadBefore(sbCache[i]) /\ sbCache[i].stored = sbEpoch
    /\ \A r \in Requests :
          /\ SBIsYoung(sbBody[r]) /\ sbBody[r].epoch <= sbEpoch
          /\ sbPc[r] = "store" => SBLastsAsItsRow(sbBody[r]) /\ SBReadBefore(sbBody[r])

SBInv == SBTypeOK /\ SBShape /\ SBUntilIsOpen /\ SBAnswersHold

\* The initial cache is empty.
LEMMA SBInitInv == SBInit => SBInv
<1> SUFFICES ASSUME SBInit PROVE SBInv
  OBVIOUS
<1>0. TTL \in Nat /\ MaxClock \in Nat /\ MaxEdits \in Nat
  BY SubscriptionsAssumption
<1>1. NoAnswer \in SBAnswers /\ Name \in Ids
  BY <1>0 DEF NoAnswer, SBAnswers, Versions, Ids
<1>2. SBTypeOK
  <2>1. sbNow \in 0..MaxClock /\ sbRow \in Versions /\ sbEdits \in Versions /\ sbSecret \in Secrets
    BY <1>0 DEF SBInit, Versions, Secrets
  <2>2. sbPc \in [Requests -> {"idle", "read", "store"}]
    BY DEF SBInit
  <2>3. {sbEnabled, sbRequired, sbGateHit} \subseteq BOOLEAN /\ sbSaver \in {"idle", "clear"}
    BY DEF SBInit
  <2> QED BY <2>1, <2>2, <2>3 DEF SBTypeOK
<1>4. sbCache \in [Ids -> SBAnswers] /\ sbBody \in [Requests -> SBAnswers] /\ sbId \in [Requests -> Ids]
  BY <1>1 DEF SBInit
<1>5. sbRowUntil \in [Versions -> 0..MaxClock] /\ SBUntilIsOpen
  BY <1>0 DEF SBInit, SBUntilIsOpen
<1>6. SBShape
  BY <1>4, <1>5 DEF SBInit, SBShape
<1>3. SBAnswersHold
  BY <1>1, SubscriptionsAssumption
     DEF SBInit, SBAnswersHold, SBLastsAsItsRow, SBIsYoung, SBReadBefore, NoAnswer, Versions
<1> QED BY <1>2, <1>3, <1>5, <1>6 DEF SBInv

\* No answer is no trouble.
LEMMA SBNoAnswerFacts ==
    SBShape /\ SBTypeOK => /\ NoAnswer \in SBAnswers /\ Name \in Ids
                           /\ SBLastsAsItsRow(NoAnswer) /\ SBIsYoung(NoAnswer) /\ NoAnswer.epoch <= sbEpoch
<1> SUFFICES ASSUME SBShape, SBTypeOK
             PROVE  /\ NoAnswer \in SBAnswers /\ Name \in Ids
                    /\ SBLastsAsItsRow(NoAnswer) /\ SBIsYoung(NoAnswer) /\ NoAnswer.epoch <= sbEpoch
  OBVIOUS
<1>1. TTL \in Nat /\ MaxClock \in Nat /\ MaxEdits \in Nat /\ sbEpoch \in Nat /\ sbNow \in Nat
  BY SubscriptionsAssumption DEF SBShape, SBTypeOK
<1>2. 0 \in Versions
  BY <1>1 DEF Versions
<1>3. sbRowUntil[0] \in Nat
  BY <1>1, <1>2 DEF SBShape
<1>4. NoAnswer \in SBAnswers /\ Name \in Ids
  BY <1>2 DEF NoAnswer, SBAnswers, Ids
<1>5. NoAnswer.row = 0 /\ NoAnswer.epoch = 0 /\ NoAnswer.expires = 0
  BY DEF NoAnswer
<1> QED BY <1>1, <1>3, <1>4, <1>5 DEF SBLastsAsItsRow, SBIsYoung

\* A replaced row ends now, which no answer from it outlives by more than TTL.
LEMMA SBNewRowFacts ==
    ASSUME SBInv, NewRow, UNCHANGED sbNow
    PROVE  /\ sbRow' \in Versions /\ sbEdits' \in Versions /\ sbRow' <= sbEdits' /\ sbSecret + 1 <= sbEdits'
           /\ sbSavedRow <= sbRow'
           /\ sbRowUntil' \in [Versions -> 0..MaxClock] /\ SBUntilIsOpen'
           /\ \A answer \in SBAnswers : SBIsYoung(answer) /\ SBLastsAsItsRow(answer)
                  => answer.expires <= sbRowUntil'[answer.row] + TTL
<1>1. /\ sbRow \in Nat /\ sbEdits \in Nat /\ sbSecret \in Nat /\ MaxEdits \in Nat /\ sbEdits < MaxEdits
      /\ sbRow' = sbRow + 1 /\ sbEdits' = sbEdits + 1 /\ sbRow <= sbEdits /\ sbSecret <= sbEdits
      /\ sbSavedRow \in Nat /\ sbSavedRow <= sbRow
      /\ sbNow \in 0..MaxClock /\ TTL \in Nat
  BY SubscriptionsAssumption DEF NewRow, SBInv, SBTypeOK, SBShape, Versions, Secrets
<1>2. sbRowUntil' = [sbRowUntil EXCEPT ![sbRow] = sbNow] /\ sbRowUntil \in [Versions -> 0..MaxClock]
  BY DEF NewRow, SBInv, SBShape
<1>3. \A v \in Versions : v >= sbRow => sbRowUntil[v] = MaxClock
  BY DEF SBInv, SBUntilIsOpen
<1>4. SBUntilIsOpen'
  BY <1>1, <1>2, <1>3 DEF SBUntilIsOpen, Versions
<1>5. ASSUME NEW answer \in SBAnswers, SBIsYoung(answer), SBLastsAsItsRow(answer)
      PROVE  answer.expires <= sbRowUntil'[answer.row] + TTL
  <2>1. answer.row \in Versions
    BY DEF SBAnswers
  <2>2. sbRowUntil'[answer.row] = IF answer.row = sbRow THEN sbNow ELSE sbRowUntil[answer.row]
    BY <1>2, <2>1
  <2> QED BY <1>5, <2>2 DEF SBIsYoung, SBLastsAsItsRow
<1>6. sbRow' \in Versions /\ sbEdits' \in Versions /\ sbRow' <= sbEdits' /\ sbSecret + 1 <= sbEdits' /\ sbSavedRow <= sbRow'
  BY <1>1 DEF Versions
<1> QED BY <1>1, <1>2, <1>4, <1>5, <1>6

\* A step that replaces the row and touches no answer keeps them all.
LEMMA SBNewRowInv ==
    ASSUME SBInv, NewRow, SBTypeOK', sbSecret' <= sbEdits',
           UNCHANGED <<sbNow, sbCache, sbRequests, sbSavedRow, sbEpoch>>
    PROVE  SBInv'
<1>1. UNCHANGED <<sbNow, sbCache, sbPc, sbId, sbBody, sbSavedRow, sbEpoch>>
  BY DEF sbRequests
<1>2. SBShape'
  BY <1>1, SBNewRowFacts DEF SBInv, SBShape
<1>3. SBAnswersHold'
  <2>1. \A i \in Ids : sbCache[i] \in SBAnswers
    BY DEF SBInv, SBShape
  <2>2. \A r \in Requests : sbBody[r] \in SBAnswers
    BY DEF SBInv, SBShape
  <2>3. \A i \in Ids : SBLastsAsItsRow(sbCache[i])'
    BY <1>1, <2>1, SBNewRowFacts DEF SBInv, SBAnswersHold, SBLastsAsItsRow
  <2>4. \A r \in Requests : sbPc[r] = "store" => SBLastsAsItsRow(sbBody[r])'
    BY <1>1, <2>2, SBNewRowFacts DEF SBInv, SBAnswersHold, SBLastsAsItsRow
  <2> QED BY <1>1, <2>3, <2>4 DEF SBInv, SBAnswersHold, SBIsYoung, SBReadBefore
<1> QED BY <1>2, <1>3, SBNewRowFacts DEF SBInv

\* Every step keeps the invariant.
LEMMA SBNextInv == SBInv /\ [SBNext]_sbVars => SBInv'
<1> SUFFICES ASSUME SBInv, [SBNext]_sbVars PROVE SBInv'
  OBVIOUS
<1>0. SBTypeOK /\ SBShape /\ SBUntilIsOpen /\ SBAnswersHold
  BY DEF SBInv
<1>1. ASSUME NEW r \in Requests, NEW id \in Ids, SBHit(r, id) PROVE SBInv'
  BY <1>0, <1>1 DEF SBHit, SBInv, SBTypeOK, SBShape, SBUntilIsOpen, SBAnswersHold, SBLastsAsItsRow,
                    SBIsYoung, SBReadBefore, sbRequests, sbRowVars
<1>2. ASSUME NEW r \in Requests, NEW id \in Ids, SBMiss(r, id) PROVE SBInv'
  <2> DEFINE begun == [NoAnswer EXCEPT !.expires = sbNow + TTL]
  <2>1. /\ sbCache' = [sbCache EXCEPT ![id] = NoAnswer]
        /\ sbPc' = [sbPc EXCEPT ![r] = "read"] /\ sbId' = [sbId EXCEPT ![r] = id]
        /\ sbBody' = [sbBody EXCEPT ![r] = begun]
        /\ UNCHANGED <<sbNow, sbRow, sbSecret, sbEnabled, sbRowUntil, sbRequired, sbSaver, sbEdits,
                       sbSavedRow, sbEpoch, sbGateHit>>
    BY <1>2 DEF SBMiss, sbRowVars
  <2>2. begun \in SBAnswers /\ begun.expires = sbNow + TTL /\ begun.epoch = 0
    BY <1>0, SubscriptionsAssumption DEF NoAnswer, SBAnswers, Versions, SBTypeOK
  <2> HIDE DEF begun
  <2>3. SBTypeOK' /\ SBShape' /\ SBUntilIsOpen'
    BY <1>0, <2>1, <2>2, SBNoAnswerFacts DEF SBTypeOK, SBShape, SBUntilIsOpen
  <2>4. ASSUME NEW i \in Ids
        PROVE  /\ SBLastsAsItsRow(sbCache[i])' /\ SBIsYoung(sbCache[i])'
               /\ sbCache'[i].expires # 0 => SBReadBefore(sbCache[i])' /\ sbCache'[i].stored = sbEpoch'
    <3>1. CASE i = id
      <4>1. sbCache'[i] = NoAnswer
        BY <1>0, <2>1, <3>1 DEF SBShape
      <4> QED BY <1>0, <2>1, <4>1, SBNoAnswerFacts DEF SBLastsAsItsRow, SBIsYoung, NoAnswer
    <3>2. CASE i # id
      <4>1. sbCache'[i] = sbCache[i]
        BY <1>0, <2>1, <3>2 DEF SBShape
      <4> QED BY <1>0, <2>1, <4>1 DEF SBAnswersHold, SBLastsAsItsRow, SBIsYoung, SBReadBefore
    <3> QED BY <3>1, <3>2
  <2>5. ASSUME NEW s \in Requests
        PROVE  /\ SBIsYoung(sbBody[s])' /\ sbBody'[s].epoch <= sbEpoch'
               /\ sbPc'[s] = "store" => SBLastsAsItsRow(sbBody[s])' /\ SBReadBefore(sbBody[s])'
    <3>1. CASE s = r
      BY <1>0, <2>1, <2>2, <3>1, SubscriptionsAssumption DEF SBShape, SBTypeOK, SBIsYoung
    <3>2. CASE s # r
      <4>1. sbBody'[s] = sbBody[s] /\ sbPc'[s] = sbPc[s]
        BY <1>0, <2>1, <3>2 DEF SBShape, SBTypeOK
      <4> QED BY <1>0, <2>1, <4>1 DEF SBAnswersHold, SBLastsAsItsRow, SBIsYoung, SBReadBefore
    <3> QED BY <3>1, <3>2
  <2> QED BY <2>3, <2>4, <2>5 DEF SBInv, SBAnswersHold
<1>3. ASSUME NEW r \in Requests, SBDone(r), UNCHANGED <<sbNow, sbRowVars, sbRequired, sbSaver, sbEdits,
                   sbSavedRow, sbEpoch>>, sbGateHit' \in BOOLEAN,
             sbCache' \in [Ids -> SBAnswers],
             \A i \in Ids : \/ sbCache'[i] = sbCache[i]
                            \/ /\ SBLastsAsItsRow(sbCache'[i]) /\ SBIsYoung(sbCache'[i])
                               /\ SBReadBefore(sbCache'[i]) /\ sbCache'[i].stored = sbEpoch
      PROVE SBInv'
  <2>1. /\ sbPc' = [sbPc EXCEPT ![r] = "idle"] /\ sbId' = [sbId EXCEPT ![r] = Name]
        /\ sbBody' = [sbBody EXCEPT ![r] = NoAnswer]
        /\ UNCHANGED <<sbNow, sbRow, sbSecret, sbEnabled, sbRowUntil, sbRequired, sbSaver, sbEdits,
                       sbSavedRow, sbEpoch>>
    BY <1>3 DEF SBDone, sbRowVars
  <2>2. SBTypeOK' /\ SBShape' /\ SBUntilIsOpen'
    BY <1>0, <1>3, <2>1, SBNoAnswerFacts DEF SBTypeOK, SBShape, SBUntilIsOpen
  <2>3. ASSUME NEW i \in Ids
        PROVE  /\ SBLastsAsItsRow(sbCache[i])' /\ SBIsYoung(sbCache[i])'
               /\ sbCache'[i].expires # 0 => SBReadBefore(sbCache[i])' /\ sbCache'[i].stored = sbEpoch'
    BY <1>0, <1>3, <2>1 DEF SBAnswersHold, SBLastsAsItsRow, SBIsYoung, SBReadBefore
  <2>4. ASSUME NEW s \in Requests
        PROVE  /\ SBIsYoung(sbBody[s])' /\ sbBody'[s].epoch <= sbEpoch'
               /\ sbPc'[s] = "store" => SBLastsAsItsRow(sbBody[s])' /\ SBReadBefore(sbBody[s])'
    <3>1. CASE s = r
      <4>1. sbBody'[s] = NoAnswer /\ sbPc'[s] = "idle"
        BY <1>0, <2>1, <3>1 DEF SBShape, SBTypeOK
      <4> QED BY <1>0, <2>1, <4>1, SBNoAnswerFacts DEF SBIsYoung
    <3>2. CASE s # r
      <4>1. sbBody'[s] = sbBody[s] /\ sbPc'[s] = sbPc[s]
        BY <1>0, <2>1, <3>2 DEF SBShape, SBTypeOK
      <4> QED BY <1>0, <2>1, <4>1 DEF SBAnswersHold, SBLastsAsItsRow, SBIsYoung, SBReadBefore
    <3> QED BY <3>1, <3>2
  <2> QED BY <2>2, <2>3, <2>4 DEF SBInv, SBAnswersHold
<1>4. ASSUME NEW r \in Requests, SBRead(r) PROVE SBInv'
  <2>1. CASE SBDone(r)
    BY <1>0, <1>3, <1>4, <2>1 DEF SBRead, SBShape, SBTypeOK
  <2>2. CASE /\ sbPc' = [sbPc EXCEPT ![r] = "store"]
             /\ sbBody' = [sbBody EXCEPT ![r].row = sbRow, ![r].epoch = sbEpoch]
             /\ UNCHANGED sbId
    <3>1. UNCHANGED <<sbNow, sbRow, sbSecret, sbEnabled, sbRowUntil, sbRequired, sbCache, sbSaver,
                      sbEdits, sbSavedRow, sbEpoch, sbGateHit>>
      BY <1>4 DEF SBRead, sbRowVars
    <3>2. /\ sbBody'[r] \in SBAnswers /\ sbBody'[r].expires = sbBody[r].expires
          /\ sbBody'[r].row = sbRow /\ sbBody'[r].epoch = sbEpoch
      BY <1>0, <2>2 DEF SBShape, SBAnswers, SBTypeOK
    <3>3. SBTypeOK' /\ SBShape' /\ SBUntilIsOpen'
      BY <1>0, <2>2, <3>1, <3>2 DEF SBTypeOK, SBShape, SBUntilIsOpen
    <3>4. ASSUME NEW s \in Requests
          PROVE  /\ SBIsYoung(sbBody[s])' /\ sbBody'[s].epoch <= sbEpoch'
                 /\ sbPc'[s] = "store" => SBLastsAsItsRow(sbBody[s])' /\ SBReadBefore(sbBody[s])'
      <4>1. CASE s = r
        <5>1. sbRowUntil[sbRow] = MaxClock /\ sbNow <= MaxClock /\ SBIsYoung(sbBody[r])
          BY <1>0 DEF SBUntilIsOpen, SBTypeOK, SBAnswersHold, Versions
        <5>2. sbBody[r].expires \in Nat
          BY <1>0 DEF SBShape, SBAnswers
        <5>3. sbNow \in Nat /\ MaxClock \in Nat /\ TTL \in Nat /\ sbSavedRow <= sbRow /\ sbSavedRow \in Nat
              /\ sbRow \in Nat /\ sbEpoch \in Nat
          BY <1>0, SubscriptionsAssumption DEF SBTypeOK, SBShape, Versions
        <5> QED BY <3>1, <3>2, <4>1, <5>1, <5>2, <5>3 DEF SBIsYoung, SBLastsAsItsRow, SBReadBefore
      <4>2. CASE s # r
        <5>1. sbBody'[s] = sbBody[s] /\ sbPc'[s] = sbPc[s]
          BY <1>0, <2>2, <4>2 DEF SBShape, SBTypeOK
        <5> QED BY <1>0, <3>1, <5>1 DEF SBAnswersHold, SBLastsAsItsRow, SBIsYoung, SBReadBefore
      <4> QED BY <4>1, <4>2
    <3>5. ASSUME NEW i \in Ids
          PROVE  /\ SBLastsAsItsRow(sbCache[i])' /\ SBIsYoung(sbCache[i])'
                 /\ sbCache'[i].expires # 0 => SBReadBefore(sbCache[i])' /\ sbCache'[i].stored = sbEpoch'
      BY <1>0, <3>1 DEF SBAnswersHold, SBLastsAsItsRow, SBIsYoung, SBReadBefore
    <3> QED BY <3>3, <3>4, <3>5 DEF SBInv, SBAnswersHold
  <2> QED BY <1>4, <2>1, <2>2 DEF SBRead
<1>5. ASSUME NEW r \in Requests, SBStore(r) PROVE SBInv'
  <2> DEFINE kept == [SBStored(r) EXCEPT !.stored = sbEpoch]
  <2>1. sbPc[r] = "store" /\ sbCache' = [sbCache EXCEPT ![sbId[r]] = kept] /\ SBDone(r)
    BY <1>5 DEF SBStore
  <2>2. /\ kept \in SBAnswers /\ kept.stored = sbEpoch /\ kept.row = sbBody[r].row
        /\ kept.expires = sbBody[r].expires /\ kept.epoch = sbBody[r].epoch
    BY <1>0 DEF SBShape, SBAnswers, SBStored
  <2> HIDE DEF kept
  <2>3. SBLastsAsItsRow(kept) /\ SBIsYoung(kept) /\ SBReadBefore(kept)
    BY <1>0, <2>1, <2>2 DEF SBAnswersHold, SBLastsAsItsRow, SBIsYoung, SBReadBefore
  <2>4. sbCache' \in [Ids -> SBAnswers] /\ \A i \in Ids : sbCache'[i] = sbCache[i] \/ sbCache'[i] = kept
    BY <1>0, <2>1, <2>2 DEF SBShape
  <2> QED BY <1>0, <1>3, <1>5, <2>1, <2>2, <2>3, <2>4 DEF SBStore, SBTypeOK
<1>6. CASE SBSaveClient
  <2>1. SBTypeOK'
    BY <1>0, <1>6, SBNewRowFacts DEF SBSaveClient, SBTypeOK, SBInv, sbRequests, Versions
  <2>2. sbSecret' <= sbEdits'
    BY <1>0, <1>6, SBNewRowFacts DEF SBSaveClient, SBTypeOK, SBShape, Secrets, NewRow
  <2> QED BY <1>6, <2>1, <2>2, SBNewRowInv DEF SBSaveClient
<1>7. CASE SBSaveSettings
  BY <1>0, <1>7, SubscriptionsAssumption
     DEF SBSaveSettings, SBInv, SBTypeOK, SBShape, SBUntilIsOpen, SBAnswersHold, SBLastsAsItsRow,
         SBIsYoung, SBReadBefore, sbRequests, sbRowVars, Versions, Secrets
<1>8. CASE SBClear
  <2>1. /\ sbCache' = [i \in Ids |-> NoAnswer] /\ sbSaver' = "idle"
        /\ sbSavedRow' = sbRow /\ sbEpoch' = sbEpoch + 1
        /\ UNCHANGED <<sbNow, sbRow, sbSecret, sbEnabled, sbRowUntil, sbRequired, sbPc, sbId, sbBody,
                       sbEdits, sbGateHit>>
    BY <1>8 DEF SBClear, sbRequests, sbRowVars
  <2>2. SBTypeOK' /\ SBShape' /\ SBUntilIsOpen'
    BY <1>0, <2>1, SBNoAnswerFacts DEF SBTypeOK, SBShape, SBUntilIsOpen, Versions
  <2>3. \A i \in Ids : SBLastsAsItsRow(sbCache[i])' /\ SBIsYoung(sbCache[i])' /\ sbCache'[i].expires = 0
    BY <1>0, <2>1, SBNoAnswerFacts DEF SBLastsAsItsRow, SBIsYoung, NoAnswer
  <2>4. ASSUME NEW r \in Requests
        PROVE  /\ SBIsYoung(sbBody[r])' /\ sbBody'[r].epoch <= sbEpoch'
               /\ sbPc'[r] = "store" => SBLastsAsItsRow(sbBody[r])' /\ SBReadBefore(sbBody[r])'
    <3>1. sbBody[r].epoch \in Nat /\ sbEpoch \in Nat
      BY <1>0 DEF SBShape, SBAnswers
    <3>2. SBIsYoung(sbBody[r]) /\ sbBody[r].epoch <= sbEpoch /\ (sbPc[r] = "store" => SBLastsAsItsRow(sbBody[r]))
      BY <1>0 DEF SBAnswersHold
    <3> QED BY <2>1, <3>1, <3>2 DEF SBLastsAsItsRow, SBIsYoung, SBReadBefore
  <2> QED BY <2>2, <2>3, <2>4 DEF SBInv, SBAnswersHold
<1>9. CASE SBRotateSecret
  <2>1. sbSecret' <= sbEdits' /\ sbSecret' \in Secrets
    BY <1>0, <1>9, SBNewRowFacts, SubscriptionsAssumption
       DEF SBRotateSecret, SBTypeOK, SBShape, Secrets, Versions, NewRow
  <2>2. SBTypeOK'
    BY <1>0, <1>9, <2>1, SBNewRowFacts DEF SBRotateSecret, SBTypeOK, sbRequests, Versions
  <2> QED BY <1>9, <2>1, <2>2, SBNewRowInv DEF SBRotateSecret
<1>10. CASE SBJobWrites
  <2>1. SBTypeOK'
    BY <1>0, <1>10, SBNewRowFacts DEF SBJobWrites, SBTypeOK, sbRequests, Versions
  <2>2. sbSecret' <= sbEdits'
    BY <1>0, <1>10 DEF SBJobWrites, SBTypeOK, SBShape, Secrets, Versions, NewRow
  <2> QED BY <1>10, <2>1, <2>2, SBNewRowInv DEF SBJobWrites
<1>11. CASE SBTick
  <2>1. /\ sbNow' = sbNow + 1 /\ sbNow \in 0..MaxClock /\ sbNow' \in 0..MaxClock
        /\ UNCHANGED <<sbRow, sbSecret, sbEnabled, sbRowUntil, sbRequired, sbCache, sbPc, sbId, sbBody,
                       sbSaver, sbEdits, sbSavedRow, sbEpoch, sbGateHit>>
    BY <1>0, <1>11, SubscriptionsAssumption DEF SBTick, SBTypeOK, sbRequests, sbRowVars
  <2>2. SBTypeOK' /\ SBShape' /\ SBUntilIsOpen'
    BY <1>0, <2>1 DEF SBTypeOK, SBShape, SBUntilIsOpen
  <2>3. \A answer \in SBAnswers : SBIsYoung(answer) => answer.expires <= sbNow' + TTL
    BY <2>1, SubscriptionsAssumption DEF SBIsYoung, SBAnswers
  <2>4. (\A i \in Ids : sbCache[i] \in SBAnswers) /\ (\A r \in Requests : sbBody[r] \in SBAnswers)
    BY <1>0 DEF SBShape
  <2> QED BY <1>0, <2>1, <2>2, <2>3, <2>4 DEF SBInv, SBAnswersHold, SBLastsAsItsRow, SBIsYoung, SBReadBefore
<1>12. CASE UNCHANGED sbVars
  BY <1>0, <1>12 DEF sbVars, SBInv, SBTypeOK, SBShape, SBUntilIsOpen, SBAnswersHold, SBLastsAsItsRow,
                     SBIsYoung, SBReadBefore
<1> QED BY <1>1, <1>2, <1>4, <1>5, <1>6, <1>7, <1>8, <1>9, <1>10, <1>11, <1>12 DEF SBNext

\* However slowly answers are built and whoever changes the row meanwhile, for any
\* number of requests and any life of an answer: what the cache gives was true at
\* most TTL ago, and after a Save has cleared the cache only a request that had
\* read before it brings the old row back (sub/output_cache.go, sub/subService.go).
THEOREM OutputIsRecent == SBSpec => []SBOutputIsRecent
<1>1. SBInv => SBOutputIsRecent
  <2> SUFFICES ASSUME SBInv, NEW i \in Ids, SBUsable(sbCache[i])
               PROVE  /\ sbRowUntil[sbCache[i].row] + TTL > sbNow
                      /\ sbCache[i].row < sbSavedRow =>
                             sbCache[i].epoch < sbEpoch /\ sbCache[i].stored = sbEpoch
    BY DEF SBInv, SBOutputIsRecent, SBHitsAreRecent, SBSaveIsSeen
  <2>1. sbCache[i] \in SBAnswers /\ sbRowUntil[sbCache[i].row] \in Nat /\ sbNow \in Nat /\ TTL \in Nat
    BY SubscriptionsAssumption DEF SBInv, SBShape, SBTypeOK, SBAnswers
  <2>2. sbNow < sbCache[i].expires /\ sbCache[i].expires \in Nat
    BY <2>1 DEF SBUsable, SBAnswers
  <2>3. SBLastsAsItsRow(sbCache[i]) /\ SBReadBefore(sbCache[i]) /\ sbCache[i].stored = sbEpoch
    BY <2>1, <2>2 DEF SBInv, SBAnswersHold
  <2> QED BY <2>1, <2>2, <2>3 DEF SBLastsAsItsRow, SBReadBefore
<1>2. SBSpec => []SBInv
  BY SBInitInv, SBNextInv, PTL DEF SBSpec
<1> QED BY <1>1, <1>2, PTL

-----------------------------------------------------------------------------
(***************************************************************************)
(* Theorems about IpMonitor, for any finite set of addresses and any limit.*)
(*                                                                         *)
(* An entry of the cache is complete because the load it came from was:    *)
(* what refreshClientAsync has in its hands must be counted too, from the  *)
(* read of the table to the publication.                                   *)
(***************************************************************************)

\* A flush that does not run holds nothing, it has yet to tell the cache of some
\* it holds, and what is on its way to the table has been seen.
OnTheirWay ==
    /\ ~imFlush.busy => imFlush.ips = {}
    /\ imFlush.left \subseteq imFlush.ips
    /\ imPending \cup imFlush.ips \subseteq imSeen

\* A load that no flush has overlapped lacks only what is pending and what the
\* flush has yet to tell the cache.
LoadCounts ==
    imRefresh = "entry" /\ ~imLate => imSeen \subseteq imLoaded \cup imPending \cup imFlush.left

IMKept == IMNothingForgotten /\ IMEntryCounts /\ IMAllowCounts /\ OnTheirWay /\ LoadCounts

IMInv == IMTypeOK /\ IMKept

\* The number of known addresses is a number of addresses.
LEMMA CountFacts ==
    ASSUME NEW S \in SUBSET Addresses
    PROVE  Cardinality(S) \in 0..Cardinality(Addresses)
<1>1. IsFiniteSet(Addresses)
  BY IpMonitorAssumption
<1>2. IsFiniteSet(S) /\ Cardinality(S) <= Cardinality(Addresses)
  BY <1>1, FS_Subset
<1>3. Cardinality(S) \in Nat /\ Cardinality(Addresses) \in Nat
  BY <1>1, <1>2, FS_CardinalityType
<1> QED BY <1>2, <1>3

\* The invariant holds when the panel starts.
LEMMA IMInitInv == IMInit => IMInv
<1> SUFFICES ASSUME IMInit PROVE IMInv
  OBVIOUS
<1>1. 0 \in 0..Cardinality(Addresses)
  BY CountFacts, FS_EmptySet
<1>2. imFlush \in [busy : BOOLEAN, ips : SUBSET Addresses, left : SUBSET Addresses]
  BY DEF IMInit, IMNoFlush
<1>3. IMTypeOK
  BY <1>1, <1>2 DEF IMInit, IMTypeOK
<1>4. IMKept
  BY DEF IMInit, IMNoFlush, IMKept, IMNothingForgotten, IMEntryCounts, IMAllowCounts, OnTheirWay,
         LoadCounts
<1> QED BY <1>3, <1>4 DEF IMInv

\* Every step keeps the types.
LEMMA IMNextTypes == IMTypeOK /\ [IMNext]_imVars => IMTypeOK'
<1> SUFFICES ASSUME IMTypeOK, [IMNext]_imVars PROVE IMTypeOK'
  OBVIOUS
<1> USE DEF IMTypeOK
<1>1. ASSUME NEW a \in Addresses, IMAllowOpen(a) PROVE IMTypeOK'
  BY <1>1 DEF IMAllowOpen, imCache, imLoad, imTable, imDelete
<1>2. ASSUME NEW a \in Addresses, IMRefreshAsync(a) PROVE IMTypeOK'
  BY <1>2 DEF IMRefreshAsync, imTable, imDelete
<1>3. ASSUME NEW a \in Addresses, IMAllowCopy(a) PROVE IMTypeOK'
  BY <1>3 DEF IMAllowCopy, imCache, imLoad, imTable, imDelete
<1>4. ASSUME NEW a \in Addresses, IMAllowLimited(a) PROVE IMTypeOK'
  BY <1>4 DEF IMAllowLimited, IMAllowDone, imCache, imLoad, imTable, imDelete
<1>5. ASSUME NEW a \in Addresses, IMReject(a) PROVE IMTypeOK'
  BY <1>5 DEF IMReject, IMAllowDone, imCache, imLoad, imTable, imDelete
<1>6. ASSUME NEW a \in Addresses, IMRecord(a) PROVE IMTypeOK'
  BY <1>6 DEF IMRecord, imCache, imLoad, imTable, imDelete
<1>7. ASSUME NEW a \in Addresses, IMRecordCached(a) PROVE IMTypeOK'
  BY <1>7 DEF IMRecordCached, IMAdded, imLoad, imTable, imDelete
<1>8. ASSUME NEW a \in Addresses, IMFlushCached(a) PROVE IMTypeOK'
  BY <1>8 DEF IMFlushCached, IMAdded, imAsk, imTable, imDelete
<1>9. CASE IMLoad
  BY <1>9 DEF IMLoad, imAsk, imTable, imDelete
<1>10. CASE IMPublish
  BY <1>10 DEF IMPublish, imAsk, imTable, imDelete
<1>11. CASE IMExpire
  BY <1>11 DEF IMExpire, IMDropEntry, imLoad, imAsk, imTable, imDelete
<1>12. CASE IMTake
  BY <1>12 DEF IMTake, imCache, imLoad, imTable, imDelete
<1>13. CASE IMWrite
  <2>1. imRows' \in SUBSET Addresses
    BY <1>13 DEF IMWrite
  <2>2. imCount' \in 0..Cardinality(Addresses)
    BY <1>13, <2>1, CountFacts DEF IMWrite
  <2> QED BY <1>13, <2>1, <2>2 DEF IMWrite, IMNoFlush, imCache, imLoad, imAsk, imDelete
<1>14. CASE IMWriteFails
  BY <1>14 DEF IMWriteFails, IMNoFlush, imCache, imLoad, imAsk, imTable, imDelete
<1>15. CASE IMClear
  BY <1>15 DEF IMClear, imCache, imLoad, imAsk
<1>16. CASE IMClearCache
  BY <1>16 DEF IMClearCache, IMDropEntry, imLoad, imAsk, imTable
<1>17. CASE IMClearCount
  <2>1. 0 \in 0..Cardinality(Addresses)
    BY CountFacts, FS_EmptySet
  <2> QED BY <1>17, <2>1 DEF IMClearCount, imCache, imLoad, imAsk
<1>18. CASE IMPrune
  BY <1>18 DEF IMPrune, imCache, imLoad, imAsk
<1>19. CASE IMPruneCache
  BY <1>19 DEF IMPruneCache, IMDropEntry, imLoad, imAsk, imTable
<1>20. CASE IMToggle
  BY <1>20 DEF IMToggle, IMDropEntry, imLoad, imAsk, imDelete
<1>21. CASE IMWarmUp
  BY <1>21 DEF IMWarmUp, imLoad, imAsk, imTable, imDelete
<1>22. CASE UNCHANGED imVars
  BY <1>22 DEF imVars, imCache, imLoad, imAsk, imTable, imDelete
<1> HIDE DEF IMTypeOK
<1> QED
  BY <1>1, <1>2, <1>3, <1>4, <1>5, <1>6, <1>7, <1>8, <1>9, <1>10, <1>11,
     <1>12, <1>13, <1>14, <1>15, <1>16, <1>17, <1>18, <1>19, <1>20,
     <1>21, <1>22 DEF IMNext

\* Every step keeps the addresses known and counted.
LEMMA IMNextInv == IMInv /\ [IMNext]_imVars => IMInv'
<1> SUFFICES ASSUME IMInv, [IMNext]_imVars PROVE IMInv'
  OBVIOUS
<1>0. /\ IMKept
      /\ imFlush \in [busy : BOOLEAN, ips : SUBSET Addresses, left : SUBSET Addresses]
      /\ imConn \in [Addresses -> {"none", "missed", "copied", "let", "noted"}]
      /\ imClone \in [Addresses -> SUBSET Addresses]
  BY DEF IMInv, IMTypeOK
<1> USE <1>0 DEF IMKept, IMNothingForgotten, IMEntryCounts, OnTheirWay,
             LoadCounts, IMAllowCounts, IMCounted
<1>1. ASSUME NEW a \in Addresses, IMAllowOpen(a) PROVE IMKept'
  BY <1>1 DEF IMAllowOpen, imCache, imLoad, imTable, imDelete
<1>2. ASSUME NEW a \in Addresses, IMRefreshAsync(a) PROVE IMKept'
  BY <1>2 DEF IMRefreshAsync, imTable, imDelete
<1>3. ASSUME NEW a \in Addresses, IMAllowCopy(a) PROVE IMKept'
  BY <1>3 DEF IMAllowCopy, imCache, imLoad, imTable, imDelete
<1>4. ASSUME NEW a \in Addresses, IMAllowLimited(a) PROVE IMKept'
  BY <1>4 DEF IMAllowLimited, IMAllowDone, imCache, imLoad, imTable, imDelete
<1>5. ASSUME NEW a \in Addresses, IMReject(a) PROVE IMKept'
  BY <1>5 DEF IMReject, IMAllowDone, imCache, imLoad, imTable, imDelete
<1>6. ASSUME NEW a \in Addresses, IMRecord(a) PROVE IMKept'
  BY <1>6 DEF IMRecord, imCache, imLoad, imTable, imDelete
<1>7. ASSUME NEW a \in Addresses, IMRecordCached(a) PROVE IMKept'
  BY <1>7 DEF IMRecordCached, IMAdded, imLoad, imTable, imDelete
<1>8. ASSUME NEW a \in Addresses, IMFlushCached(a) PROVE IMKept'
  BY <1>8 DEF IMFlushCached, IMAdded, imAsk, imTable, imDelete
<1>9. ASSUME IMLoad PROVE IMKept'
  BY <1>9 DEF IMLoad, imAsk, imTable, imDelete
<1>10. ASSUME IMPublish PROVE IMKept'
  BY <1>10 DEF IMPublish, imAsk, imTable, imDelete
<1>11. ASSUME IMExpire PROVE IMKept'
  BY <1>11 DEF IMExpire, IMDropEntry, imLoad, imAsk, imTable, imDelete
<1>12. ASSUME IMTake PROVE IMKept'
  BY <1>12 DEF IMTake, imCache, imLoad, imTable, imDelete
<1>13. ASSUME IMWrite PROVE IMKept'
  BY <1>13 DEF IMWrite, IMNoFlush, imCache, imLoad, imAsk, imDelete
<1>14. ASSUME IMWriteFails PROVE IMKept'
  BY <1>14 DEF IMWriteFails, IMNoFlush, imCache, imLoad, imAsk, imTable, imDelete
<1>15. ASSUME IMClear PROVE IMKept'
  BY <1>15 DEF IMClear, imCache, imLoad, imAsk
<1>16. ASSUME IMClearCache PROVE IMKept'
  BY <1>16 DEF IMClearCache, IMDropEntry, imLoad, imAsk, imTable
<1>17. ASSUME IMClearCount PROVE IMKept'
  BY <1>17 DEF IMClearCount, imCache, imLoad, imAsk
<1>18. ASSUME IMPrune PROVE IMKept'
  BY <1>18 DEF IMPrune, imCache, imLoad, imAsk
<1>19. ASSUME IMPruneCache PROVE IMKept'
  BY <1>19 DEF IMPruneCache, IMDropEntry, imLoad, imAsk, imTable
<1>20. ASSUME IMToggle PROVE IMKept'
  BY <1>20 DEF IMToggle, IMDropEntry, imLoad, imAsk, imDelete
<1>21. ASSUME IMWarmUp PROVE IMKept'
  BY <1>21 DEF IMWarmUp, imLoad, imAsk, imTable, imDelete
<1>22. ASSUME UNCHANGED imVars PROVE IMKept'
  BY <1>22 DEF imVars, imCache, imLoad, imAsk, imTable, imDelete
<1>23. IMTypeOK'
  BY IMNextTypes DEF IMInv
<1> HIDE <1>0 DEF IMKept
<1>24. IMKept'
  BY <1>1, <1>2, <1>3, <1>4, <1>5, <1>6, <1>7, <1>8, <1>9, <1>10, <1>11,
     <1>12, <1>13, <1>14, <1>15, <1>16, <1>17, <1>18, <1>19, <1>20,
     <1>21, <1>22 DEF IMNext
<1> QED BY <1>23, <1>24 DEF IMInv

\* The invariant holds in every behaviour of the monitor.
THEOREM IpMonitorInvariant == IMSpec => []IMInv
  BY IMInitInv, IMNextInv, PTL DEF IMSpec

\* No recorded address is forgotten between Record, Flush and the table; a usable
\* entry of the cache and the pending map have all of them but those a flush is
\* about to tell the cache; and Allow counts all of them unless a flush has come
\* between its two reads (ipmonitor.go).
THEOREM AddressesKept == IMSpec => []IMAddressesKept
<1>1. IMInv => IMAddressesKept
  BY DEF IMInv, IMKept, IMAddressesKept
<1> QED BY <1>1, IpMonitorInvariant, PTL

-----------------------------------------------------------------------------
(***************************************************************************)
(* Theorems about ConnTracker, for any finite set of connections, any      *)
(* inbounds and any number of resets.                                      *)
(*                                                                         *)
(* That a Reset may trust the counter it waits for needs that the counter  *)
(* of every epoch is the number of its wrappers at work, and that no       *)
(* wrapper is ever added to an epoch that is over.                         *)
(***************************************************************************)

\* The wrappers of an epoch that have not finished untrackOnce.
Working(e) == {k \in Conns : ctState[k] # "new" /\ ctOf[k] = e /\ ctWrapper[k] # "done"}

Counted == \A e \in 0..MaxEpochs : ctInflight[e] = Cardinality(Working(e))

\* A connection that is not tracked yet has not ended.
NewIsFresh == \A k \in Conns : ctState[k] = "new" => ctWrapper[k] = "live" /\ k \notin ctClosing

\* The epochs that a Reset waits for or has seen end are over.
PastEpochs ==
    /\ ctReset # CTNone => ctReset < ctEpoch
    /\ \A e \in ctClean : e < ctEpoch

\* The parts that do not count.
Followed == CTNoStray /\ NewIsFresh /\ PastEpochs /\ CTResetIsClean

CTInv == CTTypeOK /\ Counted /\ Followed

\* A set of connections is finite, and its size fits the counters.
LEMMA WorkingFacts ==
    ASSUME NEW S \in SUBSET Conns
    PROVE  /\ IsFiniteSet(S) /\ Cardinality(S) \in Nat
           /\ Cardinality(S) \in 0..Cardinality(Conns)
<1>1. IsFiniteSet(Conns)
  BY ConnTrackerAssumption
<1>2. IsFiniteSet(S) /\ Cardinality(S) <= Cardinality(Conns)
  BY <1>1, FS_Subset
<1>3. Cardinality(S) \in Nat /\ Cardinality(Conns) \in Nat
  BY <1>1, <1>2, FS_CardinalityType
<1> QED BY <1>2, <1>3

\* So do the wrappers at work after a step.
LEMMA NextSizes == \A e : Cardinality(Working(e)') \in 0..Cardinality(Conns)
  BY WorkingFacts DEF Working

\* The invariant holds before the first connection.
LEMMA CTInitInv == CTInit => CTInv
<1> SUFFICES ASSUME CTInit PROVE CTInv
  OBVIOUS
<1>1. \A e \in 0..MaxEpochs : Working(e) = {}
  BY DEF CTInit, Working
<1>2. Counted
  BY <1>1, FS_EmptySet DEF CTInit, Counted
<1>3. 0 \in 0..Cardinality(Conns)
  BY WorkingFacts, FS_EmptySet
<1>4. ctInflight \in [0..MaxEpochs -> 0..Cardinality(Conns)]
  BY <1>3 DEF CTInit
<1>5. CTTypeOK
  BY <1>4, ConnTrackerAssumption DEF CTInit, CTTypeOK, CTNone
<1>6. Followed
  BY DEF CTInit, CTRelays, Followed, CTNoStray, NewIsFresh, PastEpochs, CTResetIsClean
<1> QED BY <1>2, <1>5, <1>6 DEF CTInv

\* A step that moves no counter keeps them true when nobody begins or ends work.
LEMMA QuietCounts ==
    ASSUME Counted, UNCHANGED <<ctOf, ctInflight>>,
           \A k \in Conns : /\ ctState'[k] = "new" <=> ctState[k] = "new"
                            /\ ctWrapper'[k] = "done" <=> ctWrapper[k] = "done"
    PROVE  Counted' /\ \A e \in 0..MaxEpochs : Working(e)' = Working(e)
<1>1. \A e \in 0..MaxEpochs : Working(e)' = Working(e)
  BY DEF Working
<1> QED BY <1>1 DEF Counted

\* Connections that are closed below their wrappers stay at work.
LEMMA ClosedFacts ==
    ASSUME CTTypeOK, NEW ks
    PROVE  /\ CTClosed(ks) \in [Conns -> {"new", "open", "half", "closed", "ended"}]
           /\ \A k \in Conns : /\ CTClosed(ks)[k] = "new" <=> ctState[k] = "new"
                               /\ CTClosed(ks)[k] \in {"open", "half"} =>
                                      ctState[k] = CTClosed(ks)[k] /\ k \notin ks
  BY DEF CTTypeOK, CTClosed

\* trackConnection adds one wrapper to the present epoch.
LEMMA TrackInv == ASSUME CTInv, NEW k \in Conns, CTTrack(k) PROVE CTInv'
<1> USE DEF CTInv
<1>1. PICK now \in 0..MaxEpochs : now = ctEpoch
  BY DEF CTTypeOK
<1>2. k \notin Working(now) /\ Working(now)' = Working(now) \cup {k}
  BY <1>1 DEF CTTrack, CTTypeOK, Working, Followed, NewIsFresh
<1>3. \A e \in 0..MaxEpochs : e # now => Working(e)' = Working(e)
  BY <1>1 DEF CTTrack, CTTypeOK, Working
<1>4. Cardinality(Working(now)') = Cardinality(Working(now)) + 1
  <2>1. IsFiniteSet(Working(now))
    BY WorkingFacts DEF Working
  <2> QED BY <1>2, <2>1, FS_AddElement
<1>5. \A e \in 0..MaxEpochs : ctInflight'[e] = IF e = now THEN ctInflight[e] + 1 ELSE ctInflight[e]
  BY <1>1 DEF CTTrack, CTTypeOK
<1>6. \A e \in 0..MaxEpochs : ctInflight'[e] = Cardinality(Working(e)')
  BY <1>3, <1>4, <1>5 DEF Counted
<1>7. \A e \in 0..MaxEpochs : ctInflight'[e] \in 0..Cardinality(Conns)
  BY <1>6, NextSizes
<1>8. ctInflight' \in [0..MaxEpochs -> 0..Cardinality(Conns)]
  BY <1>7 DEF CTTrack, CTTypeOK
<1>9. CTTypeOK'
  BY <1>8 DEF CTTrack, CTTypeOK, ctOutside
<1>10. Followed'
  BY DEF CTTrack, CTTypeOK, CTRelays, Followed, CTNoStray, NewIsFresh, PastEpochs, CTResetIsClean,
         ctOutside
<1> QED BY <1>6, <1>9, <1>10 DEF Counted

\* The end of untrackOnce takes one wrapper from its epoch.
LEMMA EndInv ==
    ASSUME CTInv, NEW k \in Conns, CTCountOff(k)
    PROVE  CTInv'
<1> USE DEF CTInv
<1>1. PICK own \in 0..MaxEpochs : own = ctOf[k]
  BY DEF CTTypeOK
<1>2. k \in Working(own) /\ Working(own)' = Working(own) \ {k}
  BY <1>1 DEF CTCountOff, CTTypeOK, Working, Followed, NewIsFresh
<1>3. \A e \in 0..MaxEpochs : e # own => Working(e)' = Working(e)
  BY <1>1 DEF CTCountOff, CTTypeOK, Working
<1>4. Cardinality(Working(own)') = Cardinality(Working(own)) - 1
  <2>1. IsFiniteSet(Working(own))
    BY WorkingFacts DEF Working
  <2> QED BY <1>2, <2>1, FS_RemoveElement
<1>5. \A e \in 0..MaxEpochs : ctInflight'[e] = IF e = own THEN ctInflight[e] - 1 ELSE ctInflight[e]
  BY <1>1 DEF CTCountOff, CTTypeOK
<1>6. \A e \in 0..MaxEpochs : ctInflight'[e] = Cardinality(Working(e)')
  BY <1>3, <1>4, <1>5 DEF Counted
<1>7. \A e \in 0..MaxEpochs : ctInflight'[e] \in 0..Cardinality(Conns)
  BY <1>6, NextSizes
<1>8. ctInflight' \in [0..MaxEpochs -> 0..Cardinality(Conns)]
  BY <1>7 DEF CTCountOff, CTTypeOK
<1>9. CTTypeOK'
  BY <1>8 DEF CTCountOff, CTTypeOK, ctOutside
<1>10. CTNoStray'
  BY DEF CTCountOff, CTTypeOK, CTRelays, Followed, CTNoStray
<1>11. NewIsFresh' /\ PastEpochs' /\ CTResetIsClean'
  BY DEF CTCountOff, CTTypeOK, Followed, NewIsFresh, PastEpochs, CTResetIsClean
<1> QED BY <1>6, <1>9, <1>10, <1>11 DEF Counted, Followed

\* untrackConnection takes a wrapper's connection from the map, with an excuse.
LEMMA UntrackInv ==
    ASSUME CTInv, NEW k \in Conns, CTIOError(k) \/ CTBeginClose(k)
    PROVE  CTInv'
<1> USE DEF CTInv
<1>1. CTUntrack(k) /\ ctClosing' \in {ctClosing, ctClosing \cup {k}}
  BY DEF CTIOError, CTBeginClose
<1>2. Counted'
  BY <1>1, QuietCounts DEF CTUntrack, CTTypeOK
<1>3. CTTypeOK'
  BY <1>1 DEF CTUntrack, CTUntracked, CTTypeOK, ctOutside
<1>4. CTNoStray'
  <2> SUFFICES ASSUME NEW j \in Conns, CTRelays(j)'
               PROVE  \/ j \in ctTracked' /\ ctOf'[j] = ctEpoch'
                      \/ ctState'[j] = "half" /\ ctWrapper'[j] # "live"
                      \/ j \in ctClosing'
    BY DEF CTNoStray
  <2>1. CTRelays(j) /\ ctState'[j] = ctState[j]
    BY <1>1 DEF CTUntrack, CTRelays
  <2>2. CASE j # k
    BY <1>1, <2>1, <2>2 DEF CTUntrack, CTUntracked, CTTypeOK, Followed, CTNoStray
  <2>3. CASE j = k
    BY <1>1, <2>1, <2>3 DEF CTUntrack, CTIOError, CTBeginClose, CTTypeOK, CTRelays
  <2> QED BY <2>2, <2>3
<1>5. NewIsFresh' /\ PastEpochs' /\ CTResetIsClean'
  BY <1>1 DEF CTUntrack, CTTypeOK, Followed, NewIsFresh, PastEpochs, CTResetIsClean
<1> QED BY <1>2, <1>3, <1>4, <1>5 DEF Followed

\* Close closes what it has untracked.
LEMMA CloseInv == ASSUME CTInv, NEW k \in Conns, CTClose(k) PROVE CTInv'
<1> USE DEF CTInv
<1>0. ctState[k] # "new"
  BY DEF CTClose, Followed, NewIsFresh
<1>1. Counted'
  BY <1>0, QuietCounts DEF CTClose, CTTypeOK
<1>2. CTTypeOK'
  BY DEF CTClose, CTTypeOK, ctOutside
<1>3. Followed'
  BY <1>0 DEF CTClose, CTTypeOK, CTRelays, Followed, CTNoStray, NewIsFresh, PastEpochs, CTResetIsClean
<1> QED BY <1>1, <1>2, <1>3

\* Every step keeps the invariant.
LEMMA CTNextInv == CTInv /\ [CTNext]_ctVars => CTInv'
<1> SUFFICES ASSUME CTInv, [CTNext]_ctVars PROVE CTInv'
  OBVIOUS
<1> USE DEF CTInv
<1>1. ASSUME NEW k \in Conns, CTTrack(k) PROVE CTInv'
  BY <1>1, TrackInv
<1>2. ASSUME NEW k \in Conns, CTPeerEnds(k) PROVE CTInv'
  <2>1. Counted'
    BY <1>2, QuietCounts DEF CTPeerEnds, CTRelays, CTTypeOK
  <2>2. CTTypeOK'
    BY <1>2 DEF CTPeerEnds, CTRelays, CTTypeOK, ctOutside
  <2>3. Followed'
    BY <1>2 DEF CTPeerEnds, CTTypeOK, CTRelays, Followed, CTNoStray, NewIsFresh, PastEpochs, CTResetIsClean
  <2> QED BY <2>1, <2>2, <2>3
<1>3. ASSUME NEW k \in Conns,
             CTIOError(k) \/ CTBeginClose(k) \/ CTCountOff(k) \/ CTClose(k)
      PROVE  CTInv'
  BY <1>3, UntrackInv, EndInv, CloseInv
<1>4. ASSUME NEW i \in Inbounds, CTCloseByInbound(i) PROVE CTInv'
  <2> DEFINE hit == {k \in ctTracked : ctInbound[k] = i}
  <2>1. ctState' = CTClosed(hit) /\ ctTracked' = ctTracked \ hit
    BY <1>4 DEF CTCloseByInbound
  <2>2. Counted'
    BY <1>4, <2>1, ClosedFacts, QuietCounts DEF CTCloseByInbound
  <2>3. CTTypeOK'
    BY <1>4, <2>1, ClosedFacts DEF CTCloseByInbound, CTTypeOK
  <2>4. Followed'
    BY <1>4, <2>1, ClosedFacts DEF CTCloseByInbound, CTRelays, Followed, CTNoStray, NewIsFresh,
       PastEpochs, CTResetIsClean
  <2> QED BY <2>2, <2>3, <2>4
<1>5. CASE CTBeginReset
  <2>1. ctState' = CTClosed(ctTracked)
    BY <1>5 DEF CTBeginReset
  <2>2. Counted'
    BY <1>5, <2>1, ClosedFacts, QuietCounts DEF CTBeginReset
  <2>3. CTTypeOK'
    BY <1>5, <2>1, ClosedFacts, ConnTrackerAssumption DEF CTBeginReset, CTTypeOK, CTNone, ctOutside
  <2>4. CTNoStray'
    BY <1>5, <2>1, ClosedFacts DEF CTBeginReset, CTRelays, Followed, CTNoStray
  <2>5. NewIsFresh' /\ CTResetIsClean'
    BY <1>5, <2>1, ClosedFacts DEF CTBeginReset, Followed, NewIsFresh, CTResetIsClean
  <2>6. PastEpochs'
    BY <1>5, ConnTrackerAssumption DEF CTBeginReset, CTTypeOK, Followed, PastEpochs
  <2> QED BY <2>2, <2>3, <2>4, <2>5, <2>6 DEF Followed
<1>6. CASE CTEndReset
  <2>1. ctReset \in 0..MaxEpochs
    BY <1>6, ConnTrackerAssumption DEF CTEndReset, CTTypeOK, CTNone
  <2>2. Counted'
    BY <1>6, QuietCounts DEF CTEndReset
  <2>3. CTTypeOK'
    <3>1. CTNone \in 0..CTNone
      BY ConnTrackerAssumption DEF CTNone
    <3>2. ctClean' \subseteq 0..MaxEpochs
      BY <1>6, <2>1 DEF CTEndReset, CTTypeOK
    <3> QED BY <1>6, <3>1, <3>2 DEF CTEndReset, CTTypeOK, ctOutside
  <2>4. ctInflight[ctReset] = 0 => Working(ctReset) = {}
    BY <2>1, WorkingFacts, FS_EmptySet DEF Counted, Working
  <2>5. CTResetIsClean'
    BY <1>6, <2>4 DEF CTEndReset, Followed, CTResetIsClean, Working
  <2>6. CTNoStray' /\ NewIsFresh' /\ PastEpochs'
    BY <1>6 DEF CTEndReset, CTRelays, Followed, CTNoStray, NewIsFresh, PastEpochs
  <2> QED BY <2>2, <2>3, <2>5, <2>6 DEF Followed
<1>7. CASE UNCHANGED ctVars
  <2>1. Counted'
    BY <1>7, QuietCounts DEF ctVars
  <2> QED
    BY <1>7, <2>1 DEF ctVars, ctOutside, CTTypeOK, CTRelays, Followed, CTNoStray, NewIsFresh,
       PastEpochs, CTResetIsClean
<1> QED BY <1>1, <1>2, <1>3, <1>4, <1>5, <1>6, <1>7 DEF CTNext

\* The invariant holds in every behaviour of the tracker.
THEOREM ConnTrackerInvariant == CTSpec => []CTInv
  BY CTInitInv, CTNextInv, PTL DEF CTSpec

\* No connection that relays escapes the map or the present epoch, but one whose
\* one direction is over or that is just being closed, and a Reset that reports
\* idle has seen every wrapper of its epoch end (tracker_conn.go).
THEOREM ConnectionsKept == CTSpec => []CTConnectionsKept
<1>1. CTInv => CTConnectionsKept
  BY DEF CTInv, Followed, CTConnectionsKept
<1> QED BY <1>1, ConnTrackerInvariant, PTL

-----------------------------------------------------------------------------
(* The box.  The start order is one sequence of steps; of its places the   *)
(* proofs need only where what is served begins and where it is complete.  *)

CBStep == Parts \X Open

\* A sequence of n steps, and one sequence after another.
CBSteps(s, n) == s \in Seq(CBStep) /\ Len(s) = n
CBThen(s, t) == s \o t

\* A piece of the start order.
LEMMA CBAtFacts ==
    ASSUME NEW stage \in Open, NEW parts \in Seq(Parts), NEW n \in Nat, Len(parts) = n
    PROVE  /\ CBSteps(CBAt(stage, parts), n)
           /\ \A i \in 1..n : CBAt(stage, parts)[i] = <<parts[i], stage>>
<1>1. \A i \in 1..n : parts[i] \in Parts
  OBVIOUS
<1>2. CBAt(stage, parts) = [i \in 1..n |-> <<parts[i], stage>>]
  BY DEF CBAt
<1>3. [i \in 1..n |-> <<parts[i], stage>>] \in [1..n -> CBStep]
  BY <1>1 DEF CBStep
<1>4. [i \in 1..n |-> <<parts[i], stage>>] \in Seq(CBStep) /\ Len([i \in 1..n |-> <<parts[i], stage>>]) = n
  BY <1>3, SeqDef, LenProperties
<1> QED BY <1>2, <1>4 DEF CBSteps

\* One piece after the other.
LEMMA CBJoin ==
    ASSUME NEW s, NEW t, NEW m \in Nat, NEW n \in Nat, CBSteps(s, m), CBSteps(t, n)
    PROVE  /\ CBSteps(CBThen(s, t), m + n)
           /\ \A i \in 1..m : CBThen(s, t)[i] = s[i]
           /\ \A i \in 1..n : CBThen(s, t)[m + i] = t[i]
<1>0. s \in Seq(CBStep) /\ t \in Seq(CBStep) /\ Len(s) = m /\ Len(t) = n
  BY DEF CBSteps
<1>1. /\ s \o t \in Seq(CBStep) /\ Len(s \o t) = m + n
      /\ \A i \in 1..(m + n) : (s \o t)[i] = IF i <= m THEN s[i] ELSE t[i - m]
  BY <1>0, ConcatProperties
<1>2. \A i \in 1..m : (s \o t)[i] = s[i]
  BY <1>1
<1>3. ASSUME NEW i \in 1..n PROVE (s \o t)[m + i] = t[i]
  <2>1. m + i \in 1..(m + n) /\ ~(m + i <= m) /\ (m + i) - m = i
    OBVIOUS
  <2> QED BY <1>1, <2>1
<1> QED BY <1>1, <1>2, <1>3 DEF CBSteps, CBThen

\* The start order, place by place.
LEMMA CBStartPlaces ==
    /\ CBSteps(CBStartOrder, 41)
    /\ CBStartOrder[1] = <<"logger", "started">>
    /\ \A i \in 1..1 : CBStartOrder[1 + i] = <<<<"internal">>[i], "initialize">>
    /\ \A i \in 1..9 : CBStartOrder[2 + i] = <<CBAll[i], "initialize">>
    /\ \A i \in 1..6 : CBStartOrder[11 + i] = <<<<"outbound", "dns", "dnsRouter", "network", "connection", "router">>[i], "start">>
    /\ \A i \in 1..1 : CBStartOrder[17 + i] = <<<<"internal">>[i], "start">>
    /\ \A i \in 1..3 : CBStartOrder[18 + i] = <<<<"inbound", "endpoint", "service">>[i], "start">>
    /\ \A i \in 1..9 : CBStartOrder[21 + i] = <<<<"outbound", "network", "dns", "dnsRouter", "connection", "router", "inbound",
                  "endpoint", "service">>[i], "postStart">>
    /\ \A i \in 1..1 : CBStartOrder[30 + i] = <<<<"internal">>[i], "postStart">>
    /\ \A i \in 1..9 : CBStartOrder[31 + i] = <<CBAll[i], "started">>
    /\ \A i \in 1..1 : CBStartOrder[40 + i] = <<<<"internal">>[i], "started">>
<1> DEFINE a1 == << <<"logger", "started">> >>
           a2 == CBAt("initialize", <<"internal">>)
           a3 == CBAt("initialize", CBAll)
           a4 == CBAt("start", <<"outbound", "dns", "dnsRouter", "network", "connection", "router">>)
           a5 == CBAt("start", <<"internal">>)
           a6 == CBAt("start", <<"inbound", "endpoint", "service">>)
           a7 == CBAt("postStart", <<"outbound", "network", "dns", "dnsRouter", "connection", "router", "inbound",
                  "endpoint", "service">>)
           a8 == CBAt("postStart", <<"internal">>)
           a9 == CBAt("started", CBAll)
           a10 == CBAt("started", <<"internal">>)
           c2 == CBThen(a1, a2)
           c3 == CBThen(c2, a3)
           c4 == CBThen(c3, a4)
           c5 == CBThen(c4, a5)
           c6 == CBThen(c5, a6)
           c7 == CBThen(c6, a7)
           c8 == CBThen(c7, a8)
           c9 == CBThen(c8, a9)
           c10 == CBThen(c9, a10)
<1>1. CBStartOrder = c10
  BY DEF CBStartOrder, CBPreStart, CBThen
<1>2. CBSteps(a1, 1) /\ a1[1] = <<"logger", "started">>
  BY DEF CBStep, Parts, Open, CBSteps
<1>3. CBSteps(a2, 1) /\ \A i \in 1..1 : a2[i] = <<<<"internal">>[i], "initialize">>
  <2>1. <<"internal">> \in Seq(Parts) /\ Len(<<"internal">>) = 1
    BY DEF CBAll, Parts, Managers, Accepting, Carrying
  <2> QED BY <2>1, CBAtFacts DEF Open
<1>4. CBSteps(a3, 9) /\ \A i \in 1..9 : a3[i] = <<CBAll[i], "initialize">>
  <2>1. CBAll \in Seq(Parts) /\ Len(CBAll) = 9
    BY DEF CBAll, Parts, Managers, Accepting, Carrying
  <2> QED BY <2>1, CBAtFacts DEF Open
<1>5. CBSteps(a4, 6) /\ \A i \in 1..6 : a4[i] = <<<<"outbound", "dns", "dnsRouter", "network", "connection", "router">>[i], "start">>
  <2>1. <<"outbound", "dns", "dnsRouter", "network", "connection", "router">> \in Seq(Parts) /\ Len(<<"outbound", "dns", "dnsRouter", "network", "connection", "router">>) = 6
    BY DEF CBAll, Parts, Managers, Accepting, Carrying
  <2> QED BY <2>1, CBAtFacts DEF Open
<1>6. CBSteps(a5, 1) /\ \A i \in 1..1 : a5[i] = <<<<"internal">>[i], "start">>
  <2>1. <<"internal">> \in Seq(Parts) /\ Len(<<"internal">>) = 1
    BY DEF CBAll, Parts, Managers, Accepting, Carrying
  <2> QED BY <2>1, CBAtFacts DEF Open
<1>7. CBSteps(a6, 3) /\ \A i \in 1..3 : a6[i] = <<<<"inbound", "endpoint", "service">>[i], "start">>
  <2>1. <<"inbound", "endpoint", "service">> \in Seq(Parts) /\ Len(<<"inbound", "endpoint", "service">>) = 3
    BY DEF CBAll, Parts, Managers, Accepting, Carrying
  <2> QED BY <2>1, CBAtFacts DEF Open
<1>8. CBSteps(a7, 9) /\ \A i \in 1..9 : a7[i] = <<<<"outbound", "network", "dns", "dnsRouter", "connection", "router", "inbound",
                  "endpoint", "service">>[i], "postStart">>
  <2>1. <<"outbound", "network", "dns", "dnsRouter", "connection", "router", "inbound",
                  "endpoint", "service">> \in Seq(Parts) /\ Len(<<"outbound", "network", "dns", "dnsRouter", "connection", "router", "inbound",
                  "endpoint", "service">>) = 9
    BY DEF CBAll, Parts, Managers, Accepting, Carrying
  <2> QED BY <2>1, CBAtFacts DEF Open
<1>9. CBSteps(a8, 1) /\ \A i \in 1..1 : a8[i] = <<<<"internal">>[i], "postStart">>
  <2>1. <<"internal">> \in Seq(Parts) /\ Len(<<"internal">>) = 1
    BY DEF CBAll, Parts, Managers, Accepting, Carrying
  <2> QED BY <2>1, CBAtFacts DEF Open
<1>10. CBSteps(a9, 9) /\ \A i \in 1..9 : a9[i] = <<CBAll[i], "started">>
  <2>1. CBAll \in Seq(Parts) /\ Len(CBAll) = 9
    BY DEF CBAll, Parts, Managers, Accepting, Carrying
  <2> QED BY <2>1, CBAtFacts DEF Open
<1>11. CBSteps(a10, 1) /\ \A i \in 1..1 : a10[i] = <<<<"internal">>[i], "started">>
  <2>1. <<"internal">> \in Seq(Parts) /\ Len(<<"internal">>) = 1
    BY DEF CBAll, Parts, Managers, Accepting, Carrying
  <2> QED BY <2>1, CBAtFacts DEF Open
<1> HIDE DEF a1, a2, a3, a4, a5, a6, a7, a8, a9, a10
<1>12. /\ CBSteps(c2, 2)
       /\ \A i \in 1..1 : c2[i] = a1[i]
       /\ \A i \in 1..1 : c2[1 + i] = a2[i]
  <2>1. CBSteps(a1, 1) /\ CBSteps(a2, 1)
    BY <1>2, <1>3
  <2> QED BY <2>1, CBJoin
<1> HIDE DEF c2
<1>13. /\ CBSteps(c3, 11)
       /\ \A i \in 1..2 : c3[i] = c2[i]
       /\ \A i \in 1..9 : c3[2 + i] = a3[i]
  <2>1. CBSteps(c2, 2) /\ CBSteps(a3, 9)
    BY <1>12, <1>4
  <2> QED BY <2>1, CBJoin
<1> HIDE DEF c3
<1>14. /\ CBSteps(c4, 17)
       /\ \A i \in 1..11 : c4[i] = c3[i]
       /\ \A i \in 1..6 : c4[11 + i] = a4[i]
  <2>1. CBSteps(c3, 11) /\ CBSteps(a4, 6)
    BY <1>13, <1>5
  <2> QED BY <2>1, CBJoin
<1> HIDE DEF c4
<1>15. /\ CBSteps(c5, 18)
       /\ \A i \in 1..17 : c5[i] = c4[i]
       /\ \A i \in 1..1 : c5[17 + i] = a5[i]
  <2>1. CBSteps(c4, 17) /\ CBSteps(a5, 1)
    BY <1>14, <1>6
  <2> QED BY <2>1, CBJoin
<1> HIDE DEF c5
<1>16. /\ CBSteps(c6, 21)
       /\ \A i \in 1..18 : c6[i] = c5[i]
       /\ \A i \in 1..3 : c6[18 + i] = a6[i]
  <2>1. CBSteps(c5, 18) /\ CBSteps(a6, 3)
    BY <1>15, <1>7
  <2> QED BY <2>1, CBJoin
<1> HIDE DEF c6
<1>17. /\ CBSteps(c7, 30)
       /\ \A i \in 1..21 : c7[i] = c6[i]
       /\ \A i \in 1..9 : c7[21 + i] = a7[i]
  <2>1. CBSteps(c6, 21) /\ CBSteps(a7, 9)
    BY <1>16, <1>8
  <2> QED BY <2>1, CBJoin
<1> HIDE DEF c7
<1>18. /\ CBSteps(c8, 31)
       /\ \A i \in 1..30 : c8[i] = c7[i]
       /\ \A i \in 1..1 : c8[30 + i] = a8[i]
  <2>1. CBSteps(c7, 30) /\ CBSteps(a8, 1)
    BY <1>17, <1>9
  <2> QED BY <2>1, CBJoin
<1> HIDE DEF c8
<1>19. /\ CBSteps(c9, 40)
       /\ \A i \in 1..31 : c9[i] = c8[i]
       /\ \A i \in 1..9 : c9[31 + i] = a9[i]
  <2>1. CBSteps(c8, 31) /\ CBSteps(a9, 9)
    BY <1>18, <1>10
  <2> QED BY <2>1, CBJoin
<1> HIDE DEF c9
<1>20. /\ CBSteps(c10, 41)
       /\ \A i \in 1..40 : c10[i] = c9[i]
       /\ \A i \in 1..1 : c10[40 + i] = a10[i]
  <2>1. CBSteps(c9, 40) /\ CBSteps(a10, 1)
    BY <1>19, <1>11
  <2> QED BY <2>1, CBJoin
<1> HIDE DEF c10
<1>21. \A i \in 1..40 : c10[i] = c9[i]
  BY <1>20
<1>22. \A i \in 1..31 : c10[i] = c8[i]
  BY <1>21, <1>19
<1>23. \A i \in 1..30 : c10[i] = c7[i]
  BY <1>22, <1>18
<1>24. \A i \in 1..21 : c10[i] = c6[i]
  BY <1>23, <1>17
<1>25. \A i \in 1..18 : c10[i] = c5[i]
  BY <1>24, <1>16
<1>26. \A i \in 1..17 : c10[i] = c4[i]
  BY <1>25, <1>15
<1>27. \A i \in 1..11 : c10[i] = c3[i]
  BY <1>26, <1>14
<1>28. \A i \in 1..2 : c10[i] = c2[i]
  BY <1>27, <1>13
<1>29. c10[1] = <<"logger", "started">>
  BY <1>28, <1>12, <1>2
<1>30. \A i \in 1..1 : c10[1 + i] = <<<<"internal">>[i], "initialize">>
  BY <1>28, <1>12, <1>3
<1>31. \A i \in 1..9 : c10[2 + i] = <<CBAll[i], "initialize">>
  BY <1>27, <1>13, <1>4
<1>32. \A i \in 1..6 : c10[11 + i] = <<<<"outbound", "dns", "dnsRouter", "network", "connection", "router">>[i], "start">>
  BY <1>26, <1>14, <1>5
<1>33. \A i \in 1..1 : c10[17 + i] = <<<<"internal">>[i], "start">>
  BY <1>25, <1>15, <1>6
<1>34. \A i \in 1..3 : c10[18 + i] = <<<<"inbound", "endpoint", "service">>[i], "start">>
  BY <1>24, <1>16, <1>7
<1>35. \A i \in 1..9 : c10[21 + i] = <<<<"outbound", "network", "dns", "dnsRouter", "connection", "router", "inbound",
                  "endpoint", "service">>[i], "postStart">>
  BY <1>23, <1>17, <1>8
<1>36. \A i \in 1..1 : c10[30 + i] = <<<<"internal">>[i], "postStart">>
  BY <1>22, <1>18, <1>9
<1>37. \A i \in 1..9 : c10[31 + i] = <<CBAll[i], "started">>
  BY <1>21, <1>19, <1>10
<1>38. \A i \in 1..1 : c10[40 + i] = <<<<"internal">>[i], "started">>
  BY <1>20, <1>11
<1> QED BY <1>1, <1>20, <1>29, <1>30, <1>31, <1>32, <1>33, <1>34, <1>35, <1>36, <1>37, <1>38

\* What the proofs need of it: where what is served begins, and where it is complete.
LEMMA CBStartFacts ==
    /\ Len(CBStartOrder) = 41
    /\ \A i \in 1..41 : CBStartOrder[i] \in CBStep
    /\ \A i \in 1..17 : CBStartOrder[i][1] \in Accepting => CBStartOrder[i][2] = "initialize"
    /\ \A i \in 12..41 : CBStartOrder[i][2] \in Serving
    /\ \A i \in 12..17 : CBStartOrder[i][1] \in Carrying
    /\ \A q \in Carrying : \E i \in 12..17 : CBStartOrder[i][1] = q
    /\ \A i \in 32..40 : CBStartOrder[i][1] \in Managers
    /\ \A i \in 32..41 : CBStartOrder[i][2] = "started"
    /\ \A q \in Managers : \E i \in 32..40 : CBStartOrder[i][1] = q
<1> DEFINE o == CBStartOrder
           six == <<"outbound", "dns", "dnsRouter", "network", "connection", "router">>
<1>1. CBSteps(o, 41) /\ o[1] = <<"logger", "started">>
  BY CBStartPlaces
<1>2. o[2] = <<"internal", "initialize">>
  <2>1. \A i \in 1..1 : o[1 + i] = <<<<"internal">>[i], "initialize">>
    BY CBStartPlaces
  <2> QED BY <2>1
<1>3. \A i \in 3..11 : o[i][2] = "initialize"
  <2>1. \A i \in 1..9 : o[2 + i] = <<CBAll[i], "initialize">>
    BY CBStartPlaces
  <2>2. ASSUME NEW i \in 3..11 PROVE o[i] = <<CBAll[i - 2], "initialize">>
    <3>1. i - 2 \in 1..9 /\ 2 + (i - 2) = i
      OBVIOUS
    <3> QED BY <3>1, <2>1
  <2> QED BY <2>2
<1>4. \A i \in 1..6 : o[11 + i] = <<six[i], "start">>
  BY CBStartPlaces
<1>5. \A i \in 12..17 : o[i][1] \in Carrying \ Accepting /\ o[i][2] = "start"
  <2>1. ASSUME NEW i \in 12..17 PROVE o[i] = <<six[i - 11], "start">> /\ i - 11 \in 1..6
    <3>1. i - 11 \in 1..6 /\ 11 + (i - 11) = i
      OBVIOUS
    <3> QED BY <3>1, <1>4
  <2>2. \A j \in 1..6 : six[j] \in Carrying \ Accepting
    BY DEF Accepting, Carrying
  <2> QED BY <2>1, <2>2
<1>6. o[18][2] = "start" /\ o[31][2] = "postStart" /\ o[41][2] = "started"
  <2>1. \A i \in 1..1 : o[17 + i] = <<<<"internal">>[i], "start">>
    BY CBStartPlaces
  <2>2. \A i \in 1..1 : o[30 + i] = <<<<"internal">>[i], "postStart">>
    BY CBStartPlaces
  <2>3. \A i \in 1..1 : o[40 + i] = <<<<"internal">>[i], "started">>
    BY CBStartPlaces
  <2> QED BY <2>1, <2>2, <2>3
<1>7. \A i \in 19..21 : o[i][2] = "start"
  <2>1. \A i \in 1..3 : o[18 + i][2] = "start"
    BY CBStartPlaces
  <2>2. ASSUME NEW i \in 19..21 PROVE o[i][2] = "start"
    <3>1. i - 18 \in 1..3 /\ 18 + (i - 18) = i
      OBVIOUS
    <3> QED BY <3>1, <2>1
  <2> QED BY <2>2
<1>8. \A i \in 22..30 : o[i][2] = "postStart"
  <2>1. \A i \in 1..9 : o[21 + i][2] = "postStart"
    BY CBStartPlaces
  <2>2. ASSUME NEW i \in 22..30 PROVE o[i][2] = "postStart"
    <3>1. i - 21 \in 1..9 /\ 21 + (i - 21) = i
      OBVIOUS
    <3> QED BY <3>1, <2>1
  <2> QED BY <2>2
<1>9. \A i \in 1..9 : o[31 + i] = <<CBAll[i], "started">>
  BY CBStartPlaces
<1>10. \A i \in 32..40 : o[i][1] \in Managers /\ o[i][2] = "started"
  <2>1. ASSUME NEW i \in 32..40 PROVE o[i] = <<CBAll[i - 31], "started">> /\ i - 31 \in 1..9
    <3>1. i - 31 \in 1..9 /\ 31 + (i - 31) = i
      OBVIOUS
    <3> QED BY <3>1, <1>9
  <2>2. \A j \in 1..9 : CBAll[j] \in Managers
    BY DEF CBAll, Managers, Accepting, Carrying
  <2> QED BY <2>1, <2>2
<1>11. ASSUME NEW q \in Carrying PROVE \E i \in 12..17 : o[i][1] = q
  <2>1. PICK j \in 1..6 : six[j] = q
    <3>1. six[1] = "outbound" /\ six[2] = "dns" /\ six[3] = "dnsRouter" /\ six[4] = "network"
            /\ six[5] = "connection" /\ six[6] = "router"
      OBVIOUS
    <3> HIDE DEF six
    <3> QED BY <3>1 DEF Carrying
  <2>2. 11 + j \in 12..17 /\ o[11 + j][1] = q
    BY <2>1, <1>4
  <2> QED BY <2>2
<1>12. ASSUME NEW q \in Managers PROVE \E i \in 32..40 : o[i][1] = q
  <2>1. PICK j \in 1..9 : CBAll[j] = q
    <3>1. /\ CBAll[1] = "network" /\ CBAll[2] = "dns" /\ CBAll[3] = "dnsRouter"
          /\ CBAll[4] = "connection" /\ CBAll[5] = "router" /\ CBAll[6] = "outbound"
          /\ CBAll[7] = "inbound" /\ CBAll[8] = "endpoint" /\ CBAll[9] = "service"
      BY DEF CBAll
    <3> QED BY <3>1 DEF Managers, Accepting, Carrying
  <2>2. 31 + j \in 32..40 /\ o[31 + j][1] = q
    BY <2>1, <1>9
  <2> QED BY <2>2
<1> HIDE DEF o
<1>13. Len(o) = 41 /\ \A i \in 1..41 : o[i] \in CBStep
  <2>1. o \in Seq(CBStep) /\ Len(o) = 41
    BY <1>1 DEF CBSteps
  <2>2. \A i \in 1..Len(o) : o[i] \in CBStep
    BY <2>1, ElementOfSeq
  <2> QED BY <2>1, <2>2
<1>14. ASSUME NEW i \in 1..17, o[i][1] \in Accepting PROVE o[i][2] = "initialize"
  <2>1. i = 1 \/ i = 2 \/ i \in 3..11 \/ i \in 12..17
    OBVIOUS
  <2>2. i # 1
    BY <1>1, <1>14 DEF Accepting
  <2> QED BY <2>1, <2>2, <1>2, <1>3, <1>5, <1>14
<1>15. ASSUME NEW i \in 12..41 PROVE o[i][2] \in Serving
  <2>1. \/ i \in 12..17 \/ i = 18 \/ i \in 19..21 \/ i \in 22..30 \/ i = 31 \/ i \in 32..40 \/ i = 41
    OBVIOUS
  <2>2. o[i][2] \in {"start", "postStart", "started"}
    BY <2>1, <1>5, <1>6, <1>7, <1>8, <1>10
  <2> QED BY <2>2 DEF Serving, Open
<1>16. ASSUME NEW i \in 32..41 PROVE o[i][2] = "started"
  <2>1. i \in 32..40 \/ i = 41
    OBVIOUS
  <2> QED BY <2>1, <1>6, <1>10
<1> QED BY <1>5, <1>10, <1>11, <1>12, <1>13, <1>14, <1>15, <1>16 DEF o

\* The close takes what accepts traffic first, and takes every part.
LEMMA CBCloseFacts ==
    /\ Len(CBCloseOrder) = 11
    /\ \A i \in 1..11 : CBCloseOrder[i] \in Parts
    /\ \A i \in 1..3 : CBCloseOrder[i] \in Accepting
    /\ \A p \in Accepting : \E i \in 1..3 : CBCloseOrder[i] = p
    /\ \A p \in Parts : \E i \in 1..11 : CBCloseOrder[i] = p
<1> DEFINE o == CBCloseOrder
<1>1. /\ o[1] = "service" /\ o[2] = "endpoint" /\ o[3] = "inbound" /\ o[4] = "outbound"
      /\ o[5] = "router" /\ o[6] = "connection" /\ o[7] = "dnsRouter" /\ o[8] = "dns"
      /\ o[9] = "network" /\ o[10] = "internal" /\ o[11] = "logger" /\ Len(o) = 11
  BY DEF CBCloseOrder
<1> HIDE DEF o
<1>2. \A i \in 1..3 : o[i] \in Accepting
  BY <1>1 DEF Accepting
<1>3. \A i \in 1..11 : o[i] \in Parts
  BY <1>1 DEF Parts, Managers, Accepting, Carrying
<1>4. \A p \in Accepting : \E i \in 1..3 : o[i] = p
  BY <1>1 DEF Accepting
<1>5. \A p \in Parts : \E i \in 1..11 : o[i] = p
  BY <1>1 DEF Parts, Managers, Accepting, Carrying
<1> QED BY <1>1, <1>2, <1>3, <1>4, <1>5 DEF o

\* What k steps of a start have done.
CBStarted(k) ==
    /\ \A p \in Managers : cbStage[p] # "none"
    /\ k <= 17 => \A p \in Accepting : cbStage[p] \notin Serving
    /\ \A i \in 12..17 : i <= k => cbStage[CBStartOrder[i][1]] \in Serving
    /\ \A i \in 32..40 : i <= k => cbStage[CBStartOrder[i][1]] = "started"

\* What k steps of a close have done.
CBClosedUpTo(k) == \A i \in 1..11 : i <= k => cbStage[CBCloseOrder[i]] \notin Open

\* Nothing accepts traffic before its 18th step, and what carries it has
\* started by then.
LEMMA CBStartedCarries ==
    ASSUME NEW k \in 0..41, CBStarted(k)
    PROVE  CBTrafficIsCarried /\ (k = 41 => \A p \in Managers : cbStage[p] = "started")
<1>1. CASE k <= 17
  BY <1>1 DEF CBStarted, CBTrafficIsCarried
<1>2. CASE k > 17
  <2>1. \A q \in Carrying : cbStage[q] \in Serving
    BY <1>2, CBStartFacts DEF CBStarted
  <2>2. k = 41 => \A p \in Managers : cbStage[p] = "started"
    BY CBStartFacts DEF CBStarted
  <2> QED BY <2>1, <2>2 DEF CBTrafficIsCarried
<1> QED BY <1>1, <1>2

LEMMA CBStartedCarriesNext ==
    ASSUME NEW k \in 0..41, CBStarted(k)' PROVE CBTrafficIsCarried'
<1>1. CASE k <= 17
  BY <1>1 DEF CBStarted, CBTrafficIsCarried
<1>2. CASE k > 17
  BY <1>2, CBStartFacts DEF CBStarted, CBTrafficIsCarried
<1> QED BY <1>1, <1>2

\* The inductive invariant: beside the parts of CBBoxIsWhole, how far the
\* stages are at each step of a start and of a close.
CBInv ==
    /\ CBTypeOK
    /\ CBTrafficIsCarried
    /\ cbPc = "start" => ~cbRunning /\ cbStep <= 41 /\ CBStarted(cbStep)
    /\ cbPc = "close" => ~cbRunning /\ cbStep <= 11 /\ CBClosedUpTo(cbStep)
    /\ cbPc = "lock" => cbRunning
    /\ cbRunning => \A p \in Managers : cbStage[p] = "started"
    /\ CBStoppedIsClosed
    /\ cbReaders # {} => cbRunning
    /\ cbPc = "start" \/ cbRunning =>
         /\ \A p \in Managers \cup cbHas : cbRegistered[p] = cbBox
         /\ \A p \in Services \ cbHas : cbRegistered[p] < cbBox
    /\ \A p \in Managers \cup Services : cbRegistered[p] <= cbBuilt

\* One step of a start.
LEMMA CBStepStarts ==
    ASSUME NEW k \in 0..40, CBTypeOK, CBStarted(k),
           NEW part, NEW to, part = CBStartOrder[k + 1][1], to = CBStartOrder[k + 1][2],
           cbStage' = [cbStage EXCEPT ![part] = IF cbStage[part] = "none" THEN "none" ELSE to]
    PROVE  /\ cbStage' \in [Parts -> {"none", "created", "closed"} \cup Open]
           /\ \A p \in Parts : cbStage'[p] = "none" <=> cbStage[p] = "none"
           /\ CBStarted(k + 1)'
<1>1. part \in Parts /\ to \in Open
  BY CBStartFacts DEF CBStep
<1>2. \A p \in Parts : cbStage'[p] = IF p = part THEN IF cbStage[p] = "none" THEN "none" ELSE to
                                                ELSE cbStage[p]
  BY <1>1 DEF CBTypeOK
<1>3. cbStage' \in [Parts -> {"none", "created", "closed"} \cup Open]
  BY <1>1 DEF CBTypeOK
<1>4. \A p \in Parts : cbStage'[p] = "none" <=> cbStage[p] = "none"
  BY <1>1, <1>2 DEF Open
<1>5. Managers \subseteq Parts /\ Accepting \subseteq Managers /\ Carrying \subseteq Managers
  BY DEF Parts, Managers
<1>6. \A p \in Managers : cbStage[p] # "none" /\ cbStage'[p] # "none"
  BY <1>4, <1>5 DEF CBStarted
<1>7. ASSUME k + 1 <= 17, NEW p \in Accepting PROVE cbStage'[p] \notin Serving
  <2>1. p \in Parts /\ cbStage[p] \notin Serving
    BY <1>5, <1>7 DEF CBStarted
  <2>2. p = part => to = "initialize"
    BY <1>7, CBStartFacts
  <2> QED BY <2>1, <2>2, <1>2, <1>6, <1>5 DEF Serving
<1>8. ASSUME NEW i \in 12..17, i <= k + 1 PROVE cbStage'[CBStartOrder[i][1]] \in Serving
  <2>1. CBStartOrder[i][1] \in Carrying
    BY CBStartFacts
  <2>2. CASE CBStartOrder[i][1] = part
    <3>1. to \in Serving
      BY <1>8, CBStartFacts
    <3> QED BY <2>1, <2>2, <3>1, <1>2, <1>5, <1>6
  <2>3. CASE CBStartOrder[i][1] # part
    <3>1. i <= k
      BY <1>8, <2>3
    <3> QED BY <2>1, <2>3, <3>1, <1>2, <1>5 DEF CBStarted
  <2> QED BY <2>2, <2>3
<1>9. ASSUME NEW i \in 32..40, i <= k + 1 PROVE cbStage'[CBStartOrder[i][1]] = "started"
  <2>1. CBStartOrder[i][1] \in Managers
    BY CBStartFacts
  <2>2. CASE CBStartOrder[i][1] = part
    <3>1. to = "started"
      BY <1>9, CBStartFacts
    <3> QED BY <2>1, <2>2, <3>1, <1>2, <1>5, <1>6
  <2>3. CASE CBStartOrder[i][1] # part
    <3>1. i <= k
      BY <1>9, <2>3
    <3> QED BY <2>1, <2>3, <3>1, <1>2, <1>5 DEF CBStarted
  <2> QED BY <2>2, <2>3
<1> QED BY <1>3, <1>4, <1>6, <1>7, <1>8, <1>9 DEF CBStarted

\* One step of a close.
LEMMA CBStepCloses ==
    ASSUME NEW k \in 0..10, CBTypeOK, CBTrafficIsCarried, CBClosedUpTo(k),
           NEW part, part = CBCloseOrder[k + 1],
           cbStage' = [cbStage EXCEPT ![part] = IF cbStage[part] = "none" THEN "none" ELSE "closed"]
    PROVE  /\ cbStage' \in [Parts -> {"none", "created", "closed"} \cup Open]
           /\ CBTrafficIsCarried'
           /\ CBClosedUpTo(k + 1)'
<1>1. part \in Parts
  BY CBCloseFacts
<1>2. \A p \in Parts : cbStage'[p] = IF p = part THEN IF cbStage[p] = "none" THEN "none" ELSE "closed"
                                                ELSE cbStage[p]
  BY <1>1 DEF CBTypeOK
<1>3. cbStage' \in [Parts -> {"none", "created", "closed"} \cup Open]
  BY <1>1 DEF CBTypeOK
<1>4. \A p \in Parts : cbStage'[p] \in Open => cbStage'[p] = cbStage[p] /\ p # part
  BY <1>2 DEF Open
<1>5. Accepting \subseteq Parts /\ Carrying \subseteq Parts /\ Serving \subseteq Open
  BY DEF Parts, Managers, Serving
<1>6. ASSUME NEW i \in 1..11, i <= k + 1 PROVE cbStage'[CBCloseOrder[i]] \notin Open
  <2>1. CBCloseOrder[i] \in Parts
    BY CBCloseFacts
  <2>2. CASE i <= k
    BY <2>1, <2>2, <1>4 DEF CBClosedUpTo
  <2>3. CASE i = k + 1
    BY <2>1, <2>3, <1>4
  <2> QED BY <2>2, <2>3, <1>6
<1>7. ASSUME NEW p \in Accepting, cbStage'[p] \in Serving, NEW q \in Carrying
      PROVE  cbStage'[q] \in Serving
  <2>1. cbStage[p] \in Serving
    BY <1>4, <1>5, <1>7
  <2>2. cbStage[q] \in Serving
    BY <2>1 DEF CBTrafficIsCarried
  <2>3. q # part
    <3>1. k < 3
      <4>1. PICK i \in 1..3 : CBCloseOrder[i] = p
        BY CBCloseFacts
      <4>2. ~(i <= k)
        BY <4>1, <2>1, <1>5 DEF CBClosedUpTo
      <4> QED BY <4>2
    <3>2. part \in Accepting
      BY <3>1, CBCloseFacts
    <3> QED BY <3>2 DEF Accepting, Carrying
  <2> QED BY <2>2, <2>3, <1>2, <1>5
<1> QED BY <1>3, <1>6, <1>7 DEF CBTrafficIsCarried, CBClosedUpTo

LEMMA CBInvInit == CBInit => CBInv
<1> SUFFICES ASSUME CBInit PROVE CBInv
  OBVIOUS
<1>1. \A p \in Parts : cbStage[p] = "none" /\ cbStage[p] \notin Open
  BY DEF CBInit, Open
<1>2. CBTypeOK
  <2>1. 0 \in 0..MaxBoxes /\ 0 \in 0..MaxBoxFaults /\ 0 \in 0..64
    BY CoreBoxAssumption
  <2> QED BY <2>1 DEF CBInit, CBTypeOK
<1>3. CBTrafficIsCarried /\ CBStoppedIsClosed
  BY <1>1 DEF CBTrafficIsCarried, CBStoppedIsClosed, Serving, Parts, Managers
<1> QED BY <1>2, <1>3 DEF CBInit, CBInv

\* A box just built: it serves nothing yet, and the context is its own.
LEMMA CBInvNewBox ==
    ASSUME CBInv, NEW has \in SUBSET Services, CBNewBox(has) PROVE CBInv'
<1>1. /\ cbPc = "idle" /\ ~cbRunning /\ cbReaders = {} /\ cbBuilt < MaxBoxes
      /\ cbBuilt \in 0..MaxBoxes /\ cbFaults \in 0..MaxBoxFaults /\ cbReaders \subseteq Reloaders
      /\ cbRegistered \in [Managers \cup Services -> 0..MaxBoxes] /\ MaxBoxes \in Nat
      /\ \A p \in Managers \cup Services : cbRegistered[p] <= cbBuilt
  BY CoreBoxAssumption DEF CBInv, CBTypeOK, CBNewBox
<1>2. /\ cbBuilt' = cbBuilt + 1 /\ cbBox' = cbBuilt + 1 /\ cbPc' = "start" /\ cbStep' = 0
      /\ cbRunning' = FALSE /\ cbReaders' = {} /\ cbFaults' = cbFaults
      /\ cbStage' = [p \in Parts |-> IF p = "internal" /\ has = {} THEN "none" ELSE "created"]
      /\ cbRegistered' = CBRegister(cbBuilt + 1, Managers \cup has) /\ cbHas' = has
  BY <1>1 DEF CBNewBox
<1>3. \A p \in Parts : cbStage'[p] = IF p = "internal" /\ has = {} THEN "none" ELSE "created"
  BY <1>2
<1>4. cbRegistered' \in [Managers \cup Services -> 0..MaxBoxes]
  <2>1. cbBuilt + 1 \in 0..MaxBoxes
    BY <1>1
  <2> QED BY <2>1, <1>1, <1>2 DEF CBRegister
<1>5. /\ \A p \in Managers \cup has : cbRegistered'[p] = cbBuilt + 1
      /\ \A p \in Services \ has : cbRegistered'[p] < cbBuilt + 1
      /\ \A p \in Managers \cup Services : cbRegistered'[p] <= cbBuilt + 1
  <2>1. \A p \in Managers \cup Services :
           cbRegistered'[p] = IF p \in Managers \cup has THEN cbBuilt + 1 ELSE cbRegistered[p]
    BY <1>2 DEF CBRegister
  <2>2. \A p \in Managers \cup Services : cbRegistered[p] \in 0..MaxBoxes /\ cbRegistered[p] <= cbBuilt
    BY <1>1
  <2>3. Services \cap Managers = {}
    BY CoreBoxAssumption DEF Parts
  <2> QED BY <2>1, <2>2, <2>3, <1>1
<1>6. CBTypeOK'
  <2>1. cbStage' \in [Parts -> {"none", "created", "closed"} \cup Open]
    BY <1>2
  <2>2. cbBuilt + 1 \in 0..MaxBoxes /\ 0 \in 0..64
    BY <1>1
  <2> QED BY <1>1, <1>2, <1>4, <2>1, <2>2 DEF CBTypeOK
<1>7. CBStarted(0)' /\ CBTrafficIsCarried'
  BY <1>3 DEF CBStarted, CBTrafficIsCarried, Serving, Open, Parts, Managers, Accepting, Carrying
<1> QED BY <1>2, <1>5, <1>6, <1>7 DEF CBInv, CBStoppedIsClosed

\* A box that was not built: the context changes, the core does not run.
LEMMA CBInvNewBoxFails ==
    ASSUME CBInv, CBNewBoxFails PROVE CBInv'
<1>1. /\ cbPc = "idle" /\ ~cbRunning /\ cbBuilt < MaxBoxes /\ cbFaults < MaxBoxFaults
      /\ cbBuilt \in 0..MaxBoxes /\ cbFaults \in 0..MaxBoxFaults
      /\ cbRegistered \in [Managers \cup Services -> 0..MaxBoxes] /\ MaxBoxes \in Nat /\ MaxBoxFaults \in Nat
      /\ \A p \in Managers \cup Services : cbRegistered[p] <= cbBuilt
  BY CoreBoxAssumption DEF CBInv, CBTypeOK, CBNewBoxFails
<1>2. /\ cbBuilt' = cbBuilt + 1 /\ cbFaults' = cbFaults + 1
      /\ UNCHANGED <<cbPc, cbStep, cbBox, cbHas, cbStage, cbRunning, cbReaders>>
  BY DEF CBNewBoxFails
<1>3. PICK early : cbRegistered' = CBRegister(cbBuilt + 1, early)
  BY DEF CBNewBoxFails
<1>4. /\ cbRegistered' \in [Managers \cup Services -> 0..MaxBoxes]
      /\ \A p \in Managers \cup Services : cbRegistered'[p] <= cbBuilt + 1
  <2>1. \A p \in Managers \cup Services :
           cbRegistered'[p] = IF p \in early THEN cbBuilt + 1 ELSE cbRegistered[p]
    BY <1>3 DEF CBRegister
  <2>2. \A p \in Managers \cup Services : cbRegistered[p] \in 0..MaxBoxes /\ cbRegistered[p] <= cbBuilt
    BY <1>1
  <2>3. cbBuilt + 1 \in 0..MaxBoxes
    BY <1>1
  <2> QED BY <2>1, <2>2, <2>3, <1>1, <1>3 DEF CBRegister
<1>5. CBTypeOK'
  BY <1>1, <1>2, <1>4 DEF CBInv, CBTypeOK
<1>6. CBTrafficIsCarried' /\ CBStoppedIsClosed'
  BY <1>2 DEF CBInv, CBTrafficIsCarried, CBStoppedIsClosed
<1> QED BY <1>1, <1>2, <1>4, <1>5, <1>6 DEF CBInv

\* A part takes its next stage.
LEMMA CBInvStartPart ==
    ASSUME CBInv, CBStartPart PROVE CBInv'
<1>1. PICK k \in 0..40 : k = cbStep
  BY CBStartFacts DEF CBStartPart, CBInv, CBTypeOK
<1>2. PICK part : part = CBStartOrder[k + 1][1]
  OBVIOUS
<1>3. PICK to : to = CBStartOrder[k + 1][2]
  OBVIOUS
<1>4. /\ cbPc = "start" /\ cbPc' = "start" /\ cbStep' = k + 1 /\ ~cbRunning
      /\ cbStage' = [cbStage EXCEPT ![part] = IF cbStage[part] = "none" THEN "none" ELSE to]
      /\ UNCHANGED <<cbBox, cbHas, cbRunning, cbRegistered, cbReaders, cbBuilt, cbFaults>>
  <2>1. cbStage' = [cbStage EXCEPT ![part] = IF @ = "none" THEN @ ELSE to]
    BY <1>1, <1>2, <1>3 DEF CBStartPart
  <2> QED BY <2>1, <1>1 DEF CBStartPart, CBInv
<1>5. CBTypeOK /\ CBStarted(k)
  BY <1>1, <1>4 DEF CBInv
<1>6. /\ cbStage' \in [Parts -> {"none", "created", "closed"} \cup Open]
      /\ \A p \in Parts : cbStage'[p] = "none" <=> cbStage[p] = "none"
      /\ CBStarted(k + 1)'
  BY <1>2, <1>3, <1>4, <1>5, CBStepStarts
<1>7. CBTrafficIsCarried'
  <2>1. k + 1 \in 0..41
    OBVIOUS
  <2> QED BY <2>1, <1>6, CBStartedCarriesNext
<1>8. CBTypeOK'
  BY <1>4, <1>5, <1>6 DEF CBTypeOK
<1> QED BY <1>4, <1>6, <1>7, <1>8 DEF CBInv, CBStoppedIsClosed

\* A part that fails has perhaps opened something: the box is closed.
LEMMA CBInvStartFails ==
    ASSUME CBInv, CBStartFails PROVE CBInv'
<1>1. PICK k \in 0..40 : k = cbStep
  BY CBStartFacts DEF CBStartFails, CBInv, CBTypeOK
<1>2. PICK part : part = CBStartOrder[k + 1][1]
  OBVIOUS
<1>3. PICK to : to = CBStartOrder[k + 1][2]
  OBVIOUS
<1>4. /\ cbPc = "start" /\ cbPc' = "close" /\ cbStep' = 0 /\ ~cbRunning
      /\ cbStage[part] # "none" /\ cbStage' = [cbStage EXCEPT ![part] = to]
      /\ cbFaults < MaxBoxFaults /\ cbFaults' = cbFaults + 1
      /\ UNCHANGED <<cbBox, cbHas, cbRunning, cbRegistered, cbReaders, cbBuilt>>
  BY <1>1, <1>2, <1>3 DEF CBStartFails, CBInv
<1>5. CBTypeOK /\ CBStarted(k) /\ MaxBoxFaults \in Nat /\ cbReaders = {}
  BY <1>1, <1>4, CoreBoxAssumption DEF CBInv
<1>6. cbStage' = [cbStage EXCEPT ![part] = IF cbStage[part] = "none" THEN "none" ELSE to]
  BY <1>4
<1>7. /\ cbStage' \in [Parts -> {"none", "created", "closed"} \cup Open]
      /\ CBStarted(k + 1)'
  BY <1>2, <1>3, <1>5, <1>6, CBStepStarts
<1>8. CBTrafficIsCarried'
  <2>1. k + 1 \in 0..41
    OBVIOUS
  <2> QED BY <2>1, <1>7, CBStartedCarriesNext
<1>9. CBTypeOK'
  BY <1>4, <1>5, <1>7 DEF CBTypeOK
<1>10. CBClosedUpTo(0)'
  BY DEF CBClosedUpTo
<1> QED BY <1>4, <1>5, <1>8, <1>9, <1>10 DEF CBInv, CBStoppedIsClosed

\* A part is closed.
LEMMA CBInvClosePart ==
    ASSUME CBInv, CBClosePart PROVE CBInv'
<1>1. PICK k \in 0..10 : k = cbStep
  BY CBCloseFacts DEF CBClosePart, CBInv, CBTypeOK
<1>2. PICK part : part = CBCloseOrder[k + 1]
  OBVIOUS
<1>3. /\ cbPc = "close" /\ cbPc' = "close" /\ cbStep' = k + 1 /\ ~cbRunning
      /\ cbStage' = [cbStage EXCEPT ![part] = IF cbStage[part] = "none" THEN "none" ELSE "closed"]
      /\ UNCHANGED <<cbBox, cbHas, cbRunning, cbRegistered, cbReaders, cbBuilt, cbFaults>>
  <2>1. cbStage' = [cbStage EXCEPT ![part] = IF @ = "none" THEN @ ELSE "closed"]
    BY <1>1, <1>2 DEF CBClosePart
  <2> QED BY <2>1, <1>1 DEF CBClosePart, CBInv
<1>4. CBTypeOK /\ CBTrafficIsCarried /\ CBClosedUpTo(k) /\ cbReaders = {}
  BY <1>1, <1>3 DEF CBInv
<1>5. /\ cbStage' \in [Parts -> {"none", "created", "closed"} \cup Open]
      /\ CBTrafficIsCarried'
      /\ CBClosedUpTo(k + 1)'
  BY <1>2, <1>3, <1>4, CBStepCloses
<1>6. CBTypeOK'
  BY <1>3, <1>4, <1>5 DEF CBTypeOK
<1> QED BY <1>3, <1>4, <1>5, <1>6 DEF CBInv, CBStoppedIsClosed

\* The box is published when its last part has started.
LEMMA CBInvPublish ==
    ASSUME CBInv, CBPublish PROVE CBInv'
<1>1. cbPc = "start" /\ cbStep = 41 /\ CBStarted(41)
  BY CBStartFacts DEF CBInv, CBPublish
<1>2. \A p \in Managers : cbStage[p] = "started"
  BY <1>1, CBStartedCarries
<1>3. cbRunning' = TRUE /\ cbPc' = "idle"
      /\ UNCHANGED <<cbStep, cbBox, cbHas, cbStage, cbRegistered, cbReaders, cbBuilt, cbFaults>>
  BY DEF CBPublish
<1> QED BY <1>1, <1>2, <1>3 DEF CBInv, CBTypeOK, CBTrafficIsCarried, CBStoppedIsClosed

\* The other steps change no stage.
LEMMA CBInvOthers ==
    ASSUME CBInv,
           \/ CBValidate \/ CBStop \/ CBDetach \/ CBClosed
           \/ \E r \in Reloaders : CBEnter(r) \/ CBLeave(r)
           \/ UNCHANGED cbVars
    PROVE  CBInv'
<1>1. CASE CBValidate
  BY <1>1, CoreBoxAssumption DEF CBValidate, CBInv, CBTypeOK, CBTrafficIsCarried, CBStoppedIsClosed,
     CBStarted, CBClosedUpTo
<1>2. CASE CBStop
  BY <1>2 DEF CBStop, CBInv, CBTypeOK, CBTrafficIsCarried, CBStoppedIsClosed
<1>3. CASE CBDetach
  <2>1. /\ cbPc = "lock" /\ cbReaders = {} /\ cbRunning' = FALSE /\ cbPc' = "close" /\ cbStep' = 0
        /\ UNCHANGED <<cbBox, cbHas, cbStage, cbRegistered, cbReaders, cbBuilt, cbFaults>>
    BY <1>3 DEF CBDetach
  <2>2. CBTypeOK' /\ CBTrafficIsCarried'
    <3>1. CBTypeOK'
      <4>1. CBTypeOK /\ cbRunning' \in BOOLEAN /\ cbStep' \in 0..64 /\ cbPc' \in {"close"}
        <5>1. CBTypeOK
          BY DEF CBInv
        <5>2. cbStep' \in 0..64
          BY <2>1
        <5> QED BY <2>1, <5>1, <5>2, Zenon
      <4>2. UNCHANGED <<cbBox, cbHas, cbStage, cbRegistered, cbReaders, cbBuilt, cbFaults>>
        BY <2>1
      <4> QED BY <4>1, <4>2 DEF CBTypeOK
    <3>2. cbStage' = cbStage /\ CBTrafficIsCarried
      BY <2>1 DEF CBInv
    <3> QED BY <3>1, <3>2 DEF CBTrafficIsCarried
  <2>3. CBClosedUpTo(0)'
    BY DEF CBClosedUpTo
  <2> QED BY <2>1, <2>2, <2>3 DEF CBInv, CBStoppedIsClosed
<1>4. CASE CBClosed
  <2>1. cbPc = "close" /\ ~cbRunning /\ cbStep = 11 /\ CBClosedUpTo(11)
    BY <1>4, CBCloseFacts DEF CBClosed, CBInv
  <2>2. \A p \in Parts : cbStage[p] \notin Open
    BY <2>1, CBCloseFacts DEF CBClosedUpTo
  <2>3. /\ cbPc' = "idle" /\ cbBox' = 0
        /\ UNCHANGED <<cbStep, cbHas, cbStage, cbRunning, cbRegistered, cbReaders, cbBuilt, cbFaults>>
    BY <1>4 DEF CBClosed
  <2> QED BY <2>1, <2>2, <2>3, CoreBoxAssumption DEF CBInv, CBTypeOK, CBTrafficIsCarried, CBStoppedIsClosed
<1>5. ASSUME NEW r \in Reloaders, CBEnter(r) \/ CBLeave(r) PROVE CBInv'
  BY <1>5 DEF CBEnter, CBLeave, CBInv, CBTypeOK, CBTrafficIsCarried, CBStoppedIsClosed,
     CBStarted, CBClosedUpTo
<1>6. CASE UNCHANGED cbVars
  BY <1>6 DEF cbVars, CBInv, CBTypeOK, CBTrafficIsCarried, CBStoppedIsClosed,
     CBStarted, CBClosedUpTo
<1> QED BY <1>1, <1>2, <1>3, <1>4, <1>5, <1>6

\* What core/box.go and core/main.go promise of the running box holds for
\* every number of boxes, failures and hot reloads: traffic is accepted only
\* while everything that carries it is up, a reload works on live managers, a
\* stopped core has nothing open, and the parts of a box find each other.
THEOREM BoxIsWhole == CBSpec => []CBBoxIsWhole
<1>1. CBInv /\ [CBNext]_cbVars => CBInv'
  BY CBInvNewBox, CBInvNewBoxFails, CBInvStartPart, CBInvStartFails, CBInvClosePart,
     CBInvPublish, CBInvOthers DEF CBNext
<1>2. CBInv => CBBoxIsWhole
  <2>1. CBInv => CBReloadsMeetLiveParts /\ CBContextIsOwn
    BY DEF CBInv, CBReloadsMeetLiveParts, CBContextIsOwn
  <2> QED BY <2>1 DEF CBInv, CBBoxIsWhole
<1> QED BY CBInvInit, <1>1, <1>2, PTL DEF CBSpec

-----------------------------------------------------------------------------
(***************************************************************************)
(* The limits.  That a block holds needs no more than types.  That a fixed *)
(* window lets through twice its limit at most needs where the requests    *)
(* of the last window's length lie: in the window that is open, which      *)
(* counts them, or in the one before it, for none is longer ago.           *)
(***************************************************************************)

RLKeys == [failures : Nat, first : 0..MaxTime, until : 0..(MaxTime + Window)]

\* The requests of the window that is open, and those of the one before.
RLNewer == {r \in rlServed : r.at >= rlFixed.at}
RLOlder == {r \in rlServed : r.at < rlFixed.at}

RLSlides ==
    /\ IsFiniteSet(rlBackups)
    /\ Cardinality(RLPrune(rlBackups, rlNow)) <= MaxInWindow

RLCounts ==
    /\ IsFiniteSet(rlServed) /\ rlFixed.at <= rlNow
    /\ rlFixed.at = 0 => rlServed = {}
    /\ \A r \in rlServed : r.at + Window > rlNow /\ r.at < rlFixed.at + Window
    /\ Cardinality(RLNewer) <= rlFixed.count
    /\ Cardinality(RLOlder) <= MaxInWindow

RLInv == RLTypeOK /\ RLSlides /\ RLCounts

LEMMA RLInitInv == ASSUME RateLimitAssumption, RLInit PROVE RLInv
<1>0. MaxTime \in Nat \ {0} /\ Window \in Nat \ {0} /\ MaxInWindow \in Nat \ {0}
  BY DEF RateLimitAssumption
<1>1. RLTypeOK
  BY <1>0 DEF RLInit, RLTypeOK, RLNone
<1>2. RLPrune(rlBackups, rlNow) = {} /\ RLNewer = {} /\ RLOlder = {}
  BY DEF RLInit, RLPrune, RLNewer, RLOlder
<1> QED BY <1>0, <1>1, <1>2, FS_EmptySet DEF RLInit, RLInv, RLSlides, RLCounts

\* A key after the collection, and after one failure more.
LEMMA RLKeyFacts ==
  ASSUME RateLimitAssumption, RLTypeOK
  PROVE  /\ RLNone \in RLKeys
         /\ RLCollected \subseteq RLKeys
         /\ \A a \in RLCollected : RLFailure(a) \in RLKeys
<1>0. Window \in Nat /\ MaxTime \in Nat /\ rlNow \in 1..MaxTime
  BY DEF RateLimitAssumption, RLTypeOK
<1>1. RLNone \in RLKeys
  BY <1>0 DEF RLNone, RLKeys
<1>2. RLCollected \subseteq RLKeys
  BY <1>1 DEF RLCollected, RLGC, RLOpen, RLTypeOK, RLKeys
<1>3. ASSUME NEW a \in RLKeys PROVE RLFailure(a) \in RLKeys
  <2> DEFINE b == IF a.first = 0 \/ RLOver(a) THEN [RLNone EXCEPT !.first = rlNow] ELSE a
             n == b.failures + 1
  <2>1. b \in RLKeys
    BY <1>0, <1>1, <1>3 DEF RLKeys
  <2>2. n \in Nat /\ rlNow + Window \in 0..(MaxTime + Window) /\ b.until \in 0..(MaxTime + Window)
    BY <1>0, <2>1 DEF RLKeys
  <2>3. RLFailure(a) = [b EXCEPT !.failures = n, !.until = IF n >= MaxFailures THEN rlNow + Window ELSE b.until]
    BY DEF RLFailure
  <2> HIDE DEF b, n
  <2> QED BY <2>1, <2>2, <2>3 DEF RLKeys
<1> QED BY <1>1, <1>2, <1>3

\* What a list gains with a request.
LEMMA RLAppendFacts ==
  ASSUME NEW s \in SUBSET RLStamps, IsFiniteSet(s), rlNow \in 1..MaxTime
  PROVE  /\ RLAppend(s) \subseteq RLStamps /\ IsFiniteSet(RLAppend(s))
         /\ Cardinality(s) \in Nat /\ Cardinality(RLAppend(s)) <= Cardinality(s) + 1
         /\ \A r \in RLAppend(s) : r \in s \/ r.at = rlNow
<1> DEFINE r == [at |-> rlNow, nr |-> Cardinality(s) + 1]
<1>1. Cardinality(s) \in Nat
  BY FS_CardinalityType
<1>2. r \in RLStamps /\ r.at = rlNow
  BY <1>1 DEF RLStamps
<1>3. RLAppend(s) = s \cup {r}
  BY DEF RLAppend
<1> HIDE DEF r
<1>4. IsFiniteSet(RLAppend(s)) /\ Cardinality(RLAppend(s)) <= Cardinality(s) + 1
  BY <1>1, <1>3, FS_AddElement
<1> QED BY <1>1, <1>2, <1>3, <1>4

\* A smaller finite set has no more elements.
LEMMA RLFewer ==
  ASSUME NEW S, IsFiniteSet(S), NEW T \in SUBSET S
  PROVE  /\ IsFiniteSet(T) /\ Cardinality(S) \in Nat /\ Cardinality(T) \in Nat
         /\ Cardinality(T) <= Cardinality(S)
BY FS_Subset, FS_CardinalityType

LEMMA RLTickInv == ASSUME RateLimitAssumption, RLInv, RLTick PROVE RLInv'
<1> USE DEF RLInv
<1>0. /\ MaxTime \in Nat /\ Window \in Nat /\ MaxInWindow \in Nat /\ rlNow \in 1..MaxTime /\ rlNow' = rlNow + 1
      /\ rlNow < MaxTime /\ rlServed' = RLPrune(rlServed, rlNow') /\ UNCHANGED <<rlLogin, rlAt, rlBackups, rlFixed>>
  BY DEF RateLimitAssumption, RLTypeOK, RLTick
<1>1. rlServed' \subseteq rlServed /\ \A r \in rlServed' : r.at + Window > rlNow'
  BY <1>0 DEF RLPrune
<1>2. RLTypeOK'
  BY <1>0, <1>1 DEF RLTypeOK, RLStamps
<1>3. RLSlides'
  <2> DEFINE S == RLPrune(rlBackups, rlNow)
             T == RLPrune(rlBackups', rlNow')
  <2>1. \A r \in rlBackups : r.at \in Nat
    BY DEF RLTypeOK, RLStamps
  <2>2. T \in SUBSET S /\ S \in SUBSET rlBackups
    BY <1>0, <2>1 DEF RLPrune
  <2> HIDE DEF S, T
  <2>3. IsFiniteSet(S)
    BY <2>2, RLFewer DEF RLSlides
  <2>4. Cardinality(T) <= Cardinality(S) /\ Cardinality(T) \in Nat /\ Cardinality(S) \in Nat
    BY <2>2, <2>3, RLFewer
  <2>5. Cardinality(T) <= MaxInWindow
    BY <1>0, <2>4 DEF RLSlides, S
  <2> QED BY <1>0, <2>5 DEF RLSlides, T
<1>4. RLCounts'
  <2>1. RLNewer' \in SUBSET RLNewer /\ RLOlder' \in SUBSET RLOlder
    BY <1>0, <1>1 DEF RLNewer, RLOlder
  <2>2. IsFiniteSet(RLNewer) /\ IsFiniteSet(RLOlder) /\ IsFiniteSet(rlServed')
    BY <1>1, RLFewer DEF RLCounts, RLNewer, RLOlder
  <2>3. /\ Cardinality(RLNewer') <= Cardinality(RLNewer) /\ Cardinality(RLNewer') \in Nat /\ Cardinality(RLNewer) \in Nat
        /\ Cardinality(RLOlder') <= Cardinality(RLOlder) /\ Cardinality(RLOlder') \in Nat /\ Cardinality(RLOlder) \in Nat
    BY <2>1, <2>2, RLFewer
  <2>4. rlFixed.at \in Nat /\ rlFixed.count \in Nat
    BY <1>0 DEF RLTypeOK
  <2> QED BY <1>0, <1>1, <2>2, <2>3, <2>4 DEF RLCounts
<1> QED BY <1>2, <1>3, <1>4

LEMMA RLBackupInv == ASSUME RateLimitAssumption, RLInv, RLBackup PROVE RLInv'
<1> USE DEF RLInv
<1>p. PICK forgotten \in BOOLEAN :
         LET s == IF forgotten THEN {} ELSE RLPrune(rlBackups, rlNow)
         IN  rlBackups' = IF Cardinality(s) >= MaxInWindow THEN s ELSE RLAppend(s)
  BY DEF RLBackup
<1> DEFINE S == IF forgotten THEN {} ELSE RLPrune(rlBackups, rlNow)
<1>0. /\ MaxTime \in Nat /\ Window \in Nat /\ MaxInWindow \in Nat /\ rlNow \in 1..MaxTime
      /\ rlBackups' = IF Cardinality(S) >= MaxInWindow THEN S ELSE RLAppend(S)
      /\ UNCHANGED <<rlNow, rlLogin, rlAt, rlFixed, rlServed>>
  BY <1>p DEF RateLimitAssumption, RLTypeOK, RLBackup
<1>1. S \in SUBSET rlBackups /\ S \in SUBSET RLStamps
  BY DEF RLPrune, RLTypeOK
<1>2. IsFiniteSet(S) /\ Cardinality(S) \in Nat /\ Cardinality(S) <= MaxInWindow
  <2>1. CASE forgotten
    BY <1>0, <2>1, FS_EmptySet
  <2>2. CASE ~forgotten
    BY <1>1, <2>2, RLFewer DEF RLSlides
  <2> QED BY <2>1, <2>2
<1> HIDE DEF S
<1>3. /\ rlBackups' \subseteq RLStamps /\ IsFiniteSet(rlBackups')
      /\ Cardinality(rlBackups') \in Nat /\ Cardinality(rlBackups') <= MaxInWindow
  <2>1. CASE Cardinality(S) >= MaxInWindow
    BY <1>0, <1>1, <1>2, <2>1
  <2>2. CASE ~(Cardinality(S) >= MaxInWindow)
    <3>1. /\ RLAppend(S) \subseteq RLStamps /\ IsFiniteSet(RLAppend(S))
          /\ Cardinality(RLAppend(S)) <= Cardinality(S) + 1
      BY <1>0, <1>1, <1>2, RLAppendFacts
    <3>2. Cardinality(RLAppend(S)) \in Nat
      BY <3>1, FS_CardinalityType
    <3> QED BY <1>0, <1>2, <2>2, <3>1, <3>2
  <2> QED BY <2>1, <2>2
<1>4. RLSlides'
  <2> DEFINE T == RLPrune(rlBackups', rlNow')
  <2>1. T \in SUBSET rlBackups'
    BY DEF RLPrune
  <2> HIDE DEF T
  <2>2. Cardinality(T) <= Cardinality(rlBackups') /\ Cardinality(T) \in Nat
    BY <1>3, <2>1, RLFewer
  <2>3. Cardinality(T) <= MaxInWindow
    BY <1>0, <1>3, <2>2
  <2> QED BY <1>3, <2>3 DEF RLSlides, T
<1>5. RLTypeOK'
  BY <1>0, <1>3 DEF RLTypeOK, RLStamps
<1>6. RLCounts'
  BY <1>0 DEF RLCounts, RLNewer, RLOlder
<1> QED BY <1>4, <1>5, <1>6

\* The request opens a new window, is let through by the one that is open, or is
\* refused.
RLFixedKept ==
    /\ LET w == RLWindow(FALSE)
       IN  IF w.count >= MaxInWindow
           THEN rlFixed' = w /\ UNCHANGED rlServed
           ELSE /\ rlFixed' = [w EXCEPT !.count = @ + 1]
                /\ rlServed' = RLAppend(rlServed)
    /\ UNCHANGED <<rlNow, rlLogin, rlAt, rlBackups>>

LEMMA RLFixedKeptInv == ASSUME RateLimitAssumption, RLInv, RLFixedKept PROVE RLInv'
<1> USE DEF RLInv
<1> DEFINE new == rlFixed.at = 0 \/ rlNow - rlFixed.at >= Window
           w   == IF new THEN [at |-> rlNow, count |-> 0] ELSE rlFixed
<1>0. /\ MaxTime \in Nat /\ Window \in Nat \ {0} /\ MaxInWindow \in Nat \ {0} /\ rlNow \in 1..MaxTime
      /\ UNCHANGED <<rlNow, rlLogin, rlAt, rlBackups>>
      /\ rlFixed \in [at : 0..MaxTime, count : 0..MaxInWindow]
      /\ rlServed \subseteq RLStamps /\ IsFiniteSet(rlServed)
  BY DEF RateLimitAssumption, RLTypeOK, RLFixedKept, RLCounts
<1>1. \/ w.count >= MaxInWindow /\ rlFixed' = w /\ UNCHANGED rlServed
      \/ /\ ~(w.count >= MaxInWindow) /\ rlFixed' = [w EXCEPT !.count = @ + 1]
         /\ rlServed' = RLAppend(rlServed)
  BY DEF RLFixedKept, RLWindow
<1>2. w \in [at : 0..MaxTime, count : 0..MaxInWindow]
  BY <1>0
<1>3. /\ RLAppend(rlServed) \subseteq RLStamps /\ IsFiniteSet(RLAppend(rlServed))
      /\ \A r \in RLAppend(rlServed) : r \in rlServed \/ r.at = rlNow
  BY <1>0, RLAppendFacts
<1>4. \A r \in RLStamps : r.at \in 1..MaxTime
  BY DEF RLStamps
<1>5. /\ IsFiniteSet(RLNewer) /\ Cardinality(RLNewer) \in Nat /\ Cardinality(RLNewer) <= rlFixed.count
      /\ IsFiniteSet(RLOlder) /\ Cardinality(RLOlder) \in Nat /\ Cardinality(RLOlder) <= MaxInWindow
  BY <1>0, RLFewer DEF RLCounts, RLNewer, RLOlder
<1>6. PICK r : RLAppend(rlServed) = rlServed \cup {r} /\ r.at = rlNow
  <2> DEFINE r == [at |-> rlNow, nr |-> Cardinality(rlServed) + 1]
  <2>1. r.at = rlNow /\ RLAppend(rlServed) = rlServed \cup {r}
    BY DEF RLAppend
  <2> QED BY <2>1
<1>7. CASE new
  <2>1. w = [at |-> rlNow, count |-> 0]
    BY <1>7
  <2>2. rlFixed' = [at |-> rlNow, count |-> 1] /\ rlServed' = rlServed \cup {r}
    BY <1>0, <1>1, <1>6, <2>1
  <2>3. \A q \in rlServed : q.at < rlNow /\ q.at >= rlFixed.at
    BY <1>0, <1>4, <1>7 DEF RLCounts
  <2>4. RLOlder' \in SUBSET RLNewer /\ RLNewer' \in SUBSET {r}
    BY <1>0, <1>4, <1>6, <2>2, <2>3 DEF RLOlder, RLNewer
  <2>5. Cardinality(RLOlder') <= MaxInWindow
    <3>1. Cardinality(RLOlder') \in Nat /\ Cardinality(RLOlder') <= Cardinality(RLNewer)
      BY <1>5, <2>4, RLFewer
    <3> QED BY <1>0, <1>5, <3>1
  <2>6. Cardinality(RLNewer') <= 1
    <3>1. IsFiniteSet({r}) /\ Cardinality({r}) = 1
      BY FS_Singleton
    <3> QED BY <2>4, <3>1, RLFewer
  <2>7. rlServed' \subseteq RLStamps /\ IsFiniteSet(rlServed')
    BY <1>3, <1>6, <2>2
  <2>8. RLTypeOK'
    BY <1>0, <2>2, <2>7 DEF RLTypeOK, RLStamps
  <2>9. RLCounts'
    BY <1>0, <1>4, <1>6, <2>2, <2>3, <2>5, <2>6, <2>7 DEF RLCounts
  <2> QED BY <1>0, <2>8, <2>9 DEF RLSlides
<1>8. CASE ~new /\ rlServed' = RLAppend(rlServed)
  <2>1. w = rlFixed
    BY <1>8
  <2>2. CASE rlFixed' = [rlFixed EXCEPT !.count = @ + 1] /\ ~(rlFixed.count >= MaxInWindow)
    <3>1. rlFixed'.at = rlFixed.at /\ rlFixed'.count = rlFixed.count + 1
      BY <1>0, <2>2
    <3>2. RLOlder' = RLOlder /\ RLNewer' \in SUBSET (RLNewer \cup {r})
      <4>1. ~(rlNow < rlFixed.at)
        BY <1>0 DEF RLCounts
      <4> QED BY <1>0, <1>6, <1>8, <3>1, <4>1 DEF RLOlder, RLNewer
    <3>3. Cardinality(RLNewer') <= rlFixed'.count
      <4>1. /\ IsFiniteSet(RLNewer \cup {r})
            /\ Cardinality(RLNewer \cup {r}) = IF r \in RLNewer THEN Cardinality(RLNewer) ELSE Cardinality(RLNewer) + 1
        BY <1>5, FS_AddElement
      <4>2. Cardinality(RLNewer') \in Nat /\ Cardinality(RLNewer') <= Cardinality(RLNewer \cup {r})
        BY <3>2, <4>1, RLFewer
      <4> QED BY <1>0, <1>5, <3>1, <4>1, <4>2
    <3>4. rlServed' \subseteq RLStamps /\ IsFiniteSet(rlServed')
      BY <1>3, <1>8
    <3>5. RLTypeOK'
      BY <1>0, <2>2, <3>4 DEF RLTypeOK, RLStamps
    <3>6. \A q \in rlServed' : q.at + Window > rlNow' /\ q.at < rlFixed'.at + Window
      <4>1. rlNow + Window > rlNow /\ rlNow < rlFixed.at + Window
        BY <1>0, <1>8
      <4> QED BY <1>0, <1>3, <1>8, <3>1, <4>1 DEF RLCounts
    <3>7. RLCounts'
      BY <1>0, <1>5, <1>8, <3>1, <3>2, <3>3, <3>4, <3>6 DEF RLCounts
    <3> QED BY <1>0, <3>5, <3>7 DEF RLSlides
  <2>3. CASE rlFixed' = rlFixed /\ UNCHANGED rlServed
    BY <1>0, <2>3 DEF RLTypeOK, RLStamps, RLSlides, RLCounts, RLNewer, RLOlder
  <2> QED BY <1>1, <2>1, <2>2, <2>3
<1>9. CASE ~new /\ rlServed' # RLAppend(rlServed)
  <2>1. rlFixed' = rlFixed /\ UNCHANGED rlServed
    BY <1>1, <1>9
  <2> QED BY <1>0, <2>1 DEF RLTypeOK, RLStamps, RLSlides, RLCounts, RLNewer, RLOlder
<1> QED BY <1>7, <1>8, <1>9

\* The key was forgotten: the request is the first of a new window.
LEMMA RLFixedInv == ASSUME RateLimitAssumption, RLInv, RLFixedWindow PROVE RLInv'
<1>1. PICK forgotten \in BOOLEAN :
         LET w == RLWindow(forgotten)
             s == IF forgotten THEN {} ELSE rlServed
         IN  IF w.count >= MaxInWindow
             THEN rlFixed' = w /\ rlServed' = s
             ELSE /\ rlFixed' = [w EXCEPT !.count = @ + 1]
                  /\ rlServed' = RLAppend(s)
  BY DEF RLFixedWindow
<1>2. UNCHANGED <<rlNow, rlLogin, rlAt, rlBackups>>
  BY DEF RLFixedWindow
<1>3. CASE ~forgotten
  <2>1. RLFixedKept
    BY <1>1, <1>2, <1>3 DEF RLFixedKept
  <2> QED BY <2>1, RLFixedKeptInv
<1>4. CASE forgotten
  <2>0. /\ MaxTime \in Nat /\ Window \in Nat \ {0} /\ MaxInWindow \in Nat \ {0} /\ rlNow \in 1..MaxTime
        /\ RLTypeOK /\ RLSlides
    BY DEF RateLimitAssumption, RLTypeOK, RLInv
  <2>1. RLWindow(forgotten) = [at |-> rlNow, count |-> 0]
    BY <1>4 DEF RLWindow
  <2>2. rlFixed' = [at |-> rlNow, count |-> 1] /\ rlServed' = RLAppend({})
    <3> DEFINE w == RLWindow(forgotten)
               s == IF forgotten THEN {} ELSE rlServed
    <3>1. IF w.count >= MaxInWindow THEN rlFixed' = w /\ rlServed' = s
          ELSE rlFixed' = [w EXCEPT !.count = @ + 1] /\ rlServed' = RLAppend(s)
      BY <1>1
    <3>2. s = {} /\ ~(w.count >= MaxInWindow)
      <4>1. s = {}
        BY <1>4
      <4>2. w.count = 0
        BY <2>1
      <4>3. ~(0 >= MaxInWindow)
        BY <2>0
      <4> HIDE DEF w, s
      <4> QED BY <4>1, <4>2, <4>3
    <3>3. rlFixed' = [w EXCEPT !.count = @ + 1] /\ rlServed' = RLAppend(s)
      BY <3>1, <3>2
    <3>4. [w EXCEPT !.count = @ + 1] = [at |-> rlNow, count |-> 1]
      BY <2>1
    <3> HIDE DEF w, s
    <3> QED BY <3>2, <3>3, <3>4
  <2>3. IsFiniteSet({}) /\ Cardinality({}) = 0
    BY FS_EmptySet
  <2>4. /\ rlServed' \subseteq RLStamps /\ IsFiniteSet(rlServed')
        /\ Cardinality(rlServed') \in Nat /\ Cardinality(rlServed') <= 1
        /\ \A q \in rlServed' : q.at = rlNow
    <3>1. /\ RLAppend({}) \subseteq RLStamps /\ IsFiniteSet(RLAppend({}))
          /\ Cardinality(RLAppend({})) <= Cardinality({}) + 1
          /\ \A q \in RLAppend({}) : q \in {} \/ q.at = rlNow
      BY <2>0, <2>3, RLAppendFacts
    <3>2. Cardinality(RLAppend({})) \in Nat
      BY <3>1, FS_CardinalityType
    <3> QED BY <2>2, <2>3, <3>1, <3>2
  <2>5. RLNewer' \in SUBSET rlServed' /\ RLOlder' = {}
    BY <1>2, <2>0, <2>2, <2>4 DEF RLNewer, RLOlder
  <2>6. Cardinality(RLNewer') <= 1 /\ Cardinality(RLOlder') = 0
    <3>1. Cardinality(RLNewer') \in Nat /\ Cardinality(RLNewer') <= Cardinality(rlServed')
      BY <2>4, <2>5, RLFewer
    <3> QED BY <2>3, <2>4, <2>5, <3>1
  <2>7. RLTypeOK'
    BY <1>2, <2>0, <2>2, <2>4 DEF RLTypeOK, RLStamps
  <2>8. RLCounts'
    BY <1>2, <2>0, <2>2, <2>4, <2>6 DEF RLCounts
  <2>9. RLSlides'
    BY <1>2, <2>0 DEF RLSlides
  <2> QED BY <2>7, <2>8, <2>9 DEF RLInv
<1> QED BY <1>3, <1>4

LEMMA RLNextInv == ASSUME RateLimitAssumption, RLInv, [RLNext]_rlVars PROVE RLInv'
<1>1. ASSUME RLTypeOK', UNCHANGED <<rlNow, rlBackups, rlFixed, rlServed>> PROVE RLInv'
  BY <1>1 DEF RLInv, RLSlides, RLCounts, RLNewer, RLOlder
<1>2. ASSUME NEW l \in Logins, RLCheck(l) \/ RLLogin(l) PROVE RLInv'
  <2>1. RLTypeOK'
    BY <1>2, RLKeyFacts DEF RLCheck, RLLogin, RLInv, RLTypeOK, RLKeys, RLStamps
  <2> QED BY <1>1, <1>2, <2>1 DEF RLCheck, RLLogin
<1>3. CASE UNCHANGED rlVars
  BY <1>1, <1>3 DEF rlVars, RLInv, RLTypeOK, RLStamps
<1> QED BY <1>2, <1>3, RLTickInv, RLBackupInv, RLFixedInv DEF RLNext

LEMMA RLInvWindows == ASSUME RateLimitAssumption, RLInv PROVE RLWindowsHold
<1>1. IsFiniteSet(RLNewer) /\ IsFiniteSet(RLOlder) /\ rlServed = RLNewer \cup RLOlder
  <2>1. \A r \in rlServed : r.at >= rlFixed.at \/ r.at < rlFixed.at
    BY DEF RLInv, RLTypeOK, RLStamps
  <2> QED BY <2>1, RLFewer DEF RLInv, RLCounts, RLNewer, RLOlder
<1>2. /\ Cardinality(RLNewer) \in Nat /\ Cardinality(RLOlder) \in Nat
      /\ Cardinality(RLNewer \cap RLOlder) \in Nat
      /\ Cardinality(rlServed) = Cardinality(RLNewer) + Cardinality(RLOlder) - Cardinality(RLNewer \cap RLOlder)
  BY <1>1, FS_Union, FS_Intersection, FS_CardinalityType
<1>3. Cardinality(RLNewer) <= MaxInWindow /\ Cardinality(RLOlder) <= MaxInWindow /\ MaxInWindow \in Nat
  BY <1>2 DEF RLInv, RLTypeOK, RLCounts, RateLimitAssumption
<1>4. Cardinality(rlServed) <= 2 * MaxInWindow
  BY <1>2, <1>3
<1> QED BY <1>4 DEF RLInv, RLSlides, RLWindowsHold

\* The collection keeps a block, and so does a check that is refused.
LEMMA RLBlockFacts ==
  ASSUME RLTypeOK, [RLNext]_rlVars, RLBlocked(rlLogin)
  PROVE  \/ rlLogin' = rlLogin /\ \A l \in Logins : rlAt'[l] = "checked" => rlAt[l] = "checked"
         \/ \E l \in Logins : rlAt[l] = "checked" /\ rlAt'[l] = "idle"
<1>1. CASE RLTick \/ RLBackup \/ RLFixedWindow \/ UNCHANGED rlVars
  BY <1>1 DEF RLTick, RLBackup, RLFixedWindow, rlVars
<1>2. ASSUME NEW l \in Logins, RLCheck(l)
      PROVE  rlLogin' = rlLogin /\ \A k \in Logins : rlAt'[k] = "checked" => rlAt[k] = "checked"
  <2>1. RLCollected = {rlLogin}
    BY DEF RLCollected, RLGC
  <2> QED BY <1>2, <2>1 DEF RLCheck, RLTypeOK
<1>3. ASSUME NEW l \in Logins, RLLogin(l) PROVE rlAt[l] = "checked" /\ rlAt'[l] = "idle"
  BY <1>3 DEF RLLogin, RLTypeOK
<1> QED BY <1>1, <1>2, <1>3 DEF RLNext

\* While a block lasts no login reaches its check, and neither the collection nor a
\* refused attempt lifts it; no stretch of a window's length lets through more than
\* the limit where the window slides, and twice the limit where it is fixed
\* (api/rateLimit.go): for any logins, limits and windows.
THEOREM LimitsHold == RLSpec => RLLimitsHold
<1>1. RLInit => RLInv
  BY RateLimitAssumption, RLInitInv
<1>2. RLInv /\ [RLNext]_rlVars => RLInv'
  BY RateLimitAssumption, RLNextInv
<1>3. RLInv /\ [RLNext]_rlVars =>
        [RLBlocked(rlLogin) /\ rlNow' < rlLogin.until =>
           \/ rlLogin' = rlLogin /\ \A l \in Logins : rlAt'[l] = "checked" => rlAt[l] = "checked"
           \/ \E l \in Logins : rlAt[l] = "checked" /\ rlAt'[l] = "idle"]_rlVars
  BY RLBlockFacts DEF RLInv
<1>4. RLInv => RLTypeOK /\ RLWindowsHold
  BY RateLimitAssumption, RLInvWindows DEF RLInv
<1> QED BY <1>1, <1>2, <1>3, <1>4, PTL DEF RLSpec, RLLimitsHold, RLBlockHolds

-----------------------------------------------------------------------------
(***************************************************************************)
(* The process.  Every step it takes is a step of the restart manager or   *)
(* leaves the manager alone, so it inherits what the manager promises; and *)
(* the restart of a renewal is always in somebody's hands, which is what   *)
(* RenewalReloaded rests on.                                               *)
(***************************************************************************)

\* A request is merged into the published restart; it is still to come.
PublishedIsToCome ==
    \A t \in Timers : pendingTimer = t /\ timer[t] = "signalled" => sigCh # "empty"

AppInv == AppTypeOK /\ Inv /\ PublishedIsToCome /\ RenewalIsOwed

\* The process uses the manager through its calls alone.
LEMMA AppStepsManager == [AppNext]_vars => [Next]_rmVars
<1> SUFFICES ASSUME [AppNext]_vars PROVE [Next]_rmVars
  OBVIOUS
<1>0. Main \in Callers /\ Others \subseteq Callers
  BY AppAssumption DEF Others
<1>1. ASSUME NEW c \in Others, Request(c) PROVE Next
  BY <1>0, <1>1 DEF Request, Next, CallerStep
<1>2. ASSUME NEW c \in Others, NEW w \in Writes, WriteSettings(c, w) PROVE UNCHANGED rmVars
  BY <1>2 DEF WriteSettings
<1>3. ASSUME NEW c \in Others, Goroutine(c) PROVE Next
  BY <1>0, <1>3 DEF Goroutine, ImportRestart, RenewalRestart, Resume, Next, CallerStep
<1>4. ASSUME NEW t \in Timers, Timer(t) PROVE Next
  BY <1>4 DEF Timer, Next, TimerStep
<1>5. CASE ExternalSignal
  BY <1>5 DEF ExternalSignal
<1>6. CASE MainStep
  BY <1>0, <1>6 DEF MainStep, MainSignal, MainStopCore, MainCoreStopped, MainStart, MainStartCore,
                    MainCoreStarted, Next, CallerStep
<1>7. CASE UNCHANGED vars
  BY <1>7 DEF vars
<1> QED BY <1>1, <1>2, <1>3, <1>4, <1>5, <1>6, <1>7 DEF AppNext

LEMMA AppInitInv == AppInit => AppInv
<1> SUFFICES ASSUME AppInit PROVE AppInv
  OBVIOUS
<1>1. Inv
  BY InitInv DEF AppInit
<1>2. AppTypeOK
  BY <1>1, AppAssumption DEF AppInit, AppTypeOK, Inv, Writes
<1> QED BY <1>1, <1>2 DEF AppInit, AppInv, PublishedIsToCome, RenewalIsOwed, Init

LEMMA AppTypes == ASSUME AppTypeOK, TypeOK', [AppNext]_vars PROVE AppTypeOK'
<1>0. Main \in Callers /\ Others \subseteq Callers /\ MaxCalls \in Nat /\ calls \in Nat
  BY AppAssumption DEF Others, AppTypeOK
<1> USE DEF AppTypeOK, appVars, Notify
<1>1. ASSUME NEW c \in Others, Request(c) PROVE AppTypeOK'
  BY <1>0, <1>1 DEF Request, Arrives
<1>2. ASSUME NEW c \in Others, NEW w \in Writes, WriteSettings(c, w) PROVE AppTypeOK'
  BY <1>0, <1>2 DEF WriteSettings, Arrives
<1>3. ASSUME NEW c \in Others, Goroutine(c) PROVE AppTypeOK'
  BY <1>0, <1>3 DEF Goroutine, ImportRestart, RenewalRestart, Resume
<1>4. ASSUME NEW t \in Timers, Timer(t) PROVE AppTypeOK'
  BY <1>4 DEF Timer
<1>5. CASE ExternalSignal
  BY <1>0, <1>5 DEF ExternalSignal, Arrives
<1>6. CASE MainStep
  BY <1>6 DEF MainStep, MainSignal, MainStopCore, MainCoreStopped, MainStart, MainStartCore, MainCoreStarted
<1>7. CASE UNCHANGED vars
  BY <1>7 DEF vars
<1> QED BY <1>1, <1>2, <1>3, <1>4, <1>5, <1>6, <1>7 DEF AppNext

\* What the calls of the manager leave of a restart that is on its way.  Who frees
\* the slot wakes the sleepers, and they ask again.
LEMMA BroadcastKeepsAsking ==
  ASSUME NEW p \in [Callers -> PcStates], NEW c \in Callers
  PROVE  Broadcast(p)[c] \in {"arming", "waitArm", "wokeArm"} <=> p[c] \in {"arming", "waitArm", "wokeArm"}
  BY DEF Broadcast, PcStates, Sleeping

Asking == \E c \in Callers : pc[c] \in {"arming", "waitArm", "wokeArm"}
Coming == \E t \in Timers : timer[t] \in {"armed", "started"}

LEMMA CallsKeepAsking ==
  ASSUME Inv, NEW c \in Callers,
         \/ Run(c) \/ RunBlocking(c) \/ End(c) \/ ScheduleRestart(c) \/ ArmRestartTimer(c)
  PROVE  /\ Asking \/ Coming => (Asking \/ Coming)'
         /\ \A t \in Timers : pendingTimer' = t /\ timer'[t] = "signalled"
                                => pendingTimer = t /\ timer[t] = "signalled"
<1>0. pc \in [Callers -> PcStates] /\ timer \in [Timers -> TimerStates] /\ NoTimer \notin Timers
  BY RestartAssumption DEF Inv, TypeOK
<1>1. CASE Run(c) \/ RunBlocking(c) \/ ScheduleRestart(c)
  <2>1. \A d \in Callers : pc[d] \in {"arming", "waitArm", "wokeArm"} => pc'[d] = pc[d]
    BY <1>0, <1>1 DEF Run, RunBlocking, ScheduleRestart, BeginOr
  <2> QED BY <1>1, <2>1 DEF Run, RunBlocking, ScheduleRestart, BeginOr, Asking, Coming
<1>2. CASE End(c)
  <2> DEFINE p == [pc EXCEPT ![c] = "idle"]
  <2>1. p \in [Callers -> PcStates] /\ pc' = Broadcast(p) /\ UNCHANGED <<pendingTimer, timer>>
    BY <1>0, <1>2 DEF End, PcStates
  <2>2. \A d \in Callers : pc[d] \in {"arming", "waitArm", "wokeArm"} => p[d] = pc[d]
    BY <1>0, <1>2 DEF End
  <2> HIDE DEF p
  <2> QED BY <2>1, <2>2, BroadcastKeepsAsking DEF Asking, Coming
<1>3. CASE ArmRestartTimer(c)
  BY <1>0, <1>3 DEF ArmRestartTimer, Asking, Coming
<1> QED BY <1>1, <1>2, <1>3

\* A request that waits for its turn is on its way, and one that does not finds a
\* restart on its way.
LEMMA BlockingKeepsAsking ==
  ASSUME Inv, PublishedIsToCome, NEW c \in Callers, ScheduleRestartBlocking(c)
  PROVE  /\ (Asking \/ Coming)' \/ sigCh # "empty"
         /\ UNCHANGED <<pendingTimer, timer>>
<1>0. pc \in [Callers -> PcStates] /\ timer \in [Timers -> TimerStates]
      /\ pendingTimer \in Timers \cup {NoTimer}
      /\ (pendingTimer # NoTimer => timer[pendingTimer] # "idle")
  BY DEF Inv, TypeOK, PendingPublished, Live
<1>1. CASE inFlight /\ pendingTimer # NoTimer
  <2>1. Coming \/ sigCh # "empty"
    BY <1>0, <1>1 DEF PublishedIsToCome, Coming, TimerStates
  <2> QED BY <1>1, <2>1 DEF ScheduleRestartBlocking, BeginOr, Coming
<1>2. CASE ~inFlight \/ pendingTimer = NoTimer
  <2>1. pc'[c] \in {"arming", "waitArm"}
    BY <1>0, <1>2 DEF ScheduleRestartBlocking, BeginOr
  <2> QED BY <2>1 DEF Asking, ScheduleRestartBlocking, BeginOr
<1> QED BY <1>1, <1>2

\* A timer gives the restart on to the next, and in the end to main.
LEMMA TimerKeepsComing ==
  ASSUME Inv, PublishedIsToCome, NEW t \in Timers, Timer(t), sigCh \in {"empty", "HUP", "TERM"}
  PROVE  /\ Asking \/ Coming => (Asking \/ Coming)' \/ sigCh' # "empty"
         /\ sigCh # "empty" => sigCh' # "empty"
         /\ PublishedIsToCome'
<1>0. pc \in [Callers -> PcStates] /\ timer \in [Timers -> TimerStates] /\ NoTimer \notin Timers
  BY RestartAssumption DEF Inv, TypeOK
<1>1. CASE TimerFires(t)
  BY <1>0, <1>1 DEF Timer, TimerFires, EndPending, Signal, Asking, Coming, PublishedIsToCome
<1>2. CASE Signal(t) /\ Notify("HUP")
  BY <1>0, <1>2 DEF Signal, Notify, PublishedIsToCome
<1>3. CASE EndPending(t) /\ UNCHANGED sigCh
  <2>1. Asking => Asking'
    BY <1>0, <1>3, BroadcastKeepsAsking DEF EndPending, Asking
  <2>2. Coming => Coming'
    BY <1>0, <1>3 DEF EndPending, Coming
  <2> QED BY <1>0, <1>3, <2>1, <2>2 DEF EndPending, PublishedIsToCome
<1> QED BY <1>1, <1>2, <1>3 DEF Timer, TimerFires

LEMMA AppNextOwed ==
  ASSUME AppInv, [AppNext]_vars, Inv'
  PROVE  PublishedIsToCome' /\ RenewalIsOwed'
<1> DEFINE others == \/ \E c \in Callers : task[c] = "renewal"
                     \/ sigCh # "empty"
                     \/ mainPc \in {"stopCore", "quitting", "restarting", "exited"}
<1>0. /\ Main \in Callers /\ Others \subseteq Callers
      /\ Inv /\ PublishedIsToCome /\ RenewalIsOwed
      /\ sigCh \in {"empty", "HUP", "TERM"} /\ task \in [Callers -> Writes \cup {"none"}]
  BY AppAssumption DEF Others, AppInv, AppTypeOK
<1>a. RenewalIsOwed <=> ("renewal" \in stale => Asking \/ Coming \/ others)
  BY DEF RenewalIsOwed, Asking, Coming
<1>b. RenewalIsOwed' <=> ("renewal" \in stale' => Asking' \/ Coming' \/ others')
  BY DEF RenewalIsOwed, Asking, Coming
<1>c. ASSUME Asking \/ Coming => (Asking \/ Coming)', others => others', "renewal" \in stale' => "renewal" \in stale
      PROVE  RenewalIsOwed'
  <2> HIDE DEF others
  <2> QED BY <1>0, <1>a, <1>b, <1>c
<1>d. ASSUME UNCHANGED <<rmVars, sigCh>> PROVE PublishedIsToCome' /\ (Asking \/ Coming => (Asking \/ Coming)')
  BY <1>0, <1>d DEF PublishedIsToCome, rmVars, Asking, Coming
<1>1. ASSUME NEW c \in Others, Request(c) PROVE PublishedIsToCome' /\ RenewalIsOwed'
  <2>1. c \in Callers /\ UNCHANGED <<mainPc, sigCh, stale, task>> /\ (Run(c) \/ RunBlocking(c) \/ ScheduleRestart(c))
    BY <1>0, <1>1 DEF Request
  <2> QED BY <1>0, <1>c, <2>1, CallsKeepAsking DEF PublishedIsToCome
<1>2. ASSUME NEW c \in Others, NEW w \in Writes, WriteSettings(c, w) PROVE PublishedIsToCome' /\ RenewalIsOwed'
  <2>1. CASE w = "renewal"
    <3>1. task'[c] = "renewal"
      BY <1>0, <1>2, <2>1 DEF WriteSettings
    <3> QED BY <1>0, <1>2, <1>b, <1>d, <3>1 DEF WriteSettings
  <2>2. CASE w # "renewal"
    <3>1. others => others'
      BY <1>0, <1>2 DEF WriteSettings
    <3>2. "renewal" \in stale' => "renewal" \in stale
      BY <1>2, <2>2 DEF WriteSettings
    <3>3. UNCHANGED <<rmVars, sigCh>>
      BY <1>2 DEF WriteSettings
    <3> HIDE DEF others
    <3> QED BY <1>c, <1>d, <3>1, <3>2, <3>3
  <2> QED BY <2>1, <2>2
<1>3. ASSUME NEW c \in Others, ImportRestart(c) PROVE PublishedIsToCome' /\ RenewalIsOwed'
  <2>1. c \in Callers /\ UNCHANGED <<mainPc, sigCh, stale>> /\ ScheduleRestart(c)
        /\ \A d \in Callers : task[d] = "renewal" => task'[d] = "renewal"
    BY <1>0, <1>3 DEF ImportRestart
  <2> QED BY <1>0, <1>c, <2>1, CallsKeepAsking DEF PublishedIsToCome
<1>4. ASSUME NEW c \in Others,
             \/ RenewalRestart(c)
             \/ ScheduleRestartBlocking(c) /\ UNCHANGED appVars
      PROVE  PublishedIsToCome' /\ RenewalIsOwed'
  <2>1. c \in Callers /\ UNCHANGED <<mainPc, sigCh, stale>> /\ ScheduleRestartBlocking(c)
    BY <1>0, <1>4 DEF RenewalRestart, appVars
  <2>2. (Asking \/ Coming)' \/ sigCh # "empty"
    BY <1>0, <2>1, BlockingKeepsAsking
  <2>3. UNCHANGED <<pendingTimer, timer>>
    BY <1>0, <2>1, BlockingKeepsAsking
  <2> QED BY <1>0, <1>b, <2>1, <2>2, <2>3 DEF PublishedIsToCome
<1>5. ASSUME NEW c \in Callers, RunBlocking(c) \/ Run(c) \/ End(c) \/ ArmRestartTimer(c),
             UNCHANGED <<sigCh, stale, task>>,
             mainPc \in {"stopCore", "quitting", "restarting", "exited"}
               => mainPc' \in {"stopCore", "quitting", "restarting", "exited"}
      PROVE  PublishedIsToCome' /\ RenewalIsOwed'
  BY <1>0, <1>c, <1>5, CallsKeepAsking DEF PublishedIsToCome
<1>6. ASSUME NEW c \in Others, Goroutine(c) PROVE PublishedIsToCome' /\ RenewalIsOwed'
  BY <1>0, <1>3, <1>4, <1>5, <1>6 DEF Goroutine, Resume, appVars
<1>7. ASSUME NEW t \in Timers, Timer(t) PROVE PublishedIsToCome' /\ RenewalIsOwed'
  <2>1. UNCHANGED <<mainPc, stale, task>>
    BY <1>7 DEF Timer
  <2> QED BY <1>0, <1>a, <1>b, <1>7, <2>1, TimerKeepsComing
<1>8. CASE ExternalSignal
  BY <1>0, <1>a, <1>b, <1>8 DEF ExternalSignal, Notify, PublishedIsToCome, rmVars, Asking, Coming
<1>9. CASE MainSignal
  <2>1. pendingTimer' = NoTimer /\ mainPc' \in {"stopCore", "quitting"}
    BY <1>9 DEF MainSignal, CancelPending
  <2> QED BY <1>b, <2>1, RestartAssumption DEF PublishedIsToCome
<1>10. CASE MainStart
  BY <1>b, <1>d, <1>10 DEF MainStart
<1>11. CASE MainStopCore \/ MainCoreStopped \/ MainStartCore \/ MainCoreStarted
  BY <1>0, <1>5, <1>11 DEF MainStopCore, MainCoreStopped, MainStartCore, MainCoreStarted, appVars
<1>12. CASE UNCHANGED vars
  BY <1>0, <1>c, <1>d, <1>12 DEF vars, appVars
<1> QED BY <1>1, <1>2, <1>6, <1>7, <1>8, <1>9, <1>10, <1>11, <1>12 DEF AppNext, MainStep

\* The process around the manager, whatever arrives and whenever it restarts: it is
\* well typed, it keeps the one owner of the slot, the published timer and the woken
\* sleepers of the manager (runApp, Stop, Start, app.RestartApp), and the restart of a
\* renewed certificate that the panel has not read is asked for or on its way
\* (scheduleRestartBlocking, cancelPending, the signal channel).
THEOREM ProcessKeepsTheSlot ==
  AppSpec => /\ []AppTypeOK
             /\ []SlotExclusive /\ []PendingPublished /\ []NoLostWakeup
             /\ []RenewalIsOwed
<1>1. AppInit => AppInv
  BY AppInitInv
<1>2. AppInv /\ [AppNext]_vars => AppInv'
  <2> SUFFICES ASSUME AppInv, [AppNext]_vars PROVE AppInv'
    OBVIOUS
  <2>1. Inv'
    BY AppStepsManager, NextInv DEF AppInv
  <2>2. AppTypeOK'
    BY <2>1, AppTypes DEF AppInv, Inv
  <2> QED BY <2>1, <2>2, AppNextOwed DEF AppInv
<1>3. AppInv => AppTypeOK /\ SlotExclusive /\ PendingPublished /\ NoLostWakeup /\ RenewalIsOwed
  BY DEF AppInv, Inv
<1> QED BY <1>1, <1>2, <1>3, PTL DEF AppSpec

-----------------------------------------------------------------------------
(* The composition.  One part moves at a time and the others stutter.      *)

\* What the parts promise, the running panel promises: every one of them keeps
\* its invariant whatever another one does.
THEOREM RuntimeIsSafe ==
  RuntimeFairSpec => [](/\ ACTokensFollowRows /\ STSecretsAreSafe /\ SBOutputIsRecent
                        /\ CTConnectionsKept /\ CBBoxIsWhole
                        /\ SlotExclusive /\ PendingPublished /\ NoLostWakeup /\ RenewalIsOwed)
                  /\ RLLimitsHold
<1>1. RuntimeInit => /\ ACInit /\ STInit /\ SBInit /\ CTInit /\ CBInit
                    /\ RLInit /\ AppInit
  BY DEF RuntimeInit
<1>2. [RuntimeNext]_runtimeVars =>
        /\ [ACNext]_acVars /\ [STNext]_stVars /\ [SBNext]_sbVars
        /\ [CTNext]_ctVars /\ [CBNext]_cbVars
        /\ [RLNext]_rlVars /\ [AppNext]_vars
  BY DEF RuntimeNext, runtimeVars
<1>3. RuntimeFairSpec => ACSpec /\ STSpec /\ SBSpec /\ CTSpec /\ CBSpec
  BY <1>1, <1>2, PTL DEF RuntimeFairSpec, ACSpec, STSpec, SBSpec, CTSpec, CBSpec
<1>4. RuntimeFairSpec => RLSpec /\ AppSpec
  BY <1>1, <1>2, PTL DEF RuntimeFairSpec, RLSpec, AppSpec
<1> QED BY <1>3, <1>4, TokensFollowRows, SecretsAreSafe, OutputIsRecent,
           ConnectionsKept, BoxIsWhole, LimitsHold, ProcessKeepsTheSlot, PTL
=============================================================================

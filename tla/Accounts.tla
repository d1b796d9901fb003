------------------------------ MODULE Accounts ------------------------------
(***************************************************************************)
(* Administrators and their API tokens (service/user.go), and the copy of  *)
(* the tokens that the token API keeps in memory (api/apiV2Handler.go).    *)
(*                                                                         *)
(* The handlers that delete an administrator, or add, delete, enable or    *)
(* disable a token are wrapped in reloadTokensAfter: they change the       *)
(* tables in one transaction, read the live tokens back and publish them   *)
(* under a mutex, three steps between which other handlers run.            *)
(*                                                                         *)
(* An account is found by its name, the oldest row first.  The command     *)
(* line renames the oldest row without a look at the other names.          *)
(***************************************************************************)
EXTENDS Naturals, FiniteSets

CONSTANTS
    People, Names,
    ApiTokens,
    Handlers,       \* requests of administrators that run at the same time
    MaxChanges      \* bound on changes

ASSUME AccountsAssumption == MaxChanges \in Nat /\ "none" \notin People \cup Names

VARIABLES
    acName,         \* users: the name of a person's account
    acFirst,        \* the account whose row is the oldest
    acForced,       \* the name the command line gave it though it was taken
    acOwner,        \* tokens: the account of a row, "none" without a row
    acOn,           \* tokens.enabled
    acExpired,      \* tokens past their expiry
    acMap,          \* APIv2Handler.tokens
    acAt,           \* a handler: idle, its change is committed, loaded
    acLoaded,       \* what LoadTokens has returned to a handler
    acBehind,       \* a change was committed after that
    acRaced,        \* the map in memory was loaded before a change, or its
                    \* last load failed
    acChanges

acRows == <<acName, acFirst, acForced, acOwner, acOn, acExpired, acChanges>>
acLoad == <<acAt, acLoaded, acBehind>>
acVars == <<acRows, acMap, acLoad, acRaced>>

ACTypeOK ==
    /\ acName \in [People -> Names \cup {"none"}]
    /\ acFirst \in People /\ acForced \in Names \cup {"none"}
    /\ acOwner \in [ApiTokens -> People \cup {"none"}]
    /\ acOn \in [ApiTokens -> BOOLEAN] /\ acExpired \subseteq ApiTokens
    /\ acMap \subseteq ApiTokens
    /\ acAt \in [Handlers -> {"idle", "changed", "loaded"}]
    /\ acLoaded \in [Handlers -> SUBSET ApiTokens]
    /\ acBehind \subseteq Handlers /\ acRaced \in BOOLEAN

\* One administrator without tokens, as after the first start.
ACInit ==
    /\ \E p \in People, n \in Names :
         /\ acName = [q \in People |-> IF q = p THEN n ELSE "none"]
         /\ acFirst = p
    /\ acForced = "none"
    /\ acOwner = [t \in ApiTokens |-> "none"] /\ acOn = [t \in ApiTokens |-> FALSE]
    /\ acExpired = {} /\ acMap = {}
    /\ acAt = [h \in Handlers |-> "idle"] /\ acLoaded = [h \in Handlers |-> {}]
    /\ acBehind = {} /\ acRaced = FALSE /\ acChanges = 0

ACChange == acChanges < MaxChanges /\ acChanges' = acChanges + 1
ACTaken(n) == \E q \in People : acName[q] = n

\* What "WHERE username = ?" with First finds: a name that two accounts have is
\* the oldest one's (ACNamesUnique: no others have one in common).
ACFound(p) == acName[p] # "none" /\ (p = acFirst \/ acName[p] # acName[acFirst])

\* AddUser: the name must be free.  No token is affected.
ACAddUser(p, n) ==
    /\ ACChange /\ acName[p] = "none" /\ ~ACTaken(n)
    /\ acName' = [acName EXCEPT ![p] = n]
    /\ UNCHANGED <<acFirst, acForced, acOwner, acOn, acExpired, acMap, acLoad, acRaced>>

\* Variant: a rename trusts a UNIQUE constraint the table does not have.
ACRenameFreely(p, n) ==
    /\ ACChange /\ ACFound(p) /\ acName[p] # n
    /\ acName' = [acName EXCEPT ![p] = n]
    /\ UNCHANGED <<acFirst, acForced, acOwner, acOn, acExpired, acMap, acLoad, acRaced>>

\* ChangePass with a new name: it must be free or the own one.
ACChangePass(p, n) ==
    /\ ACChange /\ ACFound(p) /\ acName[p] # n /\ ~ACTaken(n)
    /\ acName' = [acName EXCEPT ![p] = n]
    /\ UNCHANGED <<acFirst, acForced, acOwner, acOn, acExpired, acMap, acLoad, acRaced>>

\* UpdateFirstUser, from "s-ui admin -reset" or "-username": the oldest account
\* gets the name, taken or not.  (InitDB has made sure there is one.)
ACUpdateFirstUser(n) ==
    /\ ACChange
    /\ acName' = [acName EXCEPT ![acFirst] = n]
    /\ acForced' = IF \E q \in People \ {acFirst} : acName[q] = n THEN n ELSE acForced
    /\ UNCHANGED <<acFirst, acOwner, acOn, acExpired, acMap, acLoad, acRaced>>

\* A change inside reloadTokensAfter: loads that are under way are behind it.
ACWrapped(h) ==
    /\ acAt[h] = "idle" /\ ACChange
    /\ acAt' = [acAt EXCEPT ![h] = "changed"]
    /\ acBehind' = {g \in Handlers : acAt[g] = "loaded"}
    /\ acRaced' = TRUE
    /\ UNCHANGED <<acMap, acLoaded>>

\* DeleteUser: not an account of the actor's name; the tokens of the account go
\* with it.  If it was the oldest, another one is now.
ACDeleteUser(h, actor, p) ==
    /\ acName[actor] # "none" /\ acName[p] \notin {"none", acName[actor]}
    /\ ACWrapped(h)
    /\ acName' = [acName EXCEPT ![p] = "none"]
    /\ IF p = acFirst THEN acFirst' \in {q \in People : acName'[q] # "none"}
                      ELSE UNCHANGED acFirst
    /\ acOwner' = [t \in ApiTokens |-> IF acOwner[t] = p THEN "none" ELSE acOwner[t]]
    /\ UNCHANGED <<acForced, acOn, acExpired>>

\* AddToken for the account of the session; it expires, or never.
ACAddToken(h, p, t) ==
    /\ acOwner[t] = "none" /\ ACFound(p)
    /\ ACWrapped(h)
    /\ acOwner' = [acOwner EXCEPT ![t] = p] /\ acOn' = [acOn EXCEPT ![t] = TRUE]
    /\ acExpired' = acExpired \ {t}
    /\ UNCHANGED <<acName, acFirst, acForced>>

\* DeleteToken.
ACDeleteToken(h, t) ==
    /\ acOwner[t] # "none"
    /\ ACWrapped(h)
    /\ acOwner' = [acOwner EXCEPT ![t] = "none"]
    /\ UNCHANGED <<acName, acFirst, acForced, acOn, acExpired>>

\* SetTokenEnabled.
ACSetTokenEnabled(h, t) ==
    /\ acOwner[t] # "none"
    /\ ACWrapped(h)
    /\ \E b \in BOOLEAN : acOn' = [acOn EXCEPT ![t] = b]
    /\ UNCHANGED <<acName, acFirst, acForced, acOwner, acExpired>>

ACExpire(t) ==
    /\ acOwner[t] # "none" /\ t \notin acExpired
    /\ acExpired' = acExpired \cup {t}
    /\ UNCHANGED <<acName, acFirst, acForced, acOwner, acOn, acChanges>>
    /\ UNCHANGED <<acMap, acLoad, acRaced>>

\* The tokens a request may use.
ACLive == {t \in ApiTokens : acOwner[t] # "none" /\ acOn[t] /\ t \notin acExpired}

\* LoadTokens; an error is logged and leaves the map as it was.
ACLoadTokens(h) ==
    /\ acAt[h] = "changed"
    /\ \/ /\ acAt' = [acAt EXCEPT ![h] = "loaded"]
          /\ acLoaded' = [acLoaded EXCEPT ![h] = ACLive]
       \/ acAt' = [acAt EXCEPT ![h] = "idle"] /\ UNCHANGED acLoaded
    /\ acBehind' = acBehind \ {h}
    /\ UNCHANGED <<acRows, acMap, acRaced>>

\* ReloadTokens swaps the map.
ACReloadTokens(h) ==
    /\ acAt[h] = "loaded" /\ acAt' = [acAt EXCEPT ![h] = "idle"]
    /\ acMap' = acLoaded[h] /\ acRaced' = (h \in acBehind)
    /\ acLoaded' = [acLoaded EXCEPT ![h] = {}] /\ acBehind' = acBehind \ {h}
    /\ UNCHANGED acRows

ACNext ==
    \/ \E p \in People, n \in Names : ACAddUser(p, n) \/ ACChangePass(p, n)
    \/ \E n \in Names : ACUpdateFirstUser(n)
    \/ \E t \in ApiTokens : ACExpire(t)
    \/ \E h \in Handlers :
         \/ \E p, q \in People : ACDeleteUser(h, p, q)
         \/ \E p \in People, t \in ApiTokens : ACAddToken(h, p, t)
         \/ \E t \in ApiTokens : ACDeleteToken(h, t) \/ ACSetTokenEnabled(h, t)
         \/ ACLoadTokens(h) \/ ACReloadTokens(h)

ACSpec == ACInit /\ [][ACNext]_acVars

----------------------------------------------------------------------------

\* users.username has no UNIQUE constraint: only the checks of AddUser and
\* ChangePass keep a name from meaning two accounts.  The command line has none;
\* what it does to the oldest account no further handler makes worse: only the
\* name it forced can mean two accounts, and one of them is the oldest.
ACNamesUnique ==
    \A p, q \in People : acName[p] = acName[q] /\ acName[p] # "none" /\ p # q =>
        acName[p] = acForced /\ acFirst \in {p, q}

\* There is always an account to log in with.
ACSomebody == acName[acFirst] # "none"

\* findUsername accepts what is in memory and not expired.
ACAccepted == acMap \ acExpired

ACIdle == \A h \in Handlers : acAt[h] = "idle"

\* Between requests the token API accepts exactly the live tokens, unless the
\* last reload failed or published what it had read before another change.
ACMapIsCurrent == ACIdle /\ ~acRaced => ACAccepted = ACLive

\* "Deleting another administrator also removes their API tokens, reloads the
\* APIV2 token cache": between requests no token is accepted without its row.
ACCacheIsReloaded == ACIdle => \A t \in ACAccepted : acOwner[t] # "none"

\* A name means one account but for what the command line does, and what is
\* accepted is what the rows say.
ACTokensFollowRows == ACTypeOK /\ ACNamesUnique /\ ACSomebody /\ ACMapIsCurrent
=============================================================================

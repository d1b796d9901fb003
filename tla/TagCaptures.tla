----------------------------- MODULE TagCaptures -----------------------------
(***************************************************************************)
(* The running core next to the rows of TagRefs (service/coresync.go, the  *)
(* post-commit part of ConfigService.Save, and the Restart... and          *)
(* Remove...FromCore functions of outbounds.go, endpoints.go, inbounds.go  *)
(* and services.go).  An adapter captures other adapters when it is built; *)
(* a saved object is replaced alone unless somebody captured it.           *)
(*                                                                         *)
(* A save commits and then applies its plan in a section of the restart    *)
(* manager, so the plans of two saves may be applied in either order.      *)
(* Within a section the rows are read when they are built: one committed   *)
(* between the read and the build has its own plan still to come.          *)
(*                                                                         *)
(* Rows name tags that other rows have: a core does not start otherwise.   *)
(***************************************************************************)
EXTENDS TagRefs, Sequences, SequencesExt

CONSTANTS
    MaxPlans,       \* bound on saves that have committed and not applied
    MaxSaves        \* bound on saves

ASSUME TagCapturesAssumption == MaxPlans \in Nat \ {0} /\ MaxSaves \in Nat

VARIABLES
    tcPlans,        \* the plans to apply, in the order of their commits
    tcCore,         \* what each adapter of the core captured when it was built
    tcStale,        \* captures of an adapter that has been replaced or removed
    tcCrossed,      \* a plan has been applied before an older one
    tcSaves

tcVars == <<tcPlans, tcCore, tcStale, tcCrossed, tcSaves>>
captureVars == <<trVars, tcVars>>

\* An adapter is known by the manager it belongs to and its tag.
Tables   == {"outbound", "endpoint", "inbound", "service"}
BlobUser == <<"settings", "settings">>
Adapters == (Tables \X Tags) \cup {BlobUser}

TCTable(r) == CASE r \in Outbounds   -> "outbound"
                [] r \in Endpoints   -> "endpoint"
                [] r \in InboundRows -> "inbound"
                [] OTHER             -> "service"
TCAdapter(r) == <<TCTable(r), trTag[r]>>
TCRows       == {r \in Objects : trTag[r] # NoTag}

\* postCommitCorePlan.
TCHot(rows, gone) == [restart |-> FALSE, rows |-> rows, gone |-> gone, alone |-> FALSE]
TCWhole           == [TCHot({}, {}) EXCEPT !.restart = TRUE]
TCPlans == [restart : BOOLEAN, rows : SUBSET Objects, gone : SUBSET Adapters, alone : BOOLEAN]

TCTypeOK ==
    /\ tcPlans \in Seq(TCPlans) /\ tcCrossed \in BOOLEAN /\ tcSaves \in Nat
    /\ DOMAIN tcCore \subseteq Adapters /\ \A a \in DOMAIN tcCore : tcCore[a] \subseteq Adapters
    /\ tcStale \subseteq [by : Adapters, of : Adapters, alone : BOOLEAN]

TCInit ==
    /\ TRInit /\ tcPlans = <<>> /\ tcStale = {} /\ tcCrossed = FALSE /\ tcSaves = 0
    /\ tcCore = [a \in {BlobUser} |-> {}]

-----------------------------------------------------------------------------
(* Building.  *)

\* The core looks a tag up among its outbounds first.
TCFound(running, tag) ==
    IF <<"outbound", tag>> \in running THEN <<"outbound", tag>> ELSE <<"endpoint", tag>>

\* What a row, or the settings, captures among the adapters that run.
TCCaptures(r, running) ==
    {TCFound(running, tag) : tag \in trRefs[r]}
    \cup (IF r \in ServiceRows THEN {"inbound"} \X trSsm[r] ELSE {})

TCOwner(a) == IF a = BlobUser THEN Blob ELSE CHOOSE r \in TCRows : TCAdapter(r) = a
TCStored   == {BlobUser} \cup {TCAdapter(r) : r \in TCRows}

\* startCoreLocked builds everything that is stored.
TCBuiltWhole == [a \in TCStored |-> TCCaptures(TCOwner(a), TCStored)]

TCRestartCore(plans, crossed) ==
    /\ tcCore' = TCBuiltWhole /\ tcStale' = {}
    /\ tcPlans' = plans /\ tcCrossed' = (crossed /\ plans # <<>>)

\* applyObjectChangesLocked: the tags that are gone are removed, then the rows of
\* the plan that are still there are replaced.
TCReplace(plan) ==
    LET fresh   == {TCAdapter(r) : r \in plan.rows \cap TCRows}
        kept    == DOMAIN tcCore \ (fresh \cup plan.gone)
        running == kept \cup fresh
        broken  == DOMAIN tcCore \cap (fresh \cup plan.gone)
    IN  /\ \A a \in fresh : TCCaptures(TCOwner(a), running) \subseteq running
        /\ tcCore' = [a \in running |-> IF a \in fresh THEN TCCaptures(TCOwner(a), running)
                                                      ELSE tcCore[a]]
        /\ tcStale' = {s \in tcStale : s.by \in kept}
                        \cup UNION {{[by |-> a, of |-> b, alone |-> plan.alone] :
                                        b \in tcCore[a] \cap broken} : a \in kept}

-----------------------------------------------------------------------------
(* Saves.  *)

TCCommit(plan) ==
    /\ Len(tcPlans) < MaxPlans /\ tcSaves < MaxSaves
    /\ tcPlans' = Append(tcPlans, plan) /\ tcSaves' = tcSaves + 1
    /\ UNCHANGED <<tcCore, tcStale, tcCrossed>>

\* Every name is the tag of a row, and no two rows name each other: a bound on
\* what is saved.
TCResolved ==
    /\ \A q \in Lookups \cup ServiceRows \cup {Blob} : \A tag \in trRefs[q] :
          \E r \in Lookups : trTag[r] = tag
    /\ \A q, r \in Lookups : ~(trTag[r] \in trRefs[q] /\ trTag[q] \in trRefs[r])
    /\ \A s \in ServiceRows : \A tag \in trSsm[s] : \E r \in InboundRows : trTag[r] = tag

\* The adapter of the tag a save takes from a row.
TCRenamed(r, tag) == IF trTag[r] \in {NoTag, tag} THEN {} ELSE {TCAdapter(r)}

\* A wrong TCSaveLookup: what captured the row is not looked for.
TCSaveLookupHot(r, tag, refs) ==
    /\ IF r \in Outbounds THEN TRSaveOutbound(r, tag, refs) ELSE TRSaveEndpoint(r, tag, refs)
    /\ TCCommit(TCHot({r}, TCRenamed(r, tag)))

\* saveOutboundUpsert and saveEndpointUpsert: whole when somebody captured it.
TCSaveLookup(r, tag, refs) ==
    /\ IF r \in Outbounds THEN TRSaveOutbound(r, tag, refs) ELSE TRSaveEndpoint(r, tag, refs)
    /\ TCCommit(IF TREager(tag, r) # {} THEN TCWhole ELSE TCHot({r}, TCRenamed(r, tag)))

\* saveInboundUpsert: the services that captured the inbound are built after it.
TCSaveInbound(r, tag) ==
    /\ TRSaveInbound(r, tag)
    /\ TCCommit(TCHot({r} \cup TRServicesOf(tag), TCRenamed(r, tag)))

\* ServicesService.Save.
TCSaveService(r, tag, refs, servers) ==
    /\ TRSaveService(r, tag, refs, servers)
    /\ TCCommit(TCHot({r}, TCRenamed(r, tag)))

TCDelete(r) ==
    /\ \/ r \in Lookups /\ TRDeleteLookup(r)
       \/ r \in InboundRows /\ TRDeleteInbound(r)
       \/ r \in ServiceRows /\ TRDeleteService(r)
    /\ TCCommit(TCHot({}, {TCAdapter(r)}))

\* A change of the sing-box settings restarts the core.
TCSaveBlob(refs, lazy) ==
    /\ TRSaveBlob(refs, lazy)
    /\ TCCommit(IF UNCHANGED trVars THEN TCHot({}, {}) ELSE TCWhole)

\* A save of clients or of a certificate, a paid order and the deplete job
\* replace the inbound of a client and nothing else.
TCSaveClients(r) ==
    /\ trTag[r] # NoTag
    /\ TCCommit([TCHot({r}, {}) EXCEPT !.alone = TRUE])
    /\ UNCHANGED trVars

TCSave ==
    /\ \/ \E tag \in Tags, refs \in TagSets :
            \/ \E r \in Lookups : TCSaveLookup(r, tag, refs)
            \/ \E r \in ServiceRows, servers \in TagSets : TCSaveService(r, tag, refs, servers)
       \/ \E r \in InboundRows : TCSaveClients(r) \/ \E tag \in Tags : TCSaveInbound(r, tag)
       \/ \E r \in Objects : TCDelete(r)
       \/ \E refs \in TagSets, lazy \in TagSets : TCSaveBlob(refs, lazy)
    /\ TCResolved'

-----------------------------------------------------------------------------
(* Applying.  *)

\* applyPostCommitCoreChangesLocked, without a restart.
TCApply(k) ==
    /\ ~tcPlans[k].restart /\ TCReplace(tcPlans[k])
    /\ tcPlans' = RemoveAt(tcPlans, k) /\ tcCrossed' = (tcCrossed \/ k # 1)
    /\ UNCHANGED <<trVars, tcSaves>>

\* The plan asks for a restart, or its hot reload fails, or the core is stopped.
TCApplyWhole(k) ==
    /\ TCRestartCore(RemoveAt(tcPlans, k), tcCrossed \/ k # 1)
    /\ UNCHANGED <<trVars, tcSaves>>

\* RestartCore, asked for by an administrator.
TCRestart == TCRestartCore(tcPlans, tcCrossed) /\ UNCHANGED <<trVars, tcSaves>>

TCNext == TCSave \/ TCRestart \/ \E k \in DOMAIN tcPlans : TCApply(k) \/ TCApplyWhole(k)

TCSpec == TCInit /\ [][TCNext]_captureVars

-----------------------------------------------------------------------------
\* The core runs what is stored, and nothing in it is bound to an adapter that
\* is gone.
TCFresh(but) == tcCore = TCBuiltWhole /\ tcStale \subseteq but

\* When the plans of all saves have been applied, in the order of their commits,
\* the core runs what is stored and captured what runs; only services may be bound
\* to an inbound that was replaced for the sake of its clients (Save,
\* applyPostCommitCoreChanges, the upserts of service/).
TCCoreIsFresh ==
    TCTypeOK /\ (tcPlans = <<>> /\ ~tcCrossed => TCFresh({s \in tcStale : s.alone}))

\* The same in whatever order the plans are applied.
TCNeverStale == tcPlans = <<>> => TCFresh({s \in tcStale : s.alone})

\* A service is bound to the inbound that runs, when plans are applied in order.
TCServicesFresh == tcPlans = <<>> /\ ~tcCrossed => TCFresh({})
=============================================================================

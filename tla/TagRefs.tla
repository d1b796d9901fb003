------------------------------ MODULE TagRefs ------------------------------
(***************************************************************************)
(* The references between the stored objects (service/tagrefs*.go,         *)
(* outbounds.go, endpoints.go, inbounds.go, services.go).  A row names     *)
(* other rows by their tags: outbounds and endpoints share one namespace,  *)
(* an ssm-api service names inbounds.  A step is the transaction of one    *)
(* save; what it does to the running core is in TagCaptures.               *)
(*                                                                         *)
(* The direct outbound that a failover group gets without naming it is no  *)
(* stored reference: neither the code nor this module counts it.           *)
(***************************************************************************)
EXTENDS Naturals, FiniteSets

CONSTANTS
    Outbounds, Endpoints, InboundRows, ServiceRows,     \* row ids
    Blob,           \* the stored sing-box settings, as the owner of references
    Tags

Lookups == Outbounds \cup Endpoints
Objects == Lookups \cup InboundRows \cup ServiceRows
TagSets == {s \in SUBSET Tags : Cardinality(s) <= 1}    \* bound on references
NoTag   == "no row"

\* Rows of different tables are different.
ASSUME TagRefsAssumption ==
    /\ NoTag \notin Tags /\ Blob \notin Objects
    /\ Lookups \cap (InboundRows \cup ServiceRows) = {}

VARIABLES
    trTag,          \* the tag of a row, NoTag when there is none
    trRefs,         \* detours, group members and defaults of a row or the blob
    trSsm,          \* the servers of an ssm-api service
    trLazy          \* route.final and the outbounds of route rules

trVars == <<trTag, trRefs, trSsm, trLazy>>

TRTypeOK ==
    /\ trTag \in [Objects -> Tags \cup {NoTag}]
    /\ trRefs \in [Objects \cup {Blob} -> SUBSET Tags]
    /\ trSsm \in [ServiceRows -> SUBSET Tags] /\ trLazy \subseteq Tags

TRInit ==
    /\ trTag = [r \in Objects |-> NoTag] /\ trLazy = {}
    /\ trRefs = [r \in Objects \cup {Blob} |-> {}] /\ trSsm = [r \in ServiceRows |-> {}]

----------------------------------------------------------------------------

\* Who names a tag of the outbound namespace; own is the row being edited.
TRRowReferences(tag, own) == {r \in (Lookups \cup ServiceRows) \ {own} : tag \in trRefs[r]}

\* scanConfigBlobForOutboundTag: the detours of the blob.
TRBlobReferences(tag) == {b \in {Blob} : tag \in trRefs[b]}

\* eagerTagReferences: those that captured the adapter.
TREager(tag, own) == TRRowReferences(tag, own) \cup TRBlobReferences(tag)

\* Variant: the guard looks at the references that captured the adapter only.
TRReferencedEagerly(tag, own) == TREager(tag, own) # {}

\* outboundTagReferences finds something.
TRReferenced(tag, own) == TREager(tag, own) # {} \/ tag \in trLazy

\* ssmCascadeServiceIds, and inboundTagReferences.
TRServicesOf(tag) == {s \in ServiceRows : tag \in trSsm[s]}

\* Only the table of a row makes its tags unique.
TRTaken(tag, table, r) == \E q \in table \ {r} : trTag[q] = tag

\* A row without its references: deleted.
TRGone(r) ==
    /\ trTag' = [trTag EXCEPT ![r] = NoTag]
    /\ trRefs' = [trRefs EXCEPT ![r] = {}]

\* saveOutboundUpsert and saveEndpointUpsert; new rows and edits alike.
TRSaveLookup(r, table, tag, refs) ==
    /\ ~TRTaken(tag, table, r)
    /\ trTag[r] \notin {NoTag, tag} => ~TRReferenced(trTag[r], r)
    /\ trTag' = [trTag EXCEPT ![r] = tag]
    /\ trRefs' = [trRefs EXCEPT ![r] = refs]
    /\ UNCHANGED <<trSsm, trLazy>>

TRSaveOutbound(r, tag, refs) == TRSaveLookup(r, Outbounds, tag, refs)
TRSaveEndpoint(r, tag, refs) == TRSaveLookup(r, Endpoints, tag, refs)

TRDeleteLookup(r) ==
    /\ trTag[r] # NoTag
    /\ ~TRReferenced(trTag[r], r)
    /\ TRGone(r)
    /\ UNCHANGED <<trSsm, trLazy>>

\* saveInboundUpsert.
TRSaveInbound(r, tag) ==
    /\ ~TRTaken(tag, InboundRows, r)
    /\ trTag[r] \notin {NoTag, tag} => TRServicesOf(trTag[r]) = {}
    /\ trTag' = [trTag EXCEPT ![r] = tag]
    /\ UNCHANGED <<trRefs, trSsm, trLazy>>

TRDeleteInbound(r) ==
    /\ trTag[r] # NoTag /\ TRServicesOf(trTag[r]) = {}
    /\ TRGone(r)
    /\ UNCHANGED <<trSsm, trLazy>>

\* ServicesService.Save checks nothing of what it names.
TRSaveService(r, tag, refs, servers) ==
    /\ ~TRTaken(tag, ServiceRows, r)
    /\ trTag' = [trTag EXCEPT ![r] = tag]
    /\ trRefs' = [trRefs EXCEPT ![r] = refs]
    /\ trSsm' = [trSsm EXCEPT ![r] = servers]
    /\ UNCHANGED trLazy

TRDeleteService(r) ==
    /\ trTag[r] # NoTag
    /\ TRGone(r) /\ trSsm' = [trSsm EXCEPT ![r] = {}]
    /\ UNCHANGED trLazy

\* The blob is stored as it comes.
TRSaveBlob(refs, lazy) ==
    /\ trRefs' = [trRefs EXCEPT ![Blob] = refs] /\ trLazy' = lazy
    /\ UNCHANGED <<trTag, trSsm>>

TRNext ==
    \/ \E tag \in Tags, refs \in TagSets :
         \/ \E r \in Outbounds : TRSaveOutbound(r, tag, refs)
         \/ \E r \in Endpoints : TRSaveEndpoint(r, tag, refs)
         \/ \E r \in ServiceRows, servers \in TagSets : TRSaveService(r, tag, refs, servers)
    \/ \E r \in Lookups : TRDeleteLookup(r)
    \/ \E r \in InboundRows :
         \/ \E tag \in Tags : TRSaveInbound(r, tag)
         \/ TRDeleteInbound(r)
    \/ \E r \in ServiceRows : TRDeleteService(r)
    \/ \E refs \in TagSets, lazy \in TagSets : TRSaveBlob(refs, lazy)

TRSpec == TRInit /\ [][TRNext]_trVars

----------------------------------------------------------------------------

TRExists(tag) == \E r \in Lookups : trTag[r] = tag

\* The tag is named before and after a step, by a stored reference of a row that
\* does not hold it itself or by a lazy one.
TRNamedThroughout(tag) ==
    \/ \E q \in Lookups \cup ServiceRows \cup {Blob} :
          /\ tag \in trRefs[q] \cap trRefs'[q]
          /\ \E r \in Lookups \ {q} : trTag[r] = tag
    \/ tag \in trLazy \cap trLazy'

\* No save takes away what a stored reference resolves to: a tag that is named
\* before and after a step and exists before it exists after it, or the core
\* does not start any more.  The references of the row that is saved do not
\* count against its own rename.
TRNothingDangles ==
    [][\A tag \in Tags : TRNamedThroughout(tag) /\ TRExists(tag) => TRExists(tag)']_trVars

\* The rows are what the tables hold, and no save leaves a stored reference
\* without its tag (outboundTagReferences and the guards of the upserts).
TRReferencesHold == []TRTypeOK /\ TRNothingDangles
=============================================================================

------------------------------ MODULE XuiImport ------------------------------
(***************************************************************************)
(* The import of a 3x-ui database (database/importxui, api/import_xui.go): *)
(* a plan is made from the uploaded file and the live database, the        *)
(* operator reviews it, and it is applied in one transaction after a       *)
(* backup; the one-shot import takes one strategy for everything.  A row   *)
(* keeps its name, its id, what refers to it, and whose values it carries. *)
(***************************************************************************)
EXTENDS Naturals, Sequences, Functions

CONSTANTS Applying, Shooting,  \* requests that apply a plan, one-shot requests
          XIUploads,      \* the files that may be uploaded, by name
          XILive,         \* the databases an import may meet
          MaxXiPlans,     \* plans made
          MaxXiShots,     \* one-shot imports begun
          MaxXiSaves,     \* saves of the panel in between
          MaxXiFaults     \* transactions that fail

XINoKey == "none"         \* of a row without a certificate
XINewName == "renamed"    \* what the operator may call an inbound or a client
XIHostSpecific == {"webListen"}
XIUsable(upload) == {r \in Range(upload.rows) : r.kind = "inbound"}
XIKeysOf(upload) == {r.key : r \in XIUsable(upload)} \ {XINoKey}
XIClientsOf(rows) == UNION {r.clients : r \in rows}

\* What a file holds: rows of which no two have a tag in common, and the names
\* of the clients in the order they are taken.
XIUploadOK(u) ==
  /\ u.rows \in Seq(Range(u.rows)) /\ u.rules \in Seq(Range(u.rules))
  /\ u.names \in Seq(Range(u.names)) /\ Range(u.names) = XIClientsOf(Range(u.rows))
  /\ \A m, n \in DOMAIN u.rows : u.rows[m].tag = u.rows[n].tag => m = n
  /\ \A r \in Range(u.rows) : /\ r.kind \in {"inbound", "endpoint", "unsupported"}
                             /\ r.tag # XINewName /\ XINewName \notin r.clients
\* What the panel has: a tag is in a table once, but certificates and clients
\* may be alike in all but their ids, which are given out in order.
XIDbOK(db) ==
  /\ {db.lastTls, db.lastClient} \subseteq Nat
  /\ \A t \in db.tls : t.id \in 1..db.lastTls
  /\ \A c \in db.clients : c.id \in 1..db.lastClient
  /\ \A i, j \in db.inbounds : i.tag = j.tag => i = j
  /\ \A e, f \in db.endpoints : e.tag = f.tag => e = f
  /\ \A c, d \in db.clients : c.id = d.id => c = d
  /\ \A c \in db.clients : c = [id |-> c.id, name |-> c.name, ids |-> c.ids, secret |-> c.secret, from |-> c.from]
  /\ db = [tls |-> db.tls, lastTls |-> db.lastTls, inbounds |-> db.inbounds, lastInbound |-> db.lastInbound,
           endpoints |-> db.endpoints, clients |-> db.clients, lastClient |-> db.lastClient,
           settings |-> db.settings, admins |-> db.admins,
           outbounds |-> db.outbounds, rules |-> db.rules]
  /\ db.rules \in Seq(Range(db.rules))

ASSUME XuiImportAssumption ==
  /\ {MaxXiPlans, MaxXiShots, MaxXiSaves, MaxXiFaults} \subseteq Nat
  /\ \A name \in DOMAIN XIUploads : XIUploadOK(XIUploads[name])
  /\ \A db \in XILive : XIDbOK(db)

-----------------------------------------------------------------------------
(* The plan: an item per thing found, named by kind and source id.         *)
XIItemKeys(upload) ==
  {<<"tls", k>> : k \in XIKeysOf(upload)}
    \cup {<<IF r.kind = "unsupported" THEN "inbound" ELSE r.kind, r.tag>> : r \in Range(upload.rows)}
    \cup {<<"client", c>> : c \in XIClientsOf(Range(upload.rows))}
    \cup {<<"setting", k>> : k \in upload.settings}
    \cup {<<"admin", a>> : a \in upload.admins}
    \cup (IF upload.rules # <<>> THEN {<<"routing", "config">>} ELSE {})
XIConflict(db, item) ==
  CASE item[1] = "tls" -> \E t \in db.tls : t.key = item[2]
    [] item[1] = "inbound" -> \E i \in db.inbounds : i.tag = item[2]
    [] item[1] = "endpoint" -> \E e \in db.endpoints : e.tag = item[2]
    [] item[1] = "client" -> \E c \in db.clients : c.name = item[2]
    [] item[1] = "setting" -> item[2] \in DOMAIN db.settings
    [] item[1] = "admin" -> \E a \in db.admins : a.name = item[2]
    [] OTHER -> FALSE
XIDefaultAction(conflict, strategy) == IF conflict THEN strategy ELSE "create"
XIPlanOf(db, upload, strategy) ==
  [item \in XIItemKeys(upload) |->
     LET conflict == XIConflict(db, item)
         skipped == \/ item[1] = "setting" /\ item[2] \in XIHostSpecific
                    \/ item[1] = "inbound" /\ \E r \in Range(upload.rows) : r.tag = item[2] /\ r.kind = "unsupported"
     IN [action |-> IF skipped THEN "skip" ELSE XIDefaultAction(conflict, strategy), to |-> item[2]]]
\* An item the plan does not name is created; a kind without items is left out.
XIItem(items, kind, id) ==
  IF <<kind, id>> \in DOMAIN items THEN items[<<kind, id>>] ELSE [action |-> "create", to |-> id]
\* What an action means for a row that exists: create merges.
\* Variant: create replaces.
XIOnConflictReplaces(action) == IF action = "create" THEN "replace" ELSE action
XIOnConflict(action) == IF action = "create" THEN "merge" ELSE action

(* The transaction: it takes the rows of the source in their order, table   *)
(* by table.                                                                *)
XIFirst(rows) == CHOOSE r \in rows : \A q \in rows : r.id <= q.id
XIPut(f, k, v) == [x \in DOMAIN f \cup {k} |-> IF x = k THEN v ELSE f[x]]

\* A certificate is taken once per import; an existing one is used, also when
\* the item is skipped, and replaced only when no inbound refers to it.
XITlsCreated(work, gone, key) ==
  LET id == work.last + 1
  IN [tls |-> (work.tls \ gone) \cup {[id |-> id, key |-> key]}, last |-> id,
      ids |-> XIPut(work.ids, key, id), ok |-> work.ok]
XITlsFound(rows, key) == {t \in rows : t.key = key}
XITlsStep(work, row, items, inbounds) ==
  LET found == XITlsFound(work.tls, row.key)
      existing == XIFirst(found)
      action == XIItem(items, "tls", row.key).action
      used == \E i \in inbounds : i.tls = existing.id
  IN IF row.kind # "inbound" \/ row.key = XINoKey \/ row.key \in DOMAIN work.ids THEN work ELSE
     CASE found = {} /\ action = "skip" -> work
       [] found = {} /\ action # "skip" -> XITlsCreated(work, {}, row.key)
       [] found # {} /\ action # "replace" -> [work EXCEPT !.ids = XIPut(@, row.key, existing.id)]
       [] found # {} /\ action = "replace" /\ used -> [work EXCEPT !.ok = FALSE]
       [] OTHER -> XITlsCreated(work, {existing}, row.key)
XIApplyTls(db, upload, items) ==
  LET work[n \in 0..Len(upload.rows)] ==
        IF n = 0 THEN [tls |-> db.tls, last |-> db.lastTls, ids |-> <<>>, ok |-> TRUE]
        ELSE XITlsStep(work[n - 1], upload.rows[n], items, db.inbounds)
  IN work[Len(upload.rows)]

XITlsOf(ids, row) == IF row.key \in DOMAIN ids THEN ids[row.key] ELSE 0
\* applyInbound: by tag; replace makes a row with a new id, merge keeps the id.
XIInboundStep(work, row, items, ids) ==
  LET item == XIItem(items, "inbound", row.tag)
      found == {i \in work.inbounds : i.tag = item.to}
      fresh == found = {} \/ XIOnConflict(item.action) = "replace"
      id == IF fresh THEN work.last + 1 ELSE (CHOOSE i \in found : TRUE).id
      new == [id |-> id, tag |-> item.to, tls |-> XITlsOf(ids, row), from |-> "import"]
  IN IF item.action = "skip" THEN work
     ELSE [work EXCEPT !.inbounds = (@ \ found) \cup {new}, !.row = XIPut(@, row.tag, id),
                       !.last = IF fresh THEN id ELSE @]
XIEndpointStep(work, row, items) ==
  LET item == XIItem(items, "endpoint", row.tag)
      found == {e \in work.endpoints : e.tag = item.to}
  IN IF item.action = "skip" THEN work
     ELSE [work EXCEPT !.endpoints = (@ \ found) \cup {[tag |-> item.to, from |-> "import"]}]
XIRowStep(work, row, items, ids) ==
  CASE row.kind = "inbound" -> XIInboundStep(work, row, items, ids)
    [] row.kind = "endpoint" -> XIEndpointStep(work, row, items)
    [] OTHER -> work
XIApplyInbounds(db, upload, items, ids) ==
  LET work[n \in 0..Len(upload.rows)] ==
        IF n = 0 THEN [inbounds |-> db.inbounds, last |-> db.lastInbound, endpoints |-> db.endpoints, row |-> <<>>]
        ELSE XIRowStep(work[n - 1], upload.rows[n], items, ids)
  IN work[Len(upload.rows)]

\* collectClientAggregates: one client per name, on every inbound of its that
\* was imported; a client of a skipped inbound is met in the traffic table only.
XIAggregate(row, upload, name) ==
  {row[r.tag] : r \in {q \in XIUsable(upload) : name \in q.clients /\ q.tag \in DOMAIN row}}
XIClientStep(work, name, items, ids) ==
  LET item == XIItem(items, "client", name)
      found == {c \in work.clients : c.name = item.to}
      old == XIFirst(found)
      next == CASE found = {} -> [id |-> work.last + 1, name |-> item.to, ids |-> ids,
                                  secret |-> "import", from |-> "import"]
                [] found # {} /\ XIOnConflict(item.action) = "replace" ->
                     [id |-> old.id, name |-> item.to, ids |-> ids, secret |-> old.secret, from |-> "import"]
                [] OTHER -> [old EXCEPT !.ids = @ \cup ids]
  IN IF item.action = "skip" THEN work
     ELSE [clients |-> {c \in work.clients : c.id # next.id} \cup {next},
           last |-> IF found = {} THEN next.id ELSE work.last]
XIApplyClients(db, upload, items, row) ==
  LET work[n \in 0..Len(upload.names)] ==
        IF n = 0 THEN [clients |-> db.clients, last |-> db.lastClient]
        ELSE XIClientStep(work[n - 1], upload.names[n], items, XIAggregate(row, upload, upload.names[n]))
  IN work[Len(upload.names)]

\* The entries of a kind that are taken over; without an item none are.
XITaken(items, kind, names) ==
  {k \in names : (\E item \in DOMAIN items : item[1] = kind) /\ XIItem(items, kind, k).action # "skip"}
XIApplySettings(db, upload, items) ==
  LET taken == XITaken(items, "setting", upload.settings)
  IN [k \in taken \cup DOMAIN db.settings |-> IF k \in taken THEN "import" ELSE db.settings[k]]
\* upsertUserResetRequired: a merge keeps the password and asks for a new one.
XIAdminRow(db, name, action) ==
  LET found == {a \in db.admins : a.name = name}
      password == IF found # {} /\ action = "merge" THEN (CHOOSE a \in found : TRUE).password ELSE "import"
  IN [name |-> name, password |-> password, reset |-> TRUE]
XIApplyAdmins(db, upload, items) ==
  LET taken == XITaken(items, "admin", upload.admins)
  IN {a \in db.admins : a.name \notin taken} \cup {XIAdminRow(db, a, XIItem(items, "admin", a).action) : a \in taken}
\* Outbounds are created where missing, a direct one too when a rule needs it;
\* rules are appended unless an equal one is there.
XINewOutbounds(db, upload) ==
  {o \in upload.outbounds \cup ({"direct"} \cap Range(upload.rules)) : \A p \in db.outbounds : p.tag # o}
XIAppendRule(rules, rule) == IF rule \in Range(rules) THEN rules ELSE Append(rules, rule)
XIAppendUnique(rules, additions) ==
  LET work[n \in 0..Len(additions)] ==
        IF n = 0 THEN rules ELSE XIAppendRule(work[n - 1], additions[n])
  IN work[Len(additions)]
XIApplyRouting(db, upload, items) ==
  IF XITaken(items, "routing", {"config"}) = {} THEN [outbounds |-> db.outbounds, rules |-> db.rules]
  ELSE [outbounds |-> db.outbounds \cup {[tag |-> o, from |-> "import"] : o \in XINewOutbounds(db, upload)},
        rules |-> XIAppendUnique(db.rules, upload.rules)]
\* The whole transaction: the database it leaves, and whether no key was broken.
XITransaction(db, upload, items) ==
  LET tls == XIApplyTls(db, upload, items)
      rows == XIApplyInbounds(db, upload, items, tls.ids)
      clients == XIApplyClients(db, upload, items, rows.row)
      routing == XIApplyRouting(db, upload, items)
  IN [ok |-> tls.ok,
      db |-> [tls |-> tls.tls, lastTls |-> tls.last,
              inbounds |-> rows.inbounds, lastInbound |-> rows.last, endpoints |-> rows.endpoints,
              clients |-> clients.clients, lastClient |-> clients.last,
              settings |-> XIApplySettings(db, upload, items), admins |-> XIApplyAdmins(db, upload, items),
              outbounds |-> routing.outbounds, rules |-> routing.rules]]
\* The one-shot import: one strategy for the inbounds, endpoints and clients
\* that exist; certificates are always reused, nothing else is taken.
XIOneShotItems(db, upload, strategy) ==
  [item \in {k \in XIItemKeys(upload) : k[1] \in {"inbound", "endpoint", "client"}} |->
     [action |-> XIDefaultAction(XIConflict(db, item), strategy), to |-> item[2]]]

-----------------------------------------------------------------------------
Importing == Applying \cup Shooting
VARIABLES xiDb,      \* the live database
          xiPlan,    \* the plan in the operator's hands
          xiPc,      \* per request: where it is, and what it applies
          xiLock,    \* who holds applyMu
          xiPlans, xiShots, xiSaves, xiFaults
xiVars == <<xiDb, xiPlan, xiPc, xiLock, xiPlans, xiShots, xiSaves, xiFaults>>

XINoPlan == [upload |-> "none", items |-> <<>>, reviewed |-> FALSE]
XIIdle == [at |-> "idle", upload |-> "none", strategy |-> "none", items |-> <<>>, backup |-> {}]
XIInit == /\ xiDb \in XILive /\ xiPlan = XINoPlan /\ xiPc = [i \in Importing |-> XIIdle]
          /\ xiLock = {} /\ xiPlans = 0 /\ xiShots = 0 /\ xiSaves = 0 /\ xiFaults = 0

\* Plan: from an upload and the database as it is now.
XIMakePlan(name, strategy) ==
  /\ xiPlan = XINoPlan /\ xiPlans < MaxXiPlans /\ xiPlans' = xiPlans + 1
  /\ xiPlan' = [upload |-> name, reviewed |-> FALSE,
                items |-> XIPlanOf(xiDb, XIUploads[name], strategy)]
  /\ UNCHANGED <<xiDb, xiPc, xiLock, xiShots, xiSaves, xiFaults>>
\* The operator changes one item: its action, or the name an inbound or a
\* client gets.
XIReview ==
  /\ xiPlan # XINoPlan /\ ~xiPlan.reviewed
  /\ \E item \in DOMAIN xiPlan.items :
       \/ \E action \in {"create", "merge", "replace", "skip"} \ {xiPlan.items[item].action} :
            xiPlan' = [xiPlan EXCEPT !.items[item].action = action, !.reviewed = TRUE]
       \/ /\ item[1] \in {"inbound", "client"}
          /\ xiPlan' = [xiPlan EXCEPT !.items[item].to = XINewName, !.reviewed = TRUE]
  /\ UNCHANGED <<xiDb, xiPc, xiLock, xiPlans, xiShots, xiSaves, xiFaults>>

\* Apply: the lock, the hash of the upload, then the backup inside the lock.
XIApply(i, name) ==
  /\ xiPc[i].at = "idle" /\ xiPlan # XINoPlan /\ xiLock = {}
  /\ IF name # xiPlan.upload THEN UNCHANGED <<xiPc, xiLock>>
     ELSE /\ xiLock' = {i}
          /\ xiPc' = [xiPc EXCEPT ![i] = [at |-> "running", upload |-> name, strategy |-> "none",
                                          items |-> xiPlan.items, backup |-> {xiDb}]]
  /\ xiPlan' = XINoPlan
  /\ UNCHANGED <<xiDb, xiPlans, xiShots, xiSaves, xiFaults>>
\* ImportXui: the backup first, then Import tries the lock.
XIOneShot(i) ==
  /\ xiPc[i].at = "idle" /\ xiShots < MaxXiShots /\ xiShots' = xiShots + 1
  /\ xiPc' = [xiPc EXCEPT ![i] = [XIIdle EXCEPT !.at = "backedup", !.backup = {xiDb}]]
  /\ UNCHANGED <<xiDb, xiPlan, xiLock, xiPlans, xiSaves, xiFaults>>
XIOneShotLock(i) ==
  /\ xiPc[i].at = "backedup"
  /\ IF xiLock # {} THEN xiPc' = [xiPc EXCEPT ![i] = XIIdle] /\ UNCHANGED xiLock
     ELSE /\ xiLock' = {i}
          /\ \E name \in DOMAIN XIUploads, strategy \in {"merge", "replace", "skip"} :
               xiPc' = [xiPc EXCEPT ![i].at = "running", ![i].upload = name, ![i].strategy = strategy]
  /\ UNCHANGED <<xiDb, xiPlan, xiPlans, xiShots, xiSaves, xiFaults>>
XIItems(i) == IF i \in Applying THEN xiPc[i].items
              ELSE XIOneShotItems(xiDb, XIUploads[xiPc[i].upload], xiPc[i].strategy)
XIResult(i) == XITransaction(xiDb, XIUploads[xiPc[i].upload], XIItems(i))
\* The transaction commits, whole; a broken key or a failing statement rolls
\* it back; a failing checkpoint reports an error over a commit.
XICommit(i) ==
  /\ xiPc[i].at = "running" /\ XIResult(i).ok
  /\ xiDb' = XIResult(i).db /\ xiLock' = {}
  /\ xiPc' = [xiPc EXCEPT ![i].at = "committed"]
  /\ UNCHANGED <<xiPlan, xiPlans, xiShots, xiSaves, xiFaults>>
XIFail(i) ==
  /\ xiPc[i].at = "running"
  /\ \/ ~XIResult(i).ok /\ UNCHANGED xiFaults
     \/ XIResult(i).ok /\ xiFaults < MaxXiFaults /\ xiFaults' = xiFaults + 1
  /\ xiLock' = {} /\ xiPc' = [xiPc EXCEPT ![i] = XIIdle]
  /\ UNCHANGED <<xiDb, xiPlan, xiPlans, xiShots, xiSaves>>
\* ImportXuiRollback with the backup the report named.
XIRollback(i) ==
  /\ xiPc[i].at = "committed" /\ \E db \in xiPc[i].backup : xiDb' = db
  /\ xiPc' = [xiPc EXCEPT ![i] = XIIdle]
  /\ UNCHANGED <<xiPlan, xiLock, xiPlans, xiShots, xiSaves, xiFaults>>
\* The panel saves: inbound B is added, or inbound A goes and with it its id
\* from every client.
XISave ==
  /\ xiSaves < MaxXiSaves /\ xiSaves' = xiSaves + 1
  /\ \/ /\ \A r \in xiDb.inbounds : r.tag # "B"
        /\ xiDb' = [xiDb EXCEPT !.inbounds = @ \cup {[id |-> xiDb.lastInbound + 1, tag |-> "B", tls |-> 0, from |-> "own"]},
                                !.lastInbound = @ + 1]
     \/ \E r \in xiDb.inbounds :
          /\ r.tag = "A"
          /\ xiDb' = [xiDb EXCEPT !.inbounds = @ \ {r},
                                  !.clients = {[c EXCEPT !.ids = @ \ {r.id}] : c \in @}]
  /\ UNCHANGED <<xiPlan, xiPc, xiLock, xiPlans, xiShots, xiFaults>>

XINext == \/ \E name \in DOMAIN XIUploads, strategy \in {"merge", "replace", "skip"} :
               XIMakePlan(name, strategy)
          \/ XIReview
          \/ \E i \in Applying, name \in DOMAIN XIUploads : XIApply(i, name)
          \/ \E i \in Shooting : XIOneShot(i) \/ XIOneShotLock(i)
          \/ \E i \in Importing : \/ XICommit(i) \/ XIFail(i) \/ XIRollback(i)
          \/ XISave
XISpec == XIInit /\ [][XINext]_xiVars

-----------------------------------------------------------------------------
XIActionOf(items, kind, to) == {items[k].action : k \in {j \in DOMAIN items : j[1] = kind /\ items[j].to = to}}

\* What the operator had and did not ask to replace stays: a client keeps its
\* secret and every inbound it had, an inbound its id (applyInbound, applyClient).
XIKept(db, items, new) ==
  /\ \A c \in db.clients : \E d \in new.clients :
       /\ d.id = c.id /\ d.name = c.name /\ d.secret = c.secret
       /\ "replace" \in XIActionOf(items, "client", c.name) \/ (c.ids \subseteq d.ids /\ d.from = c.from)
  /\ \A r \in db.inbounds : "replace" \in XIActionOf(items, "inbound", r.tag)
                              \/ \E q \in new.inbounds : q.id = r.id /\ q.tag = r.tag
  /\ \A o \in db.outbounds : o \in new.outbounds
\* What was taken arrives whole: each inbound is in one row, with its
\* certificate, unless that was skipped and is not there, and each client is on
\* every inbound of the source it was on.
XIArrived(upload, items, new) ==
  \A r \in {u \in XIUsable(upload) : XIItem(items, "inbound", u.tag).action # "skip"} :
    \E q \in new.inbounds :
      /\ \A p \in new.inbounds : p.tag = XIItem(items, "inbound", r.tag).to <=> p = q
      /\ r.key # XINoKey => \/ \E t \in new.tls : t.id = q.tls /\ t.key = r.key
                            \/ XIItem(items, "tls", r.key).action = "skip" /\ \A t \in new.tls : t.key # r.key
      /\ \A name \in r.clients :
           \/ XIItem(items, "client", name).action = "skip"
           \/ \E c \in new.clients : c.name = XIItem(items, "client", name).to /\ q.id \in c.ids
\* An import of everything, repeated with merge, changes nothing
\* (createNewOutbounds, mergeRoutingIntoConfig: "a re-import stays idempotent").
XIWhole(upload, items) ==
  \A k \in XIItemKeys(upload) :
    \/ k[1] = "setting" /\ k[2] \in XIHostSpecific
    \/ k[1] = "inbound" /\ \A r \in XIUsable(upload) : r.tag # k[2]
    \/ k \in DOMAIN items /\ items[k].action \in {"create", "merge"} /\ items[k].to = k[2]
XIRepeats(upload, items, new) ==
  XIWhole(upload, items) =>
    XITransaction(new, upload, XIPlanOf(new, upload, "merge")) = [ok |-> TRUE, db |-> new]

XICommits(i) == xiPc[i].at = "running" /\ xiPc'[i].at = "committed"
\* A 3x-ui import keeps, brings and repeats as described above.
XIImportIsFaithful ==
  [][\A i \in Importing : XICommits(i) =>
        LET upload == XIUploads[xiPc[i].upload]
        IN /\ XIKept(xiDb, XIItems(i), xiDb') /\ XIArrived(upload, XIItems(i), xiDb')
           /\ XIRepeats(upload, XIItems(i), xiDb')]_xiVars
=============================================================================

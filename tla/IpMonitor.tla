----------------------------- MODULE IpMonitor -----------------------------
(***************************************************************************)
(* The limit on a client's addresses (ipmonitor/ipmonitor.go), as the      *)
(* trackers of the core use it: a connection asks Allow, then Record notes *)
(* its address in memory; a flush moves what is pending to client_ips; a   *)
(* cache entry per client, loaded in the background, answers Allow.        *)
(*                                                                         *)
(* The pending map and the cache have a lock each, and no function holds   *)
(* both: Allow, Record and the flush take them one after the other, and    *)
(* each section is a step.  One client (the maps are keyed by client and   *)
(* nothing crosses the keys), one connection of an address at a time; an   *)
(* address stands for its salted hash.                                     *)
(***************************************************************************)
EXTENDS Naturals, FiniteSets, TLC

CONSTANTS
    Addresses,
    Limit,          \* limit_ip of the client, in mode "enforce"
    MaxIPFaults,    \* bound on transactions that fail
    MaxIPClears     \* bound on calls of Clear and of the retention job

ASSUME IpMonitorAssumption ==
    /\ IsFiniteSet(Addresses)
    /\ {Limit, MaxIPFaults, MaxIPClears} \subseteq Nat

VARIABLES
    imEnabled,      \* clients.enable
    imRows,         \* client_ips
    imCount,        \* clients.last_ip_count
    imPending,      \* pending.byClient
    imEntry,        \* allowCache.byClient has an entry not past its 30 s
    imKnown,        \* the addresses of the entry
    imRefresh,      \* refreshClientAsync: idle, begun, loaded an entry or none
    imLoaded,       \* the addresses it has loaded
    imFlush,        \* the addresses a flush has taken, those of them it has yet
                    \* to add to the cache, and whether one runs
    imConn,         \* a connection of the address: none, Allow found no entry,
                    \* has copied one, has let it through; Record has noted it
    imClone,        \* the addresses of the entry that Allow has copied
    imClearing,     \* Clear: its next statement
    imPruning,      \* the retention job has yet to call InvalidateAllCache
    imLate,         \* an address that the load has not read was cached before
                    \* its entry is published
    imOverlapped,   \* the same of the load that gave the entry
    imSlipped,      \* addresses whose Allow holds a copy that lacks some, or
                    \* during which a flush took the pending ones
    imSeen,         \* every address recorded and neither lost nor deleted since
    imFaults, imClears

imLoad  == <<imRefresh, imLoaded, imLate>>
imCache == <<imEntry, imKnown, imOverlapped, imLoad>>
imAsk   == <<imConn, imClone, imSlipped>>
imTable == <<imEnabled, imRows, imCount>>
imDelete == <<imClearing, imPruning, imClears>>
imVars  == <<imTable, imPending, imCache, imFlush, imAsk, imDelete,
             imSeen, imFaults>>

IMTypeOK ==
    /\ {imEnabled, imEntry, imPruning, imLate, imOverlapped} \subseteq BOOLEAN
    /\ {imRows, imPending, imKnown, imLoaded, imSlipped, imSeen} \subseteq SUBSET Addresses
    /\ imCount \in 0..Cardinality(Addresses)
    /\ imRefresh \in {"idle", "begun", "entry", "nothing"}
    /\ imFlush \in [busy : BOOLEAN, ips : SUBSET Addresses, left : SUBSET Addresses]
    /\ imConn \in [Addresses -> {"none", "missed", "copied", "let", "noted"}]
    /\ imClone \in [Addresses -> SUBSET Addresses]
    /\ imClearing \in {"no", "cache", "count"}

IMNoFlush == [busy |-> FALSE, ips |-> {}, left |-> {}]

IMInit ==
    /\ imEnabled = TRUE /\ imRows = {} /\ imCount = 0 /\ imPending = {}
    /\ imEntry = FALSE /\ imKnown = {} /\ imRefresh = "idle" /\ imLoaded = {}
    /\ imFlush = IMNoFlush
    /\ imConn = [a \in Addresses |-> "none"] /\ imClone = [a \in Addresses |-> {}]
    /\ imSlipped = {} /\ imClearing = "no" /\ imPruning = FALSE
    /\ imLate = FALSE /\ imOverlapped = FALSE
    /\ imSeen = {} /\ imFaults = 0 /\ imClears = 0

----------------------------------------------------------------------------

\* cacheAddIP: the addresses of the entry when one is added to it.
IMAdded(a) == IF imEntry THEN imKnown \cup {a} ELSE imKnown

\* Record, at the end of the routed connection that Allow let through: the
\* pending map first,
IMRecord(a) ==
    /\ imConn[a] = "let" /\ imConn' = [imConn EXCEPT ![a] = "noted"]
    /\ imPending' = imPending \cup {a}
    /\ imSeen' = imSeen \cup {a}
    /\ UNCHANGED <<imTable, imCache, imFlush, imClone, imSlipped, imDelete,
                   imFaults>>

\* then the cache.
IMRecordCached(a) ==
    /\ imConn[a] = "noted" /\ imConn' = [imConn EXCEPT ![a] = "none"]
    /\ imKnown' = IMAdded(a)
    /\ UNCHANGED <<imTable, imPending, imEntry, imOverlapped, imLoad, imFlush, imClone,
                   imSlipped, imDelete, imSeen, imFaults>>

\* Allow without a usable entry lets the connection through, after
IMAllowOpen(a) ==
    /\ ~imEntry /\ imConn[a] = "none"
    /\ imConn' = [imConn EXCEPT ![a] = "missed"]
    /\ UNCHANGED <<imTable, imPending, imCache, imFlush, imClone, imSlipped, imDelete,
                   imSeen, imFaults>>

\* refreshClientAsync, which loads one unless a load is already in flight.
IMRefreshAsync(a) ==
    /\ imConn[a] = "missed" /\ imConn' = [imConn EXCEPT ![a] = "let"]
    /\ imRefresh' = IF imRefresh = "idle" THEN "begun" ELSE imRefresh
    /\ UNCHANGED <<imTable, imPending, imEntry, imKnown, imOverlapped, imLoaded, imLate,
                   imFlush, imClone, imSlipped, imDelete, imSeen, imFaults>>

\* Allow with a usable entry copies it (cloneCacheEntry) under the cache's lock,
IMAllowCopy(a) ==
    /\ imEntry /\ imConn[a] = "none"
    /\ imConn' = [imConn EXCEPT ![a] = "copied"]
    /\ imClone' = [imClone EXCEPT ![a] = imKnown]
    /\ imSlipped' = IF imOverlapped \/ imFlush.left # {} THEN imSlipped \cup {a} ELSE imSlipped
    /\ UNCHANGED <<imTable, imPending, imCache, imFlush, imDelete, imSeen, imFaults>>

\* and counts it with what is pending at the moment it has the other lock.
IMCounted(a) == {a} \cup imClone[a] \cup imPending

IMAllowDone(a, to) ==
    /\ imConn[a] = "copied" /\ imConn' = [imConn EXCEPT ![a] = to]
    /\ imClone' = [imClone EXCEPT ![a] = {}] /\ imSlipped' = imSlipped \ {a}
    /\ UNCHANGED <<imTable, imPending, imCache, imFlush, imDelete, imSeen, imFaults>>

IMAllowLimited(a) ==
    /\ Limit = 0 \/ Cardinality(IMCounted(a)) <= Limit
    /\ IMAllowDone(a, "let")

\* The connection is closed.  (The event of the rejection is left out.)
IMReject(a) ==
    /\ Limit > 0 /\ Cardinality(IMCounted(a)) > Limit
    /\ IMAllowDone(a, "none")

\* loadCacheEntry: no entry for a client that is disabled or cannot be read.
\* Rows that the flush has not committed are not in what it reads.
IMLoad ==
    /\ imRefresh = "begun"
    /\ \/ imEnabled /\ imRefresh' = "entry" /\ imLoaded' = imRows
          /\ imLate' = (imFlush.ips # imFlush.left) /\ UNCHANGED imFaults
       \/ ~imEnabled /\ imRefresh' = "nothing" /\ UNCHANGED <<imLoaded, imLate, imFaults>>
       \/ /\ imFaults < MaxIPFaults /\ imFaults' = imFaults + 1
          /\ imRefresh' = "nothing" /\ UNCHANGED <<imLoaded, imLate>>
    /\ UNCHANGED <<imTable, imPending, imEntry, imKnown, imOverlapped, imFlush, imAsk,
                   imDelete, imSeen>>

\* refreshClient publishes what it has loaded, however old that is by now.
IMPublish ==
    /\ imRefresh \in {"entry", "nothing"}
    /\ imEntry' = (imRefresh = "entry")
    /\ imKnown' = IF imRefresh = "entry" THEN imLoaded ELSE {}
    /\ imOverlapped' = imLate
    /\ imRefresh' = "idle" /\ imLoaded' = {} /\ imLate' = FALSE
    /\ UNCHANGED <<imTable, imPending, imFlush, imAsk, imDelete, imSeen, imFaults>>

\* The entry is gone.
IMDropEntry ==
    /\ imEntry' = FALSE /\ imKnown' = {} /\ imOverlapped' = FALSE
    /\ UNCHANGED <<imPending, imLoad, imFlush, imAsk, imSeen, imFaults>>

\* An entry past its time is none: cachedClient deletes it, cacheAddIP skips it.
IMExpire ==
    /\ imEntry
    /\ IMDropEntry /\ UNCHANGED <<imTable, imDelete>>

\* Flush and FlushTo: the swap of the map, under its lock.
IMTake ==
    /\ ~imFlush.busy /\ imPending # {}
    /\ imFlush' = [busy |-> TRUE, ips |-> imPending, left |-> imPending]
    /\ imPending' = {}
    /\ imSlipped' = {a \in Addresses : imConn[a] = "copied"}
    /\ UNCHANGED <<imTable, imCache, imConn, imClone, imDelete, imSeen, imFaults>>

\* Variant: the flush leaves the cache alone, Record having told it already.
IMFlushUncached(a) ==
    /\ a \in imFlush.left
    /\ imFlush' = [imFlush EXCEPT !.left = @ \ {a}]
    /\ imLate' = (imLate \/ imRefresh = "entry")
    /\ UNCHANGED <<imTable, imPending, imEntry, imKnown, imOverlapped, imRefresh, imLoaded,
                   imAsk, imDelete, imSeen, imFaults>>

\* flushSnapshot, in a transaction that has begun in between, gathers the rows
\* and adds one address after the other to the cache.
IMFlushCached(a) ==
    /\ a \in imFlush.left
    /\ imFlush' = [imFlush EXCEPT !.left = @ \ {a}]
    /\ imKnown' = IMAdded(a)
    /\ imLate' = (imLate \/ imRefresh = "entry")
    /\ UNCHANGED <<imTable, imPending, imEntry, imOverlapped, imRefresh, imLoaded,
                   imAsk, imDelete, imSeen, imFaults>>

\* It commits the upsert and the counter together.
IMWrite ==
    /\ imFlush.busy /\ imFlush.left = {}
    /\ imRows' = imRows \cup imFlush.ips
    /\ imCount' = Cardinality(imRows')
    /\ imFlush' = IMNoFlush
    /\ UNCHANGED <<imEnabled, imPending, imCache, imAsk, imDelete, imSeen, imFaults>>

\* A transaction that fails loses the snapshot: nothing puts it back.
IMWriteFails ==
    /\ imFlush.busy /\ imFlush.left = {} /\ imFaults < MaxIPFaults
    /\ imFaults' = imFaults + 1
    /\ imSeen' = imSeen \ (imFlush.ips \ (imRows \cup imPending))
    /\ imFlush' = IMNoFlush
    /\ UNCHANGED <<imTable, imPending, imCache, imAsk, imDelete>>

\* Clear: three statements that nothing holds together.
IMClear ==
    /\ imClearing = "no" /\ imClears < MaxIPClears
    /\ imClears' = imClears + 1
    /\ imRows' = {} /\ imClearing' = "cache"
    /\ imSeen' = imPending \cup imFlush.ips
    /\ UNCHANGED <<imEnabled, imCount, imPending, imCache, imFlush, imAsk, imPruning, imFaults>>

IMClearCache ==
    /\ imClearing = "cache" /\ imClearing' = "count"
    /\ IMDropEntry /\ UNCHANGED <<imTable, imPruning, imClears>>

IMClearCount ==
    /\ imClearing = "count" /\ imClearing' = "no" /\ imCount' = 0
    /\ UNCHANGED <<imEnabled, imRows, imPending, imCache, imFlush, imAsk, imPruning,
                   imClears, imSeen, imFaults>>

\* pruneClientIPs deletes what was last seen long ago, then the whole cache.
IMPrune ==
    /\ ~imPruning /\ imPruning' = TRUE
    /\ imClears < MaxIPClears /\ imClears' = imClears + 1
    /\ \E old \in SUBSET imRows :
         /\ imRows' = imRows \ old
         /\ imSeen' = imSeen \ (old \ (imPending \cup imFlush.ips))
    /\ UNCHANGED <<imEnabled, imCount, imPending, imCache, imFlush, imAsk, imClearing, imFaults>>

IMPruneCache ==
    /\ imPruning /\ imPruning' = FALSE
    /\ IMDropEntry /\ UNCHANGED <<imTable, imClearing, imClears>>

\* A save of the clients changes the policy and calls InvalidateAllCache.
IMToggle ==
    /\ imEnabled' = ~imEnabled
    /\ IMDropEntry /\ UNCHANGED <<imRows, imCount, imDelete>>

\* WarmUp, while the program starts: no connection and no job runs yet.
IMWarmUp ==
    /\ ~imEntry /\ imPending = {} /\ imEnabled /\ Limit > 0
    /\ \A a \in Addresses : imConn[a] = "none"
    /\ ~imFlush.busy /\ imRefresh = "idle" /\ imClearing = "no" /\ ~imPruning
    /\ imEntry' = TRUE /\ imKnown' = imRows /\ imOverlapped' = FALSE
    /\ UNCHANGED <<imTable, imPending, imLoad, imFlush, imAsk, imDelete,
                   imSeen, imFaults>>

IMNext ==
    \/ \E a \in Addresses :
         \/ IMAllowOpen(a) \/ IMRefreshAsync(a)
         \/ IMAllowCopy(a) \/ IMAllowLimited(a) \/ IMReject(a)
         \/ IMRecord(a) \/ IMRecordCached(a) \/ IMFlushCached(a)
    \/ IMLoad \/ IMPublish \/ IMExpire
    \/ IMTake \/ IMWrite \/ IMWriteFails
    \/ IMClear \/ IMClearCache \/ IMClearCount \/ IMPrune \/ IMPruneCache
    \/ IMToggle \/ IMWarmUp

IMSpec == IMInit /\ [][IMNext]_imVars

\* Nothing tells one address from another.
IMSymmetry == Permutations(Addresses)

----------------------------------------------------------------------------

\* An address that was recorded stays known: it is pending, in the hands of a
\* flush, or in the table, until Clear or the retention deletes it or a failed
\* write loses it.  The swap of the pending map and the insertion are two steps,
\* and Record runs between them.
IMNothingForgotten == imSeen \subseteq imPending \cup imFlush.ips \cup imRows

\* A usable entry and the pending map have every known address between them,
\* but those a flush holds between the swap and its calls of cacheAddIP.  Only an
\* entry has less whose load read the table before a flush committed what it had
\* told the cache; that one lets more addresses in until its 30 seconds are over.
IMEntryCounts ==
    imEntry /\ ~imOverlapped =>
        imSeen \subseteq imKnown \cup imPending \cup imFlush.left

\* What Allow compares with the limit is every known address, unless a flush took
\* the pending ones between its two reads or was about to tell the cache then.
IMAllowCounts ==
    \A a \in Addresses : imConn[a] = "copied" /\ a \notin imSlipped =>
        imSeen \subseteq IMCounted(a)

IMAddressesKept == IMTypeOK /\ IMNothingForgotten /\ IMEntryCounts /\ IMAllowCounts
=============================================================================

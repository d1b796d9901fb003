------------------------------ MODULE PaidOrders ------------------------------
(***************************************************************************)
(* Orders of the paid-subscription bot for one client and one traffic      *)
(* tariff (paidsub/payment.go, poll.go, bot.go): creation, the Telegram    *)
(* confirmation, the CryptoBot poll with its expiry passes, and the two    *)
(* refund paths, on top of the client's volume and usage counters.         *)
(*                                                                         *)
(* Transactions are single steps, because SQLite has one writer; every     *)
(* call to a provider lies between two steps.  An order of a native        *)
(* Telegram provider is a "stars" order with the refund of a "crypto" one. *)
(* Ages stand for the clock: an order is "fresh", past its TTL ("late") or *)
(* past the grace window of polled orders ("stale").                       *)
(***************************************************************************)
EXTENDS Naturals, Sequences, FiniteSets

CONSTANTS
    MaxOrders,      \* orders are 1..MaxOrders, in the order of their creation
    Refunders,      \* goroutines that refund: the bot loop, API requests
    Bot,            \* the bot loop; it refunds Stars only
    Volume0,        \* volume of the client before its first order
    Traffics,       \* add_traffic_bytes a tariff may have
    NoTariff,       \* the tariff is deleted
    MaxUse,         \* bound on the traffic of the client
    MaxEdits,       \* bound on the changes of the tariff
    MaxErrors       \* bound on errors of the database and of the providers

Orders == 1..MaxOrders
Kinds  == {"stars", "crypto"}

ASSUME PaidAssumption ==
    /\ MaxOrders \in Nat \ {0}
    /\ {Volume0, MaxUse, MaxEdits, MaxErrors} \subseteq Nat
    /\ Bot \in Refunders
    /\ Traffics \subseteq Nat \ {0} /\ NoTariff \notin Traffics

VARIABLES
    kind, status, age,
    ref,        \* crypto: the invoice id was stored with the order
    money,      \* "none", "approved" (pre-checkout), "taken", "returned"
    notice,     \* the successful_payment update is below the stored offset
    granted,    \* GrantedUp: usage counter the order's renewal reset
    kept,       \* refunded without revoking the grant
    applied,    \* the orders in the order of their renewals
    volume, up, total,      \* the client's volume, up and total_up
    tariff,     \* add_traffic_bytes now, or NoTariff
    pollPc, batch,          \* PollOnce: where it is, orders it works on
    refPc, refOrder, revoke,    \* a refund: where it is, its arguments
    edits, errors

order  == <<kind, status, age, ref, money, notice, granted, kept, applied>>
client == <<volume, up, total>>
poll   == <<pollPc, batch>>
refund == <<refPc, refOrder, revoke>>
vars   == <<order, client, tariff, poll, refund, edits, errors>>

TypeOK ==
    /\ kind \in [Orders -> Kinds]
    /\ status \in [Orders -> {"none", "pending", "paid", "expired", "refunded"}]
    /\ age \in [Orders -> {"fresh", "late", "stale"}]
    /\ ref \in [Orders -> BOOLEAN] /\ notice \in [Orders -> BOOLEAN]
    /\ money \in [Orders -> {"none", "approved", "taken", "returned"}]
    /\ granted \in [Orders -> Nat]
    /\ kept \subseteq Orders /\ batch \subseteq Orders
    /\ applied \in Seq(Orders)
    /\ volume \in Nat /\ up \in Nat /\ total \in Nat
    /\ tariff \in Traffics \cup {NoTariff}
    /\ pollPc \in {"idle", "loaded", "apply"}
    /\ refPc \in [Refunders -> {"idle", "money", "finalize"}]
    /\ refOrder \in [Refunders -> Orders] /\ revoke \in [Refunders -> BOOLEAN]

Init ==
    /\ kind = [o \in Orders |-> "stars"]
    /\ status = [o \in Orders |-> "none"]
    /\ age = [o \in Orders |-> "fresh"]
    /\ ref = [o \in Orders |-> FALSE] /\ notice = [o \in Orders |-> FALSE]
    /\ money = [o \in Orders |-> "none"]
    /\ granted = [o \in Orders |-> 0]
    /\ kept = {} /\ batch = {} /\ applied = <<>>
    /\ volume = Volume0 /\ up = 0 /\ total = 0
    /\ tariff \in Traffics
    /\ pollPc = "idle"
    /\ refPc = [r \in Refunders |-> "idle"]
    /\ refOrder = [r \in Refunders |-> 1]
    /\ revoke = [r \in Refunders |-> FALSE]
    /\ edits = 0 /\ errors = 0

Pending(o) == status[o] = "pending"

\* Past the TTL, or past the grace window of a polled order.
TooLate(o) == age[o] = IF kind[o] = "crypto" THEN "stale" ELSE "late"

Error      == errors < MaxErrors /\ errors' = errors + 1

----------------------------------------------------------------------------

\* CreateOrder; storing the invoice id is best effort.  (An order whose invoice
\* fails stays pending and cannot be paid, like one the user ignores.)
CreateOrder(o, k) ==
    /\ status[o] = "none" /\ \A p \in 1..(o - 1) : status[p] # "none"
    /\ tariff # NoTariff
    /\ status' = [status EXCEPT ![o] = "pending"]
    /\ kind' = [kind EXCEPT ![o] = k]
    /\ \/ ref' = [ref EXCEPT ![o] = (k = "crypto")] /\ UNCHANGED errors
       \/ k = "crypto" /\ Error /\ UNCHANGED ref
    /\ UNCHANGED <<age, money, notice, granted, kept, applied, client, tariff,
                   poll, refund, edits>>

\* Time passes for a pending order; only polled orders have a grace window.
Age(o) ==
    /\ Pending(o)
    /\ \/ age[o] = "fresh" /\ age' = [age EXCEPT ![o] = "late"]
       \/ age[o] = "late" /\ kind[o] = "crypto" /\ age' = [age EXCEPT ![o] = "stale"]
    /\ UNCHANGED <<kind, status, ref, money, notice, granted, kept, applied,
                   client, tariff, poll, refund, edits, errors>>

\* handlePreCheckout looks at the status, not at the TTL.
PreCheckout(o) ==
    /\ kind[o] = "stars" /\ Pending(o) /\ money[o] = "none"
    /\ money' = [money EXCEPT ![o] = "approved"]
    /\ UNCHANGED <<kind, status, age, ref, notice, granted, kept, applied, client,
                   tariff, poll, refund, edits, errors>>

\* The provider takes the money; Telegram queues an update for it.
Pay(o) ==
    /\ status[o] # "none"
    /\ money[o] = IF kind[o] = "stars" THEN "approved" ELSE "none"
    /\ money' = [money EXCEPT ![o] = "taken"]
    /\ notice' = [notice EXCEPT ![o] = (kind[o] = "stars")]
    /\ UNCHANGED <<kind, status, age, ref, granted, kept, applied, client, tariff,
                   poll, refund, edits, errors>>

\* Variant: the renewal does not look at the status.
ApplyUnguarded(o) ==
    IF tariff # NoTariff
    THEN /\ status' = [status EXCEPT ![o] = "paid"]
         /\ volume' = volume + tariff
         /\ total' = total + up
         /\ up' = 0
         /\ granted' = [granted EXCEPT ![o] = up]
         /\ applied' = Append(applied, o)
    ELSE UNCHANGED <<status, client, granted, applied>>

\* ApplyPaidOrder: the update guarded by the pending status, then the renewal;
\* a deleted tariff rolls the whole transaction back.
ApplyPaidOrder(o) ==
    IF Pending(o) /\ tariff # NoTariff
    THEN /\ status' = [status EXCEPT ![o] = "paid"]
         /\ volume' = volume + tariff
         /\ total' = total + up
         /\ up' = 0
         /\ granted' = [granted EXCEPT ![o] = up]
         /\ applied' = Append(applied, o)
    ELSE UNCHANGED <<status, client, granted, applied>>

\* handleSuccessfulPayment.  An update is handled again when the process stops,
\* or the offset cannot be stored, before the end of its batch; an error of the
\* handler is not a reason to handle it again.
HandlePayment(o) ==
    /\ notice[o]
    /\ \/ ApplyPaidOrder(o)
          /\ notice' = [notice EXCEPT ![o] = FALSE] /\ UNCHANGED errors
       \/ ApplyPaidOrder(o) /\ Error /\ UNCHANGED notice
       \/ /\ Error
          /\ notice' = [notice EXCEPT ![o] = FALSE]
          /\ UNCHANGED <<status, client, granted, applied>>
    /\ UNCHANGED <<kind, age, ref, money, kept, tariff, poll, refund, edits>>

----------------------------------------------------------------------------

\* pollCryptoBot loads the pending orders it has an invoice id for.
PollLoad ==
    /\ pollPc = "idle"
    /\ pollPc' = "loaded"
    /\ batch' = {o \in Orders : kind[o] = "crypto" /\ Pending(o) /\ ref[o]}
    /\ UNCHANGED <<order, client, tariff, refund, edits, errors>>

\* getInvoices answers which of them are paid; when it fails the expiry passes
\* run all the same.
PollAnswer ==
    /\ pollPc = "loaded"
    /\ pollPc' = "apply"
    /\ \/ batch' = {o \in batch : money[o] = "taken"} /\ UNCHANGED errors
       \/ batch' = {} /\ Error
    /\ UNCHANGED <<order, client, tariff, refund, edits>>

PollApply(o) ==
    /\ pollPc = "apply" /\ o \in batch
    /\ batch' = batch \ {o}
    /\ \/ ApplyPaidOrder(o) /\ UNCHANGED errors
       \/ Error /\ UNCHANGED <<status, client, granted, applied>>
    /\ UNCHANGED <<kind, age, ref, money, notice, kept, tariff, pollPc, refund,
                   edits>>

\* Variant: polled orders expire at the TTL as well.
ExpireAllLate ==
    /\ pollPc = "apply" /\ batch = {}
    /\ status' = [o \in Orders |->
                    IF Pending(o) /\ age[o] # "fresh" THEN "expired" ELSE status[o]]
    /\ pollPc' = "idle"
    /\ UNCHANGED <<kind, age, ref, money, notice, granted, kept, applied, client,
                   tariff, batch, refund, edits, errors>>

\* ExpireStaleOrders and ExpireStalePolledOrders: two updates of disjoint sets.
ExpireStaleOrders ==
    /\ pollPc = "apply" /\ batch = {}
    /\ status' = [o \in Orders |->
                    IF Pending(o) /\ TooLate(o) THEN "expired" ELSE status[o]]
    /\ pollPc' = "idle"
    /\ UNCHANGED <<kind, age, ref, money, notice, granted, kept, applied, client,
                   tariff, batch, refund, edits, errors>>

----------------------------------------------------------------------------

\* Variant: the order is claimed before its money is returned.
ClaimFirst(r, o, rev) ==
    /\ refPc[r] = "idle" /\ status[o] = "paid"
    /\ r = Bot => kind[o] = "stars"
    /\ refPc' = [refPc EXCEPT ![r] = "finalize"]
    /\ refOrder' = [refOrder EXCEPT ![r] = o]
    /\ revoke' = [revoke EXCEPT ![r] = rev]
    /\ UNCHANGED <<order, client, tariff, poll, edits, errors>>

\* RefundOrder and handleRefundRequest up to the call of the provider.  Money of
\* other providers than Stars is returned by hand.
RequestRefund(r, o, rev) ==
    /\ refPc[r] = "idle" /\ status[o] = "paid"
    /\ r = Bot => kind[o] = "stars"
    /\ refPc' = [refPc EXCEPT ![r] = IF kind[o] = "stars" THEN "money" ELSE "finalize"]
    /\ refOrder' = [refOrder EXCEPT ![r] = o]
    /\ revoke' = [revoke EXCEPT ![r] = rev]
    /\ UNCHANGED <<order, client, tariff, poll, edits, errors>>

\* A refund returns; its arguments are forgotten.
Done(r) ==
    /\ refPc' = [refPc EXCEPT ![r] = "idle"]
    /\ refOrder' = [refOrder EXCEPT ![r] = 1]
    /\ revoke' = [revoke EXCEPT ![r] = FALSE]

\* refundStarPayment; "already refunded" is a success.
ReturnMoney(r) ==
    /\ refPc[r] = "money"
    /\ \/ /\ money' = [money EXCEPT ![refOrder[r]] = "returned"]
          /\ refPc' = [refPc EXCEPT ![r] = "finalize"]
          /\ UNCHANGED errors
          /\ UNCHANGED <<refOrder, revoke>>
       \/ Done(r) /\ Error /\ UNCHANGED money
    /\ UNCHANGED <<kind, status, age, ref, notice, granted, kept, applied, client,
                   tariff, poll, edits>>

\* Another traffic order with a higher id is paid.
Newer(o) == \E p \in Orders : p > o /\ status[p] = "paid"

Minus(m, n) == IF m < n THEN 0 ELSE m - n

\* The roll-back of a grant, from the tariff as it is now.
Revoke(o) ==
    /\ volume' = Minus(volume, tariff)
    /\ total' = Minus(total, granted[o])
    /\ up' = IF Newer(o) THEN up ELSE granted[o]

\* finalizeRefund: a no-op unless the order is still paid; a revoke of a deleted
\* tariff, or an error of the database, leaves it paid.
FinalizeRefund(r) ==
    LET o == refOrder[r] IN
    /\ refPc[r] = "finalize"
    /\ Done(r)
    /\ \/ /\ IF status[o] = "paid" /\ ~(revoke[r] /\ tariff = NoTariff)
             THEN /\ status' = [status EXCEPT ![o] = "refunded"]
                  /\ IF revoke[r]
                     THEN Revoke(o) /\ UNCHANGED kept
                     ELSE kept' = kept \cup {o} /\ UNCHANGED client
             ELSE UNCHANGED <<status, kept, client>>
          /\ UNCHANGED errors
       \/ Error /\ UNCHANGED <<status, kept, client>>
    /\ UNCHANGED <<kind, age, ref, money, notice, granted, applied, tariff, poll,
                   edits>>

----------------------------------------------------------------------------

\* SaveStats adds the client's traffic.
SaveStats ==
    /\ up + total < MaxUse
    /\ up' = up + 1
    /\ UNCHANGED <<order, volume, total, tariff, poll, refund, edits, errors>>

\* TariffService.Save.
SaveTariff(t) ==
    /\ edits < MaxEdits /\ edits' = edits + 1
    /\ tariff # NoTariff /\ t # tariff
    /\ tariff' = t
    /\ UNCHANGED <<order, client, poll, refund, errors>>

PollStep ==
    \/ PollLoad \/ PollAnswer \/ ExpireStaleOrders
    \/ \E o \in Orders : PollApply(o)

RefundStep(r) == ReturnMoney(r) \/ FinalizeRefund(r)

Next ==
    \/ \E o \in Orders, k \in Kinds : CreateOrder(o, k)
    \/ \E o \in Orders : Age(o) \/ PreCheckout(o) \/ Pay(o) \/ HandlePayment(o)
    \/ PollStep
    \/ \E r \in Refunders, o \in Orders, rev \in BOOLEAN : RequestRefund(r, o, rev)
    \/ \E r \in Refunders : RefundStep(r)
    \/ SaveStats
    \/ \E t \in Traffics \cup {NoTariff} : SaveTariff(t)

Spec == Init /\ [][Next]_vars

\* The poll job ticks and the bot loop handles its updates; nothing is assumed
\* of users, admins and time.
FairSpec ==
    Spec /\ WF_vars(PollStep) /\ \A o \in Orders : WF_vars(HandlePayment(o))

----------------------------------------------------------------------------

\* Orders whose grant the client still has.
Granting == {o \in Orders : status[o] = "paid"} \cup kept

\* The volume is what it was plus one grant per order that is paid, or refunded
\* without revoking: redelivered updates, polls and concurrent refunds neither
\* grant nor revoke twice.  (A tariff edited between the two is not undone.)
VolumeMatchesOrders ==
    edits = 0 => volume = Volume0 + tariff * Cardinality(Granting)

\* The counter that the renewal of an order in force has reset.
InForce(o) == IF o \in Granting THEN granted[o] ELSE 0

\* total_up holds exactly the counters that the orders in force have reset, one
\* added to the other: refunds in any order take out what their own renewal put in.
TotalMatchesOrders ==
    \E sum \in [0..MaxOrders -> 0..total] :
        /\ sum[0] = 0 /\ sum[MaxOrders] = total
        /\ \A o \in Orders : sum[o] = sum[o - 1] + InForce(o)

\* The client's volume and counters are those of the orders in force.
BooksMatchOrders == TypeOK /\ VolumeMatchesOrders /\ TotalMatchesOrders

\* Nothing is granted that was not paid, and a Stars order is only refunded
\* after its money was returned, so that a failed call can be repeated.
MoneyComesFirst ==
    \A o \in Orders :
        /\ status[o] \in {"paid", "refunded"} => money[o] \in {"taken", "returned"}
        /\ status[o] = "refunded" /\ kind[o] = "stars" => money[o] = "returned"

\* As long as nothing fails, money that was taken is granted, or is going to be
\* by an update still to be handled or an invoice still polled, unless the order
\* was past its time: a CryptoBot payment outlives the TTL by the grace window,
\* whatever the poll and the expiry passes do around it.
PaymentIsNotDropped ==
    errors = 0 /\ edits = 0 =>
        \A o \in Orders : money[o] = "taken" =>
            \/ status[o] \in {"paid", "refunded"}
            \/ Pending(o) /\ IF kind[o] = "crypto" THEN ref[o] ELSE notice[o]
            \/ status[o] = "expired" /\ TooLate(o)

\* What the comment in finalizeRefund says: only the refund of the most recent
\* paid order touches the live counter, which otherwise belongs to the window a
\* newer purchase opened.
OlderRefundKeepsWindow ==
    [][\A i, j \in 1..Len(applied) :
            i < j /\ status[applied[j]] = "paid"
                  /\ status[applied[i]] = "paid" /\ status'[applied[i]] = "refunded"
              => up' = up]_vars

=============================================================================

--------------------------- MODULE PaidOrdersProofs ---------------------------
(***************************************************************************)
(* Theorems about PaidOrders, for any number of orders and refunders, any  *)
(* tariffs and any number of errors.                                       *)
(*                                                                         *)
(* MoneyComesFirst is not inductive: a grant comes from an update or from  *)
(* an answer of the provider, both older than the grant, and a refund      *)
(* finishes what a call to the provider has begun.  Backed says what these *)
(* pieces of knowledge are still worth when they are used.                 *)
(***************************************************************************)
EXTENDS PaidOrders, FiniteSetTheorems, TLAPS

Settled == {"taken", "returned"}

\* An update and an answer are only about money that has been taken; a refund
\* at work is about an order that was paid, and has returned the Stars.
Backed ==
    /\ \A o \in Orders : notice[o] => money[o] \in Settled
    /\ pollPc = "apply" => \A o \in batch : money[o] \in Settled
    /\ \A r \in Refunders : refPc[r] # "idle" =>
           /\ status[refOrder[r]] \in {"paid", "refunded"}
           /\ refPc[r] = "finalize" /\ kind[refOrder[r]] = "stars"
                  => money[refOrder[r]] = "returned"

MoneyInv == MoneyComesFirst /\ Backed

Inv == TypeOK /\ MoneyInv

\* What the applying of a payment does to the types: both of its callers.
LEMMA ApplyTypes ==
    ASSUME TypeOK, NEW o \in Orders, ApplyPaidOrder(o)
    PROVE  /\ status' \in [Orders -> {"none", "pending", "paid", "expired", "refunded"}]
           /\ volume' \in Nat /\ up' \in Nat /\ total' \in Nat
           /\ granted' \in [Orders -> Nat] /\ applied' \in Seq(Orders)
<1>1. CASE Pending(o) /\ tariff # NoTariff
  <2>1. tariff \in Nat
    BY <1>1, PaidAssumption DEF TypeOK
  <2>2. volume' \in Nat /\ up' \in Nat /\ total' \in Nat
    BY <1>1, <2>1 DEF ApplyPaidOrder, TypeOK
  <2>3. status' \in [Orders -> {"none", "pending", "paid", "expired", "refunded"}]
    BY <1>1 DEF ApplyPaidOrder, TypeOK
  <2>4. granted' \in [Orders -> Nat]
    BY <1>1 DEF ApplyPaidOrder, TypeOK
  <2>5. applied' \in Seq(Orders)
    <3>1. applied' = Append(applied, o)
      BY <1>1 DEF ApplyPaidOrder
    <3>2. applied \in Seq(Orders)
      BY DEF TypeOK
    <3> QED BY <3>1, <3>2
  <2> QED BY <2>2, <2>3, <2>4, <2>5
<1>2. CASE ~(Pending(o) /\ tariff # NoTariff)
  BY <1>2 DEF ApplyPaidOrder, TypeOK, client
<1> QED BY <1>1, <1>2

\* The first order is there to name, nothing else is: the initial state.
LEMMA InitInv == Init => Inv
<1> SUFFICES ASSUME Init PROVE Inv
  OBVIOUS
<1>1. 1 \in Orders
  BY PaidAssumption DEF Orders
<1>2. TypeOK
  BY <1>1, PaidAssumption DEF Init, TypeOK, Kinds
<1>3. MoneyComesFirst /\ Backed
  BY DEF Init, MoneyComesFirst, Backed
<1> QED BY <1>2, <1>3 DEF Inv, MoneyInv

\* A roll-back leaves natural numbers.
LEMMA RevokeTypes ==
    ASSUME TypeOK, NEW o \in Orders, Revoke(o), tariff # NoTariff
    PROVE  volume' \in Nat /\ up' \in Nat /\ total' \in Nat
<1>1. tariff \in Nat
  BY PaidAssumption DEF TypeOK
<1>2. granted[o] \in Nat /\ volume \in Nat /\ total \in Nat /\ up \in Nat
  BY DEF TypeOK
<1> QED BY <1>1, <1>2 DEF Revoke, Minus

\* Every step keeps the types.
LEMMA NextTypes == TypeOK /\ [Next]_vars => TypeOK'
<1> SUFFICES ASSUME TypeOK, [Next]_vars PROVE TypeOK'
  OBVIOUS
<1>1. ASSUME NEW o \in Orders, NEW k \in Kinds, CreateOrder(o, k) PROVE TypeOK'
  BY <1>1 DEF CreateOrder, TypeOK, client, poll, refund, Kinds
<1>2. ASSUME NEW o \in Orders, Age(o) PROVE TypeOK'
  BY <1>2 DEF Age, TypeOK, client, poll, refund
<1>3. ASSUME NEW o \in Orders, PreCheckout(o) PROVE TypeOK'
  BY <1>3 DEF PreCheckout, TypeOK, client, poll, refund
<1>4. ASSUME NEW o \in Orders, Pay(o) PROVE TypeOK'
  BY <1>4 DEF Pay, TypeOK, client, poll, refund
<1>5. ASSUME NEW o \in Orders, HandlePayment(o) PROVE TypeOK'
  <2>1. notice' \in [Orders -> BOOLEAN]
    BY <1>5 DEF HandlePayment, TypeOK
  <2>2. CASE ApplyPaidOrder(o)
    BY <1>5, <2>1, <2>2, ApplyTypes DEF HandlePayment, TypeOK, poll, refund
  <2>3. CASE UNCHANGED <<status, client, granted, applied>>
    BY <1>5, <2>1, <2>3 DEF HandlePayment, TypeOK, client, poll, refund
  <2> QED BY <1>5, <2>2, <2>3 DEF HandlePayment
<1>6. CASE PollLoad
  BY <1>6 DEF PollLoad, TypeOK, order, client, refund
<1>7. CASE PollAnswer
  BY <1>7 DEF PollAnswer, TypeOK, order, client, refund
<1>8. CASE ExpireStaleOrders
  BY <1>8 DEF ExpireStaleOrders, TypeOK, client, refund
<1>9. ASSUME NEW o \in Orders, PollApply(o) PROVE TypeOK'
  <2>1. batch' \subseteq Orders
    BY <1>9 DEF PollApply, TypeOK
  <2>2. CASE ApplyPaidOrder(o)
    BY <1>9, <2>1, <2>2, ApplyTypes DEF PollApply, TypeOK, refund
  <2>3. CASE UNCHANGED <<status, client, granted, applied>>
    BY <1>9, <2>1, <2>3 DEF PollApply, TypeOK, client, refund
  <2> QED BY <1>9, <2>2, <2>3 DEF PollApply
<1>10. ASSUME NEW r \in Refunders, NEW o \in Orders, NEW rev \in BOOLEAN,
              RequestRefund(r, o, rev)
       PROVE  TypeOK'
  BY <1>10 DEF RequestRefund, TypeOK, order, client, poll
<1>11. 1 \in Orders
  BY PaidAssumption DEF Orders
<1>12. ASSUME NEW r \in Refunders, ReturnMoney(r) PROVE TypeOK'
  BY <1>11, <1>12 DEF ReturnMoney, Done, TypeOK, client, poll
<1>13. ASSUME NEW r \in Refunders, FinalizeRefund(r) PROVE TypeOK'
  <2> DEFINE o == refOrder[r]
  <2>1. o \in Orders
    BY DEF TypeOK
  <2>2. /\ refPc' \in [Refunders -> {"idle", "money", "finalize"}]
        /\ refOrder' \in [Refunders -> Orders] /\ revoke' \in [Refunders -> BOOLEAN]
    BY <1>11, <1>13 DEF FinalizeRefund, Done, TypeOK
  <2>3. CASE UNCHANGED <<status, kept, client>>
    BY <1>13, <2>2, <2>3 DEF FinalizeRefund, TypeOK, client, poll
  <2>4. CASE status' = [status EXCEPT ![o] = "refunded"] /\ UNCHANGED kept
                 /\ Revoke(o) /\ tariff # NoTariff
    BY <1>13, <2>1, <2>2, <2>4, RevokeTypes DEF FinalizeRefund, TypeOK, poll
  <2>5. CASE status' = [status EXCEPT ![o] = "refunded"] /\ kept' = kept \cup {o}
                 /\ UNCHANGED client
    BY <1>13, <2>1, <2>2, <2>5 DEF FinalizeRefund, TypeOK, client, poll
  <2> QED BY <1>13, <2>3, <2>4, <2>5 DEF FinalizeRefund
<1>14. CASE SaveStats
  BY <1>14 DEF SaveStats, TypeOK, order, poll, refund
<1>15. ASSUME NEW t \in Traffics \cup {NoTariff}, SaveTariff(t) PROVE TypeOK'
  BY <1>15 DEF SaveTariff, TypeOK, order, client, poll, refund
<1>16. CASE UNCHANGED vars
  BY <1>16 DEF vars, TypeOK, order, client, poll, refund
<1> QED
  BY <1>1, <1>2, <1>3, <1>4, <1>5, <1>6, <1>7, <1>8, <1>9, <1>10, <1>12, <1>13,
     <1>14, <1>15, <1>16 DEF Next, PollStep, RefundStep

\* The renewal is only ever called for money that has been taken, and only an
\* order that was pending changes its status.
LEMMA ApplyMoney ==
    ASSUME Inv, NEW o \in Orders, ApplyPaidOrder(o), money[o] \in Settled,
           UNCHANGED <<kind, money, refund>>
    PROVE  /\ MoneyComesFirst'
           /\ \A p \in Orders : status[p] \in {"paid", "refunded"} => status'[p] = status[p]
<1>1. \A p \in Orders : status'[p] = status[p] \/ (p = o /\ Pending(o) /\ status'[p] = "paid")
  <2>1. \/ Pending(o) /\ status' = [status EXCEPT ![o] = "paid"]
        \/ status' = status
    BY DEF ApplyPaidOrder
  <2>2. DOMAIN status = Orders
    BY DEF Inv, TypeOK
  <2> QED BY <2>1, <2>2 DEF Pending
<1>2. MoneyComesFirst'
  BY <1>1 DEF Inv, MoneyInv, MoneyComesFirst, Settled
<1> QED BY <1>1, <1>2 DEF Pending

\* Every step keeps the money in order.
LEMMA NextMoney == Inv /\ [Next]_vars => MoneyInv'
<1> SUFFICES ASSUME Inv, [Next]_vars PROVE MoneyInv'
  OBVIOUS
<1> USE DEF MoneyInv
<1>0. TypeOK /\ MoneyComesFirst /\ Backed
  BY DEF Inv
<1>1. ASSUME NEW o \in Orders, NEW k \in Kinds, CreateOrder(o, k) PROVE MoneyInv'
  BY <1>0, <1>1 DEF CreateOrder, TypeOK, MoneyComesFirst, Backed, poll, refund
<1>2. ASSUME NEW o \in Orders, Age(o) PROVE MoneyInv'
  BY <1>0, <1>2 DEF Age, MoneyComesFirst, Backed, poll, refund
<1>3. ASSUME NEW o \in Orders, PreCheckout(o) PROVE MoneyInv'
  BY <1>0, <1>3 DEF PreCheckout, TypeOK, MoneyComesFirst, Backed, Pending, Settled, poll, refund
<1>4. ASSUME NEW o \in Orders, Pay(o) PROVE MoneyInv'
  BY <1>0, <1>4 DEF Pay, TypeOK, MoneyComesFirst, Backed, Settled, poll, refund
<1>5. ASSUME NEW o \in Orders, HandlePayment(o) PROVE MoneyInv'
  <2>1. money[o] \in Settled
    BY <1>0, <1>5 DEF HandlePayment, Backed
  <2>2. \A p \in Orders : notice'[p] => notice[p]
    BY <1>0, <1>5 DEF HandlePayment, TypeOK
  <2>3. UNCHANGED <<kind, money, poll, refund>>
    BY <1>5 DEF HandlePayment
  <2>4. CASE ApplyPaidOrder(o)
    BY <1>0, <2>1, <2>2, <2>3, <2>4, ApplyMoney DEF TypeOK, Backed, poll, refund
  <2>5. CASE UNCHANGED status
    BY <1>0, <2>2, <2>3, <2>5 DEF MoneyComesFirst, Backed, poll, refund
  <2> QED BY <1>5, <2>4, <2>5 DEF HandlePayment
<1>6. CASE PollLoad
  BY <1>0, <1>6 DEF PollLoad, MoneyComesFirst, Backed, order, refund
<1>7. CASE PollAnswer
  BY <1>0, <1>7 DEF PollAnswer, MoneyComesFirst, Backed, Settled, order, refund
<1>8. CASE ExpireStaleOrders
  BY <1>0, <1>8 DEF ExpireStaleOrders, TypeOK, MoneyComesFirst, Backed, Pending, refund
<1>9. ASSUME NEW o \in Orders, PollApply(o) PROVE MoneyInv'
  <2>1. money[o] \in Settled
    BY <1>0, <1>9 DEF PollApply, Backed
  <2>2. batch' \subseteq batch /\ UNCHANGED <<kind, money, notice, pollPc, refund>>
    BY <1>9 DEF PollApply
  <2>3. CASE ApplyPaidOrder(o)
    BY <1>0, <2>1, <2>2, <2>3, ApplyMoney DEF TypeOK, Backed, refund
  <2>4. CASE UNCHANGED status
    BY <1>0, <2>2, <2>4 DEF MoneyComesFirst, Backed, refund
  <2> QED BY <1>9, <2>3, <2>4 DEF PollApply
<1>10. ASSUME NEW r \in Refunders, NEW o \in Orders, NEW rev \in BOOLEAN,
              RequestRefund(r, o, rev)
       PROVE  MoneyInv'
  BY <1>0, <1>10 DEF RequestRefund, TypeOK, MoneyComesFirst, Backed, order, poll
<1>11. ASSUME NEW r \in Refunders, ReturnMoney(r) PROVE MoneyInv'
  <2>1. UNCHANGED <<kind, status, notice, poll>>
    BY <1>11 DEF ReturnMoney
  <2>2. refOrder[r] \in Orders /\ status[refOrder[r]] \in {"paid", "refunded"}
    BY <1>0, <1>11 DEF ReturnMoney, TypeOK, Backed
  <2>3. CASE money' = [money EXCEPT ![refOrder[r]] = "returned"]
             /\ refPc' = [refPc EXCEPT ![r] = "finalize"] /\ UNCHANGED refOrder
    <3>1. \A o \in Orders : money'[o] = IF o = refOrder[r] THEN "returned" ELSE money[o]
      BY <1>0, <2>3 DEF TypeOK
    <3>2. MoneyComesFirst'
      BY <1>0, <2>1, <3>1 DEF MoneyComesFirst
    <3>3. /\ \A o \in Orders : notice[o] => money'[o] \in Settled
          /\ pollPc = "apply" => \A o \in batch : money'[o] \in Settled
      BY <1>0, <3>1 DEF TypeOK, Backed, Settled
    <3>4. \A s \in Refunders : refPc'[s] # "idle" =>
             /\ status[refOrder[s]] \in {"paid", "refunded"}
             /\ refPc'[s] = "finalize" /\ kind[refOrder[s]] = "stars"
                    => money'[refOrder[s]] = "returned"
      BY <1>0, <1>11, <2>2, <2>3, <3>1 DEF TypeOK, Backed
    <3> QED BY <2>1, <2>3, <3>2, <3>3, <3>4 DEF Backed, poll, MoneyInv
  <2>4. CASE Done(r) /\ UNCHANGED money
    <3>1. \A s \in Refunders : refPc'[s] # "idle" =>
             refPc'[s] = refPc[s] /\ refOrder'[s] = refOrder[s]
      BY <1>0, <2>4 DEF Done, TypeOK
    <3> QED BY <1>0, <2>1, <2>4, <3>1 DEF MoneyComesFirst, Backed, poll
  <2> QED BY <1>11, <2>3, <2>4 DEF ReturnMoney
<1>12. ASSUME NEW r \in Refunders, FinalizeRefund(r) PROVE MoneyInv'
  <2>1. /\ \A s \in Refunders : refPc'[s] # "idle" => s # r
        /\ \A s \in Refunders : s # r => refPc'[s] = refPc[s] /\ refOrder'[s] = refOrder[s]
    BY <1>0, <1>12 DEF FinalizeRefund, Done, TypeOK
  <2>2. UNCHANGED <<kind, money, notice, poll>>
    BY <1>12 DEF FinalizeRefund
  <2>3. \A o \in Orders : \/ status'[o] = status[o]
                          \/ o = refOrder[r] /\ status[o] = "paid" /\ status'[o] = "refunded"
    BY <1>0, <1>12 DEF FinalizeRefund, TypeOK
  <2>4. MoneyComesFirst'
    BY <1>0, <1>12, <2>2, <2>3 DEF FinalizeRefund, MoneyComesFirst, Backed
  <2>5. Backed'
    BY <1>0, <2>1, <2>2, <2>3 DEF TypeOK, Backed, poll
  <2> QED BY <2>4, <2>5
<1>13. CASE SaveStats
  BY <1>0, <1>13 DEF SaveStats, MoneyComesFirst, Backed, order, poll, refund
<1>14. ASSUME NEW t \in Traffics \cup {NoTariff}, SaveTariff(t) PROVE MoneyInv'
  BY <1>0, <1>14 DEF SaveTariff, MoneyComesFirst, Backed, order, poll, refund
<1>15. CASE UNCHANGED vars
  BY <1>0, <1>15 DEF vars, MoneyComesFirst, Backed, order, poll, refund
<1> HIDE DEF MoneyInv
<1> QED
  BY <1>1, <1>2, <1>3, <1>4, <1>5, <1>6, <1>7, <1>8, <1>9, <1>10, <1>11, <1>12,
     <1>13, <1>14, <1>15 DEF Next, PollStep, RefundStep

\* Together: the invariant is inductive.
LEMMA NextInv == Inv /\ [Next]_vars => Inv'
  BY NextTypes, NextMoney DEF Inv

\* The invariant holds in every behaviour of the orders.
THEOREM OrdersInvariant == Spec => []Inv
  BY InitInv, NextInv, PTL DEF Spec

\* Orders, refunds and the client's counters stay well typed: no roll-back of a
\* grant makes a counter negative (ApplyPaidOrder, finalizeRefund).
THEOREM TypeCorrect == Spec => []TypeOK
<1>1. Inv => TypeOK
  BY DEF Inv
<1> QED BY <1>1, OrdersInvariant, PTL

-----------------------------------------------------------------------------
\* The volume, as long as the tariff is not edited.  An order counts once: it is
\* paid, or it was refunded and kept its grant.

Books ==
    /\ edits \in Nat
    /\ \A o \in kept : status[o] = "refunded"
    /\ edits = 0 => tariff \in Traffics
    /\ VolumeMatchesOrders

\* One order more or less in a set of orders.
LEMMA OneOrder ==
    ASSUME NEW S \in SUBSET Orders, NEW o \in Orders
    PROVE  /\ Cardinality(S) \in Nat
           /\ o \notin S => Cardinality(S \cup {o}) = Cardinality(S) + 1
           /\ o \in S => Cardinality(S \ {o}) = Cardinality(S) - 1 /\ Cardinality(S) >= 1
<1>1. IsFiniteSet(Orders)
  BY PaidAssumption, FS_Interval DEF Orders
<1>2. IsFiniteSet(S)
  BY <1>1, FS_Subset
<1>3. Cardinality(S) \in Nat /\ Cardinality(S \ {o}) \in Nat
  BY <1>1, FS_Subset, FS_CardinalityType
<1>4. Cardinality(S \cup {o}) = IF o \in S THEN Cardinality(S) ELSE Cardinality(S) + 1
  BY <1>2, FS_AddElement
<1>5. Cardinality(S \ {o}) = IF o \in S THEN Cardinality(S) - 1 ELSE Cardinality(S)
  BY <1>2, FS_RemoveElement
<1> QED BY <1>3, <1>4, <1>5

\* A step that leaves the orders in force, the tariff and the volume alone.
LEMMA SameBooks ==
    ASSUME Books, UNCHANGED <<tariff, volume, edits, kept>>,
           \A o \in Orders : status'[o] = status[o] \/ {status[o], status'[o]} \cap {"paid", "refunded"} = {},
           kept \subseteq Orders
    PROVE  Books'
<1>1. Granting' = Granting
  BY DEF Granting
<1> QED BY <1>1 DEF Books, VolumeMatchesOrders

\* A renewal adds one order and one volume, or changes nothing.
LEMMA ApplyBooks ==
    ASSUME TypeOK, Books, NEW o \in Orders, ApplyPaidOrder(o), UNCHANGED <<tariff, edits, kept>>
    PROVE  Books'
<1>1. CASE Pending(o) /\ tariff # NoTariff
  <2>1. status' = [status EXCEPT ![o] = "paid"] /\ volume' = volume + tariff
    BY <1>1 DEF ApplyPaidOrder
  <2>2. o \notin Granting /\ Granting \in SUBSET Orders
    BY <1>1 DEF Pending, Granting, Books, TypeOK
  <2>3. Granting' = Granting \cup {o}
    BY <2>1, <2>2 DEF Granting, TypeOK
  <2>4. Cardinality(Granting') = Cardinality(Granting) + 1 /\ Cardinality(Granting) \in Nat
    BY <2>2, <2>3, OneOrder
  <2>5. tariff \in Nat /\ Volume0 \in Nat
    BY <1>1, PaidAssumption DEF TypeOK
  <2>6. tariff * (Cardinality(Granting) + 1) = tariff * Cardinality(Granting) + tariff
    BY <2>4, <2>5
  <2>7. tariff * Cardinality(Granting) \in Nat
    BY <2>4, <2>5
  <2>8. VolumeMatchesOrders'
    BY <2>1, <2>4, <2>5, <2>6, <2>7 DEF Books, VolumeMatchesOrders
  <2>9. \A p \in kept : status'[p] = "refunded"
    BY <1>1, <2>1 DEF Books, Pending, TypeOK
  <2> QED BY <2>8, <2>9 DEF Books
<1>2. CASE ~(Pending(o) /\ tariff # NoTariff)
  BY <1>2, SameBooks DEF ApplyPaidOrder, client, TypeOK
<1> QED BY <1>1, <1>2

\* A refund takes one order and one volume, or lets the order keep its grant.
LEMMA FinalizeBooks ==
    ASSUME TypeOK, Books, NEW r \in Refunders, FinalizeRefund(r)
    PROVE  Books'
<1> DEFINE o == refOrder[r]
<1>1. o \in Orders /\ kept \subseteq Orders /\ Granting \in SUBSET Orders
  BY DEF TypeOK, Granting
<1>2. UNCHANGED <<tariff, edits>>
  BY DEF FinalizeRefund
<1>3. CASE UNCHANGED <<status, kept, client>>
  BY <1>1, <1>2, <1>3, SameBooks DEF client
<1>4. CASE status[o] = "paid" /\ tariff # NoTariff /\ UNCHANGED kept
           /\ status' = [status EXCEPT ![o] = "refunded"] /\ Revoke(o)
  <2>1. o \in Granting
    BY <1>1, <1>4 DEF Granting
  <2>2. Granting' = Granting \ {o}
    BY <1>1, <1>4 DEF Granting, Books, TypeOK
  <2>3. /\ Cardinality(Granting') = Cardinality(Granting) - 1
        /\ Cardinality(Granting) \in Nat /\ Cardinality(Granting) >= 1
    BY <1>1, <2>1, <2>2, OneOrder
  <2>4. tariff \in Nat /\ Volume0 \in Nat /\ volume \in Nat
    BY <1>4, PaidAssumption DEF TypeOK
  <2>5. tariff * Cardinality(Granting) = tariff * (Cardinality(Granting) - 1) + tariff
    BY <2>3, <2>4
  <2>6. tariff * (Cardinality(Granting) - 1) \in Nat
    BY <2>3, <2>4
  <2>7. edits = 0 => volume' = Volume0 + tariff * (Cardinality(Granting) - 1)
    BY <1>4, <2>4, <2>5, <2>6 DEF Books, VolumeMatchesOrders, Revoke, Minus
  <2>8. VolumeMatchesOrders'
    BY <1>2, <2>3, <2>7 DEF VolumeMatchesOrders
  <2>9. \A p \in kept' : status'[p] = "refunded"
    BY <1>1, <1>4 DEF Books, TypeOK
  <2> QED BY <1>2, <2>8, <2>9 DEF Books
<1>5. CASE status[o] = "paid" /\ kept' = kept \cup {o} /\ UNCHANGED client
           /\ status' = [status EXCEPT ![o] = "refunded"]
  <2>1. Granting' = Granting
    BY <1>1, <1>5 DEF Granting, Books, TypeOK
  <2>2. \A p \in kept' : status'[p] = "refunded"
    BY <1>1, <1>5 DEF Books, TypeOK
  <2> QED BY <1>2, <1>5, <2>1, <2>2 DEF Books, VolumeMatchesOrders, client
<1> QED BY <1>3, <1>4, <1>5 DEF FinalizeRefund

\* Every step keeps the books.
LEMMA NextBooks == TypeOK /\ Books /\ [Next]_vars => Books'
<1> SUFFICES ASSUME TypeOK, Books, [Next]_vars PROVE Books'
  OBVIOUS
<1>0. kept \subseteq Orders /\ status \in [Orders -> {"none", "pending", "paid", "expired", "refunded"}]
  BY DEF TypeOK
<1>1. ASSUME NEW o \in Orders, NEW k \in Kinds, CreateOrder(o, k) PROVE Books'
  BY <1>0, <1>1, SameBooks DEF CreateOrder, client
<1>2. ASSUME NEW o \in Orders, Age(o) PROVE Books'
  BY <1>0, <1>2, SameBooks DEF Age, client
<1>3. ASSUME NEW o \in Orders, PreCheckout(o) PROVE Books'
  BY <1>0, <1>3, SameBooks DEF PreCheckout, client
<1>4. ASSUME NEW o \in Orders, Pay(o) PROVE Books'
  BY <1>0, <1>4, SameBooks DEF Pay, client
<1>5. ASSUME NEW o \in Orders, HandlePayment(o) PROVE Books'
  <2>1. CASE ApplyPaidOrder(o)
    BY <1>5, <2>1, ApplyBooks DEF HandlePayment
  <2>2. CASE UNCHANGED <<status, client, granted, applied>>
    BY <1>0, <1>5, <2>2, SameBooks DEF HandlePayment, client
  <2> QED BY <1>5, <2>1, <2>2 DEF HandlePayment
<1>6. CASE PollLoad
  BY <1>0, <1>6, SameBooks DEF PollLoad, order, client
<1>7. CASE PollAnswer
  BY <1>0, <1>7, SameBooks DEF PollAnswer, order, client
<1>8. CASE ExpireStaleOrders
  BY <1>0, <1>8, SameBooks DEF ExpireStaleOrders, Pending, client
<1>9. ASSUME NEW o \in Orders, PollApply(o) PROVE Books'
  <2>1. CASE ApplyPaidOrder(o)
    BY <1>9, <2>1, ApplyBooks DEF PollApply
  <2>2. CASE UNCHANGED <<status, client, granted, applied>>
    BY <1>0, <1>9, <2>2, SameBooks DEF PollApply, client
  <2> QED BY <1>9, <2>1, <2>2 DEF PollApply
<1>10. ASSUME NEW r \in Refunders, NEW o \in Orders, NEW rev \in BOOLEAN,
              RequestRefund(r, o, rev)
       PROVE  Books'
  BY <1>0, <1>10, SameBooks DEF RequestRefund, order, client
<1>11. ASSUME NEW r \in Refunders, ReturnMoney(r) PROVE Books'
  BY <1>0, <1>11, SameBooks DEF ReturnMoney, client
<1>12. ASSUME NEW r \in Refunders, FinalizeRefund(r) PROVE Books'
  BY <1>12, FinalizeBooks
<1>13. CASE SaveStats
  BY <1>0, <1>13, SameBooks DEF SaveStats, order
<1>14. ASSUME NEW t \in Traffics \cup {NoTariff}, SaveTariff(t) PROVE Books'
  BY <1>14, PaidAssumption DEF SaveTariff, Books, VolumeMatchesOrders, order
<1>15. CASE UNCHANGED vars
  BY <1>0, <1>15, SameBooks DEF vars, order, client
<1> QED
  BY <1>1, <1>2, <1>3, <1>4, <1>5, <1>6, <1>7, <1>8, <1>9, <1>10, <1>11, <1>12,
     <1>13, <1>14, <1>15 DEF Next, PollStep, RefundStep

\* No order is in force before the first one is created.
LEMMA InitBooks == Init => Books
<1> SUFFICES ASSUME Init PROVE Books
  OBVIOUS
<1>1. Granting = {}
  BY DEF Init, Granting
<1>2. Cardinality(Granting) = 0
  BY <1>1, FS_EmptySet
<1>3. tariff \in Nat /\ Volume0 \in Nat
  BY PaidAssumption DEF Init
<1> QED BY <1>2, <1>3 DEF Init, Books, VolumeMatchesOrders

\* Each payment is granted once and each refund revokes once, whatever is
\* redelivered, polled and refunded at the same time: the volume is one tariff
\* per order in force, unless the tariff was edited in between.
THEOREM VolumeIsGranted == Spec => []VolumeMatchesOrders
<1>1. Books => VolumeMatchesOrders
  BY DEF Books
<1> QED BY <1>1, InitBooks, NextBooks, TypeCorrect, PTL DEF Spec

-----------------------------------------------------------------------------
\* Nothing is granted before its money is taken, and Stars are returned before
\* their order counts as refunded (handleSuccessfulPayment, RefundOrder).
THEOREM MoneyIsFirst == Spec => []MoneyComesFirst
<1>1. Inv => MoneyComesFirst
  BY DEF Inv, MoneyInv
<1> QED BY <1>1, OrdersInvariant, PTL

-----------------------------------------------------------------------------
(* The total.  Running totals that grow are a sum in which the part of one *)
(* order can be replaced: no induction over the orders is needed.          *)

RunningTotal(sum) ==
    /\ sum \in [0..MaxOrders -> Nat]
    /\ sum[0] = 0 /\ sum[MaxOrders] = total
    /\ \A m, n \in 0..MaxOrders : m <= n => sum[m] <= sum[n]
    /\ \A o \in Orders : sum[o] = sum[o - 1] + InForce(o)

HasTotal == \E sum : RunningTotal(sum)

\* The part of every order is a number that the total contains.
LEMMA InForceIsCounted ==
    ASSUME TypeOK, HasTotal, NEW o \in Orders
    PROVE  InForce(o) \in Nat /\ InForce(o) <= total
<1>1. InForce(o) \in Nat
  BY DEF TypeOK, InForce
<1>2. PICK sum : RunningTotal(sum)
  BY DEF HasTotal
<1>3. o \in 0..MaxOrders /\ o - 1 \in 0..MaxOrders /\ MaxOrders \in 0..MaxOrders /\ o <= MaxOrders
  BY PaidAssumption DEF Orders
<1>4. sum[o - 1] \in Nat /\ sum[o] \in Nat /\ sum[o] <= total /\ sum[o] = sum[o - 1] + InForce(o)
  BY <1>2, <1>3 DEF RunningTotal
<1> QED BY <1>1, <1>4 DEF TypeOK

\* One order's part changes, and the total with it.
LEMMA OnePartChanges ==
    ASSUME TypeOK, HasTotal, NEW o \in Orders, NEW change \in Int,
           \A p \in Orders \ {o} : InForce(p)' = InForce(p),
           InForce(o)' \in Nat, InForce(o)' = InForce(o) + change, total' = total + change
    PROVE  HasTotal'
<1>1. PICK sum : RunningTotal(sum)
  BY DEF HasTotal
<1> DEFINE new == [n \in 0..MaxOrders |-> IF n < o THEN sum[n] ELSE sum[n] + change]
<1>2. /\ MaxOrders \in Nat \ {0} /\ o \in Nat /\ 1 <= o /\ o <= MaxOrders
      /\ InForce(o) \in Nat /\ total \in Nat
  <2>1. InForce(o) \in Nat
    BY InForceIsCounted
  <2> QED BY <2>1, PaidAssumption DEF Orders, TypeOK
<1>3. /\ \A n \in 0..MaxOrders : sum[n] \in Nat
      /\ sum[0] = 0 /\ sum[MaxOrders] = total /\ sum[o] = sum[o - 1] + InForce(o)
      /\ \A m, n \in 0..MaxOrders : m <= n => sum[m] <= sum[n]
      /\ \A p \in Orders : sum[p] = sum[p - 1] + InForce(p)
  BY <1>1 DEF RunningTotal
<1>4. sum[o - 1] \in Nat /\ sum[o] \in Nat /\ sum[o - 1] <= sum[o] + change
  <2>1. o - 1 \in 0..MaxOrders /\ o \in 0..MaxOrders
    BY <1>2
  <2>2. sum[o - 1] \in Nat /\ sum[o] \in Nat
    BY <1>3, <2>1
  <2> QED BY <1>2, <1>3, <2>2
<1>5. ASSUME NEW n \in 0..MaxOrders PROVE new[n] \in Nat
  <2>1. CASE n < o
    BY <1>3, <2>1
  <2>2. CASE o <= n
    <3>1. sum[o] <= sum[n] /\ sum[n] \in Nat
      BY <1>2, <1>3, <2>2
    <3> QED BY <1>2, <1>4, <2>2, <3>1
  <2> QED BY <1>2, <2>1, <2>2
<1>6. ASSUME NEW m \in 0..MaxOrders, NEW n \in 0..MaxOrders, m <= n PROVE new[m] <= new[n]
  <2>1. sum[m] \in Nat /\ sum[n] \in Nat /\ sum[m] <= sum[n]
    BY <1>3, <1>6
  <2>2. CASE n < o \/ o <= m
    BY <1>2, <1>6, <2>1, <2>2
  <2>3. CASE m < o /\ o <= n
    <3>1. sum[m] <= sum[o - 1] /\ sum[o] <= sum[n]
      BY <1>2, <1>3, <2>3
    <3>2. new[m] = sum[m] /\ new[n] = sum[n] + change
      BY <1>2, <2>3
    <3> QED BY <1>4, <2>1, <3>1, <3>2
  <2> QED BY <1>2, <2>2, <2>3
<1>7. ASSUME NEW p \in Orders PROVE new[p] = new[p - 1] + InForce(p)'
  <2>1. /\ p \in 0..MaxOrders /\ p - 1 \in 0..MaxOrders /\ sum[p] = sum[p - 1] + InForce(p)
        /\ sum[p] \in Nat /\ sum[p - 1] \in Nat
    BY <1>2, <1>3 DEF Orders
  <2>2. InForce(p) \in Nat
    BY InForceIsCounted
  <2>3. CASE p = o
    BY <1>2, <2>1, <2>2, <2>3
  <2>4. CASE p # o
    <3>1. InForce(p)' = InForce(p)
      BY <2>4
    <3>2. p - 1 < o <=> p < o
      BY <1>2, <2>1, <2>4
    <3> QED BY <1>2, <2>1, <2>2, <3>1, <3>2
  <2> QED BY <2>3, <2>4
<1>8. new[0] = 0 /\ new[MaxOrders] = total'
  BY <1>2, <1>3
<1> HIDE DEF new
<1>9. new \in [0..MaxOrders -> Nat]
  BY <1>5 DEF new
<1> QED BY <1>6, <1>7, <1>8, <1>9 DEF HasTotal, RunningTotal

\* A step that leaves the orders in force, their parts and the total alone.
LEMMA SameTotal ==
    ASSUME HasTotal, UNCHANGED <<total, granted, kept>>,
           \A o \in Orders : status'[o] = status[o] \/ {status[o], status'[o]} \cap {"paid", "refunded"} = {},
           kept \subseteq Orders
    PROVE  HasTotal'
<1>1. Granting' = Granting
  BY DEF Granting
<1>2. \A o : InForce(o)' = InForce(o)
  BY <1>1 DEF InForce
<1> QED BY <1>2 DEF HasTotal, RunningTotal

\* A renewal moves the counter into the total.
LEMMA ApplyTotal ==
    ASSUME TypeOK, Books, HasTotal, NEW o \in Orders, ApplyPaidOrder(o), UNCHANGED kept
    PROVE  HasTotal'
<1>1. CASE Pending(o) /\ tariff # NoTariff
  <2>1. /\ status' = [status EXCEPT ![o] = "paid"] /\ granted' = [granted EXCEPT ![o] = up]
        /\ total' = total + up /\ up \in Nat /\ total \in Nat /\ granted \in [Orders -> Nat]
    BY <1>1 DEF ApplyPaidOrder, TypeOK
  <2>2. o \notin Granting /\ Granting' = Granting \cup {o}
    BY <1>1, <2>1 DEF Pending, Granting, Books, TypeOK
  <2>3. InForce(o) = 0 /\ InForce(o)' = up
    BY <2>1, <2>2 DEF InForce
  <2>4. \A p \in Orders \ {o} : InForce(p)' = InForce(p)
    BY <2>1, <2>2 DEF InForce
  <2> QED BY <2>1, <2>3, <2>4, OnePartChanges
<1>2. CASE ~(Pending(o) /\ tariff # NoTariff)
  BY <1>2, SameTotal DEF ApplyPaidOrder, client, TypeOK
<1> QED BY <1>1, <1>2

\* A refund that revokes takes its own part out.
LEMMA FinalizeTotal ==
    ASSUME TypeOK, Books, HasTotal, NEW r \in Refunders, FinalizeRefund(r), NEW o \in Orders, o = refOrder[r]
    PROVE  HasTotal'
<1>1. o \in Orders /\ kept \subseteq Orders /\ UNCHANGED granted
  BY DEF TypeOK, FinalizeRefund
<1>2. CASE UNCHANGED <<status, kept, client>>
  BY <1>1, <1>2, SameTotal DEF client
<1>3. CASE status[o] = "paid" /\ UNCHANGED kept /\ status' = [status EXCEPT ![o] = "refunded"] /\ Revoke(o)
  <2>1. o \in Granting /\ Granting' = Granting \ {o}
    BY <1>1, <1>3 DEF Granting, Books, TypeOK
  <2>2. InForce(o) = granted[o] /\ InForce(o)' = 0 /\ \A p \in Orders \ {o} : InForce(p)' = InForce(p)
    BY <1>1, <2>1 DEF InForce
  <2>3. granted[o] \in Nat /\ granted[o] <= total /\ total \in Nat
    BY <1>1, <2>2, InForceIsCounted DEF TypeOK
  <2>4. total' = total + (0 - granted[o])
    BY <1>3, <2>3 DEF Revoke, Minus
  <2> QED BY <1>1, <2>2, <2>3, <2>4, OnePartChanges
<1>4. CASE status[o] = "paid" /\ kept' = kept \cup {o} /\ UNCHANGED client
           /\ status' = [status EXCEPT ![o] = "refunded"]
  <2>1. Granting' = Granting
    BY <1>1, <1>4 DEF Granting, Books, TypeOK
  <2>2. \A p : InForce(p)' = InForce(p)
    BY <1>1, <2>1 DEF InForce
  <2> QED BY <1>4, <2>2 DEF HasTotal, RunningTotal, client
<1> QED BY <1>2, <1>3, <1>4 DEF FinalizeRefund

\* Every step keeps the total.
LEMMA NextTotal == TypeOK /\ Books /\ HasTotal /\ [Next]_vars => HasTotal'
<1> SUFFICES ASSUME TypeOK, Books, HasTotal, [Next]_vars PROVE HasTotal'
  OBVIOUS
<1>0. kept \subseteq Orders /\ status \in [Orders -> {"none", "pending", "paid", "expired", "refunded"}]
  BY DEF TypeOK
<1>1. ASSUME NEW o \in Orders, NEW k \in Kinds, CreateOrder(o, k) PROVE HasTotal'
  BY <1>0, <1>1, SameTotal DEF CreateOrder, client
<1>2. ASSUME NEW o \in Orders, Age(o) PROVE HasTotal'
  BY <1>0, <1>2, SameTotal DEF Age, client
<1>3. ASSUME NEW o \in Orders, PreCheckout(o) PROVE HasTotal'
  BY <1>0, <1>3, SameTotal DEF PreCheckout, client
<1>4. ASSUME NEW o \in Orders, Pay(o) PROVE HasTotal'
  BY <1>0, <1>4, SameTotal DEF Pay, client
<1>5. ASSUME NEW o \in Orders, HandlePayment(o) PROVE HasTotal'
  <2>1. CASE ApplyPaidOrder(o)
    BY <1>5, <2>1, ApplyTotal DEF HandlePayment
  <2>2. CASE UNCHANGED <<status, client, granted, applied>>
    BY <1>0, <1>5, <2>2, SameTotal DEF HandlePayment, client
  <2> QED BY <1>5, <2>1, <2>2 DEF HandlePayment
<1>6. CASE PollLoad
  BY <1>0, <1>6, SameTotal DEF PollLoad, order, client
<1>7. CASE PollAnswer
  BY <1>0, <1>7, SameTotal DEF PollAnswer, order, client
<1>8. CASE ExpireStaleOrders
  BY <1>0, <1>8, SameTotal DEF ExpireStaleOrders, Pending, client
<1>9. ASSUME NEW o \in Orders, PollApply(o) PROVE HasTotal'
  <2>1. CASE ApplyPaidOrder(o)
    BY <1>9, <2>1, ApplyTotal DEF PollApply
  <2>2. CASE UNCHANGED <<status, client, granted, applied>>
    BY <1>0, <1>9, <2>2, SameTotal DEF PollApply, client
  <2> QED BY <1>9, <2>1, <2>2 DEF PollApply
<1>10. ASSUME NEW r \in Refunders, NEW o \in Orders, NEW rev \in BOOLEAN, RequestRefund(r, o, rev)
       PROVE  HasTotal'
  BY <1>0, <1>10, SameTotal DEF RequestRefund, order, client
<1>11. ASSUME NEW r \in Refunders, ReturnMoney(r) PROVE HasTotal'
  BY <1>0, <1>11, SameTotal DEF ReturnMoney, client
<1>12. ASSUME NEW r \in Refunders, FinalizeRefund(r) PROVE HasTotal'
  <2>1. PICK o \in Orders : o = refOrder[r]
    BY DEF TypeOK
  <2> QED BY <1>12, <2>1, FinalizeTotal
<1>13. CASE SaveStats
  BY <1>0, <1>13, SameTotal DEF SaveStats, order
<1>14. ASSUME NEW t \in Traffics \cup {NoTariff}, SaveTariff(t) PROVE HasTotal'
  BY <1>0, <1>14, SameTotal DEF SaveTariff, order, client
<1>15. CASE UNCHANGED vars
  BY <1>0, <1>15, SameTotal DEF vars, order, client
<1> QED
  BY <1>1, <1>2, <1>3, <1>4, <1>5, <1>6, <1>7, <1>8, <1>9, <1>10, <1>11, <1>12,
     <1>13, <1>14, <1>15 DEF Next, PollStep, RefundStep

\* The empty sum.
LEMMA InitTotal == Init => HasTotal
<1> SUFFICES ASSUME Init PROVE HasTotal
  OBVIOUS
<1> DEFINE nothing == [n \in 0..MaxOrders |-> 0]
<1>1. \A o \in Orders : InForce(o) = 0
  BY DEF Init, InForce, Granting
<1>2. MaxOrders \in Nat /\ \A o \in Orders : o \in 0..MaxOrders /\ o - 1 \in 0..MaxOrders
  BY PaidAssumption DEF Orders
<1>3. RunningTotal(nothing)
  BY <1>1, <1>2 DEF Init, RunningTotal
<1> QED BY <1>3 DEF HasTotal

\* The client's volume and its total are those of the orders in force: whatever is
\* redelivered, polled and refunded at the same time, in whichever order, and however
\* many orders there are (ApplyPaidOrder, finalizeRefund).
THEOREM BooksAreRight == Spec => []BooksMatchOrders
<1>1. TypeOK /\ HasTotal => TotalMatchesOrders
  <2> SUFFICES ASSUME TypeOK, NEW sum, RunningTotal(sum) PROVE TotalMatchesOrders
    BY DEF HasTotal
  <2>1. MaxOrders \in 0..MaxOrders /\ total \in Nat
    BY PaidAssumption DEF TypeOK
  <2>2. \A n \in 0..MaxOrders : sum[n] \in 0..total
    BY <2>1 DEF RunningTotal
  <2>3. sum \in [0..MaxOrders -> 0..total]
    BY <2>2 DEF RunningTotal
  <2> QED BY <2>3 DEF RunningTotal, TotalMatchesOrders
<1>2. Books => VolumeMatchesOrders
  BY DEF Books
<1> QED BY <1>1, <1>2, InitBooks, NextBooks, InitTotal, NextTotal, TypeCorrect, PTL DEF Spec, BooksMatchOrders

-----------------------------------------------------------------------------
(* Payments.  Without an error a polled order has its invoice, and an      *)
(* order that expired was past its time and stays so.                      *)

Expected ==
    /\ errors \in Nat
    /\ \A o \in Orders :
          /\ status[o] = "expired" => TooLate(o)
          /\ errors = 0 /\ kind[o] = "crypto" /\ Pending(o) => ref[o]
    /\ PaymentIsNotDropped

\* What is asked of one order.
Accounted(o) ==
    /\ status[o] = "expired" => TooLate(o)
    /\ errors = 0 /\ kind[o] = "crypto" /\ Pending(o) => ref[o]
    /\ errors = 0 /\ edits = 0 /\ money[o] = "taken" =>
         \/ status[o] \in {"paid", "refunded"}
         \/ Pending(o) /\ IF kind[o] = "crypto" THEN ref[o] ELSE notice[o]
         \/ status[o] = "expired" /\ TooLate(o)

LEMMA ExpectedOfEach == Expected <=> errors \in Nat /\ \A o \in Orders : Accounted(o)
  BY DEF Expected, Accounted, PaymentIsNotDropped

\* An order that a step does not touch.
LEMMA SameAccount ==
    ASSUME Expected, NEW o \in Orders, edits \in Nat, edits' = edits \/ edits' = edits + 1,
           errors' = errors \/ errors' = errors + 1,
           status'[o] = status[o], kind'[o] = kind[o], age'[o] = age[o], ref'[o] = ref[o],
           money'[o] = money[o] \/ money'[o] # "taken", notice'[o] = notice[o]
    PROVE  Accounted(o)'
<1>1. Accounted(o) /\ errors \in Nat
  BY ExpectedOfEach
<1>2. (errors' = 0 => errors = 0) /\ (edits' = 0 => edits = 0)
  BY <1>1
<1> QED BY <1>1, <1>2 DEF Accounted, TooLate, Pending

LEMMA NextExpected == TypeOK /\ Books /\ Expected /\ [Next]_vars => Expected'
<1> SUFFICES ASSUME TypeOK, Books, Expected, [Next]_vars PROVE Expected'
  OBVIOUS
<1>0. /\ kind \in [Orders -> Kinds] /\ status \in [Orders -> {"none", "pending", "paid", "expired", "refunded"}]
      /\ age \in [Orders -> {"fresh", "late", "stale"}] /\ ref \in [Orders -> BOOLEAN]
      /\ notice \in [Orders -> BOOLEAN] /\ money \in [Orders -> {"none", "approved", "taken", "returned"}]
      /\ edits \in Nat /\ errors \in Nat
      /\ edits = 0 => tariff # NoTariff
      /\ \A o \in Orders : Accounted(o)
  BY ExpectedOfEach, PaidAssumption DEF TypeOK, Books
<1>a. ASSUME errors' \in Nat, \A o \in Orders : Accounted(o)' PROVE Expected'
  BY <1>a DEF Expected, Accounted, PaymentIsNotDropped
<1>b. ASSUME errors' = errors \/ Error PROVE errors' \in Nat /\ (errors' = errors \/ errors' = errors + 1)
  BY <1>0, <1>b DEF Error
<1>c. ASSUME errors' = errors \/ Error, edits' = edits \/ edits' = edits + 1, NEW o \in Orders,
             \A p \in Orders \ {o} : /\ status'[p] = status[p] /\ kind'[p] = kind[p] /\ age'[p] = age[p]
                                     /\ ref'[p] = ref[p] /\ money'[p] = money[p] /\ notice'[p] = notice[p],
             Accounted(o)'
      PROVE  Expected'
  BY <1>0, <1>a, <1>b, <1>c, SameAccount
<1>d. ASSUME errors' = errors \/ Error, edits' = edits \/ edits' = edits + 1,
             UNCHANGED <<status, kind, age, ref, notice>>,
             \A p \in Orders : money'[p] = money[p] \/ money'[p] # "taken"
      PROVE  Expected'
  BY <1>0, <1>a, <1>b, <1>d, SameAccount
<1>1. ASSUME NEW o \in Orders, NEW k \in Kinds, CreateOrder(o, k) PROVE Expected'
  <2>1. Accounted(o)'
    <3>1. /\ status[o] = "none" /\ status'[o] = "pending" /\ kind'[o] = k /\ UNCHANGED <<money, edits>>
          /\ errors' = errors \/ errors' = errors + 1
      BY <1>0, <1>1 DEF CreateOrder, Error
    <3>2. errors' = 0 => errors = 0 /\ ref' = [ref EXCEPT ![o] = (k = "crypto")]
      BY <1>0, <1>1 DEF CreateOrder, Error
    <3>3. errors' = 0 /\ k = "crypto" => ref'[o]
      BY <1>0, <3>2
    <3>4. errors = 0 /\ edits = 0 => money[o] # "taken"
      BY <1>0, <3>1 DEF Accounted, Pending
    <3> QED BY <3>1, <3>2, <3>3, <3>4 DEF Accounted, Pending
  <2> QED BY <1>0, <1>1, <1>c, <2>1 DEF CreateOrder
<1>2. ASSUME NEW o \in Orders, Age(o) PROVE Expected'
  <2>1. Accounted(o)'
    BY <1>0, <1>2 DEF Age, Accounted, Pending
  <2> QED BY <1>0, <1>2, <1>c, <2>1 DEF Age
<1>3. ASSUME NEW o \in Orders, PreCheckout(o) PROVE Expected'
  <2>1. \A p \in Orders : money'[p] = money[p] \/ money'[p] # "taken"
    BY <1>0, <1>3 DEF PreCheckout
  <2> QED BY <1>3, <1>d, <2>1 DEF PreCheckout
<1>4. ASSUME NEW o \in Orders, Pay(o) PROVE Expected'
  <2>1. Accounted(o)'
    BY <1>0, <1>4 DEF Pay, Accounted, Pending, TooLate, Kinds
  <2> QED BY <1>0, <1>4, <1>c, <2>1 DEF Pay
<1>5. ASSUME NEW o \in Orders, HandlePayment(o) PROVE Expected'
  <2>1. /\ (errors' = errors \/ Error) /\ UNCHANGED <<kind, age, ref, money, edits>>
        /\ (notice' = [notice EXCEPT ![o] = FALSE] \/ notice' = notice)
    BY <1>5 DEF HandlePayment
  <2>2. \A p \in Orders \ {o} : status'[p] = status[p]
    BY <1>0, <1>5 DEF HandlePayment, ApplyPaidOrder
  <2>3. errors' = errors => ApplyPaidOrder(o)
    BY <1>0, <1>5 DEF HandlePayment, Error
  <2>4. CASE Pending(o) /\ tariff # NoTariff /\ ApplyPaidOrder(o)
    <3>1. status'[o] = "paid"
      BY <1>0, <2>4 DEF ApplyPaidOrder
    <3>2. Accounted(o)'
      BY <3>1 DEF Accounted, Pending
    <3> QED BY <1>0, <1>c, <2>1, <2>2, <3>2
  <2>5. CASE ~(Pending(o) /\ tariff # NoTariff) \/ ~ApplyPaidOrder(o)
    <3>1. UNCHANGED status
      BY <1>5, <2>5 DEF HandlePayment, ApplyPaidOrder
    <3>2. errors' = 0 /\ edits' = 0 => ~Pending(o)
      BY <1>0, <1>b, <2>1, <2>3, <2>5
    <3>3. Accounted(o)'
      BY <1>0, <1>b, <2>1, <3>1, <3>2 DEF Accounted, TooLate, Pending
    <3> QED BY <1>0, <1>c, <2>1, <2>2, <3>3
  <2> QED BY <2>4, <2>5
<1>6. CASE PollLoad
  BY <1>6, <1>d DEF PollLoad, order
<1>7. CASE PollAnswer
  BY <1>7, <1>d DEF PollAnswer, order
<1>8. CASE ExpireStaleOrders
  <2>1. \A o \in Orders : Accounted(o)'
    BY <1>0, <1>8 DEF ExpireStaleOrders, Accounted, TooLate, Pending
  <2> QED BY <1>0, <1>8, <1>a, <2>1 DEF ExpireStaleOrders
<1>9. ASSUME NEW o \in Orders, PollApply(o) PROVE Expected'
  <2>1. (errors' = errors \/ Error) /\ UNCHANGED <<kind, age, ref, money, notice, edits>>
    BY <1>9 DEF PollApply
  <2>2. /\ \A p \in Orders \ {o} : status'[p] = status[p]
        /\ (status'[o] = status[o] \/ status'[o] = "paid")
    BY <1>0, <1>9 DEF PollApply, ApplyPaidOrder
  <2>3. Accounted(o)'
    BY <1>0, <1>b, <1>9, <2>2 DEF PollApply, Accounted, TooLate, Pending
  <2> QED BY <1>0, <1>9, <1>c, <2>2, <2>3 DEF PollApply
<1>10. ASSUME NEW r \in Refunders, NEW o \in Orders, NEW rev \in BOOLEAN, RequestRefund(r, o, rev)
       PROVE  Expected'
  BY <1>10, <1>d DEF RequestRefund, order
<1>11. ASSUME NEW r \in Refunders, ReturnMoney(r) PROVE Expected'
  <2>1. \A p \in Orders : money'[p] = money[p] \/ money'[p] # "taken"
    BY <1>0, <1>11 DEF ReturnMoney
  <2> QED BY <1>11, <1>d, <2>1 DEF ReturnMoney
<1>12. ASSUME NEW r \in Refunders, FinalizeRefund(r) PROVE Expected'
  <2>1. PICK o \in Orders : o = refOrder[r]
    BY DEF TypeOK
  <2>2. /\ errors' = errors \/ Error
        /\ UNCHANGED <<kind, age, ref, money, notice, edits>>
        /\ UNCHANGED status \/ (status[o] = "paid" /\ status' = [status EXCEPT ![o] = "refunded"])
    BY <1>12, <2>1 DEF FinalizeRefund
  <2>3. Accounted(o)'
    BY <1>0, <1>b, <2>2 DEF Accounted, TooLate, Pending
  <2> QED BY <1>0, <1>c, <2>2, <2>3
<1>13. CASE SaveStats
  BY <1>13, <1>d DEF SaveStats, order
<1>14. ASSUME NEW t \in Traffics \cup {NoTariff}, SaveTariff(t) PROVE Expected'
  BY <1>14, <1>d DEF SaveTariff, order
<1>15. CASE UNCHANGED vars
  BY <1>15, <1>d DEF vars, order
<1> QED
  BY <1>1, <1>2, <1>3, <1>4, <1>5, <1>6, <1>7, <1>8, <1>9, <1>10, <1>11, <1>12,
     <1>13, <1>14, <1>15 DEF Next, PollStep, RefundStep

\* As long as nothing fails, money that was taken is granted or going to be, or
\* came after its time, for any number of orders (poll.go, handleSuccessfulPayment).
THEOREM PaymentsAreKept == Spec => []PaymentIsNotDropped
<1>1. Init => Expected
  BY DEF Init, Expected, PaymentIsNotDropped
<1>2. Expected => PaymentIsNotDropped
  BY DEF Expected
<1> QED BY <1>1, <1>2, NextExpected, InitBooks, NextBooks, TypeCorrect, PTL DEF Spec
=============================================================================

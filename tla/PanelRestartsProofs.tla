------------------------ MODULE PanelRestartsProofs -------------------------
(***************************************************************************)
(* Theorems about the parts of the panel that live through restarts in     *)
(* place, one section for each, and about their composition with the       *)
(* restart manager: the notifier of the administrator's chat, the receiver *)
(* of the clients' bot and the managed certificate.                        *)
(***************************************************************************)
EXTENDS PanelRestarts, RestartManagerProofs, FiniteSetTheorems, TLAPS

-----------------------------------------------------------------------------
(***************************************************************************)
(* Theorems about TelegramNotifier.                                        *)
(***************************************************************************)

\* The messages of a queue, and the order in which a queue holds them.
TNIn(q) == {q[i] : i \in DOMAIN q}
TNRising(q) == \A i, j \in DOMAIN q : i < j => q[i] < q[j]

\* A queue that is given up from the front keeps its order, and loses its head only.
LEMMA TNTailFacts ==
  ASSUME NEW q \in Seq(Messages), q # <<>>, TNRising(q)
  PROVE  /\ Head(q) \in TNIn(q) /\ Head(q) \in Messages
         /\ Tail(q) \in Seq(Messages) /\ Len(Tail(q)) = Len(q) - 1
         /\ TNRising(Tail(q)) /\ TNIn(Tail(q)) = TNIn(q) \ {Head(q)}
         /\ \A m \in TNIn(Tail(q)) : Head(q) < m
<1>0. Len(q) \in Nat /\ Len(q) > 0 /\ DOMAIN q = 1..Len(q) /\ Head(q) = q[1]
  OBVIOUS
<1>1. /\ Tail(q) \in Seq(Messages) /\ Len(Tail(q)) = Len(q) - 1 /\ DOMAIN Tail(q) = 1..(Len(q) - 1)
      /\ \A i \in 1..(Len(q) - 1) : Tail(q)[i] = q[i + 1]
  BY <1>0
<1>2. Head(q) \in TNIn(q) /\ Head(q) \in Messages
  BY <1>0 DEF TNIn
<1>3. TNRising(Tail(q))
  BY <1>0, <1>1 DEF TNRising
<1>4. \A i \in DOMAIN Tail(q) : Tail(q)[i] \in TNIn(q) /\ Head(q) < Tail(q)[i]
  <2> SUFFICES ASSUME NEW i \in 1..(Len(q) - 1) PROVE q[i + 1] \in TNIn(q) /\ q[1] < q[i + 1]
    BY <1>0, <1>1
  <2>1. i + 1 \in 1..Len(q) /\ 1 < i + 1 /\ 1 \in 1..Len(q)
    BY <1>0
  <2> QED BY <1>0, <2>1 DEF TNIn, TNRising
<1>5. \A m \in TNIn(q) : m # Head(q) => m \in TNIn(Tail(q))
  <2> SUFFICES ASSUME NEW i \in 1..Len(q), q[i] # q[1] PROVE q[i] \in TNIn(Tail(q))
    BY <1>0 DEF TNIn
  <2>1. i - 1 \in 1..(Len(q) - 1) /\ Tail(q)[i - 1] = q[i]
    BY <1>0, <1>1
  <2> QED BY <1>1, <2>1 DEF TNIn
<1>6. \A m \in TNIn(Tail(q)) : m \in TNIn(q) /\ Head(q) < m
  BY <1>4 DEF TNIn
<1>7. \A m \in TNIn(Tail(q)) : m \in Messages
  BY <1>1 DEF TNIn
<1>8. \A m \in TNIn(Tail(q)) : m # Head(q)
  BY <1>2, <1>6, <1>7 DEF Messages
<1> QED BY <1>1, <1>2, <1>3, <1>5, <1>6, <1>8

\* A queue to which a later message is added keeps its order.
LEMMA TNAppendFacts ==
  ASSUME NEW q \in Seq(Messages), TNRising(q), NEW m \in Messages, \A k \in TNIn(q) : k < m
  PROVE  /\ Append(q, m) \in Seq(Messages) /\ Len(Append(q, m)) = Len(q) + 1
         /\ TNRising(Append(q, m)) /\ TNIn(Append(q, m)) = TNIn(q) \cup {m}
<1> DEFINE a == Append(q, m)
<1>1. /\ Len(q) \in Nat /\ DOMAIN q = 1..Len(q) /\ a \in Seq(Messages) /\ Len(a) = Len(q) + 1
      /\ DOMAIN a = 1..(Len(q) + 1) /\ a[Len(q) + 1] = m /\ \A i \in 1..Len(q) : a[i] = q[i]
  OBVIOUS
<1>2. \A i \in 1..Len(q) : q[i] < m
  BY <1>1 DEF TNIn
<1>3. TNRising(a)
  <2> SUFFICES ASSUME NEW i \in 1..(Len(q) + 1), NEW j \in 1..(Len(q) + 1), i < j PROVE a[i] < a[j]
    BY <1>1 DEF TNRising
  <2>1. i \in 1..Len(q) /\ (j \in 1..Len(q) \/ j = Len(q) + 1)
    BY <1>1
  <2> QED BY <1>1, <1>2, <2>1 DEF TNRising
<1>4. TNIn(a) \subseteq TNIn(q) \cup {m}
  <2> SUFFICES ASSUME NEW i \in 1..(Len(q) + 1) PROVE a[i] \in TNIn(q) \cup {m}
    BY <1>1 DEF TNIn
  <2>1. i \in 1..Len(q) \/ i = Len(q) + 1
    BY <1>1
  <2> QED BY <1>1, <2>1 DEF TNIn
<1>5. TNIn(q) \cup {m} \subseteq TNIn(a)
  <2>1. Len(q) + 1 \in DOMAIN a /\ \A i \in 1..Len(q) : i \in DOMAIN a
    BY <1>1
  <2> QED BY <1>1, <2>1 DEF TNIn
<1> QED BY <1>1, <1>3, <1>4, <1>5

\* The queue takes a message: a full one loses its head and nothing else.
LEMMA TNQueueFacts ==
  ASSUME NotifierAssumption, NEW q \in Seq(Messages), TNRising(q), Len(q) <= QueueLimit,
         NEW m \in Messages, \A k \in TNIn(q) : k < m
  PROVE  /\ TNAppend(q, m) \in Seq(Messages) /\ Len(TNAppend(q, m)) <= QueueLimit
         /\ TNRising(TNAppend(q, m))
         /\ Len(q) < QueueLimit => TNIn(TNAppend(q, m)) = TNIn(q) \cup {m}
         /\ ~(Len(q) < QueueLimit) => /\ Head(q) \in TNIn(q)
                                      /\ TNIn(TNAppend(q, m)) = (TNIn(q) \ {Head(q)}) \cup {m}
<1>0. QueueLimit \in Nat /\ QueueLimit > 0 /\ Len(q) \in Nat
  BY DEF NotifierAssumption
<1>1. CASE Len(q) < QueueLimit
  <2>1. TNAppend(q, m) = Append(q, m)
    BY <1>0, <1>1 DEF TNAppend
  <2> QED BY <1>0, <1>1, <2>1, TNAppendFacts
<1>2. CASE ~(Len(q) < QueueLimit)
  <2>1. TNAppend(q, m) = Append(Tail(q), m) /\ q # <<>>
    BY <1>0, <1>2 DEF TNAppend
  <2>2. /\ Head(q) \in TNIn(q) /\ Tail(q) \in Seq(Messages) /\ Len(Tail(q)) = Len(q) - 1
        /\ TNRising(Tail(q)) /\ TNIn(Tail(q)) = TNIn(q) \ {Head(q)}
    BY <2>1, TNTailFacts
  <2>3. \A k \in TNIn(Tail(q)) : k < m
    BY <2>2
  <2>4. /\ Append(Tail(q), m) \in Seq(Messages) /\ Len(Append(Tail(q), m)) = Len(Tail(q)) + 1
        /\ TNRising(Append(Tail(q), m)) /\ TNIn(Append(Tail(q), m)) = TNIn(Tail(q)) \cup {m}
    BY <2>2, <2>3, TNAppendFacts
  <2> QED BY <1>0, <1>2, <2>1, <2>2, <2>4
<1> QED BY <1>1, <1>2

-----------------------------------------------------------------------------

\* The types, and what a goroutine holds in each of its states.
TNTyped ==
    /\ tnCurrent \in Boxes /\ tnStopper \in Boxes \cup {0}
    /\ tnQueue \in [Boxes -> Seq(Messages)] /\ \A b \in Boxes : Len(tnQueue[b]) <= QueueLimit
    /\ tnStarted \in [Boxes -> BOOLEAN] /\ tnStopped \in [Boxes -> BOOLEAN] /\ tnDone \in [Boxes -> BOOLEAN]
    /\ tnRun \in [Boxes -> {"none", "asleep", "awake", "send", "backoff", "report"}]
    /\ tnJob \in [Boxes -> Messages \cup {0}] /\ tnTries \in [Boxes -> 0..(Backoffs + 1)]
    /\ tnCall \in [Notifying -> {"idle", "start", "push", "audit"}]
    /\ tnBox \in [Notifying -> Boxes] /\ tnOwed \in [Notifying -> Messages \cup {0}]
    /\ tnFate \in [Messages -> TNFates] /\ tnNext \in 0..MaxMessages

TNHands ==
    /\ \A b \in Boxes :
         /\ tnJob[b] # 0 <=> tnRun[b] \in {"send", "backoff", "report"}
         /\ tnRun[b] = "send" => tnTries[b] <= Backoffs
         /\ tnStarted[b] \/ tnRun[b] = "none"
         /\ tnRun[b] = "backoff" => 0 < tnTries[b] /\ tnTries[b] <= Backoffs
    /\ \A c \in Notifying : tnOwed[c] # 0 <=> tnCall[c] = "audit"

\* The places of a message: the two that a box has, and the debts.
TNQueued(b) == TNIn(tnQueue[b])
TNInHand(b) == {tnJob[b]} \ {0}
TNDebt(c) == {tnOwed[c]} \ {0}

\* No two places hold the same message, a queue and the hand before it rise, and
\* the messages that are held are the open ones, all of them accepted.
TNPlaced ==
    /\ \A b \in Boxes : TNRising(tnQueue[b])
    /\ \A b \in Boxes : \A m \in TNQueued(b) : tnJob[b] < m
    /\ \A b1, b2 \in Boxes : b1 # b2 =>
         (TNQueued(b1) \cup TNInHand(b1)) \cap (TNQueued(b2) \cup TNInHand(b2)) = {}
    /\ \A b \in Boxes, c \in Notifying : (TNQueued(b) \cup TNInHand(b)) \cap TNDebt(c) = {}
    /\ \A c1, c2 \in Notifying : c1 # c2 => TNDebt(c1) \cap TNDebt(c2) = {}
    /\ \A b \in Boxes : TNQueued(b) \subseteq Messages
TNOpen ==
    /\ \A m \in Messages : tnFate[m] = "open" <=>
         \/ \E b \in Boxes : m \in TNQueued(b) \cup TNInHand(b)
         \/ \E c \in Notifying : m \in TNDebt(c)
    /\ \A m \in Messages : tnFate[m] = "open" => m <= tnNext

TNInv == TNTyped /\ TNHands /\ TNPlaced /\ TNOpen

\* The invariant says what the two properties say.
LEMMA TNInvImplies == TNInv => TNTypeOK /\ TNOpenIsHeld
<1> SUFFICES ASSUME TNInv PROVE TNTypeOK /\ TNOpenIsHeld
  OBVIOUS
<1>0. TNTyped /\ TNPlaced /\ TNOpen
  BY DEF TNInv
<1>1. TNTypeOK
  BY <1>0 DEF TNTyped, TNTypeOK
<1>2. \A b \in Boxes : Pending(b) = TNQueued(b) \cup TNInHand(b)
  BY DEF Pending, TNQueued, TNInHand, TNIn
<1>3. \A m \in Messages : \A c \in Notifying : tnOwed[c] = m <=> m \in TNDebt(c)
  BY DEF TNDebt, Messages
<1>4. \A m \in Messages : tnFate[m] = "open" <=>
         \/ \E b \in Boxes : m \in Pending(b)
         \/ \E c \in Notifying : tnOwed[c] = m
  BY <1>0, <1>2, <1>3 DEF TNOpen
<1>5. \A b \in Boxes : \A i, j \in DOMAIN tnQueue[b] : i < j => tnQueue[b][i] < tnQueue[b][j]
  BY <1>0 DEF TNPlaced, TNRising
<1>6. \A b \in Boxes : \A m \in Pending(b) : tnJob[b] <= m
  <2> SUFFICES ASSUME NEW b \in Boxes, NEW m \in Pending(b) PROVE tnJob[b] <= m
    OBVIOUS
  <2>1. tnJob[b] \in Nat
    BY <1>0 DEF TNTyped, Messages
  <2>2. CASE m \in TNQueued(b)
    <3>1. tnJob[b] < m /\ m \in Messages
      BY <1>0, <2>2 DEF TNPlaced
    <3> QED BY <2>1, <3>1 DEF Messages
  <2>3. CASE m \in TNInHand(b)
    BY <2>1, <2>3 DEF TNInHand
  <2> QED BY <1>2, <2>2, <2>3
<1> QED BY <1>1, <1>4, <1>5, <1>6 DEF TNOpenIsHeld

LEMMA TNInitInv == NotifierAssumption /\ TNInit => TNInv
<1> SUFFICES ASSUME NotifierAssumption, TNInit PROVE TNInv
  OBVIOUS
<1>0. {Notifiers, QueueLimit, Backoffs, MaxMessages} \subseteq Nat \ {0}
  BY DEF NotifierAssumption
<1>1. <<>> \in Seq(Messages) /\ Len(<<>>) = 0 /\ DOMAIN (<<>>) = {}
  OBVIOUS
<1>2. \A b \in Boxes : TNQueued(b) = {} /\ TNInHand(b) = {} /\ TNRising(tnQueue[b])
  BY <1>1 DEF TNInit, TNQueued, TNInHand, TNIn, TNRising
<1>3. \A c \in Notifying : TNDebt(c) = {}
  BY DEF TNInit, TNDebt
<1>4. TNTyped
  BY <1>0, <1>1 DEF TNInit, TNTyped, Boxes, TNFates
<1>5. TNHands
  BY DEF TNInit, TNHands
<1>6. TNPlaced
  BY <1>2, <1>3 DEF TNPlaced
<1>7. TNOpen
  BY <1>2, <1>3 DEF TNInit, TNOpen
<1> QED BY <1>4, <1>5, <1>6, <1>7 DEF TNInv

\* Steps that move no message keep where the messages are.
LEMMA TNStill ==
  ASSUME TNPlaced, TNOpen, UNCHANGED <<tnQueue, tnJob, tnOwed, tnFate, tnNext>>
  PROVE  TNPlaced' /\ TNOpen'
BY DEF TNPlaced, TNOpen, TNQueued, TNInHand, TNDebt

\* A message that a queue or a hand holds has been accepted.
LEMMA TNHeldFacts ==
  ASSUME TNTyped, TNPlaced, TNOpen, NEW b \in Boxes
  PROVE  /\ tnNext \in Nat /\ tnJob[b] \in Nat /\ tnJob[b] <= tnNext
         /\ \A m \in TNQueued(b) : m \in Messages /\ m <= tnNext
<1>1. tnNext \in Nat /\ tnJob[b] \in Messages \cup {0}
  BY DEF TNTyped
<1>2. \A m \in TNQueued(b) : m \in Messages /\ m <= tnNext
  BY DEF TNPlaced, TNOpen
<1>3. CASE tnJob[b] = 0
  BY <1>1, <1>2, <1>3
<1>4. CASE tnJob[b] # 0
  <2>1. tnJob[b] \in Messages /\ tnJob[b] \in TNInHand(b)
    BY <1>1, <1>4 DEF TNInHand
  <2>2. tnJob[b] <= tnNext
    BY <2>1 DEF TNOpen
  <2> QED BY <1>1, <1>2, <2>1, <2>2 DEF Messages
<1> QED BY <1>3, <1>4

\* A queue takes a message.
LEMMA TNAcceptInv ==
  ASSUME NotifierAssumption, TNInv, NEW c \in Notifying, tnCall[c] = "push", TNAccept(c, tnBox[c]),
         UNCHANGED <<tnCurrent, tnSide, tnDone, tnJob, tnTries, tnBox, tnStopper>>
  PROVE  TNInv'
<1> DEFINE b == tnBox[c]
           q == tnQueue[b]
           n == tnNext + 1
<1>0. TNTyped /\ TNHands /\ TNPlaced /\ TNOpen /\ b \in Boxes /\ MaxMessages \in Nat
  BY DEF TNInv, TNTyped, NotifierAssumption
<1>1. /\ tnNext < MaxMessages /\ tnNext' = n /\ tnQueue' = [tnQueue EXCEPT ![b] = TNAppend(q, n)]
      /\ tnFate' = [tnFate EXCEPT ![n] = "open"]
      /\ tnRun' = [tnRun EXCEPT ![b] = IF @ = "asleep" THEN "awake" ELSE @]
      /\ \/ Len(q) < QueueLimit /\ tnCall' = [tnCall EXCEPT ![c] = "idle"] /\ tnOwed' = tnOwed
         \/ /\ ~(Len(q) < QueueLimit) /\ tnCall' = [tnCall EXCEPT ![c] = "audit"]
            /\ tnOwed' = [tnOwed EXCEPT ![c] = Head(q)]
      /\ UNCHANGED <<tnCurrent, tnStarted, tnStopped, tnDone, tnJob, tnTries, tnBox, tnStopper>>
  BY DEF TNAccept, TNWake, tnSide
<1>2. /\ n \in Messages /\ tnNext \in Nat /\ n \in 0..MaxMessages
      /\ q \in Seq(Messages) /\ TNRising(q) /\ Len(q) <= QueueLimit /\ TNIn(q) = TNQueued(b)
  BY <1>0, <1>1 DEF TNTyped, Messages, TNPlaced, TNQueued
<1>3. \A a \in Boxes : tnJob[a] \in Nat /\ tnJob[a] < n /\ \A m \in TNQueued(a) : m \in Messages /\ m < n
  <2> TAKE a \in Boxes
  <2>1. tnJob[a] \in Nat /\ tnJob[a] <= tnNext /\ \A m \in TNQueued(a) : m \in Messages /\ m <= tnNext
    BY <1>0, TNHeldFacts
  <2> QED BY <1>2, <2>1 DEF Messages
<1>4. /\ TNAppend(q, n) \in Seq(Messages) /\ Len(TNAppend(q, n)) <= QueueLimit /\ TNRising(TNAppend(q, n))
      /\ Len(q) < QueueLimit => TNIn(TNAppend(q, n)) = TNQueued(b) \cup {n}
      /\ ~(Len(q) < QueueLimit) => /\ Head(q) \in TNQueued(b)
                                   /\ TNIn(TNAppend(q, n)) = (TNQueued(b) \ {Head(q)}) \cup {n}
  <2>1. \A k \in TNIn(q) : k < n
    BY <1>0, <1>2, <1>3
  <2> QED BY <1>2, <2>1, TNQueueFacts
<1>5. /\ tnQueue'[b] = TNAppend(q, n) /\ TNQueued(b)' = TNIn(TNAppend(q, n))
      /\ \A a \in Boxes : a # b => tnQueue'[a] = tnQueue[a] /\ TNQueued(a)' = TNQueued(a)
      /\ \A a \in Boxes : TNInHand(a)' = TNInHand(a)
  BY <1>0, <1>1 DEF TNTyped, TNQueued, TNInHand
<1>6. TNDebt(c) = {} /\ tnOwed[c] = 0
  BY <1>0 DEF TNHands, TNDebt
<1>7. /\ Len(q) < QueueLimit => \A d \in Notifying : TNDebt(d)' = TNDebt(d)
      /\ ~(Len(q) < QueueLimit) => /\ TNDebt(c)' = {Head(q)} /\ Head(q) \in Messages
                                   /\ \A d \in Notifying : d # c => TNDebt(d)' = TNDebt(d)
  <2>1. CASE Len(q) < QueueLimit
    BY <1>1, <2>1 DEF TNDebt
  <2>2. CASE ~(Len(q) < QueueLimit)
    <3>1. Head(q) \in Messages /\ Head(q) # 0
      BY <1>0, <1>3, <1>4, <2>2 DEF Messages
    <3>2. tnOwed' = [tnOwed EXCEPT ![c] = Head(q)]
      BY <1>1, <2>2
    <3> QED BY <1>0, <2>2, <3>1, <3>2 DEF TNDebt, TNTyped
  <2> QED BY <2>1, <2>2
<1>8. TNTyped'
  <2>1. tnQueue' \in [Boxes -> Seq(Messages)] /\ \A a \in Boxes : Len(tnQueue'[a]) <= QueueLimit
    BY <1>0, <1>1, <1>4, <1>5 DEF TNTyped
  <2>2. tnRun' \in [Boxes -> {"none", "asleep", "awake", "send", "backoff", "report"}]
    BY <1>0, <1>1 DEF TNTyped
  <2>3. tnCall' \in [Notifying -> {"idle", "start", "push", "audit"}] /\ tnOwed' \in [Notifying -> Messages \cup {0}]
    BY <1>0, <1>1, <1>3, <1>4 DEF TNTyped
  <2>4. tnFate' \in [Messages -> TNFates]
    BY <1>0, <1>1, <1>2 DEF TNTyped, TNFates
  <2> QED BY <1>0, <1>1, <1>2, <2>1, <2>2, <2>3, <2>4 DEF TNTyped
<1>9. TNHands'
  <2>1. \A a \in Boxes : /\ tnJob'[a] = tnJob[a] /\ tnTries'[a] = tnTries[a]
                         /\ tnRun'[a] = tnRun[a] \/ (tnRun[a] = "asleep" /\ tnRun'[a] = "awake")
    BY <1>0, <1>1 DEF TNTyped
  <2>2. \A a \in Notifying : tnOwed'[a] # 0 <=> tnCall'[a] = "audit"
    <3>1. CASE Len(q) < QueueLimit
      BY <1>0, <1>1, <1>6, <3>1 DEF TNTyped, TNHands
    <3>2. CASE ~(Len(q) < QueueLimit)
      <4>1. Head(q) # 0
        BY <1>7, <3>2 DEF Messages
      <4> QED BY <1>0, <1>1, <3>2, <4>1 DEF TNTyped, TNHands
    <3> QED BY <3>1, <3>2
  <2> QED BY <1>0, <1>1, <2>1, <2>2 DEF TNHands
<1>10. /\ \A a \in Boxes : n \notin TNQueued(a) \cup TNInHand(a)
       /\ \A d \in Notifying : n \notin TNDebt(d)
  <2>1. tnFate[n] # "open"
    BY <1>0, <1>2 DEF TNOpen
  <2> QED BY <1>0, <1>2, <2>1 DEF TNOpen
<1>11. TNPlaced'
  <2>1. \A a \in Boxes : TNRising(tnQueue[a])'
    <3>1. \A a \in Boxes : TNRising(tnQueue'[a])
      BY <1>0, <1>4, <1>5 DEF TNPlaced
    <3> QED BY <3>1 DEF TNRising
  <2>2. \A a \in Boxes : \A m \in TNQueued(a)' : tnJob'[a] < m
    <3>1. \A a \in Boxes : tnJob'[a] = tnJob[a] /\ TNQueued(a)' \subseteq TNQueued(a) \cup {n}
      <4>1. TNQueued(b)' \subseteq TNQueued(b) \cup {n}
        BY <1>4, <1>5
      <4>2. \A a \in Boxes : a # b => TNQueued(a)' \subseteq TNQueued(a) \cup {n}
        BY <1>5
      <4> QED BY <1>1, <4>1, <4>2
    <3>2. \A a \in Boxes : \A m \in TNQueued(a) \cup {n} : tnJob[a] < m
      BY <1>0, <1>3 DEF TNPlaced
    <3> QED BY <3>1, <3>2
  <2>3. \A a \in Boxes : TNQueued(a)' \subseteq Messages
    BY <1>0, <1>2, <1>3, <1>4, <1>5
  <2>4. \A a1, a2 \in Boxes : a1 # a2 =>
          (TNQueued(a1)' \cup TNInHand(a1)') \cap (TNQueued(a2)' \cup TNInHand(a2)') = {}
    <3>1. \A a \in Boxes : a # b =>
            (TNQueued(a) \cup TNInHand(a)) \cap (TNQueued(b) \cup {n} \cup TNInHand(b)) = {}
      BY <1>0, <1>10 DEF TNPlaced
    <3>2. TNQueued(b)' \subseteq TNQueued(b) \cup {n}
      BY <1>4, <1>5
    <3> QED BY <1>0, <1>5, <3>1, <3>2 DEF TNPlaced
  <2>5. \A a \in Boxes, d \in Notifying : (TNQueued(a)' \cup TNInHand(a)') \cap TNDebt(d)' = {}
    <3>1. CASE Len(q) < QueueLimit
      BY <1>0, <1>4, <1>5, <1>7, <1>10, <3>1 DEF TNPlaced
    <3>2. CASE ~(Len(q) < QueueLimit)
      <4>1. \A d \in Notifying : d # c => \A a \in Boxes : (TNQueued(a)' \cup TNInHand(a)') \cap TNDebt(d)' = {}
        BY <1>0, <1>4, <1>5, <1>7, <1>10, <3>2 DEF TNPlaced
      <4>2. \A a \in Boxes : a # b => Head(q) \notin TNQueued(a) \cup TNInHand(a)
        BY <1>0, <1>4, <3>2 DEF TNPlaced
      <4>3. Head(q) \notin TNInHand(b)
        <5>1. tnJob[b] < Head(q) /\ tnJob[b] \in Nat
          BY <1>0, <1>3, <1>4, <3>2 DEF TNPlaced
        <5> QED BY <5>1 DEF TNInHand
      <4>4. Head(q) # n
        BY <1>0, <1>3, <1>4, <1>10, <3>2
      <4> QED BY <1>0, <1>4, <1>5, <1>7, <3>2, <4>1, <4>2, <4>3, <4>4
    <3> QED BY <3>1, <3>2
  <2>6. \A d1, d2 \in Notifying : d1 # d2 => TNDebt(d1)' \cap TNDebt(d2)' = {}
    <3>1. CASE Len(q) < QueueLimit
      BY <1>0, <1>7, <3>1 DEF TNPlaced
    <3>2. CASE ~(Len(q) < QueueLimit)
      <4>1. \A d \in Notifying : Head(q) \notin TNDebt(d)
        BY <1>0, <1>4, <3>2 DEF TNPlaced
      <4> QED BY <1>0, <1>7, <3>2, <4>1 DEF TNPlaced
    <3> QED BY <3>1, <3>2
  <2> QED BY <2>1, <2>2, <2>3, <2>4, <2>5, <2>6 DEF TNPlaced
<1>12. TNOpen'
  <2>1. /\ tnFate'[n] = "open" /\ \A m \in Messages : m # n => tnFate'[m] = tnFate[m]
    BY <1>0, <1>1, <1>2 DEF TNTyped
  <2>2. \A m \in Messages : tnFate'[m] = "open" => m <= tnNext'
    BY <1>0, <1>1, <1>2, <2>1 DEF TNOpen, Messages
  <2>3. n \in TNQueued(b)'
    BY <1>4, <1>5
  <2>4. ASSUME NEW m \in Messages, m # n
        PROVE  (\/ \E a \in Boxes : m \in TNQueued(a)' \cup TNInHand(a)'
                \/ \E d \in Notifying : m \in TNDebt(d)')
               <=> (\/ \E a \in Boxes : m \in TNQueued(a) \cup TNInHand(a)
                    \/ \E d \in Notifying : m \in TNDebt(d))
    <3>1. CASE Len(q) < QueueLimit
      <4>1. \A a \in Boxes : m \in TNQueued(a)' <=> m \in TNQueued(a)
        BY <1>4, <1>5, <2>4, <3>1
      <4> QED BY <1>5, <1>7, <3>1, <4>1
    <3>2. CASE ~(Len(q) < QueueLimit) /\ m # Head(q)
      <4>1. \A a \in Boxes : m \in TNQueued(a)' <=> m \in TNQueued(a)
        BY <1>4, <1>5, <2>4, <3>2
      <4>2. \A d \in Notifying : m \in TNDebt(d)' <=> m \in TNDebt(d)
        BY <1>6, <1>7, <3>2
      <4> QED BY <1>5, <4>1, <4>2
    <3>3. CASE ~(Len(q) < QueueLimit) /\ m = Head(q)
      BY <1>0, <1>4, <1>7, <3>3
    <3> QED BY <3>1, <3>2, <3>3
  <2>5. \A m \in Messages : tnFate'[m] = "open" <=>
         \/ \E a \in Boxes : m \in TNQueued(a)' \cup TNInHand(a)'
         \/ \E d \in Notifying : m \in TNDebt(d)'
    BY <1>0, <2>1, <2>3, <2>4 DEF TNOpen
  <2> QED BY <2>2, <2>5 DEF TNOpen
<1> QED BY <1>8, <1>9, <1>11, <1>12 DEF TNInv

\* A queue gives its head to the goroutine.
LEMMA TNTakeInv ==
  ASSUME NotifierAssumption, TNInv, NEW b \in Boxes, TNTake(b)
  PROVE  TNInv'
<1>0. TNTyped /\ TNHands /\ TNPlaced /\ TNOpen
  BY DEF TNInv
<1>1. /\ tnRun[b] = "awake"
      /\ UNCHANGED <<tnCurrent, tnStarted, tnStopped, tnCall, tnBox, tnOwed, tnStopper, tnFate, tnNext>>
  BY DEF TNTake, tnSide, tnCalls
<1>2. CASE UNCHANGED <<tnQueue, tnJob, tnTries>> /\ tnDone' \in [Boxes -> BOOLEAN]
           /\ (tnRun' = [tnRun EXCEPT ![b] = "asleep"] \/ tnRun' = [tnRun EXCEPT ![b] = "none"])
  <2>1. TNPlaced' /\ TNOpen'
    BY <1>0, <1>1, <1>2, TNStill
  <2>2. TNTyped'
    BY <1>0, <1>1, <1>2 DEF TNTyped
  <2>3. TNHands'
    BY <1>0, <1>1, <1>2 DEF TNTyped, TNHands
  <2> QED BY <2>1, <2>2, <2>3 DEF TNInv
<1>3. CASE /\ tnQueue[b] # <<>>
           /\ tnRun' = [tnRun EXCEPT ![b] = "send"] /\ tnTries' = [tnTries EXCEPT ![b] = 0]
           /\ tnJob' = [tnJob EXCEPT ![b] = Head(tnQueue[b])]
           /\ tnQueue' = [tnQueue EXCEPT ![b] = Tail(@)] /\ UNCHANGED tnDone
  <2> DEFINE q == tnQueue[b]
  <2>1. /\ Head(q) \in TNQueued(b) /\ Head(q) \in Messages /\ Tail(q) \in Seq(Messages)
        /\ Len(Tail(q)) = Len(q) - 1 /\ TNRising(Tail(q)) /\ TNIn(Tail(q)) = TNQueued(b) \ {Head(q)}
        /\ \A m \in TNIn(Tail(q)) : Head(q) < m
    <3>1. q \in Seq(Messages) /\ TNRising(q) /\ q # <<>>
      BY <1>0, <1>3 DEF TNTyped, TNPlaced
    <3> QED BY <3>1, TNTailFacts DEF TNQueued
  <2>2. /\ tnJob[b] = 0 /\ TNInHand(b) = {} /\ Head(q) # 0
    BY <1>0, <1>1, <2>1 DEF TNHands, TNInHand, Messages
  <2>3. /\ tnQueue'[b] = Tail(q) /\ TNQueued(b)' = TNQueued(b) \ {Head(q)}
        /\ tnJob'[b] = Head(q) /\ TNInHand(b)' = {Head(q)}
        /\ \A a \in Boxes : a # b => /\ tnQueue'[a] = tnQueue[a] /\ TNQueued(a)' = TNQueued(a)
                                     /\ tnJob'[a] = tnJob[a] /\ TNInHand(a)' = TNInHand(a)
        /\ \A d \in Notifying : TNDebt(d)' = TNDebt(d)
    BY <1>0, <1>1, <1>3, <2>1, <2>2 DEF TNTyped, TNQueued, TNInHand, TNDebt
  <2>4. \A a \in Boxes : TNQueued(a)' \cup TNInHand(a)' = TNQueued(a) \cup TNInHand(a)
    BY <2>1, <2>2, <2>3
  <2>5. TNTyped'
    <3>1. Len(q) \in Nat /\ Len(q) <= QueueLimit /\ tnQueue' \in [Boxes -> Seq(Messages)]
      BY <1>0, <1>3, <2>1 DEF TNTyped
    <3>2. \A a \in Boxes : Len(tnQueue'[a]) <= QueueLimit \/ Len(tnQueue'[a]) = Len(q) - 1
      BY <1>0, <2>1, <2>3 DEF TNTyped
    <3>3. \A a \in Boxes : Len(tnQueue'[a]) <= QueueLimit
      <4>1. QueueLimit \in Nat /\ Backoffs \in Nat
        BY DEF NotifierAssumption
      <4> QED BY <3>1, <3>2, <4>1
    <3>4. /\ tnRun' \in [Boxes -> {"none", "asleep", "awake", "send", "backoff", "report"}]
          /\ tnJob' \in [Boxes -> Messages \cup {0}] /\ tnTries' \in [Boxes -> 0..(Backoffs + 1)]
      BY <1>0, <1>3, <2>1 DEF TNTyped, NotifierAssumption
    <3> QED BY <1>0, <1>1, <1>3, <3>1, <3>3, <3>4 DEF TNTyped
  <2>6. TNHands'
    <3>1. Backoffs \in Nat
      BY DEF NotifierAssumption
    <3> QED BY <1>0, <1>1, <1>3, <2>2, <2>3, <3>1 DEF TNTyped, TNHands
  <2>7. TNPlaced'
    <3>1. \A a \in Boxes : TNRising(tnQueue[a])'
      <4>1. \A a \in Boxes : TNRising(tnQueue'[a])
        BY <1>0, <2>1, <2>3 DEF TNPlaced
      <4> QED BY <4>1 DEF TNRising
    <3>2. \A a \in Boxes : \A m \in TNQueued(a)' : tnJob'[a] < m
      BY <1>0, <2>1, <2>3 DEF TNPlaced
    <3> QED BY <1>0, <2>3, <2>4, <3>1, <3>2 DEF TNPlaced
  <2>8. TNOpen'
    BY <1>0, <1>1, <2>3, <2>4 DEF TNOpen
  <2> QED BY <2>5, <2>6, <2>7, <2>8 DEF TNInv
<1> QED BY <1>0, <1>2, <1>3 DEF TNTake, TNTyped

\* A goroutine leaves the message it has in hand.
LEMMA TNFinishInv ==
  ASSUME TNInv, NEW b \in Boxes, NEW f \in TNFates, f # "open", TNFinish(b, f),
         tnRun[b] \in {"send", "backoff", "report"}, tnTries' \in [Boxes -> 0..(Backoffs + 1)],
         \A a \in Boxes : a # b => tnTries'[a] = tnTries[a],
         UNCHANGED <<tnCurrent, tnQueue, tnSide, tnDone, tnCalls, tnStopper, tnNext>>
  PROVE  TNInv'
<1> DEFINE j == tnJob[b]
<1>0. TNTyped /\ TNHands /\ TNPlaced /\ TNOpen
  BY DEF TNInv
<1>1. /\ tnRun' = [tnRun EXCEPT ![b] = "awake"] /\ tnJob' = [tnJob EXCEPT ![b] = 0]
      /\ tnFate' = [tnFate EXCEPT ![j] = f]
      /\ UNCHANGED <<tnCurrent, tnQueue, tnStarted, tnStopped, tnDone, tnCall, tnBox, tnOwed, tnStopper, tnNext>>
  BY DEF TNFinish, tnSide, tnCalls
<1>2. j \in Messages /\ TNInHand(b) = {j}
  BY <1>0 DEF TNHands, TNTyped, TNInHand
<1>3. /\ TNInHand(b)' = {} /\ tnJob'[b] = 0
      /\ \A a \in Boxes : a # b => tnJob'[a] = tnJob[a] /\ TNInHand(a)' = TNInHand(a)
      /\ \A a \in Boxes : TNQueued(a)' = TNQueued(a)
      /\ \A d \in Notifying : TNDebt(d)' = TNDebt(d)
      /\ tnFate'[j] = f /\ \A m \in Messages : m # j => tnFate'[m] = tnFate[m]
  BY <1>0, <1>1, <1>2 DEF TNTyped, TNInHand, TNQueued, TNDebt
<1>4. TNTyped'
  BY <1>0, <1>1 DEF TNTyped
<1>5. TNHands'
  BY <1>0, <1>1, <1>3 DEF TNTyped, TNHands
<1>6. TNPlaced'
  <2>1. \A a \in Boxes : \A m \in TNQueued(a)' : tnJob'[a] < m
    <3>1. \A m \in TNQueued(b) : 0 < m
      BY <1>0 DEF TNPlaced, Messages
    <3> QED BY <1>0, <1>3, <3>1 DEF TNPlaced
  <2>2. \A a \in Boxes : TNRising(tnQueue[a])'
    BY <1>0, <1>1 DEF TNPlaced
  <2>3. \A a \in Boxes : TNInHand(a)' \subseteq TNInHand(a)
    BY <1>3
  <2>4. \A a1, a2 \in Boxes : a1 # a2 =>
         (TNQueued(a1)' \cup TNInHand(a1)') \cap (TNQueued(a2)' \cup TNInHand(a2)') = {}
    BY <1>0, <1>3, <2>3 DEF TNPlaced
  <2>5. \A a \in Boxes, d \in Notifying : (TNQueued(a)' \cup TNInHand(a)') \cap TNDebt(d)' = {}
    BY <1>0, <1>3, <2>3 DEF TNPlaced
  <2> QED BY <1>0, <1>3, <2>1, <2>2, <2>4, <2>5 DEF TNPlaced
<1>7. TNOpen'
  <2>1. /\ \A a \in Boxes : j \notin TNQueued(a)' \cup TNInHand(a)'
        /\ \A d \in Notifying : j \notin TNDebt(d)'
    <3>1. j \notin TNQueued(b)
      <4>1. \A m \in TNQueued(b) : j < m
        BY <1>0 DEF TNPlaced
      <4> QED BY <1>2, <4>1 DEF Messages
    <3>2. \A a \in Boxes : a # b => j \notin TNQueued(a) \cup TNInHand(a)
      BY <1>0, <1>2 DEF TNPlaced
    <3>3. \A d \in Notifying : j \notin TNDebt(d)
      BY <1>0, <1>2 DEF TNPlaced
    <3> QED BY <1>3, <3>1, <3>2, <3>3
  <2>2. \A m \in Messages : m # j => \A a \in Boxes : m \in TNQueued(a)' \cup TNInHand(a)'
                                                     <=> m \in TNQueued(a) \cup TNInHand(a)
    BY <1>2, <1>3
  <2>3. \A m \in Messages : tnFate'[m] = "open" <=>
         \/ \E a \in Boxes : m \in TNQueued(a)' \cup TNInHand(a)'
         \/ \E d \in Notifying : m \in TNDebt(d)'
    BY <1>0, <1>3, <2>1, <2>2 DEF TNOpen
  <2>4. \A m \in Messages : tnFate'[m] = "open" => m <= tnNext'
    BY <1>0, <1>1, <1>3 DEF TNOpen
  <2> QED BY <2>3, <2>4 DEF TNOpen
<1> QED BY <1>4, <1>5, <1>6, <1>7 DEF TNInv

\* A caller reports the message that its push displaced.
LEMMA TNReportInv ==
  ASSUME TNInv, NEW c \in Notifying, TNReport(c)
  PROVE  TNInv'
<1> DEFINE o == tnOwed[c]
<1>0. TNTyped /\ TNHands /\ TNPlaced /\ TNOpen
  BY DEF TNInv
<1>1. /\ tnCall[c] = "audit" /\ tnCall' = [tnCall EXCEPT ![c] = "idle"]
      /\ tnFate' = [tnFate EXCEPT ![o] = "overflow"] /\ tnOwed' = [tnOwed EXCEPT ![c] = 0]
      /\ UNCHANGED <<tnCurrent, tnQueue, tnStarted, tnStopped, tnDone, tnRun, tnJob, tnTries, tnBox,
                     tnStopper, tnNext>>
  BY DEF TNReport, tnSide, tnSend
<1>2. o \in Messages /\ TNDebt(c) = {o}
  BY <1>0, <1>1 DEF TNHands, TNTyped, TNDebt
<1>3. /\ TNDebt(c)' = {} /\ \A d \in Notifying : d # c => TNDebt(d)' = TNDebt(d)
      /\ \A a \in Boxes : TNQueued(a)' = TNQueued(a) /\ TNInHand(a)' = TNInHand(a)
      /\ tnFate'[o] = "overflow" /\ \A m \in Messages : m # o => tnFate'[m] = tnFate[m]
  BY <1>0, <1>1, <1>2 DEF TNTyped, TNInHand, TNQueued, TNDebt
<1>4. TNTyped'
  BY <1>0, <1>1 DEF TNTyped, TNFates
<1>5. TNHands'
  BY <1>0, <1>1 DEF TNTyped, TNHands
<1>6. TNPlaced'
  <2>1. \A d \in Notifying : TNDebt(d)' \subseteq TNDebt(d)
    BY <1>3
  <2>2. \A a \in Boxes : TNRising(tnQueue[a])'
    BY <1>0, <1>1 DEF TNPlaced
  <2>3. \A a \in Boxes : \A m \in TNQueued(a)' : tnJob'[a] < m
    BY <1>0, <1>1, <1>3 DEF TNPlaced
  <2> QED BY <1>0, <1>3, <2>1, <2>2, <2>3 DEF TNPlaced
<1>7. TNOpen'
  <2>1. /\ \A a \in Boxes : o \notin TNQueued(a)' \cup TNInHand(a)'
        /\ \A d \in Notifying : o \notin TNDebt(d)'
    BY <1>0, <1>2, <1>3 DEF TNPlaced
  <2>2. \A m \in Messages : m # o => \A d \in Notifying : m \in TNDebt(d)' <=> m \in TNDebt(d)
    BY <1>2, <1>3
  <2>3. \A m \in Messages : tnFate'[m] = "open" <=>
         \/ \E a \in Boxes : m \in TNQueued(a)' \cup TNInHand(a)'
         \/ \E d \in Notifying : m \in TNDebt(d)'
    BY <1>0, <1>3, <2>1, <2>2 DEF TNOpen
  <2>4. \A m \in Messages : tnFate'[m] = "open" => m <= tnNext'
    BY <1>0, <1>1, <1>3 DEF TNOpen
  <2> QED BY <2>3, <2>4 DEF TNOpen
<1> QED BY <1>4, <1>5, <1>6, <1>7 DEF TNInv

\* Steps that move no message.
LEMMA TNQuietInv ==
  ASSUME NotifierAssumption, TNInv, UNCHANGED <<tnQueue, tnJob, tnOwed, tnFate, tnNext>>, TNTyped', TNHands'
  PROVE  TNInv'
BY TNStill DEF TNInv

LEMMA TNNextInv == NotifierAssumption /\ TNInv /\ [TNNext]_tnVars => TNInv'
<1> SUFFICES ASSUME NotifierAssumption, TNInv, [TNNext]_tnVars PROVE TNInv'
  OBVIOUS
<1>0. TNTyped /\ TNHands /\ Backoffs \in Nat /\ Notifiers \in Nat
  BY DEF TNInv, NotifierAssumption
<1>1. ASSUME NEW c \in Notifying, TNNotify(c) PROVE TNInv'
  <2>1. UNCHANGED <<tnQueue, tnJob, tnOwed, tnFate, tnNext>> /\ TNTyped' /\ TNHands'
    BY <1>0, <1>1 DEF TNNotify, TNTyped, TNHands, tnSide, tnSend
  <2> QED BY <2>1, TNQuietInv
<1>2. ASSUME NEW c \in Notifying, TNStart(c) PROVE TNInv'
  <2>1. /\ tnCall[c] = "start" /\ tnCall' = [tnCall EXCEPT ![c] = "push"]
        /\ \/ UNCHANGED <<tnStarted, tnRun>>
           \/ /\ tnStarted' = [tnStarted EXCEPT ![tnBox[c]] = TRUE]
              /\ tnRun' = [tnRun EXCEPT ![tnBox[c]] = "awake"] /\ ~tnStarted[tnBox[c]]
        /\ UNCHANGED <<tnCurrent, tnQueue, tnStopped, tnDone, tnJob, tnTries, tnBox,
                       tnOwed, tnStopper, tnFate, tnNext>>
    BY <1>2 DEF TNStart
  <2>2. TNTyped'
    BY <1>0, <2>1 DEF TNTyped
  <2>3. TNHands'
    BY <1>0, <2>1 DEF TNTyped, TNHands
  <2> QED BY <2>1, <2>2, <2>3, TNQuietInv
<1>3. ASSUME NEW c \in Notifying, TNPush(c) PROVE TNInv'
  <2>1. CASE tnStopped[tnBox[c]]
    <3>1. UNCHANGED <<tnQueue, tnJob, tnOwed, tnFate, tnNext>> /\ TNTyped' /\ TNHands'
      BY <1>0, <1>3, <2>1 DEF TNPush, TNTyped, TNHands, tnSide
    <3> QED BY <3>1, TNQuietInv
  <2>2. CASE ~tnStopped[tnBox[c]]
    BY <1>3, <2>2, TNAcceptInv DEF TNPush
  <2> QED BY <2>1, <2>2
<1>4. ASSUME NEW b \in Boxes, TNSend(b) PROVE TNInv'
  <2>1. /\ tnRun[b] = "send" /\ tnTries' = [tnTries EXCEPT ![b] = @ + 1] /\ tnTries[b] <= Backoffs
        /\ tnTries[b] \in Nat
    BY <1>0, <1>4 DEF TNSend, TNHands, TNTyped
  <2>2. tnTries' \in [Boxes -> 0..(Backoffs + 1)] /\ \A a \in Boxes : a # b => tnTries'[a] = tnTries[a]
    BY <1>0, <2>1 DEF TNTyped
  <2>3. CASE TNFinish(b, "sent")
    BY <1>4, <2>1, <2>2, <2>3, TNFinishInv DEF TNSend, TNFates
  <2>4. CASE /\ tnRun' = [tnRun EXCEPT ![b] = IF tnTries[b] < Backoffs THEN "backoff" ELSE "report"]
             /\ UNCHANGED <<tnJob, tnFate>>
    <3>1. UNCHANGED <<tnCurrent, tnQueue, tnStarted, tnStopped, tnDone, tnCall, tnBox, tnOwed, tnStopper, tnNext>>
      BY <1>4 DEF TNSend, tnSide, tnCalls
    <3>2. TNTyped'
      BY <1>0, <2>2, <2>4, <3>1 DEF TNTyped
    <3>3. /\ tnRun'[b] \in {"backoff", "report"} /\ tnTries'[b] = tnTries[b] + 1
          /\ tnRun'[b] = "backoff" => tnTries[b] < Backoffs
          /\ \A a \in Boxes : a # b => tnRun'[a] = tnRun[a]
      BY <1>0, <2>1, <2>4 DEF TNTyped
    <3>4. TNHands'
      BY <1>0, <2>1, <2>2, <2>4, <3>1, <3>3 DEF TNHands
    <3> QED BY <2>4, <3>1, <3>2, <3>4, TNQuietInv
  <2> QED BY <1>4, <2>3, <2>4 DEF TNSend
<1>5. ASSUME NEW b \in Boxes, TNBackoff(b) PROVE TNInv'
  <2>1. CASE TNFinish(b, "abandoned")
    BY <1>0, <1>5, <2>1, TNFinishInv DEF TNBackoff, TNFates, TNTyped
  <2>2. CASE tnRun' = [tnRun EXCEPT ![b] = "send"] /\ UNCHANGED <<tnJob, tnFate>>
    <3>1. UNCHANGED <<tnQueue, tnJob, tnOwed, tnFate, tnNext>> /\ TNTyped' /\ TNHands'
      BY <1>0, <1>5, <2>2 DEF TNBackoff, TNTyped, TNHands, tnSide, tnCalls
    <3> QED BY <3>1, TNQuietInv
  <2> QED BY <1>5, <2>1, <2>2 DEF TNBackoff
<1>6. ASSUME NEW b \in Boxes, TNGiveUp(b) PROVE TNInv'
  BY <1>0, <1>6, TNFinishInv DEF TNGiveUp, TNFates, TNTyped
<1>7. CASE TNStop
  <2>1. UNCHANGED <<tnQueue, tnJob, tnOwed, tnFate, tnNext>>
    BY <1>7 DEF TNStop, tnCalls
  <2>2. TNTyped'
    BY <1>0, <1>7 DEF TNStop, TNWake, TNTyped, tnCalls
  <2>3. TNHands'
    BY <1>0, <1>7 DEF TNStop, TNWake, TNTyped, TNHands, tnCalls
  <2> QED BY <2>1, <2>2, <2>3, TNQuietInv
<1>8. CASE TNStopEnds
  <2>1. UNCHANGED <<tnQueue, tnJob, tnOwed, tnFate, tnNext>> /\ TNHands'
    BY <1>0, <1>8 DEF TNStopEnds, TNHands, tnCalls, tnSend, tnSide
  <2>2. TNTyped'
    BY <1>0, <1>8 DEF TNStopEnds, TNTyped, Boxes, tnCalls, tnSend, tnSide
  <2> QED BY <2>1, <2>2, TNQuietInv
<1>9. CASE UNCHANGED tnVars
  <2>1. UNCHANGED <<tnQueue, tnJob, tnOwed, tnFate, tnNext>> /\ TNTyped' /\ TNHands'
    BY <1>0, <1>9 DEF tnVars, TNTyped, TNHands, tnCalls, tnSend, tnSide
  <2> QED BY <2>1, TNQuietInv
<1> QED BY <1>1, <1>2, <1>3, <1>4, <1>5, <1>6, <1>7, <1>8, <1>9, TNTakeInv, TNReportInv DEF TNNext, TNCaller

\* A message is abandoned by a goroutine of a stopped notifier that has tried it.
LEMMA TNAbandonFacts ==
  ASSUME TNInv, [TNNext]_tnVars, NEW m \in Messages, tnFate'[m] = "abandoned", tnFate[m] # "abandoned"
  PROVE  \E b \in Boxes : tnStopped[b] /\ tnJob[b] = m /\ tnTries[b] > 0
<1>0. TNTyped /\ TNHands
  BY DEF TNInv
<1>1. tnFate' # tnFate
  OBVIOUS
<1>2. ASSUME NEW b \in Boxes, NEW f, TNFinish(b, f) PROVE tnJob[b] = m /\ f = "abandoned"
  <2>1. tnFate' = [tnFate EXCEPT ![tnJob[b]] = f]
    BY <1>2 DEF TNFinish
  <2> QED BY <1>0, <2>1 DEF TNTyped
<1>3. ASSUME NEW b \in Boxes, TNBackoff(b) PROVE tnStopped[b] /\ tnJob[b] = m /\ tnTries[b] > 0
  <2>1. tnStopped[b] /\ TNFinish(b, "abandoned") /\ tnRun[b] = "backoff"
    BY <1>1, <1>3 DEF TNBackoff
  <2>2. 0 < tnTries[b] /\ tnTries[b] \in Nat
    BY <1>0, <2>1 DEF TNHands, TNTyped
  <2> QED BY <1>2, <2>1, <2>2
<1>4. \A b \in Boxes : ~TNSend(b) /\ ~TNGiveUp(b) /\ ~TNTake(b)
  BY <1>1, <1>2 DEF TNSend, TNGiveUp, TNTake
<1>5. \A c \in Notifying : ~TNNotify(c) /\ ~TNStart(c)
  BY <1>1 DEF TNNotify, TNStart
<1>6. \A c \in Notifying : ~TNPush(c) /\ ~TNReport(c)
  <2>1. ASSUME NEW c \in Notifying, TNPush(c) PROVE FALSE
    <3>1. tnFate' = [tnFate EXCEPT ![tnNext'] = "open"]
      BY <1>1, <2>1 DEF TNPush, TNAccept
    <3> QED BY <1>0, <3>1 DEF TNTyped
  <2>2. ASSUME NEW c \in Notifying, TNReport(c) PROVE FALSE
    <3>1. tnFate' = [tnFate EXCEPT ![tnOwed[c]] = "overflow"]
      BY <2>2 DEF TNReport
    <3> QED BY <1>0, <3>1 DEF TNTyped
  <2> QED BY <2>1, <2>2
<1>7. ~TNStop /\ ~TNStopEnds /\ ~UNCHANGED tnVars
  BY <1>1 DEF TNStop, TNStopEnds, tnVars
<1>8. PICK b \in Boxes : TNBackoff(b)
  BY <1>4, <1>5, <1>6, <1>7 DEF TNNext, TNCaller
<1> QED BY <1>3, <1>8

\* Every message that has not ended is held in exactly one place, and one is given
\* up unrecorded only by a stopped notifier that has tried it (service/telegram.go):
\* for any callers, notifiers, capacity and schedule of back-offs.
THEOREM MessagesAreHeld ==
  TNInit /\ [][TNNext]_tnVars => TNMessagesAreHeld
<1>1. TNInit => TNInv
  BY NotifierAssumption, TNInitInv
<1>2. TNInv /\ [TNNext]_tnVars => TNInv'
  BY NotifierAssumption, TNNextInv
<1>3. TNInv => TNTypeOK /\ TNOpenIsHeld
  BY TNInvImplies
<1>4. TNInv /\ [TNNext]_tnVars =>
        [\A m \in Messages : tnFate'[m] = "abandoned" /\ tnFate[m] # "abandoned" =>
           \E b \in Boxes : tnStopped[b] /\ tnJob[b] = m /\ tnTries[b] > 0]_tnVars
  BY TNAbandonFacts
<1> QED BY <1>1, <1>2, <1>3, <1>4, PTL DEF TNMessagesAreHeld, TNAbandonsWhenStopped

-----------------------------------------------------------------------------
(***************************************************************************)
(* Theorems about Registration.                                            *)
(***************************************************************************)

\* The handler of an update is under way; the update has passed the cap.
RGBusy == {"lookup", "cap", "create", "bind"}
RGPassed == {p \in Bots : rgAt[p] \in {"create", "bind"}}

RGTyped ==
    /\ rgFrom \in Seq(Senders) /\ Len(rgFrom) <= MaxUpdates
    /\ rgForgotten \in 0..Len(rgFrom) /\ rgOffset \in 0..Len(rgFrom)
    /\ rgCurrent \in 0..Pollers /\ rgStopping \in 0..Pollers /\ rgStarted \in 1..Pollers
    /\ rgAt \in [Bots -> RGBusy \cup {"none", "poll", "store", "done"}]
    /\ rgCancelled \in [Bots -> BOOLEAN] /\ rgOverlapped \in BOOLEAN
    /\ rgLeft \in [Bots -> 0..(MaxUpdates + 1)] /\ rgLast \in [Bots -> 0..MaxUpdates]
    /\ rgClients \in Seq(Senders) /\ rgMade \in [Bots -> 0..Len(rgClients)]
    /\ rgBinding \in [Senders -> 0..Len(rgClients)]
    /\ rgHandled \subseteq 1..Len(rgFrom) /\ rgMishaps \in 0..MaxMishaps

\* What lies before the stored offset, before the updates Telegram still keeps and
\* before the update in hand has been handled.
RGBatches ==
    /\ \A i \in 1..rgOffset : i \in rgHandled
    /\ \A i \in 1..rgForgotten : i \in rgHandled
    /\ \A p \in Bots : rgAt[p] \in RGBusy =>
         /\ 1 <= rgLeft[p] /\ rgLeft[p] <= rgLast[p] /\ rgLast[p] <= Len(rgFrom)
         /\ \A i \in 1..Len(rgFrom) : i < rgLeft[p] => i \in rgHandled
    /\ \A p \in Bots : rgAt[p] = "store" =>
         /\ rgLast[p] <= Len(rgFrom)
         /\ \A i \in 1..rgLast[p] : i \in rgHandled

\* A poller that has created a client is about to bind it to the sender in hand.
RGHands ==
    \A p \in Bots : /\ rgMade[p] # 0 <=> rgAt[p] = "bind"
                    /\ rgAt[p] = "bind" => rgClients[rgMade[p]] = RGSender(p)

\* Without an overlap one poller is at work, and a sender whose update has passed
\* the lookup is not bound.
RGAlone ==
    /\ \A p \in Bots : p > rgStarted => rgAt[p] = "none"
    /\ ~rgOverlapped =>
         /\ \A p, q \in RGAlive : p = q
         /\ \A p \in Bots : rgAt[p] \in {"cap", "create", "bind"} => rgBinding[RGSender(p)] = 0

\* The places of those who have passed the cap are taken.
RGCount ==
    /\ IsFiniteSet(RGBound)
    /\ Cardinality(RGBound) + Cardinality(RGPassed) <= MaxClients + Pollers - 1
    /\ ~rgOverlapped => Cardinality(RGBound) + Cardinality(RGPassed) <= MaxClients

RGInv == RGTyped /\ RGBatches /\ RGHands /\ RGAlone /\ RGCount /\ RGClientsAreBound

LEMMA RGConstants ==
  ASSUME RegistrationAssumption
  PROVE  /\ Pollers \in Nat /\ Pollers > 0 /\ MaxUpdates \in Nat /\ MaxMishaps \in Nat
         /\ MaxClients \in Nat /\ MaxClients > 0
         /\ IsFiniteSet(Bots) /\ Cardinality(Bots) = Pollers
<1>1. /\ Pollers \in Nat /\ Pollers > 0 /\ MaxUpdates \in Nat /\ MaxMishaps \in Nat
      /\ MaxClients \in Nat /\ MaxClients > 0
  BY DEF RegistrationAssumption
<1> QED BY <1>1, FS_Interval DEF Bots

\* At most every poller has passed the cap.
LEMMA RGPassedFacts ==
  ASSUME RegistrationAssumption
  PROVE  IsFiniteSet(RGPassed) /\ Cardinality(RGPassed) \in Nat /\ Cardinality(RGPassed) <= Pollers
<1>1. RGPassed \in SUBSET Bots
  BY DEF RGPassed
<1>2. IsFiniteSet(Bots) /\ Cardinality(Bots) = Pollers
  BY RGConstants
<1>3. IsFiniteSet(RGPassed) /\ Cardinality(RGPassed) <= Pollers
  BY <1>1, <1>2, FS_Subset
<1> QED BY <1>3, FS_CardinalityType

LEMMA RGInvImplies ==
  ASSUME RegistrationAssumption, RGInv
  PROVE  RGTypeOK /\ RGCapHolds /\ RGClientsAreBound
<1>0. RGTyped /\ RGCount /\ RGClientsAreBound /\ Pollers \in Nat /\ MaxClients \in Nat
  BY RGConstants DEF RGInv
<1>1. RGTypeOK
  BY <1>0 DEF RGTyped, RGTypeOK, RGBusy
<1>2. Cardinality(RGBound) \in Nat /\ Cardinality(RGPassed) \in Nat
  BY <1>0, RGPassedFacts, FS_CardinalityType DEF RGCount
<1>3. RGCapHolds
  BY <1>0, <1>2 DEF RGCount, RGCapHolds
<1> QED BY <1>0, <1>1, <1>3

LEMMA RGInitInv == RegistrationAssumption /\ RGInit => RGInv
<1> SUFFICES ASSUME RegistrationAssumption, RGInit PROVE RGInv
  OBVIOUS
<1>0. /\ Pollers \in Nat /\ Pollers > 0 /\ MaxUpdates \in Nat /\ MaxMishaps \in Nat
      /\ MaxClients \in Nat /\ MaxClients > 0
  BY RGConstants
<1>1. /\ \A p \in Bots : rgAt[p] \in {"none", "poll"} /\ (p # 1 => rgAt[p] = "none")
      /\ <<>> \in Seq(Senders) /\ Len(<<>>) = 0 /\ DOMAIN (<<>>) = {}
  BY DEF RGInit
<1>2. RGTyped
  <2>1. /\ rgFrom \in Seq(Senders) /\ Len(rgFrom) = 0 /\ rgClients \in Seq(Senders) /\ Len(rgClients) = 0
    BY <1>1 DEF RGInit
  <2>2. /\ rgAt \in [Bots -> RGBusy \cup {"none", "poll", "store", "done"}]
        /\ rgCancelled \in [Bots -> BOOLEAN] /\ rgOverlapped \in BOOLEAN
        /\ rgLeft \in [Bots -> 0..(MaxUpdates + 1)] /\ rgLast \in [Bots -> 0..MaxUpdates]
    <3>1. 0 \in 0..(MaxUpdates + 1) /\ 0 \in 0..MaxUpdates
      BY <1>0
    <3>2. rgLeft \in [Bots -> 0..(MaxUpdates + 1)] /\ rgLast \in [Bots -> 0..MaxUpdates]
      BY <3>1 DEF RGInit
    <3> QED BY <3>2 DEF RGInit, RGBusy
  <2>5. rgMade \in [Bots -> 0..Len(rgClients)]
    BY <2>1 DEF RGInit
  <2>3. /\ rgBinding \in [Senders -> 0..Len(rgClients)] /\ rgHandled \subseteq 1..Len(rgFrom)
        /\ rgMishaps \in 0..MaxMishaps /\ Len(rgFrom) <= MaxUpdates
    BY <1>0, <2>1 DEF RGInit
  <2>4. /\ rgForgotten \in 0..Len(rgFrom) /\ rgOffset \in 0..Len(rgFrom)
        /\ rgCurrent \in 0..Pollers /\ rgStopping \in 0..Pollers /\ rgStarted \in 1..Pollers
    BY <1>0, <2>1 DEF RGInit
  <2> QED BY <2>1, <2>2, <2>3, <2>4, <2>5 DEF RGTyped
<1>3. RGBatches
  BY <1>1 DEF RGInit, RGBatches, RGBusy
<1>4. RGHands
  BY <1>1 DEF RGInit, RGHands
<1>5. RGAlone
  BY <1>0, <1>1 DEF RGInit, RGAlone, RGAlive, Bots
<1>6. RGBound = {} /\ RGPassed = {}
  BY <1>1 DEF RGInit, RGBound, RGPassed
<1>7. RGCount
  BY <1>0, <1>6, FS_EmptySet DEF RGCount
<1>8. RGClientsAreBound
  BY <1>1 DEF RGInit, RGClientsAreBound
<1> QED BY <1>2, <1>3, <1>4, <1>5, <1>7, <1>8 DEF RGInv

-----------------------------------------------------------------------------
(* The update in hand: a handler returns, or goes on to its next step.     *)

LEMMA RGDoneBatches ==
  ASSUME RegistrationAssumption, RGTyped, RGBatches, NEW p \in Bots, rgAt[p] \in RGBusy, RGDone(p),
         UNCHANGED <<rgTg, rgOffset, rgLast>>
  PROVE  /\ RGBatches'
         /\ rgAt' \in [Bots -> RGBusy \cup {"none", "poll", "store", "done"}] /\ rgAt'[p] \in {"lookup", "store"}
         /\ \A q \in Bots : q # p => rgAt'[q] = rgAt[q] /\ rgLeft'[q] = rgLeft[q]
         /\ rgLeft' \in [Bots -> 0..(MaxUpdates + 1)] /\ rgHandled' \subseteq 1..Len(rgFrom)
<1>0. MaxUpdates \in Nat /\ Len(rgFrom) \in Nat /\ rgOffset \in Nat /\ rgForgotten \in Nat
  BY RGConstants DEF RGTyped
<1>1. /\ rgHandled' = rgHandled \cup {rgLeft[p]} /\ rgLeft' = [rgLeft EXCEPT ![p] = rgLeft[p] + 1]
      /\ rgAt' = [rgAt EXCEPT ![p] = IF rgLeft[p] < rgLast[p] THEN "lookup" ELSE "store"]
      /\ UNCHANGED <<rgFrom, rgForgotten, rgOffset, rgLast>>
  BY DEF RGDone, RGGoto, rgTg
<1>2. /\ rgLeft[p] \in Nat /\ rgLast[p] \in Nat /\ 1 <= rgLeft[p] /\ rgLeft[p] <= rgLast[p]
      /\ rgLast[p] <= Len(rgFrom) /\ \A i \in 1..Len(rgFrom) : i < rgLeft[p] => i \in rgHandled
  BY <1>0 DEF RGTyped, RGBatches
<1>3. /\ rgAt' \in [Bots -> RGBusy \cup {"none", "poll", "store", "done"}]
      /\ rgAt'[p] = (IF rgLeft[p] < rgLast[p] THEN "lookup" ELSE "store")
      /\ \A q \in Bots : q # p => rgAt'[q] = rgAt[q] /\ rgLeft'[q] = rgLeft[q]
      /\ rgLeft'[p] = rgLeft[p] + 1
  BY <1>1 DEF RGTyped, RGBusy
<1>4. rgLeft' \in [Bots -> 0..(MaxUpdates + 1)] /\ rgHandled' \subseteq 1..Len(rgFrom)
  <2>1. rgLeft[p] + 1 \in 0..(MaxUpdates + 1) /\ rgLeft[p] \in 1..Len(rgFrom)
    <3>1. Len(rgFrom) <= MaxUpdates
      BY DEF RGTyped
    <3> QED BY <1>0, <1>2, <3>1
  <2> QED BY <1>1, <2>1 DEF RGTyped
<1>5. \A i \in 1..Len(rgFrom) : i < rgLeft[p] + 1 => i \in rgHandled'
  BY <1>0, <1>1, <1>2
<1>6. ASSUME NEW q \in Bots, rgAt'[q] \in RGBusy
      PROVE  /\ 1 <= rgLeft'[q] /\ rgLeft'[q] <= rgLast[q] /\ rgLast[q] <= Len(rgFrom)
             /\ \A i \in 1..Len(rgFrom) : i < rgLeft'[q] => i \in rgHandled'
  <2>1. CASE q = p
    <3>1. rgLeft[p] < rgLast[p]
      BY <1>3, <1>6, <2>1 DEF RGBusy
    <3> QED BY <1>0, <1>2, <1>3, <1>5, <2>1, <3>1
  <2>2. CASE q # p
    BY <1>1, <1>3, <1>6, <2>2 DEF RGBatches
  <2> QED BY <2>1, <2>2
<1>7. ASSUME NEW q \in Bots, rgAt'[q] = "store"
      PROVE  rgLast[q] <= Len(rgFrom) /\ \A i \in 1..rgLast[q] : i \in rgHandled'
  <2>1. CASE q = p
    <3>1. rgLast[p] < rgLeft[p] + 1
      BY <1>2, <1>3, <1>7, <2>1
    <3> QED BY <1>0, <1>2, <1>5, <2>1, <3>1
  <2>2. CASE q # p
    BY <1>1, <1>3, <1>7, <2>2 DEF RGBatches
  <2> QED BY <2>1, <2>2
<1>8. RGBatches'
  BY <1>1, <1>6, <1>7 DEF RGBatches
<1> QED BY <1>3, <1>4, <1>8

\* What a poller that leaves the cap behind it, or never passed it, does to the rest.
LEMMA RGDoneInv ==
  ASSUME RegistrationAssumption, RGInv, NEW p \in Bots, rgAt[p] \in {"lookup", "cap", "create"}, RGDone(p),
         UNCHANGED <<rgPolls, rgTg, rgRows, rgOffset, rgLast, rgMade>>,
         rgMishaps' \in 0..MaxMishaps, rgMishaps' = 0 => rgMishaps = 0
  PROVE  RGInv'
<1>0. RGTyped /\ RGBatches /\ RGHands /\ RGAlone /\ RGCount /\ RGClientsAreBound /\ rgAt[p] \in RGBusy
      /\ Pollers \in Nat /\ MaxClients \in Nat
  BY RGConstants DEF RGInv, RGBusy
<1>1. /\ RGBatches'
      /\ rgAt' \in [Bots -> RGBusy \cup {"none", "poll", "store", "done"}] /\ rgAt'[p] \in {"lookup", "store"}
      /\ \A q \in Bots : q # p => rgAt'[q] = rgAt[q] /\ rgLeft'[q] = rgLeft[q]
      /\ rgLeft' \in [Bots -> 0..(MaxUpdates + 1)] /\ rgHandled' \subseteq 1..Len(rgFrom)
  BY <1>0, RGDoneBatches
<1>2. UNCHANGED <<rgCurrent, rgStarted, rgStopping, rgCancelled, rgOverlapped, rgFrom, rgForgotten,
                  rgClients, rgBinding, rgOffset, rgLast, rgMade>>
  BY DEF rgPolls, rgTg, rgRows
<1>3. RGTyped'
  BY <1>0, <1>1, <1>2 DEF RGTyped
<1>4. RGHands'
  BY <1>0, <1>1, <1>2 DEF RGHands, RGSender
<1>5. RGAlive' = RGAlive /\ p \in RGAlive
  BY <1>0, <1>1, <1>2 DEF RGAlive
<1>6. RGAlone'
  BY <1>0, <1>1, <1>2, <1>5 DEF RGAlone, RGSender, RGAlive
<1>7. RGBound' = RGBound /\ RGPassed' \in SUBSET RGPassed
  BY <1>1, <1>2 DEF RGBound, RGPassed
<1>8. RGCount'
  <2>1. Cardinality(RGPassed') <= Cardinality(RGPassed) /\ Cardinality(RGPassed') \in Nat /\ Cardinality(RGPassed) \in Nat
    BY <1>7, RGPassedFacts, FS_Subset, FS_CardinalityType
  <2>2. Cardinality(RGBound) \in Nat
    BY <1>0, FS_CardinalityType DEF RGCount
  <2> QED BY <1>0, <1>2, <1>7, <2>1, <2>2 DEF RGCount
<1>9. RGClientsAreBound'
  BY <1>0, <1>2 DEF RGClientsAreBound
<1> QED BY <1>1, <1>3, <1>4, <1>6, <1>8, <1>9 DEF RGInv

\* A handler goes on: the update in hand, and what has been handled, stay.
LEMMA RGGotoBatches ==
  ASSUME RGTyped, RGBatches, NEW p \in Bots, NEW l \in RGBusy, rgAt[p] \in RGBusy, RGGoto(p, l),
         UNCHANGED <<rgTg, rgOffset, rgLeft, rgLast, rgHandled>>
  PROVE  /\ RGBatches'
         /\ rgAt' \in [Bots -> RGBusy \cup {"none", "poll", "store", "done"}] /\ rgAt'[p] = l
         /\ \A q \in Bots : q # p => rgAt'[q] = rgAt[q]
<1>1. /\ rgAt' \in [Bots -> RGBusy \cup {"none", "poll", "store", "done"}] /\ rgAt'[p] = l
      /\ \A q \in Bots : q # p => rgAt'[q] = rgAt[q]
  BY DEF RGTyped, RGGoto
<1>2. UNCHANGED <<rgFrom, rgForgotten, rgOffset, rgLeft, rgLast, rgHandled>>
  BY DEF rgTg
<1>3. \A q \in Bots : (rgAt'[q] \in RGBusy => rgAt[q] \in RGBusy) /\ (rgAt'[q] = "store" => rgAt[q] = "store")
  BY <1>1 DEF RGBusy
<1> QED BY <1>1, <1>2, <1>3 DEF RGBatches

\* The lookup found no binding.
LEMMA RGUnknownInv ==
  ASSUME RegistrationAssumption, RGInv, NEW p \in Bots, rgAt[p] = "lookup", rgBinding[RGSender(p)] = 0,
         RGGoto(p, "cap"),
         UNCHANGED <<rgLeft, rgHandled, rgMishaps, rgPolls, rgTg, rgRows, rgOffset, rgLast, rgMade>>
  PROVE  RGInv'
<1>0. RGTyped /\ RGBatches /\ RGHands /\ RGAlone /\ RGCount /\ RGClientsAreBound /\ rgAt[p] \in RGBusy /\ "cap" \in RGBusy
  BY DEF RGInv, RGBusy
<1>1. /\ RGBatches'
      /\ rgAt' \in [Bots -> RGBusy \cup {"none", "poll", "store", "done"}] /\ rgAt'[p] = "cap"
      /\ \A q \in Bots : q # p => rgAt'[q] = rgAt[q]
  BY <1>0, RGGotoBatches
<1>2. UNCHANGED <<rgCurrent, rgStarted, rgStopping, rgCancelled, rgOverlapped, rgFrom, rgForgotten,
                  rgClients, rgBinding, rgOffset, rgLast, rgMade, rgLeft, rgHandled, rgMishaps>>
  BY DEF rgPolls, rgTg, rgRows
<1>3. RGTyped'
  BY <1>0, <1>1, <1>2 DEF RGTyped
<1>4. RGHands'
  BY <1>0, <1>1, <1>2 DEF RGHands, RGSender
<1>5. RGAlive' = RGAlive
  BY <1>0, <1>1, <1>2 DEF RGAlive
<1>6. RGAlone'
  BY <1>0, <1>1, <1>2, <1>5 DEF RGAlone, RGSender
<1>7. RGBound' = RGBound /\ RGPassed' = RGPassed
  BY <1>1, <1>2 DEF RGBound, RGPassed
<1>8. RGCount'
  BY <1>0, <1>2, <1>7 DEF RGCount
<1>9. RGClientsAreBound'
  BY <1>0, <1>2 DEF RGClientsAreBound
<1> QED BY <1>1, <1>3, <1>4, <1>6, <1>8, <1>9 DEF RGInv

\* There is room under the cap: the poller takes a place, the last one or one that
\* others may be taking at the same time.
LEMMA RGRoomInv ==
  ASSUME RegistrationAssumption, RGInv, NEW p \in Bots, rgAt[p] = "cap", Cardinality(RGBound) < MaxClients,
         RGGoto(p, "create"),
         UNCHANGED <<rgLeft, rgHandled, rgMishaps, rgPolls, rgTg, rgRows, rgOffset, rgLast, rgMade>>
  PROVE  RGInv'
<1>0. /\ RGTyped /\ RGBatches /\ RGHands /\ RGAlone /\ RGCount /\ RGClientsAreBound /\ rgAt[p] \in RGBusy
      /\ "create" \in RGBusy /\ Pollers \in Nat /\ MaxClients \in Nat
  BY RGConstants DEF RGInv, RGBusy
<1>1. /\ RGBatches'
      /\ rgAt' \in [Bots -> RGBusy \cup {"none", "poll", "store", "done"}] /\ rgAt'[p] = "create"
      /\ \A q \in Bots : q # p => rgAt'[q] = rgAt[q]
  BY <1>0, RGGotoBatches
<1>2. UNCHANGED <<rgCurrent, rgStarted, rgStopping, rgCancelled, rgOverlapped, rgFrom, rgForgotten,
                  rgClients, rgBinding, rgOffset, rgLast, rgMade, rgLeft, rgHandled, rgMishaps>>
  BY DEF rgPolls, rgTg, rgRows
<1>3. RGTyped'
  BY <1>0, <1>1, <1>2 DEF RGTyped
<1>4. RGHands'
  BY <1>0, <1>1, <1>2 DEF RGHands, RGSender
<1>5. RGAlive' = RGAlive /\ p \in RGAlive
  BY <1>0, <1>1, <1>2 DEF RGAlive
<1>6. RGAlone'
  BY <1>0, <1>1, <1>2, <1>5 DEF RGAlone, RGSender
<1>7. RGBound' = RGBound
  BY <1>2 DEF RGBound
<1>8. RGCount'
  <2>1. Cardinality(RGBound) \in Nat
    BY <1>0, FS_CardinalityType DEF RGCount
  <2>2. RGPassed' \in SUBSET Bots
    BY DEF RGPassed
  <2>3. Cardinality(RGPassed') <= Pollers /\ Cardinality(RGPassed') \in Nat
    BY <2>2, RGConstants, FS_Subset, FS_CardinalityType
  <2>4. ~rgOverlapped => Cardinality(RGPassed') = 1
    <3> SUFFICES ASSUME ~rgOverlapped PROVE RGPassed' = {p}
      BY FS_Singleton
    <3>1. \A q \in RGAlive : q = p
      BY <1>0, <1>5 DEF RGAlone
    <3>2. RGPassed' \subseteq RGAlive'
      BY DEF RGPassed, RGAlive
    <3> QED BY <1>1, <1>5, <3>1, <3>2 DEF RGPassed
  <2> QED BY <1>0, <1>2, <1>7, <2>1, <2>3, <2>4 DEF RGCount
<1>9. RGClientsAreBound'
  BY <1>0, <1>2 DEF RGClientsAreBound
<1> QED BY <1>1, <1>3, <1>4, <1>6, <1>8, <1>9 DEF RGInv

\* The client is created, for the sender in hand, and waits for its binding.
LEMMA RGCreatedInv ==
  ASSUME RegistrationAssumption, RGInv, NEW p \in Bots, rgAt[p] = "create",
         rgClients' = Append(rgClients, RGSender(p)), RGGoto(p, "bind"),
         rgMade' = [rgMade EXCEPT ![p] = Len(rgClients')],
         UNCHANGED <<rgLeft, rgHandled, rgMishaps, rgPolls, rgTg, rgBinding, rgOffset, rgLast>>
  PROVE  RGInv'
<1>0. /\ RGTyped /\ RGBatches /\ RGHands /\ RGAlone /\ RGCount /\ RGClientsAreBound /\ rgAt[p] \in RGBusy
      /\ "bind" \in RGBusy
  BY DEF RGInv, RGBusy
<1>1. /\ RGBatches'
      /\ rgAt' \in [Bots -> RGBusy \cup {"none", "poll", "store", "done"}] /\ rgAt'[p] = "bind"
      /\ \A q \in Bots : q # p => rgAt'[q] = rgAt[q]
  BY <1>0, RGGotoBatches
<1>2. UNCHANGED <<rgCurrent, rgStarted, rgStopping, rgCancelled, rgOverlapped, rgFrom, rgForgotten,
                  rgBinding, rgOffset, rgLast, rgLeft, rgHandled, rgMishaps>>
  BY DEF rgPolls, rgTg
<1>3. RGSender(p) \in Senders
  <2>1. rgLeft[p] \in 1..Len(rgFrom)
    BY <1>0, RGConstants DEF RGTyped, RGBatches
  <2> QED BY <1>0, <2>1 DEF RGTyped, RGSender
<1>4. /\ rgClients' \in Seq(Senders) /\ Len(rgClients') = Len(rgClients) + 1 /\ Len(rgClients) \in Nat
      /\ rgClients'[Len(rgClients) + 1] = RGSender(p) /\ DOMAIN rgClients' = 1..(Len(rgClients) + 1)
      /\ DOMAIN rgClients = 1..Len(rgClients)
      /\ \A c \in 1..Len(rgClients) : rgClients'[c] = rgClients[c]
  BY <1>0, <1>3 DEF RGTyped
<1>5. /\ rgMade[p] = 0 /\ rgMade'[p] = Len(rgClients) + 1
      /\ \A q \in Bots : q # p => rgMade'[q] = rgMade[q]
      /\ \A q \in Bots : rgMade[q] \in 0..Len(rgClients)
  BY <1>0, <1>4 DEF RGTyped, RGHands
<1>6. RGTyped'
  <2>1. rgMade' \in [Bots -> 0..Len(rgClients')] /\ rgBinding' \in [Senders -> 0..Len(rgClients')]
    <3>1. \A q \in Bots : rgMade'[q] \in 0..Len(rgClients')
      BY <1>4, <1>5
    <3>2. rgMade' = [rgMade EXCEPT ![p] = Len(rgClients')]
      OBVIOUS
    <3>3. \A u \in Senders : rgBinding[u] \in 0..Len(rgClients')
      BY <1>0, <1>4 DEF RGTyped
    <3> QED BY <1>0, <1>2, <3>1, <3>2, <3>3 DEF RGTyped
  <2> QED BY <1>0, <1>1, <1>2, <1>4, <2>1 DEF RGTyped
<1>7. RGHands'
  <2>1. \A q \in Bots : RGSender(q)' = RGSender(q)
    BY <1>2 DEF RGSender
  <2>2. \A q \in Bots : q # p => (rgMade[q] # 0 => rgClients'[rgMade[q]] = rgClients[rgMade[q]])
    BY <1>4, <1>5
  <2> QED BY <1>0, <1>1, <1>4, <1>5, <2>1, <2>2 DEF RGHands
<1>8. RGAlive' = RGAlive
  BY <1>0, <1>1 DEF RGAlive
<1>9. RGAlone'
  BY <1>0, <1>1, <1>2, <1>8 DEF RGAlone, RGSender
<1>10. RGBound' = RGBound /\ RGPassed' = RGPassed
  BY <1>0, <1>1, <1>2 DEF RGBound, RGPassed
<1>11. RGCount'
  BY <1>0, <1>2, <1>10 DEF RGCount
<1>12. RGClientsAreBound'
  <2> SUFFICES ASSUME rgMishaps = 0, ~rgOverlapped, NEW c \in 1..(Len(rgClients) + 1)
               PROVE  rgBinding[rgClients'[c]] = c \/ \E q \in Bots : rgMade'[q] = c
    BY <1>2, <1>4 DEF RGClientsAreBound
  <2>1. CASE c = Len(rgClients) + 1
    BY <1>5, <2>1
  <2>2. CASE c # Len(rgClients) + 1
    <3>1. c \in 1..Len(rgClients) /\ c # 0
      BY <1>4, <2>2
    <3>2. rgBinding[rgClients[c]] = c \/ \E q \in Bots : rgMade[q] = c
      BY <1>0, <1>4, <3>1 DEF RGClientsAreBound
    <3> QED BY <1>4, <1>5, <3>1, <3>2
  <2> QED BY <2>1, <2>2
<1> QED BY <1>1, <1>6, <1>7, <1>9, <1>11, <1>12 DEF RGInv

\* The binding is written, or not: the place that was taken becomes a binding.
LEMMA RGBindInv ==
  ASSUME RegistrationAssumption, RGInv, NEW p \in Bots, RGBind(p)
  PROVE  RGInv'
<1> DEFINE s == RGSender(p)
           m == rgMade[p]
<1>0. /\ RGTyped /\ RGBatches /\ RGHands /\ RGAlone /\ RGCount /\ RGClientsAreBound /\ rgAt[p] \in RGBusy
      /\ rgAt[p] = "bind" /\ Pollers \in Nat /\ MaxClients \in Nat /\ MaxMishaps \in Nat
  BY RGConstants DEF RGInv, RGBusy, RGBind
<1>1. /\ RGBatches'
      /\ rgAt' \in [Bots -> RGBusy \cup {"none", "poll", "store", "done"}] /\ rgAt'[p] \in {"lookup", "store"}
      /\ \A q \in Bots : q # p => rgAt'[q] = rgAt[q] /\ rgLeft'[q] = rgLeft[q]
      /\ rgLeft' \in [Bots -> 0..(MaxUpdates + 1)] /\ rgHandled' \subseteq 1..Len(rgFrom)
  BY <1>0, RGDoneBatches DEF RGBind
<1>2. /\ UNCHANGED <<rgCurrent, rgStarted, rgStopping, rgCancelled, rgOverlapped, rgFrom, rgForgotten,
                     rgClients, rgOffset, rgLast>>
      /\ rgMade' = [rgMade EXCEPT ![p] = 0]
      /\ \/ rgMishaps < MaxMishaps /\ rgMishaps' = rgMishaps + 1 /\ rgBinding' = rgBinding
         \/ rgMishaps' = rgMishaps /\ rgBinding' = [rgBinding EXCEPT ![s] = m]
  BY DEF RGBind, RGFault, rgPolls, rgTg
<1>3. s \in Senders
  <2>1. rgLeft[p] \in 1..Len(rgFrom)
    BY <1>0, RGConstants DEF RGTyped, RGBatches
  <2> QED BY <1>0, <2>1 DEF RGTyped, RGSender
<1>4. /\ m \in 1..Len(rgClients) /\ Len(rgClients) \in Nat /\ DOMAIN rgClients = 1..Len(rgClients)
      /\ rgClients[m] = s /\ rgMishaps \in Nat
  BY <1>0 DEF RGTyped, RGHands
<1>5. /\ rgMade'[p] = 0 /\ \A q \in Bots : q # p => rgMade'[q] = rgMade[q]
      /\ \A u \in Senders : u # s => rgBinding'[u] = rgBinding[u]
      /\ rgBinding'[s] \in {rgBinding[s], m}
      /\ rgMishaps' = 0 => rgMishaps = 0 /\ rgBinding'[s] = m
  BY <1>0, <1>2, <1>3, <1>4 DEF RGTyped
<1>6. RGTyped'
  <2>1. rgBinding' \in [Senders -> 0..Len(rgClients)] /\ rgMade' \in [Bots -> 0..Len(rgClients)]
    <3>1. 0 \in 0..Len(rgClients) /\ m \in 0..Len(rgClients)
      BY <1>4
    <3>2. rgMade \in [Bots -> 0..Len(rgClients)] /\ rgBinding \in [Senders -> 0..Len(rgClients)]
      BY <1>0 DEF RGTyped
    <3>3. rgMade' \in [Bots -> 0..Len(rgClients)]
      BY <1>2, <3>1, <3>2
    <3>4. rgBinding' \in [Senders -> 0..Len(rgClients)]
      BY <1>2, <3>1, <3>2
    <3> QED BY <3>3, <3>4
  <2>2. rgMishaps' \in 0..MaxMishaps
    BY <1>0, <1>2, <1>4 DEF RGTyped
  <2> QED BY <1>0, <1>1, <1>2, <2>1, <2>2 DEF RGTyped
<1>7. RGHands'
  BY <1>0, <1>1, <1>2, <1>5 DEF RGHands, RGSender
<1>8. RGAlive' = RGAlive /\ p \in RGAlive
  BY <1>0, <1>1 DEF RGAlive
<1>9. RGAlone'
  <2>1. ASSUME ~rgOverlapped, NEW q \in Bots, rgAt'[q] \in {"cap", "create", "bind"} PROVE FALSE
    <3>1. q # p /\ rgAt[q] \in {"cap", "create", "bind"}
      BY <1>1, <2>1
    <3> QED BY <1>0, <1>8, <2>1, <3>1 DEF RGAlone, RGAlive
  <2> QED BY <1>0, <1>1, <1>2, <1>8, <2>1 DEF RGAlone
<1>10. RGPassed' = RGPassed \ {p} /\ p \in RGPassed /\ RGBound' \in SUBSET (RGBound \cup {s})
  <2>1. RGPassed' = RGPassed \ {p} /\ p \in RGPassed
    BY <1>0, <1>1 DEF RGPassed
  <2>2. RGBound' \in SUBSET (RGBound \cup {s})
    BY <1>5 DEF RGBound
  <2> QED BY <2>1, <2>2
<1>11. RGCount'
  <2>1. IsFiniteSet(RGBound) /\ Cardinality(RGBound) \in Nat
    BY <1>0, FS_CardinalityType DEF RGCount
  <2>2. IsFiniteSet(RGPassed) /\ Cardinality(RGPassed) \in Nat
    BY RGPassedFacts
  <2>3. Cardinality(RGPassed') = Cardinality(RGPassed) - 1
    BY <1>10, <2>2, FS_RemoveElement
  <2>4. /\ IsFiniteSet(RGBound \cup {s}) /\ Cardinality(RGBound \cup {s}) \in Nat
        /\ Cardinality(RGBound \cup {s}) <= Cardinality(RGBound) + 1
    <3>1. IsFiniteSet(RGBound \cup {s}) /\ Cardinality(RGBound \cup {s})
                = IF s \in RGBound THEN Cardinality(RGBound) ELSE Cardinality(RGBound) + 1
      BY <2>1, FS_AddElement
    <3> QED BY <2>1, <3>1
  <2>5. IsFiniteSet(RGBound') /\ Cardinality(RGBound') <= Cardinality(RGBound \cup {s}) /\ Cardinality(RGBound') \in Nat
    BY <1>10, <2>4, FS_Subset, FS_CardinalityType
  <2> QED BY <1>0, <1>2, <2>1, <2>2, <2>3, <2>4, <2>5 DEF RGCount
<1>12. RGClientsAreBound'
  <2> SUFFICES ASSUME rgMishaps' = 0, ~rgOverlapped, NEW c \in DOMAIN rgClients
               PROVE  rgBinding'[rgClients[c]] = c \/ \E q \in Bots : rgMade'[q] = c
    BY <1>2 DEF RGClientsAreBound
  <2>1. rgBinding'[s] = m /\ rgMishaps = 0 /\ rgBinding[s] = 0
    BY <1>0, <1>5 DEF RGAlone
  <2>2. CASE c = m
    BY <1>4, <2>1, <2>2
  <2>3. CASE c # m
    <3>1. rgBinding[rgClients[c]] = c \/ \E q \in Bots : rgMade[q] = c
      BY <1>0, <2>1 DEF RGClientsAreBound
    <3>2. ASSUME rgBinding[rgClients[c]] = c PROVE rgBinding'[rgClients[c]] = c
      <4>1. c # 0 /\ rgClients[c] \in Senders
        BY <1>0, <1>4 DEF RGTyped
      <4>2. rgClients[c] # s
        BY <2>1, <3>2, <4>1
      <4> QED BY <1>5, <3>2, <4>1, <4>2
    <3> QED BY <1>5, <2>3, <3>1, <3>2
  <2> QED BY <2>2, <2>3
<1> QED BY <1>1, <1>6, <1>7, <1>9, <1>11, <1>12 DEF RGInv

-----------------------------------------------------------------------------
(* The poller, its start and its end.                                      *)

\* Steps that leave the rows and every handler alone.
LEMMA RGRowsStay ==
  ASSUME RGInv, UNCHANGED <<rgRows, rgMade>>,
         \A p \in Bots : rgAt'[p] \in {"cap", "create", "bind"} <=> rgAt[p] \in {"cap", "create", "bind"},
         \A p \in Bots : rgAt[p] \in {"cap", "create", "bind"} =>
                            rgAt'[p] = rgAt[p] /\ RGSender(p)' = RGSender(p),
         rgOverlapped' = FALSE => rgOverlapped = FALSE,
         rgMishaps' = 0 => rgMishaps = 0
  PROVE  RGHands' /\ RGCount' /\ RGClientsAreBound'
<1>0. RGTyped /\ RGHands /\ RGAlone /\ RGCount /\ RGClientsAreBound /\ UNCHANGED <<rgClients, rgBinding, rgMade>>
  BY DEF RGInv, rgRows
<1>1. RGHands'
  BY <1>0 DEF RGHands
<1>2. RGBound' = RGBound /\ RGPassed' = RGPassed
  BY <1>0 DEF RGBound, RGPassed
<1>3. RGCount'
  BY <1>0, <1>2 DEF RGCount
<1>4. RGClientsAreBound'
  BY <1>0 DEF RGClientsAreBound
<1> QED BY <1>1, <1>3, <1>4

\* A batch begins behind everything that is confirmed.
LEMMA RGNumbers ==
  /\ \A f, l, u \in Nat : f <= l /\ l <= u => f + 1 \in 0..(u + 1) /\ l \in 0..u
  /\ \A l \in Nat : l <= l
  /\ \A f, l \in Nat : f < l => 1 <= f + 1 /\ f + 1 <= l /\ \A i \in 1..l : i < f + 1 => i \in 1..f
OBVIOUS

LEMMA RGFetchInv ==
  ASSUME RegistrationAssumption, RGInv, NEW p \in Bots, RGFetch(p)
  PROVE  RGInv'
<1>0. RGTyped /\ RGBatches /\ RGHands /\ RGAlone /\ rgAt[p] = "poll" /\ MaxUpdates \in Nat
  BY RGConstants DEF RGInv, RGFetch
<1>1. UNCHANGED <<rgCurrent, rgStarted, rgStopping, rgCancelled, rgOverlapped, rgFrom,
                  rgClients, rgBinding, rgOffset, rgMade, rgHandled, rgMishaps>>
  BY DEF RGFetch, rgPolls, rgRows
<1>2. /\ rgForgotten' \in {rgForgotten, rgOffset} /\ rgForgotten' \in 0..Len(rgFrom) /\ Len(rgFrom) \in Nat
      /\ Len(rgFrom) <= MaxUpdates
      /\ \A i \in 1..rgForgotten' : i \in rgHandled
  <2>1. rgForgotten' \in {rgForgotten, rgOffset}
    BY DEF RGFetch, RGConfirm
  <2>2. rgForgotten \in 0..Len(rgFrom) /\ rgOffset \in 0..Len(rgFrom) /\ Len(rgFrom) \in Nat /\ Len(rgFrom) <= MaxUpdates
    BY <1>0 DEF RGTyped
  <2>3. \A i \in 1..rgForgotten' : i \in rgHandled
    <3>1. CASE rgForgotten' = rgForgotten
      BY <1>0, <3>1 DEF RGBatches
    <3>2. CASE rgForgotten' = rgOffset
      BY <1>0, <3>2 DEF RGBatches
    <3> QED BY <2>1, <3>1, <3>2
  <2> QED BY <2>1, <2>2, <2>3
<1>3. CASE UNCHANGED <<rgAt, rgBatch>>
  <2>1. rgLeft' = rgLeft /\ rgLast' = rgLast /\ rgAt' = rgAt
    BY <1>3 DEF rgBatch
  <2>2. RGTyped' /\ RGBatches' /\ RGAlone'
    BY <1>0, <1>1, <1>2, <2>1 DEF RGTyped, RGBatches, RGAlone, RGAlive, RGSender
  <2>3. RGHands' /\ RGCount' /\ RGClientsAreBound'
    BY <1>1, <2>1, RGRowsStay DEF rgRows, RGSender
  <2> QED BY <2>2, <2>3 DEF RGInv
<1>4. CASE /\ rgForgotten' # Len(rgFrom) /\ RGGoto(p, "lookup")
           /\ rgLeft' = [rgLeft EXCEPT ![p] = rgForgotten' + 1]
           /\ rgLast' = [rgLast EXCEPT ![p] = Len(rgFrom)]
  <2>1. /\ rgAt' \in [Bots -> RGBusy \cup {"none", "poll", "store", "done"}] /\ rgAt'[p] = "lookup"
        /\ rgLeft'[p] = rgForgotten' + 1 /\ rgLast'[p] = Len(rgFrom)
        /\ \A q \in Bots : q # p => rgAt'[q] = rgAt[q] /\ rgLeft'[q] = rgLeft[q] /\ rgLast'[q] = rgLast[q]
    BY <1>0, <1>4 DEF RGTyped, RGGoto, RGBusy
  <2>2. RGTyped'
    <3>1. rgForgotten' + 1 \in 0..(MaxUpdates + 1) /\ Len(rgFrom) \in 0..MaxUpdates
      <4>1. rgForgotten' \in Nat /\ rgForgotten' <= Len(rgFrom)
        BY <1>2
      <4>2. Len(rgFrom) \in Nat /\ Len(rgFrom) <= MaxUpdates /\ MaxUpdates \in Nat
        BY <1>0, <1>2
      <4> QED BY <4>1, <4>2, RGNumbers
    <3> QED BY <1>0, <1>1, <1>2, <1>4, <2>1, <3>1 DEF RGTyped
  <2>3. RGBatches'
    <3>1. /\ 1 <= rgLeft'[p] /\ rgLeft'[p] <= rgLast'[p] /\ rgLast'[p] <= Len(rgFrom)
          /\ \A i \in 1..Len(rgFrom) : i < rgLeft'[p] => i \in rgHandled
      <4>1. rgForgotten' \in Nat /\ rgForgotten' < Len(rgFrom)
        BY <1>2, <1>4
      <4>2. /\ 1 <= rgForgotten' + 1 /\ rgForgotten' + 1 <= Len(rgFrom) /\ Len(rgFrom) <= Len(rgFrom)
            /\ \A i \in 1..Len(rgFrom) : i < rgForgotten' + 1 => i \in 1..rgForgotten'
        <5>1. Len(rgFrom) \in Nat
          BY <1>2
        <5>2. Len(rgFrom) <= Len(rgFrom)
          BY <5>1, RGNumbers
        <5>3. /\ 1 <= rgForgotten' + 1 /\ rgForgotten' + 1 <= Len(rgFrom)
              /\ \A i \in 1..Len(rgFrom) : i < rgForgotten' + 1 => i \in 1..rgForgotten'
          BY <4>1, <5>1, RGNumbers, Zenon
        <5> QED BY <5>2, <5>3
      <4> QED BY <1>2, <2>1, <4>2
    <3> QED BY <1>0, <1>1, <1>2, <2>1, <3>1 DEF RGBatches
  <2>4. RGAlive' = RGAlive
    BY <1>0, <2>1 DEF RGAlive
  <2>5. RGAlone'
    BY <1>0, <1>1, <2>1, <2>4 DEF RGAlone, RGSender
  <2>6. RGHands' /\ RGCount' /\ RGClientsAreBound'
    BY <1>0, <1>1, <2>1, RGRowsStay DEF rgRows, RGSender
  <2> QED BY <2>2, <2>3, <2>5, <2>6 DEF RGInv
<1> QED BY <1>3, <1>4 DEF RGFetch

LEMMA RGStoreInv ==
  ASSUME RegistrationAssumption, RGInv, NEW p \in Bots, RGStore(p)
  PROVE  RGInv'
<1>0. RGTyped /\ RGBatches /\ RGHands /\ RGAlone /\ rgAt[p] = "store" /\ MaxMishaps \in Nat
  BY RGConstants DEF RGInv, RGStore
<1>1. /\ UNCHANGED <<rgCurrent, rgStarted, rgStopping, rgCancelled, rgOverlapped, rgFrom, rgForgotten,
                     rgClients, rgBinding, rgMade, rgHandled, rgLeft, rgLast>>
      /\ rgAt' = [rgAt EXCEPT ![p] = "poll"]
      /\ \/ rgMishaps < MaxMishaps /\ rgMishaps' = rgMishaps + 1 /\ rgOffset' = rgOffset
         \/ rgMishaps' = rgMishaps /\ rgOffset' = rgLast[p]
  BY DEF RGStore, RGGoto, RGFault, rgPolls, rgRows, rgBatch, rgTg
<1>2. /\ rgLast[p] <= Len(rgFrom) /\ rgLast[p] \in 0..Len(rgFrom) /\ \A i \in 1..rgLast[p] : i \in rgHandled
      /\ rgMishaps \in Nat
  BY <1>0, RGConstants DEF RGBatches, RGTyped
<1>3. /\ rgAt' \in [Bots -> RGBusy \cup {"none", "poll", "store", "done"}] /\ rgAt'[p] = "poll"
      /\ \A q \in Bots : q # p => rgAt'[q] = rgAt[q]
  BY <1>0, <1>1 DEF RGTyped
<1>4. RGTyped'
  <2>1. rgOffset' \in 0..Len(rgFrom)
    BY <1>0, <1>1, <1>2 DEF RGTyped
  <2>2. rgMishaps' \in 0..MaxMishaps
    BY <1>0, <1>1, <1>2 DEF RGTyped
  <2> QED BY <1>0, <1>1, <1>3, <2>1, <2>2 DEF RGTyped
<1>5. RGBatches'
  BY <1>0, <1>1, <1>2, <1>3 DEF RGBatches, RGBusy
<1>6. RGAlive' = RGAlive
  BY <1>0, <1>3 DEF RGAlive
<1>7. RGAlone'
  BY <1>0, <1>1, <1>3, <1>6 DEF RGAlone, RGSender
<1>8. RGHands' /\ RGCount' /\ RGClientsAreBound'
  <2>1. rgMishaps' = 0 => rgMishaps = 0
    BY <1>1, <1>2
  <2> QED BY <1>0, <1>1, <1>3, <2>1, RGRowsStay DEF rgRows, RGSender
<1> QED BY <1>4, <1>5, <1>7, <1>8 DEF RGInv

\* A cancelled poller ends, and StopBot cancels and waits.
LEMMA RGStopsInv ==
  ASSUME RegistrationAssumption, RGInv, RGStop \/ RGStopReturns \/ \E p \in Bots : RGEnd(p)
  PROVE  RGInv'
<1>0. RGTyped /\ RGBatches /\ RGHands /\ RGAlone
  BY DEF RGInv
<1>1. UNCHANGED <<rgStarted, rgOverlapped, rgFrom, rgForgotten, rgOffset, rgClients, rgBinding, rgMade, rgHandled,
                  rgLeft, rgLast, rgMishaps>>
  BY DEF RGStop, RGStopReturns, RGEnd, rgPolls, rgRows, rgBatch, rgTg
<1>2. /\ rgAt' \in [Bots -> RGBusy \cup {"none", "poll", "store", "done"}]
      /\ \A q \in Bots : rgAt'[q] = rgAt[q] \/ (rgAt[q] = "poll" /\ rgAt'[q] = "done")
  BY <1>0 DEF RGStop, RGStopReturns, RGEnd, RGGoto, RGTyped
<1>3. /\ rgCurrent' \in 0..Pollers /\ rgStopping' \in 0..Pollers /\ rgCancelled' \in [Bots -> BOOLEAN]
  <2>0. /\ rgCurrent \in 0..Pollers /\ rgStopping \in 0..Pollers /\ rgCancelled \in [Bots -> BOOLEAN]
        /\ 0 \in 0..Pollers
    BY <1>0, RGConstants DEF RGTyped
  <2>1. CASE RGStop
    BY <2>0, <2>1 DEF RGStop
  <2>2. CASE RGStopReturns
    BY <2>0, <2>2 DEF RGStopReturns
  <2>3. CASE \E p \in Bots : RGEnd(p)
    BY <2>0, <2>3 DEF RGEnd, rgPolls
  <2> QED BY <2>1, <2>2, <2>3
<1>4. RGTyped'
  BY <1>0, <1>1, <1>2, <1>3 DEF RGTyped
<1>5. RGBatches'
  BY <1>0, <1>1, <1>2 DEF RGBatches, RGBusy
<1>6. RGAlive' \subseteq RGAlive
  BY <1>2 DEF RGAlive
<1>7. RGAlone'
  BY <1>0, <1>1, <1>2, <1>6 DEF RGAlone, RGSender
<1>8. RGHands' /\ RGCount' /\ RGClientsAreBound'
  BY <1>1, <1>2, RGRowsStay DEF rgRows, RGSender
<1> QED BY <1>4, <1>5, <1>7, <1>8 DEF RGInv

LEMMA RGStartInv ==
  ASSUME RegistrationAssumption, RGInv, RGStart
  PROVE  RGInv'
<1> DEFINE n == rgStarted + 1
<1>0. RGTyped /\ RGBatches /\ RGHands /\ RGAlone /\ Pollers \in Nat
  BY RGConstants DEF RGInv
<1>1. /\ UNCHANGED <<rgFrom, rgForgotten, rgOffset, rgClients, rgBinding, rgMade, rgHandled, rgLeft, rgLast, rgMishaps,
                     rgStopping, rgCancelled>>
      /\ rgStarted < Pollers /\ rgStarted' = n /\ rgCurrent' = n /\ rgAt' = [rgAt EXCEPT ![n] = "poll"]
      /\ rgOverlapped' = (rgOverlapped \/ RGAlive # {})
  BY DEF RGStart, RGGoto, rgRows, rgBatch, rgTg
<1>2. n \in Bots /\ rgAt[n] = "none" /\ n \in 1..Pollers /\ rgStarted \in Nat
  BY <1>0, <1>1 DEF RGTyped, RGAlone, Bots
<1>3. /\ rgAt' \in [Bots -> RGBusy \cup {"none", "poll", "store", "done"}] /\ rgAt'[n] = "poll"
      /\ \A q \in Bots : q # n => rgAt'[q] = rgAt[q]
  BY <1>0, <1>1, <1>2 DEF RGTyped
<1>4. RGTyped'
  <2>1. n \in 0..Pollers /\ rgOverlapped' \in BOOLEAN
    BY <1>0, <1>1, <1>2 DEF RGTyped
  <2> QED BY <1>0, <1>1, <1>2, <1>3, <2>1 DEF RGTyped
<1>5. RGBatches'
  BY <1>0, <1>1, <1>3 DEF RGBatches, RGBusy
<1>6. RGAlive' = RGAlive \cup {n}
  BY <1>2, <1>3 DEF RGAlive
<1>7. \A p \in Bots : p > n => rgAt'[p] = "none"
  BY <1>0, <1>2, <1>3 DEF RGAlone, Bots
<1>8. RGAlone'
  BY <1>0, <1>1, <1>2, <1>3, <1>6, <1>7 DEF RGAlone, RGSender
<1>9. RGHands' /\ RGCount' /\ RGClientsAreBound'
  <2>1. rgOverlapped' = FALSE => rgOverlapped = FALSE
    BY <1>0, <1>1 DEF RGTyped
  <2>2. UNCHANGED <<rgRows, rgMade>> /\ \A p \in Bots : RGSender(p)' = RGSender(p)
    BY <1>1 DEF rgRows, RGSender
  <2>3. \A p \in Bots : p # n \/ (rgAt[p] \notin {"cap", "create", "bind"} /\ rgAt'[p] \notin {"cap", "create", "bind"})
    BY <1>2, <1>3
  <2> QED BY <1>1, <1>3, <2>1, <2>2, <2>3, RGRowsStay
<1> QED BY <1>4, <1>5, <1>8, <1>9 DEF RGInv

\* The process dies: every poller that was at work is gone, with what it had made.
LEMMA RGCrashInv ==
  ASSUME RegistrationAssumption, RGInv, RGCrash
  PROVE  RGInv'
<1> DEFINE n == rgStarted + 1
<1>0. /\ RGTyped /\ RGBatches /\ RGHands /\ RGAlone /\ RGCount
      /\ Pollers \in Nat /\ MaxMishaps \in Nat /\ MaxClients \in Nat
  BY RGConstants DEF RGInv
<1>1. /\ UNCHANGED <<rgFrom, rgForgotten, rgOffset, rgClients, rgBinding, rgHandled, rgLeft, rgLast,
                     rgCancelled, rgOverlapped>>
      /\ rgMishaps < MaxMishaps /\ rgMishaps' = rgMishaps + 1
      /\ rgStarted < Pollers /\ rgStarted' = n /\ rgCurrent' = n /\ rgStopping' = 0
      /\ rgAt' = [p \in Bots |-> IF p = n THEN "poll" ELSE IF rgAt[p] = "none" THEN "none" ELSE "done"]
      /\ rgMade' = [p \in Bots |-> 0]
  BY DEF RGCrash, RGFault, rgRows, rgBatch, rgTg
<1>2. n \in Bots /\ rgAt[n] = "none" /\ n \in 1..Pollers /\ rgStarted \in Nat /\ rgMishaps \in Nat
  BY <1>0, <1>1 DEF RGTyped, RGAlone, Bots
<1>3. /\ rgAt' \in [Bots -> RGBusy \cup {"none", "poll", "store", "done"}] /\ rgAt'[n] = "poll"
      /\ \A q \in Bots : q # n => rgAt'[q] \in {"none", "done"} /\ (rgAt[q] = "none" => rgAt'[q] = "none")
  BY <1>0, <1>1, <1>2 DEF RGTyped
<1>4. RGTyped'
  <2>1. rgMade' \in [Bots -> 0..Len(rgClients)] /\ rgMishaps' \in 0..MaxMishaps
    BY <1>0, <1>1, <1>2 DEF RGTyped
  <2> QED BY <1>0, <1>1, <1>2, <1>3, <2>1 DEF RGTyped
<1>5. RGBatches'
  BY <1>0, <1>1, <1>3 DEF RGBatches, RGBusy
<1>6. RGAlive' = {n}
  BY <1>2, <1>3 DEF RGAlive
<1>7. \A p \in Bots : p > n => rgAt'[p] = "none"
  BY <1>0, <1>2, <1>3 DEF RGAlone, Bots
<1>8. RGAlone'
  BY <1>1, <1>3, <1>6, <1>7 DEF RGAlone
<1>9. RGHands' /\ RGClientsAreBound'
  BY <1>1, <1>2, <1>3 DEF RGHands, RGClientsAreBound
<1>10. RGCount'
  <2>1. RGBound' = RGBound /\ RGPassed' = {}
    BY <1>1, <1>3 DEF RGBound, RGPassed
  <2>2. Cardinality(RGPassed') = 0
    BY <2>1, FS_EmptySet
  <2>3. Cardinality(RGPassed) \in Nat /\ Cardinality(RGBound) \in Nat
    BY <1>0, RGPassedFacts, FS_CardinalityType DEF RGCount
  <2> QED BY <1>0, <1>1, <2>1, <2>2, <2>3 DEF RGCount
<1> QED BY <1>4, <1>5, <1>8, <1>9, <1>10 DEF RGInv

\* An update arrives behind all others.
LEMMA RGSendInv ==
  ASSUME RegistrationAssumption, RGInv, NEW u \in Senders, RGSend(u)
  PROVE  RGInv'
<1>0. RGTyped /\ RGBatches /\ RGHands /\ RGAlone /\ MaxUpdates \in Nat
  BY RGConstants DEF RGInv
<1>1. /\ Len(rgFrom) < MaxUpdates /\ rgFrom' = Append(rgFrom, u)
      /\ UNCHANGED <<rgCurrent, rgStarted, rgStopping, rgCancelled, rgOverlapped, rgForgotten, rgOffset,
                     rgClients, rgBinding, rgMade, rgHandled, rgLeft, rgLast, rgMishaps, rgAt>>
  BY DEF RGSend, rgPolls, rgRows, rgBatch
<1>2. /\ rgFrom' \in Seq(Senders) /\ Len(rgFrom') = Len(rgFrom) + 1 /\ Len(rgFrom) \in Nat
      /\ \A i \in 1..Len(rgFrom) : rgFrom'[i] = rgFrom[i]
  BY <1>0, <1>1 DEF RGTyped
<1>3. RGTyped'
  <2>1. Len(rgFrom') <= MaxUpdates
    BY <1>0, <1>1, <1>2
  <2>2. rgForgotten \in 0..Len(rgFrom') /\ rgOffset \in 0..Len(rgFrom') /\ rgHandled \subseteq 1..Len(rgFrom')
    BY <1>0, <1>2 DEF RGTyped
  <2> QED BY <1>0, <1>1, <1>2, <2>1, <2>2 DEF RGTyped
<1>4. \A p \in Bots : rgAt[p] \in RGBusy => RGSender(p)' = RGSender(p)
  <2> SUFFICES ASSUME NEW p \in Bots, rgAt[p] \in RGBusy PROVE rgFrom'[rgLeft[p]] = rgFrom[rgLeft[p]]
    BY <1>1 DEF RGSender
  <2>1. rgLeft[p] \in 1..Len(rgFrom)
    BY <1>0 DEF RGTyped, RGBatches
  <2> QED BY <1>2, <2>1
<1>5. RGBatches'
  <2>1. ASSUME NEW p \in Bots, rgAt[p] \in RGBusy
        PROVE  /\ 1 <= rgLeft[p] /\ rgLeft[p] <= rgLast[p] /\ rgLast[p] <= Len(rgFrom')
               /\ \A i \in 1..Len(rgFrom') : i < rgLeft[p] => i \in rgHandled
    <3>1. /\ 1 <= rgLeft[p] /\ rgLeft[p] <= rgLast[p] /\ rgLast[p] <= Len(rgFrom)
          /\ \A i \in 1..Len(rgFrom) : i < rgLeft[p] => i \in rgHandled
      BY <1>0, <2>1 DEF RGBatches
    <3>2. rgLeft[p] \in Nat /\ rgLast[p] \in Nat
      BY <1>0, <2>1 DEF RGTyped
    <3> QED BY <1>2, <3>1, <3>2
  <2>2. ASSUME NEW p \in Bots, rgAt[p] = "store" PROVE rgLast[p] <= Len(rgFrom')
    <3>1. rgLast[p] <= Len(rgFrom) /\ rgLast[p] \in Nat
      BY <1>0, <2>2 DEF RGBatches, RGTyped
    <3> QED BY <1>2, <3>1
  <2> QED BY <1>0, <1>1, <2>1, <2>2 DEF RGBatches
<1>6. RGAlone'
  BY <1>0, <1>1, <1>4 DEF RGAlone, RGAlive, RGBusy
<1>7. RGHands' /\ RGCount' /\ RGClientsAreBound'
  BY <1>1, <1>4, RGRowsStay DEF rgRows, RGBusy
<1> QED BY <1>3, <1>5, <1>6, <1>7 DEF RGInv

LEMMA RGNextInv == RegistrationAssumption /\ RGInv /\ [RGNext]_rgVars => RGInv'
<1> SUFFICES ASSUME RegistrationAssumption, RGInv, [RGNext]_rgVars PROVE RGInv'
  OBVIOUS
<1>0. RGTyped /\ MaxMishaps \in Nat
  BY RGConstants DEF RGInv
<1>1. RGFault => rgMishaps' \in 0..MaxMishaps /\ (rgMishaps' = 0 => rgMishaps = 0)
  BY <1>0 DEF RGFault, RGTyped
<1>2. UNCHANGED rgMishaps => rgMishaps' \in 0..MaxMishaps /\ (rgMishaps' = 0 => rgMishaps = 0)
  BY <1>0 DEF RGTyped
<1>3. ASSUME NEW p \in Bots, RGLookup(p) PROVE RGInv'
  BY <1>1, <1>2, <1>3, RGDoneInv, RGUnknownInv DEF RGLookup
<1>4. ASSUME NEW p \in Bots, RGCap(p) PROVE RGInv'
  BY <1>1, <1>2, <1>4, RGDoneInv, RGRoomInv DEF RGCap
<1>5. ASSUME NEW p \in Bots, RGCreate(p) PROVE RGInv'
  BY <1>1, <1>5, RGDoneInv, RGCreatedInv DEF RGCreate, rgRows
<1>6. CASE UNCHANGED rgVars
  <2>1. UNCHANGED <<rgFrom, rgForgotten, rgOffset, rgCurrent, rgStarted, rgStopping, rgAt, rgCancelled, rgLeft, rgLast,
                    rgMade, rgClients, rgBinding, rgHandled, rgOverlapped, rgMishaps>>
    BY <1>6 DEF rgVars, rgPolls, rgBatch, rgTg, rgRows
  <2>2. RGTyped' /\ RGBatches' /\ RGAlone'
    BY <2>1 DEF RGInv, RGTyped, RGBatches, RGAlone, RGAlive, RGSender
  <2>3. RGHands' /\ RGCount' /\ RGClientsAreBound'
    BY <2>1, RGRowsStay DEF rgRows, RGSender
  <2> QED BY <2>2, <2>3 DEF RGInv
<1> QED BY <1>3, <1>4, <1>5, <1>6, RGSendInv, RGFetchInv, RGBindInv, RGStoreInv, RGStopsInv, RGStartInv, RGCrashInv DEF RGNext

\* What Telegram newly forgets lies before the stored offset.
LEMMA RGForgetFacts ==
  ASSUME RGInv, [RGNext]_rgVars, NEW i \in (rgForgotten + 1)..rgForgotten'
  PROVE  i \in rgHandled
<1>0. RGTyped /\ RGBatches
  BY DEF RGInv
<1>1. rgForgotten \in Nat /\ rgOffset \in Nat
  BY <1>0 DEF RGTyped
<1>2. rgForgotten' # rgForgotten
  BY <1>1
<1>3. PICK p \in Bots : RGFetch(p)
  BY <1>2 DEF RGNext, rgVars, rgTg, RGSend, RGLookup, RGCap, RGCreate, RGBind, RGStore, RGEnd, RGStart, RGStop,
     RGStopReturns, RGCrash
<1>4. rgForgotten' = rgOffset
  BY <1>2, <1>3 DEF RGFetch, RGConfirm
<1>5. i \in 1..rgOffset
  BY <1>1, <1>4
<1> QED BY <1>0, <1>5 DEF RGBatches

\* Bindings are written for the sender in hand, who had none.
LEMMA RGStayFacts ==
  ASSUME RegistrationAssumption, RGInv, [RGNext]_rgVars, NEW u \in Senders, rgBinding[u] # 0, ~rgOverlapped'
  PROVE  rgBinding'[u] = rgBinding[u]
<1> SUFFICES ASSUME rgBinding' # rgBinding PROVE rgBinding'[u] = rgBinding[u]
  OBVIOUS
<1>0. RGTyped /\ RGAlone
  BY DEF RGInv
<1>1. PICK p \in Bots : RGBind(p)
  BY DEF RGNext, rgVars, rgRows, RGSend, RGFetch, RGLookup, RGCap, RGCreate, RGStore, RGEnd, RGStart, RGStop,
     RGStopReturns, RGCrash
<1>2. rgBinding' = [rgBinding EXCEPT ![RGSender(p)] = rgMade[p]] /\ rgOverlapped' = rgOverlapped /\ rgAt[p] = "bind"
  BY <1>1 DEF RGBind, rgPolls
<1>3. rgBinding[RGSender(p)] = 0
  BY <1>0, <1>2 DEF RGAlone
<1> QED BY <1>0, <1>2, <1>3 DEF RGTyped

\* No /start is forgotten before its handler has run, the cap is exceeded at most by
\* the pollers that counted at the same time, every client is bound to its sender,
\* and a subscription is never taken away (paidsub/bot.go, autoregister.go): for any
\* senders, pollers, cap, updates and faults.
THEOREM SubscribersAreKept ==
  RGInit /\ [][RGNext]_rgVars => RGSubscribersAreKept
<1>1. RGInit => RGInv
  BY RegistrationAssumption, RGInitInv
<1>2. RGInv /\ [RGNext]_rgVars => RGInv'
  BY RegistrationAssumption, RGNextInv
<1>3. RGInv => RGTypeOK /\ RGCapHolds /\ RGClientsAreBound
  BY RegistrationAssumption, RGInvImplies
<1>4. RGInv /\ [RGNext]_rgVars => [\A i \in (rgForgotten + 1)..rgForgotten' : i \in rgHandled]_rgVars
  BY RGForgetFacts
<1>5. RGInv /\ [RGNext]_rgVars =>
        [\A u \in Senders : rgBinding[u] # 0 /\ ~rgOverlapped' => rgBinding'[u] = rgBinding[u]]_rgVars
  BY RegistrationAssumption, RGStayFacts
<1> QED BY <1>1, <1>2, <1>3, <1>4, <1>5, PTL DEF RGSubscribersAreKept, RGForgetsHandled, RGBindingsStay

-----------------------------------------------------------------------------
(***************************************************************************)
(* The managed certificate.  ICServedIsValid needs the margin that is left *)
(* between two issuances, counted in the refusals so far, and that an      *)
(* issuance leaves no loadable pair behind that is older than that.        *)
(***************************************************************************)

ICWrites == {"crt", "key", "target", "last", "left", "webCert", "webKey"}

\* What an issuance has done before its next write.
ICProgress ==
    /\ icAt # "idle" => icIP \in Hosts
    /\ icAt = "idle" => ~icCli
    /\ icAt \in {"key", "target", "last", "left", "webCert", "webKey", "restart"} => icFiles[icIP].left = Life
    /\ icAt \in {"target", "last", "left", "webCert", "webKey", "restart"} => icFiles[icIP].whole
    /\ icAt \in {"last", "left", "webCert", "webKey", "restart"} => icTarget # NoHost
    /\ icAt \in {"left", "webCert", "webKey", "restart"} => icLast = icIP
    /\ icAt \in {"webCert", "webKey", "restart"} => icLeft = Life
    /\ icAt \in {"webKey", "restart"} => icWebCert = icIP
    /\ icAt = "restart" => icWebKey = icIP

\* Between two issuances everything names the same pair, and each refusal has
\* cost it one pass below the threshold at most.
ICSettled ==
    /\ icWebCert = icLast /\ icWebKey = icLast
    /\ icLast # NoHost =>
         /\ icTarget # NoHost /\ icFiles[icLast].whole /\ icFiles[icLast].left = icLeft
         /\ icLeft + icRefused + (IF icAt = "idle" THEN 0 ELSE 1) >= RenewBelow
    /\ icServed.ip # NoHost => icServed.ip = icLast /\ icServed.left = icLeft
    /\ icPanel = "up" \/ icCli

\* Within an issuance: what is served and what a restart could load is valid.
ICHalfWay ==
    /\ icServed.ip # NoHost => icServed.left > 0
    /\ \A a \in Hosts : icWebCert = a /\ icWebKey = a /\ icFiles[a].whole => icFiles[a].left > 0

ICCalm == icIncidents = 0 => IF icAt \in {"idle", "obtain"} THEN ICSettled ELSE ICHalfWay

ICInv == ICTypeOK /\ ICProgress /\ ICCalm /\ ICStoredIsTrue

LEMMA ICWritesAre == DOMAIN ICAfter = ICWrites
BY DEF ICAfter, ICWrites

\* The types, one by one.
LEMMA ICTypes ==
  ASSUME ICTypeOK
  PROVE  /\ icTarget \in ICMaybe /\ icLast \in ICMaybe /\ icWebCert \in ICMaybe /\ icWebKey \in ICMaybe
         /\ icLeft \in 0..Life /\ icFiles \in [Hosts -> [left : 0..Life, whole : BOOLEAN]]
         /\ icServed \in [ip : ICMaybe, left : 0..Life] /\ icPanel \in {"up", "down", "dead"}
         /\ icCli \in BOOLEAN /\ icIP \in ICMaybe
         /\ icAt \in ICWrites \cup {"idle", "obtain", "restart"}
         /\ icRefused \in 0..MaxRefused /\ icMoves \in 0..MaxMoves /\ icIncidents \in 0..MaxIncidents
BY ICWritesAre DEF ICTypeOK

LEMMA ICTyped ==
  ASSUME icTarget \in ICMaybe, icLast \in ICMaybe, icWebCert \in ICMaybe, icWebKey \in ICMaybe,
         icLeft \in 0..Life, icFiles \in [Hosts -> [left : 0..Life, whole : BOOLEAN]],
         icServed \in [ip : ICMaybe, left : 0..Life], icPanel \in {"up", "down", "dead"},
         icCli \in BOOLEAN, icIP \in ICMaybe, icAt \in ICWrites \cup {"idle", "obtain", "restart"},
         icRefused \in 0..MaxRefused, icMoves \in 0..MaxMoves, icIncidents \in 0..MaxIncidents
  PROVE  ICTypeOK
BY ICWritesAre DEF ICTypeOK

\* What the constants are.
LEMMA ICConstants ==
  ASSUME IpCertificateAssumption
  PROVE  /\ Life \in Nat /\ RenewBelow \in Nat /\ MaxRefused \in Nat /\ MaxMoves \in Nat /\ MaxIncidents \in Nat
         /\ MaxRefused + 1 < RenewBelow /\ RenewBelow < Life /\ NoHost \notin Hosts
BY DEF IpCertificateAssumption

\* What the web server has after it was started.
LEMMA ICLoadFacts ==
  ASSUME IpCertificateAssumption, ICTypeOK, NEW else \in {"down", "dead"}, ICLoad(else)
  PROVE  /\ icServed' \in [ip : ICMaybe, left : 0..Life] /\ icPanel' \in {"up", "down", "dead"}
         /\ icServed'.ip # NoHost =>
              /\ icServed'.ip = icWebCert /\ icWebCert = icWebKey /\ icWebCert \in Hosts
              /\ icFiles[icWebCert].whole /\ icServed'.left = icFiles[icWebCert].left
         /\ icWebCert = icWebKey /\ (icWebCert # NoHost => icFiles[icWebCert].whole) => icPanel' = "up"
<1>0. /\ icWebCert \in ICMaybe /\ icWebKey \in ICMaybe
      /\ icFiles \in [Hosts -> [left : 0..Life, whole : BOOLEAN]]
  BY ICTypes
<1>1. CASE icWebCert = NoHost /\ icWebKey = NoHost
  <2>1. icServed' = ICPlain /\ icPanel' = "up"
    BY <1>1 DEF ICLoad
  <2>2. 0 \in 0..Life
    BY ICConstants
  <2> QED BY <2>1, <2>2 DEF ICPlain, ICMaybe
<1>2. CASE icWebCert # NoHost /\ icWebCert = icWebKey /\ icFiles[icWebCert].whole
  <2>1. icServed' = [ip |-> icWebCert, left |-> icFiles[icWebCert].left] /\ icPanel' = "up"
    BY <1>2 DEF ICLoad
  <2>2. icWebCert \in Hosts
    BY <1>0, <1>2 DEF ICMaybe
  <2>3. icFiles[icWebCert].left \in 0..Life
    BY <1>0, <2>2
  <2> QED BY <1>0, <1>2, <2>1, <2>2, <2>3
<1>3. CASE /\ ~(icWebCert = NoHost /\ icWebKey = NoHost)
           /\ ~(icWebCert # NoHost /\ icWebCert = icWebKey /\ icFiles[icWebCert].whole)
  <2>1. icServed' = ICPlain /\ icPanel' = else
    BY <1>3 DEF ICLoad
  <2>2. 0 \in 0..Life
    BY ICConstants
  <2> QED BY <1>3, <2>1, <2>2 DEF ICPlain, ICMaybe
<1> QED BY <1>1, <1>2, <1>3

LEMMA ICInitInv == ASSUME IpCertificateAssumption, ICInit PROVE ICInv
<1>1. 0 \in 0..Life /\ 0 \in 0..MaxRefused /\ 0 \in 0..MaxMoves /\ 0 \in 0..MaxIncidents /\ NoHost \in ICMaybe
  BY ICConstants DEF ICMaybe
<1>2. ICTypeOK
  BY <1>1, ICTyped DEF ICInit, ICPlain
<1> QED BY <1>2 DEF ICInit, ICInv, ICProgress, ICCalm, ICSettled, ICPlain, ICStoredIsTrue

\* A restart that writes nothing keeps what an issuance, or its absence, is
\* about.
LEMMA ICRestartInv ==
  ASSUME IpCertificateAssumption, ICInv, ICRestart
  PROVE  ICInv'
<1>0. ICTypeOK /\ ICProgress /\ ICCalm /\ ICStoredIsTrue
  BY DEF ICInv
<1>1. /\ ~icCli /\ ICLoad("down")
      /\ UNCHANGED <<icFiles, icTarget, icLast, icLeft, icWebCert, icWebKey, icAt, icIP, icCli, icRefused,
                     icMoves, icIncidents>>
  BY DEF ICRestart, icPairs, icSettings, icJob
<1>2. /\ icServed' \in [ip : ICMaybe, left : 0..Life] /\ icPanel' \in {"up", "down", "dead"}
      /\ icServed'.ip # NoHost =>
           /\ icServed'.ip = icWebCert /\ icWebCert = icWebKey /\ icWebCert \in Hosts
           /\ icFiles[icWebCert].whole /\ icServed'.left = icFiles[icWebCert].left
      /\ icWebCert = icWebKey /\ (icWebCert # NoHost => icFiles[icWebCert].whole) => icPanel' = "up"
  BY <1>0, <1>1, ICLoadFacts
<1>3. ICTypeOK'
  BY <1>0, <1>1, <1>2 DEF ICTypeOK
<1>4. ICProgress' /\ ICStoredIsTrue'
  BY <1>0, <1>1 DEF ICProgress, ICStoredIsTrue
<1>5. ICCalm'
  BY <1>0, <1>1, <1>2 DEF ICCalm, ICSettled, ICHalfWay
<1> QED BY <1>3, <1>4, <1>5 DEF ICInv

LEMMA ICRetargetInv ==
  ASSUME IpCertificateAssumption, ICInv, NEW a \in Hosts, ICRetarget(a)
  PROVE  ICInv'
<1>0. ICTypeOK /\ ICProgress /\ ICCalm /\ ICStoredIsTrue /\ a # NoHost
  BY ICConstants DEF ICInv
<1>1. /\ icTarget' = a /\ icMoves < MaxMoves /\ icMoves' = icMoves + 1
      /\ UNCHANGED <<icFiles, icLast, icLeft, icWebCert, icWebKey, icServed, icPanel, icAt, icIP, icCli, icRefused,
                     icIncidents>>
  BY DEF ICRetarget, icJob
<1>2. icMoves' \in 0..MaxMoves /\ icTarget' \in ICMaybe
  BY <1>0, <1>1, ICTypes, ICConstants DEF ICMaybe
<1>3. ICTypeOK'
  <2>1. {icTarget', icLast', icWebCert', icWebKey'} \subseteq ICMaybe
    BY <1>0, <1>1, <1>2, ICTypes
  <2> QED BY <1>0, <1>1, <1>2, <2>1 DEF ICTypeOK
<1>4. ICProgress' /\ ICStoredIsTrue'
  BY <1>0, <1>1 DEF ICProgress, ICStoredIsTrue
<1>5. ICCalm'
  BY <1>0, <1>1 DEF ICCalm, ICSettled, ICHalfWay
<1> QED BY <1>3, <1>4, <1>5 DEF ICInv

\* A pass of time.
LEMMA ICPassInv ==
  ASSUME IpCertificateAssumption, ICInv, ICPass
  PROVE  ICInv'
<1>0. /\ ICTypeOK /\ ICProgress /\ ICCalm /\ ICStoredIsTrue
      /\ Life \in Nat /\ RenewBelow \in Nat /\ MaxRefused \in Nat /\ MaxRefused + 1 < RenewBelow /\ NoHost \notin Hosts
  BY ICConstants DEF ICInv
<1>1. /\ icAt = "idle" /\ icLeft' = ICAge(icLeft)
      /\ icFiles' = [a \in Hosts |-> [icFiles[a] EXCEPT !.left = ICAge(icFiles[a].left)]]
      /\ icServed' = [icServed EXCEPT !.left = ICAge(icServed.left)]
      /\ \/ icPanel # "dead" /\ ICNeeded(icLeft') /\ icAt' = "obtain" /\ icIP' = icTarget
         \/ ~(icPanel # "dead" /\ ICNeeded(icLeft')) /\ UNCHANGED <<icAt, icIP>>
      /\ UNCHANGED <<icTarget, icLast, icWebCert, icWebKey, icPanel, icCli, icRefused, icMoves, icIncidents>>
  BY DEF ICPass
<1>2. \A n \in 0..Life : ICAge(n) \in 0..Life /\ ICAge(n) <= n /\ (n > 0 => ICAge(n) = n - 1)
  BY <1>0 DEF ICAge
<1>3. \A m, n \in 0..Life : m <= n => ICAge(m) <= ICAge(n)
  BY <1>0 DEF ICAge
<1>4. /\ icFiles \in [Hosts -> [left : 0..Life, whole : BOOLEAN]] /\ icLeft \in 0..Life
      /\ icServed \in [ip : ICMaybe, left : 0..Life] /\ icLast \in ICMaybe /\ icRefused \in 0..MaxRefused
      /\ icTarget \in ICMaybe
  BY <1>0, ICTypes
<1>5. /\ icFiles' \in [Hosts -> [left : 0..Life, whole : BOOLEAN]]
      /\ \A a \in Hosts : icFiles'[a].whole = icFiles[a].whole /\ icFiles'[a].left = ICAge(icFiles[a].left)
  <2>1. \A a \in Hosts : icFiles[a] \in [left : 0..Life, whole : BOOLEAN]
    BY <1>4
  <2>2. \A a \in Hosts : /\ [icFiles[a] EXCEPT !.left = ICAge(icFiles[a].left)] \in [left : 0..Life, whole : BOOLEAN]
                         /\ [icFiles[a] EXCEPT !.left = ICAge(icFiles[a].left)].whole = icFiles[a].whole
                         /\ [icFiles[a] EXCEPT !.left = ICAge(icFiles[a].left)].left = ICAge(icFiles[a].left)
    BY <1>2, <2>1
  <2> QED BY <1>1, <2>2
<1>6. /\ icServed' \in [ip : ICMaybe, left : 0..Life] /\ icServed'.ip = icServed.ip
      /\ icServed'.left = ICAge(icServed.left)
  BY <1>1, <1>2, <1>4
<1>7. icLeft' \in 0..Life /\ icAt' \in {"idle", "obtain"} /\ icIP' \in ICMaybe
  BY <1>0, <1>1, <1>2, <1>4, ICTypes
<1>8. ICTypeOK'
  <2>1. {icTarget', icLast', icWebCert', icWebKey'} \subseteq ICMaybe
    BY <1>0, <1>1, ICTypes
  <2> QED BY <1>0, <1>1, <1>5, <1>6, <1>7, <2>1 DEF ICTypeOK
<1>9. ICProgress'
  <2>1. icAt' = "obtain" => icIP' \in Hosts
    BY <1>1, <1>4 DEF ICNeeded, ICMaybe
  <2> QED BY <1>0, <1>1, <1>7, <2>1 DEF ICProgress
<1>10. ICStoredIsTrue'
  <2> SUFFICES ASSUME icLast # NoHost PROVE icLeft' <= icFiles'[icLast].left
    BY <1>1 DEF ICStoredIsTrue
  <2>1. icLast \in Hosts /\ icFiles[icLast].left \in 0..Life /\ icLeft <= icFiles[icLast].left
    BY <1>0, <1>4 DEF ICMaybe, ICStoredIsTrue
  <2> QED BY <1>1, <1>3, <1>4, <1>5, <2>1
<1>11. ICCalm'
  <2> SUFFICES ASSUME icIncidents = 0 PROVE ICSettled'
    BY <1>1, <1>7 DEF ICCalm
  <2>1. ICSettled /\ ~icCli /\ icPanel = "up"
    BY <1>0, <1>1 DEF ICCalm, ICSettled, ICProgress
  <2>2. icLast # NoHost =>
          /\ icFiles'[icLast].whole /\ icFiles'[icLast].left = icLeft'
          /\ icLeft' + icRefused + (IF icAt' = "idle" THEN 0 ELSE 1) >= RenewBelow
    <3> SUFFICES ASSUME icLast # NoHost
                 PROVE  /\ icFiles'[icLast].whole /\ icFiles'[icLast].left = icLeft'
                        /\ icLeft' + icRefused + (IF icAt' = "idle" THEN 0 ELSE 1) >= RenewBelow
      OBVIOUS
    <3>1. icLast \in Hosts /\ icTarget # NoHost /\ icFiles[icLast].whole /\ icFiles[icLast].left = icLeft
      BY <1>4, <2>1 DEF ICMaybe, ICSettled
    <3>2. icLeft + icRefused >= RenewBelow /\ icLeft \in Nat /\ icRefused \in Nat /\ icRefused <= MaxRefused
      BY <1>0, <1>1, <1>4, <2>1 DEF ICSettled
    <3>3. icLeft > 0
      BY <1>0, <3>2
    <3>4. icLeft' = icLeft - 1
      BY <1>1, <1>2, <1>4, <3>3
    <3>5. icAt' = "idle" => icLeft' >= RenewBelow
      BY <1>0, <1>1, <1>7, <2>1, <3>1 DEF ICNeeded, ICDue
    <3>6. icLeft' + icRefused + (IF icAt' = "idle" THEN 0 ELSE 1) >= RenewBelow
      BY <1>0, <3>2, <3>4, <3>5
    <3> QED BY <1>1, <1>5, <3>1, <3>6
  <2>3. icServed'.ip # NoHost => icServed'.ip = icLast /\ icServed'.left = icLeft'
    BY <1>1, <1>6, <2>1 DEF ICSettled
  <2> QED BY <1>1, <2>1, <2>2, <2>3 DEF ICSettled
<1> QED BY <1>8, <1>9, <1>10, <1>11 DEF ICInv

\* An issuance begins in the command line.
LEMMA ICCommandInv ==
  ASSUME IpCertificateAssumption, ICInv, NEW a \in Hosts, ICCommand(a)
  PROVE  ICInv'
<1>0. ICTypeOK /\ ICProgress /\ ICCalm /\ ICStoredIsTrue /\ Life \in Nat /\ RenewBelow \in Nat
  BY ICConstants DEF ICInv
<1>1. /\ icAt = "idle" /\ icAt' = "obtain" /\ icIP' = a /\ icCli' = TRUE /\ icPanel' = "dead" /\ icServed' = ICPlain
      /\ icMoves < MaxMoves /\ icMoves' = icMoves + 1
      /\ UNCHANGED <<icFiles, icTarget, icLast, icLeft, icWebCert, icWebKey, icRefused, icIncidents>>
  BY DEF ICCommand, icPairs, icSettings
<1>2. icServed' \in [ip : ICMaybe, left : 0..Life] /\ icServed'.ip = NoHost
  BY <1>0, <1>1 DEF ICPlain, ICMaybe
<1>3. icMoves' \in 0..MaxMoves /\ icIP' \in ICMaybe /\ icLeft \in Nat /\ icRefused \in Nat
  BY <1>0, <1>1, ICTypes, ICConstants DEF ICMaybe
<1>4. ICTypeOK'
  BY <1>0, <1>1, <1>2, <1>3 DEF ICTypeOK
<1>5. ICProgress' /\ ICStoredIsTrue'
  BY <1>0, <1>1 DEF ICProgress, ICStoredIsTrue
<1>6. ICCalm'
  BY <1>0, <1>1, <1>2, <1>3 DEF ICCalm, ICSettled
<1> QED BY <1>4, <1>5, <1>6 DEF ICInv

\* The authority issues: what was left is still valid.
LEMMA ICIssuedInv ==
  ASSUME IpCertificateAssumption, ICInv, icAt = "obtain", icAt' = "crt", icRefused' = 0,
         UNCHANGED <<icIP, icCli, icServed, icPanel, icPairs, icMoves, icIncidents>>
  PROVE  ICInv'
<1>0. /\ ICTypeOK /\ ICProgress /\ ICCalm /\ ICStoredIsTrue /\ NoHost \notin Hosts
      /\ RenewBelow \in Nat /\ MaxRefused \in Nat /\ MaxRefused + 1 < RenewBelow
  BY ICConstants DEF ICInv
<1>1. UNCHANGED <<icFiles, icTarget, icLast, icLeft, icWebCert, icWebKey>>
  BY DEF icPairs, icSettings
<1>2. 0 \in 0..MaxRefused /\ icLeft \in Nat /\ icRefused \in Nat /\ icRefused <= MaxRefused
  BY <1>0, ICTypes, ICConstants
<1>3. ICTypeOK'
  BY <1>0, <1>1, <1>2, ICWritesAre DEF ICTypeOK, ICWrites
<1>4. ICProgress' /\ ICStoredIsTrue'
  BY <1>0, <1>1 DEF ICProgress, ICStoredIsTrue
<1>5. ICCalm'
  <2> SUFFICES ASSUME icIncidents = 0 PROVE ICHalfWay'
    BY DEF ICCalm
  <2>1. ICSettled
    BY <1>0 DEF ICCalm
  <2>2. icLast # NoHost => icLeft > 0
    <3>1. icLast # NoHost => icLeft + icRefused + 1 >= RenewBelow
      BY <2>1 DEF ICSettled
    <3> QED BY <1>0, <1>2, <3>1
  <2> QED BY <1>0, <1>1, <2>1, <2>2 DEF ICSettled, ICHalfWay
<1> QED BY <1>3, <1>4, <1>5 DEF ICInv

\* An issuance that is given up before it has begun to write, or after a failed
\* write; the script starts the panel it has stopped.
LEMMA ICGivenUpInv ==
  ASSUME IpCertificateAssumption, ICInv, icAt # "idle", icAt' = "idle", icIP' = NoHost, icCli' = FALSE,
         \/ ICLoad("dead")
         \/ ~icCli /\ UNCHANGED <<icServed, icPanel>>,
         icFiles' \in [Hosts -> [left : 0..Life, whole : BOOLEAN]],
         \A a \in Hosts : icFiles'[a].left = icFiles[a].left,
         icRefused' \in 0..MaxRefused, icIncidents' \in 0..MaxIncidents,
         icIncidents' = 0 => /\ icAt = "obtain" /\ icIncidents = 0 /\ icFiles' = icFiles
                             /\ icRefused' = icRefused + 1,
         UNCHANGED <<icSettings, icMoves>>
  PROVE  ICInv'
<1>0. /\ ICTypeOK /\ ICProgress /\ ICCalm /\ ICStoredIsTrue /\ NoHost \notin Hosts /\ NoHost \in ICMaybe
      /\ RenewBelow \in Nat /\ MaxRefused \in Nat
  BY ICConstants DEF ICInv, ICMaybe
<1>1. UNCHANGED <<icTarget, icLast, icLeft, icWebCert, icWebKey, icMoves>>
  BY DEF icSettings
<1>2. /\ icServed' \in [ip : ICMaybe, left : 0..Life] /\ icPanel' \in {"up", "down", "dead"}
      /\ \/ ~icCli /\ UNCHANGED <<icServed, icPanel>>
         \/ /\ icServed'.ip # NoHost =>
                 /\ icServed'.ip = icWebCert /\ icWebCert = icWebKey /\ icWebCert \in Hosts
                 /\ icFiles[icWebCert].whole /\ icServed'.left = icFiles[icWebCert].left
            /\ icWebCert = icWebKey /\ (icWebCert # NoHost => icFiles[icWebCert].whole) => icPanel' = "up"
  BY <1>0, ICLoadFacts, ICTypes
<1>3. ICTypeOK'
  BY <1>0, <1>1, <1>2 DEF ICTypeOK
<1>4. ICProgress'
  BY DEF ICProgress
<1>5. ICStoredIsTrue'
  <2> SUFFICES ASSUME icLast # NoHost PROVE icLeft <= icFiles'[icLast].left
    BY <1>1 DEF ICStoredIsTrue
  <2>1. icLast \in Hosts
    BY <1>0, ICTypes DEF ICMaybe
  <2> QED BY <1>0, <2>1 DEF ICStoredIsTrue
<1>6. ICCalm'
  <2> SUFFICES ASSUME icIncidents' = 0 PROVE ICSettled'
    BY DEF ICCalm
  <2>1. ICSettled /\ icFiles' = icFiles /\ icRefused' = icRefused + 1 /\ icAt = "obtain"
    BY <1>0 DEF ICCalm
  <2>2. icLeft \in Nat /\ icRefused \in Nat
    BY <1>0, ICTypes
  <2>3. icLast # NoHost => icLeft + icRefused' + 0 >= RenewBelow
    BY <1>0, <2>1, <2>2 DEF ICSettled
  <2> QED BY <1>0, <1>1, <1>2, <2>1, <2>3 DEF ICSettled
<1> QED BY <1>3, <1>4, <1>5, <1>6 DEF ICInv

LEMMA ICObtainInv ==
  ASSUME IpCertificateAssumption, ICInv, ICObtain
  PROVE  ICInv'
<1>0. ICTypeOK /\ MaxRefused \in Nat
  BY ICConstants DEF ICInv
<1>1. CASE icAt' = "crt" /\ icRefused' = 0 /\ UNCHANGED <<icIP, icCli, icServed, icPanel>>
  BY <1>1, ICIssuedInv DEF ICObtain
<1>2. CASE icRefused < MaxRefused /\ icRefused' = icRefused + 1 /\ ICFinish
  <2>1. icFiles' = icFiles /\ UNCHANGED <<icSettings, icMoves, icIncidents>> /\ icAt = "obtain"
    BY DEF ICObtain, icPairs
  <2>2. icRefused' \in 0..MaxRefused
    BY <1>0, <1>2, ICTypes
  <2>3. /\ icAt' = "idle" /\ icIP' = NoHost /\ icCli' = FALSE
        /\ ICLoad("dead") \/ (~icCli /\ UNCHANGED <<icServed, icPanel>>)
    BY <1>2 DEF ICFinish
  <2> QED BY <1>0, <1>2, <2>1, <2>2, <2>3, ICTypes, ICGivenUpInv
<1> QED BY <1>1, <1>2 DEF ICObtain

LEMMA ICFailInv ==
  ASSUME IpCertificateAssumption, ICInv, ICFail
  PROVE  ICInv'
<1>0. ICTypeOK /\ MaxIncidents \in Nat
  BY ICConstants DEF ICInv
<1>1. /\ icAt \in ICWrites /\ icIncidents < MaxIncidents /\ icIncidents' = icIncidents + 1 /\ ICFinish
      /\ icFiles' = icFiles \/ icFiles' = [icFiles EXCEPT ![icIP].whole = FALSE]
      /\ UNCHANGED <<icSettings, icRefused, icMoves>>
  BY ICWritesAre DEF ICFail
<1>2. icFiles \in [Hosts -> [left : 0..Life, whole : BOOLEAN]] /\ icIncidents \in Nat /\ icRefused \in 0..MaxRefused
  BY <1>0, ICTypes
<1>3. /\ icFiles' \in [Hosts -> [left : 0..Life, whole : BOOLEAN]]
      /\ \A a \in Hosts : icFiles'[a].left = icFiles[a].left
  <2>1. CASE icFiles' = icFiles
    BY <1>2, <2>1
  <2>2. CASE icFiles' = [icFiles EXCEPT ![icIP].whole = FALSE]
    <3>1. icIP \in Hosts
      BY <1>1 DEF ICInv, ICProgress, ICWrites
    <3>2. icFiles[icIP] \in [left : 0..Life, whole : BOOLEAN]
      BY <1>2, <3>1
    <3>3. /\ [icFiles[icIP] EXCEPT !.whole = FALSE] \in [left : 0..Life, whole : BOOLEAN]
          /\ [icFiles[icIP] EXCEPT !.whole = FALSE].left = icFiles[icIP].left
      BY <3>2
    <3>4. icFiles' = [icFiles EXCEPT ![icIP] = [icFiles[icIP] EXCEPT !.whole = FALSE]]
      BY <2>2, <3>1, <1>2
    <3>5. \A a \in Hosts : icFiles'[a] = IF a = icIP THEN [icFiles[icIP] EXCEPT !.whole = FALSE] ELSE icFiles[a]
      BY <1>2, <3>4
    <3>6. DOMAIN icFiles' = Hosts /\ icFiles' = [a \in Hosts |-> icFiles'[a]]
      BY <1>2, <3>4
    <3> QED BY <1>2, <3>1, <3>3, <3>5, <3>6
  <2> QED BY <1>1, <2>1, <2>2
<1>4. icIncidents' \in 0..MaxIncidents /\ icIncidents' # 0
  BY <1>0, <1>1, <1>2
<1>5. /\ icAt' = "idle" /\ icIP' = NoHost /\ icCli' = FALSE
      /\ ICLoad("dead") \/ (~icCli /\ UNCHANGED <<icServed, icPanel>>)
  BY <1>1 DEF ICFinish
<1>6. icAt # "idle"
  BY <1>1 DEF ICWrites
<1> QED BY <1>1, <1>2, <1>3, <1>4, <1>5, <1>6, ICGivenUpInv

LEMMA ICDieInv ==
  ASSUME IpCertificateAssumption, ICInv, ICDie
  PROVE  ICInv'
<1>0. ICTypeOK /\ ICStoredIsTrue /\ MaxIncidents \in Nat /\ NoHost \in ICMaybe
  BY ICConstants DEF ICInv, ICMaybe
<1>1. /\ icIncidents < MaxIncidents /\ icIncidents' = icIncidents + 1
      /\ icAt' = "idle" /\ icIP' = NoHost /\ icCli' = FALSE /\ ICLoad("dead")
      /\ UNCHANGED <<icFiles, icTarget, icLast, icLeft, icWebCert, icWebKey, icRefused, icMoves>>
  BY DEF ICDie, icPairs, icSettings
<1>2. icServed' \in [ip : ICMaybe, left : 0..Life] /\ icPanel' \in {"up", "down", "dead"}
  BY <1>0, <1>1, ICLoadFacts
<1>3. icIncidents' \in 0..MaxIncidents /\ icIncidents' # 0
  BY <1>0, <1>1, ICTypes
<1>4. ICTypeOK'
  BY <1>0, <1>1, <1>2, <1>3 DEF ICTypeOK
<1> QED BY <1>0, <1>1, <1>3, <1>4 DEF ICInv, ICProgress, ICCalm, ICStoredIsTrue

\* One write of an issuance.
LEMMA ICWriteInv ==
  ASSUME IpCertificateAssumption, ICInv, ICWrite
  PROVE  ICInv'
<1>0. /\ ICTypeOK /\ ICProgress /\ ICCalm /\ ICStoredIsTrue
      /\ Life \in Nat /\ RenewBelow \in Nat /\ Life > 0 /\ NoHost \notin Hosts
  BY ICConstants DEF ICInv
<1>1. /\ icAt \in ICWrites /\ icAt' = ICAfter[icAt]
      /\ icTarget'  = IF icAt = "target" THEN icIP ELSE icTarget
      /\ icLast'    = IF icAt = "last" THEN icIP ELSE icLast
      /\ icLeft'    = IF icAt = "left" THEN Life ELSE icLeft
      /\ icWebCert' = IF icAt = "webCert" THEN icIP ELSE icWebCert
      /\ icWebKey'  = IF icAt = "webKey" THEN icIP ELSE icWebKey
      /\ UNCHANGED <<icServed, icPanel, icIP, icCli, icRefused, icMoves, icIncidents>>
  BY ICWritesAre DEF ICWrite
<1>2. icIP \in Hosts /\ icIP \in ICMaybe
  BY <1>0, <1>1 DEF ICProgress, ICWrites, ICMaybe
<1>3. icFiles \in [Hosts -> [left : 0..Life, whole : BOOLEAN]] /\ icLeft \in 0..Life
  BY <1>0, ICTypes
<1>4. /\ icFiles' \in [Hosts -> [left : 0..Life, whole : BOOLEAN]]
      /\ \A a \in Hosts : a # icIP => icFiles'[a] = icFiles[a]
      /\ icFiles'[icIP].left = IF icAt = "crt" THEN Life ELSE icFiles[icIP].left
      /\ icFiles'[icIP].whole = IF icAt = "crt" THEN FALSE ELSE IF icAt = "key" THEN TRUE ELSE icFiles[icIP].whole
  <2>1. icFiles[icIP] \in [left : 0..Life, whole : BOOLEAN]
    BY <1>2, <1>3
  <2>2. CASE icAt = "crt"
    <3>1. icFiles' = [icFiles EXCEPT ![icIP] = [left |-> Life, whole |-> FALSE]]
      BY <2>2 DEF ICWrite
    <3>2. [left |-> Life, whole |-> FALSE] \in [left : 0..Life, whole : BOOLEAN]
      BY <1>0
    <3> QED BY <1>2, <1>3, <2>2, <3>1, <3>2
  <2>3. CASE icAt = "key"
    <3>1. icFiles' = [icFiles EXCEPT ![icIP] = [icFiles[icIP] EXCEPT !.whole = TRUE]]
      BY <2>3 DEF ICWrite
    <3>2. /\ [icFiles[icIP] EXCEPT !.whole = TRUE] \in [left : 0..Life, whole : BOOLEAN]
          /\ [icFiles[icIP] EXCEPT !.whole = TRUE].left = icFiles[icIP].left
          /\ [icFiles[icIP] EXCEPT !.whole = TRUE].whole = TRUE
      BY <2>1
    <3> QED BY <1>2, <1>3, <2>3, <3>1, <3>2
  <2>4. CASE icAt # "crt" /\ icAt # "key"
    <3>1. icFiles' = [icFiles EXCEPT ![icIP] = icFiles[icIP]]
      BY <2>4 DEF ICWrite
    <3> QED BY <1>2, <1>3, <2>4, <3>1
  <2> QED BY <2>2, <2>3, <2>4
<1>5. /\ icAt = "crt" => icAt' = "key"
      /\ icAt = "key" => icAt' = "target"
      /\ icAt = "target" => icAt' = "last"
      /\ icAt = "last" => icAt' = "left"
      /\ icAt = "left" => icAt' = "webCert"
      /\ icAt = "webCert" => icAt' = "webKey"
      /\ icAt = "webKey" => icAt' = "restart"
  <2>1. /\ ICAfter["crt"] = "key" /\ ICAfter["key"] = "target" /\ ICAfter["target"] = "last"
        /\ ICAfter["last"] = "left" /\ ICAfter["left"] = "webCert" /\ ICAfter["webCert"] = "webKey"
        /\ ICAfter["webKey"] = "restart"
    BY DEF ICAfter
  <2> QED BY <1>1, <2>1
<1>6. icAt' \in {"key", "target", "last", "left", "webCert", "webKey", "restart"}
  BY <1>1, <1>5 DEF ICWrites
<1>7. ICTypeOK'
  <2>1. icTarget' \in ICMaybe /\ icLast' \in ICMaybe /\ icWebCert' \in ICMaybe /\ icWebKey' \in ICMaybe
    BY <1>0, <1>1, <1>2, ICTypes
  <2>2. icLeft' \in 0..Life
    BY <1>0, <1>1, <1>3
  <2>3. icAt' \in DOMAIN ICAfter \cup {"idle", "obtain", "restart"}
    BY <1>6, ICWritesAre DEF ICWrites
  <2> QED BY <1>0, <1>1, <1>4, <2>1, <2>2, <2>3 DEF ICTypeOK
<1>8. ICProgress'
  BY <1>0, <1>1, <1>2, <1>4, <1>5 DEF ICProgress, ICWrites
<1>9. ICStoredIsTrue'
  <2> SUFFICES ASSUME icLast' # NoHost PROVE icLeft' <= icFiles'[icLast'].left
    BY DEF ICStoredIsTrue
  <2>1. CASE icAt = "last"
    BY <1>0, <1>1, <1>2, <1>3, <1>4, <2>1 DEF ICProgress
  <2>2. CASE icAt = "left"
    BY <1>0, <1>1, <1>4, <2>2 DEF ICProgress
  <2>3. CASE icAt # "last" /\ icAt # "left"
    <3>1. icLast' = icLast /\ icLeft' = icLeft /\ icLast \in Hosts /\ icLeft <= icFiles[icLast].left
      BY <1>0, <1>1, <2>3, ICTypes DEF ICStoredIsTrue, ICMaybe
    <3>2. icFiles'[icLast].left = icFiles[icLast].left \/ icFiles'[icLast].left = Life
      BY <1>4, <3>1
    <3> QED BY <1>0, <1>3, <3>1, <3>2
  <2> QED BY <2>1, <2>2, <2>3
<1>10. ICCalm'
  <2> SUFFICES ASSUME icIncidents = 0 PROVE ICHalfWay'
    BY <1>1, <1>6 DEF ICCalm
  <2>1. ICHalfWay
    BY <1>0, <1>1 DEF ICCalm, ICWrites
  <2>2. ASSUME NEW a \in Hosts, icWebCert' = a, icWebKey' = a, icFiles'[a].whole
        PROVE  icFiles'[a].left > 0
    <3>1. CASE a # icIP
      BY <1>1, <1>4, <2>1, <2>2, <3>1 DEF ICHalfWay
    <3>2. CASE a = icIP
      <4>1. icAt # "crt"
        BY <1>4, <2>2, <3>2
      <4>2. icFiles[icIP].left = Life
        BY <1>0, <1>1, <4>1 DEF ICProgress, ICWrites
      <4> QED BY <1>0, <1>4, <3>2, <4>1, <4>2
    <3> QED BY <3>1, <3>2
  <2> QED BY <1>1, <2>1, <2>2 DEF ICHalfWay
<1> QED BY <1>7, <1>8, <1>9, <1>10 DEF ICInv

\* The restart at the end of an issuance loads the pair that was written.
LEMMA ICReloadInv ==
  ASSUME IpCertificateAssumption, ICInv, ICReload
  PROVE  ICInv'
<1>0. /\ ICTypeOK /\ ICProgress /\ ICStoredIsTrue /\ NoHost \in ICMaybe /\ NoHost \notin Hosts
      /\ Life \in Nat /\ RenewBelow \in Nat /\ RenewBelow < Life
  BY ICConstants DEF ICInv, ICMaybe
<1>1. /\ icAt = "restart" /\ icAt' = "idle" /\ icIP' = NoHost /\ icCli' = FALSE
      /\ \E else \in {"down", "dead"} : ICLoad(else)
      /\ UNCHANGED <<icFiles, icTarget, icLast, icLeft, icWebCert, icWebKey, icRefused, icMoves, icIncidents>>
  BY DEF ICReload, icPairs, icSettings
<1>2. /\ icServed' \in [ip : ICMaybe, left : 0..Life] /\ icPanel' \in {"up", "down", "dead"}
      /\ icServed'.ip # NoHost =>
           /\ icServed'.ip = icWebCert /\ icWebCert = icWebKey /\ icWebCert \in Hosts
           /\ icFiles[icWebCert].whole /\ icServed'.left = icFiles[icWebCert].left
      /\ icWebCert = icWebKey /\ (icWebCert # NoHost => icFiles[icWebCert].whole) => icPanel' = "up"
  BY <1>0, <1>1, ICLoadFacts
<1>3. ICTypeOK'
  BY <1>0, <1>1, <1>2 DEF ICTypeOK
<1>4. ICProgress' /\ ICStoredIsTrue'
  BY <1>0, <1>1 DEF ICProgress, ICStoredIsTrue
<1>5. ICSettled'
  <2>1. /\ icIP \in Hosts /\ icFiles[icIP].left = Life /\ icFiles[icIP].whole /\ icTarget # NoHost
        /\ icLast = icIP /\ icLeft = Life /\ icWebCert = icIP /\ icWebKey = icIP
    BY <1>0, <1>1 DEF ICProgress
  <2>2. Life + icRefused + 0 >= RenewBelow
    <3>1. icRefused \in Nat
      BY <1>0, ICTypes
    <3> QED BY <1>0, <3>1
  <2> QED BY <1>1, <1>2, <2>1, <2>2 DEF ICSettled
<1> QED BY <1>1, <1>3, <1>4, <1>5 DEF ICInv, ICCalm

LEMMA ICNextInv ==
  ASSUME IpCertificateAssumption, ICInv, [ICNext]_icVars
  PROVE  ICInv'
<1>1. CASE UNCHANGED icVars
  BY <1>1 DEF icVars, icPairs, icSettings, icJob, ICInv, ICTypeOK, ICProgress, ICCalm, ICSettled, ICHalfWay,
              ICStoredIsTrue
<1> QED BY <1>1, ICRetargetInv, ICCommandInv, ICRestartInv, ICPassInv, ICObtainInv, ICWriteInv, ICReloadInv,
           ICFailInv, ICDieInv DEF ICNext

\* Without an incident what the panel serves is valid, and what the settings say
\* of the certificate is never more than its files hold (ip_certificate_*.go):
\* for any addresses, life of a certificate and threshold that leaves a pass
\* more than the authority can refuse.
THEOREM CertificateIsValid ==
  ICInit /\ [][ICNext]_icVars => []ICCertificateIsValid
<1>1. ICInit => ICInv
  BY IpCertificateAssumption, ICInitInv
<1>2. ICInv /\ [ICNext]_icVars => ICInv'
  BY IpCertificateAssumption, ICNextInv
<1>3. ICInv => ICServedIsValid
  <2> SUFFICES ASSUME ICInv, icIncidents = 0, icServed.ip # NoHost PROVE icServed.left > 0
    BY DEF ICServedIsValid
  <2>0. /\ ICTypeOK /\ ICCalm /\ RenewBelow \in Nat /\ MaxRefused \in Nat /\ MaxRefused + 1 < RenewBelow
    BY IpCertificateAssumption, ICConstants DEF ICInv
  <2>1. CASE icAt \in {"idle", "obtain"}
    <3>1. icLast # NoHost /\ icServed.left = icLeft /\ icLeft + icRefused + 1 >= RenewBelow
      <4>1. icLast # NoHost /\ icServed.left = icLeft
        BY <2>0, <2>1 DEF ICCalm, ICSettled
      <4>2. icLeft + icRefused + (IF icAt = "idle" THEN 0 ELSE 1) >= RenewBelow
        BY <2>0, <2>1, <4>1 DEF ICCalm, ICSettled
      <4>3. icLeft \in Nat /\ icRefused \in Nat
        BY <2>0, ICTypes
      <4> QED BY <2>0, <4>1, <4>2, <4>3
    <3>2. icLeft \in Nat /\ icRefused \in Nat /\ icRefused <= MaxRefused
      BY <2>0, ICTypes
    <3> QED BY <2>0, <3>1, <3>2
  <2>2. CASE icAt \notin {"idle", "obtain"}
    BY <2>0, <2>2 DEF ICCalm, ICHalfWay
  <2> QED BY <2>1, <2>2
<1>4. ICInv => ICTypeOK /\ ICStoredIsTrue
  BY DEF ICInv
<1>5. ICInv => ICCertificateIsValid
  BY <1>3, <1>4 DEF ICCertificateIsValid
<1> QED BY <1>1, <1>2, <1>5, PTL

-----------------------------------------------------------------------------
(* The composition.  One part moves at a time and the others stutter.      *)

\* What the parts promise of every step, they promise in the composition: one owner
\* of the slot and a slot that changes hands as the abstract one does, messages and
\* subscribers that survive a restart, and a certificate that is valid after it.
THEOREM RestartsAreSafe ==
  RestartsFairSpec => /\ []SlotExclusive /\ []PendingPublished /\ []NoLostWakeup
                      /\ ImplementsSlot /\ TNMessagesAreHeld
                      /\ RGSubscribersAreKept /\ []ICCertificateIsValid
<1>1. RestartsInit => Init /\ TNInit /\ RGInit /\ ICInit
  BY DEF RestartsInit
<1>2. [RestartsNext]_restartsVars =>
        [Next]_rmVars /\ [TNNext]_tnVars /\ [RGNext]_rgVars /\ [ICNext]_icVars
  BY DEF RestartsNext, OutOfBounds, restartsVars
<1>3. RestartsFairSpec => /\ Spec /\ TNInit /\ [][TNNext]_tnVars
                          /\ RGInit /\ [][RGNext]_rgVars /\ ICInit /\ [][ICNext]_icVars
  BY <1>1, <1>2, PTL DEF RestartsFairSpec, Spec
<1> QED BY <1>3, SlotIsExclusive, PendingIsPublished, WakeupsAreNotLost, SlotRefinement,
           MessagesAreHeld, SubscribersAreKept, CertificateIsValid, PTL
=============================================================================

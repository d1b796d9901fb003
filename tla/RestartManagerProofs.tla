------------------------ MODULE RestartManagerProofs ------------------------
(***************************************************************************)
(* Theorems about RestartManager, for any sets of callers and timers.      *)
(*                                                                         *)
(* SlotExclusive is not inductive alone: endPending may only free the slot *)
(* because its timer is live, and a new timer is the published one only    *)
(* because no live timer was left behind.  Inv adds what is missing.       *)
(***************************************************************************)
EXTENDS RestartManager, TLAPS

Inv == TypeOK /\ SlotExclusive /\ PendingPublished /\ NoLostWakeup

\* Broadcast wakes every sleeper and changes nobody else: the program counters
\* it returns are well typed, hold no sleeper, and have the same slot holders.
LEMMA BroadcastFacts ==
    ASSUME NEW p \in [Callers -> PcStates]
    PROVE  /\ Broadcast(p) \in [Callers -> PcStates]
           /\ \A c \in Callers : Broadcast(p)[c] \notin Sleeping
           /\ \A c \in Callers : Broadcast(p)[c] \in {"section", "arming"}
                                   <=> p[c] \in {"section", "arming"}
  BY DEF Broadcast, PcStates, Sleeping

\* The invariant holds initially.
LEMMA InitInv == Init => Inv
  BY RestartAssumption DEF Init, Inv, TypeOK, SlotExclusive, PendingPublished,
        NoLostWakeup, Holders, Live, PcStates, TimerStates, Sleeping

\* A begin that leads to a holding or to a non-sleeping state preserves Inv;
\* the busy branch may lead to a sleeping state, because the slot is busy then.
LEMMA BeginInv ==
    ASSUME Inv, NEW c \in Callers,
           pc[c] \in {"idle", "wokeOp", "wokeArm"},
           NEW next \in {"section", "arming"},
           NEW busy \in {"idle"} \cup Sleeping,
           BeginOr(c, next, busy)
    PROVE  Inv'
<1> USE DEF BeginOr, Inv
<1>1. TypeOK'
  BY DEF TypeOK, PcStates, Sleeping
<1>2. CASE inFlight
  <2>1. Holders' = Holders /\ Live' = Live
    BY <1>2 DEF TypeOK, Holders, Live, Sleeping
  <2>2. SlotExclusive'
    BY <1>2, <2>1 DEF SlotExclusive
  <2>3. PendingPublished'
    BY <2>1 DEF PendingPublished
  <2>4. NoLostWakeup'
    BY DEF NoLostWakeup
  <2> QED BY <1>1, <2>2, <2>3, <2>4
<1>3. CASE ~inFlight
  <2>1. Holders = {} /\ Live = {}
    BY <1>3 DEF SlotExclusive
  <2>2. Holders' = {c} /\ Live' = {}
    BY <1>3, <2>1 DEF TypeOK, Holders, Live
  <2>3. SlotExclusive'
    BY <2>2 DEF SlotExclusive
  <2>4. PendingPublished'
    BY <2>1, <2>2 DEF PendingPublished, Live
  <2>5. NoLostWakeup'
    BY DEF NoLostWakeup
  <2> QED BY <1>1, <2>3, <2>4, <2>5
<1> QED BY <1>2, <1>3

\* Every step of the manager keeps the invariant.
LEMMA NextInv == Inv /\ [Next]_rmVars => Inv'
<1> SUFFICES ASSUME Inv, [Next]_rmVars PROVE Inv'
  OBVIOUS
<1> USE DEF Inv
<1>1. ASSUME NEW c \in Callers, Run(c) PROVE Inv'
  BY <1>1, BeginInv DEF Run
<1>2. ASSUME NEW c \in Callers, RunBlocking(c) PROVE Inv'
  BY <1>2, BeginInv DEF RunBlocking, Sleeping
<1>3. ASSUME NEW c \in Callers, End(c) PROVE Inv'
  <2> DEFINE p == [pc EXCEPT ![c] = "idle"]
  <2>1. p \in [Callers -> PcStates]
    BY DEF TypeOK, PcStates
  <2>2. TypeOK'
    BY <1>3, <2>1, BroadcastFacts DEF End, TypeOK
  <2>3. Holders = {c} /\ Live = {}
    BY <1>3 DEF End, SlotExclusive, Holders
  <2>4. Holders' = {} /\ Live' = {}
    <3>1. \A d \in Callers : p[d] \notin {"section", "arming"}
      BY <2>3 DEF Holders, TypeOK
    <3>2. \A d \in Callers : pc'[d] \notin {"section", "arming"}
      BY <1>3, <2>1, <3>1, BroadcastFacts DEF End
    <3> QED BY <1>3, <2>3, <3>2 DEF End, Holders, Live
  <2>5. NoLostWakeup'
    BY <1>3, <2>1, BroadcastFacts DEF End, NoLostWakeup
  <2>6. SlotExclusive'
    BY <1>3, <2>4 DEF End, SlotExclusive
  <2>7. PendingPublished'
    BY <1>3, <2>3, <2>4 DEF End, PendingPublished, Live
  <2> QED BY <2>2, <2>5, <2>6, <2>7
<1>4. ASSUME NEW c \in Callers, ScheduleRestart(c) PROVE Inv'
  BY <1>4, BeginInv DEF ScheduleRestart
<1>5. ASSUME NEW c \in Callers, ScheduleRestartBlocking(c) PROVE Inv'
  BY <1>5, BeginInv DEF ScheduleRestartBlocking, Sleeping
<1>6. ASSUME NEW c \in Callers, ArmRestartTimer(c) PROVE Inv'
  <2>1. PICK t \in Timers : /\ timer[t] = "idle"
                            /\ timer' = [timer EXCEPT ![t] = "armed"]
                            /\ pendingTimer' = t
    BY <1>6 DEF ArmRestartTimer
  <2>2. Holders = {c} /\ Live = {} /\ inFlight
    BY <1>6 DEF ArmRestartTimer, SlotExclusive, Holders
  <2>3. TypeOK'
    BY <1>6, <2>1 DEF ArmRestartTimer, TypeOK, PcStates, TimerStates
  <2>4. Holders' = {} /\ Live' = {t}
    BY <1>6, <2>1, <2>2 DEF ArmRestartTimer, Holders, Live, TypeOK
  <2>5. SlotExclusive'
    BY <1>6, <2>2, <2>4 DEF ArmRestartTimer, SlotExclusive
  <2>6. PendingPublished'
    BY <2>1, <2>2, <2>4 DEF PendingPublished, Live
  <2>7. NoLostWakeup'
    BY <1>6, <2>2 DEF ArmRestartTimer, NoLostWakeup
  <2> QED BY <2>3, <2>5, <2>6, <2>7
<1>7. ASSUME NEW t \in Timers, TimerFires(t) \/ Signal(t) PROVE Inv'
  <2>1. TypeOK'
    BY <1>7 DEF TimerFires, Signal, TypeOK, TimerStates
  <2>2. Holders' = Holders /\ Live' = Live
    BY <1>7 DEF TimerFires, Signal, Holders, Live, TypeOK
  <2>3. SlotExclusive'
    BY <1>7, <2>2 DEF TimerFires, Signal, SlotExclusive
  <2>4. PendingPublished'
    BY <1>7, <2>2 DEF TimerFires, Signal, PendingPublished, TypeOK
  <2>5. NoLostWakeup'
    BY <1>7 DEF TimerFires, Signal, NoLostWakeup
  <2> QED BY <2>1, <2>3, <2>4, <2>5
<1>8. ASSUME NEW t \in Timers, EndPending(t) PROVE Inv'
  <2>1. Live = {t} /\ Holders = {}
    BY <1>8 DEF EndPending, SlotExclusive, Live
  <2>2. TypeOK'
    BY <1>8, BroadcastFacts DEF EndPending, TypeOK, TimerStates
  <2>3. Live' = {}
    BY <1>8, <2>1 DEF EndPending, Live, TypeOK
  <2>4. Holders' = {}
    BY <1>8, <2>1, BroadcastFacts DEF EndPending, Holders, TypeOK
  <2>5. pendingTimer' = NoTimer
    BY <1>8, <2>1, RestartAssumption DEF EndPending, PendingPublished
  <2>6. SlotExclusive'
    BY <1>8, <2>3, <2>4 DEF EndPending, SlotExclusive
  <2>7. PendingPublished'
    BY <2>3, <2>5 DEF PendingPublished, Live
  <2>8. NoLostWakeup'
    BY <1>8, BroadcastFacts DEF EndPending, NoLostWakeup, TypeOK
  <2> QED BY <2>2, <2>6, <2>7, <2>8
<1>9. ASSUME CancelPending PROVE Inv'
  <2>1. CASE pendingTimer # NoTimer /\ timer[pendingTimer] = "armed"
    <3>1. pendingTimer \in Timers
      BY <2>1 DEF TypeOK
    <3>2. Live = {pendingTimer} /\ Holders = {}
      BY <2>1, <3>1 DEF SlotExclusive, Live
    <3>3. TypeOK'
      <4>1. timer' = [timer EXCEPT ![pendingTimer] = "idle"]
            /\ inFlight' = FALSE /\ pc' = Broadcast(pc) /\ pendingTimer' = NoTimer
        BY <1>9, <2>1 DEF CancelPending
      <4>2. pc' \in [Callers -> PcStates]
        BY <4>1, BroadcastFacts DEF TypeOK
      <4> QED BY <3>1, <4>1, <4>2 DEF TypeOK, TimerStates
    <3>4. Live' = {}
      BY <1>9, <2>1, <3>1, <3>2 DEF CancelPending, Live, TypeOK
    <3>5. Holders' = {}
      BY <1>9, <2>1, <3>2, BroadcastFacts DEF CancelPending, Holders, TypeOK
    <3>6. SlotExclusive'
      BY <1>9, <2>1, <3>4, <3>5 DEF CancelPending, SlotExclusive
    <3>7. PendingPublished'
      BY <1>9, <3>4 DEF CancelPending, PendingPublished, Live
    <3>8. NoLostWakeup'
      BY <1>9, <2>1, BroadcastFacts DEF CancelPending, NoLostWakeup, TypeOK
    <3> QED BY <3>3, <3>6, <3>7, <3>8
  <2>2. CASE ~(pendingTimer # NoTimer /\ timer[pendingTimer] = "armed")
    <3>1. /\ pendingTimer' = NoTimer
          /\ UNCHANGED <<inFlight, timer, pc>>
      BY <1>9, <2>2 DEF CancelPending
    <3>2. \A t \in Timers : timer[t] # "armed"
      BY <2>2, RestartAssumption DEF PendingPublished
    <3> QED
      BY <3>1, <3>2 DEF TypeOK, SlotExclusive, Holders, Live,
            PendingPublished, NoLostWakeup
  <2> QED BY <2>1, <2>2
<1>10. ASSUME UNCHANGED rmVars PROVE Inv'
  BY <1>10 DEF rmVars, TypeOK, SlotExclusive, Holders, Live,
        PendingPublished, NoLostWakeup
<1> QED
  BY <1>1, <1>2, <1>3, <1>4, <1>5, <1>6, <1>7, <1>8, <1>9, <1>10
     DEF Next, CallerStep, TimerStep

----------------------------------------------------------------------------

\* The inductive invariant holds in every behaviour of the manager.
THEOREM InvHolds == Spec => []Inv
  BY InitInv, NextInv, PTL DEF Spec

\* The slot, the published timer, the timers and the callers keep their types.
THEOREM TypeCorrect == Spec => []TypeOK
<1>1. Inv => TypeOK
  BY DEF Inv
<1> QED BY <1>1, InvHolds, PTL

\* One owner of the slot at a time, and a busy slot always has one: no two core
\* operations overlap, nor an operation and the sending of a SIGHUP.
THEOREM SlotIsExclusive == Spec => []SlotExclusive
<1>1. Inv => SlotExclusive
  BY DEF Inv
<1> QED BY <1>1, InvHolds, PTL

\* A restart that can still be stopped is the one cancelPending would stop.
THEOREM PendingIsPublished == Spec => []PendingPublished
<1>1. Inv => PendingPublished
  BY DEF Inv
<1> QED BY <1>1, InvHolds, PTL

\* No goroutine sleeps on the condition variable next to a free slot.
THEOREM WakeupsAreNotLost == Spec => []NoLostWakeup
<1>1. Inv => NoLostWakeup
  BY DEF Inv
<1> QED BY <1>1, InvHolds, PTL

----------------------------------------------------------------------------

\* Under the invariant the owner of the abstract slot is the one holder, or the
\* one live timer, or Free.
OwnerMatches ==
    /\ SlotOwner = Free <=> ~inFlight
    /\ \A o \in Holders \cup Live : SlotOwner = o

\* The owner of the abstract slot is the one who holds it.
LEMMA OwnerFacts == SlotExclusive => OwnerMatches
<1> SUFFICES ASSUME SlotExclusive PROVE OwnerMatches
  OBVIOUS
<1> USE DEF OwnerMatches
<1>1. CASE Holders \cup Live = {}
  BY <1>1 DEF SlotOwner, SlotExclusive
<1>2. CASE Holders \cup Live # {}
  <2>1. PICK o \in Holders \cup Live : TRUE
    BY <1>2
  <2>2. Holders \cup Live = {o}
    BY <2>1 DEF SlotExclusive
  <2>3. SlotOwner = o
    BY <2>2 DEF SlotOwner
  <2>4. o \in Callers \cup Timers
    BY <2>1 DEF Holders, Live
  <2> QED BY <2>2, <2>3, <2>4, RestartAssumption DEF SlotExclusive
<1> QED BY <1>1, <1>2

\* Each step of the manager is a step of the slot or leaves it alone.
LEMMA StepRefines == Inv /\ Inv' /\ [Next]_rmVars => [Slot!SlotNext]_SlotOwner
<1> SUFFICES ASSUME Inv, Inv', [Next]_rmVars
             PROVE  Slot!SlotNext \/ SlotOwner' = SlotOwner
  OBVIOUS
<1> USE DEF Inv
<1>1. /\ SlotOwner = Free <=> ~inFlight
      /\ \A o \in Holders \cup Live : SlotOwner = o
  BY OwnerFacts DEF OwnerMatches
<1>2. /\ SlotOwner' = Free <=> ~inFlight'
      /\ \A o \in Holders' \cup Live' : SlotOwner' = o
  <2>1. OwnerMatches'
    <3>1. SlotExclusive'
      OBVIOUS
    <3> QED BY <3>1, OwnerFacts, PTL
  <2> QED BY <2>1 DEF OwnerMatches
<1>3. SlotOwner = Free \/ SlotOwner \in Holders \cup Live
  BY <1>1 DEF SlotExclusive
<1>4. ASSUME NEW c \in Callers, BeginOr(c, "section", "idle")
                                 \/ BeginOr(c, "section", "waitOp")
                                 \/ BeginOr(c, "arming", "idle")
                                 \/ BeginOr(c, "arming", "waitArm"),
             pc[c] \in {"idle", "wokeOp", "wokeArm"}
      PROVE  Slot!SlotNext \/ SlotOwner' = SlotOwner
  <2>1. CASE ~inFlight
    <3>1. c \in Holders'
      BY <1>4, <2>1 DEF BeginOr, Holders, TypeOK
    <3> QED BY <1>1, <1>2, <2>1, <3>1 DEF Slot!SlotNext, Slot!Acquire
  <2>2. CASE inFlight
    <3>1. Holders' = Holders /\ Live' = Live
      BY <1>4, <2>2 DEF BeginOr, TypeOK, Holders, Live
    <3> QED BY <1>1, <1>2, <1>3, <2>2, <3>1
  <2> QED BY <2>1, <2>2
<1>5. ASSUME NEW c \in Callers, Run(c) \/ RunBlocking(c) \/ ScheduleRestart(c)
                                 \/ ScheduleRestartBlocking(c)
      PROVE  Slot!SlotNext \/ SlotOwner' = SlotOwner
  BY <1>4, <1>5 DEF Run, RunBlocking, ScheduleRestart, ScheduleRestartBlocking
<1>6. ASSUME inFlight, ~inFlight'
      PROVE  Slot!SlotNext
  BY <1>1, <1>2, <1>6 DEF Slot!SlotNext, Slot!Release
<1>7. ASSUME NEW c \in Callers, End(c) PROVE Slot!SlotNext
  BY <1>6, <1>7 DEF End, SlotExclusive, Holders
<1>8. ASSUME NEW c \in Callers, ArmRestartTimer(c) PROVE Slot!SlotNext
  <2>1. PICK t \in Timers : timer' = [timer EXCEPT ![t] = "armed"]
    BY <1>8 DEF ArmRestartTimer
  <2>2. c \in Holders /\ t \in Live'
    BY <1>8, <2>1 DEF ArmRestartTimer, Holders, Live, TypeOK
  <2> QED BY <1>1, <1>2, <2>2 DEF Slot!SlotNext, Slot!HandOver
<1>9. ASSUME NEW t \in Timers, TimerFires(t) \/ Signal(t)
      PROVE  SlotOwner' = SlotOwner
  <2>1. t \in Live /\ t \in Live'
    BY <1>9 DEF TimerFires, Signal, Live, TypeOK
  <2> QED BY <1>1, <1>2, <2>1
<1>10. ASSUME NEW t \in Timers, EndPending(t) PROVE Slot!SlotNext
  BY <1>6, <1>10 DEF EndPending, SlotExclusive, Live
<1>11. ASSUME CancelPending PROVE Slot!SlotNext \/ SlotOwner' = SlotOwner
  <2>1. CASE pendingTimer # NoTimer /\ timer[pendingTimer] = "armed"
    <3>1. inFlight
      BY <2>1 DEF TypeOK, SlotExclusive, Live
    <3> QED BY <1>6, <1>11, <2>1, <3>1 DEF CancelPending
  <2>2. CASE ~(pendingTimer # NoTimer /\ timer[pendingTimer] = "armed")
    <3>1. UNCHANGED <<timer, pc>>
      BY <1>11, <2>2 DEF CancelPending
    <3> QED BY <3>1 DEF SlotOwner, Holders, Live
  <2> QED BY <2>1, <2>2
<1>12. ASSUME UNCHANGED rmVars PROVE SlotOwner' = SlotOwner
  BY <1>12 DEF rmVars, SlotOwner, Holders, Live
<1> QED
  BY <1>5, <1>7, <1>8, <1>9, <1>10, <1>11, <1>12 DEF Next, CallerStep, TimerStep

\* The manager implements the abstract slot: its owner changes only by a caller
\* taking a free slot, handing it to a timer, or a release (restart_manager.go).
THEOREM SlotRefinement == Spec => ImplementsSlot
<1>1. Init => Slot!SlotInit
  BY DEF Init, Slot!SlotInit, SlotOwner, Holders, Live
<1> QED BY <1>1, StepRefines, InvHolds, PTL DEF Spec, ImplementsSlot, Slot!SlotSafe

=============================================================================

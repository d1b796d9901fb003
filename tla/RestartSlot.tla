----------------------------- MODULE RestartSlot -----------------------------
(***************************************************************************)
(* What the restart manager promises: a slot that one owner holds at a     *)
(* time.  A caller takes it only when it is free and either gives it back  *)
(* or hands it, without freeing it in between, to the timer of a delayed   *)
(* restart; the timer gives it back.  Whoever owns it, the slot is always  *)
(* free again later.                                                       *)
(***************************************************************************)

CONSTANTS Callers, Timers, Free

VARIABLE owner

SlotInit == owner = Free

Acquire  == owner = Free /\ owner' \in Callers
HandOver == owner \in Callers /\ owner' \in Timers
Release  == owner # Free /\ owner' = Free

SlotNext == Acquire \/ HandOver \/ Release

SlotSafe      == SlotInit /\ [][SlotNext]_owner
SlotComesFree == []<>(owner = Free)
SlotSpec      == SlotSafe /\ SlotComesFree

=============================================================================

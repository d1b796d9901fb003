---------------------------- MODULE PanelRestarts ----------------------------
(***************************************************************************)
(* Restarts in place, and three parts of the panel that live through them: *)
(* the slot of the restart manager, the notifier of the administrator's    *)
(* chat and the receiver of the clients' bot, which APP.Stop waits for in  *)
(* vain and APP.Start starts anew next to the old one, and the managed     *)
(* certificate, which only a restart loads.                                *)
(*                                                                         *)
(* The slot decides when a restart may come; the others are modelled with  *)
(* a restart that may come at any time, so no step of one part depends on  *)
(* another, and one part moves at a time: the one in `focus`.              *)
(***************************************************************************)
EXTENDS RestartManager, TelegramNotifier, Registration, IpCertificate

VARIABLES focus

restartsVars == <<focus, rmVars, tnVars, rgVars, icVars>>

RestartParts == {"slot", "notifier", "bot", "certificate"}

RestartsInit ==
    /\ focus \in RestartParts
    /\ Init /\ TNInit /\ RGInit /\ ICInit

\* The bounds of a part run out; the restart manager itself never stops.
OutOfBounds == focus # "slot" /\ UNCHANGED restartsVars

RestartsNext ==
    \/ focus = "slot" /\ Next /\ UNCHANGED <<focus, tnVars, rgVars, icVars>>
    \/ focus = "notifier" /\ TNNext /\ UNCHANGED <<focus, rmVars, rgVars, icVars>>
    \/ focus = "bot" /\ RGNext /\ UNCHANGED <<focus, rmVars, tnVars, icVars>>
    \/ focus = "certificate" /\ ICNext /\ UNCHANGED <<focus, rmVars, tnVars, rgVars>>
    \/ OutOfBounds

\* The fairness of each part, for the behaviours that are about it.
SlotFairness ==
    /\ \A c \in Callers : WF_rmVars(focus = "slot" /\ End(c))
    /\ \A c \in Callers : WF_rmVars(focus = "slot" /\ ArmRestartTimer(c))
    /\ \A t \in Timers : WF_rmVars(focus = "slot" /\ TimerStep(t))

NotifierFairness ==
    /\ \A b \in Boxes : WF_tnVars(focus = "notifier" /\ TNRunner(b))
    /\ \A c \in Notifying : WF_tnVars(focus = "notifier" /\ TNCaller(c))

BotFairness ==
    /\ \A p \in Bots : WF_rgVars(focus = "bot" /\ RGPoller(p))
    /\ WF_rgVars(focus = "bot" /\ RGStopReturns)
    /\ WF_rgVars(focus = "bot" /\ RGStart)

CertificateFairness ==
    /\ WF_icVars(focus = "certificate" /\ ICPass)
    /\ WF_icVars(focus = "certificate" /\ ICIssuance)

RestartsFairSpec ==
    /\ RestartsInit /\ [][RestartsNext]_restartsVars
    /\ SlotFairness /\ NotifierFairness /\ BotFairness /\ CertificateFairness

-----------------------------------------------------------------------------
\* Every part gets on by itself, in whichever moment a restart meets it: sleepers
\* of the manager wake, messages and /starts come to their end, and the panel
\* comes to serve the configured certificate.
RestartsAreSurvived ==
    /\ SlotIsServed /\ TNMessagesAreDelivered
    /\ RGStartsGetThrough /\ ICCertificateIsServed
=============================================================================

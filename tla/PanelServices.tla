---------------------------- MODULE PanelServices ----------------------------
(***************************************************************************)
(* The background machinery of the panel that must get on by itself: the   *)
(* audit writer, the debouncer of token uses, the realtime hub, the jobs   *)
(* of the failover groups, and the guard of repeated creates, whose        *)
(* waiters depend on the request that runs.                                *)
(*                                                                         *)
(* These components share no state: each has its own lock, its own         *)
(* goroutines and rows nobody else writes.  A step of one neither enables  *)
(* nor disables a step of another, so a property of one component holds in *)
(* their interleaving exactly when it holds in the behaviours where the    *)
(* others stutter.  The composition explores those: `focus` is the         *)
(* component that moves.                                                   *)
(***************************************************************************)
EXTENDS AuditWriter, TokenUse, Realtime, Failover, SaveDedup

VARIABLES focus

servicesVars == <<focus, vars, tuVars, rtVars, foVars, sdVars>>

Services == {"audit", "tokenuse", "realtime", "failover", "savededup"}

\* Groups of two members, in either order, and one that has "direct" for a member.
Groups == {<<"p", "q">>, <<"q", "p">>, <<"q", "direct">>}

ServicesInit ==
    /\ focus \in Services
    /\ Init /\ TUInit /\ RTInit /\ FOInit /\ SDInit
    /\ focus # "failover" => foMembers = <<"p", "q">> /\ foDirect

ServicesNext ==
    \/ /\ focus = "audit" /\ Next
       /\ UNCHANGED <<focus, tuVars, rtVars, foVars, sdVars>>
    \/ /\ focus = "tokenuse" /\ TUNext
       /\ UNCHANGED <<focus, vars, rtVars, foVars, sdVars>>
    \/ /\ focus = "realtime" /\ RTNext
       /\ UNCHANGED <<focus, vars, tuVars, foVars, sdVars>>
    \/ /\ focus = "failover" /\ FONext
       /\ UNCHANGED <<focus, vars, tuVars, rtVars, sdVars>>
    \/ /\ focus = "savededup" /\ SDNext
       /\ UNCHANGED <<focus, vars, tuVars, rtVars, foVars>>

ServicesSpec == ServicesInit /\ [][ServicesNext]_servicesVars

\* The fairness of each component, for the behaviours that are about it.
AuditFairness == WF_vars(focus = "audit" /\ Run)

TokenUseFairness ==
    /\ WF_tuVars(focus = "tokenuse" /\ TUCircuitElapses)
    /\ WF_tuVars(focus = "tokenuse" /\ \E c \in Callbacks : TUFire(c))
    /\ \A c \in Callbacks : WF_tuVars(focus = "tokenuse" /\ TUCallbackStep(c))
    /\ WF_tuVars(focus = "tokenuse" /\ TUForceTake)
    /\ WF_tuVars(focus = "tokenuse" /\ TUForceWrite)
    /\ WF_tuVars(focus = "tokenuse" /\ TUQuietFires)
    /\ SF_tuVars(focus = "tokenuse" /\ TUResume)

RealtimeFairness ==
    \A h \in Slots :
        /\ WF_rtVars(focus = "realtime" /\ RTHandler(h))
        /\ WF_rtVars(focus = "realtime" /\ RTCallDrop(h))

FailoverFairness ==
    /\ WF_foVars(focus = "failover" /\ FOBegin)
    /\ WF_foVars(focus = "failover" /\ FOProbe)
    /\ WF_foVars(focus = "failover" /\ FORead)
    /\ WF_foVars(focus = "failover" /\ FODecide)
    /\ WF_foVars(focus = "failover" /\ (FORestartCore \/ FORestartCached))

ServicesFairSpec ==
    /\ ServicesSpec
    /\ AuditFairness
    /\ TokenUseFairness
    /\ RealtimeFairness
    /\ FailoverFairness

-----------------------------------------------------------------------------
\* Every service gets on by itself: queued events and recorded uses reach their
\* rows, the slots of dropped sockets come free, and a failover group settles on
\* its best member (auditWriter.run, flushTimer, realtimeWS, FailoverJob.Run).
ServicesGetOn == QueueEmpties /\ TUDrains /\ RTDroppedLeaves /\ FOSettles
=============================================================================

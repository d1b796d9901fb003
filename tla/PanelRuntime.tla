----------------------------- MODULE PanelRuntime -----------------------------
(***************************************************************************)
(* The running panel: its process with the restart manager (AppRestart),   *)
(* the guards in front of the API, the accounts and tokens, the settings,  *)
(* the answers of the subscription server, and what the core reports and   *)
(* owns: tracked connections and the parts of its box.  (The addresses of  *)
(* clients have a run of their own: IpMonitor.)                            *)
(*                                                                         *)
(* The composition explores one component at a time, as PanelServices      *)
(* does: none of them writes a variable that another one reads.  (The      *)
(* restart manager and the core meet in AppRestart and CoreSync.)          *)
(***************************************************************************)
EXTENDS AppRestart, RateLimits, Accounts, Settings, Subscriptions,
        ConnTracker, CoreBox

VARIABLES focus

runtimeVars == <<focus, vars, rlVars, acVars, stVars, sbVars, ctVars, cbVars>>

RuntimeParts == {"process", "limits", "accounts", "settings", "answers",
                 "connections", "box"}

\* Two people with accounts, and which tracked connection is on which inbound:
\* a part without focus has one of its initial states.
OneAbsent == CHOOSE n \in [People -> Names \cup {"none"}] :
                 Cardinality({p \in People : n[p] = "none"}) = 1

RuntimeInit ==
    /\ focus \in RuntimeParts
    /\ AppInit /\ RLInit /\ ACInit /\ STInit /\ SBInit /\ CTInit /\ CBInit
    /\ focus # "accounts"    => acName = OneAbsent
    /\ focus # "settings"    => stSecrets = [k \in STSecretKeys |-> STNoSecret]
    /\ focus # "connections" => ctInbound = CHOOSE i \in [Conns -> Inbounds] : TRUE

RuntimeNext ==
    \/ /\ focus = "process" /\ AppNext
       /\ UNCHANGED <<focus, rlVars, acVars, stVars, sbVars, ctVars, cbVars>>
    \/ /\ focus = "limits" /\ RLNext
       /\ UNCHANGED <<focus, vars, acVars, stVars, sbVars, ctVars, cbVars>>
    \/ /\ focus = "accounts" /\ ACNext
       /\ UNCHANGED <<focus, vars, rlVars, stVars, sbVars, ctVars, cbVars>>
    \/ /\ focus = "settings" /\ STNext
       /\ UNCHANGED <<focus, vars, rlVars, acVars, sbVars, ctVars, cbVars>>
    \/ /\ focus = "answers" /\ SBNext
       /\ UNCHANGED <<focus, vars, rlVars, acVars, stVars, ctVars, cbVars>>
    \/ /\ focus = "connections" /\ CTNext
       /\ UNCHANGED <<focus, vars, rlVars, acVars, stVars, sbVars, cbVars>>
    \/ /\ focus = "box" /\ CBNext
       /\ UNCHANGED <<focus, vars, rlVars, acVars, stVars, sbVars, ctVars>>

\* The fairness of AppRestart, in the behaviours that are about the process.
RuntimeFairSpec ==
    /\ RuntimeInit /\ [][RuntimeNext]_runtimeVars
    /\ \A c \in Others : WF_vars(focus = "process" /\ Goroutine(c))
    /\ \A t \in Timers : WF_vars(focus = "process" /\ Timer(t))
    /\ WF_vars(focus = "process" /\ MainStep)
=============================================================================

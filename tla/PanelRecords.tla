---------------------------- MODULE PanelRecords ----------------------------
(***************************************************************************)
(* Three parts of the panel whose records several goroutines write: the    *)
(* orders of the bot, the addresses of a client, and the rows of the       *)
(* configuration with what the adapters of the core capture of them.       *)
(*                                                                         *)
(* The parts share no state: a step of one neither enables nor disables a  *)
(* step of another.  `focus` is the part that moves.                       *)
(***************************************************************************)
EXTENDS PaidOrders, IpMonitor, TagCaptures

VARIABLE focus

recordsVars == <<focus, vars, imVars, captureVars>>

RecordsInit ==
    /\ focus \in {"orders", "addresses", "captures"}
    /\ Init /\ IMInit /\ TCInit

\* All inputs at once have too many interleavings: there is an error, or a second
\* unit of traffic; and a flush that fails, or a Clear or a pass of the retention.
OrdersInScope ==
    /\ SaveStats => errors = 0 \/ up + total = 0
    /\ errors' # errors => up + total <= 1

AddressesInScope == imFaults + imClears <= 1

RecordsNext ==
    \/ /\ focus = "orders" /\ Next /\ OrdersInScope
       /\ UNCHANGED <<focus, imVars, captureVars>>
    \/ /\ focus = "addresses" /\ IMNext /\ AddressesInScope'
       /\ UNCHANGED <<focus, vars, captureVars>>
    \/ /\ focus = "captures" /\ TCNext
       /\ UNCHANGED <<focus, vars, imVars>>

RecordsSpec == RecordsInit /\ [][RecordsNext]_recordsVars
=============================================================================

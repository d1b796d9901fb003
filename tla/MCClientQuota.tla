---------------------------- MODULE MCClientQuota ----------------------------
(***************************************************************************)
(* ClientQuota within two scopes, because all its inputs at once have too  *)
(* many interleavings: the limits over three days without a renewal, and a *)
(* renewal over two days without a bulk edit.  The rest of the bounds are  *)
(* the constants; a scope takes nothing but inputs away.                   *)
(***************************************************************************)
EXTENDS ClientQuota

VARIABLE scope

InScope ==
    /\ scope = "limits"  => renewals = 0
    /\ scope = "renewal" => /\ today <= 2 /\ used <= 1
                            /\ \A b \in BulkEditors : form[b] = NoForm

MCInit ==
    /\ scope \in {"limits", "renewal"} /\ Init
    /\ scope = "renewal" => row.expiry > 0

MCNext == Next /\ UNCHANGED scope /\ InScope'

MCSpec == MCInit /\ [][MCNext]_<<vars, scope>> /\ Fairness
=============================================================================

----------------------------- MODULE GuestContract -----------------------------
(***************************************************************************)
(* The lifecycle a guest VMM promises its manager: one guest, driven by    *)
(* MSG_GUEST_* calls and by the reconstruction it runs between calls.      *)
(* GuestLifecycle implements it; VMManager is built on it.                 *)
(***************************************************************************)
EXTENDS GuestRpc

VARIABLES guest, reply

contractVars == <<guest, reply>>

ContractInit ==
    /\ guest = FreshGuest
    /\ reply = [op |-> "NONE", status |-> "OK"]

Call(op, status) ==
    /\ Rpc(op, guest, guest', status)
    /\ reply' = [op |-> op, status |-> status]

Prepare == Reconstructed(guest, guest') /\ UNCHANGED reply

ContractNext ==
    \/ \E op \in Ops, status \in Statuses : Call(op, status)
    \/ Prepare

ContractSpec == ContractInit /\ [][ContractNext]_contractVars

=============================================================================

------------------------------- MODULE VMManager -------------------------------
(***************************************************************************)
(* The VM manager (services/vm-manager/vm_manager.c): a single-threaded    *)
(* server that owns a table of VM slots and relays lifecycle requests to   *)
(* the dedicated guest VMM behind a slot.  A handler runs to completion    *)
(* before the next request is received and blocks in its calls to the VMM, *)
(* so one handler is one step, and the requests are those of VMClients;    *)
(* between handlers a VMM may finish the reconstruction it queued.  The    *)
(* VMMs answer as GuestRpc says.                                           *)
(*                                                                         *)
(* The generic multiplexer behind a slot without a VMM endpoint is the     *)
(* stub vmm_mux_stub.c in every image: it refuses everything.              *)
(***************************************************************************)
EXTENDS GuestRpc, Integers, FiniteSets

CONSTANT Configured     \* the profiles whose VMM endpoint the image provides

Profiles == {"PRIMARY", "SECONDARY"}

ASSUME ConfiguredAssumption == Configured \subseteq Profiles /\ Configured # {}

VM_MAX_SLOTS == 4

Slots == 0..VM_MAX_SLOTS - 1

SlotStates == {"FREE", "RUNNING", "SUSPENDED"}

VARIABLES
    slot,        \* g_mux.slots, g_slot_vmm_ep, g_slot_guest_bound, g_vm_types
    slot_count,  \* g_mux.slot_count
    guest        \* what each VMM holds

managerVars == <<slot, slot_count, guest>>

RelayResults == {"OK", "ERR"}

CreateResults == {"OK", "BAD_ARG", "BUSY", "INTERNAL", "NO_MEM"}

FreeSlot == [state |-> "FREE", ep |-> "NONE", bound |-> FALSE, type |-> "PRIMARY"]

ManagerInit ==
    /\ slot = [s \in Slots |-> FreeSlot]
    /\ slot_count = 0
    /\ guest = [p \in Configured |-> FreshGuest]

-----------------------------------------------------------------------------

dedicated_slot_for_type(p) ==
    IF Configured = Profiles /\ p = "SECONDARY" THEN 1 ELSE 0

(* Handlers narrow the request's slot_id word to uint8_t. *)
SlotOf(arg) == arg % 256

IsSlot(arg) == SlotOf(arg) < VM_MAX_SLOTS

(* dedicated_create's failure path.  The slot was taken before the first   *)
(* call to the VMM.                                                        *)
CreateUndone(s) ==
    /\ slot' = [slot EXCEPT ![s] = FreeSlot]
    /\ slot_count' = slot_count

CreateDone(s, p) ==
    /\ slot' = [slot EXCEPT ![s] =
                  [state |-> "RUNNING", ep |-> p, bound |-> TRUE, type |-> p]]
    /\ slot_count' = slot_count + 1

Boots(h, k, booted) == Rpc("BOOT", h, k, booted)

(* CREATE, then the GIC mapping and the scheduling context (prepared says  *)
(* whether both succeeded), then BOOT.                                     *)
CreateOnVmm(s, p, prepared, rc) ==
    \E h \in Guest, status \in Statuses :
        /\ Rpc("CREATE", guest[p], h, status)
        /\ \/ /\ status # "OK" \/ ~prepared
              /\ guest' = [guest EXCEPT ![p] = h]
              /\ CreateUndone(s)
              /\ rc = "INTERNAL"
           \/ /\ status = "OK" /\ prepared
              /\ \E k \in Guest, booted \in Statuses :
                    /\ Boots(h, k, booted)
                    /\ guest' = [guest EXCEPT ![p] = k]
                    /\ IF booted = "OK"
                         THEN CreateDone(s, p) /\ rc = "OK"
                         ELSE CreateUndone(s) /\ rc = "INTERNAL"

(* Mutant: CREATE takes the slot of a VM that exists. *)
CreateAdmitted_Always(p) == TRUE

CreateAdmitted(p) == slot[dedicated_slot_for_type(p)].state = "FREE"

h_create(p, fits, prepared, rc) ==
    LET s == dedicated_slot_for_type(p)
        Refused == UNCHANGED <<slot, slot_count, guest>>
    IN  \/ p \notin Configured /\ Refused /\ rc = "NO_MEM"
        \/ p \in Configured /\ ~fits /\ Refused /\ rc = "BAD_ARG"
        \/ /\ p \in Configured /\ fits /\ ~CreateAdmitted(p)
           /\ Refused /\ rc = "BUSY"
        \/ /\ p \in Configured /\ fits /\ CreateAdmitted(p)
           /\ CreateOnVmm(s, p, prepared, rc)

(* Mutant: the slot advances whatever the VMM said. *)
dedicated_guest_call_Eager(s, op, next, rc) ==
    /\ slot[s].bound
    /\ \E h \in Guest, status \in Statuses :
         /\ Rpc(op, guest[slot[s].ep], h, status)
         /\ guest' = [guest EXCEPT ![slot[s].ep] = h]
         /\ rc = IF status = "OK" THEN "OK" ELSE "ERR"
         /\ slot' = [slot EXCEPT ![s].state = next]
         /\ UNCHANGED slot_count

(* dedicated_guest_call: the slot advances only when the VMM said OK. *)
dedicated_guest_call(s, op, next, rc) ==
    \/ /\ ~slot[s].bound
       /\ UNCHANGED <<slot, slot_count, guest>> /\ rc = "ERR"
    \/ /\ slot[s].bound
       /\ \E h \in Guest, status \in Statuses :
            /\ Rpc(op, guest[slot[s].ep], h, status)
            /\ guest' = [guest EXCEPT ![slot[s].ep] = h]
            /\ rc = IF status = "OK" THEN "OK" ELSE "ERR"
            /\ slot' = IF status = "OK" THEN [slot EXCEPT ![s].state = next] ELSE slot
            /\ UNCHANGED slot_count

(* h_stop and h_pause, h_start and h_resume: the first of each pair tests  *)
(* the slot's state, the second its endpoint.                              *)
HasVmm(s) == slot[s].state # "FREE" /\ slot[s].ep # "NONE"

Refuse(rc) == UNCHANGED <<slot, slot_count, guest>> /\ rc = "ERR"

h_stop(arg, rc) ==
    IF IsSlot(arg) /\ HasVmm(SlotOf(arg))
      THEN dedicated_guest_call(SlotOf(arg), "SUSPEND", "SUSPENDED", rc)
      ELSE Refuse(rc)

h_start(arg, rc) ==
    IF IsSlot(arg) /\ HasVmm(SlotOf(arg))
      THEN dedicated_guest_call(SlotOf(arg), "RESUME", "RUNNING", rc)
      ELSE Refuse(rc)

h_pause(arg, rc) ==
    IF IsSlot(arg) /\ slot[SlotOf(arg)].ep # "NONE"
      THEN dedicated_guest_call(SlotOf(arg), "SUSPEND", "SUSPENDED", rc)
      ELSE Refuse(rc)

h_resume(arg, rc) ==
    IF IsSlot(arg) /\ slot[SlotOf(arg)].ep # "NONE"
      THEN dedicated_guest_call(SlotOf(arg), "RESUME", "RUNNING", rc)
      ELSE Refuse(rc)

(* dedicated_destroy: the slot is given back only when the VMM reports the *)
(* guest gone.                                                             *)
dedicated_destroy(s, rc) ==
    \/ ~slot[s].bound /\ Refuse(rc)
    \/ /\ slot[s].bound
       /\ \E h \in Guest, status \in Statuses :
            /\ Rpc("DESTROY", guest[slot[s].ep], h, status)
            /\ guest' = [guest EXCEPT ![slot[s].ep] = h]
            /\ IF status = "OK"
                 THEN /\ slot' = [slot EXCEPT ![s] = FreeSlot]
                      /\ slot_count' = IF slot_count > 0 THEN slot_count - 1 ELSE slot_count
                      /\ rc = "OK"
                 ELSE UNCHANGED <<slot, slot_count>> /\ rc = "ERR"

h_destroy(arg, rc) ==
    IF IsSlot(arg) /\ slot[SlotOf(arg)].ep # "NONE"
      THEN dedicated_destroy(SlotOf(arg), rc)
      ELSE Refuse(rc)

(* The VMM's deferred reconstruction of a DEAD guest. *)
Reconstruct(p) ==
    /\ \E h \in Guest : Reconstructed(guest[p], h) /\ guest' = [guest EXCEPT ![p] = h]
    /\ UNCHANGED <<slot, slot_count>>

-----------------------------------------------------------------------------
(* What a slot reports is what its VMM holds.  A RUNNING (SUSPENDED) slot  *)
(* has a guest that runs (is suspended) or whose destruction has begun and *)
(* must be retried through this slot; a VMM behind no slot has no guest    *)
(* that could run.  slot_count, which sizes the CPU shares, is the number  *)
(* of slots in use, and no path through a failed CREATE or DESTROY leaves  *)
(* a binding behind (dedicated_create, dedicated_guest_call,               *)
(* dedicated_destroy).                                                     *)
SlotTracksGuest ==
    /\ \A p \in Configured :
        LET r == slot[dedicated_slot_for_type(p)]
        IN  CASE r.state = "RUNNING" /\ r.ep = p ->
                   guest[p].state \in {"RUNNING", "DESTROYING"}
              [] r.state = "SUSPENDED" /\ r.ep = p ->
                   guest[p].state \in {"SUSPENDED", "DESTROYING"}
              [] OTHER -> guest[p].state \in {"READY", "DEAD"} /\ ~guest[p].started
    /\ slot_count = Cardinality({s \in Slots : slot[s].state # "FREE"})
    /\ \A s \in Slots : slot[s].state = "FREE" => slot[s] = FreeSlot
=============================================================================

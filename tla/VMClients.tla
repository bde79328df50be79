------------------------------- MODULE VMClients -------------------------------
(***************************************************************************)
(* The two services that hold handles on VMs, composed with the manager:   *)
(* the command console's VM client (services/command-console/              *)
(* cc_vm_client.c) and the VibeOS instance table of the vibe engine        *)
(* (services/vibe-engine/vibe_engine.c).  An operation of theirs is a      *)
(* sequence of blocking calls to the manager; one call is one step, and    *)
(* between two calls of one client the other client, and the VMMs, move.   *)
(*                                                                         *)
(* Entries are sets of records: which array index an entry occupies is     *)
(* visible to nobody.  Requests that are refused before any call change    *)
(* nothing and are left out.                                               *)
(***************************************************************************)
EXTENDS VMManager

CONSTANTS Console,   \* the command console runs
          Vibe,      \* the vibe engine runs
          Word       \* handle counters are Word-valued (2^32 in the code)

ASSUME ClientsAssumption == Console \in BOOLEAN /\ Vibe \in BOOLEAN /\ Word \in Nat \ {0}

CC_VM_CLIENT_SLOTS == 4

MAX_VOS_INSTANCES == 4

VARIABLES
    cc,       \* active entries of the console's table
    ccNext,   \* next_handle
    ccPc,     \* "idle", or the call cc_vm_create makes next
    ccEntry,  \* the entry cc_vm_create is working on
    issued,   \* history: every handle the console has issued
    vos,      \* active instances of the vibe engine
    vosNext,  \* s_next_handle
    vosPc,    \* "idle", or the call the handler makes next
    vosWork   \* the instance the handler is working on

ccVars == <<cc, ccNext, ccPc, ccEntry, issued>>
vosVars == <<vos, vosNext, vosPc, vosWork>>
vars == <<managerVars, ccVars, vosVars>>

NoEntry == [handle |-> 0, slot |-> 0, profile |-> "PRIMARY"]

NoInstance == [handle |-> 0, slot |-> 0, state |-> "BOOTING"]

Init ==
    /\ ManagerInit
    /\ cc = {} /\ ccNext = 1 % Word /\ ccPc = "idle" /\ ccEntry = NoEntry /\ issued = {}
    /\ vos = {} /\ vosNext = 1 /\ vosPc = "idle" /\ vosWork = NoInstance

-----------------------------------------------------------------------------
(* The command console. *)

CcIdle == Console /\ ccPc = "idle"

HandlesLeft_Always == TRUE

HandlesLeft == ccNext # 0

NextHandle(n) == (n + 1) % Word

(* cc_vm_create up to the manager's reply to CREATE. *)
cc_vm_create(p) ==
    /\ CcIdle
    /\ \A e \in cc : e.profile # p
    /\ Cardinality(cc) < CC_VM_CLIENT_SLOTS
    /\ HandlesLeft
    /\ \E fits \in BOOLEAN, prepared \in BOOLEAN, rc \in CreateResults :
         LET s == dedicated_slot_for_type(p)
             Taken == rc = "OK" /\ \A e \in cc : e.slot # s
             new == [handle |-> ccNext, slot |-> s, profile |-> p]
         IN  /\ h_create(p, fits, prepared, rc)
             /\ IF Taken
                  THEN /\ cc' = cc \union {new} /\ ccEntry' = new /\ ccPc' = "start"
                       /\ ccNext' = NextHandle(ccNext)
                       /\ issued' = issued \union {ccNext}
                  ELSE UNCHANGED ccVars
    /\ UNCHANGED vosVars

(* CREATE's START.  The code rolls a failure back with DESTROY;            *)
(* HandleOwnsSlot shows that the manager never gives it cause to, so       *)
(* the rollback has no step here.                                          *)
CcStart ==
    /\ ccPc = "start"
    /\ \E rc \in RelayResults :
         /\ h_start(ccEntry.slot, rc)
         /\ ccPc' = IF rc = "OK" THEN "idle" ELSE "rollback"
         /\ ccEntry' = IF rc = "OK" THEN NoEntry ELSE ccEntry
    /\ UNCHANGED <<cc, ccNext, issued, vosVars>>

(* cc_vm_lifecycle on an active handle: STOP, RESUME or DESTROY. *)
CcStop(e) ==
    /\ CcIdle
    /\ \E rc \in RelayResults : h_stop(e.slot, rc)
    /\ UNCHANGED <<ccVars, vosVars>>

CcResume(e) ==
    /\ CcIdle
    /\ \E rc \in RelayResults : h_resume(e.slot, rc)
    /\ UNCHANGED <<ccVars, vosVars>>

CcDestroy_Forgets(e) ==
    /\ CcIdle
    /\ \E rc \in RelayResults : h_destroy(e.slot, rc)
    /\ cc' = cc \ {e}
    /\ UNCHANGED <<ccNext, ccPc, ccEntry, issued, vosVars>>

CcDestroy(e) ==
    /\ CcIdle
    /\ \E rc \in RelayResults :
         /\ h_destroy(e.slot, rc)
         /\ cc' = IF rc = "OK" THEN cc \ {e} ELSE cc
    /\ UNCHANGED <<ccNext, ccPc, ccEntry, issued, vosVars>>

-----------------------------------------------------------------------------
(* The vibe engine. *)

VosIdle == Vibe /\ vosPc = "idle"

(* handle_vos_create: CREATE; the instance becomes active after START.     *)
(* The counter has no guard, and is bounded here below its wrap.           *)
VosCreate(p) ==
    /\ VosIdle
    /\ Cardinality(vos) < MAX_VOS_INSTANCES
    /\ vosNext < Word
    /\ \E fits \in BOOLEAN, prepared \in BOOLEAN, rc \in CreateResults :
         /\ h_create(p, fits, prepared, rc)
         /\ vosPc' = IF rc = "OK" THEN "start" ELSE "idle"
         /\ vosWork' = IF rc = "OK"
                         THEN [handle |-> vosNext, slot |-> dedicated_slot_for_type(p),
                               state |-> "BOOTING"]
                         ELSE vosWork
    /\ UNCHANGED <<ccVars, vos, vosNext>>

(* START's answer is not looked at. *)
VosStart ==
    /\ vosPc = "start"
    /\ \E rc \in RelayResults : h_start(vosWork.slot, rc)
    /\ vos' = vos \union {vosWork}
    /\ vosNext' = vosNext + 1
    /\ vosPc' = "idle" /\ vosWork' = NoInstance
    /\ UNCHANGED ccVars

(* handle_vos_destroy: STOP, then DESTROY; neither answer is looked at. *)
VosDestroy(i) ==
    /\ VosIdle
    /\ \E rc \in RelayResults : h_stop(i.slot, rc)
    /\ vosPc' = "destroy" /\ vosWork' = i
    /\ UNCHANGED <<ccVars, vos, vosNext>>

VosDestroyed ==
    /\ vosPc = "destroy"
    /\ \E rc \in RelayResults : h_destroy(vosWork.slot, rc)
    /\ vos' = {i \in vos : i.handle # vosWork.handle}
    /\ vosPc' = "idle" /\ vosWork' = NoInstance
    /\ UNCHANGED <<ccVars, vosNext>>

Recorded(i, state, rc) ==
    vos' = IF rc = "OK" THEN (vos \ {i}) \union {[i EXCEPT !.state = state]} ELSE vos

(* handle_vos_suspend and handle_vos_resume. *)
VosSuspend(i) ==
    /\ VosIdle
    /\ \E rc \in RelayResults :
         h_stop(i.slot, rc) /\ Recorded(i, "PAUSED", rc)
    /\ UNCHANGED <<ccVars, vosNext, vosPc, vosWork>>

VosResume(i) ==
    /\ VosIdle
    /\ \E rc \in RelayResults :
         h_resume(i.slot, rc) /\ Recorded(i, "RUNNING", rc)
    /\ UNCHANGED <<ccVars, vosNext, vosPc, vosWork>>

(* handle_vos_pause_resume, behind the older opcodes, tests the recorded   *)
(* state first.                                                            *)
VosPauseResume(i) ==
    /\ VosIdle
    /\ \E rc \in RelayResults :
         \/ /\ i.state \in {"RUNNING", "BOOTING"}
            /\ h_pause(i.slot, rc) /\ Recorded(i, "PAUSED", rc)
         \/ /\ i.state = "PAUSED"
            /\ h_resume(i.slot, rc) /\ Recorded(i, "RUNNING", rc)
    /\ UNCHANGED <<ccVars, vosNext, vosPc, vosWork>>

(* handle_vos_status refreshes the recorded state from h_info; a FREE slot *)
(* leaves it alone.                                                        *)
VosStatus(i) ==
    /\ VosIdle
    /\ vos' = CASE slot[i.slot].state = "RUNNING" ->
                     (vos \ {i}) \union {[i EXCEPT !.state = "RUNNING"]}
                [] slot[i.slot].state = "SUSPENDED" ->
                     (vos \ {i}) \union {[i EXCEPT !.state = "PAUSED"]}
                [] OTHER -> vos
    /\ UNCHANGED <<managerVars, ccVars, vosNext, vosPc, vosWork>>

-----------------------------------------------------------------------------

VmmStep == \E p \in Configured : Reconstruct(p) /\ UNCHANGED <<ccVars, vosVars>>

Next ==
    \/ \E p \in Profiles : cc_vm_create(p) \/ VosCreate(p)
    \/ CcStart
    \/ \E e \in cc : CcStop(e) \/ CcResume(e) \/ CcDestroy(e)
    \/ VosStart \/ VosDestroyed
    \/ \E i \in vos :
          \/ VosDestroy(i) \/ VosSuspend(i) \/ VosResume(i)
          \/ VosPauseResume(i) \/ VosStatus(i)
    \/ VmmStep

Spec == Init /\ [][Next]_vars

-----------------------------------------------------------------------------

(* The slots live handles name: with multiplicity, as <<client, handle>>. *)
Named ==
    {<<"cc", e.handle, e.slot>> : e \in cc}
      \union {<<"vos", i.handle, i.slot>> : i \in vos}
      \union (IF vosPc = "start" THEN {<<"vos", vosWork.handle, vosWork.slot>>} ELSE {})

(* Every live handle names a slot in use, and no slot is named by two      *)
(* handles, of one client or of two: a client's DESTROY can never take     *)
(* away, nor its CREATE obtain, the VM behind another handle.  So START,   *)
(* the second call of a CREATE, cannot fail once the first has succeeded,  *)
(* whatever the other client does in between, and a CREATE of the console  *)
(* never ends in a rollback that could itself fail (cc_vm_create).         *)
HandleOwnsSlot ==
    /\ \A n \in Named : slot[n[3]].state # "FREE"
    /\ \A m \in Named, n \in Named : m[3] = n[3] => m = n
    /\ ccPc # "rollback"

\* The console loses no VM: a slot that comes into use has a handle at once, and
\* a console handle goes away only together with the use of its slot, so a
\* DESTROY the manager refused can be repeated.
NoVmIsLost ==
    [][/\ \A s \in Slots : slot[s].state = "FREE" /\ slot'[s].state # "FREE" =>
             \E n \in Named' : n[3] = s
       /\ \A e \in cc : e.handle \notin {f.handle : f \in cc'} =>
             slot'[e.slot].state = "FREE"]_vars

(* "Public CC handles are monotonic and independent of reusable backend    *)
(* slots": the console never issues a handle it issued before, not even    *)
(* when its counter wraps.                                                 *)
HandleNeverReissued ==
    [][\A e \in cc' : e.handle \notin {f.handle : f \in cc} =>
          e.handle \notin issued /\ e.handle # 0]_vars

(* The three records of a VM agree: what the vibe engine recorded of an    *)
(* instance is what the manager's slot says, although only its own calls   *)
(* refresh it, and what the slot says is what the VMM holds, whatever      *)
(* failed on the way (Recorded, SlotTracksGuest).                          *)
RecordsAgree ==
    /\ SlotTracksGuest
    /\ \A i \in vos :
        vosPc # "destroy" \/ vosWork.handle # i.handle =>
            slot[i.slot].state = IF i.state = "PAUSED" THEN "SUSPENDED" ELSE "RUNNING"

(* "MSG_VIBEOS_DESTROY releases ALL resources: VMM PD, device handles,     *)
(* swap slot" (vibeos_contract.h): when DESTROY is answered OK, the VM of  *)
(* the instance is gone.                                                   *)
VosDestroyReleases ==
    [][VosDestroyed => slot'[vosWork.slot].state = "FREE"]_vars

=============================================================================

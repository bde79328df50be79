-------------------------------- MODULE VMSched --------------------------------
(***************************************************************************)
(* The VM manager's credit scheduler (services/vm-manager/vm_manager.c,    *)
(* vm_sched_tick).  It runs inside the manager's dispatch loop, before     *)
(* every sixteenth request, and picks the slot whose credits are charged.  *)
(* Between two ticks requests start and stop slots (VMManager) and set     *)
(* quotas.  Statistics (run_ticks, preempt_count) are left out.            *)
(***************************************************************************)
EXTENDS Integers

CONSTANTS VM_MAX_SLOTS,            \* 4 in the code
          Quotas,                  \* the values max_cpu_pct may take
          DefaultQuota,            \* 100 / VM_MAX_SLOTS
          SCHED_CREDITS_PER_PCT    \* 4 in the code

ASSUME SchedAssumption ==
    /\ VM_MAX_SLOTS \in Nat \ {0}
    /\ Quotas \subseteq Nat /\ DefaultQuota \in Quotas
    /\ SCHED_CREDITS_PER_PCT \in Nat \ {0}

Slots == 0..VM_MAX_SLOTS - 1

VARIABLES
    state,     \* mux->slots[i].state: "RUNNING" is what the scheduler looks for
    quota,     \* g_quotas[i].max_cpu_pct
    credits,   \* g_quotas[i].credits
    current    \* g_sched_current

vars == <<state, quota, credits, current>>

Init ==
    /\ state = [i \in Slots |-> "FREE"]
    /\ quota = [i \in Slots |-> DefaultQuota]
    /\ credits = [i \in Slots |-> 0]
    /\ current = 0

Runnable(i) == state[i] = "RUNNING" /\ quota[i] > 0

Share(q) == q * SCHED_CREDITS_PER_PCT

-----------------------------------------------------------------------------

Recharged(c, i) == [c EXCEPT ![i] = Share(quota[i])]

(* The current slot cannot run: take the lowest one that can, if any. *)
PickFirst ==
    /\ ~Runnable(current)
    /\ \/ /\ \A i \in Slots : ~Runnable(i)
          /\ UNCHANGED <<credits, current>>
       \/ \E i \in Slots :
            /\ Runnable(i) /\ \A j \in 0..i - 1 : ~Runnable(j)
            /\ current' = i
            /\ credits' = Recharged(credits, i)

Candidate_NoWrap(step) ==
    IF current + step < VM_MAX_SLOTS THEN current + step ELSE current

(* The candidates in the order the round-robin scan meets them. *)
Candidate(step) == (current + step) % VM_MAX_SLOTS

Eligible(step) == Runnable(Candidate(step)) /\ Candidate(step) # current

(* The current slot is charged.  When its credits are used up, the next    *)
(* slot that can run takes over with a full share; alone, it recharges.    *)
Charge ==
    /\ Runnable(current)
    /\ LET left == credits[current] - 1
           charged == [credits EXCEPT ![current] = left]
       IN  \/ left > 0 /\ credits' = charged /\ UNCHANGED current
           \/ /\ left <= 0
              /\ \A step \in 1..VM_MAX_SLOTS : ~Eligible(step)
              /\ credits' = Recharged(credits, current)
              /\ UNCHANGED current
           \/ /\ left <= 0
              /\ \E step \in 1..VM_MAX_SLOTS :
                    /\ Eligible(step) /\ \A t \in 1..step - 1 : ~Eligible(t)
                    /\ current' = Candidate(step)
                    /\ credits' = Recharged(charged, Candidate(step))

(* vmm_mux_pause and vmm_mux_resume are the stubs of vmm_mux_stub.c: a     *)
(* preemption changes no slot's state.                                     *)
vm_sched_tick ==
    /\ PickFirst \/ Charge
    /\ UNCHANGED <<state, quota>>

(* h_set_quota and h_configure end here. *)
vm_set_quota(i, pct) ==
    /\ quota' = [quota EXCEPT ![i] = pct]
    /\ credits' = [credits EXCEPT ![i] = Share(pct)]
    /\ UNCHANGED <<state, current>>

(* The lifecycle requests, as the scheduler sees them. *)
SlotChanges(i, to) ==
    /\ state' = [state EXCEPT ![i] = to]
    /\ UNCHANGED <<quota, credits, current>>

SlotStates == {"FREE", "RUNNING", "SUSPENDED"}

Next ==
    \/ vm_sched_tick
    \/ \E i \in Slots, pct \in Quotas : vm_set_quota(i, pct)
    \/ \E i \in Slots, to \in SlotStates : SlotChanges(i, to)

Spec == Init /\ [][Next]_vars

(* Requests keep arriving, so ticks keep happening. *)
FairSpec == Spec /\ WF_vars(vm_sched_tick)

-----------------------------------------------------------------------------

(* Once requests stop changing slots and setting quotas, every slot that   *)
(* can run is current again and again (vm_sched_tick's round robin).       *)
(* Setting a quota recharges the slot even when the value stays the same,  *)
(* so a caller that keeps doing it for the current slot starves the rest.  *)
EverySlotServed ==
    \A i \in Slots :
        <>[][vm_sched_tick]_vars /\ <>[]Runnable(i) => []<>(current = i)
=============================================================================

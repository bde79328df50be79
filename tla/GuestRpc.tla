------------------------------- MODULE GuestRpc -------------------------------
(***************************************************************************)
(* What a guest VMM answers to the MSG_GUEST_* lifecycle protocol, as a    *)
(* relation between the guest before the call, the guest after it and the  *)
(* status in the reply (platform/guest-vmm/runtime.c).  A guest is seen    *)
(* from outside as a record:                                               *)
(*   state    the lifecycle word GUEST_STATE_*                             *)
(*   started  guest_started                                                *)
(*   prep     what reset() knows of the reconstruction of a DEAD guest:    *)
(*            "none", "queued" (CREATE answered, work not finished),       *)
(*            "ready" (the next CREATE consumes it) or "failed"            *)
(***************************************************************************)

Ops == {"CREATE", "BOOT", "SUSPEND", "RESUME", "DESTROY"}

States == {"READY", "RUNNING", "SUSPENDED", "DESTROYING", "DEAD"}

Preps == {"none", "queued", "ready", "failed"}

Statuses == {"OK", "BAD_STATE", "DEAD", "NOT_READY"}

Guest == [state : States, started : BOOLEAN, prep : Preps]

FreshGuest == [state |-> "READY", started |-> FALSE, prep |-> "none"]

(* MSG_GUEST_CREATE.  A DEAD guest becomes READY only through a finished   *)
(* reconstruction; the first CREATE queues one and answers NOT_READY.      *)
Create(g, h, status) ==
    \/ /\ g.state = "DESTROYING"
       /\ h = g /\ status = "BAD_STATE"
    \/ /\ g.state = "DEAD" /\ g.prep = "ready"
       /\ h = [state |-> "READY", started |-> FALSE, prep |-> "none"]
       /\ status = "OK"
    \/ /\ g.state = "DEAD" /\ g.prep = "none" /\ ~g.started
       /\ h = [g EXCEPT !.prep = "queued"]
       /\ status = "NOT_READY"
    \/ /\ g.state = "DEAD" /\ g.prep # "ready"
       /\ g.prep = "failed" \/ g.started
       /\ h = g /\ status = "NOT_READY"
    \/ /\ g.state \in {"READY", "RUNNING", "SUSPENDED"}
       /\ h = g
       /\ status = IF g.state = "READY" /\ ~g.started THEN "OK" ELSE "BAD_STATE"

(* MSG_GUEST_BOOT.  start() may fail, which leaves the guest as it was. *)
Boot(g, h, status) ==
    \/ /\ g.state = "DEAD"
       /\ h = g /\ status = "DEAD"
    \/ /\ g.state \in {"SUSPENDED", "DESTROYING"}
       /\ h = g /\ status = "BAD_STATE"
    \/ /\ g.state \in {"READY", "RUNNING"} /\ ~g.started
       /\ h = g /\ status = "NOT_READY"
    \/ /\ g.state \in {"READY", "RUNNING"}
       /\ h = [state |-> "RUNNING", started |-> TRUE, prep |-> g.prep]
       /\ status = "OK"

(* MSG_GUEST_SUSPEND and MSG_GUEST_RESUME refuse the same states.  The     *)
(* state advances only when the execution callback succeeds; a call that   *)
(* finds the guest already there runs no callback.                         *)
Transition(g, h, status, from, to) ==
    \/ /\ g.state = "DEAD"
       /\ h = g /\ status = "DEAD"
    \/ /\ g.state \in {"READY", "DESTROYING"} \/ (~g.started /\ g.state # "DEAD")
       /\ h = g /\ status = "BAD_STATE"
    \/ /\ g.started /\ g.state = from
       /\ h = g /\ status = "NOT_READY"
    \/ /\ g.started /\ g.state \in {from, to}
       /\ h = [g EXCEPT !.state = to] /\ status = "OK"

Suspend(g, h, status) == Transition(g, h, status, "RUNNING", "SUSPENDED")

Resume(g, h, status) == Transition(g, h, status, "SUSPENDED", "RUNNING")

(* MSG_GUEST_DESTROY.  The guest may refuse to stop; once it has stopped   *)
(* it is DESTROYING until every teardown stage has succeeded.  A teardown  *)
(* that got past the execution objects has already cleared started.        *)
Destroy(g, h, status) ==
    \/ /\ g.state = "DEAD"
       /\ h = g /\ status = "OK"
    \/ /\ g.state \in {"READY", "RUNNING"}
       /\ h = g /\ status = "NOT_READY"
    \/ /\ g.state # "DEAD"
       /\ \/ h = [g EXCEPT !.state = "DESTROYING"]
          \/ h = [state |-> "DESTROYING", started |-> FALSE, prep |-> g.prep]
       /\ status = "NOT_READY"
    \/ /\ g.state # "DEAD"
       /\ h = [state |-> "DEAD", started |-> FALSE, prep |-> g.prep]
       /\ status = "OK"

(* guest_vmm_rpc: while a reconstruction runs, the VMM is either not       *)
(* receiving or (media staging) answers everything with NOT_READY.         *)
Rpc(op, g, h, status) ==
    \/ /\ g.prep = "queued"
       /\ h = g /\ status = "NOT_READY"
    \/ /\ g.prep # "queued"
       /\ \/ op = "CREATE" /\ Create(g, h, status)
          \/ op = "BOOT" /\ Boot(g, h, status)
          \/ op = "SUSPEND" /\ Suspend(g, h, status)
          \/ op = "RESUME" /\ Resume(g, h, status)
          \/ op = "DESTROY" /\ Destroy(g, h, status)

(* guest_vmm_after_rpc_reply: the queued reconstruction ends ready, fails  *)
(* for good, or is refused before it starts (generation exhausted).        *)
Reconstructed(g, h) ==
    /\ g.prep = "queued"
    /\ h \in {[g EXCEPT !.prep = p] : p \in {"ready", "failed", "none"}}

=============================================================================

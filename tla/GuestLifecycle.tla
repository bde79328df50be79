---------------------------- MODULE GuestLifecycle ----------------------------
(***************************************************************************)
(* A guest VMM: the lifecycle RPC (runtime.c), the receive loop (loop.c),  *)
(* the resumable teardown (teardown.c), the deferred reconstruction with   *)
(* its retryable cleanup (arm_recreate.c) and the callbacks that tie them  *)
(* together (guest_vmm.c), with the five virtualizer services as far as    *)
(* the VMM depends on them.                                                *)
(*                                                                         *)
(* The VMM is one thread: a handler runs to its end before the next        *)
(* message is received.  The reconstruction is one action per step because *)
(* its media step receives messages while it waits.  Kernel and service    *)
(* calls may fail, and may take effect and still be reported as failed.    *)
(***************************************************************************)
EXTENDS GuestRpc, Integers, Sequences, FiniteSets

CONSTANTS
    Enabled,    \* backends the profile enables
    MaxGen      \* UINT32_MAX of the reconstruction generation

Backends == {"NET", "BLK", "SERIAL", "INPUT", "GRAPHICS"}

Memory == {"EXECUTION", "RAM", "PAGING"}

(* A backend's name also names the pool its queue pages are retyped from. *)
Resources == Backends \cup Memory

ASSUME ProfileAssumption ==
    /\ Enabled \subseteq Backends
    /\ "SERIAL" \in Enabled
    /\ MaxGen \in Nat \ {0}

VARIABLES
    state,      \* g_guest_state
    started,    \* guest_started
    startable,  \* g_guest_startable
    sc,         \* the vCPU's scheduling context is bound
    fault,      \* vCPU fault message: "none", "queued" or "dropped" (no reply)
    torn,       \* teardown stages completed (aos_guest_teardown_t)
    live,       \* resources that exist and are not revoked
    vmm,        \* backends the VMM's device adapters hold as attached
    quiesced,   \* backends whose adapter admits no new guest work
    virt,       \* each service's view of this client
    vgen,       \* each service's generation of this client
    io,         \* the block request in flight
    rec,        \* aos_arm_recreate_t
    pc,         \* step of the running reconstruction, 0 when none runs
    pending,    \* reconstruction_pending
    ready,      \* reconstruction_ready
    reply       \* the last lifecycle reply

ctlVars == <<state, started, startable, sc, fault>>
resVars == <<torn, live, vmm, quiesced, virt, vgen, io>>
recVars == <<rec, pc, pending, ready>>
vars == <<ctlVars, resVars, recVars, reply>>

Replied(op, status) == reply' = [op |-> op, status |-> status]

(* The VMM is in its receive loop, not inside a reconstruction. *)
Receiving == pc = 0 /\ ~pending

Executing == started /\ sc /\ fault = "none"

-----------------------------------------------------------------------------
(* Block request in flight.  An unaligned write reads first ("rmw"): its   *)
(* response makes the adapter queue the write itself.                      *)

Io == {"idle", "rmw", "rmw_done", "request", "response"}

(* blk_virt_service: complete what the virtualizer has answered. *)
Drained(i) == CASE i = "response" -> "idle"
                [] i = "rmw_done" -> "request"
                [] OTHER -> i

BlkReady == "BLK" \in vmm /\ torn = 0 /\ "BLK" \in Enabled

-----------------------------------------------------------------------------
(* Teardown stages in the order of aos_guest_teardown_step. *)

Stage(do, of) == [do |-> do, of |-> of]

TeardownStages_RamEarly ==
    << Stage("quiesce", "ALL"),
       Stage("detach", "NET"), Stage("detach", "BLK"), Stage("revoke", "RAM"),
       Stage("detach", "SERIAL"),
       Stage("detach", "INPUT"), Stage("detach", "GRAPHICS"),
       Stage("revoke", "NET"), Stage("revoke", "BLK"), Stage("revoke", "SERIAL"),
       Stage("revoke", "INPUT"), Stage("revoke", "GRAPHICS"),
       Stage("revoke", "EXECUTION"), Stage("revoke", "PAGING") >>

TeardownStages ==
    << Stage("quiesce", "ALL"),
       Stage("detach", "NET"), Stage("detach", "BLK"), Stage("detach", "SERIAL"),
       Stage("detach", "INPUT"), Stage("detach", "GRAPHICS"),
       Stage("revoke", "NET"), Stage("revoke", "BLK"), Stage("revoke", "SERIAL"),
       Stage("revoke", "INPUT"), Stage("revoke", "GRAPHICS"),
       Stage("revoke", "EXECUTION"), Stage("revoke", "RAM"),
       Stage("revoke", "PAGING") >>

Stages == 14

(* What the stages in `span` act on. *)
StageTargets(do, span) ==
    {TeardownStages[i].of : i \in {j \in span : TeardownStages[j].do = do}}

(* Every accepted block request has completed. *)
QuiesceDone == Drained(io) = "idle"

(* One call of the teardown callback: it gets as far as stage `stop`; when *)
(* `half`, the next stage took effect and was still reported as failed.    *)
Teardown(stop, half) ==
    LET reached == torn + 1 .. (IF half THEN stop + 1 ELSE stop)
        acked   == StageTargets("detach", torn + 1 .. stop)
        left    == StageTargets("detach", reached) \cap vmm
    IN
    /\ half => stop < Stages
    /\ torn = 0 /\ ~QuiesceDone => stop = 0 /\ ~half
    /\ torn' = stop
    /\ quiesced' = IF torn = 0 THEN Backends ELSE quiesced
    /\ io' = IF torn = 0 THEN Drained(io) ELSE io
    /\ vmm' = vmm \ acked
    /\ virt' = [b \in Backends |-> IF b \in left THEN "retired" ELSE virt[b]]
    /\ live' = live \ StageTargets("revoke", reached)
    /\ UNCHANGED vgen

ExecutionReleased == \E i \in 1..torn' : TeardownStages[i] = Stage("revoke", "EXECUTION")

-----------------------------------------------------------------------------
(* Reconstruction steps in the order of aos_arm_recreate_step_t. *)

RecreateSteps ==
    << Stage("build", "PAGING"), Stage("build", "RAM"), Stage("build", "EXECUTION"),
       Stage("prepare", "IMAGES"), Stage("prepare", "NATIVE_STATE"),
       Stage("rebind", "NET"), Stage("adopt", "NET"),
       Stage("rebind", "BLK"), Stage("adopt", "BLK"),
       Stage("rebind", "SERIAL"), Stage("adopt", "SERIAL"),
       Stage("rebind", "INPUT"), Stage("adopt", "INPUT"),
       Stage("stage", "GRAPHICS"), Stage("rebind", "GRAPHICS"),
       Stage("adopt", "GRAPHICS"), Stage("prepare", "MEDIA") >>

Steps == 17

DetachOrder == [NET |-> 1, BLK |-> 2, SERIAL |-> 3, INPUT |-> 4, GRAPHICS |-> 5]

(* Resources revoked by each release of the cleanup, in its order. *)
Releases_NoGraphics ==
    << Backends \ {"GRAPHICS"}, {}, {"EXECUTION"}, {"RAM"}, {"PAGING"} >>

Releases == << Backends \ {"GRAPHICS"}, {"GRAPHICS"}, {"EXECUTION"}, {"RAM"}, {"PAGING"} >>

Init ==
    /\ state = "READY" /\ started = FALSE /\ startable = TRUE
    /\ sc = TRUE /\ fault = "none"
    /\ torn = 0 /\ live = Enabled \cup Memory /\ vmm = Enabled /\ quiesced = {}
    /\ virt = [b \in Backends |-> IF b \in Enabled THEN "attached" ELSE "retired"]
    /\ vgen = [b \in Backends |-> 0]
    /\ io = "idle"
    /\ rec = [generation |-> 0, failed |-> FALSE, cleanup_pending |-> FALSE,
              attempted |-> {}, release_next |-> 0]
    /\ pc = 0 /\ pending = FALSE /\ ready = FALSE
    /\ reply = [op |-> "NONE", status |-> "OK"]

-----------------------------------------------------------------------------
(* Lifecycle RPCs.  `kernel` is whether the kernel call behind the callback *)
(* succeeds.                                                                *)

(* reset() on a DEAD guest: consume a finished reconstruction, else queue   *)
(* one to run after the reply.                                              *)
CanQueue == ~ready /\ ~rec.failed /\ torn = Stages /\ ~started

Reset ==
    \/ /\ ready
       /\ ready' = FALSE /\ started' = FALSE /\ state' = "READY"
       /\ Replied("CREATE", "OK") /\ UNCHANGED pending
    \/ /\ CanQueue
       /\ pending' = TRUE
       /\ Replied("CREATE", "NOT_READY") /\ UNCHANGED <<ready, started, state>>
    \/ /\ ~ready /\ ~CanQueue
       /\ Replied("CREATE", "NOT_READY") /\ UNCHANGED <<pending, ready, started, state>>

MSG_GUEST_CREATE ==
    /\ Receiving
    /\ \/ /\ state = "DEAD"
          /\ Reset
       \/ /\ state # "DEAD"
          /\ Replied("CREATE", IF state = "READY" /\ ~started THEN "OK" ELSE "BAD_STATE")
          /\ UNCHANGED <<pending, ready, started, state>>
    /\ UNCHANGED <<startable, sc, fault, resVars, rec, pc>>

Bootable_Suspended == state \in {"READY", "RUNNING", "SUSPENDED"}

Bootable == state \in {"READY", "RUNNING"}

MSG_GUEST_BOOT ==
    /\ Receiving
    /\ \/ /\ Bootable
          /\ started \/ startable
          /\ started' = TRUE /\ state' = "RUNNING" /\ Replied("BOOT", "OK")
       \/ /\ Bootable
          /\ ~started /\ ~startable
          /\ UNCHANGED <<started, state>> /\ Replied("BOOT", "NOT_READY")
       \/ /\ ~Bootable
          /\ UNCHANGED <<started, state>>
          /\ Replied("BOOT", IF state = "DEAD" THEN "DEAD" ELSE "BAD_STATE")
    /\ UNCHANGED <<startable, sc, fault, resVars, recVars>>

(* What SUSPEND and RESUME accept, and what they refuse alike. *)
Suspended == started /\ state = "SUSPENDED"

Refused(op) ==
    /\ ~started \/ state \notin {"RUNNING", "SUSPENDED"}
    /\ Replied(op, IF state = "DEAD" THEN "DEAD" ELSE "BAD_STATE")
    /\ UNCHANGED <<state, sc, io>>

MSG_GUEST_SUSPEND(kernel) ==
    /\ Receiving
    /\ \/ Refused("SUSPEND")
       \/ /\ started /\ state = "RUNNING" /\ kernel
          /\ sc' = FALSE /\ state' = "SUSPENDED" /\ Replied("SUSPEND", "OK")
          /\ UNCHANGED io
       \/ /\ started /\ state = "RUNNING" /\ ~kernel
          /\ Replied("SUSPEND", "NOT_READY") /\ UNCHANGED <<sc, state, io>>
       \/ /\ Suspended
          /\ Replied("SUSPEND", "OK") /\ UNCHANGED <<sc, state, io>>
    /\ UNCHANGED <<started, startable, fault, torn, live, vmm, quiesced, virt, vgen, recVars>>

(* A resume that binds the scheduling context also completes the responses  *)
(* that arrived while the guest was suspended.                              *)
MSG_GUEST_RESUME(kernel) ==
    /\ Receiving
    /\ \/ Refused("RESUME")
       \/ /\ Suspended /\ kernel
          /\ sc' = TRUE /\ state' = "RUNNING" /\ Replied("RESUME", "OK")
          /\ io' = IF BlkReady THEN Drained(io) ELSE io
       \/ /\ Suspended /\ ~kernel
          /\ Replied("RESUME", "NOT_READY") /\ UNCHANGED <<sc, state, io>>
       \/ /\ started /\ state = "RUNNING"
          /\ Replied("RESUME", "OK") /\ UNCHANGED <<sc, state, io>>
    /\ UNCHANGED <<started, startable, fault, torn, live, vmm, quiesced, virt, vgen, recVars>>

(* Stop the guest unless it is stopped, enter DESTROYING, then tear down as *)
(* far as the calls succeed.                                                *)
MSG_GUEST_DESTROY(kernel, stop, half) ==
    /\ Receiving
    /\ \/ /\ state = "DEAD"
          /\ Replied("DESTROY", "OK") /\ UNCHANGED <<ctlVars, resVars>>
       \/ /\ state \in {"READY", "RUNNING"} /\ ~kernel
          /\ Replied("DESTROY", "NOT_READY") /\ UNCHANGED <<ctlVars, resVars>>
       \/ /\ state \in {"SUSPENDED", "DESTROYING"} \/ (state # "DEAD" /\ kernel)
          /\ Teardown(stop, half)
          /\ sc' = FALSE
          /\ started' = (started /\ ~ExecutionReleased /\ stop # Stages)
          /\ startable' = (startable /\ ~ExecutionReleased)
          /\ fault' = IF ExecutionReleased \/ "EXECUTION" \notin live' THEN "none" ELSE fault
          /\ state' = IF stop = Stages THEN "DEAD" ELSE "DESTROYING"
          /\ Replied("DESTROY", IF stop = Stages THEN "OK" ELSE "NOT_READY")
    /\ UNCHANGED recVars

-----------------------------------------------------------------------------
(* Deferred reconstruction, after the reply to the CREATE that queued it. *)

NotSkipped(i) == RecreateSteps[i].of \in Backends => RecreateSteps[i].of \in Enabled

NextStep(i) == CHOOSE j \in i+1 .. Steps :
                 NotSkipped(j) /\ \A k \in i+1 .. j-1 : ~NotSkipped(k)

GenerationLeft_Unchecked == TRUE

GenerationLeft == rec.generation < MaxGen

(* aos_arm_recreate_run up to its first step. *)
guest_vmm_reconstruct ==
    /\ pending /\ pc = 0 /\ ~rec.failed
    /\ pending' = FALSE
    /\ startable' = FALSE
    /\ \/ /\ GenerationLeft
          /\ rec' = [rec EXCEPT !.generation = @ + 1, !.release_next = 0]
          /\ pc' = NextStep(0)
       \/ /\ ~GenerationLeft
          /\ UNCHANGED <<rec, pc>>
    /\ UNCHANGED <<state, started, sc, fault, resVars, ready, reply>>

(* The effect of a step on the services and the kernel objects. *)
StepEffect(s) ==
    /\ live' = IF s.do \in {"build", "rebind", "stage"} THEN live \cup {s.of} ELSE live
    /\ sc' = IF s = Stage("build", "EXECUTION") THEN TRUE ELSE sc
    /\ fault' = IF s = Stage("build", "EXECUTION") THEN "none" ELSE fault
    /\ virt' = CASE s.do = "rebind" -> [virt EXCEPT ![s.of] = "attached"]
                 [] s.do = "stage" -> [virt EXCEPT ![s.of] = "staged"]
                 [] OTHER -> virt
    /\ vgen' = IF s.do = "rebind" THEN [vgen EXCEPT ![s.of] = rec.generation] ELSE vgen
    /\ vmm' = IF s.do = "adopt" THEN vmm \cup {s.of} ELSE vmm
    /\ quiesced' = IF s.do = "adopt" THEN quiesced \ {s.of} ELSE quiesced

(* A service rebinds only a retired client, and only to its next generation. *)
StepAllowed(s) ==
    /\ s.do \in {"rebind", "stage"} =>
         /\ virt[s.of] = IF s = Stage("rebind", "GRAPHICS") THEN "staged" ELSE "retired"
         /\ rec.generation = vgen[s.of] + 1
    /\ s.do = "adopt" => s.of \notin vmm

(* Ownership is marked before the step, so a failed attempt is cleaned up. *)
Attempted(s) == IF s.of \in Backends THEN rec.attempted \cup {s.of} ELSE rec.attempted

(* reconstruction_ready takes the result of the reconstruction. *)
ReadyAfter(success) == success

StepDone ==
    /\ pc > 0 /\ io = "idle"
    /\ StepAllowed(RecreateSteps[pc])
    /\ StepEffect(RecreateSteps[pc])
    /\ \/ /\ pc < Steps
          /\ pc' = NextStep(pc)
          /\ rec' = [rec EXCEPT !.attempted = Attempted(RecreateSteps[pc])]
          /\ UNCHANGED <<torn, startable, started, ready>>
       \/ /\ pc = Steps                             \* reset_publish
          /\ pc' = 0 /\ ready' = ReadyAfter(TRUE)
          /\ rec' = [rec EXCEPT !.attempted = {}]
          /\ torn' = 0 /\ startable' = TRUE /\ started' = FALSE
    /\ UNCHANGED <<state, io, pending, reply>>

(* A failed step, with (`effect`) or without its effect.  The first cleanup *)
(* attempt follows at once and may get nowhere; guest_vmm_reset_cleanup     *)
(* takes it up again.                                                       *)
StepFailed(effect) ==
    /\ pc > 0 /\ io = "idle"
    /\ \/ effect /\ StepAllowed(RecreateSteps[pc]) /\ StepEffect(RecreateSteps[pc])
       \/ ~effect /\ UNCHANGED <<live, sc, fault, virt, vgen, vmm, quiesced>>
    /\ pc' = 0 /\ ready' = ReadyAfter(FALSE)
    /\ rec' = [rec EXCEPT !.attempted = Attempted(RecreateSteps[pc]),
                          !.failed = TRUE, !.cleanup_pending = TRUE]
    /\ startable' = FALSE /\ started' = FALSE       \* reset_retire
    /\ UNCHANGED <<state, torn, io, pending, reply>>

(* aos_arm_recreate_cleanup, entered on every notification and after every  *)
(* RPC of a failed reconstruction: detach the attempted backends in order,  *)
(* then revoke.  `half`, `partial`: the next detach or release took effect  *)
(* but reported failure.                                                    *)
Remaining_Kept(acked) == rec.attempted

Remaining(acked) == rec.attempted \ acked

guest_vmm_reset_cleanup(acked, half, upto, partial) ==
    LET remaining == Remaining(acked)
        touched == acked \cup half
        first   == rec.release_next + 1
        revoked == UNION {Releases[i] : i \in first .. (IF partial THEN upto + 1 ELSE upto)}
    IN
    /\ rec.failed /\ rec.cleanup_pending /\ Receiving
    /\ acked \subseteq rec.attempted
    /\ \A b \in acked, c \in remaining : DetachOrder[b] < DetachOrder[c]
    /\ half \subseteq {b \in remaining : \A c \in remaining : DetachOrder[b] <= DetachOrder[c]}
    /\ "BLK" \in touched => io = "idle"
    /\ upto \in rec.release_next .. 5
    /\ upto > rec.release_next \/ partial => remaining = {}
    /\ partial => upto < 5
    /\ virt' = [b \in Backends |-> IF b \in touched THEN "retired" ELSE virt[b]]
    /\ vgen' = IF "GRAPHICS" \in touched
               THEN [vgen EXCEPT !["GRAPHICS"] = rec.generation] ELSE vgen
    /\ quiesced' = quiesced \cup touched
    /\ live' = live \ revoked
    /\ sc' = (sc /\ "EXECUTION" \notin revoked)
    /\ rec' = [rec EXCEPT !.attempted = remaining, !.release_next = upto,
                          !.cleanup_pending = upto < 5]
    /\ startable' = FALSE /\ started' = FALSE
    /\ UNCHANGED <<state, fault, torn, vmm, io, pc, pending, ready, reply>>

(* Media staging reads through the new block queues; RPCs received while it *)
(* waits are answered NOT_READY (guest_initializing).                       *)
MediaRead ==
    /\ pc = Steps /\ "BLK" \in Enabled
    /\ \/ io = "idle" /\ io' = "request"
       \/ io = "response" /\ io' = "idle"
    /\ UNCHANGED <<ctlVars, torn, live, vmm, quiesced, virt, vgen, recVars, reply>>

RejectRpc(op) ==
    /\ pc = Steps /\ io # "idle"
    /\ Replied(op, "NOT_READY")
    /\ UNCHANGED <<ctlVars, resVars, recVars>>

-----------------------------------------------------------------------------
(* Guest, device and service activity. *)

GuestFaults ==
    /\ Executing
    /\ fault' = "queued"
    /\ UNCHANGED <<state, started, startable, sc, resVars, recVars, reply>>

(* The loop serves a fault and its MMIO work, which may submit a block       *)
(* request; the block queues are serviced after every exit.                  *)
FaultServed_Always == TRUE

FaultServed == state \notin {"DESTROYING", "DEAD"}

HandleFault ==
    /\ Receiving /\ fault = "queued" /\ FaultServed
    /\ fault' = "none"
    /\ \/ io' = IF BlkReady THEN Drained(io) ELSE io
       \/ /\ BlkReady /\ "BLK" \notin quiesced /\ io = "idle"
          /\ io' \in {"request", "rmw"}
    /\ UNCHANGED <<state, started, startable, sc, torn, live, vmm, quiesced, virt, vgen,
                   recVars, reply>>

(* A fault received after teardown began is left without a reply. *)
DropFault ==
    /\ Receiving /\ fault = "queued" /\ ~FaultServed
    /\ fault' = "dropped"
    /\ UNCHANGED <<state, started, startable, sc, resVars, recVars, reply>>

(* blk_virt answers the request at the head of the queue. *)
BlkVirtServes ==
    /\ virt["BLK"] = "attached"
    /\ \/ io = "request" /\ io' = "response"
       \/ io = "rmw" /\ io' = "rmw_done"
    /\ UNCHANGED <<ctlVars, torn, live, vmm, quiesced, virt, vgen, recVars, reply>>

(* RESP_READY is served while the guest runs and while it is torn down. *)
RespServed_Running == state = "RUNNING"

RespServed == state \in {"RUNNING", "DESTROYING"}

BlkRespReady ==
    /\ Receiving /\ ~rec.failed
    /\ RespServed /\ BlkReady
    /\ io' = Drained(io)
    /\ UNCHANGED <<ctlVars, torn, live, vmm, quiesced, virt, vgen, recVars, reply>>

Destroys == \E kernel \in BOOLEAN, half \in BOOLEAN, stop \in torn .. Stages :
              MSG_GUEST_DESTROY(kernel, stop, half)

Cleanups ==
    \E acked \in SUBSET rec.attempted, half \in SUBSET rec.attempted,
       upto \in 0..5, partial \in BOOLEAN :
      guest_vmm_reset_cleanup(acked, half, upto, partial)

Next ==
    \/ MSG_GUEST_CREATE
    \/ MSG_GUEST_BOOT
    \/ \E kernel \in BOOLEAN : MSG_GUEST_SUSPEND(kernel) \/ MSG_GUEST_RESUME(kernel)
    \/ Destroys
    \/ guest_vmm_reconstruct
    \/ StepDone
    \/ \E effect \in BOOLEAN : StepFailed(effect)
    \/ Cleanups
    \/ MediaRead
    \/ \E op \in Ops : RejectRpc(op)
    \/ GuestFaults \/ HandleFault \/ DropFault
    \/ BlkVirtServes \/ BlkRespReady

Spec == Init /\ [][Next]_vars

(* The manager retries DESTROY until it is acknowledged, blk_virt keeps      *)
(* serving, and a call retried for ever is not refused for ever.             *)
Fairness ==
    /\ WF_vars(BlkVirtServes)
    /\ WF_vars(BlkRespReady)
    /\ SF_vars(state = "DESTROYING" /\ Destroys /\ torn' > torn)
    /\ SF_vars(Cleanups /\ (\/ rec'.attempted # rec.attempted
                            \/ rec'.release_next > rec.release_next))

FairSpec == Spec /\ Fairness

-----------------------------------------------------------------------------
(* Nothing in use is revoked, through partial teardowns, failed rebuilds and *)
(* partial cleanups (guest_teardown.h "Retains RAM until every backend has   *)
(* relinquished its references").  While a service holds a client's queues,  *)
(* the pages they are in and the guest's RAM exist; the vCPU runs only in a  *)
(* RUNNING guest whose execution objects, RAM and page tables exist; and a   *)
(* block request in flight has an attached virtualizer and guest RAM to      *)
(* complete into.                                                            *)
NoRevokedBacking ==
    /\ \A b \in Backends : virt[b] # "retired" => b \in live /\ "RAM" \in live
    /\ Executing => state = "RUNNING" /\ Memory \subseteq live
    /\ io # "idle" => /\ virt["BLK"] = "attached" /\ {"BLK", "RAM"} \subseteq live
                      /\ torn = 0 \/ pc = Steps

(* A guest that CREATE, BOOT or RESUME may act on is whole: nothing torn     *)
(* down, every resource present, every enabled backend attached on both      *)
(* sides and at the generation of the last reconstruction, which has not run *)
(* past the largest one; a failed reconstruction never publishes a guest     *)
(* (arm_recreate.c aos_arm_recreate_run).                                    *)
PublishedGuestIsWhole ==
    state \in {"READY", "RUNNING", "SUSPENDED"} =>
      /\ torn = 0 /\ Enabled \cup Memory \subseteq live
      /\ ~rec.failed /\ rec.generation <= MaxGen
      /\ \A b \in Enabled : /\ virt[b] = "attached" /\ b \in vmm
                            /\ vgen[b] = rec.generation

(* A DEAD guest with no reconstruction under way holds nothing: no kernel    *)
(* resource, no service attachment, no request in flight (guest_contract.h   *)
(* "releases ALL capability tokens and device handles").                     *)
DeadHoldsNothing ==
    state = "DEAD" /\ Receiving /\ ~ready /\ ~rec.cleanup_pending =>
      live = {} /\ io = "idle" /\ \A b \in Backends : virt[b] = "retired"

(* guest_contract.h: "MSG_GUEST_DESTROY releases ALL capability tokens and   *)
(* device handles."  Read of the reply: after an acknowledged DESTROY the    *)
(* guest holds no resource.                                                  *)
DestroyReleasesAll ==
    reply = [op |-> "DESTROY", status |-> "OK"] => live = {}

(* Block work is admitted only from a live guest or from media staging, and  *)
(* a fault queued before the guest stopped is not served once teardown has   *)
(* begun: DESTROYING "permits only teardown retries, never execution or      *)
(* guest I/O" (guest_contract.h).                                            *)
AdmissionStops ==
    [][/\ io = "idle" /\ io' # "idle" =>
            state \in {"RUNNING", "SUSPENDED"} \/ pc = Steps
       /\ fault = "queued" /\ fault' = "none" /\ "EXECUTION" \in live' =>
            state \in {"RUNNING", "SUSPENDED"}]_vars

(* The guest as GuestRpc sees it. *)
Contract == INSTANCE GuestContract WITH
    guest <- [state |-> state, started |-> started,
              prep |-> IF ready THEN "ready"
                       ELSE IF rec.failed THEN "failed"
                       ELSE IF pending \/ pc > 0 THEN "queued" ELSE "none"]

(* The VMM implements the lifecycle protocol its manager relies on. *)
ImplementsContract == Contract!ContractSpec

(* A destroy that is retried completes: draining, detaching and revoking     *)
(* never wait on each other for ever.                                        *)
DestroyCompletes == state = "DESTROYING" ~> state = "DEAD"

(* A failed reconstruction eventually gives everything back. *)
CleanupCompletes == rec.failed ~> live = {} /\ ~rec.cleanup_pending

=============================================================================

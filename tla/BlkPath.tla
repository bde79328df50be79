------------------------------ MODULE BlkPath -------------------------------
(***************************************************************************)
(* Block I/O of one guest: the virtio-blk device of module VirtioBlk, the  *)
(* VMM around it (platform/blk-virt/vmm_virtio_blk.c, guest_vmm.c), the    *)
(* block virtualizer (blk_virt.c, blk_virt_pump.c) and the medium, across  *)
(* suspension, destruction and reconstruction.                             *)
(*                                                                         *)
(* The VMM (priority 250) preempts blk_virt (210), so a VMM event is one   *)
(* step and may fall between any two steps of a service round.  Wake-ups   *)
(* are notifications: they stay pending and coalesce.                      *)
(***************************************************************************)
EXTENDS VirtioBlk

CONSTANTS
    Sectors,   \* sectors of the medium
    Shapes,    \* the requests a guest may post: [type, sector, n]
    MaxPass,   \* passes of one service round
    MaxPosted, \* bound: requests posted
    MaxErrors, \* bound: requests the medium fails
    MaxGen     \* bound: reconstructions of the guest

ASSUME BlkPathAssumption ==
    /\ {MaxPass, MaxPosted} \subseteq Nat \ {0}
    /\ {MaxErrors, MaxGen} \subseteq Nat
    /\ Sectors \in Nat \ {0} /\ Sectors % Window = 0
    /\ Shapes \subseteq Request
    /\ \A r \in Shapes : Covers(r) \subseteq 0 .. Sectors - 1 /\ (r.n = 0 <=> r.type = "FLUSH")

VARIABLES
    dev,          \* the device, with the guest's requests
    resp,         \* the shared response queue
    signalled,    \* req_consumer_signalled: blk_virt needs no kick
    kick, wake,   \* pending notifications of blk_virt and of the VMM
    bv,           \* blk_virt: its program counter, round and client
    vmm,          \* the VMM's phase, whether its device is ready (g_aos_blk_ready)
                  \* and whether a reconstruction has failed
    virq,         \* an interrupt is pending in the guest
    unseen,       \* requests completed since the guest last took an interrupt
    disk,         \* the medium
    before,       \* for each request, those completed when it was posted
    errors        \* requests the medium has failed

vars == <<dev, resp, signalled, kick, wake, bv, vmm, virq, unseen, disk, before, errors>>

NoReq == [code |-> "NONE"]

Init ==
    /\ dev = virtio_blk_init(<<>>, <<>>, <<>>)
    /\ resp = <<>> /\ signalled = FALSE /\ kick = FALSE /\ wake = FALSE
    /\ bv = [pc |-> "recv", pass |-> 0, n |-> 0, cur |-> NoReq,
             attached |-> TRUE, retired |-> FALSE, mapped |-> TRUE, generation |-> 0]
    /\ vmm = [phase |-> "running", ready |-> TRUE, failed |-> FALSE]
    /\ virq = FALSE /\ unseen = FALSE
    /\ disk = [s \in 0 .. Sectors - 1 |-> 0]
    /\ before = <<>> /\ errors = 0

-----------------------------------------------------------------------------
(* blk_virt.                                                               *)

\* One pass begins: kicks are redundant until it ends.
BeginPass(pass) ==
    /\ signalled' = TRUE
    /\ bv' = [bv EXCEPT !.pc = "pump", !.pass = pass]

blk_virt_notified ==
    /\ bv.pc = "recv" /\ kick
    /\ kick' = FALSE
    /\ IF bv.attached THEN BeginPass(1) ELSE UNCHANGED <<signalled, bv>>
    /\ UNCHANGED <<dev, resp, wake, vmm, virq, unseen, disk, before, errors>>

\* The medium serves request `q` up to its first `done` windows.
host_blk_transfer(q, done) ==
    LET here    == q.block * Window .. (q.block + done) * Window - 1
        cell(s) == (q.base - q.block) * Window + s
        there   == {cell(s) : s \in here}
    IN  /\ disk' = IF q.code # "WRITE" THEN disk
                   ELSE [s \in DOMAIN disk |-> IF s \in here THEN dev.data[cell(s)] ELSE disk[s]]
        /\ dev' = [dev EXCEPT !.data = IF q.code # "READ" THEN @
                                     ELSE [c \in DOMAIN @ |->
                                        IF c \in there THEN disk[(q.block - q.base) * Window + c]
                                        ELSE @[c]]]

\* A call of aos_blk_virt_pump takes at most as many requests as the queue holds.
dequeue_req ==
    /\ bv.pc = "pump" /\ bv.cur = NoReq
    /\ bv.n < Capacity /\ dev.req # <<>> /\ Len(resp) < Capacity
    /\ bv' = [bv EXCEPT !.cur = Head(dev.req)]
    /\ dev' = [dev EXCEPT !.req = Tail(@)]
    /\ UNCHANGED <<resp, signalled, kick, wake, vmm, virq, unseen, disk, before, errors>>

\* The backend has served the request whole, or failed part way; until then
\* neither queue holds it.
enqueue_resp ==
    /\ bv.pc = "pump" /\ bv.cur # NoReq
    /\ \/ /\ host_blk_transfer(bv.cur, bv.cur.count)
          /\ resp' = Append(resp, [id |-> bv.cur.id, ok |-> TRUE])
          /\ UNCHANGED errors
       \/ /\ errors < MaxErrors
          /\ \E done \in 0 .. Max({bv.cur.count - 1, 0}) : host_blk_transfer(bv.cur, done)
          /\ resp' = Append(resp, [id |-> bv.cur.id, ok |-> FALSE])
          /\ errors' = errors + 1
    /\ bv' = [bv EXCEPT !.cur = NoReq, !.n = @ + 1]
    /\ UNCHANGED <<signalled, kick, wake, vmm, virq, unseen, before>>

bv_notify_vmm == IF bv.n > 0 THEN wake' = TRUE ELSE UNCHANGED wake

\* The pump has no more to do, or has done its share, or has no room.
pump_returns ==
    /\ bv.pc = "pump" /\ bv.cur = NoReq
    /\ bv.n = Capacity \/ dev.req = <<>> \/ Len(resp) >= Capacity
    /\ bv_notify_vmm
    /\ bv' = [bv EXCEPT !.pc = "clear", !.n = 0]
    /\ UNCHANGED <<dev, resp, signalled, kick, vmm, virq, unseen, disk, before, errors>>

\* blk_virt asks for kicks again ...
clear_signalled ==
    /\ bv.pc = "clear"
    /\ signalled' = FALSE
    /\ bv' = [bv EXCEPT !.pc = "rescan"]
    /\ UNCHANGED <<dev, resp, kick, wake, vmm, virq, unseen, disk, before, errors>>

bv_rescan_needed == dev.req # <<>> /\ Len(resp) < Capacity

\* ... and only then looks once more, unless this was the last pass.
bv_rescan ==
    /\ bv.pc = "rescan"
    /\ IF bv_rescan_needed /\ bv.pass < MaxPass
       THEN BeginPass(bv.pass + 1)
       ELSE bv' = [bv EXCEPT !.pc = "recv", !.pass = 0] /\ UNCHANGED signalled
    /\ UNCHANGED <<dev, resp, kick, wake, vmm, virq, unseen, disk, before, errors>>

-----------------------------------------------------------------------------
(* The VMM.                                                                *)

Running == vmm.phase = "running"

\* blk_virt is kicked if it wants to be and something is queued.
blk_virt_kick_if_pending(d) == kick' = (kick \/ (d.req # <<>> /\ ~signalled))

Interrupts(all) == all.published /\ ~all.d.quiescing

\* blk_virt_service with the device in state `d`, the guest having `pending`
\* interrupts and `unread` completions.
blk_virt_service(d, pending, unread) ==
    LET all == IF resp = <<>> THEN [d |-> d, published |-> FALSE, inflight |-> FALSE]
               ELSE virtio_blk_handle_resp(d, resp)
    IN  /\ dev' = all.d
        /\ resp' = <<>>
        /\ virq' = (pending \/ Interrupts(all))
        /\ unseen' = (unread \/ all.published)
        /\ blk_virt_kick_if_pending(all.d)

\* The guest posts a request; it tells the device later, or not at all if
\* another exit comes first.
guest_post(r) ==
    /\ Running /\ Len(dev.rq) < MaxPosted
    /\ dev' = [dev EXCEPT !.rq = Append(@, r), !.out = Append(@, "pending"),
                          !.got = Append(@, <<>>), !.avail = Append(@, Len(dev.rq) + 1)]
    /\ before' = Append(before, {k \in DOMAIN dev.rq : dev.out[k] # "pending"})
    /\ UNCHANGED <<resp, signalled, kick, wake, bv, vmm, virq, unseen, disk, errors>>

\* Every guest exit services the block queues: a QueueNotify, the
\* acknowledgement of an interrupt, or anything else.
guest_vmm_fault(exit) ==
    /\ Running
    /\ exit = "ack" => virq
    /\ blk_virt_service(IF exit = "notify" THEN handle_client_requests(dev) ELSE dev,
                        virq /\ exit # "ack", unseen /\ exit # "ack")
    /\ UNCHANGED <<signalled, wake, bv, vmm, disk, before, errors>>

\* RESP_READY; it is discarded while the guest is suspended.
guest_vmm_notified ==
    /\ wake /\ vmm.phase \in {"running", "suspended", "destroying"}
    /\ wake' = FALSE
    /\ IF vmm.phase = "suspended" \/ ~vmm.ready THEN UNCHANGED <<dev, resp, virq, unseen, kick>>
       ELSE blk_virt_service(dev, virq, unseen)
    /\ UNCHANGED <<signalled, bv, vmm, disk, before, errors>>

guest_vmm_suspend_guest_tcb ==
    /\ Running
    /\ vmm' = [vmm EXCEPT !.phase = "suspended"]
    /\ UNCHANGED <<dev, resp, signalled, kick, wake, bv, virq, unseen, disk, before, errors>>

\* A mutation: resuming leaves the queues to the next wake-up.
aos_vmm_virtio_blk_resp_ready_Skipped == UNCHANGED <<dev, resp, virq, unseen, kick>>

aos_vmm_virtio_blk_resp_ready == blk_virt_service(dev, virq, unseen)

guest_vmm_resume_guest_tcb ==
    /\ vmm.phase = "suspended"
    /\ vmm' = [vmm EXCEPT !.phase = "running"]
    /\ aos_vmm_virtio_blk_resp_ready
    /\ UNCHANGED <<signalled, wake, bv, disk, before, errors>>

\* A mutation: an empty pair of queues is taken for a drained device.
Quiesced_QueuesOnly(d) == d.req = <<>> /\ resp' = <<>>

Quiesced(d) == virtio_blk_is_quiesced(d, resp')

\* DESTROY stops the guest and drains the device; it is retried until the
\* device is drained.  The device then stops for good, and blk_virt is called.
guest_vmm_teardown ==
    /\ vmm.phase \in {"running", "suspended", "destroying"}
    /\ IF vmm.ready
       THEN /\ blk_virt_service([dev EXCEPT !.quiescing = TRUE], virq, unseen)
            /\ vmm' = [vmm EXCEPT !.ready = ~Quiesced(dev'),
                                  !.phase = IF Quiesced(dev') THEN "detaching" ELSE "destroying"]
       ELSE /\ dev.req = <<>> /\ resp = <<>>
            /\ vmm' = [vmm EXCEPT !.phase = "detaching"]
            /\ UNCHANGED <<dev, resp, virq, unseen, kick>>
    /\ UNCHANGED <<signalled, wake, bv, disk, before, errors>>

\* DETACH, from a teardown or from the cleanup of a failed reconstruction; the
\* queue page is revoked once it is granted.
handle_detach ==
    /\ vmm.phase \in {"detaching", "retiring"} /\ bv.pc = "recv"
    /\ IF bv.attached /\ (dev.req # <<>> \/ resp # <<>>)
       THEN vmm' = [vmm EXCEPT !.phase = IF @ = "detaching" THEN "destroying" ELSE @]
            /\ UNCHANGED bv
       ELSE /\ bv' = [bv EXCEPT !.attached = FALSE, !.retired = TRUE, !.mapped = FALSE]
            /\ vmm' = [vmm EXCEPT !.phase = "dead"]
    /\ UNCHANGED <<dev, resp, signalled, kick, wake, virq, unseen, disk, before, errors>>

\* The requests of a guest that is gone: those never accepted have no answer.
Abandoned ==
    [k \in DOMAIN dev.out |-> IF dev.out[k] = "pending" THEN "gone" ELSE dev.out[k]]

\* A mutation: the client record is left half attached.
RebindFailed_HalfAttached == [bv EXCEPT !.retired = FALSE]

RebindFailed == [bv EXCEPT !.attached = FALSE, !.retired = TRUE, !.mapped = FALSE]

\* REBIND to a fresh page.  Any capability operation may fail; blk_virt then
\* stays retired and the VMM cleans up.  The VMM may also fail to map or adopt
\* what blk_virt has already bound.
rebind_queue ==
    /\ vmm.phase = "dead" /\ ~vmm.failed /\ bv.generation < MaxGen
    /\ bv.pc = "recv" /\ ~bv.attached /\ bv.retired
    /\ \/ /\ vmm' = [vmm EXCEPT !.phase = "retiring", !.failed = TRUE]
          /\ bv' = RebindFailed
          /\ UNCHANGED <<dev, resp, signalled, virq, unseen>>
       \/ /\ bv' = [bv EXCEPT !.attached = TRUE, !.retired = FALSE, !.mapped = TRUE,
                              !.generation = @ + 1]
          /\ dev' = virtio_blk_init(dev.rq, Abandoned, dev.got)
          /\ resp' = <<>> /\ signalled' = FALSE /\ virq' = FALSE /\ unseen' = FALSE
          /\ vmm' \in {[phase |-> "staging", ready |-> TRUE, failed |-> FALSE],
                       [phase |-> "retiring", ready |-> FALSE, failed |-> TRUE]}
    /\ UNCHANGED <<kick, wake, disk, before, errors>>

StagingKick == kick' = TRUE

\* Before the guest runs the VMM reads its boot media itself, with an
\* unconditional kick, and waits for the answer on its endpoint.
vmm_blk_read_blocks ==
    /\ vmm.phase = "staging"
    /\ dev' = [dev EXCEPT !.req = Append(@, [code |-> "READ", id |-> 0, base |-> 0,
                                             block |-> 0, count |-> 1])]
    /\ StagingKick
    /\ vmm' = [vmm EXCEPT !.phase = "waiting"]
    /\ UNCHANGED <<resp, signalled, wake, bv, virq, unseen, disk, before, errors>>

guest_vmm_wait_blk_event ==
    /\ vmm.phase = "waiting" /\ (wake \/ resp # <<>>)
    /\ wake' = FALSE
    /\ IF resp = <<>> THEN UNCHANGED <<resp, vmm>>
       ELSE /\ resp' = Tail(resp)
            /\ vmm' = IF Head(resp).ok THEN [vmm EXCEPT !.phase = "running"]
                      ELSE [vmm EXCEPT !.phase = "retiring", !.failed = TRUE]
    /\ UNCHANGED <<dev, signalled, kick, bv, virq, unseen, disk, before, errors>>

-----------------------------------------------------------------------------
blk_virt ==
    blk_virt_notified \/ dequeue_req \/ enqueue_resp \/ pump_returns \/ clear_signalled \/ bv_rescan

Next ==
    \/ blk_virt_notified
    \/ dequeue_req
    \/ enqueue_resp
    \/ pump_returns
    \/ clear_signalled
    \/ bv_rescan
    \/ \E r \in Shapes : guest_post(r)
    \/ \E exit \in {"notify", "ack", "other"} : guest_vmm_fault(exit)
    \/ guest_vmm_notified
    \/ guest_vmm_suspend_guest_tcb
    \/ guest_vmm_resume_guest_tcb
    \/ guest_vmm_teardown
    \/ handle_detach
    \/ rebind_queue
    \/ vmm_blk_read_blocks
    \/ guest_vmm_wait_blk_event

Spec == Init /\ [][Next]_vars

\* What servicing the queues would change: responses to handle, or a kick to give.
Serviceable == resp # <<>> \/ (dev.req # <<>> /\ ~signalled /\ ~kick)

\* What a retried DESTROY would change.
Retriable ==
    /\ vmm.phase = "destroying"
    /\ IF vmm.ready THEN Serviceable \/ virtio_blk_is_quiesced(dev, resp) ELSE dev.req = <<>> /\ resp = <<>>

(* blk_virt and the VMM take the steps they can, and a DESTROY is retried.   *)
(* Of the guest nothing is assumed.  The two []<> conjuncts are weak fairness*)
(* of guest_vmm_notified and of a retried guest_vmm_teardown: each ends the  *)
(* condition that enables it, so it is fair when the condition is false      *)
(* again and again.                                                          *)
FairSpec ==
    /\ Spec
    /\ WF_vars(blk_virt)
    /\ []<>~(wake /\ vmm.phase \in {"running", "suspended", "destroying"})
    /\ []<>~Retriable
    /\ WF_vars(handle_detach)
    /\ WF_vars(vmm_blk_read_blocks \/ guest_vmm_wait_blk_event)

-----------------------------------------------------------------------------
\* A sector holding `v` shows write `w`: it holds w, or a write that was not
\* over when w was posted.
Shows(v, w) == v = w \/ (v # 0 /\ v \notin before[w])

Done(type) == {k \in DOMAIN dev.rq : dev.rq[k].type = type /\ dev.out[k] = "ok"}

(* No write the guest was told is done is undone by another: neighbouring    *)
(* sectors share a transfer window, and a read-modify-write of one must not  *)
(* bring back the old contents of the other (block.c do_requests_overlap,    *)
(* start_waiter).  Every sector holds what some request wrote there, and a   *)
(* completed read returned no older data than the writes done before it.     *)
NoWriteIsLost ==
    /\ \A s \in DOMAIN disk :
         /\ disk[s] # 0 => s \in Covers(dev.rq[disk[s]])
         /\ \A w \in Done("OUT") : s \in Covers(dev.rq[w]) => Shows(disk[s], w)
    /\ \A r \in Done("IN") :
         /\ Len(dev.got[r]) = dev.rq[r].n
         /\ \A i \in DOMAIN dev.got[r], w \in before[r] \cap Done("OUT") :
              dev.rq[r].sector + i - 1 \in Covers(dev.rq[w]) => Shows(dev.got[r][i], w)

(* The assertions of the device hold: a response names a request in flight,  *)
(* the queue has room for every request it must still make, and the cells a  *)
(* finished chunk gave back are enough for the next (block.c assert()).      *)
AssertionsHold == dev.ok

(* No completion waits for a guest exit or for unrelated I/O.  While the    *)
(* guest runs, a response is in the queue only if the VMM's wake-up is       *)
(* pending or blk_virt is about to send it, and RESUME makes up for the      *)
(* wake-ups discarded while the guest was suspended (guest_vmm.c             *)
(* guest_vmm_notified, guest_vmm_resume_guest_tcb); and for every completion *)
(* published the guest is interrupted (block.c:970 "A published completion   *)
(* belongs to the guest").                                                   *)
CompletionReachesGuest ==
    /\ Running /\ resp # <<>> => wake \/ (bv.pc = "pump" /\ bv.n > 0)
    /\ unseen /\ ~dev.quiescing => virq

(* A page is revoked and a device replaced only when nothing of it is in     *)
(* flight, and blk_virt reads queues only on a page it has mapped: a failed  *)
(* REBIND leaves the client retired (blk_virt.c rebind_queue).               *)
DetachIsClean ==
    /\ bv.attached => bv.mapped
    /\ ~bv.attached => bv.retired /\ bv.pc = "recv"
    /\ vmm.phase = "dead" => /\ dev.req = <<>> /\ resp = <<>>
                             /\ \A i \in RequestIds : dev.reqsbk[i].state = "INVALID"

Pending(k) == k \in DOMAIN dev.rq /\ dev.out[k] = "pending"

\* The guest exits with a QueueNotify while that would change anything, and a
\* suspended guest is resumed.
GuestKeepsExiting ==
    []<>~(\/ vmm.phase = "suspended"
          \/ Running /\ (Serviceable \/ handle_client_requests(dev).avail # dev.avail))

(* A running guest that keeps exiting gets an answer to every request it     *)
(* posted, whatever the interleaving of kicks, wake-ups and suspensions: no  *)
(* chunk, waiter or read-modify-write is left without its next step          *)
(* (block.c virtio_blk_handle_resp, blk_virt.c bv_service).                  *)
EveryRequestCompletes ==
    GuestKeepsExiting => \A k \in 1 .. MaxPosted : Pending(k) ~> ~Pending(k) \/ dev.quiescing

(* A destroy drains accepted requests and detaches, and the boot media of a  *)
(* rebuilt guest is read or the rebuilding fails: neither waits for a kick   *)
(* that was suppressed.                                                      *)
DrainAndStagingEnd ==
    vmm.phase \in {"destroying", "retiring", "staging", "waiting"}
        ~> vmm.phase \in {"dead", "running"}

(* "Receivers scan queues after waking; no retry depends on a guest exit"    *)
(* (blk_virt.c:27): what the VMM has queued is served although the guest     *)
(* makes no further exit.                                                    *)
NoRetryNeedsAGuestExit == Running /\ dev.req # <<>> ~> dev.req = <<>> \/ ~Running

=============================================================================

----------------------------- MODULE SerialPath -----------------------------
(***************************************************************************)
(* The console of one guest, from the command console cc_pd through        *)
(* serial_virt and the VMM to the virtio-console device and back           *)
(* (platform/serial-virt, platform/include/platform/serial_frontend.h,     *)
(* platform/guest-vmm/guest_vmm.c, services/command-console/cc_pd.c),      *)
(* across suspension, destruction and reconstruction of the guest.         *)
(*                                                                         *)
(* A byte is the generation of the guest it was typed for or printed by.   *)
(* Every queue has one producer and one consumer, so a transfer is one     *)
(* step; the frontend gate, which the console and serial_virt write        *)
(* concurrently, is not: begin, the queue operation and end are separate.  *)
(* Wake-ups are notifications: they stay pending and coalesce.             *)
(***************************************************************************)
EXTENDS Naturals, Sequences, SequencesExt

CONSTANTS
    RxCapacity,  \* AOS_SERIAL_RX_CAPACITY, bytes towards the guest
    TxCapacity,  \* AOS_SERIAL_TX_CAPACITY, bytes from the guest
    Chunk,       \* AOS_SERIAL_ENDPOINT_CHUNK
    MaxGen,      \* bound: reconstructions of the guest
    MaxTyped,    \* bound: bytes typed for one generation
    MaxPrinted   \* bound: bytes printed by one generation

ASSUME SerialPathAssumption ==
    /\ {RxCapacity, TxCapacity, Chunk, MaxGen, MaxTyped, MaxPrinted} \subseteq Nat \ {0}
    /\ Chunk <= TxCapacity

VARIABLES
    gate,       \* frontend_gate: a set of the bits CLOSED and BUSY
    front,      \* the frontend channel: to_guest and from_guest
    guest,      \* the guest channel, a fresh page in every generation
    sv,         \* serial_virt: attachments, retirement, generation, resetting
    sv_notify, vmm_notify,  \* pending notifications of serial_virt and the VMM
    vmm,        \* the VMM: phase, running, the endpoint's two chunks, and
                \* whether a reconstruction has failed
    dev,        \* the virtio-console: bytes to be read and bytes printed
    cc,         \* the console's queue operation in progress, and for whom
    typed, printed  \* bytes typed for, and printed by, this generation

vars == <<gate, front, guest, sv, sv_notify, vmm_notify, vmm, dev, cc, typed, printed>>

Empty == [to |-> <<>>, from |-> <<>>]

NoOp == [op |-> "none", gen |-> 0, moved |-> FALSE]

Init ==
    /\ gate = {} /\ front = Empty /\ guest = Empty
    /\ sv = [guest_attached |-> FALSE, frontend_attached |-> FALSE,
             guest_retired |-> FALSE, generation |-> 0, resetting |-> FALSE]
    /\ sv_notify = FALSE /\ vmm_notify = FALSE
    /\ vmm = [phase |-> "init", running |-> FALSE, failed |-> FALSE,
              input |-> <<>>, output |-> <<>>]
    /\ dev = [rx |-> <<>>, tx |-> <<>>]
    /\ cc = NoOp /\ typed = 0 /\ printed = 0

-----------------------------------------------------------------------------
(* serial_virt.                                                            *)

First(n, s) == SubSeq(s, 1, IF n < Len(s) THEN n ELSE Len(s))
Rest(n, s)  == SubSeq(s, n + 1, Len(s))

\* aos_serial_virt_transfer: what fits, in order.
Transferred(source, destination, capacity) ==
    First(capacity - Len(destination), source)

\* A mutation: only input wakes the VMM.
WakesVmm_InputOnly(output, input) == input # <<>>

WakesVmm(output, input) == input # <<>> \/ output # <<>>

\* service_queues over the state `s`, `f`, `g` the handler has just left.
service_queues(s, f, g) ==
    IF s.guest_attached /\ s.frontend_attached
    THEN LET output == Transferred(g.from, f.from, TxCapacity)
             input  == Transferred(f.to, g.to, RxCapacity)
         IN /\ front' = [to |-> Rest(Len(input), f.to), from |-> f.from \o output]
            /\ guest' = [to |-> g.to \o input, from |-> Rest(Len(output), g.from)]
            /\ vmm_notify' = (vmm_notify \/ WakesVmm(output, input))
    ELSE front' = f /\ guest' = g /\ UNCHANGED vmm_notify

serial_virt_notified ==
    /\ sv_notify /\ ~sv.resetting
    /\ sv_notify' = FALSE
    /\ service_queues(sv, front, guest)
    /\ UNCHANGED <<gate, sv, vmm, dev, cc, typed, printed>>

\* ATTACH, from the console or the VMM; a failed VMM attach refuses every start.
aos_serial_virt_attach(role) ==
    /\ ~sv.resetting /\ ~sv[role] /\ ~sv.guest_retired
    /\ role = "guest_attached" => vmm.phase = "init"
    /\ sv' = [sv EXCEPT ![role] = TRUE]
    /\ vmm' = IF role = "guest_attached" THEN [vmm EXCEPT !.phase = "live"] ELSE vmm
    /\ service_queues(sv', front, guest)
    /\ UNCHANGED <<gate, sv_notify, dev, cc, typed, printed>>

\* A mutation: a busy frontend is refused before the gate is closed.
Closed_NotWhenBusy == IF "BUSY" \in gate THEN gate ELSE gate \cup {"CLOSED"}

\* DETACH closes admission first, whether or not the frontend is inside.
Closed == gate \cup {"CLOSED"}

\* DETACH, retried by the VMM while the teardown or the cleanup of a failed
\* reconstruction needs it.  The VMM drops its endpoint with the reply.
aos_serial_virt_detach ==
    /\ vmm.phase \in {"destroying", "retiring"} /\ ~sv.resetting
    /\ gate' = Closed
    /\ IF "BUSY" \in gate
       THEN UNCHANGED <<front, guest, sv, vmm, vmm_notify>>
       ELSE /\ sv' = [sv EXCEPT !.guest_attached = FALSE, !.guest_retired = TRUE]
            /\ service_queues(sv', front, Empty)
            /\ vmm' = [vmm EXCEPT !.phase = "dead", !.input = <<>>, !.output = <<>>]
    /\ UNCHANGED <<sv_notify, dev, cc, typed, printed>>

aos_serial_virt_rebind_validate ==
    /\ sv.generation < MaxGen
    /\ sv.guest_retired /\ ~sv.guest_attached
    /\ gate = {"CLOSED"}

\* REBIND: the old frame is deleted and a fresh one retyped and mapped.  Any of
\* the three may fail and leaves the client retired, as if nothing was called.
rebind_queue ==
    /\ vmm.phase = "dead" /\ ~vmm.failed /\ ~sv.resetting
    /\ aos_serial_virt_rebind_validate
    /\ sv' = [sv EXCEPT !.resetting = TRUE]
    /\ UNCHANGED <<gate, front, guest, sv_notify, vmm_notify, vmm, dev, cc, typed, printed>>

\* A mutation: the frontend keeps the bytes of the previous guest.
ResetFrontend_Kept == front

ResetFrontend == Empty

\* The commit of that REBIND: the frontend queues are cleared behind the closed
\* gate, which opens last.  The VMM recreates its console device.
aos_serial_virt_rebind_commit ==
    /\ sv.resetting
    /\ sv' = [sv EXCEPT !.resetting = FALSE, !.guest_attached = TRUE,
                        !.guest_retired = FALSE, !.generation = @ + 1]
    /\ gate' = {}
    /\ service_queues(sv', ResetFrontend, Empty)
    /\ vmm' = [vmm EXCEPT !.phase = "rebound"]
    /\ dev' = [rx |-> <<>>, tx |-> <<>>]
    /\ typed' = 0 /\ printed' = 0
    /\ UNCHANGED <<sv_notify, cc>>

-----------------------------------------------------------------------------
(* The command console's frontend operations.                              *)

\* aos_serial_frontend_begin: a compare-exchange from an open, idle gate.
Admits == gate = {}

aos_serial_frontend_begin(op) ==
    /\ sv.frontend_attached /\ cc = NoOp /\ Admits
    /\ op = "write" => typed < MaxTyped
    /\ gate' = gate \cup {"BUSY"}
    /\ cc' = [op |-> op, gen |-> sv.generation, moved |-> FALSE]
    /\ UNCHANGED <<front, guest, sv, sv_notify, vmm_notify, vmm, dev, typed, printed>>

\* The queue operation: a write is all or nothing, a read takes up to
\* what the caller has room for.
cc_queue ==
    /\ cc.op \in {"write", "read"}
    /\ IF cc.op = "write"
       THEN IF Len(front.to) < RxCapacity
            THEN /\ front' = [front EXCEPT !.to = Append(@, cc.gen)]
                 /\ cc' = [cc EXCEPT !.op = "end", !.moved = TRUE]
                 /\ typed' = typed + 1
            ELSE /\ cc' = [cc EXCEPT !.op = "end"]
                 /\ UNCHANGED <<front, typed>>
       ELSE /\ \E n \in 0 .. Len(front.from) :
                 /\ n = 0 => front.from = <<>>
                 /\ front' = [front EXCEPT !.from = Rest(n, @)]
                 /\ cc' = [cc EXCEPT !.op = "end", !.moved = n > 0]
            /\ UNCHANGED typed
    /\ UNCHANGED <<gate, guest, sv, sv_notify, vmm_notify, vmm, dev, printed>>

\* Leaving keeps the CLOSED bit; serial_virt is signalled if bytes moved.
aos_serial_frontend_end ==
    /\ cc.op = "end"
    /\ gate' = gate \ {"BUSY"}
    /\ cc' = NoOp
    /\ sv_notify' = (sv_notify \/ cc.moved)
    /\ UNCHANGED <<front, guest, sv, vmm_notify, vmm, dev, typed, printed>>

-----------------------------------------------------------------------------
(* The VMM.                                                                *)

\* guest_serial_service with the device holding `d` and the guest running or
\* not: at most a chunk each way.  A chunk the queue or the device refuses is
\* retained; input stays queued while the guest does not run.
aos_serial_endpoint_step(d, running, state_changed) ==
    LET output  == IF vmm.output = <<>> THEN First(Chunk, d.tx) ELSE vmm.output
        tx      == IF vmm.output = <<>> THEN Rest(Chunk, d.tx) ELSE d.tx
        written == output # <<>> /\ Len(guest.from) + Len(output) <= TxCapacity
        reads   == running /\ vmm.input = <<>>
        input   == IF reads THEN First(Chunk, guest.to) ELSE vmm.input
        pushed  == running /\ input # <<>> /\ d.rx = <<>>
        changed == written \/ (reads /\ input # <<>>)
    IN
    /\ guest' = [to |-> IF reads THEN Rest(Chunk, guest.to) ELSE guest.to,
                 from |-> IF written THEN guest.from \o output ELSE guest.from]
    /\ vmm' = [vmm EXCEPT !.running = running,
                          !.output = IF written THEN <<>> ELSE output,
                          !.input = IF pushed THEN <<>> ELSE input]
    /\ dev' = [rx |-> IF pushed THEN input ELSE d.rx, tx |-> tx]
    /\ sv_notify' = (sv_notify \/ changed \/ state_changed)

serial_attached == vmm.phase \in {"live", "destroying"}

guest_vmm_notified ==
    /\ vmm_notify
    /\ vmm_notify' = FALSE
    /\ IF serial_attached
       THEN aos_serial_endpoint_step(dev, vmm.running, FALSE)
       ELSE UNCHANGED <<guest, vmm, dev, sv_notify>>
    /\ UNCHANGED <<gate, front, sv, cc, typed, printed>>

\* A guest exit: the guest has taken the input posted to it and may have
\* printed; the VMM services the console after every exit.
guest_vmm_fault(print) ==
    /\ vmm.phase = "live" /\ vmm.running
    /\ printed + print <= MaxPrinted
    /\ printed' = printed + print
    /\ aos_serial_endpoint_step(
         [rx |-> <<>>, tx |-> dev.tx \o [i \in 1..print |-> sv.generation]], TRUE, FALSE)
    /\ UNCHANGED <<gate, front, sv, vmm_notify, cc, typed>>

\* A mutation: only notifications and exits service the console.
ServicedAfterRpc_Never(running) ==
    /\ vmm' = [vmm EXCEPT !.running = running]
    /\ UNCHANGED <<guest, dev, sv_notify>>

\* BOOT, SUSPEND and RESUME service the console before their reply.
ServicedAfterRpc(running) == aos_serial_endpoint_step(dev, running, running # vmm.running)

guest_vmm_rpc(running) ==
    /\ vmm.phase = "live" /\ running # vmm.running
    /\ ServicedAfterRpc(running)
    /\ UNCHANGED <<gate, front, sv, vmm_notify, cc, typed, printed>>

\* DESTROY stops the guest; DETACH is then called until it succeeds.
guest_vmm_teardown ==
    /\ vmm.phase = "live"
    /\ vmm' = [vmm EXCEPT !.phase = "destroying", !.running = FALSE]
    /\ UNCHANGED <<gate, front, guest, sv, sv_notify, vmm_notify, dev, cc, typed, printed>>

\* The reconstruction is published, or one of its other steps fails and the
\* cleanup detaches the new guest: that guest is not rebuilt again.
reset_publish(success) ==
    /\ vmm.phase = "rebound"
    /\ vmm' = [vmm EXCEPT !.phase = IF success THEN "live" ELSE "retiring",
                          !.failed = ~success]
    /\ UNCHANGED <<gate, front, guest, sv, sv_notify, vmm_notify, dev, cc, typed, printed>>

Next ==
    \/ \E role \in {"guest_attached", "frontend_attached"} : aos_serial_virt_attach(role)
    \/ serial_virt_notified
    \/ aos_serial_virt_detach
    \/ rebind_queue
    \/ aos_serial_virt_rebind_commit
    \/ \E op \in {"write", "read"} : aos_serial_frontend_begin(op)
    \/ cc_queue
    \/ aos_serial_frontend_end
    \/ guest_vmm_notified
    \/ \E print \in 0 .. 2 : guest_vmm_fault(print)
    \/ \E running \in BOOLEAN : guest_vmm_rpc(running)
    \/ guest_vmm_teardown
    \/ \E success \in BOOLEAN : reset_publish(success)

Spec == Init /\ [][Next]_vars

(* Each server handles what is pending, a frontend operation finishes, the   *)
(* console's clients keep draining output, a guest that was given input     *)
(* takes the interrupt and exits, and the VMM's teardown is retried.        *)
Fairness ==
    /\ WF_vars(serial_virt_notified)
    /\ WF_vars(aos_serial_virt_rebind_commit)
    /\ WF_vars(guest_vmm_notified)
    /\ WF_vars(cc_queue)
    /\ WF_vars(aos_serial_frontend_end)
    /\ SF_vars(front.from # <<>> /\ aos_serial_frontend_begin("read"))
    /\ WF_vars(dev.rx # <<>> /\ guest_vmm_fault(0))
    /\ WF_vars(aos_serial_virt_detach)

FairSpec == Spec /\ Fairness

-----------------------------------------------------------------------------
(* No byte crosses a reconstruction: what waits on the guest's side was      *)
(* typed for, or printed by, the guest there now, and while the gate is open *)
(* so is what waits at the frontend (serial-virt/service.c "neither pending  *)
(* input nor prior guest output survives").                                  *)
NoByteOutlivesItsGuest ==
    LET Current(s) == \A i \in DOMAIN s : s[i] = sv.generation
    IN  /\ Current(guest.to) /\ Current(guest.from)
        /\ vmm.phase \in {"live", "destroying"} =>
             Current(vmm.input) /\ Current(vmm.output) /\ Current(dev.rx)
        /\ gate \subseteq {"BUSY"} => Current(front.to) /\ Current(front.from)

(* What a guest printed reaches the frontend queue's reader without another *)
(* event from the guest, through chunking and full queues, unless the guest *)
(* is destroyed: the pump wakes the VMM for output too (service.c:124).      *)
OutputIsDrained ==
    LET unread == dev.tx \o vmm.output \o guest.from \o front.from
    IN  vmm.phase = "live" /\ sv.frontend_attached /\ unread # <<>>
          ~> unread = <<>> \/ vmm.phase # "live"

(* Typed input reaches a running guest: input queued while the guest was     *)
(* suspended, or behind a full chunk, is not stranded.                       *)
InputReachesGuest ==
    LET untaken == front.to \o guest.to \o vmm.input
    IN  vmm.running /\ untaken # <<>> ~> untaken = <<>> \/ ~vmm.running

(* A destroy is not starved by a console that keeps reading and writing: the *)
(* gate is closed by the first DETACH, busy or not (service.c:35).           *)
DetachCompletes == vmm.phase \in {"destroying", "retiring"} ~> vmm.phase = "dead"

=============================================================================

------------------------------ MODULE NetWake ------------------------------
(***************************************************************************)
(* How a guest VMM, the network virtualizer net_virt and the NIC driver    *)
(* net_pd wake one another (platform/net-virt/net_virt.c,                  *)
(* platform/net-virt/vmm_virtio_net.c, services/net-service/net_pd.c).     *)
(*                                                                         *)
(* One client with a host NIC.  A ring is the number of descriptors in it; *)
(* what its slots hold is the subject of NetRing.  Every load or store of  *)
(* a shared word is a step of its own, because the VMM, net_virt and       *)
(* net_pd are scheduled independently and preempt one another anywhere.    *)
(* Kicks and VMM wake-ups are notifications: they stay pending and         *)
(* coalesce.  RX_READY is an NBSend: it is lost unless net_virt is in Recv.*)
(***************************************************************************)
EXTENDS Naturals

CONSTANTS
    Capacity,   \* descriptors of each ring (AOS_NET_CAPACITY)
    HostFrames, \* frames that fit the client's ring in net_pd
    Passes      \* passes of one nv_service round

ASSUME NetWakeAssumption ==
    /\ Capacity \in Nat \ {0} /\ HostFrames \in Nat \ {0}
    /\ Passes \in Nat \ {0}

VARIABLES
    tx_active, tx_free, rx_active, rx_free,  \* ring lengths
    tx_signalled, rx_signalled, \* consumer_signalled of tx_active and rx_free
    kick,      \* net_virt's bound notification is pending
    wake,      \* the VMM's bound notification is pending
    net_pd,    \* the driver: frames in this client's ring; whether it polls a
               \* PCI device or takes the interrupt of an MMIO one
    nv,        \* net_virt: pc, pass, attempt, reserved buffer, ...
    vmm        \* the VMM: pc, buffer in hand, had_rx, kick decided, and, as
               \* history, whether it recycled a buffer its had_rx had not seen

rings == <<tx_active, tx_free, rx_active, rx_free>>
words == <<tx_signalled, rx_signalled>>
vars  == <<rings, words, kick, wake, net_pd, nv, vmm>>

\* Mapped and attached, as handle_attach leaves the queues: every buffer free,
\* kicks wanted for TX, no RX backpressure.
Init ==
    /\ tx_active = 0 /\ rx_active = 0
    /\ tx_free = Capacity /\ rx_free = Capacity
    /\ tx_signalled = 0 /\ rx_signalled = 1
    /\ kick = FALSE /\ wake = FALSE
    /\ net_pd \in [ring : {0}, pci : BOOLEAN]
    /\ nv = [pc |-> "loop", pass |-> 0, attempt |-> 0, buf |-> 0,
             rx_pending |-> FALSE, deliver |-> FALSE, gave_up |-> FALSE]
    /\ vmm = [pc |-> "idle", buf |-> 0, had_rx |-> FALSE, kick |-> FALSE,
              driver_ok |-> FALSE, unseen |-> FALSE]

-----------------------------------------------------------------------------
(* net_virt: the Recv loop and one nv_service round.                       *)

NvAt(pc) == nv.pc = pc

\* A round begins: pass 1, nothing delivered yet.
ServiceFrom(s) == [s EXCEPT !.pc = "drain", !.pass = 1, !.gave_up = FALSE]

\* Recv with the notification pending consumes it and services the queues.
net_virt_wakes ==
    /\ nv.pc \in {"loop", "recv"} /\ kick
    /\ kick' = FALSE
    /\ nv' = ServiceFrom(nv)
    /\ UNCHANGED <<rings, words, wake, net_pd, vmm>>

\* Recv with nothing pending blocks.
net_virt_blocks ==
    /\ NvAt("loop") /\ ~kick
    /\ nv' = [nv EXCEPT !.pc = "recv"]
    /\ UNCHANGED <<rings, words, kick, wake, net_pd, vmm>>

\* Draining: kicks are redundant until net_virt asks for them again.
nv_drain ==
    /\ NvAt("drain")
    /\ tx_signalled' = 1
    /\ nv' = [nv EXCEPT !.pc = "tx", !.attempt = 0, !.deliver = FALSE]
    /\ UNCHANGED <<rings, rx_signalled, kick, wake, net_pd, vmm>>

\* One frame to RAW_SEND, accepted or not, and its buffer back to tx_free; the
\* loop ends on an empty ring or after Capacity attempts.
nv_tx_to_net_pd ==
    /\ NvAt("tx")
    /\ IF nv.attempt < Capacity /\ tx_active > 0
       THEN /\ tx_active' = tx_active - 1
            /\ tx_free' = tx_free + 1
            /\ nv' = [nv EXCEPT !.attempt = @ + 1]
       ELSE /\ nv' = [nv EXCEPT !.pc = "rx"]
            /\ UNCHANGED <<tx_active, tx_free>>
    /\ UNCHANGED <<rx_active, rx_free, words, kick, wake, net_pd, vmm>>

\* rx_pending is set before every probe; no backpressure until proven.
nv_rx_begin ==
    /\ NvAt("rx")
    /\ rx_signalled' = 1
    /\ nv' = [nv EXCEPT !.pc = "reserve", !.rx_pending = TRUE, !.attempt = 0]
    /\ UNCHANGED <<rings, tx_signalled, kick, wake, net_pd, vmm>>

\* The destination is reserved before the frame is taken from net_pd.
nv_rx_reserve ==
    /\ NvAt("reserve")
    /\ IF nv.attempt = Capacity
       THEN nv' = [nv EXCEPT !.pc = "notify"] /\ UNCHANGED rx_free
       ELSE IF rx_free = 0
            THEN nv' = [nv EXCEPT !.pc = "backpressure"] /\ UNCHANGED rx_free
            ELSE /\ rx_free' = rx_free - 1
                 /\ nv' = [nv EXCEPT !.pc = "raw_recv", !.buf = 1]
    /\ UNCHANGED <<tx_active, tx_free, rx_active, words, kick, wake, net_pd, vmm>>

nv_rx_backpressure ==
    /\ NvAt("backpressure")
    /\ rx_signalled' = 0
    /\ nv' = [nv EXCEPT !.pc = "notify"]
    /\ UNCHANGED <<rings, tx_signalled, kick, wake, net_pd, vmm>>

\* RAW_RECV polls the host ring: a frame, or none.
nv_raw_recv ==
    /\ NvAt("raw_recv")
    /\ IF net_pd.ring > 0
       THEN /\ net_pd' = [net_pd EXCEPT !.ring = @ - 1]
            /\ nv' = [nv EXCEPT !.pc = "deliver"]
       ELSE /\ nv' = [nv EXCEPT !.pc = "give_back"]
            /\ UNCHANGED net_pd
    /\ UNCHANGED <<rings, words, kick, wake, vmm>>

\* The frame goes to rx_active; were that full, the buffer would return to
\* rx_free and the frame would be lost.
nv_rx_deliver ==
    /\ NvAt("deliver")
    /\ IF rx_active < Capacity
       THEN /\ rx_active' = rx_active + 1
            /\ nv' = [nv EXCEPT !.pc = "reserve", !.buf = 0, !.deliver = TRUE,
                                !.attempt = @ + 1]
            /\ UNCHANGED rx_free
       ELSE /\ rx_free' = rx_free + 1
            /\ nv' = [nv EXCEPT !.pc = "notify", !.buf = 0]
            /\ UNCHANGED rx_active
    /\ UNCHANGED <<tx_active, tx_free, words, kick, wake, net_pd, vmm>>

\* A mutation: the reserved buffer is forgotten.
nv_rx_give_back_Leak ==
    /\ NvAt("give_back")
    /\ nv' = [nv EXCEPT !.pc = "notify", !.buf = 0, !.rx_pending = FALSE]
    /\ UNCHANGED <<rings, words, kick, wake, net_pd, vmm>>

nv_rx_give_back ==
    /\ NvAt("give_back")
    /\ rx_free' = rx_free + 1
    /\ nv' = [nv EXCEPT !.pc = "notify", !.buf = 0, !.rx_pending = FALSE]
    /\ UNCHANGED <<tx_active, tx_free, rx_active, words, kick, wake, net_pd, vmm>>

nv_notify_vmm ==
    /\ NvAt("notify")
    /\ wake' = (wake \/ nv.deliver)
    /\ nv' = [nv EXCEPT !.pc = "ask"]
    /\ UNCHANGED <<rings, words, kick, net_pd, vmm>>

\* A mutation: the flag is left set.
nv_ask_for_kicks_Not ==
    /\ NvAt("ask")
    /\ nv' = [nv EXCEPT !.pc = "rescan_tx"]
    /\ UNCHANGED <<rings, words, kick, wake, net_pd, vmm>>

nv_ask_for_kicks ==
    /\ NvAt("ask")
    /\ tx_signalled' = 0
    /\ nv' = [nv EXCEPT !.pc = "rescan_tx"]
    /\ UNCHANGED <<rings, rx_signalled, kick, wake, net_pd, vmm>>

\* The end of a pass: another one while work is left and passes remain.
NextPass(s) ==
    IF s.pass < Passes
    THEN [s EXCEPT !.pc = "drain", !.pass = @ + 1]
    ELSE [s EXCEPT !.pc = "loop", !.pass = 0, !.gave_up = TRUE]

\* A mutation: the rescan looks at RX only.
nv_rescan_needed_RxOnly ==
    /\ nv.pc \in {"rescan_tx", "rescan_rx"}
    /\ nv' = IF nv.rx_pending /\ rx_free > 0
             THEN NextPass(nv)
             ELSE [nv EXCEPT !.pc = "loop", !.pass = 0]
    /\ UNCHANGED <<rings, words, kick, wake, net_pd, vmm>>

nv_rescan_needed ==
    /\ \/ /\ NvAt("rescan_tx")
          /\ nv' = IF tx_active > 0 THEN NextPass(nv)
                                    ELSE [nv EXCEPT !.pc = "rescan_rx"]
       \/ /\ NvAt("rescan_rx")
          /\ nv' = IF nv.rx_pending /\ rx_free > 0
                   THEN NextPass(nv)
                   ELSE [nv EXCEPT !.pc = "loop", !.pass = 0]
    /\ UNCHANGED <<rings, words, kick, wake, net_pd, vmm>>

NetVirt ==
    \/ net_virt_wakes \/ net_virt_blocks \/ nv_drain \/ nv_tx_to_net_pd
    \/ nv_rx_begin \/ nv_rx_reserve \/ nv_rx_backpressure \/ nv_raw_recv
    \/ nv_rx_deliver \/ nv_rx_give_back \/ nv_notify_vmm \/ nv_ask_for_kicks
    \/ nv_rescan_needed
-----------------------------------------------------------------------------
(* The VMM: guest exits, RX_READY events and net_virt_service after both.  *)

VmmAt(pc) == vmm.pc = pc

\* A TX QueueNotify: the frame is copied to a free buffer, or dropped when
\* tx_active is full or tx_free empty.  Every exit ends in net_virt_service.
virtio_net_queue_notify ==
    /\ VmmAt("idle") /\ vmm.driver_ok
    /\ IF tx_active < Capacity /\ tx_free > 0
       THEN tx_active' = tx_active + 1 /\ tx_free' = tx_free - 1
       ELSE UNCHANGED <<tx_active, tx_free>>
    /\ vmm' = [vmm EXCEPT !.pc = "service"]
    /\ UNCHANGED <<rx_active, rx_free, words, kick, wake, net_pd, nv>>

\* Any other exit of the guest; it may set or clear DRIVER_OK.
after_fault ==
    /\ VmmAt("idle")
    /\ \E ok \in BOOLEAN :
          vmm' = [vmm EXCEPT !.pc = "service", !.driver_ok = ok]
    /\ UNCHANGED <<rings, words, kick, wake, net_pd, nv>>

rx_ready ==
    /\ VmmAt("idle") /\ wake
    /\ wake' = FALSE
    /\ vmm' = [vmm EXCEPT !.pc = "service"]
    /\ UNCHANGED <<rings, words, kick, net_pd, nv>>

net_virt_service ==
    /\ VmmAt("service")
    /\ vmm' = [vmm EXCEPT !.pc = "rx", !.had_rx = (rx_active > 0),
                          !.kick = FALSE]
    /\ UNCHANGED <<rings, words, kick, wake, net_pd, nv>>

\* virtio_net_handle_rx: nothing before DRIVER_OK, else until rx_active is
\* seen empty.  A packet the guest has no descriptor for is dropped, and its
\* buffer returns to rx_free like any other.
virtio_net_handle_rx ==
    /\ \/ /\ VmmAt("rx") /\ vmm.driver_ok /\ rx_active > 0
          /\ rx_active' = rx_active - 1
          /\ vmm' = [vmm EXCEPT !.pc = "recycle", !.buf = 1,
                                !.unseen = @ \/ ~vmm.had_rx]
          /\ UNCHANGED rx_free
       \/ /\ VmmAt("recycle")
          /\ rx_free' = rx_free + 1
          /\ vmm' = [vmm EXCEPT !.pc = "rx", !.buf = 0]
          /\ UNCHANGED rx_active
       \/ /\ VmmAt("rx") /\ (vmm.driver_ok => rx_active = 0)
          /\ vmm' = [vmm EXCEPT !.pc = "tx_pending"]
          /\ UNCHANGED <<rx_active, rx_free>>
    /\ UNCHANGED <<tx_active, tx_free, words, kick, wake, net_pd, nv>>

\* Kick if TX is queued and net_virt asked for kicks ...
tx_wants_kick ==
    /\ \/ /\ VmmAt("tx_pending")
          /\ vmm' = [vmm EXCEPT !.pc = IF tx_active > 0 THEN "tx_flag"
                                                        ELSE "rx_flag"]
       \/ /\ VmmAt("tx_flag")
          /\ vmm' = [vmm EXCEPT !.pc = "rx_flag", !.kick = (tx_signalled = 0)]
    /\ UNCHANGED <<rings, words, kick, wake, net_pd, nv>>

\* ... or if RX buffers were recycled while net_virt is backpressured.
rx_wants_kick ==
    /\ VmmAt("rx_flag")
    /\ vmm' = [vmm EXCEPT !.pc = "signal",
            !.kick = @ \/ (vmm.had_rx /\ rx_signalled = 0 /\ rx_free > 0)]
    /\ UNCHANGED <<rings, words, kick, wake, net_pd, nv>>

net_virt_kick ==
    /\ VmmAt("signal")
    /\ kick' = (kick \/ vmm.kick)
    /\ vmm' = [vmm EXCEPT !.pc = "idle", !.had_rx = FALSE, !.kick = FALSE]
    /\ UNCHANGED <<rings, words, wake, net_pd, nv>>

VmmService ==
    \/ rx_ready \/ net_virt_service \/ virtio_net_handle_rx
    \/ tx_wants_kick \/ rx_wants_kick \/ net_virt_kick

Vmm == virtio_net_queue_notify \/ after_fault \/ VmmService

-----------------------------------------------------------------------------
(* net_pd.                                                                 *)

\* NBSend of RX_READY: net_virt services the queues if it is in Recv with
\* nothing pending, else the event is gone.
net_pd_notify_net_virt_rx ==
    nv' = IF NvAt("recv") /\ ~kick THEN ServiceFrom(nv) ELSE nv

\* net_host_deliver: a frame the client's ring has no room for is dropped.
Received(n) ==
    net_pd' = [net_pd EXCEPT !.ring = IF @ + n <= HostFrames THEN @ + n ELSE @]

\* The interrupt of an MMIO device: a frame from the wire.
net_pd_handle_host_irq ==
    /\ ~net_pd.pci
    /\ Received(1)
    /\ net_pd_notify_net_virt_rx
    /\ UNCHANGED <<rings, words, kick, wake, vmm>>

\* A mutation: RX_READY only for frames the poll has just received.
net_pd_poll_NewOnly(n) ==
    /\ net_pd.pci
    /\ Received(n)
    /\ IF n > 0 THEN net_pd_notify_net_virt_rx ELSE UNCHANGED nv
    /\ UNCHANGED <<rings, words, kick, wake, vmm>>

\* The driver of a PCI device finds n frames when it polls, and repeats RX_READY
\* on every round that leaves a frame in the ring.
net_pd_poll(n) ==
    /\ net_pd.pci
    /\ Received(n)
    /\ IF net_pd'.ring > 0 THEN net_pd_notify_net_virt_rx ELSE UNCHANGED nv
    /\ UNCHANGED <<rings, words, kick, wake, vmm>>

NetPd == net_pd_handle_host_irq \/ \E n \in 0..1 : net_pd_poll(n)

Next == NetVirt \/ Vmm \/ NetPd

Spec == Init /\ [][Next]_vars

\* Every PD is scheduled, the polling driver included, whether or not frames
\* arrive, and a guest that uses its network keeps taking MMIO exits.
FairSpec ==
    /\ Spec
    /\ WF_vars(NetVirt) /\ WF_vars(VmmService)
    /\ WF_vars(after_fault) /\ WF_vars(net_pd_poll(0))

-----------------------------------------------------------------------------
(* Properties.                                                             *)

\* No path through nv_rx_from_net_pd or virtio_net_handle_rx, the ones that
\* break out of their loop included, leaks or duplicates an RX buffer, and
\* none of the TX path does.
BuffersConserved ==
    /\ rx_free + rx_active + nv.buf + vmm.buf = Capacity
    /\ tx_free + tx_active = Capacity

\* Nobody is running and nothing is pending: only a new event moves the
\* network again.
AllAsleep == nv.pc = "recv" /\ ~kick /\ vmm.pc = "idle" /\ ~wake

\* Nobody goes to sleep on work it should have announced.  "Ask for kicks
\* again, then rescan so nothing enqueued meanwhile waits for the next kick"
\* (nv_service): everybody sleeps with a TX frame queued in one case only, when
\* net_virt used all the passes of its round and gave up though its rescan had
\* found work.  "A VMM kicks after recycling RX buffers when the flag is 0"
\* (net_virt_contract.h): net_virt is not waiting for RX buffers that are back
\* in rx_free, unless its passes ran out, or the VMM recycled a buffer that
\* reached rx_active after it had sampled had_rx.  And with the driver up the
\* VMM has taken every frame net_virt put on rx_active (nv_notify_vmm).
NobodySleepsOnWork ==
    AllAsleep =>
        /\ tx_active > 0 => nv.gave_up
        /\ rx_signalled = 0 /\ rx_free > 0 => nv.gave_up \/ vmm.unseen
        /\ vmm.driver_ok => rx_active = 0

\* A queued TX frame is eventually drained, the round that gave up included:
\* the next exit of the guest finds the flag clear and repeats the kick.
TxIsDrained == tx_active > 0 ~> nv.pc = "tx"

\* "a lost notification from the driver costs latency, not data"
\* (DEVELOPER_GUIDE.md): net_virt eventually asks net_pd for the frames of its
\* ring, while it has buffers to put them in.
RxIsPulled ==
    (net_pd.ring > 0 /\ rx_free > 0) ~> (nv.pc = "raw_recv" \/ rx_free = 0)

\* The same of the polling driver, which repeats RX_READY.
PolledRxIsPulled ==
    (net_pd.pci /\ net_pd.ring > 0 /\ rx_free > 0)
        ~> (nv.pc = "raw_recv" \/ rx_free = 0)
=============================================================================

--------------------------- MODULE NetWakeProofs ----------------------------
(***************************************************************************)
(* The wake-up protocol of the network path, for every ring capacity, host *)
(* ring and number of passes: buffers are conserved, and everybody asleep  *)
(* means nothing is left to announce, up to the exceptions the code has.   *)
(***************************************************************************)
EXTENDS NetWake, TLAPS

\* Ring lengths are numbers, flags are bits, and the two records have their fields.
Types ==
    /\ tx_active \in Nat /\ tx_free \in Nat /\ rx_active \in Nat /\ rx_free \in Nat
    /\ tx_signalled \in {0, 1} /\ rx_signalled \in {0, 1}
    /\ nv = [pc |-> nv.pc, pass |-> nv.pass, attempt |-> nv.attempt, buf |-> nv.buf,
             rx_pending |-> nv.rx_pending, deliver |-> nv.deliver, gave_up |-> nv.gave_up]
    /\ vmm = [pc |-> vmm.pc, buf |-> vmm.buf, had_rx |-> vmm.had_rx, kick |-> vmm.kick,
              driver_ok |-> vmm.driver_ok, unseen |-> vmm.unseen]

\* A buffer is in hand exactly between the two ring operations that move it.
InHand ==
    /\ nv.buf = IF nv.pc \in {"raw_recv", "deliver", "give_back"} THEN 1 ELSE 0
    /\ vmm.buf = IF vmm.pc = "recycle" THEN 1 ELSE 0

\* The part of a pass in which net_virt fills rx_active.
Receiving == {"reserve", "backpressure", "raw_recv", "deliver", "give_back"}

\* What net_virt's program counter says of the two flags.
FlagsInv ==
    /\ tx_signalled = 1 <=> nv.pc \in Receiving \cup {"tx", "rx", "notify", "ask"}
    /\ nv.pc \in Receiving => rx_signalled = 1 /\ nv.rx_pending
    /\ nv.pc \in {"notify", "ask", "rescan_tx", "rescan_rx"} /\ rx_signalled = 0 => nv.rx_pending

\* A TX frame net_virt has not seen: a kick is pending or the VMM will give one,
\* since it has still to look at a flag that stays clear.
TxInv ==
    nv.pc \in {"rescan_rx", "loop", "recv"} /\ tx_active > 0 /\ ~nv.gave_up =>
        \/ kick
        \/ vmm.pc \in {"service", "rx", "recycle", "tx_pending", "tx_flag"}
        \/ vmm.pc \in {"rx_flag", "signal"} /\ vmm.kick

\* A buffer recycled while net_virt waits for one: likewise, if had_rx is set.
RxInv ==
    /\ vmm.pc = "recycle" /\ ~vmm.unseen => vmm.had_rx
    /\ (/\ nv.pc \in {"loop", "recv"} /\ rx_signalled = 0 /\ rx_free > 0
        /\ ~nv.gave_up /\ ~vmm.unseen) =>
        \/ kick
        \/ vmm.pc \in {"rx", "recycle", "tx_pending", "tx_flag", "rx_flag"} /\ vmm.had_rx
        \/ vmm.pc = "signal" /\ vmm.kick

\* A frame on rx_active: the VMM is draining, woken, or about to be.
DeliveredInv ==
    vmm.driver_ok /\ rx_active > 0 =>
        \/ wake
        \/ nv.deliver /\ nv.pc \in Receiving \cup {"notify"}
        \/ vmm.pc \in {"service", "rx", "recycle"}

\* The inductive invariant.  NobodySleepsOnWork speaks of states with everybody
\* asleep only; these parts say who still owes the wake-up in all the others.
WakeIInv ==
    Types /\ InHand /\ BuffersConserved /\ FlagsInv /\ TxInv /\ RxInv /\ DeliveredInv

-----------------------------------------------------------------------------
\* Attached queues with every buffer free satisfy the invariant.
LEMMA WakeInit == Init => WakeIInv
BY NetWakeAssumption
   DEF Init, WakeIInv, Types, InHand, BuffersConserved,
       FlagsInv, TxInv, RxInv, DeliveredInv, Receiving

\* Every step of a service round of net_virt preserves it.
LEMMA NetVirtStep == ASSUME WakeIInv, NetVirt PROVE WakeIInv'
<1> USE NetWakeAssumption
    DEF WakeIInv, Types, InHand, BuffersConserved,
        FlagsInv, TxInv, RxInv, DeliveredInv, Receiving, rings, words, NvAt
<1>1. CASE net_virt_wakes
  BY <1>1, Zenon DEF net_virt_wakes, ServiceFrom
<1>2. CASE net_virt_blocks
  BY <1>2 DEF net_virt_blocks
<1>3. CASE nv_drain
  BY <1>3, Zenon DEF nv_drain
<1>4. CASE nv_tx_to_net_pd
  BY <1>4 DEF nv_tx_to_net_pd
<1>5. CASE nv_rx_begin
  BY <1>5, Zenon DEF nv_rx_begin
<1>6. CASE nv_rx_reserve
  <2>1. CASE nv.attempt = Capacity
    BY <1>6, <2>1 DEF nv_rx_reserve
  <2>2. CASE nv.attempt # Capacity /\ rx_free = 0
    BY <1>6, <2>2 DEF nv_rx_reserve
  <2>3. CASE nv.attempt # Capacity /\ rx_free # 0
    <3>1. /\ rx_free' = rx_free - 1 /\ rx_free' \in Nat
          /\ nv' = [nv EXCEPT !.pc = "raw_recv", !.buf = 1]
      BY <1>6, <2>3 DEF nv_rx_reserve
    <3>2. Types'
      BY <1>6, <3>1, Zenon DEF nv_rx_reserve
    <3>3. InHand' /\ BuffersConserved'
      BY <1>6, <3>1 DEF nv_rx_reserve
    <3>4. FlagsInv' /\ TxInv' /\ RxInv' /\ DeliveredInv'
      BY <1>6, <3>1 DEF nv_rx_reserve
    <3> QED
      BY <3>2, <3>3, <3>4
  <2> QED
    BY <2>1, <2>2, <2>3
<1>7. CASE nv_rx_backpressure
  BY <1>7 DEF nv_rx_backpressure
<1>8. CASE nv_raw_recv
  BY <1>8 DEF nv_raw_recv
<1>9. CASE nv_rx_deliver
  <2>1. /\ rx_active < Capacity
        /\ rx_active' = rx_active + 1 /\ rx_active' \in Nat /\ rx_free' = rx_free
        /\ nv' = [nv EXCEPT !.pc = "reserve", !.buf = 0, !.deliver = TRUE, !.attempt = @ + 1]
    BY <1>9 DEF nv_rx_deliver
  <2>2. Types'
    BY <1>9, <2>1, Zenon DEF nv_rx_deliver
  <2>3. InHand' /\ BuffersConserved'
    BY <1>9, <2>1 DEF nv_rx_deliver
  <2>4. FlagsInv' /\ TxInv' /\ RxInv' /\ DeliveredInv'
    BY <1>9, <2>1 DEF nv_rx_deliver
  <2> QED
    BY <2>2, <2>3, <2>4
<1>10. CASE nv_rx_give_back
  <2>1. /\ rx_free' = rx_free + 1 /\ rx_free' \in Nat
        /\ nv' = [nv EXCEPT !.pc = "notify", !.buf = 0, !.rx_pending = FALSE]
    BY <1>10 DEF nv_rx_give_back
  <2>2. Types'
    BY <1>10, <2>1, Zenon DEF nv_rx_give_back
  <2>3. InHand' /\ BuffersConserved'
    BY <1>10, <2>1 DEF nv_rx_give_back
  <2>4. FlagsInv' /\ TxInv' /\ RxInv' /\ DeliveredInv'
    BY <1>10, <2>1 DEF nv_rx_give_back
  <2> QED
    BY <2>2, <2>3, <2>4
<1>11. CASE nv_notify_vmm
  BY <1>11, Zenon DEF nv_notify_vmm
<1>12. CASE nv_ask_for_kicks
  BY <1>12 DEF nv_ask_for_kicks
<1>13. CASE nv_rescan_needed
  <2>1. nv.pc \in {"rescan_tx", "rescan_rx"} /\ UNCHANGED <<rings, words, kick, wake, vmm>>
    BY <1>13 DEF nv_rescan_needed
  <2>2. CASE nv' = [nv EXCEPT !.pc = "drain", !.pass = @ + 1]
    BY <2>1, <2>2, Zenon
  <2>3. CASE nv' = [nv EXCEPT !.pc = "loop", !.pass = 0, !.gave_up = TRUE]
    BY <2>1, <2>3, ZenonT(60)
  <2>4. CASE nv.pc = "rescan_tx" /\ ~(tx_active > 0) /\ nv' = [nv EXCEPT !.pc = "rescan_rx"]
    BY <2>1, <2>4
  <2>5. CASE /\ nv.pc = "rescan_rx" /\ ~(nv.rx_pending /\ rx_free > 0)
             /\ nv' = [nv EXCEPT !.pc = "loop", !.pass = 0]
    BY <2>1, <2>5, ZenonT(60)
  <2> QED
    BY <1>13, <2>2, <2>3, <2>4, <2>5 DEF nv_rescan_needed, NextPass
<1> QED
  BY <1>1, <1>2, <1>3, <1>4, <1>5, <1>6, <1>7, <1>8, <1>9, <1>10, <1>11, <1>12, <1>13,
     ZenonT(60)
     DEF NetVirt

\* So does every step of the VMM.
LEMMA VmmStep == ASSUME WakeIInv, Vmm PROVE WakeIInv'
<1> USE NetWakeAssumption
    DEF WakeIInv, Types, InHand, BuffersConserved,
        FlagsInv, TxInv, RxInv, DeliveredInv, Receiving, rings, words, VmmAt
<1>1. CASE virtio_net_queue_notify
  BY <1>1 DEF virtio_net_queue_notify
<1>2. CASE after_fault
  BY <1>2, ZenonT(60) DEF after_fault
<1>3. CASE rx_ready
  BY <1>3 DEF rx_ready
<1>4. CASE net_virt_service
  BY <1>4, Zenon DEF net_virt_service
<1>5. CASE virtio_net_handle_rx
  <2>1. CASE VmmAt("rx") /\ vmm.driver_ok /\ rx_active > 0
    <3>1. /\ rx_active' = rx_active - 1 /\ rx_active' \in Nat /\ rx_free' = rx_free
          /\ vmm' = [vmm EXCEPT !.pc = "recycle", !.buf = 1, !.unseen = @ \/ ~vmm.had_rx]
      BY <1>5, <2>1 DEF virtio_net_handle_rx
    <3>2. Types'
      BY <1>5, <3>1, Zenon DEF virtio_net_handle_rx
    <3>3. InHand' /\ BuffersConserved'
      BY <1>5, <2>1, <3>1 DEF virtio_net_handle_rx
    <3>4. FlagsInv' /\ TxInv' /\ RxInv' /\ DeliveredInv'
      BY <1>5, <2>1, <3>1, Zenon DEF virtio_net_handle_rx
    <3> QED
      BY <3>2, <3>3, <3>4
  <2>2. CASE VmmAt("recycle")
    <3>1. /\ rx_free' = rx_free + 1 /\ rx_free' \in Nat /\ rx_active' = rx_active
          /\ vmm' = [vmm EXCEPT !.pc = "rx", !.buf = 0]
      BY <1>5, <2>2 DEF virtio_net_handle_rx
    <3>2. Types'
      BY <1>5, <3>1, Zenon DEF virtio_net_handle_rx
    <3>3. InHand' /\ BuffersConserved'
      BY <1>5, <2>2, <3>1 DEF virtio_net_handle_rx
    <3>4. FlagsInv' /\ TxInv' /\ RxInv' /\ DeliveredInv'
      BY <1>5, <2>2, <3>1 DEF virtio_net_handle_rx
    <3> QED
      BY <3>2, <3>3, <3>4
  <2>3. CASE VmmAt("rx") /\ (vmm.driver_ok => rx_active = 0)
    BY <1>5, <2>3 DEF virtio_net_handle_rx
  <2> QED
    BY <1>5, <2>1, <2>2, <2>3 DEF virtio_net_handle_rx
<1>6. CASE tx_wants_kick
  BY <1>6, ZenonT(60) DEF tx_wants_kick
<1>7. CASE rx_wants_kick
  BY <1>7, ZenonT(60) DEF rx_wants_kick
<1>8. CASE net_virt_kick
  BY <1>8, ZenonT(60) DEF net_virt_kick
<1> QED
  BY <1>1, <1>2, <1>3, <1>4, <1>5, <1>6, <1>7, <1>8, ZenonT(60) DEF Vmm, VmmService

\* And every frame the driver receives.
LEMMA NetPdStep == ASSUME WakeIInv, NetPd PROVE WakeIInv'
<1>1. UNCHANGED <<rings, words, kick, wake, vmm>>
  BY DEF NetPd, net_pd_handle_host_irq, net_pd_poll
<1>2. nv' = nv \/ (NvAt("recv") /\ nv' = ServiceFrom(nv))
  <2>1. CASE net_pd_handle_host_irq
    BY <2>1 DEF net_pd_handle_host_irq, net_pd_notify_net_virt_rx, NvAt
  <2>2. ASSUME NEW n \in 0 .. 1, net_pd_poll(n)
        PROVE  nv' = nv \/ (NvAt("recv") /\ nv' = ServiceFrom(nv))
    BY <2>2 DEF net_pd_poll, net_pd_notify_net_virt_rx, NvAt
  <2> QED
    BY <2>1, <2>2 DEF NetPd
<1> USE <1>1
    DEF WakeIInv, Types, InHand, BuffersConserved, FlagsInv, TxInv, RxInv, DeliveredInv,
        Receiving, rings, words, NvAt
<1>3. CASE nv' = nv
  BY <1>3
<1>4. CASE NvAt("recv") /\ nv' = ServiceFrom(nv)
  BY <1>4, Zenon DEF ServiceFrom
<1> QED
  BY <1>2, <1>3, <1>4

\* The invariant is inductive.
LEMMA WakeNext == WakeIInv /\ [Next]_vars => WakeIInv'
<1>1. ASSUME WakeIInv, UNCHANGED vars PROVE WakeIInv'
  BY <1>1 DEF vars, rings, words, WakeIInv, Types, InHand, BuffersConserved, FlagsInv,
              TxInv, RxInv, DeliveredInv
<1> QED
  BY <1>1, NetVirtStep, VmmStep, NetPdStep DEF Next

-----------------------------------------------------------------------------
\* The RX and TX buffers of a client are conserved by every path through
\* nv_rx_from_net_pd, nv_tx_to_net_pd and virtio_net_handle_rx, for rings of any
\* capacity.
THEOREM BuffersConservedHolds == Spec => []BuffersConserved
<1>1. WakeIInv => BuffersConserved
  BY DEF WakeIInv
<1> QED
  BY WakeInit, WakeNext, <1>1, PTL DEF Spec

\* Nobody sleeps on work it should have announced, for rings of any capacity and
\* rounds of any number of passes (nv_service, net_virt_service).
THEOREM NobodySleepsOnWorkHolds == Spec => []NobodySleepsOnWork
<1>1. WakeIInv => NobodySleepsOnWork
  BY DEF WakeIInv, Types, TxInv, RxInv, DeliveredInv, Receiving, NobodySleepsOnWork, AllAsleep
<1> QED
  BY WakeInit, WakeNext, <1>1, PTL DEF Spec

=============================================================================

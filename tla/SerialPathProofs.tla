-------------------------- MODULE SerialPathProofs --------------------------
(***************************************************************************)
(* No byte of the console crosses a reconstruction of its guest, for       *)
(* queues and chunks of any size and any number of reconstructions.        *)
(***************************************************************************)
EXTENDS SerialPath, SequenceTheorems, TLAPS

\* The bytes of the guest that is there now.
Bytes == Seq({sv.generation})

\* The records have their fields.
Shape ==
    /\ sv = [guest_attached |-> sv.guest_attached, frontend_attached |-> sv.frontend_attached,
             guest_retired |-> sv.guest_retired, generation |-> sv.generation,
             resetting |-> sv.resetting]
    /\ vmm = [phase |-> vmm.phase, running |-> vmm.running, failed |-> vmm.failed,
              input |-> vmm.input, output |-> vmm.output]
    /\ front = [to |-> front.to, from |-> front.from]
    /\ cc = [op |-> cc.op, gen |-> cc.gen, moved |-> cc.moved]

\* Wherever a byte waits, it belongs to the current generation.
AllCurrent ==
    /\ {front.to, front.from, guest.to, guest.from} \subseteq Bytes
    /\ {vmm.input, vmm.output, dev.rx, dev.tx} \subseteq Bytes

\* Why the generation can change under them: the endpoint of a dead guest is
\* empty, and a REBIND in progress keeps the console out.
Quiet ==
    /\ vmm.phase = "dead" => vmm.input = <<>> /\ vmm.output = <<>>
    /\ sv.resetting => vmm.phase = "dead" /\ gate = {"CLOSED"}
    /\ cc.op # "none" => "BUSY" \in gate /\ cc.gen = sv.generation

\* The inductive invariant.
SerialIInv == Shape /\ AllCurrent /\ Quiet

-----------------------------------------------------------------------------
\* The first bytes of a sequence, and the others, are bytes of the same kind.
LEMMA Parts ==
    ASSUME NEW S, NEW s \in Seq(S), NEW n \in Int
    PROVE  /\ First(n, s) \in Seq(S)
           /\ n \in Nat => Rest(n, s) \in Seq(S)
<1>1. First(n, s) \in Seq(S)
  <2>1. CASE n < 0
    BY <2>1 DEF First
  <2>2. CASE n >= 0
    BY <2>2, SubSeqProperties DEF First
  <2> QED
    BY <2>1, <2>2
<1>2. ASSUME n \in Nat PROVE Rest(n, s) \in Seq(S)
  <2>1. CASE n <= Len(s)
    BY <1>2, <2>1, SubSeqProperties DEF Rest
  <2>2. CASE n > Len(s)
    BY <1>2, <2>2 DEF Rest
  <2> QED
    BY <1>2, <2>1, <2>2
<1> QED
  BY <1>1, <1>2

\* The pump moves bytes and makes none.
LEMMA Pump ==
    ASSUME NEW S, NEW s, NEW f, NEW g, service_queues(s, f, g),
           f = [to |-> f.to, from |-> f.from],
           f.to \in Seq(S), f.from \in Seq(S), g.to \in Seq(S), g.from \in Seq(S)
    PROVE  /\ front' = [to |-> front'.to, from |-> front'.from]
           /\ {front'.to, front'.from, guest'.to, guest'.from} \subseteq Seq(S)
<1> DEFINE output == Transferred(g.from, f.from, TxCapacity)
           input  == Transferred(f.to, g.to, RxCapacity)
<1>1. output \in Seq(S) /\ input \in Seq(S)
  <2>1. TxCapacity - Len(f.from) \in Int /\ RxCapacity - Len(g.to) \in Int
    BY SerialPathAssumption, SMTT(60)
  <2> QED
    BY <2>1, Parts, Zenon DEF Transferred
<1>2. \/ front' = f /\ guest' = g
      \/ /\ front' = [to |-> Rest(Len(input), f.to), from |-> f.from \o output]
         /\ guest' = [to |-> g.to \o input, from |-> Rest(Len(output), g.from)]
  BY ZenonT(60) DEF service_queues
<1> HIDE DEF output, input
<1>3. Rest(Len(input), f.to) \in Seq(S) /\ Rest(Len(output), g.from) \in Seq(S)
  <2>1. /\ Len(input) \in Nat /\ Len(output) \in Nat
        /\ Len(input) \in Int /\ Len(output) \in Int
    BY <1>1
  <2> QED
    BY <2>1, Parts, Zenon
<1>4. f.from \o output \in Seq(S) /\ g.to \o input \in Seq(S)
  BY <1>1, ConcatProperties
<1>5. CASE front' = f /\ guest' = g
  BY <1>5
<1>6. CASE /\ front' = [to |-> Rest(Len(input), f.to), from |-> f.from \o output]
           /\ guest' = [to |-> g.to \o input, from |-> Rest(Len(output), g.from)]
  BY <1>3, <1>4, <1>6
<1> QED
  BY <1>2, <1>5, <1>6, Zenon

\* So does the VMM's endpoint.
LEMMA Endpoint ==
    ASSUME NEW S, NEW d, NEW running, NEW changed,
           aos_serial_endpoint_step(d, running, changed), Shape,
           {guest.to, guest.from, vmm.input, vmm.output, d.rx, d.tx} \subseteq Seq(S)
    PROVE  /\ {guest'.to, guest'.from, vmm'.input, vmm'.output, dev'.rx, dev'.tx} \subseteq Seq(S)
           /\ vmm'.phase = vmm.phase
           /\ vmm' = [phase |-> vmm'.phase, running |-> vmm'.running, failed |-> vmm'.failed,
                      input |-> vmm'.input, output |-> vmm'.output]
<1> DEFINE output == IF vmm.output = <<>> THEN First(Chunk, d.tx) ELSE vmm.output
           tx == IF vmm.output = <<>> THEN Rest(Chunk, d.tx) ELSE d.tx
           reads == running /\ vmm.input = <<>>
           input == IF reads THEN First(Chunk, guest.to) ELSE vmm.input
           unread == IF reads THEN Rest(Chunk, guest.to) ELSE guest.to
           sent == guest.from \o output
<1>1. Chunk \in Nat /\ Chunk \in Int
  BY SerialPathAssumption
<1>2. /\ First(Chunk, d.tx) \in Seq(S) /\ Rest(Chunk, d.tx) \in Seq(S)
      /\ First(Chunk, guest.to) \in Seq(S) /\ Rest(Chunk, guest.to) \in Seq(S)
  BY <1>1, Parts, Zenon
<1>3. /\ output \in Seq(S) /\ tx \in Seq(S) /\ input \in Seq(S) /\ unread \in Seq(S)
      /\ <<>> \in Seq(S)
  BY <1>2
<1>4. sent \in Seq(S)
  BY <1>3, ConcatProperties
<1>5. /\ guest'.to = unread /\ guest'.from \in {sent, guest.from}
      /\ vmm'.output \in {<<>>, output} /\ vmm'.input \in {<<>>, input}
      /\ dev'.rx \in {input, d.rx} /\ dev'.tx = tx
      /\ vmm'.phase = vmm.phase
      /\ vmm' = [phase |-> vmm'.phase, running |-> vmm'.running, failed |-> vmm'.failed,
                 input |-> vmm'.input, output |-> vmm'.output]
  BY ZenonT(60) DEF aos_serial_endpoint_step, Shape
<1> HIDE DEF output, tx, reads, input, unread, sent
<1> QED
  BY <1>3, <1>4, <1>5, ZenonT(60)

-----------------------------------------------------------------------------
\* Everything starts empty.
LEMMA SerialInit == Init => SerialIInv
BY DEF Init, SerialIInv, Shape, AllCurrent, Bytes, Quiet, Empty, NoOp

\* A cleared channel holds nothing of any generation.
LEMMA EmptyBytes ==
    ASSUME NEW S
    PROVE  /\ Empty = [to |-> Empty.to, from |-> Empty.from]
           /\ Empty.to \in Seq(S) /\ Empty.from \in Seq(S)
BY DEF Empty

\* serial_virt's handlers.
LEMMA SerialVirtStep ==
    ASSUME SerialIInv,
           \/ \E role \in {"guest_attached", "frontend_attached"} : aos_serial_virt_attach(role)
           \/ serial_virt_notified \/ aos_serial_virt_detach
           \/ rebind_queue \/ aos_serial_virt_rebind_commit
    PROVE  SerialIInv'
<1> USE DEF SerialIInv, Shape, AllCurrent, Bytes, Quiet
<1>1. ASSUME NEW role \in {"guest_attached", "frontend_attached"}, aos_serial_virt_attach(role)
      PROVE  SerialIInv'
  <2>1. /\ front' = [to |-> front'.to, from |-> front'.from]
        /\ {front'.to, front'.from, guest'.to, guest'.from} \subseteq Bytes
    BY <1>1, Pump, ZenonT(60) DEF aos_serial_virt_attach
  <2>2. sv'.generation = sv.generation
    BY <1>1, Zenon DEF aos_serial_virt_attach
  <2> QED
    BY <1>1, <2>1, <2>2, ZenonT(60) DEF aos_serial_virt_attach
<1>2. CASE serial_virt_notified
  <2>1. /\ front' = [to |-> front'.to, from |-> front'.from]
        /\ {front'.to, front'.from, guest'.to, guest'.from} \subseteq Bytes
    BY <1>2, Pump, Zenon DEF serial_virt_notified
  <2> QED
    BY <1>2, <2>1 DEF serial_virt_notified
<1>3. CASE aos_serial_virt_detach
  <2>1. CASE "BUSY" \in gate
    BY <1>3, <2>1 DEF aos_serial_virt_detach, Closed
  <2>2. CASE "BUSY" \notin gate
    <3>1. /\ front' = [to |-> front'.to, from |-> front'.from]
          /\ {front'.to, front'.from, guest'.to, guest'.from} \subseteq Bytes
      <4>1. service_queues(sv', front, Empty)
        BY <1>3, <2>2 DEF aos_serial_virt_detach
      <4> QED
        BY <4>1, EmptyBytes, Pump
    <3>2. sv' = [sv EXCEPT !.guest_attached = FALSE, !.guest_retired = TRUE]
      BY <1>3, <2>2 DEF aos_serial_virt_detach
    <3>3. vmm' = [vmm EXCEPT !.phase = "dead", !.input = <<>>, !.output = <<>>]
      BY <1>3, <2>2 DEF aos_serial_virt_detach
    <3>4. Shape' /\ Quiet'
      BY <1>3, <2>2, <3>1, <3>2, <3>3, ZenonT(60) DEF aos_serial_virt_detach
    <3>5. vmm'.input = <<>> /\ vmm'.output = <<>> /\ sv'.generation = sv.generation /\ dev' = dev
      BY <1>3, <3>2, <3>3 DEF aos_serial_virt_detach
    <3>6. AllCurrent'
      BY <3>1, <3>5
    <3> QED
      BY <3>4, <3>6
  <2> QED
    BY <2>1, <2>2, Zenon
<1>4. CASE rebind_queue
  BY <1>4, Zenon DEF rebind_queue, aos_serial_virt_rebind_validate
<1>5. CASE aos_serial_virt_rebind_commit
  <2>1. /\ front' = [to |-> front'.to, from |-> front'.from]
        /\ {front'.to, front'.from, guest'.to, guest'.from} \subseteq Seq({sv'.generation})
    <3>1. service_queues(sv', Empty, Empty)
      BY <1>5 DEF aos_serial_virt_rebind_commit, ResetFrontend
    <3> QED
      BY <3>1, EmptyBytes, Pump
  <2>2. vmm.input = <<>> /\ vmm.output = <<>> /\ cc.op = "none"
    BY <1>5 DEF aos_serial_virt_rebind_commit
  <2>3. Shape' /\ Quiet'
    BY <1>5, <2>1, <2>2, Zenon DEF aos_serial_virt_rebind_commit
  <2>4. vmm'.input = <<>> /\ vmm'.output = <<>> /\ dev'.rx = <<>> /\ dev'.tx = <<>>
    BY <1>5, <2>2 DEF aos_serial_virt_rebind_commit
  <2>5. AllCurrent'
    BY <2>1, <2>4
  <2> QED
    BY <2>3, <2>5
<1> QED
  BY <1>1, <1>2, <1>3, <1>4, <1>5, Zenon

\* The console's frontend operations.
LEMMA ConsoleStep ==
    ASSUME SerialIInv,
           \/ \E op \in {"write", "read"} : aos_serial_frontend_begin(op)
           \/ cc_queue \/ aos_serial_frontend_end
    PROVE  SerialIInv'
<1> USE DEF SerialIInv, Shape, AllCurrent, Bytes, Quiet
<1>1. ASSUME NEW op \in {"write", "read"}, aos_serial_frontend_begin(op) PROVE SerialIInv'
  BY <1>1 DEF aos_serial_frontend_begin, Admits
<1>2. CASE cc_queue
  <2>1. CASE cc.op = "write"
    <3>1. Append(front.to, cc.gen) \in Bytes
      BY <1>2, <2>1, AppendProperties DEF cc_queue
    <3> QED
      BY <1>2, <2>1, <3>1, ZenonT(60) DEF cc_queue
  <2>2. CASE cc.op # "write"
    <3>1. PICK n \in 0 .. Len(front.from) :
             /\ front' = [front EXCEPT !.from = Rest(n, @)]
             /\ cc' = [cc EXCEPT !.op = "end", !.moved = n > 0]
      BY <1>2, <2>2, Zenon DEF cc_queue
    <3>2. Rest(n, front.from) \in Bytes
      BY Parts
    <3> QED
      BY <1>2, <2>2, <3>1, <3>2, ZenonT(60) DEF cc_queue
  <2> QED
    BY <2>1, <2>2, Zenon
<1>3. CASE aos_serial_frontend_end
  BY <1>3 DEF aos_serial_frontend_end, NoOp
<1> QED
  BY <1>1, <1>2, <1>3, Zenon

\* The VMM.
LEMMA VmmStep ==
    ASSUME SerialIInv,
           \/ guest_vmm_notified
           \/ \E print \in 0 .. 2 : guest_vmm_fault(print)
           \/ \E running \in BOOLEAN : guest_vmm_rpc(running)
           \/ guest_vmm_teardown
           \/ \E success \in BOOLEAN : reset_publish(success)
    PROVE  SerialIInv'
<1> USE DEF SerialIInv, AllCurrent, Bytes, Quiet
<1>1. ASSUME NEW d, NEW running, NEW changed, aos_serial_endpoint_step(d, running, changed),
             d.rx \in Bytes, d.tx \in Bytes, vmm.phase \in {"live", "destroying"},
             UNCHANGED <<gate, front, sv, cc>>
      PROVE  SerialIInv'
  <2>1. /\ {guest'.to, guest'.from, vmm'.input, vmm'.output, dev'.rx, dev'.tx} \subseteq Bytes
        /\ vmm'.phase = vmm.phase
        /\ vmm' = [phase |-> vmm'.phase, running |-> vmm'.running, failed |-> vmm'.failed,
                   input |-> vmm'.input, output |-> vmm'.output]
    BY <1>1, Endpoint, Zenon
  <2> QED
    BY <1>1, <2>1, Zenon DEF Shape
<1>2. CASE guest_vmm_notified
  <2>1. CASE serial_attached
    BY <1>1, <1>2, <2>1, ZenonT(60) DEF guest_vmm_notified, serial_attached
  <2>2. CASE ~serial_attached
    BY <1>2, <2>2 DEF guest_vmm_notified, Shape
  <2> QED
    BY <2>1, <2>2
<1>3. ASSUME NEW print \in 0 .. 2, guest_vmm_fault(print) PROVE SerialIInv'
  <2> DEFINE printout == [i \in 1 .. print |-> sv.generation]
             d == [rx |-> <<>>, tx |-> dev.tx \o printout]
  <2>1. printout \in Bytes
    OBVIOUS
  <2>2. dev.tx \o printout \in Bytes
    BY <2>1, ConcatProperties
  <2>3. d.rx \in Bytes /\ d.tx \in Bytes
    BY <2>2
  <2>4. /\ aos_serial_endpoint_step(d, TRUE, FALSE) /\ vmm.phase = "live"
        /\ UNCHANGED <<gate, front, sv, cc>>
    BY <1>3, ZenonT(60) DEF guest_vmm_fault
  <2> HIDE DEF d
  <2> QED
    BY <1>1, <2>3, <2>4, ZenonT(60)
<1>4. ASSUME NEW running \in BOOLEAN, guest_vmm_rpc(running) PROVE SerialIInv'
  BY <1>1, <1>4, Zenon DEF guest_vmm_rpc, ServicedAfterRpc
<1>5. CASE guest_vmm_teardown
  BY <1>5, Zenon DEF guest_vmm_teardown, Shape
<1>6. ASSUME NEW success \in BOOLEAN, reset_publish(success) PROVE SerialIInv'
  BY <1>6, Zenon DEF reset_publish, Shape
<1> QED
  BY <1>2, <1>3, <1>4, <1>5, <1>6, Zenon

\* The invariant is inductive.
LEMMA SerialNext == SerialIInv /\ [Next]_vars => SerialIInv'
<1> SUFFICES ASSUME SerialIInv, [Next]_vars PROVE SerialIInv'
  OBVIOUS
<1>1. CASE Next
  BY <1>1, SerialVirtStep, ConsoleStep, VmmStep DEF Next
<1>2. CASE UNCHANGED vars
  BY <1>2 DEF vars, SerialIInv, Shape, AllCurrent, Bytes, Quiet
<1> QED
  BY <1>1, <1>2

\* No byte typed for, or printed by, a destroyed guest reaches its successor or
\* its console, whatever the sizes of queues and chunks and however often the
\* guest is rebuilt (serial-virt/service.c).
THEOREM NoByteOutlivesItsGuestHolds == Spec => []NoByteOutlivesItsGuest
<1>1. SerialIInv => NoByteOutlivesItsGuest
  BY SMTT(60) DEF SerialIInv, AllCurrent, Bytes, NoByteOutlivesItsGuest
<1> QED
  BY SerialInit, SerialNext, <1>1, PTL DEF Spec

=============================================================================

------------------------------ MODULE NetRing ------------------------------
(***************************************************************************)
(* A pair of shared rings of network descriptors, slot by slot: the queue  *)
(* operations of platform/net-virt/net_virt_pump.c in net_virt and of      *)
(* sDDF's queue.h in the VMM.  Each is three steps: read the indices,      *)
(* touch the slot, publish the index.  Indices are unsigned words that     *)
(* overflow at Modulus (2^16 in the code).                                 *)
(*                                                                         *)
(* The active ring goes from Source to Sink and the free ring back: TX has *)
(* the VMM as Source, RX net_virt.  On RX, net_virt also puts a buffer it  *)
(* reserved for nothing back on the free ring it took it from.             *)
(***************************************************************************)
EXTENDS Naturals, Sequences, FiniteSets

CONSTANTS
    Capacity,   \* slots of a ring and buffers of the pair (AOS_NET_CAPACITY)
    Modulus,    \* indices wrap here
    Source,     \* the PD that fills the active ring
    GivesBack   \* Source also returns buffers to the free ring

PDs == {"vmm", "net_virt"}

ASSUME NetRingAssumption ==
    /\ Capacity \in Nat \ {0} /\ Modulus \in Nat
    /\ Modulus > Capacity /\ Modulus % Capacity = 0
    /\ Source \in PDs /\ GivesBack \in BOOLEAN

Sink == CHOOSE p \in PDs : p # Source
Rings == {"active", "free"}
Buffers == 0..(Capacity - 1)

Producers(r) ==
    IF r = "active" THEN {Source}
    ELSE IF GivesBack THEN {Source, Sink} ELSE {Sink}

Consumer(r) == IF r = "active" THEN Sink ELSE Source

VARIABLES
    ring,       \* head, tail and slots of both rings
    own,        \* the buffers a PD holds
    pd          \* a PD's progress in its one queue operation

vars == <<ring, own, pd>>

Idle == [pc |-> "idle", ring |-> "free", index |-> 0, buf |-> 0]

\* aos_net_client_init_buffers: zeroed queues, every buffer free.
Init ==
    /\ ring = [r \in Rings |->
                 [head |-> 0, tail |-> IF r = "free" THEN Capacity ELSE 0,
                  slots |-> [i \in Buffers |-> IF r = "free" THEN i ELSE 0]]]
    /\ own = [p \in PDs |-> {}]
    /\ pd = [p \in PDs |-> Idle]

\* A mutation: indices compared as if they never overflowed.
Length_NoWrap(q) == IF q.tail >= q.head THEN q.tail - q.head ELSE 0

\* tail - head, and an increment, in the width of the index.
Length(q) == (q.tail + Modulus - q.head) % Modulus

Next16(i) == (i + 1) % Modulus

-----------------------------------------------------------------------------
\* A full ring refuses the buffer and its producer keeps it.
EnqueueRead(p, r) ==
    /\ pd[p].pc = "idle" /\ p \in Producers(r)
    /\ Length(ring[r]) < Capacity
    /\ \E b \in own[p] :
          pd' = [pd EXCEPT ![p] = [pc |-> "write", ring |-> r,
                                   index |-> ring[r].tail, buf |-> b]]
    /\ UNCHANGED <<ring, own>>

EnqueueWrite(p, r) ==
    /\ pd[p].pc = "write" /\ pd[p].ring = r
    /\ ring' = [ring EXCEPT ![r].slots[pd[p].index % Capacity] = pd[p].buf]
    /\ pd' = [pd EXCEPT ![p].pc = "publish"]
    /\ UNCHANGED own

\* net_virt stores the index it read plus one; sDDF increments the word.
EnqueuePublish(p, r) ==
    /\ pd[p].pc = "publish" /\ pd[p].ring = r
    /\ ring' = [ring EXCEPT ![r].tail =
                   Next16(IF p = "net_virt" THEN pd[p].index ELSE @)]
    /\ own' = [own EXCEPT ![p] = @ \ {pd[p].buf}]
    /\ pd' = [pd EXCEPT ![p] = Idle]

\* A mutation: the ring is read without asking whether it is empty.
DequeueRead_Unchecked(p, r) ==
    /\ pd[p].pc = "idle" /\ p = Consumer(r)
    /\ pd' = [pd EXCEPT ![p] = [pc |-> "read", ring |-> r,
                                index |-> ring[r].head, buf |-> 0]]
    /\ UNCHANGED <<ring, own>>

\* net_virt also refuses a ring whose indices are further apart than Capacity.
DequeueRead(p, r) ==
    /\ pd[p].pc = "idle" /\ p = Consumer(r)
    /\ Length(ring[r]) > 0
    /\ p = "net_virt" => Length(ring[r]) <= Capacity
    /\ pd' = [pd EXCEPT ![p] = [pc |-> "read", ring |-> r,
                                index |-> ring[r].head, buf |-> 0]]
    /\ UNCHANGED <<ring, own>>

DequeueSlot(p, r) ==
    /\ pd[p].pc = "read" /\ pd[p].ring = r
    /\ pd' = [pd EXCEPT ![p].pc = "release",
                        ![p].buf = ring[r].slots[pd[p].index % Capacity]]
    /\ UNCHANGED <<ring, own>>

DequeueRelease(p, r) ==
    /\ pd[p].pc = "release" /\ pd[p].ring = r
    /\ ring' = [ring EXCEPT ![r].head = Next16(pd[p].index)]
    /\ own' = [own EXCEPT ![p] = @ \union {pd[p].buf}]
    /\ pd' = [pd EXCEPT ![p] = Idle]

Step(p, r) ==
    \/ EnqueueRead(p, r) \/ EnqueueWrite(p, r) \/ EnqueuePublish(p, r)
    \/ DequeueRead(p, r) \/ DequeueSlot(p, r) \/ DequeueRelease(p, r)

Next == \E p \in PDs, r \in Rings : Step(p, r)

Spec == Init /\ [][Next]_vars

-----------------------------------------------------------------------------
\* The published buffers of a ring, oldest first.
Fifo(r) ==
    [i \in 1..Length(ring[r]) |->
        ring[r].slots[(ring[r].head + i - 1) % Capacity]]

\* "single-producer single-consumer FIFO queues ... only the producer needs to
\* modify the tail" (sddf/docs/network/network.md): every buffer is in one
\* place, once in one queue or with the one PD that owns it.
EachBufferInOnePlace ==
    \A b \in Buffers :
        Cardinality({x \in Rings \X (1..Modulus) :
                       x[2] \in DOMAIN Fifo(x[1]) /\ Fifo(x[1])[x[2]] = b})
        + Cardinality({p \in PDs : b \in own[p]}) = 1

\* Each ring is a FIFO: a buffer is enqueued when tail is published and dequeued
\* when head is, in order, however the steps of the two sides interleave and
\* wherever the indices overflow.
Queues == INSTANCE NetFifo WITH fifo <- [r \in Rings |-> Fifo(r)]

ImplementsFifo == Queues!Spec
=============================================================================

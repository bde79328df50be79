------------------------------ MODULE NetFifo ------------------------------
(***************************************************************************)
(* What a pair of sDDF network rings promises the two components that      *)
(* share it: two bounded first-in first-out queues of buffers, active and  *)
(* free.  A buffer is in one of the queues or belongs to one component;    *)
(* enqueue and dequeue are single steps.                                   *)
(***************************************************************************)
EXTENDS Naturals, Sequences

CONSTANTS Capacity, Source, Sink   \* Source fills active, Sink empties it

VARIABLES fifo, own

Producer(r) == IF r = "active" THEN Source ELSE Sink
Consumer(r) == IF r = "active" THEN Sink ELSE Source

Enqueue(r) ==
    /\ Len(fifo[r]) < Capacity
    /\ \E b \in own[Producer(r)] :
          /\ fifo' = [fifo EXCEPT ![r] = Append(@, b)]
          /\ own' = [own EXCEPT ![Producer(r)] = @ \ {b}]

Dequeue(r) ==
    /\ fifo[r] # <<>>
    /\ fifo' = [fifo EXCEPT ![r] = Tail(@)]
    /\ own' = [own EXCEPT ![Consumer(r)] = @ \union {Head(fifo[r])}]

Spec ==
    /\ fifo.active = <<>> /\ own = [p \in {Source, Sink} |-> {}]
    /\ [][\E r \in {"active", "free"} : Enqueue(r) \/ Dequeue(r)]_<<fifo, own>>
=============================================================================

--------------------------- MODULE NetRingProofs ----------------------------
(***************************************************************************)
(* The shared rings slot by slot, for every capacity and every index width *)
(* that the capacity divides, when each ring has one producer: every       *)
(* buffer is in one place, and the rings implement NetFifo.                *)
(***************************************************************************)
EXTENDS NetRing, FiniteSetTheorems, SequenceTheorems, TLAPS

Producer(r) == IF r = "active" THEN Source ELSE Sink

\* What the i-th slot from the head holds, counted from 0.
At(q, i) == q.slots[(q.head + i) % Capacity]

RingOK(q) ==
    /\ q = [head |-> q.head, tail |-> q.tail, slots |-> q.slots]
    /\ q.head \in 0 .. Modulus - 1 /\ q.tail \in 0 .. Modulus - 1
    /\ q.slots \in [Buffers -> Buffers]

PdShape(p) ==
    pd[p] = [pc |-> pd[p].pc, ring |-> pd[p].ring, index |-> pd[p].index, buf |-> pd[p].buf]

Types ==
    /\ ring = [r \in Rings |-> ring[r]] /\ \A r \in Rings : RingOK(ring[r])
    /\ own \in [PDs -> SUBSET Buffers]
    /\ pd = [p \in PDs |-> pd[p]] /\ \A p \in PDs : PdShape(p)

\* What a PD that is between the steps of an operation on r still relies on: the
\* index it read is the one in the ring, and there is room, or a buffer.
Enqueuing(p, r) ==
    /\ p = Producer(r) /\ pd[p].index = ring[r].tail /\ pd[p].buf \in own[p]
    /\ Length(ring[r]) < Capacity
    /\ pd[p].pc = "publish" => ring[r].slots[pd[p].index % Capacity] = pd[p].buf

Dequeuing(p, r) ==
    /\ p = Consumer(r) /\ pd[p].index = ring[r].head
    /\ Length(ring[r]) > 0
    /\ pd[p].pc = "release" => pd[p].buf = ring[r].slots[pd[p].index % Capacity]

PdInv(p) ==
    /\ pd[p].pc \in {"idle", "write", "publish", "read", "release"} /\ pd[p].ring \in Rings
    /\ pd[p].pc \in {"write", "publish"} => Enqueuing(p, pd[p].ring)
    /\ pd[p].pc \in {"read", "release"} => Dequeuing(p, pd[p].ring)

\* b is the i-th published buffer of ring r.
Queued(b, r, i) == i \in 0 .. Length(ring[r]) - 1 /\ At(ring[r], i) = b

\* Nothing is in two places, and nothing is lost.
Once ==
    /\ \A b \in Buffers, r, q \in Rings, i, j \in Nat :
          Queued(b, r, i) /\ Queued(b, q, j) => r = q /\ i = j
    /\ \A b \in Buffers, r \in Rings, i \in Nat : Queued(b, r, i) => \A p \in PDs : b \notin own[p]
    /\ \A b \in Buffers : \A p, o \in PDs : b \in own[p] /\ b \in own[o] => p = o

Somewhere ==
    \A b \in Buffers : \/ \E p \in PDs : b \in own[p]
                       \/ \E r \in Rings : \E i \in Nat : Queued(b, r, i)

\* The inductive invariant.  EachBufferInOnePlace says nothing of a PD halfway
\* through an operation, whose next step may publish or release a slot.
RingIInv ==
    /\ Types
    /\ \A r \in Rings : Length(ring[r]) <= Capacity
    /\ \A p \in PDs : PdInv(p)
    /\ Once /\ Somewhere

-----------------------------------------------------------------------------
(* Arithmetic of wrapping indices.                                           *)

\* Division with remainder.
LEMMA ModSplit ==
    ASSUME NEW C \in Nat \ {0}, NEW x \in Nat
    PROVE  \E q \in Nat, r \in 0 .. C - 1 : x = C * q + r /\ x % C = r
<1>1. x % C \in 0 .. C - 1
  OBVIOUS
<1>2. x % C = x - C * (x \div C) /\ x \div C \in Int
  OBVIOUS
<1>3. x \div C >= 0
  OBVIOUS
<1> QED
  BY <1>1, <1>2, <1>3

\* Remainders are unique.
LEMMA ModOf ==
    ASSUME NEW C \in Nat \ {0}, NEW q \in Nat, NEW r \in 0 .. C - 1
    PROVE  (C * q + r) % C = r
OBVIOUS

\* A multiple of C does not change the remainder.
LEMMA ModShift ==
    ASSUME NEW C \in Nat \ {0}, NEW x \in Nat, NEW k \in Nat
    PROVE  (x + C * k) % C = x % C
<1>1. PICK q \in Nat, r \in 0 .. C - 1 : x = C * q + r /\ x % C = r
  BY ModSplit
<1>2. q + k \in Nat /\ x + C * k = C * (q + k) + r
  BY <1>1
<1> QED
  BY <1>1, <1>2, ModOf

\* A positive multiple of C is at least C.
LEMMA Multiple ==
    ASSUME NEW C \in Nat \ {0}, NEW a \in Int, a >= 1
    PROVE  C * a >= C
OBVIOUS

\* Numbers less than C apart have different remainders.
LEMMA ModDistinct ==
    ASSUME NEW C \in Nat \ {0}, NEW x \in Nat, NEW y \in Nat, x % C = y % C, y <= x, x - y < C
    PROVE  x = y
<1>1. PICK q \in Nat, r \in 0 .. C - 1 : x = C * q + r /\ x % C = r
  BY ModSplit, Zenon
<1>2. PICK p \in Nat, s \in 0 .. C - 1 : y = C * p + s /\ y % C = s
  BY ModSplit, Zenon
<1>3. ~(q - p >= 1)
  <2>1. x - y = C * (q - p)
    BY <1>1, <1>2
  <2> QED
    BY <2>1, Multiple
<1>4. ~(p - q >= 1)
  <2>1. y - x = C * (p - q)
    BY <1>1, <1>2
  <2> QED
    BY <2>1, Multiple
<1> QED
  BY <1>1, <1>2, <1>3, <1>4

\* The index width is a multiple of the capacity, so that an index that wraps
\* around still names the slot it would have named.
LEMMA WrapKeepsSlot ==
    ASSUME NEW x \in Nat
    PROVE  (x + Modulus) % Capacity = x % Capacity
<1>1. Capacity \in Nat \ {0} /\ Modulus \in Nat /\ Modulus % Capacity = 0
  BY NetRingAssumption
<1>2. PICK q \in Nat, r \in 0 .. Capacity - 1 : Modulus = Capacity * q + r /\ Modulus % Capacity = r
  BY <1>1, ModSplit
<1>3. Modulus = Capacity * q
  BY <1>1, <1>2
<1> QED
  BY <1>1, <1>3, ModShift, Zenon

\* An index names a slot.
LEMMA SlotType ==
    ASSUME NEW x \in Nat
    PROVE  x % Capacity \in Buffers
BY NetRingAssumption DEF Buffers

\* An increment without the remainder operator.
LEMMA NextIs ==
    ASSUME NEW x \in 0 .. Modulus - 1
    PROVE  /\ Next16(x) = IF x = Modulus - 1 THEN 0 ELSE x + 1
           /\ Next16(x) \in 0 .. Modulus - 1
<1>1. Modulus \in Nat \ {0}
  BY NetRingAssumption
<1>2. CASE x = Modulus - 1
  <2>1. (Modulus * 1 + 0) % Modulus = 0
    BY <1>1, ModOf
  <2> QED
    BY <1>1, <1>2, <2>1 DEF Next16
<1>3. CASE x # Modulus - 1
  <2>1. (Modulus * 0 + (x + 1)) % Modulus = x + 1
    BY <1>1, <1>3, ModOf
  <2> QED
    BY <1>1, <1>3, <2>1 DEF Next16
<1> QED
  BY <1>2, <1>3

\* The distance of two indices without the remainder operator.
LEMMA LengthIs ==
    ASSUME NEW q, q.head \in 0 .. Modulus - 1, q.tail \in 0 .. Modulus - 1
    PROVE  /\ Length(q) = IF q.tail >= q.head THEN q.tail - q.head
                                             ELSE q.tail + Modulus - q.head
           /\ Length(q) \in 0 .. Modulus - 1
<1>1. Modulus \in Nat \ {0}
  BY NetRingAssumption
<1>2. CASE q.tail >= q.head
  <2>1. (Modulus * 1 + (q.tail - q.head)) % Modulus = q.tail - q.head
    BY <1>1, <1>2, ModOf
  <2>2. q.tail + Modulus - q.head = Modulus * 1 + (q.tail - q.head)
    BY <1>1
  <2> QED
    BY <1>1, <1>2, <2>1, <2>2 DEF Length
<1>3. CASE ~(q.tail >= q.head)
  <2>1. (Modulus * 0 + (q.tail + Modulus - q.head)) % Modulus = q.tail + Modulus - q.head
    BY <1>1, <1>3, ModOf
  <2>2. q.tail + Modulus - q.head = Modulus * 0 + (q.tail + Modulus - q.head)
    BY <1>1
  <2> QED
    BY <1>1, <1>3, <2>1, <2>2 DEF Length
<1> QED
  BY <1>2, <1>3

\* The slot after the last published one is the one tail names.
LEMMA TailSlot ==
    ASSUME NEW q, q.head \in 0 .. Modulus - 1, q.tail \in 0 .. Modulus - 1
    PROVE  (q.head + Length(q)) % Capacity = q.tail % Capacity
<1>1. Modulus \in Nat
  BY NetRingAssumption
<1>2. CASE q.tail >= q.head
  BY <1>1, <1>2, LengthIs
<1>3. CASE ~(q.tail >= q.head)
  <2>1. q.head + Length(q) = q.tail + Modulus
    BY <1>1, <1>3, LengthIs
  <2> QED
    BY <2>1, WrapKeepsSlot
<1> QED
  BY <1>2, <1>3

-----------------------------------------------------------------------------
(* What the three stores of the queue operations do to a ring.               *)

\* Writing the slot at tail changes no published buffer.
LEMMA WriteRing ==
    ASSUME NEW q, RingOK(q), Length(q) < Capacity, NEW b \in Buffers, NEW new,
           new = [q EXCEPT !.slots[q.tail % Capacity] = b]
    PROVE  /\ RingOK(new) /\ new.head = q.head /\ new.tail = q.tail
           /\ Length(new) = Length(q)
           /\ \A i \in 0 .. Length(q) - 1 : At(new, i) = At(q, i)
           /\ new.slots[q.tail % Capacity] = b
<1>0. /\ q = [head |-> q.head, tail |-> q.tail, slots |-> q.slots]
      /\ q.head \in 0 .. Modulus - 1 /\ q.tail \in 0 .. Modulus - 1
      /\ q.slots \in [Buffers -> Buffers]
      /\ Modulus \in Nat /\ Capacity \in Nat \ {0}
  BY NetRingAssumption DEF RingOK
<1>1. new = [head |-> q.head, tail |-> q.tail, slots |-> [q.slots EXCEPT ![q.tail % Capacity] = b]]
  BY <1>0
<1>2. /\ new.head = q.head /\ new.tail = q.tail
      /\ new.slots = [q.slots EXCEPT ![q.tail % Capacity] = b]
      /\ new = [head |-> new.head, tail |-> new.tail, slots |-> new.slots]
  BY <1>1, Zenon
<1>3. q.tail % Capacity \in Buffers
  BY <1>0, SlotType
<1>4. new.slots \in [Buffers -> Buffers] /\ new.slots[q.tail % Capacity] = b
  BY <1>0, <1>2, <1>3
<1>5. Length(new) = Length(q)
  BY <1>2, Zenon DEF Length
<1>6. ASSUME NEW i \in 0 .. Length(q) - 1 PROVE At(new, i) = At(q, i)
  <2>1. Length(q) \in 0 .. Modulus - 1
    BY <1>0, LengthIs
  <2>2. q.head + i \in Nat /\ q.head + Length(q) \in Nat
    BY <1>0, <2>1
  <2>3. q.head + i # q.head + Length(q) /\ q.head + i <= q.head + Length(q)
        /\ (q.head + Length(q)) - (q.head + i) < Capacity
    BY <1>0, <2>1
  <2>4. (q.head + i) % Capacity # (q.head + Length(q)) % Capacity
    BY <1>0, <2>2, <2>3, ModDistinct
  <2>5. (q.head + i) % Capacity # q.tail % Capacity /\ (q.head + i) % Capacity \in Buffers
    BY <1>0, <2>2, <2>4, TailSlot, SlotType
  <2> QED
    BY <1>0, <1>2, <2>5, Zenon DEF At
<1> QED
  BY <1>0, <1>2, <1>4, <1>5, <1>6 DEF RingOK

\* Publishing tail appends the slot it named.
LEMMA PublishRing ==
    ASSUME NEW q, RingOK(q), Length(q) < Capacity, NEW new,
           new = [q EXCEPT !.tail = Next16(q.tail)]
    PROVE  /\ RingOK(new) /\ new.head = q.head /\ new.slots = q.slots
           /\ Length(new) = Length(q) + 1
           /\ \A i \in Nat : At(new, i) = At(q, i)
           /\ At(new, Length(q)) = q.slots[q.tail % Capacity]
<1>0. /\ q = [head |-> q.head, tail |-> q.tail, slots |-> q.slots]
      /\ q.head \in 0 .. Modulus - 1 /\ q.tail \in 0 .. Modulus - 1
      /\ q.slots \in [Buffers -> Buffers]
      /\ Modulus \in Nat /\ Capacity \in Nat \ {0} /\ Capacity < Modulus
  BY NetRingAssumption DEF RingOK
<1>1. new = [head |-> q.head, tail |-> Next16(q.tail), slots |-> q.slots]
  BY <1>0
<1>2. /\ new.head = q.head /\ new.tail = Next16(q.tail) /\ new.slots = q.slots
      /\ new = [head |-> new.head, tail |-> new.tail, slots |-> new.slots]
  BY <1>1, Zenon
<1>3. /\ Next16(q.tail) = IF q.tail = Modulus - 1 THEN 0 ELSE q.tail + 1
      /\ Next16(q.tail) \in 0 .. Modulus - 1
  BY <1>0, NextIs
<1>4. RingOK(new)
  BY <1>0, <1>2, <1>3 DEF RingOK
<1>5. Length(q) = IF q.tail >= q.head THEN q.tail - q.head ELSE q.tail + Modulus - q.head
  BY <1>0, LengthIs
<1>6. Length(new) = IF new.tail >= new.head THEN new.tail - new.head
                                           ELSE new.tail + Modulus - new.head
  BY <1>4, LengthIs DEF RingOK
<1>7. Length(new) = Length(q) + 1
  BY <1>0, <1>2, <1>3, <1>5, <1>6
<1>8. \A i : At(new, i) = At(q, i)
  BY <1>2, Zenon DEF At
<1>9. At(q, Length(q)) = q.slots[q.tail % Capacity]
  BY <1>0, TailSlot, Zenon DEF At
<1> QED
  BY <1>2, <1>4, <1>7, <1>8, <1>9, Zenon

\* Moving head drops the oldest buffer and shifts the others.
LEMMA ReleaseRing ==
    ASSUME NEW q, RingOK(q), Length(q) > 0, NEW new,
           new = [q EXCEPT !.head = Next16(q.head)]
    PROVE  /\ RingOK(new) /\ new.tail = q.tail /\ new.slots = q.slots
           /\ Length(new) = Length(q) - 1
           /\ \A i \in Nat : At(new, i) = At(q, i + 1)
<1>0. /\ q = [head |-> q.head, tail |-> q.tail, slots |-> q.slots]
      /\ q.head \in 0 .. Modulus - 1 /\ q.tail \in 0 .. Modulus - 1
      /\ q.slots \in [Buffers -> Buffers]
      /\ Modulus \in Nat /\ Capacity \in Nat \ {0} /\ Capacity < Modulus
  BY NetRingAssumption DEF RingOK
<1>1. new = [head |-> Next16(q.head), tail |-> q.tail, slots |-> q.slots]
  BY <1>0
<1>2. /\ new.head = Next16(q.head) /\ new.tail = q.tail /\ new.slots = q.slots
      /\ new = [head |-> new.head, tail |-> new.tail, slots |-> new.slots]
  BY <1>1, Zenon
<1>3. /\ Next16(q.head) = IF q.head = Modulus - 1 THEN 0 ELSE q.head + 1
      /\ Next16(q.head) \in 0 .. Modulus - 1
  BY <1>0, NextIs
<1>4. RingOK(new)
  BY <1>0, <1>2, <1>3 DEF RingOK
<1>5. Length(q) = IF q.tail >= q.head THEN q.tail - q.head ELSE q.tail + Modulus - q.head
  BY <1>0, LengthIs
<1>6. Length(new) = IF new.tail >= new.head THEN new.tail - new.head
                                           ELSE new.tail + Modulus - new.head
  BY <1>4, LengthIs DEF RingOK
<1>7. Length(new) = Length(q) - 1
  BY <1>0, <1>2, <1>3, <1>5, <1>6
<1>8. ASSUME NEW i \in Nat PROVE At(new, i) = At(q, i + 1)
  <2>1. (new.head + i) % Capacity = (q.head + (i + 1)) % Capacity
    <3>1. CASE q.head = Modulus - 1
      <4>1. new.head + i = i /\ q.head + (i + 1) = i + Modulus
        BY <1>0, <1>2, <1>3, <3>1
      <4> QED
        BY <4>1, WrapKeepsSlot
    <3>2. CASE q.head # Modulus - 1
      <4>1. new.head + i = q.head + (i + 1)
        BY <1>0, <1>2, <1>3, <3>2
      <4> QED
        BY <4>1
    <3> QED
      BY <3>1, <3>2
  <2> QED
    BY <1>2, <2>1, Zenon DEF At
<1> QED
  BY <1>2, <1>4, <1>7, <1>8

\* The two ends of a ring belong to different PDs.
LEMMA TwoEnds ==
    /\ PDs = {Source, Sink} /\ Source # Sink /\ Source \in PDs /\ Sink \in PDs
    /\ \A r \in Rings : Producer(r) \in PDs /\ Consumer(r) \in PDs /\ Producer(r) # Consumer(r)
<1>1. \E p \in PDs : p # Source
  BY DEF PDs
<1>2. Sink \in PDs /\ Sink # Source
  BY <1>1, Zenon DEF Sink
<1>3. Source \in PDs
  BY NetRingAssumption
<1>4. PDs = {Source, Sink}
  BY <1>2, <1>3 DEF PDs
<1> QED
  BY <1>2, <1>3, <1>4 DEF Producer, Consumer, Rings

-----------------------------------------------------------------------------
(* Every step keeps the invariant.                                           *)

\* Zeroed queues and every buffer free.
LEMMA RingInit == Init => RingIInv
<1> SUFFICES ASSUME Init PROVE RingIInv
  OBVIOUS
<1>0. Capacity \in Nat \ {0} /\ Modulus \in Nat /\ Capacity < Modulus
  BY NetRingAssumption
<1>1. /\ ring["active"] = [head |-> 0, tail |-> 0, slots |-> [i \in Buffers |-> 0]]
      /\ ring["free"] = [head |-> 0, tail |-> Capacity, slots |-> [i \in Buffers |-> i]]
      /\ ring = [r \in Rings |-> ring[r]]
  BY DEF Init, Rings
<1>2. 0 \in Buffers
  BY <1>0 DEF Buffers
<1>3. RingOK(ring["active"]) /\ RingOK(ring["free"])
  BY <1>0, <1>1, <1>2 DEF RingOK
<1>4. Length(ring["active"]) = 0
  BY <1>0, <1>1, <1>3, LengthIs DEF RingOK
<1>5. Length(ring["free"]) = Capacity
  BY <1>0, <1>1, <1>3, LengthIs DEF RingOK
<1>6. \A p \in PDs : own[p] = {} /\ pd[p] = Idle
  BY DEF Init
<1>7. Types
  <2>1. pd = [p \in PDs |-> pd[p]] /\ own \in [PDs -> SUBSET Buffers]
    BY DEF Init
  <2>2. \A p \in PDs : PdShape(p)
    BY <1>6 DEF PdShape, Idle
  <2> QED
    BY <1>1, <1>3, <2>1, <2>2 DEF Types, Rings
<1>8. \A p \in PDs : PdInv(p)
  BY <1>6 DEF PdInv, Idle, Rings
<1>9. \A b, i : ~Queued(b, "active", i)
  BY <1>4 DEF Queued
<1>10. \A i \in Nat : i < Capacity => At(ring["free"], i) = i
  <2> SUFFICES ASSUME NEW i \in Nat, i < Capacity PROVE At(ring["free"], i) = i
    OBVIOUS
  <2>1. (Capacity * 0 + i) % Capacity = i
    BY <1>0, ModOf
  <2>2. (0 + i) % Capacity = i
    BY <1>0, <2>1
  <2>3. i \in Buffers
    BY <1>0 DEF Buffers
  <2> QED
    BY <1>1, <2>2, <2>3 DEF At
<1>11. \A b \in Buffers, i \in Nat : Queued(b, "free", i) <=> i = b
  BY <1>0, <1>5, <1>10 DEF Queued, Buffers
<1>12. Once
  BY <1>6, <1>9, <1>11 DEF Once, Rings
<1>13. Somewhere
  BY <1>0, <1>11 DEF Somewhere, Rings, Buffers
<1> QED
  BY <1>0, <1>4, <1>5, <1>7, <1>8, <1>12, <1>13 DEF RingIInv, Rings

\* A step that only moves the program counter of one PD.
LEMMA LocalStep ==
    ASSUME RingIInv, NEW p \in PDs, NEW v, pd' = [pd EXCEPT ![p] = v],
           v = [pc |-> v.pc, ring |-> v.ring, index |-> v.index, buf |-> v.buf],
           UNCHANGED <<ring, own>>, PdInv(p)'
    PROVE  RingIInv'
<1>1. Types'
  <2>1. pd' = [o \in PDs |-> pd'[o]] /\ \A o \in PDs : pd'[o] = IF o = p THEN v ELSE pd[o]
    BY DEF RingIInv, Types
  <2>2. \A o \in PDs : PdShape(o)'
    BY <2>1, Zenon DEF RingIInv, Types, PdShape
  <2> QED
    BY <2>1, <2>2, Zenon DEF RingIInv, Types, RingOK
<1>2. ASSUME NEW o \in PDs, o # p PROVE PdInv(o)'
  <2>1. pd'[o] = pd[o] /\ PdInv(o)
    BY <1>2 DEF RingIInv, Types
  <2> QED
    BY <2>1, Zenon DEF PdInv, Enqueuing, Dequeuing, Length
<1>3. Once' /\ Somewhere' /\ \A r \in Rings : Length(ring'[r]) <= Capacity
  <2>1. ring' = ring /\ own' = own
    OBVIOUS
  <2>2. \A b, r, i : Queued(b, r, i)' <=> Queued(b, r, i)
    BY <2>1, Zenon DEF Queued, At, Length
  <2>3. Once' /\ Somewhere'
    BY <2>1, <2>2 DEF RingIInv, Once, Somewhere
  <2> QED
    BY <2>1, <2>3, Zenon DEF RingIInv
<1> QED
  BY <1>1, <1>2, <1>3, Zenon DEF RingIInv

\* The producer finds room and keeps what it read; only it moves tail.
LEMMA EnqueueReadKeeps ==
    ASSUME RingIInv, ~GivesBack, NEW p \in PDs, NEW r \in Rings, EnqueueRead(p, r)
    PROVE  RingIInv'
<1>1. PICK b \in own[p] : pd' = [pd EXCEPT ![p] = [pc |-> "write", ring |-> r,
                                                   index |-> ring[r].tail, buf |-> b]]
  BY Zenon DEF EnqueueRead
<1>2. p = Producer(r)
  BY DEF EnqueueRead, Producers, Producer
<1>3. pd'[p] = [pc |-> "write", ring |-> r, index |-> ring[r].tail, buf |-> b]
  BY <1>1 DEF RingIInv, Types
<1>4. pd'[p].pc = "write" /\ pd'[p].ring = r /\ pd'[p].index = ring[r].tail /\ pd'[p].buf = b
  BY <1>3
<1>5. PdInv(p)'
  BY <1>2, <1>4 DEF PdInv, Enqueuing, EnqueueRead, Length
<1> QED
  BY <1>1, <1>5, LocalStep, Zenon DEF EnqueueRead

\* The consumer finds a buffer; only it moves head.
LEMMA DequeueReadKeeps ==
    ASSUME RingIInv, NEW p \in PDs, NEW r \in Rings, DequeueRead(p, r)
    PROVE  RingIInv'
<1>1. pd' = [pd EXCEPT ![p] = [pc |-> "read", ring |-> r, index |-> ring[r].head, buf |-> 0]]
  BY DEF DequeueRead
<1>2. pd'[p] = [pc |-> "read", ring |-> r, index |-> ring[r].head, buf |-> 0]
  BY <1>1 DEF RingIInv, Types
<1>3. pd'[p].pc = "read" /\ pd'[p].ring = r /\ pd'[p].index = ring[r].head
  BY <1>2
<1>4. PdInv(p)'
  BY <1>3 DEF PdInv, Dequeuing, DequeueRead, Length
<1> QED
  BY <1>1, <1>4, LocalStep, Zenon DEF DequeueRead

\* The consumer reads the slot at head, which no producer writes.
LEMMA DequeueSlotKeeps ==
    ASSUME RingIInv, NEW p \in PDs, NEW r \in Rings, DequeueSlot(p, r)
    PROVE  RingIInv'
<1> DEFINE v == [pc |-> "release", ring |-> pd[p].ring, index |-> pd[p].index,
                 buf |-> ring[r].slots[pd[p].index % Capacity]]
<1>1. pd' = [pd EXCEPT ![p] = v]
  <2>1. /\ pd[p] = [pc |-> pd[p].pc, ring |-> pd[p].ring, index |-> pd[p].index, buf |-> pd[p].buf]
        /\ pd = [o \in PDs |-> pd[o]]
    BY DEF RingIInv, Types, PdShape
  <2>2. pd' = [pd EXCEPT ![p].pc = "release",
                         ![p].buf = ring[r].slots[pd[p].index % Capacity]]
    BY DEF DequeueSlot
  <2>3. \A o \in PDs : pd'[o] = IF o = p THEN v ELSE pd[o]
    <3>1. pd'[p] = [[pd[p] EXCEPT !.pc = "release"]
                      EXCEPT !.buf = ring[r].slots[pd[p].index % Capacity]]
      BY <2>1, <2>2
    <3>2. pd'[p] = v
      BY <2>1, <3>1, Zenon
    <3>3. \A o \in PDs : o # p => pd'[o] = pd[o]
      BY <2>1, <2>2
    <3> QED
      BY <3>2, <3>3
  <2>4. pd' = [o \in PDs |-> pd'[o]]
    BY <2>1, <2>2, Zenon
  <2> HIDE DEF v
  <2> QED
    BY <2>1, <2>3, <2>4
<1>2. pd'[p] = v
  BY <1>1 DEF RingIInv, Types
<1>3. /\ pd'[p].pc = "release" /\ pd'[p].ring = r /\ pd'[p].index = pd[p].index
      /\ pd'[p].buf = ring[r].slots[pd[p].index % Capacity]
  BY <1>2 DEF DequeueSlot
<1>4. Dequeuing(p, r)
  BY DEF DequeueSlot, RingIInv, PdInv
<1>5. PdInv(p)'
  BY <1>3, <1>4, Zenon DEF PdInv, Dequeuing, DequeueSlot, Length
<1>6. v = [pc |-> v.pc, ring |-> v.ring, index |-> v.index, buf |-> v.buf]
  OBVIOUS
<1> HIDE DEF v
<1> QED
  BY <1>1, <1>5, <1>6, LocalStep, ZenonT(60) DEF DequeueSlot

\* What a store to one ring leaves alone.
LEMMA OneRing ==
    ASSUME RingIInv, NEW r \in Rings, NEW new, ring' = [ring EXCEPT ![r] = new]
    PROVE  /\ ring' = [x \in Rings |-> ring'[x]] /\ ring'[r] = new
           /\ \A x \in Rings : x # r => ring'[x] = ring[x]
BY DEF RingIInv, Types

\* What EnqueueWrite does to the ring it works on and to the other.
LEMMA WriteEffect ==
    ASSUME RingIInv, NEW p \in PDs, NEW r \in Rings, EnqueueWrite(p, r)
    PROVE  /\ RingOK(ring'[r]) /\ ring' = [x \in Rings |-> ring'[x]]
           /\ \A x \in Rings : x # r => ring'[x] = ring[x]
           /\ ring'[r].head = ring[r].head /\ ring'[r].tail = ring[r].tail
           /\ Length(ring'[r]) = Length(ring[r])
           /\ \A i \in 0 .. Length(ring[r]) - 1 : At(ring'[r], i) = At(ring[r], i)
           /\ ring'[r].slots[ring[r].tail % Capacity] = pd[p].buf
           /\ Enqueuing(p, r)
<1>1. Enqueuing(p, r) /\ RingOK(ring[r]) /\ own[p] \in SUBSET Buffers
  BY DEF EnqueueWrite, RingIInv, PdInv, Types
<1>2. Length(ring[r]) < Capacity /\ pd[p].buf \in Buffers /\ pd[p].index = ring[r].tail
  BY <1>1 DEF Enqueuing
<1>3. ring' = [ring EXCEPT ![r] = [@ EXCEPT !.slots[ring[r].tail % Capacity] = pd[p].buf]]
  BY <1>2, Zenon DEF EnqueueWrite
<1> DEFINE new == [ring[r] EXCEPT !.slots[ring[r].tail % Capacity] = pd[p].buf]
<1>4. ring' = [ring EXCEPT ![r] = new]
  BY <1>3
<1> HIDE DEF new
<1>5. ring' = [x \in Rings |-> ring'[x]] /\ ring'[r] = new /\ \A x \in Rings : x # r => ring'[x] = ring[x]
  BY <1>4, OneRing, Zenon
<1>6. /\ RingOK(new) /\ new.head = ring[r].head /\ new.tail = ring[r].tail
      /\ Length(new) = Length(ring[r])
      /\ \A i \in 0 .. Length(ring[r]) - 1 : At(new, i) = At(ring[r], i)
      /\ new.slots[ring[r].tail % Capacity] = pd[p].buf
  BY <1>1, <1>2, WriteRing, ZenonT(60) DEF new
<1> QED
  BY <1>1, <1>5, <1>6

\* What EnqueuePublish does to them; both spellings of the new tail agree.
LEMMA PublishEffect ==
    ASSUME RingIInv, NEW p \in PDs, NEW r \in Rings, EnqueuePublish(p, r)
    PROVE  /\ RingOK(ring'[r]) /\ ring' = [x \in Rings |-> ring'[x]]
           /\ \A x \in Rings : x # r => ring'[x] = ring[x]
           /\ ring'[r].head = ring[r].head /\ ring'[r].slots = ring[r].slots
           /\ Length(ring'[r]) = Length(ring[r]) + 1
           /\ \A i \in Nat : At(ring'[r], i) = At(ring[r], i)
           /\ At(ring'[r], Length(ring[r])) = pd[p].buf
           /\ Enqueuing(p, r)
<1>1. Enqueuing(p, r) /\ RingOK(ring[r])
  BY DEF EnqueuePublish, RingIInv, PdInv, Types
<1>2. /\ Length(ring[r]) < Capacity /\ pd[p].index = ring[r].tail
      /\ ring[r].slots[ring[r].tail % Capacity] = pd[p].buf
  BY <1>1 DEF Enqueuing, EnqueuePublish
<1> DEFINE new == [ring[r] EXCEPT !.tail = Next16(ring[r].tail)]
<1>3. ring' = [ring EXCEPT ![r] = new]
  <2>1. CASE p = "net_virt"
    <3>1. ring' = [ring EXCEPT ![r].tail = Next16(pd[p].index)]
      BY <2>1 DEF EnqueuePublish
    <3> QED
      BY <1>2, <3>1
  <2>2. CASE p # "net_virt"
    <3>1. ring' = [ring EXCEPT ![r].tail = Next16(@)]
      BY <2>2 DEF EnqueuePublish
    <3> QED
      BY <3>1
  <2> QED
    BY <2>1, <2>2
<1> HIDE DEF new
<1>4. ring' = [x \in Rings |-> ring'[x]] /\ ring'[r] = new /\ \A x \in Rings : x # r => ring'[x] = ring[x]
  BY <1>3, OneRing, Zenon
<1>5. /\ RingOK(new) /\ new.head = ring[r].head /\ new.slots = ring[r].slots
      /\ Length(new) = Length(ring[r]) + 1
      /\ \A i \in Nat : At(new, i) = At(ring[r], i)
      /\ At(new, Length(ring[r])) = ring[r].slots[ring[r].tail % Capacity]
  BY <1>1, <1>2, PublishRing DEF new
<1> QED
  BY <1>1, <1>2, <1>4, <1>5

\* What DequeueRelease does to them.
LEMMA ReleaseEffect ==
    ASSUME RingIInv, NEW p \in PDs, NEW r \in Rings, DequeueRelease(p, r)
    PROVE  /\ RingOK(ring'[r]) /\ ring' = [x \in Rings |-> ring'[x]]
           /\ \A x \in Rings : x # r => ring'[x] = ring[x]
           /\ ring'[r].tail = ring[r].tail /\ ring'[r].slots = ring[r].slots
           /\ Length(ring'[r]) = Length(ring[r]) - 1
           /\ \A i \in Nat : At(ring'[r], i) = At(ring[r], i + 1)
           /\ At(ring[r], 0) = pd[p].buf
           /\ Dequeuing(p, r)
<1>1. Dequeuing(p, r) /\ RingOK(ring[r])
  BY DEF DequeueRelease, RingIInv, PdInv, Types
<1>2. /\ Length(ring[r]) > 0 /\ pd[p].index = ring[r].head
      /\ ring[r].slots[ring[r].head % Capacity] = pd[p].buf
  BY <1>1 DEF Dequeuing, DequeueRelease
<1>3. At(ring[r], 0) = pd[p].buf
  <2>1. ring[r].head + 0 = ring[r].head
    BY <1>1, NetRingAssumption DEF RingOK
  <2> QED
    BY <1>2, <2>1, Zenon DEF At
<1> DEFINE new == [ring[r] EXCEPT !.head = Next16(ring[r].head)]
<1>4. ring' = [ring EXCEPT ![r] = new]
  BY <1>2 DEF DequeueRelease
<1> HIDE DEF new
<1>5. ring' = [x \in Rings |-> ring'[x]] /\ ring'[r] = new /\ \A x \in Rings : x # r => ring'[x] = ring[x]
  BY <1>4, OneRing, Zenon
<1>6. /\ RingOK(new) /\ new.tail = ring[r].tail /\ new.slots = ring[r].slots
      /\ Length(new) = Length(ring[r]) - 1
      /\ \A i \in Nat : At(new, i) = At(ring[r], i + 1)
  BY <1>1, <1>2, ReleaseRing DEF new
<1> QED
  BY <1>1, <1>3, <1>5, <1>6

\* A half-done operation survives a step that leaves its PD and its ring alone.
LEMMA UntouchedEnqueue ==
    ASSUME NEW o, Enqueuing(o, pd[o].ring), pd'[o] = pd[o], own'[o] = own[o],
           ring'[pd[o].ring] = ring[pd[o].ring]
    PROVE  Enqueuing(o, pd[o].ring)'
BY Zenon DEF Enqueuing

LEMMA UntouchedDequeue ==
    ASSUME NEW o, Dequeuing(o, pd[o].ring), pd'[o] = pd[o],
           ring'[pd[o].ring] = ring[pd[o].ring]
    PROVE  Dequeuing(o, pd[o].ring)'
BY Zenon DEF Dequeuing

\* The other PD's half-done operation survives a store to r: at the other end of
\* r its index, and the slot it read, are untouched; elsewhere everything is.
LEMMA OtherPd ==
    ASSUME RingIInv, NEW p \in PDs, NEW o \in PDs, o # p, NEW r \in Rings,
           pd'[o] = pd[o], own'[o] = own[o],
           \A x \in Rings : x # r => ring'[x] = ring[x],
           p = Producer(r) =>
               /\ ring'[r].head = ring[r].head /\ Length(ring'[r]) >= Length(ring[r])
               /\ Length(ring[r]) > 0 => ring'[r].slots[ring[r].head % Capacity]
                                           = ring[r].slots[ring[r].head % Capacity],
           p = Consumer(r) =>
               /\ ring'[r].tail = ring[r].tail /\ Length(ring'[r]) <= Length(ring[r])
               /\ ring'[r].slots = ring[r].slots,
           p \in {Producer(r), Consumer(r)},
           Length(ring[r]) \in Nat, Length(ring'[r]) \in Nat
    PROVE  PdInv(o)'
<1>0. PdInv(o) /\ Capacity \in Nat
  BY NetRingAssumption DEF RingIInv
<1>1. \A x \in Rings : Producer(x) # Consumer(x) /\ Producer(x) \in PDs /\ Consumer(x) \in PDs
  BY TwoEnds
<1>2. o = Producer(r) \/ o = Consumer(r)
  BY TwoEnds DEF Producer, Consumer
<1>3. ASSUME pd[o].pc \in {"write", "publish"} PROVE Enqueuing(o, pd[o].ring)'
  <2> DEFINE x == pd[o].ring
  <2>1. Enqueuing(o, x) /\ x \in Rings
    BY <1>0, <1>3 DEF PdInv
  <2>2. CASE x = r
    <3>1. p = Consumer(r)
      BY <2>1, <2>2 DEF Enqueuing
    <3> QED
      BY <1>0, <2>1, <2>2, <3>1, SMTT(60) DEF Enqueuing
  <2>3. CASE x # r
    <3>1. ring'[x] = ring[x]
      BY <2>1, <2>3
    <3> QED
      BY <2>1, <3>1, UntouchedEnqueue, Zenon
  <2> QED
    BY <2>2, <2>3
<1>4. ASSUME pd[o].pc \in {"read", "release"} PROVE Dequeuing(o, pd[o].ring)'
  <2> DEFINE x == pd[o].ring
  <2>1. Dequeuing(o, x) /\ x \in Rings
    BY <1>0, <1>4 DEF PdInv
  <2>2. CASE x = r
    <3>1. p = Producer(r)
      BY <2>1, <2>2 DEF Dequeuing
    <3> QED
      BY <1>0, <2>1, <2>2, <3>1 DEF Dequeuing
  <2>3. CASE x # r
    <3>1. ring'[x] = ring[x]
      BY <2>1, <2>3
    <3> QED
      BY <2>1, <3>1, UntouchedDequeue, Zenon
  <2> QED
    BY <2>2, <2>3
<1> QED
  BY <1>0, <1>3, <1>4 DEF PdInv

\* The lengths are numbers.
LEMMA LengthNat ==
    ASSUME NEW q, RingOK(q)
    PROVE  Length(q) \in Nat
BY LengthIs, NetRingAssumption DEF RingOK

\* Writing the slot publishes nothing yet.
LEMMA EnqueueWriteKeeps ==
    ASSUME RingIInv, NEW p \in PDs, NEW r \in Rings, EnqueueWrite(p, r)
    PROVE  RingIInv'
<1>1. /\ RingOK(ring'[r]) /\ ring' = [x \in Rings |-> ring'[x]]
      /\ \A x \in Rings : x # r => ring'[x] = ring[x]
      /\ ring'[r].head = ring[r].head /\ ring'[r].tail = ring[r].tail
      /\ Length(ring'[r]) = Length(ring[r])
      /\ \A i \in 0 .. Length(ring[r]) - 1 : At(ring'[r], i) = At(ring[r], i)
      /\ ring'[r].slots[ring[r].tail % Capacity] = pd[p].buf
      /\ Enqueuing(p, r)
  BY WriteEffect
<1>2. /\ pd' = [o \in PDs |-> pd'[o]] /\ \A o \in PDs : o # p => pd'[o] = pd[o]
      /\ pd'[p] = [pc |-> "publish", ring |-> r, index |-> pd[p].index, buf |-> pd[p].buf]
      /\ own' = own /\ own \in [PDs -> SUBSET Buffers]
  BY DEF EnqueueWrite, RingIInv, Types, PdShape
<1>3. Types'
  <2>1. \A o \in PDs : PdShape(o)'
    BY <1>2 DEF PdShape, RingIInv, Types
  <2>2. \A x \in Rings : RingOK(ring'[x])
    BY <1>1 DEF RingIInv, Types
  <2> QED
    BY <1>1, <1>2, <2>1, <2>2, Zenon DEF Types, RingOK
<1>4. PdInv(p)'
  <2>1. pd'[p].pc = "publish" /\ pd'[p].ring = r /\ pd'[p].index = pd[p].index /\ pd'[p].buf = pd[p].buf
    BY <1>2
  <2> QED
    BY <1>1, <1>2, <2>1 DEF PdInv, Enqueuing
<1>5. RingOK(ring[r]) /\ Length(ring[r]) \in Nat /\ ring[r].head \in Nat
  BY LengthNat, NetRingAssumption DEF RingIInv, Types, RingOK
<1>6. ASSUME NEW o \in PDs, o # p PROVE PdInv(o)'
  <2>1. ASSUME Length(ring[r]) > 0
        PROVE  ring'[r].slots[ring[r].head % Capacity] = ring[r].slots[ring[r].head % Capacity]
    <3>1. At(ring'[r], 0) = At(ring[r], 0) /\ ring[r].head + 0 = ring[r].head
      BY <1>1, <1>5, <2>1
    <3> QED
      BY <1>1, <3>1, Zenon DEF At
  <2>2. p = Producer(r) /\ p # Consumer(r)
    BY <1>1, TwoEnds DEF Enqueuing
  <2>3. pd'[o] = pd[o] /\ own'[o] = own[o]
    BY <1>2, <1>6
  <2>4. Length(ring'[r]) >= Length(ring[r]) /\ Length(ring'[r]) \in Nat
    BY <1>1, <1>5
  <2> QED
    BY <1>1, <1>5, <1>6, <2>1, <2>2, <2>3, <2>4, OtherPd, ZenonT(60)
<1>7. \A b, i : \A x \in Rings : Queued(b, x, i)' <=> Queued(b, x, i)
  <2>1. \A b, i : Queued(b, r, i)' <=> Queued(b, r, i)
    BY <1>1, Zenon DEF Queued
  <2>2. \A x \in Rings : x # r => \A b, i : Queued(b, x, i)' <=> Queued(b, x, i)
    BY <1>1, Zenon DEF Queued, Length, At
  <2> QED
    BY <2>1, <2>2
<1>8. Once' /\ Somewhere'
  BY <1>2, <1>7 DEF RingIInv, Once, Somewhere
<1>9. \A x \in Rings : Length(ring'[x]) <= Capacity
  BY <1>1 DEF RingIInv
<1> QED
  BY <1>3, <1>4, <1>6, <1>8, <1>9, Zenon DEF RingIInv, Length

\* Publishing moves the buffer from its producer to the end of the ring.
LEMMA EnqueuePublishKeeps ==
    ASSUME RingIInv, NEW p \in PDs, NEW r \in Rings, EnqueuePublish(p, r)
    PROVE  RingIInv'
<1> DEFINE b0 == pd[p].buf
           n == Length(ring[r])
<1>1. /\ RingOK(ring'[r]) /\ ring' = [x \in Rings |-> ring'[x]]
      /\ \A x \in Rings : x # r => ring'[x] = ring[x]
      /\ ring'[r].head = ring[r].head /\ ring'[r].slots = ring[r].slots
      /\ Length(ring'[r]) = n + 1
      /\ \A i \in Nat : At(ring'[r], i) = At(ring[r], i)
      /\ At(ring'[r], n) = b0
      /\ Enqueuing(p, r)
  BY PublishEffect
<1>2. /\ pd' = [o \in PDs |-> pd'[o]] /\ \A o \in PDs : o # p => pd'[o] = pd[o]
      /\ pd'[p] = Idle
      /\ own' = [own EXCEPT ![p] = @ \ {b0}] /\ own \in [PDs -> SUBSET Buffers]
  BY Zenon DEF EnqueuePublish, RingIInv, Types
<1>3. /\ own' \in [PDs -> SUBSET Buffers] /\ own'[p] = own[p] \ {b0}
      /\ \A o \in PDs : o # p => own'[o] = own[o]
  BY <1>2
<1>4. b0 \in own[p] /\ b0 \in Buffers /\ n < Capacity /\ p = Producer(r)
  BY <1>1, <1>2 DEF Enqueuing
<1>5. RingOK(ring[r]) /\ n \in Nat /\ Capacity \in Nat
  BY LengthNat, NetRingAssumption DEF RingIInv, Types
<1>6. Types'
  <2>1. \A o \in PDs : PdShape(o)'
    BY <1>2 DEF PdShape, RingIInv, Types, Idle
  <2>2. \A x \in Rings : RingOK(ring'[x])
    BY <1>1 DEF RingIInv, Types
  <2> QED
    BY <1>1, <1>2, <1>3, <2>1, <2>2, Zenon DEF Types, RingOK
<1>7. PdInv(p)'
  BY <1>2 DEF PdInv, Idle, Rings
<1>8. ASSUME NEW o \in PDs, o # p PROVE PdInv(o)'
  <2>1. p # Consumer(r)
    BY <1>4, TwoEnds
  <2>2. pd'[o] = pd[o] /\ own'[o] = own[o] /\ Length(ring'[r]) >= n /\ Length(ring'[r]) \in Nat
    BY <1>1, <1>2, <1>3, <1>5, <1>8
  <2> QED
    BY <1>1, <1>4, <1>5, <1>8, <2>1, <2>2, OtherPd
<1>9. \A b : \A i \in Nat : Queued(b, r, i)' <=> Queued(b, r, i) \/ (i = n /\ b = b0)
  <2>1. \A i \in Nat : i \in 0 .. (n + 1) - 1 <=> i \in 0 .. n - 1 \/ i = n
    BY <1>5
  <2>2. ~(n \in 0 .. n - 1)
    BY <1>5
  <2> HIDE DEF b0
  <2> QED
    BY <1>1, <1>5, <2>1, <2>2 DEF Queued
<1>10. \A x \in Rings : x # r => \A b, i : Queued(b, x, i)' <=> Queued(b, x, i)
  BY <1>1, Zenon DEF Queued, Length, At
<1>11. ~Queued(b0, r, n) /\ \A x \in Rings : \A i \in Nat : ~Queued(b0, x, i)
  <2>1. \A x \in Rings : \A i \in Nat : ~Queued(b0, x, i)
    BY <1>4 DEF RingIInv, Once
  <2> QED
    BY <1>5, <2>1
<1> HIDE DEF b0, n
<1>12. Once'
  <2>1. ASSUME NEW b \in Buffers, NEW x \in Rings, NEW y \in Rings, NEW i \in Nat, NEW j \in Nat,
               Queued(b, x, i)', Queued(b, y, j)'
        PROVE  x = y /\ i = j
    <3>1. Queued(b, x, i) \/ (x = r /\ i = n /\ b = b0)
      BY <1>9, <1>10, <2>1
    <3>2. Queued(b, y, j) \/ (y = r /\ j = n /\ b = b0)
      BY <1>9, <1>10, <2>1
    <3> QED
      BY <1>11, <3>1, <3>2 DEF RingIInv, Once
  <2>2. ASSUME NEW b \in Buffers, NEW x \in Rings, NEW i \in Nat, Queued(b, x, i)', NEW o \in PDs
        PROVE  b \notin own'[o]
    <3>1. Queued(b, x, i) \/ b = b0
      BY <1>9, <1>10, <2>2
    <3>2. CASE Queued(b, x, i)
      BY <1>3, <3>2 DEF RingIInv, Once
    <3>3. CASE b = b0
      BY <1>3, <1>4, <3>3 DEF RingIInv, Once
    <3> QED
      BY <3>1, <3>2, <3>3
  <2>3. \A b \in Buffers : \A o, q \in PDs : b \in own'[o] /\ b \in own'[q] => o = q
    BY <1>3 DEF RingIInv, Once
  <2> QED
    BY <2>1, <2>2, <2>3, Zenon DEF Once
<1>13. Somewhere'
  <2> SUFFICES ASSUME NEW b \in Buffers, \A o \in PDs : b \notin own'[o]
               PROVE  \E x \in Rings : \E i \in Nat : Queued(b, x, i)'
    BY Zenon DEF Somewhere
  <2>1. CASE b = b0
    BY <1>5, <1>9, <2>1
  <2>2. CASE b # b0
    <3>1. \A o \in PDs : b \notin own[o]
      BY <1>3, <2>2
    <3>2. PICK x \in Rings, i \in Nat : Queued(b, x, i)
      BY <3>1 DEF RingIInv, Somewhere
    <3> QED
      BY <1>9, <1>10, <3>2
  <2> QED
    BY <2>1, <2>2
<1>14. \A x \in Rings : Length(ring'[x]) <= Capacity
  BY <1>1, <1>4, <1>5 DEF RingIInv
<1> QED
  BY <1>6, <1>7, <1>8, <1>12, <1>13, <1>14, Zenon DEF RingIInv, Length

\* Releasing the head moves the oldest buffer of the ring to its consumer.
LEMMA DequeueReleaseKeeps ==
    ASSUME RingIInv, NEW p \in PDs, NEW r \in Rings, DequeueRelease(p, r)
    PROVE  RingIInv'
<1> DEFINE b0 == pd[p].buf
           n == Length(ring[r])
<1>1. /\ RingOK(ring'[r]) /\ ring' = [x \in Rings |-> ring'[x]]
      /\ \A x \in Rings : x # r => ring'[x] = ring[x]
      /\ ring'[r].tail = ring[r].tail /\ ring'[r].slots = ring[r].slots
      /\ Length(ring'[r]) = n - 1
      /\ \A i \in Nat : At(ring'[r], i) = At(ring[r], i + 1)
      /\ At(ring[r], 0) = b0
      /\ Dequeuing(p, r)
  BY ReleaseEffect
<1>2. /\ pd' = [o \in PDs |-> pd'[o]] /\ \A o \in PDs : o # p => pd'[o] = pd[o]
      /\ pd'[p] = Idle
      /\ own' = [own EXCEPT ![p] = @ \union {b0}] /\ own \in [PDs -> SUBSET Buffers]
  BY DEF DequeueRelease, RingIInv, Types
<1>3. RingOK(ring[r]) /\ n \in Nat /\ Capacity \in Nat /\ n > 0 /\ p = Consumer(r)
  BY <1>1, LengthNat, NetRingAssumption DEF RingIInv, Types, Dequeuing
<1>4. b0 \in Buffers
  <2>1. (ring[r].head + 0) % Capacity \in Buffers
    BY <1>3, SlotType, NetRingAssumption DEF RingOK
  <2> QED
    BY <1>1, <1>3, <2>1 DEF At, RingOK
<1>5. /\ own' \in [PDs -> SUBSET Buffers] /\ own'[p] = own[p] \union {b0}
      /\ \A o \in PDs : o # p => own'[o] = own[o]
  BY <1>2, <1>4
<1>6. Types'
  <2>1. \A o \in PDs : PdShape(o)'
    BY <1>2 DEF PdShape, RingIInv, Types, Idle
  <2>2. \A x \in Rings : RingOK(ring'[x])
    BY <1>1 DEF RingIInv, Types
  <2> QED
    BY <1>1, <1>2, <1>5, <2>1, <2>2, Zenon DEF Types, RingOK
<1>7. PdInv(p)'
  BY <1>2 DEF PdInv, Idle, Rings
<1>8. ASSUME NEW o \in PDs, o # p PROVE PdInv(o)'
  <2>1. p # Producer(r)
    BY <1>3, TwoEnds
  <2>2. pd'[o] = pd[o] /\ own'[o] = own[o] /\ Length(ring'[r]) <= n /\ Length(ring'[r]) \in Nat
    BY <1>1, <1>2, <1>3, <1>5, <1>8
  <2> QED
    BY <1>1, <1>3, <1>8, <2>1, <2>2, OtherPd
<1>9. \A b : \A i \in Nat : Queued(b, r, i)' <=> Queued(b, r, i + 1)
  <2>1. \A i \in Nat : i \in 0 .. (n - 1) - 1 <=> i + 1 \in 0 .. n - 1
    BY <1>3
  <2> HIDE DEF b0
  <2> QED
    BY <1>1, <2>1, Zenon DEF Queued
<1>10. \A x \in Rings : x # r => \A b, i : Queued(b, x, i)' <=> Queued(b, x, i)
  BY <1>1, Zenon DEF Queued, Length, At
<1>11. Queued(b0, r, 0)
  BY <1>1, <1>3 DEF Queued
<1> HIDE DEF b0, n
<1>12. ASSUME NEW b, b = b0, NEW x \in Rings, NEW i \in Nat PROVE ~Queued(b, x, i)'
  <2> SUFFICES ASSUME Queued(b, x, i)' PROVE FALSE
    OBVIOUS
  <2>1. CASE x = r
    <3>1. Queued(b, r, i + 1) /\ i + 1 \in Nat /\ i + 1 # 0
      BY <1>9, <2>1
    <3> QED
      BY <1>4, <1>11, <1>12, <3>1 DEF RingIInv, Once
  <2>2. CASE x # r
    BY <1>4, <1>10, <1>11, <1>12, <2>2 DEF RingIInv, Once
  <2> QED
    BY <2>1, <2>2
<1>13. Once'
  <2>1. ASSUME NEW b \in Buffers, NEW x \in Rings, NEW y \in Rings, NEW i \in Nat, NEW j \in Nat,
               Queued(b, x, i)', Queued(b, y, j)'
        PROVE  x = y /\ i = j
    <3>1. PICK k \in Nat : Queued(b, x, k) /\ (x = r => k = i + 1) /\ (x # r => k = i)
      BY <1>9, <1>10, <2>1
    <3>2. PICK l \in Nat : Queued(b, y, l) /\ (y = r => l = j + 1) /\ (y # r => l = j)
      BY <1>9, <1>10, <2>1
    <3>3. x = y /\ k = l
      BY <3>1, <3>2 DEF RingIInv, Once
    <3> QED
      BY <3>1, <3>2, <3>3
  <2>2. ASSUME NEW b \in Buffers, NEW x \in Rings, NEW i \in Nat, Queued(b, x, i)', NEW o \in PDs
        PROVE  b \notin own'[o]
    <3>1. PICK k \in Nat : Queued(b, x, k)
      BY <1>9, <1>10, <2>2
    <3>2. b # b0 /\ b \notin own[o]
      BY <1>12, <2>2, <3>1 DEF RingIInv, Once
    <3> QED
      BY <1>5, <3>2
  <2>3. \A o \in PDs : b0 \notin own[o]
    BY <1>4, <1>11 DEF RingIInv, Once
  <2>4. \A b \in Buffers : \A o, q \in PDs : b \in own'[o] /\ b \in own'[q] => o = q
    BY <1>5, <2>3 DEF RingIInv, Once
  <2> QED
    BY <2>1, <2>2, <2>4, Zenon DEF Once
<1>14. Somewhere'
  <2> SUFFICES ASSUME NEW b \in Buffers, \A o \in PDs : b \notin own'[o]
               PROVE  \E x \in Rings : \E i \in Nat : Queued(b, x, i)'
    BY Zenon DEF Somewhere
  <2>1. b # b0 /\ \A o \in PDs : b \notin own[o]
    BY <1>5
  <2>2. PICK x \in Rings, i \in Nat : Queued(b, x, i)
    BY <2>1 DEF RingIInv, Somewhere
  <2>3. CASE x # r
    BY <1>10, <2>2, <2>3
  <2>4. CASE x = r
    <3>1. i # 0
      BY <1>1, <2>1, <2>2, <2>4 DEF Queued
    <3>2. i - 1 \in Nat /\ (i - 1) + 1 = i
      BY <3>1
    <3>3. Queued(b, r, i - 1)'
      BY <1>9, <2>2, <2>4, <3>2
    <3> QED
      BY <3>2, <3>3
  <2> QED
    BY <2>3, <2>4
<1>15. \A x \in Rings : Length(ring'[x]) <= Capacity
  <2>1. n <= Capacity
    BY DEF RingIInv, n
  <2> QED
    BY <1>1, <1>3, <2>1 DEF RingIInv
<1> QED
  BY <1>6, <1>7, <1>8, <1>13, <1>14, <1>15, Zenon DEF RingIInv, Length

\* Every step of the two PDs preserves the invariant.
LEMMA RingNext ==
    ASSUME ~GivesBack
    PROVE  RingIInv /\ [Next]_vars => RingIInv'
<1> SUFFICES ASSUME RingIInv, [Next]_vars PROVE RingIInv'
  OBVIOUS
<1>1. ASSUME NEW p \in PDs, NEW r \in Rings, Step(p, r) PROVE RingIInv'
  BY <1>1, EnqueueReadKeeps, EnqueueWriteKeeps, EnqueuePublishKeeps,
     DequeueReadKeeps, DequeueSlotKeeps, DequeueReleaseKeeps DEF Step
<1>2. CASE UNCHANGED vars
  <2>1. ring' = ring /\ own' = own /\ pd' = pd
    BY <1>2 DEF vars
  <2>2. \A b, r, i : Queued(b, r, i)' <=> Queued(b, r, i)
    BY <2>1, Zenon DEF Queued, At, Length
  <2>3. Once' /\ Somewhere'
    BY <2>1, <2>2 DEF RingIInv, Once, Somewhere
  <2>4. Types'
    BY <2>1, Zenon DEF RingIInv, Types, RingOK, PdShape
  <2>5. \A p \in PDs : PdInv(p)'
    BY <2>1, Zenon DEF RingIInv, PdInv, Enqueuing, Dequeuing, Length
  <2> QED
    BY <2>1, <2>3, <2>4, <2>5, Zenon DEF RingIInv, Length
<1> QED
  BY <1>1, <1>2 DEF Next

-----------------------------------------------------------------------------
\* The places EachBufferInOnePlace counts are those of the invariant.
LEMMA PlaceIsQueued ==
    ASSUME RingIInv, NEW b \in Buffers, NEW r \in Rings, NEW k \in 1 .. Modulus
    PROVE  k \in DOMAIN Fifo(r) /\ Fifo(r)[k] = b <=> Queued(b, r, k - 1)
<1>1. RingOK(ring[r]) /\ Length(ring[r]) \in Nat /\ Modulus \in Nat /\ ring[r].head \in Nat
  BY LengthNat, NetRingAssumption DEF RingIInv, Types, RingOK
<1>2. DOMAIN Fifo(r) = 1 .. Length(ring[r])
  BY DEF Fifo
<1>3. k \in 1 .. Length(ring[r]) <=> k - 1 \in 0 .. Length(ring[r]) - 1
  BY <1>1
<1>4. ring[r].head + k - 1 = ring[r].head + (k - 1)
  BY <1>1
<1>5. k \in 1 .. Length(ring[r]) => Fifo(r)[k] = At(ring[r], k - 1)
  BY <1>4, Zenon DEF Fifo, At
<1> QED
  BY <1>2, <1>3, <1>5 DEF Queued

\* For every capacity and index width: whatever the interleaving of the two
\* sides and wherever the indices wrap, a buffer is once in one ring or with one
\* owner, when every ring has one producer.
THEOREM EachBufferInOnePlaceHolds ==
    ASSUME ~GivesBack
    PROVE  Spec => []EachBufferInOnePlace
<1>1. RingIInv => EachBufferInOnePlace
  <2> SUFFICES ASSUME RingIInv, NEW b \in Buffers
               PROVE  Cardinality({x \in Rings \X (1..Modulus) :
                                     x[2] \in DOMAIN Fifo(x[1]) /\ Fifo(x[1])[x[2]] = b})
                      + Cardinality({p \in PDs : b \in own[p]}) = 1
    BY Zenon DEF EachBufferInOnePlace
  <2> DEFINE Q == {x \in Rings \X (1..Modulus) :
                     x[2] \in DOMAIN Fifo(x[1]) /\ Fifo(x[1])[x[2]] = b}
             O == {p \in PDs : b \in own[p]}
  <2>0. Cardinality({}) = 0 /\ \A e : Cardinality({e}) = 1
    BY FS_EmptySet, FS_Singleton, Zenon
  <2>1. \A x \in Rings \X (1 .. Modulus) : x \in Q <=> Queued(b, x[1], x[2] - 1)
    BY PlaceIsQueued
  <2>2. CASE \E p \in PDs : b \in own[p]
    <3>1. PICK p \in PDs : b \in own[p]
      BY <2>2
    <3>2. O = {p}
      BY <3>1 DEF RingIInv, Once
    <3>3. \A r \in Rings, i \in Nat : ~Queued(b, r, i)
      BY <3>1 DEF RingIInv, Once
    <3>4. \A k \in 1 .. Modulus : k - 1 \in Nat
      BY NetRingAssumption
    <3>5. Q = {}
      <4> SUFFICES ASSUME NEW x \in Q PROVE FALSE
        OBVIOUS
      <4>1. x \in Rings \X (1 .. Modulus) /\ x[1] \in Rings /\ x[2] \in 1 .. Modulus
        OBVIOUS
      <4> HIDE DEF Q
      <4> QED
        BY <2>1, <3>3, <3>4, <4>1
    <3> HIDE DEF Q, O
    <3>6. Cardinality(Q) = 0 /\ Cardinality(O) = 1
      BY <2>0, <3>2, <3>5
    <3> QED
      BY <3>6 DEF Q, O
  <2>3. CASE \A p \in PDs : b \notin own[p]
    <3>1. PICK r \in Rings, i \in Nat : Queued(b, r, i)
      BY <2>3 DEF RingIInv, Somewhere
    <3>2. RingOK(ring[r]) /\ Modulus \in Nat
      BY NetRingAssumption DEF RingIInv, Types
    <3>3. Length(ring[r]) \in 0 .. Modulus - 1 /\ i \in 0 .. Length(ring[r]) - 1
      BY <3>1, <3>2, LengthIs DEF RingOK, Queued
    <3>4. i + 1 \in 1 .. Modulus /\ (i + 1) - 1 = i
      BY <3>2, <3>3
    <3>5. <<r, i + 1>> \in Q
      <4>1. <<r, i + 1>> \in Rings \X (1 .. Modulus) /\ <<r, i + 1>>[1] = r /\ <<r, i + 1>>[2] = i + 1
        BY <3>4
      <4> HIDE DEF Q
      <4> QED
        BY <2>1, <3>1, <3>4, <4>1
    <3>6. ASSUME NEW x \in Q PROVE x = <<r, i + 1>>
      <4>1. x \in Rings \X (1 .. Modulus) /\ x[1] \in Rings /\ x[2] \in 1 .. Modulus /\ x = <<x[1], x[2]>>
        OBVIOUS
      <4>2. Queued(b, x[1], x[2] - 1)
        BY <2>1, <4>1
      <4>3. x[2] - 1 \in Nat
        BY <3>2, <4>1
      <4>4. x[1] = r /\ x[2] - 1 = i
        BY <3>1, <4>1, <4>2, <4>3 DEF RingIInv, Once
      <4>5. x[2] = i + 1
        BY <3>2, <4>1, <4>4
      <4> QED
        BY <4>1, <4>4, <4>5
    <3>7. Q = {<<r, i + 1>>}
      <4> HIDE DEF Q
      <4> QED
        BY <3>5, <3>6
    <3>8. O = {}
      BY <2>3
    <3> HIDE DEF Q, O
    <3>9. Cardinality(Q) = 1 /\ Cardinality(O) = 0
      BY <2>0, <3>7, <3>8, Zenon
    <3> QED
      BY <3>9 DEF Q, O
  <2> QED
    BY <2>2, <2>3
<1> QED
  BY RingInit, RingNext, <1>1, PTL DEF Spec

-----------------------------------------------------------------------------
\* The published part of a ring as a sequence.
FifoOK(r) ==
    /\ Fifo(r) \in Seq(Buffers) /\ Len(Fifo(r)) = Length(ring[r])
    /\ \A k \in 1 .. Length(ring[r]) : Fifo(r)[k] = At(ring[r], k - 1)

\* It lists the slots from the head on.
LEMMA FifoIs == RingIInv => \A r \in Rings : FifoOK(r)
<1> SUFFICES ASSUME RingIInv, NEW r \in Rings PROVE FifoOK(r)
  OBVIOUS
<1>1. RingOK(ring[r]) /\ Length(ring[r]) \in Nat /\ ring[r].head \in Nat
  BY LengthNat, NetRingAssumption DEF RingIInv, Types, RingOK
<1>2. ASSUME NEW k \in 1 .. Length(ring[r])
      PROVE  /\ ring[r].slots[(ring[r].head + k - 1) % Capacity] \in Buffers
             /\ Fifo(r)[k] = At(ring[r], k - 1)
  <2>1. ring[r].head + k - 1 = ring[r].head + (k - 1) /\ ring[r].head + (k - 1) \in Nat
    BY <1>1
  <2>2. (ring[r].head + (k - 1)) % Capacity \in Buffers
    BY <2>1, SlotType
  <2>3. ring[r].slots[(ring[r].head + k - 1) % Capacity] \in Buffers
    BY <1>1, <2>1, <2>2 DEF RingOK
  <2> QED
    BY <2>1, <2>3, Zenon DEF Fifo, At
<1> DEFINE n == Length(ring[r])
           f(k) == ring[r].slots[(ring[r].head + k - 1) % Capacity]
<1>3. Fifo(r) = [k \in 1 .. n |-> f(k)]
  BY DEF Fifo
<1>4. n \in Nat /\ \A k \in 1 .. n : f(k) \in Buffers
  BY <1>1, <1>2
<1> HIDE DEF n, f
<1>5. Fifo(r) \in Seq(Buffers) /\ Len(Fifo(r)) = n
  BY <1>3, <1>4
<1> QED
  BY <1>2, <1>5 DEF n, FifoOK

\* And does so after a step.
LEMMA FifoIsNext == RingIInv' => \A r \in Rings : FifoOK(r)'
<1>1. RingIInv' => (\A r \in Rings : FifoOK(r))'
  BY FifoIs, PTL
<1> QED
  BY <1>1

\* EnqueuePublish is the Enqueue of NetFifo.
LEMMA PublishIsEnqueue ==
    ASSUME RingIInv, RingIInv', NEW p \in PDs, NEW r \in Rings, EnqueuePublish(p, r)
    PROVE  Queues!Enqueue(r)
<1> DEFINE n == Length(ring[r])
           b0 == pd[p].buf
<1>1. /\ \A x \in Rings : x # r => ring'[x] = ring[x]
      /\ Length(ring'[r]) = n + 1
      /\ \A i \in Nat : At(ring'[r], i) = At(ring[r], i)
      /\ At(ring'[r], n) = b0
      /\ Enqueuing(p, r)
  BY PublishEffect
<1>2. p = Producer(r) /\ b0 \in own[p] /\ n < Capacity /\ b0 \in Buffers
  BY <1>1 DEF Enqueuing, RingIInv, Types
<1>3. /\ Fifo(r) \in Seq(Buffers) /\ Len(Fifo(r)) = n
      /\ \A k \in 1 .. n : Fifo(r)[k] = At(ring[r], k - 1)
  BY FifoIs DEF FifoOK
<1>4. /\ Fifo(r)' \in Seq(Buffers) /\ Len(Fifo(r)') = n + 1
      /\ \A k \in 1 .. n + 1 : Fifo(r)'[k] = At(ring'[r], k - 1)
  <2>1. /\ Fifo(r)' \in Seq(Buffers) /\ Len(Fifo(r)') = Length(ring'[r])
        /\ \A k \in 1 .. Length(ring'[r]) : Fifo(r)'[k] = At(ring'[r], k - 1)
    BY FifoIsNext DEF FifoOK
  <2> QED
    BY <1>1, <2>1
<1>5. n \in Nat
  BY <1>3
<1> HIDE DEF n, b0
<1>6. /\ Append(Fifo(r), b0) \in Seq(Buffers) /\ Len(Append(Fifo(r), b0)) = n + 1
      /\ \A k \in 1 .. n : Append(Fifo(r), b0)[k] = Fifo(r)[k]
      /\ Append(Fifo(r), b0)[n + 1] = b0
  BY <1>2, <1>3, <1>5
<1>7. Fifo(r)' = Append(Fifo(r), b0)
  <2>1. ASSUME NEW k \in 1 .. n + 1 PROVE Fifo(r)'[k] = Append(Fifo(r), b0)[k]
    <3>1. CASE k = n + 1
      <4>1. (n + 1) - 1 = n
        BY <1>5
      <4> QED
        BY <1>1, <1>4, <1>6, <3>1, <4>1
    <3>2. CASE k # n + 1
      <4>1. k \in 1 .. n /\ k - 1 \in Nat
        BY <1>5, <3>2
      <4> QED
        BY <1>1, <1>3, <1>4, <1>6, <4>1
    <3> QED
      BY <3>1, <3>2, Zenon
  <2> QED
    BY <1>4, <1>6, <2>1, SeqEqual
<1>8. \A x \in Rings : x # r => Fifo(x)' = Fifo(x)
  BY <1>1, Zenon DEF Fifo, Length
<1>9. [x \in Rings |-> Fifo(x)]' = [[x \in Rings |-> Fifo(x)] EXCEPT ![r] = Append(@, b0)]
  BY <1>7, <1>8, Zenon
<1>10. own' = [own EXCEPT ![p] = @ \ {b0}]
  BY DEF EnqueuePublish, b0
<1>11. Queues!Producer(r) = p
  BY <1>2 DEF Queues!Producer, Producer
<1>12. Len([x \in Rings |-> Fifo(x)][r]) < Capacity
  BY <1>2, <1>3
<1> QED
  BY <1>2, <1>9, <1>10, <1>11, <1>12, Zenon DEF Queues!Enqueue

\* DequeueRelease is the Dequeue of NetFifo.
LEMMA ReleaseIsDequeue ==
    ASSUME RingIInv, RingIInv', NEW p \in PDs, NEW r \in Rings, DequeueRelease(p, r)
    PROVE  Queues!Dequeue(r)
<1> DEFINE n == Length(ring[r])
           b0 == pd[p].buf
<1>1. /\ \A x \in Rings : x # r => ring'[x] = ring[x]
      /\ Length(ring'[r]) = n - 1
      /\ \A i \in Nat : At(ring'[r], i) = At(ring[r], i + 1)
      /\ At(ring[r], 0) = b0
      /\ Dequeuing(p, r)
  BY ReleaseEffect
<1>2. p = Consumer(r) /\ n > 0
  BY <1>1 DEF Dequeuing
<1>3. /\ Fifo(r) \in Seq(Buffers) /\ Len(Fifo(r)) = n
      /\ \A k \in 1 .. n : Fifo(r)[k] = At(ring[r], k - 1)
  BY FifoIs DEF FifoOK
<1>4. /\ Fifo(r)' \in Seq(Buffers) /\ Len(Fifo(r)') = n - 1
      /\ \A k \in 1 .. n - 1 : Fifo(r)'[k] = At(ring'[r], k - 1)
  <2>1. /\ Fifo(r)' \in Seq(Buffers) /\ Len(Fifo(r)') = Length(ring'[r])
        /\ \A k \in 1 .. Length(ring'[r]) : Fifo(r)'[k] = At(ring'[r], k - 1)
    BY FifoIsNext DEF FifoOK
  <2> QED
    BY <1>1, <2>1
<1>5. n \in Nat
  BY <1>3
<1> HIDE DEF n, b0
<1>6. Fifo(r) # <<>> /\ Head(Fifo(r)) = b0
  <2>1. 1 \in 1 .. n /\ 1 - 1 = 0
    BY <1>2, <1>5
  <2>2. Fifo(r)[1] = b0
    BY <1>1, <1>3, <2>1
  <2> QED
    BY <1>2, <1>3, <2>2
<1>7. /\ Tail(Fifo(r)) \in Seq(Buffers) /\ Len(Tail(Fifo(r))) = n - 1
      /\ \A k \in 1 .. n - 1 : Tail(Fifo(r))[k] = Fifo(r)[k + 1]
  BY <1>2, <1>3, <1>5, <1>6
<1>8. Fifo(r)' = Tail(Fifo(r))
  <2>1. ASSUME NEW k \in 1 .. n - 1 PROVE Fifo(r)'[k] = Tail(Fifo(r))[k]
    <3>1. k + 1 \in 1 .. n /\ k - 1 \in Nat /\ (k - 1) + 1 = (k + 1) - 1
      BY <1>5
    <3> QED
      BY <1>1, <1>3, <1>4, <1>7, <3>1
  <2> QED
    BY <1>4, <1>7, <2>1, SeqEqual
<1>9. \A x \in Rings : x # r => Fifo(x)' = Fifo(x)
  BY <1>1, Zenon DEF Fifo, Length
<1>10. [x \in Rings |-> Fifo(x)]' = [[x \in Rings |-> Fifo(x)] EXCEPT ![r] = Tail(@)]
  BY <1>8, <1>9, Zenon
<1>11. own' = [own EXCEPT ![p] = @ \union {Head(Fifo(r))}]
  BY <1>6, Zenon DEF DequeueRelease, b0
<1>12. Queues!Consumer(r) = p
  BY <1>2 DEF Queues!Consumer, Consumer
<1>13. [x \in Rings |-> Fifo(x)][r] = Fifo(r)
  OBVIOUS
<1> QED
  BY <1>6, <1>10, <1>11, <1>12, <1>13, Zenon DEF Queues!Dequeue

\* The other steps of the queue operations leave the published queues alone.
LEMMA WriteIsSilent ==
    ASSUME RingIInv, RingIInv', NEW p \in PDs, NEW r \in Rings, EnqueueWrite(p, r)
    PROVE  \A x \in Rings : Fifo(x)' = Fifo(x)
<1>1. /\ \A x \in Rings : x # r => ring'[x] = ring[x]
      /\ Length(ring'[r]) = Length(ring[r])
      /\ \A i \in 0 .. Length(ring[r]) - 1 : At(ring'[r], i) = At(ring[r], i)
  BY WriteEffect
<1>2. /\ Fifo(r) \in Seq(Buffers) /\ Len(Fifo(r)) = Length(ring[r])
      /\ \A k \in 1 .. Length(ring[r]) : Fifo(r)[k] = At(ring[r], k - 1)
  BY FifoIs DEF FifoOK
<1>3. /\ Fifo(r)' \in Seq(Buffers) /\ Len(Fifo(r)') = Length(ring'[r])
      /\ \A k \in 1 .. Length(ring'[r]) : Fifo(r)'[k] = At(ring'[r], k - 1)
  BY FifoIsNext DEF FifoOK
<1>4. Length(ring[r]) \in Nat
  BY <1>2
<1>5. \A k \in 1 .. Length(ring[r]) : k - 1 \in 0 .. Length(ring[r]) - 1
  BY <1>4
<1>6. Fifo(r)' = Fifo(r)
  <2>1. \A k \in 1 .. Length(ring[r]) : Fifo(r)'[k] = Fifo(r)[k]
    BY <1>1, <1>2, <1>3, <1>5
  <2> QED
    BY <1>1, <1>2, <1>3, <2>1, SeqEqual
<1>7. \A x \in Rings : x # r => Fifo(x)' = Fifo(x)
  BY <1>1, Zenon DEF Fifo, Length
<1> QED
  BY <1>6, <1>7

\* A ring pair with one producer each implements the two queues its users rely
\* on, for every capacity and index width: an enqueue takes effect when tail is
\* published, a dequeue when head is, and every other step is invisible.
THEOREM RingsImplementFifo ==
    ASSUME ~GivesBack
    PROVE  Spec => ImplementsFifo
<1>1. Init => /\ [r \in Rings |-> Fifo(r)].active = <<>>
              /\ own = [p \in {Source, Sink} |-> {}]
  <2> SUFFICES ASSUME Init
               PROVE  /\ [r \in Rings |-> Fifo(r)].active = <<>>
                      /\ own = [p \in {Source, Sink} |-> {}]
    OBVIOUS
  <2>1. RingIInv
    BY RingInit
  <2>2. ring["active"].head = 0 /\ ring["active"].tail = 0 /\ "active" \in Rings
    BY DEF Init, Rings
  <2>3. Length(ring["active"]) = 0
    BY <2>1, <2>2, LengthIs DEF RingIInv, Types, RingOK
  <2>4. Fifo("active") = <<>>
    BY <2>1, <2>2, <2>3, FifoIs DEF FifoOK
  <2> QED
    BY <2>2, <2>4, TwoEnds DEF Init
<1>2. RingIInv /\ RingIInv' /\ [Next]_vars =>
          [\E r \in {"active", "free"} : Queues!Enqueue(r) \/ Queues!Dequeue(r)]_<<
              [r \in Rings |-> Fifo(r)], own>>
  <2> SUFFICES ASSUME RingIInv, RingIInv', [Next]_vars
               PROVE  [\E r \in {"active", "free"} : Queues!Enqueue(r) \/ Queues!Dequeue(r)]_<<
                          [r \in Rings |-> Fifo(r)], own>>
    OBVIOUS
  <2>1. ASSUME NEW p \in PDs, NEW r \in Rings, Step(p, r)
        PROVE  \/ Queues!Enqueue(r) \/ Queues!Dequeue(r)
               \/ (\A x \in Rings : Fifo(x)' = Fifo(x)) /\ own' = own
    <3>1. CASE ring' = ring /\ own' = own
      BY <3>1, Zenon DEF Fifo, Length
    <3>2. CASE EnqueueWrite(p, r)
      BY <3>2, WriteIsSilent, Zenon DEF EnqueueWrite
    <3>3. CASE EnqueuePublish(p, r)
      BY <3>3, PublishIsEnqueue
    <3>4. CASE DequeueRelease(p, r)
      BY <3>4, ReleaseIsDequeue
    <3> QED
      BY <2>1, <3>1, <3>2, <3>3, <3>4 DEF Step, EnqueueRead, DequeueRead, DequeueSlot
  <2>2. CASE UNCHANGED vars
    BY <2>2, Zenon DEF vars, Fifo, Length
  <2>3. CASE Next
    BY <2>1, <2>3 DEF Next, Rings
  <2> QED
    BY <2>2, <2>3
<1> QED
  BY RingInit, RingNext, <1>1, <1>2, PTL DEF Spec, ImplementsFifo, Queues!Spec
=============================================================================

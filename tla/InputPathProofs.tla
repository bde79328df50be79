-------------------------- MODULE InputPathProofs ---------------------------
(***************************************************************************)
(* The input virtualizer and the pages of its clients, for any number of   *)
(* clients, keys, batches and reconstructions: no page is touched after    *)
(* its detach was acknowledged, input does not overtake a release, and     *)
(* what a guest has seen with what is queued for it is what is held.       *)
(***************************************************************************)
EXTENDS InputPath, FiniteSetTheorems, SequenceTheorems, TLAPS

\* The records have their fields, the functions their domains.
IvShape ==
    iv = [pc |-> iv.pc, allowed |-> iv.allowed, retired |-> iv.retired,
          releasing |-> iv.releasing, held |-> iv.held, generation |-> iv.generation,
          ready |-> iv.ready, progress |-> iv.progress, todo |-> iv.todo]

PagesShape ==
    \A c \in Clients : page[c] = [live |-> page[c].live, events |-> page[c].events,
                                  request |-> page[c].request, ack |-> page[c].ack]

Shape ==
    /\ IvShape /\ PagesShape
    /\ page = [c \in Clients |-> page[c]]
    /\ iv.held = [c \in Clients |-> iv.held[c]]
    /\ iv.allowed \subseteq Clients /\ iv.releasing \subseteq Clients

\* The inductive invariant.  PageIsLive is inductive but for the shape of the
\* state: a page loses live or gains ack only in steps that retire its client,
\* or, for the VMM's, after the acknowledgment.
InputIInv == Shape /\ PageIsLive

\* What a step leaves alone that does not retire, rebind or release.
ClientsKept ==
    /\ iv'.allowed = iv.allowed /\ iv'.retired = iv.retired
    /\ iv'.releasing = iv.releasing /\ iv'.held = iv.held

PagesKept ==
    \A c \in Clients : page'[c].live = page[c].live /\ page'[c].ack = page[c].ack

\* Input does not overtake a release in this step.
Ordered == \A c \in iv.releasing : iv'.held[c] \subseteq iv.held[c]

-----------------------------------------------------------------------------
\* Every client starts attached, with a fresh page.
LEMMA InputInit == Init => InputIInv
BY DEF Init, InputIInv, Shape, IvShape, PagesShape, PageIsLive, FreshPage

\* A step that keeps clients and pages keeps the invariant.
LEMMA KeptStep ==
    ASSUME InputIInv, Shape', ClientsKept, PagesKept
    PROVE  InputIInv' /\ Ordered
BY DEF InputIInv, PageIsLive, ClientsKept, PagesKept, Ordered

\* The virtualizer's steps.
LEMMA InputVirtStep == ASSUME InputIInv, input_virt PROVE InputIInv' /\ Ordered
<1>1. CASE input_virt_notified
  <2>1. Shape' /\ ClientsKept /\ PagesKept
    BY <1>1 DEF input_virt_notified, InputIInv, Shape, IvShape, PagesShape, ClientsKept, PagesKept
  <2> QED
    BY <2>1, KeptStep
<1>2. CASE detach_pending
  <2> DEFINE who == {c \in iv.allowed : Detaching(c)}
  <2>1. /\ iv' = [Retired(who) EXCEPT !.pc = "requests", !.todo = Len(req),
                                     !.ready = who, !.progress = who # {}]
        /\ page' = [c \in Clients |-> IF c \in who THEN Acked(page[c]) ELSE page[c]]
    BY <1>2 DEF detach_pending
  <2> HIDE DEF who
  <2>2. /\ iv'.allowed = iv.allowed \ who /\ iv'.retired = iv.retired \cup who
        /\ iv'.releasing = iv.releasing \ who
        /\ iv'.held = [c \in Clients |-> IF c \in who THEN {} ELSE iv.held[c]]
    BY <2>1 DEF Retired, InputIInv, Shape, IvShape, PagesShape
  <2>3. Shape'
    BY <2>1, <2>2, ZenonT(60) DEF Retired, Acked, InputIInv, Shape, IvShape, PagesShape
  <2>4. \A c \in Clients \ who : page'[c] = page[c]
    BY <2>1
  <2>5. PageIsLive'
    BY <2>2, <2>4 DEF InputIInv, PageIsLive
  <2>6. Ordered
    BY <2>2 DEF Ordered, InputIInv, Shape, IvShape, PagesShape, PageIsLive
  <2> QED
    BY <2>3, <2>5, <2>6 DEF InputIInv
<1>3. CASE deliver
  <2> DEFINE q == Head(req)
             batch == Status(q) = "OK" /\ q.events # <<>>
  <2>1. /\ page' = IF ~batch THEN page
                   ELSE [page EXCEPT ![q.client].events = @ \o q.events \o <<SYN>>]
        /\ iv' = [iv EXCEPT !.progress = TRUE, !.todo = @ - 1,
                     !.ready = IF batch THEN @ \cup {q.client} ELSE @,
                     !.releasing = IF Status(q) = "OK" /\ ~batch THEN @ \cup {q.client} ELSE @,
                     !.held[q.client] = IF batch THEN AfterAll(@, q.events) ELSE @]
    BY <1>3, Zenon DEF deliver
  <2>2. Status(q) = "OK" => q.client \in iv.allowed
    BY DEF Status
  <2>3. batch => q.client \notin iv.releasing
    BY Zenon DEF Status, Blocks
  <2> HIDE DEF q, batch
  <2>4. /\ iv'.allowed = iv.allowed /\ iv'.retired = iv.retired
        /\ iv'.releasing \subseteq iv.releasing \cup iv.allowed
        /\ \A c \in Clients : iv'.held[c] # iv.held[c] => batch /\ c = q.client
    BY <2>1, <2>2, Zenon DEF InputIInv, Shape, IvShape, PagesShape
  <2>5. Shape' /\ PagesKept
    <3> DEFINE queued == page[q.client].events \o q.events \o <<SYN>>
    <3>1. page' = page \/ page' = [page EXCEPT ![q.client].events = queued]
      BY <2>1, Zenon
    <3> HIDE DEF queued
    <3>2. /\ page' = [c \in Clients |-> page'[c]]
          /\ \A c \in Clients :
               page'[c] = page[c] \/ page'[c] = [page[c] EXCEPT !.events = queued]
      BY <3>1, ZenonT(60) DEF InputIInv, Shape, IvShape, PagesShape
    <3>3. PagesKept /\ PagesShape'
      BY <3>2 DEF InputIInv, Shape, IvShape, PagesShape, PagesKept
    <3>4. iv'.held = [c \in Clients |-> iv'.held[c]]
      BY <2>1, Zenon DEF InputIInv, Shape, IvShape, PagesShape
    <3>5. IvShape'
      BY <2>1, ZenonT(60) DEF InputIInv, Shape, IvShape, PagesShape
    <3> QED
      BY <2>4, <3>2, <3>3, <3>4, <3>5, Zenon DEF InputIInv, Shape
  <2>6. PageIsLive'
    BY <2>2, <2>4, <2>5 DEF InputIInv, PageIsLive, PagesKept, batch
  <2>7. Ordered
    BY <2>3, <2>4 DEF Ordered, InputIInv, Shape, IvShape, PagesShape
  <2> QED
    BY <2>5, <2>6, <2>7 DEF InputIInv
<1>4. CASE release_pending
  <2> DEFINE some == {c \in iv.releasing : Fitting(c) > 0}
             over == {c \in iv.releasing : ReleaseOver(c)}
             events(c) == page[c].events \o [i \in 1 .. Fitting(c) |-> Release(Releasable(c)[i])]
                                         \o <<SYN>>
  <2>1. /\ page' = [c \in Clients |-> IF c \notin some THEN page[c]
                                      ELSE [page[c] EXCEPT !.events = events(c)]]
        /\ iv' = [iv EXCEPT !.pc = "signal", !.ready = @ \cup some, !.releasing = @ \ over,
                     !.held = [c \in Clients |-> IF c \in some THEN Left(c) ELSE @[c]],
                     !.progress = @ \/ some # {} \/ over # {}]
    BY <1>4 DEF release_pending
  <2>2. /\ some \subseteq iv.releasing
        /\ \A c \in Clients : Left(c) \subseteq iv.held[c]
    BY DEF Left
  <2> HIDE DEF some, over, events
  <2>3. /\ iv'.allowed = iv.allowed /\ iv'.retired = iv.retired
        /\ iv'.releasing \subseteq iv.releasing
        /\ iv'.held = [c \in Clients |-> IF c \in some THEN Left(c) ELSE iv.held[c]]
    BY <2>1 DEF InputIInv, Shape, IvShape, PagesShape
  <2>4. Shape' /\ PagesKept
    <3>1. /\ page' = [c \in Clients |-> page'[c]]
          /\ \A c \in Clients :
               page'[c] = page[c] \/ page'[c] = [page[c] EXCEPT !.events = events(c)]
      BY <2>1
    <3>2. PagesKept /\ PagesShape'
      BY <3>1 DEF InputIInv, Shape, IvShape, PagesShape, PagesKept
    <3>3. IvShape'
      BY <2>1, Zenon DEF InputIInv, Shape, IvShape, PagesShape
    <3> QED
      BY <2>3, <3>1, <3>2, <3>3, Zenon DEF InputIInv, Shape
  <2>5. PageIsLive'
    BY <2>2, <2>3, <2>4 DEF InputIInv, PageIsLive, PagesKept
  <2>6. Ordered
    BY <2>2, <2>3 DEF Ordered, InputIInv, Shape, IvShape, PagesShape
  <2> QED
    BY <2>4, <2>5, <2>6 DEF InputIInv
<1>5. CASE pump_returns
  <2>1. Shape' /\ ClientsKept /\ PagesKept
    BY <1>5, Zenon DEF pump_returns, InputIInv, Shape, IvShape, PagesShape, ClientsKept, PagesKept
  <2> QED
    BY <2>1, KeptStep
<1> QED
  BY <1>1, <1>2, <1>3, <1>4, <1>5, Zenon DEF input_virt

\* The requests of a VMM that the virtualizer answers.
LEMMA RebindStep ==
    ASSUME InputIInv, NEW d \in Clients, aos_input_rebind_retire(d) \/ rebind(d)
    PROVE  InputIInv' /\ Ordered
<1>1. CASE aos_input_rebind_retire(d) /\ d \in iv.allowed
  <2>1. /\ iv' = [Retired({d}) EXCEPT !.pc = "detach"]
        /\ page' = [page EXCEPT ![d] = [Acked(page[d]) EXCEPT !.live = FALSE]]
    BY <1>1, Zenon DEF aos_input_rebind_retire
  <2>2. /\ iv'.allowed = iv.allowed \ {d} /\ iv'.retired = iv.retired \cup {d}
        /\ iv'.releasing = iv.releasing \ {d}
        /\ iv'.held = [c \in Clients |-> IF c \in {d} THEN {} ELSE iv.held[c]]
    BY <2>1 DEF Retired, InputIInv, Shape, IvShape, PagesShape
  <2>3. Shape'
    BY <2>1, <2>2, ZenonT(60) DEF Retired, Acked, InputIInv, Shape, IvShape, PagesShape
  <2>4. \A c \in Clients \ {d} : page'[c] = page[c]
    BY <2>1 DEF InputIInv, Shape, IvShape, PagesShape
  <2>5. PageIsLive'
    BY <2>2, <2>4 DEF InputIInv, PageIsLive
  <2>6. Ordered
    BY <2>2 DEF Ordered, InputIInv, Shape, IvShape, PagesShape
  <2> QED
    BY <2>3, <2>5, <2>6 DEF InputIInv
<1>2. CASE aos_input_rebind_retire(d) /\ d \notin iv.allowed
  <2>1. /\ iv' = [iv EXCEPT !.pc = "detach"]
        /\ page' = [page EXCEPT ![d] = [Acked(page[d]) EXCEPT !.live = FALSE]]
    BY <1>2 DEF aos_input_rebind_retire
  <2>2. ClientsKept
    BY <2>1 DEF ClientsKept, InputIInv, Shape, IvShape, PagesShape
  <2>3. Shape'
    BY <2>1, <2>2, ZenonT(60) DEF Acked, ClientsKept, InputIInv, Shape, IvShape, PagesShape
  <2>4. \A c \in Clients \ {d} : page'[c] = page[c]
    BY <2>1 DEF InputIInv, Shape, IvShape, PagesShape
  <2>5. PageIsLive' /\ Ordered
    BY <1>2, <2>2, <2>4, Zenon DEF InputIInv, PageIsLive, Ordered, ClientsKept
  <2> QED
    BY <2>3, <2>5 DEF InputIInv
<1>3. CASE rebind(d) /\ UNCHANGED page /\ iv' = [iv EXCEPT !.pc = "detach"]
  <2>1. Shape' /\ ClientsKept /\ PagesKept
    BY <1>3 DEF InputIInv, Shape, IvShape, PagesShape, ClientsKept, PagesKept
  <2> QED
    BY <2>1, KeptStep
<1>4. CASE /\ rebind(d) /\ RebindValid(d) /\ page' = [page EXCEPT ![d] = FreshPage]
           /\ iv' = [iv EXCEPT !.pc = "detach", !.allowed = @ \cup {d}, !.retired = @ \ {d},
                               !.generation[d] = @ + 1]
  <2>1. /\ iv'.allowed = iv.allowed \cup {d} /\ iv'.retired = iv.retired \ {d}
        /\ iv'.releasing = iv.releasing /\ iv'.held = iv.held
    BY <1>4 DEF InputIInv, Shape, IvShape, PagesShape
  <2>2. Shape'
    BY <1>4, <2>1, ZenonT(60) DEF FreshPage, InputIInv, Shape, IvShape, PagesShape
  <2>3. \A c \in Clients : page'[c] = IF c = d THEN FreshPage ELSE page[c]
    BY <1>4 DEF InputIInv, Shape, IvShape, PagesShape
  <2>4. PageIsLive' /\ Ordered
    BY <2>1, <2>3 DEF FreshPage, InputIInv, PageIsLive, Ordered
  <2> QED
    BY <2>2, <2>4 DEF InputIInv
<1> QED
  BY <1>1, <1>2, <1>3, <1>4, Zenon DEF rebind

\* The console touches neither clients nor pages.
LEMMA ConsoleStep ==
    ASSUME InputIInv,
           \/ \E c \in Clients, events \in Batches \cup {<<>>} : handle_input_submit(c, events)
           \/ close_pending
           \/ console
    PROVE  InputIInv' /\ Ordered
<1>1. UNCHANGED <<iv, page>>
  BY Zenon DEF handle_input_submit, close_pending, console, cc_release_disconnected_input,
         cc_signal, aos_input_receive, cc_wait
<1>2. Shape' /\ ClientsKept /\ PagesKept
  BY <1>1 DEF InputIInv, Shape, IvShape, PagesShape, ClientsKept, PagesKept
<1> QED
  BY <1>2, KeptStep

\* A VMM takes events from its page, and takes the page back once the detach is
\* acknowledged, when the virtualizer has forgotten the client.
LEMMA VmmStep ==
    ASSUME InputIInv, NEW d \in Clients,
           \/ guest_vmm_suspend_resume(d) \/ aos_vmm_virtio_input_detach(d)
           \/ guest_vmm_fault(d) \/ guest_vmm_notified(d)
    PROVE  InputIInv' /\ Ordered
<1>1. UNCHANGED iv
  BY Zenon DEF guest_vmm_suspend_resume, aos_vmm_virtio_input_detach, guest_vmm_fault, guest_vmm_notified
<1>2. CASE UNCHANGED page
  <2>1. Shape' /\ ClientsKept /\ PagesKept
    BY <1>1, <1>2 DEF InputIInv, Shape, IvShape, PagesShape, ClientsKept, PagesKept
  <2> QED
    BY <2>1, KeptStep
<1>3. ASSUME NEW n \in Nat, virtio_input_drain(d, n) PROVE InputIInv' /\ Ordered
  <2> DEFINE rest == SubSeq(page[d].events, n + 1, Len(page[d].events))
  <2>1. page' = [page EXCEPT ![d].events = rest]
    BY <1>3 DEF virtio_input_drain
  <2> HIDE DEF rest
  <2>2. Shape' /\ ClientsKept /\ PagesKept
    BY <1>1, <2>1, SMTT(60) DEF InputIInv, Shape, IvShape, PagesShape, ClientsKept, PagesKept
  <2> QED
    BY <2>2, KeptStep
<1>4. CASE aos_vmm_virtio_input_detach(d)
  <2>1. page' = [page EXCEPT ![d].request = TRUE, ![d].live = ~page[d].ack]
    BY <1>4 DEF aos_vmm_virtio_input_detach, Acknowledged
  <2>2. Shape'
    BY <1>1, <2>1, ZenonT(60) DEF InputIInv, Shape, IvShape, PagesShape
  <2>3. \A c \in Clients : /\ page'[c].ack = page[c].ack
                           /\ c \in iv.allowed => page'[c].live
    <3>1. CASE d \in iv.allowed
      <4>1. page' = [page EXCEPT ![d].request = TRUE, ![d].live = TRUE]
        BY <2>1, <3>1, Zenon DEF InputIInv, PageIsLive
      <4> QED
        BY <4>1 DEF InputIInv, Shape, IvShape, PagesShape, PageIsLive
    <3>2. CASE d \notin iv.allowed
      BY <2>1, <3>2 DEF InputIInv, Shape, IvShape, PagesShape, PageIsLive
    <3> QED
      BY <3>1, <3>2
  <2>4. PageIsLive' /\ Ordered
    BY <1>1, <2>3 DEF InputIInv, PageIsLive, Ordered
  <2> QED
    BY <2>2, <2>4 DEF InputIInv
<1>5. CASE guest_vmm_fault(d)
  <2>1. PICK n \in 1 .. Len(page[d].events) : virtio_input_drain(d, n)
    BY <1>5 DEF guest_vmm_fault
  <2> QED
    BY <2>1, <1>3
<1>6. CASE guest_vmm_notified(d)
  <2>1. PICK n \in 0 .. (IF vm[d].phase = "running" THEN Len(page[d].events) ELSE 0) :
               virtio_input_drain(d, n)
    BY <1>6, Zenon DEF guest_vmm_notified
  <2> QED
    BY <2>1, <1>3
<1> QED
  BY <1>2, <1>4, <1>5, <1>6, Zenon DEF guest_vmm_suspend_resume

\* The invariant is inductive, and every step keeps the order.
LEMMA InputNext == InputIInv /\ [Next]_vars => InputIInv' /\ [Ordered]_vars
<1> SUFFICES ASSUME InputIInv, [Next]_vars PROVE InputIInv' /\ [Ordered]_vars
  OBVIOUS
<1>1. CASE Next
  BY <1>1, InputVirtStep, ConsoleStep, RebindStep, VmmStep, InputAssumption, Zenon
     DEF Next, input_virt, console
<1>2. CASE UNCHANGED vars
  BY <1>2 DEF vars, InputIInv, Shape, IvShape, PagesShape, PageIsLive
<1> QED
  BY <1>1, <1>2

-----------------------------------------------------------------------------
\* The virtualizer uses a client's page only while the VMM keeps it, and forgets
\* what it acknowledges, for any number of clients (input-virt/service.c
\* detach_pending, rebind_service.c).
THEOREM PageIsLiveHolds == Spec => []PageIsLive
<1>1. InputIInv => PageIsLive
  BY DEF InputIInv
<1> QED
  BY InputInit, InputNext, <1>1, PTL DEF Spec

\* Nothing new is held while a release is outstanding, for any number of clients
\* and any batches (service.c deliver).
THEOREM ReleaseIsOrderedHolds == Spec => ReleaseIsOrdered
<1>1. [Ordered]_vars => [\A c \in iv.releasing : iv'.held[c] \subseteq iv.held[c]]_vars
  BY DEF Ordered
<1> QED
  BY InputInit, InputNext, <1>1, PTL DEF Spec, ReleaseIsOrdered


-----------------------------------------------------------------------------
(* Running events one after another.                                        *)

\* The events of `s` then those of `t` come to the same as all in one run.
LEMMA AfterBoth ==
    ASSUME NEW S, NEW s \in Seq(S), NEW t \in Seq(S), NEW down
    PROVE  AfterAll(down, s \o t) = AfterAll(AfterAll(down, s), t)
<1> DEFINE n == Len(s)
           m == Len(t)
           w == s \o t
<1>1. /\ n \in Nat /\ m \in Nat /\ DOMAIN s = 1 .. n /\ DOMAIN t = 1 .. m /\ DOMAIN w = 1 .. n + m
      /\ \A i \in 1 .. n : w[i] = s[i]
      /\ \A i \in 1 .. m : w[n + i] = t[i]
  OBVIOUS
<1> SUFFICES ASSUME NEW k \in Keys
             PROVE  k \in AfterAll(down, w) <=> k \in AfterAll(AfterAll(down, s), t)
  BY Zenon DEF AfterAll
<1> HIDE DEF n, m, w
<1>2. CASE \E j \in 1 .. m : Changes(t[j], k)
  <2>1. PICK j \in 1 .. m : Changes(t[j], k)
    BY <1>2
  <2>2. n + j \in 1 .. n + m /\ Changes(w[n + j], k) /\ \A i \in 1 .. n : n + j > i
    BY <2>1, <1>1
  <2>3. k \in AfterAll(AfterAll(down, s), t) <=>
          \E i \in 1 .. m : t[i] = Press(k) /\ \A h \in 1 .. m : h > i => ~Changes(t[h], k)
    BY <2>1, <1>1, Zenon DEF AfterAll
  <2>4. k \in AfterAll(down, w) <=>
          \E i \in 1 .. n + m : w[i] = Press(k) /\ \A h \in 1 .. n + m : h > i => ~Changes(w[h], k)
    BY <2>2, <1>1, Zenon DEF AfterAll
  <2>5. ASSUME NEW i \in 1 .. m, t[i] = Press(k), \A h \in 1 .. m : h > i => ~Changes(t[h], k)
        PROVE  k \in AfterAll(down, w)
    <3>1. n + i \in 1 .. n + m /\ w[n + i] = Press(k)
      BY <2>5, <1>1
    <3>2. ASSUME NEW h \in 1 .. n + m, h > n + i PROVE ~Changes(w[h], k)
      <4>1. PICK g \in 1 .. m : h = n + g /\ g > i
        <5>1. h - n \in 1 .. m /\ h = n + (h - n) /\ h - n > i
          BY <3>2, <1>1
        <5> QED
          BY <5>1
      <4> QED
        BY <4>1, <2>5, <1>1, Zenon
    <3> QED
      BY <3>1, <3>2, <2>4
  <2>6. ASSUME NEW i \in 1 .. n + m, w[i] = Press(k), \A h \in 1 .. n + m : h > i => ~Changes(w[h], k)
        PROVE  k \in AfterAll(AfterAll(down, s), t)
    <3>1. i \notin 1 .. n
      BY <2>2, <2>6
    <3>2. PICK g \in 1 .. m : i = n + g
      <4>1. i - n \in 1 .. m /\ i = n + (i - n)
        BY <3>1, <1>1
      <4> QED
        BY <4>1
    <3>3. t[g] = Press(k)
      BY <3>2, <2>6, <1>1
    <3>4. ASSUME NEW h \in 1 .. m, h > g PROVE ~Changes(t[h], k)
      <4>1. n + h \in 1 .. n + m /\ n + h > i /\ w[n + h] = t[h]
        BY <3>2, <3>4, <1>1
      <4> QED
        BY <4>1, <2>6
    <3> QED
      BY <3>3, <3>4, <2>3
  <2> QED
    BY <2>3, <2>4, <2>5, <2>6, Zenon
<1>3. CASE \A j \in 1 .. m : ~Changes(t[j], k)
  <2>1. \A j \in 1 .. m : t[j] # Press(k)
    BY <1>3 DEF Changes, Press
  <2>2. k \in AfterAll(AfterAll(down, s), t) <=> k \in AfterAll(down, s)
    BY <1>1, <1>3, <2>1, Zenon DEF AfterAll
  <2>3. \A h \in 1 .. n + m : (h \in 1 .. n /\ w[h] = s[h]) \/ ~Changes(w[h], k)
    <3> SUFFICES ASSUME NEW h \in 1 .. n + m, h \notin 1 .. n PROVE ~Changes(w[h], k)
      BY <1>1
    <3>1. h - n \in 1 .. m /\ h = n + (h - n)
      BY <1>1
    <3> QED
      BY <3>1, <1>1, <1>3
  <2>4. \A i \in 1 .. n : i \in 1 .. n + m /\ w[i] = s[i]
    BY <1>1
  <2>5. Changes(Press(k), k)
    BY DEF Changes, Press
  <2>6. /\ (\A i \in DOMAIN w : ~Changes(w[i], k)) <=> (\A i \in DOMAIN s : ~Changes(s[i], k))
        /\ (\E i \in DOMAIN w : w[i] = Press(k) /\ \A j \in DOMAIN w : j > i => ~Changes(w[j], k))
           <=> (\E i \in DOMAIN s : s[i] = Press(k) /\ \A j \in DOMAIN s : j > i => ~Changes(s[j], k))
    <3>1. (\A i \in DOMAIN w : ~Changes(w[i], k)) <=> (\A i \in DOMAIN s : ~Changes(s[i], k))
      BY <1>1, <2>3, <2>4
    <3>2. ASSUME NEW i \in DOMAIN w, w[i] = Press(k),
                 \A j \in DOMAIN w : j > i => ~Changes(w[j], k)
          PROVE  \E h \in DOMAIN s : s[h] = Press(k) /\ \A j \in DOMAIN s : j > h => ~Changes(s[j], k)
      <4>1. i \in DOMAIN s /\ s[i] = Press(k)
        BY <3>2, <1>1, <2>3, <2>5
      <4>2. \A j \in DOMAIN s : j > i => ~Changes(s[j], k)
        BY <3>2, <1>1, <2>4
      <4> QED
        BY <4>1, <4>2
    <3>3. ASSUME NEW i \in DOMAIN s, s[i] = Press(k),
                 \A j \in DOMAIN s : j > i => ~Changes(s[j], k)
          PROVE  \E h \in DOMAIN w : w[h] = Press(k) /\ \A j \in DOMAIN w : j > h => ~Changes(w[j], k)
      <4>1. i \in DOMAIN w /\ w[i] = Press(k)
        BY <3>3, <1>1, <2>4
      <4>2. \A j \in DOMAIN w : j > i => ~Changes(w[j], k)
        BY <3>3, <1>1, <2>3
      <4> QED
        BY <4>1, <4>2
    <3> QED
      BY <3>1, <3>2, <3>3
  <2>7. k \in AfterAll(down, w) <=> k \in AfterAll(down, s)
    BY <2>6, Zenon DEF AfterAll
  <2> QED
    BY <2>2, <2>7
<1> QED
  BY <1>2, <1>3

\* No events, and a SYN, change nothing.
LEMMA AfterNothing ==
    ASSUME NEW down \in SUBSET Keys
    PROVE  AfterAll(down, <<>>) = down /\ AfterAll(down, <<SYN>>) = down
<1>1. DOMAIN <<>> = {}
  OBVIOUS
<1>2. DOMAIN <<SYN>> = {1} /\ <<SYN>>[1] = SYN
  OBVIOUS
<1>3. \A k \in Keys : ~Changes(SYN, k) /\ SYN # Press(k)
  BY InputAssumption DEF Changes, SYN, Press
<1>4. AfterAll(down, <<>>) = down
  BY <1>1 DEF AfterAll
<1>5. AfterAll(down, <<SYN>>) = down
  <2> DEFINE y == <<SYN>>
  <2>1. DOMAIN y = {1} /\ y[1] = SYN
    BY <1>2
  <2> HIDE DEF y
  <2>2. AfterAll(down, y) = down
    BY <2>1, <1>3, Zenon DEF AfterAll
  <2> QED
    BY <2>2 DEF y
<1> QED
  BY <1>4, <1>5

\* Releases take their keys away.
LEMMA AfterReleases ==
    ASSUME NEW down \in SUBSET Keys, NEW n \in Nat, NEW f
    PROVE  AfterAll(down, [i \in 1 .. n |-> Release(f[i])]) = down \ {f[i] : i \in 1 .. n}
<1> DEFINE s == [i \in 1 .. n |-> Release(f[i])]
<1>1. DOMAIN s = 1 .. n /\ \A i \in 1 .. n : s[i] = Release(f[i])
  OBVIOUS
<1>2. \A i \in 1 .. n, k \in Keys : s[i] # Press(k) /\ (Changes(s[i], k) <=> f[i] = k)
  BY <1>1 DEF Changes, Press, Release
<1> HIDE DEF s
<1>3. AfterAll(down, s) = down \ {f[i] : i \in 1 .. n}
  BY <1>1, <1>2, Zenon DEF AfterAll
<1> QED
  BY <1>3 DEF s

\* What the guest takes and what it leaves in the queue make up the queue.
LEMMA AfterSplit ==
    ASSUME NEW S, NEW s \in Seq(S), NEW n \in 0 .. Len(s), NEW down
    PROVE  AfterAll(AfterAll(down, SubSeq(s, 1, n)), SubSeq(s, n + 1, Len(s))) = AfterAll(down, s)
<1> DEFINE u == SubSeq(s, 1, n)
           v == SubSeq(s, n + 1, Len(s))
<1>1. /\ u \in Seq(S) /\ v \in Seq(S) /\ Len(u) = n /\ Len(v) = Len(s) - n
      /\ \A i \in 1 .. n : u[i] = s[i]
      /\ \A i \in 1 .. Len(s) - n : v[i] = s[n + i]
  OBVIOUS
<1> HIDE DEF u, v
<1>2. /\ u \o v \in Seq(S) /\ Len(u \o v) = Len(s)
      /\ \A i \in 1 .. Len(s) : (u \o v)[i] = IF i <= n THEN u[i] ELSE v[i - n]
  BY <1>1
<1>3. \A i \in 1 .. Len(s) : (u \o v)[i] = s[i]
  BY <1>1, <1>2
<1>4. u \o v = s
  BY <1>2, <1>3, SeqEqual, Zenon
<1>5. AfterAll(AfterAll(down, u), v) = AfterAll(down, u \o v)
  BY <1>1, AfterBoth
<1> QED
  BY <1>4, <1>5, Zenon DEF u, v

-----------------------------------------------------------------------------
(* What the guests see and what is queued for them.                        *)

\* `s` is a sequence, whatever its elements.
IsQueue(s) == s \in Seq(Range(s))

\* The requests are batches or releases, and those the pump has counted are there.
RequestsOK ==
    /\ IsQueue(req) /\ iv.todo \in 0 .. Len(req)
    /\ \A i \in 1 .. Len(req) : req[i].events \in Batches \cup {<<>>}

\* The VMMs' records have their fields.
VmShape ==
    /\ vm = [c \in Clients |-> vm[c]]
    /\ \A c \in Clients : vm[c] = [phase |-> vm[c].phase, down |-> vm[c].down,
                                   failed |-> vm[c].failed]

\* Queues are sequences, and only keys are held or seen down.
KeysOK ==
    \A c \in Clients : /\ IsQueue(page[c].events)
                       /\ iv.held[c] \subseteq Keys /\ vm[c].down \subseteq Keys

\* The inductive invariant for HeldStateIsExact, with InputIInv: a client that is
\* attached anew has nothing held, one whose page goes is no longer attached, and
\* a counted request is there to be answered.
HeldInv == RequestsOK /\ VmShape /\ KeysOK /\ HeldStateIsExact

\* One client's part of HeldStateIsExact.
Exact(c) ==
    /\ AfterAll(vm[c].down, page[c].events) = iv.held[c]
    /\ Len(page[c].events) <= EventCap
    /\ page[c].events # <<>> => Last(page[c].events) = SYN

\* HeldStateIsExact, client by client.
LEMMA ExactIs == HeldStateIsExact <=> \A c \in iv.allowed : Exact(c)
BY DEF HeldStateIsExact, Exact

\* Every sequence is a queue.
LEMMA QueueType == ASSUME NEW S, NEW s \in Seq(S) PROVE IsQueue(s)
BY SeqOfRange DEF IsQueue

\* So is the empty one.
LEMMA EmptyQueue == IsQueue(<<>>) /\ Len(<<>>) = 0
<1>1. <<>> \in Seq(Nat) /\ Len(<<>>) = 0
  OBVIOUS
<1> QED
  BY <1>1, QueueType, Zenon

\* Nothing is held, queued or seen down at the start.
LEMMA HeldInit == Init => HeldInv
<1> SUFFICES ASSUME Init PROVE HeldInv
  OBVIOUS
<1>1. IsQueue(<<>>)
  BY EmptyQueue
<1>2. /\ req = <<>> /\ iv.todo = 0
      /\ \A c \in Clients : /\ page[c].events = <<>> /\ iv.held[c] = {} /\ vm[c].down = {}
      /\ iv.allowed = Clients
  BY DEF Init, FreshPage
<1>3. VmShape
  BY DEF Init, VmShape
<1>4. RequestsOK /\ KeysOK
  BY <1>1, <1>2 DEF RequestsOK, KeysOK
<1>5. HeldStateIsExact
  <2>1. AfterAll({}, <<>>) = {}
    BY AfterNothing
  <2>2. 0 <= EventCap
    BY InputAssumption
  <2> QED
    BY <1>2, <2>1, <2>2, EmptyQueue, Zenon DEF HeldStateIsExact
<1> QED
  BY <1>3, <1>4, <1>5 DEF HeldInv

\* The requests stay as they are.
LEMMA RequestsSame == RequestsOK /\ req' = req /\ iv'.todo = iv.todo => RequestsOK'
BY DEF RequestsOK

\* The console adds a request.
LEMMA RequestAdded ==
    ASSUME RequestsOK, NEW q, q.events \in Batches \cup {<<>>}, req' = Append(req, q),
           iv'.todo = iv.todo
    PROVE  RequestsOK'
<1> DEFINE S == Range(req) \cup {q}
<1>1. req \in Seq(S)
  BY SeqMonotonic, SMTT(20) DEF RequestsOK, IsQueue
<1>2. /\ req' \in Seq(S) /\ Len(req') = Len(req) + 1
      /\ \A i \in 1 .. Len(req) : req'[i] = req[i]
      /\ req'[Len(req) + 1] = q
  BY <1>1, AppendProperties
<1> HIDE DEF S
<1>3. IsQueue(req')
  BY <1>2, QueueType, Zenon
<1>4. Len(req) \in Nat
  BY <1>1
<1>5. \A i \in 1 .. Len(req') : req'[i].events \in Batches \cup {<<>>}
  <2> SUFFICES ASSUME NEW i \in 1 .. Len(req') PROVE req'[i].events \in Batches \cup {<<>>}
    OBVIOUS
  <2>1. CASE i \in 1 .. Len(req)
    BY <2>1, <1>2 DEF RequestsOK
  <2>2. CASE i = Len(req) + 1
    BY <2>2, <1>2
  <2> QED
    BY <2>1, <2>2, <1>2, <1>4, SMTT(60)
<1> QED
  BY <1>2, <1>3, <1>4, <1>5 DEF RequestsOK

\* A step after which every client still attached has its queue, its keys and
\* what its guest sees as before.
LEMMA HeldKept ==
    ASSUME InputIInv, HeldInv, RequestsOK', VmShape', iv'.allowed \subseteq iv.allowed,
           \A c \in Clients :
               /\ page'[c].events \in {page[c].events, <<>>}
               /\ iv'.held[c] \in {iv.held[c], {}}
               /\ vm'[c].down \in {vm[c].down, {}},
           \A c \in iv'.allowed :
               /\ page'[c].events = page[c].events
               /\ iv'.held[c] = iv.held[c] /\ vm'[c].down = vm[c].down
    PROVE  HeldInv'
<1>1. IsQueue(<<>>)
  BY EmptyQueue
<1>2. KeysOK'
  BY <1>1 DEF HeldInv, KeysOK
<1>3. HeldStateIsExact'
  BY ExactIs DEF HeldInv, HeldStateIsExact
<1> QED
  BY <1>2, <1>3 DEF HeldInv

\* A step of one client `d`.
LEMMA HeldOne ==
    ASSUME InputIInv, HeldInv, RequestsOK', VmShape', NEW d \in Clients,
           iv'.allowed \subseteq iv.allowed \cup {d},
           \A c \in Clients \ {d} : /\ page'[c].events = page[c].events
                                    /\ iv'.held[c] = iv.held[c] /\ vm'[c].down = vm[c].down,
           IsQueue(page'[d].events), iv'.held[d] \subseteq Keys, vm'[d].down \subseteq Keys,
           d \in iv'.allowed => Exact(d)'
    PROVE  HeldInv'
<1>1. KeysOK'
  BY DEF HeldInv, KeysOK
<1>2. \A c \in iv'.allowed : Exact(c)'
  <2> SUFFICES ASSUME NEW c \in iv'.allowed, c # d PROVE Exact(c)'
    OBVIOUS
  <2>1. c \in Clients /\ c \in iv.allowed
    BY DEF InputIInv, Shape
  <2>2. Exact(c)
    BY <2>1, ExactIs DEF HeldInv
  <2> QED
    BY <2>1, <2>2 DEF Exact
<1>3. HeldStateIsExact'
  BY <1>2 DEF HeldStateIsExact, Exact
<1> QED
  BY <1>1, <1>3 DEF HeldInv

\* Steps that change no queue, no keys and no guest.
LEMMA HeldQuiet ==
    ASSUME InputIInv, HeldInv,
           \/ input_virt_notified \/ pump_returns \/ close_pending \/ cc_signal
           \/ aos_input_receive \/ cc_wait
    PROVE  HeldInv'
<1>1. req' = req /\ page' = page /\ vm' = vm
  BY Zenon DEF input_virt_notified, pump_returns, close_pending, cc_signal, aos_input_receive, cc_wait
<1>2. iv'.todo = iv.todo /\ iv'.allowed = iv.allowed /\ iv'.held = iv.held
  <2>1. CASE input_virt_notified
    BY <2>1 DEF input_virt_notified, InputIInv, Shape, IvShape
  <2>2. CASE pump_returns
    <3>1. PICK pc, pr : iv' = [iv EXCEPT !.pc = pc, !.ready = {}, !.progress = pr]
      BY <2>2, Zenon DEF pump_returns
    <3> QED
      BY <3>1 DEF InputIInv, Shape, IvShape
  <2>3. CASE close_pending \/ cc_signal \/ aos_input_receive \/ cc_wait
    BY <2>3, Zenon DEF close_pending, cc_signal, aos_input_receive, cc_wait
  <2> QED
    BY <2>1, <2>2, <2>3
<1>3. RequestsOK' /\ VmShape'
  BY <1>1, <1>2, RequestsSame DEF HeldInv, VmShape
<1> QED
  BY <1>1, <1>2, <1>3, HeldKept, Zenon

\* The console's requests.
LEMMA HeldSubmit ==
    ASSUME InputIInv, HeldInv,
           \/ \E c \in Clients, events \in Batches \cup {<<>>} : handle_input_submit(c, events)
           \/ cc_release_disconnected_input
    PROVE  HeldInv'
<1>1. iv' = iv /\ page' = page /\ vm' = vm
  BY Zenon DEF handle_input_submit, cc_release_disconnected_input
<1>2. RequestsOK'
  <2>1. CASE UNCHANGED req
    BY <2>1, <1>1, RequestsSame DEF HeldInv
  <2>2. ASSUME NEW c, NEW events \in Batches \cup {<<>>},
               aos_input_submit([client |-> c, events |-> events])
        PROVE  RequestsOK'
    <3>1. req' = Append(req, [client |-> c, events |-> events])
      BY <2>2 DEF aos_input_submit
    <3>2. [client |-> c, events |-> events].events \in Batches \cup {<<>>}
      OBVIOUS
    <3> QED
      BY <3>1, <3>2, <1>1, RequestAdded, Zenon DEF HeldInv
  <2>3. CASE cc_release_disconnected_input
    BY <2>1, <2>2, <2>3, Zenon DEF cc_release_disconnected_input
  <2> QED
    BY <2>2, <2>3, Zenon DEF handle_input_submit
<1>3. VmShape'
  BY <1>1 DEF HeldInv, VmShape
<1> QED
  BY <1>1, <1>2, <1>3, HeldKept, Zenon

\* The clients that are detached are forgotten with all their keys.
LEMMA HeldDetach == ASSUME InputIInv, HeldInv, detach_pending PROVE HeldInv'
<1> DEFINE who == {c \in iv.allowed : Detaching(c)}
<1>1. /\ iv' = [Retired(who) EXCEPT !.pc = "requests", !.todo = Len(req),
                                    !.ready = who, !.progress = who # {}]
      /\ page' = [c \in Clients |-> IF c \in who THEN Acked(page[c]) ELSE page[c]]
      /\ req' = req /\ vm' = vm
  BY DEF detach_pending
<1> HIDE DEF who
<1>2. /\ iv'.allowed = iv.allowed \ who /\ iv'.todo = Len(req)
      /\ iv'.held = [c \in Clients |-> IF c \in who THEN {} ELSE iv.held[c]]
  BY <1>1 DEF Retired, InputIInv, Shape, IvShape, PagesShape
<1>3. \A c \in Clients : page'[c].events = IF c \in who THEN <<>> ELSE page[c].events
  <2> SUFFICES ASSUME NEW c \in Clients
               PROVE  page'[c].events = IF c \in who THEN <<>> ELSE page[c].events
    OBVIOUS
  <2>1. page[c] = [live |-> page[c].live, events |-> page[c].events,
                   request |-> page[c].request, ack |-> page[c].ack]
    BY DEF InputIInv, Shape, PagesShape
  <2>2. Acked(page[c]).events = <<>>
    BY <2>1, Zenon DEF Acked
  <2> QED
    BY <1>1, <2>2
<1>4. Len(req) \in Nat
  BY LenProperties DEF HeldInv, RequestsOK, IsQueue
<1>5. RequestsOK'
  BY <1>1, <1>2, <1>4, SMTT(60) DEF HeldInv, RequestsOK
<1>6. VmShape'
  BY <1>1 DEF HeldInv, VmShape
<1>7. iv'.allowed \subseteq iv.allowed /\ iv'.allowed \subseteq Clients
  BY <1>2 DEF InputIInv, Shape
<1>8. \A c \in Clients :
               /\ page'[c].events \in {page[c].events, <<>>}
               /\ iv'.held[c] \in {iv.held[c], {}}
               /\ vm'[c].down \in {vm[c].down, {}}
  BY <1>1, <1>2, <1>3, Zenon
<1>9. \A c \in iv'.allowed :
               /\ page'[c].events = page[c].events
               /\ iv'.held[c] = iv.held[c] /\ vm'[c].down = vm[c].down
  BY <1>1, <1>2, <1>3, <1>7, Zenon
<1> QED
  BY <1>5, <1>6, <1>7, <1>8, <1>9, HeldKept, ZenonT(60)

\* A batch in a queue that has room for it: the events add to the guest's view
\* what they add to the held keys.
LEMMA BatchQueued ==
    ASSUME NEW S, NEW ev \in Seq(S), NEW b \in Seq(S), SYN \in S,
           NEW down \in SUBSET Keys, AfterAll(down, ev) \in SUBSET Keys,
           Len(ev) + Len(b) + 1 <= EventCap
    PROVE  LET all == ev \o b \o <<SYN>>
           IN  /\ all \in Seq(S) /\ Len(all) <= EventCap /\ Last(all) = SYN
               /\ AfterAll(down, all) = AfterAll(AfterAll(down, ev), b)
<1> DEFINE all == ev \o b \o <<SYN>>
<1>1. ev \o b \in Seq(S) /\ Len(ev \o b) = Len(ev) + Len(b) /\ Len(ev) + Len(b) \in Nat
  OBVIOUS
<1>2. <<SYN>> \in Seq(S) /\ Len(<<SYN>>) = 1 /\ <<SYN>>[1] = SYN
  OBVIOUS
<1>3. /\ all \in Seq(S) /\ Len(all) = Len(ev) + Len(b) + 1
      /\ all[Len(ev) + Len(b) + 1] = SYN
  BY <1>1, <1>2, SMTT(60)
<1>4. AfterAll(down, all) = AfterAll(AfterAll(AfterAll(down, ev), b), <<SYN>>)
  <2>1. AfterAll(down, all) = AfterAll(AfterAll(down, ev \o b), <<SYN>>)
    BY <1>1, <1>2, AfterBoth, ZenonT(60)
  <2>2. AfterAll(down, ev \o b) = AfterAll(AfterAll(down, ev), b)
    BY AfterBoth
  <2> QED
    BY <2>1, <2>2
<1>5. AfterAll(AfterAll(down, ev), b) \in SUBSET Keys
  BY DEF AfterAll
<1>6. AfterAll(AfterAll(AfterAll(down, ev), b), <<SYN>>) = AfterAll(AfterAll(down, ev), b)
  BY <1>5, AfterNothing, Zenon
<1>7. Last(all) = SYN
  BY <1>3 DEF Last
<1>8. Len(all) <= EventCap
  BY <1>3
<1> QED
  BY <1>3, <1>4, <1>6, <1>7, <1>8, Zenon

\* The smallest of three numbers.
LEMMA MinOfThree ==
    ASSUME NEW a \in Int, NEW b \in Int, NEW c \in Int
    PROVE  /\ Min({a, b, c}) \in {a, b, c}
           /\ Min({a, b, c}) <= a /\ Min({a, b, c}) <= b /\ Min({a, b, c}) <= c
<1> DEFINE S == {a, b, c}
<1>1. \E x \in S : \A y \in S : x <= y
  <2>1. CASE a <= b /\ a <= c
    BY <2>1
  <2>2. CASE b <= a /\ b <= c
    BY <2>2
  <2>3. CASE c <= a /\ c <= b
    BY <2>3
  <2> QED
    BY <2>1, <2>2, <2>3, SMTT(60)
<1>2. Min(S) \in S /\ \A y \in S : Min(S) <= y
  BY <1>1, Zenon DEF Min
<1> QED
  BY <1>2

\* The larger of two numbers.
LEMMA MaxOfTwo ==
    ASSUME NEW a \in Int, NEW b \in Int
    PROVE  /\ Max({a, b}) \in {a, b} /\ Max({a, b}) >= a /\ Max({a, b}) >= b
<1> DEFINE S == {a, b}
<1>1. \E x \in S : \A y \in S : x >= y
  <2>1. CASE a >= b
    BY <2>1
  <2>2. CASE b >= a
    BY <2>2
  <2> QED
    BY <2>1, <2>2
<1>2. Max(S) \in S /\ \A y \in S : Max(S) >= y
  BY <1>1, Zenon DEF Max
<1> QED
  BY <1>2

\* A pass releases only what fits, with its SYN.
LEMMA FittingFits ==
    ASSUME HeldInv, NEW c \in Clients
    PROVE  /\ Fitting(c) \in Nat
           /\ Fitting(c) > 0 => Len(page[c].events) + Fitting(c) + 1 <= EventCap
<1>1. Cardinality(iv.held[c]) \in Nat
  <2>1. IsFiniteSet(iv.held[c])
    BY InputAssumption, FS_Subset DEF HeldInv, KeysOK
  <2> QED
    BY <2>1, FS_CardinalityType
<1>2. Len(page[c].events) \in Nat
  BY LenProperties DEF HeldInv, KeysOK, IsQueue
<1> DEFINE room == EventCap - Len(page[c].events) - 1
<1>3. /\ room \in Int /\ EventCap \in Nat /\ BatchEvents - 1 \in Nat
  BY <1>2, InputAssumption
<1>4. Max({room, 0}) \in Nat /\ (Max({room, 0}) > 0 => Max({room, 0}) = room)
  <2> HIDE DEF room
  <2> QED
    BY <1>3, MaxOfTwo
<1> DEFINE k == Cardinality(iv.held[c])
           r == Max({room, 0})
           b == BatchEvents - 1
<1>5. Fitting(c) = Min({k, r, b})
  BY DEF Fitting
<1> HIDE DEF k, r, b
<1>6. k \in Nat /\ r \in Nat /\ b \in Nat /\ (r > 0 => r = room)
  BY <1>1, <1>3, <1>4, Zenon DEF k, r, b
<1>7. Fitting(c) \in {k, r, b} /\ Fitting(c) <= r
  <2>1. k \in Int /\ r \in Int /\ b \in Int
    BY <1>6
  <2>2. Min({k, r, b}) \in {k, r, b} /\ Min({k, r, b}) <= r
    BY <2>1, MinOfThree, Zenon
  <2> QED
    BY <1>5, <2>2, Zenon
<1>8. Fitting(c) \in Nat /\ (Fitting(c) > 0 => Fitting(c) <= room)
  BY <1>6, <1>7 DEF room
<1> QED
  BY <1>8, <1>2, <1>3, SMTT(60)

\* The virtualizer answers a request.
LEMMA HeldDeliver == ASSUME InputIInv, InputIInv', HeldInv, deliver PROVE HeldInv'
<1> DEFINE q == Head(req)
           batch == Status(q) = "OK" /\ q.events # <<>>
<1>1. /\ iv.todo > 0 /\ req' = Tail(req) /\ vm' = vm
      /\ page' = IF ~batch THEN page
                 ELSE [page EXCEPT ![q.client].events = @ \o q.events \o <<SYN>>]
      /\ iv' = [iv EXCEPT !.progress = TRUE, !.todo = @ - 1,
                     !.ready = IF batch THEN @ \cup {q.client} ELSE @,
                     !.releasing = IF Status(q) = "OK" /\ ~batch THEN @ \cup {q.client} ELSE @,
                     !.held[q.client] = IF batch THEN AfterAll(@, q.events) ELSE @]
  BY Zenon DEF deliver
<1>2. /\ req \in Seq(Range(req)) /\ iv.todo \in 0 .. Len(req) /\ Len(req) \in Nat
      /\ \A i \in 1 .. Len(req) : req[i].events \in Batches \cup {<<>>}
  BY LenProperties DEF HeldInv, RequestsOK, IsQueue
<1>3. req # <<>> /\ q = req[1] /\ 1 \in 1 .. Len(req)
  <2>1. iv.todo > 0
    BY <1>1, Zenon
  <2>2. Len(req) > 0
    BY <1>2, <2>1
  <2> QED
    BY <1>2, <2>2
<1>4. q.events \in Batches \cup {<<>>}
  BY <1>2, <1>3, Zenon
<1>5. /\ req' \in Seq(Range(req)) /\ Len(req') = Len(req) - 1
      /\ \A i \in 1 .. Len(req) - 1 : req'[i] = req[i + 1]
  BY <1>1, <1>2, <1>3, HeadTailProperties, Zenon
<1>6. batch => /\ q.client \in iv.allowed
               /\ Len(page[q.client].events) + Len(q.events) + 1 > EventCap => FALSE
  BY Zenon DEF Status, Blocks
<1> HIDE DEF q, batch
<1>7. /\ iv'.allowed = iv.allowed /\ iv'.todo = iv.todo - 1
      /\ iv'.held = [iv.held EXCEPT ![q.client] =
                        IF batch THEN AfterAll(iv.held[q.client], q.events) ELSE iv.held[q.client]]
  <2> DEFINE held == [iv.held EXCEPT ![q.client] =
                        IF batch THEN AfterAll(iv.held[q.client], q.events) ELSE iv.held[q.client]]
             ready == IF batch THEN iv.ready \cup {q.client} ELSE iv.ready
             releasing == IF Status(q) = "OK" /\ ~batch THEN iv.releasing \cup {q.client}
                          ELSE iv.releasing
  <2>1. iv' = [iv EXCEPT !.progress = TRUE, !.todo = iv.todo - 1, !.ready = ready,
                                !.releasing = releasing, !.held = held]
    BY <1>1, Zenon
  <2> HIDE DEF held, ready, releasing
  <2>2. iv'.allowed = iv.allowed /\ iv'.todo = iv.todo - 1 /\ iv'.held = held
    BY <2>1, Zenon DEF InputIInv, Shape, IvShape
  <2> QED
    BY <2>2 DEF held
<1>8. RequestsOK'
  <2>1. IsQueue(req')
    BY <1>5, QueueType
  <2>2. iv'.todo \in 0 .. Len(req')
    <3>1. iv.todo > 0
      BY <1>1, Zenon
    <3> QED
      BY <1>2, <1>5, <1>7, <3>1
  <2>3. \A i \in 1 .. Len(req') : req'[i].events \in Batches \cup {<<>>}
    BY <1>2, <1>5
  <2> QED
    BY <2>1, <2>2, <2>3, Zenon DEF RequestsOK
<1>9. VmShape'
  BY <1>1, Zenon DEF HeldInv, VmShape
<1>10. CASE ~batch
  <2>1. page' = page /\ \A c \in Clients : iv'.held[c] = iv.held[c]
    BY <1>1, <1>7, <1>10, Zenon DEF InputIInv, Shape
  <2> QED
    BY <2>1, <1>1, <1>7, <1>8, <1>9, HeldKept, ZenonT(60) DEF InputIInv, Shape
<1>11. CASE batch
  <2>0. PICK d : d = q.client
    OBVIOUS
  <2> DEFINE ev == page[d].events
             S == Range(ev) \cup Range(q.events) \cup {SYN}
  <2>1. d \in Clients /\ d \in iv.allowed
    BY <2>0, <1>6, <1>11, Zenon DEF InputIInv, Shape
  <2>2. q.events \in Batches /\ q.events \in Seq([key : Keys, value : 0 .. 2])
    BY <1>4, <1>11, InputAssumption, Zenon DEF batch
  <2>3. ev \in Seq(Range(ev)) /\ q.events \in Seq(Range(q.events))
    BY <2>1, <2>2, SeqOfRange, Zenon DEF HeldInv, KeysOK, IsQueue
  <2>4. ev \in Seq(S) /\ q.events \in Seq(S) /\ SYN \in S
    BY <2>3, SeqMonotonic, SMTT(60)
  <2>5. Exact(d)
    BY <2>1, ExactIs DEF HeldInv
  <2>6. /\ vm[d].down \in SUBSET Keys /\ iv.held[d] \in SUBSET Keys
        /\ AfterAll(vm[d].down, ev) = iv.held[d]
    BY <2>1, <2>5, Zenon DEF HeldInv, KeysOK, Exact
  <2>7. Len(ev) + Len(q.events) + 1 <= EventCap
    <3>1. Len(ev) \in Nat /\ Len(q.events) \in Nat /\ EventCap \in Nat
      BY <2>3, InputAssumption, LenProperties, Zenon
    <3>2. ~(Len(ev) + Len(q.events) + 1 > EventCap)
      BY <2>0, <1>6, <1>11, ZenonT(60)
    <3> HIDE DEF ev
    <3> QED
      BY <3>1, <3>2
  <2> DEFINE all == ev \o q.events \o <<SYN>>
  <2>8. /\ page' = [page EXCEPT ![d].events = all]
        /\ iv'.held = [iv.held EXCEPT ![d] = AfterAll(iv.held[d], q.events)]
    BY <2>0, <1>1, <1>7, <1>11, Zenon
  <2> HIDE DEF S
  <2>9. /\ all \in Seq(S) /\ Len(all) <= EventCap /\ Last(all) = SYN
        /\ AfterAll(vm[d].down, all) = AfterAll(iv.held[d], q.events)
    <3>1. AfterAll(vm[d].down, ev) \in SUBSET Keys
      BY <2>6
    <3> HIDE DEF ev
    <3>2. /\ all \in Seq(S) /\ Len(all) <= EventCap /\ Last(all) = SYN
          /\ AfterAll(vm[d].down, all) = AfterAll(AfterAll(vm[d].down, ev), q.events)
      BY <2>4, <2>6, <2>7, <3>1, BatchQueued, Zenon
    <3> QED
      BY <3>2, <2>6, Zenon
  <2> HIDE DEF all, ev
  <2>10. /\ page'[d].events = all /\ iv'.held[d] = AfterAll(iv.held[d], q.events)
         /\ \A c \in Clients \ {d} : page'[c] = page[c] /\ iv'.held[c] = iv.held[c]
    BY <2>1, <2>8 DEF InputIInv, Shape, PagesShape
  <2>11. Exact(d)'
    BY <2>9, <2>10, <1>1, Zenon DEF Exact
  <2>12. IsQueue(page'[d].events) /\ iv'.held[d] \subseteq Keys /\ vm'[d].down \subseteq Keys
    BY <2>6, <2>9, <2>10, <1>1, QueueType, Zenon DEF AfterAll
  <2>13. iv'.allowed \subseteq iv.allowed \cup {d}
    BY <1>7
  <2>14. \A c \in Clients \ {d} : /\ page'[c].events = page[c].events
                                  /\ iv'.held[c] = iv.held[c] /\ vm'[c].down = vm[c].down
    BY <2>10, <1>1, ZenonT(60)
  <2> QED
    BY <2>1, <2>11, <2>12, <2>13, <2>14, <1>8, <1>9, HeldOne, ZenonT(60)
<1> QED
  BY <1>10, <1>11

\* The events a pass of releases adds to a client's queue, without their SYN.
Releases(c) == [i \in 1 .. Fitting(c) |-> Release(Releasable(c)[i])]

\* A pass of releases takes from the guest's view the keys it takes from held.
LEMMA ReleaseQueued ==
    ASSUME HeldInv, NEW c \in Clients, c \in iv.allowed, Fitting(c) > 0
    PROVE  LET all == page[c].events \o Releases(c) \o <<SYN>>
           IN  /\ IsQueue(all) /\ Len(all) <= EventCap /\ Last(all) = SYN
               /\ AfterAll(vm[c].down, all) = Left(c)
<1> DEFINE ev == page[c].events
           rel == Releases(c)
           S == Range(ev) \cup Range(rel) \cup {SYN}
           all == ev \o rel \o <<SYN>>
<1>1. Fitting(c) \in Nat /\ Len(ev) + Fitting(c) + 1 <= EventCap
  BY FittingFits
<1>2. rel \in Seq({rel[i] : i \in 1 .. Fitting(c)}) /\ Len(rel) = Fitting(c)
  <2> DEFINE T == {rel[i] : i \in 1 .. Fitting(c)}
  <2>1. rel \in [1 .. Fitting(c) -> T]
    BY DEF Releases
  <2> HIDE DEF rel, T
  <2>2. rel \in Seq(T) /\ Len(rel) = Fitting(c)
    BY <1>1, <2>1, IsASeq, LenProperties, SMTT(60)
  <2> QED
    BY <2>2 DEF T
<1>3. rel \in Seq(Range(rel)) /\ ev \in Seq(Range(ev))
  BY <1>2, SeqOfRange DEF HeldInv, KeysOK, IsQueue
<1>4. ev \in Seq(S) /\ rel \in Seq(S) /\ SYN \in S
  BY <1>3, SeqMonotonic, Zenon
<1>5. Exact(c)
  BY ExactIs DEF HeldInv
<1>6. /\ vm[c].down \in SUBSET Keys /\ iv.held[c] \in SUBSET Keys
      /\ AfterAll(vm[c].down, ev) = iv.held[c]
  BY <1>5 DEF HeldInv, KeysOK, Exact
<1>7. AfterAll(iv.held[c], rel) = Left(c)
  <2>1. AfterAll(iv.held[c], rel) = iv.held[c] \ {Releasable(c)[i] : i \in 1 .. Fitting(c)}
    <3> DEFINE f == Releasable(c)
               n == Fitting(c)
               h == iv.held[c]
    <3>1. n \in Nat /\ h \in SUBSET Keys /\ rel = [i \in 1 .. n |-> Release(f[i])]
      BY <1>1, <1>6 DEF Releases
    <3> HIDE DEF f, n, h, rel
    <3>2. AfterAll(h, rel) = h \ {f[i] : i \in 1 .. n}
      BY <3>1, AfterReleases
    <3> QED
      BY <3>2 DEF f, n, h
  <2>2. DOMAIN Releasable(c) = 1 .. Fitting(c)
    BY DEF Releasable
  <2>3. Left(c) = iv.held[c] \ {Releasable(c)[i] : i \in 1 .. Fitting(c)}
    BY <2>2, Zenon DEF Left, ToSet
  <2> QED
    BY <2>1, <2>3
<1> HIDE DEF ev, rel, S
<1>8. /\ all \in Seq(S) /\ Len(all) <= EventCap /\ Last(all) = SYN
      /\ AfterAll(vm[c].down, all) = AfterAll(AfterAll(vm[c].down, ev), rel)
  <2>1. AfterAll(vm[c].down, ev) \in SUBSET Keys
    BY <1>6
  <2>2. Len(ev) + Len(rel) + 1 <= EventCap
    BY <1>1, <1>2
  <2> QED
    BY <1>4, <1>6, <2>1, <2>2, BatchQueued, ZenonT(60)
<1>9. IsQueue(all)
  BY <1>8, QueueType, Zenon
<1> QED
  BY <1>6, <1>7, <1>8, <1>9, Zenon DEF ev, rel

\* The outstanding releases, as far as they fit.
LEMMA HeldRelease == ASSUME InputIInv, InputIInv', HeldInv, release_pending PROVE HeldInv'
<1> DEFINE some == {c \in iv.releasing : Fitting(c) > 0}
           over == {c \in iv.releasing : ReleaseOver(c)}
           all(c) == page[c].events \o Releases(c) \o <<SYN>>
<1>1. /\ page' = [c \in Clients |-> IF c \notin some THEN page[c]
                                    ELSE [page[c] EXCEPT !.events = all(c)]]
      /\ iv' = [iv EXCEPT !.pc = "signal", !.ready = @ \cup some, !.releasing = @ \ over,
                   !.held = [c \in Clients |-> IF c \in some THEN Left(c) ELSE @[c]],
                   !.progress = @ \/ some # {} \/ over # {}]
      /\ req' = req /\ vm' = vm
  BY DEF release_pending, Releases
<1>2. some \subseteq iv.releasing /\ \A c \in some : Fitting(c) > 0
  OBVIOUS
<1> HIDE DEF some, over, all
<1>3. /\ iv'.allowed = iv.allowed /\ iv'.todo = iv.todo
      /\ iv'.held = [c \in Clients |-> IF c \in some THEN Left(c) ELSE iv.held[c]]
  BY <1>1, ZenonT(60) DEF InputIInv, Shape, IvShape
<1>4. some \subseteq iv.allowed /\ iv.allowed \subseteq Clients
  BY <1>2 DEF InputIInv, Shape, PageIsLive
<1>5. \A c \in Clients :
        /\ page'[c].events = IF c \in some THEN all(c) ELSE page[c].events
        /\ iv'.held[c] = IF c \in some THEN Left(c) ELSE iv.held[c]
        /\ vm'[c].down = vm[c].down
  BY <1>1, <1>3, SMTT(60) DEF InputIInv, Shape, PagesShape
<1>6. \A c \in some : /\ IsQueue(all(c)) /\ Len(all(c)) <= EventCap /\ Last(all(c)) = SYN
                      /\ AfterAll(vm[c].down, all(c)) = Left(c)
  BY <1>2, <1>4, ReleaseQueued, Zenon DEF all
<1>7. KeysOK'
  BY <1>5, <1>6, ZenonT(60) DEF HeldInv, KeysOK, Left
<1>8. ASSUME NEW c \in iv'.allowed PROVE Exact(c)'
  <2>1. c \in Clients /\ Exact(c)
    BY <1>3, <1>4, ExactIs, Zenon DEF HeldInv
  <2>2. CASE c \in some
    BY <2>1, <2>2, <1>5, <1>6, Zenon DEF Exact
  <2>3. CASE c \notin some
    BY <2>1, <2>3, <1>5, Zenon DEF Exact
  <2> QED
    BY <2>2, <2>3
<1>9. HeldStateIsExact'
  BY <1>8 DEF HeldStateIsExact, Exact
<1>10. RequestsOK' /\ VmShape'
  BY <1>1, <1>3, RequestsSame, Zenon DEF HeldInv, VmShape
<1> QED
  BY <1>7, <1>9, <1>10, Zenon DEF HeldInv

\* The guest takes the first `n` events of its queue.
LEMMA HeldDrain ==
    ASSUME InputIInv, HeldInv, NEW d \in Clients, NEW n \in 0 .. Len(page[d].events),
           virtio_input_drain(d, n), UNCHANGED <<iv, req>>
    PROVE  HeldInv'
<1> DEFINE ev == page[d].events
           u == SubSeq(ev, 1, n)
           v == SubSeq(ev, n + 1, Len(ev))
           down == AfterAll(vm[d].down, u)
<1>1. page' = [page EXCEPT ![d].events = v] /\ vm' = [vm EXCEPT ![d].down = down]
  BY DEF virtio_input_drain
<1>2. ev \in Seq(Range(ev)) /\ Len(ev) \in Nat
  BY LenProperties DEF HeldInv, KeysOK, IsQueue
<1>3. /\ v \in Seq(Range(ev)) /\ Len(v) = Len(ev) - n
      /\ \A i \in 1 .. Len(ev) - n : v[i] = ev[n + i]
  <2> HIDE DEF ev
  <2>1. n \in 0 .. Len(ev)
    BY DEF ev
  <2> QED
    BY <1>2, <2>1
<1>4. AfterAll(down, v) = AfterAll(vm[d].down, ev)
  BY <1>2, AfterSplit
<1>5. down \subseteq Keys
  BY DEF AfterAll
<1> HIDE DEF v, down, u
<1>6. /\ page'[d].events = v /\ vm'[d].down = down
      /\ \A c \in Clients \ {d} : page'[c] = page[c] /\ vm'[c] = vm[c]
  BY <1>1 DEF InputIInv, Shape, PagesShape, HeldInv, VmShape
<1>7. VmShape'
  BY <1>1 DEF HeldInv, VmShape
<1>8. RequestsOK'
  BY RequestsSame DEF HeldInv
<1>9. d \in iv'.allowed => Exact(d)'
  <2> SUFFICES ASSUME d \in iv.allowed PROVE Exact(d)'
    OBVIOUS
  <2>1. Exact(d)
    BY ExactIs DEF HeldInv
  <2>2. AfterAll(vm'[d].down, page'[d].events) = iv'.held[d]
    BY <2>1, <1>4, <1>6, Zenon DEF Exact
  <2>3. Len(page'[d].events) <= EventCap
    BY <2>1, <1>2, <1>3, <1>6, InputAssumption, SMTT(60) DEF Exact
  <2>4. ASSUME v # <<>> PROVE Last(v) = SYN
    <3>1. Len(v) # 0
      BY <1>3, <2>4, EmptySeq, Zenon
    <3>2. Len(v) \in 1 .. Len(ev) - n /\ v[Len(v)] = ev[Len(ev)] /\ ev # <<>>
      <4> HIDE DEF ev
      <4>1. n \in 0 .. Len(ev)
        BY DEF ev
      <4>2. Len(v) \in 1 .. Len(ev) - n /\ n + Len(v) = Len(ev) /\ Len(ev) # 0
        BY <4>1, <3>1, <1>2, <1>3, SMTT(60)
      <4>3. v[Len(v)] = ev[n + Len(v)]
        BY <4>2, <1>3, Zenon
      <4> QED
        BY <4>2, <4>3, EmptyQueue, Zenon
    <3> QED
      BY <3>2, <2>1 DEF Last, Exact
  <2> QED
    BY <2>2, <2>3, <2>4, <1>6, Zenon DEF Exact
<1>10. IsQueue(page'[d].events)
  BY <1>3, <1>6, QueueType, Zenon
<1>11. iv'.held[d] \subseteq Keys /\ vm'[d].down \subseteq Keys
  BY <1>5, <1>6 DEF HeldInv, KeysOK
<1> QED
  BY <1>6, <1>7, <1>8, <1>9, <1>10, <1>11, HeldOne, ZenonT(60)

\* A reconstruction fails: the guest's view of the keys stays.
LEMMA VmFails ==
    ASSUME VmShape, NEW d \in Clients, NEW ph, NEW x,
           vm' = [vm EXCEPT ![d].phase = ph, ![d].failed = x]
    PROVE  VmShape' /\ \A c \in Clients : vm'[c].down = vm[c].down
<1>1. /\ vm' = [c \in Clients |-> vm'[c]]
      /\ \A c \in Clients \ {d} : vm'[c] = vm[c]
  BY DEF VmShape
<1>2. vm'[d] = [phase |-> ph, down |-> vm[d].down, failed |-> x]
  <2>1. vm'[d] = [[vm[d] EXCEPT !.phase = ph] EXCEPT !.failed = x]
    BY Zenon DEF VmShape
  <2>2. vm[d] = [phase |-> vm[d].phase, down |-> vm[d].down, failed |-> vm[d].failed]
    BY DEF VmShape
  <2> QED
    BY <2>1, <2>2, ZenonT(60)
<1> QED
  BY <1>1, <1>2 DEF VmShape

\* A detach: what the guest sees down may change.
LEMMA VmDetaches ==
    ASSUME VmShape, NEW d \in Clients, NEW ph, NEW x,
           vm' = [vm EXCEPT ![d].phase = ph, ![d].down = x]
    PROVE  VmShape' /\ vm'[d].down = x /\ \A c \in Clients \ {d} : vm'[c].down = vm[c].down
<1>1. /\ vm' = [c \in Clients |-> vm'[c]]
      /\ \A c \in Clients \ {d} : vm'[c] = vm[c]
  BY DEF VmShape
<1>2. vm'[d] = [phase |-> ph, down |-> x, failed |-> vm[d].failed]
  <2>1. vm'[d] = [[vm[d] EXCEPT !.phase = ph] EXCEPT !.down = x]
    BY Zenon DEF VmShape
  <2>2. vm[d] = [phase |-> vm[d].phase, down |-> vm[d].down, failed |-> vm[d].failed]
    BY DEF VmShape
  <2> QED
    BY <2>1, <2>2, ZenonT(60)
<1> QED
  BY <1>1, <1>2, Zenon DEF VmShape

\* One VMM's record is replaced.
LEMMA VmOne ==
    ASSUME VmShape, NEW d \in Clients, NEW ph, NEW dn, NEW fl,
           vm' = [vm EXCEPT ![d] = [phase |-> ph, down |-> dn, failed |-> fl]]
    PROVE  VmShape' /\ vm'[d].down = dn /\ \A c \in Clients \ {d} : vm'[c].down = vm[c].down
<1>1. vm' = [c \in Clients |-> IF c = d THEN [phase |-> ph, down |-> dn, failed |-> fl] ELSE vm[c]]
  BY Zenon DEF VmShape
<1>2. /\ vm' = [c \in Clients |-> vm'[c]]
      /\ vm'[d] = [phase |-> ph, down |-> dn, failed |-> fl]
      /\ \A c \in Clients \ {d} : vm'[c] = vm[c]
  BY <1>1, ZenonT(60)
<1> QED
  BY <1>2 DEF VmShape

\* RETIRE and REBIND: the client starts again from nothing held.
LEMMA HeldRebind ==
    ASSUME InputIInv, InputIInv', HeldInv, NEW d \in Clients,
           aos_input_rebind_retire(d) \/ rebind(d)
    PROVE  HeldInv'
<1>1. req' = req
  BY Zenon DEF aos_input_rebind_retire, rebind
<1>2. CASE aos_input_rebind_retire(d)
  <2>1. /\ page' = [page EXCEPT ![d] = [Acked(page[d]) EXCEPT !.live = FALSE]]
        /\ vm' = [vm EXCEPT ![d].phase = "dead"]
    BY <1>2 DEF aos_input_rebind_retire
  <2>2. /\ iv'.todo = iv.todo /\ iv'.allowed = iv.allowed \ {d}
        /\ \A c \in Clients \ {d} : iv'.held[c] = iv.held[c]
        /\ iv'.held[d] \in {iv.held[d], {}}
    <3>1. CASE d \in iv.allowed
      <4>1. iv' = [Retired({d}) EXCEPT !.pc = "detach"]
        BY <1>2, <3>1, Zenon DEF aos_input_rebind_retire
      <4>2. /\ iv'.todo = iv.todo /\ iv'.allowed = iv.allowed \ {d}
            /\ iv'.held = [c \in Clients |-> IF c \in {d} THEN {} ELSE iv.held[c]]
        BY <4>1 DEF Retired, InputIInv, Shape, IvShape
      <4> QED
        BY <4>2
    <3>2. CASE d \notin iv.allowed
      <4>1. iv' = [iv EXCEPT !.pc = "detach"]
        BY <1>2, <3>2 DEF aos_input_rebind_retire
      <4> QED
        BY <3>2, <4>1 DEF InputIInv, Shape, IvShape
    <3> QED
      BY <3>1, <3>2
  <2>3. /\ page'[d].events = <<>> /\ \A c \in Clients \ {d} : page'[c] = page[c]
    <3>1. page[d] = [live |-> page[d].live, events |-> page[d].events,
                     request |-> page[d].request, ack |-> page[d].ack]
      BY DEF InputIInv, Shape, PagesShape
    <3>2. [Acked(page[d]) EXCEPT !.live = FALSE].events = <<>>
      BY <3>1, Zenon DEF Acked
    <3> QED
      BY <2>1, <3>2, Zenon DEF InputIInv, Shape
  <2>4. VmShape' /\ \A c \in Clients : vm'[c].down = vm[c].down
    BY <2>1 DEF HeldInv, VmShape
  <2>5. RequestsOK'
    BY <1>1, <2>2, RequestsSame, Zenon DEF HeldInv
  <2>6. \A c \in Clients : /\ page'[c].events \in {page[c].events, <<>>}
                           /\ iv'.held[c] \in {iv.held[c], {}}
                           /\ vm'[c].down \in {vm[c].down, {}}
    BY <2>2, <2>3, <2>4, Zenon
  <2>7. \A c \in iv'.allowed : /\ page'[c].events = page[c].events
                               /\ iv'.held[c] = iv.held[c] /\ vm'[c].down = vm[c].down
    BY <2>2, <2>3, <2>4, Zenon DEF InputIInv, Shape
  <2> QED
    BY <2>2, <2>4, <2>5, <2>6, <2>7, HeldKept, Zenon
<1>3. CASE /\ iv' = [iv EXCEPT !.pc = "detach"] /\ page' = page
           /\ vm' = [vm EXCEPT ![d].phase = "retiring", ![d].failed = TRUE]
  <2>1. iv'.todo = iv.todo /\ iv'.allowed = iv.allowed /\ iv'.held = iv.held
    BY <1>3 DEF InputIInv, Shape, IvShape
  <2>2. VmShape' /\ \A c \in Clients : vm'[c].down = vm[c].down
    BY <1>3, VmFails, Zenon DEF HeldInv
  <2>3. RequestsOK'
    BY <1>1, <2>1, RequestsSame DEF HeldInv
  <2>4. iv.allowed \subseteq Clients
    BY DEF InputIInv, Shape
  <2> QED
    BY <1>3, <2>1, <2>2, <2>3, <2>4, HeldKept, ZenonT(60)
<1>4. CASE /\ RebindValid(d) /\ page' = [page EXCEPT ![d] = FreshPage]
           /\ iv' = [iv EXCEPT !.pc = "detach", !.allowed = @ \cup {d}, !.retired = @ \ {d},
                               !.generation[d] = @ + 1]
           /\ \E ok \in BOOLEAN :
                vm' = [vm EXCEPT ![d] = [phase |-> IF ok THEN "running" ELSE "retiring",
                                         down |-> {}, failed |-> ~ok]]
  <2>1. iv'.todo = iv.todo /\ iv'.allowed = iv.allowed \cup {d} /\ iv'.held = iv.held
    BY <1>4 DEF InputIInv, Shape, IvShape
  <2>2. VmShape' /\ vm'[d].down = {} /\ \A c \in Clients \ {d} : vm'[c].down = vm[c].down
    <3>1. PICK ph, fl : vm' = [vm EXCEPT ![d] = [phase |-> ph, down |-> {}, failed |-> fl]]
      BY <1>4, Zenon
    <3> QED
      BY <3>1, VmOne, Zenon DEF HeldInv
  <2>3. page'[d].events = <<>> /\ \A c \in Clients \ {d} : page'[c] = page[c]
    BY <1>4 DEF FreshPage, InputIInv, Shape
  <2>4. iv'.held[d] = {}
    BY <1>4, <2>1 DEF RebindValid, InputIInv, PageIsLive
  <2>5. RequestsOK'
    BY <1>1, <2>1, RequestsSame, Zenon DEF HeldInv
  <2>6. Exact(d)'
    <3>1. AfterAll({}, <<>>) = {} /\ 0 <= EventCap
      BY AfterNothing, InputAssumption
    <3> QED
      BY <2>2, <2>3, <2>4, <3>1, EmptyQueue, Zenon DEF Exact
  <2>7. IsQueue(page'[d].events) /\ iv'.held[d] \subseteq Keys /\ vm'[d].down \subseteq Keys
    BY <2>2, <2>3, <2>4, EmptyQueue, Zenon
  <2>8. \A c \in Clients \ {d} : /\ page'[c].events = page[c].events
                                 /\ iv'.held[c] = iv.held[c] /\ vm'[c].down = vm[c].down
    BY <2>1, <2>2, <2>3, Zenon
  <2> QED
    BY <2>1, <2>2, <2>5, <2>6, <2>7, <2>8, HeldOne, ZenonT(60)
<1> QED
  BY <1>2, <1>3, <1>4, Zenon DEF rebind

\* The VMM's other steps; the page goes only when the client was forgotten.
LEMMA HeldVmm ==
    ASSUME InputIInv, InputIInv', HeldInv, NEW d \in Clients,
           \/ guest_vmm_suspend_resume(d) \/ aos_vmm_virtio_input_detach(d)
           \/ guest_vmm_fault(d) \/ guest_vmm_notified(d)
    PROVE  HeldInv'
<1>1. iv' = iv /\ req' = req
  BY Zenon DEF guest_vmm_suspend_resume, aos_vmm_virtio_input_detach, guest_vmm_fault, guest_vmm_notified
<1>2. RequestsOK'
  BY <1>1, RequestsSame, Zenon DEF HeldInv
<1>3. Len(page[d].events) \in Nat
  BY LenProperties DEF HeldInv, KeysOK, IsQueue
<1>4. iv.allowed \subseteq Clients
  BY DEF InputIInv, Shape
<1>5. CASE guest_vmm_suspend_resume(d)
  <2>1. PICK ph : vm' = [vm EXCEPT ![d].phase = ph] /\ page' = page
    BY <1>5, Zenon DEF guest_vmm_suspend_resume
  <2>2. VmShape' /\ \A c \in Clients : vm'[c].down = vm[c].down
    BY <2>1, SMTT(60) DEF HeldInv, VmShape
  <2> QED
    BY <1>1, <1>2, <1>4, <2>1, <2>2, HeldKept, Zenon
<1>6. CASE aos_vmm_virtio_input_detach(d)
  <2> DEFINE done == page[d].ack
             phase == IF done THEN "dead" ELSE "destroying"
             down == IF done THEN {} ELSE vm[d].down
  <2>1. /\ page' = [page EXCEPT ![d].request = TRUE, ![d].live = ~done]
        /\ vm' = [vm EXCEPT ![d].phase = phase, ![d].down = down]
    BY <1>6, ZenonT(60) DEF aos_vmm_virtio_input_detach, Acknowledged, HeldInv, VmShape
  <2>2. /\ d \in iv.allowed => ~done
        /\ down \in {vm[d].down, {}} /\ (d \in iv.allowed => down = vm[d].down)
    BY Zenon DEF InputIInv, PageIsLive
  <2> HIDE DEF done, phase, down
  <2>3. \A c \in Clients : page'[c].events = page[c].events
    <3>1. /\ page = [c \in Clients |-> page[c]]
          /\ page[d] = [live |-> page[d].live, events |-> page[d].events,
                        request |-> page[d].request, ack |-> page[d].ack]
      BY DEF InputIInv, Shape, PagesShape
    <3>2. page' = [page EXCEPT ![d] = [[page[d] EXCEPT !.request = TRUE] EXCEPT !.live = ~done]]
      BY <2>1, <3>1, Zenon
    <3>3. [[page[d] EXCEPT !.request = TRUE] EXCEPT !.live = ~done].events = page[d].events
      BY <3>1, Zenon
    <3> QED
      BY <3>1, <3>2, <3>3, Zenon
  <2>4. VmShape' /\ vm'[d].down = down /\ \A c \in Clients \ {d} : vm'[c].down = vm[c].down
    BY <2>1, VmDetaches, Zenon DEF HeldInv
  <2>5. \A c \in Clients : vm'[c].down \in {vm[c].down, {}}
    BY <2>2, <2>4, Zenon
  <2>6. \A c \in iv.allowed : vm'[c].down = vm[c].down
    BY <2>2, <2>4, <1>4, Zenon
  <2> QED
    BY <1>1, <1>2, <1>4, <2>3, <2>4, <2>5, <2>6, HeldKept, ZenonT(60)
<1>7. CASE guest_vmm_fault(d)
  <2>1. PICK n \in 1 .. Len(page[d].events) : virtio_input_drain(d, n)
    BY <1>7 DEF guest_vmm_fault
  <2>2. n \in 0 .. Len(page[d].events)
    BY <1>3
  <2> QED
    BY <1>1, <2>1, <2>2, HeldDrain, Zenon
<1>8. CASE guest_vmm_notified(d)
  <2>1. PICK n \in 0 .. (IF vm[d].phase = "running" THEN Len(page[d].events) ELSE 0) :
               virtio_input_drain(d, n)
    BY <1>8, Zenon DEF guest_vmm_notified
  <2>2. n \in 0 .. Len(page[d].events)
    BY <1>3
  <2> QED
    BY <1>1, <2>1, <2>2, HeldDrain, Zenon
<1> QED
  BY <1>5, <1>6, <1>7, <1>8, Zenon

\* The strengthened invariant is inductive.
LEMMA HeldNext == InputIInv /\ InputIInv' /\ HeldInv /\ [Next]_vars => HeldInv'
<1> SUFFICES ASSUME InputIInv, InputIInv', HeldInv, [Next]_vars PROVE HeldInv'
  OBVIOUS
<1>1. CASE UNCHANGED vars
  <2>1. req' = req /\ iv' = iv /\ page' = page /\ vm' = vm
    BY <1>1 DEF vars
  <2> QED
    BY <2>1, ZenonT(60) DEF HeldInv, RequestsOK, VmShape, KeysOK, HeldStateIsExact
<1>2. Managed \subseteq Clients
  BY InputAssumption
<1>3. CASE \/ input_virt_notified \/ pump_returns \/ close_pending \/ cc_signal
           \/ aos_input_receive \/ cc_wait
  BY <1>3, HeldQuiet, Zenon
<1>4. CASE \/ \E c \in Clients, events \in Batches \cup {<<>>} : handle_input_submit(c, events)
           \/ cc_release_disconnected_input
  BY <1>4, HeldSubmit
<1>5. CASE detach_pending \/ deliver \/ release_pending
  BY <1>5, HeldDetach, HeldDeliver, HeldRelease, Zenon
<1>6. CASE \E c \in Managed : \/ aos_input_rebind_retire(c) \/ rebind(c)
                              \/ guest_vmm_suspend_resume(c) \/ aos_vmm_virtio_input_detach(c)
  BY <1>2, <1>6, HeldRebind, HeldVmm, Zenon
<1>7. CASE \E c \in Clients : guest_vmm_fault(c) \/ guest_vmm_notified(c)
  BY <1>7, HeldVmm
<1> QED
  BY <1>1, <1>3, <1>4, <1>5, <1>6, <1>7, Zenon DEF Next

\* What a guest has seen and what is queued for it add up to what the virtualizer
\* holds, in whole batches that fit the queue, for any number of clients, keys,
\* batches and any capacity (service.c deliver, release_pending; virtio/input.c).
THEOREM HeldStateIsExactHolds == Spec => []HeldStateIsExact
<1>1. HeldInv => HeldStateIsExact
  BY DEF HeldInv
<1>2. InputIInv /\ [Next]_vars => InputIInv'
  BY InputNext
<1> QED
  BY InputInit, HeldInit, HeldNext, <1>1, <1>2, PTL DEF Spec

-----------------------------------------------------------------------------
(* A run of events is its events one by one.                              *)

\* Induction over the natural numbers, for a set instead of a predicate.
LEMMA SetInduction ==
    ASSUME NEW S, S \subseteq Nat, 0 \in S, \A n \in Nat : n \in S => n + 1 \in S
    PROVE  Nat \subseteq S
<1> DEFINE T == Nat \ S
           R == OpToRel(<, Nat)
<1>1. SUFFICES ASSUME T # {} PROVE FALSE
  OBVIOUS
<1>2. IsWellFoundedOn(R, Nat)
  BY NatLessThanWellFounded
<1>3. \E x \in T : \A y \in T : ~(<<y, x>> \in R)
  <2> HIDE DEF R
  <2>1. T \subseteq Nat
    OBVIOUS
  <2> HIDE DEF T
  <2> QED BY <1>1, <1>2, <2>1, WFMin
<1>4. PICK x \in T : \A y \in T : ~(<<y, x>> \in R)
  BY <1>3
<1>5. \A y \in T : ~(y < x)
  <2> TAKE y \in T
  <2>1. x \in Nat /\ y \in Nat OBVIOUS
  <2>2. ~(<<y, x>> \in R) BY <1>4
  <2> QED BY <2>1, <2>2 DEF OpToRel
<1>6. x # 0 /\ x \in Nat /\ x \notin S
  OBVIOUS
<1>7. x - 1 \in Nat /\ x - 1 < x BY <1>6
<1>8. x - 1 \in S BY <1>5, <1>7
<1>9. (x - 1) + 1 \in S BY <1>8, <1>7
<1>10. (x - 1) + 1 = x BY <1>6
<1> QED BY <1>6, <1>9, <1>10

\* One event more, at the end: AfterAll takes the step of After.
LEMMA AfterOneMore ==
    ASSUME NEW down \in SUBSET Keys, NEW m \in Nat, NEW s, NEW t, NEW e,
           e \in [key : Keys, value : 0 .. 2] \cup {SYN},
           DOMAIN s = 1 .. m, DOMAIN t = 1 .. m + 1,
           \A i \in 1 .. m : t[i] = s[i], t[m + 1] = e
    PROVE  AfterAll(down, t) = After(AfterAll(down, s), e)
<1> SUFFICES ASSUME NEW k \in Keys
             PROVE  k \in AfterAll(down, t) <=> k \in After(AfterAll(down, s), e)
  <2>1. AfterAll(down, t) \subseteq Keys /\ AfterAll(down, s) \subseteq Keys
    BY Zenon DEF AfterAll
  <2>2. e # SYN => e.key \in Keys
    OBVIOUS
  <2>3. After(AfterAll(down, s), e) \subseteq Keys
    <3> DEFINE D == AfterAll(down, s)
    <3>1. D \subseteq Keys /\ After(D, e) \in {D, D \cup {e.key}, D \ {e.key}}
      BY <2>1, Zenon DEF After
    <3> HIDE DEF D
    <3>2. ASSUME e = SYN PROVE After(D, e) = D
      BY <3>2 DEF After, SYN
    <3>3. After(D, e) \subseteq Keys
      BY <2>2, <3>1, <3>2
    <3> QED
      BY <3>3 DEF D
  <2> QED
    BY <2>1, <2>3
<1>1. SYN.key \notin Keys
  BY InputAssumption DEF SYN
<1>2. \A i \in 1 .. m + 1 : i \in 1 .. m \/ i = m + 1
  OBVIOUS
<1>3. CASE ~Changes(e, k)
  <2>1. k \in After(AfterAll(down, s), e) <=> k \in AfterAll(down, s)
    BY <1>1, <1>3 DEF After, Changes
  <2>2. e # Press(k)
    BY <1>3 DEF Changes, Press
  <2>3. (\A i \in DOMAIN t : ~Changes(t[i], k)) <=> (\A i \in DOMAIN s : ~Changes(s[i], k))
    BY <1>2, <1>3
  <2>4. ASSUME NEW i \in 1 .. m
        PROVE  (\A j \in DOMAIN t : j > i => ~Changes(t[j], k))
                 <=> (\A j \in DOMAIN s : j > i => ~Changes(s[j], k))
    BY <1>2, <1>3
  <2>5. (\E i \in DOMAIN t : t[i] = Press(k) /\ \A j \in DOMAIN t : j > i => ~Changes(t[j], k))
          <=> (\E i \in DOMAIN s : s[i] = Press(k) /\ \A j \in DOMAIN s : j > i => ~Changes(s[j], k))
    BY <1>2, <2>2, <2>4
  <2> QED
    BY <2>1, <2>3, <2>5, Zenon DEF AfterAll
<1>4. CASE Changes(e, k)
  <2>1. e # SYN /\ e.key = k /\ e.value \in {0, 1}
    BY <1>1, <1>4 DEF Changes
  <2>2. k \in After(AfterAll(down, s), e) <=> e = Press(k)
    BY <2>1 DEF After, Press
  <2>3. m + 1 \in DOMAIN t /\ Changes(t[m + 1], k) /\ \A j \in DOMAIN t : ~(j > m + 1)
    BY <1>4
  <2>4. ASSUME NEW i \in DOMAIN t, \A j \in DOMAIN t : j > i => ~Changes(t[j], k)
        PROVE  i = m + 1
    BY <2>3, <2>4
  <2>5. (\E i \in DOMAIN t : t[i] = Press(k) /\ \A j \in DOMAIN t : j > i => ~Changes(t[j], k))
          <=> e = Press(k)
    BY <2>3, <2>4, Zenon
  <2>6. ~(\A i \in DOMAIN t : ~Changes(t[i], k))
    BY <2>3
  <2> QED
    BY <2>2, <2>5, <2>6, Zenon DEF AfterAll
<1> QED
  BY <1>3, <1>4

\* AfterAll is what the code's loop computes, which keeps the held keys event by
\* event (service.c deliver): for a run of any length, `down` brought up to date
\* with After from the first event to the last.
THEOREM AfterAllIsOneByOne ==
    ASSUME NEW down \in SUBSET Keys, NEW s \in Seq([key : Keys, value : 0 .. 2] \cup {SYN}),
           NEW f, f[0] = down, \A n \in 1 .. Len(s) : f[n] = After(f[n - 1], s[n])
    PROVE  AfterAll(down, s) = f[Len(s)]
<1> DEFINE S == {n \in Nat : n <= Len(s) => f[n] = AfterAll(down, SubSeq(s, 1, n))}
<1>1. 0 \in S
  <2>1. DOMAIN SubSeq(s, 1, 0) = {}
    OBVIOUS
  <2>2. AfterAll(down, SubSeq(s, 1, 0)) = down
    BY <2>1, Zenon DEF AfterAll
  <2> QED
    BY <2>2
<1>2. ASSUME NEW n \in Nat, n \in S PROVE n + 1 \in S
  <2> SUFFICES ASSUME n + 1 <= Len(s) PROVE f[n + 1] = AfterAll(down, SubSeq(s, 1, n + 1))
    OBVIOUS
  <2> DEFINE u == SubSeq(s, 1, n)
             v == SubSeq(s, 1, n + 1)
  <2>1. /\ DOMAIN u = 1 .. n /\ DOMAIN v = 1 .. n + 1
        /\ \A i \in 1 .. n : v[i] = u[i]
        /\ v[n + 1] = s[n + 1] /\ s[n + 1] \in [key : Keys, value : 0 .. 2] \cup {SYN}
    OBVIOUS
  <2>2. f[n] = AfterAll(down, u) /\ n + 1 \in 1 .. Len(s) /\ (n + 1) - 1 = n
    BY <1>2
  <2> HIDE DEF u, v
  <2>3. AfterAll(down, v) = After(AfterAll(down, u), s[n + 1])
    BY <2>1, AfterOneMore
  <2>4. f[n + 1] = After(f[n], s[n + 1])
    BY <2>2
  <2> QED
    BY <2>2, <2>3, <2>4 DEF v
<1>3. Nat \subseteq S
  <2>1. S \subseteq Nat
    OBVIOUS
  <2> HIDE DEF S
  <2> QED
    BY <1>1, <1>2, <2>1, SetInduction
<1>4. Len(s) \in Nat /\ Len(s) <= Len(s) /\ SubSeq(s, 1, Len(s)) = s
  OBVIOUS
<1>5. f[Len(s)] = AfterAll(down, SubSeq(s, 1, Len(s)))
  BY <1>3, <1>4, Zenon
<1> QED
  BY <1>4, <1>5, Zenon
=============================================================================

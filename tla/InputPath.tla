----------------------------- MODULE InputPath ------------------------------
(***************************************************************************)
(* Keyboard input from the command console to the guests: the console's    *)
(* requests and its clean-up after a lost connection (cc_pd.c), the input  *)
(* virtualizer (platform/input-virt/), and each guest's VMM with its       *)
(* virtio-input device (vmm_virtio_input.c, libvmm virtio/input.c), across *)
(* suspension, destruction and reconstruction.                             *)
(*                                                                         *)
(* The two devices of a client share nothing but the detach of their page, *)
(* so a client has one here.  Wake-ups are notifications: they stay        *)
(* pending and coalesce.                                                   *)
(***************************************************************************)
EXTENDS Integers, Sequences, SequencesExt, FiniteSetsExt

CONSTANTS
    Clients,     \* client numbers
    Keys,        \* key codes
    Batches,     \* the event batches a console client may submit, without SYN
    EventCap,    \* AOS_INPUT_EVENT_CAPACITY
    BatchEvents, \* AOS_INPUT_BATCH_EVENTS, SYN included
    Managed,     \* bound: clients whose guest is suspended, destroyed or rebuilt
    MaxGen       \* bound: reconstructions of each guest

ASSUME InputAssumption ==
    /\ Clients \subseteq Nat /\ Managed \subseteq Clients /\ MaxGen \in Nat
    /\ Keys \subseteq Nat /\ IsFiniteSet(Keys)
    /\ EventCap \in Nat /\ BatchEvents \in 2 .. EventCap
    /\ \A b \in Batches : /\ b \in Seq([key : Keys, value : 0 .. 2])
                          /\ Len(b) \in 1 .. BatchEvents - 1

VARIABLES
    req, resp,   \* the frontend page: requests and responses
    iv,          \* the virtualizer's private state and program counter
    page,        \* each client's page, while it is live
    wake,        \* pending notifications: of iv, of cc and of the VMMs in vm
    cc,          \* the console
    vm           \* each VMM's phase and the keys its guest sees down

vars == <<req, resp, iv, page, wake, cc, vm>>

Press(k) == [key |-> k, value |-> 1]
Release(k) == [key |-> k, value |-> 0]
SYN == [key |-> -1, value |-> 0]

\* The keys down after `e`; a repeat (2) and SYN change nothing.
After(down, e) ==
    CASE e = SYN \/ e.value = 2 -> down
      [] e.value = 1 -> down \cup {e.key}
      [] OTHER       -> down \ {e.key}

Changes(e, k) == e.key = k /\ e.value # 2

\* The keys down after the events `s`, one After another: the last event that
\* changes a key decides it.
AfterAll(down, s) ==
    {k \in Keys :
        \/ k \in down /\ \A i \in DOMAIN s : ~Changes(s[i], k)
        \/ \E i \in DOMAIN s : /\ s[i] = Press(k)
                               /\ \A j \in DOMAIN s : j > i => ~Changes(s[j], k)}

FreshPage == [live |-> TRUE, events |-> <<>>, request |-> FALSE, ack |-> FALSE]

Init ==
    /\ req = <<>> /\ resp = <<>>
    /\ iv = [pc |-> "recv", allowed |-> Clients, retired |-> {}, releasing |-> {},
             held |-> [c \in Clients |-> {}], generation |-> [c \in Clients |-> 0],
             ready |-> {}, progress |-> FALSE, todo |-> 0]
    /\ page = [c \in Clients |-> FreshPage]
    /\ wake = [iv |-> FALSE, cc |-> FALSE, vm |-> {}]
    /\ cc = [pc |-> "serve", client |-> -1, batch |-> FALSE, touched |-> {}, pending |-> {}, closing |-> FALSE]
    /\ vm = [c \in Clients |-> [phase |-> "running", down |-> {}, failed |-> FALSE]]

-----------------------------------------------------------------------------
(* The virtualizer: one pump after another until one makes no progress.    *)

input_virt_notified ==
    /\ iv.pc = "recv" /\ wake.iv
    /\ wake' = [wake EXCEPT !.iv = FALSE]
    /\ iv' = [iv EXCEPT !.pc = "detach"]
    /\ UNCHANGED <<req, resp, page, cc, vm>>

\* What the virtualizer forgets about the clients `who`.
Retired(who) ==
    [iv EXCEPT !.allowed = @ \ who, !.retired = @ \cup who, !.releasing = @ \ who,
               !.held = [c \in Clients |-> IF c \in who THEN {} ELSE @[c]]]

\* The final access to a page; what events are left in it is abandoned.
Acked(p) == [p EXCEPT !.ack = TRUE, !.events = <<>>]

\* A mutation: outstanding releases are finished before a client is detached.
Detaching_Released(c) == page[c].request /\ c \notin iv.releasing

Detaching(c) == page[c].request

\* The detaches asked for; then the requests are counted that this pump answers.
detach_pending ==
    /\ iv.pc = "detach"
    /\ LET who == {c \in iv.allowed : Detaching(c)}
       IN  /\ iv' = [Retired(who) EXCEPT !.pc = "requests", !.todo = Len(req),
                                        !.ready = who, !.progress = who # {}]
           /\ page' = [c \in Clients |-> IF c \in who THEN Acked(page[c]) ELSE page[c]]
    /\ UNCHANGED <<req, resp, wake, cc, vm>>

\* A mutation: input is taken while a release is outstanding.
Blocks_WhenFull(q) == Len(page[q.client].events) + Len(q.events) + 1 > EventCap

Blocks(q) ==
    \/ q.client \in iv.releasing
    \/ Len(page[q.client].events) + Len(q.events) + 1 > EventCap

Status(q) ==
    CASE q.client \notin iv.allowed        -> "DENIED"
      [] q.events # <<>> /\ Blocks(q)      -> "WOULD_BLOCK"
      [] OTHER                             -> "OK"

\* The next request, answered; a request without events asks for a release.
deliver ==
    /\ iv.pc = "requests" /\ iv.todo > 0
    /\ LET q  == Head(req)
           ok == Status(q) = "OK"
           batch == ok /\ q.events # <<>>
       IN  /\ resp' = Append(resp, Status(q))
           /\ req' = Tail(req)
           /\ page' = IF ~batch THEN page
                      ELSE [page EXCEPT ![q.client].events = @ \o q.events \o <<SYN>>]
           /\ iv' = [iv EXCEPT !.progress = TRUE, !.todo = @ - 1,
                        !.ready = IF batch THEN @ \cup {q.client} ELSE @,
                        !.releasing = IF ok /\ ~batch THEN @ \cup {q.client} ELSE @,
                        !.held[q.client] = IF batch THEN AfterAll(@, q.events) ELSE @]
    /\ UNCHANGED <<wake, cc, vm>>

\* A mutation: a batch of releases may fill the queue and leave no room for SYN.
Fitting_NoSyn(c) ==
    Min({Cardinality(iv.held[c]), EventCap - Len(page[c].events), BatchEvents - 1})

\* How many held keys one pass can release: the batch needs room for its SYN.
Fitting(c) ==
    Min({Cardinality(iv.held[c]), Max({EventCap - Len(page[c].events) - 1, 0}), BatchEvents - 1})

\* The keys released now, in code order.
Releasable(c) == [i \in 1 .. Fitting(c) |-> SetToSortSeq(iv.held[c], <)[i]]

Left(c) == iv.held[c] \ ToSet(Releasable(c))

\* A mutation: one pass is taken for the whole release.
ReleaseOver_OnePass(c) == TRUE

ReleaseOver(c) == Left(c) = {}

release_pending ==
    /\ iv.pc = "requests" /\ iv.todo = 0
    /\ LET some == {c \in iv.releasing : Fitting(c) > 0}
           over == {c \in iv.releasing : ReleaseOver(c)}
       IN  /\ page' = [c \in Clients |->
                         IF c \notin some THEN page[c]
                         ELSE [page[c] EXCEPT !.events =
                                 @ \o [i \in 1 .. Fitting(c) |-> Release(Releasable(c)[i])] \o <<SYN>>]]
           /\ iv' = [iv EXCEPT !.pc = "signal", !.ready = @ \cup some,
                        !.releasing = @ \ over,
                        !.held = [c \in Clients |-> IF c \in some THEN Left(c) ELSE @[c]],
                        !.progress = @ \/ some # {} \/ over # {}]
    /\ UNCHANGED <<req, resp, wake, cc, vm>>

pump_returns ==
    /\ iv.pc = "signal"
    /\ wake' = [wake EXCEPT !.vm = @ \cup iv.ready, !.cc = @ \/ iv.progress]
    /\ iv' = [iv EXCEPT !.pc = IF iv.progress THEN "detach" ELSE "recv",
                        !.ready = {}, !.progress = FALSE]
    /\ UNCHANGED <<req, resp, page, cc, vm>>

\* A request of a VMM; a pending notification is taken first.
Receives == iv.pc = "recv" /\ ~wake.iv

\* RETIRE, from the clean-up of a failed reconstruction of client `c`; its page
\* is revoked on the reply.
aos_input_rebind_retire(c) ==
    /\ vm[c].phase = "retiring" /\ Receives
    /\ IF c \in iv.allowed THEN iv' = [Retired({c}) EXCEPT !.pc = "detach"]
       ELSE c \in iv.retired /\ iv' = [iv EXCEPT !.pc = "detach"]
    /\ vm' = [vm EXCEPT ![c].phase = "dead"]
    /\ page' = [page EXCEPT ![c] = [Acked(page[c]) EXCEPT !.live = FALSE]]
    /\ UNCHANGED <<req, resp, wake, cc>>

RebindValid(c) == c \notin iv.allowed /\ c \in iv.retired /\ req = <<>>

\* REBIND to a fresh page.  Any capability operation may fail, and so may the
\* VMM's mapping and its adoption of what is bound.
rebind(c) ==
    /\ vm[c].phase = "dead" /\ ~vm[c].failed /\ iv.generation[c] < MaxGen /\ Receives
    /\ \/ /\ iv' = [iv EXCEPT !.pc = "detach"]
          /\ vm' = [vm EXCEPT ![c].phase = "retiring", ![c].failed = TRUE]
          /\ UNCHANGED page
       \/ /\ RebindValid(c)
          /\ iv' = [iv EXCEPT !.pc = "detach", !.allowed = @ \cup {c}, !.retired = @ \ {c},
                              !.generation[c] = @ + 1]
          /\ page' = [page EXCEPT ![c] = FreshPage]
          /\ \E ok \in BOOLEAN :
               vm' = [vm EXCEPT ![c] = [phase |-> IF ok THEN "running" ELSE "retiring",
                                        down |-> {}, failed |-> ~ok]]
    /\ UNCHANGED <<req, resp, wake, cc>>

-----------------------------------------------------------------------------
(* The console: one request at a time.                                     *)

aos_input_submit(q) ==
    /\ req' = Append(req, q)
    /\ cc' = [cc EXCEPT !.pc = "signal", !.client = q.client, !.batch = q.events # <<>>]

\* An operator submits a batch, or asks for a release.
handle_input_submit(c, events) ==
    /\ cc.pc = "serve" /\ vm[c].phase \in {"running", "suspended", "destroying"}
    /\ aos_input_submit([client |-> c, events |-> events])
    /\ UNCHANGED <<resp, iv, page, wake, vm>>

\* The connection is lost: what it may have left down is to be released.
close_pending ==
    /\ cc.pc = "serve"
    /\ cc' = [cc EXCEPT !.pc = "release", !.pending = @ \cup cc.touched, !.touched = {},
                        !.closing = TRUE]
    /\ UNCHANGED <<req, resp, iv, page, wake, vm>>

\* No connection is served before every release has been accepted.
cc_release_disconnected_input ==
    /\ cc.pc = "release"
    /\ IF cc.pending = {}
       THEN cc' = [cc EXCEPT !.pc = "serve", !.closing = FALSE] /\ UNCHANGED req
       ELSE aos_input_submit([client |-> Min(cc.pending), events |-> <<>>])
    /\ UNCHANGED <<resp, iv, page, wake, vm>>

cc_signal ==
    /\ cc.pc = "signal"
    /\ wake' = [wake EXCEPT !.iv = TRUE]
    /\ cc' = [cc EXCEPT !.pc = "check"]
    /\ UNCHANGED <<req, resp, iv, page, vm>>

\* An accepted batch marks its client, an accepted release settles a pending one.
aos_input_receive ==
    /\ cc.pc = "check" /\ resp # <<>>
    /\ LET of == IF Head(resp) = "OK" THEN {cc.client} ELSE {}
           to == [cc EXCEPT !.client = -1, !.batch = FALSE]
       IN  cc' = IF cc.closing
                 THEN [to EXCEPT !.pc = "release", !.pending = @ \ of]
                 ELSE [to EXCEPT !.pc = "serve", !.touched = IF cc.batch THEN @ \cup of ELSE @]
    /\ resp' = Tail(resp)
    /\ wake' = [wake EXCEPT !.iv = TRUE]
    /\ UNCHANGED <<req, iv, page, vm>>

cc_wait ==
    /\ \/ /\ cc.pc = "check" /\ resp = <<>>
          /\ cc' = [cc EXCEPT !.pc = "blocked"] /\ UNCHANGED wake
       \/ /\ cc.pc = "blocked" /\ wake.cc
          /\ cc' = [cc EXCEPT !.pc = "check"] /\ wake' = [wake EXCEPT !.cc = FALSE]
    /\ UNCHANGED <<req, resp, iv, page, vm>>

-----------------------------------------------------------------------------
(* The VMM of client `c`.                                                  *)

\* The first `n` events go to buffers the guest has offered.
virtio_input_drain(c, n) ==
    /\ page' = [page EXCEPT ![c].events = SubSeq(@, n + 1, Len(@))]
    /\ vm' = [vm EXCEPT ![c].down = AfterAll(@, SubSeq(page[c].events, 1, n))]

guest_vmm_fault(c) ==
    /\ vm[c].phase = "running"
    /\ \E n \in 1 .. Len(page[c].events) : virtio_input_drain(c, n)
    /\ wake' = [wake EXCEPT !.iv = TRUE]
    /\ UNCHANGED <<req, resp, iv, cc>>

\* The wake-up is discarded unless the guest runs.
guest_vmm_notified(c) ==
    /\ c \in wake.vm
    /\ \E n \in 0 .. (IF vm[c].phase = "running" THEN Len(page[c].events) ELSE 0) :
         /\ virtio_input_drain(c, n)
         /\ wake' = [wake EXCEPT !.vm = @ \ {c}, !.iv = @ \/ n > 0]
    /\ UNCHANGED <<req, resp, iv, cc>>

guest_vmm_suspend_resume(c) ==
    /\ vm[c].phase \in {"running", "suspended"}
    /\ vm' = [vm EXCEPT ![c].phase = IF @ = "running" THEN "suspended" ELSE "running"]
    /\ UNCHANGED <<req, resp, iv, page, wake, cc>>

\* A mutation: the page is taken back as soon as the detach is requested.
Acknowledged_Requested(p) == p.request

Acknowledged(p) == p.ack

\* DESTROY asks for the detach and takes the page back once it is acknowledged;
\* it is retried until then.
aos_vmm_virtio_input_detach(c) ==
    /\ vm[c].phase \in {"running", "suspended", "destroying"}
    /\ wake' = [wake EXCEPT !.iv = TRUE]
    /\ LET done == Acknowledged(page[c])
       IN  /\ page' = [page EXCEPT ![c].request = TRUE, ![c].live = ~done]
           /\ vm' = [vm EXCEPT ![c].phase = IF done THEN "dead" ELSE "destroying",
                               ![c].down = IF done THEN {} ELSE @]
    /\ UNCHANGED <<req, resp, iv, cc>>

-----------------------------------------------------------------------------
input_virt ==
    input_virt_notified \/ detach_pending \/ deliver \/ release_pending \/ pump_returns

console ==
    cc_release_disconnected_input \/ cc_signal \/ aos_input_receive \/ cc_wait

Next ==
    \/ input_virt_notified
    \/ detach_pending
    \/ deliver
    \/ release_pending
    \/ pump_returns
    \/ \E c \in Clients, events \in Batches \cup {<<>>} : handle_input_submit(c, events)
    \/ close_pending
    \/ cc_release_disconnected_input
    \/ cc_signal
    \/ aos_input_receive
    \/ cc_wait
    \/ \E c \in Managed : \/ aos_input_rebind_retire(c)
                          \/ rebind(c)
                          \/ guest_vmm_suspend_resume(c)
                          \/ aos_vmm_virtio_input_detach(c)
    \/ \E c \in Clients : \/ guest_vmm_fault(c)
                          \/ guest_vmm_notified(c)

Spec == Init /\ [][Next]_vars

\* What a retried DESTROY would change.
Retriable(c) ==
    vm[c].phase = "destroying" /\ (~wake.iv \/ ~page[c].request \/ page[c].ack)

ConsoleIdle == cc.pc = "serve" \/ (cc.pc = "blocked" /\ ~wake.cc)

(* The virtualizer, the console and the VMMs take the steps they can, a      *)
(* DESTROY is retried, and a VMM's request is received when the virtualizer  *)
(* is idle often enough.  Of the guests and the operator nothing is assumed. *)
(* The first two conjuncts are WF_vars(input_virt) and WF_vars(console): all *)
(* their steps change iv or cc, which otherwise change only in an idle       *)
(* state.  A step that ends the condition it waits for is fair when the      *)
(* condition is false again and again.                                       *)
FairSpec ==
    /\ Spec
    /\ []<>Receives \/ []<><<TRUE>>_iv
    /\ []<>ConsoleIdle \/ []<><<TRUE>>_cc
    /\ \A c \in Clients : []<>(c \notin wake.vm)
    /\ \A c \in Managed : []<>~Retriable(c) /\ SF_vars(aos_input_rebind_retire(c))

-----------------------------------------------------------------------------
(* "No partial keyboard/pointer state is published" (input.h): what a guest  *)
(* has seen and the events still queued for it add up to the state the       *)
(* virtualizer believes held, the queue never overflows, and it always ends  *)
(* on a whole batch (service.c deliver, release_pending).                    *)
HeldStateIsExact ==
    \A c \in iv.allowed :
        /\ AfterAll(vm[c].down, page[c].events) = iv.held[c]
        /\ Len(page[c].events) <= EventCap
        /\ page[c].events # <<>> => Last(page[c].events) = SYN

(* From the acceptance of a release to its completion nothing new is held:   *)
(* input submitted later cannot overtake it (service.c deliver).             *)
ReleaseIsOrdered ==
    [][\A c \in iv.releasing : iv'.held[c] \subseteq iv.held[c]]_vars

(* "No service access to this page follows the acknowledgment" (input.h): the*)
(* virtualizer serves a client only while its page is live, and one whose    *)
(* detach it has acknowledged it has forgotten (service.c detach_pending).   *)
PageIsLive ==
    \A c \in Clients :
        /\ c \in iv.allowed => page[c].live /\ ~page[c].ack
        /\ c \notin iv.allowed => c \in iv.retired /\ c \notin iv.releasing /\ iv.held[c] = {}

\* The guests run and offer buffers for what is queued.
GuestsKeepReading ==
    \A c \in Clients : []<>~(\/ vm[c].phase = "suspended"
                             \/ vm[c].phase = "running" /\ page[c].events # <<>>)

(* Keys held when their connection is lost come up: every release is queued, *)
(* although the queue may be full and wake-ups discarded, and by             *)
(* HeldStateIsExact the guest that reads the queue then sees no key down     *)
(* (cc_pd.c cc_release_disconnected_input, service.c release_pending).  It   *)
(* holds as long as no guest the console owes a release has been destroyed.  *)
LostConnectionReleases ==
    GuestsKeepReading =>
        \A c \in Clients : (cc.closing /\ c \in cc.pending)
            ~> (\/ iv.held[c] = {} /\ c \notin iv.releasing /\ c \notin cc.pending
                \/ \E d \in Clients : d \notin iv.allowed)

(* A destroyed guest's page comes back: the detach is acknowledged whatever  *)
(* else the virtualizer does; a failed reconstruction's as long as the       *)
(* virtualizer, which takes notifications first, is idle again and again     *)
(* (service.c detach_pending, rebind_service.c aos_input_rebind_retire).     *)
DetachCompletes ==
    \A c \in Clients :
        /\ vm[c].phase = "destroying" ~> vm[c].phase = "dead"
        /\ []<>Receives => (vm[c].phase = "retiring" ~> vm[c].phase = "dead")

(* "Other clients and devices remain independent" (docs/input-disconnect.md: *)
(* 18): the release owed to the keys of a guest nobody suspends, destroys or *)
(* rebuilds does not wait for another guest.                                 *)
ReleasesAreIndependent ==
    \A c \in Clients \ Managed : c \in cc.pending ~> c \notin cc.pending

=============================================================================

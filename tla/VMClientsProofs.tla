--------------------------- MODULE VMClientsProofs ---------------------------
(***************************************************************************)
(* The clients of the VM manager, for counters of any width, any number of *)
(* slots and whatever the VMMs do: the console never issues a handle       *)
(* twice, a handle names the slot it was issued for, the records of        *)
(* console, vos and manager agree, and no VM is lost.                      *)
(***************************************************************************)
EXTENDS VMClients, FiniteSetTheorems, TLAPS

(* The inductive invariant.  HandleNeverReissued alone says nothing of what *)
(* the counter will hand out next: until it is exhausted (0), it is beyond  *)
(* every handle issued so far.                                              *)
HandlesInv ==
    /\ ccNext \in 0 .. Word - 1
    /\ ccNext # 0 => \A h \in issued : h \in Nat /\ h < ccNext

(* What a step does with handles: nothing, drop some, or issue the next. *)
Issues ==
    /\ ccNext # 0
    /\ ccNext' = NextHandle(ccNext) /\ issued' = issued \union {ccNext}
    /\ \E new : new.handle = ccNext /\ cc' = cc \union {new}

IssuesNone == UNCHANGED <<ccNext, issued>> /\ cc' \subseteq cc

HandleStep == Issues \/ IssuesNone

-----------------------------------------------------------------------------
(* The counter starts at 1. *)
LEMMA HandlesInit == Init => HandlesInv
BY ClientsAssumption DEF Init, HandlesInv

(* Only cc_vm_create issues a handle, and only the one its counter holds. *)
LEMMA StepsOfHandles == Next => HandleStep
<1>1. ASSUME NEW p \in Profiles, cc_vm_create(p) PROVE HandleStep
  <2> DEFINE new == [handle |-> ccNext, slot |-> dedicated_slot_for_type(p), profile |-> p]
  <2>1. \/ UNCHANGED ccVars
        \/ /\ HandlesLeft /\ cc' = cc \union {new}
           /\ ccNext' = NextHandle(ccNext) /\ issued' = issued \union {ccNext}
    BY <1>1 DEF cc_vm_create
  <2>2. new.handle = ccNext
    OBVIOUS
  <2> HIDE DEF new
  <2> QED
    BY <2>1, <2>2 DEF HandleStep, Issues, IssuesNone, ccVars, HandlesLeft
<1>2. ASSUME NEW e \in cc, CcDestroy(e) PROVE HandleStep
  BY <1>2 DEF CcDestroy, HandleStep, IssuesNone
<1>3. ASSUME NEW e \in cc, CcStop(e) \/ CcResume(e) PROVE HandleStep
  BY <1>3 DEF CcStop, CcResume, ccVars, HandleStep, IssuesNone
<1>4. ASSUME CcStart PROVE HandleStep
  BY <1>4 DEF CcStart, HandleStep, IssuesNone
<1>5. ASSUME NEW p \in Profiles, VosCreate(p) PROVE HandleStep
  BY <1>5 DEF VosCreate, ccVars, HandleStep, IssuesNone
<1>6. ASSUME VosStart \/ VosDestroyed \/ VmmStep PROVE HandleStep
  BY <1>6 DEF VosStart, VosDestroyed, VmmStep, ccVars, HandleStep, IssuesNone
<1>7. ASSUME NEW i \in vos,
             \/ VosDestroy(i) \/ VosSuspend(i) \/ VosResume(i)
             \/ VosPauseResume(i) \/ VosStatus(i)
      PROVE  HandleStep
  BY <1>7 DEF VosDestroy, VosSuspend, VosResume, VosPauseResume, VosStatus, ccVars,
              HandleStep, IssuesNone
<1> QED
  BY <1>1, <1>2, <1>3, <1>4, <1>5, <1>6, <1>7 DEF Next

(* The counter stops at its wrap. *)
LEMMA CounterNext ==
    ASSUME NEW n \in 1 .. Word - 1
    PROVE  NextHandle(n) = IF n = Word - 1 THEN 0 ELSE n + 1
BY ClientsAssumption DEF NextHandle

(* The invariant is inductive, and no step reissues a handle. *)
LEMMA HandlesNext ==
    ASSUME HandlesInv, HandleStep
    PROVE  /\ HandlesInv'
           /\ \A e \in cc' : e.handle \notin {f.handle : f \in cc} =>
                 e.handle \notin issued /\ e.handle # 0
<1>1. CASE Issues
  <2>1. ccNext \in 1 .. Word - 1
    BY <1>1, ClientsAssumption DEF Issues, HandlesInv
  <2>2. ccNext' = IF ccNext = Word - 1 THEN 0 ELSE ccNext + 1
    BY <1>1, <2>1, CounterNext DEF Issues
  <2>3. HandlesInv'
    BY <1>1, <2>1, <2>2, ClientsAssumption DEF Issues, HandlesInv
  <2>4. ccNext \notin issued /\ ccNext # 0
    BY <2>1 DEF HandlesInv
  <2> QED
    BY <1>1, <2>3, <2>4 DEF Issues
<1>2. CASE IssuesNone
  BY <1>2 DEF IssuesNone, HandlesInv
<1> QED
  BY <1>1, <1>2 DEF HandleStep

(* The console never issues a handle twice, for counters of every width,   *)
(* with one or both clients and any set of VMMs (cc_vm_client.c            *)
(* cc_vm_create).                                                          *)
THEOREM HandleNeverReissuedHolds == Spec => HandleNeverReissued
<1> DEFINE Fresh == \A e \in cc' : e.handle \notin {f.handle : f \in cc} =>
                        e.handle \notin issued /\ e.handle # 0
<1>1. HandlesInv /\ [Next]_vars => HandlesInv' /\ [Fresh]_vars
  <2>1. ASSUME HandlesInv, Next PROVE HandlesInv' /\ Fresh
    BY <2>1, StepsOfHandles, HandlesNext
  <2>2. ASSUME HandlesInv, UNCHANGED vars PROVE HandlesInv'
    BY <2>2 DEF vars, ccVars, HandlesInv
  <2> QED
    BY <2>1, <2>2
<1> QED
  BY HandlesInit, <1>1, PTL DEF Spec, HandleNeverReissued

-----------------------------------------------------------------------------
(* Slots and guests.  A guest is being reconstructed only when it is dead,   *)
(* and a slot is free or bound to the VMM it is dedicated to.                *)
GuestOk(g) == g \in Guest /\ (g.prep # "none" => g.state = "DEAD")

Runs(g) == g.state = "DESTROYING" \/ (g.state = "RUNNING" /\ g.started)

Pauses(g) == g.state = "DESTROYING" \/ (g.state = "SUSPENDED" /\ g.started)

Stopped(g) == g.state \in {"READY", "DEAD"} /\ ~g.started

Shaped(r) == r = [state |-> r.state, ep |-> r.ep, bound |-> r.bound, type |-> r.type]

Bound(s) ==
    /\ slot[s].state \in {"RUNNING", "SUSPENDED"} /\ slot[s].bound
    /\ slot[s].ep \in Configured /\ s = dedicated_slot_for_type(slot[s].ep)

Holds(p) ==
    LET r == slot[dedicated_slot_for_type(p)]
    IN  /\ r.state = "RUNNING" => Runs(guest[p])
        /\ r.state = "SUSPENDED" => Pauses(guest[p])
        /\ r.state = "FREE" => Stopped(guest[p])

Used == {s \in Slots : slot[s].state # "FREE"}

ManagerInv ==
    /\ DOMAIN slot = Slots /\ DOMAIN guest = Configured
    /\ slot = [s \in Slots |-> slot[s]] /\ guest = [p \in Configured |-> guest[p]]
    /\ \A s \in Slots : Shaped(slot[s]) /\ (slot[s] = FreeSlot \/ Bound(s))
    /\ \A p \in Configured : GuestOk(guest[p]) /\ Holds(p)
    /\ slot_count = Cardinality(Used)

(* Handles.  Each client's entries, and the one a client is working on. *)
InUse(s) == s \in Slots /\ slot[s].state # "FREE"

CcInv ==
    /\ \A e \in cc : InUse(e.slot)
    /\ \A e, f \in cc : e.slot = f.slot => e = f
    /\ ccPc \in {"idle", "start"}
    /\ ccPc = "start" =>
        /\ ccEntry \in cc /\ slot[ccEntry.slot].state = "RUNNING"
        /\ \A p \in Configured : dedicated_slot_for_type(p) = ccEntry.slot =>
              guest[p].state = "RUNNING" /\ guest[p].started /\ guest[p].prep = "none"

InstanceShape(i) == i = [handle |-> i.handle, slot |-> i.slot, state |-> i.state]

VosInv ==
    /\ \A i \in vos : InstanceShape(i) /\ InUse(i.slot)
    /\ \A i, j \in vos : i.slot = j.slot => i = j
    /\ vosPc = "start" => /\ InUse(vosWork.slot) /\ slot[vosWork.slot].state = "RUNNING"
                          /\ InstanceShape(vosWork) /\ vosWork.state = "BOOTING"
                          /\ \A i \in vos : i.slot # vosWork.slot
    /\ vosPc = "destroy" => vosWork \in vos

Apart ==
    \A e \in cc : /\ \A i \in vos : e.slot # i.slot
                  /\ vosPc = "start" => e.slot # vosWork.slot

Recalled ==
    \A i \in vos :
        \/ vosPc = "destroy" /\ vosWork = i
        \/ slot[i.slot].state = IF i.state = "PAUSED" THEN "SUSPENDED" ELSE "RUNNING"

ClientsInv == ManagerInv /\ CcInv /\ VosInv /\ Apart /\ Recalled

-----------------------------------------------------------------------------
(* What each call leaves of a guest in the states the manager finds it in.   *)
LEMMA RpcCreate ==
    ASSUME NEW g, NEW h \in Guest, NEW status, GuestOk(g), Stopped(g), Rpc("CREATE", g, h, status)
    PROVE  /\ GuestOk(h) /\ Stopped(h)
           /\ status = "OK" => h.state = "READY" /\ h.prep = "none"
<1>1. CASE h = g /\ (status = "OK" => g.state = "READY")
  BY <1>1 DEF GuestOk
<1>2. CASE h = [state |-> "READY", started |-> FALSE, prep |-> "none"]
  <2>1. h.state = "READY" /\ ~h.started /\ h.prep = "none"
    BY <1>2, Zenon
  <2> QED
    BY <2>1 DEF GuestOk, Stopped
<1>3. CASE g.state = "DEAD" /\ h = [g EXCEPT !.prep = "queued"] /\ status = "NOT_READY"
  <2>1. h.state = g.state /\ h.started = g.started
    BY <1>3 DEF GuestOk, Guest
  <2>2. ~h.started
    BY <2>1, Zenon DEF Stopped
  <2> QED
    BY <1>3, <2>1, <2>2 DEF GuestOk, Stopped
<1> QED
  BY <1>1, <1>2, <1>3, Zenon DEF Rpc, Create

(* BOOT of a guest CREATE left. *)
LEMMA RpcBoot ==
    ASSUME NEW g, NEW h \in Guest, NEW status, GuestOk(g), Stopped(g),
           g.state = "READY", g.prep = "none", Boots(g, h, status)
    PROVE  /\ GuestOk(h)
           /\ status # "OK" => Stopped(h)
           /\ status = "OK" => h.state = "RUNNING" /\ h.started /\ h.prep = "none"
<1>1. CASE h = g /\ status # "OK"
  BY <1>1
<1>2. CASE h = [state |-> "RUNNING", started |-> TRUE, prep |-> g.prep] /\ status = "OK"
  <2>1. h.state = "RUNNING" /\ h.started /\ h.prep = g.prep
    BY <1>2, Zenon
  <2> QED
    BY <1>2, <2>1 DEF GuestOk
<1> QED
  BY <1>1, <1>2 DEF Boots, Rpc, Boot

(* SUSPEND and RESUME of a guest behind a slot in use. *)
LEMMA RpcPause ==
    ASSUME NEW g, NEW h \in Guest, NEW status, GuestOk(g), Runs(g) \/ Pauses(g)
    PROVE  /\ Rpc("SUSPEND", g, h, status) =>
                GuestOk(h) /\ IF status = "OK" THEN Pauses(h) ELSE h = g
           /\ Rpc("RESUME", g, h, status) =>
                /\ GuestOk(h) /\ IF status = "OK" THEN Runs(h) ELSE h = g
                /\ g.state = "RUNNING" /\ g.started => status = "OK"
<1>0. g.prep = "none" /\ g \in Guest
  BY DEF GuestOk, Runs, Pauses
<1>1. ASSUME NEW to \in {"RUNNING", "SUSPENDED"}, g.started, h = [g EXCEPT !.state = to]
      PROVE  GuestOk(h) /\ h.state = to /\ h.started
  <2>1. h.state = to /\ h.started = g.started /\ h.prep = g.prep
    BY <1>0, <1>1, Zenon DEF Guest
  <2>2. h.started
    BY <1>1, <2>1, Zenon
  <2> QED
    BY <1>0, <2>1, <2>2 DEF GuestOk
<1>2. Rpc("SUSPEND", g, h, status) =>
        GuestOk(h) /\ IF status = "OK" THEN Pauses(h) ELSE h = g
  BY <1>0, <1>1 DEF Rpc, Suspend, Transition, Pauses, Runs
<1>3. Rpc("RESUME", g, h, status) =>
        /\ GuestOk(h) /\ IF status = "OK" THEN Runs(h) ELSE h = g
        /\ g.state = "RUNNING" /\ g.started => status = "OK"
  BY <1>0, <1>1 DEF Rpc, Resume, Transition, Pauses, Runs
<1> QED
  BY <1>2, <1>3

(* DESTROY of a guest behind a slot in use. *)
LEMMA RpcDestroy ==
    ASSUME NEW g, NEW h \in Guest, NEW status, GuestOk(g), Runs(g) \/ Pauses(g),
           Rpc("DESTROY", g, h, status)
    PROVE  /\ GuestOk(h)
           /\ status = "OK" => Stopped(h)
           /\ status # "OK" => (Runs(g) => Runs(h)) /\ (Pauses(g) => Pauses(h))
<1>0. g.prep = "none" /\ g \in Guest /\ g.state # "DEAD"
  BY DEF GuestOk, Runs, Pauses
<1>1. CASE h = g /\ status # "OK"
  BY <1>1
<1>2. CASE /\ status # "OK"
           /\ \/ h = [g EXCEPT !.state = "DESTROYING"]
              \/ h = [state |-> "DESTROYING", started |-> FALSE, prep |-> g.prep]
  <2>1. h.state = "DESTROYING" /\ h.prep = g.prep
    <3>1. CASE h = [g EXCEPT !.state = "DESTROYING"]
      BY <1>0, <3>1 DEF Guest
    <3>2. CASE h = [state |-> "DESTROYING", started |-> FALSE, prep |-> g.prep]
      BY <3>2, Zenon
    <3> QED
      BY <1>2, <3>1, <3>2
  <2> QED
    BY <1>0, <1>2, <2>1 DEF GuestOk, Runs, Pauses
<1>3. CASE h = [state |-> "DEAD", started |-> FALSE, prep |-> g.prep] /\ status = "OK"
  <2>1. h.state = "DEAD" /\ ~h.started /\ h.prep = g.prep
    BY <1>3, Zenon
  <2> QED
    BY <1>0, <1>3, <2>1 DEF GuestOk, Stopped
<1> QED
  BY <1>0, <1>1, <1>2, <1>3 DEF Rpc, Destroy

-----------------------------------------------------------------------------
(* Each VMM has a slot of its own. *)
LEMMA DedicatedSlot ==
    /\ \A p \in Configured : dedicated_slot_for_type(p) \in Slots
    /\ \A p, q \in Configured :
         dedicated_slot_for_type(p) = dedicated_slot_for_type(q) => p = q
<1>1. \A p \in Configured : dedicated_slot_for_type(p) \in Slots
  BY DEF dedicated_slot_for_type, Slots, VM_MAX_SLOTS
<1>2. ASSUME NEW p \in Configured, NEW q \in Configured, p # q
      PROVE  dedicated_slot_for_type(p) # dedicated_slot_for_type(q)
  <2>1. Configured = Profiles
    BY <1>2, ConfiguredAssumption, Zenon DEF Profiles
  <2> QED
    BY <1>2, <2>1 DEF Profiles, dedicated_slot_for_type
<1> QED
  BY <1>1, <1>2

(* A request word that is a slot number names that slot. *)
LEMMA SlotArg == ASSUME NEW s \in Slots PROVE SlotOf(s) = s /\ IsSlot(s)
BY DEF SlotOf, IsSlot, Slots, VM_MAX_SLOTS

(* What a slot in use, and a free one, look like. *)
LEMMA SlotCases ==
    ASSUME ManagerInv, NEW s \in Slots
    PROVE  /\ slot[s].state = "FREE" <=> slot[s] = FreeSlot
           /\ slot[s].state # "FREE" => Bound(s) /\ HasVmm(s)
           /\ slot[s].state \in SlotStates
<1>1. FreeSlot.state = "FREE"
  BY DEF FreeSlot
<1>2. "NONE" \notin Configured
  BY ConfiguredAssumption DEF Profiles
<1> QED
  BY <1>1, <1>2 DEF ManagerInv, Bound, HasVmm, SlotStates

(* The guest behind a slot in use. *)
LEMMA BoundGuest ==
    ASSUME ManagerInv, NEW s \in Slots, slot[s].state # "FREE"
    PROVE  /\ slot[s].ep \in Configured /\ s = dedicated_slot_for_type(slot[s].ep)
           /\ slot[s].bound /\ slot[s].state \in {"RUNNING", "SUSPENDED"}
           /\ GuestOk(guest[slot[s].ep])
           /\ slot[s].state = "RUNNING" => Runs(guest[slot[s].ep])
           /\ slot[s].state = "SUSPENDED" => Pauses(guest[slot[s].ep])
<1>1. Bound(s)
  BY SlotCases
<1> QED
  BY <1>1 DEF Bound, ManagerInv, Holds

(* What a handler leaves alone: the other slots and the VMMs behind them.    *)
OnlySlot(s) ==
    /\ \A t \in Slots \ {s} : slot'[t] = slot[t]
    /\ \A q \in Configured : dedicated_slot_for_type(q) # s => guest'[q] = guest[q]

(* A handler that changes one slot and its VMM keeps the table right.        *)
LEMMA OneSlot ==
    ASSUME ManagerInv, NEW s \in Slots, OnlySlot(s),
           slot' = [t \in Slots |-> slot'[t]], guest' = [q \in Configured |-> guest'[q]],
           Shaped(slot'[s]), slot'[s] = FreeSlot \/ Bound(s)',
           \A q \in Configured : dedicated_slot_for_type(q) = s =>
              GuestOk(guest'[q]) /\ Holds(q)',
           slot_count' = Cardinality(Used')
    PROVE  ManagerInv'
<1>1. DOMAIN slot' = Slots /\ DOMAIN guest' = Configured
  BY Zenon
<1>2. ASSUME NEW t \in Slots PROVE Shaped(slot'[t]) /\ (slot'[t] = FreeSlot \/ Bound(t)')
  BY <1>2 DEF ManagerInv, OnlySlot, Bound
<1>3. ASSUME NEW q \in Configured PROVE GuestOk(guest'[q]) /\ Holds(q)'
  <2>1. CASE dedicated_slot_for_type(q) # s
    <3>1. slot'[dedicated_slot_for_type(q)] = slot[dedicated_slot_for_type(q)] /\ guest'[q] = guest[q]
      BY <2>1, DedicatedSlot DEF OnlySlot
    <3> QED
      BY <3>1 DEF ManagerInv, Holds
  <2> QED
    BY <2>1
<1> QED
  BY <1>1, <1>2, <1>3 DEF ManagerInv

(* Taking a free slot and giving back a slot in use are counted. *)
LEMMA UsedCount ==
    ASSUME ManagerInv, NEW s \in Slots, \A t \in Slots \ {s} : slot'[t] = slot[t]
    PROVE  /\ slot_count \in Nat
           /\ slot[s].state # "FREE" => slot_count > 0
           /\ (slot[s].state = "FREE" <=> slot'[s].state = "FREE") =>
                Cardinality(Used') = slot_count
           /\ slot[s].state = "FREE" /\ slot'[s].state # "FREE" =>
                Cardinality(Used') = slot_count + 1
           /\ slot[s].state # "FREE" /\ slot'[s].state = "FREE" =>
                Cardinality(Used') = slot_count - 1
<1>1. IsFiniteSet(Slots)
  <2>1. Slots = 0 .. 3
    BY DEF Slots, VM_MAX_SLOTS
  <2>2. \A a, b \in Int : IsFiniteSet(a .. b)
    BY FS_Interval, Zenon
  <2>3. 0 \in Int /\ 3 \in Int
    OBVIOUS
  <2> QED
    BY <2>1, <2>2, <2>3, Zenon
<1>2. IsFiniteSet(Used) /\ slot_count = Cardinality(Used) /\ slot_count \in Nat
  BY <1>1, FS_Subset, FS_CardinalityType DEF Used, ManagerInv
<1>3. ASSUME slot[s].state = "FREE" <=> slot'[s].state = "FREE" PROVE Used' = Used
  BY <1>3 DEF Used
<1>4. ASSUME slot[s].state = "FREE", slot'[s].state # "FREE"
      PROVE  Cardinality(Used') = slot_count + 1
  <2>1. Used' = Used \cup {s} /\ s \notin Used
    BY <1>4 DEF Used
  <2> QED
    BY <1>2, <2>1, FS_AddElement
<1>5. ASSUME slot[s].state # "FREE" PROVE slot_count > 0
  <2>1. s \in Used
    BY <1>5 DEF Used
  <2> QED
    BY <1>2, <2>1, FS_EmptySet
<1>6. ASSUME slot[s].state # "FREE", slot'[s].state = "FREE"
      PROVE  Cardinality(Used') = slot_count - 1
  <2>1. Used' = Used \ {s} /\ s \in Used
    BY <1>6 DEF Used
  <2> QED
    BY <1>2, <2>1, FS_RemoveElement
<1> QED
  BY <1>2, <1>3, <1>4, <1>5, <1>6

-----------------------------------------------------------------------------
(* A relayed call on a slot in use moves that slot, or nothing. *)
LEMMA CallSlot ==
    ASSUME ManagerInv, NEW s \in Slots, slot[s].state # "FREE", NEW rc,
           NEW op \in {"SUSPEND", "RESUME"}, NEW next,
           next = IF op = "SUSPEND" THEN "SUSPENDED" ELSE "RUNNING",
           dedicated_guest_call(s, op, next, rc)
    PROVE  /\ ManagerInv' /\ OnlySlot(s) /\ slot'[s].state # "FREE"
           /\ rc = "OK" => slot'[s].state = next
           /\ rc # "OK" => slot' = slot /\ guest' = guest
           /\ op = "RESUME" /\ guest[slot[s].ep].state = "RUNNING" /\ guest[slot[s].ep].started
                => rc = "OK"
<1> DEFINE p == slot[s].ep
<1>0. /\ p \in Configured /\ s = dedicated_slot_for_type(p) /\ slot[s].bound
      /\ GuestOk(guest[p]) /\ (Runs(guest[p]) \/ Pauses(guest[p]))
      /\ slot[s].state \in {"RUNNING", "SUSPENDED"} /\ next \in {"RUNNING", "SUSPENDED"}
  BY BoundGuest
<1>1. PICK h \in Guest, status \in Statuses :
        /\ Rpc(op, guest[p], h, status)
        /\ guest' = [guest EXCEPT ![p] = h]
        /\ rc = IF status = "OK" THEN "OK" ELSE "ERR"
        /\ slot' = IF status = "OK" THEN [slot EXCEPT ![s].state = next] ELSE slot
        /\ UNCHANGED slot_count
  BY <1>0 DEF dedicated_guest_call
<1>2. /\ DOMAIN slot = Slots /\ DOMAIN guest = Configured
      /\ slot = [t \in Slots |-> slot[t]] /\ guest = [q \in Configured |-> guest[q]]
      /\ Shaped(slot[s])
  BY DEF ManagerInv
<1> HIDE DEF p
<1>3. /\ guest' = [q \in Configured |-> guest'[q]] /\ guest'[p] = h
      /\ \A q \in Configured : q # p => guest'[q] = guest[q]
  BY <1>0, <1>1, <1>2
<1>4. /\ slot' = [t \in Slots |-> slot'[t]] /\ \A t \in Slots \ {s} : slot'[t] = slot[t]
  BY <1>1, <1>2
<1>5. OnlySlot(s)
  BY <1>0, <1>3, <1>4 DEF OnlySlot
<1>6. GuestOk(h) /\ (status # "OK" => h = guest[p])
      /\ (status = "OK" => IF next = "RUNNING" THEN Runs(h) ELSE Pauses(h))
      /\ (op = "RESUME" /\ guest[p].state = "RUNNING" /\ guest[p].started => status = "OK")
  BY <1>0, <1>1, RpcPause
<1>7. CASE status = "OK"
  <2>1. slot'[s] = [slot[s] EXCEPT !.state = next]
    BY <1>1, <1>2, <1>7
  <2>2. /\ slot'[s].state = next /\ slot'[s].ep = slot[s].ep
        /\ slot'[s].bound = slot[s].bound /\ slot'[s].type = slot[s].type
        /\ Shaped(slot'[s])
    BY <1>2, <2>1, Zenon DEF Shaped
  <2>3. slot'[s].bound
    BY <1>0, <2>2, Zenon
  <2>4. Bound(s)'
    BY <1>0, <2>2, <2>3 DEF Bound, p
  <2>5. \A q \in Configured : dedicated_slot_for_type(q) = s => GuestOk(guest'[q]) /\ Holds(q)'
    BY <1>0, <1>3, <1>6, <1>7, <2>2, DedicatedSlot DEF Holds
  <2>6. slot_count' = Cardinality(Used')
    BY <1>0, <1>1, <1>4, <2>2, UsedCount
  <2>7. ManagerInv'
    BY <1>3, <1>4, <1>5, <2>2, <2>4, <2>5, <2>6, OneSlot
  <2> QED
    BY <1>0, <1>1, <1>5, <1>7, <2>2, <2>7
<1>8. CASE status # "OK"
  <2>1. slot' = slot /\ guest' = guest /\ slot_count' = slot_count /\ rc = "ERR"
    <3>1. guest' = [guest EXCEPT ![p] = guest[p]]
      BY <1>1, <1>6, <1>8, Zenon
    <3> QED
      BY <1>0, <1>1, <1>2, <1>8, <3>1
  <2>2. ManagerInv'
    BY <2>1 DEF ManagerInv, Bound, Holds, Used
  <2> QED
    BY <1>5, <1>6, <1>8, <2>1, <2>2 DEF p
<1> QED
  BY <1>7, <1>8

(* The same for the four requests. *)
LEMMA SuspendSlot ==
    ASSUME ManagerInv, NEW s \in Slots, slot[s].state # "FREE", NEW rc,
           h_stop(s, rc) \/ h_pause(s, rc)
    PROVE  /\ ManagerInv' /\ OnlySlot(s) /\ slot'[s].state # "FREE"
           /\ rc = "OK" => slot'[s].state = "SUSPENDED"
           /\ rc # "OK" => slot' = slot
<1>1. dedicated_guest_call(s, "SUSPEND", "SUSPENDED", rc)
  BY SlotArg, SlotCases DEF h_stop, h_pause, HasVmm
<1> QED
  BY <1>1, CallSlot

(* START after a CREATE finds a guest that runs. *)
LEMMA ResumeSlot ==
    ASSUME ManagerInv, NEW s \in Slots, slot[s].state # "FREE", NEW rc,
           h_start(s, rc) \/ h_resume(s, rc)
    PROVE  /\ ManagerInv' /\ OnlySlot(s) /\ slot'[s].state # "FREE"
           /\ rc = "OK" => slot'[s].state = "RUNNING"
           /\ rc # "OK" => slot' = slot
           /\ guest[slot[s].ep].state = "RUNNING" /\ guest[slot[s].ep].started => rc = "OK"
<1>1. dedicated_guest_call(s, "RESUME", "RUNNING", rc)
  BY SlotArg, SlotCases DEF h_start, h_resume, HasVmm
<1> QED
  BY <1>1, CallSlot


(* DESTROY frees the slot, or leaves it in use for a retry. *)
LEMMA DestroySlot ==
    ASSUME ManagerInv, NEW s \in Slots, slot[s].state # "FREE", NEW rc, h_destroy(s, rc)
    PROVE  /\ ManagerInv' /\ OnlySlot(s)
           /\ rc = "OK" => slot'[s].state = "FREE"
           /\ rc # "OK" => slot' = slot
<1> DEFINE p == slot[s].ep
<1>0. /\ p \in Configured /\ s = dedicated_slot_for_type(p) /\ slot[s].bound
      /\ GuestOk(guest[p]) /\ (Runs(guest[p]) \/ Pauses(guest[p]))
      /\ slot[s].state \in {"RUNNING", "SUSPENDED"}
      /\ slot[s].state = "RUNNING" => Runs(guest[p])
      /\ slot[s].state = "SUSPENDED" => Pauses(guest[p])
  BY BoundGuest
<1>1. dedicated_destroy(s, rc)
  BY SlotArg, SlotCases DEF h_destroy, HasVmm
<1>2. PICK h \in Guest, status \in Statuses :
        /\ Rpc("DESTROY", guest[p], h, status)
        /\ guest' = [guest EXCEPT ![p] = h]
        /\ IF status = "OK"
             THEN /\ slot' = [slot EXCEPT ![s] = FreeSlot]
                  /\ slot_count' = IF slot_count > 0 THEN slot_count - 1 ELSE slot_count
                  /\ rc = "OK"
             ELSE UNCHANGED <<slot, slot_count>> /\ rc = "ERR"
  BY <1>0, <1>1 DEF dedicated_destroy
<1>3. /\ DOMAIN slot = Slots /\ DOMAIN guest = Configured
      /\ slot = [t \in Slots |-> slot[t]] /\ guest = [q \in Configured |-> guest[q]]
      /\ Shaped(slot[s]) /\ slot_count = Cardinality(Used)
  BY DEF ManagerInv
<1> HIDE DEF p
<1>4. /\ guest' = [q \in Configured |-> guest'[q]] /\ guest'[p] = h
      /\ \A q \in Configured : q # p => guest'[q] = guest[q]
  BY <1>0, <1>2, <1>3
<1>5. /\ slot' = [t \in Slots |-> slot'[t]] /\ \A t \in Slots \ {s} : slot'[t] = slot[t]
      /\ slot'[s] = IF status = "OK" THEN FreeSlot ELSE slot[s]
  BY <1>2, <1>3
<1>6. OnlySlot(s)
  BY <1>0, <1>4, <1>5 DEF OnlySlot
<1>7. /\ GuestOk(h) /\ (status = "OK" => Stopped(h))
      /\ status # "OK" => (Runs(guest[p]) => Runs(h)) /\ (Pauses(guest[p]) => Pauses(h))
  BY <1>0, <1>2, RpcDestroy
<1>8. FreeSlot.state = "FREE" /\ Shaped(FreeSlot)
  BY Zenon DEF FreeSlot, Shaped
<1>9. slot_count' = Cardinality(Used')
  BY <1>2, <1>5, <1>8, UsedCount
<1>10. \A q \in Configured : dedicated_slot_for_type(q) = s => GuestOk(guest'[q]) /\ Holds(q)'
  <2> SUFFICES ASSUME NEW q \in Configured, dedicated_slot_for_type(q) = s
               PROVE  GuestOk(guest'[q]) /\ Holds(q)'
    OBVIOUS
  <2>0. q = p
    BY <1>0, DedicatedSlot
  <2>1. CASE status = "OK"
    BY <1>4, <1>5, <1>7, <1>8, <2>0, <2>1 DEF Holds
  <2>2. CASE status # "OK"
    BY <1>0, <1>4, <1>5, <1>7, <2>0, <2>2 DEF Holds
  <2> QED
    BY <2>1, <2>2
<1>11. Shaped(slot'[s]) /\ (slot'[s] = FreeSlot \/ Bound(s)')
  <2>1. CASE slot'[s] = FreeSlot
    BY <1>8, <2>1
  <2>2. CASE slot'[s] = slot[s]
    BY <1>0, <1>3, <2>2 DEF Bound, p
  <2> QED
    BY <1>5, <2>1, <2>2
<1>12. ManagerInv'
  BY <1>4, <1>5, <1>6, <1>9, <1>10, <1>11, OneSlot
<1> QED
  BY <1>2, <1>5, <1>6, <1>8, <1>12

(* A slot that has just been taken. *)
LEMMA TakenSlot ==
    ASSUME NEW r, NEW p, r = [state |-> "RUNNING", ep |-> p, bound |-> TRUE, type |-> p]
    PROVE  r.state = "RUNNING" /\ r.ep = p /\ r.bound /\ Shaped(r)
<1>1. r.state = "RUNNING" /\ r.ep = p /\ r.type = p
  OBVIOUS
<1>2. r.bound = TRUE
  BY Zenon
<1>3. r.bound
  BY <1>2, Zenon
<1>4. Shaped(r)
  BY <1>1, <1>2, Zenon DEF Shaped
<1> QED
  BY <1>1, <1>3, <1>4

(* CREATE takes a slot that is free, and takes it only when it succeeds.     *)
LEMMA CreateSlot ==
    ASSUME ManagerInv, NEW p, NEW fits \in BOOLEAN, NEW prepared \in BOOLEAN,
           NEW rc, h_create(p, fits, prepared, rc)
    PROVE  LET s == dedicated_slot_for_type(p)
           IN  /\ ManagerInv' /\ OnlySlot(s)
               /\ rc # "OK" => slot' = slot
               /\ rc = "OK" => /\ p \in Configured /\ s \in Slots
                               /\ slot[s].state = "FREE" /\ slot'[s].state = "RUNNING"
                               /\ guest'[p].state = "RUNNING" /\ guest'[p].started
                               /\ guest'[p].prep = "none"
               /\ \A t \in Slots : slot[t].state # "FREE" => slot'[t] = slot[t]
               /\ \A q \in Configured : slot[dedicated_slot_for_type(q)].state # "FREE" =>
                    guest'[q] = guest[q]
<1> DEFINE s == dedicated_slot_for_type(p)
<1>1. CASE UNCHANGED <<slot, slot_count, guest>> /\ rc # "OK"
  BY <1>1 DEF ManagerInv, Bound, Holds, Used, OnlySlot
<1>2. CASE p \in Configured /\ CreateAdmitted(p) /\ CreateOnVmm(s, p, prepared, rc)
  <2>0. /\ p \in Configured /\ s \in Slots /\ slot[s].state = "FREE"
        /\ slot[s] = FreeSlot /\ GuestOk(guest[p]) /\ Stopped(guest[p])
    BY <1>2, DedicatedSlot, SlotCases DEF CreateAdmitted, ManagerInv, Holds
  <2>1. /\ DOMAIN slot = Slots /\ DOMAIN guest = Configured
        /\ slot = [t \in Slots |-> slot[t]] /\ guest = [q \in Configured |-> guest[q]]
    BY DEF ManagerInv
  <2>2. \E k \in Guest :
          /\ guest' = [guest EXCEPT ![p] = k] /\ GuestOk(k)
          /\ \/ /\ CreateUndone(s) /\ rc = "INTERNAL" /\ Stopped(k)
             \/ /\ CreateDone(s, p) /\ rc = "OK"
                /\ k.state = "RUNNING" /\ k.started /\ k.prep = "none"
    <3>1. PICK h \in Guest, status \in Statuses :
            /\ Rpc("CREATE", guest[p], h, status)
            /\ \/ /\ status # "OK" \/ ~prepared
                  /\ guest' = [guest EXCEPT ![p] = h]
                  /\ CreateUndone(s)
                  /\ rc = "INTERNAL"
               \/ /\ status = "OK" /\ prepared
                  /\ \E k \in Guest, booted \in Statuses :
                        /\ Boots(h, k, booted)
                        /\ guest' = [guest EXCEPT ![p] = k]
                        /\ IF booted = "OK"
                             THEN CreateDone(s, p) /\ rc = "OK"
                             ELSE CreateUndone(s) /\ rc = "INTERNAL"
      BY <1>2 DEF CreateOnVmm
    <3>2. /\ GuestOk(h) /\ Stopped(h)
          /\ status = "OK" => h.state = "READY" /\ h.prep = "none"
      BY <2>0, <3>1, RpcCreate
    <3>3. CASE guest' = [guest EXCEPT ![p] = h] /\ CreateUndone(s) /\ rc = "INTERNAL"
      BY <3>2, <3>3, Zenon
    <3>4. CASE /\ status = "OK"
               /\ \E k \in Guest, booted \in Statuses :
                    /\ Boots(h, k, booted)
                    /\ guest' = [guest EXCEPT ![p] = k]
                    /\ IF booted = "OK"
                         THEN CreateDone(s, p) /\ rc = "OK"
                         ELSE CreateUndone(s) /\ rc = "INTERNAL"
      <4>1. PICK k \in Guest, booted \in Statuses :
                    /\ Boots(h, k, booted)
                    /\ guest' = [guest EXCEPT ![p] = k]
                    /\ IF booted = "OK"
                         THEN CreateDone(s, p) /\ rc = "OK"
                         ELSE CreateUndone(s) /\ rc = "INTERNAL"
        BY <3>4, Zenon
      <4>2. /\ GuestOk(k)
            /\ booted # "OK" => Stopped(k)
            /\ booted = "OK" => k.state = "RUNNING" /\ k.started /\ k.prep = "none"
        BY <3>2, <3>4, <4>1, RpcBoot
      <4> QED
        BY <4>1, <4>2, Zenon
    <3> QED
      BY <3>1, <3>3, <3>4
  <2>3. PICK k \in Guest :
          /\ guest' = [guest EXCEPT ![p] = k] /\ GuestOk(k)
          /\ \/ /\ CreateUndone(s) /\ rc = "INTERNAL" /\ Stopped(k)
             \/ /\ CreateDone(s, p) /\ rc = "OK"
                /\ k.state = "RUNNING" /\ k.started /\ k.prep = "none"
    BY <2>2, Zenon
  <2>4. /\ guest' = [q \in Configured |-> guest'[q]] /\ guest'[p] = k
        /\ \A q \in Configured : q # p => guest'[q] = guest[q]
    BY <2>0, <2>1, <2>3
  <2>5. CASE CreateUndone(s) /\ rc = "INTERNAL" /\ Stopped(k)
    <3>1. slot' = slot /\ slot_count' = slot_count
      BY <2>0, <2>1, <2>5 DEF CreateUndone
    <3>2. OnlySlot(s)
      BY <2>4, <3>1 DEF OnlySlot
    <3>3. \A q \in Configured : dedicated_slot_for_type(q) = s => GuestOk(guest'[q]) /\ Holds(q)'
      BY <2>0, <2>3, <2>4, <2>5, <3>1, DedicatedSlot DEF Holds
    <3>4. ManagerInv'
      BY <2>0, <2>1, <2>4, <3>1, <3>2, <3>3, OneSlot, Zenon DEF ManagerInv, Used
    <3> QED
      BY <2>0, <2>4, <2>5, <3>1, <3>2, <3>4
  <2>6. CASE /\ CreateDone(s, p) /\ rc = "OK"
             /\ k.state = "RUNNING" /\ k.started /\ k.prep = "none"
    <3>1. /\ slot' = [t \in Slots |-> slot'[t]] /\ \A t \in Slots \ {s} : slot'[t] = slot[t]
          /\ slot_count' = slot_count + 1
      BY <2>0, <2>1, <2>6, Zenon DEF CreateDone
    <3>2. slot'[s] = [state |-> "RUNNING", ep |-> p, bound |-> TRUE, type |-> p]
      BY <2>0, <2>1, <2>6, Zenon DEF CreateDone
    <3>3. /\ slot'[s].state = "RUNNING" /\ slot'[s].ep = p /\ slot'[s].bound /\ Shaped(slot'[s])
      BY <3>2, TakenSlot
    <3>4. OnlySlot(s)
      BY <2>4, <3>1 DEF OnlySlot
    <3>5. \A q \in Configured : dedicated_slot_for_type(q) = s => GuestOk(guest'[q]) /\ Holds(q)'
      BY <2>0, <2>3, <2>4, <2>6, <3>3, DedicatedSlot DEF Holds, Runs
    <3>6. slot_count' = Cardinality(Used')
      BY <2>0, <3>1, <3>3, UsedCount
    <3>7. Bound(s)'
      BY <2>0, <3>3 DEF Bound
    <3>8. ManagerInv'
      BY <2>0, <2>4, <3>1, <3>3, <3>4, <3>5, <3>6, <3>7, OneSlot
    <3> QED
      BY <2>0, <2>4, <2>6, <3>1, <3>3, <3>4, <3>8
  <2> QED
    BY <2>3, <2>5, <2>6
<1>3. \/ UNCHANGED <<slot, slot_count, guest>> /\ rc # "OK"
      \/ p \in Configured /\ CreateAdmitted(p) /\ CreateOnVmm(s, p, prepared, rc)
  BY DEF h_create
<1> QED
  BY <1>1, <1>2, <1>3

-----------------------------------------------------------------------------
(* What NoVmIsLost asks of a step, of the clients' entries themselves. *)
LosesNone ==
    /\ \A s \in Slots : slot[s].state = "FREE" /\ slot'[s].state # "FREE" =>
         (\E e \in cc' : e.slot = s) \/ (vosPc' = "start" /\ vosWork'.slot = s)
    /\ \A e \in cc : e \in cc' \/ slot'[e.slot].state = "FREE"

Kept == ClientsInv' /\ LosesNone

(* A call on the slot of one client's handle leaves the other client's       *)
(* entries as they were.                                                     *)
LEMMA TouchCc ==
    ASSUME ClientsInv, NEW e \in cc, OnlySlot(e.slot), UNCHANGED vosVars
    PROVE  VosInv' /\ Recalled'
<1>1. /\ \A i \in vos : i.slot \in Slots \ {e.slot}
      /\ vosPc = "start" => vosWork.slot \in Slots \ {e.slot}
  BY DEF ClientsInv, VosInv, Apart, InUse
<1>2. /\ \A i \in vos : slot'[i.slot] = slot[i.slot]
      /\ vosPc = "start" => slot'[vosWork.slot] = slot[vosWork.slot]
  BY <1>1 DEF OnlySlot
<1> QED
  BY <1>2 DEF ClientsInv, VosInv, Recalled, InUse, vosVars

(* The same the other way round. *)
LEMMA TouchVos ==
    ASSUME ClientsInv, NEW s, OnlySlot(s), \A e \in cc : e.slot # s, UNCHANGED ccVars
    PROVE  CcInv' /\ \A e \in cc : e.slot \in Slots /\ slot'[e.slot] = slot[e.slot]
<1>1. \A e \in cc : e.slot \in Slots \ {s}
  BY DEF ClientsInv, CcInv, InUse
<1>2. \A e \in cc : slot'[e.slot] = slot[e.slot]
  BY <1>1 DEF OnlySlot
<1>3. ccPc = "start" => \A p \in Configured :
         dedicated_slot_for_type(p) = ccEntry.slot => guest'[p] = guest[p]
  BY DEF ClientsInv, CcInv, OnlySlot
<1> QED
  BY <1>1, <1>2, <1>3 DEF ClientsInv, CcInv, InUse, ccVars

(* A call on a slot in use brings no slot into use. *)
LEMMA TakesNone ==
    ASSUME NEW s, OnlySlot(s), slot[s].state # "FREE", cc \subseteq cc'
    PROVE  LosesNone
BY DEF OnlySlot, LosesNone

(* The console: STOP and RESUME. *)
LEMMA CcPauseInv ==
    ASSUME ClientsInv, NEW e \in cc, CcStop(e) \/ CcResume(e)
    PROVE  Kept
<1>1. /\ UNCHANGED <<ccVars, vosVars>> /\ CcIdle
      /\ \E rc \in RelayResults : h_stop(e.slot, rc) \/ h_resume(e.slot, rc)
  BY DEF CcStop, CcResume
<1>2. e.slot \in Slots /\ slot[e.slot].state # "FREE" /\ ManagerInv
  BY DEF ClientsInv, CcInv, InUse
<1>3. ManagerInv' /\ OnlySlot(e.slot) /\ slot'[e.slot].state # "FREE"
  BY <1>1, <1>2, SuspendSlot, ResumeSlot
<1>4. CcInv'
  BY <1>1, <1>3 DEF ClientsInv, CcInv, InUse, OnlySlot, ccVars, CcIdle
<1>5. Apart'
  BY <1>1 DEF ClientsInv, Apart, ccVars, vosVars
<1>6. VosInv' /\ Recalled'
  BY <1>1, <1>3, TouchCc
<1>7. LosesNone
  BY <1>1, <1>2, <1>3, TakesNone DEF ccVars
<1> QED
  BY <1>3, <1>4, <1>5, <1>6, <1>7 DEF Kept, ClientsInv

(* The console: START, which cannot fail. *)
LEMMA CcStartInv == ClientsInv /\ CcStart => Kept
<1> SUFFICES ASSUME ClientsInv, CcStart PROVE Kept
  OBVIOUS
<1>0. PICK rc \in RelayResults :
        /\ h_start(ccEntry.slot, rc)
        /\ ccPc' = IF rc = "OK" THEN "idle" ELSE "rollback"
  BY DEF CcStart
<1>1. UNCHANGED <<cc, vosVars>> /\ ccPc = "start"
  BY DEF CcStart
<1>2. /\ ccEntry \in cc /\ ccEntry.slot \in Slots /\ slot[ccEntry.slot].state = "RUNNING"
      /\ ManagerInv
      /\ \A p \in Configured : dedicated_slot_for_type(p) = ccEntry.slot =>
              guest[p].state = "RUNNING" /\ guest[p].started
  BY <1>1 DEF ClientsInv, CcInv, InUse
<1>3. /\ ManagerInv' /\ OnlySlot(ccEntry.slot) /\ slot'[ccEntry.slot].state # "FREE"
      /\ rc = "OK"
  BY <1>0, <1>2, ResumeSlot, BoundGuest
<1>4. CcInv'
  BY <1>0, <1>1, <1>3 DEF ClientsInv, CcInv, InUse, OnlySlot
<1>5. Apart'
  BY <1>1 DEF ClientsInv, Apart, vosVars
<1>6. VosInv' /\ Recalled'
  BY <1>1, <1>2, <1>3, TouchCc
<1>7. LosesNone
  BY <1>1, <1>2, <1>3, TakesNone
<1> QED
  BY <1>3, <1>4, <1>5, <1>6, <1>7 DEF Kept, ClientsInv

(* The console: DESTROY forgets a handle only when its slot is free. *)
LEMMA CcDestroyInv ==
    ASSUME ClientsInv, NEW e \in cc, CcDestroy(e)
    PROVE  Kept
<1>0. PICK rc \in RelayResults :
        h_destroy(e.slot, rc) /\ cc' = IF rc = "OK" THEN cc \ {e} ELSE cc
  BY DEF CcDestroy
<1>1. UNCHANGED vosVars /\ ccPc' = "idle"
  BY DEF CcDestroy, CcIdle
<1>2. e.slot \in Slots /\ slot[e.slot].state # "FREE" /\ ManagerInv
  BY DEF ClientsInv, CcInv, InUse
<1>3. /\ ManagerInv' /\ OnlySlot(e.slot)
      /\ rc = "OK" => slot'[e.slot].state = "FREE"
      /\ rc # "OK" => slot' = slot
  BY <1>0, <1>2, DestroySlot
<1>4. cc' \subseteq cc /\ \A f \in cc' : f.slot \in Slots /\ slot'[f.slot] = slot[f.slot]
  BY <1>0, <1>3 DEF ClientsInv, CcInv, InUse, OnlySlot
<1>5. CcInv'
  BY <1>1, <1>4 DEF ClientsInv, CcInv, InUse
<1>6. Apart'
  BY <1>1, <1>4 DEF ClientsInv, Apart, vosVars
<1>7. VosInv' /\ Recalled'
  BY <1>1, <1>3, TouchCc
<1>8. LosesNone
  BY <1>0, <1>2, <1>3 DEF LosesNone, OnlySlot
<1> QED
  BY <1>3, <1>5, <1>6, <1>7, <1>8 DEF Kept, ClientsInv


(* A slot in use, and the guest behind it, stay as they are when a CREATE of *)
(* another is answered.                                                      *)
LEMMA CreateLeaves ==
    ASSUME ClientsInv, NEW p, NEW fits \in BOOLEAN, NEW prepared \in BOOLEAN, NEW rc,
           h_create(p, fits, prepared, rc)
    PROVE  LET s == dedicated_slot_for_type(p)
           IN  /\ \A e \in cc : e.slot \in Slots /\ slot'[e.slot] = slot[e.slot]
               /\ \A i \in vos : i.slot \in Slots /\ slot'[i.slot] = slot[i.slot]
               /\ vosPc = "start" => slot'[vosWork.slot] = slot[vosWork.slot]
               /\ ccPc = "start" => \A q \in Configured :
                    dedicated_slot_for_type(q) = ccEntry.slot => guest'[q] = guest[q]
               /\ rc = "OK" => /\ \A e \in cc : e.slot # s
                               /\ \A i \in vos : i.slot # s
                               /\ vosPc = "start" => vosWork.slot # s
<1> DEFINE s == dedicated_slot_for_type(p)
<1>1. /\ \A e \in cc : InUse(e.slot)
      /\ \A i \in vos : InUse(i.slot)
      /\ vosPc = "start" => InUse(vosWork.slot)
      /\ ccPc = "start" => InUse(ccEntry.slot)
      /\ ManagerInv
  BY DEF ClientsInv, CcInv, VosInv
<1>2. /\ \A t \in Slots : slot[t].state # "FREE" => slot'[t] = slot[t]
      /\ \A q \in Configured : slot[dedicated_slot_for_type(q)].state # "FREE" =>
           guest'[q] = guest[q]
      /\ rc = "OK" => slot[s].state = "FREE"
  BY <1>1, CreateSlot
<1> QED
  BY <1>1, <1>2 DEF InUse

(* The console: CREATE. *)
LEMMA CcCreateInv ==
    ASSUME ClientsInv, NEW p \in Profiles, cc_vm_create(p)
    PROVE  Kept
<1> DEFINE s == dedicated_slot_for_type(p)
           new == [handle |-> ccNext, slot |-> s, profile |-> p]
<1>0. PICK fits \in BOOLEAN, prepared \in BOOLEAN, rc \in CreateResults :
         /\ h_create(p, fits, prepared, rc)
         /\ IF rc = "OK" /\ \A e \in cc : e.slot # s
              THEN /\ cc' = cc \union {new} /\ ccEntry' = new /\ ccPc' = "start"
              ELSE UNCHANGED ccVars
  BY DEF cc_vm_create
<1>1. UNCHANGED vosVars /\ ccPc = "idle"
  BY DEF cc_vm_create, CcIdle
<1>2. new.slot = s /\ h_create(p, fits, prepared, rc) /\ ManagerInv
  BY <1>0 DEF ClientsInv
<1>3. /\ ManagerInv' /\ OnlySlot(s)
      /\ rc # "OK" => slot' = slot
      /\ rc = "OK" => /\ p \in Configured /\ s \in Slots /\ slot'[s].state = "RUNNING"
                      /\ guest'[p].state = "RUNNING" /\ guest'[p].started
                      /\ guest'[p].prep = "none"
  BY <1>2, CreateSlot
<1>4. /\ \A e \in cc : e.slot \in Slots /\ slot'[e.slot] = slot[e.slot]
      /\ \A i \in vos : i.slot \in Slots /\ slot'[i.slot] = slot[i.slot]
      /\ vosPc = "start" => slot'[vosWork.slot] = slot[vosWork.slot]
      /\ rc = "OK" => /\ \A e \in cc : e.slot # s
                      /\ \A i \in vos : i.slot # s
                      /\ vosPc = "start" => vosWork.slot # s
  BY <1>0, CreateLeaves, Zenon
<1> HIDE DEF new, s
<1>5. VosInv' /\ Recalled'
  BY <1>1, <1>4 DEF ClientsInv, VosInv, Recalled, InUse, vosVars
<1>6. CASE rc = "OK"
  <2>1. cc' = cc \union {new} /\ ccEntry' = new /\ ccPc' = "start"
    BY <1>0, <1>4, <1>6
  <2>2. \A q \in Configured : dedicated_slot_for_type(q) = s => q = p
    BY <1>3, <1>6, DedicatedSlot DEF s
  <2>3. CcInv'
    <3>1. \A e \in cc' : InUse(e.slot)'
      BY <1>2, <1>3, <1>4, <1>6, <2>1 DEF ClientsInv, CcInv, InUse
    <3>2. \A e, f \in cc' : e.slot = f.slot => e = f
      BY <1>2, <1>4, <1>6, <2>1 DEF ClientsInv, CcInv
    <3> QED
      BY <1>2, <1>3, <1>6, <2>1, <2>2, <3>1, <3>2 DEF CcInv
  <2>4. Apart'
    BY <1>1, <1>2, <1>4, <1>6, <2>1 DEF ClientsInv, Apart, vosVars
  <2>5. LosesNone
    BY <1>2, <1>3, <2>1 DEF LosesNone, OnlySlot
  <2> QED
    BY <1>3, <1>5, <2>3, <2>4, <2>5 DEF Kept, ClientsInv
<1>7. CASE rc # "OK"
  <2>1. UNCHANGED ccVars
    BY <1>0, <1>7
  <2>2. CcInv' /\ Apart' /\ LosesNone
    BY <1>1, <1>3, <1>7, <2>1 DEF ClientsInv, CcInv, Apart, LosesNone, InUse, ccVars, vosVars
  <2> QED
    BY <1>3, <1>5, <2>2 DEF Kept, ClientsInv
<1> QED
  BY <1>6, <1>7

(* The vibe engine: CREATE. *)
LEMMA VosCreateInv ==
    ASSUME ClientsInv, NEW p \in Profiles, VosCreate(p)
    PROVE  Kept
<1> DEFINE s == dedicated_slot_for_type(p)
           new == [handle |-> vosNext, slot |-> s, state |-> "BOOTING"]
<1>0. PICK fits \in BOOLEAN, prepared \in BOOLEAN, rc \in CreateResults :
         /\ h_create(p, fits, prepared, rc)
         /\ vosPc' = IF rc = "OK" THEN "start" ELSE "idle"
         /\ vosWork' = IF rc = "OK" THEN new ELSE vosWork
  BY DEF VosCreate
<1>1. UNCHANGED <<ccVars, vos>> /\ vosPc = "idle"
  BY DEF VosCreate, VosIdle
<1>2. new.slot = s /\ new.state = "BOOTING" /\ InstanceShape(new)
  BY DEF InstanceShape
<1>3. /\ ManagerInv' /\ OnlySlot(s)
      /\ rc # "OK" => slot' = slot
      /\ rc = "OK" => s \in Slots /\ slot'[s].state = "RUNNING"
  BY <1>0, CreateSlot DEF ClientsInv
<1>4. /\ \A e \in cc : e.slot \in Slots /\ slot'[e.slot] = slot[e.slot]
      /\ \A i \in vos : i.slot \in Slots /\ slot'[i.slot] = slot[i.slot]
      /\ ccPc = "start" => \A q \in Configured :
           dedicated_slot_for_type(q) = ccEntry.slot => guest'[q] = guest[q]
      /\ rc = "OK" => (\A e \in cc : e.slot # s) /\ (\A i \in vos : i.slot # s)
  BY <1>0, CreateLeaves, Zenon
<1> HIDE DEF new, s
<1>5. CcInv'
  BY <1>1, <1>4 DEF ClientsInv, CcInv, InUse, ccVars
<1>6. Recalled'
  BY <1>1, <1>4 DEF ClientsInv, Recalled
<1>7. VosInv' /\ Apart' /\ LosesNone
  <2>1. /\ \A i \in vos' : InstanceShape(i) /\ InUse(i.slot)'
        /\ \A i, j \in vos' : i.slot = j.slot => i = j
    BY <1>1, <1>4 DEF ClientsInv, VosInv, InUse
  <2>2. CASE rc = "OK"
    BY <1>0, <1>1, <1>2, <1>3, <1>4, <2>1, <2>2
       DEF ClientsInv, VosInv, Apart, LosesNone, InUse, OnlySlot, ccVars
  <2>3. CASE rc # "OK"
    BY <1>0, <1>1, <1>3, <2>1, <2>3
       DEF ClientsInv, VosInv, Apart, LosesNone, ccVars
  <2> QED
    BY <2>2, <2>3
<1> QED
  BY <1>3, <1>5, <1>6, <1>7 DEF Kept, ClientsInv


(* The vibe engine: START, whatever it answers. *)
LEMMA VosStartInv == ClientsInv /\ VosStart => Kept
<1> SUFFICES ASSUME ClientsInv, VosStart PROVE Kept
  OBVIOUS
<1> DEFINE s == vosWork.slot
<1>0. PICK rc \in RelayResults : h_start(s, rc)
  BY DEF VosStart
<1>1. UNCHANGED ccVars /\ vosPc = "start" /\ vosPc' = "idle" /\ vos' = vos \union {vosWork}
  BY DEF VosStart
<1>2. /\ s \in Slots /\ slot[s].state = "RUNNING" /\ ManagerInv
      /\ InstanceShape(vosWork) /\ vosWork.state = "BOOTING"
      /\ \A i \in vos : i.slot # s
      /\ \A e \in cc : e.slot # s
  BY <1>1 DEF ClientsInv, VosInv, Apart, InUse
<1>3. ManagerInv' /\ OnlySlot(s) /\ slot'[s].state = "RUNNING"
  BY <1>0, <1>2, ResumeSlot
<1>4. CcInv'
  BY <1>1, <1>2, <1>3, TouchVos
<1>5. \A i \in vos : i.slot \in Slots /\ slot'[i.slot] = slot[i.slot]
  BY <1>2, <1>3 DEF ClientsInv, VosInv, InUse, OnlySlot
<1>6. VosInv' /\ Apart' /\ Recalled'
  BY <1>1, <1>2, <1>3, <1>5 DEF ClientsInv, VosInv, Apart, Recalled, InUse, ccVars
<1>7. LosesNone
  BY <1>1, <1>2, <1>3, TakesNone DEF ccVars
<1> QED
  BY <1>3, <1>4, <1>6, <1>7 DEF Kept, ClientsInv

(* The vibe engine: the two calls of DESTROY. *)
LEMMA VosDestroyInv ==
    ASSUME ClientsInv, NEW i \in vos, VosDestroy(i)
    PROVE  Kept
<1>0. PICK rc \in RelayResults : h_stop(i.slot, rc)
  BY DEF VosDestroy
<1>1. UNCHANGED <<ccVars, vos>> /\ vosPc = "idle" /\ vosPc' = "destroy" /\ vosWork' = i
  BY DEF VosDestroy, VosIdle
<1>2. /\ i.slot \in Slots /\ slot[i.slot].state # "FREE" /\ ManagerInv
      /\ \A j \in vos : j # i => j.slot # i.slot
      /\ \A e \in cc : e.slot # i.slot
  BY DEF ClientsInv, VosInv, Apart, InUse
<1>3. ManagerInv' /\ OnlySlot(i.slot) /\ slot'[i.slot].state # "FREE"
  BY <1>0, <1>2, SuspendSlot
<1>4. CcInv'
  BY <1>1, <1>2, <1>3, TouchVos
<1>5. \A j \in vos : j # i => j.slot \in Slots /\ slot'[j.slot] = slot[j.slot]
  BY <1>2, <1>3 DEF ClientsInv, VosInv, InUse, OnlySlot
<1>6. VosInv' /\ Apart' /\ Recalled'
  BY <1>1, <1>2, <1>3, <1>5 DEF ClientsInv, VosInv, Apart, Recalled, InUse, ccVars
<1>7. LosesNone
  BY <1>1, <1>2, <1>3, TakesNone DEF ccVars
<1> QED
  BY <1>3, <1>4, <1>6, <1>7 DEF Kept, ClientsInv

(* ... the second of which forgets the instance. *)
LEMMA VosDestroyedInv == ClientsInv /\ VosDestroyed => Kept
<1> SUFFICES ASSUME ClientsInv, VosDestroyed PROVE Kept
  OBVIOUS
<1> DEFINE s == vosWork.slot
<1>0. PICK rc \in RelayResults : h_destroy(s, rc)
  BY DEF VosDestroyed
<1>1. /\ UNCHANGED ccVars /\ vosPc = "destroy" /\ vosPc' = "idle"
      /\ vos' = {i \in vos : i.handle # vosWork.handle}
  BY DEF VosDestroyed
<1>2. /\ s \in Slots /\ slot[s].state # "FREE" /\ ManagerInv
      /\ \A i \in vos' : i \in vos /\ i # vosWork /\ i.slot # s
      /\ \A e \in cc : e.slot # s
  BY <1>1 DEF ClientsInv, VosInv, Apart, InUse
<1>3. ManagerInv' /\ OnlySlot(s)
  BY <1>0, <1>2, DestroySlot
<1>4. CcInv'
  BY <1>1, <1>2, <1>3, TouchVos
<1>5. \A i \in vos' : i \in vos /\ i.slot \in Slots /\ slot'[i.slot] = slot[i.slot]
  BY <1>2, <1>3 DEF ClientsInv, VosInv, InUse, OnlySlot
<1>6. VosInv' /\ Apart' /\ Recalled'
  BY <1>1, <1>2, <1>5 DEF ClientsInv, VosInv, Apart, Recalled, InUse, ccVars
<1>7. LosesNone
  BY <1>1, <1>2, <1>3, TakesNone DEF ccVars
<1> QED
  BY <1>3, <1>4, <1>6, <1>7 DEF Kept, ClientsInv

(* What is recorded of an instance replaces what was. *)
LEMMA RecordInv ==
    ASSUME ClientsInv, NEW i \in vos, NEW st, UNCHANGED <<ccVars, vosPc, vosWork>>,
           vosPc = "idle", ManagerInv', OnlySlot(i.slot),
           \/ /\ vos' = (vos \ {i}) \union {[i EXCEPT !.state = st]}
              /\ slot'[i.slot].state = IF st = "PAUSED" THEN "SUSPENDED" ELSE "RUNNING"
           \/ vos' = vos /\ slot' = slot
    PROVE  Kept
<1>2. /\ i.slot \in Slots /\ slot[i.slot].state # "FREE" /\ InstanceShape(i)
      /\ \A j \in vos : j # i => j.slot # i.slot
      /\ \A e \in cc : e.slot # i.slot
  BY DEF ClientsInv, VosInv, Apart, InUse
<1>4. CcInv'
  BY <1>2, TouchVos
<1>5. \A j \in vos : j # i => j.slot \in Slots /\ slot'[j.slot] = slot[j.slot]
  BY <1>2 DEF ClientsInv, VosInv, InUse, OnlySlot
<1>7. LosesNone
  BY <1>2, TakesNone DEF ccVars
<1>8. CASE vos' = vos /\ slot' = slot
  <2>1. VosInv' /\ Apart' /\ Recalled'
    BY <1>8 DEF ClientsInv, VosInv, Apart, Recalled, InUse, ccVars
  <2> QED
    BY <1>4, <1>7, <2>1 DEF Kept, ClientsInv
<1>9. CASE /\ vos' = (vos \ {i}) \union {[i EXCEPT !.state = st]}
           /\ slot'[i.slot].state = IF st = "PAUSED" THEN "SUSPENDED" ELSE "RUNNING"
  <2> DEFINE new == [i EXCEPT !.state = st]
  <2>1. new.slot = i.slot /\ new.state = st /\ InstanceShape(new)
    BY <1>2 DEF InstanceShape
  <2>2. vos' = (vos \ {i}) \union {new}
    BY <1>9
  <2> HIDE DEF new
  <2>3. VosInv' /\ Apart' /\ Recalled'
    BY <1>2, <1>5, <1>9, <2>1, <2>2 DEF ClientsInv, VosInv, Apart, Recalled, InUse, ccVars
  <2> QED
    BY <1>4, <1>7, <2>3 DEF Kept, ClientsInv
<1> QED
  BY <1>8, <1>9

(* The vibe engine: SUSPEND, RESUME, the older opcodes and STATUS. *)
LEMMA VosRecordInv ==
    ASSUME ClientsInv, NEW i \in vos,
           VosSuspend(i) \/ VosResume(i) \/ VosPauseResume(i) \/ VosStatus(i)
    PROVE  Kept
<1>0. /\ UNCHANGED <<ccVars, vosPc, vosWork>> /\ vosPc = "idle"
  BY DEF VosSuspend, VosResume, VosPauseResume, VosStatus, VosIdle
<1>1. i.slot \in Slots /\ slot[i.slot].state # "FREE" /\ ManagerInv
  BY DEF ClientsInv, VosInv, InUse
<1>2. CASE \E rc \in RelayResults :
             (h_stop(i.slot, rc) \/ h_pause(i.slot, rc)) /\ Recorded(i, "PAUSED", rc)
  BY <1>0, <1>1, <1>2, SuspendSlot, RecordInv DEF Recorded
<1>3. CASE \E rc \in RelayResults : h_resume(i.slot, rc) /\ Recorded(i, "RUNNING", rc)
  BY <1>0, <1>1, <1>3, ResumeSlot, RecordInv, Zenon DEF Recorded
<1>4. CASE VosStatus(i)
  <2>1. UNCHANGED managerVars
    BY <1>4 DEF VosStatus
  <2>2. slot' = slot /\ guest' = guest /\ ManagerInv' /\ OnlySlot(i.slot)
    BY <1>1, <2>1, Zenon DEF managerVars, ManagerInv, Bound, Holds, Used, OnlySlot
  <2>3. \/ /\ slot[i.slot].state = "RUNNING"
           /\ vos' = (vos \ {i}) \union {[i EXCEPT !.state = "RUNNING"]}
        \/ /\ slot[i.slot].state = "SUSPENDED"
           /\ vos' = (vos \ {i}) \union {[i EXCEPT !.state = "PAUSED"]}
        \/ vos' = vos
    BY <1>4 DEF VosStatus
  <2> QED
    BY <1>0, <2>2, <2>3, RecordInv, Zenon
<1> QED
  BY <1>2, <1>3, <1>4 DEF VosSuspend, VosResume, VosPauseResume


(* A VMM finishes the reconstruction of a dead guest. *)
LEMMA VmmStepInv == ClientsInv /\ VmmStep => Kept
<1> SUFFICES ASSUME ClientsInv, NEW p \in Configured, Reconstruct(p), UNCHANGED <<ccVars, vosVars>>
             PROVE  Kept
  BY DEF VmmStep
<1>0. PICK h \in Guest : Reconstructed(guest[p], h) /\ guest' = [guest EXCEPT ![p] = h]
  BY Zenon DEF Reconstruct
<1>1. slot' = slot /\ slot_count' = slot_count
  BY DEF Reconstruct
<1>2. /\ DOMAIN guest = Configured /\ guest = [q \in Configured |-> guest[q]]
      /\ GuestOk(guest[p]) /\ Holds(p) /\ guest[p] \in Guest
  BY DEF ClientsInv, ManagerInv, GuestOk
<1>3. PICK w : h = [guest[p] EXCEPT !.prep = w]
  BY <1>0 DEF Reconstructed
<1>4. h.state = guest[p].state /\ h.started = guest[p].started
  BY <1>2, <1>3 DEF Guest
<1>5. guest[p].prep = "queued" /\ guest[p].state = "DEAD"
  BY <1>0, <1>2 DEF Reconstructed, GuestOk
<1>6. /\ guest' = [q \in Configured |-> guest'[q]] /\ DOMAIN guest' = Configured
      /\ guest'[p] = h /\ \A q \in Configured : q # p => guest'[q] = guest[q]
  BY <1>0, <1>2
<1>7. h.started <=> guest[p].started
  BY <1>4, Zenon
<1>8. \A q \in Configured : GuestOk(guest'[q]) /\ Holds(q)'
  <2> SUFFICES ASSUME NEW q \in Configured PROVE GuestOk(guest'[q]) /\ Holds(q)'
    OBVIOUS
  <2>1. CASE q # p
    BY <1>1, <1>6, <2>1 DEF ClientsInv, ManagerInv, Holds
  <2>2. CASE q = p
    BY <1>1, <1>2, <1>4, <1>5, <1>6, <1>7, <2>2 DEF GuestOk, Holds, Runs, Pauses, Stopped
  <2> QED
    BY <2>1, <2>2
<1>9. ManagerInv'
  BY <1>1, <1>6, <1>8 DEF ClientsInv, ManagerInv, Bound, Used
<1>10. CcInv'
  BY <1>1, <1>5, <1>6 DEF ClientsInv, CcInv, InUse, ccVars
<1>11. VosInv' /\ Apart' /\ Recalled' /\ LosesNone
  BY <1>1 DEF ClientsInv, VosInv, Apart, Recalled, LosesNone, InUse, ccVars, vosVars
<1> QED
  BY <1>9, <1>10, <1>11 DEF Kept, ClientsInv

(* Every table starts empty. *)
LEMMA ClientsInit == Init => ClientsInv
<1> SUFFICES ASSUME Init PROVE ClientsInv
  OBVIOUS
<1>1. /\ slot = [s \in Slots |-> FreeSlot] /\ slot_count = 0
      /\ guest = [p \in Configured |-> FreshGuest]
      /\ cc = {} /\ ccPc = "idle" /\ vos = {} /\ vosPc = "idle"
  BY DEF Init, ManagerInit
<1>2. FreeSlot.state = "FREE" /\ Shaped(FreeSlot)
  BY Zenon DEF FreeSlot, Shaped
<1>3. FreshGuest.state = "READY" /\ ~FreshGuest.started /\ FreshGuest.prep = "none"
  BY Zenon DEF FreshGuest
<1>4. FreshGuest \in Guest
  BY DEF FreshGuest, Guest, States, Preps
<1>5. Used = {}
  BY <1>1, <1>2 DEF Used
<1>6. slot_count = Cardinality(Used)
  BY <1>1, <1>5, FS_EmptySet
<1>7. /\ DOMAIN slot = Slots /\ DOMAIN guest = Configured
      /\ slot = [s \in Slots |-> slot[s]] /\ guest = [p \in Configured |-> guest[p]]
      /\ \A s \in Slots : slot[s] = FreeSlot
      /\ \A p \in Configured : guest[p] = FreshGuest
  BY <1>1
<1>8. ManagerInv
  BY <1>2, <1>3, <1>4, <1>6, <1>7, DedicatedSlot DEF ManagerInv, GuestOk, Holds, Stopped
<1> QED
  BY <1>1, <1>8 DEF ClientsInv, CcInv, VosInv, Apart, Recalled

(* The invariant is inductive, and no step loses a VM. *)
LEMMA ClientsNext == ClientsInv /\ [Next]_vars => ClientsInv' /\ (Next => LosesNone)
<1>1. ASSUME ClientsInv, Next PROVE Kept
  <2>1. ASSUME NEW p \in Profiles, cc_vm_create(p) \/ VosCreate(p) PROVE Kept
    BY <1>1, <2>1, CcCreateInv, VosCreateInv, Zenon
  <2>2. ASSUME NEW e \in cc, CcStop(e) \/ CcResume(e) \/ CcDestroy(e) PROVE Kept
    BY <1>1, <2>2, CcPauseInv, CcDestroyInv, Zenon
  <2>3. ASSUME NEW i \in vos, VosDestroy(i) PROVE Kept
    BY <1>1, <2>3, VosDestroyInv, Zenon
  <2>4. ASSUME NEW i \in vos,
               VosSuspend(i) \/ VosResume(i) \/ VosPauseResume(i) \/ VosStatus(i)
        PROVE  Kept
    BY <1>1, <2>4, VosRecordInv, Zenon
  <2>5. CASE CcStart \/ VosStart \/ VosDestroyed \/ VmmStep
    BY <1>1, <2>5, CcStartInv, VosStartInv, VosDestroyedInv, VmmStepInv, Zenon
  <2> QED
    BY <1>1, <2>1, <2>2, <2>3, <2>4, <2>5, Zenon DEF Next
<1>2. ASSUME ClientsInv, UNCHANGED vars PROVE ClientsInv'
  <2>1. /\ slot' = slot /\ guest' = guest /\ slot_count' = slot_count
        /\ cc' = cc /\ ccPc' = ccPc /\ ccEntry' = ccEntry
        /\ vos' = vos /\ vosPc' = vosPc /\ vosWork' = vosWork
    BY <1>2, Zenon DEF vars, managerVars, ccVars, vosVars
  <2>2. ManagerInv'
    BY <1>2, <2>1, Zenon DEF ClientsInv, ManagerInv, Bound, Holds, Used
  <2>3. CcInv'
    BY <1>2, <2>1, Zenon DEF ClientsInv, CcInv, InUse
  <2>4. VosInv'
    BY <1>2, <2>1, Zenon DEF ClientsInv, VosInv, InUse
  <2>5. Apart' /\ Recalled'
    BY <1>2, <2>1, Zenon DEF ClientsInv, Apart, Recalled
  <2> QED
    BY <2>2, <2>3, <2>4, <2>5, Zenon DEF ClientsInv
<1> QED
  BY <1>1, <1>2, Zenon DEF Kept

(* The invariant implies the two properties. *)
LEMMA ClientsInvImplies == ClientsInv => HandleOwnsSlot /\ RecordsAgree
<1> SUFFICES ASSUME ClientsInv PROVE HandleOwnsSlot /\ RecordsAgree
  OBVIOUS
<1>1. HandleOwnsSlot
  <2>1. ASSUME NEW n \in Named
        PROVE  \/ \E e \in cc : n = <<"cc", e.handle, e.slot>>
               \/ \E i \in vos : n = <<"vos", i.handle, i.slot>>
               \/ vosPc = "start" /\ n = <<"vos", vosWork.handle, vosWork.slot>>
    BY DEF Named
  <2>2. \A n \in Named : slot[n[3]].state # "FREE"
    BY <2>1 DEF ClientsInv, CcInv, VosInv, InUse
  <2>3. \A m \in Named, n \in Named : m[3] = n[3] => m = n
    BY <2>1 DEF ClientsInv, CcInv, VosInv, Apart
  <2> QED
    BY <2>2, <2>3 DEF HandleOwnsSlot, ClientsInv, CcInv
<1>2. SlotTracksGuest
  <2>1. ASSUME NEW p \in Configured
        PROVE  LET r == slot[dedicated_slot_for_type(p)]
               IN  CASE r.state = "RUNNING" /\ r.ep = p ->
                          guest[p].state \in {"RUNNING", "DESTROYING"}
                     [] r.state = "SUSPENDED" /\ r.ep = p ->
                          guest[p].state \in {"SUSPENDED", "DESTROYING"}
                     [] OTHER -> guest[p].state \in {"READY", "DEAD"} /\ ~guest[p].started
    <3>1. dedicated_slot_for_type(p) \in Slots /\ ManagerInv
      BY DedicatedSlot DEF ClientsInv
    <3>2. slot[dedicated_slot_for_type(p)].state # "FREE" =>
            slot[dedicated_slot_for_type(p)].ep = p
      BY <3>1, BoundGuest, DedicatedSlot
    <3>3. slot[dedicated_slot_for_type(p)].state \in SlotStates
      BY <3>1, SlotCases
    <3> QED
      BY <3>1, <3>2, <3>3 DEF ManagerInv, Holds, Runs, Pauses, Stopped, SlotStates
  <2>2. \A s \in Slots : slot[s].state = "FREE" => slot[s] = FreeSlot
    BY SlotCases DEF ClientsInv
  <2> QED
    BY <2>1, <2>2 DEF SlotTracksGuest, ClientsInv, ManagerInv, Used
<1>3. ASSUME NEW i \in vos, vosPc # "destroy" \/ vosWork.handle # i.handle
      PROVE  slot[i.slot].state = IF i.state = "PAUSED" THEN "SUSPENDED" ELSE "RUNNING"
  BY <1>3 DEF ClientsInv, Recalled
<1> QED
  BY <1>1, <1>2, <1>3 DEF RecordsAgree

(* The clients' invariant, always. *)
LEMMA ClientsInvariant == Spec => []ClientsInv
<1>1. ClientsInv /\ [Next]_vars => ClientsInv'
  BY ClientsNext
<1> QED
  BY ClientsInit, <1>1, PTL DEF Spec

(* No slot is named by two handles, every handle names a slot in use, and    *)
(* the console's START never fails after its CREATE: whichever clients run,  *)
(* whichever VMMs the image has, for any number of handles (cc_vm_client.c,  *)
(* vibe_engine.c, vm_manager.c).                                             *)
THEOREM HandleOwnsSlotHolds == Spec => []HandleOwnsSlot
<1>1. ClientsInv => HandleOwnsSlot
  BY ClientsInvImplies
<1> QED
  BY <1>1, ClientsInvariant, PTL

(* Instance, slot and guest agree, and slot_count counts the slots in use,   *)
(* through every failed or partial call (dedicated_create,                   *)
(* dedicated_guest_call, dedicated_destroy).                                 *)
THEOREM RecordsAgreeHolds == Spec => []RecordsAgree
<1>1. ClientsInv => RecordsAgree
  BY ClientsInvImplies
<1> QED
  BY <1>1, ClientsInvariant, PTL

(* The console loses no VM: a slot that comes into use has a handle at once, *)
(* and a handle goes away only with the use of its slot.                     *)
THEOREM NoVmIsLostHolds == Spec => NoVmIsLost
<1> DEFINE Lost ==
       /\ \A s \in Slots : slot[s].state = "FREE" /\ slot'[s].state # "FREE" =>
             \E n \in Named' : n[3] = s
       /\ \A e \in cc : e.handle \notin {f.handle : f \in cc'} =>
             slot'[e.slot].state = "FREE"
<1>1. LosesNone => Lost
  <2> SUFFICES ASSUME LosesNone PROVE Lost
    OBVIOUS
  <2>1. /\ \A e \in cc' : <<"cc", e.handle, e.slot>> \in Named'
        /\ vosPc' = "start" => <<"vos", vosWork'.handle, vosWork'.slot>> \in Named'
    BY DEF Named
  <2>2. \A a, b, c : <<a, b, c>>[3] = c
    OBVIOUS
  <2>3. ASSUME NEW s \in Slots, slot[s].state = "FREE", slot'[s].state # "FREE"
        PROVE  \E n \in Named' : n[3] = s
    <3>1. CASE \E e \in cc' : e.slot = s
      BY <2>1, <2>2, <3>1, Zenon
    <3>2. CASE vosPc' = "start" /\ vosWork'.slot = s
      BY <2>1, <2>2, <3>2
    <3> QED
      BY <2>3, <3>1, <3>2 DEF LosesNone
  <2> QED
    BY <2>3 DEF LosesNone
<1>2. ClientsInv /\ [Next]_vars => [Lost]_vars
  BY <1>1, ClientsNext
<1> QED
  BY <1>2, ClientsInvariant, PTL DEF Spec, NoVmIsLost

=============================================================================

------------------------ MODULE GuestLifecycleProofs ------------------------
(***************************************************************************)
(* The guest VMM, for every profile (set of enabled backends) and every    *)
(* bound on generations: it implements the lifecycle protocol of           *)
(* GuestContract, runs on backing that is mapped and owned, is published   *)
(* whole, holds nothing once it is dead, and admits nothing to a backend   *)
(* it is tearing down.                                                     *)
(***************************************************************************)
EXTENDS GuestLifecycle, TLAPS

(* The inductive invariant: which of the VMM's reconstruction flags can be  *)
(* set together, and in which lifecycle state.  The contract's one word     *)
(* `prep` stands for four variables; without this a CREATE could find them  *)
(* in a combination that has no word.                                       *)
RecShape ==
    rec = [generation |-> rec.generation, failed |-> rec.failed,
           cleanup_pending |-> rec.cleanup_pending,
           attempted |-> rec.attempted, release_next |-> rec.release_next]

Types ==
    /\ state \in States /\ started \in BOOLEAN
    /\ pending \in BOOLEAN /\ ready \in BOOLEAN /\ rec.failed \in BOOLEAN
    /\ pc \in 0 .. Steps /\ torn \in 0 .. Stages
    /\ RecShape

OnlyOne ==
    /\ pending => pc = 0
    /\ pending \/ pc > 0 => ~ready /\ ~rec.failed
    /\ ready => ~rec.failed

OnlyDead ==
    pending \/ pc > 0 \/ ready \/ rec.failed => state = "DEAD" /\ ~started

DeadIsTorn == state = "DEAD" /\ ~ready /\ ~rec.failed => torn = Stages

PrepInv == Types /\ OnlyOne /\ OnlyDead /\ DeadIsTorn

(* The contract's view of the guest, as a name of its own. *)
Prep == IF ready THEN "ready"
        ELSE IF rec.failed THEN "failed"
        ELSE IF pending \/ pc > 0 THEN "queued" ELSE "none"

View == [state |-> state, started |-> started, prep |-> Prep]

-----------------------------------------------------------------------------
(* The resource each step is about. *)
LEMMA StepOf ==
    /\ \A i \in {1, 2, 3, 4, 5, 17} : RecreateSteps[i].of \notin Backends
    /\ \A i \in {6, 7} : RecreateSteps[i].of = "NET"
    /\ \A i \in {8, 9} : RecreateSteps[i].of = "BLK"
    /\ \A i \in {10, 11} : RecreateSteps[i].of = "SERIAL"
    /\ \A i \in {12, 13} : RecreateSteps[i].of = "INPUT"
    /\ \A i \in {14, 15, 16} : RecreateSteps[i].of = "GRAPHICS"
BY SMT DEF RecreateSteps, Stage, Backends

(* A reconstruction that is not at its last step has a next one, the first  *)
(* that is not skipped: the media step never is.                            *)
LEMMA NextStepExists ==
    ASSUME NEW i \in 0 .. Steps - 1
    PROVE  /\ NextStep(i) \in i + 1 .. Steps
           /\ NotSkipped(NextStep(i))
           /\ \A k \in i + 1 .. NextStep(i) - 1 : ~NotSkipped(k)
<1> DEFINE Least(j) == NotSkipped(j) /\ \A k \in i + 1 .. j - 1 : ~NotSkipped(k)
<1>0. Steps = 17
  BY DEF Steps
<1>1. /\ \A j \in {1, 2, 3, 4, 5, 10, 11, 17} : NotSkipped(j)
      /\ NotSkipped(6) <=> NotSkipped(7)
      /\ NotSkipped(8) <=> NotSkipped(9)
      /\ NotSkipped(12) <=> NotSkipped(13)
      /\ (NotSkipped(14) <=> NotSkipped(15)) /\ (NotSkipped(15) <=> NotSkipped(16))
  BY StepOf, ProfileAssumption DEF NotSkipped
<1> SUFFICES \E j \in i + 1 .. Steps : Least(j)
  BY DEF NextStep
<1>2. CASE i \in 0 .. 4
  <2>1. Least(i + 1) /\ i + 1 \in i + 1 .. Steps
    BY <1>0, <1>1, <1>2
  <2> QED
    BY <2>1
<1>3. CASE i \in 5 .. 8
  BY <1>0, <1>1, <1>3
<1>4. CASE i \in 9 .. 10
  <2>1. Least(i + 1) /\ i + 1 \in i + 1 .. Steps
    BY <1>0, <1>1, <1>4
  <2> QED
    BY <2>1
<1>5. CASE i \in 11 .. 16
  BY <1>0, <1>1, <1>5
<1> QED
  BY <1>0, <1>2, <1>3, <1>4, <1>5

-----------------------------------------------------------------------------
(* A step as the contract sees it. *)
Calls(op, status) == Contract!Rpc(op, View, View', status) /\ Replied(op, status)

Finishes == Contract!Reconstructed(View, View') /\ UNCHANGED reply

Stutters == View' = View /\ reply' = reply

ContractStep ==
    \/ \E op \in Ops, status \in Statuses : Calls(op, status)
    \/ Finishes
    \/ Stutters

(* A handler runs only when no reconstruction is queued. *)
LEMMA ReceivingPrep == PrepInv /\ Receiving => Prep # "queued"
BY DEF PrepInv, Types, Receiving, Prep

(* Init establishes the invariant, and is the contract's initial state. *)
LEMMA PrepInit == Init => PrepInv /\ Contract!ContractInit
<1> SUFFICES ASSUME Init PROVE PrepInv /\ Contract!ContractInit
  OBVIOUS
<1>1. rec.failed = FALSE /\ RecShape
  BY DEF Init, RecShape
<1>2. /\ state = "READY" /\ started = FALSE /\ torn = 0
      /\ pc = 0 /\ pending = FALSE /\ ready = FALSE
      /\ reply = [op |-> "NONE", status |-> "OK"]
  BY DEF Init
<1>3. PrepInv
  <2>1. 0 \in 0 .. Steps /\ 0 \in 0 .. Stages /\ ~(0 > 0)
    BY DEF Steps, Stages
  <2> QED
    BY <1>1, <1>2, <2>1, Zenon DEF PrepInv, Types, OnlyOne, OnlyDead, DeadIsTorn, States
<1>4. Contract!ContractInit
  <2>1. ~(0 > 0)
    OBVIOUS
  <2> QED
    BY <1>1, <1>2, <2>1, Zenon DEF Contract!ContractInit, Contract!FreshGuest
<1> QED
  BY <1>3, <1>4

(* MSG_GUEST_CREATE: consumes a reconstruction, queues one, or refuses. *)
LEMMA CreateStep == PrepInv /\ MSG_GUEST_CREATE => PrepInv' /\ ContractStep
<1> SUFFICES ASSUME PrepInv, MSG_GUEST_CREATE PROVE PrepInv' /\ ContractStep
  OBVIOUS
<1>0. /\ Receiving /\ pc' = pc /\ torn' = torn /\ rec' = rec
      /\ pc = 0 /\ ~pending /\ Prep # "queued"
  BY ReceivingPrep DEF MSG_GUEST_CREATE, resVars, Receiving
<1>1. CASE /\ state = "DEAD" /\ ready /\ ready' = FALSE /\ started' = FALSE
           /\ state' = "READY" /\ Replied("CREATE", "OK") /\ pending' = pending
  <2>1. PrepInv'
    BY <1>0, <1>1, Zenon DEF PrepInv, Types, OnlyOne, OnlyDead, DeadIsTorn, RecShape, States
  <2>2. Prep = "ready" /\ Prep' = "none"
    BY <1>0, <1>1 DEF Prep, PrepInv, Types, OnlyOne
  <2>3. Calls("CREATE", "OK")
    BY <1>1, <2>2, Zenon DEF Calls, View, Contract!Rpc, Contract!Create
  <2> QED
    BY <2>1, <2>3 DEF ContractStep, Ops, Statuses
<1>2. CASE /\ state = "DEAD" /\ CanQueue /\ pending' = TRUE
           /\ Replied("CREATE", "NOT_READY") /\ UNCHANGED <<ready, started, state>>
  <2>1. PrepInv'
    BY <1>0, <1>2 DEF PrepInv, Types, OnlyOne, OnlyDead, DeadIsTorn, RecShape, CanQueue
  <2>2. Prep = "none" /\ Prep' = "queued" /\ ~started
    BY <1>0, <1>2 DEF Prep, CanQueue
  <2>3. Calls("CREATE", "NOT_READY")
    BY <1>2, <2>2 DEF Calls, View, Contract!Rpc, Contract!Create
  <2> QED
    BY <2>1, <2>3 DEF ContractStep, Ops, Statuses
<1>3. CASE /\ state = "DEAD" /\ ~ready /\ ~CanQueue
           /\ Replied("CREATE", "NOT_READY") /\ UNCHANGED <<pending, ready, started, state>>
  <2>1. PrepInv' /\ View' = View
    BY <1>0, <1>3 DEF PrepInv, Types, OnlyOne, OnlyDead, DeadIsTorn, RecShape, View, Prep
  <2>2. Prep # "ready" /\ (Prep = "failed" \/ started)
    BY <1>0, <1>3 DEF Prep, PrepInv, DeadIsTorn, CanQueue
  <2>3. Calls("CREATE", "NOT_READY")
    BY <1>0, <1>3, <2>1, <2>2 DEF Calls, View, Contract!Rpc, Contract!Create
  <2> QED
    BY <2>1, <2>3 DEF ContractStep, Ops, Statuses
<1>4. CASE /\ state # "DEAD"
           /\ Replied("CREATE", IF state = "READY" /\ ~started THEN "OK" ELSE "BAD_STATE")
           /\ UNCHANGED <<pending, ready, started, state>>
  <2>1. PrepInv' /\ View' = View /\ state \in States
    BY <1>0, <1>4 DEF PrepInv, Types, OnlyOne, OnlyDead, DeadIsTorn, RecShape, View, Prep
  <2> DEFINE status == IF state = "READY" /\ ~started THEN "OK" ELSE "BAD_STATE"
  <2>2. Calls("CREATE", status)
    BY <1>0, <1>4, <2>1 DEF Calls, View, Contract!Rpc, Contract!Create, States
  <2>3. status \in Statuses
    BY DEF Statuses
  <2> HIDE DEF status
  <2> QED
    BY <2>1, <2>2, <2>3 DEF ContractStep, Ops
<1> QED
  BY <1>1, <1>2, <1>3, <1>4, Zenon DEF MSG_GUEST_CREATE, Reset

(* MSG_GUEST_BOOT: starts the guest, or refuses and leaves it as it was. *)
LEMMA BootStep == PrepInv /\ MSG_GUEST_BOOT => PrepInv' /\ ContractStep
<1> SUFFICES ASSUME PrepInv, MSG_GUEST_BOOT PROVE PrepInv' /\ ContractStep
  OBVIOUS
<1>0. /\ torn' = torn /\ UNCHANGED recVars /\ Prep # "queued" /\ state \in States
  BY ReceivingPrep DEF MSG_GUEST_BOOT, resVars, PrepInv, Types
<1>1. Prep' = Prep
  BY <1>0 DEF Prep, recVars
<1>2. CASE Bootable /\ started' = TRUE /\ state' = "RUNNING" /\ Replied("BOOT", "OK")
  <2>1. PrepInv'
    BY <1>0, <1>2 DEF PrepInv, Types, OnlyOne, OnlyDead, DeadIsTorn, RecShape, States, Bootable, recVars
  <2>2. View' = [state |-> "RUNNING", started |-> TRUE, prep |-> Prep] /\ View.prep = Prep
    BY <1>1, <1>2, Zenon DEF View
  <2>3. Calls("BOOT", "OK")
    BY <1>0, <1>2, <2>2 DEF Calls, View, Bootable, Contract!Rpc, Contract!Boot
  <2> QED
    BY <2>1, <2>3 DEF ContractStep, Ops, Statuses
<1>3. CASE /\ UNCHANGED <<started, state>>
           /\ \/ Bootable /\ ~started /\ Replied("BOOT", "NOT_READY")
              \/ ~Bootable /\ Replied("BOOT", IF state = "DEAD" THEN "DEAD" ELSE "BAD_STATE")
  <2>1. PrepInv' /\ View' = View
    BY <1>0, <1>1, <1>3 DEF PrepInv, Types, OnlyOne, OnlyDead, DeadIsTorn, RecShape, View, recVars
  <2>2. \/ Calls("BOOT", "NOT_READY") \/ Calls("BOOT", "DEAD") \/ Calls("BOOT", "BAD_STATE")
    BY <1>0, <1>3, <2>1 DEF Calls, View, Bootable, States, Contract!Rpc, Contract!Boot
  <2> QED
    BY <2>1, <2>2 DEF ContractStep, Ops, Statuses
<1> QED
  BY <1>2, <1>3, Zenon DEF MSG_GUEST_BOOT

(* MSG_GUEST_SUSPEND and MSG_GUEST_RESUME move between RUNNING and SUSPENDED. *)
LEMMA PauseStep ==
    ASSUME PrepInv, NEW kernel \in BOOLEAN,
           MSG_GUEST_SUSPEND(kernel) \/ MSG_GUEST_RESUME(kernel)
    PROVE  PrepInv' /\ ContractStep
<1>0. /\ torn' = torn /\ UNCHANGED <<recVars, started>> /\ Prep # "queued" /\ state \in States
  BY ReceivingPrep DEF MSG_GUEST_SUSPEND, MSG_GUEST_RESUME, PrepInv, Types
<1>1. Prep' = Prep
  BY <1>0 DEF Prep, recVars
<1>2. \/ state' = state
      \/ started /\ state \in {"RUNNING", "SUSPENDED"} /\ state' \in {"RUNNING", "SUSPENDED"}
  BY DEF MSG_GUEST_SUSPEND, MSG_GUEST_RESUME, Refused, Suspended
<1>3. PrepInv'
  BY <1>0, <1>2 DEF PrepInv, Types, OnlyOne, OnlyDead, DeadIsTorn, RecShape, States, recVars
<1>4. CASE MSG_GUEST_SUSPEND(kernel)
  <2>1. \E status \in Statuses : Calls("SUSPEND", status)
    BY <1>0, <1>1, <1>4 DEF MSG_GUEST_SUSPEND, Refused, Suspended, Calls, View, States, Statuses,
         Contract!Rpc, Contract!Suspend, Contract!Transition
  <2> QED
    BY <1>3, <2>1 DEF ContractStep, Ops
<1>5. CASE MSG_GUEST_RESUME(kernel)
  <2>1. \E status \in Statuses : Calls("RESUME", status)
    BY <1>0, <1>1, <1>5 DEF MSG_GUEST_RESUME, Refused, Suspended, Calls, View, States, Statuses,
         Contract!Rpc, Contract!Resume, Contract!Transition
  <2> QED
    BY <1>3, <2>1 DEF ContractStep, Ops
<1> QED
  BY <1>4, <1>5

(* MSG_GUEST_DESTROY: DEAD only when the last stage succeeded. *)
LEMMA DestroyStep == PrepInv /\ Destroys => PrepInv' /\ ContractStep
<1> SUFFICES ASSUME PrepInv, NEW kernel \in BOOLEAN, NEW half \in BOOLEAN,
                    NEW stop \in torn .. Stages, MSG_GUEST_DESTROY(kernel, stop, half)
             PROVE  PrepInv' /\ ContractStep
  BY DEF Destroys
<1>0. UNCHANGED recVars /\ Prep # "queued" /\ state \in States
  BY ReceivingPrep DEF MSG_GUEST_DESTROY, PrepInv, Types
<1>1. Prep' = Prep
  BY <1>0 DEF Prep, recVars
<1>2. CASE /\ UNCHANGED <<ctlVars, resVars>>
           /\ \/ state = "DEAD" /\ Replied("DESTROY", "OK")
              \/ state \in {"READY", "RUNNING"} /\ Replied("DESTROY", "NOT_READY")
  <2>1. PrepInv' /\ View' = View
    BY <1>0, <1>1, <1>2 DEF PrepInv, Types, OnlyOne, OnlyDead, DeadIsTorn, RecShape, View, recVars,
         ctlVars, resVars
  <2>2. Calls("DESTROY", "OK") \/ Calls("DESTROY", "NOT_READY")
    BY <1>0, <1>2, <2>1 DEF Calls, View, Contract!Rpc, Contract!Destroy
  <2> QED
    BY <2>1, <2>2 DEF ContractStep, Ops, Statuses
<1>3. CASE /\ state # "DEAD" /\ torn' = stop
           /\ started' = (started /\ ~ExecutionReleased /\ stop # Stages)
           /\ state' = IF stop = Stages THEN "DEAD" ELSE "DESTROYING"
           /\ Replied("DESTROY", IF stop = Stages THEN "OK" ELSE "NOT_READY")
  <2>1. started' \in BOOLEAN /\ (started' = started \/ started' = FALSE)
    BY <1>3, Zenon DEF PrepInv, Types
  <2>2. stop = Stages => started' = FALSE
    BY <1>3, Zenon
  <2>3. PrepInv'
    BY <1>0, <1>3, <2>1 DEF PrepInv, Types, OnlyOne, OnlyDead, DeadIsTorn, RecShape, States, recVars
  <2>4. Calls("DESTROY", "OK") \/ Calls("DESTROY", "NOT_READY")
    <3>1. View' = [state |-> state', started |-> started', prep |-> Prep]
      BY <1>1 DEF View
    <3>2. CASE stop = Stages
      <4>1. View' = [state |-> "DEAD", started |-> FALSE, prep |-> Prep]
        BY <1>3, <2>2, <3>1, <3>2, Zenon
      <4>2. View.prep = Prep
        BY DEF View
      <4> QED
        BY <1>0, <1>3, <3>2, <4>1, <4>2 DEF Calls, View, Contract!Rpc, Contract!Destroy
    <3>3. CASE stop # Stages /\ started' = started
      <4>1. View' = [View EXCEPT !.state = "DESTROYING"]
        BY <1>3, <3>1, <3>3 DEF View
      <4> QED
        BY <1>0, <1>3, <3>3, <4>1 DEF Calls, View, Contract!Rpc, Contract!Destroy
    <3>4. CASE stop # Stages /\ started' = FALSE
      <4>1. View' = [state |-> "DESTROYING", started |-> FALSE, prep |-> Prep]
        BY <1>3, <3>1, <3>4, Zenon
      <4>2. View.prep = Prep
        BY DEF View
      <4> QED
        BY <1>0, <1>3, <3>4, <4>1, <4>2 DEF Calls, View, Contract!Rpc, Contract!Destroy
    <3> QED
      BY <2>1, <3>2, <3>3, <3>4, Zenon
  <2> QED
    BY <2>3, <2>4 DEF ContractStep, Ops, Statuses
<1> QED
  BY <1>2, <1>3 DEF MSG_GUEST_DESTROY, Teardown

-----------------------------------------------------------------------------
(* guest_vmm_reconstruct begins the queued work, or drops it when the       *)
(* generations are used up.                                                 *)
LEMMA ReconstructStep == PrepInv /\ guest_vmm_reconstruct => PrepInv' /\ ContractStep
<1> SUFFICES ASSUME PrepInv, guest_vmm_reconstruct PROVE PrepInv' /\ ContractStep
  OBVIOUS
<1>0. /\ pending /\ pc = 0 /\ pending' = FALSE /\ reply' = reply
      /\ UNCHANGED <<state, started, torn, ready>> /\ ~ready /\ ~rec.failed
  BY DEF guest_vmm_reconstruct, resVars, PrepInv, OnlyOne
<1>1. Prep = "queued"
  BY <1>0 DEF Prep
<1>2. CASE /\ rec' = [rec EXCEPT !.generation = @ + 1, !.release_next = 0]
           /\ pc' = NextStep(0)
  <2>1. pc' \in 1 .. Steps
    BY <1>2, NextStepExists DEF Steps
  <2>2. rec'.failed = rec.failed
    BY <1>2 DEF PrepInv, Types, RecShape
  <2>3. PrepInv'
    <3>1. RecShape'
      BY <1>2, Zenon DEF PrepInv, Types, RecShape
    <3>2. Types'
      <4>1. pc' \in 0 .. Steps
        BY <2>1 DEF Steps
      <4> QED
        BY <1>0, <2>2, <3>1, <4>1, Zenon DEF PrepInv, Types
    <3>3. OnlyOne' /\ OnlyDead' /\ DeadIsTorn'
      BY <1>0, <2>2, Zenon DEF PrepInv, OnlyOne, OnlyDead, DeadIsTorn
    <3> QED
      BY <3>2, <3>3 DEF PrepInv
  <2>4. Prep' = "queued"
    BY <1>0, <2>1, <2>2 DEF Prep
  <2>5. Stutters
    BY <1>0, <1>1, <2>4 DEF Stutters, View
  <2> QED
    BY <2>3, <2>5 DEF ContractStep
<1>3. CASE UNCHANGED <<rec, pc>>
  <2>1. PrepInv'
    BY <1>0, <1>3, Zenon DEF PrepInv, Types, OnlyOne, OnlyDead, DeadIsTorn, RecShape
  <2>2. Prep' = "none"
    BY <1>0, <1>3 DEF Prep
  <2>3. Finishes
    BY <1>0, <1>1, <2>2 DEF Finishes, View, Contract!Reconstructed
  <2> QED
    BY <2>1, <2>3 DEF ContractStep
<1> QED
  BY <1>2, <1>3 DEF guest_vmm_reconstruct

(* A step of the reconstruction goes on to the next, or publishes the guest. *)
LEMMA DoneStep == PrepInv /\ StepDone => PrepInv' /\ ContractStep
<1> SUFFICES ASSUME PrepInv, StepDone PROVE PrepInv' /\ ContractStep
  OBVIOUS
<1>0. /\ pc \in 1 .. Steps /\ UNCHANGED <<state, pending, reply>>
      /\ state = "DEAD" /\ ~started /\ ~ready /\ ~rec.failed /\ ~pending
  BY DEF StepDone, PrepInv, Types, OnlyOne, OnlyDead
<1>1. Prep = "queued"
  BY <1>0 DEF Prep
<1>2. \E a : rec' = [rec EXCEPT !.attempted = a]
  BY Zenon DEF StepDone
<1>3. /\ rec'.failed = rec.failed
      /\ RecShape'
  BY <1>2 DEF PrepInv, Types, RecShape
<1>4. CASE pc < Steps /\ pc' = NextStep(pc) /\ UNCHANGED <<torn, started, ready>>
  <2>1. pc' \in 1 .. Steps
    BY <1>0, <1>4, NextStepExists DEF Steps
  <2>2. PrepInv'
    BY <1>0, <1>3, <1>4, <2>1 DEF PrepInv, Types, OnlyOne, OnlyDead, DeadIsTorn, Steps
  <2>3. Prep' = "queued"
    BY <1>0, <1>3, <1>4, <2>1 DEF Prep
  <2>4. Stutters
    BY <1>0, <1>1, <1>4, <2>3 DEF Stutters, View
  <2> QED
    BY <2>2, <2>4 DEF ContractStep
<1>5. CASE pc' = 0 /\ ready' = TRUE /\ torn' = 0 /\ started' = FALSE
  <2>1. PrepInv'
    <3>1. 0 \in 0 .. Steps /\ 0 \in 0 .. Stages /\ ~(0 > 0)
      BY DEF Steps, Stages
    <3> QED
      BY <1>0, <1>3, <1>5, <3>1, Zenon DEF PrepInv, Types, OnlyOne, OnlyDead, DeadIsTorn
  <2>2. Prep' = "ready" /\ started' = started
    BY <1>0, <1>5, Zenon DEF Prep, PrepInv, Types
  <2>3. Finishes
    BY <1>0, <1>1, <2>2 DEF Finishes, View, Contract!Reconstructed
  <2> QED
    BY <2>1, <2>3 DEF ContractStep
<1> QED
  BY <1>4, <1>5, Zenon DEF StepDone, ReadyAfter

(* A step that fails ends the reconstruction for good. *)
LEMMA FailedStep ==
    ASSUME PrepInv, NEW effect \in BOOLEAN, StepFailed(effect)
    PROVE  PrepInv' /\ ContractStep
<1>0. /\ UNCHANGED <<state, pending, torn, reply>>
      /\ pc' = 0 /\ ready' = FALSE /\ started' = FALSE
      /\ state = "DEAD" /\ ~started /\ ~ready /\ ~rec.failed /\ ~pending /\ pc > 0
  BY DEF StepFailed, PrepInv, Types, OnlyOne, OnlyDead, ReadyAfter
<1>1. Prep = "queued"
  BY <1>0 DEF Prep
<1>2. \E a, c : \E f \in {TRUE} :
        rec' = [rec EXCEPT !.attempted = a, !.failed = f, !.cleanup_pending = c]
  BY Zenon DEF StepFailed
<1>3. /\ rec'.failed = TRUE
      /\ RecShape'
  BY <1>2, Zenon DEF PrepInv, Types, RecShape
<1>4. PrepInv'
  <2>1. 0 \in 0 .. Steps /\ ~(0 > 0)
    BY DEF Steps
  <2> QED
    BY <1>0, <1>3, <2>1, Zenon DEF PrepInv, Types, OnlyOne, OnlyDead, DeadIsTorn
<1>5. Prep' = "failed" /\ started' = started
  BY <1>0, <1>3, Zenon DEF Prep, PrepInv, Types
<1>6. Finishes
  BY <1>0, <1>1, <1>5 DEF Finishes, View, Contract!Reconstructed
<1> QED
  BY <1>4, <1>6 DEF ContractStep

(* Cleanup of a failed reconstruction changes nothing the contract sees. *)
LEMMA CleanupStep == PrepInv /\ Cleanups => PrepInv' /\ ContractStep
<1> SUFFICES ASSUME PrepInv, NEW acked, NEW half, NEW upto, NEW partial \in BOOLEAN,
                    guest_vmm_reset_cleanup(acked, half, upto, partial)
             PROVE  PrepInv' /\ ContractStep
  BY DEF Cleanups
<1>0. /\ rec.failed /\ started' = FALSE
      /\ UNCHANGED <<state, torn, pc, pending, ready, reply>>
  BY DEF guest_vmm_reset_cleanup
<1>1. started' = started
  BY <1>0, Zenon DEF PrepInv, Types, OnlyDead
<1>2. \E a, r, c : rec' = [rec EXCEPT !.attempted = a, !.release_next = r, !.cleanup_pending = c]
  BY Zenon DEF guest_vmm_reset_cleanup
<1>3. rec'.failed = rec.failed /\ RecShape'
  BY <1>2, Zenon DEF PrepInv, Types, RecShape
<1>4. PrepInv'
  BY <1>0, <1>1, <1>3, Zenon DEF PrepInv, Types, OnlyOne, OnlyDead, DeadIsTorn
<1>5. Prep' = Prep
  BY <1>0, <1>3, Zenon DEF Prep
<1>6. Stutters
  BY <1>0, <1>1, <1>5 DEF Stutters, View
<1> QED
  BY <1>4, <1>6 DEF ContractStep

(* RPCs received while media is staged are refused. *)
LEMMA RejectStep ==
    ASSUME PrepInv, NEW op \in Ops, RejectRpc(op)
    PROVE  PrepInv' /\ ContractStep
<1>0. /\ UNCHANGED <<ctlVars, resVars, recVars>> /\ Replied(op, "NOT_READY") /\ pc = Steps
  BY DEF RejectRpc
<1>1. PrepInv' /\ View' = View
  BY <1>0 DEF PrepInv, Types, OnlyOne, OnlyDead, DeadIsTorn, RecShape, View, Prep, ctlVars,
       resVars, recVars
<1>2. Prep = "queued"
  BY <1>0 DEF Prep, PrepInv, OnlyOne, Steps
<1>3. Calls(op, "NOT_READY")
  BY <1>0, <1>1, <1>2 DEF Calls, View, Contract!Rpc
<1> QED
  BY <1>1, <1>3 DEF ContractStep, Statuses

(* Everything else is invisible to the manager. *)
Silent == UNCHANGED <<state, started, torn, recVars, reply>>

(* A silent step stutters. *)
LEMMA SilentStep == PrepInv /\ Silent => PrepInv' /\ ContractStep
<1> SUFFICES ASSUME PrepInv, Silent PROVE PrepInv' /\ ContractStep
  OBVIOUS
<1>1. PrepInv' /\ View' = View /\ reply' = reply
  BY DEF Silent, PrepInv, Types, OnlyOne, OnlyDead, DeadIsTorn, RecShape, View, Prep, recVars
<1> QED
  BY <1>1 DEF ContractStep, Stutters

(* The actions that are silent. *)
LEMMA SilentActions ==
    ASSUME MediaRead \/ GuestFaults \/ HandleFault \/ DropFault \/ BlkVirtServes
             \/ BlkRespReady \/ UNCHANGED vars
    PROVE  Silent
BY DEF MediaRead, GuestFaults, HandleFault, DropFault, BlkVirtServes, BlkRespReady, vars,
       Silent, ctlVars, resVars, recVars

(* The invariant is inductive, and every step is a step of the contract. *)
LEMMA PrepNext == PrepInv /\ [Next]_vars => PrepInv' /\ ContractStep
BY CreateStep, BootStep, PauseStep, DestroyStep, ReconstructStep, DoneStep, FailedStep,
   CleanupStep, RejectStep, SilentStep, SilentActions DEF Next

(* The contract's step is the one the refinement mapping names. *)
LEMMA ContractStepIsNext ==
    ContractStep => [Contract!ContractNext]_(Contract!contractVars)
BY DEF ContractStep, Calls, Finishes, Stutters, Replied, View, Prep, Ops, Statuses,
       Contract!ContractNext, Contract!Call, Contract!Prepare, Contract!Ops,
       Contract!Statuses, Contract!contractVars

(* The VMM's RPC handlers, teardown and deferred reconstruction implement    *)
(* the lifecycle the manager is written against, whatever the profile, the   *)
(* failures and the number of reconstructions (runtime.c, teardown.c,        *)
(* arm_recreate.c, guest_vmm.c).                                             *)
THEOREM LifecycleImplementsContract == Spec => ImplementsContract
<1>1. PrepInv /\ [Next]_vars => PrepInv' /\ [Contract!ContractNext]_(Contract!contractVars)
  BY PrepNext, ContractStepIsNext
<1> QED
  BY PrepInit, <1>1, PTL DEF Spec, ImplementsContract, Contract!ContractSpec

-----------------------------------------------------------------------------
(* The resources.  Which teardown stage detaches a backend, which one        *)
(* revokes a resource, and which step of the reconstruction rebinds a        *)
(* backend.                                                                  *)
DetachStage == [NET |-> 2, BLK |-> 3, SERIAL |-> 4, INPUT |-> 5, GRAPHICS |-> 6]

RevokeStage == [NET |-> 7, BLK |-> 8, SERIAL |-> 9, INPUT |-> 10, GRAPHICS |-> 11,
                EXECUTION |-> 12, RAM |-> 13, PAGING |-> 14]

BuildStep == [PAGING |-> 1, RAM |-> 2, EXECUTION |-> 3]

RebindStep == [NET |-> 6, BLK |-> 8, SERIAL |-> 10, INPUT |-> 12, GRAPHICS |-> 15]

ResTypes ==
    /\ live \subseteq Resources /\ vmm \subseteq Backends
    /\ virt \in [Backends -> {"attached", "retired", "staged"}]
    /\ vgen \in [Backends -> 0 .. MaxGen]
    /\ io \in Io
    /\ rec.generation \in 0 .. MaxGen
    /\ rec.attempted \subseteq Backends /\ rec.release_next \in 0 .. 5

(* What a service holds is backed, in every state. *)
Backed == \A b \in Backends : virt[b] # "retired" => b \in live /\ "RAM" \in live

AllRetired == \A b \in Backends : virt[b] = "retired"

(* A guest that is published, or ready to be. *)
Whole ==
    /\ torn = 0 /\ Enabled \cup Memory \subseteq live
    /\ \A b \in Enabled : virt[b] = "attached" /\ b \in vmm /\ vgen[b] = rec.generation
    /\ \A b \in Backends : virt[b] # "retired" => b \in Enabled

WholeInv == state \in {"READY", "RUNNING", "SUSPENDED"} \/ ready => Whole

(* What the stages completed so far have undone. *)
TornInv ==
    state = "DESTROYING" =>
        /\ \A b \in Backends : virt[b] # "retired" => b \in vmm /\ torn < DetachStage[b]
        /\ \A r \in live : torn < RevokeStage[r]

EmptyInv == state = "DEAD" /\ pc = 0 /\ ~ready /\ ~rec.failed => live = {} /\ AllRetired

(* What the steps completed so far have rebuilt. *)
Rebuilt ==
    /\ \A r \in Memory : pc > BuildStep[r] => r \in live
    /\ \A b \in Enabled :
         /\ pc > RebindStep[b] => /\ virt[b] = "attached" /\ b \in live
                                  /\ vgen[b] = rec.generation
         /\ pc > RebindStep[b] + 1 => b \in vmm

BuildInv ==
    pc > 0 =>
        /\ NotSkipped(pc) /\ rec.release_next = 0
        /\ \A b \in Backends : virt[b] # "retired" => b \in rec.attempted \cap Enabled
        /\ Rebuilt

(* What the cleanup of a failed reconstruction has undone. *)
CleanInv ==
    /\ rec.cleanup_pending => rec.failed
    /\ rec.failed =>
        /\ \A b \in Backends : virt[b] # "retired" => b \in rec.attempted
        /\ rec.release_next > 0 => rec.attempted = {}
        /\ \A i \in 1 .. rec.release_next : Releases[i] \cap live = {}
        /\ ~rec.cleanup_pending => rec.release_next = 5

(* Who executes, and what waits for the guest to be served. *)
ExecInv ==
    /\ started /\ sc => state = "RUNNING"
    /\ state \in {"READY", "DEAD"} => ~started /\ fault = "none"

IoInv ==
    io # "idle" =>
        /\ "BLK" \in Enabled
        /\ \/ state \in {"RUNNING", "SUSPENDED"}
           \/ state = "DESTROYING" /\ torn = 0 /\ virt["BLK"] = "attached"
           \/ pc = Steps

ResInv ==
    /\ ResTypes /\ Backed /\ WholeInv /\ TornInv /\ EmptyInv /\ BuildInv /\ CleanInv
    /\ ExecInv /\ IoInv

-----------------------------------------------------------------------------
(* The teardown stages one by one. *)
LEMMA StageIs ==
    /\ TeardownStages[1] = Stage("quiesce", "ALL")
    /\ \A b \in Backends : /\ DetachStage[b] \in 2 .. 6
                           /\ TeardownStages[DetachStage[b]] = Stage("detach", b)
    /\ \A r \in Resources : /\ RevokeStage[r] \in 7 .. 14
                            /\ TeardownStages[RevokeStage[r]] = Stage("revoke", r)
    /\ \A i \in 2 .. 6 : \E b \in Backends : i = DetachStage[b]
    /\ \A i \in 7 .. 14 : \E r \in Resources : i = RevokeStage[r]
<1>1. /\ TeardownStages[1] = Stage("quiesce", "ALL")
      /\ \A b \in Backends : /\ DetachStage[b] \in 2 .. 6
                             /\ TeardownStages[DetachStage[b]] = Stage("detach", b)
  BY SMT DEF TeardownStages, DetachStage, Backends
<1>2. \A r \in Resources : /\ RevokeStage[r] \in 7 .. 14
                           /\ TeardownStages[RevokeStage[r]] = Stage("revoke", r)
  BY SMT DEF TeardownStages, RevokeStage, Resources, Backends, Memory
<1>3. \A i \in 2 .. 6 : \E b \in Backends : i = DetachStage[b]
  BY SMT DEF DetachStage, Backends
<1>4. \A i \in 7 .. 14 : \E r \in Resources : i = RevokeStage[r]
  BY SMT DEF RevokeStage, Resources, Backends, Memory
<1> QED
  BY <1>1, <1>2, <1>3, <1>4

(* A span of stages detaches and revokes what has its stage in it. *)
LEMMA Targets ==
    ASSUME NEW span \in SUBSET (1 .. Stages)
    PROVE  /\ \A b : b \in StageTargets("detach", span)
                       <=> b \in Backends /\ DetachStage[b] \in span
           /\ \A r : r \in StageTargets("revoke", span)
                       <=> r \in Resources /\ RevokeStage[r] \in span
<1>0. \A do, of : Stage(do, of).do = do /\ Stage(do, of).of = of
  BY DEF Stage
<1>1. \A i \in 2 .. 6 : TeardownStages[i].do = "detach"
  BY <1>0, StageIs
<1>2. \A i \in 7 .. 14 : TeardownStages[i].do = "revoke"
  BY <1>0, StageIs
<1>3. TeardownStages[1].do = "quiesce"
  BY <1>0, StageIs
<1>4. ASSUME NEW i \in span
      PROVE  /\ i = 1 \/ i \in 2 .. 6 \/ i \in 7 .. 14
  BY <1>4 DEF Stages
<1>5. ASSUME NEW b PROVE b \in StageTargets("detach", span)
                           <=> b \in Backends /\ DetachStage[b] \in span
  <2>1. ASSUME b \in StageTargets("detach", span)
        PROVE  b \in Backends /\ DetachStage[b] \in span
    <3>1. PICK i \in span : TeardownStages[i].do = "detach" /\ b = TeardownStages[i].of
      BY <2>1 DEF StageTargets
    <3>2. i \in 2 .. 6
      BY <1>2, <1>3, <1>4, <3>1
    <3>3. PICK c \in Backends : i = DetachStage[c]
      BY <3>2, StageIs
    <3>4. b = c
      BY <1>0, <3>1, <3>3, StageIs
    <3> QED
      BY <3>1, <3>3, <3>4
  <2>2. ASSUME b \in Backends /\ DetachStage[b] \in span
        PROVE  b \in StageTargets("detach", span)
    BY <1>0, <2>2, StageIs DEF StageTargets
  <2> QED
    BY <2>1, <2>2
<1>6. ASSUME NEW r PROVE r \in StageTargets("revoke", span)
                           <=> r \in Resources /\ RevokeStage[r] \in span
  <2>1. ASSUME r \in StageTargets("revoke", span)
        PROVE  r \in Resources /\ RevokeStage[r] \in span
    <3>1. PICK i \in span : TeardownStages[i].do = "revoke" /\ r = TeardownStages[i].of
      BY <2>1 DEF StageTargets
    <3>2. i \in 7 .. 14
      BY <1>1, <1>3, <1>4, <3>1
    <3>3. PICK c \in Resources : i = RevokeStage[c]
      BY <3>2, StageIs
    <3>4. r = c
      BY <1>0, <3>1, <3>3, StageIs
    <3> QED
      BY <3>1, <3>3, <3>4
  <2>2. ASSUME r \in Resources /\ RevokeStage[r] \in span
        PROVE  r \in StageTargets("revoke", span)
    BY <1>0, <2>2, StageIs DEF StageTargets
  <2> QED
    BY <2>1, <2>2
<1> QED
  BY <1>5, <1>6

(* The execution objects are gone once the teardown is past their stage. *)
LEMMA ReleasedStage ==
    ASSUME torn' \in 0 .. Stages
    PROVE  ExecutionReleased <=> torn' >= RevokeStage["EXECUTION"]
<1>1. RevokeStage["EXECUTION"] = 12 /\ "EXECUTION" \in Resources
  BY DEF RevokeStage, Resources, Memory
<1>2. ASSUME NEW i \in 1 .. Stages
      PROVE  TeardownStages[i] = Stage("revoke", "EXECUTION") <=> i = 12
  BY SMT DEF Stages, Stage, TeardownStages
<1> QED
  BY <1>1, <1>2 DEF ExecutionReleased, Stages

(* The steps of the reconstruction one by one. *)
LEMMA StepIs ==
    /\ RecreateSteps[1] = Stage("build", "PAGING")
    /\ RecreateSteps[2] = Stage("build", "RAM")
    /\ RecreateSteps[3] = Stage("build", "EXECUTION")
    /\ RecreateSteps[4] = Stage("prepare", "IMAGES")
    /\ RecreateSteps[5] = Stage("prepare", "NATIVE_STATE")
    /\ RecreateSteps[14] = Stage("stage", "GRAPHICS")
    /\ RecreateSteps[17] = Stage("prepare", "MEDIA")
    /\ \A b \in Backends : /\ RebindStep[b] \in 6 .. 15
                           /\ RecreateSteps[RebindStep[b]] = Stage("rebind", b)
                           /\ RecreateSteps[RebindStep[b] + 1] = Stage("adopt", b)
    /\ \A i \in 6 .. 16 : \/ i = 14
                          \/ \E b \in Backends : i = RebindStep[b] \/ i = RebindStep[b] + 1
<1>1. \A b \in Backends : /\ RebindStep[b] \in 6 .. 15
                          /\ RecreateSteps[RebindStep[b]] = Stage("rebind", b)
                          /\ RecreateSteps[RebindStep[b] + 1] = Stage("adopt", b)
  BY SMT DEF RecreateSteps, RebindStep, Backends
<1>2. \A i \in 6 .. 16 : \/ i = 14
                         \/ \E b \in Backends : i = RebindStep[b] \/ i = RebindStep[b] + 1
  BY SMT DEF RebindStep, Backends
<1> QED
  BY <1>1, <1>2 DEF RecreateSteps

-----------------------------------------------------------------------------
(* The invariant implies the three properties. *)
LEMMA ResInvImplies ==
    PrepInv /\ ResInv => NoRevokedBacking /\ PublishedGuestIsWhole /\ DeadHoldsNothing
<1> SUFFICES ASSUME PrepInv, ResInv
             PROVE  NoRevokedBacking /\ PublishedGuestIsWhole /\ DeadHoldsNothing
  OBVIOUS
<1> USE DEF ResInv
<1>0. {"BLK", "RAM"} \subseteq Resources /\ "BLK" \in Backends /\ Memory \subseteq Resources
  BY DEF Resources, Backends, Memory
<1>1. Executing => state = "RUNNING" /\ Memory \subseteq live
  BY DEF Executing, ExecInv, WholeInv, Whole
<1>2. ASSUME io # "idle"
      PROVE  virt["BLK"] = "attached" /\ (torn = 0 \/ pc = Steps)
  <2>1. CASE state \in {"RUNNING", "SUSPENDED"}
    BY <1>2, <2>1 DEF IoInv, WholeInv, Whole
  <2>2. CASE state = "DESTROYING" /\ torn = 0 /\ virt["BLK"] = "attached"
    BY <2>2
  <2>3. CASE pc = Steps
    <3>1. Steps > 0 /\ Steps > RebindStep["BLK"]
      BY DEF Steps, RebindStep
    <3> QED
      BY <1>2, <2>3, <3>1 DEF IoInv, BuildInv, Rebuilt
  <2> QED
    BY <1>2, <2>1, <2>2, <2>3 DEF IoInv
<1>3. io # "idle" => {"BLK", "RAM"} \subseteq live
  BY <1>0, <1>2 DEF Backed
<1>4. NoRevokedBacking
  BY <1>1, <1>2, <1>3 DEF NoRevokedBacking, Backed
<1>5. PublishedGuestIsWhole
  <2>1. state # "DEAD" => ~rec.failed
    BY DEF PrepInv, OnlyDead
  <2>2. rec.generation <= MaxGen
    BY ProfileAssumption DEF ResTypes
  <2> QED
    BY <2>1, <2>2 DEF PublishedGuestIsWhole, WholeInv, Whole
<1>6. DeadHoldsNothing
  <2> SUFFICES ASSUME state = "DEAD", Receiving, ~ready, ~rec.cleanup_pending
               PROVE  live = {} /\ io = "idle" /\ AllRetired
    BY DEF DeadHoldsNothing, AllRetired
  <2>0. pc = 0 /\ io = "idle"
    BY DEF Receiving, IoInv, Steps
  <2>1. CASE ~rec.failed
    BY <2>0, <2>1 DEF EmptyInv
  <2>2. CASE rec.failed
    <3>1. rec.release_next = 5 /\ rec.attempted = {}
      BY <2>2 DEF CleanInv
    <3>2. AllRetired
      BY <2>2, <3>1 DEF CleanInv, AllRetired
    <3>3. \A r \in Resources : \E i \in 1 .. 5 : r \in Releases[i]
      BY SMT DEF Resources, Backends, Memory, Releases
    <3>4. \A i \in 1 .. 5 : Releases[i] \cap live = {}
      BY <2>2, <3>1 DEF CleanInv
    <3>5. live = {}
      BY <3>3, <3>4 DEF ResTypes
    <3> QED
      BY <2>0, <3>2, <3>5
  <2> QED
    BY <2>1, <2>2
<1> QED
  BY <1>4, <1>5, <1>6

(* A guest as the boot loader starts it is whole. *)
LEMMA ResInit == Init => ResInv
<1> SUFFICES ASSUME Init PROVE ResInv
  OBVIOUS
<1>1. /\ state = "READY" /\ ~started /\ fault = "none" /\ pc = 0 /\ io = "idle"
      /\ torn = 0 /\ live = Enabled \cup Memory /\ vmm = Enabled
      /\ virt = [b \in Backends |-> IF b \in Enabled THEN "attached" ELSE "retired"]
      /\ vgen = [b \in Backends |-> 0]
  BY Zenon DEF Init
<1>2. /\ rec.generation = 0 /\ rec.attempted = {} /\ rec.release_next = 0
      /\ ~rec.failed /\ ~rec.cleanup_pending
  BY Zenon DEF Init
<1>3. ResTypes /\ Backed /\ Whole
  BY <1>1, <1>2, ProfileAssumption
     DEF ResTypes, Backed, Whole, Resources, Memory, Backends, Io
<1> QED
  BY <1>1, <1>2, <1>3
     DEF ResInv, WholeInv, TornInv, EmptyInv, BuildInv, CleanInv, ExecInv, IoInv

(* What a step may leave alone. *)
ResKept == UNCHANGED <<torn, live, vmm, virt, vgen, rec, pc>>

\* What a step leaves alone keeps what it established.
LEMMA KeptClauses ==
    ASSUME ResInv, ResKept, io' \in Io
    PROVE  ResTypes' /\ Backed' /\ BuildInv' /\ CleanInv'
BY DEF ResInv, ResKept, ResTypes, Backed, BuildInv, Rebuilt, NotSkipped, CleanInv

(* MSG_GUEST_CREATE publishes only a guest that is ready. *)
LEMMA CreateRes == PrepInv /\ ResInv /\ MSG_GUEST_CREATE => ResInv'
<1> SUFFICES ASSUME PrepInv, ResInv, MSG_GUEST_CREATE PROVE ResInv'
  OBVIOUS
<1>0. /\ ResKept /\ UNCHANGED <<io, sc, fault>> /\ io \in Io /\ pc = 0
  BY DEF MSG_GUEST_CREATE, Receiving, resVars, ResKept, ResInv, ResTypes
<1>1. CASE state = "DEAD" /\ ready /\ ~ready' /\ ~started' /\ state' = "READY"
  BY <1>0, <1>1, KeptClauses
     DEF ResKept, ResInv, WholeInv, Whole, TornInv, EmptyInv, ExecInv, IoInv, Steps
<1>2. CASE UNCHANGED <<ready, started, state>>
  BY <1>0, <1>2, KeptClauses
     DEF ResKept, ResInv, WholeInv, Whole, TornInv, EmptyInv, AllRetired, ExecInv, IoInv
<1> QED
  BY <1>1, <1>2, Zenon DEF MSG_GUEST_CREATE, Reset

(* MSG_GUEST_BOOT starts a guest that is whole. *)
LEMMA BootRes == PrepInv /\ ResInv /\ MSG_GUEST_BOOT => ResInv'
<1> SUFFICES ASSUME PrepInv, ResInv, MSG_GUEST_BOOT PROVE ResInv'
  OBVIOUS
<1>0. /\ ResKept /\ UNCHANGED <<io, sc, fault, ready>> /\ io \in Io /\ pc = 0
  BY DEF MSG_GUEST_BOOT, Receiving, resVars, recVars, ResKept, ResInv, ResTypes
<1>1. CASE Bootable /\ state' = "RUNNING"
  BY <1>0, <1>1, KeptClauses
     DEF Bootable, ResKept, ResInv, WholeInv, Whole, TornInv, EmptyInv, ExecInv, IoInv, Steps
<1>2. CASE UNCHANGED <<started, state>>
  BY <1>0, <1>2, KeptClauses
     DEF ResKept, ResInv, WholeInv, Whole, TornInv, EmptyInv, AllRetired, ExecInv, IoInv
<1> QED
  BY <1>1, <1>2, Zenon DEF MSG_GUEST_BOOT

(* Completing what blk_virt has answered starts nothing when nothing is in   *)
(* flight.                                                                   *)
LEMMA DrainedIo ==
    ASSUME NEW i \in Io
    PROVE  Drained(i) \in Io /\ (i = "idle" => Drained(i) = "idle")
BY DEF Drained, Io

(* MSG_GUEST_SUSPEND and MSG_GUEST_RESUME move a whole guest. *)
LEMMA PauseRes ==
    ASSUME PrepInv, ResInv, NEW kernel \in BOOLEAN,
           MSG_GUEST_SUSPEND(kernel) \/ MSG_GUEST_RESUME(kernel)
    PROVE  ResInv'
<1>0. /\ ResKept /\ UNCHANGED <<fault, ready, started>> /\ io \in Io
  BY DEF MSG_GUEST_SUSPEND, MSG_GUEST_RESUME, recVars, ResKept, ResInv, ResTypes
<1>1. io' = io \/ io' = Drained(io)
  BY Zenon DEF MSG_GUEST_SUSPEND, MSG_GUEST_RESUME, Refused
<1>2. io' \in Io /\ (io = "idle" => io' = "idle")
  BY <1>0, <1>1, DrainedIo
<1>3. \/ UNCHANGED <<state, sc>>
      \/ state = "RUNNING" /\ ~sc' /\ state' = "SUSPENDED"
      \/ state = "SUSPENDED" /\ state' = "RUNNING"
  BY Zenon DEF MSG_GUEST_SUSPEND, MSG_GUEST_RESUME, Refused, Suspended
<1> QED
  BY <1>0, <1>2, <1>3, KeptClauses
     DEF ResKept, ResInv, WholeInv, Whole, TornInv, EmptyInv, AllRetired, ExecInv, IoInv


-----------------------------------------------------------------------------
(* Where a teardown starts from: what a service holds is still to be         *)
(* detached and known to the adapter, and what exists is still to be revoked. *)
LEMMA BeforeTeardown ==
    ASSUME PrepInv, ResInv, state # "DEAD"
    PROVE  /\ \A b \in Backends : virt[b] # "retired" => b \in vmm /\ torn < DetachStage[b]
           /\ \A r \in live : torn < RevokeStage[r]
           /\ pc = 0 /\ ~ready /\ ~rec.failed /\ ~rec.cleanup_pending
           /\ torn \in 0 .. Stages
<1>1. pc = 0 /\ ~ready /\ ~rec.failed /\ ~rec.cleanup_pending /\ torn \in 0 .. Stages
  BY DEF PrepInv, OnlyDead, Types, Steps, ResInv, CleanInv
<1>2. CASE state = "DESTROYING"
  BY <1>1, <1>2 DEF ResInv, TornInv
<1>3. CASE state \in {"READY", "RUNNING", "SUSPENDED"}
  BY <1>1, <1>3, StageIs DEF ResInv, WholeInv, Whole, ResTypes
<1> QED
  BY <1>1, <1>2, <1>3 DEF PrepInv, Types, States

(* How far a teardown got is what it has undone, at every stage it stops at, *)
(* half a stage included.                                                    *)
LEMMA TeardownUndoes ==
    ASSUME PrepInv, ResInv, state # "DEAD", NEW stop \in torn .. Stages, NEW half \in BOOLEAN,
           Teardown(stop, half)
    PROVE  /\ \A b \in Backends : virt'[b] # "retired" => b \in vmm' /\ stop < DetachStage[b]
           /\ \A r \in live' : stop < RevokeStage[r]
           /\ live' \subseteq Resources /\ vmm' \subseteq Backends /\ vgen' = vgen
           /\ virt' \in [Backends -> {"attached", "retired", "staged"}]
           /\ Backed'
<1> DEFINE last    == IF half THEN stop + 1 ELSE stop
           reached == torn + 1 .. last
           acked   == StageTargets("detach", torn + 1 .. stop)
           left    == StageTargets("detach", reached) \cap vmm
<1>1. /\ torn \in 0 .. Stages /\ stop \in 0 .. Stages /\ torn <= stop /\ Stages = 14
      /\ last \in 0 .. Stages /\ stop <= last /\ last <= stop + 1
  BY BeforeTeardown DEF Teardown, Stages
<1>2. /\ vmm' = vmm \ acked /\ live' = live \ StageTargets("revoke", reached) /\ vgen' = vgen
      /\ virt' = [b \in Backends |-> IF b \in left THEN "retired" ELSE virt[b]]
  BY DEF Teardown
<1>3. reached \in SUBSET (1 .. Stages) /\ torn + 1 .. stop \in SUBSET (1 .. Stages)
  BY <1>1
<1>4. /\ \A b : b \in StageTargets("detach", reached) <=> b \in Backends /\ DetachStage[b] \in reached
      /\ \A b : b \in acked <=> b \in Backends /\ DetachStage[b] \in torn + 1 .. stop
      /\ \A r : r \in StageTargets("revoke", reached) <=> r \in Resources /\ RevokeStage[r] \in reached
  BY <1>3, Targets, Zenon
<1> HIDE DEF last, acked, left
<1>5. ASSUME NEW b \in Backends, virt'[b] # "retired"
      PROVE  b \in vmm' /\ last < DetachStage[b] /\ virt[b] # "retired" /\ stop < DetachStage[b]
  <2>1. virt[b] # "retired" /\ b \notin left
    BY <1>2, <1>5
  <2>2. b \in vmm /\ torn < DetachStage[b] /\ DetachStage[b] \in 2 .. 6
    BY <2>1, BeforeTeardown, StageIs
  <2>3. DetachStage[b] \notin reached
    BY <1>4, <2>1, <2>2 DEF left
  <2>4. last < DetachStage[b]
    BY <1>1, <2>2, <2>3
  <2> QED
    BY <1>1, <1>2, <1>4, <2>1, <2>2, <2>4
<1>6. ASSUME NEW r \in live' PROVE stop < RevokeStage[r]
  <2>1. r \in live /\ r \in Resources /\ torn < RevokeStage[r] /\ RevokeStage[r] \in 7 .. 14
    BY <1>2, <1>6, BeforeTeardown, StageIs, Zenon DEF ResInv, ResTypes
  <2> QED
    BY <1>1, <1>2, <1>4, <1>6, <2>1, SMTT(60)
<1>7. Backed'
  <2> SUFFICES ASSUME NEW b \in Backends, virt'[b] # "retired"
               PROVE  b \in live' /\ "RAM" \in live'
    BY DEF Backed
  <2>1. b \in live /\ "RAM" \in live
    BY <1>5 DEF ResInv, Backed
  <2>2. last < 6
    BY <1>1, <1>5, StageIs
  <2>3. \A r \in Resources : RevokeStage[r] \notin reached
    BY <1>1, <2>2, StageIs
  <2> QED
    BY <1>2, <1>4, <2>1, <2>3
<1>8. /\ live' \subseteq Resources /\ vmm' \subseteq Backends
      /\ virt' \in [Backends -> {"attached", "retired", "staged"}]
  BY <1>2 DEF ResInv, ResTypes
<1> QED
  BY <1>2, <1>5, <1>6, <1>7, <1>8

(* MSG_GUEST_DESTROY, refused, partial or complete. *)
LEMMA DestroyRes ==
    PrepInv /\ ResInv /\ Destroys =>
        /\ ResInv'
        /\ io = "idle" => io' = "idle"
        /\ fault = "queued" /\ fault' = "none" => "EXECUTION" \notin live'
<1> SUFFICES ASSUME PrepInv, ResInv, NEW kernel \in BOOLEAN, NEW half \in BOOLEAN,
                    NEW stop \in torn .. Stages, MSG_GUEST_DESTROY(kernel, stop, half)
             PROVE  /\ ResInv'
                    /\ io = "idle" => io' = "idle"
                    /\ fault = "queued" /\ fault' = "none" => "EXECUTION" \notin live'
  BY DEF Destroys
<1>0. UNCHANGED <<rec, pc, ready>> /\ io \in Io
  BY DEF MSG_GUEST_DESTROY, recVars, ResInv, ResTypes
<1>1. CASE UNCHANGED <<ctlVars, resVars>>
  <2>1. ResKept /\ UNCHANGED <<state, started, sc, fault, io>>
    BY <1>0, <1>1 DEF ResKept, ctlVars, resVars
  <2> QED
    BY <1>0, <2>1, KeptClauses
       DEF ResKept, ResInv, WholeInv, Whole, TornInv, EmptyInv, AllRetired, ExecInv, IoInv
<1>2. CASE /\ state # "DEAD" /\ Teardown(stop, half) /\ ~sc'
           /\ stop = Stages => ~started'
           /\ fault' = IF ExecutionReleased \/ "EXECUTION" \notin live' THEN "none" ELSE fault
           /\ state' = IF stop = Stages THEN "DEAD" ELSE "DESTROYING"
  <2> USE <1>2
  <2>0. /\ torn' = stop /\ torn \in 0 .. Stages /\ stop \in 0 .. Stages /\ Stages = 14
        /\ pc' = 0 /\ ~ready' /\ ~rec'.failed /\ ~rec'.cleanup_pending
    BY <1>0, BeforeTeardown DEF Teardown, Stages
  <2>1. /\ io' \in Io /\ (io = "idle" => io' = "idle")
        /\ io' # "idle" /\ torn = 0 => stop = 0 /\ virt' = virt
    <3>1. io' = IF torn = 0 THEN Drained(io) ELSE io
      BY DEF Teardown
    <3>2. ASSUME io' # "idle", torn = 0 PROVE stop = 0 /\ virt' = virt
      <4>1. stop = 0 /\ ~half
        BY <3>1, <3>2 DEF Teardown, QuiesceDone
      <4>2. StageTargets("detach", torn + 1 .. stop) = {}
        BY <3>2, <4>1 DEF StageTargets
      <4>3. virt' = [b \in Backends |-> virt[b]]
        BY <4>1, <4>2 DEF Teardown
      <4> QED
        BY <4>1, <4>3 DEF ResInv, ResTypes
    <3> QED
      BY <1>0, <3>1, <3>2, DrainedIo
  <2>2. ResTypes' /\ Backed'
    BY <1>0, <2>1, TeardownUndoes DEF ResTypes, ResInv
  <2>3. TornInv'
    BY <2>0, TeardownUndoes DEF TornInv
  <2>4. EmptyInv'
    <3> SUFFICES ASSUME state' = "DEAD" PROVE live' = {} /\ AllRetired'
      BY DEF EmptyInv
    <3>1. stop = 14
      BY <2>0
    <3>2. live' = {}
      BY <2>2, <3>1, TeardownUndoes, StageIs DEF ResTypes
    <3>3. AllRetired'
      BY <3>1, TeardownUndoes, StageIs DEF AllRetired
    <3> QED
      BY <3>2, <3>3
  <2>5. IoInv'
    <3> SUFFICES ASSUME io' # "idle"
                 PROVE  "BLK" \in Enabled /\ state' = "DESTROYING" /\ torn' = 0
                          /\ virt'["BLK"] = "attached"
      BY DEF IoInv
    <3>1. /\ "BLK" \in Enabled /\ torn = 0 /\ virt["BLK"] = "attached"
      BY <1>0, <2>0, <2>1 DEF ResInv, IoInv, WholeInv, Whole, Steps
    <3> QED
      BY <2>0, <2>1, <3>1
  <2>6. /\ ExecutionReleased => "EXECUTION" \notin live'
        /\ stop = Stages => fault' = "none"
    <3>1. ExecutionReleased <=> stop >= RevokeStage["EXECUTION"]
      BY <2>0, ReleasedStage
    <3>2. "EXECUTION" \in Resources /\ RevokeStage["EXECUTION"] \in 7 .. 14
      BY StageIs DEF Resources, Memory
    <3> QED
      BY <2>0, <3>1, <3>2, TeardownUndoes
  <2>7. WholeInv' /\ BuildInv' /\ CleanInv' /\ ExecInv'
    BY <2>0, <2>6 DEF WholeInv, BuildInv, CleanInv, ExecInv
  <2> QED
    BY <2>1, <2>2, <2>3, <2>4, <2>5, <2>6, <2>7 DEF ResInv
<1>3. \/ UNCHANGED <<ctlVars, resVars>>
      \/ /\ state # "DEAD" /\ Teardown(stop, half) /\ ~sc'
         /\ stop = Stages => ~started'
         /\ fault' = IF ExecutionReleased \/ "EXECUTION" \notin live' THEN "none" ELSE fault
         /\ state' = IF stop = Stages THEN "DEAD" ELSE "DESTROYING"
  BY Zenon DEF MSG_GUEST_DESTROY
<1> QED
  BY <1>1, <1>2, <1>3


-----------------------------------------------------------------------------
(* What has been passed has been done: a step that is not skipped and lies   *)
(* before the next step was reached.                                         *)
LEMMA StepsPassed ==
    ASSUME NEW i \in 0 .. Steps - 1
    PROVE  /\ \A r \in Memory : NextStep(i) > BuildStep[r] => i >= BuildStep[r]
           /\ \A b \in Enabled : /\ NextStep(i) > RebindStep[b] => i >= RebindStep[b]
                                 /\ NextStep(i) > RebindStep[b] + 1 => i >= RebindStep[b] + 1
<1>0. Steps = 17 /\ NextStep(i) \in i + 1 .. 17
  BY NextStepExists DEF Steps
<1>1. \A k \in 1 .. 17 : NotSkipped(k) /\ NextStep(i) > k => i >= k
  BY <1>0, NextStepExists
<1>2. \A r \in Memory : BuildStep[r] \in {1, 2, 3}
  BY DEF Memory, BuildStep
<1>3. \A k \in {1, 2, 3} : NotSkipped(k)
  BY StepOf DEF NotSkipped
<1>4. \A do, of : Stage(do, of).of = of
  BY DEF Stage
<1>5. \A b \in Enabled : /\ RebindStep[b] \in 6 .. 15
                         /\ NotSkipped(RebindStep[b]) /\ NotSkipped(RebindStep[b] + 1)
  BY <1>4, StepIs, ProfileAssumption DEF NotSkipped
<1> QED
  BY <1>1, <1>2, <1>3, <1>5

(* Who may be named by a step, and what the step does to it. *)
LEMMA StepKinds ==
    ASSUME NEW p \in 1 .. Steps
    PROVE  /\ p \in {1, 2, 3} <=> RecreateSteps[p].do = "build"
           /\ p \in {4, 5, 17} <=> RecreateSteps[p].do = "prepare"
           /\ p = 14 <=> RecreateSteps[p].do = "stage"
           /\ \A b \in Backends : p = RebindStep[b] <=> RecreateSteps[p] = Stage("rebind", b)
           /\ \A b \in Backends : p = RebindStep[b] + 1 <=> RecreateSteps[p] = Stage("adopt", b)
           /\ RecreateSteps[p].do \in {"build", "prepare", "stage", "rebind", "adopt"}
           /\ RecreateSteps[p] = Stage(RecreateSteps[p].do, RecreateSteps[p].of)
           /\ RecreateSteps[p].do \in {"stage", "rebind", "adopt"} => RecreateSteps[p].of \in Backends
           /\ RecreateSteps[p].do \in {"build", "prepare"} => RecreateSteps[p].of \notin Backends
<1>0. p \in 1 .. 17
  BY DEF Steps
<1>1. \A do, of : Stage(do, of).do = do /\ Stage(do, of).of = of
  BY DEF Stage
<1>2. \A b, c \in Backends : /\ RebindStep[b] = RebindStep[c] => b = c
                             /\ RebindStep[b] # RebindStep[c] + 1
                             /\ RebindStep[b] # 14 /\ RebindStep[b] + 1 # 14
                             /\ RebindStep[b] \in 6 .. 15
  BY SMT DEF RebindStep, Backends
<1>3. /\ p \in {1, 2, 3} => RecreateSteps[p] = Stage("build", RecreateSteps[p].of)
      /\ p \in {4, 5, 17} => RecreateSteps[p] = Stage("prepare", RecreateSteps[p].of)
      /\ p = 14 => RecreateSteps[p] = Stage("stage", "GRAPHICS")
  BY <1>1, StepIs
<1>4. p \in {1, 2, 3, 4, 5, 17} => RecreateSteps[p].of \notin Backends
  BY StepOf
<1>5. p \notin {1, 2, 3, 4, 5, 17, 14}
        => \E b \in Backends : p = RebindStep[b] \/ p = RebindStep[b] + 1
  BY <1>0, StepIs
<1>6. "GRAPHICS" \in Backends
  BY DEF Backends
<1>7. CASE p \in {1, 2, 3, 4, 5, 17, 14}
  BY <1>1, <1>2, <1>3, <1>4, <1>6, <1>7
<1>8. CASE \E b \in Backends : p = RebindStep[b] \/ p = RebindStep[b] + 1
  <2>1. PICK b \in Backends : p = RebindStep[b] \/ p = RebindStep[b] + 1
    BY <1>8
  <2>2. CASE p = RebindStep[b]
    <3>1. RecreateSteps[p] = Stage("rebind", b)
      BY <2>2, StepIs
    <3>2. p \notin {1, 2, 3, 4, 5, 17, 14}
      BY <1>2, <2>2
    <3> QED
      BY <1>1, <1>2, <2>2, <3>1, <3>2
  <2>3. CASE p = RebindStep[b] + 1
    <3>1. RecreateSteps[p] = Stage("adopt", b)
      BY <2>3, StepIs
    <3>2. p \notin {1, 2, 3, 4, 5, 17, 14}
      BY <1>2, <2>3
    <3> QED
      BY <1>1, <1>2, <2>3, <3>1, <3>2
  <2> QED
    BY <2>1, <2>2, <2>3
<1> QED
  BY <1>5, <1>7, <1>8

(* The effect of a step on what the steps before it rebuilt. *)
EffectKeeps ==
    /\ live' \subseteq Resources /\ live \subseteq live'
    /\ vmm' \subseteq Backends /\ vmm \subseteq vmm'
    /\ virt' \in [Backends -> {"attached", "retired", "staged"}]
    /\ vgen' \in [Backends -> 0 .. MaxGen]
    /\ \A b \in Backends : virt'[b] # "retired" =>
         /\ b \in Attempted(RecreateSteps[pc]) \cap Enabled
         /\ b \in live' /\ "RAM" \in live'
    /\ \A b \in Enabled : pc > RebindStep[b] => virt'[b] = virt[b] /\ vgen'[b] = vgen[b]

(* What a step that is not skipped adds. *)
EffectAdds ==
    /\ \A r \in Memory : pc = BuildStep[r] => r \in live'
    /\ \A b \in Enabled : /\ pc = RebindStep[b] => /\ virt'[b] = "attached" /\ b \in live'
                                                   /\ vgen'[b] = rec.generation
                          /\ pc = RebindStep[b] + 1 => b \in vmm'


(* Every step keeps what is rebuilt and adds its own part: the services hold *)
(* only what was marked as attempted before.                                 *)
LEMMA StepEffectRes ==
    ASSUME PrepInv, ResInv, pc > 0, StepEffect(RecreateSteps[pc])
    PROVE  EffectKeeps /\ EffectAdds
<1> DEFINE s == RecreateSteps[pc]
<1>0. /\ pc \in 1 .. Steps /\ NotSkipped(pc) /\ Rebuilt /\ ResTypes /\ Backed
      /\ \A b \in Backends : virt[b] # "retired" => b \in rec.attempted \cap Enabled
  BY DEF PrepInv, Types, ResInv, BuildInv
<1>1. \A do, of : Stage(do, of).do = do /\ Stage(do, of).of = of
  BY DEF Stage
<1>2. /\ live' = IF s.do \in {"build", "rebind", "stage"} THEN live \cup {s.of} ELSE live
      /\ virt' = CASE s.do = "rebind" -> [virt EXCEPT ![s.of] = "attached"]
                   [] s.do = "stage" -> [virt EXCEPT ![s.of] = "staged"]
                   [] OTHER -> virt
      /\ vgen' = IF s.do = "rebind" THEN [vgen EXCEPT ![s.of] = rec.generation] ELSE vgen
      /\ vmm' = IF s.do = "adopt" THEN vmm \cup {s.of} ELSE vmm
  BY DEF StepEffect
<1>3. Backends \subseteq Resources /\ Memory \subseteq Resources /\ Enabled \subseteq Backends
  BY ProfileAssumption DEF Resources
<1>4. pc \in {1, 2, 3} => s.of \in Memory /\ pc = BuildStep[s.of]
  BY <1>1, StepIs DEF Memory, BuildStep
<1>5. \A r \in Memory : pc = BuildStep[r] => s.do = "build" /\ s.of = r
  BY <1>1, StepIs DEF Memory, BuildStep
<1>6. s.of \in Backends => s.of \in Enabled /\ s.of \in Attempted(s)
  BY <1>0 DEF NotSkipped, Attempted
<1>7. rec.attempted \subseteq Attempted(s)
  BY DEF Attempted
<1>8. s.do \in {"rebind", "stage"} => "RAM" \in live
  <2>1. s.do \in {"rebind", "stage"} => pc > 2
    BY <1>0, StepKinds
  <2> QED
    BY <1>0, <2>1 DEF Rebuilt, Memory, BuildStep
<1>9. ASSUME NEW b \in Enabled
      PROVE  /\ pc = RebindStep[b] => s.do = "rebind" /\ s.of = b
             /\ pc = RebindStep[b] + 1 => s.do = "adopt" /\ s.of = b
             /\ pc > RebindStep[b] => ~(s.do \in {"rebind", "stage"} /\ s.of = b)
  <2>1. b \in Backends /\ RebindStep[b] \in 6 .. 15
    BY <1>3, StepIs
  <2>2. s.do = "rebind" /\ s.of = b => pc = RebindStep[b]
    BY <1>0, <2>1, StepKinds
  <2>3. s.do = "stage" /\ s.of = b => pc < RebindStep[b]
    <3>1. s.do = "stage" => pc = 14
      BY <1>0, StepKinds
    <3>2. s.do = "stage" => s.of = "GRAPHICS"
      BY <1>1, <3>1, StepIs
    <3>3. RebindStep["GRAPHICS"] = 15
      BY DEF RebindStep
    <3> QED
      BY <3>1, <3>2, <3>3
  <2>4. pc = RebindStep[b] => s.do = "rebind" /\ s.of = b
    BY <1>1, <2>1, StepIs
  <2>5. pc = RebindStep[b] + 1 => s.do = "adopt" /\ s.of = b
    BY <1>1, <2>1, StepIs
  <2>6. pc \in Nat
    BY <1>0 DEF Steps
  <2> QED
    BY <2>1, <2>2, <2>3, <2>4, <2>5, <2>6
<1> HIDE DEF s
<1>10. s.do \in {"build", "prepare", "stage", "rebind", "adopt"}
       /\ (s.do \in {"stage", "rebind", "adopt"} => s.of \in Backends)
       /\ (s.do = "build" => s.of \in Memory)
  BY <1>0, <1>4, StepKinds DEF s
<1>11. EffectAdds
  <2>1. ASSUME NEW r \in Memory, pc = BuildStep[r] PROVE r \in live'
    BY <1>2, <1>5, <2>1
  <2>2. ASSUME NEW b \in Enabled, pc = RebindStep[b]
        PROVE  virt'[b] = "attached" /\ b \in live' /\ vgen'[b] = rec.generation
    BY <1>0, <1>2, <1>3, <1>9, <2>2 DEF ResTypes
  <2>3. ASSUME NEW b \in Enabled, pc = RebindStep[b] + 1 PROVE b \in vmm'
    BY <1>2, <1>9, <2>3
  <2> QED
    BY <2>1, <2>2, <2>3 DEF EffectAdds
<1>12. EffectKeeps
  <2>1. /\ live' \subseteq Resources /\ live \subseteq live'
        /\ vmm' \subseteq Backends /\ vmm \subseteq vmm'
    BY <1>0, <1>2, <1>3, <1>10 DEF ResTypes
  <2>2. /\ virt' \in [Backends -> {"attached", "retired", "staged"}]
        /\ vgen' \in [Backends -> 0 .. MaxGen]
    BY <1>0, <1>2, <1>10 DEF ResTypes
  <2>3. ASSUME NEW b \in Backends, virt'[b] # "retired"
        PROVE  b \in Attempted(s) \cap Enabled /\ b \in live' /\ "RAM" \in live'
    <3>1. CASE s.do \in {"rebind", "stage"} /\ s.of = b
      BY <1>2, <1>6, <1>8, <2>1, <3>1
    <3>2. CASE ~(s.do \in {"rebind", "stage"} /\ s.of = b)
      <4>1. virt'[b] = virt[b]
        BY <1>0, <1>2, <1>10, <3>2 DEF ResTypes
      <4> QED
        BY <1>0, <1>7, <2>1, <2>3, <4>1 DEF Backed
    <3> QED
      BY <3>1, <3>2
  <2>4. ASSUME NEW b \in Enabled, pc > RebindStep[b]
        PROVE  virt'[b] = virt[b] /\ vgen'[b] = vgen[b]
    BY <1>0, <1>2, <1>3, <1>9, <1>10, <2>4 DEF ResTypes
  <2> QED
    BY <2>1, <2>2, <2>3, <2>4 DEF EffectKeeps, s
<1> QED
  BY <1>11, <1>12


(* What the invariant asks of a DEAD guest that is being rebuilt, or whose   *)
(* reconstruction failed.                                                    *)
LEMMA DeadClauses ==
    ASSUME state' = "DEAD", ~ready', ~started', fault' = "none", io' = "idle",
           pc' # 0 \/ rec'.failed
    PROVE  WholeInv' /\ TornInv' /\ EmptyInv' /\ ExecInv' /\ IoInv'
<1>1. WholeInv' /\ TornInv'
  BY Zenon DEF WholeInv, TornInv
<1>2. EmptyInv' /\ IoInv'
  BY Zenon DEF EmptyInv, IoInv
<1>3. ExecInv'
  BY Zenon DEF ExecInv
<1> QED
  BY <1>1, <1>2, <1>3

(* The reconstruction starts from nothing. *)
LEMMA ReconstructRes == PrepInv /\ ResInv /\ guest_vmm_reconstruct => ResInv'
<1> SUFFICES ASSUME PrepInv, ResInv, guest_vmm_reconstruct PROVE ResInv'
  OBVIOUS
<1>0. /\ UNCHANGED <<state, started, sc, fault, torn, live, vmm, virt, vgen, io, ready>>
      /\ pc = 0 /\ ~ready /\ ~rec.failed /\ state = "DEAD" /\ ~rec.cleanup_pending
      /\ RecShape /\ ResTypes
  BY DEF guest_vmm_reconstruct, resVars, PrepInv, OnlyOne, OnlyDead, Types, ResInv, CleanInv
<1>1. live = {} /\ AllRetired /\ io = "idle"
  BY <1>0 DEF ResInv, EmptyInv, IoInv, Steps
<1>2. CASE UNCHANGED <<rec, pc>>
  <2>1. ResKept /\ io' \in Io
    BY <1>0, <1>2 DEF ResKept, ResTypes
  <2> QED
    BY <1>0, <1>2, <2>1, KeptClauses
       DEF ResKept, ResInv, WholeInv, Whole, TornInv, EmptyInv, AllRetired, ExecInv, IoInv
<1>3. CASE /\ GenerationLeft
           /\ rec' = [rec EXCEPT !.generation = @ + 1, !.release_next = 0]
           /\ pc' = NextStep(0)
  <2>1. /\ rec'.generation = rec.generation + 1 /\ rec'.release_next = 0
        /\ rec'.attempted = rec.attempted
        /\ rec'.failed = rec.failed /\ rec'.cleanup_pending = rec.cleanup_pending
    BY <1>0, <1>3, Zenon DEF RecShape
  <2>2. ~rec'.failed /\ ~rec'.cleanup_pending
    BY <1>0, <2>1, Zenon
  <2>3. pc' \in 1 .. Steps /\ NotSkipped(pc')
    BY <1>3, NextStepExists DEF Steps
  <2>4. pc' = 1
    <3>1. NotSkipped(1)
      BY StepOf DEF NotSkipped
    <3> QED
      BY <1>3, <3>1, NextStepExists DEF Steps
  <2>5. ResTypes' /\ Backed'
    BY <1>0, <1>1, <1>3, <2>1, ProfileAssumption DEF ResTypes, AllRetired, Backed, GenerationLeft
  <2>6. BuildInv'
    <3>1. Rebuilt'
      BY <2>4, StepIs, ProfileAssumption DEF Rebuilt, Memory, BuildStep
    <3>2. NotSkipped(pc)'
      BY <2>3 DEF NotSkipped
    <3> QED
      BY <1>0, <1>1, <2>1, <3>1, <3>2 DEF BuildInv, AllRetired
  <2> QED
    <3>1. CleanInv'
      BY <2>2, Zenon DEF CleanInv
    <3>2. ~started /\ fault = "none"
      BY <1>0, Zenon DEF ResInv, ExecInv
    <3>3. pc' # 0
      BY <2>4
    <3>4. WholeInv' /\ TornInv' /\ EmptyInv' /\ ExecInv' /\ IoInv'
      BY <1>0, <1>1, <3>2, <3>3, DeadClauses, Zenon
    <3> QED
      BY <2>5, <2>6, <3>1, <3>4, Zenon DEF ResInv
<1> QED
  BY <1>2, <1>3 DEF guest_vmm_reconstruct

(* A reconstruction runs in a DEAD guest that nothing else is done to. *)
LEMMA Rebuilding ==
    ASSUME PrepInv, ResInv, pc > 0
    PROVE  /\ state = "DEAD" /\ ~started /\ ~ready /\ ~rec.failed /\ ~rec.cleanup_pending
           /\ fault = "none" /\ pc \in 1 .. Steps /\ rec.release_next = 0
           /\ RecShape /\ ResTypes
BY DEF PrepInv, OnlyOne, OnlyDead, Types, ResInv, CleanInv, ExecInv, BuildInv

(* A step that succeeds rebuilds its part, and the last one publishes a      *)
(* whole guest.                                                              *)
LEMMA DoneRes == PrepInv /\ ResInv /\ StepDone => ResInv' /\ fault = "none"
<1> SUFFICES ASSUME PrepInv, ResInv, StepDone PROVE ResInv' /\ fault = "none"
  OBVIOUS
<1>0. /\ pc > 0 /\ io = "idle" /\ io' = "idle" /\ state' = state
      /\ StepEffect(RecreateSteps[pc])
  BY DEF StepDone
<1>1. EffectKeeps /\ EffectAdds
  BY <1>0, StepEffectRes
<1>2. fault' = "none"
  BY <1>0, Rebuilding DEF StepEffect
<1>3. Attempted(RecreateSteps[pc]) \subseteq Backends
  BY <1>0, Rebuilding DEF Attempted, ResTypes
<1>4. CASE /\ pc < Steps /\ pc' = NextStep(pc)
           /\ rec' = [rec EXCEPT !.attempted = Attempted(RecreateSteps[pc])]
           /\ UNCHANGED <<torn, startable, started, ready>>
  <2>1. /\ rec'.attempted = Attempted(RecreateSteps[pc])
        /\ rec'.generation = rec.generation /\ rec'.release_next = rec.release_next
        /\ rec'.failed = rec.failed /\ rec'.cleanup_pending = rec.cleanup_pending
    BY <1>0, <1>4, Rebuilding, Zenon DEF RecShape
  <2>2. ~rec'.failed /\ ~rec'.cleanup_pending
    BY <1>0, <2>1, Rebuilding, Zenon
  <2>3. pc \in 0 .. Steps - 1 /\ pc' \in pc + 1 .. Steps /\ NotSkipped(pc') /\ pc' > 0
    <3>1. pc \in 0 .. Steps - 1
      BY <1>0, <1>4, Rebuilding DEF Steps
    <3> QED
      BY <1>0, <1>4, <3>1, NextStepExists DEF Steps
  <2>4. ResTypes' /\ Backed'
    BY <1>0, <1>1, <1>3, <2>1, Rebuilding DEF ResTypes, Backed, EffectKeeps, Io
  <2>5. Rebuilt'
    <3> USE DEF EffectKeeps, EffectAdds
    <3>0. Rebuilt /\ pc \in Nat /\ Enabled \subseteq Backends
      BY <1>0, Rebuilding, ProfileAssumption DEF ResInv, BuildInv, Steps
    <3>1. ASSUME NEW r \in Memory, pc' > BuildStep[r] PROVE r \in live'
      <4>1. pc >= BuildStep[r] /\ BuildStep[r] \in 1 .. 3
        BY <1>4, <2>3, <3>1, StepsPassed DEF Memory, BuildStep
      <4> QED
        BY <1>1, <3>0, <4>1 DEF Rebuilt
    <3>2. ASSUME NEW b \in Enabled
          PROVE  /\ pc' > RebindStep[b] => /\ virt'[b] = "attached" /\ b \in live'
                                           /\ vgen'[b] = rec.generation
                 /\ pc' > RebindStep[b] + 1 => b \in vmm'
      <4>1. RebindStep[b] \in 6 .. 15
        BY <3>0, StepIs
      <4>2. /\ pc' > RebindStep[b] => pc >= RebindStep[b]
            /\ pc' > RebindStep[b] + 1 => pc >= RebindStep[b] + 1
        BY <1>4, <2>3, StepsPassed
      <4>3. pc > RebindStep[b] => virt'[b] = "attached" /\ b \in live' /\ vgen'[b] = rec.generation
        BY <1>1, <3>0 DEF Rebuilt
      <4>4. pc > RebindStep[b] + 1 => b \in vmm'
        BY <1>1, <3>0 DEF Rebuilt
      <4> QED
        BY <1>1, <3>0, <4>1, <4>2, <4>3, <4>4
    <3> QED
      BY <2>1, <3>1, <3>2 DEF Rebuilt
  <2>6. BuildInv'
    <3>1. NotSkipped(pc)'
      BY <2>3 DEF NotSkipped
    <3>2. \A b \in Backends : virt'[b] # "retired" => b \in rec'.attempted \cap Enabled
      BY <1>1, <2>1 DEF EffectKeeps
    <3> QED
      BY <1>0, <2>1, <2>5, <3>1, <3>2, Rebuilding DEF BuildInv
  <2> QED
    BY <1>0, <1>2, <1>4, <2>2, <2>3, <2>4, <2>6, Rebuilding
       DEF ResInv, WholeInv, TornInv, EmptyInv, CleanInv, ExecInv, IoInv
<1>5. CASE /\ pc = Steps /\ pc' = 0 /\ ready'
           /\ rec' = [rec EXCEPT !.attempted = {}] /\ torn' = 0 /\ ~started'
  <2>1. /\ rec'.attempted = {}
        /\ rec'.generation = rec.generation /\ rec'.release_next = rec.release_next
        /\ rec'.failed = rec.failed /\ rec'.cleanup_pending = rec.cleanup_pending
    BY <1>0, <1>5, Rebuilding, Zenon DEF RecShape
  <2>2. ~rec'.failed /\ ~rec'.cleanup_pending
    BY <1>0, <2>1, Rebuilding, Zenon
  <2>3. ResTypes' /\ Backed'
    BY <1>0, <1>1, <2>1, Rebuilding DEF ResTypes, Backed, EffectKeeps, Io
  <2>4. Whole'
    <3>0. Rebuilt /\ pc = 17 /\ Enabled \subseteq Backends
      BY <1>0, <1>5, ProfileAssumption DEF ResInv, BuildInv, Steps
    <3>1. \A r \in Memory : r \in live'
      <4>1. \A r \in Memory : 17 > BuildStep[r]
        BY DEF Memory, BuildStep
      <4>2. \A r \in Memory : r \in live
        BY <3>0, <4>1, Zenon DEF Rebuilt
      <4> QED
        BY <1>1, <4>2 DEF EffectKeeps
    <3>2. \A b \in Enabled : 17 > RebindStep[b] /\ (17 > RebindStep[b] + 1 \/ pc = RebindStep[b] + 1)
      BY <3>0, StepIs
    <3>3. \A b \in Enabled : /\ virt'[b] = "attached" /\ b \in vmm' /\ b \in live'
                             /\ vgen'[b] = rec.generation
      BY <1>1, <3>0, <3>2 DEF Rebuilt, EffectKeeps, EffectAdds
    <3> QED
      BY <1>1, <1>5, <2>1, <3>1, <3>3 DEF Whole, EffectKeeps
  <2> QED
    BY <1>0, <1>2, <1>5, <2>2, <2>3, <2>4, Rebuilding
       DEF ResInv, WholeInv, TornInv, EmptyInv, BuildInv, CleanInv, ExecInv, IoInv
<1>6. \/ /\ pc < Steps /\ pc' = NextStep(pc)
         /\ rec' = [rec EXCEPT !.attempted = Attempted(RecreateSteps[pc])]
         /\ UNCHANGED <<torn, startable, started, ready>>
      \/ /\ pc = Steps /\ pc' = 0 /\ ready'
         /\ rec' = [rec EXCEPT !.attempted = {}] /\ torn' = 0 /\ ~started'
  BY Zenon DEF StepDone, ReadyAfter
<1> QED
  BY <1>0, <1>4, <1>5, <1>6, Rebuilding


(* A step that fails leaves nothing that is not marked as attempted. *)
LEMMA FailedRes ==
    ASSUME PrepInv, ResInv, NEW effect \in BOOLEAN, StepFailed(effect)
    PROVE  ResInv' /\ fault = "none"
<1>0. /\ pc > 0 /\ io = "idle" /\ io' = "idle" /\ UNCHANGED <<state, torn>>
      /\ pc' = 0 /\ ~ready' /\ ~started'
  BY Zenon DEF StepFailed, ReadyAfter
<1>1. /\ rec'.attempted = Attempted(RecreateSteps[pc]) /\ rec'.failed /\ rec'.cleanup_pending
      /\ rec'.generation = rec.generation /\ rec'.release_next = rec.release_next
  BY <1>0, Rebuilding, Zenon DEF StepFailed, RecShape
<1>2. Attempted(RecreateSteps[pc]) \subseteq Backends /\ rec.attempted \subseteq Attempted(RecreateSteps[pc])
  BY <1>0, Rebuilding DEF Attempted, ResTypes
<1>3. /\ ResTypes' /\ Backed' /\ fault' = "none"
      /\ \A b \in Backends : virt'[b] # "retired" => b \in rec'.attempted
  <2>1. CASE StepEffect(RecreateSteps[pc])
    <3>1. EffectKeeps
      BY <1>0, <2>1, StepEffectRes
    <3>2. fault' = "none"
      BY <1>0, <2>1, Rebuilding DEF StepEffect
    <3> QED
      BY <1>0, <1>1, <1>2, <3>1, <3>2, Rebuilding DEF ResTypes, Backed, EffectKeeps, Io
  <2>2. CASE UNCHANGED <<live, sc, fault, virt, vgen, vmm, quiesced>>
    BY <1>0, <1>1, <1>2, <2>2, Rebuilding DEF ResInv, ResTypes, Backed, BuildInv, Io
  <2> QED
    BY <2>1, <2>2 DEF StepFailed
<1>4. CleanInv'
  BY <1>0, <1>1, <1>3, Rebuilding DEF CleanInv
<1> QED
  <2>1. state' = "DEAD"
    BY <1>0, Rebuilding
  <2>2. WholeInv' /\ TornInv' /\ EmptyInv' /\ ExecInv' /\ IoInv'
    BY <1>0, <1>1, <1>3, <2>1, DeadClauses, Zenon
  <2>3. BuildInv'
    <3>1. ~(pc' > 0)
      BY <1>0
    <3> QED
      BY <3>1, Zenon DEF BuildInv
  <2> QED
    BY <1>0, <1>3, <1>4, <2>2, <2>3, Rebuilding DEF ResInv

(* The cleanup revokes only when no service holds anything. *)
LEMMA CleanupRes ==
    PrepInv /\ ResInv /\ Cleanups => ResInv' /\ UNCHANGED <<io, fault>>
<1> SUFFICES ASSUME PrepInv, ResInv, NEW acked, NEW half, NEW upto, NEW partial \in BOOLEAN,
                    guest_vmm_reset_cleanup(acked, half, upto, partial)
             PROVE  ResInv' /\ UNCHANGED <<io, fault>>
  BY DEF Cleanups
<1> DEFINE remaining == Remaining(acked)
           touched == acked \cup half
           last == IF partial THEN upto + 1 ELSE upto
           revoked == UNION {Releases[i] : i \in rec.release_next + 1 .. last}
<1>0. /\ rec.failed /\ pc = 0 /\ UNCHANGED <<state, fault, torn, vmm, io, pc, ready>> /\ ~started'
      /\ acked \subseteq rec.attempted
      /\ half \subseteq remaining
      /\ upto \in rec.release_next .. 5
      /\ upto > rec.release_next \/ partial => remaining = {}
      /\ virt' = [b \in Backends |-> IF b \in touched THEN "retired" ELSE virt[b]]
      /\ vgen' = IF "GRAPHICS" \in touched
                 THEN [vgen EXCEPT !["GRAPHICS"] = rec.generation] ELSE vgen
      /\ live' = live \ revoked
  BY DEF guest_vmm_reset_cleanup, Receiving
<1>1. /\ state = "DEAD" /\ ~ready /\ fault = "none" /\ io = "idle" /\ RecShape /\ ResTypes
  BY <1>0 DEF PrepInv, OnlyOne, OnlyDead, Types, ResInv, ExecInv, IoInv, Steps
<1>2. /\ rec'.attempted = remaining /\ rec'.release_next = upto
      /\ rec'.failed = rec.failed /\ rec'.generation = rec.generation
      /\ rec'.cleanup_pending = (upto < 5)
  BY <1>1, Zenon DEF guest_vmm_reset_cleanup, RecShape
<1>3. rec'.failed /\ (~rec'.cleanup_pending => ~(upto < 5))
  BY <1>0, <1>2, Zenon
<1>4. remaining \subseteq rec.attempted /\ \A b \in rec.attempted : b \notin acked => b \in remaining
  BY DEF Remaining
<1> HIDE DEF remaining, touched
<1>5. ASSUME NEW b \in Backends, virt'[b] # "retired"
      PROVE  b \in remaining /\ virt[b] # "retired" /\ live' = live
  <2>1. virt[b] # "retired" /\ b \in rec.attempted /\ b \notin acked
    BY <1>0, <1>5 DEF ResInv, CleanInv, touched
  <2>2. b \in remaining
    BY <1>4, <2>1
  <2>3. upto = rec.release_next /\ ~partial
    BY <1>0, <1>1, <2>2 DEF ResTypes
  <2>4. revoked = {}
    BY <1>1, <2>3 DEF ResTypes
  <2> QED
    BY <1>0, <2>1, <2>2, <2>4
<1>6. /\ live' \subseteq Resources
      /\ virt' \in [Backends -> {"attached", "retired", "staged"}]
      /\ vgen' \in [Backends -> 0 .. MaxGen]
  BY <1>0, <1>1 DEF ResTypes, Backends
<1>7. ResTypes' /\ Backed'
  BY <1>0, <1>1, <1>2, <1>4, <1>5, <1>6 DEF ResTypes, ResInv, Backed
<1>8. CleanInv'
  <2>1. upto > 0 => remaining = {}
    <3>1. upto \in Nat /\ rec.release_next \in Nat /\ upto >= rec.release_next
      BY <1>0, <1>1 DEF ResTypes
    <3>2. CASE upto > rec.release_next
      BY <1>0, <3>2
    <3>3. CASE rec.release_next > 0
      <4>1. rec.attempted = {}
        BY <1>0, <3>3, Zenon DEF ResInv, CleanInv
      <4> QED
        BY <1>4, <4>1
    <3> QED
      BY <3>1, <3>2, <3>3
  <2>2. ASSUME NEW i \in 1 .. upto PROVE Releases[i] \cap live' = {}
    <3>1. CASE i <= rec.release_next
      BY <1>0, <1>1, <3>1 DEF ResInv, CleanInv, ResTypes
    <3>2. CASE i > rec.release_next
      <4>1. i \in rec.release_next + 1 .. last
        BY <1>0, <1>1, <3>2 DEF ResTypes
      <4> QED
        BY <1>0, <4>1
    <3>3. rec.release_next \in Nat /\ i \in Int
      BY <1>1 DEF ResTypes
    <3> QED
      BY <3>1, <3>2, <3>3
  <2> QED
    BY <1>0, <1>1, <1>2, <1>3, <1>5, <2>1, <2>2 DEF CleanInv, ResTypes
<1> QED
  <2>1. WholeInv' /\ TornInv' /\ EmptyInv' /\ ExecInv' /\ IoInv'
    BY <1>0, <1>1, <1>3, DeadClauses, Zenon
  <2>2. BuildInv'
    <3>1. ~(pc' > 0)
      BY <1>0
    <3> QED
      BY <3>1, Zenon DEF BuildInv
  <2>3. UNCHANGED <<io, fault>>
    BY <1>0
  <2> QED
    BY <1>7, <1>8, <2>1, <2>2, <2>3, Zenon DEF ResInv


-----------------------------------------------------------------------------
(* Guest, device and service activity moves only the fault and the request. *)
LEMMA ActivityRes ==
    ASSUME PrepInv, ResInv,
           \/ MediaRead \/ GuestFaults \/ HandleFault \/ DropFault
           \/ BlkVirtServes \/ BlkRespReady \/ (\E op \in Ops : RejectRpc(op))
           \/ UNCHANGED vars
    PROVE  /\ ResInv'
           /\ io = "idle" /\ io' # "idle" => state \in {"RUNNING", "SUSPENDED"} \/ pc = Steps
           /\ fault = "queued" /\ fault' = "none" => state \in {"RUNNING", "SUSPENDED"}
<1>0. /\ ResKept /\ UNCHANGED <<state, started, sc, ready>> /\ io \in Io /\ state \in States
  <2>0. io \in Io /\ state \in States
    BY DEF ResInv, ResTypes, PrepInv, Types
  <2>1. CASE MediaRead
    BY <2>0, <2>1 DEF MediaRead, ctlVars, resVars, recVars, ResKept
  <2>2. CASE GuestFaults
    BY <2>0, <2>2 DEF GuestFaults, ctlVars, resVars, recVars, ResKept
  <2>3. CASE HandleFault
    BY <2>0, <2>3 DEF HandleFault, ctlVars, resVars, recVars, ResKept
  <2>4. CASE DropFault
    BY <2>0, <2>4 DEF DropFault, ctlVars, resVars, recVars, ResKept
  <2>5. CASE BlkVirtServes \/ BlkRespReady
    BY <2>0, <2>5 DEF BlkVirtServes, BlkRespReady, ctlVars, resVars, recVars, ResKept
  <2>6. CASE (\E op \in Ops : RejectRpc(op)) \/ UNCHANGED vars
    BY <2>0, <2>6 DEF RejectRpc, vars, ctlVars, resVars, recVars, ResKept
  <2> QED
    BY <2>1, <2>2, <2>3, <2>4, <2>5, <2>6
<1>1. /\ io' \in Io
      /\ io' # "idle" =>
           \/ io # "idle"
           \/ "BLK" \in Enabled /\ (state \in {"RUNNING", "SUSPENDED"} \/ pc = Steps)
  <2>1. CASE MediaRead
    BY <2>1 DEF MediaRead, Io
  <2>2. CASE HandleFault
    <3>1. state \in {"RUNNING", "SUSPENDED"}
      BY <1>0, <2>2 DEF HandleFault, FaultServed, ResInv, ExecInv, States
    <3>2. CASE io' = Drained(io) \/ io' = io
      BY <1>0, <3>2, DrainedIo
    <3>3. CASE BlkReady /\ io' \in {"request", "rmw"}
      BY <3>1, <3>3 DEF BlkReady, Io
    <3> QED
      BY <2>2, <3>2, <3>3 DEF HandleFault
  <2>3. CASE BlkVirtServes
    BY <2>3 DEF BlkVirtServes, Io
  <2>4. CASE BlkRespReady
    BY <1>0, <2>4, DrainedIo DEF BlkRespReady
  <2>5. CASE GuestFaults \/ DropFault \/ (\E op \in Ops : RejectRpc(op)) \/ UNCHANGED vars
    BY <1>0, <2>5 DEF GuestFaults, DropFault, RejectRpc, vars, resVars
  <2> QED
    BY <2>1, <2>2, <2>3, <2>4, <2>5
<1>2. /\ state \in {"READY", "DEAD"} => fault' = "none"
      /\ fault = "queued" /\ fault' = "none" => state \in {"RUNNING", "SUSPENDED"}
  <2>1. CASE GuestFaults
    BY <2>1 DEF GuestFaults, Executing, ResInv, ExecInv
  <2>2. CASE HandleFault \/ DropFault
    BY <1>0, <2>2 DEF HandleFault, DropFault, FaultServed, ResInv, ExecInv, States
  <2>3. CASE fault' = fault
    BY <2>3 DEF ResInv, ExecInv
  <2>4. GuestFaults \/ HandleFault \/ DropFault \/ fault' = fault
    BY DEF MediaRead, BlkVirtServes, BlkRespReady, RejectRpc, vars, ctlVars
  <2> QED
    BY <2>1, <2>2, <2>3, <2>4
<1>3. WholeInv' /\ TornInv' /\ EmptyInv'
  BY <1>0 DEF ResKept, ResInv, WholeInv, Whole, TornInv, EmptyInv, AllRetired
<1>4. ExecInv' /\ IoInv'
  BY <1>0, <1>1, <1>2 DEF ResKept, ResInv, ExecInv, IoInv
<1> QED
  BY <1>0, <1>1, <1>2, <1>3, <1>4, KeptClauses DEF ResInv

(* The invariant is inductive, and admission stops at every step. *)
LEMMA ResNext ==
    PrepInv /\ ResInv /\ [Next]_vars =>
        /\ ResInv'
        /\ io = "idle" /\ io' # "idle" => state \in {"RUNNING", "SUSPENDED"} \/ pc = Steps
        /\ fault = "queued" /\ fault' = "none" /\ "EXECUTION" \in live' =>
             state \in {"RUNNING", "SUSPENDED"}
<1> SUFFICES ASSUME PrepInv, ResInv, [Next]_vars
             PROVE  /\ ResInv'
                    /\ io = "idle" /\ io' # "idle" =>
                         state \in {"RUNNING", "SUSPENDED"} \/ pc = Steps
                    /\ fault = "queued" /\ fault' = "none" /\ "EXECUTION" \in live' =>
                         state \in {"RUNNING", "SUSPENDED"}
  OBVIOUS
<1>1. CASE MSG_GUEST_CREATE \/ MSG_GUEST_BOOT
  <2>1. ResInv'
    BY <1>1, CreateRes, BootRes
  <2>2. UNCHANGED <<io, fault>>
    BY <1>1 DEF MSG_GUEST_CREATE, MSG_GUEST_BOOT, resVars
  <2> QED
    BY <2>1, <2>2
<1>2. CASE \E kernel \in BOOLEAN : MSG_GUEST_SUSPEND(kernel) \/ MSG_GUEST_RESUME(kernel)
  <2>1. PICK kernel \in BOOLEAN : MSG_GUEST_SUSPEND(kernel) \/ MSG_GUEST_RESUME(kernel)
    BY <1>2
  <2>2. ResInv'
    BY <2>1, PauseRes
  <2>3. fault' = fault /\ (io' = io \/ io' = Drained(io)) /\ io \in Io
    <3>1. fault' = fault /\ io \in Io
      BY <2>1 DEF MSG_GUEST_SUSPEND, MSG_GUEST_RESUME, ResInv, ResTypes
    <3> QED
      BY <2>1, <3>1, Zenon DEF MSG_GUEST_SUSPEND, MSG_GUEST_RESUME, Refused
  <2> QED
    BY <2>2, <2>3, DrainedIo
<1>3. CASE Destroys
  BY <1>3, DestroyRes
<1>4. CASE guest_vmm_reconstruct
  <2>1. UNCHANGED <<io, fault>>
    BY <1>4 DEF guest_vmm_reconstruct, resVars
  <2> QED
    BY <1>4, <2>1, ReconstructRes
<1>5. CASE StepDone
  BY <1>5, DoneRes, Zenon DEF StepDone
<1>6. CASE \E effect \in BOOLEAN : StepFailed(effect)
  BY <1>6, FailedRes, Zenon DEF StepFailed
<1>7. CASE Cleanups
  BY <1>7, CleanupRes
<1> QED
  BY <1>1, <1>2, <1>3, <1>4, <1>5, <1>6, <1>7, ActivityRes DEF Next

(* Both invariants, always. *)
LEMMA GuestInvariant == Spec => [](PrepInv /\ ResInv)
<1>1. Init => PrepInv /\ ResInv
  BY PrepInit, ResInit
<1>2. PrepInv /\ ResInv /\ [Next]_vars => PrepInv' /\ ResInv'
  BY PrepNext, ResNext
<1> QED
  BY <1>1, <1>2, PTL DEF Spec

(* Nothing in use is revoked: for every profile and every number of          *)
(* reconstructions, whatever stage a teardown or a cleanup stops at, half    *)
(* done or not, the pages a service uses, the RAM and the vCPU's objects     *)
(* exist while they are used (teardown.c, arm_recreate.c).                   *)
THEOREM NoRevokedBackingHolds == Spec => []NoRevokedBacking
<1>1. PrepInv /\ ResInv => NoRevokedBacking
  BY ResInvImplies
<1> QED
  BY <1>1, GuestInvariant, PTL

(* A guest CREATE, BOOT or RESUME acts on is whole, on both sides of every   *)
(* enabled backend and at the generation of the last reconstruction          *)
(* (arm_recreate.c aos_arm_recreate_run, guest_vmm.c reset_publish).         *)
THEOREM PublishedGuestIsWholeHolds == Spec => []PublishedGuestIsWhole
<1>1. PrepInv /\ ResInv => PublishedGuestIsWhole
  BY ResInvImplies
<1> QED
  BY <1>1, GuestInvariant, PTL

(* A DEAD guest with no reconstruction under way holds no resource, no       *)
(* attachment and no request (teardown.c, aos_arm_recreate_cleanup).         *)
THEOREM DeadHoldsNothingHolds == Spec => []DeadHoldsNothing
<1>1. PrepInv /\ ResInv => DeadHoldsNothing
  BY ResInvImplies
<1> QED
  BY <1>1, GuestInvariant, PTL

(* Once teardown has begun no block request is admitted and no queued fault  *)
(* is served (loop.c, guest_vmm.c).                                          *)
THEOREM AdmissionStopsHolds == Spec => AdmissionStops
<1>1. PrepInv /\ ResInv /\ [Next]_vars =>
        [/\ io = "idle" /\ io' # "idle" =>
              state \in {"RUNNING", "SUSPENDED"} \/ pc = Steps
         /\ fault = "queued" /\ fault' = "none" /\ "EXECUTION" \in live' =>
              state \in {"RUNNING", "SUSPENDED"}]_vars
  BY ResNext
<1> QED
  BY <1>1, GuestInvariant, PTL DEF AdmissionStops, Spec

=============================================================================

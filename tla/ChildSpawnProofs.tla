-------------------------- MODULE ChildSpawnProofs --------------------------
(***************************************************************************)
(* Lending: lock-step of loan records and lease table and revocability of  *)
(* every loan.  Spawning beside lending: the composition implements the    *)
(* lending specification, running children are whole, failed spawns leave  *)
(* nothing and the endowment ledger is honest.  All of it for any number   *)
(* of children, frames, originals, loan records and ledger entries.        *)
(***************************************************************************)
EXTENDS ChildSpawn, FiniteSetTheorems, TLAPS

\* The inductive invariant: the two safety invariants carry each other, because
\* a revoke must find exactly the record whose lease it closes.
IInv == TypeOK /\ LockStep /\ LoansAreRevocable

\* NextGen stays within the generations that the mask of aos_lease_open allows.
LEMMA NextGenType ==
    ASSUME NEW t \in Table, NEW i \in SlotIds
    PROVE  NextGen(t, i) \in Generations
<1>1. t.gen[i] \in Generations
  BY DEF Table
<1>2. ASSUME NEW n \in Nat PROVE n % Gens \in Generations
  BY LeaseAssumption DEF Generations
<1> QED
  BY <1>1, <1>2 DEF NextGen, Generations

\* aos_lease_open yields a table in which exactly the claimed slot has changed.
LEMMA OpenType ==
    ASSUME NEW t \in Table, NEW i \in SlotIds
    PROVE  /\ aos_lease_open(t, i) \in Table
           /\ lease_make_id(aos_lease_open(t, i), i) \in LeaseId
           /\ Closable(aos_lease_open(t, i), lease_make_id(aos_lease_open(t, i), i))
BY NextGenType DEF Table, aos_lease_open, lease_make_id, LeaseId, Closable

\* aos_lease_close yields a table in which exactly the closed slot has changed.
LEMMA CloseType ==
    ASSUME NEW t \in Table, NEW id \in LeaseId
    PROVE  aos_lease_close(t, id) \in Table
BY DEF Table, LeaseId, aos_lease_close

\* The state aos_cap_lend_init sets up satisfies the invariant.
LEMMA InitIInv == Init => IInv
<1> SUFFICES ASSUME Init PROVE IInv
  OBVIOUS
<1>1. 0 \in SlotIds /\ 0 \in Generations
  BY LeaseAssumption DEF SlotIds, Generations
<1>2. TypeOK
  BY <1>1 DEF Init, aos_cap_lend_init, aos_lease_table_init, TypeOK, Table, NoRecord, LeaseId
<1>3. Used = {} /\ \A o \in Originals : cap_lend_find(o) = {}
  BY DEF Init, aos_cap_lend_init, Used, NoRecord, cap_lend_find
<1>4. LockStep
  BY <1>3 DEF LockStep, Init, aos_cap_lend_init, aos_lease_table_init
<1>5. LoansAreRevocable
  BY <1>3 DEF LoansAreRevocable, Init
<1> QED
  BY <1>2, <1>4, <1>5 DEF IInv

\* Every operation of cap_lend.c, the borrower's deletions included, preserves
\* the invariant.
LEMMA NextIInv == IInv /\ [Next]_vars => IInv'
<1> SUFFICES ASSUME IInv, [Next]_vars PROVE IInv'
  OBVIOUS
<1> USE DEF RecIds, SlotIds
<1>1. ASSUME NEW o \in Originals, aos_cap_lend_ok(o) PROVE IInv'
  <2>1. PICK r \in RecIds, i \in SlotIds :
            /\ Granted(o, r, i)
            /\ tbl' = aos_lease_open(tbl, i)
            /\ rec' = [rec EXCEPT ![r] = [in_use |-> TRUE, original |-> o,
                                          lease |-> lease_make_id(tbl', i)]]
            /\ derived' = derived \cup {o}
    BY <1>1, Zenon DEF aos_cap_lend_ok
  <2>2. TypeOK'
    BY <2>1, OpenType DEF IInv, TypeOK
  <2>3. LockStep'
    BY <2>1, OpenType DEF IInv, TypeOK, LockStep, Used, Granted, IsFirstFree, Claimable,
        aos_lease_open, lease_make_id, Closable, Table
  <2>4. LoansAreRevocable'
    BY <2>1 DEF IInv, TypeOK, LoansAreRevocable, cap_lend_find, Granted, IsFirstFree
  <2> QED
    BY <2>2, <2>3, <2>4 DEF IInv
<1>2. ASSUME NEW o \in Originals, aos_cap_lend_err_mint(o) PROVE IInv'
  <2>1. PICK r \in RecIds, i \in SlotIds :
            /\ Granted(o, r, i)
            /\ tbl' = aos_lease_close(aos_lease_open(tbl, i),
                                      lease_make_id(aos_lease_open(tbl, i), i))
            /\ UNCHANGED <<rec, derived>>
    BY <1>2 DEF aos_cap_lend_err_mint
  <2>2. TypeOK'
    BY <2>1, OpenType, CloseType, Zenon DEF IInv, TypeOK
  <2>3. LockStep'
    BY <2>1 DEF IInv, TypeOK, LockStep, Used, Granted, Claimable,
        aos_lease_open, aos_lease_close, lease_make_id, Closable, Table, LeaseId
  <2>4. LoansAreRevocable'
    BY <2>1 DEF IInv, LoansAreRevocable, cap_lend_find
  <2> QED
    BY <2>2, <2>3, <2>4 DEF IInv
<1>3. ASSUME NEW o \in Originals, aos_cap_lend_revoke(o) PROVE IInv'
  <2>1. PICK r \in cap_lend_find(o) :
            /\ derived' = derived \ {o}
            /\ tbl' = aos_lease_close(tbl, rec[r].lease)
            /\ rec' = [rec EXCEPT ![r] = NoRecord]
    BY <1>3 DEF aos_cap_lend_revoke, IInv, LockStep, Used, cap_lend_find
  <2>2. TypeOK'
    <3>1. [slot |-> 0, gen |-> 0] \in LeaseId
      BY LeaseAssumption DEF LeaseId, Generations
    <3> QED
      BY <2>1, <3>1, CloseType DEF IInv, TypeOK, cap_lend_find, NoRecord
  <2>3. LockStep'
    <3>1. r \in Used /\ Used' = Used \ {r}
      BY <2>1 DEF IInv, TypeOK, Used, cap_lend_find, NoRecord
    <3>2. \A q \in Used' : rec'[q] = rec[q] /\ rec[q].lease.slot # rec[r].lease.slot
      BY <2>1, <3>1 DEF IInv, TypeOK, LockStep, Used
    <3>3. /\ tbl'.gen = tbl.gen
          /\ tbl'.state = [tbl.state EXCEPT ![rec[r].lease.slot] = "REVOKED"]
      BY <2>1 DEF IInv, TypeOK, Table, aos_lease_close
    <3>4. rec[r].lease.slot \in SlotIds
      BY <3>1 DEF IInv, TypeOK, LeaseId, Used
    <3>5. \A q \in Used' : Closable(tbl', rec'[q].lease)
      BY <3>1, <3>2, <3>3, <3>4 DEF IInv, TypeOK, LockStep, Closable, Table
    <3>6. \A i \in SlotIds :
             tbl'.state[i] = "ACTIVE" => \E q \in Used' : rec'[q].lease.slot = i
      <4> SUFFICES ASSUME NEW i \in SlotIds, tbl'.state[i] = "ACTIVE"
                   PROVE  \E q \in Used' : rec'[q].lease.slot = i
        OBVIOUS
      <4>1. tbl.state[i] = "ACTIVE" /\ i # rec[r].lease.slot
        BY <3>3, <3>4, Zenon DEF IInv, TypeOK, Table
      <4>2. PICK q \in Used : rec[q].lease.slot = i
        BY <4>1 DEF IInv, LockStep
      <4> QED
        BY <4>1, <4>2, <3>1, <3>2
    <3> QED
      BY <3>1, <3>2, <3>5, <3>6 DEF IInv, LockStep, Closable
  <2>4. LoansAreRevocable'
    BY <2>1 DEF IInv, TypeOK, LoansAreRevocable, cap_lend_find, NoRecord
  <2> QED
    BY <2>2, <2>3, <2>4 DEF IInv
<1>4. ASSUME NEW o \in Originals, BorrowerDrops(o) PROVE IInv'
  BY <1>4 DEF BorrowerDrops, IInv, TypeOK, LockStep, Used, LoansAreRevocable, cap_lend_find
<1>5. CASE UNCHANGED vars
  BY <1>5 DEF vars, IInv, TypeOK, LockStep, Used, LoansAreRevocable, cap_lend_find
<1> QED
  BY <1>1, <1>2, <1>3, <1>4, <1>5 DEF Next

\* Every loan record names its own open lease and every open lease has a record,
\* through failed mints and any order of lends and revokes: ERR_LEASE_CLOSE
\* cannot happen.
THEOREM LockStepHolds == Spec => []LockStep
<1>1. IInv => LockStep
  BY DEF IInv
<1> QED
  BY InitIInv, NextIInv, <1>1, PTL DEF Spec

\* As long as a capability derived from an original is alive, aos_cap_lend_revoke
\* finds the one record it needs to withdraw it.
THEOREM RevocableHolds == Spec => []LoansAreRevocable
<1>1. IInv => LoansAreRevocable
  BY DEF IInv
<1> QED
  BY InitIInv, NextIInv, <1>1, PTL DEF Spec

-----------------------------------------------------------------------------
\* The steps taken so far of the spawn in progress account for everything the
\* child has: what is staged, which frames are mapped, which mints are left.
Progress(c) ==
    /\ call.step \in 1 .. 18 /\ call.extra \in Nat
    /\ staged[c] \subseteq Retypes \cup {"PAGE_TABLES"}
    /\ \A k \in 1 .. 18 : k < call.step /\ Steps[k] \in Retypes => Steps[k] \in staged[c]
    /\ \A f \in Nat : f \in mapped[c] <=> \/ f = 0 /\ call.step > 4
                                          \/ 0 < f /\ f <= call.extra
    /\ call.step < 5 => call.extra = 0
    /\ call.extra <= Extras
    /\ call.step > 5 => call.extra = Extras
    /\ cnode[c] \cup call.todo = endow[c]
    /\ call.step > 17 => call.todo = {}

Whole(c) == Retypes \subseteq staged[c] /\ mapped[c] = Frames /\ cnode[c] = endow[c]

Nothing(c) == staged[c] = {} /\ mapped[c] = {} /\ cnode[c] = {} /\ endow[c] = {}

SpawnType ==
    /\ child \in [Children -> {"none", "staged", "inert", "running"}]
    /\ staged \in [Children -> SUBSET (Retypes \cup {"PAGE_TABLES"})]
    /\ mapped \in [Children -> SUBSET Nat]
    /\ cnode \in [Children -> SUBSET Originals]
    /\ endow \in [Children -> SUBSET Originals]
    /\ call = [child |-> call.child, step |-> call.step, extra |-> call.extra,
               todo |-> call.todo, mark |-> call.mark]

\* The inductive invariant: exactly the child of the spawn in progress is
\* staged, its Progress is accounted for, and every other child is whole or
\* nothing.  The two properties alone are not inductive: they say nothing of
\* a spawn in progress, which the next step may start or tear down.
SpawnIInv ==
    /\ SpawnType
    /\ \A c \in Children :
         /\ child[c] = "staged" <=> ~Idle /\ call.child = {c}
         /\ child[c] = "staged" => Progress(c)
         /\ child[c] \in {"inert", "running"} => Whole(c)
         /\ child[c] = "none" => Nothing(c)

-----------------------------------------------------------------------------
\* Where each kind of step stands in the list of aos_child_spawn.
LEMMA StepNames ==
    ASSUME NEW k \in 1 .. 18
    PROVE  /\ Steps[k] \in Retypes <=> k \in {1, 2, 6, 8, 10, 14}
           /\ Steps[k] \in Maps <=> k \in {4, 5, 7, 9}
           /\ Steps[k] \in {"ASID", "CONFIGURE", "REGS", "FAULT_INSTALL", "SC_CONFIGURE",
                            "SCHED_PARAMS"} <=> k \in {3, 11, 12, 13, 15, 16}
           /\ Steps[k] = "CONTENT_MAP" <=> k = 4
           /\ Steps[k] = "EXTRA_MAP" <=> k = 5
           /\ Steps[k] = "ENDOW" <=> k = 17
           /\ Steps[k] = "START" <=> k = 18
BY DEF Steps, Retypes, Maps

\* After the last retype every object is staged.
LEMMA AllStaged ==
    ASSUME NEW S, \A k \in 1 .. 18 : k < 18 /\ Steps[k] \in Retypes => Steps[k] \in S
    PROVE  Retypes \subseteq S
<1>1. /\ Steps[1] = "CNODE" /\ Steps[2] = "VSPACE" /\ Steps[6] = "STACK_FRAME"
      /\ Steps[8] = "IPC_FRAME" /\ Steps[10] = "TCB" /\ Steps[14] = "SC"
  BY DEF Steps
<1>2. {"CNODE", "VSPACE", "STACK_FRAME", "IPC_FRAME", "TCB", "SC"} \subseteq S
  BY <1>1 DEF Retypes
<1> QED
  BY <1>2 DEF Retypes

\* A parent with no children and no call satisfies the invariant.
LEMMA SpawnInitIInv == SpawnInit => SpawnIInv
BY DEF SpawnInit, SpawnIInv, SpawnType, NoCall, Idle, Nothing

\* Every step of a spawn, its failure included, preserves the invariant.
LEMMA SpawnStepIInv ==
    ASSUME SpawnIInv, NEW c \in Children, Spawn(c)
    PROVE  SpawnIInv'
<1> USE DEF SpawnIInv, SpawnType
<1>0. Spawning(c) => /\ child[c] = "staged" /\ Progress(c) /\ ~Idle
                     /\ \A d \in Children : d # c => child[d] # "staged"
  BY DEF Spawning, Idle, NoCall
<1>1. ASSUME NEW request \in SUBSET Originals, aos_child_spawn(c, request) PROVE SpawnIInv'
  <2>1. SpawnType' /\ ~Idle' /\ call'.child = {c}
    BY <1>1 DEF aos_child_spawn, Idle, NoCall
  <2>2. Progress(c)'
    <3>1. Nothing(c) /\ call' = [child |-> {c}, step |-> 1, extra |-> 0, todo |-> request,
                                 mark |-> aos_endow_ledger_mark]
      BY <1>1 DEF aos_child_spawn
    <3>2. staged'[c] = {} /\ mapped'[c] = {} /\ cnode'[c] = {} /\ endow'[c] = request
      BY <1>1, <3>1 DEF aos_child_spawn, Nothing
    <3> QED
      BY <3>1, <3>2, ChildSpawnAssumption DEF Progress
  <2>3. ASSUME NEW d \in Children, d # c
        PROVE  child'[d] = child[d] /\ Whole(d)' = Whole(d) /\ Nothing(d)' = Nothing(d)
    BY <1>1, <2>3 DEF aos_child_spawn, Whole, Nothing
  <2> QED
    BY <1>1, <2>1, <2>2, <2>3, Zenon DEF aos_child_spawn
<1>2. CASE retype_one(c)
  <2>1. SpawnType' /\ ~Idle' /\ call'.child = {c}
    BY <1>2, SMTT(60) DEF retype_one, Advance, Spawning, At, Idle, NoCall
  <2>2. Progress(c)'
    BY <1>0, <1>2, StepNames DEF retype_one, Advance, At, Progress
  <2>3. ASSUME NEW d \in Children, d # c
        PROVE  child'[d] = child[d] /\ Whole(d)' = Whole(d) /\ Nothing(d)' = Nothing(d)
    BY <1>2, <2>3 DEF retype_one, Whole, Nothing
  <2> QED
    BY <1>0, <1>2, <2>1, <2>2, <2>3, Zenon DEF retype_one
<1>3. ASSUME NEW new \in BOOLEAN, aos_pt_map_retrying(c, new) PROVE SpawnIInv'
  <2>1. SpawnType' /\ ~Idle' /\ call'.child = {c}
    BY <1>0, <1>3 DEF aos_pt_map_retrying, PageTables, Advance, Spawning, At, Idle, NoCall, Progress
  <2>2. Progress(c)'
    BY <1>0, <1>3, StepNames, ChildSpawnAssumption, SMTT(60)
       DEF aos_pt_map_retrying, PageTables, Advance, At, Progress
  <2>3. ASSUME NEW d \in Children, d # c
        PROVE  child'[d] = child[d] /\ Whole(d)' = Whole(d) /\ Nothing(d)' = Nothing(d)
    BY <1>3, <2>3 DEF aos_pt_map_retrying, PageTables, Whole, Nothing
  <2> QED
    BY <1>0, <1>3, <2>1, <2>2, <2>3, Zenon DEF aos_pt_map_retrying
<1>4. CASE configure(c)
  <2>1. SpawnType' /\ ~Idle' /\ call'.child = {c}
    BY <1>4, Zenon DEF configure, Advance, Spawning, At, Idle, NoCall
  <2>2. Progress(c)'
    BY <1>0, <1>4, StepNames DEF configure, Advance, At, Progress
  <2>3. ASSUME NEW d \in Children, d # c
        PROVE  child'[d] = child[d] /\ Whole(d)' = Whole(d) /\ Nothing(d)' = Nothing(d)
    BY <1>4, <2>3 DEF configure, Whole, Nothing
  <2> QED
    BY <1>0, <1>4, <2>1, <2>2, <2>3, Zenon DEF configure
<1>5. CASE mint(c)
  <2>1. SpawnType' /\ ~Idle' /\ call'.child = {c}
    BY <1>0, <1>5 DEF mint, Advance, Spawning, At, Idle, NoCall, Progress
  <2>2. Progress(c)'
    BY <1>0, <1>5, StepNames DEF mint, Advance, At, Progress
  <2>3. ASSUME NEW d \in Children, d # c
        PROVE  child'[d] = child[d] /\ Whole(d)' = Whole(d) /\ Nothing(d)' = Nothing(d)
    BY <1>5, <2>3 DEF mint, Whole, Nothing
  <2> QED
    BY <1>0, <1>5, <2>1, <2>2, <2>3, Zenon DEF mint
<1>6. CASE fail_teardown(c)
  <2>1. SpawnType' /\ Idle'
    BY <1>6 DEF fail_teardown, Unmapped, Unminted, Idle, NoCall
  <2>2. Nothing(c)' /\ child'[c] = "none"
    <3>1. mapped[c] \subseteq Frames
      BY <1>0, <1>6, ChildSpawnAssumption DEF fail_teardown, Progress, Frames
    <3> QED
      BY <1>6, <3>1 DEF fail_teardown, Unmapped, Unminted, Nothing
  <2>3. ASSUME NEW d \in Children, d # c
        PROVE  child'[d] = child[d] /\ Whole(d)' = Whole(d) /\ Nothing(d)' = Nothing(d)
    BY <1>6, <2>3 DEF fail_teardown, Unmapped, Unminted, Whole, Nothing
  <2> QED
    BY <1>0, <1>6, <2>1, <2>2, <2>3 DEF fail_teardown
<1>7. ASSUME NEW ok \in BOOLEAN, start(c, ok) PROVE SpawnIInv'
  <2>1. SpawnType' /\ Idle'
    BY <1>7 DEF start, Idle, NoCall
  <2>2. call.step = 18
    BY <1>0, <1>7, StepNames DEF start, At, Progress
  <2>3. Whole(c)'
    <3>1. Retypes \subseteq staged[c]
      BY <1>0, <1>7, <2>2, AllStaged DEF start, Progress
    <3>2. mapped[c] \subseteq Nat /\ Progress(c)
      BY <1>0, <1>7 DEF start
    <3>3. mapped[c] = Frames
      <4>1. \A f \in Nat : f \in mapped[c] <=> f = 0 \/ (0 < f /\ f <= call.extra)
        BY <2>2, <3>2 DEF Progress
      <4>2. call.extra = Extras
        BY <2>2, <3>2 DEF Progress
      <4>3. \A f \in mapped[c] : f \in Frames
        BY <3>2, <4>1, <4>2, ChildSpawnAssumption DEF Frames
      <4>4. \A f \in Frames : f \in mapped[c]
        BY <4>1, <4>2, ChildSpawnAssumption DEF Frames
      <4> QED
        BY <4>3, <4>4, Zenon
    <3>4. cnode[c] = endow[c]
      <4>1. call.todo = {} /\ cnode[c] \cup call.todo = endow[c]
        BY <2>2, <3>2 DEF Progress
      <4> QED
        BY <4>1
    <3> QED
      BY <1>7, <3>1, <3>3, <3>4 DEF start, Whole
  <2>4. ASSUME NEW d \in Children, d # c
        PROVE  child'[d] = child[d] /\ Whole(d)' = Whole(d) /\ Nothing(d)' = Nothing(d)
    BY <1>7, <2>4 DEF start, Whole, Nothing
  <2> QED
    BY <1>0, <1>7, <2>1, <2>3, <2>4 DEF start
<1>8. CASE retry_resume(c)
  BY <1>8, Zenon DEF retry_resume, Idle, Whole, Nothing, Progress
<1>9. CASE manual_teardown(c)
  BY <1>9 DEF manual_teardown, Idle, Whole, Nothing, Progress
<1> QED
  BY <1>1, <1>2, <1>3, <1>4, <1>5, <1>6, <1>7, <1>8, <1>9, Zenon DEF Spawn

\* Loans leave the children alone; revoking one takes the original from what
\* each child was asked to get and from what it has, alike.
LEMMA LendIInv ==
    ASSUME SpawnIInv, NEW o \in Originals, Idle, RevokeLoan(o) \/ Lend(o)
    PROVE  SpawnIInv'
<1>1. CASE Lend(o)
  BY <1>1 DEF Lend, spawnVars, SpawnIInv, SpawnType, Idle, Progress, Whole, Nothing
<1>2. CASE RevokeLoan(o)
  <2>1. SpawnType' /\ Idle'
    BY <1>2 DEF RevokeLoan, SpawnIInv, SpawnType, Idle
  <2>2. ASSUME NEW c \in Children
        PROVE  /\ child'[c] = child[c] /\ child[c] # "staged"
               /\ Whole(c) => Whole(c)'
               /\ Nothing(c) => Nothing(c)'
    BY <1>2 DEF RevokeLoan, SpawnIInv, Whole, Nothing
  <2> QED
    BY <2>1, <2>2 DEF SpawnIInv
<1> QED
  BY <1>1, <1>2

\* Every step of the composition preserves the invariant.
LEMMA SpawnNextIInv == SpawnIInv /\ [SpawnNext]_<<vars, spawnVars>> => SpawnIInv'
<1> SUFFICES ASSUME SpawnIInv, [SpawnNext]_<<vars, spawnVars>> PROVE SpawnIInv'
  OBVIOUS
<1>1. CASE SpawnNext
  BY <1>1, SpawnStepIInv, LendIInv DEF SpawnNext
<1>2. CASE UNCHANGED <<vars, spawnVars>>
  BY <1>2 DEF spawnVars, SpawnIInv, SpawnType, Idle, Progress, Whole, Nothing
<1> QED
  BY <1>1, <1>2

\* The hard rule of child_spawn.h, for any number of children, frames and
\* originals: a running child is whole, whatever fails for its siblings.
THEOREM RunningChildIsWholeHolds == SpawnSpec => []RunningChildIsWhole
<1>1. SpawnIInv => RunningChildIsWhole
  BY DEF SpawnIInv, RunningChildIsWhole, Whole
<1> QED
  BY SpawnInitIInv, SpawnNextIInv, <1>1, PTL DEF SpawnSpec

\* Wherever aos_child_spawn fails before START, fail_teardown leaves nothing of
\* the child: no scratch slot in use, no frame that records a mapping, no mint.
THEOREM FailedSpawnLeavesNothingHolds == SpawnSpec => []FailedSpawnLeavesNothing
<1>1. SpawnIInv => FailedSpawnLeavesNothing
  BY DEF SpawnIInv, FailedSpawnLeavesNothing, Nothing
<1> QED
  BY SpawnInitIInv, SpawnNextIInv, <1>1, PTL DEF SpawnSpec

\* A parent that also spawns children still implements cap_lend.c's
\* specification: spawning never touches a loan record or a lease.
THEOREM SpawnImplementsLend == SpawnSpec => Spec
<1>1. SpawnInit => Init
  BY DEF SpawnInit
<1>2. [SpawnNext]_<<vars, spawnVars>> => [Next]_vars
  BY DEF SpawnNext, RevokeLoan, Lend, Next, vars
<1> QED
  BY <1>1, <1>2, PTL DEF SpawnSpec, Spec

\* So its loan records and its lease table stay in lock-step as well.
THEOREM SpawnLockStep == SpawnSpec => []LockStep
BY SpawnImplementsLend, LockStepHolds, PTL

\* And every loan stays revocable while the parent spawns children: a spawn mints
\* from the originals that cap_lend lends, and touches neither loans nor leases.
THEOREM SpawnRevocable == SpawnSpec => []LoansAreRevocable
BY SpawnImplementsLend, RevocableHolds, PTL

-----------------------------------------------------------------------------
(* The endowment ledger.                                                     *)

LedgerOK(led) ==
    /\ led = [entries |-> led.entries, dropped |-> led.dropped]
    /\ led.entries \in Seq(Children \X Originals) /\ led.dropped \in Nat
    /\ Len(led.entries) <= LedgerMax

\* The first n entries name running children only.
Started(n) == \A i \in 1 .. n : child[ledger.entries[i][1]] = "running"

\* The mint of o into c is one of the first n entries.
Listed(c, o, n) == \E i \in 1 .. n : ledger.entries[i] = <<c, o>>

\* The first n entries list every mint of every running child.
Complete(n) ==
    \A c \in Children : child[c] = "running" => \A o \in cnode[c] : Listed(c, o, n)

\* Between calls the ledger is honest.
IdleLedger ==
    /\ Started(Len(ledger.entries))
    /\ ledger.dropped = 0 => Complete(Len(ledger.entries))

\* During a spawn it is honest up to the mark, and what follows the mark is the
\* endowment of the child being spawned.
BusyLedger ==
    /\ call.mark.count \in 0 .. Len(ledger.entries)
    /\ call.mark.dropped \in 0 .. ledger.dropped
    /\ Started(call.mark.count)
    /\ call.mark.dropped = 0 => Complete(call.mark.count)
    /\ \A i \in call.mark.count + 1 .. Len(ledger.entries) : Spawning(ledger.entries[i][1])
    /\ ledger.dropped = 0 =>
         \A c \in Children : Spawning(c) =>
             \A o \in cnode[c] : Listed(c, o, Len(ledger.entries))

\* The inductive invariant.  LedgerIsHonest speaks of a parent between calls; the
\* steps of a spawn need to know what a rollback will leave.
LedgerInv ==
    /\ LedgerOK(ledger)
    /\ Idle => IdleLedger
    /\ ~Idle => BusyLedger

\* `new` is `led` with mints of S into c reported: nothing is lost, nothing else
\* is added, and when nothing was dropped all of S is listed.
Grows(led, new, c, S) ==
    /\ LedgerOK(new)
    /\ Len(led.entries) <= Len(new.entries) /\ led.dropped <= new.dropped
    /\ \A i \in 1 .. Len(led.entries) : new.entries[i] = led.entries[i]
    /\ \A i \in Len(led.entries) + 1 .. Len(new.entries) : \E o \in S : new.entries[i] = <<c, o>>
    /\ new.dropped = 0 => \A o \in S : \E i \in 1 .. Len(new.entries) : new.entries[i] = <<c, o>>

\* aos_endow_ledger_record adds the one mint or counts it.
LEMMA RecordOne ==
    ASSUME NEW led, LedgerOK(led), NEW c \in Children, NEW o \in Originals
    PROVE  Grows(led, aos_endow_ledger_record(led, c, o), c, {o})
<1> DEFINE new == aos_endow_ledger_record(led, c, o)
<1> SUFFICES Grows(led, new, c, {o})
  OBVIOUS
<1> HIDE DEF new
<1>0. led.entries \in Seq(Children \X Originals) /\ led.dropped \in Nat /\ <<c, o>> \in Children \X Originals
  BY DEF LedgerOK
<1>1. CASE Len(led.entries) < LedgerMax
  <2>1. new = [entries |-> Append(led.entries, <<c, o>>), dropped |-> led.dropped]
    BY <1>1, Zenon DEF aos_endow_ledger_record, LedgerOK, new
  <2>2. new.entries = Append(led.entries, <<c, o>>) /\ new.dropped = led.dropped
    BY <2>1, Zenon
  <2>3. /\ new.entries \in Seq(Children \X Originals)
        /\ Len(new.entries) = Len(led.entries) + 1
        /\ \A i \in 1 .. Len(led.entries) : new.entries[i] = led.entries[i]
        /\ new.entries[Len(led.entries) + 1] = <<c, o>>
    BY <1>0, <2>2
  <2>4. LedgerOK(new)
    BY <1>0, <1>1, <2>1, <2>2, <2>3, ChildSpawnAssumption DEF LedgerOK
  <2>5. Len(led.entries) \in Nat
    BY <1>0
  <2>6. \A i \in Len(led.entries) + 1 .. Len(new.entries) : i = Len(led.entries) + 1
    BY <2>3, <2>5
  <2>7. Len(led.entries) + 1 \in 1 .. Len(new.entries)
    BY <2>3, <2>5
  <2>8. /\ \A i \in Len(led.entries) + 1 .. Len(new.entries) : new.entries[i] = <<c, o>>
        /\ \E i \in 1 .. Len(new.entries) : new.entries[i] = <<c, o>>
    BY <2>3, <2>6, <2>7, Zenon
  <2>9. Len(led.entries) <= Len(new.entries) /\ led.dropped <= new.dropped
    BY <1>0, <2>2, <2>3, <2>5
  <2> QED
    BY <2>3, <2>4, <2>8, <2>9, Zenon DEF Grows
<1>2. CASE ~(Len(led.entries) < LedgerMax)
  <2>1. new = [entries |-> led.entries, dropped |-> led.dropped + 1]
    BY <1>2, Zenon DEF aos_endow_ledger_record, LedgerOK, new
  <2>2. new.entries = led.entries /\ new.dropped = led.dropped + 1
    BY <2>1, Zenon
  <2>4. LedgerOK(new)
    BY <1>0, <2>1, <2>2 DEF LedgerOK
  <2> QED
    BY <1>0, <2>2, <2>4 DEF Grows
<1> QED
  BY <1>1, <1>2

\* Sequences over a set are closed under concatenation, and the lengths add up.
LEMMA Concatenation ==
    ASSUME NEW S, NEW s \in Seq(S), NEW t \in Seq(S)
    PROVE  s \o t \in Seq(S) /\ Len(s \o t) = Len(s) + Len(t)
OBVIOUS

\* So does reporting all the mints of a child, in any order.
LEMMA RecordMany ==
    ASSUME NEW led, LedgerOK(led), NEW c \in Children, cnode[c] \subseteq Originals,
           NEW report \in Reports(c)
    PROVE  Grows(led, Recorded(led, c, report), c, cnode[c])
<1> DEFINE new == Recorded(led, c, report)
           n == Cardinality(cnode[c])
           room == LedgerMax - Len(led.entries)
           fit == IF Len(report) < room THEN Len(report) ELSE room
           tail == [i \in 1 .. fit |-> <<c, report[i]>>]
<1>0. /\ led.entries \in Seq(Children \X Originals) /\ led.dropped \in Nat
      /\ Len(led.entries) \in Nat /\ Len(led.entries) <= LedgerMax /\ LedgerMax \in Nat
  BY ChildSpawnAssumption DEF LedgerOK
<1>1. n \in Nat
  BY ChildSpawnAssumption, FS_Subset, FS_CardinalityType, Zenon
<1>2. /\ report \in [1 .. n -> cnode[c]]
      /\ \A o \in cnode[c] : \E i \in 1 .. n : report[i] = o
  BY DEF Reports
<1>3. Len(report) = n
  BY <1>1, <1>2
<1>4. fit \in Nat /\ fit <= n /\ fit <= room /\ (fit < n => fit = room)
  BY <1>0, <1>1, <1>3
<1>5. tail \in Seq(Children \X Originals) /\ Len(tail) = fit /\ \A i \in 1 .. fit : tail[i] = <<c, report[i]>>
  <2> HIDE DEF fit
  <2>1. \A i \in 1 .. fit : report[i] \in Originals
    BY <1>1, <1>2, <1>4
  <2> QED
    BY <1>4, <2>1
<1>6. /\ new = [entries |-> led.entries \o tail, dropped |-> led.dropped + Len(report) - fit]
      /\ new.entries = led.entries \o tail
      /\ new.dropped = led.dropped + n - fit
  <2>1. new = [entries |-> led.entries \o tail, dropped |-> led.dropped + Len(report) - fit]
    BY Zenon DEF Recorded
  <2> HIDE DEF new, tail, fit
  <2> QED
    BY <2>1, <1>3, Zenon
<1> HIDE DEF new, tail, fit, room
<1>7. /\ new.entries \in Seq(Children \X Originals)
      /\ Len(new.entries) = Len(led.entries) + fit
      /\ \A i \in 1 .. Len(led.entries) : new.entries[i] = led.entries[i]
      /\ \A i \in 1 .. fit : new.entries[Len(led.entries) + i] = <<c, report[i]>>
  <2> HIDE DEF n
  <2>1. new.entries = led.entries \o tail
    BY <1>6
  <2>2. new.entries \in Seq(Children \X Originals) /\ Len(new.entries) = Len(led.entries) + fit
    BY <1>0, <1>5, <2>1, Concatenation, Zenon
  <2>3. \A i \in 1 .. Len(led.entries) : new.entries[i] = led.entries[i]
    BY <1>0, <1>4, <1>5, <2>1
  <2>4. \A i \in 1 .. fit : new.entries[Len(led.entries) + i] = tail[i]
    BY <1>0, <1>4, <1>5, <2>1
  <2> QED
    BY <1>5, <2>2, <2>3, <2>4
<1>8. LedgerOK(new)
  <2>1. room = LedgerMax - Len(led.entries)
    BY DEF room
  <2>2. new = [entries |-> new.entries, dropped |-> new.dropped]
    BY <1>6, <1>3, Zenon
  <2> HIDE DEF n
  <2> QED
    BY <1>0, <1>1, <1>4, <1>6, <1>7, <2>1, <2>2 DEF LedgerOK
<1>9. ASSUME NEW i \in Len(led.entries) + 1 .. Len(new.entries)
      PROVE  \E o \in cnode[c] : new.entries[i] = <<c, o>>
  <2>1. i - Len(led.entries) \in 1 .. fit /\ Len(led.entries) + (i - Len(led.entries)) = i
    BY <1>0, <1>4, <1>7
  <2>2. report[i - Len(led.entries)] \in cnode[c]
    <3> HIDE DEF n
    <3> QED
      BY <1>1, <1>2, <1>4, <2>1
  <2> QED
    BY <1>7, <2>1, <2>2
<1>10. ASSUME new.dropped = 0, NEW o \in cnode[c]
       PROVE  \E i \in 1 .. Len(new.entries) : new.entries[i] = <<c, o>>
  <2> HIDE DEF n
  <2>1. fit = n
    BY <1>0, <1>1, <1>4, <1>6, <1>10
  <2>2. PICK i \in 1 .. n : report[i] = o
    BY <1>2
  <2>3. Len(led.entries) + i \in 1 .. Len(new.entries)
    <3>1. Len(new.entries) = Len(led.entries) + n /\ Len(led.entries) \in Nat
      BY <1>0, <1>7, <2>1, Zenon
    <3> QED
      BY <1>1, <3>1
  <2>4. new.entries[Len(led.entries) + i] = <<c, o>>
    BY <1>7, <2>1, <2>2, Zenon
  <2> QED
    BY <2>3, <2>4
<1> QED
  <2> HIDE DEF n
  <2>1. Len(led.entries) <= Len(new.entries) /\ led.dropped <= new.dropped
    BY <1>0, <1>1, <1>4, <1>6, <1>7
  <2> QED
    BY <1>7, <1>8, <1>9, <1>10, <2>1 DEF Grows, new

\* Every entry names a child.
LEMMA EntryType ==
    ASSUME LedgerOK(ledger), NEW i \in 1 .. Len(ledger.entries)
    PROVE  ledger.entries[i][1] \in Children
<1>1. ledger.entries[i] \in Children \X Originals
  BY DEF LedgerOK
<1> QED
  BY <1>1

\* A rollback to the mark of the spawn in progress keeps the entries up to it.
LEMMA RollbackKeeps ==
    ASSUME LedgerOK(ledger), BusyLedger, ledger' = aos_endow_ledger_rollback(call.mark)
    PROVE  /\ LedgerOK(ledger)'
           /\ Len(ledger'.entries) = call.mark.count
           /\ ledger'.dropped = call.mark.dropped
           /\ \A i \in 1 .. call.mark.count : ledger'.entries[i] = ledger.entries[i]
<1>0. /\ ledger.entries \in Seq(Children \X Originals) /\ Len(ledger.entries) \in Nat
      /\ ledger.dropped \in Nat /\ Len(ledger.entries) <= LedgerMax
      /\ call.mark.count \in 0 .. Len(ledger.entries)
      /\ call.mark.dropped \in 0 .. ledger.dropped
  BY DEF LedgerOK, BusyLedger
<1>1. /\ ledger' = [entries |-> ledger'.entries, dropped |-> ledger'.dropped]
      /\ ledger'.entries = SubSeq(ledger.entries, 1, call.mark.count)
      /\ ledger'.dropped = call.mark.dropped
  BY Zenon DEF aos_endow_ledger_rollback
<1>2. /\ ledger'.entries \in Seq(Children \X Originals)
      /\ Len(ledger'.entries) = call.mark.count
      /\ \A i \in 1 .. call.mark.count : ledger'.entries[i] = ledger.entries[i]
  BY <1>0, <1>1
<1>3. call.mark.dropped \in Nat /\ call.mark.count <= LedgerMax
  BY <1>0, ChildSpawnAssumption
<1> QED
  BY <1>1, <1>2, <1>3, Zenon DEF LedgerOK

\* So a failed spawn, before START or at it, leaves an honest ledger.
LEMMA RollbackHonest ==
    ASSUME LedgerOK(ledger), BusyLedger, ledger' = aos_endow_ledger_rollback(call.mark),
           NEW c \in Children, child[c] # "running", child'[c] # "running",
           \A d \in Children : d # c => child'[d] = child[d] /\ cnode'[d] = cnode[d]
    PROVE  LedgerOK(ledger)' /\ IdleLedger'
<1>1. /\ LedgerOK(ledger)'
      /\ Len(ledger'.entries) = call.mark.count
      /\ ledger'.dropped = call.mark.dropped
      /\ \A i \in 1 .. call.mark.count : ledger'.entries[i] = ledger.entries[i]
  BY RollbackKeeps
<1>2. call.mark.count \in 0 .. Len(ledger.entries) /\ Len(ledger.entries) \in Nat
  BY DEF BusyLedger, LedgerOK
<1>3. ASSUME NEW i \in 1 .. call.mark.count PROVE child'[ledger'.entries[i][1]] = "running"
  <2>1. i \in 1 .. Len(ledger.entries)
    BY <1>2
  <2>2. ledger.entries[i][1] \in Children /\ child[ledger.entries[i][1]] = "running"
    BY <2>1, EntryType DEF BusyLedger, Started
  <2>3. ledger'.entries[i] = ledger.entries[i]
    BY <1>1
  <2> QED
    BY <2>2, <2>3
<1>4. ASSUME call.mark.dropped = 0, NEW d \in Children, child'[d] = "running", NEW o \in cnode'[d]
      PROVE  \E i \in 1 .. call.mark.count : ledger'.entries[i] = <<d, o>>
  <2>1. d # c /\ child[d] = "running" /\ o \in cnode[d]
    BY <1>4
  <2>2. PICK i \in 1 .. call.mark.count : ledger.entries[i] = <<d, o>>
    BY <1>4, <2>1, Zenon DEF BusyLedger, Complete, Listed
  <2> QED
    BY <1>1, <2>2
<1> QED
  BY <1>1, <1>3, <1>4, Zenon DEF IdleLedger, Started, Complete, Listed

\* Reporting a child that a later resume started leaves an honest ledger.
LEMMA ReportHonest ==
    ASSUME LedgerOK(ledger), IdleLedger, NEW c \in Children,
           Grows(ledger, ledger', c, cnode[c]), child'[c] = "running",
           \A d \in Children : d # c => child'[d] = child[d], cnode' = cnode
    PROVE  LedgerOK(ledger)' /\ IdleLedger'
<1>0. /\ Len(ledger.entries) \in Nat /\ Len(ledger'.entries) \in Nat
      /\ ledger.dropped \in Nat /\ ledger'.dropped \in Nat
      /\ Len(ledger.entries) <= Len(ledger'.entries) /\ ledger.dropped <= ledger'.dropped
  BY DEF LedgerOK, Grows
<1>1. ASSUME NEW i \in 1 .. Len(ledger'.entries) PROVE child'[ledger'.entries[i][1]] = "running"
  <2>1. CASE i \in 1 .. Len(ledger.entries)
    <3>1. ledger.entries[i][1] \in Children /\ child[ledger.entries[i][1]] = "running"
      BY <2>1, EntryType DEF IdleLedger, Started
    <3>2. ledger'.entries[i] = ledger.entries[i]
      BY <2>1 DEF Grows
    <3> QED
      BY <3>1, <3>2
  <2>2. CASE i \in Len(ledger.entries) + 1 .. Len(ledger'.entries)
    <3>1. PICK o \in cnode[c] : ledger'.entries[i] = <<c, o>>
      BY <2>2 DEF Grows
    <3> QED
      BY <3>1
  <2> QED
    BY <1>0, <2>1, <2>2
<1>2. ASSUME ledger'.dropped = 0, NEW d \in Children, child'[d] = "running", NEW o \in cnode'[d]
      PROVE  \E i \in 1 .. Len(ledger'.entries) : ledger'.entries[i] = <<d, o>>
  <2>1. CASE d = c
    BY <1>2, <2>1, Zenon DEF Grows
  <2>2. CASE d # c
    <3>1. ledger.dropped = 0 /\ child[d] = "running" /\ o \in cnode[d]
      BY <1>0, <1>2, <2>2
    <3>2. PICK i \in 1 .. Len(ledger.entries) : ledger.entries[i] = <<d, o>>
      BY <3>1, Zenon DEF IdleLedger, Complete, Listed
    <3>3. ledger'.entries[i] = <<d, o>> /\ i \in 1 .. Len(ledger'.entries)
      BY <1>0, <3>2 DEF Grows
    <3> QED
      BY <3>3
  <2> QED
    BY <2>1, <2>2
<1>3. LedgerOK(ledger')
  BY DEF Grows
<1> QED
  BY <1>1, <1>2, <1>3, Zenon DEF IdleLedger, Started, Complete, Listed, LedgerOK

\* A mint that is reported keeps what the rollback of the spawn relies on.
LEMMA MintReported ==
    ASSUME LedgerOK(ledger), BusyLedger, NEW c \in Children, NEW o, Spawning(c),
           Grows(ledger, ledger', c, {o}), cnode' = [cnode EXCEPT ![c] = @ \cup {o}],
           cnode \in [Children -> SUBSET Originals], child[c] # "running", child' = child,
           call'.mark = call.mark, call'.child = call.child
    PROVE  LedgerOK(ledger)' /\ BusyLedger'
<1>0. /\ Len(ledger.entries) \in Nat /\ Len(ledger'.entries) \in Nat
      /\ ledger.dropped \in Nat /\ ledger'.dropped \in Nat
      /\ Len(ledger.entries) <= Len(ledger'.entries) /\ ledger.dropped <= ledger'.dropped
      /\ call.mark.count \in 0 .. Len(ledger.entries)
      /\ call.mark.dropped \in 0 .. ledger.dropped
  BY DEF LedgerOK, Grows, BusyLedger
<1>1. /\ \A i \in 1 .. Len(ledger.entries) : ledger'.entries[i] = ledger.entries[i]
      /\ \A i \in 1 .. call.mark.count : ledger'.entries[i] = ledger.entries[i]
  BY <1>0 DEF Grows
<1>2. /\ call'.mark.count \in 0 .. Len(ledger'.entries)
      /\ call'.mark.dropped \in 0 .. ledger'.dropped
  BY <1>0
<1>3. Started(call.mark.count)'
  BY <1>1 DEF BusyLedger, Started
<1>4. ASSUME call'.mark.dropped = 0 PROVE Complete(call.mark.count)'
  <2> SUFFICES ASSUME NEW d \in Children, child[d] = "running", NEW p \in cnode'[d]
               PROVE  \E i \in 1 .. call'.mark.count : ledger'.entries[i] = <<d, p>>
    BY DEF Complete, Listed
  <2>1. p \in cnode[d]
    BY <1>4
  <2>2. PICK i \in 1 .. call.mark.count : ledger.entries[i] = <<d, p>>
    BY <1>4, <2>1, Zenon DEF BusyLedger, Complete, Listed
  <2> QED
    BY <1>1, <2>2
<1>5. ASSUME NEW i \in call.mark.count + 1 .. Len(ledger'.entries)
      PROVE  call.child = {ledger'.entries[i][1]}
  <2>1. CASE i \in call.mark.count + 1 .. Len(ledger.entries)
    <3>1. ledger'.entries[i] = ledger.entries[i]
      BY <1>0, <1>1, <2>1
    <3>2. call.child = {ledger.entries[i][1]}
      BY <2>1, Zenon DEF BusyLedger, Spawning
    <3> QED
      BY <3>1, <3>2
  <2>2. CASE i \in Len(ledger.entries) + 1 .. Len(ledger'.entries)
    <3>1. ledger'.entries[i] = <<c, o>>
      BY <2>2 DEF Grows
    <3> QED
      BY <3>1 DEF Spawning
  <2> QED
    BY <1>0, <2>1, <2>2
<1>6. ASSUME ledger'.dropped = 0, NEW d \in Children, call.child = {d}, NEW p \in cnode'[d]
      PROVE  \E i \in 1 .. Len(ledger'.entries) : ledger'.entries[i] = <<d, p>>
  <2>0. d = c
    BY <1>6 DEF Spawning
  <2>1. CASE p = o
    BY <1>6, <2>0, <2>1 DEF Grows
  <2>2. CASE p # o
    <3>1. p \in cnode[d] /\ ledger.dropped = 0
      BY <1>0, <1>6, <2>2
    <3>2. PICK i \in 1 .. Len(ledger.entries) : ledger.entries[i] = <<d, p>>
      BY <1>6, <3>1, Zenon DEF BusyLedger, Listed, Spawning
    <3>3. ledger'.entries[i] = <<d, p>> /\ i \in 1 .. Len(ledger'.entries)
      BY <1>0, <1>1, <3>2
    <3> QED
      BY <3>3
  <2> QED
    BY <2>1, <2>2
<1>7. LedgerOK(ledger')
  BY DEF Grows
<1> QED
  BY <1>2, <1>3, <1>4, <1>5, <1>6, <1>7, Zenon DEF BusyLedger, Listed, LedgerOK, Spawning

\* A start that succeeds turns what was reported since the mark into entries of
\* a running child.
LEMMA StartHonest ==
    ASSUME LedgerOK(ledger), BusyLedger, NEW c \in Children, Spawning(c),
           child'[c] = "running", \A d \in Children : d # c => child'[d] = child[d],
           UNCHANGED <<ledger, cnode>>
    PROVE  LedgerOK(ledger)' /\ IdleLedger'
<1>0. /\ Len(ledger.entries) \in Nat /\ ledger.dropped \in Nat
      /\ call.mark.count \in 0 .. Len(ledger.entries)
      /\ call.mark.dropped \in 0 .. ledger.dropped
  BY DEF LedgerOK, BusyLedger
<1>1. ASSUME NEW i \in 1 .. Len(ledger.entries) PROVE child'[ledger.entries[i][1]] = "running"
  <2>0. ledger.entries[i][1] \in Children
    BY EntryType
  <2>1. CASE i \in 1 .. call.mark.count
    BY <2>0, <2>1 DEF BusyLedger, Started
  <2>2. CASE i \in call.mark.count + 1 .. Len(ledger.entries)
    BY <2>0, <2>2, Zenon DEF BusyLedger, Spawning
  <2> QED
    BY <1>0, <2>1, <2>2
<1>2. ASSUME ledger.dropped = 0, NEW d \in Children, child'[d] = "running", NEW o \in cnode[d]
      PROVE  \E i \in 1 .. Len(ledger.entries) : ledger.entries[i] = <<d, o>>
  <2>1. CASE d = c
    BY <1>2, <2>1, Zenon DEF BusyLedger, Listed
  <2>2. CASE d # c
    <3>1. call.mark.dropped = 0 /\ child[d] = "running"
      BY <1>0, <1>2, <2>2
    <3>2. PICK i \in 1 .. call.mark.count : ledger.entries[i] = <<d, o>>
      BY <3>1, Zenon DEF BusyLedger, Complete, Listed
    <3>3. i \in 1 .. Len(ledger.entries)
      BY <1>0
    <3> QED
      BY <3>2, <3>3
  <2> QED
    BY <2>1, <2>2
<1> QED
  BY <1>1, <1>2, Zenon DEF IdleLedger, Started, Complete, Listed, LedgerOK

\* A step of a spawn that mints nothing leaves the ledger's invariant alone.
LEMMA LedgerKept ==
    ASSUME LedgerInv, ~Idle, ~Idle', UNCHANGED <<ledger, child, cnode>>,
           call'.mark = call.mark, call'.child = call.child
    PROVE  LedgerInv'
BY Zenon DEF LedgerInv, BusyLedger, Started, Complete, Listed, LedgerOK, Spawning

\* An empty ledger is honest about no children.
LEMMA LedgerInit == SpawnInit => LedgerInv
<1> SUFFICES ASSUME SpawnInit PROVE LedgerInv
  OBVIOUS
<1>1. /\ ledger = [entries |-> <<>>, dropped |-> 0] /\ Idle
      /\ \A c \in Children : child[c] = "none"
  BY DEF SpawnInit, Idle
<1>2. LedgerOK(ledger)
  BY <1>1, ChildSpawnAssumption DEF LedgerOK
<1>3. IdleLedger
  BY <1>1 DEF IdleLedger, Started, Complete
<1> QED
  BY <1>1, <1>2, <1>3 DEF LedgerInv

\* Every step of a spawn keeps the ledger's invariant.
LEMMA SpawnStepLedger ==
    ASSUME SpawnIInv, LedgerInv, NEW c \in Children, Spawn(c)
    PROVE  LedgerInv'
<1>t. SpawnType
  BY DEF SpawnIInv
<1>0. Spawning(c) => /\ child[c] = "staged" /\ Progress(c) /\ ~Idle
                     /\ LedgerOK(ledger) /\ BusyLedger
  BY DEF Spawning, Idle, NoCall, SpawnIInv, SpawnType, LedgerInv
<1>1. ASSUME NEW request \in SUBSET Originals, aos_child_spawn(c, request) PROVE LedgerInv'
  <2>1. /\ LedgerOK(ledger) /\ IdleLedger /\ child[c] = "none" /\ cnode[c] = {}
        /\ UNCHANGED <<ledger, cnode>>
    BY <1>1 DEF aos_child_spawn, LedgerInv, SpawnIInv, Nothing
  <2>2. /\ call'.child = {c}
        /\ call'.mark.count = Len(ledger.entries)
        /\ call'.mark.dropped = ledger.dropped
    BY <1>1 DEF aos_child_spawn, aos_endow_ledger_mark
  <2>3. child'[c] = "staged" /\ \A d \in Children : d # c => child'[d] = child[d]
    BY <1>1, <1>t DEF aos_child_spawn, SpawnType
  <2>4. Len(ledger.entries) \in Nat /\ ledger.dropped \in Nat
    BY <2>1 DEF LedgerOK
  <2>5. /\ call'.mark.count \in 0 .. Len(ledger'.entries)
        /\ call'.mark.dropped \in 0 .. ledger'.dropped
    BY <2>1, <2>2, <2>4
  <2>6. \A i \in 1 .. Len(ledger.entries) : child'[ledger.entries[i][1]] = "running"
    BY <2>1, <2>3, EntryType DEF IdleLedger, Started
  <2>7. \A d \in Children : child'[d] = "running" => child[d] = "running"
    BY <2>3
  <2>8. \A i \in call'.mark.count + 1 .. Len(ledger'.entries) : FALSE
    BY <2>1, <2>2, <2>4
  <2>9. \A d \in Children : call'.child = {d} => cnode'[d] = {}
    BY <2>1, <2>2, Zenon
  <2>10. BusyLedger'
    BY <2>1, <2>2, <2>5, <2>6, <2>7, <2>8, <2>9, ZenonT(60)
       DEF BusyLedger, IdleLedger, Started, Complete, Listed, Spawning
  <2>11. ~Idle'
    <3>1. {c} # {} /\ NoCall.child = {}
      BY DEF NoCall
    <3> QED
      BY <2>2, <3>1, Zenon DEF Idle
  <2> QED
    BY <2>1, <2>10, <2>11, Zenon DEF LedgerInv, LedgerOK
<1>2. CASE retype_one(c)
  BY <1>2, <1>0, <1>t, LedgerKept DEF retype_one, Advance, Idle, NoCall, Spawning, SpawnType
<1>3. ASSUME NEW new \in BOOLEAN, aos_pt_map_retrying(c, new) PROVE LedgerInv'
  <2>1. /\ UNCHANGED <<ledger, child, cnode>> /\ Spawning(c)
        /\ \/ call' = [call EXCEPT !.extra = @ + 1]
           \/ call' = [call EXCEPT !.step = @ + 1]
    BY <1>3, Zenon DEF aos_pt_map_retrying, Advance
  <2> QED
    BY <2>1, <1>0, <1>t, LedgerKept, SMTT(60) DEF Idle, NoCall, Spawning, SpawnType
<1>4. CASE configure(c)
  BY <1>4, <1>0, <1>t, LedgerKept DEF configure, Advance, Idle, NoCall, Spawning, SpawnType
<1>5. CASE mint(c)
  <2>0. Spawning(c) /\ child' = child
    BY <1>5 DEF mint
  <2>1. CASE call.todo = {}
    BY <1>5, <2>1, <1>0, <1>t, LedgerKept, SMTT(60) DEF mint, Advance, Idle, NoCall, Spawning, SpawnType
  <2>2. CASE call.todo # {}
    <3>1. PICK o \in call.todo :
              /\ cnode' = [cnode EXCEPT ![c] = @ \cup {o}]
              /\ ledger' = aos_endow_ledger_record(ledger, c, o)
              /\ call' = [call EXCEPT !.todo = @ \ {o}]
      BY <1>5, <2>2 DEF mint
    <3>2. o \in Originals
      BY <1>0, <1>t, <2>0 DEF Progress, SpawnType
    <3>3. call'.mark = call.mark /\ call'.child = call.child /\ ~Idle'
      BY <3>1, <2>0, <1>t DEF SpawnType, Spawning, Idle, NoCall
    <3>4. Grows(ledger, ledger', c, {o})
      BY <1>0, <2>0, <3>1, <3>2, RecordOne
    <3>5. LedgerOK(ledger)' /\ BusyLedger'
      BY <1>0, <1>t, <2>0, <3>1, <3>3, <3>4, MintReported, Zenon DEF SpawnType
    <3> QED
      BY <3>3, <3>5 DEF LedgerInv
  <2> QED
    BY <2>1, <2>2
<1>6. CASE fail_teardown(c)
  <2>1. /\ Spawning(c) /\ ledger' = aos_endow_ledger_rollback(call.mark) /\ Idle'
        /\ child' = [child EXCEPT ![c] = "none"] /\ cnode' = [cnode EXCEPT ![c] = {}]
    BY <1>6 DEF fail_teardown, Unminted, Idle
  <2>2. /\ child'[c] # "running" /\ child[c] # "running"
        /\ \A d \in Children : d # c => child'[d] = child[d] /\ cnode'[d] = cnode[d]
    BY <2>1, <1>0, <1>t DEF SpawnType
  <2> QED
    BY <1>0, <2>1, <2>2, RollbackHonest DEF LedgerInv
<1>7. ASSUME NEW ok \in BOOLEAN, start(c, ok) PROVE LedgerInv'
  <2>1. Spawning(c) /\ Idle' /\ cnode' = cnode
    BY <1>7 DEF start, Idle
  <2>2. \A d \in Children : d # c => child'[d] = child[d] /\ cnode'[d] = cnode[d]
    BY <1>7, <1>t DEF start, SpawnType
  <2>3. CASE ok
    <3>1. child'[c] = "running" /\ UNCHANGED <<ledger, cnode>>
      BY <1>7, <2>3, <1>t DEF start, SpawnType
    <3> QED
      BY <1>0, <2>1, <2>2, <3>1, StartHonest DEF LedgerInv
  <2>4. CASE ~ok
    <3>1. /\ child'[c] # "running" /\ child[c] # "running"
          /\ ledger' = aos_endow_ledger_rollback(call.mark)
      BY <1>7, <2>1, <2>4, <1>0, <1>t DEF start, SpawnType
    <3> QED
      BY <1>0, <2>1, <2>2, <3>1, RollbackHonest DEF LedgerInv
  <2> QED
    BY <2>3, <2>4
<1>8. CASE retry_resume(c)
  <2>1. PICK report \in Reports(c) : ledger' = Recorded(ledger, c, report)
    BY <1>8 DEF retry_resume
  <2>2. /\ LedgerOK(ledger) /\ IdleLedger /\ cnode[c] \subseteq Originals /\ Idle'
        /\ cnode' = cnode /\ child'[c] = "running"
        /\ \A d \in Children : d # c => child'[d] = child[d]
    BY <1>8, <1>t DEF retry_resume, LedgerInv, SpawnType, Idle
  <2>3. Grows(ledger, ledger', c, cnode[c])
    BY <2>1, <2>2, RecordMany
  <2> QED
    BY <2>2, <2>3, ReportHonest DEF LedgerInv
<1>9. CASE manual_teardown(c)
  <2>1. /\ LedgerOK(ledger) /\ IdleLedger /\ Idle' /\ ledger' = ledger
        /\ child[c] = "inert" /\ child'[c] = "none"
        /\ \A d \in Children : d # c => child'[d] = child[d] /\ cnode'[d] = cnode[d]
    BY <1>9, <1>t DEF manual_teardown, LedgerInv, SpawnType, Idle
  <2>2. \A i \in 1 .. Len(ledger.entries) : child'[ledger.entries[i][1]] = "running"
    BY <2>1, EntryType DEF IdleLedger, Started
  <2>3. \A d \in Children : child'[d] = "running" => child[d] = "running" /\ cnode'[d] = cnode[d]
    BY <2>1
  <2>4. IdleLedger'
    BY <2>1, <2>2, <2>3, Zenon DEF IdleLedger, Started, Complete, Listed
  <2> QED
    BY <2>1, <2>4 DEF LedgerInv, LedgerOK
<1> QED
  BY <1>1, <1>2, <1>3, <1>4, <1>5, <1>6, <1>7, <1>8, <1>9, Zenon DEF Spawn

\* Loans leave the ledger alone; revoking one only takes mints away.
LEMMA LendLedger ==
    ASSUME SpawnIInv, LedgerInv, NEW o \in Originals, Idle, RevokeLoan(o) \/ Lend(o)
    PROVE  LedgerInv'
<1>1. /\ UNCHANGED <<child, ledger, call>>
      /\ \A c \in Children : cnode'[c] \subseteq cnode[c]
  BY DEF RevokeLoan, Lend, spawnVars
<1>2. LedgerOK(ledger) /\ IdleLedger /\ Idle'
  BY <1>1 DEF LedgerInv, Idle
<1>3. IdleLedger'
  BY <1>1, <1>2, Zenon DEF IdleLedger, Started, Complete, Listed
<1> QED
  BY <1>1, <1>2, <1>3 DEF LedgerInv, LedgerOK

\* Every step of the composition keeps the ledger's invariant.
LEMMA SpawnNextLedger ==
    SpawnIInv /\ LedgerInv /\ [SpawnNext]_<<vars, spawnVars>> => LedgerInv'
<1> SUFFICES ASSUME SpawnIInv, LedgerInv, [SpawnNext]_<<vars, spawnVars>> PROVE LedgerInv'
  OBVIOUS
<1>1. CASE SpawnNext
  BY <1>1, SpawnStepLedger, LendLedger DEF SpawnNext
<1>2. CASE UNCHANGED <<vars, spawnVars>>
  BY <1>2, Zenon DEF spawnVars, LedgerInv, IdleLedger, BusyLedger, Started, Complete, Listed,
     LedgerOK, Spawning, Idle
<1> QED
  BY <1>1, <1>2

\* child_spawn.h's promise about the ledger, for any number of children, mints
\* and ledger entries: it describes only children that started, and while it
\* has dropped nothing it lists every mint of every running child, through
\* failures at any kernel call, rollbacks and resumes that are retried.
THEOREM LedgerIsHonestHolds == SpawnSpec => []LedgerIsHonest
<1>1. LedgerInv => LedgerIsHonest
  <2> SUFFICES ASSUME LedgerInv, Idle PROVE LedgerIsHonest
    BY Zenon DEF LedgerIsHonest
  <2>1. LedgerOK(ledger) /\ IdleLedger
    BY DEF LedgerInv
  <2>2. DOMAIN ledger.entries = 1 .. Len(ledger.entries)
    BY <2>1 DEF LedgerOK
  <2>3. ASSUME ledger.dropped = 0, NEW c \in Children, child[c] = "running",
               NEW e \in {c} \X cnode[c]
        PROVE  \E i \in DOMAIN ledger.entries : ledger.entries[i] = e
    <3>1. PICK o \in cnode[c] : e = <<c, o>>
      BY <2>3
    <3> QED
      BY <2>1, <2>2, <2>3, <3>1, Zenon DEF IdleLedger, Complete, Listed
  <2>4. \A i \in DOMAIN ledger.entries : child[ledger.entries[i][1]] = "running"
    BY <2>1, <2>2 DEF IdleLedger, Started
  <2> QED
    BY <2>3, <2>4, ZenonT(60) DEF LedgerIsHonest
<1> QED
  BY SpawnInitIInv, SpawnNextIInv, LedgerInit, SpawnNextLedger, <1>1, PTL DEF SpawnSpec
=============================================================================

----------------------------- MODULE ChildSpawn -----------------------------
(***************************************************************************)
(* A parent PD that creates children (libs/pd-support/child_spawn.c,       *)
(* platform/inspect/endow_ledger.c) and lends capabilities (CapLend) from  *)
(* the same originals.  aos_child_spawn is a list of kernel calls, any of  *)
(* which may fail; the parent is one thread, so spawns and loans do not    *)
(* overlap.  Rights are left out: the kernel masks them at the mint.       *)
(***************************************************************************)
EXTENDS CapLend, Sequences

CONSTANTS
    Children,       \* the children the parent may create
    Extras,         \* req->extra_map_count
    LedgerMax       \* AOS_ENDOW_LEDGER_MAX_ENTRIES

ASSUME ChildSpawnAssumption ==
    Extras \in Nat /\ LedgerMax \in Nat /\ IsFiniteSet(Originals)

VARIABLES
    child,      \* "none", "staged", "inert" (its start failed) or "running"
    staged,     \* the objects in the child's scratch slots
    mapped,     \* the caller's frames that record a mapping in the child
    cnode,      \* the originals minted into the child's CNode
    endow,      \* history: what was asked for the child and not revoked since
    ledger,     \* the endowment-delta ledger: entries and dropped
    call        \* the spawn in progress: child, step, frame or mints left, mark

spawnVars == <<child, staged, mapped, cnode, endow, ledger, call>>

Steps == <<"CNODE", "VSPACE", "ASID", "CONTENT_MAP", "EXTRA_MAP", "STACK_FRAME",
           "STACK_MAP", "IPC_FRAME", "IPC_MAP", "TCB", "CONFIGURE", "REGS",
           "FAULT_INSTALL", "SC", "SC_CONFIGURE", "SCHED_PARAMS", "ENDOW", "START">>

Retypes == {"CNODE", "VSPACE", "STACK_FRAME", "IPC_FRAME", "TCB", "SC"}
Maps == {"CONTENT_MAP", "EXTRA_MAP", "STACK_MAP", "IPC_MAP"}

\* The caller's frames: 0 is content_frame, the others are extra_maps.
Frames == 0 .. Extras

NoCall == [child |-> {}, step |-> 0, extra |-> 0, todo |-> {},
           mark |-> [count |-> 0, dropped |-> 0]]

SpawnInit ==
    /\ Init
    /\ child = [c \in Children |-> "none"]
    /\ staged = [c \in Children |-> {}] /\ mapped = [c \in Children |-> {}]
    /\ cnode = [c \in Children |-> {}] /\ endow = [c \in Children |-> {}]
    /\ ledger = [entries |-> <<>>, dropped |-> 0]
    /\ call = NoCall

Idle == call = NoCall
Spawning(c) == call.child = {c}
At(steps) == ~Idle /\ Steps[call.step] \in steps

-----------------------------------------------------------------------------
aos_endow_ledger_mark == [count |-> Len(ledger.entries), dropped |-> ledger.dropped]

\* A full ledger is counted, not an error.
aos_endow_ledger_record(led, c, o) ==
    IF Len(led.entries) < LedgerMax
    THEN [led EXCEPT !.entries = Append(@, <<c, o>>)]
    ELSE [led EXCEPT !.dropped = @ + 1]

\* Mutant: the overflows of earlier spawns are forgotten.
aos_endow_ledger_rollback_Clears(mark) ==
    [entries |-> SubSeq(ledger.entries, 1, mark.count), dropped |-> 0]

aos_endow_ledger_rollback(mark) ==
    [entries |-> SubSeq(ledger.entries, 1, mark.count), dropped |-> mark.dropped]

\* aos_child_spawn up to its first kernel call: a request that is empty or names
\* what the parent does not hold is refused before anything is touched.
aos_child_spawn(c, request) ==
    /\ Idle /\ child[c] = "none"
    /\ request # {}
    /\ call' = [child |-> {c}, step |-> 1, extra |-> 0, todo |-> request,
                mark |-> aos_endow_ledger_mark]
    /\ child' = [child EXCEPT ![c] = "staged"]
    /\ endow' = [endow EXCEPT ![c] = request]
    /\ UNCHANGED <<staged, mapped, cnode, ledger>>

Advance == call' = [call EXCEPT !.step = @ + 1]

retype_one(c) ==
    /\ Spawning(c) /\ At(Retypes)
    /\ staged' = [staged EXCEPT ![c] = @ \cup {Steps[call.step]}]
    /\ Advance
    /\ UNCHANGED <<child, mapped, cnode, endow, ledger>>

\* Retyped page tables stay in their scratch slots, used or not.
PageTables(c, new) == [staged EXCEPT ![c] = @ \cup (IF new THEN {"PAGE_TABLES"} ELSE {})]

\* A mapping succeeds.  The extra maps are a loop over the caller's frames.
aos_pt_map_retrying(c, new) ==
    /\ Spawning(c) /\ At(Maps)
    /\ IF At({"EXTRA_MAP"})
       THEN IF call.extra < Extras
            THEN /\ mapped' = [mapped EXCEPT ![c] = @ \cup {call.extra + 1}]
                 /\ staged' = PageTables(c, new)
                 /\ call' = [call EXCEPT !.extra = @ + 1]
            ELSE UNCHANGED <<mapped, staged>> /\ ~new /\ Advance
       ELSE /\ mapped' = IF At({"CONTENT_MAP"}) THEN [mapped EXCEPT ![c] = @ \cup {0}]
                                                ELSE mapped
            /\ staged' = PageTables(c, new)
            /\ Advance
    /\ UNCHANGED <<child, cnode, endow, ledger>>

\* ASID assignment, TCB and scheduling context configuration, the call of the
\* fault installer: nothing this module undoes.
configure(c) ==
    /\ Spawning(c)
    /\ At({"ASID", "CONFIGURE", "REGS", "FAULT_INSTALL", "SC_CONFIGURE", "SCHED_PARAMS"})
    /\ Advance
    /\ UNCHANGED <<child, staged, mapped, cnode, endow, ledger>>

\* One mint of the endowment, reported once the kernel has accepted it.
mint(c) ==
    /\ Spawning(c) /\ At({"ENDOW"})
    /\ IF call.todo = {}
       THEN Advance /\ UNCHANGED <<cnode, ledger>>
       ELSE \E o \in call.todo :
              /\ cnode' = [cnode EXCEPT ![c] = @ \cup {o}]
              /\ ledger' = aos_endow_ledger_record(ledger, c, o)
              /\ call' = [call EXCEPT !.todo = @ \ {o}]
    /\ UNCHANGED <<child, staged, mapped, endow>>

\* Mutant: the mints are undone by revoking the parent's originals.
Unminted_Revoke(c) ==
    [d \in Children |-> IF d = c THEN {} ELSE cnode[d] \ cnode[c]]

\* Deleting the last capability to the child's CNode deletes what is in it.
Unminted(c) == [cnode EXCEPT ![c] = {}]

\* Mutant: only content_frame is unmapped.
Unmapped_ContentOnly(c) == [mapped EXCEPT ![c] = @ \ {0}]

\* extra_maps[i] for i < extra_mapped, then content_frame if it was mapped.
Unmapped(c) == [mapped EXCEPT ![c] = @ \ Frames]

\* Any call before START fails: unmap the caller's frames, delete the scratch
\* slots in reverse, roll the ledger back.
fail_teardown(c) ==
    /\ Spawning(c) /\ ~At({"START"})
    /\ At({"EXTRA_MAP"}) => call.extra < Extras
    /\ At({"ENDOW"}) => call.todo # {}
    /\ child' = [child EXCEPT ![c] = "none"]
    /\ staged' = [staged EXCEPT ![c] = {}]
    /\ mapped' = Unmapped(c)
    /\ cnode' = Unminted(c)
    /\ endow' = [endow EXCEPT ![c] = {}]
    /\ ledger' = aos_endow_ledger_rollback(call.mark)
    /\ call' = NoCall

\* WriteRegisters(resume = 1).  A failure leaves the child in place, inactive
\* and unreported.
start(c, ok) ==
    /\ Spawning(c) /\ At({"START"})
    /\ child' = [child EXCEPT ![c] = IF ok THEN "running" ELSE "inert"]
    /\ ledger' = IF ok THEN ledger ELSE aos_endow_ledger_rollback(call.mark)
    /\ call' = NoCall
    /\ UNCHANGED <<staged, mapped, cnode, endow>>

-----------------------------------------------------------------------------
(* What the caller of aos_child_spawn does with a child whose start failed.  *)

\* The orders in which the mints of a child can be reported.
Reports(c) ==
    {f \in [1 .. Cardinality(cnode[c]) -> cnode[c]] :
        \A o \in cnode[c] : \E i \in DOMAIN f : f[i] = o}

\* aos_endow_ledger_record of one mint after the other: as many as there is room
\* for are listed, the others counted.
Recorded(led, c, report) ==
    LET room == LedgerMax - Len(led.entries)
        fit == IF Len(report) < room THEN Len(report) ELSE room
    IN  [entries |-> led.entries \o [i \in 1 .. fit |-> <<c, report[i]>>],
         dropped |-> led.dropped + Len(report) - fit]

\* It retries the resume; it then owns reporting the endowment.
retry_resume(c) ==
    /\ Idle /\ child[c] = "inert"
    /\ child' = [child EXCEPT ![c] = "running"]
    /\ \E report \in Reports(c) : ledger' = Recorded(ledger, c, report)
    /\ UNCHANGED <<staged, mapped, cnode, endow, call>>

\* It follows the manual teardown recipe of child_spawn.h.
manual_teardown(c) ==
    /\ Idle /\ child[c] = "inert"
    /\ child' = [child EXCEPT ![c] = "none"]
    /\ mapped' = [mapped EXCEPT ![c] = {}]
    /\ staged' = [staged EXCEPT ![c] = {}]
    /\ cnode' = [cnode EXCEPT ![c] = {}]
    /\ endow' = [endow EXCEPT ![c] = {}]
    /\ UNCHANGED <<ledger, call>>

Spawn(c) ==
    \/ \E request \in SUBSET Originals : aos_child_spawn(c, request)
    \/ retype_one(c)
    \/ \E new \in BOOLEAN : aos_pt_map_retrying(c, new)
    \/ configure(c)
    \/ mint(c)
    \/ fail_teardown(c)
    \/ \E ok \in BOOLEAN : start(c, ok)
    \/ retry_resume(c)
    \/ manual_teardown(c)

\* Revoking a loan deletes everything derived from the original, the mints in
\* the children's CNodes with it.
RevokeLoan(o) ==
    /\ aos_cap_lend_revoke(o)
    /\ cnode' = [c \in Children |-> cnode[c] \ {o}]
    /\ endow' = [c \in Children |-> endow[c] \ {o}]
    /\ UNCHANGED <<child, staged, mapped, ledger, call>>

Lend(o) ==
    /\ aos_cap_lend_ok(o) \/ aos_cap_lend_err_mint(o) \/ BorrowerDrops(o)
    /\ UNCHANGED spawnVars

SpawnNext ==
    \/ \E c \in Children : Spawn(c) /\ UNCHANGED vars
    \/ \E o \in Originals : Idle /\ (RevokeLoan(o) \/ Lend(o))

SpawnSpec == SpawnInit /\ [][SpawnNext]_<<vars, spawnVars>>

-----------------------------------------------------------------------------
\* "no partially-endowed child ever runs" (child_spawn.h): a running child has
\* every object, every frame and its whole endowment, less what the parent has
\* since revoked itself.  In particular the failed spawn of a sibling endowed
\* from the same originals takes nothing away from it.
RunningChildIsWhole ==
    \A c \in Children : child[c] = "running" =>
        /\ Retypes \subseteq staged[c]
        /\ mapped[c] = Frames
        /\ cnode[c] = endow[c]

\* A spawn that failed before START can be retried with the same frames and the
\* same scratch slots: nothing staged, mapped or minted is left of it.
FailedSpawnLeavesNothing ==
    \A c \in Children : child[c] = "none" =>
        staged[c] = {} /\ mapped[c] = {} /\ cnode[c] = {}

\* "The ledger therefore only ever describes children that actually started"
\* (child_spawn.h), and while it claims to be complete (dropped is 0) it lists
\* everything a running child was endowed with.
LedgerIsHonest ==
    LET entries == {ledger.entries[i] : i \in DOMAIN ledger.entries}
    IN  Idle => /\ \A e \in entries : child[e[1]] = "running"
                /\ ledger.dropped = 0 =>
                     \A c \in Children : child[c] = "running" => {c} \X cnode[c] \subseteq entries
=============================================================================

------------------------------ MODULE CapLend -------------------------------
(***************************************************************************)
(* The capability-lending primitive of libs/pd-support/cap_lend.c: one     *)
(* record per outstanding loan, kept beside the lease table, and the       *)
(* kernel's derivation tree, of which only this matters: whether a         *)
(* capability derived from an original is still alive somewhere.           *)
(***************************************************************************)
EXTENDS LeaseTable, FiniteSets

CONSTANTS Originals, NoCap      \* lendable capability slots; the null slot

ASSUME OriginalsAssumption == NoCap \notin Originals

RecIds == 0 .. MaxActive - 1
NoRecord == [in_use |-> FALSE, original |-> NoCap, lease |-> [slot |-> 0, gen |-> 0]]

VARIABLES
    tbl,            \* g_lend_leases
    rec,            \* g_lend_records
    derived         \* kernel: the originals with a live derivative

vars == <<tbl, rec, derived>>

aos_cap_lend_init ==
    /\ tbl = aos_lease_table_init
    /\ rec = [r \in RecIds |-> NoRecord]

Init == aos_cap_lend_init /\ derived = {}

cap_lend_find(o) == {r \in RecIds : rec[r].in_use /\ rec[r].original = o}

\* The record cap_lend_find_free returns.
IsFirstFree(r) ==
    /\ ~rec[r].in_use
    /\ \A q \in RecIds : q < r => rec[q].in_use

\* Mutant: the same original is lent twice.
Granted_Twice(o, r, i) == IsFirstFree(r) /\ Claimable(tbl, i)

\* aos_cap_lend up to the call of seL4_CNode_Mint.  Every earlier return leaves
\* the state alone.
Granted(o, r, i) ==
    /\ cap_lend_find(o) = {}
    /\ IsFirstFree(r)
    /\ Claimable(tbl, i)

aos_cap_lend_ok(o) ==
    \E r \in RecIds, i \in SlotIds :
        /\ Granted(o, r, i)
        /\ tbl' = aos_lease_open(tbl, i)
        /\ rec' = [rec EXCEPT ![r] = [in_use |-> TRUE, original |-> o,
                                      lease |-> lease_make_id(tbl', i)]]
        /\ derived' = derived \cup {o}

\* Mutant: the failed mint returns without closing the lease.
aos_cap_lend_err_mint_Leak(o) ==
    \E r \in RecIds, i \in SlotIds :
        /\ Granted(o, r, i)
        /\ tbl' = aos_lease_open(tbl, i)
        /\ UNCHANGED <<rec, derived>>

\* The mint fails and the lease that was just opened is closed again.
aos_cap_lend_err_mint(o) ==
    \E r \in RecIds, i \in SlotIds :
        /\ Granted(o, r, i)
        /\ LET opened == aos_lease_open(tbl, i) IN
           tbl' = aos_lease_close(opened, lease_make_id(opened, i))
        /\ UNCHANGED <<rec, derived>>

\* seL4_CNode_Revoke succeeded: nothing derived from o is left.  A lease that
\* cannot be closed leaves the record in place.
aos_cap_lend_revoke(o) ==
    \E r \in cap_lend_find(o) :
        /\ derived' = derived \ {o}
        /\ IF Closable(tbl, rec[r].lease)
           THEN /\ tbl' = aos_lease_close(tbl, rec[r].lease)
                /\ rec' = [rec EXCEPT ![r] = NoRecord]
           ELSE UNCHANGED <<tbl, rec>>

\* The borrower deletes what it was lent, and every copy it made of it.
BorrowerDrops(o) ==
    /\ o \in derived
    /\ derived' = derived \ {o}
    /\ UNCHANGED <<tbl, rec>>

Next == \E o \in Originals :
            \/ aos_cap_lend_ok(o)
            \/ aos_cap_lend_err_mint(o)
            \/ aos_cap_lend_revoke(o)
            \/ BorrowerDrops(o)

Spec == Init /\ [][Next]_vars

-----------------------------------------------------------------------------
TypeOK ==
    /\ tbl \in Table
    /\ rec \in [RecIds -> [in_use : BOOLEAN, original : Originals \cup {NoCap},
                           lease : LeaseId]]
    /\ derived \subseteq Originals

Used == {r \in RecIds : rec[r].in_use}

\* "kept in lock-step with the lease table: a record is filled exactly when the
\* matching lease is opened, and cleared exactly when that lease is closed": the
\* leases named by the records in use are open, no two records share one, and
\* no open lease is without its record.  So aos_cap_lend_revoke never returns
\* ERR_LEASE_CLOSE, and records and lease slots run out together.
LockStep ==
    /\ \A r \in Used : Closable(tbl, rec[r].lease)
    /\ \A r, q \in Used : rec[r].lease.slot = rec[q].lease.slot => r = q
    /\ \A i \in SlotIds :
          tbl.state[i] = "ACTIVE" => \E r \in Used : rec[r].lease.slot = i

\* Borrowed authority can always be withdrawn: every original with a live
\* derivative has exactly one record, the one aos_cap_lend_revoke needs.
LoansAreRevocable ==
    \A o \in Originals :
        /\ o \in derived => cap_lend_find(o) # {}
        /\ \A r, q \in cap_lend_find(o) : r = q
=============================================================================

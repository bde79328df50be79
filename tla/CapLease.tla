------------------------------ MODULE CapLease ------------------------------
(***************************************************************************)
(* The lease table in the hands of its callers: they open leases, keep the *)
(* ids they were given, possibly long after the lease has been closed, and *)
(* close or look up leases by id in any order.  Loan numbers are history:  *)
(* loan k is the k-th successful aos_lease_open.                           *)
(***************************************************************************)
EXTENDS LeaseTable

CONSTANT MaxLoans       \* bound on the number of successful opens

ASSUME LoansAssumption == MaxLoans \in Nat

Loans == 1 .. MaxLoans

VARIABLES
    tbl,            \* aos_lease_table_t
    loan,           \* history: the loan that last claimed slot i, 0 if none
    opens,          \* history: how often slot i has been claimed
    loans,          \* history: the number of loans so far
    issued,         \* history: the id handed out for loan k
    closer          \* history: the loan whose id closed loan k, 0 while open

vars == <<tbl, loan, opens, loans, issued, closer>>

Init ==
    /\ tbl = aos_lease_table_init
    /\ loan = [i \in SlotIds |-> 0]
    /\ opens = [i \in SlotIds |-> 0]
    /\ loans = 0
    /\ issued = [k \in Loans |-> lease_make_id(tbl, 0)]
    /\ closer = [k \in Loans |-> 0]

Open ==
    /\ loans < MaxLoans
    /\ loans' = loans + 1
    /\ \E i \in SlotIds :
          /\ Claimable(tbl, i)
          /\ tbl' = aos_lease_open(tbl, i)
          /\ loan' = [loan EXCEPT ![i] = loans']
          /\ opens' = [opens EXCEPT ![i] = @ + 1]
          /\ issued' = [issued EXCEPT ![loans'] = lease_make_id(tbl', i)]
    /\ UNCHANGED closer

\* The holder of loan k's id closes it, at any time and any number of times; a
\* close that fails changes nothing.
Close(k) ==
    /\ k <= loans
    /\ IF Closable(tbl, issued[k])
       THEN /\ tbl' = aos_lease_close(tbl, issued[k])
            /\ closer' = [closer EXCEPT ![loan[issued[k].slot]] = k]
       ELSE UNCHANGED <<tbl, closer>>
    /\ UNCHANGED <<loan, opens, loans, issued>>

Next == Open \/ \E k \in Loans : Close(k)

Spec == Init /\ [][Next]_vars

-----------------------------------------------------------------------------
TypeOK ==
    /\ tbl \in Table
    /\ loan \in [SlotIds -> 0 .. MaxLoans]
    /\ opens \in [SlotIds -> Nat]
    /\ loans \in 0 .. MaxLoans
    /\ issued \in [Loans -> LeaseId]
    /\ closer \in [Loans -> 0 .. MaxLoans]

\* No slot has been claimed so often that its generation counter has come back
\* to a value it had before.
NoWrap == \A i \in SlotIds : opens[i] <= Gens

\* A stale id never reaches a newer lease: as long as no generation counter has
\* wrapped, the only id that ever closes a lease, and the only id by which
\* aos_lease_get finds it, is the one its own aos_lease_open returned.
StaleIdIsInert ==
    NoWrap => \A k \in 1 .. loans :
        /\ closer[k] \in {0, k}
        /\ aos_lease_get(tbl, issued[k]) => loan[issued[k].slot] = k

\* A lender is never locked out of its own lease: the id that was returned for
\* a lease that is still open closes it, wrapped generations or not.
OpenIsClosable ==
    \A k \in 1 .. loans :
        closer[k] = 0 => Closable(tbl, issued[k]) /\ loan[issued[k].slot] = k
=============================================================================

----------------------------- MODULE LeaseTable -----------------------------
(***************************************************************************)
(* The capability-lease table of libs/pd-support/cap_lease.c as operators  *)
(* on a table value: t.gen[i] and t.state[i] are the generation and the    *)
(* state of slot i.  A lease id is the pair of a slot index and that       *)
(* slot's generation; the code packs the two into 32 bits, each masked to  *)
(* its width, so that the packing is injective.  Borrower and rights are   *)
(* stored but never read by the table and are left out.                    *)
(***************************************************************************)
EXTENDS Integers

CONSTANTS
    MaxActive,      \* AOS_LEASE_MAX_ACTIVE
    Gens            \* AOS_LEASE_GEN_MASK + 1, the number of generations

ASSUME LeaseAssumption == MaxActive \in Nat \ {0} /\ Gens \in Nat \ {0}

SlotIds == 0 .. MaxActive - 1
Generations == 0 .. Gens - 1
LeaseId == [slot : SlotIds, gen : Generations]
Table == [gen : [SlotIds -> Generations],
          state : [SlotIds -> {"FREE", "ACTIVE", "REVOKED"}]]

aos_lease_table_init ==
    [gen |-> [i \in SlotIds |-> 0], state |-> [i \in SlotIds |-> "FREE"]]

\* The id slot i carries now.
lease_make_id(t, i) == [slot |-> i, gen |-> t.gen[i]]

\* Mutant: an open slot is handed out again.
Claimable_Live(t, i) == \A j \in SlotIds : j < i => t.state[j] = "ACTIVE"

\* The slot at which the loop of aos_lease_open stops.
Claimable(t, i) ==
    /\ t.state[i] # "ACTIVE"
    /\ \A j \in SlotIds : j < i => t.state[j] = "ACTIVE"

\* A slot that was used before is claimed with the next generation.
NextGen(t, i) ==
    IF t.state[i] = "REVOKED" THEN (t.gen[i] + 1) % Gens ELSE t.gen[i]

aos_lease_open(t, i) ==
    [gen |-> [t.gen EXCEPT ![i] = NextGen(t, i)],
     state |-> [t.state EXCEPT ![i] = "ACTIVE"]]

\* The conditions under which aos_lease_close(id) succeeds.
Closable(t, id) ==
    /\ t.state[id.slot] = "ACTIVE"
    /\ t.gen[id.slot] = id.gen

\* Mutant: the slot goes back to FREE, which forgets that it was used.
aos_lease_close_Free(t, id) == [t EXCEPT !.state[id.slot] = "FREE"]

aos_lease_close(t, id) == [t EXCEPT !.state[id.slot] = "REVOKED"]

\* Whether aos_lease_get(id) returns the slot record rather than NULL.
aos_lease_get(t, id) == t.gen[id.slot] = id.gen
=============================================================================

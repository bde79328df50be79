--------------------------- MODULE CapLeaseProofs ---------------------------
(***************************************************************************)
(* What the generations of cap_lease.c buy, for any number of slots, any   *)
(* generation width and any number of loans.                               *)
(***************************************************************************)
EXTENDS CapLease, TLAPS

\* What a slot knows of the loan it was last claimed by.
SlotInv ==
    \A i \in SlotIds :
        /\ tbl.state[i] = "FREE" => opens[i] = 0
        /\ tbl.state[i] # "FREE" =>
              /\ opens[i] > 0
              /\ loan[i] \in 1 .. loans
              /\ issued[loan[i]] = lease_make_id(tbl, i)
        /\ tbl.state[i] = "ACTIVE" => closer[loan[i]] = 0

\* An open loan is the one that claimed its slot last, and the slot is ACTIVE.
OpenInv ==
    /\ \A k \in 1 .. loans :
          closer[k] = 0 => /\ tbl.state[issued[k].slot] = "ACTIVE"
                           /\ loan[issued[k].slot] = k
    /\ \A k \in Loans : k > loans => closer[k] = 0

\* Until a counter wraps, a slot's generation counts its claims, and every
\* loan but the last of a slot has an older generation than the slot.
GenInv ==
    NoWrap =>
        /\ \A i \in SlotIds : tbl.gen[i] = IF opens[i] = 0 THEN 0 ELSE opens[i] - 1
        /\ \A k \in 1 .. loans :
              /\ closer[k] \in {0, k}
              /\ tbl.state[issued[k].slot] # "FREE"
              /\ \/ loan[issued[k].slot] = k
                 \/ issued[k].gen < tbl.gen[issued[k].slot]

IInv == TypeOK /\ SlotInv /\ OpenInv /\ GenInv

\* The mask of NextGen is the identity below the number of generations.
LEMMA ModBelow ==
    ASSUME NEW n \in Nat
    PROVE  n % Gens \in Generations /\ (n < Gens => n % Gens = n)
BY LeaseAssumption DEF Generations

\* A fresh table, with nothing lent, satisfies the invariant.
LEMMA InitIInv == Init => IInv
<1> SUFFICES ASSUME Init PROVE IInv
  OBVIOUS
<1> USE DEF Init, aos_lease_table_init, lease_make_id
<1>1. 0 \in SlotIds /\ 0 \in Generations
  BY LeaseAssumption DEF SlotIds, Generations
<1>2. TypeOK
  BY <1>1, LoansAssumption DEF TypeOK, Table, LeaseId
<1>3. SlotInv /\ OpenInv /\ GenInv
  BY DEF SlotInv, OpenInv, GenInv
<1> QED
  BY <1>2, <1>3 DEF IInv

\* What the invariant says of an ACTIVE slot.
LEMMA ActiveSlot ==
    ASSUME IInv, NEW i \in SlotIds, tbl.state[i] # "FREE"
    PROVE  /\ opens[i] > 0
           /\ loan[i] \in 1 .. loans
           /\ loan[i] \in Loans
           /\ issued[loan[i]].slot = i
           /\ issued[loan[i]].gen = tbl.gen[i]
           /\ tbl.state[i] = "ACTIVE" => closer[loan[i]] = 0
<1>1. /\ opens[i] > 0
      /\ loan[i] \in 1 .. loans
      /\ issued[loan[i]] = lease_make_id(tbl, i)
      /\ tbl.state[i] = "ACTIVE" => closer[loan[i]] = 0
  BY DEF IInv, SlotInv
<1>2. loan[i] \in Loans
  BY <1>1, LoansAssumption DEF IInv, TypeOK, Loans
<1> QED
  BY <1>1, <1>2 DEF lease_make_id

\* aos_lease_open preserves the invariant.
LEMMA OpenIInv == IInv /\ Open => IInv'
<1> SUFFICES ASSUME IInv, Open PROVE IInv'
  OBVIOUS
<1>0. TypeOK /\ SlotInv /\ OpenInv /\ GenInv
  BY DEF IInv
<1>1. PICK i \in SlotIds :
          /\ Claimable(tbl, i)
          /\ tbl' = aos_lease_open(tbl, i)
          /\ loan' = [loan EXCEPT ![i] = loans']
          /\ opens' = [opens EXCEPT ![i] = @ + 1]
          /\ issued' = [issued EXCEPT ![loans'] = lease_make_id(tbl', i)]
  BY Zenon DEF Open
<1>2. loans' = loans + 1 /\ loans' \in Loans /\ loans \in Nat /\ closer' = closer
  BY <1>0, LoansAssumption DEF Open, TypeOK, Loans
<1>3. /\ tbl'.gen = [tbl.gen EXCEPT ![i] = NextGen(tbl, i)]
      /\ tbl'.state = [tbl.state EXCEPT ![i] = "ACTIVE"]
      /\ tbl.state[i] # "ACTIVE"
  BY <1>1 DEF aos_lease_open, Claimable
<1>4. NextGen(tbl, i) \in Generations
  <2>1. tbl.gen[i] \in Nat /\ tbl.gen[i] \in Generations
    BY <1>0, LeaseAssumption DEF TypeOK, Table, Generations
  <2> QED
    BY <2>1, ModBelow DEF NextGen
<1>5. TypeOK'
  <2>1. tbl' \in Table
    BY <1>0, <1>1, <1>4 DEF TypeOK, Table, aos_lease_open
  <2>2. lease_make_id(tbl', i) \in LeaseId
    BY <1>0, <1>3, <1>4 DEF TypeOK, Table, lease_make_id, LeaseId
  <2> QED
    BY <1>0, <1>1, <1>2, <2>1, <2>2, LoansAssumption DEF TypeOK, Loans
<1>6. closer[loans'] = 0 /\ 1 .. loans \subseteq Loans
  BY <1>0, <1>2, LoansAssumption DEF OpenInv, TypeOK, Loans
<1>7. \A j \in SlotIds \ {i} :
         /\ tbl'.state[j] = tbl.state[j] /\ tbl'.gen[j] = tbl.gen[j]
         /\ loan'[j] = loan[j] /\ opens'[j] = opens[j]
  BY <1>0, <1>1, <1>3 DEF TypeOK, Table
<1>8. /\ tbl'.state[i] = "ACTIVE" /\ tbl'.gen[i] = NextGen(tbl, i)
      /\ loan'[i] = loans' /\ opens'[i] = opens[i] + 1
      /\ issued'[loans'] = lease_make_id(tbl', i)
  BY <1>0, <1>1, <1>2, <1>3 DEF TypeOK, Table
<1>9. \A k \in 1 .. loans : issued'[k] = issued[k] /\ issued[k].slot \in SlotIds
  BY <1>0, <1>1, <1>2, <1>6 DEF TypeOK, LeaseId
<1>10. SlotInv'
  <2> SUFFICES ASSUME NEW j \in SlotIds
               PROVE  /\ tbl'.state[j] = "FREE" => opens'[j] = 0
                      /\ tbl'.state[j] # "FREE" =>
                            /\ opens'[j] > 0
                            /\ loan'[j] \in 1 .. loans'
                            /\ issued'[loan'[j]] = lease_make_id(tbl', j)
                      /\ tbl'.state[j] = "ACTIVE" => closer'[loan'[j]] = 0
    BY DEF SlotInv
  <2>1. CASE j = i
    BY <2>1, <1>0, <1>2, <1>6, <1>8 DEF TypeOK
  <2>2. CASE j # i
    <3>1. /\ tbl.state[j] = "FREE" => opens[j] = 0
          /\ tbl.state[j] # "FREE" =>
                /\ opens[j] > 0
                /\ loan[j] \in 1 .. loans
                /\ issued[loan[j]] = lease_make_id(tbl, j)
          /\ tbl.state[j] = "ACTIVE" => closer[loan[j]] = 0
      BY <1>0 DEF SlotInv
    <3>2. lease_make_id(tbl', j) = lease_make_id(tbl, j)
      BY <2>2, <1>7 DEF lease_make_id
    <3> QED
      BY <2>2, <3>1, <3>2, <1>2, <1>7, <1>9
  <2> QED
    BY <2>1, <2>2
<1>11. OpenInv'
  <2>1. ASSUME NEW k \in 1 .. loans', closer[k] = 0
        PROVE  tbl'.state[issued'[k].slot] = "ACTIVE" /\ loan'[issued'[k].slot] = k
    <3>1. CASE k = loans'
      BY <3>1, <1>8 DEF lease_make_id
    <3>2. CASE k # loans'
      <4>1. k \in 1 .. loans
        BY <3>2, <1>2
      <4>2. tbl.state[issued[k].slot] = "ACTIVE" /\ loan[issued[k].slot] = k
        BY <4>1, <2>1, <1>0 DEF OpenInv
      <4> QED
        BY <4>1, <4>2, <1>3, <1>7, <1>9
    <3> QED
      BY <3>1, <3>2
  <2> QED
    BY <2>1, <1>0, <1>2 DEF OpenInv, Loans
<1>12. GenInv'
  <2> SUFFICES ASSUME NoWrap'
               PROVE  /\ \A j \in SlotIds :
                            tbl'.gen[j] = IF opens'[j] = 0 THEN 0 ELSE opens'[j] - 1
                      /\ \A k \in 1 .. loans' :
                            /\ closer'[k] \in {0, k}
                            /\ tbl'.state[issued'[k].slot] # "FREE"
                            /\ \/ loan'[issued'[k].slot] = k
                               \/ issued'[k].gen < tbl'.gen[issued'[k].slot]
    BY DEF GenInv
  <2>1. /\ \A j \in SlotIds : opens[j] \in Nat
        /\ \A k \in 1 .. loans : issued[k] \in LeaseId
        /\ \A j \in SlotIds : tbl.gen[j] \in Nat
    BY <1>0, <1>6, LeaseAssumption DEF TypeOK, Table, Generations
  <2>2. opens[i] + 1 <= Gens /\ NoWrap
    BY <1>7, <1>8, <2>1, LeaseAssumption DEF NoWrap
  <2>3. NextGen(tbl, i) = opens[i]
    <3>1. CASE tbl.state[i] = "FREE"
      BY <3>1, <1>0, <2>2 DEF SlotInv, GenInv, NextGen
    <3>2. CASE tbl.state[i] = "REVOKED"
      <4>1. opens[i] > 0 /\ tbl.gen[i] + 1 = opens[i]
        BY <3>2, <1>0, <2>1, <2>2 DEF SlotInv, GenInv
      <4> QED
        BY <4>1, <3>2, <2>1, <2>2, ModBelow, LeaseAssumption DEF NextGen
    <3> QED
      BY <3>1, <3>2, <1>0, <1>3 DEF TypeOK, Table
  <2>4. ASSUME NEW j \in SlotIds
        PROVE  tbl'.gen[j] = IF opens'[j] = 0 THEN 0 ELSE opens'[j] - 1
    BY <1>0, <1>7, <1>8, <2>1, <2>2, <2>3 DEF GenInv
  <2>5. ASSUME NEW k \in 1 .. loans'
        PROVE  /\ closer'[k] \in {0, k}
               /\ tbl'.state[issued'[k].slot] # "FREE"
               /\ \/ loan'[issued'[k].slot] = k
                  \/ issued'[k].gen < tbl'.gen[issued'[k].slot]
    <3>1. CASE k = loans'
      BY <3>1, <1>2, <1>6, <1>8 DEF lease_make_id
    <3>2. CASE k # loans'
      <4>1. k \in 1 .. loans
        BY <3>2, <1>2
      <4> DEFINE s == issued[k].slot
      <4>2. /\ closer[k] \in {0, k}
            /\ tbl.state[s] # "FREE"
            /\ loan[s] = k \/ issued[k].gen < tbl.gen[s]
        BY <4>1, <1>0, <2>2 DEF GenInv
      <4>3. CASE s # i
        BY <4>1, <4>2, <4>3, <1>2, <1>7, <1>9
      <4>4. CASE s = i
        <5>1. issued[k].gen <= tbl.gen[i]
          <6>1. CASE loan[i] = k
            BY <6>1, <4>2, <4>4, <2>1, ActiveSlot
          <6>2. CASE loan[i] # k
            BY <6>2, <4>1, <4>2, <4>4, <2>1, LeaseAssumption DEF LeaseId, Generations
          <6> QED
            BY <6>1, <6>2
        <5>2. opens[i] > 0 /\ tbl.gen[i] = opens[i] - 1
          BY <4>2, <4>4, <1>0, <2>1, <2>2 DEF SlotInv, GenInv
        <5>3. issued[k].gen < NextGen(tbl, i) /\ issued[k].gen \in Nat
          BY <5>1, <5>2, <2>1, <2>3, <4>1, LeaseAssumption DEF LeaseId, Generations
        <5> QED
          BY <5>3, <4>1, <4>2, <4>4, <1>2, <1>8, <1>9
      <4> QED
        BY <4>3, <4>4
    <3> QED
      BY <3>1, <3>2
  <2> QED
    BY <2>4, <2>5
<1> QED
  BY <1>5, <1>10, <1>11, <1>12 DEF IInv

\* aos_lease_close, succeeding or not, preserves the invariant.
LEMMA CloseIInv == ASSUME NEW k \in Loans PROVE IInv /\ Close(k) => IInv'
<1>a. ASSUME IInv, Close(k), ~Closable(tbl, issued[k]) PROVE IInv'
  <2>1. UNCHANGED <<tbl, closer, loan, opens, loans, issued>>
    BY <1>a, Zenon DEF Close
  <2> QED
    BY <1>a, <2>1 DEF IInv, TypeOK, SlotInv, OpenInv, GenInv, NoWrap, lease_make_id
<1> SUFFICES ASSUME IInv, Close(k), Closable(tbl, issued[k]) PROVE IInv'
  BY <1>a, Zenon
<1> DEFINE s == issued[k].slot
<1>0. TypeOK /\ SlotInv /\ OpenInv /\ GenInv
  BY DEF IInv
<1>1. /\ k \in 1 .. loans
      /\ tbl.state[s] = "ACTIVE" /\ tbl.gen[s] = issued[k].gen /\ s \in SlotIds
      /\ UNCHANGED <<loan, opens, loans, issued>>
  BY <1>0, SMTT(60) DEF Close, Closable, TypeOK, LeaseId, Loans
<1>2. /\ tbl'.gen = tbl.gen
      /\ tbl'.state = [tbl.state EXCEPT ![s] = "REVOKED"]
      /\ closer' = [closer EXCEPT ![loan[s]] = k]
  BY <1>0 DEF Close, aos_lease_close, TypeOK, Table
<1>3. /\ loan[s] \in 1 .. loans /\ loan[s] \in Loans /\ closer[loan[s]] = 0
      /\ issued[loan[s]].slot = s
  BY <1>1, ActiveSlot
<1>4. TypeOK'
  <2>1. tbl' \in Table
    BY <1>0, <1>1 DEF TypeOK, Table, Close, aos_lease_close
  <2> QED
    BY <2>1, <1>0, <1>1, <1>2, <1>3, LoansAssumption DEF TypeOK, Loans
<1>5. SlotInv'
  <2> SUFFICES ASSUME NEW j \in SlotIds
               PROVE  /\ tbl'.state[j] = "FREE" => opens[j] = 0
                      /\ tbl'.state[j] # "FREE" =>
                            /\ opens[j] > 0
                            /\ loan[j] \in 1 .. loans
                            /\ issued[loan[j]] = lease_make_id(tbl', j)
                      /\ tbl'.state[j] = "ACTIVE" => closer'[loan[j]] = 0
    BY <1>1 DEF SlotInv
  <2>1. tbl'.state[j] = (IF j = s THEN "REVOKED" ELSE tbl.state[j])
        /\ lease_make_id(tbl', j) = lease_make_id(tbl, j)
    BY <1>0, <1>1, <1>2 DEF TypeOK, Table, lease_make_id
  <2>2. ASSUME j # s, tbl.state[j] = "ACTIVE" PROVE closer'[loan[j]] = 0
    <3>1. issued[loan[j]].slot = j /\ closer[loan[j]] = 0
      BY <2>2, ActiveSlot
    <3> QED
      BY <3>1, <2>2, <1>0, <1>2, <1>3 DEF TypeOK
  <2> QED
    BY <2>1, <2>2, <1>0, <1>1 DEF SlotInv
<1>6. OpenInv'
  <2>1. ASSUME NEW j \in 1 .. loans, closer'[j] = 0
        PROVE  tbl'.state[issued[j].slot] = "ACTIVE" /\ loan[issued[j].slot] = j
    <3>1. j \in Loans /\ issued[j].slot \in SlotIds
      BY <1>0, LoansAssumption DEF TypeOK, Loans, LeaseId
    <3>2. j # loan[s] /\ closer[j] = 0
      BY <2>1, <3>1, <1>0, <1>1, <1>2, <1>3 DEF TypeOK, Loans
    <3>3. tbl.state[issued[j].slot] = "ACTIVE" /\ loan[issued[j].slot] = j
      BY <3>2, <1>0 DEF OpenInv
    <3> QED
      BY <3>1, <3>2, <3>3, <1>0, <1>2 DEF TypeOK, Table
  <2>2. ASSUME NEW j \in Loans, j > loans PROVE closer'[j] = 0
    BY <2>2, <1>0, <1>2, <1>3 DEF TypeOK, OpenInv, Loans
  <2> QED
    BY <2>1, <2>2, <1>1 DEF OpenInv
<1>7. GenInv'
  <2> SUFFICES ASSUME NoWrap
               PROVE  /\ \A j \in SlotIds :
                            tbl'.gen[j] = IF opens[j] = 0 THEN 0 ELSE opens[j] - 1
                      /\ \A j \in 1 .. loans :
                            /\ closer'[j] \in {0, j}
                            /\ tbl'.state[issued[j].slot] # "FREE"
                            /\ \/ loan[issued[j].slot] = j
                               \/ issued[j].gen < tbl'.gen[issued[j].slot]
    BY <1>1 DEF GenInv, NoWrap
  <2>1. loan[s] = k
    BY <1>0, <1>1, LeaseAssumption DEF GenInv, TypeOK, Table, Generations
  <2>2. ASSUME NEW j \in 1 .. loans
        PROVE  /\ j \in Loans
               /\ issued[j].slot \in SlotIds
               /\ closer[j] \in {0, j}
               /\ tbl.state[issued[j].slot] # "FREE"
    BY <1>0, LoansAssumption, SMTT(60) DEF TypeOK, Loans, LeaseId, GenInv
  <2> QED
    BY <2>1, <2>2, <1>0, <1>2, <1>3 DEF GenInv, TypeOK, Table
<1> QED
  BY <1>4, <1>5, <1>6, <1>7 DEF IInv

\* Opening and closing preserve the invariant.
LEMMA NextIInv == IInv /\ [Next]_vars => IInv'
<1> SUFFICES ASSUME IInv, [Next]_vars PROVE IInv'
  OBVIOUS
<1>1. CASE UNCHANGED vars
  BY <1>1 DEF vars, IInv, TypeOK, SlotInv, OpenInv, GenInv, NoWrap, lease_make_id
<1> QED
  BY <1>1, OpenIInv, CloseIInv DEF Next

\* The table never leaves its types, and in particular the masked generation
\* never leaves the width the lease id has for it.
THEOREM TypeCorrect == Spec => []TypeOK
<1>1. IInv => TypeOK
  BY DEF IInv
<1> QED
  BY InitIInv, NextIInv, <1>1, PTL DEF Spec

\* The ABA protection of the header: until a slot's generation counter has
\* wrapped, an id closes and finds only the lease it was issued for.
THEOREM StaleIdIsInertHolds == Spec => []StaleIdIsInert
<1>1. IInv => StaleIdIsInert
  <2> SUFFICES ASSUME IInv, NoWrap, NEW k \in 1 .. loans
               PROVE  /\ closer[k] \in {0, k}
                      /\ aos_lease_get(tbl, issued[k]) => loan[issued[k].slot] = k
    BY DEF StaleIdIsInert
  <2>1. tbl.gen[issued[k].slot] \in Nat
    BY LeaseAssumption, LoansAssumption DEF IInv, TypeOK, Table, LeaseId, Generations, Loans
  <2> QED
    BY <2>1 DEF IInv, GenInv, aos_lease_get
<1> QED
  BY InitIInv, NextIInv, <1>1, PTL DEF Spec

\* A lender can always close the lease it has open, even after a wrap.
THEOREM OpenIsClosableHolds == Spec => []OpenIsClosable
<1>1. IInv => OpenIsClosable
  <2> SUFFICES ASSUME IInv, NEW k \in 1 .. loans, closer[k] = 0
               PROVE  Closable(tbl, issued[k]) /\ loan[issued[k].slot] = k
    BY DEF OpenIsClosable
  <2>1. issued[k].slot \in SlotIds
    BY LoansAssumption DEF IInv, TypeOK, LeaseId, Loans
  <2>2. tbl.state[issued[k].slot] = "ACTIVE" /\ loan[issued[k].slot] = k
    BY DEF IInv, OpenInv
  <2> QED
    BY <2>1, <2>2, ActiveSlot DEF Closable
<1> QED
  BY InitIInv, NextIInv, <1>1, PTL DEF Spec
=============================================================================

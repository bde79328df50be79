---------------------------- MODULE MCInputPath -----------------------------
(* Batches over two keys: both pressed; one released and the other repeated. *)
EXTENDS InputPath

OneKey == {<<Press(1)>>}

TwoKeys == {<<Press(1), Press(2)>>, <<Release(1), [key |-> 2, value |-> 2]>>}

\* AfterAll takes the events one by one, as the code's loops do: it agrees with
\* the fold of After on every short run of key events and SYNs.
ASSUME AfterAllIsFold ==
    LET Events == [key : Keys, value : 0 .. 2] \cup {SYN}
    IN  \A down \in SUBSET Keys, n \in 0 .. 4 : \A s \in [1 .. n -> Events] :
            AfterAll(down, s) = FoldLeft(After, down, s)
=============================================================================

----------------------------- MODULE MCRecords -----------------------------
(* Model-checking instance of Records: ids and names are interchangeable;  *)
(* requests are not, as only one of them may meet a failure.                *)
EXTENDS Records, FiniteSets, TLC

CONSTANTS q1, q2, i1, i2, n1, n2, t1

MCRequest == {q1, q2}
MCFaulty == {q1}
MCId == {i1, i2}
MCName == {n1, n2}
MCText == {t1}

\* Todos meet only on one row, as their titles are not unique; the flag and the
\* name are enough to tell the rows of todos and users apart.
Bounds ==
    /\ kind = "todo" =>
          Cardinality({i \in Id : rows[i] # NoRow \/ \E q \in Request : ask[q].id = i}) <= 1
    /\ kind \in {"todo", "user"} => \A q \in Request : ask[q].text = None

Symmetry == Permutations(MCId) \cup Permutations(MCName)
=============================================================================

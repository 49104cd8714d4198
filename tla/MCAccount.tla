----------------------------- MODULE MCAccount -----------------------------
(* Model-checking instances of Account.                                    *)
EXTENDS Account, TLC

CONSTANTS q1, q2, c1, c2, noCode

OneRequest == {q1}
TwoRequests == {q1, q2}
Codes1 == {c1}
Codes2 == {c1, c2}

\* Codes and request slots are interchangeable.
AccountSymmetry == Permutations(Request) \cup Permutations(Code)
=============================================================================

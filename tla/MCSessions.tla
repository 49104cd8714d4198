----------------------------- MODULE MCSessions -----------------------------
(* The model-checking instance of Sessions.                                *)
EXTENDS Sessions, TLC

CONSTANTS u1, t1, t2, t3, q1, q2, noUser, noToken

Users1 == {u1}
Tokens3 == {t1, t2, t3}
Requests2 == {q1, q2}

\* Tokens and request slots are interchangeable.
SessionSymmetry == Permutations(Token) \cup Permutations(Request)

\* Bounds the run: once the last token is out the account is open, nobody is
\* rewriting its row and no token has expired.
Bounds ==
    Issued = Token =>
        /\ \A u \in User : MayHoldSession(row[u])
        /\ \A q \in Request : pc[q] \notin {"touch_write", "verify_write"}
        /\ expired = {}
=============================================================================

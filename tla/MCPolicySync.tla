---------------------------- MODULE MCPolicySync ----------------------------
(* Model-checking instances of PolicySync.                                 *)
EXTENDS PolicySync, TLC

CONSTANTS u1, u2, r1, r2, p1, p2, x1, x2, i1, i2, q1, q2

OneUser == {u1}
TwoUsers == {u1, u2}
OneRole == {r1}
TwoRoles == {r1, r2}
OnePerm == {p1}
TwoPerms == {p1, p2}
OneRight == {x1}
TwoRights == {x1, x2}
OneInstance == {i1}
TwoInstances == {i1, i2}
OneRequest == {q1}
TwoRequests == {q1, q2}

\* Every slot on the one instance, or one slot on each of two.
Together == [q \in Request |-> i1]
Apart == (q1 :> i1 @@ q2 :> i2)

\* Slots are interchangeable only where they belong to one instance.
Catalogue ==
    Permutations(User) \cup Permutations(Role) \cup Permutations(Perm)
        \cup Permutations(Right)
CatalogueAndSlots == Catalogue \cup Permutations(Request)
=============================================================================

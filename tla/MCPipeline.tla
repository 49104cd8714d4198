----------------------------- MODULE MCPipeline -----------------------------
(* The model-checking instance of Pipeline.                                *)
EXTENDS Pipeline, TLC

CONSTANTS q1, q2, u1, t1, a1, noUser, noToken, noTenant

Requests2 == {q1, q2}
Users1 == {u1}
Tokens1 == {t1}
Tenants1 == {a1}

\* Request slots are interchangeable.
PipelineSymmetry == Permutations(Request)
=============================================================================

----------------------------- MODULE MCPipeline -----------------------------
(* The pipeline on small instances: f1 (and f3, when it is there) can be   *)
(* verified dynamically, f2 cannot.                                        *)
EXTENDS PipelineSequence, TLC

CONSTANT f2

MCTriage == [f \in Finding |-> IF f = f2 THEN "STATIC_ONLY" ELSE "DYNAMICALLY_VERIFIABLE"]

MCSymmetry == Permutations(Proc) \union Permutations(Scan) \union Permutations(Finding \ {f2})
=============================================================================

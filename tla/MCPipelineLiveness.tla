-------------------------- MODULE MCPipelineLiveness --------------------------
EXTENDS PipelineLiveness

CONSTANT f2

MCTriage == [f \in Finding |-> IF f = f2 THEN "STATIC_ONLY" ELSE "DYNAMICALLY_VERIFIABLE"]
=============================================================================

----------------------------- MODULE MCSandbox -----------------------------
(* A SAST run and a legacy run on one Docker host *)
EXTENDS SandboxInvariant

CONSTANTS sast, legacy, web, cache

MCServices == [r \in Run |-> IF r = sast THEN <<web, cache>> ELSE <<web>>]

=============================================================================

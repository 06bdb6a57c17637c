--------------------------- MODULE MCCrossService ---------------------------
(* Small instances of CrossService for TLC. *)
EXTENDS CrossService

CONSTANTS a1, a2

MCAddrs == {a1, a2}

(* Two failures, one unit of stale window. *)
MCPolicyMark == [failureThreshold |-> 2, staleThreshold |-> 1, onStale |-> ""]

MCPolicyRemove == [failureThreshold |-> 2, staleThreshold |-> 0, onStale |-> "Remove"]

(* A ready endpoint, another one with a draining companion, and nothing. *)
MCAnswers == {[a \in {a1} |-> "ready"],
              [a \in {a1, a2} |-> IF a = a1 THEN "draining" ELSE "ready"],
              NoEndpoints}
=============================================================================

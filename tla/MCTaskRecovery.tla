--------------------------- MODULE MCTaskRecovery ---------------------------
(* A task of a known workflow and one of a workflow nobody has registered. *)
EXTENDS TaskRecovery, TLC

CONSTANTS known, gone, a, u, r1, r2

MCPipelineOf == [t \in Tasks |-> IF t = u THEN gone ELSE known]
MCKnown      == [r \in Processes |-> {known}]
TwoAttempts  == [t \in Tasks |-> IF t = a THEN 2 ELSE 1]
=============================================================================

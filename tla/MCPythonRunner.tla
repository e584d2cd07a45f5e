--------------------------- MODULE MCPythonRunner ---------------------------
(***************************************************************************)
(* A call whose task calls the runner again, and two shutdowns: the two    *)
(* need each other's progress, and can be stopped at any point of it.      *)
(***************************************************************************)
EXTENDS PythonRunner, TLC

CONSTANTS outer, inner

MCNested == outer :> inner
MCConstructors == {"new", "with_config", "with_schema"}
=============================================================================

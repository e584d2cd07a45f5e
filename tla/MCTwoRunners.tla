---------------------------- MODULE MCTwoRunners ----------------------------
(* A pipeline of two tasks in sequence, for two runners. *)
EXTENDS TwoRunners, TLC

CONSTANTS flow, a, b

MCPipelineOf == [t \in Tasks |-> flow]
MCDeps       == (a :> {}) @@ (b :> {a})
MCRule       == [t \in Tasks |-> [kind |-> "Always", conditions |-> {}]]
MCNameOf     == [t \in Tasks |-> <<<<t>>>>]
OneExecutor  == [default_executor |-> "default", rules |-> <<>>]
OneAttempt   == [t \in Tasks |-> 1]
=============================================================================

-------------------------- MODULE MCTaskScheduler --------------------------
(***************************************************************************)
(* Instances of TaskScheduler for TLC.  "main" is a diamond whose branches *)
(* are one that runs either way and a fallback; "side" is a two-step       *)
(* workflow whose second step asks for a key of the first one's context.   *)
(* A configuration takes the tasks it wants.                               *)
(***************************************************************************)
EXTENDS TaskScheduler, TLC

CONSTANTS main, side, a, b, c, d, e, f

MCPipelineOf == [t \in Tasks |-> IF t \in {e, f} THEN side ELSE main]

MCDeps ==
  LET diamond == (a :> {}) @@ (b :> {a}) @@ (c :> {a}) @@ (d :> {b, c})
      chain   == (e :> {}) @@ (f :> {e})
  IN  [t \in Tasks |-> (diamond @@ chain)[t] \cap Tasks]

Is(test, of)      == [test |-> test, of |-> of]
Rules(kind, cond) == [kind |-> kind, conditions |-> {x \in cond : x.of \in Tasks}]

MCRule ==
  LET all == (a :> Rules("Always", {}))
               @@ (b :> Rules("Any", {Is("TaskFailed", a), Is("ContextValue", a)}))
               @@ (c :> Rules("All", {Is("TaskFailed", a)}))
               @@ (d :> Rules("None", {Is("TaskFailed", b), Is("TaskSkipped", c)}))
               @@ (e :> Rules("Always", {}))
               @@ (f :> Rules("All", {Is("TaskSuccess", e), Is("ContextValue", e)}))
  IN  [t \in Tasks |-> all[t]]

\* The full names of the tasks, two letters to a segment at most.
Letters == {"p", "e", "m", "s", "x", "y"}
MCNameOf ==
  LET local == (a :> <<"x">>) @@ (b :> <<"x", "y">>) @@ (c :> <<"y", "x">>)
                 @@ (d :> <<"y">>) @@ (e :> <<"x">>) @@ (f :> <<"y">>)
      flow(t) == IF PipelineOf[t] = side THEN <<"s", "x">> ELSE <<"m", "x">>
  IN  [t \in Tasks |-> <<<<"p">>, <<"e">>, flow(t), local[t]>>]

\* Every task to the one executor; or rules "**::s*::*", "*::*::*x::x*" and
\* "p::**::*y" for a runner that has "default" and no other executor.  Each
\* rule would take a task that is another rule's, were it tried first.
OneExecutor == RoutingConfig("default", <<>>)
MCRouting ==
  RoutingConfig("default",
    <<RoutingRule(<<DoubleStar, <<<<"s">>, <<>>>>, Star>>, "gpu"),
      RoutingRule(<<Star, Star, <<<<>>, <<"x">>>>, <<<<"x">>, <<>>>>>>, "default"),
      RoutingRule(<<Literal(<<"p">>), DoubleStar, <<<<>>, <<"y">>>>>>, "gpu")>>)

OneAttempt  == [t \in Tasks |-> 1]
TwoAttempts == [t \in Tasks |-> 2]
=============================================================================

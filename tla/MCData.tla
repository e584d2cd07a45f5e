------------------------------- MODULE MCData -------------------------------
(***************************************************************************)
(* What tasks leave in the database.  The contexts of a pipeline and the   *)
(* schemas of the tenants share no state here, so a behaviour is about one *)
(* of the two and leaves the variables of the other alone.                 *)
(*                                                                         *)
(* Contexts: a diamond of four tasks, one of them in Python, one packaged; *)
(* the two in the middle can save, under one key, an atom, an array, or    *)
(* objects with the same field or with different ones.  Tenants: two, with *)
(* a runner each, and a runner without a schema.                           *)
(***************************************************************************)
EXTENDS DataFlow, Tenants, TLC

CONSTANTS a, b, c, d, x, y, f, g
CONSTANTS acme, globex, acme1, globex1, shared1

VARIABLE part  \* what this behaviour is about

MCDepends == a :> <<>> @@ b :> <<a>> @@ c :> <<a>> @@ d :> <<b, c>>
MCKind == a :> "python" @@ b :> "packaged" @@ c :> "native" @@ d :> "native"
MCRule == a :> {} @@ b :> {} @@ c :> {} @@ d :> {x}

MCPolicy ==
    a :> GeneratedPolicy(1, "all")
    @@ b :> DefaultPolicy
    @@ c :> GeneratedPolicy(2, "transient")
    @@ d :> [max_attempts |-> 3, conditions |-> {"Never", "ErrorPattern"}]

Op(call, key, shape) == [call |-> call, key |-> key, shape |-> shape, field |-> f]
Body(ops, returns) == [ops |-> ops, returns |-> returns]

Nothing == Body(<<>>, TRUE)
InsertAtom == Op("insert", x, "atom")
InsertArray == Op("insert", x, "array")
InsertF == Op("insert", x, "object")
InsertG == [InsertF EXCEPT !.field = g]
RemoveX == Op("remove", x, "atom")

MCBodies ==
    a :> {Nothing, Body(<<InsertAtom>>, TRUE), Body(<<InsertF>>, TRUE),
          Body(<<Op("set", x, "array")>>, FALSE)}
    @@ b :> {Nothing, Body(<<InsertArray>>, TRUE), Body(<<Op("update", x, "atom")>>, TRUE),
             Body(<<RemoveX, InsertG>>, TRUE)}
    @@ c :> {Nothing, Body(<<InsertArray>>, TRUE), Body(<<InsertF>>, TRUE),
             Body(<<RemoveX>>, TRUE), Body(<<RemoveX, InsertG>>, TRUE),
             Body(<<Op("insert", y, "atom")>>, TRUE)}
    @@ d :> {Nothing, Body(<<RemoveX>>, TRUE)}

MCInputs == {Empty, x :> Atom(Caller), y :> Array(Caller)}

MCHome == acme1 :> acme @@ globex1 :> globex @@ shared1 :> Public

EveryInit ==
    /\ part \in {"contexts", "tenants"}
    /\ Init
    /\ TenantsInit
    /\ part = "tenants" => initial = Empty /\ \A t \in Task : body[t] = Nothing

EveryNext ==
    /\ UNCHANGED part
    /\ \/ part = "contexts" /\ Next /\ UNCHANGED tenantsVars
       \/ part = "tenants" /\ TenantsNext /\ UNCHANGED vars

EverySpec == EveryInit /\ [][EveryNext]_<<part, vars, tenantsVars>>
=============================================================================

-------------------------- MODULE MCPackageLoading --------------------------
EXTENDS PackageLoading, TLC

CONSTANTS a, b, c

\* A pair in order, the same with another task in the second place, one with a
\* dependency that lives elsewhere, and a circle that never compiles.
MCSources ==
    { (a :> {} @@ b :> {a}), (a :> {} @@ c :> {a}),
      (a :> {} @@ b :> {c}), (a :> {b} @@ b :> {a}) }

Old == [Sound("so") EXCEPT !.exports = Made \ {"get_task_metadata"}]

\* A library without the function the registrar calls, alone and behind that
\* of another platform.
MCForeign == { <<Old>>, <<Sound("dll"), Old>> }
=============================================================================

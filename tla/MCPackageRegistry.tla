-------------------------- MODULE MCPackageRegistry --------------------------
(* Two packages, one of them broken; two clients in the process of the reconciler. *)
EXTENDS PackageRegistry

CONSTANTS good, bad, r1, c1, c2

OwnWorkflow == [n \in Names |-> n]
OneHome     == [c \in Clients |-> r1]
=============================================================================

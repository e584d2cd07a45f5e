-------------------------- MODULE MCCronScheduling --------------------------
(***************************************************************************)
(* Instances of CronScheduling for TLC: a schedule with each policy, an    *)
(* expression that fires at every time but the first and the last, and one *)
(* that fires at every other time.                                         *)
(***************************************************************************)
EXTENDS CronScheduling, TLC

CONSTANTS skip, all, often, rarely, r1, r2

MCPolicy == (skip :> "Skip" @@ all :> "RunAll")
OnlySkip == (skip :> "Skip")
OnlyAll  == (all :> "RunAll")

FireOften  == (often :> 2 .. MaxTime - 1)
FireRarely == (rarely :> {k \in 2 .. MaxTime - 1 : k % 2 = 0})

RunnerSymmetry == Permutations(Runners)
=============================================================================

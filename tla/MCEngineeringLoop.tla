-------------------------- MODULE MCEngineeringLoop --------------------------
(* One loop with one or two consumers of its facts and one user. *)
EXTENDS EngineeringLoop, TLC

CONSTANTS p1, p2, u1

\* The consumers are alike.
ConsumerSymmetry == Permutations({p1, p2})
=============================================================================

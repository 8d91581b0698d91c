--------------------------- MODULE MCStandingPool ---------------------------
(***************************************************************************)
(* A standing Pool on small instances.                                     *)
(***************************************************************************)
EXTENDS StandingPool, TLC

\* Resumes are interchangeable.
AnyResumer == Permutations(Resumers)

=============================================================================

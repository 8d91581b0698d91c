--------------------------- MODULE MCCommandEffect ---------------------------
(* Small instances of CommandEffect: one plain command and one cut. *)
EXTENDS CommandEffect, TLC

CONSTANTS tests, cut

\* The Machine invokes one of the two: Effects share nothing but the Harness.
OneInvoked == Cardinality({e \in Ids : mem[e].child # "idle"}) <= 1
=============================================================================

------------------------- MODULE MCSandboxOperator -------------------------
(***************************************************************************)
(* TLC instances of SandboxOperator.                                       *)
(***************************************************************************)
EXTENDS SandboxOperator

\* One thing goes wrong in a behaviour: a lapse, a delete by hand, or a reconcile cut short.
OneFault == removals + lapses + stops <= 1

\* The operator keeps up with a Sandbox that goes: no reconcile of it is under way, and the
\* Pod cache is current.
CaughtUp == ~There => op = Idle /\ podCache = pod
=============================================================================

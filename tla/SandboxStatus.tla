---------------------------- MODULE SandboxStatus ----------------------------
(***************************************************************************)
(* What the cluster promises about the Sandbox resource of one name, as    *)
(* the Orchestrator reads it: whether there is one (its uid), whether it   *)
(* is being deleted, whether its keepalive stamp has outlived              *)
(* spec.idleTimeout, its status.phase and its Scheduled condition.  The    *)
(* operator (SandboxOperator) is shown to implement this; the Workspace    *)
(* (Workspace) is built on it.                                             *)
(***************************************************************************)
EXTENDS Naturals

VARIABLES
  cr,     \* the Sandbox under the name, or NoCr
  born    \* how many Sandboxes the name has had: the last uid given

Phases == {"", "Pending", "Ready", "Terminating", "Lost"}

\* No Sandbox has the name.  Uid 0 is nobody's.
NoCr == [uid |-> 0, deleting |-> FALSE, lapsed |-> FALSE, phase |-> "", scheduled |-> FALSE]

There == cr.uid # 0

StatusInit == cr = NoCr /\ born = 0

\* A server-side apply under a free name is a create: a new uid, no status.
Created == [NoCr EXCEPT !.uid = born + 1]

Create == ~There /\ cr' = Created /\ born' = born + 1

\* A foreground delete leaves the Sandbox until its pod is gone.
DeleteForeground == There /\ cr' = [cr EXCEPT !.deleting = TRUE] /\ UNCHANGED born

\* The end of a foreground delete, or a background one: the idle GC's, `jr2 workspace rm`'s,
\* a delete by hand.
Gone == There /\ cr' = NoCr /\ UNCHANGED born

\* The idle timeout runs out on the stamp; a renewal writes a new one.
Lapse == There /\ ~cr.lapsed /\ cr' = [cr EXCEPT !.lapsed = TRUE] /\ UNCHANGED born

Stamp == There /\ cr' = [cr EXCEPT !.lapsed = FALSE] /\ UNCHANGED born

\* The operator's writes.  Of a Sandbox that is not Lost it reports the pod's progress, in
\* either direction; the loss of its one pod is the last word on it, until it goes.
Report(phase, scheduled) ==
  /\ There /\ cr.phase # "Lost"
  /\ phase \in {"Pending", "Ready"}
  /\ cr' = [cr EXCEPT !.phase = phase, !.scheduled = scheduled]
  /\ UNCHANGED born

Lose == There /\ cr' = [cr EXCEPT !.phase = "Lost"] /\ UNCHANGED born

SayTerminating == There /\ cr.deleting /\ cr' = [cr EXCEPT !.phase = "Terminating"] /\ UNCHANGED born

StatusNext ==
  \/ Create \/ DeleteForeground \/ Gone \/ Lapse \/ Stamp
  \/ \E phase \in {"Pending", "Ready"}, scheduled \in BOOLEAN : Report(phase, scheduled)
  \/ Lose \/ SayTerminating

\* A delete that was asked for ends, and a lapsed Sandbox goes unless it is stamped again.
DeletesEnd == cr.deleting ~> ~cr.deleting
IdleGoes   == cr.lapsed ~> ~cr.lapsed

StatusSafety == StatusInit /\ [][StatusNext]_<<cr, born>>
StatusSpec   == StatusSafety /\ DeletesEnd /\ IdleGoes
=============================================================================

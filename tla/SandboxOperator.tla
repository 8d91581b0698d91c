--------------------------- MODULE SandboxOperator ---------------------------
(***************************************************************************)
(* The operator's Sandbox controller, for the Sandbox and the Pod of one   *)
(* name.  It reads through two informer caches that lag the API server,    *)
(* each on its own, and it writes the API server: every write is one step, *)
(* and the operator may stop between two.  A status Update carries the     *)
(* resourceVersion of the copy it was computed from, so it lands only on   *)
(* that copy; the Patch that records the Pod and the idle GC's Delete      *)
(* carry none.                                                             *)
(*                                                                         *)
(* A cache here is either as it was or as the API server is; the versions  *)
(* in between are those it holds when it catches up sooner.                *)
(***************************************************************************)
EXTENDS Naturals, Sequences

CONSTANTS
  MaxSandboxes,   \* bound: Sandboxes created under the name
  MaxRemovals,    \* bound: Sandboxes deleted by hand, in the background
  MaxLapses,      \* bound: times a stamp outlives the idle timeout
  MaxStops        \* bound: reconciles cut short, by an error or a restart

ASSUME BoundsAssumption ==
  MaxSandboxes \in Nat /\ MaxRemovals \in Nat /\ MaxLapses \in Nat /\ MaxStops \in Nat

VARIABLES
  cr, born,       \* the Sandbox, and the last uid given
  pod,            \* the Pod under the name
  made,           \* for each Pod the operator created, the uid of the Sandbox it made it for
  crCache, podCache,
  op,             \* the reconcile under way
  heirs,          \* Sandboxes created before all trace of the one before was gone
  removals, lapses, stops

vars == <<cr, born, pod, made, crCache, podCache, op, heirs, removals, lapses, stops>>
cluster == <<cr, born, pod, made, heirs>>

NoCr == [uid |-> 0, deleting |-> FALSE, lapsed |-> FALSE, phase |-> "", scheduled |-> FALSE,
         podUID |-> 0, fresh |-> FALSE]
NoPod == [uid |-> 0, owner |-> 0, deleting |-> FALSE, state |-> "none"]
Idle == [step |-> "idle", sandbox |-> NoCr, to |-> NoCr]

There == cr.uid # 0
HasPod == pod.uid # 0

Init ==
  /\ cr = NoCr /\ born = 0 /\ pod = NoPod /\ made = <<>>
  /\ crCache = NoCr /\ podCache = NoPod /\ op = Idle
  /\ heirs = {} /\ removals = 0 /\ lapses = 0 /\ stops = 0

-----------------------------------------------------------------------------
(* The reconcile's pure parts.                                             *)

\* A loss judged on the Pods recorded alone: a Pod that ends in place is not one.
EndedIsAlive(sandbox, p) ==
  IF p.uid = 0 THEN sandbox.podUID # 0 ELSE sandbox.podUID # 0 /\ p.uid # sandbox.podUID

\* podLost: whether a Sandbox with this status has lost its one Pod, given the Pod
\* under its name.
podLost(sandbox, p) ==
  IF p.uid = 0 THEN sandbox.podUID # 0
  ELSE \/ sandbox.podUID # 0 /\ p.uid # sandbox.podUID
       \/ p.deleting
       \/ p.state = "ended"

\* reposAdmitted: the Repo gate already passed for this Pod.
reposAdmitted(sandbox, p) == sandbox.podUID = p.uid /\ sandbox.fresh

\* markLost, reconcileRefused and reconcileStatus: the status each of them writes, of a Sandbox
\* that names Repos.
markLost(sandbox) == [sandbox EXCEPT !.phase = "Lost"]

reconcileRefused(sandbox) == [sandbox EXCEPT !.phase = "Pending", !.scheduled = FALSE]

reconcileStatus(sandbox, p, reposReady) ==
  LET admitted == reposAdmitted(sandbox, p)
      ready    == p.state = "ready" /\ (admitted \/ reposReady)
  IN [sandbox EXCEPT !.phase = IF ready THEN "Ready" ELSE "Pending",
                     !.scheduled = p.state # "pending",
                     !.podUID = p.uid,
                     !.fresh = admitted \/ ready]

\* What the reconcile goes on to write once it has a Pod: the loss, or the Pod's facts.
Verdicts(judged, sandbox, p) ==
  IF podLost(judged, p) THEN {markLost(sandbox)}
  ELSE {reconcileStatus(sandbox, p, reposReady) : reposReady \in BOOLEAN}

-----------------------------------------------------------------------------
(* The reconcile's steps, one call of the API server each.                 *)

\* A write with no check of the resource version.
LastWriteWins(sandbox, to) ==
  /\ cr' = IF There THEN [cr EXCEPT !.phase = to.phase, !.scheduled = to.scheduled,
                                    !.podUID = to.podUID, !.fresh = to.fresh] ELSE cr
  /\ UNCHANGED <<born, pod, made, heirs>>

\* Status().Update: a conflict with any write since the copy was read ends the reconcile,
\* which is then retried.
Update(sandbox, to) ==
  /\ cr' = IF cr = sandbox THEN to ELSE cr
  /\ UNCHANGED <<born, pod, made, heirs>>

Goto(step, sandbox, to) == op' = [step |-> step, sandbox |-> sandbox, to |-> to]

\* A Sandbox being deleted is reported Terminating.
ReportTerminating ==
  /\ crCache.deleting /\ crCache.phase # "Terminating"
  /\ Update(crCache, [crCache EXCEPT !.phase = "Terminating"])
  /\ UNCHANGED op

\* reconcileIdleTimeout: judged on the cached stamp, deleted by name, in the background.
reconcileIdleTimeout ==
  /\ ~crCache.deleting /\ crCache.lapsed
  /\ There /\ ~cr.deleting
  /\ cr' = NoCr
  /\ UNCHANGED <<born, pod, made, heirs, op>>

\* The rest of the reconcile runs for a Sandbox that stays and that its copy does not call Lost.
Kept == crCache.uid # 0 /\ ~crCache.deleting /\ ~crCache.lapsed /\ crCache.phase # "Lost"

\* The Pod is in the cache: its loss or its facts are written.
PodCached ==
  /\ Kept /\ podCache.uid # 0
  /\ \E to \in Verdicts(crCache, crCache, podCache) : Update(crCache, to)
  /\ UNCHANGED op

\* Two ways to get the next step wrong: a Pod missing from the cache taken for a loss, and
\* the cached Sandbox taken for the fresh one.
CacheIsTruth ==
  /\ Kept /\ podCache.uid = 0
  /\ IF crCache.podUID # 0 THEN Update(crCache, markLost(crCache)) /\ UNCHANGED op
     ELSE Goto("create", crCache, NoCr) /\ UNCHANGED cluster
CreateOnMiss ==
  /\ Kept /\ podCache.uid = 0 /\ crCache.podUID = 0
  /\ Goto("create", crCache, NoCr) /\ UNCHANGED cluster

\* It is not: the Sandbox is read from the API server.  Lost already, it is left as it is;
\* with a Pod recorded, that Pod is read too; with none, it is created.
PodNotCached ==
  /\ Kept /\ podCache.uid = 0
  /\ There /\ cr.phase # "Lost"
  /\ IF cr.podUID # 0 THEN Goto("live", crCache, cr) ELSE Goto("create", crCache, NoCr)
  /\ UNCHANGED cluster

\* The recorded Pod, from the API server.  A Pod that is gone is a loss of the fresh copy.
ReadLive ==
  /\ op.step = "live"
  /\ IF HasPod
       THEN \E to \in Verdicts(op.to, op.sandbox, pod) : Goto("write", op.sandbox, to)
       ELSE Goto("write", op.to, markLost(op.to))
  /\ UNCHANGED cluster

\* The Pod is created, owned by the Sandbox of the cached copy.
CreatePod ==
  /\ op.step = "create" /\ ~HasPod
  /\ made' = Append(made, op.sandbox.uid)
  /\ pod' = [uid |-> Len(made) + 1, owner |-> op.sandbox.uid, deleting |-> FALSE, state |-> "pending"]
  /\ Goto("record", op.sandbox, NoCr)
  /\ UNCHANGED <<cr, born, heirs>>

\* AlreadyExists: a Pod has the name, and is read and judged.
PodExists ==
  /\ op.step = "create" /\ HasPod
  /\ \E to \in Verdicts(op.sandbox, op.sandbox, pod) : Goto("write", op.sandbox, to)
  /\ UNCHANGED cluster

\* A ResourceQuota refused the create.
CreateRefused ==
  /\ op.step = "create" /\ ~HasPod
  /\ Update(op.sandbox, reconcileRefused(op.sandbox))
  /\ op' = Idle

\* The Pod is recorded at once: a merge patch of status.podUID on whatever Sandbox has the
\* name, whose answer is the copy the reconcile goes on with.
RecordPod ==
  /\ op.step = "record"
  /\ IF There
       THEN LET patched == [cr EXCEPT !.podUID = Len(made)]
            IN /\ cr' = patched
               /\ \E reposReady \in BOOLEAN :
                    Goto("write", patched,
                         reconcileStatus(patched, [NoPod EXCEPT !.uid = Len(made), !.state = "pending"], reposReady))
       ELSE op' = Idle /\ UNCHANGED cr
  /\ UNCHANGED <<born, pod, made, heirs>>

WriteStatus == op.step = "write" /\ Update(op.sandbox, op.to) /\ op' = Idle

Reconcile ==
  /\ \/ op.step = "idle" /\ (ReportTerminating \/ reconcileIdleTimeout \/ PodCached \/ PodNotCached)
     \/ ReadLive \/ CreatePod \/ PodExists \/ CreateRefused \/ RecordPod \/ WriteStatus
  /\ UNCHANGED <<crCache, podCache, removals, lapses, stops>>

\* An error or a restart ends the reconcile where it is.
Stop ==
  /\ op # Idle /\ stops < MaxStops
  /\ op' = Idle /\ stops' = stops + 1
  /\ UNCHANGED <<cluster, crCache, podCache, removals, lapses>>

-----------------------------------------------------------------------------
(* The cluster: the Orchestrator's writes, time, the scheduler, the kubelet *)
(* and the garbage collector.  External to the operator.                    *)

\* All trace of an earlier Sandbox of the name is gone: its Pod, and what the operator
\* holds of either.
Forgotten == ~HasPod /\ crCache = NoCr /\ podCache = NoPod /\ op = Idle

Apply ==
  /\ ~There /\ born < MaxSandboxes
  /\ cr' = [NoCr EXCEPT !.uid = born + 1]
  /\ born' = born + 1
  /\ heirs' = IF Forgotten THEN heirs ELSE heirs \cup {born + 1}
  /\ UNCHANGED <<pod, made, removals, lapses>>

\* `destroy`: a foreground delete.
Destroy ==
  /\ There /\ ~cr.deleting
  /\ cr' = [cr EXCEPT !.deleting = TRUE]
  /\ UNCHANGED <<born, pod, made, heirs, removals, lapses>>

\* A delete by hand, or by `jr2 workspace rm`: in the background.
RemoveByHand ==
  /\ There /\ ~cr.deleting /\ removals < MaxRemovals
  /\ cr' = NoCr /\ removals' = removals + 1
  /\ UNCHANGED <<born, pod, made, heirs, lapses>>

\* Time passes the idle timeout; a renewal stamps the Sandbox again.
Lapse ==
  /\ There /\ ~cr.lapsed /\ lapses < MaxLapses
  /\ cr' = [cr EXCEPT !.lapsed = TRUE] /\ lapses' = lapses + 1
  /\ UNCHANGED <<born, pod, made, heirs, removals>>

Renew ==
  /\ cr.lapsed /\ cr' = [cr EXCEPT !.lapsed = FALSE]
  /\ UNCHANGED <<born, pod, made, heirs, removals, lapses>>

\* The Pod's life: scheduled, ready, ended in place (evicted, its node shut down).
PodMoves ==
  /\ HasPod
  /\ \E to \in CASE pod.state = "pending"   -> {"scheduled"}
               [] pod.state = "scheduled" -> {"ready", "ended"}
               [] pod.state = "ready"     -> {"ended"}
               [] OTHER                   -> {} :
       pod' = [pod EXCEPT !.state = to]
  /\ UNCHANGED <<cr, born, made, heirs, removals, lapses>>

\* A delete of the Pod: by hand, by the taint manager, by pod GC.
DeletePod ==
  /\ HasPod /\ ~pod.deleting /\ pod' = [pod EXCEPT !.deleting = TRUE]
  /\ UNCHANGED <<cr, born, made, heirs, removals, lapses>>

\* The garbage collector deletes a Pod whose owner is gone or is being deleted in the
\* foreground, and ends that delete once no Pod of the Sandbox is left.
CollectPod ==
  /\ HasPod /\ ~pod.deleting /\ (cr.uid # pod.owner \/ cr.deleting)
  /\ pod' = [pod EXCEPT !.deleting = TRUE]
  /\ UNCHANGED <<cr, born, made, heirs, removals, lapses>>

PodGone ==
  /\ pod.deleting /\ pod' = NoPod
  /\ UNCHANGED <<cr, born, made, heirs, removals, lapses>>

CollectSandbox ==
  /\ cr.deleting /\ pod.owner # cr.uid /\ cr' = NoCr
  /\ UNCHANGED <<born, pod, made, heirs, removals, lapses>>

Cluster ==
  /\ \/ Apply \/ Destroy \/ RemoveByHand \/ Lapse \/ Renew
     \/ PodMoves \/ DeletePod \/ CollectPod \/ PodGone \/ CollectSandbox
  /\ UNCHANGED <<crCache, podCache, op, stops>>

SyncSandbox ==
  /\ crCache # cr /\ crCache' = cr
  /\ UNCHANGED <<cluster, podCache, op, removals, lapses, stops>>

SyncPod ==
  /\ podCache # pod /\ podCache' = pod
  /\ UNCHANGED <<cluster, crCache, op, removals, lapses, stops>>

Next == Reconcile \/ Stop \/ Cluster \/ SyncSandbox \/ SyncPod

Spec == Init /\ [][Next]_vars

\* The informers catch up, a queued reconcile runs, a Pod being deleted goes, and the garbage
\* collector does its work.
Fairness ==
  /\ WF_vars(SyncSandbox \/ SyncPod) /\ WF_vars(Reconcile)
  /\ WF_vars((CollectPod \/ PodGone \/ CollectSandbox) /\ UNCHANGED <<crCache, podCache, op, stops>>)

FairSpec == Spec /\ Fairness
-----------------------------------------------------------------------------
(* Properties.                                                             *)

\* One record per field of the Sandbox and of the Pod, as the API server holds them, and a
\* reconcile at one of its calls.
TypeOK ==
  /\ cr.uid \in 0..born /\ cr.podUID \in 0..Len(made)
  /\ cr.phase \in {"", "Pending", "Ready", "Terminating", "Lost"}
  /\ pod.uid \in 0..Len(made) /\ pod.state \in {"none", "pending", "scheduled", "ready", "ended"}
  /\ op.step \in {"idle", "live", "create", "record", "write"}
  /\ heirs \subseteq 1..born

\* The Pods made for the Sandbox there is now.
Mine == {p \in DOMAIN made : made[p] = cr.uid}

\* A Sandbox has one Pod for its life (reconcilePod): no Pod is made for a Sandbox that has
\* one recorded or is Lost, whatever the caches showed and wherever the operator stopped.
OnePod ==
  [][made' # made /\ made'[Len(made')] = cr.uid => cr.podUID = 0 /\ cr.phase # "Lost"]_vars

\* The Pod a Sandbox has recorded (status.podUID) is set once and never changed.
PodUIDOnce == [][cr.podUID # 0 /\ cr'.uid = cr.uid => cr'.podUID = cr.podUID]_vars

\* A Sandbox is Lost for a loss of its own (podLost): it had a Pod, and its one Pod is not
\* still alive.  For a Sandbox created once every trace of the one before was gone; a second
\* Pod is one made because a reconcile ended before it recorded the first.
LostIsMine ==
  cr.phase = "Lost" /\ cr.uid \notin heirs =>
    /\ Mine # {}
    /\ Mine = {pod.uid} => pod.deleting \/ pod.state = "ended"

\* The same of every Sandbox, one that takes a name just freed included: the new Sandbox does
\* not find the old pod on its way out, and read Lost.
NewNotLostForOld == cr.phase = "Lost" => Mine # {}

\* What the Orchestrator may rely on: the phases of one Sandbox move as SandboxStatus says
\* (Lost is terminal), a delete ends, and a lapsed Sandbox goes.
Promise == INSTANCE SandboxStatus WITH
  cr <- [uid |-> cr.uid, deleting |-> cr.deleting, lapsed |-> cr.lapsed,
         phase |-> cr.phase, scheduled |-> cr.scheduled]

KeepsPromise == Promise!StatusSpec

\* A Sandbox whose recorded Pod is gone, going or over is reported Lost, or goes itself: a
\* verdict lost to a conflict, a stop or a lagging cache comes again (podLost, markLost).
LossReported ==
  (There /\ cr.podUID # 0 /\ (pod.uid # cr.podUID \/ pod.deleting \/ pod.state = "ended"))
    ~> (~There \/ cr.deleting \/ cr.phase = "Lost")
=============================================================================

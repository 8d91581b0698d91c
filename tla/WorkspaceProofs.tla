--------------------------- MODULE WorkspaceProofs ---------------------------
(***************************************************************************)
(* For every number of invocations and faults: what a Workspace says of    *)
(* its Sandbox, what the run's own deletes spare, and what is left marked. *)
(*                                                                         *)
(* Each is an argument about something that lags.  Tracked says how far    *)
(* behind the cluster the watch of a Workspace that did not apply over a   *)
(* stale watch can be: level with it, or short of the one Sandbox it made  *)
(* and has not heard of (hence NoFalseLoss).  Crossed says of the deletes  *)
(* under way that a Workspace was invoked after them (hence SparesHeld).   *)
(* Marking says who will still write the mark of a Sandbox that the run    *)
(* has left (hence FreeIsMarked).                                          *)
(***************************************************************************)
EXTENDS Workspace, TLAPS

\* A leaf that names no prover is tried with Zenon, then with SMT.
USE ZenonT(30), SMTT(30)

States == Leased \cup Ending \cup {"off", "over"}
\* The states in which the Workspace has a Sandbox that it applied.
Working == {"waiting", "provisioning", "attaching", "running"}

Sandboxes == [uid : Nat, deleting : BOOLEAN, lapsed : BOOLEAN, phase : Phases, scheduled : BOOLEAN]
Caches    == [synced : BOOLEAN, sandbox : [uid : Nat, says : {"none", "lost", "ready", "placed"}], upto : Nat]
Wrappers  == [at : States, uid : Nat, seen : BOOLEAN, told : BOOLEAN, asked : BOOLEAN,
              stale : BOOLEAN, crossed : BOOLEAN]

\* The Sandbox of the name is the last one made, or none; the hold mark is an annotation of it.
ClusterOK ==
  /\ cr \in Sandboxes /\ born \in Nat /\ cr.uid \in {0, born} /\ (cr.uid = 0 => cr = NoCr)
  /\ hold \in {"none", "held", "released"} /\ (hold = "none" <=> ~There)

WatchOK == watch \in Caches /\ watch.upto <= born

\* A Workspace, live or saved, of a run that has seen n uids and made i invocations: it was
\* invoked, where it works its Sandbox had a uid, and before that it has heard nothing.
Settled(w, n, i) ==
  /\ w \in Wrappers /\ w.uid <= n
  /\ w.at \in Working => w.uid # 0
  /\ w.at = "applying" => w.seen = FALSE
  /\ w.at \notin {"off", "over"} => i > 0

\* Every Lease that nothing stopped had an invocation, which is not the one that holds the name.
Counts ==
  /\ orphans \in Nat /\ orphans <= invokes /\ (Held => orphans < invokes)
  /\ invokes \in 0..MaxInvokes /\ faults \in 0..MaxFaults
  /\ net \subseteq {"apply", "delete", "release", "renew"}
  /\ up \in BOOLEAN /\ marred \in BOOLEAN

RunOK ==
  /\ Settled(ws, born, invokes) /\ Settled(saved, born, invokes)
  /\ saved.at \notin {"waiting", "undoing"}
  /\ Counts

Types == ClusterOK /\ WatchOK /\ RunOK

\* What the watch holds is the last Sandbox it heard of, or none; level with the cluster it
\* holds the Sandbox that is there; and what it calls lost is Lost, being deleted or gone.
Follows ==
  /\ watch.sandbox.uid \in {0, watch.upto}
  /\ watch.sandbox.uid = 0 => watch.sandbox.says = "none"
  /\ watch.synced /\ There /\ watch.upto = born => watch.sandbox.uid = cr.uid
  /\ watch.sandbox.uid = cr.uid /\ watch.sandbox.says = "lost" => cr.phase = "Lost" \/ cr.deleting

\* A Workspace that did not apply over a stale watch, and whose Sandbox stands: the watch is
\* level with the cluster, or the wait has not heard of that Sandbox yet.
Tracked ==
  ws.at \in Working /\ ~ws.stale /\ watch.synced /\ cr.uid = ws.uid =>
    \/ watch.upto = born
    \/ watch.upto + 1 = born /\ watch.sandbox.uid = 0 /\ ws.at = "waiting" /\ ~ws.seen

\* A delete under way is older than the Workspace.
Crossed == ws.at \in Working \cup {"applying"} /\ "delete" \in net => ws.crossed

\* A Sandbox that the run has left and that stays is marked, or something other than a renewal is
\* under way, or a Lease nobody stopped has yet to tick; and a delete that the Workspace has
\* sent has hit.
Marking ==
  ~marred =>
    /\ ws.at \in Ending /\ ws.asked => ~There \/ cr.deleting
    /\ ~Held /\ There /\ ~cr.deleting => hold = "released" \/ net \ {"renew"} # {} \/ orphans # 0

Sound == Types /\ Follows /\ Tracked /\ Crossed /\ Marking

-----------------------------------------------------------------------------
(* The Sandbox of the name. *)

LEMMA PhaseNames == {"Pending", "Ready", "Terminating", "Lost"} \subseteq Phases
  BY Zenon DEF Phases

LEMMA NoSandbox ==
  /\ NoCr \in Sandboxes /\ NoCr.uid = 0 /\ NoCr.deleting = FALSE /\ NoCr.scheduled = FALSE
  /\ NoCr.phase \notin {"Lost", "Ready"}
  BY Zenon DEF NoCr, Sandboxes, Phases

LEMMA NewSandbox ==
  ASSUME born \in Nat
  PROVE  /\ Created \in Sandboxes /\ Created.uid = born + 1
         /\ Created.deleting = FALSE /\ Created.phase # "Lost"
<1>1. born + 1 \in Nat  OBVIOUS
<1> DEFINE n == born + 1
<1>2. n \in Nat  BY <1>1
<1> HIDE DEF n
<1>3. [NoCr EXCEPT !.uid = n] \in Sandboxes /\ [NoCr EXCEPT !.uid = n].uid = n
      /\ [NoCr EXCEPT !.uid = n].deleting = FALSE /\ [NoCr EXCEPT !.uid = n].phase # "Lost"
  BY <1>2, Zenon DEF NoCr, Sandboxes, Phases
<1> QED BY <1>3 DEF Created, n

-----------------------------------------------------------------------------
(* The Workspace as its ends and its invocation set it. *)

LEMMA AtIs ==
  /\ Off \in Wrappers /\ Off.at = "off" /\ Off.uid = 0
  /\ \A s \in States : /\ At(s) \in Wrappers /\ At(s).at = s /\ At(s).uid = 0
                       /\ At(s).asked = FALSE
<1>1. Off \in Wrappers /\ Off.at = "off" /\ Off.uid = 0
  BY DEF Off, Wrappers, States
<1>2. ASSUME NEW s \in States
      PROVE  At(s) \in Wrappers /\ At(s).at = s /\ At(s).uid = 0 /\ At(s).asked = FALSE
  BY DEF Off, At, Wrappers
<1> QED BY <1>1, <1>2

LEMMA InvokedIs ==
  ASSUME NEW n
  PROVE  /\ Invoked(n) \in Wrappers /\ Invoked(n).at = "applying" /\ Invoked(n).uid = 0
         /\ Invoked(n).asked = FALSE /\ Invoked(n).seen = FALSE
         /\ Invoked(n).crossed <=> "delete" \in n
<1>1. ("delete" \in n) \in BOOLEAN
  OBVIOUS
<1>2. "applying" \in States
  BY DEF States, Leased, Placing
<1> QED BY <1>1, <1>2 DEF Off, Invoked, Wrappers

LEMMA StaysSettled ==
  ASSUME NEW w, NEW n \in Nat, NEW m \in Nat, n <= m, NEW i \in Nat, NEW j \in Nat, i <= j,
         Settled(w, n, i)
  PROVE  Settled(w, m, j)
<1>1. w.uid \in Nat
  BY DEF Settled, Wrappers
<1> QED BY <1>1, SMTT(30) DEF Settled

LEMMA NewSettled ==
  ASSUME NEW n \in Nat, NEW i \in Nat
  PROVE  /\ Settled(Off, n, i) /\ Settled(At("over"), n, i)
         /\ i > 0 => /\ \A s \in Ending : Settled(At(s), n, i)
                     /\ \A d : Settled(Invoked(d), n, i)
<1>1. 0 <= n
  OBVIOUS
<1>2. /\ {"off", "over", "applying"} \cup Ending \subseteq States /\ Working \cap Ending = {}
      /\ "applying" \notin Ending
  BY DEF States, Leased, Placing, Ending, Working
<1>3. Settled(Off, n, i)
  BY <1>1, <1>2, AtIs DEF Settled, Working
<1>4. Settled(At("over"), n, i)
  BY <1>1, <1>2, AtIs DEF Settled, Working
<1>5. ASSUME i > 0, NEW s \in Ending PROVE Settled(At(s), n, i)
  BY <1>1, <1>2, <1>5, AtIs DEF Settled
<1>6. ASSUME i > 0, NEW d PROVE Settled(Invoked(d), n, i)
  <2>1. /\ Invoked(d) \in Wrappers /\ Invoked(d).at = "applying" /\ Invoked(d).uid = 0
        /\ Invoked(d).seen = FALSE
    BY InvokedIs
  <2> QED BY <1>1, <1>6, <2>1 DEF Settled, Working
<1> QED BY <1>3, <1>4, <1>5, <1>6

-----------------------------------------------------------------------------
(* The Sandbox and its mark. *)

\* What a step does to the Sandbox, and to what else is of the cluster.
LEMMA ClusterMoves ==
  ASSUME [Next]_vars
  PROVE  \/ UNCHANGED cluster
         \/ ApplyLands
         \/ DeleteLands
         \/ There /\ UNCHANGED <<cr, born>> /\ hold' = "released"
         \/ Stamp /\ hold' = "held"
         \/ (Operate \/ Lapse) /\ UNCHANGED hold
         \/ Gone /\ hold' = "none"
  BY DEF Next, vars, cluster, Invoke, Place, PlaceFails, PlaceLost, HearPlacing, HearProvisioning,
         Attach, AttachLost, Fault, HearLoss, BodyEnds, Destroy, Destroyed, DestroyFails, Leave,
         End, LandDelete, LandRelease, LandApply, LandRenew, LandFails, LeaseTick, OrphanTick,
         WatchCatchesUp, WatchPasses, Save, Crash, Restart, Operate, RunOut, Collect, Remove

LEMMA ClusterStep ==
  ASSUME ClusterOK, [Next]_vars
  PROVE  ClusterOK' /\ born' \in Nat /\ born <= born'
<1>1. CASE UNCHANGED cluster
  BY <1>1, SMTT(30) DEF cluster, ClusterOK, There
<1>2. CASE ApplyLands
  BY <1>2, NewSandbox, SMTT(30) DEF ApplyLands, Create, ClusterOK, There
<1>3. CASE DeleteLands
  <2>1. CASE There
    <3>1. cr' \in Sandboxes /\ cr'.uid = cr.uid
      BY <1>3, <2>1 DEF DeleteLands, DeleteForeground, ClusterOK, Sandboxes
    <3> QED BY <1>3, <2>1, <3>1, SMTT(30) DEF DeleteLands, DeleteForeground, ClusterOK, There
  <2>2. CASE ~There
    BY <1>3, <2>2, SMTT(30) DEF DeleteLands, ClusterOK, There
  <2> QED BY <2>1, <2>2
<1>4. CASE There /\ UNCHANGED <<cr, born>> /\ hold' = "released"
  BY <1>4, SMTT(30) DEF ClusterOK, There
<1>5. CASE Stamp /\ hold' = "held"
  <2>1. cr' \in Sandboxes /\ cr'.uid = cr.uid
    BY <1>5 DEF Stamp, ClusterOK, Sandboxes
  <2> QED BY <1>5, <2>1, SMTT(30) DEF Stamp, ClusterOK, There
<1>6. CASE (Operate \/ Lapse) /\ UNCHANGED hold
  <2>1. There /\ UNCHANGED born /\ cr' \in Sandboxes /\ cr'.uid = cr.uid
    BY <1>6, PhaseNames DEF Operate, Report, Lose, SayTerminating, Lapse, ClusterOK, Sandboxes
  <2> QED BY <1>6, <2>1, SMTT(30) DEF ClusterOK, There
<1>7. CASE Gone /\ hold' = "none"
  BY <1>7, NoSandbox, SMTT(30) DEF Gone, ClusterOK, There
<1> QED BY <1>1, <1>2, <1>3, <1>4, <1>5, <1>6, <1>7, ClusterMoves

-----------------------------------------------------------------------------
(* The watch. *)

LEMMA WatchMoves ==
  ASSUME [Next]_vars
  PROVE  UNCHANGED watch \/ WatchCatchesUp \/ WatchPasses \/ watch' = Unsynced
  BY DEF Next, vars, Invoke, Place, PlaceFails, PlaceLost, HearPlacing, HearProvisioning, Attach,
         AttachLost, Fault, HearLoss, BodyEnds, Destroy, Destroyed, DestroyFails, Leave, End,
         LandDelete, LandRelease, LandApply, LandRenew, LandFails, LeaseTick, OrphanTick, Save,
         Crash, Restart, Operate, RunOut, Collect, Remove

\* The events of Sandboxes that are gone: what the watch holds goes, or is the next one's.
LEMMA Passing ==
  ASSUME ClusterOK, WatchOK, WatchPasses
  PROVE  /\ watch' \in Caches /\ watch.synced /\ watch'.synced = TRUE /\ UNCHANGED <<cr, born>>
         /\ \/ /\ watch'.upto = watch.upto /\ watch'.sandbox = Absent
               /\ watch.sandbox.uid \notin {0, cr.uid}
            \/ /\ watch'.upto \in watch.upto + 1 .. born /\ watch'.upto # cr.uid
               /\ watch'.sandbox.uid = watch'.upto
<1>0. watch \in Caches /\ born \in Nat /\ watch.upto \in Nat /\ watch.synced = TRUE
  BY DEF WatchOK, Caches, ClusterOK, WatchPasses
<1>1. UNCHANGED <<cr, born>>
  BY DEF WatchPasses, cluster
<1>2. CASE watch.sandbox.uid \notin {0, cr.uid} /\ watch' = [watch EXCEPT !.sandbox = Absent]
  BY <1>0, <1>1, <1>2 DEF Caches, Absent
<1>3. ASSUME NEW u \in watch.upto + 1 .. born, NEW y \in {"none", "ready", "lost"}, u # cr.uid,
             watch' = [watch EXCEPT !.upto = u, !.sandbox = [uid |-> u, says |-> y]]
      PROVE  /\ watch' \in Caches /\ watch'.synced = TRUE /\ watch'.upto = u
             /\ watch'.sandbox.uid = u
  <2>1. u \in Nat
    BY <1>0, SMTT(30)
  <2>2. [uid |-> u, says |-> y] \in [uid : Nat, says : {"none", "lost", "ready", "placed"}]
    BY <2>1
  <2> QED BY <1>0, <1>3, <2>1, <2>2 DEF Caches
<1> QED BY <1>0, <1>1, <1>2, <1>3 DEF WatchPasses

LEMMA ShownIs ==
  ASSUME ClusterOK
  PROVE  /\ Shown \in [uid : Nat, says : {"none", "lost", "ready", "placed"}] /\ Shown.uid = cr.uid
         /\ Shown.says = "lost" => cr.phase = "Lost"
         /\ cr.uid = 0 => Shown.says = "none"
<1>1. cr.uid \in Nat
  BY DEF ClusterOK, Sandboxes
<1>2. cr.uid = 0 => cr.phase \notin {"Lost", "Ready"} /\ ~cr.scheduled
  BY NoSandbox DEF ClusterOK
<1> QED BY <1>1, <1>2, SMTT(30) DEF Shown

LEMMA WatchStep ==
  ASSUME ClusterOK, WatchOK, [Next]_vars
  PROVE  WatchOK'
<1>0. ClusterOK' /\ born \in Nat /\ born' \in Nat /\ born <= born' /\ watch.upto \in Nat
  BY ClusterStep DEF ClusterOK, WatchOK, Caches
<1>1. CASE UNCHANGED watch
  BY <1>0, <1>1, SMTT(30) DEF WatchOK
<1>2. CASE WatchCatchesUp
  <2>1. watch' = [synced |-> TRUE, sandbox |-> Shown, upto |-> born] /\ born' = born
    BY <1>2 DEF WatchCatchesUp, cluster
  <2>2. watch' \in Caches /\ watch'.upto = born
    BY <1>0, <2>1, ShownIs DEF Caches
  <2> QED BY <1>0, <2>1, <2>2, SMTT(30) DEF WatchOK
<1>3. CASE WatchPasses
  <2>1. /\ watch' \in Caches /\ UNCHANGED born
        /\ watch'.upto = watch.upto \/ watch'.upto \in watch.upto + 1 .. born
    BY <1>3, Passing
  <2> QED BY <1>0, <2>1, SMTT(30) DEF WatchOK
<1>4. CASE watch' = Unsynced
  <2>1. watch' \in Caches /\ watch'.upto = 0
    BY <1>4 DEF Unsynced, Absent, Caches
  <2> QED BY <1>0, <2>1, SMTT(30) DEF WatchOK
<1> QED BY <1>1, <1>2, <1>3, <1>4, WatchMoves

-----------------------------------------------------------------------------
(* The Workspace, and the run around it. *)

\* The steps that end a Workspace; the parent may invoke the next in the same step.
Ends == AttachLost \/ Fault \/ Destroyed \/ DestroyFails \/ Leave \/ End
\* The steps within one.
Goes == HearPlacing \/ HearProvisioning \/ Attach \/ HearLoss \/ Destroy
Turns == PlaceFails \/ PlaceLost \/ BodyEnds

LEMMA Steps ==
  ASSUME [Next]_vars
  PROVE  Invoke \/ Place \/ Turns \/ Goes \/ Ends \/ Crash \/ (UNCHANGED ws /\ UNCHANGED invokes)
  BY DEF Next, vars, counters, Turns, Goes, Ends, LandDelete, LandRelease, LandApply, LandRenew,
         LandFails, LeaseTick, OrphanTick, WatchCatchesUp, WatchPasses, Save, Restart, Operate,
         RunOut, Collect, Remove

LEMMA Spent ==
  ASSUME Counts, Spend
  PROVE  faults' \in 0..MaxFaults /\ saved' \in {saved, Off}
<1>1. MaxFaults \in Nat
  BY BoundsAssumption
<1> QED BY <1>1, SMTT(30) DEF Counts, Spend

LEMMA Sending ==
  ASSUME NEW at, NEW asked, NEW deletes, NEW held
  PROVE  Leaves(at, asked, deletes, held) \subseteq {"apply", "delete", "release"}
  BY DEF Leaves, AfterPlace

LEMMA Ended ==
  ASSUME Counts, Ends
  PROVE  /\ Held /\ UNCHANGED <<cr, born, hold, watch>> /\ up' = up
         /\ \/ ws' = Off /\ invokes' = invokes
            \/ ws' = At("over") /\ invokes' = invokes
            \/ ws' = Invoked(net') /\ invokes < MaxInvokes /\ invokes' = invokes + 1
         /\ net \subseteq net' /\ net' \subseteq {"apply", "delete", "release", "renew"}
         /\ orphans' = orphans \/ orphans' = orphans + 1
         /\ saved' \in {saved, Off} /\ faults' \in 0..MaxFaults
         /\ marred' = marred \/ (marred' = TRUE /\ DestroyFails)
<1>1. CASE AttachLost \/ Fault
  BY <1>1 DEF AttachLost, Fault, Errs, GoesOn, Over, Held, cluster, Counts
<1>2. CASE Destroyed
  BY <1>2 DEF Destroyed, AfterDestroy, Errs, GoesOn, Over, Held, Ending, cluster, Counts
<1>3. CASE DestroyFails
  BY <1>3, Spent DEF DestroyFails, AfterDestroy, Errs, GoesOn, Over, Held, Ending, cluster, Counts
<1>4. CASE Leave
  BY <1>4, Sending DEF Leave, cluster, Counts
<1>5. CASE End
  BY <1>5, Sending DEF End, Over, cluster, Counts
<1> QED BY <1>1, <1>2, <1>3, <1>4, <1>5 DEF Ends

LEMMA Turned ==
  ASSUME Counts, Turns
  PROVE  /\ Held /\ UNCHANGED <<watch, net, orphans, marred, up, invokes>>
         /\ \E s \in Ending : ws' = At(s)
         /\ saved' \in {saved, Off} /\ faults' \in 0..MaxFaults
<1>1. CASE PlaceFails
  BY <1>1, Spent DEF PlaceFails, Held, Ending
<1>2. CASE PlaceLost \/ BodyEnds
  BY <1>2 DEF PlaceLost, BodyEnds, counters, Held, Ending, Counts
<1> QED BY <1>1, <1>2 DEF Turns

\* Within a Workspace, its Sandbox stays what it is.
LEMMA Went ==
  ASSUME Settled(ws, born, invokes), Goes
  PROVE  /\ Held /\ UNCHANGED <<watch, net, orphans, marred, saved, up, invokes, faults>>
         /\ ws' \in Wrappers /\ ws'.uid = ws.uid
         /\ ws'.at \notin {"off", "over", "applying"}
         /\ ws'.at \in Working => ws.at \in Working
<1>0. ws \in Wrappers
  BY DEF Settled
<1>1. CASE HearPlacing
  BY <1>0, <1>1 DEF HearPlacing, counters, Held, Wrappers, States, Leased, Placing, Working
<1>2. CASE HearProvisioning
  BY <1>0, <1>2 DEF HearProvisioning, counters, Held, Wrappers, States, Leased, Placing, Working
<1>3. CASE Attach
  BY <1>0, <1>3 DEF Attach, counters, Held, Wrappers, States, Leased, Placing, Working
<1>4. CASE HearLoss
  BY <1>0, <1>4 DEF HearLoss, counters, Held, Wrappers, States, Leased, Placing, Working
<1>5. CASE Destroy
  BY <1>0, <1>5 DEF Destroy, counters, Held, Wrappers, States, Ending, Working
<1> QED BY <1>1, <1>2, <1>3, <1>4, <1>5 DEF Goes

LEMMA SettledStep ==
  ASSUME ClusterOK, RunOK, [Next]_vars, invokes' \in Nat, invokes <= invokes'
  PROVE  Settled(ws', born', invokes')
<1>0. /\ born \in Nat /\ born' \in Nat /\ born <= born' /\ invokes \in Nat /\ ClusterOK'
      /\ Settled(ws, born, invokes) /\ Settled(saved, born, invokes) /\ Counts
  BY ClusterStep, BoundsAssumption, SMTT(30) DEF ClusterOK, RunOK, Counts
<1>1. CASE Invoke
  <2>1. ws' = Invoked(net) /\ invokes' = invokes + 1
    BY <1>1 DEF Invoke
  <2>2. invokes' > 0
    BY <1>0, <2>1, SMTT(30)
  <2> QED BY <1>0, <2>1, <2>2, NewSettled
<1>2. CASE Place
  <2>1. ws \in Wrappers /\ ws.at = "applying" /\ invokes' = invokes
    BY <1>0, <1>2 DEF Settled, Place, counters
  <2>2. cr'.uid \in Nat /\ cr'.uid # 0 /\ cr'.uid <= born'
    <3>1. cr'.uid \in Nat /\ cr'.uid \in {0, born'}
      BY <1>0 DEF ClusterOK, Sandboxes
    <3>2. cr'.uid # 0
      BY <1>0, <1>2, NewSandbox, SMTT(30) DEF Place, ApplyLands, Create, There
    <3> QED BY <1>0, <3>1, <3>2, SMTT(30)
  <2>3. ws' \in Wrappers /\ ws'.at = "waiting" /\ ws'.uid = cr'.uid
    <3> DEFINE stale == watch.synced /\ (\/ watch.upto # born
                                         \/ watch.sandbox.uid \notin {0, cr'.uid})
    <3>1. ws' = [ws EXCEPT !.at = "waiting", !.uid = cr'.uid, !.stale = stale]
      BY <1>2 DEF Place
    <3>2. stale \in BOOLEAN
      OBVIOUS
    <3> HIDE DEF stale
    <3>3. "waiting" \in States
      BY DEF States, Leased, Placing
    <3> QED BY <2>1, <2>2, <3>1, <3>2, <3>3 DEF Wrappers
  <2>4. invokes > 0
    BY <1>0, <2>1 DEF Settled
  <2> QED BY <2>1, <2>2, <2>3, <2>4 DEF Settled
<1>3. CASE Turns
  <2>1. PICK s \in Ending : ws' = At(s)
    BY <1>0, <1>3, Turned
  <2>2. Held /\ invokes' = invokes
    BY <1>0, <1>3, Turned
  <2>3. invokes > 0
    BY <1>0, <2>2 DEF Settled, Held
  <2> QED BY <1>0, <2>1, <2>2, <2>3, NewSettled
<1>4. CASE Goes
  <2>1. /\ ws' \in Wrappers /\ ws'.uid = ws.uid /\ Held /\ invokes' = invokes
        /\ ws'.at \in Working => ws.at \in Working
        /\ ws'.at # "applying"
    BY <1>0, <1>4, Went
  <2>2. ws.uid \in Nat /\ ws.uid <= born'
    BY <1>0, SMTT(30) DEF Settled, Wrappers
  <2>3. invokes > 0
    BY <1>0, <2>1 DEF Settled, Held
  <2> QED BY <1>0, <2>1, <2>2, <2>3 DEF Settled
<1>5. CASE Ends
  <2>1. CASE ws' \in {Off, At("over")}
    BY <1>0, <2>1, NewSettled
  <2>2. CASE ws' = Invoked(net') /\ invokes' = invokes + 1
    <3>1. invokes' > 0
      BY <1>0, <2>2, SMTT(30)
    <3> QED BY <1>0, <2>2, <3>1, NewSettled
  <2> QED BY <1>0, <1>5, <2>1, <2>2, Ended
<1>6. CASE Crash
  BY <1>0, <1>6, StaysSettled DEF Crash
<1>7. CASE UNCHANGED ws /\ UNCHANGED invokes
  BY <1>0, <1>7, StaysSettled
<1> QED BY <1>1, <1>2, <1>3, <1>4, <1>5, <1>6, <1>7, Steps

LEMMA SavedStep ==
  ASSUME ClusterOK, RunOK, [Next]_vars, invokes' \in Nat, invokes <= invokes'
  PROVE  Settled(saved', born', invokes') /\ saved'.at \notin {"waiting", "undoing"}
<1>0. /\ born \in Nat /\ born' \in Nat /\ born <= born' /\ invokes \in Nat
      /\ Settled(ws, born, invokes) /\ Settled(saved, born, invokes) /\ Counts
      /\ saved.at \notin {"waiting", "undoing"}
  BY ClusterStep, BoundsAssumption, SMTT(30) DEF ClusterOK, RunOK, Counts
<1>1. CASE saved' \in {saved, Off}
  BY <1>0, <1>1, StaysSettled, NewSettled, AtIs
<1>2. CASE Save
  <2>1. saved' = Restored /\ ws \in Wrappers /\ ws.uid \in Nat /\ invokes' = invokes
    BY <1>0, <1>2 DEF Save, counters, Settled, Wrappers
  <2>2. "applying" \in States /\ Working \cap Placing = {"waiting"}
    BY DEF States, Leased, Placing, Working
  <2>3. CASE ws.at \in Placing
    <3>1. saved' = [Off EXCEPT !.at = "applying", !.uid = 0]
      BY <2>1, <2>3 DEF Restored
    <3>2. saved' \in Wrappers /\ saved'.at = "applying" /\ saved'.uid = 0 /\ saved'.seen = FALSE
      BY <2>2, <3>1 DEF Off, Wrappers
    <3>3. invokes > 0 /\ 0 <= born'
      BY <1>0, <2>3, SMTT(30) DEF Settled, Placing
    <3> QED BY <2>1, <3>2, <3>3 DEF Settled, Working
  <2>4. CASE ws.at \notin Placing
    <3>1. saved' = [Off EXCEPT !.at = ws.at, !.uid = ws.uid]
      BY <2>1, <2>4 DEF Restored
    <3>2. saved' \in Wrappers /\ saved'.at = ws.at /\ saved'.uid = ws.uid
      BY <2>1, <3>1 DEF Off, Wrappers
    <3>3. ws.uid <= born'
      BY <1>0, <2>1, SMTT(30) DEF Settled
    <3> QED BY <1>0, <2>1, <2>4, <3>2, <3>3 DEF Settled, Placing
  <2> QED BY <2>3, <2>4
<1> QED
  BY <1>0, <1>1, <1>2, Spent
     DEF Next, vars, Invoke, Place, PlaceFails, PlaceLost, HearPlacing, HearProvisioning, Attach,
         AttachLost, Fault, HearLoss, BodyEnds, Destroy, Destroyed, DestroyFails, Leave, End,
         LandDelete, LandRelease, LandApply, LandRenew, LandFails, LeaseTick, OrphanTick,
         WatchCatchesUp, WatchPasses, Crash, Restart, Operate, RunOut, Collect, Remove

LEMMA Free == (ws.at \in {"off", "over"}) <=> ~Held
  BY DEF Held

LEMMA CountsStep ==
  ASSUME ClusterOK, RunOK, [Next]_vars
  PROVE  Counts' /\ invokes' \in Nat /\ invokes <= invokes'
<1>0. /\ Counts /\ orphans \in Nat /\ invokes \in 0..MaxInvokes /\ faults \in 0..MaxFaults
      /\ MaxInvokes \in Nat /\ MaxFaults \in Nat
      /\ orphans <= invokes /\ (Held => orphans < invokes)
      /\ Settled(ws, born, invokes) /\ Settled(saved, born, invokes)
      /\ net \subseteq {"apply", "delete", "release", "renew"}
      /\ up \in BOOLEAN /\ marred \in BOOLEAN
  BY BoundsAssumption DEF RunOK, Counts
<1>1. /\ net' \subseteq {"apply", "delete", "release", "renew"}
      /\ up' \in BOOLEAN /\ marred' \in BOOLEAN
      /\ faults' \in 0..MaxFaults
  <2>1. CASE Ends
    BY <1>0, <2>1, Ended
  <2>2. CASE Turns
    BY <1>0, <2>2, Turned
  <2>3. CASE Crash \/ Remove
    BY <1>0, <2>3, Spent DEF Crash, Remove
  <2>4. CASE Goes
    BY <1>0, <2>4, Went
  <2>5. CASE LandApply
    BY <1>0, <2>5 DEF LandApply, AfterPlace, counters
  <2>6. CASE LandDelete \/ LandRelease \/ LandRenew \/ LeaseTick \/ OrphanTick \/ Restart
    BY <1>0, <2>6 DEF LandDelete, LandRelease, LandRenew, LeaseTick, OrphanTick, Restart, counters
  <2>7. CASE LandFails
    BY <1>0, <2>7, Spent DEF LandFails, AfterPlace
  <2>8. CASE UNCHANGED <<net, up, marred, faults>>
    BY <1>0, <2>8
  <2> QED
    BY <2>1, <2>2, <2>3, <2>4, <2>5, <2>6, <2>7, <2>8
       DEF Next, vars, counters, Ends, Turns, Goes, Invoke, Place, WatchCatchesUp,
           WatchPasses, Save, Operate, RunOut, Collect
<1>2. /\ orphans' \in Nat /\ orphans' <= invokes' /\ (Held' => orphans' < invokes')
      /\ invokes' \in 0..MaxInvokes /\ invokes <= invokes'
  <2>1. CASE Invoke
    <3>1. invokes' = invokes + 1 /\ invokes < MaxInvokes /\ orphans' = orphans
      BY <2>1 DEF Invoke
    <3> QED BY <1>0, <3>1, SMTT(30)
  <2>2. CASE Place \/ Turns \/ Goes
    <3>1. Held /\ invokes' = invokes /\ orphans' = orphans
      BY <1>0, <2>2, Turned, Went DEF Place, counters, Held
    <3> QED BY <1>0, <3>1, SMTT(30)
  <2>3. CASE Ends
    <3>1. Held /\ (orphans' = orphans \/ orphans' = orphans + 1)
      BY <1>0, <2>3, Ended
    <3>2. CASE ws' \in {Off, At("over")} /\ invokes' = invokes
      <4>1. ws'.at \in {"off", "over"}
        BY <3>2, AtIs DEF States
      <4>2. ~Held'
        BY <4>1 DEF Held
      <4> QED BY <1>0, <3>1, <3>2, <4>2, SMTT(30)
    <3>3. CASE invokes < MaxInvokes /\ invokes' = invokes + 1
      BY <1>0, <3>1, <3>3, SMTT(30)
    <3> QED BY <1>0, <2>3, <3>2, <3>3, Ended
  <2>4. CASE Crash
    <3>1. orphans' = 0 /\ invokes' = invokes /\ ws' = saved
      BY <2>4 DEF Crash
    <3>2. Held' => invokes > 0
      BY <1>0, <3>1 DEF Held, Settled
    <3> QED BY <1>0, <3>1, <3>2, SMTT(30)
  <2>5. CASE OrphanTick
    <3>1. orphans > 0 /\ orphans' = orphans - 1 /\ invokes' = invokes /\ Held' = Held
      BY <2>5 DEF OrphanTick, counters, Held
    <3> QED BY <1>0, <3>1, SMTT(30)
  <2>6. CASE UNCHANGED <<orphans, ws, invokes>>
    <3>1. orphans' = orphans /\ invokes' = invokes /\ Held' = Held
      BY <2>6 DEF Held
    <3> QED BY <1>0, <3>1, SMTT(30)
  <2> QED
    BY <2>1, <2>2, <2>3, <2>4, <2>5, <2>6
       DEF Next, vars, counters, Ends, Turns, Goes, LandDelete, LandRelease, LandApply, LandRenew,
           LandFails, LeaseTick, WatchCatchesUp, WatchPasses, Save, Restart, Operate, RunOut,
           Collect, Remove
<1>3. invokes' \in Nat
  BY <1>0, <1>2, SMTT(30)
<1> QED BY <1>1, <1>2, <1>3 DEF Counts

LEMMA TypesStep ==
  ASSUME Types, [Next]_vars
  PROVE  Types'
<1>1. ClusterOK' /\ WatchOK' /\ Counts' /\ invokes' \in Nat /\ invokes <= invokes'
  BY ClusterStep, WatchStep, CountsStep DEF Types
<1>2. /\ Settled(ws', born', invokes') /\ Settled(saved', born', invokes')
      /\ saved'.at \notin {"waiting", "undoing"}
  BY <1>1, SettledStep, SavedStep DEF Types
<1> QED BY <1>1, <1>2 DEF Types, RunOK, Settled

-----------------------------------------------------------------------------
(* What the watch holds. *)

\* A Sandbox that is Lost or being deleted is so to its end.
LEMMA StaysLost ==
  ASSUME ClusterOK, [Next]_vars, There, cr'.uid = cr.uid, cr.phase = "Lost" \/ cr.deleting
  PROVE  cr'.phase = "Lost" \/ cr'.deleting
<1>0. cr \in Sandboxes
  BY DEF ClusterOK
<1>1. CASE UNCHANGED cr
  BY <1>1
<1>2. CASE ApplyLands
  BY <1>2 DEF ApplyLands
<1>3. CASE DeleteLands
  BY <1>0, <1>3 DEF DeleteLands, DeleteForeground, Sandboxes
<1>4. CASE Stamp
  BY <1>0, <1>4 DEF Stamp, Sandboxes
<1>5. CASE Operate \/ Lapse
  BY <1>0, <1>5 DEF Operate, Report, Lose, SayTerminating, Lapse, Sandboxes
<1>6. CASE Gone
  BY <1>6, NoSandbox DEF Gone, There
<1> QED BY <1>1, <1>2, <1>3, <1>4, <1>5, <1>6, ClusterMoves DEF cluster

\* The Sandbox of the name stays, goes, or is made anew under the next uid.
LEMMA UidMoves ==
  ASSUME ClusterOK, [Next]_vars
  PROVE  \/ cr'.uid = cr.uid /\ born' = born
         \/ cr'.uid = 0 /\ born' = born
         \/ ~There /\ cr'.uid = born + 1 /\ born' = born + 1 /\ ~cr'.deleting /\ cr'.phase # "Lost"
<1>0. cr \in Sandboxes /\ born \in Nat
  BY DEF ClusterOK
<1>1. CASE UNCHANGED <<cr, born>>
  BY <1>1
<1>2. CASE ApplyLands
  BY <1>0, <1>2, NewSandbox DEF ApplyLands, Create
<1>3. CASE DeleteLands
  BY <1>0, <1>3 DEF DeleteLands, DeleteForeground, Sandboxes
<1>4. CASE Stamp
  BY <1>0, <1>4 DEF Stamp, Sandboxes
<1>5. CASE Operate \/ Lapse
  BY <1>0, <1>5 DEF Operate, Report, Lose, SayTerminating, Lapse, Sandboxes
<1>6. CASE Gone
  BY <1>6, NoSandbox DEF Gone
<1> QED BY <1>1, <1>2, <1>3, <1>4, <1>5, <1>6, ClusterMoves DEF cluster

LEMMA FollowsStep ==
  ASSUME ClusterOK, WatchOK, Follows, [Next]_vars
  PROVE  Follows'
<1>0. /\ born \in Nat /\ cr.uid \in {0, born} /\ cr.uid \in Nat
      /\ watch.upto \in Nat /\ watch.upto <= born /\ watch.sandbox.uid \in Nat
  BY DEF ClusterOK, Sandboxes, WatchOK, Caches
<1>1. CASE UNCHANGED watch
  <2>1. CASE cr'.uid = cr.uid /\ born' = born
    <3>1. watch.sandbox.uid = cr.uid /\ watch.sandbox.says = "lost"
            => There /\ (cr.phase = "Lost" \/ cr.deleting)
      BY DEF Follows, There
    <3>2. watch.sandbox.uid = cr.uid /\ watch.sandbox.says = "lost"
            => cr'.phase = "Lost" \/ cr'.deleting
      BY <2>1, <3>1, StaysLost
    <3> QED BY <1>1, <2>1, <3>2 DEF Follows, There
  <2>2. CASE cr'.uid = 0 /\ born' = born
    BY <1>1, <2>2 DEF Follows, There
  <2>3. CASE cr'.uid = born + 1 /\ born' = born + 1
    <3>1. watch.upto # born' /\ watch.sandbox.uid # cr'.uid
      BY <1>0, <2>3, SMTT(30) DEF Follows
    <3> QED BY <1>1, <3>1 DEF Follows
  <2> QED BY <2>1, <2>2, <2>3, UidMoves
<1>2. CASE WatchCatchesUp
  <2>1. /\ watch' = [synced |-> TRUE, sandbox |-> Shown, upto |-> born]
        /\ cr' = cr /\ born' = born
    BY <1>2 DEF WatchCatchesUp, cluster
  <2>2. watch'.sandbox = Shown /\ watch'.upto = born
    BY <2>1
  <2> QED BY <1>0, <2>1, <2>2, ShownIs DEF Follows, There
<1>3. CASE WatchPasses
  <2>1. /\ watch.synced /\ cr' = cr /\ born' = born
        /\ \/ /\ watch'.upto = watch.upto /\ watch'.sandbox = Absent
              /\ watch.sandbox.uid \notin {0, cr.uid}
           \/ /\ watch'.upto \in watch.upto + 1 .. born /\ watch'.upto # cr.uid
              /\ watch'.sandbox.uid = watch'.upto
    BY <1>3, Passing
  <2>2. CASE /\ watch'.upto = watch.upto /\ watch'.sandbox = Absent
             /\ watch.sandbox.uid \notin {0, cr.uid}
    <3>1. watch'.sandbox.uid = 0 /\ watch'.sandbox.says = "none"
      BY <2>2 DEF Absent
    <3> QED BY <2>1, <2>2, <3>1 DEF Follows, There
  <2>3. CASE /\ watch'.upto \in watch.upto + 1 .. born /\ watch'.upto # cr.uid
             /\ watch'.sandbox.uid = watch'.upto
    <3>1. watch'.sandbox.uid # 0
      BY <1>0, <2>3, SMTT(30)
    <3> QED BY <1>0, <2>1, <2>3, <3>1 DEF Follows, There
  <2> QED BY <2>1, <2>2, <2>3
<1>4. CASE watch' = Unsynced
  <2>1. watch'.sandbox.uid = 0 /\ watch'.sandbox.says = "none" /\ watch'.synced = FALSE
    BY <1>4 DEF Unsynced, Absent
  <2> QED BY <2>1 DEF Follows
<1> QED BY <1>1, <1>2, <1>3, <1>4, WatchMoves

\* Only a Workspace that is not at its apply, its end or between two has a Sandbox to lose.
LEMMA Idles ==
  /\ Off.at \notin Working /\ At("over").at \notin Working
  /\ \A s \in Ending : At(s).at \notin Working
  /\ \A n : Invoked(n).at \notin Working
<1>1. Ending \cup {"over"} \subseteq States
  BY DEF States
<1> QED BY <1>1, AtIs, InvokedIs DEF Working, Ending

LEMMA TrackedPlace ==
  ASSUME ClusterOK, ClusterOK', WatchOK, Follows, RunOK, Place, ~ws'.stale, watch.synced
  PROVE  \/ watch.upto = born'
         \/ watch.upto + 1 = born' /\ watch.sandbox.uid = 0 /\ ws'.at = "waiting" /\ ~ws'.seen
<1>0. /\ born \in Nat /\ watch.upto \in Nat /\ watch.upto <= born /\ watch.sandbox.uid \in Nat
      /\ watch.sandbox.uid \in {0, watch.upto}
      /\ ws \in Wrappers /\ ws.at = "applying" /\ ws.seen = FALSE
  BY DEF ClusterOK, WatchOK, Caches, RunOK, Settled, Place, Follows
<1> DEFINE stale == watch.synced /\ (\/ watch.upto # born
                                     \/ watch.sandbox.uid \notin {0, cr'.uid})
<1>1. ws' = [ws EXCEPT !.at = "waiting", !.uid = cr'.uid, !.stale = stale]
  BY DEF Place
<1>2. ws'.stale = stale /\ ws'.at = "waiting" /\ ws'.seen = FALSE
  <2> HIDE DEF stale
  <2> QED BY <1>0, <1>1 DEF Wrappers
<1>3. watch.upto = born /\ watch.sandbox.uid \in {0, cr'.uid}
  BY <1>2
<1>4. CASE There
  BY <1>3, <1>4 DEF Place, ApplyLands
<1>5. CASE ~There
  <2>1. cr'.uid = born + 1 /\ born' = born + 1
    BY <1>0, <1>5, NewSandbox DEF Place, ApplyLands, Create
  <2>2. watch.sandbox.uid = 0
    BY <1>0, <1>3, <2>1, SMTT(30)
  <2> QED BY <1>2, <1>3, <2>1, <2>2
<1> QED BY <1>4, <1>5

LEMMA TrackedStays ==
  ASSUME ClusterOK, WatchOK, RunOK, Follows, Tracked, [Next]_vars, UNCHANGED ws
  PROVE  Tracked'
<1>0. /\ born \in Nat /\ cr.uid \in {0, born} /\ cr.uid \in Nat
      /\ watch.upto \in Nat /\ watch.upto <= born /\ watch.sandbox.uid \in Nat
      /\ ws.uid \in Nat /\ ws.uid <= born /\ (ws.at \in Working => ws.uid # 0)
  BY DEF ClusterOK, Sandboxes, WatchOK, Caches, RunOK, Settled, Wrappers
<1>1. CASE UNCHANGED watch
  <2>1. CASE cr'.uid = cr.uid /\ born' = born
    BY <1>1, <2>1 DEF Tracked
  <2>2. CASE cr'.uid = 0
    BY <1>0, <1>1, <2>2 DEF Tracked
  <2>3. CASE cr'.uid = born + 1
    <3>1. cr'.uid # ws.uid
      BY <1>0, <2>3, SMTT(30)
    <3> QED BY <3>1 DEF Tracked
  <2> QED BY <2>1, <2>2, <2>3, UidMoves
<1>2. CASE WatchCatchesUp
  <2>1. /\ watch' = [synced |-> TRUE, sandbox |-> Shown, upto |-> born]
        /\ born' = born
    BY <1>2 DEF WatchCatchesUp, cluster
  <2>2. watch'.upto = born'
    BY <2>1
  <2> QED BY <2>2 DEF Tracked
<1>3. CASE WatchPasses
  <2> SUFFICES ASSUME ws.at \in Working, ~ws.stale, cr.uid = ws.uid
               PROVE  watch'.upto = born
    BY <1>3, Passing DEF Tracked
  <2>1. /\ watch.synced
        /\ \/ watch'.upto = watch.upto /\ watch.sandbox.uid \notin {0, cr.uid}
           \/ watch'.upto \in watch.upto + 1 .. born /\ watch'.upto # cr.uid
    BY <1>3, Passing
  <2>2. watch.upto = born \/ (watch.upto + 1 = born /\ watch.sandbox.uid = 0)
    BY <2>1 DEF Tracked
  <2>3. cr.uid = born
    BY <1>0
  <2> QED BY <1>0, <2>1, <2>2, <2>3, SMTT(30)
<1>4. CASE watch' = Unsynced
  <2>1. watch'.synced = FALSE
    BY <1>4 DEF Unsynced
  <2> QED BY <2>1 DEF Tracked
<1> QED BY <1>1, <1>2, <1>3, <1>4, WatchMoves

LEMMA TrackedStep ==
  ASSUME Types, Follows, Tracked, [Next]_vars
  PROVE  Tracked'
<1>0. /\ ClusterOK /\ ClusterOK' /\ WatchOK /\ RunOK /\ Counts
      /\ Settled(ws, born, invokes) /\ ws \in Wrappers
  BY ClusterStep DEF Types, RunOK, Settled
<1>1. CASE Place
  BY <1>0, <1>1, TrackedPlace DEF Tracked, Place
<1>2. CASE Invoke \/ Turns \/ Ends
  BY <1>0, <1>2, Turned, Ended, Idles DEF Invoke, Tracked
<1>3. CASE Goes
  <2>1. CASE Destroy
    <3>1. ws'.at = ws.at /\ ws.at \in Ending
      BY <1>0, <2>1 DEF Destroy, Wrappers
    <3> QED BY <3>1 DEF Tracked, Ending, Working
  <2>2. CASE HearPlacing
    <3>1. /\ ws.at = "waiting" /\ watch.sandbox.uid # 0 /\ watch.synced
          /\ ws'.uid = ws.uid /\ ws'.stale = ws.stale /\ UNCHANGED <<cr, born, watch>>
      BY <1>0, <2>2 DEF HearPlacing, cluster, Wrappers
    <3> QED BY <3>1 DEF Tracked, Working
  <2>3. CASE HearProvisioning \/ Attach \/ HearLoss
    <3>1. /\ ws.at \in Working \ {"waiting"}
          /\ ws'.uid = ws.uid /\ ws'.stale = ws.stale /\ UNCHANGED <<cr, born, watch>>
      BY <1>0, <2>3 DEF HearProvisioning, Attach, HearLoss, cluster, Wrappers, Working
    <3> QED BY <3>1 DEF Tracked
  <2> QED BY <1>3, <2>1, <2>2, <2>3 DEF Goes
<1>4. CASE Crash
  <2>1. watch'.synced = FALSE
    BY <1>4 DEF Crash, Unsynced
  <2> QED BY <2>1 DEF Tracked
<1>5. CASE UNCHANGED ws
  BY <1>0, <1>5, TrackedStays
<1> QED BY <1>1, <1>2, <1>3, <1>4, <1>5, Steps

-----------------------------------------------------------------------------
(* The writes under way. *)

LEMMA CrossedStep ==
  ASSUME Types, Crossed, [Next]_vars
  PROVE  Crossed'
<1>0. Settled(ws, born, invokes) /\ ws \in Wrappers /\ Counts
  BY DEF Types, RunOK, Settled
<1>1. CASE Invoke
  BY <1>1, InvokedIs DEF Invoke, Crossed
<1>2. CASE Place
  <2>1. ws.at = "applying" /\ ws'.crossed = ws.crossed /\ net' = net
    BY <1>0, <1>2 DEF Place, Wrappers
  <2> QED BY <2>1 DEF Crossed
<1>3. CASE Turns
  <2>1. PICK s \in Ending : ws' = At(s)
    BY <1>0, <1>3, Turned
  <2>2. ws'.at \notin Working \cup {"applying"}
    BY <2>1, AtIs DEF States, Ending, Working
  <2> QED BY <2>2 DEF Crossed
<1>4. CASE Goes
  <2>1. /\ net' = net /\ ws'.at # "applying" /\ (ws'.at \in Working => ws.at \in Working)
    BY <1>0, <1>4, Went
  <2>2. ws'.crossed = ws.crossed
    BY <1>0, <1>4 DEF Goes, HearPlacing, HearProvisioning, Attach, HearLoss, Destroy, Wrappers
  <2> QED BY <2>1, <2>2 DEF Crossed
<1>5. CASE Ends
  <2>1. CASE ws' \in {Off, At("over")}
    BY <2>1, AtIs DEF States, Working, Crossed
  <2>2. CASE ws' = Invoked(net')
    BY <2>2, InvokedIs DEF Crossed
  <2> QED BY <1>0, <1>5, <2>1, <2>2, Ended
<1>6. CASE Crash
  BY <1>6 DEF Crash, Crossed
<1>7. CASE UNCHANGED ws
  <2>1. CASE LandApply \/ LandFails
    <3>1. Held => net' \subseteq net
      BY <2>1 DEF LandApply, LandFails, AfterPlace
    <3>2. ws.at \in Working \cup {"applying"} => Held
      BY DEF Held, Working
    <3> QED BY <1>7, <3>1, <3>2 DEF Crossed
  <2>2. CASE net' \subseteq net \cup {"release", "renew"}
    BY <1>7, <2>2 DEF Crossed
  <2> QED
    BY <1>0, <1>1, <1>2, <1>3, <1>4, <1>5, <1>6, <2>1, <2>2
       DEF Next, vars, Turns, Goes, Ends, LandDelete, LandRelease, LandRenew, LandFails, LeaseTick,
           OrphanTick, WatchCatchesUp, WatchPasses, Save, Restart, Operate, RunOut, Collect, Remove
<1> QED BY <1>1, <1>2, <1>3, <1>4, <1>5, <1>6, <1>7, Steps

\* What a stop of the Workspace leaves under way, when nothing takes its place: something that
\* marks or deletes the Sandbox, unless its own delete was already sent.
LEMMA SendsOne ==
  ASSUME ws.at \in Leased \cup Ending, NEW deletes
  PROVE  Leaves(ws.at, ws.asked, deletes, FALSE) \ {"renew"} # {} \/ (ws.at \in Ending /\ ws.asked)
<1>1. CASE ws.at \in Leased
  <2>1. "release" \in Leaves(ws.at, ws.asked, deletes, FALSE) \ {"renew"}
    BY <1>1 DEF Leaves
  <2> QED BY <2>1
<1>2. CASE ws.at \in Ending /\ ~ws.asked
  <2>1. "delete" \in Leaves(ws.at, ws.asked, deletes, FALSE) \ {"renew"}
    BY <1>2 DEF Leaves
  <2> QED BY <2>1
<1> QED BY <1>1, <1>2

\* A Workspace that ends with nothing after it leaves a mark to come, or no Sandbox.
LEMMA EndsMarking ==
  ASSUME ClusterOK, Settled(ws, born, invokes), Counts, Marking, Ends, ~marred', ~Held'
  PROVE  There /\ ~cr.deleting => net' \ {"renew"} # {} \/ orphans' # 0
<1>0. /\ Held /\ ws.at \in Leased \cup Ending /\ orphans \in Nat /\ ~marred
  BY Ended DEF Settled, Wrappers, States, Held, Counts
<1>1. orphans + 1 # 0
  BY <1>0, SMTT(30)
<1>2. CASE AttachLost \/ Fault
  <2>1. ws' = Off \/ ws' = At("over") \/ ws' = Invoked(net)
    BY <1>2 DEF AttachLost, Fault, Errs, GoesOn, Over
  <2>2. orphans' = orphans + 1 \/ net' = net \cup {"release"}
    BY <1>2 DEF AttachLost, Fault, Errs
  <2> QED BY <1>1, <2>2
<1>3. CASE Destroyed
  BY <1>3 DEF Destroyed
<1>4. CASE DestroyFails
  BY <1>4 DEF DestroyFails
<1>5. CASE Leave
  <2>1. PICK deletes \in BOOLEAN, again \in BOOLEAN :
          /\ net' = net \cup Leaves(ws.at, ws.asked, deletes, again)
          /\ again => ws' = Invoked(net')
    BY <1>5 DEF Leave
  <2>2. again = FALSE
    BY <2>1, InvokedIs DEF Held
  <2>3. net' = net \cup Leaves(ws.at, ws.asked, deletes, FALSE)
    BY <2>1, <2>2
  <2>4. Leaves(ws.at, ws.asked, deletes, FALSE) \ {"renew"} # {} \/ (ws.at \in Ending /\ ws.asked)
    BY <1>0, SendsOne
  <2>5. net' \ {"renew"} # {} \/ (ws.at \in Ending /\ ws.asked)
    BY <2>3, <2>4
  <2> QED BY <1>0, <2>5 DEF Marking
<1>6. CASE End
  <2>1. PICK deletes \in BOOLEAN : net' = net \cup Leaves(ws.at, ws.asked, deletes, FALSE)
    BY <1>6 DEF End
  <2>2. Leaves(ws.at, ws.asked, deletes, FALSE) \ {"renew"} # {} \/ (ws.at \in Ending /\ ws.asked)
    BY <1>0, SendsOne
  <2>3. net' \ {"renew"} # {} \/ (ws.at \in Ending /\ ws.asked)
    BY <2>1, <2>2
  <2> QED BY <1>0, <2>3 DEF Marking
<1> QED BY <1>2, <1>3, <1>4, <1>5, <1>6 DEF Ends

LEMMA StaysDeleting ==
  ASSUME ClusterOK, [Next]_vars, There, cr.deleting
  PROVE  cr'.uid = 0 \/ cr'.deleting
<1>0. cr \in Sandboxes
  BY DEF ClusterOK
<1>1. CASE UNCHANGED cr \/ ApplyLands
  BY <1>1 DEF ApplyLands
<1>2. CASE DeleteLands
  BY <1>0, <1>2 DEF DeleteLands, DeleteForeground, Sandboxes
<1>3. CASE Stamp
  BY <1>0, <1>3 DEF Stamp, Sandboxes
<1>4. CASE Operate \/ Lapse
  BY <1>0, <1>4 DEF Operate, Report, Lose, SayTerminating, Lapse, Sandboxes
<1>5. CASE Gone
  BY <1>5, NoSandbox DEF Gone
<1> QED BY <1>1, <1>2, <1>3, <1>4, <1>5, ClusterMoves DEF cluster

\* The steps that leave the Workspace where it is.
LEMMA MarkingStays ==
  ASSUME ClusterOK, Counts, Marking, [Next]_vars, UNCHANGED ws, ~marred',
         ~(Invoke \/ Place \/ Turns \/ Goes \/ Ends \/ Crash)
  PROVE  Marking'
<1>0. ~marred /\ Held' = Held /\ cr \in Sandboxes
  <2>1. LandApply \/ LandRenew \/ LandFails => ~marred
    BY DEF LandApply, LandRenew, LandFails
  <2>2. UNCHANGED marred => ~marred
    OBVIOUS
  <2>3. ~marred
    BY <2>1, <2>2
       DEF Next, vars, Turns, Goes, Ends, LandDelete, LandRelease, LandRenew, LandFails, LeaseTick,
           OrphanTick, WatchCatchesUp, WatchPasses, Save, Restart, Operate, RunOut, Collect, Remove
  <2> QED BY <2>3 DEF Held, ClusterOK
<1>1. ASSUME ws.at \in Ending, ws.asked PROVE cr'.uid = 0 \/ cr'.deleting
  <2>1. CASE ~There
    <3>1. Held
      BY <1>1 DEF Held, Ending
    <3>2. ~LandApply
      BY <2>1, <3>1 DEF LandApply
    <3>3. ~ApplyLands \/ UNCHANGED cr
      BY <2>1, <3>2
         DEF Next, vars, cluster, Turns, Goes, Ends, LandDelete, LandRelease, LandRenew, LandFails,
             LeaseTick, OrphanTick, WatchCatchesUp, WatchPasses, Save, Restart, Operate, RunOut,
             Collect, Remove, DeleteLands, Stamp, Report, Lose, SayTerminating, Lapse, Gone
    <3>4. UNCHANGED cr
      BY <2>1, <3>3, ClusterMoves
         DEF cluster, DeleteLands, Stamp, Operate, Report, Lose, SayTerminating, Lapse, Gone
    <3> QED BY <2>1, <3>4 DEF There
  <2>2. CASE There
    BY <1>0, <1>1, <2>2, StaysDeleting DEF Marking
  <2> QED BY <2>1, <2>2
<1>2. ASSUME ~Held, cr'.uid # 0, ~cr'.deleting
      PROVE  hold' = "released" \/ net' \ {"renew"} # {} \/ orphans' # 0
  <2>1. CASE LandDelete
    <3>1. cr'.uid = 0 \/ cr'.deleting
      BY <1>0, <2>1 DEF LandDelete, DeleteLands, DeleteForeground, There, Sandboxes
    <3> QED BY <1>2, <3>1
  <2>2. CASE LandRelease
    BY <1>2, <2>2 DEF LandRelease, There
  <2>3. CASE LandApply
    BY <1>2, <2>3 DEF LandApply, AfterPlace
  <2>4. CASE LandRenew
    <3>1. CASE net' = {}
      BY <1>2, <2>4, <3>1 DEF LandRenew, Stamp, cluster, There
    <3>2. CASE net' # {}
      BY <2>4, <3>2 DEF LandRenew
    <3> QED BY <3>1, <3>2
  <2>5. CASE OrphanTick
    BY <1>2, <2>5 DEF OrphanTick
  <2>6. CASE Operate \/ RunOut
    <3>1. There /\ cr'.deleting = cr.deleting /\ UNCHANGED <<hold, net, orphans>>
      BY <1>0, <2>6 DEF Operate, Report, Lose, SayTerminating, RunOut, Lapse, Sandboxes
    <3> QED BY <1>0, <1>2, <3>1 DEF Marking
  <2>7. CASE Collect \/ Remove
    BY <1>2, <2>7, NoSandbox DEF Collect, Remove, Gone
  <2>8. CASE UNCHANGED <<cr, hold, net, orphans>>
    BY <1>0, <1>2, <2>8 DEF Marking, There
  <2>9. CASE LandFails
    <3>1. PICK write \in net :
            /\ net' = (net \ {write}) \cup (IF write = "apply" THEN AfterPlace(Held) ELSE {})
            /\ marred' = (marred \/ (write \in {"delete", "release"} /\ ~Held))
            /\ UNCHANGED <<cr, born, hold, orphans>>
      BY <2>9 DEF LandFails, cluster
    <3>2. CASE write = "apply"
      BY <1>2, <3>1, <3>2 DEF AfterPlace
    <3>3. CASE write = "renew"
      BY <1>0, <1>2, <3>1, <3>3 DEF Marking, There
    <3> QED BY <1>2, <3>1, <3>2, <3>3 DEF Counts
  <2>10. CASE LeaseTick
    BY <1>2, <2>10 DEF LeaseTick, Leased, Placing, Held
  <2> QED
    BY <2>1, <2>2, <2>3, <2>4, <2>5, <2>6, <2>7, <2>8, <2>9, <2>10
       DEF Next, vars, cluster, Turns, Goes, Ends, WatchCatchesUp, WatchPasses, Save, Restart
<1> QED BY <1>0, <1>1, <1>2 DEF Marking, There

LEMMA MarkingStep ==
  ASSUME Types, Marking, [Next]_vars
  PROVE  Marking'
<1>0. ClusterOK /\ Settled(ws, born, invokes) /\ ws \in Wrappers /\ Counts
  BY DEF Types, RunOK, Settled
<1>1. CASE marred'
  BY <1>1 DEF Marking
<1>2. CASE Invoke
  <2>1. ws'.at = "applying"
    BY <1>2, InvokedIs DEF Invoke
  <2> QED BY <2>1 DEF Marking, Held, Ending
<1>3. CASE Place
  <2>1. ws'.at = "waiting"
    BY <1>0, <1>3 DEF Place, Wrappers
  <2> QED BY <2>1 DEF Marking, Held, Ending
<1>4. CASE Turns
  <2>1. PICK s \in Ending : ws' = At(s)
    BY <1>0, <1>4, Turned
  <2>2. ws'.at = s /\ ws'.asked = FALSE
    BY <2>1, AtIs DEF States
  <2> QED BY <2>2 DEF Marking, Held, Ending
<1>5. CASE Destroy
  <2>1. ws'.at = ws.at /\ ws.at \in Ending
    BY <1>0, <1>5 DEF Destroy, Wrappers
  <2>2. cr'.uid = 0 \/ cr'.deleting
    BY <1>0, <1>5 DEF Destroy, DeleteLands, DeleteForeground, There, ClusterOK, Sandboxes
  <2> QED BY <2>1, <2>2 DEF Marking, Held, Ending, There
<1>6. CASE Goes /\ ~Destroy
  <2>1. ws'.at \in Working
    BY <1>0, <1>6 DEF Goes, HearPlacing, HearProvisioning, Attach, HearLoss, Wrappers, Working
  <2> QED BY <2>1 DEF Marking, Held, Ending, Working
<1>7. CASE Ends /\ ~marred'
  <2>1. ws' = Off \/ ws' = At("over") \/ ws' = Invoked(net')
    BY <1>0, <1>7, Ended
  <2>2. ws'.at \notin Ending
    BY <2>1, AtIs, InvokedIs DEF States, Ending
  <2>3. ~Held' => (There /\ ~cr.deleting => net' \ {"renew"} # {} \/ orphans' # 0)
    BY <1>0, <1>7, EndsMarking
  <2>4. UNCHANGED cr
    BY <1>0, <1>7, Ended
  <2> QED BY <2>2, <2>3, <2>4 DEF Marking, There
<1>8. CASE Crash
  BY <1>8 DEF Crash, Marking
<1>9. CASE UNCHANGED ws /\ ~marred' /\ ~(Invoke \/ Place \/ Turns \/ Goes \/ Ends \/ Crash)
  BY <1>0, <1>9, MarkingStays
<1> QED BY <1>1, <1>2, <1>3, <1>4, <1>5, <1>6, <1>7, <1>8, <1>9, Steps

-----------------------------------------------------------------------------
(* The invariant. *)

LEMMA SoundInit == Init => Sound
<1> SUFFICES ASSUME Init PROVE Sound
  OBVIOUS
<1>0. /\ cr = NoCr /\ born = 0 /\ hold = "none" /\ watch = Unsynced /\ ws = Off /\ net = {}
      /\ orphans = 0 /\ marred = FALSE /\ saved = Off /\ up = TRUE /\ invokes = 0 /\ faults = 0
  BY DEF Init, StatusInit
<1>1. ~There /\ ~Held
  BY <1>0, NoSandbox, AtIs DEF There, Held
<1>2. ClusterOK
  BY <1>0, <1>1, NoSandbox DEF ClusterOK
<1>3. watch \in Caches /\ watch.upto = 0 /\ watch.sandbox = Absent /\ watch.synced = FALSE
  BY <1>0 DEF Unsynced, Absent, Caches
<1>4. WatchOK
  BY <1>0, <1>3, SMTT(30) DEF WatchOK
<1>5. Settled(Off, born, invokes)
  BY <1>0, NewSettled
<1>6. Counts
  <2>1. orphans \in Nat /\ orphans <= invokes /\ invokes \in 0..MaxInvokes /\ faults \in 0..MaxFaults
    BY <1>0, BoundsAssumption, SMTT(30)
  <2> QED BY <1>0, <1>1, <2>1 DEF Counts
<1>7. Types
  BY <1>0, <1>2, <1>4, <1>5, <1>6, AtIs DEF Types, RunOK
<1>8. Follows
  BY <1>1, <1>3 DEF Follows, Absent
<1>9. Tracked /\ Crossed /\ Marking
  BY <1>0, <1>1, <1>3, AtIs DEF Tracked, Crossed, Marking, Ending
<1> QED BY <1>7, <1>8, <1>9 DEF Sound

LEMMA SoundStep == Sound /\ [Next]_vars => Sound'
  BY TypesStep, FollowsStep, TrackedStep, CrossedStep, MarkingStep DEF Sound, Types

LEMMA SoundHolds == Spec => []Sound
  BY SoundInit, SoundStep, PTL DEF Spec

-----------------------------------------------------------------------------
(* The theorems. *)

\* Every variable of the Workspace has its type, and the hold mark is an annotation of a Sandbox:
\* releaseHold, the renewals and the apply never leave a mark without one.
THEOREM TypeOKHolds == Spec => []TypeOK
<1>1. Sound => TypeOK
  <2> SUFFICES ASSUME Sound PROVE TypeOK
    OBVIOUS
  <2>1. cr.uid \in 0..born /\ cr.phase \in Phases
    BY SMTT(30) DEF Sound, Types, ClusterOK, Sandboxes
  <2>2. hold \in {"none", "held", "released"} /\ (hold = "none" <=> ~There)
    BY DEF Sound, Types, ClusterOK
  <2>3. watch.synced \in BOOLEAN /\ watch.upto \in 0..born /\ watch.sandbox.uid \in 0..watch.upto
    <3>1. /\ watch.synced \in BOOLEAN /\ watch.upto \in Nat /\ watch.upto <= born /\ born \in Nat
          /\ watch.sandbox.uid \in {0, watch.upto}
      BY DEF Sound, Types, ClusterOK, WatchOK, Caches, Follows
    <3>2. watch.upto \in 0..born /\ watch.sandbox.uid \in 0..watch.upto
      BY <3>1, SMTT(30)
    <3> QED BY <3>1, <3>2
  <2>4. /\ ws \in Wrappers /\ ws.uid \in Nat /\ ws.uid <= born /\ born \in Nat
    BY DEF Sound, Types, RunOK, ClusterOK, Settled, Wrappers
  <2>5. ws.uid \in 0..born
    BY <2>4, SMTT(30)
  <2>6. /\ ws.at \in Leased \cup Ending \cup {"off", "over"}
        /\ {ws.seen, ws.told, ws.asked, ws.stale, ws.crossed} \subseteq BOOLEAN
    BY <2>4 DEF Wrappers, States
  <2>7. /\ orphans \in Nat /\ orphans <= invokes /\ invokes \in 0..MaxInvokes
        /\ net \subseteq {"apply", "delete", "release", "renew"}
        /\ saved.at \notin {"waiting", "undoing"}
        /\ {up, marred} \subseteq BOOLEAN /\ faults \in 0..MaxFaults
    BY DEF Sound, Types, RunOK, Counts
  <2>8. orphans \in 0..MaxInvokes
    BY <2>7, BoundsAssumption, SMTT(30)
  <2> QED BY <2>1, <2>2, <2>3, <2>5, <2>6, <2>7, <2>8 DEF TypeOK
<1> QED BY <1>1, SoundHolds, PTL

\* judgeLoss and continuityOf: a Workspace that says its Sandbox is lost is right, however the watch
\* lags and whatever became of earlier Sandboxes of the name, unless it applied over a stale watch.
THEOREM NoFalseLossHolds == Spec => NoFalseLoss
<1> DEFINE right == ws.stale \/ cr.uid # ws.uid \/ cr.phase = "Lost" \/ cr.deleting
<1>1. ASSUME Sound, PlaceLost \/ AttachLost \/ HearLoss PROVE right
  <2> SUFFICES ASSUME ~ws.stale, cr.uid = ws.uid PROVE cr.phase = "Lost" \/ cr.deleting
    OBVIOUS
  <2>1. ws.at \in Working /\ watch.synced
    BY <1>1 DEF PlaceLost, AttachLost, HearLoss, Working
  <2>2. \/ watch.sandbox.uid = 0 /\ (ws.at # "waiting" \/ ws.seen)
        \/ watch.sandbox.says = "lost"
    BY <1>1 DEF PlaceLost, AttachLost, HearLoss, SaysLost
  <2>3. ws.uid # 0
    BY <1>1, <2>1 DEF Sound, Types, RunOK, Settled
  <2>4. \/ watch.upto = born
        \/ watch.sandbox.uid = 0 /\ ws.at = "waiting" /\ ~ws.seen
    BY <1>1, <2>1 DEF Sound, Tracked
  <2>5. CASE watch.upto = born
    <3>1. watch.sandbox.uid = cr.uid /\ watch.sandbox.uid # 0
      BY <1>1, <2>1, <2>3, <2>5 DEF Sound, Follows, There
    <3> QED BY <1>1, <2>2, <3>1 DEF Sound, Follows
  <2>6. CASE watch.sandbox.uid = 0 /\ ws.at = "waiting" /\ ~ws.seen
    BY <1>1, <2>2, <2>6 DEF Sound, Follows
  <2> QED BY <2>4, <2>5, <2>6
<1>2. Sound /\ [Next]_vars => [PlaceLost \/ AttachLost \/ HearLoss => right]_vars
  BY <1>1
<1> QED BY <1>2, SoundHolds, PTL DEF Spec, NoFalseLoss

\* The abort listener of a stopped place and the host's destroySandboxes: a delete that lands on the
\* Sandbox a live Workspace works in was sent before that Workspace was invoked.
THEOREM SparesHeldHolds == Spec => SparesHeld
<1>1. ASSUME Sound, LandDelete,
             ws.at \in {"waiting", "provisioning", "attaching", "running"}, cr.uid = ws.uid
      PROVE  ws.crossed
  BY <1>1 DEF Sound, Crossed, Working, LandDelete
<1>2. Sound /\ [Next]_vars =>
        [LandDelete /\ ws.at \in {"waiting", "provisioning", "attaching", "running"}
           /\ cr.uid = ws.uid => ws.crossed]_vars
  BY <1>1
<1> QED BY <1>2, SoundHolds, PTL DEF Spec, SparesHeld

\* The Lease's stop, a Lease nobody stopped, the release and the deletes: once the run's writes have
\* landed, a Sandbox it has left and that stays carries the mark `released`.
THEOREM FreeIsMarkedHolds == Spec => []FreeIsMarked
<1>1. Sound => FreeIsMarked
  BY DEF Sound, Marking, FreeIsMarked
<1> QED BY <1>1, SoundHolds, PTL
=============================================================================

------------------------------ MODULE Workspace ------------------------------
(***************************************************************************)
(* One Workspace of a run: the wrapper Machine a parent invokes, under one *)
(* invoke id and so under one Sandbox name, again and again.  The wrapper  *)
(* applies the Sandbox, waits for it, attaches, runs the body and deletes  *)
(* it; a Lease renews it and writes the hold mark; the Orchestrator's      *)
(* watch, which lags the cluster and may be down, is all that either       *)
(* hears.  Writes of the run that nobody awaits (a renewal, a release, a   *)
(* delete, the apply of a place that was stopped) land later, in any       *)
(* order, or fail and are not sent again.  The Orchestrator may crash and  *)
(* restore from the last state it saved.                                   *)
(*                                                                         *)
(* The Sandbox itself moves as SandboxStatus says.                         *)
(***************************************************************************)
EXTENDS SandboxStatus

CONSTANTS
  MaxInvokes,    \* bound: times the parent invokes the Workspace
  MaxFaults      \* bound: Sandboxes deleted by hand, applies refused, writes that fail or are
                 \* given up, and crashes of the Orchestrator, together

ASSUME BoundsAssumption == MaxInvokes \in Nat /\ MaxFaults \in Nat

VARIABLES
  hold,      \* the Sandbox's annotation jr2.dev/hold; "none" when there is none
  watch,     \* the watch's cache of the name: whether it has listed, what it holds, and the
             \* last uid it has heard of
  ws,        \* the Workspace
  net,       \* writes under way that no live Workspace awaits
  orphans,   \* how many Leases run whose Workspace ended in error, which nothing stopped
  marred,    \* history: a crash, a delete or a release that failed, a renewal that landed after
             \* the release, or a stopped place that created a Sandbox under a live
             \* Workspace's name
  saved,     \* the Workspace in the run's last saved snapshot
  up,        \* whether the Orchestrator runs
  invokes, faults

cluster  == <<cr, born, hold>>
counters == <<invokes, faults>>
vars     == <<cr, born, hold, watch, ws, net, orphans, marred, saved, up, invokes, faults>>

\* "off": not invoked, or over and the parent goes on; "over": the run has ended.  "applying",
\* "waiting" and "undoing" are `placing`: the apply, the wait, and the delete a failed place makes.
Off == [at |-> "off", uid |-> 0, seen |-> FALSE, told |-> FALSE, asked |-> FALSE,
        stale |-> FALSE, crossed |-> FALSE]
At(state) == [Off EXCEPT !.at = state]
Invoked(inFlight) == [Off EXCEPT !.at = "applying", !.crossed = "delete" \in inFlight]

Placing == {"applying", "waiting", "undoing"}
Leased  == Placing \cup {"provisioning", "attaching", "running"}
Ending  == {"teardown", "failing", "undoing"}
Absent   == [uid |-> 0, says |-> "none"]
Unsynced == [synced |-> FALSE, sandbox |-> Absent, upto |-> 0]

Init ==
  /\ StatusInit /\ hold = "none" /\ watch = Unsynced
  /\ ws = Off /\ net = {} /\ orphans = 0 /\ marred = FALSE /\ saved = Off /\ up = TRUE
  /\ invokes = 0 /\ faults = 0

\* One of the bounded faults.  After the last, no crash is left to read what was saved.
Spend ==
  /\ faults < MaxFaults /\ faults' = faults + 1
  /\ saved' = IF faults' < MaxFaults THEN saved ELSE Off

\* heldSandboxes: an active Workspace of the run has this name, in `placing` or later.
Held == ws.at \notin {"off", "over"}

-----------------------------------------------------------------------------
(* Writes, as they land.                                                   *)

ApplyLands ==
  /\ IF There THEN UNCHANGED <<cr, born>> ELSE Create
  /\ hold' = "held"

DeleteLands ==
  /\ IF There THEN DeleteForeground ELSE UNCHANGED <<cr, born>>
  /\ UNCHANGED hold

\* The delete of a Sandbox that no live Workspace awaits: by the run host, after a stop.
LandDelete ==
  /\ "delete" \in net /\ net' = net \ {"delete"}
  /\ DeleteLands
  /\ UNCHANGED <<watch, ws, orphans, marred, saved, up, counters>>

\* releaseHold: a Sandbox that is gone is a 404, and nothing.
LandRelease ==
  /\ "release" \in net /\ net' = net \ {"release"}
  /\ hold' = IF There THEN "released" ELSE hold
  /\ UNCHANGED <<cr, born, watch, ws, orphans, marred, saved, up, counters>>

\* renew: the stamp the idle GC reads, and the hold mark again.  The Lease does not wait for
\* it: the last one may land after the release that followed it, or after the Sandbox went.
LandRenew ==
  /\ "renew" \in net /\ net' = net \ {"renew"}
  /\ IF There THEN Stamp /\ hold' = "held" ELSE UNCHANGED cluster
  /\ marred' = (marred \/ (There /\ ~Held /\ net' = {} /\ orphans = 0))
  /\ UNCHANGED <<watch, ws, orphans, saved, up, counters>>

DeletesAlways(held) == {"delete"}

\* What the abort listener of a stopped place sends once its write has settled.
AfterPlace(held) == IF held THEN {} ELSE {"delete"}

\* The apply of a stopped place lands, and its listener deletes what it wrote unless a live
\* Workspace of the run holds the name by then.
LandApply ==
  /\ "apply" \in net /\ ApplyLands
  /\ net' = (net \ {"apply"}) \cup AfterPlace(Held)
  /\ marred' = (marred \/ (Held /\ ~There))
  /\ UNCHANGED <<watch, ws, orphans, saved, up, counters>>

\* One of them fails: the error is dropped, and nothing sends it again.  The listener of a
\* stopped place goes on as after a write that landed.
LandFails ==
  /\ Spend
  /\ \E write \in net :
       /\ net' = (net \ {write}) \cup (IF write = "apply" THEN AfterPlace(Held) ELSE {})
       /\ marred' = (marred \/ (write \in {"delete", "release"} /\ ~Held))
  /\ UNCHANGED <<cluster, watch, ws, orphans, up, invokes>>

-----------------------------------------------------------------------------
(* The wrapper's ends.                                                     *)

\* Where the parent goes: it waits elsewhere, or invokes the same Machine again at once; or
\* the run ends.
GoesOn(inFlight) ==
  \/ ws' = Off /\ UNCHANGED invokes
  \/ invokes < MaxInvokes /\ ws' = Invoked(inFlight) /\ invokes' = invokes + 1

Over == ws' = At("over") /\ UNCHANGED invokes

\* The wrapper ends in error.  A parent that catches it goes on, and the wrapper's Lease is
\* left running; uncaught, the run faults and its actors stop, this Lease among them, with
\* the hold released and the Sandbox left.
Errs ==
  \/ GoesOn(net) /\ orphans' = orphans + 1 /\ UNCHANGED net
  \/ Over /\ net' = net \cup {"release"} /\ UNCHANGED orphans

\* What a stop of the Workspace from outside leaves under way.  `deletes`: the host deletes
\* the Sandboxes of what it stops (a cancel, a failed run, a failed Machine), except one still
\* `placing`, whose abort listener does.  A delete already sent goes on.
Leaves(at, asked, deletes, held) ==
  (IF at \in Leased /\ ~held THEN {"release"} ELSE {})
    \cup (IF at = "applying" THEN {"apply"} ELSE {})
    \cup (IF at \in {"waiting", "undoing"} THEN AfterPlace(held) ELSE {})
    \cup (IF at \in Ending /\ ~asked THEN {"delete"} ELSE {})
    \cup (IF at \notin Placing /\ deletes /\ ~held THEN {"delete"} ELSE {})

\* The parent leaves the Workspace's state, or a Machine around it fails and is stopped; the
\* parent may enter the state again in the same step.
Leave ==
  /\ up /\ Held /\ (ws.at = "applying" => "apply" \notin net)
  /\ \E deletes, again \in BOOLEAN :
       /\ net' = net \cup Leaves(ws.at, ws.asked, deletes, again)
       /\ IF again THEN invokes < MaxInvokes /\ ws' = Invoked(net') /\ invokes' = invokes + 1
                   ELSE ws' = Off /\ UNCHANGED invokes
  /\ UNCHANGED <<cluster, watch, orphans, marred, saved, up, faults>>

\* The run ends around it: cancelled (with or without `keep`), failed or faulted.
End ==
  /\ up /\ Held /\ (ws.at = "applying" => "apply" \notin net)
  /\ \E deletes \in BOOLEAN : net' = net \cup Leaves(ws.at, ws.asked, deletes, FALSE)
  /\ Over
  /\ UNCHANGED <<cluster, watch, orphans, marred, saved, up, faults>>

-----------------------------------------------------------------------------
(* The wrapper's states.                                                   *)

Invoke ==
  /\ up /\ ws.at = "off" /\ invokes < MaxInvokes
  /\ ws' = Invoked(net) /\ invokes' = invokes + 1
  /\ UNCHANGED <<cluster, watch, net, orphans, marred, saved, up, faults>>

\* place: the apply, over a Sandbox that is there or as a new one, marked held.
Place ==
  /\ up /\ ws.at = "applying"
  /\ ApplyLands
  /\ ws' = [ws EXCEPT !.at = "waiting", !.uid = cr'.uid,
                      !.stale = watch.synced /\ (\/ watch.upto # born
                                                 \/ watch.sandbox.uid \notin {0, cr'.uid})]
  /\ UNCHANGED <<watch, net, orphans, marred, saved, up, counters>>

\* A write of the place is refused, before the apply or after it: as for a failed wait, what may
\* be there is deleted before the error goes up.
PlaceFails ==
  /\ up /\ ws.at = "applying" /\ Spend
  /\ ApplyLands \/ UNCHANGED cluster
  /\ ws' = At("undoing")
  /\ UNCHANGED <<watch, net, orphans, marred, up, invokes>>

\* judgeLoss, and continuityOf: the watch says the Sandbox is Lost, or that there is none when
\* there should be.
AnyAbsence(seen) == watch.sandbox.uid = 0 \/ watch.sandbox.says = "lost"
OnlyLost(seen)   == watch.sandbox.says = "lost"
SaysLost(seen) == (watch.sandbox.uid = 0 /\ seen) \/ watch.sandbox.says = "lost"

Placed == watch.sandbox.says \in {"placed", "ready"}

\* The wait for a node: a loss ends it, as a failure; a node ends it.
PlaceLost ==
  /\ up /\ ws.at = "waiting" /\ watch.synced /\ SaysLost(ws.seen)
  /\ ws' = At("undoing")
  /\ UNCHANGED <<cluster, watch, net, orphans, marred, saved, up, counters>>

HearPlacing ==
  /\ up /\ ws.at = "waiting" /\ watch.synced /\ ~SaysLost(ws.seen)
  /\ watch.sandbox.uid # 0
  /\ ws' = IF Placed THEN [ws EXCEPT !.seen = FALSE, !.at = "provisioning"]
                     ELSE [ws EXCEPT !.seen = TRUE]
  /\ UNCHANGED <<cluster, watch, net, orphans, marred, saved, up, counters>>

\* The wait for Ready; it fails by name, or at the end of its budget.
HearProvisioning ==
  /\ up /\ ws.at = "provisioning" /\ watch.synced /\ ~SaysLost(TRUE)
  /\ watch.sandbox.says = "ready"
  /\ ws' = [ws EXCEPT !.at = "attaching"]
  /\ UNCHANGED <<cluster, watch, net, orphans, marred, saved, up, counters>>

\* The Harness answers the attach, or there is no Repo Slot and nothing to ask it.
Attach ==
  /\ up /\ ws.at = "attaching"
  /\ ws' = [ws EXCEPT !.at = "running"]
  /\ UNCHANGED <<cluster, watch, net, orphans, marred, saved, up, counters>>

\* The provision or the attach fails for a loss the watch says.  No state of the wrapper catches it.
AttachLost ==
  /\ up /\ ws.at \in {"provisioning", "attaching"} /\ watch.synced /\ SaysLost(TRUE)
  /\ Errs
  /\ UNCHANGED <<cluster, watch, marred, saved, up, faults>>

\* Nor an error of another kind: the place refuses the Machine's input before any write, the
\* provision's budget is spent, the attach is refused, the body ends in a defect.
Fault ==
  /\ up /\ ws.at \in {"applying", "provisioning", "attaching", "running"}
  /\ Errs
  /\ UNCHANGED <<cluster, watch, marred, saved, up, faults>>

\* The Lease's subscription in `running`: the loss goes to the body, once.
HearLoss ==
  /\ up /\ ws.at = "running" /\ watch.synced /\ SaysLost(TRUE) /\ ~ws.told
  /\ ws' = [ws EXCEPT !.told = TRUE]
  /\ UNCHANGED <<cluster, watch, net, orphans, marred, saved, up, counters>>

\* The body is done, or fails with a Failure: the Sandbox is deleted first either way.
BodyEnds ==
  /\ up /\ ws.at = "running"
  /\ \E at \in {"teardown", "failing"} : ws' = At(at)
  /\ UNCHANGED <<cluster, watch, net, orphans, marred, saved, up, counters>>

\* destroy: the delete lands, and is polled until the Sandbox is gone.
Destroy ==
  /\ up /\ ws.at \in Ending /\ ~ws.asked
  /\ DeleteLands /\ ws' = [ws EXCEPT !.asked = TRUE]
  /\ UNCHANGED <<watch, net, orphans, marred, saved, up, counters>>

\* What follows it: done, the Failure raised (caught, or the end of the run), or the place's error.
AfterDestroy ==
  \/ ws.at = "teardown" /\ GoesOn(net) /\ UNCHANGED <<net, orphans>>
  \/ ws.at = "failing" /\ (GoesOn(net) \/ Over) /\ UNCHANGED <<net, orphans>>
  \/ ws.at = "undoing" /\ Errs

Destroyed ==
  /\ up /\ ws.at \in Ending /\ ws.asked /\ ~There
  /\ AfterDestroy
  /\ UNCHANGED <<cluster, watch, marred, saved, up, faults>>

\* The delete is refused, or the poll gives up: the idle GC's problem, not the run's.
DestroyFails ==
  /\ up /\ ws.at \in Ending /\ Spend
  /\ AfterDestroy /\ marred' = TRUE
  /\ UNCHANGED <<cluster, watch, up>>

-----------------------------------------------------------------------------
(* The Lease's timer.                                                      *)

\* The tick of a live Workspace's Lease sends a renewal.
LeaseTick ==
  /\ up /\ ws.at \in Leased /\ net' = net \cup {"renew"}
  /\ UNCHANGED <<cluster, watch, ws, orphans, marred, saved, up, counters>>

RenewsForNobody ==
  /\ up /\ orphans > 0 /\ net' = net \cup {"renew"}
  /\ UNCHANGED <<cluster, watch, ws, orphans, marred, saved, up, counters>>
StopsSilently ==
  /\ up /\ orphans > 0 /\ orphans' = orphans - 1
  /\ UNCHANGED <<cluster, watch, ws, net, marred, saved, up, counters>>

\* The tick of a Lease whose Workspace is over: it ends, and releases the mark unless a live
\* Workspace of the run holds the name.
OrphanTick ==
  /\ up /\ orphans > 0 /\ orphans' = orphans - 1
  /\ net' = IF Held THEN net ELSE net \cup {"release"}
  /\ UNCHANGED <<cluster, watch, ws, marred, saved, up, counters>>

-----------------------------------------------------------------------------
(* The watch.                                                              *)

\* What of a Sandbox the watch's readers read: lossOf, phase Ready, the Scheduled condition.
Shown ==
  [uid |-> cr.uid, says |-> IF cr.phase = "Lost" THEN "lost"
                            ELSE IF cr.phase = "Ready" THEN "ready"
                            ELSE IF cr.scheduled THEN "placed" ELSE "none"]

\* A list, or the events up to now.
WatchCatchesUp ==
  /\ up
  /\ watch' = [synced |-> TRUE, sandbox |-> Shown, upto |-> born]
  /\ UNCHANGED <<cluster, ws, net, orphans, marred, saved, up, counters>>

\* The events of Sandboxes of the name that are gone by now, one by one.
WatchPasses ==
  /\ up /\ watch.synced
  /\ \/ /\ watch.sandbox.uid \notin {0, cr.uid}
        /\ watch' = [watch EXCEPT !.sandbox = Absent]
     \/ \E uid \in watch.upto + 1 .. born, says \in {"none", "ready", "lost"} :
          /\ uid # cr.uid
          /\ watch' = [watch EXCEPT !.upto = uid, !.sandbox = [uid |-> uid, says |-> says]]
  /\ UNCHANGED <<cluster, ws, net, orphans, marred, saved, up, counters>>

-----------------------------------------------------------------------------
(* The run's saves, the Orchestrator's crash, and the restore.             *)

\* Only the wrapper's state is saved, not what an actor of it has heard or sent: restored, a
\* place applies anew, a destroy deletes anew, a Lease judges anew.
Restored == [Off EXCEPT !.at  = IF ws.at \in Placing THEN "applying" ELSE ws.at,
                        !.uid = IF ws.at \in Placing THEN 0 ELSE ws.uid]

Save ==
  /\ up /\ saved # Restored /\ faults < MaxFaults
  /\ saved' = Restored
  /\ UNCHANGED <<cluster, watch, ws, net, orphans, marred, up, counters>>

\* Writes under way are lost with the process, and so are its timers and its watch.
Crash ==
  /\ up /\ Spend
  /\ up' = FALSE /\ marred' = TRUE /\ ws' = saved
  /\ net' = {} /\ orphans' = 0 /\ watch' = Unsynced
  /\ UNCHANGED <<cluster, invokes>>

Restart ==
  /\ ~up /\ up' = TRUE
  /\ UNCHANGED <<cluster, watch, ws, net, orphans, marred, saved, counters>>

-----------------------------------------------------------------------------
(* The cluster.                                                            *)

\* The operator reports on the Sandbox.
Operate ==
  /\ \/ Report("Pending", FALSE) \/ Report("Pending", TRUE) \/ Report("Ready", TRUE)
     \/ Lose \/ SayTerminating
  /\ cr' # cr
  /\ UNCHANGED <<hold, watch, ws, net, orphans, marred, saved, up, counters>>

\* The idle timeout, many renewals long, runs out on a Sandbox that nothing renews.
RunOut ==
  /\ ~(up /\ ws.at \in Leased)
  /\ Lapse
  /\ UNCHANGED <<hold, watch, ws, net, orphans, marred, saved, up, counters>>

\* The idle GC of a lapsed Sandbox, and the end of a foreground delete.
Collect ==
  /\ cr.lapsed \/ cr.deleting
  /\ Gone /\ hold' = "none"
  /\ UNCHANGED <<watch, ws, net, orphans, marred, saved, up, counters>>

\* A delete by hand.
Remove ==
  /\ Spend
  /\ Gone /\ hold' = "none"
  /\ UNCHANGED <<watch, ws, net, orphans, marred, up, invokes>>

-----------------------------------------------------------------------------
Next ==
  \/ Invoke \/ Place \/ PlaceFails \/ PlaceLost \/ HearPlacing \/ HearProvisioning \/ Attach
  \/ AttachLost \/ Fault \/ HearLoss \/ BodyEnds \/ Destroy \/ Destroyed \/ DestroyFails \/ Leave \/ End
  \/ LandDelete \/ LandRelease \/ LandApply \/ LandRenew \/ LandFails \/ LeaseTick \/ OrphanTick
  \/ WatchCatchesUp \/ WatchPasses \/ Save \/ Crash \/ Restart
  \/ Operate \/ RunOut \/ Collect \/ Remove

Spec == Init /\ [][Next]_vars

\* Requests land, timers fire, the watch is retried until it lists, the kubelet restarts the
\* Orchestrator, the operator reconciles.  What the parent and the body do is nobody's promise.
Fairness ==
  /\ WF_vars(LandDelete \/ LandRelease \/ LandApply \/ OrphanTick)
  /\ WF_vars(LeaseTick) /\ WF_vars(LandRenew)
  /\ WF_vars(Restart \/ WatchCatchesUp \/ HearLoss)
  /\ WF_vars(RunOut \/ Collect)

FairSpec == Spec /\ Fairness

-----------------------------------------------------------------------------
(* Properties.                                                             *)

\* Every variable has its type, and the hold mark is an annotation of a Sandbox: none without one
\* (a release that finds no Sandbox writes nothing).
TypeOK ==
  /\ cr.uid \in 0..born /\ cr.phase \in Phases
  /\ hold \in {"none", "held", "released"} /\ (hold = "none" <=> ~There)
  /\ watch.synced \in BOOLEAN /\ watch.upto \in 0..born /\ watch.sandbox.uid \in 0..watch.upto
  /\ ws.at \in Leased \cup Ending \cup {"off", "over"} /\ ws.uid \in 0..born
  /\ {ws.seen, ws.told, ws.asked, ws.stale, ws.crossed} \subseteq BOOLEAN
  /\ net \subseteq {"apply", "delete", "release", "renew"} /\ orphans \in 0..MaxInvokes
  /\ saved.at \notin {"waiting", "undoing"} /\ {up, marred} \subseteq BOOLEAN
  /\ invokes \in 0..MaxInvokes /\ faults \in 0..MaxFaults

\* A Workspace says its Sandbox is lost (to the body, or as the error of a place, a provision or an
\* attach: judgeLoss, continuityOf) only when the Sandbox it applied is Lost, being deleted or gone.
\* Not claimed of one that applied while the watch still lagged at an earlier Sandbox of the name.
NoFalseLoss ==
  [][PlaceLost \/ AttachLost \/ HearLoss =>
       ws.stale \/ cr.uid # ws.uid \/ cr.phase = "Lost" \/ cr.deleting]_vars

\* No delete of the run's own (the abort listener of a stopped place, the host's destroySandboxes)
\* hits the Sandbox a live Workspace works in, unless it was under way when the Workspace was invoked.
SparesHeld ==
  [][LandDelete /\ ws.at \in {"waiting", "provisioning", "attaching", "running"} /\ cr.uid = ws.uid =>
        ws.crossed]_vars

\* A Sandbox that the run has left and that stays is marked `released`, for `jr2 workspace rm` to
\* take, once the run's writes have landed: whichever way its Lease stopped.  A crash, a failed
\* delete or a failed release leaves the mark as it was, so does a stopped place whose apply
\* outlives the Sandbox of the Workspace after it, and a renewal that lands after the release
\* writes held over it: those are the idle GC's (Reaped).
FreeIsMarked ==
  up /\ ~Held /\ net = {} /\ orphans = 0 /\ ~marred /\ There /\ ~cr.deleting
    => hold = "released"

Mourned == ws.at = "running" /\ (~There \/ (cr.uid = ws.uid /\ cr.phase = "Lost"))

\* A body whose Sandbox is gone or Lost is told so (workspace.lost), across a watch that is down, a
\* crash and a restore; unless it leaves `running`, or another Sandbox has taken the name.
LossHeard == Mourned ~> (ws.told \/ ws.at # "running" \/ (There /\ cr.uid # ws.uid))

\* A Sandbox no Workspace holds goes, whatever was lost on the way (a delete that failed, a crash
\* between the state's end and the delete, a Lease nobody stopped), unless it is held again.
Reaped == (~Held /\ There) ~> (Held \/ ~There)
=============================================================================

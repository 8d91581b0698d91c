------------------------------ MODULE RepoFetch ------------------------------
(***************************************************************************)
(* A `git fetch` inside a Sandbox, end to end.  Nothing in the pod talks   *)
(* to the remote: the program behind origin asks the Orchestrator, which   *)
(* marks the Sandbox with the time of the ask; the operator copies the     *)
(* mark to the pod; the node's cache agent, which reads its demand off     *)
(* pods, fetches the node's bare clone and reports on the Repo; the        *)
(* operator puts the report on the Sandbox's status, the Orchestrator's    *)
(* watch hears it and the ask is answered.  The program then serves the    *)
(* node's cache to git.  A Sandbox's creation is an ask as well, and the   *)
(* gate before Ready is its answer.                                        *)
(*                                                                         *)
(* One Repo, one node, one Sandbox that has just been made.  Time is in    *)
(* whole seconds, within which events follow in any order: a stamp is the  *)
(* second of its event, and an ask, which is marked to the millisecond, is *)
(* somewhere inside its second.  One clock stands for those of the agent,  *)
(* the Orchestrator and the API server, whose stamps the code compares as  *)
(* they are: no skew between them is modelled.  A push is a version, and a *)
(* version holds those before it.                                          *)
(***************************************************************************)
EXTENDS Integers, Sequences, FiniteSets

CONSTANTS
  MaxAsks,     \* bound: fetches made inside the pod
  MaxTime,     \* bound: the last second; no ask is made in it, and a wait past it ends in it
  MaxPushes,   \* bound: pushes to the remote
  MaxFaults,   \* bound: git calls that fail, ends of the agent, asks cut short
  Earliest     \* the shortest refresh interval, jitter taken off

ASSUME BoundsAssumption ==
  /\ MaxAsks \in Nat /\ MaxTime \in Nat /\ MaxPushes \in Nat /\ MaxFaults \in Nat
  /\ Earliest \in Nat \ {0}

VARIABLES
  now,
  pushed,     \* when each version was pushed
  disk,       \* the node's cache directory: what it holds, and the marker of a clone under way
  repo,       \* this node's entry in the Repo's status
  seen,       \* the agent's copy of it, which may lag
  pod,        \* the pod's creation and its mark
  agent,      \* the agent's worker on this key
  queue,      \* whether the key is queued, and when it comes back by itself
  sandbox,    \* creation, mark, the entry in status.repos and the verdict of the gate
  asks,       \* each fetch: its ask, its answer and its reading of the cache
  seat,       \* the ask that openAsks holds for this Sandbox and key
  faults

node    == <<disk, seen, agent, queue>>
git     == <<asks, seat>>
vars    == <<now, pushed, disk, repo, seen, pod, agent, queue, sandbox, asks, seat,
             faults>>

Asks   == 1..MaxAsks    \* in the order in which they are made
Nobody == 0
Never  == MaxTime + 1
NoTime == -1            \* a stamp that is not there
Start  == 1             \* the second in which the Sandbox is made

\* Mutant of AskedAt: an ask is lowered to its own second.
LoweredAsk(t) == t

\* AskedAt, askedAt: an ask inside the second t is raised to the next.
AskedAt(t) == IF t = NoTime THEN NoTime ELSE t + 1

Later(s, t)  == IF s > t THEN s ELSE t
Sooner(s, t) == IF s < t THEN s ELSE t

Remote    == Len(pushed)
Before(t) == Cardinality({v \in 1..Len(pushed) : pushed[v] < t})

NoEntry  == [present |-> FALSE, synced |-> FALSE, tried |-> "", last |-> NoTime, fetched |-> NoTime]
NoPod    == [created |-> NoTime, mark |-> NoTime]
NoReport == [asked |-> NoTime, fetched |-> NoTime, error |-> FALSE]
Idle     == [at |-> "idle", stamp |-> NoTime, asked |-> NoTime, from |-> 0, entry |-> NoEntry,
             error |-> FALSE]
Unasked  == [at |-> "none", t |-> NoTime, by |-> Nobody, had |-> 0, answer |-> "", asOf |-> NoTime]
Emptied  == [holds |-> "none", version |-> 0, marker |-> FALSE]
Whole(v) == [holds |-> "whole", version |-> v, marker |-> FALSE]

\* The entry of a fetch before the remote's first push.
OldEntry == [present |-> TRUE, synced |-> TRUE, tried |-> "Fetch", last |-> 0, fetched |-> 0]

\* A cold node, or one whose cache is old, each with the entry of it or another's: the node may
\* have been re-imaged under its name, or the agent may have ended before it reported its clone.
Init ==
  /\ now = Start /\ pushed = <<Start - 1>>
  /\ disk \in {Emptied, Whole(0)} /\ repo \in {NoEntry, OldEntry}
  /\ seen = repo /\ pod = NoPod
  /\ agent = Idle /\ queue = [now |-> TRUE, at |-> Never]
  /\ sandbox = [created |-> Start, mark |-> NoTime, entry |-> NoReport, gate |-> "pending"]
  /\ asks = [a \in Asks |-> Unasked] /\ seat = Nobody
  /\ faults = 0

Fault == faults < MaxFaults /\ faults' = faults + 1

Tick ==
  /\ now < MaxTime /\ now' = now + 1
  /\ UNCHANGED <<pushed, node, repo, pod, sandbox, git, faults>>

Push ==
  /\ Len(pushed) < MaxPushes /\ pushed' = Append(pushed, now)
  /\ UNCHANGED <<now, node, repo, pod, sandbox, git, faults>>

-----------------------------------------------------------------------------
(* The cache agent.  What it reads of pods comes with the event that       *)
(* queues the key; its copy of the Repo comes by itself.                   *)

\* demand, askOf: whether a pod here mounts the cache, and when it last asked.
Wanted == pod # NoPod
Asked  == Later(pod.created, AskedAt(pod.mark))

present(d) == d.holds # "none"

\* Mutant of discardHalfClone: the marker is not looked at.
LeavesHalf == disk

\* A marker that survived is a clone the agent did not finish.
discardHalfClone == IF disk.marker THEN Emptied ELSE disk

\* The key comes back: by an event, or because its wait is over.
Due == queue.now \/ queue.at <= now
ComeBack(t) == queue' = [queue EXCEPT !.at = Sooner(queue.at, Sooner(t, MaxTime))]

world == <<now, pushed, pod, sandbox, git>>

Begin(worker) ==
  /\ agent.at = "idle" /\ Due
  /\ queue' = [now |-> FALSE, at |-> IF queue.at <= now THEN Never ELSE queue.at]
  /\ agent' = worker
  /\ UNCHANGED <<world, repo, seen, faults>>

Stamped(state) == [Idle EXCEPT !.at = state, !.stamp = now]

Clone ==
  /\ ~present(discardHalfClone) /\ Wanted
  /\ disk' = [holds |-> "half", version |-> 0, marker |-> TRUE]
  /\ Begin([Stamped("cloning") EXCEPT !.from = Remote])

\* Nobody asks: the remote is looked at once, for the status alone.
Probe ==
  /\ ~present(discardHalfClone) /\ ~Wanted
  /\ disk' = discardHalfClone
  /\ Begin(IF seen.tried # "" /\ ~seen.present /\ seen.synced THEN Idle ELSE Stamped("probing"))

Refresh ==
  /\ present(discardHalfClone)
  /\ disk' = discardHalfClone
  /\ Begin([Stamped("pinning") EXCEPT !.asked = Asked, !.entry = seen])

\* What the worker goes on to report; `asked` stays where the fetch was stamped below it.
Reporting(entry, error) ==
  agent' = IF ~error /\ agent.asked > agent.stamp
           THEN [agent EXCEPT !.at = "reporting", !.from = 0, !.entry = entry]
           ELSE [Idle EXCEPT !.at = "reporting", !.entry = entry, !.error = error]

Attempt(tried, there, ok, fetched) ==
  [present |-> there, synced |-> ok, tried |-> tried, last |-> agent.stamp, fetched |-> fetched]

\* The clone holds what the remote had at some instant while git ran.
CloneEnds ==
  /\ agent.at = "cloning"
  /\ \E version \in agent.from..Remote : disk' = Whole(version)
  /\ Reporting(Attempt("Clone", TRUE, TRUE, agent.stamp), FALSE)
  /\ UNCHANGED <<world, repo, seen, queue, faults>>

CloneFails ==
  /\ agent.at = "cloning" /\ Fault
  /\ disk' = Emptied
  /\ Reporting(Attempt("Clone", FALSE, FALSE, NoTime), TRUE)
  /\ UNCHANGED <<world, repo, seen, queue>>

ProbeEnds ==
  /\ agent.at = "probing"
  /\ \/ Reporting(Attempt("Probe", FALSE, TRUE, NoTime), FALSE) /\ UNCHANGED faults
     \/ Reporting(Attempt("Probe", FALSE, FALSE, NoTime), TRUE) /\ Fault
  /\ UNCHANGED <<world, disk, repo, seen, queue>>

PinFails ==
  /\ agent.at = "pinning" /\ Fault
  /\ Reporting(Attempt("Fetch", TRUE, FALSE, agent.entry.fetched), TRUE)
  /\ UNCHANGED <<world, disk, repo, seen, queue>>

\* Mutant of OnDemand: the ask is compared with the attempt, not with the one before it.
AheadOfStamp == agent.asked > agent.stamp

\* Why a cache is fetched, as refresh reads its own last entry.
OnDemand == agent.asked > agent.entry.last
DueAnyway ==
  \/ agent.entry.last = NoTime \/ ~agent.entry.present
  \/ agent.stamp >= agent.entry.last + Earliest

NothingToDo ==
  /\ agent.at = "pinning" /\ ~DueAnyway /\ ~OnDemand
  /\ agent' = Idle
  /\ UNCHANGED <<world, disk, repo, seen, queue, faults>>

\* A fetch now would be stamped below the ask it is for: wait for the top of its second, and if
\* that has passed, a moment.
AwaitSecond ==
  /\ agent.at = "pinning" /\ ~DueAnyway /\ OnDemand /\ agent.asked > agent.stamp
  /\ ComeBack(Later(agent.asked, now))
  /\ agent' = Idle
  /\ UNCHANGED <<world, disk, repo, seen, faults>>

Fetch ==
  /\ agent.at = "pinning" /\ (DueAnyway \/ (OnDemand /\ agent.asked <= agent.stamp))
  /\ agent' = [agent EXCEPT !.at = "fetching", !.from = Remote]
  /\ UNCHANGED <<world, disk, repo, seen, queue, faults>>

\* Mutant of FetchedAt: the instant at which the fetch is over.
FinishedAt == now

\* lastFetched is the instant at which the attempt started.
FetchedAt == agent.stamp

FetchEnds ==
  /\ agent.at = "fetching"
  /\ \E version \in Later(agent.from, disk.version)..Remote :
       disk' = [disk EXCEPT !.version = version]
  /\ Reporting(Attempt("Fetch", TRUE, TRUE, FetchedAt), FALSE)
  /\ UNCHANGED <<world, repo, seen, queue, faults>>

FetchFails ==
  /\ agent.at = "fetching" /\ Fault
  /\ Reporting(Attempt("Fetch", TRUE, FALSE, agent.entry.fetched), FALSE)
  /\ UNCHANGED <<world, disk, repo, seen, queue>>

\* How the key comes back: after an error, by the back-off; after a fetch that was stamped below
\* an ask, for that ask; else by the interval, whose end is Woken.
Requeue ==
  IF agent.error THEN ComeBack(now)
  ELSE IF agent.asked > agent.stamp THEN ComeBack(now + agent.asked - agent.stamp)
  ELSE UNCHANGED queue

\* report: the patch is conditional on the copy it was read from.
Report ==
  /\ agent.at = "reporting" /\ seen = repo
  /\ repo' = agent.entry
  /\ Requeue
  /\ agent' = Idle
  /\ UNCHANGED <<world, disk, seen, faults>>

ReportConflicts ==
  /\ agent.at = "reporting" /\ seen # repo
  /\ ComeBack(now)
  /\ agent' = Idle
  /\ UNCHANGED <<world, disk, repo, seen, faults>>

\* What else queues the key: the end of an interval's wait, and any other change of a pod here (its
\* status, which the kubelet writes).  Neither is owed to an ask.
Woken ==
  /\ agent.at = "idle" /\ ~Due /\ (Wanted \/ (repo.present /\ now >= repo.last + Earliest))
  /\ queue' = [queue EXCEPT !.now = TRUE]
  /\ UNCHANGED <<world, disk, repo, seen, agent, faults>>

\* A write of the status queues nothing (repoEvents).
SeesRepo ==
  /\ seen # repo /\ seen' = repo
  /\ UNCHANGED <<world, disk, repo, agent, queue, faults>>

\* The agent's process ends, and the next one lists everything.
AgentRestarts ==
  /\ Fault
  /\ agent' = Idle /\ queue' = [now |-> TRUE, at |-> Never] /\ seen' = repo
  /\ UNCHANGED <<world, disk, repo>>

-----------------------------------------------------------------------------
(* The operator.                                                           *)

\* Any change of a pod on the node queues the key (reposOfPod).
PodChanges(to) ==
  /\ pod' = to
  /\ queue' = IF to # pod THEN [queue EXCEPT !.now = TRUE] ELSE queue

\* The pod is made, bound to the node and started.
StartPod ==
  /\ pod = NoPod /\ PodChanges([created |-> now, mark |-> NoTime])
  /\ UNCHANGED <<now, pushed, disk, repo, seen, agent, sandbox, git, faults>>

askedFor == Later(sandbox.created, AskedAt(sandbox.mark))

\* The stamps are the node's own, whatever they say; the error is scoped to the ask.
repoStatuses ==
  [asked |-> askedFor, fetched |-> repo.fetched,
   error |-> repo.tried # "" /\ ~repo.synced /\ repo.last >= askedFor]

reposReadiness ==
  CASE ~repo.present /\ repo.tried = "Clone" /\ ~repo.synced /\ repo.last >= sandbox.created -> "failed"
    [] repo.present /\ repo.fetched >= sandbox.created -> "fresh"
    [] repo.present /\ repo.fetched < sandbox.created /\ repo.last >= sandbox.created /\ ~repo.synced -> "stale"
    [] OTHER -> "pending"

Admitted == sandbox.gate \in {"fresh", "stale"}

\* The Sandbox's mark, copied to its Pod.
reconcileAsks == PodChanges([pod EXCEPT !.mark = sandbox.mark])

\* The report is made again every time; once the gate has passed it is not asked again.
reconcileStatus ==
  sandbox' = [sandbox EXCEPT !.entry = repoStatuses,
                             !.gate = IF Admitted THEN sandbox.gate ELSE reposReadiness]

OperatorReconcile ==
  /\ pod # NoPod
  /\ reconcileAsks /\ reconcileStatus
  /\ UNCHANGED <<now, pushed, disk, repo, seen, agent, git, faults>>

-----------------------------------------------------------------------------
(* The ask, in the Orchestrator.                                           *)

rest == <<now, pushed, node, repo, pod>>

Ask(a) ==
  /\ asks[a].at = "none" /\ \A b \in 1..(a - 1) : asks[b].at # "none"
  /\ Admitted /\ now < MaxTime

Asking(at, by) == [Unasked EXCEPT !.at = at, !.t = now, !.by = by, !.had = Remote]

\* An ask whose bar is already waited on is the same ask; a later bar takes the seat.
Joins == seat # Nobody /\ AskedAt(asks[seat].t) >= AskedAt(now)

JoinAsk(a) ==
  /\ Ask(a) /\ Joins
  /\ asks' = [asks EXCEPT ![a] = Asking("waiting", seat)]
  /\ UNCHANGED <<rest, sandbox, seat, faults>>

OpenAsk(a) ==
  /\ Ask(a) /\ ~Joins
  /\ asks' = [asks EXCEPT ![a] = Asking("marking", a)]
  /\ seat' = a
  /\ UNCHANGED <<rest, sandbox, faults>>

Answered(ask, says, asOf) ==
  [Unasked EXCEPT !.at = "answered", !.had = ask.had, !.answer = says, !.asOf = asOf]

\* The asks of the other Sandboxes are at the cap: nothing is marked.
AskPastCap(a) ==
  /\ Ask(a) /\ seat = Nobody /\ Fault
  /\ asks' = [asks EXCEPT ![a] = Answered(Asking("", a), "stale", sandbox.entry.fetched)]
  /\ UNCHANGED <<rest, sandbox, seat>>

\* The Sandbox's entry read as an answer to the ask a; "" while it is outstanding.
verdict(a) ==
  LET entry == sandbox.entry IN
  IF entry.asked < AskedAt(asks[a].t) THEN ""
  ELSE IF entry.fetched >= entry.asked THEN "fetched"
  ELSE IF entry.error THEN "stale"
  ELSE ""

\* The wait that a opened ends, for a and for everyone who joined it.
Settle(a, says, asOf) ==
  /\ asks' = [b \in Asks |-> IF asks[b].by = a /\ asks[b].at \in {"marking", "waiting"}
                             THEN Answered(asks[b], says, asOf) ELSE asks[b]]
  /\ seat' = IF seat = a THEN Nobody ELSE seat

\* The mark lands, and the patch answers the object as it then stands.
Mark(a) ==
  /\ asks[a].at = "marking"
  /\ sandbox' = [sandbox EXCEPT !.mark = asks[a].t]
  /\ \/ verdict(a) # "" /\ Settle(a, verdict(a), sandbox.entry.fetched)
     \/ verdict(a) = "" /\ asks' = [asks EXCEPT ![a].at = "waiting"] /\ UNCHANGED seat
  /\ UNCHANGED <<rest, faults>>

MarkRefused(a) ==
  /\ asks[a].at = "marking" /\ Fault
  /\ Settle(a, "stale", NoTime)
  /\ UNCHANGED <<rest, sandbox>>

Waits(a) == asks[a].at = "waiting" /\ asks[a].by = a

\* The watch's event, whenever it comes.
Hears(a) ==
  /\ Waits(a) /\ verdict(a) # ""
  /\ Settle(a, verdict(a), sandbox.entry.fetched)
  /\ UNCHANGED <<rest, sandbox, faults>>

BudgetEnds(a) ==
  /\ Waits(a) /\ Fault
  /\ Settle(a, "stale", sandbox.entry.fetched)
  /\ UNCHANGED <<rest, sandbox>>

\* The program serves what the cache then holds, whatever the answer.
Serve(a) ==
  /\ asks[a].at = "answered"
  /\ asks' = [asks EXCEPT ![a] = [Unasked EXCEPT !.at = "served"]]
  /\ UNCHANGED <<rest, sandbox, seat, faults>>

-----------------------------------------------------------------------------
Works ==
  \/ Clone \/ Probe \/ Refresh \/ CloneEnds \/ CloneFails \/ ProbeEnds \/ PinFails
  \/ NothingToDo \/ AwaitSecond \/ Fetch \/ FetchEnds \/ FetchFails \/ Report \/ ReportConflicts

Fetching(a) ==
  \/ JoinAsk(a) \/ OpenAsk(a) \/ AskPastCap(a) \/ Mark(a) \/ MarkRefused(a) \/ Hears(a)
  \/ BudgetEnds(a) \/ Serve(a)

Next ==
  \/ Tick \/ Push \/ Works \/ Woken \/ SeesRepo \/ AgentRestarts
  \/ StartPod \/ OperatorReconcile \/ \E a \in Asks : Fetching(a)

Spec == Init /\ [][Next]_vars

\* Time passes; a git call ends within its budget, a queue is worked, a copy catches up, a patch
\* lands and an event arrives.  No fairness brings an ask's budget or the interval to its end.
Fairness ==
  /\ WF_vars(Tick) /\ WF_vars(Works) /\ WF_vars(SeesRepo)
  /\ WF_vars(StartPod) /\ WF_vars(OperatorReconcile)
  /\ \A a \in Asks : WF_vars(Mark(a)) /\ WF_vars(Hears(a))

FairSpec == Spec /\ Fairness

-----------------------------------------------------------------------------
Entry  == [present : BOOLEAN, synced : BOOLEAN, tried : {"", "Probe", "Clone", "Fetch"},
           last : Int, fetched : Int]

TypeOK ==
  /\ now \in Start..MaxTime
  /\ disk.holds \in {"none", "half", "whole"} /\ disk.version \in 0..MaxPushes
  /\ {repo, seen} \subseteq Entry
  /\ agent.at \in {"idle", "cloning", "probing", "pinning", "fetching", "reporting"}
  /\ sandbox.gate \in {"pending", "failed", "fresh", "stale"}
  /\ \A a \in Asks : asks[a].answer \in {"", "fetched", "stale"}
  /\ seat \in Asks \cup {Nobody}

\* An ask that is answered `fetched` (verdict) finds in the cache everything the remote had when
\* it was made, whoever's fetch landed and whatever the agent and the operator had read by then:
\* a fetch that started before the ask never answers it.
FetchedIsFresh ==
  \A a \in Asks : asks[a].answer = "fetched" => disk.version >= asks[a].had

\* A stamp tells the truth wherever it is read: `lastFetched`, the time a degraded answer dates
\* the cache by ("serving the cache as of"), and the gate's "fetched since this Sandbox was
\* created" each name an instant whose remote the cache holds in full.
StampIsHonest ==
  /\ disk.version >= Before(repo.fetched)
  /\ \A a \in Asks : disk.version >= Before(asks[a].asOf)
  /\ sandbox.gate = "fresh" => disk.version >= Before(sandbox.created)

\* What a node reports present, and what a Sandbox is let go Ready on, is a whole clone, though
\* the agent may end at any point of a clone (clone, discardHalfClone, the .cloning marker).  An
\* entry older than the Sandbox may be of a cache that the node has lost; the gate passes on none.
PresentIsWhole ==
  (repo.present /\ repo.last >= Start) \/ Admitted => disk.holds = "whole" /\ ~disk.marker

\* An ask that its Sandbox's mark stands for, and the creation of a Sandbox, which is one too.
Outstanding ==
  \/ pod # NoPod /\ ~Admitted
  \/ \E a \in Asks : asks[a].at = "waiting" /\ sandbox.mark >= asks[a].t

\* Every ask is answered by the node's own verdict, with neither the interval nor the ask's budget
\* to help: a started Sandbox passes its gate, and no ask waits for ever on a mark that stands for
\* it (the fetch on demand, AwaitSecond's wait, and the return after a fetch that was due anyway).
AsksAnswered == []<>~Outstanding
=============================================================================

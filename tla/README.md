# jr2: a verification development

jr2 runs Workflows: xstate Machines that an Orchestrator hosts as durable runs,
whose states invoke Agents, Effects, Gates and other runs. This directory holds
TLA+ models of the parts of it in which processes, timers and crashes interleave,
the TLC configurations that check them on small instances, and TLAPS proofs of
their safety properties for every instance. `PROJECT.json` lists the
components, the runs, the mutants that show each property can fail, the source
lines behind each definition, the disagreements found, the hazards and the
theorems.

## 1. The system

```
 Callers, Hooks, CLI
        |
        v
 Orchestrator (one process, one SQLite store per Instance)
   run host ---- snapshot store: a row and a blob per run, heads of standing Pools
     |  Machines: states that invoke
     |    Agents  -> Agent actor -> harness client ---+
     |    Effects -> command | http | mcp | sandbox    |
     |    Gates, dispatch Effects, Pools over Sources  |
     v                                                 v
   Effector (Go): Kinds that run away from     Harness (in a Sandbox pod, or the
   the Workspace                               Instance Harness): conversations,
                                               Turns, execs, keeper, memory guard
 Operator (Go): Sandbox and Repo controllers, node cache, upload-pack
```

What the parts promise each other, and where a promise is hard to keep:

- **Run host and store.** A run is an actor in memory, saved a microtask after
  each transition. A start under an idempotency key answers one run id for ever.
  A process that ends is replaced by one that restores every live row.
- **Effects.** An Effect writes its intent row before its request leaves, and
  its settled row before its Machine hears the outcome. A plain command is never
  sent twice.
- **Harness execs.** Processes by id, read by long poll, killed in whatever
  order the kill and the start arrive, kept for a while after they settled.
- **Conversations.** One queue of Submissions, one Turn at a time, a stream and
  a record on disk, an abort sweep, a drain, a rebuild at boot.
- **Agent Turns.** The Orchestrator admits a Turn to a conversation, waits for
  its Settlement, asks again, re-admits what a Harness restart cut, and sends an
  abort for a Turn that was stopped. The next Turn of the conversation must not
  be swept by it.
- **Standing Pools.** One live run of a standing Workflow, handed over at a
  publish, at its age, at its bound and after an error; the items that it holds
  go with it.
- **Workspaces and Sandboxes.** A Workspace applies a Sandbox resource, waits for
  it through a watch that lags, renews a Lease and deletes it. The operator gives
  a Sandbox one Pod for its life and says `Lost` for good when that Pod is gone.
- **Fetches.** Nothing in a pod talks to a remote. A `git fetch` there is an ask:
  a mark on the Sandbox, copied to the Pod, which the node's cache agent answers by
  a fetch whose report comes back on the Sandbox's status. Only a fetch that began
  after the ask answers it.

| part | sources under `src/packages` | module | status |
|---|---|---|---|
| Harness execs | `harness/src/exec.ts`, `spawner.ts` | `HarnessExecs` | modelled |
| command Effect, against the execs | `orchestrator/src/effect.ts`, `harness-client.ts` | `CommandEffect` (extends `HarnessExecs`) | modelled |
| run host: starts, keys, saves, ends, restore | `orchestrator/src/run-host.ts`, `snapshot-store.ts` | `RunHost` | partly |
| standing Pools | `orchestrator/src/run-host.ts`, `pool.ts` | `StandingPool` | partly |
| conversation, record, drain, live set | `harness/src/conversation.ts`, `record.ts`, `app.ts`, `serve.ts` | `Conversation` (implements `Submissions`) | modelled |
| Agent actor and harness client | `orchestrator/src/actor.ts`, `harness-client.ts`, `durability.ts` | `AgentTurn` | partly |
| what a conversation promises | (the two above) | `Submissions` | abstract |
| Workspace, Lease and watch | `orchestrator/src/workspace.ts`, `sandbox-kube.ts`, `sandbox-watch.ts` | `Workspace` (extends `SandboxStatus`) | partly |
| Sandbox controller | `operator/internal/controller/sandbox_controller.go` (under `src`) | `SandboxOperator` | partly |
| what the Sandbox resource promises | `operator/api/v1alpha1/sandbox_types.go` | `SandboxStatus` | abstract |
| node cache agent, the ask of a fetch, upload-pack | `operator/internal/repocache`, `operator/internal/uploadpack` (under `src`), `orchestrator/src/repo-fetch.ts` | `RepoFetch` | partly |
| eviction of caches, Repo controller, fetch lock | `operator` | | planned |
| picks, holds and rest | `orchestrator/src/holds.ts`, `rest.ts`, `pick.ts` | | planned |
| turn, menu, compaction, memory guard | `harness/src/turn.ts`, `menu.ts`, `memory-guard.ts` | | planned |
| conversation keeper | `harness/src/keep.ts` | | planned |
| http, mcp, sandbox and dispatch Effects | `orchestrator/src/*-effect.ts` | | planned |
| Gates, Hooks, Emits and the echo outbox, notices | `orchestrator/src/gate.ts`, `hooks.ts`, `notices.ts`, `run-host.ts` | | planned |
| pull and read Sources, active keys | `orchestrator/src/pool.ts` | | planned |
| Effector server, spawner, reaper | `effector` | | planned |
| Assemblies: what a live run keeps | `orchestrator/src/instance.ts` | | planned |
| Charts, setup, registration, Callers | `orchestrator/src/chart.ts`, `setup.ts`, `callers.ts` | | not modelled: pure functions over large syntax, no state |
| HTTP routes, Console, CLI, printers, transcript | `http.ts`, `console`, `cli` | | not modelled: parsing, rendering and I/O around modelled operations |
| Custodian, confinement, git hygiene | | | not modelled: reads of the cluster, system calls, text filters |

## 2. The models

The convention is the same in each: JavaScript runs one step at a time, so an
action is the synchronous code between two awaits. Where such a step writes to
disk more than once it is split at each write, and only the end of the process
comes between the parts (`busy` in `StandingPool`, `due` in `Conversation`). A
Machine, a message, a blob or an output is reduced to what the properties tell
apart.

**HarnessExecs** (`Execs` in exec.ts). `exec` is the map, in insertion order;
`poll` the readers; `group` whether a process group still runs. Actions: start
(known id, runs, no folder), exit, timeout, a failing spawner, kill (known and
unknown id), forget, read, a reader's second look, and a restart of the Harness.
A spawn that fails counts as a start. Output bytes are left out.

**CommandEffect** (`drive`, `startOnce`, `follow`, `stopped`, `killUntilKept` in
effect.ts). `mem` and `disk` are the Effect's child and ledger row in memory and
in the last save; `starts`, `kills` and `forgets` are requests on the wire, which
outlive both sides; `pc` is where `drive` stands. The exec side is the actions
of `HarnessExecs`. An Effect of a defective Machine fails in the step that
invokes it (`InvokeFaulty`): the microtask in which such a child is saved active
with no row is merged into it. A read refused with a 4xx is not told apart from
a read that fails.

**RunHost** (`start`, `dispatchStart`, `persist`, `end`, `cancel`, `onSettled`,
`restore` in run-host.ts). `row` and `key` are the store; `act` is the actor in
this process and whether it has moved since its save; `call` and `dispatching`
are the starts in flight; `todo` and `cur` are the restore's list and place;
`unhosted` the live rows it left to retry. The restore's two awaits for a run
are one. A row without a blob is marked as any row that cannot be hosted. A boot
restore that throws ends the process. `stop()` is not modelled: nothing that is
deployed calls it. Rows are in the order of their run numbers.

**StandingPool** (`keepStanding`, `startStanding`, `handOverLive`,
`standingEnded`, `checkBound`, `resume` in run-host.ts; `hear`, claim and settle
in pool.ts). One Workflow. `head` is the stored head (run, streak of futile runs,
pause), `saved` and `mem` the held items in each blob and actor, `timer` the
Workflow's one timer. The cap is not modelled, and a count of taken items stops
at the bound. A claimed item counts as gone to its worker. The two pauses of a
poison loop are one. The age hands a Workflow that no longer stands over to a run
of an ordinary Machine (`plain`), which takes nothing over and holds nothing; a new
Assembly may refuse carried items, with a mark on the feed (`carriedOf`,
`refused`). Starts through the ordinary door are left out here. A row that a restore
left is retried at the next boot.

**Conversation** (`Conversation` in conversation.ts, the record, the routes, the
drain, the client's `wait` loop and the live-set statement). `queue` holds what
is unsettled, the active one first; `active` is the seat, which a swept run keeps
until it has wound down; `log`, `admitted`, `over`, `torn` and `dir` are the
record; `post` is an admission between the drain's check and its body; `poll` is
the client's wait for each Submission, and `picked` the Submissions whose Turn
their own pick ended, which a late sweep may name. The process may end at any point and tear
the line it is writing. Admissions come one Turn at a time, as the Agent actor
sends them, so two are queued only when the first one's actor stopped waiting.
messages.jsonl and the engine's transcript are left out: no Settlement depends
on them. A failed write to the record ends the process, so it is a crash.

**Submissions** is what a Harness promises about the Submissions of a
conversation: first in first out, one at a time, settled once, a cut one settled
all the same, freed only whole. `Conversation` implements it (`KeepsPromise`; a
Submission's fate is read off `queue`, `running`, `log` and `due`). The Harness in
`AgentTurn` is written after it, with two things more: a boot may lose the
conversation whole, and a Submission reads the surface that is registered under
the conversation's name before it prompts.

**AgentTurn** (`agent`, `admitTurn`, `readmitAfterCut`, `fault` in actor.ts;
`postAdmission`, `holds` in harness-client.ts). One continued conversation in a
Sandbox. `a` is the actor of the Turn and where it stands (queue behind an abort,
holds, post, settle, picks, rest, again), `ledger` the admission that the run has
saved, `pending` the newest abort, `heard` the watch's restart count; `posts`,
`reply` and `aborts` are on the wire. `fate`, `of` and `prompted` are the
Harness's Submissions, what each was admitted as, and whether its prompt is in the
conversation; `told` counts how often the Turn's task is. Whether the Agent's
state is busy, rests or has Allowed picks is the Machine's choice. Aborts come in
any order. The one send of an abort may fail: it is then lost, or comes when nobody
waits for it (`failed`; the Orchestrator's own end makes every abort of its such a
one). `Calm` says what is assumed of the watch: with `"watchCurrent"` it has told a
restart when the new Harness admits. The run `agent` assumes it, `agent_cut` drops
it. The reroll of a runaway, notices and steering are left out.

**SandboxStatus** is the Sandbox resource of one name as the Orchestrator reads
it: uid, being deleted, stamp lapsed, phase, Scheduled condition. `Lost` is the
last word on a Sandbox; a delete ends; a lapsed Sandbox goes unless it is stamped
again.

**SandboxOperator** (`Reconcile`, `reconcilePod`, `podLost`, `markLost`,
`reconcileStatus`, `reconcileIdleTimeout` in sandbox_controller.go). `cr` and `pod`
are what the API server has; `crCache` and `podCache` the informer caches, each
catching up on its own; `op` the reconcile under way, one step per call to the
API server, so that the operator can stop between any two. A status `Update`
lands only on the copy it was computed from (resourceVersion); the patch that
records the Pod and the idle GC's delete carry no precondition, as in the code. The
Service and the Pod's manifest are left out; the report per Repo is in `RepoFetch`.

**Workspace** (`workspace()`'s wrapper Machine, `place`, `provision`, `attach`, `renew`,
`releaseHold`, `destroy`, the watch and `continuity`, and the run host's deletes). `ws` is
the Workspace, `watch` the watch's cache, `hold` the annotation `jr2.dev/hold`, `net` the
writes that nobody awaits (a renewal, a delete, a release, the apply of a place that was
stopped), which land in any order; one may fail, and is not sent again. `saved` is the
Workspace in the run's last snapshot, `orphans` are the Leases of wrappers that ended in
error. Renewals that fail are taken not to last an idle timeout: a live Lease's Sandbox
does not lapse.

**RepoFetch** (`Reconcile`, `clone`, `probe`, `refresh`, `report` of the cache agent;
`reconcileAsks`, `repoStatuses`, `reposReadiness` of the operator; `fetch`, `wait`,
`verdict` in repo-fetch.ts; the program behind origin). It composes four processes
around one Repo, one node and one Sandbox. `disk` is the cache directory with its
clone marker, `repo` the node's entry in the Repo's status and `seen` the agent's
copy of it; `agent` and `queue` are the worker and the work queue of the key; `pod`
and `sandbox` carry the creation and the mark; `asks` and `seat` are the fetches and
`openAsks`. Time is in seconds, the grain of every stamp: within one, events come in
any order, and an ask lies inside its second, so that `AskedAt` raises it (one made
on the second exactly, which is its own bar, is left out). Every process reads one
clock: the code compares stamps of the pod, the operator and the node as they are,
and skew between them is left out. The node may be cold, hold a clone from before
the Sandbox, reported or not yet, or have an entry on the Repo and no clone (it was
imaged anew). A fetch brings what the
remote had at some instant between its start and its end. The agent may end at any
point of a clone or fetch. Left out: the deletion of the Repo and the eviction and
sweep of caches, spec generations, credentials, consolidation, a second Sandbox or
Pod on the node, a Sandbox deleted during an ask, and the fetch lock, which orders
two fetches' writes of one clone's refs. The operator's reconcile is one step: a
status computed from an old Sandbox does not land (resourceVersion), and an old Repo
gives an older report. A Custodian that does not answer leaves the program as a
stale answer does.

## 3. The runs

A run's configuration is the `.cfg` of the same name; states are distinct states.

| run | instance | shows | states |
|---|---|---|---|
| `effect` | a plain command or an idempotent cut, two crashes, two Harness restarts, one loss, one spawner end | `NoSecondFire`, `WriteAhead`, `OneOutcome`, `KillHolds`, and every invoked Effect ends (`EffectEnds`) | 890k |
| `host` | two keys, two callers, a waiter, two runs, two faults among an end of the process, a refused save and a restore that throws; two starts in flight or someone who waits | one run per key (`OneRunPerKey`), `StableAnswer`, `NoOrphan`, `ToldTheTruth`, `EveryWaiterTold`, `EndedStaysEnded` | 1.1M |
| `standing` | three runs, one held item, two resumes, a publish, a crash | never two standing runs (`OneStandingRun`), `HeldWhileUp`, and a run again (`StandsAgain`) | 406k |
| `standing_loop` | five runs, throwing starts, rows left to retry | a poison loop pauses the Workflow (`PoisonLoopPauses`) | 2.7M |
| `conversation` | two Submissions, one message or memory kill, two ends of the process | `OneTurnAtATime`, `RecordReads`, `EndedByItsPick`, `WaiterTold`, and the refinement of `Submissions` (`KeepsPromise`) | 567k |
| `conversation_drain` | two Submissions, one end | violation: a drained Harness has an unsettled Submission | |
| `agent` | two Turns, three admissions, a Harness restart, one fault (an Orchestrator restart or an abort that fails) | `OneOpenPerTurn`, `TaskInContext`, `CutIsCut`, `NoForeignSweep`, `SurfaceIsOwn`, `TurnMovesOn`, `AbandonedSettles` | 1.9M |
| `agent_cut` | one Turn, two admissions, a Harness restart, a watch that lags | violation: a Turn that a live Harness runs is taken for cut | |
| `sandbox` | two Sandboxes of a name, one fault (a removal, a lapse or a cut reconcile) | `OnePod`, `LostIsMine`, `LossReported`, and the refinement of `SandboxStatus`, liveness included (`KeepsPromise`) | 1.4M |
| `sandbox_old` | the same, in an operator that keeps up | violation: a new Sandbox is Lost for the old one's Pod | |
| `workspace` | two invokes of a Workspace, one fault (a removal, a write that is refused or fails, a crash) | `NoFalseLoss`, `LossHeard`, `SparesHeld`, `FreeIsMarked`, `Reaped` | 859k |
| `repo_fetch` | two fetches in a pod, a cold, a warm or a newly imaged node, three seconds, a push, one fault | `FetchedIsFresh`, `StampIsHonest`, `PresentIsWhole`, and asks are answered (`AsksAnswered`) | 2.1M |

Each module also states its `TypeOK`. That of `RunHost` is proved (`TypeCorrect`);
to check another on an instance, add it to the run's `INVARIANTS`.

**Bounds.** Two actors of each kind meet every race between two (two callers of
a key, two resumes, a Submission behind another); a third run or exec is there
where a step involves an old, a current and a next one. Two crashes let the
second hit the recovery from the first; `standing` has one, since its recovery
writes only what a start writes. `sandbox` and `workspace` have one fault each,
with two Sandboxes or invokes, so that it can fall between the old and the new;
what they exclude by that, two faults of the operator, is proved for its safety.
`agent` has three admissions for two Turns: one Turn can be re-admitted or asked
again while the other's abort is on its way (its safety also holds with three
Turns, 14.6M states in seven minutes). `standing_loop` has five runs because the
fourth counted one pauses. `repo_fetch` has three seconds: the one of the ask, the one
in which a fetch for it may start, and one for a second ask. The refresh interval is
two of them, so that a fetch for an ask of the second after the last fetch is made
for the ask alone, and not because a refresh is due; four seconds also pass (13.9M
states, too many for a run). One item and one key are enough where the code treats
items and keys apart. In `host`, whose two keys are alike, the first run has the first
(`FirstKey`). Counters are bounded by the constants named `Max...`.
Deadlock is not checked where a bound on runs, Submissions or faults may leave
nothing to do.

**Fairness.** Only steps that the code itself drives are fair: microtasks
(`PersistLive`, `Persist`), the rest of a synchronous step (`EndOld`,
`AppendDue`), loops that go on until answered (`DriveStep`, `Poll`,
`RestoreStep`, the Agent actor's own steps, `Reconcile`), informers and watches
that catch up, timers (`TimesOut`, `BackoffFires`, `SweepWaitEnds`,
`PollTimesOut`, `LeaseTick`, `Tick`), the cache agent's work (a git call has a budget),
requests that were not lost (a write in `net` lands or fails), the kubelet and the
garbage collector, and the restart of a process that
ended, which Kubernetes does. No Turn, command, human or model is assumed to
finish: an exec ends by its timeout, and a Turn may run for ever. Nor is an ask's
budget or the refresh interval assumed to end in `repo_fetch`: asks are answered
without them.

**Mutants.** For each property of a passing run a mutated definition stands
beside the one it mutates, marked as such: the intent row saved after the send,
a key not held while it is looked up, a sweep that
frees the seat, a torn tail that is not cut, a status write without its
resourceVersion, a Turn that does not wait for the abort before it, a fetch stamped
with its end, an ask held against the attempt
it is itself the reason for. TLC finds each
one.

## 4. The proofs

Eight modules, `...Proofs`, checked by TLAPS (SMT and Zenon, LS4 for the temporal steps),
for every value of the constants that satisfies the named assumptions: bounds are naturals
(`EffectAssumption`, `BoundsAreNaturals`, `BoundsAssumption`, `ConvBounds`, `TurnBounds`,
`PoolBounds`), the idempotent Effects are Effects, and the null key and caller are neither
key nor caller (`NullsAreApart`).

`CommandEffectProofs`:

- `NoSecondFireHolds`, `WriteAheadHolds`, `OneOutcomeHolds`. None is inductive
  alone. `IInv` adds that an active child has a row in memory and on disk
  (`RowFollowsChild`), that a row is missing or settled in both alike, with one
  output (`RowSaved`), that `drive` sends and reads only under an intent row and
  delivers only a settled one (`DriveFollowsRow`), and that what the Machine
  heard is what the settled row says (`HeardIsRow`). A restore takes `disk` for
  `mem`: with `RowSaved` that cannot turn a settled row back into an intent, so
  nothing is sent or said again.
- `KillHoldsHere`, under one assumption more: there are finitely many Effects, and no
  more than the Harness keeps settled. `Marked` says that an id whose kill was
  answered has its entry until it is forgotten; with room for every id nothing is
  evicted (`NothingEvicted`). Without the assumption an eviction drops the mark, as the code
  does; so does a `forget`, which the property excepts.

`RunHostProofs`:

- `TypeCorrect`, `OneRunPerKeyHolds`. `OneRunPerKey` says nothing of a start
  between its lookup and its spawn. `Core` adds that a start in flight holds its
  key (`Owner`), that only the run which its lookup found can carry that key
  (`Alone`), that this run is not hosted once its row is gone (`Gone`), that ids
  not yet given name nothing (`Fresh`), and that what a restore is about to host
  has a row (`Listed`). The step is proved action by action; ends and sweeps,
  which only make runs disappear, share two lemmas (`Shrinks`, `LetGo`).
- `StableAnswerHolds`, `ToldTheTruthHolds`, `NoOrphanHolds`, `EndedStaysEndedHolds`.
  `Stage` says what can be hosted, started or restoring in each mode of the process.
  `Once`: until a restore throws as a whole, what is still to be restored or was left
  to retry is live and not hosted, and what ended is not hosted. `Kept`: a live row is
  hosted, to come or left to retry. `Saved`: a row stands behind every answer.
  `Heard`: what a waiter was told, or a late read will tell it, is what the row says.
  Two conditions are in the properties because the proof failed without them and TLC
  then found the behaviour: after a refused save a row may lag what a waiter heard,
  and a retried restore may host a run that a waiter was told had ended.

`SandboxOperatorProofs`:

- `OnePodHolds`, `PodRecordedOnce`, `OperatorKeepsSafety`. The first two say that
  no Pod is made for a Sandbox that has one recorded or is Lost, and that the
  record never changes; the third, that each step of the operator is a step of
  `SandboxStatus` or a stutter. All rest on what a reconcile may still rely on
  when it writes, long after it read. `OperatorInv` says that uids are given in
  order and a cache holds a copy of the Sandbox there is or of one before it
  (`UidsInOrder`), and for each call of the reconcile what is known then
  (`Underway`): a Pod recorded in a copy is the one recorded in the Sandbox, a
  reconcile about to create or to record has a Sandbox with no Pod and not Lost,
  and a status about to be written differs from its copy only as a report may.
  The creating step is the point of the argument: between the live read and the
  create nothing but this reconcile can record a Pod or say Lost, since the
  controller reconciles one name at a time. `Moves` then lists how one step of
  anybody may change the Sandbox, and each theorem follows from it.

- `LostIsMineHolds`. `Own` follows a Sandbox that was created with no trace left of
  the one before: every Pod and every cached copy that a reconcile can meet is its
  own, so the loss that it reports is too. Uids of Pods are given in order
  (`PodsInOrder`), which tells the old Pod from the new one.

`RepoFetchProofs`:

- `FetchedIsFreshHolds`, `PresentIsWholeHolds`, `StampIsHonestHolds`. Each reads one
  end of a chain of copies, and the invariant follows the chain. A stamp is `Honest`
  when the cache is whole and holds what was pushed before it, or when it is older than
  the Sandbox, which no ask is answered by. It becomes so because
  git begins after the attempt is stamped (`Worker`); it stays so because a whole
  clone stays whole and only grows (`Onward`); and each copy of it, on the Repo, with
  the agent, on the Sandbox and in an answer, is honest too (`Stamps`). An answer is
  good for all who share a wait, since they asked no later than the one who opened it
  (`Waiting`).

`ConversationProofs`:

- `OneTurnAtATimeHolds`, `RecordReadsHolds`, `EndedByItsPickHolds`. The invariant
  keeps books: while the process is up, each recorded Submission is in exactly one of
  the queue, the lines that are due and the stream (`Books`, `Record`). The queue is
  in the order of admission (`Order`), and the seat is at its head or winds down a
  Submission that was swept (`Turn`). The line of a
  finished run is due alone (`Finish`), and what is due or on the stream as completed
  or ended did run (`Ran`). `PickInv` adds that what is due or on the stream as ended
  is of a Turn whose own pick ended it, however late the sweep that says so came.
- `PromiseKept`: the safety of `Submissions` (`SafeSpec`). `FateTable` turns each fate
  into a condition on the books; `FirstRuns` says that the one that runs is the first
  that is open; `Allowed` says how a step may change fates, shown action by action.

`AgentTurnProofs`. What is assumed of `Calm` is a hypothesis of the theorem. All rest on
`Base`, which holds whatever the network does: an admission on the wire has its own
number, and the live one or its answer is the actor's (`Wire`); every Submission took an
admission off the wire, so there is a number left for the next (`Room`, by cardinality);
the Harness runs one at a time, none while it is down (`Serving`); what the actor and the
ledger name was admitted (`Named`):

- `CutIsCutHolds` assumes `"watchCurrent"`. `Marks`: while a Submission is open, no
  restart was told since its admission, so none is past the mark of the actor or of the
  ledger that a restore reads. The run `agent_cut` is the behaviour without it.
- `OneOpenPerTurnHolds` assumes `"watchCurrent"` too, since a Turn falsely taken for cut
  is admitted again beside its open Submission; TLC then finds two. `Single`: of a Turn
  there is one admission, on the wire or open, and an actor about to send one has none.
- `NoForeignSweepHolds` assumes nothing of the order of the aborts. `Waits`: while the
  abort of the Turn before is under way, and has not failed, the Turn is in the queue and
  has sent nothing. The property excepts the aborts of Turns before that one: with three
  Turns TLC finds such a sweep (section 5).
- `SurfaceIsOwnHolds` assumes nothing either. `Swept`: until an abort fails, or the
  Harness takes an admission whose actor is gone, a Turn past the queue finds no
  Submission of another that could read its surface. The abort that it waited for sweeps
  what it meets, of whichever Turn.
- `TaskInContextHolds` assumes `"watchCurrent"`. `Worked` and `Concluded` follow the
  actor's marks (`served`, `was`, `carried`) through each answer: an admission without
  the task names a conversation that has it, and is refused if a boot has lost that one.
  With a watch that lags TLC finds no counterexample (two Turns, three admissions, a
  restart, no fault); the proof uses the hypothesis, through `Single`.

`StandingPoolProofs`. Three arguments over one base (`Basic`: types, runs not started yet
have nothing, a clean run's row holds what the run holds, what each step leaves under way
for the next):

- `OneStandingRunHolds` assumes `MayLeave = FALSE`: every boot restores or gives up each
  live row. That one run is hosted is not inductive over a crash, since a boot hosts what
  the store has. `Alone` says it of the rows too: one is live, and a process that is up
  hosts it; between the two writes of a hand-over two runs are hosted and the new one has
  no live row yet. The number of crashes is not bounded.
- `PoisonLoopPausesHolds` assumes nothing of the constants and is of one life of the
  process (`crashes = 0`), as a crash before the first save of a new run starts its
  streak from nothing. `Ahead`: the head names the run that is hosted, or the one that
  ended last, and that one's blob is what it held. `Streak`: the streak of the head is no
  less than the runs that ended with no run started, and past the limit it is paused.
- `HeldWhileUpHolds` assumes `StartsThrow = FALSE`, not `MayLeave = FALSE`, and is of one
  life of the process, until the age hands the Workflow over to an ordinary one (`plain`).
  `Held`: each item that was answered held, and that no later Assembly has refused, is
  with the run that the head names, so by `Ahead` with a hosted run or in the blob that
  the next one is started from. `Resuming` is what makes a late resume safe: it carries
  the blob of the run that the head still names, or finds that the Workflow is no longer
  paused.

`WorkspaceProofs`, for any number of invocations and faults:

- `TypeOKHolds`, `NoFalseLossHolds`, `SparesHeldHolds`, `FreeIsMarkedHolds`, all from
  `Sound`. `Tracked` bounds the lag of the watch of a
  Workspace that did not apply over a stale one: it is level with the cluster, or short of
  the one Sandbox that this Workspace made and has not heard of. So an absence that it
  judges is one (`NoFalseLoss`). `Crossed`: a delete under way is older than the Workspace
  (`SparesHeld`). `Marking`: a Sandbox that the run has left is marked, or a write or a
  Lease that marks it is still to come (`FreeIsMarked`); a renewal under way is no such
  write. It is of the behaviours in which nothing has marred the mark: a crash, a failed
  delete or release, an apply of a stopped place that outlives the Workspace after it, and
  a renewal that lands after the release all leave a Sandbox to the idle GC (`Reaped`).

The rebuild of a conversation at a boot is a loop over its record (`Unsettled` of
`Conversation`, a recursive function).
What it computes is proved by its least counterexample: that every set of naturals has
a least element (`Least`) is a first-order consequence of the library's theorem that
`<` on the naturals is well-founded, where its induction theorems, which take an
operator as a parameter, cannot be used.

Model-checked only: every liveness property (the prover does neither fairness nor
`ENABLED`), with the liveness parts of the two refinements. Every safety property of a
passing run has its theorem; the hypotheses above are the settings of the runs
(`MCStandingPool.cfg`, `MCStandingPool_loop.cfg`, `Calm` of the agent's runs), and the
behaviours without them are in section 5.

## 5. Disagreements between code and text

Checked by a run that TLC refutes:

- `conversation_drain`: an admission that waits for its body passes the drain;
  app.ts:174 says that every admission answers 503 from the drain on.
- `agent_cut`: the restart mark of an admission is the count that the watch has
  told, not that of the Harness that answered, so a late word of the watch cuts a
  Turn that runs; actor.ts:1197 says that a restart before the answer is not this
  Turn's.
- `sandbox_old`: the idle GC deletes in the background, and a new Sandbox of the
  name finds the old Pod on its way out and is Lost for good; sandbox-kube.ts:1544
  says that a new Sandbox must not.

Seen while modelling, reproduced by TLC or by reading, and kept as hazards or in the
exceptions that a property states: a cancel of a live run that is not hosted (a deferred
restore, or a row left to retry) is answered ok and does nothing, and the next restore
hosts the run (run-host.ts:3530), where http.ts:1921 says that it does not come back; a
`forget` drops the mark of a kill whose start is still on the wire (exec.ts:198); eviction
goes by start order, where exec.ts:220 says that the newest settled are kept; a process
group outlives its exec when the spawner ends (exec.ts:132); a retried restore hosts a run
that ended since its list was read (run-host.ts:1910); a crash between the two saves of a
hand-over loses held items (run-host.ts:3748), where ADR-0017 says that a `held` answer is
durable; a second standing run after a crash with a row left to retry (run-host.ts:3702);
a standing start that throws leaves nothing that starts the next run (run-host.ts:3735);
the age timer hands over a Workflow that no longer stands, and what it held goes with it
(run-host.ts:3657); a delayed live-set statement frees an idle conversation that a live
run came to hold after it was computed (run-host.ts:2089); an older abort that arrives
late sweeps a later Turn's Submission, as only the newest is waited for (actor.ts:1285);
an orphan whose abort failed reads the surface of the next Turn, where actor.ts:1274 says
that it finds none and settles; a re-attached Turn whose admission was never read is
re-admitted without its task (actor.ts:1105); a stopped place's delete, or its apply,
crosses the next Workspace of the name (workspace.ts:1405); a renewal that lands after the
release, or a release that fails, leaves a Sandbox that nobody holds marked `held` until
the idle GC takes it (workspace.ts:1557); a wait that subscribes while the watch lags
judges the Sandbox before its own (sandbox-kube.ts:1366); a failed fetch copies
`lastFetched` from a cached Repo that may lag, so the stamp goes back, where
repo_types.go:96 says that it is when the node last fetched (agent.go:472); two marks of
one Repo whose patches cross leave the older one standing, and the newer ask to its budget
(repo-fetch.ts:146).

## 6. Not modelled, and the plan

Not modelled because there is nothing to check: Charts, setup and registration,
Callers, routes, the Console, the CLI, printers, the transcript and the agent
protocol are parsing, pure checks, rendering or I/O around modelled operations;
confinement and git hygiene are system calls and text filters; the scale metric is
a count. The Custodian reads the cluster and signs.

Not modelled yet, in the order in which they would be taken; each item says what
it composes with and what it is to show. They come in place of runs that ask less.

1. `DispatchEffect` over `RunHost`: a run that starts and waits for a run, each
   restored on its own. `http` and `mcp` Effects as further instances of the row
   discipline of `CommandEffect`.
2. `Picks`: holds, rest and the outstanding pick of a Turn, with Gates and Hooks:
   one decision each, over restores.
3. `Outbox`: Emits and the echo outbox, in order and at least once; notices.
4. `Sources` on `StandingPool`: pull and read Sources, active keys and the cap.
5. On `RepoFetch`: the eviction of a cache against a Pod that comes to mount it
   (the agent deletes after it read the Pods, agent.go:167), and the fetch lock.
   `Effector` (spawner, lock, reaper).
6. `Keeper` and `PodKills`: acknowledged positions over restarts.
7. Assembly reachability and the image sweep, as pure operators against a
   reference definition.

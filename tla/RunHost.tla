------------------------------ MODULE RunHost ------------------------------
(***************************************************************************)
(* The Orchestrator's run host: how a run is started under an idempotency  *)
(* key, hosted in memory, saved to the snapshot store, ended, restored by  *)
(* the next process, and how those who wait on it are told that it ended.  *)
(*                                                                         *)
(* One Workflow is modelled, since the host scopes every key to its        *)
(* Workflow.  A run is a number; its Machine is abstracted to whether it   *)
(* moved since the last save and whether it reached its end.  JavaScript   *)
(* runs one step at a time, so each action is the synchronous code between *)
(* two awaits.  The store is SQLite, written synchronously: a row is on    *)
(* disk when the call that writes it returns.                              *)
(***************************************************************************)
EXTENDS Naturals, FiniteSets

CONSTANTS Keys,             \* idempotency keys of dispatches
          Callers,          \* concurrent callers of start
          Waiters,          \* listeners of onSettled
          MaxRuns,          \* bound: runs ever started
          MaxCrashes,       \* bound: ends of the process
          MaxSaveFaults,    \* bound: saves that the store refuses
          MaxRestoreFaults, \* bound: restores that throw as a whole
          NoKey, Nobody     \* in place of a key or a caller

ASSUME BoundsAreNaturals ==
  {MaxRuns, MaxCrashes, MaxSaveFaults, MaxRestoreFaults} \subseteq Nat
ASSUME NullsAreApart == NoKey \notin Keys /\ Nobody \notin Callers

Runs == 1..MaxRuns
NoRun == 0

\* The ends a row can record.
Ended == {"done", "failed", "error", "cancelled", "lost", "drifted"}

VARIABLES
  mode,        \* "down", "boot" (restoring before the doors open), "serving"
  pending,     \* #restorePending: a deferred restore has not completed
  assembled,   \* this process has a current Assembly
  row,         \* the store: each run's row status, "none" without a row
  key,         \* the key in each run's record and blob
  act,         \* this process: "no", "dirty", "clean", "over"
  unhosted,    \* live rows that a restore left to retry
  next,        \* the next run id
  call,        \* each caller of start: its stage, key and run
  dispatching, \* the in-flight map: the caller whose start holds a key
  restoring,   \* a restore is running
  todo,        \* the rest of the list that it read from the store
  cur,         \* the run whose turn it is, and how far
  wait,        \* each waiter: its stage, run, pending read, told status
  crashes, saveFaults, restoreFaults,
  answers,     \* history: the runs that callers were answered, by key
  swept        \* history: runs whose rows were swept

store == <<row, key, next>>
restore == <<restoring, todo, cur, pending>>
calls == <<call, dispatching, answers>>
faults == <<crashes, saveFaults, restoreFaults>>
history == <<swept>>
vars == <<mode, assembled, store, act, unhosted, calls, restore, wait, faults,
          history>>

IdleCall == [st |-> "idle", key |-> NoKey, run |-> NoRun]
IdleWait == [st |-> "idle", run |-> NoRun, read |-> "none", told |-> "none"]
NoCur == [run |-> NoRun, at |-> "none"]

Up == mode # "down"
Hosted(r) == act[r] # "no"

----------------------------------------------------------------------------
(* The store. *)

\* findByDispatch: the run in the store that carries the key, in any status.
StoredWith(k) == {r \in Runs : row[r] # "none" /\ key[r] = k}

HostedWith(k) == {r \in Runs : Hosted(r) /\ key[r] = k}

\* dispatched, up to its await: a hosted run is the answer; else the oldest
\* stored one, which is loaded after the await.
Dispatched(k) ==
  IF HostedWith(k) # {}
    THEN [st |-> "started", key |-> k, run |-> CHOOSE r \in HostedWith(k) : TRUE]
    ELSE [st |-> "asked", key |-> k,
          run |-> IF StoredWith(k) = {} THEN NoRun
                  ELSE CHOOSE r \in StoredWith(k) :
                         \A q \in StoredWith(k) : r <= q]

\* fireSettled: everything that waits on the run hears its end, once.
FireSettled(r, status) ==
  wait' = [w \in Waiters |->
             IF wait[w].st = "attached" /\ wait[w].run = r
               THEN [st |-> "told", run |-> r, read |-> wait[w].read,
                     told |-> status]
               ELSE wait[w]]

\* The save of a run, which the store may refuse: then the row stays as it was.
SaveRow(r, status) ==
  \/ /\ row' = [row EXCEPT ![r] = status]
     /\ UNCHANGED saveFaults
  \/ /\ saveFaults < MaxSaveFaults
     /\ saveFaults' = saveFaults + 1
     /\ UNCHANGED row

\* A bug of the terminal save: the listeners are told the stopped Machine's
\* status, and not the end that the host named.
PersistMachineEnd(r, status) ==
  /\ SaveRow(r, status)
  /\ act' = [act EXCEPT ![r] = "no"]
  /\ FireSettled(r, IF status = "cancelled" THEN "error" ELSE status)

\* persist, with an end: the save, the untrack, and the settle listeners.
PersistEnd(r, status) ==
  /\ SaveRow(r, status)
  /\ act' = [act EXCEPT ![r] = "no"]
  /\ FireSettled(r, status)

----------------------------------------------------------------------------
(* Starting a run under a key. *)

\* start, up to its first await.  A second start under a key that is in
\* flight waits on the first; else the key is held, then looked up.
StartShared(c, k) ==
  /\ dispatching[k] # Nobody
  /\ call' = [call EXCEPT ![c] = [st |-> "joined", key |-> k, run |-> NoRun]]
  /\ UNCHANGED dispatching

StartHeld(c, k) ==
  /\ dispatching[k] = Nobody
  /\ dispatching' = [dispatching EXCEPT ![k] = c]
  /\ call' = [call EXCEPT ![c] = Dispatched(k)]

\* A bug of the in-flight map: the key is not held while it is looked up.
StartUnheld(c, k) ==
  /\ call' = [call EXCEPT ![c] = Dispatched(k)]
  /\ UNCHANGED dispatching

Start(c, k) == StartShared(c, k) \/ StartHeld(c, k)

CallStart(c, k) ==
  /\ assembled
  /\ mode = "serving" \/ \E r \in Runs : Hosted(r)
  /\ call[c].st = "idle"
  /\ Start(c, k)
  /\ UNCHANGED <<mode, assembled, store, act, unhosted, answers, restore, wait,
                 faults, history>>

\* The lookup found a row that is still in the store when it is loaded.
Resolve(c) ==
  /\ call[c].st = "asked"
  /\ call[c].run # NoRun
  /\ row[call[c].run] # "none"
  /\ call' = [call EXCEPT ![c].st = "started"]
  /\ UNCHANGED <<mode, assembled, store, act, unhosted, dispatching, answers,
                 restore, wait, faults, history>>

\* startFresh: the run is hosted before anything else happens; its first save
\* is a microtask later.
StartFresh(c) ==
  /\ call[c].st = "asked"
  /\ call[c].run # NoRun => row[call[c].run] = "none"
  /\ next \in Runs
  /\ act' = [act EXCEPT ![next] = "dirty"]
  /\ key' = [key EXCEPT ![next] = call[c].key]
  /\ next' = next + 1
  /\ call' = [call EXCEPT ![c] = [st |-> "started", key |-> @.key, run |-> next]]
  /\ UNCHANGED <<mode, assembled, row, unhosted, dispatching, answers, restore,
                 wait, faults, history>>

\* The callers that one in-flight start answers: its own, and those who joined.
AnsweredBy(c) ==
  {c} \cup {d \in Callers : call[d].st = "joined" /\ call[d].key = call[c].key}

\* startNow refuses the input: the start throws, to those who joined it too.
Refuse(c) ==
  /\ call[c].st = "asked"
  /\ call[c].run = NoRun
  /\ call' = [d \in Callers |-> IF d \in AnsweredBy(c) THEN IdleCall ELSE call[d]]
  /\ dispatching' = [dispatching EXCEPT ![call[c].key] = Nobody]
  /\ UNCHANGED <<mode, assembled, store, act, unhosted, answers, restore, wait,
                 faults, history>>

\* A bug of the start: it answers before the run's first save.
AnswerUnsaved(c) ==
  /\ call[c].st = "started"
  /\ answers' = [answers EXCEPT ![call[c].key] = @ \cup {call[c].run}]
  /\ call' = [d \in Callers |-> IF d \in AnsweredBy(c) THEN IdleCall ELSE call[d]]
  /\ dispatching' = [dispatching EXCEPT ![call[c].key] = Nobody]
  /\ UNCHANGED <<mode, assembled, store, act, unhosted, restore, wait, faults,
                 history>>

\* The start answers and lets go of its key.  The run's first save was queued
\* before the answer, so it has been tried by now.
Answer(c) ==
  /\ call[c].st = "started"
  /\ \/ act[call[c].run] \in {"no", "clean"}
     \/ row[call[c].run] # "none"
  /\ answers' = [answers EXCEPT ![call[c].key] = @ \cup {call[c].run}]
  /\ call' = [d \in Callers |-> IF d \in AnsweredBy(c) THEN IdleCall ELSE call[d]]
  /\ dispatching' = [dispatching EXCEPT ![call[c].key] = Nobody]
  /\ UNCHANGED <<mode, assembled, store, act, unhosted, restore, wait, faults,
                 history>>

----------------------------------------------------------------------------
(* A hosted run. *)

\* The Machine moves; the save of the transition is scheduled.
Transition(r) ==
  /\ act[r] = "clean"
  /\ act' = [act EXCEPT ![r] = "dirty"]
  /\ UNCHANGED <<mode, assembled, store, unhosted, calls, restore, wait, faults,
                 history>>

\* The Machine reaches its final state; the save that says so is scheduled.
Finish(r) ==
  /\ act[r] \in {"dirty", "clean"}
  /\ act' = [act EXCEPT ![r] = "over"]
  /\ UNCHANGED <<mode, assembled, store, unhosted, calls, restore, wait, faults,
                 history>>

\* The scheduled save of a run whose Machine is active.
PersistLive(r) ==
  /\ act[r] = "dirty"
  /\ SaveRow(r, "live")
  /\ act' = [act EXCEPT ![r] = "clean"]
  /\ UNCHANGED <<mode, assembled, key, next, unhosted, calls, restore, wait,
                 crashes, restoreFaults, history>>

\* The scheduled save of a run whose Machine is done.
PersistDone(r) ==
  /\ act[r] = "over"
  /\ PersistEnd(r, "done")
  /\ UNCHANGED <<mode, assembled, key, next, unhosted, calls, restore, crashes,
                 restoreFaults, history>>

\* The error observer: an error or a Failure that no state caught is saved at
\* once.
Fault(r) ==
  /\ act[r] \in {"dirty", "clean"}
  /\ \E status \in {"error", "failed"} : PersistEnd(r, status)
  /\ UNCHANGED <<mode, assembled, key, next, unhosted, calls, restore, crashes,
                 restoreFaults, history>>

\* end: the host stops the actor and saves the end that it names, for a
\* mechanism event that no transition took or for a hand-over.
End(r) ==
  /\ Hosted(r)
  /\ \E status \in {"error", "done"} : PersistEnd(r, status)
  /\ UNCHANGED <<mode, assembled, key, next, unhosted, calls, restore, crashes,
                 restoreFaults, history>>

\* The cancel of a run at the door, which answers ok: it ends a hosted run, and
\* does nothing to any other.  (One of a run that ended changes nothing.)
Cancel(r) ==
  /\ mode = "serving"
  /\ row[r] = "live" \/ Hosted(r)
  /\ \/ Hosted(r) /\ PersistEnd(r, "cancelled")
     \/ ~Hosted(r) /\ UNCHANGED <<row, act, wait, saveFaults>>
  /\ UNCHANGED <<mode, assembled, key, next, unhosted, calls, restore, crashes,
                 restoreFaults, history>>

----------------------------------------------------------------------------
(* Waiting on a run. *)

\* A bug of onSettled: it attaches and never reads the row.
OnSettledUnread(w, r) ==
  /\ Up /\ wait[w].st = "idle"
  /\ Hosted(r) \/ row[r] # "none"
  /\ wait' = [wait EXCEPT ![w] =
                [st |-> "attached", run |-> r, told |-> "none", read |-> "none"]]
  /\ UNCHANGED <<mode, assembled, store, act, unhosted, calls, restore, faults,
                 history>>

\* onSettled: attach; for a run that this process does not host, also read
\* its row, whose answer comes later.
OnSettled(w, r) ==
  /\ Up /\ wait[w].st = "idle"
  /\ Hosted(r) \/ row[r] # "none"
  /\ wait' = [wait EXCEPT ![w] =
                [st |-> "attached", run |-> r, told |-> "none",
                 read |-> IF Hosted(r) THEN "none" ELSE row[r]]]
  /\ UNCHANGED <<mode, assembled, store, act, unhosted, calls, restore, faults,
                 history>>

\* The answer of that read: only an end is told, and only to a waiter that has
\* not heard one since.
ReadAnswer(w) ==
  /\ wait[w].read # "none"
  /\ wait' = [wait EXCEPT ![w] =
                IF @.st = "attached" /\ @.read \in Ended
                  THEN [st |-> "told", run |-> @.run, read |-> "none",
                        told |-> @.read]
                  ELSE [@ EXCEPT !.read = "none"]]
  /\ UNCHANGED <<mode, assembled, store, act, unhosted, calls, restore, faults,
                 history>>

\* The waiter's state exits, or its wait times out.
Detach(w) ==
  /\ wait[w].st = "attached" /\ wait[w].read = "none"
  /\ wait' = [wait EXCEPT ![w] = IdleWait]
  /\ UNCHANGED <<mode, assembled, store, act, unhosted, calls, restore, faults,
                 history>>

----------------------------------------------------------------------------
(* The process, and the restore. *)

Crash ==
  /\ Up /\ crashes < MaxCrashes
  /\ crashes' = crashes + 1
  /\ mode' = "down" /\ assembled' = FALSE
  /\ act' = [r \in Runs |-> "no"]
  /\ unhosted' = {}
  /\ call' = [c \in Callers |-> IdleCall]
  /\ dispatching' = [k \in Keys |-> Nobody]
  /\ restoring' = FALSE /\ todo' = {} /\ cur' = NoCur /\ pending' = FALSE
  /\ wait' = [w \in Waiters |-> IdleWait]
  /\ UNCHANGED <<store, saveFaults, restoreFaults, answers, history>>

\* A bug of the store's live(): it lists the ended rows too.
AllRows == {r \in Runs : row[r] # "none"}

\* live: the rows that a restore reads.
LiveRows == {r \in Runs : row[r] = "live"}

\* A boot with a current Assembly restores before it serves.
Boot ==
  /\ mode = "down"
  /\ mode' = "boot" /\ assembled' = TRUE
  /\ restoring' = TRUE /\ todo' = LiveRows
  /\ UNCHANGED <<store, act, unhosted, calls, cur, pending, wait, faults, history>>

\* A boot with none serves, and defers the restore to the first publish.
BootDeferred ==
  /\ mode = "down"
  /\ mode' = "serving" /\ pending' = TRUE
  /\ UNCHANGED <<assembled, store, act, unhosted, calls, restoring, todo, cur,
                 wait, faults, history>>

\* A publish, while no other is in flight: a pending restore runs now.
Publish ==
  /\ mode = "serving" /\ ~restoring
  /\ pending
  /\ assembled' = TRUE
  /\ restoring' = TRUE /\ todo' = LiveRows
  /\ UNCHANGED <<mode, store, act, unhosted, calls, pending, cur, wait, faults,
                 history>>

\* The next run of the list, oldest row first, unless this process hosts it by
\* now.
RestoreNext(r) ==
  /\ restoring /\ cur = NoCur
  /\ r \in todo /\ \A q \in todo : r <= q
  /\ todo' = todo \ {r}
  /\ cur' = IF Hosted(r) THEN NoCur ELSE [run |-> r, at |-> "asking"]
  /\ UNCHANGED <<mode, assembled, store, act, unhosted, calls, restoring,
                 pending, wait, faults, history>>

\* The run's Machine and its world are there: it is hosted again.
Reattach ==
  /\ cur.at = "asking"
  /\ act' = [act EXCEPT ![cur.run] = "dirty"]
  /\ unhosted' = unhosted \ {cur.run}
  /\ cur' = NoCur
  /\ UNCHANGED <<mode, assembled, store, calls, restoring, todo, pending, wait,
                 faults, history>>

\* A verdict that ends the run is written to its row.
MarkRow ==
  /\ cur.at = "asking"
  /\ \E status \in {"lost", "drifted"} :
       /\ row' = [row EXCEPT ![cur.run] = status]
       /\ cur' = [cur EXCEPT !.at = status]
  /\ UNCHANGED <<mode, assembled, key, next, act, unhosted, calls, restoring,
                 todo, pending, wait, faults, history>>

\* settledUnhosted: those who wait hear the verdict.
SettledUnhosted ==
  /\ cur.at \in {"lost", "drifted"}
  /\ FireSettled(cur.run, cur.at)
  /\ cur' = NoCur
  /\ UNCHANGED <<mode, assembled, store, act, unhosted, calls, restoring, todo,
                 pending, faults, history>>

\* A bug of the retry: the run is forgotten.
LeaveForgotten ==
  /\ cur.at = "asking"
  /\ cur' = NoCur
  /\ UNCHANGED <<mode, assembled, store, act, unhosted, calls, restoring, todo,
                 pending, wait, faults, history>>

\* A fault while asking: the row stays live, and the run is kept to retry.
LeaveToRetry ==
  /\ cur.at = "asking"
  /\ unhosted' = unhosted \cup {cur.run}
  /\ cur' = NoCur
  /\ UNCHANGED <<mode, assembled, store, act, calls, restoring, todo, pending,
                 wait, faults, history>>

\* The list is done.
RestoreDone ==
  /\ restoring /\ cur = NoCur /\ todo = {}
  /\ restoring' = FALSE /\ pending' = FALSE
  /\ mode' = "serving"
  /\ UNCHANGED <<assembled, store, act, unhosted, calls, todo, cur, wait, faults,
                 history>>

\* A deferred restore throws as a whole (the store refuses a verdict's write):
\* it stays pending, and the next publish tries again.
RestoreThrows ==
  /\ mode = "serving" /\ cur.at = "asking"
  /\ restoreFaults < MaxRestoreFaults
  /\ restoreFaults' = restoreFaults + 1
  /\ restoring' = FALSE /\ todo' = {} /\ cur' = NoCur
  /\ UNCHANGED <<mode, assembled, store, act, unhosted, calls, pending, wait,
                 crashes, saveFaults, history>>

\* The hourly sweep deletes the row of a run that ended long ago: longer than
\* a restore takes, so before a restore that runs now read its list.
Sweep(r) ==
  /\ mode = "serving" /\ assembled
  /\ r \notin todo \cup {cur.run} /\ ~Hosted(r)
  /\ row[r] \in Ended
  /\ row' = [row EXCEPT ![r] = "none"]
  /\ swept' = swept \cup {r}
  /\ UNCHANGED <<mode, assembled, key, next, act, unhosted, calls, restore, wait,
                 faults>>

----------------------------------------------------------------------------
Init ==
  /\ mode = "serving" /\ assembled = TRUE /\ pending = FALSE
  /\ row = [r \in Runs |-> "none"]
  /\ key = [r \in Runs |-> NoKey]
  /\ act = [r \in Runs |-> "no"]
  /\ unhosted = {} /\ next = 1
  /\ call = [c \in Callers |-> IdleCall]
  /\ dispatching = [k \in Keys |-> Nobody]
  /\ restoring = FALSE /\ todo = {} /\ cur = NoCur
  /\ wait = [w \in Waiters |-> IdleWait]
  /\ crashes = 0 /\ saveFaults = 0 /\ restoreFaults = 0
  /\ answers = [k \in Keys |-> {}]
  /\ swept = {}

CallStep(c) ==
  (\E k \in Keys : CallStart(c, k)) \/ Resolve(c) \/ StartFresh(c) \/ Refuse(c)
    \/ Answer(c)
RunStep(r) ==
  Transition(r) \/ Finish(r) \/ PersistLive(r) \/ PersistDone(r) \/ Fault(r)
    \/ End(r) \/ Cancel(r) \/ Sweep(r)
WaitStep(w) ==
  (\E r \in Runs : OnSettled(w, r)) \/ ReadAnswer(w) \/ Detach(w)
RestoreStep ==
  (\E r \in Runs : RestoreNext(r)) \/ Reattach \/ MarkRow \/ SettledUnhosted
    \/ LeaveToRetry \/ RestoreDone

Next ==
  \/ \E c \in Callers : CallStep(c)
  \/ \E r \in Runs : RunStep(r)
  \/ \E w \in Waiters : WaitStep(w)
  \/ RestoreStep \/ RestoreThrows
  \/ Boot \/ BootDeferred \/ Publish \/ Crash

\* The microtasks and the restore's awaits end; nothing else is promised.
Fairness ==
  /\ \A r \in Runs : WF_vars(PersistLive(r)) /\ WF_vars(PersistDone(r))
  /\ \A w \in Waiters : WF_vars(ReadAnswer(w))
  /\ WF_vars(RestoreStep)

Spec == Init /\ [][Next]_vars
FairSpec == Spec /\ Fairness

----------------------------------------------------------------------------
(* Properties. *)

\* The type invariant.
TypeOK ==
  /\ mode \in {"down", "boot", "serving"}
  /\ pending \in BOOLEAN /\ assembled \in BOOLEAN /\ restoring \in BOOLEAN
  /\ row \in [Runs -> Ended \cup {"none", "live"}]
  /\ key \in [Runs -> Keys \cup {NoKey}]
  /\ act \in [Runs -> {"no", "dirty", "clean", "over"}]
  /\ unhosted \subseteq Runs /\ todo \subseteq Runs /\ swept \subseteq Runs
  /\ next \in 1..(MaxRuns + 1)
  /\ call \in [Callers -> [st : {"idle", "asked", "joined", "started"},
                           key : Keys \cup {NoKey}, run : Runs \cup {NoRun}]]
  /\ dispatching \in [Keys -> Callers \cup {Nobody}]
  /\ cur \in [run : Runs \cup {NoRun},
              at : {"none", "asking", "lost", "drifted"}]
  /\ wait \in [Waiters -> [st : {"idle", "attached", "told"},
                           run : Runs \cup {NoRun},
                           read : Ended \cup {"none", "live"},
                           told : Ended \cup {"none"}]]
  /\ crashes \in 0..MaxCrashes /\ saveFaults \in 0..MaxSaveFaults
  /\ restoreFaults \in 0..MaxRestoreFaults
  /\ answers \in [Keys -> SUBSET Runs]

\* At no time do two runs carry one idempotency key, whether in the store or
\* in memory: the in-flight map, the hosted runs and the store together leave
\* no gap, across concurrent starts, crashes, deferred restores, refused saves
\* and sweeps (RunHost.start, RunHost.dispatched).
OneRunPerKey ==
  \A q, r \in Runs :
    /\ q # r
    /\ row[q] # "none" \/ Hosted(q)
    /\ row[r] # "none" \/ Hosted(r)
    => key[q] = NoKey \/ key[q] # key[r]

\* A caller that was answered a run under a key is never answered another run
\* under that key, by this process or a later one, unless the run's row was
\* swept: what lets a caller re-send a start whose answer it lost.  (A refused
\* save is only logged: it can forget the run with the process.)
StableAnswer ==
  saveFaults = 0 =>
    \A k \in Keys : \A q, r \in answers[k] : q = r \/ {q, r} \cap swept # {}

\* When no restore runs or is owed, every live row that this process does not
\* host is one that a restore left to retry: what liveConversations relies on
\* when it names the conversations to keep.  Until a restore throws as a whole
\* and is tried again, those are all it keeps.  (An end that the store refused
\* to save is another matter.)
NoOrphan ==
  mode = "serving" /\ ~pending /\ ~restoring /\ saveFaults = 0 =>
    LET orphans == {r \in LiveRows : ~Hosted(r)} IN
    orphans \subseteq unhosted /\ (restoreFaults = 0 => unhosted = orphans)

\* A run that ended stays ended: its row never says live again, and no actor
\* of it is hosted again.  (Until a restore throws as a whole and is tried
\* again: it lists runs that are hosted, and one of them may end before its turn.)
EndedStaysEnded ==
  [][\A r \in Runs : row[r] \in Ended /\ restoreFaults = 0 =>
       row'[r] \in Ended \cup {"none"} /\ act'[r] = "no"]_vars

\* A waiter is told the end that the row records, never one that a late read
\* or a second verdict contradicts, while the store takes what it is given.
\* (Until a restore throws as a whole, as above: the run that is hosted again,
\* or judged lost, after it ended has told its end by then.)
ToldTheTruth ==
  \A w \in Waiters :
    wait[w].st = "told" /\ saveFaults = 0 /\ restoreFaults = 0 =>
      row[wait[w].run] = wait[w].told \/ wait[w].run \in swept

\* A waiter on a run whose row says that it ended, and that this process does
\* not host, is told, or leaves: the attach, the read and the restore's verdict
\* leave no order in which the end passes it by (RunHost.onSettled,
\* RunHost.settledUnhosted).
EveryWaiterTold ==
  \A w \in Waiters :
    (wait[w].st = "attached" /\ row[wait[w].run] \in Ended /\ ~Hosted(wait[w].run))
      ~> (wait[w].st # "attached")

=============================================================================

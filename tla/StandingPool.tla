---------------------------- MODULE StandingPool ----------------------------
(***************************************************************************)
(* A standing Workflow: the run host keeps one live run of its Pool, hands *)
(* it over to a new run at a publish, at its age or its bound and after an *)
(* error, pauses it after a cancel or a poison loop, and resumes it for a  *)
(* Caller.  The items that a push Source's Hook was told are held must     *)
(* come through all of it.                                                 *)
(*                                                                         *)
(* One Workflow is modelled: the host keeps one head, one timer and one    *)
(* line of runs for each, and nothing joins two.  A synchronous step of    *)
(* the host that writes the store more than once is split at each write    *)
(* (busy), and only the end of the process comes between its parts.        *)
(***************************************************************************)
EXTENDS Naturals

CONSTANTS Items,         \* items that a push Source carries
          Resumers,      \* concurrent resumes
          MaxRuns,       \* bound: runs ever started
          Bound,         \* standingOpts.dispatches
          StartsThrow,   \* can a Pool's itemInput throw on an item it carries?
          MayLeave,      \* can a restore leave a live row to retry?
          MaxPublishes,  \* bound: publishes
          MaxCrashes     \* bound: ends of the process

ASSUME PoolBounds ==
  /\ {MaxRuns, MaxPublishes, MaxCrashes} \subseteq Nat
  /\ Bound \in Nat \ {0}
  /\ StartsThrow \in BOOLEAN /\ MayLeave \in BOOLEAN

\* STANDING_ERRORS_PAUSE
ErrorsPause == 3

Runs == 1..MaxRuns
NoRun == 0
Ended == {"done", "failed", "error", "cancelled", "lost", "drifted"}

VARIABLES
  up,       \* the process runs
  reg,      \* the Workflow in the registry: "standing", "ordinary", "removed"
  asm,      \* the current Assembly
  row,      \* the store: each run's status
  saved,    \* the store: the held items in each run's blob
  head,     \* the store: the head's run, streak and pause
  act,      \* each run in this process: "no", "dirty", "clean"
  mem,      \* the held items of each hosted run
  def,      \* the Assembly that each run started under
  took,     \* what each run's own items did: "none", "answered", "started"
  taken,    \* how many items each run took, counted up to Bound
  atBound,  \* runs that the host ended at their bound, with no run started
  plain,    \* runs of an ordinary Machine, which the age handed over to
  timer,    \* the Workflow's timer: "none", "age" or "backoff", and its run
  busy,     \* the rest of a synchronous step: "none", "old", "ended"
  keeping,  \* keepStanding: "none", "ask", or "load" after its await began
  resuming, \* each resume: "none", or the run whose blob it loads
  next, publishes, crashes,
  acked,    \* history: items whose Hook was answered held
  left,     \* history: items that left for a worker, or that a Caller dropped
  refused,  \* history: held items that a newer Assembly refused, with a mark
  futile    \* history: runs in a row that ended counted

started == <<next, plain, refused>>
runs == <<row, saved, act, mem, def, took, taken, atBound, started>>
ghosts == <<acked, left, futile>>
vars == <<up, reg, asm, runs, head, timer, busy, keeping, resuming, publishes,
          crashes, ghosts>>

NoTimer == [kind |-> "none", run |-> NoRun]
NotBusy == [op |-> "none", run |-> NoRun, status |-> "none"]
IsStanding == reg = "standing"
Hosted(r) == act[r] # "no"
HostedRuns == {r \in Runs : Hosted(r)}

\* A run that took its bound, with an answer to one of its items.
BoundDue(r) ==
  /\ act[r] = "clean" /\ head.run = r /\ IsStanding
  /\ taken[r] >= Bound /\ took[r] # "none"

\* No synchronous step is under way, and the event loop's microtasks ran: the
\* scheduled saves, checkBound's, and the awaits of the store's synchronous
\* reads.  Only then does it take a timer, a request or a delivery.
Idle ==
  /\ busy = NotBusy /\ keeping # "load"
  /\ \A r \in Runs : act[r] # "dirty" /\ ~BoundDue(r)
  /\ \A x \in Resumers : resuming[x] = NoRun

\* standingRun: the head when this process hosts it, else the newest hosted run.
StandingRun ==
  CASE head.run \in HostedRuns -> head.run
    [] head.run \notin HostedRuns /\ HostedRuns # {} ->
         CHOOSE r \in HostedRuns : \A q \in HostedRuns : q <= r
    [] OTHER -> NoRun

----------------------------------------------------------------------------
(* Starting and handing over. *)

\* carriedOf: the new run parses each carried item again, and refuses, with a
\* mark on its feed, those that its own Assembly does not take.
CarriedOf(carry) ==
  \E lost \in SUBSET carry :
    /\ mem' = [mem EXCEPT ![next] = carry \ lost]
    /\ refused' = refused \cup lost

\* What a run is given of a hand-over.  An ordinary Machine gets it as its raw
\* input and reads nothing of it: the items are lost, without a mark.
GivenOf(carry) == IF IsStanding THEN carry ELSE {}

\* startStanding: the run is spawned with the items it carries, the head names
\* it, and its age is armed.  Its first save is a microtask later.  A run whose
\* first step throws, on a held item that a newer Assembly maps, is saved error
\* inside the spawn, with no context, before the head names it: standingEnded
\* finds another head, and no age is armed.
StartStanding(carry, streak) ==
  /\ next \in Runs
  /\ next' = next + 1
  /\ plain' = IF IsStanding THEN plain ELSE plain \cup {next}
  /\ def' = [def EXCEPT ![next] = asm]
  /\ head' = [run |-> next, streak |-> streak, paused |-> "no"]
  /\ \/ /\ CarriedOf(GivenOf(carry))
        /\ act' = [act EXCEPT ![next] = "dirty"]
        /\ timer' = [kind |-> "age", run |-> next]
        /\ UNCHANGED row
     \/ /\ StartsThrow /\ GivenOf(carry) # {} /\ def[head.run] # asm
        /\ row' = [row EXCEPT ![next] = "error"]
        /\ timer' = NoTimer
        /\ UNCHANGED <<act, mem, refused>>
  /\ UNCHANGED <<saved, took, taken, atBound>>

\* handOverLive, up to the write that ends the old run.
HandOverLive(r) ==
  /\ StartStanding(mem[r], 0)
  /\ busy' = [op |-> "old", run |-> r, status |-> "done"]
  /\ futile' = 0

\* The rest of it: the old run is saved done, with what it was handed over to.
EndOld ==
  /\ busy.op = "old"
  /\ row' = [row EXCEPT ![busy.run] = "done"]
  /\ saved' = [saved EXCEPT ![busy.run] = mem[busy.run]]
  /\ act' = [act EXCEPT ![busy.run] = "no"]
  /\ busy' = NotBusy
  /\ UNCHANGED <<up, reg, asm, mem, def, took, taken, atBound, started, head,
                 timer, keeping, resuming, publishes, crashes, ghosts>>

\* persist with an end, up to the head's write.
SaveEnd(r, status) ==
  /\ row' = [row EXCEPT ![r] = status]
  /\ saved' = [saved EXCEPT ![r] = mem[r]]
  /\ act' = [act EXCEPT ![r] = "no"]
  /\ busy' = [op |-> "ended", run |-> r, status |-> status]
  /\ UNCHANGED <<mem, def, took, taken, started>>

\* A run counts when none of the items that it took itself started a run.
Counts(r) == r \in atBound \/ took[r] # "started"

\* After 3 hand-overs from counted runs in a row, the next one pauses.
Pauses(streak) == streak > ErrorsPause

\* The ends that hand over after the back-off (a Machine's fail() is one).
HandsOver == {"error", "failed"}

\* standingEnded: what the end of the head's run means.
StandingEnded ==
  /\ busy.op = "ended"
  /\ busy' = NotBusy
  /\ LET r == busy.run
         streak == IF Counts(r) THEN head.streak + 1 ELSE 0
     IN \/ head.run # r /\ UNCHANGED <<head, timer, futile>>
        \/ /\ head.run = r /\ busy.status = "cancelled"
           /\ head' = [head EXCEPT !.paused = "cancel"]
           /\ timer' = NoTimer
           /\ UNCHANGED futile
        \/ /\ head.run = r /\ busy.status # "cancelled"
           /\ IF r \in atBound \/ busy.status \in HandsOver
                THEN /\ futile' = IF took[r] = "started" THEN 0 ELSE futile + 1
                     /\ head' =
                          [run |-> r, streak |-> streak,
                           paused |-> IF Pauses(streak) THEN "loop" ELSE "no"]
                     /\ timer' = IF Pauses(streak) THEN NoTimer
                                   ELSE [kind |-> "backoff", run |-> r]
                ELSE timer' = NoTimer /\ UNCHANGED <<head, futile>>
  /\ UNCHANGED <<up, reg, asm, runs, keeping, resuming, publishes, crashes,
                 acked, left>>

----------------------------------------------------------------------------
(* A live run. *)

\* A push Source hears an item, and the Pool holds it.
Hear(r, i) ==
  /\ Idle /\ act[r] = "clean" /\ head.run = r /\ r \notin plain
  /\ i \notin acked \cup mem[r]
  /\ mem' = [mem EXCEPT ![r] = @ \cup {i}]
  /\ act' = [act EXCEPT ![r] = "dirty"]
  /\ UNCHANGED <<up, reg, asm, row, saved, def, took, taken, atBound, started,
                 head, timer, busy, keeping, resuming, publishes, crashes,
                 ghosts>>

\* The scheduled save; the Hook's answer leaves after it.
Persist(r) ==
  /\ busy = NotBusy /\ act[r] = "dirty"
  /\ row' = [row EXCEPT ![r] = "live"]
  /\ saved' = [saved EXCEPT ![r] = mem[r]]
  /\ act' = [act EXCEPT ![r] = "clean"]
  /\ acked' = acked \cup mem[r]
  /\ UNCHANGED <<up, reg, asm, mem, def, took, taken, atBound, started, head,
                 timer, busy, keeping, resuming, publishes, crashes, left,
                 futile>>

\* The Pool claims a held item and sends it to its worker.
Claim(r, i) ==
  /\ Idle /\ act[r] = "clean" /\ i \in mem[r]
  /\ mem' = [mem EXCEPT ![r] = @ \ {i}]
  /\ taken' = [taken EXCEPT ![r] = IF @ = Bound THEN @ ELSE @ + 1]
  /\ act' = [act EXCEPT ![r] = "dirty"]
  /\ left' = left \cup {i}
  /\ UNCHANGED <<up, reg, asm, row, saved, def, took, atBound, started, head,
                 timer, busy, keeping, resuming, publishes, crashes, acked,
                 futile>>

\* The worker of a claimed item started a run, or ended with none.
Settle(r, what) ==
  /\ Idle /\ act[r] = "clean" /\ taken[r] > 0
  /\ took[r] = "none" \/ (took[r] = "answered" /\ what = "started")
  /\ took' = [took EXCEPT ![r] = what]
  /\ act' = [act EXCEPT ![r] = "dirty"]
  /\ UNCHANGED <<up, reg, asm, row, saved, mem, def, taken, atBound, started,
                 head, timer, busy, keeping, resuming, publishes, crashes,
                 ghosts>>

\* checkBound's microtask, after the save that counted the last item: a run whose
\* items started a run is handed over at once, any other ends.
BoundReached(r) ==
  /\ busy = NotBusy /\ BoundDue(r)
  /\ \/ /\ took[r] = "started" /\ HandOverLive(r)
     \/ /\ took[r] # "started"
        /\ atBound' = atBound \cup {r}
        /\ SaveEnd(r, "done")
        /\ UNCHANGED <<head, timer, futile>>
  /\ UNCHANGED <<up, reg, asm, keeping, resuming, publishes, crashes, acked,
                 left>>

\* The run errors, fails, or a Caller cancels it; an ordinary one also ends done.
RunEnds(r, status) ==
  /\ Idle /\ Hosted(r) /\ (status = "done" => r \in plain)
  /\ SaveEnd(r, status)
  /\ UNCHANGED <<up, reg, asm, atBound, head, timer, keeping, resuming,
                 publishes, crashes, ghosts>>

----------------------------------------------------------------------------
(* The timer. *)

\* The age of the live run.  The callback asks whether the run is hosted and
\* the head, and not whether the Workflow stands: one that a publish made an
\* ordinary Workflow is handed over too.
AgeFires ==
  /\ Idle /\ timer.kind = "age" /\ timer.run \in HostedRuns
  /\ head.run = timer.run /\ reg # "removed"
  /\ HandOverLive(timer.run)
  /\ UNCHANGED <<up, reg, asm, keeping, resuming, publishes, crashes, acked,
                 left>>

\* Of a Workflow that a publish removed, or whose declared input refuses the
\* hand-over, startNow throws out of the callback, and the exception that
\* nothing catches ends the process.
AgeThrows ==
  /\ Idle /\ timer.kind = "age" /\ timer.run \in HostedRuns
  /\ head.run = timer.run /\ ~IsStanding
  /\ up' = FALSE
  /\ act' = [r \in Runs |-> "no"]
  /\ timer' = NoTimer /\ keeping' = "none"
  /\ resuming' = [x \in Resumers |-> NoRun]
  /\ UNCHANGED <<reg, asm, row, saved, mem, def, took, taken, atBound, started,
                 head, busy, publishes, crashes, ghosts>>

\* What the back-off asks again; a bug asks whether the ended run is hosted.
StillHosted(r) == head.run = r /\ Hosted(r) /\ IsStanding
StillWaits(r) == head.run = r /\ HostedRuns = {} /\ IsStanding

\* The back-off after a counted end, and a bug that starts the count again.
BackoffForgets ==
  /\ Idle /\ timer.kind = "backoff"
  /\ \/ StillWaits(timer.run) /\ StartStanding(mem[timer.run], 0)
     \/ ~StillWaits(timer.run) /\ timer' = NoTimer /\ UNCHANGED <<runs, head>>
  /\ UNCHANGED <<up, reg, asm, busy, keeping, resuming, publishes, crashes,
                 ghosts>>

BackoffFires ==
  /\ Idle /\ timer.kind = "backoff"
  /\ \/ StillWaits(timer.run) /\ StartStanding(mem[timer.run], head.streak)
     \/ ~StillWaits(timer.run) /\ timer' = NoTimer /\ UNCHANGED <<runs, head>>
  /\ UNCHANGED <<up, reg, asm, busy, keeping, resuming, publishes, crashes,
                 ghosts>>

----------------------------------------------------------------------------
(* Keeping the Workflow at a publish and at a boot. *)

\* A publish swaps the registry; keepStanding follows.
Publish(kind) ==
  /\ Idle /\ up /\ keeping = "none" /\ publishes < MaxPublishes
  /\ publishes' = publishes + 1
  /\ asm' = asm + 1
  /\ reg' = kind
  /\ keeping' = IF kind = "standing" THEN "ask" ELSE "none"
  /\ UNCHANGED <<up, runs, head, timer, busy, resuming, crashes, ghosts>>

\* keepOne with a live run: the head adopts it; a run of another Assembly is
\* handed over, and any other has its age armed.
KeepLive ==
  /\ Idle /\ keeping = "ask" /\ StandingRun # NoRun
  /\ keeping' = "none"
  /\ \/ def[StandingRun] # asm /\ HandOverLive(StandingRun)
     \/ /\ def[StandingRun] = asm
        /\ head' = IF head.run = StandingRun THEN head
                     ELSE [run |-> StandingRun, streak |-> 0, paused |-> "no"]
        /\ timer' = [kind |-> "age", run |-> StandingRun]
        /\ UNCHANGED <<runs, busy, futile>>
  /\ UNCHANGED <<up, reg, asm, resuming, publishes, crashes, acked, left>>

\* keepOne with none: nothing for a paused Workflow or one in its back-off; else
\* the head's blob is loaded.
KeepWithoutRun ==
  /\ Idle /\ keeping = "ask" /\ StandingRun = NoRun
  /\ keeping' = IF head.paused # "no" \/ timer # NoTimer THEN "none" ELSE "load"
  /\ UNCHANGED <<up, reg, asm, runs, head, timer, busy, resuming, publishes,
                 crashes, ghosts>>

\* keepOne after its await: a live row that the restore left stays, a cancel
\* pauses, any other blob is handed over, and without one the Workflow gets a
\* first run.
KeepLoaded ==
  LET stored == IF head.run = NoRun THEN "none" ELSE row[head.run]
  IN /\ busy = NotBusy /\ keeping = "load"
     /\ keeping' = "none"
     /\ \/ stored = "live" /\ UNCHANGED <<runs, head, timer>>
        \/ /\ stored = "cancelled"
           /\ head' = [head EXCEPT !.paused = "cancel"]
           /\ UNCHANGED <<runs, timer>>
        \/ /\ stored \in Ended \ {"cancelled"}
           /\ StartStanding(saved[head.run], head.streak)
        \/ stored = "none" /\ StartStanding({}, 0)
     /\ UNCHANGED <<up, reg, asm, busy, resuming, publishes, crashes, ghosts>>

----------------------------------------------------------------------------
(* Resuming a paused Workflow. *)

\* resumeStanding, up to the load of the paused run's blob.
ResumeAsk(x) ==
  /\ up /\ busy = NotBusy /\ keeping # "load" /\ resuming[x] = NoRun
  /\ IsStanding /\ StandingRun = NoRun /\ head.paused # "no"
  /\ resuming' = [resuming EXCEPT ![x] = head.run]
  /\ UNCHANGED <<up, reg, asm, runs, head, timer, busy, keeping, publishes,
                 crashes, ghosts>>

\* Asked again after the load: another resume may have started the run.  A bug
\* asks once.
AskedOnce == TRUE
StillPaused == StandingRun = NoRun /\ head.paused # "no"

\* resumeStanding after the load, with the held items or with none.
ResumeLoaded(x, dropHeld) ==
  /\ busy = NotBusy /\ resuming[x] # NoRun
  /\ resuming' = [resuming EXCEPT ![x] = NoRun]
  /\ \/ /\ StillPaused /\ reg # "removed"
        /\ StartStanding(IF dropHeld THEN {} ELSE saved[resuming[x]], 0)
        /\ left' = IF dropHeld THEN left \cup saved[resuming[x]] ELSE left
        /\ futile' = 0
     \/ /\ ~StillPaused \/ reg = "removed"
        /\ UNCHANGED <<runs, head, timer, left, futile>>
  /\ UNCHANGED <<up, reg, asm, busy, keeping, publishes, crashes, acked>>

----------------------------------------------------------------------------
(* The process and the store. *)

Crash ==
  /\ up /\ crashes < MaxCrashes
  /\ crashes' = crashes + 1
  /\ up' = FALSE
  /\ act' = [r \in Runs |-> "no"]
  /\ timer' = NoTimer /\ busy' = NotBusy /\ keeping' = "none"
  /\ resuming' = [x \in Resumers |-> NoRun]
  /\ UNCHANGED <<reg, asm, row, saved, mem, def, took, taken, atBound, started,
                 head, publishes, ghosts>>

\* A boot restores each live row, or marks it lost or drifted, or leaves it to
\* retry; keepStanding follows.
Boot ==
  /\ ~up /\ up' = TRUE
  /\ \E outcome \in [{r \in Runs : row[r] = "live"} ->
                       {"hosted", "lost", "drifted"} \cup
                         (IF MayLeave THEN {"left"} ELSE {})] :
       /\ act' = [r \in Runs |->
                    IF r \in DOMAIN outcome /\ outcome[r] = "hosted"
                      THEN "dirty" ELSE "no"]
       /\ row' = [r \in Runs |->
                    IF r \in DOMAIN outcome /\ outcome[r] \in {"lost", "drifted"}
                      THEN outcome[r] ELSE row[r]]
  /\ mem' = saved
  /\ keeping' = IF IsStanding THEN "ask" ELSE "none"
  /\ UNCHANGED <<reg, asm, saved, def, took, taken, atBound, started, head,
                 timer, busy, resuming, publishes, crashes, ghosts>>

\* A bug of the sweep: it takes the rows that a head names too.
MaySweepAny(r) == row[r] \in Ended

\* The sweep deletes the old ended rows, never the one that the head names.
MaySweep(r) == row[r] \in Ended /\ r # head.run

\* One sweep, of the runs up to the newest one that is past runs.retain.
Sweep(newest) ==
  LET swept == {r \in 1..newest : MaySweep(r)}
  IN /\ Idle /\ up /\ newest \in swept
     /\ row' = [r \in Runs |-> IF r \in swept THEN "none" ELSE row[r]]
     /\ saved' = [r \in Runs |-> IF r \in swept THEN {} ELSE saved[r]]
     /\ UNCHANGED <<up, reg, asm, act, mem, def, took, taken, atBound, started,
                    head, timer, busy, keeping, resuming, publishes, crashes,
                    ghosts>>

----------------------------------------------------------------------------
Init ==
  /\ up = TRUE /\ reg = "standing" /\ asm = 1
  /\ row = [r \in Runs |-> "none"] /\ saved = [r \in Runs |-> {}]
  /\ head = [run |-> NoRun, streak |-> 0, paused |-> "no"]
  /\ act = [r \in Runs |-> "no"] /\ mem = [r \in Runs |-> {}]
  /\ def = [r \in Runs |-> 0]
  /\ took = [r \in Runs |-> "none"] /\ taken = [r \in Runs |-> 0]
  /\ atBound = {} /\ plain = {} /\ timer = NoTimer /\ busy = NotBusy
  /\ keeping = "ask" /\ resuming = [x \in Resumers |-> NoRun]
  /\ next = 1 /\ publishes = 0 /\ crashes = 0
  /\ acked = {} /\ left = {} /\ refused = {} /\ futile = 0

Keep == KeepLive \/ KeepWithoutRun \/ KeepLoaded
Resume(x) == ResumeAsk(x) \/ \E drop \in BOOLEAN : ResumeLoaded(x, drop)

Next ==
  \/ \E r \in Runs :
       \/ \E i \in Items :
            Hear(r, i) \/ Claim(r, i)
       \/ \E what \in {"answered", "started"} : Settle(r, what)
       \/ Persist(r) \/ BoundReached(r) \/ Sweep(r)
       \/ \E status \in {"error", "failed", "cancelled", "done"} :
            RunEnds(r, status)
  \/ EndOld \/ StandingEnded
  \/ AgeFires \/ AgeThrows \/ BackoffFires
  \/ \E kind \in {"standing", "ordinary", "removed"} : Publish(kind)
  \/ Keep
  \/ \E x \in Resumers : Resume(x)
  \/ Crash \/ Boot

\* Synchronous steps end, microtasks run, timers fire, a process that ended is
\* started again.
Fairness ==
  /\ WF_vars(EndOld) /\ WF_vars(StandingEnded) /\ WF_vars(Keep)
  /\ WF_vars(BackoffFires) /\ WF_vars(Boot)
  /\ \A r \in Runs : WF_vars(Persist(r))

Spec == Init /\ [][Next]_vars
FairSpec == Spec /\ Fairness

----------------------------------------------------------------------------
(* Properties. *)

\* The type invariant.
TypeOK ==
  /\ up \in BOOLEAN /\ reg \in {"standing", "ordinary", "removed"}
  /\ asm \in 1..(MaxPublishes + 1)
  /\ row \in [Runs -> Ended \cup {"none", "live"}]
  /\ saved \in [Runs -> SUBSET Items] /\ mem \in [Runs -> SUBSET Items]
  /\ head \in [run : 0..MaxRuns, streak : 0..(ErrorsPause + 1),
               paused : {"no", "cancel", "loop"}]
  /\ act \in [Runs -> {"no", "dirty", "clean"}]
  /\ def \in [Runs -> 0..(MaxPublishes + 1)]
  /\ took \in [Runs -> {"none", "answered", "started"}]
  /\ taken \in [Runs -> 0..Bound] /\ {atBound, plain} \subseteq SUBSET Runs
  /\ timer \in [kind : {"none", "age", "backoff"}, run : 0..MaxRuns]
  /\ busy \in [op : {"none", "old", "ended"}, run : 0..MaxRuns,
               status : Ended \cup {"none"}]
  /\ keeping \in {"none", "ask", "load"}
  /\ resuming \in [Resumers -> 0..MaxRuns]
  /\ next \in 1..(MaxRuns + 1)
  /\ publishes \in 0..MaxPublishes /\ crashes \in 0..MaxCrashes
  /\ {acked, left, refused} \subseteq SUBSET Items /\ futile \in Nat

\* At every point where another step can come, at most one run of the
\* Workflow is hosted: a hand-over, a back-off, a publish, a boot and two
\* resumes at once never leave two (handOverLive, keepOne, resumeStanding).
OneStandingRun ==
  Idle => \A q, r \in HostedRuns : q = r

\* A poison loop ends: when four runs in a row ended with no run started, each
\* handed over from the last, the Workflow is paused (standingEnded, and the
\* streak that startStanding carries).
PoisonLoopPauses ==
  busy = NotBusy /\ futile > ErrorsPause => head.paused # "no"

\* An item whose Hook was answered held, that no worker took, no Caller dropped
\* and no newer Assembly refused with a mark, is in a hosted run, in a live row,
\* or in the blob that the head names: the next run of the Workflow is given it.
HeldIsKept ==
  \A i \in acked \ (left \cup refused) : \E r \in Runs :
    \/ Hosted(r) /\ i \in mem[r]
    \/ row[r] = "live" /\ i \in saved[r]
    \/ r = head.run /\ row[r] # "none" /\ i \in saved[r]

\* While the process runs, HeldIsKept holds through every hand-over, pause,
\* publish, resume and sweep whose starts do not throw, until the age hands the
\* Workflow over to an ordinary one (handOverLive, carriedOf, resumeStanding).
HeldWhileUp == crashes = 0 /\ plain = {} => HeldIsKept

\* A standing Workflow that is not paused has a live run again, whatever ended
\* the last one, as long as runs can be started.
StandsAgain ==
  (IsStanding /\ head.paused = "no" /\ HostedRuns = {})
    ~> \/ HostedRuns # {} \/ head.paused # "no" \/ ~IsStanding
       \/ next \notin Runs \/ \E r \in Runs : row[r] = "live"

=============================================================================

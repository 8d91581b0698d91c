------------------------- MODULE StandingPoolProofs -------------------------
(***************************************************************************)
(* For every number of items, resumes, runs, publishes and crashes: a      *)
(* standing Workflow has one live run, a poison loop pauses it, and what   *)
(* its Hook was told is held stays with the run that its head names.       *)
(*                                                                         *)
(* Alone is the argument across crashes.  What a boot may host is the live *)
(* rows, so it says of the rows what it says of the process: two runs are  *)
(* hosted only between the two writes of a hand-over, and even then one    *)
(* row is live.  Ahead is the argument within one process: the head names  *)
(* the hosted run, or the one that ended last, through every step, so that *)
(* what a start carries is what was held, and what it counts is a streak.  *)
(***************************************************************************)
EXTENDS StandingPool, TLAPS

\* A leaf that names no prover is tried with Zenon, then with SMT.
USE ZenonT(30), SMTT(30)

RunIds == Runs \cup {NoRun}
Rows == Ended \cup {"none", "live"}
Heads == [run : RunIds, streak : Nat, paused : {"no", "cancel", "loop"}]
Timers == {NoTimer} \cup [kind : {"age", "backoff"}, run : Runs]

RunsOK ==
  /\ row \in [Runs -> Rows] /\ act \in [Runs -> {"no", "dirty", "clean"}]
  /\ saved \in [Runs -> SUBSET Items] /\ mem \in [Runs -> SUBSET Items]
  /\ taken \in [Runs -> Nat] /\ took \in [Runs -> {"none", "answered", "started"}]
  /\ atBound \subseteq Runs /\ next \in Nat

HostOK ==
  /\ up \in BOOLEAN /\ crashes \in Nat /\ futile \in Nat
  /\ head \in Heads /\ timer \in Timers /\ resuming \in [Resumers -> RunIds]

Types == RunsOK /\ HostOK

\* A run that was not started has nothing, and is not named.
Fresh ==
  /\ head.run < next
  /\ \A r \in Runs : r >= next =>
       /\ act[r] = "no" /\ row[r] = "none" /\ taken[r] = 0 /\ mem[r] = {} /\ saved[r] = {}

\* The parts of a synchronous step.  Nothing is under way in a process that does not run.
Parts ==
  /\ \/ busy = NotBusy
     \/ busy.op = "old" /\ busy.run \in HostedRuns /\ up
     \/ busy.op = "ended" /\ busy.run \in Runs /\ up /\ row[busy.run] \in Ended
  /\ ~up => /\ HostedRuns = {} /\ busy = NotBusy /\ keeping = "none" /\ timer = NoTimer
            /\ \A x \in Resumers : resuming[x] = NoRun

\* A clean run is a live row that holds what the run holds.
Clean == \A r \in Runs : act[r] = "clean" => row[r] = "live" /\ saved[r] = mem[r]

\* keepOne loads a blob for a Workflow with no run, no pause and no timer.
Loading ==
  keeping = "load" =>
    /\ HostedRuns = {} /\ busy = NotBusy /\ timer = NoTimer /\ head.paused = "no"
    /\ \A x \in Resumers : resuming[x] = NoRun

\* One run is hosted, but between the two writes of a hand-over.
One == busy = NotBusy => \A q, r \in HostedRuns : q = r

Basic == Types /\ Fresh /\ Parts /\ Clean /\ Loading

\* And one row is live, which is hosted.
Alone ==
  /\ One
  /\ busy.op = "old" => /\ HostedRuns \subseteq {busy.run, head.run}
                        /\ busy.run # head.run
                        /\ head.run \in Runs /\ row[head.run] # "live"
  /\ busy.op = "ended" => HostedRuns = {}
  /\ \A q, r \in Runs : row[q] = "live" /\ row[r] = "live" => q = r
  /\ up => \A r \in Runs : row[r] = "live" => Hosted(r)

\* The head names the run that is hosted or live.
Ahead ==
  /\ HostedRuns \subseteq {head.run} \cup (IF busy.op = "old" THEN {busy.run} ELSE {})
  /\ \A r \in Runs : row[r] = "live" => r = head.run \/ (busy.op = "old" /\ r = busy.run)
  /\ busy.op = "old" => busy.run # head.run /\ head.run \in Runs /\ row[head.run] # "live"
  /\ busy.op = "ended" => busy.run = head.run /\ HostedRuns = {}
  /\ head.run \in Runs =>
       /\ Hosted(head.run) => head.paused = "no"
       /\ Hosted(head.run) \/ row[head.run] # "none"
       /\ act[head.run] = "no" => saved[head.run] = mem[head.run]
       /\ row[head.run] = "live" /\ ~Hosted(head.run) =>
            head.paused = "no" /\ timer = NoTimer

\* A resume loads the blob of the run that the head names, unless another was first.
Resuming ==
  \A x \in Resumers : resuming[x] # NoRun =>
    /\ busy = NotBusy /\ (resuming[x] = head.run \/ head.paused = "no")
    /\ \A r \in HostedRuns : taken[r] = 0

\* The streak that the head carries counts at least the runs that ended counted.
Streak ==
  /\ futile <= head.streak /\ (head.streak > ErrorsPause => head.paused # "no")
  /\ timer.kind = "backoff" => head.paused = "no"
  /\ head.run = NoRun => futile = 0

Within == Ahead /\ Resuming /\ Streak

\* What is held is with the run that the head names.
Held == \A i \in acked \ (left \cup refused) : head.run \in Runs /\ i \in mem[head.run]

\* The three arguments.
InvAlone == Basic /\ Alone
InvWithin == crashes \in Nat /\ (crashes = 0 => Basic /\ Within)
InvHeld == crashes \in Nat /\ (crashes = 0 /\ plain = {} => Basic /\ Within /\ Held)

-----------------------------------------------------------------------------
(* Runs. *)

LEMMA RunNumbers == NoRun \notin Runs /\ \A r \in Runs : r \in Nat /\ r # NoRun
  BY PoolBounds, SMTT(30) DEF Runs, NoRun

LEMMA Hosting == HostedRuns \subseteq Runs /\ \A r \in Runs : r \in HostedRuns <=> act[r] # "no"
  BY DEF HostedRuns, Hosted

LEMMA Names == "live" \notin Ended /\ "none" \notin Ended /\ NotBusy.op = "none"
  BY DEF Ended, NotBusy

LEMMA StandingIs ==
  ASSUME \A q, r \in HostedRuns : q = r
  PROVE  /\ HostedRuns = {} => StandingRun = NoRun
         /\ HostedRuns # {} => StandingRun \in HostedRuns
         /\ head.run \in HostedRuns => StandingRun = head.run
<1>1. CASE head.run \in HostedRuns
  BY <1>1 DEF StandingRun
<1>2. CASE head.run \notin HostedRuns /\ HostedRuns # {}
  <2>1. PICK r \in HostedRuns : TRUE
    BY <1>2
  <2>2. r <= r
    BY <2>1, RunNumbers, Hosting, SMTT(30)
  <2>3. \E h \in HostedRuns : \A q \in HostedRuns : q <= h
    BY <2>1, <2>2
  <2>4. StandingRun = CHOOSE h \in HostedRuns : \A q \in HostedRuns : q <= h
    BY <1>2 DEF StandingRun
  <2> QED BY <1>2, <2>3, <2>4
<1>3. CASE HostedRuns = {}
  BY <1>3 DEF StandingRun
<1> QED BY <1>1, <1>2, <1>3

\* What is used is a run that was started.
LEMMA Used ==
  ASSUME Types, Fresh
  PROVE  \A r \in Runs : act[r] # "no" \/ row[r] # "none" => r < next
  BY RunNumbers, SMTT(30) DEF Types, RunsOK, HostOK, Heads, RunIds, Fresh

\* A start: the next run, dirty with what it takes of what it carries, or thrown; no other run
\* moves.
LEMMA Started ==
  ASSUME Types, Fresh, NEW carry, NEW streak, StartStanding(carry, streak)
  PROVE  /\ next \in Runs /\ next' = next + 1 /\ head.run # next
         /\ head' = [run |-> next, streak |-> streak, paused |-> "no"]
         /\ act[next] = "no" /\ row[next] = "none" /\ mem[next] = {} /\ saved[next] = {}
         /\ taken[next] = 0 /\ UNCHANGED <<saved, took, taken, atBound>>
         /\ \A r \in Runs : r # next => act'[r] = act[r] /\ row'[r] = row[r] /\ mem'[r] = mem[r]
         /\ \/ /\ act'[next] = "dirty" /\ row'[next] = "none"
               /\ plain' = {} => carry \ refused' \subseteq mem'[next]
               /\ timer' = [kind |-> "age", run |-> next]
            \/ /\ StartsThrow /\ act'[next] = "no" /\ row'[next] = "error" /\ mem'[next] = {}
               /\ timer' = NoTimer
         /\ row' \in [Runs -> Rows] /\ act' \in [Runs -> {"no", "dirty", "clean"}]
         /\ carry \subseteq Items => mem' \in [Runs -> SUBSET Items]
<1>1. /\ next \in Runs /\ next' = next + 1 /\ UNCHANGED <<saved, took, taken, atBound>>
      /\ head' = [run |-> next, streak |-> streak, paused |-> "no"]
  BY DEF StartStanding
<1>2. next >= next /\ head.run # next
  BY <1>1, RunNumbers, SMTT(30) DEF Types, RunsOK, HostOK, Heads, RunIds, Fresh
<1>3. /\ act[next] = "no" /\ row[next] = "none" /\ mem[next] = {} /\ saved[next] = {}
      /\ taken[next] = 0
  BY <1>1, <1>2 DEF Fresh
<1>4. /\ row \in [Runs -> Rows] /\ act \in [Runs -> {"no", "dirty", "clean"}]
      /\ mem \in [Runs -> SUBSET Items]
  BY DEF Types, RunsOK
<1>5. CASE /\ CarriedOf(GivenOf(carry))
           /\ act' = [act EXCEPT ![next] = "dirty"]
           /\ timer' = [kind |-> "age", run |-> next]
           /\ UNCHANGED row
  <2>1. PICK lost \in SUBSET GivenOf(carry) :
          /\ mem' = [mem EXCEPT ![next] = GivenOf(carry) \ lost]
          /\ refused' = refused \cup lost
    BY <1>5 DEF CarriedOf
  <2>2. GivenOf(carry) \subseteq carry /\ (plain' = {} => GivenOf(carry) = carry)
    BY DEF StartStanding, GivenOf
  <2>3. mem'[next] = GivenOf(carry) \ lost
    BY <1>1, <1>4, <2>1
  <2>4. plain' = {} => carry \ refused' \subseteq mem'[next]
    BY <2>1, <2>2, <2>3
  <2>5. carry \subseteq Items => mem' \in [Runs -> SUBSET Items]
    BY <1>4, <2>1, <2>2
  <2> QED BY <1>1, <1>2, <1>3, <1>4, <1>5, <2>1, <2>4, <2>5
<1>6. CASE /\ StartsThrow
           /\ row' = [row EXCEPT ![next] = "error"]
           /\ timer' = NoTimer
           /\ UNCHANGED <<act, mem>>
  <2>1. "error" \in Rows
    BY DEF Rows, Ended
  <2> QED BY <1>1, <1>2, <1>3, <1>4, <1>6, <2>1
<1> QED BY <1>5, <1>6 DEF StartStanding

-----------------------------------------------------------------------------
(* What the steps do to the runs. *)

\* A step of the run r alone.
Only(r) ==
  \A q \in Runs : q # r => /\ act'[q] = act[q] /\ row'[q] = row[q] /\ mem'[q] = mem[q]
                           /\ saved'[q] = saved[q] /\ taken'[q] = taken[q]

Works(r) == \/ \E i \in Items : Hear(r, i) \/ Claim(r, i)
            \/ \E what \in {"answered", "started"} : Settle(r, what)

\* What the steps of a run's own Pool leave alone.
Around == <<up, head, timer, busy, keeping, resuming, next, crashes, futile, atBound>>

LEMMA Heard ==
  ASSUME RunsOK, NEW r \in Runs, NEW i \in Items, Hear(r, i)
  PROVE  /\ Idle /\ act[r] = "clean" /\ act'[r] = "dirty" /\ Only(r)
         /\ UNCHANGED <<row, saved, acked, left>> /\ UNCHANGED Around
         /\ mem[r] \subseteq mem'[r] /\ RunsOK'
<1>1. /\ Idle /\ act[r] = "clean" /\ mem' = [mem EXCEPT ![r] = @ \cup {i}]
      /\ act' = [act EXCEPT ![r] = "dirty"]
      /\ UNCHANGED <<row, saved, taken, took, acked, left>> /\ UNCHANGED Around
  BY DEF Hear, ghosts, started, Around
<1>2. RunsOK'
  BY <1>1 DEF RunsOK, Around
<1> QED BY <1>1, <1>2 DEF RunsOK, Only

LEMMA Claimed ==
  ASSUME RunsOK, NEW r \in Runs, NEW i \in Items, Claim(r, i)
  PROVE  /\ Idle /\ act[r] = "clean" /\ act'[r] = "dirty" /\ Only(r)
         /\ UNCHANGED <<row, saved, acked>> /\ UNCHANGED Around /\ left' = left \cup {i}
         /\ mem'[r] = mem[r] \ {i} /\ RunsOK'
<1>1. /\ Idle /\ act[r] = "clean" /\ mem' = [mem EXCEPT ![r] = @ \ {i}]
      /\ taken' = [taken EXCEPT ![r] = IF @ = Bound THEN @ ELSE @ + 1]
      /\ act' = [act EXCEPT ![r] = "dirty"] /\ left' = left \cup {i}
      /\ UNCHANGED <<row, saved, took, acked>> /\ UNCHANGED Around
  BY DEF Claim, started, Around
<1>2. taken[r] + 1 \in Nat
  BY SMTT(30) DEF RunsOK
<1>3. taken' \in [Runs -> Nat]
  BY <1>1, <1>2 DEF RunsOK
<1>4. RunsOK'
  BY <1>1, <1>3 DEF RunsOK, Around
<1> QED BY <1>1, <1>4 DEF RunsOK, Only

LEMMA Answered ==
  ASSUME RunsOK, NEW r \in Runs, NEW what \in {"answered", "started"}, Settle(r, what)
  PROVE  /\ Idle /\ act[r] = "clean" /\ act'[r] = "dirty" /\ Only(r)
         /\ UNCHANGED <<row, saved, mem, acked, left>> /\ UNCHANGED Around /\ RunsOK'
<1>1. /\ Idle /\ act[r] = "clean" /\ took' = [took EXCEPT ![r] = what]
      /\ act' = [act EXCEPT ![r] = "dirty"]
      /\ UNCHANGED <<row, saved, mem, taken, acked, left>> /\ UNCHANGED Around
  BY DEF Settle, ghosts, started, Around
<1>2. RunsOK'
  BY <1>1 DEF RunsOK, Around
<1> QED BY <1>1, <1>2 DEF RunsOK, Only

\* Of a live run: its held items change, and it is to be saved.
LEMMA Worked ==
  ASSUME RunsOK, NEW r \in Runs, Works(r)
  PROVE  /\ Idle /\ act[r] = "clean" /\ act'[r] = "dirty" /\ Only(r)
         /\ UNCHANGED <<row, saved, acked>> /\ UNCHANGED Around /\ left \subseteq left'
         /\ mem[r] \ left' \subseteq mem'[r] /\ RunsOK'
  BY Heard, Claimed, Answered DEF Works

LEMMA Persisted ==
  ASSUME RunsOK, NEW r \in Runs, Persist(r)
  PROVE  /\ busy = NotBusy /\ act[r] = "dirty" /\ act'[r] = "clean" /\ row'[r] = "live"
         /\ saved'[r] = mem[r] /\ mem' = mem /\ acked' = acked \cup mem[r] /\ left' = left
         /\ UNCHANGED Around /\ Only(r) /\ RunsOK' /\ taken' = taken
<1>1. /\ busy = NotBusy /\ act[r] = "dirty" /\ row' = [row EXCEPT ![r] = "live"]
      /\ saved' = [saved EXCEPT ![r] = mem[r]] /\ act' = [act EXCEPT ![r] = "clean"]
      /\ acked' = acked \cup mem[r] /\ UNCHANGED <<mem, taken, took, left>> /\ UNCHANGED Around
  BY DEF Persist, started, Around
<1>2. "live" \in Rows
  BY DEF Rows
<1>3. RunsOK'
  BY <1>1, <1>2 DEF RunsOK, Around
<1> QED BY <1>1, <1>3 DEF RunsOK, Only

\* A run ends: at its bound, by an error or a failure, cancelled, or done of itself.
Ends(r, status) ==
  /\ SaveEnd(r, status) /\ busy = NotBusy /\ act[r] # "no"
  /\ status \in {"done", "error", "failed", "cancelled"}
  /\ atBound' \in {atBound, atBound \cup {r}}
  /\ BoundDue(r) \/ Idle
  /\ UNCHANGED <<up, head, timer, keeping, resuming, crashes, ghosts>>

LEMMA EndSaved ==
  ASSUME RunsOK, NEW r \in Runs, NEW status, Ends(r, status)
  PROVE  /\ act'[r] = "no" /\ row'[r] = status /\ status \in Ended /\ saved'[r] = mem[r]
         /\ busy' = [op |-> "ended", run |-> r, status |-> status]
         /\ UNCHANGED <<mem, taken, next>> /\ Only(r) /\ RunsOK'
<1>1. /\ row' = [row EXCEPT ![r] = status] /\ saved' = [saved EXCEPT ![r] = mem[r]]
      /\ act' = [act EXCEPT ![r] = "no"] /\ UNCHANGED <<mem, taken, took, next>>
      /\ busy' = [op |-> "ended", run |-> r, status |-> status]
  BY DEF Ends, SaveEnd, started
<1>2. status \in Ended /\ status \in Rows
  BY DEF Ends, Ended, Rows
<1>3. RunsOK'
  BY <1>1, <1>2 DEF RunsOK, Ends
<1> QED BY <1>1, <1>2, <1>3 DEF RunsOK, Only, Ends

\* A run of a Workflow that has none: after the back-off, at a publish or a boot, resumed.
Begins(carry, streak) ==
  /\ StartStanding(carry, streak) /\ carry \subseteq Items /\ streak \in Nat
  /\ HostedRuns = {} /\ busy = NotBusy /\ keeping' # "load"
  /\ \A x \in Resumers : resuming'[x] \in {resuming[x], NoRun}
  /\ resuming' \in [Resumers -> RunIds] /\ futile' \in Nat
  /\ up /\ UNCHANGED <<up, busy, crashes>>

\* A hand-over from a live run, up to its second write.
Hands(r) ==
  /\ HandOverLive(r) /\ act[r] = "clean" /\ busy = NotBusy /\ keeping # "load"
  /\ BoundDue(r) \/ Idle
  /\ keeping' \in {keeping, "none"} /\ UNCHANGED <<up, resuming, crashes, acked, left>>

\* The steps that start, end and move no run.
Quiet == UNCHANGED <<runs, busy, up, crashes, ghosts>>

LEMMA HeadIs ==
  ASSUME Types
  PROVE  /\ head.run \in RunIds /\ head.streak \in Nat /\ head.paused \in {"no", "cancel", "loop"}
         /\ timer.kind # "none" => timer.run \in Runs
  BY DEF Types, HostOK, Heads, Timers, NoTimer

LEMMA BackoffBegins ==
  ASSUME Basic, BackoffFires
  PROVE  /\ Idle /\ timer.kind = "backoff" /\ UNCHANGED <<keeping, resuming>> /\ UNCHANGED ghosts
         /\ \/ Quiet /\ timer' = NoTimer /\ head' = head
            \/ head.run \in Runs /\ Begins(mem[head.run], head.streak)
<1>1. /\ Idle /\ timer.kind = "backoff"
      /\ UNCHANGED <<up, busy, keeping, resuming, crashes>> /\ UNCHANGED ghosts
  BY DEF BackoffFires
<1>2. CASE timer' = NoTimer /\ UNCHANGED <<runs, head>>
  BY <1>1, <1>2 DEF Quiet
<1>3. CASE StillWaits(timer.run) /\ StartStanding(mem[timer.run], head.streak)
  <2>1. timer.run \in Runs /\ head.run = timer.run /\ HostedRuns = {}
    BY <1>1, <1>3, HeadIs DEF Basic, StillWaits
  <2>2. mem[timer.run] \subseteq Items /\ head.streak \in Nat
    BY <2>1, HeadIs DEF Basic, Types, RunsOK
  <2>3. busy = NotBusy /\ keeping # "load" /\ resuming \in [Resumers -> RunIds] /\ futile \in Nat
    BY <1>1 DEF Idle, Basic, Types, HostOK
  <2>4. up
    BY <1>1 DEF Basic, Parts, NoTimer
  <2> QED BY <1>1, <1>3, <2>1, <2>2, <2>3, <2>4 DEF Begins, ghosts
<1> QED BY <1>2, <1>3 DEF BackoffFires

LEMMA KeepBegins ==
  ASSUME Basic, KeepLoaded
  PROVE  /\ keeping = "load" /\ keeping' = "none" /\ UNCHANGED resuming /\ UNCHANGED ghosts
         /\ \/ Quiet /\ timer' = timer /\ head' = head
            \/ /\ Quiet /\ timer' = timer /\ head.run \in Runs /\ row[head.run] = "cancelled"
               /\ head' = [head EXCEPT !.paused = "cancel"]
            \/ /\ head.run \in Runs /\ row[head.run] \in Ended
               /\ Begins(saved[head.run], head.streak)
            \/ (head.run = NoRun \/ row[head.run] = "none") /\ Begins({}, 0)
<1> DEFINE stored == IF head.run = NoRun THEN "none" ELSE row[head.run]
<1>1. /\ busy = NotBusy /\ keeping = "load" /\ keeping' = "none"
      /\ UNCHANGED <<up, busy, resuming, crashes>> /\ UNCHANGED ghosts
  BY DEF KeepLoaded
<1>2. HostedRuns = {} /\ up /\ resuming \in [Resumers -> RunIds] /\ futile \in Nat
  BY <1>1 DEF Basic, Loading, Parts, Types, HostOK
<1>3. head.run \in RunIds /\ head.streak \in Nat /\ (stored # "none" => head.run \in Runs)
  BY HeadIs DEF Basic, RunIds
<1>4. CASE stored = "live" /\ UNCHANGED <<runs, head, timer>>
  BY <1>1, <1>4 DEF Quiet
<1>5. CASE stored = "cancelled" /\ head' = [head EXCEPT !.paused = "cancel"] /\ UNCHANGED <<runs, timer>>
  BY <1>1, <1>3, <1>5 DEF Quiet
<1>6. CASE stored \in Ended /\ StartStanding(saved[head.run], head.streak)
  <2>1. head.run \in Runs /\ row[head.run] \in Ended
    BY <1>3, <1>6, Names
  <2>2. saved[head.run] \subseteq Items
    BY <2>1 DEF Basic, Types, RunsOK
  <2> QED BY <1>1, <1>2, <1>3, <1>6, <2>1, <2>2 DEF Begins, ghosts
<1>7. CASE stored = "none" /\ StartStanding({}, 0)
  BY <1>1, <1>2, <1>3, <1>7 DEF Begins, ghosts
<1> QED BY <1>4, <1>5, <1>6, <1>7 DEF KeepLoaded

LEMMA ResumeBegins ==
  ASSUME Basic, One, NEW x \in Resumers, NEW drop \in BOOLEAN, ResumeLoaded(x, drop)
  PROVE  /\ resuming[x] \in Runs /\ resuming' = [resuming EXCEPT ![x] = NoRun]
         /\ busy = NotBusy /\ keeping # "load" /\ UNCHANGED <<keeping, acked>>
         /\ \/ Quiet /\ UNCHANGED <<head, timer>>
            \/ /\ head.paused # "no"
               /\ Begins(IF drop THEN {} ELSE saved[resuming[x]], 0)
               /\ left' = IF drop THEN left \cup saved[resuming[x]] ELSE left
               /\ futile' = 0
<1>1. /\ busy = NotBusy /\ resuming[x] # NoRun /\ resuming' = [resuming EXCEPT ![x] = NoRun]
      /\ UNCHANGED <<up, busy, keeping, crashes, acked>>
  BY DEF ResumeLoaded
<1>2. /\ resuming \in [Resumers -> RunIds] /\ resuming[x] \in Runs /\ keeping # "load" /\ up
      /\ saved[resuming[x]] \subseteq Items
  BY <1>1 DEF Basic, Types, HostOK, RunsOK, RunIds, Loading, Parts
<1>3. CASE UNCHANGED <<runs, head, timer, left, futile>>
  BY <1>1, <1>2, <1>3 DEF Quiet, ghosts
<1>4. CASE /\ StillPaused
           /\ StartStanding(IF drop THEN {} ELSE saved[resuming[x]], 0)
           /\ left' = IF drop THEN left \cup saved[resuming[x]] ELSE left
           /\ futile' = 0
  <2>1. HostedRuns = {} /\ head.paused # "no"
    BY <1>1, <1>4, StandingIs, RunNumbers, Hosting DEF One, StillPaused
  <2>2. (IF drop THEN {} ELSE saved[resuming[x]]) \subseteq Items
    BY <1>2
  <2>3. resuming' \in [Resumers -> RunIds] /\ \A y \in Resumers : resuming'[y] \in {resuming[y], NoRun}
    BY <1>1, <1>2 DEF RunIds
  <2> QED BY <1>1, <1>2, <1>4, <2>1, <2>2, <2>3 DEF Begins
<1> QED BY <1>3, <1>4 DEF ResumeLoaded

\* keepOne finds a live run of this Assembly: the head names it, and its age is armed.
Adopts ==
  /\ Quiet /\ Idle /\ StandingRun \in HostedRuns
  /\ keeping' = "none" /\ UNCHANGED resuming
  /\ head' = IF head.run = StandingRun THEN head
               ELSE [run |-> StandingRun, streak |-> 0, paused |-> "no"]
  /\ timer' = [kind |-> "age", run |-> StandingRun]

\* A publish, keepOne up to its await, and a resume up to its await.
Asks ==
  /\ Quiet /\ UNCHANGED <<head, timer>>
  /\ \/ up /\ Idle /\ keeping' # "load" /\ UNCHANGED resuming
     \/ /\ up /\ Idle /\ keeping' = "load" /\ UNCHANGED resuming
        /\ HostedRuns = {} /\ head.paused = "no" /\ timer = NoTimer
     \/ /\ up /\ busy = NotBusy /\ keeping # "load" /\ UNCHANGED keeping /\ HostedRuns = {}
        /\ \E x \in Resumers : resuming' = [resuming EXCEPT ![x] = head.run]
     \/ UNCHANGED <<keeping, resuming>>

\* The process ends.
Stops ==
  /\ up' = FALSE /\ act' = [r \in Runs |-> "no"] /\ timer' = NoTimer /\ busy' = NotBusy
  /\ keeping' = "none" /\ resuming' = [x \in Resumers |-> NoRun]
  /\ UNCHANGED <<row, saved, mem, taken, took, atBound, next, head, ghosts>>
  /\ \/ crashes' = crashes + 1
     \/ crashes' = crashes /\ Idle /\ head.run \in HostedRuns

LEMMA Steps ==
  ASSUME Basic, One, [Next]_vars
  PROVE  \/ \E r \in Runs : \/ Works(r) \/ Persist(r) \/ Sweep(r) \/ Hands(r)
                            \/ \E status \in Ended : Ends(r, status)
         \/ EndOld \/ StandingEnded \/ Boot \/ Stops
         \/ BackoffFires \/ KeepLoaded \/ Adopts \/ Asks
         \/ \E x \in Resumers, drop \in BOOLEAN : ResumeLoaded(x, drop)
<1>0. Idle => busy = NotBusy /\ keeping # "load" /\ \A r \in Runs : act[r] # "dirty"
  BY DEF Idle
<1>1. RunsOK /\ \A r \in Runs : act[r] \in {"no", "dirty", "clean"}
  BY DEF Basic, Types, RunsOK
<1>2. {"done", "error", "failed", "cancelled"} \subseteq Ended
  BY DEF Ended
<1>3. Idle => /\ HostedRuns = {} => StandingRun = NoRun
              /\ HostedRuns # {} => StandingRun \in HostedRuns
  BY <1>0, StandingIs DEF One
<1>4. ASSUME NEW r \in Runs, BoundReached(r) PROVE Hands(r) \/ Ends(r, "done")
  <2>1. /\ busy = NotBusy /\ BoundDue(r) /\ act[r] = "clean"
        /\ UNCHANGED <<up, keeping, resuming, crashes, acked, left>>
    BY <1>4 DEF BoundReached, BoundDue
  <2>2. keeping # "load"
    BY <2>1, Hosting DEF Basic, Loading
  <2>3. CASE HandOverLive(r)
    BY <2>1, <2>2, <2>3 DEF Hands
  <2>4. CASE /\ atBound' = atBound \cup {r} /\ SaveEnd(r, "done") /\ UNCHANGED <<head, timer, futile>>
    BY <2>1, <2>4 DEF Ends, ghosts
  <2> QED BY <1>4, <2>3, <2>4 DEF BoundReached
<1>5. ASSUME NEW r \in Runs, NEW status \in {"error", "failed", "cancelled", "done"},
             RunEnds(r, status)
      PROVE  Ends(r, status)
  BY <1>0, <1>5 DEF RunEnds, Hosted, Ends
<1>6. ASSUME AgeFires PROVE \E r \in Runs : Hands(r)
  <2>1. timer.run \in Runs /\ Idle /\ act[timer.run] = "clean"
    BY <1>0, <1>1, <1>6, Hosting DEF AgeFires
  <2> QED BY <1>0, <1>6, <2>1 DEF AgeFires, Hands
<1>7. ASSUME AgeThrows PROVE Stops
  BY <1>0, <1>7 DEF AgeThrows, Stops, started
<1>8. ASSUME Crash PROVE Stops
  BY <1>8 DEF Crash, Stops, started
<1>9. ASSUME KeepLive PROVE Adopts \/ \E r \in Runs : Hands(r)
  <2>1. /\ Idle /\ StandingRun \in HostedRuns /\ StandingRun \in Runs /\ keeping' = "none"
        /\ act[StandingRun] = "clean" /\ UNCHANGED <<up, reg, asm, resuming, publishes, crashes, acked, left>>
    BY <1>0, <1>1, <1>3, <1>9, Hosting DEF KeepLive
  <2>2. CASE HandOverLive(StandingRun)
    BY <1>0, <2>1, <2>2 DEF Hands
  <2>3. CASE /\ head' = IF head.run = StandingRun THEN head
                          ELSE [run |-> StandingRun, streak |-> 0, paused |-> "no"]
             /\ timer' = [kind |-> "age", run |-> StandingRun]
             /\ UNCHANGED <<runs, busy, futile>>
    BY <2>1, <2>3 DEF Adopts, Quiet, ghosts
  <2> QED BY <1>9, <2>2, <2>3 DEF KeepLive
<1>10. ASSUME KeepWithoutRun PROVE Asks
  <2>1. /\ Idle /\ keeping = "ask" /\ StandingRun = NoRun /\ Quiet /\ UNCHANGED <<head, timer, resuming>>
        /\ keeping' = IF head.paused # "no" \/ timer # NoTimer THEN "none" ELSE "load"
    BY <1>10 DEF KeepWithoutRun, Quiet
  <2>2. HostedRuns = {}
    BY <1>3, <2>1, Hosting, RunNumbers
  <2>3. up
    BY <2>1 DEF Basic, Parts
  <2> QED BY <2>1, <2>2, <2>3 DEF Asks
<1>11. ASSUME NEW x \in Resumers, ResumeAsk(x) PROVE Asks
  <2>1. /\ up /\ busy = NotBusy /\ keeping # "load" /\ StandingRun = NoRun /\ Quiet
        /\ UNCHANGED <<head, timer, keeping>> /\ resuming' = [resuming EXCEPT ![x] = head.run]
    BY <1>11 DEF ResumeAsk, Quiet
  <2>2. HostedRuns = {}
    BY <2>1, StandingIs, Hosting, RunNumbers DEF One
  <2> QED BY <2>1, <2>2 DEF Asks
<1>12. ASSUME NEW kind, Publish(kind) PROVE Asks
  BY <1>12 DEF Publish, Quiet, Asks
<1>13. ASSUME UNCHANGED vars PROVE Asks
  BY <1>13 DEF vars, Asks, Quiet
<1> QED BY <1>2, <1>4, <1>5, <1>6, <1>7, <1>8, <1>9, <1>10, <1>11, <1>12, <1>13
        DEF Next, Works, Keep, Resume

LEMMA OldEnded ==
  ASSUME RunsOK, EndOld, busy.run \in Runs
  PROVE  /\ act'[busy.run] = "no" /\ row'[busy.run] = "done" /\ Only(busy.run) /\ busy' = NotBusy
         /\ UNCHANGED <<mem, taken, took, up, head, timer, keeping, resuming, next, crashes, atBound>>
         /\ UNCHANGED ghosts /\ RunsOK'
<1>1. /\ row' = [row EXCEPT ![busy.run] = "done"] /\ saved' = [saved EXCEPT ![busy.run] = mem[busy.run]]
      /\ act' = [act EXCEPT ![busy.run] = "no"] /\ busy' = NotBusy
      /\ UNCHANGED <<mem, taken, took, up, head, timer, keeping, resuming, next, crashes, atBound>>
      /\ UNCHANGED ghosts
  BY DEF EndOld, started
<1>2. "done" \in Rows
  BY DEF Rows, Ended
<1>3. RunsOK'
  BY <1>1, <1>2 DEF RunsOK
<1> QED BY <1>1, <1>3 DEF RunsOK, Only

LEMMA Swept ==
  ASSUME RunsOK, NEW newest \in Runs, Sweep(newest)
  PROVE  /\ \A r \in Runs : \/ row'[r] = row[r] /\ saved'[r] = saved[r]
                            \/ r # head.run /\ row[r] \in Ended /\ row'[r] = "none" /\ saved'[r] = {}
         /\ Idle /\ up /\ UNCHANGED <<act, mem, taken, took, acked, left>> /\ UNCHANGED Around
         /\ RunsOK'
<1> DEFINE swept == {r \in 1..newest : MaySweep(r)}
<1>1. /\ Idle /\ up
      /\ row' = [r \in Runs |-> IF r \in swept THEN "none" ELSE row[r]]
      /\ saved' = [r \in Runs |-> IF r \in swept THEN {} ELSE saved[r]]
      /\ UNCHANGED <<act, mem, taken, took, acked, left>> /\ UNCHANGED Around
  BY DEF Sweep, started, Around, ghosts
<1>2. \A r \in swept : row[r] \in Ended /\ r # head.run
  BY DEF MaySweep
<1>3. "none" \in Rows
  BY DEF Rows
<1> HIDE DEF swept
<1>4. RunsOK'
  BY <1>1, <1>3 DEF RunsOK, Around
<1> QED BY <1>1, <1>2, <1>4

LEMMA Booted ==
  ASSUME RunsOK, Boot
  PROVE  /\ ~up /\ up' = TRUE
         /\ \A r \in Runs :
              \/ act'[r] = "dirty" /\ row[r] = "live" /\ row'[r] = "live"
              \/ act'[r] = "no" /\ row[r] = "live" /\ row'[r] \in {"lost", "drifted"}
              \/ act'[r] = "no" /\ row[r] = "live" /\ row'[r] = "live" /\ MayLeave
              \/ act'[r] = "no" /\ row[r] # "live" /\ row'[r] = row[r]
         /\ mem' = saved /\ keeping' # "load"
         /\ UNCHANGED <<saved, taken, took, head, timer, busy, resuming, next, crashes, atBound>>
         /\ UNCHANGED ghosts /\ RunsOK'
<1> DEFINE live == {r \in Runs : row[r] = "live"}
           ways == {"hosted", "lost", "drifted"} \cup (IF MayLeave THEN {"left"} ELSE {})
<1>1. PICK outcome \in [live -> ways] :
        /\ act' = [r \in Runs |-> IF r \in DOMAIN outcome /\ outcome[r] = "hosted"
                                    THEN "dirty" ELSE "no"]
        /\ row' = [r \in Runs |-> IF r \in DOMAIN outcome /\ outcome[r] \in {"lost", "drifted"}
                                    THEN outcome[r] ELSE row[r]]
  BY DEF Boot
<1>2. /\ ~up /\ up' = TRUE /\ mem' = saved /\ keeping' # "load"
      /\ UNCHANGED <<saved, taken, took, head, timer, busy, resuming, next, crashes, atBound>>
      /\ UNCHANGED ghosts
  BY DEF Boot, started
<1>3. \A r \in live : outcome[r] \in {"hosted", "lost", "drifted"} \/ (MayLeave /\ outcome[r] = "left")
  BY <1>1
<1>4. DOMAIN outcome = live
  BY <1>1
<1>5. ASSUME NEW r \in Runs
      PROVE  \/ act'[r] = "dirty" /\ row[r] = "live" /\ row'[r] = "live"
             \/ act'[r] = "no" /\ row[r] = "live" /\ row'[r] \in {"lost", "drifted"}
             \/ act'[r] = "no" /\ row[r] = "live" /\ row'[r] = "live" /\ MayLeave
             \/ act'[r] = "no" /\ row[r] # "live" /\ row'[r] = row[r]
  <2>1. /\ act'[r] = IF r \in live /\ outcome[r] = "hosted" THEN "dirty" ELSE "no"
        /\ row'[r] = IF r \in live /\ outcome[r] \in {"lost", "drifted"} THEN outcome[r] ELSE row[r]
    BY <1>1, <1>4
  <2>2. r \in live <=> row[r] = "live"
    OBVIOUS
  <2> HIDE DEF live
  <2> QED BY <1>3, <2>1, <2>2
<1>6. {"lost", "drifted"} \subseteq Rows
  BY DEF Rows, Ended
<1>7. RunsOK'
  <2>1. row' \in [Runs -> Rows]
    BY <1>1, <1>6 DEF RunsOK
  <2>2. act' \in [Runs -> {"no", "dirty", "clean"}]
    BY <1>1
  <2> QED BY <1>2, <2>1, <2>2 DEF RunsOK
<1> QED BY <1>2, <1>5, <1>7

LEMMA Handed ==
  ASSUME Types, Fresh, NEW r \in Runs, Hands(r)
  PROVE  /\ StartStanding(mem[r], 0) /\ mem[r] \subseteq Items /\ r # next
         /\ busy' = [op |-> "old", run |-> r, status |-> "done"] /\ futile' = 0
<1>1. /\ StartStanding(mem[r], 0) /\ act[r] = "clean" /\ futile' = 0
      /\ busy' = [op |-> "old", run |-> r, status |-> "done"]
  BY DEF Hands, HandOverLive
<1>2. act[next] = "no" /\ mem[r] \subseteq Items
  BY <1>1, Started DEF Types, RunsOK
<1> QED BY <1>1, <1>2

\* standingEnded leaves the head where it is; it may pause it, and count.
LEMMA Judged ==
  ASSUME HostOK, StandingEnded, busy.run \in Runs
  PROVE  /\ busy.op = "ended" /\ busy' = NotBusy /\ head' \in Heads /\ head'.run = head.run
         /\ timer' \in Timers /\ futile' \in Nat
         /\ UNCHANGED <<row, saved, act, mem, taken, took, atBound, next>>
         /\ UNCHANGED <<up, keeping, resuming, crashes, acked, left>>
<1>1. /\ busy.op = "ended" /\ busy' = NotBusy
      /\ UNCHANGED <<row, saved, act, mem, taken, took, atBound, next>>
      /\ UNCHANGED <<up, keeping, resuming, crashes, acked, left>>
  BY DEF StandingEnded, runs, started
<1>2. head \in Heads /\ timer \in Timers /\ futile \in Nat /\ futile + 1 \in Nat
      /\ head.streak \in Nat /\ head.streak + 1 \in Nat
  BY SMTT(30) DEF HostOK, Heads
<1>3. NoTimer \in Timers /\ [kind |-> "backoff", run |-> busy.run] \in Timers
  BY DEF Timers
<1> DEFINE streak == IF Counts(busy.run) THEN head.streak + 1 ELSE 0
           paused == IF Pauses(streak) THEN "loop" ELSE "no"
<1>4. streak \in Nat /\ paused \in {"no", "loop"}
  BY <1>2
<1>5. \/ UNCHANGED <<head, timer, futile>>
      \/ head' = [head EXCEPT !.paused = "cancel"] /\ timer' = NoTimer /\ futile' = futile
      \/ /\ head.run = busy.run
         /\ \/ /\ head' = [run |-> busy.run, streak |-> streak, paused |-> paused]
               /\ timer' \in {NoTimer, [kind |-> "backoff", run |-> busy.run]}
            \/ head' = head /\ timer' = NoTimer
         /\ futile' \in {0, futile, futile + 1}
  BY DEF StandingEnded
<1> HIDE DEF streak, paused
<1>6. head' \in Heads /\ head'.run = head.run
  BY <1>2, <1>4, <1>5 DEF Heads, RunIds
<1>7. timer' \in Timers /\ futile' \in Nat
  BY <1>2, <1>3, <1>5
<1> QED BY <1>1, <1>6, <1>7

-----------------------------------------------------------------------------
(* What holds of every process. *)

LEMMA HostingNext ==
  HostedRuns' \subseteq Runs /\ \A r \in Runs : r \in HostedRuns' <=> act'[r] # "no"
  BY DEF HostedRuns, Hosted

LEMMA BusyIs == busy = NotBusy => busy.op = "none"
  BY DEF NotBusy

LEMMA FreshOnly ==
  ASSUME Types, Fresh, NEW r \in Runs, act[r] # "no" \/ row[r] # "none", Only(r), next' = next,
         head'.run < next
  PROVE  Fresh'
<1>1. r < next
  BY Used
<1>2. ASSUME NEW q \in Runs, q >= next PROVE q # r
  BY <1>1, <1>2, RunNumbers, SMTT(30) DEF Types, RunsOK
<1> QED BY <1>2 DEF Fresh, Only

LEMMA BasicWorks ==
  ASSUME Basic, NEW r \in Runs, Works(r)
  PROVE  Basic'
<1>1. /\ Idle /\ act[r] = "clean" /\ act'[r] = "dirty" /\ Only(r)
      /\ UNCHANGED <<row, saved, acked>> /\ UNCHANGED Around /\ RunsOK'
  BY Worked DEF Basic, Types
<1>2. busy = NotBusy /\ busy' = NotBusy /\ keeping # "load" /\ keeping' # "load" /\ r \in HostedRuns
  BY <1>1, Hosting DEF Idle, Around
<1>3. Types'
  BY <1>1 DEF Basic, Types, HostOK, Around
<1>4. Fresh'
  BY <1>1, FreshOnly DEF Basic, Fresh, Around
<1>5. Parts'
  BY <1>1, <1>2 DEF Basic, Parts, Around
<1>6. Clean'
  BY <1>1 DEF Basic, Clean, Only
<1> QED BY <1>2, <1>3, <1>4, <1>5, <1>6 DEF Basic, Loading

LEMMA BasicPersist ==
  ASSUME Basic, NEW r \in Runs, Persist(r)
  PROVE  Basic'
<1>1. /\ busy = NotBusy /\ act[r] = "dirty" /\ act'[r] = "clean" /\ row'[r] = "live"
      /\ saved'[r] = mem[r] /\ mem' = mem /\ UNCHANGED Around /\ Only(r) /\ RunsOK'
  BY Persisted DEF Basic, Types
<1>2. busy' = NotBusy /\ r \in HostedRuns /\ keeping # "load" /\ keeping' # "load" /\ up /\ up'
  BY <1>1, Hosting DEF Basic, Loading, Parts, Around
<1>3. Types'
  BY <1>1 DEF Basic, Types, HostOK, Around
<1>4. Fresh'
  BY <1>1, FreshOnly DEF Basic, Fresh, Around
<1>5. Parts'
  BY <1>2 DEF Parts
<1>6. Clean'
  BY <1>1 DEF Basic, Clean, Only
<1> QED BY <1>2, <1>3, <1>4, <1>5, <1>6 DEF Basic, Loading

LEMMA BasicEnds ==
  ASSUME Basic, NEW r \in Runs, NEW status, Ends(r, status)
  PROVE  Basic'
<1>1. /\ act'[r] = "no" /\ row'[r] = status /\ status \in Ended
      /\ busy' = [op |-> "ended", run |-> r, status |-> status]
      /\ mem' = mem /\ next' = next /\ Only(r) /\ RunsOK'
  BY EndSaved DEF Basic, Types
<1>2. /\ act[r] # "no" /\ UNCHANGED <<up, head, timer, keeping, resuming, crashes>> /\ UNCHANGED ghosts
  BY DEF Ends
<1>3. r \in HostedRuns /\ up /\ keeping # "load"
  BY <1>2, Hosting DEF Basic, Parts, Loading
<1>4. Types'
  BY <1>1, <1>2 DEF Basic, Types, HostOK, ghosts
<1>5. Fresh'
  BY <1>1, <1>2, FreshOnly DEF Basic, Fresh
<1>6. Parts'
  <2>1. busy'.op = "ended" /\ busy'.run = r /\ busy'.status = status
    BY <1>1
  <2> QED BY <1>1, <1>2, <1>3, <2>1 DEF Parts
<1>7. Clean'
  BY <1>1 DEF Basic, Clean, Only
<1> QED BY <1>2, <1>3, <1>4, <1>5, <1>6, <1>7 DEF Basic, Loading

LEMMA BasicOld ==
  ASSUME Basic, EndOld
  PROVE  Basic'
<1>1. busy.op = "old" /\ busy.run \in HostedRuns /\ up
  BY BusyIs DEF EndOld, Basic, Parts
<1>2. busy.run \in Runs /\ act[busy.run] # "no"
  BY <1>1, Hosting
<1>3. /\ act'[busy.run] = "no" /\ Only(busy.run) /\ busy' = NotBusy
      /\ UNCHANGED <<mem, taken, took, up, head, timer, keeping, resuming, next, crashes, atBound>>
      /\ UNCHANGED ghosts /\ RunsOK'
  BY <1>2, OldEnded DEF Basic, Types
<1>4. Types'
  BY <1>3 DEF Basic, Types, HostOK, ghosts
<1>5. Fresh'
  BY <1>2, <1>3, FreshOnly DEF Basic, Fresh
<1>6. Parts'
  BY <1>1, <1>3 DEF Parts
<1>7. Clean'
  BY <1>3 DEF Basic, Clean, Only
<1>8. keeping # "load"
  BY <1>1, BusyIs DEF Basic, Loading
<1> QED BY <1>3, <1>4, <1>5, <1>6, <1>7, <1>8 DEF Basic, Loading

LEMMA BasicJudged ==
  ASSUME Basic, StandingEnded
  PROVE  Basic'
<1>1. busy.op = "ended" /\ busy.run \in Runs /\ up
  BY BusyIs DEF StandingEnded, Basic, Parts
<1>2. /\ busy' = NotBusy /\ head' \in Heads /\ head'.run = head.run
      /\ timer' \in Timers /\ futile' \in Nat
      /\ UNCHANGED <<row, saved, act, mem, taken, took, atBound, next>>
      /\ UNCHANGED <<up, keeping, resuming, crashes, acked, left>>
  BY <1>1, Judged DEF Basic, Types
<1>3. Types'
  BY <1>2 DEF Basic, Types, HostOK, RunsOK
<1>4. Fresh' /\ Parts' /\ Clean'
  BY <1>1, <1>2 DEF Basic, Fresh, Parts, Clean
<1>5. keeping # "load"
  BY <1>1, BusyIs DEF Basic, Loading
<1> QED BY <1>2, <1>3, <1>4, <1>5 DEF Basic, Loading

LEMMA BasicSweep ==
  ASSUME Basic, NEW newest \in Runs, Sweep(newest)
  PROVE  Basic'
<1>1. /\ \A r \in Runs : \/ row'[r] = row[r] /\ saved'[r] = saved[r]
                         \/ row[r] \in Ended /\ row'[r] = "none" /\ saved'[r] = {}
      /\ Idle /\ up /\ UNCHANGED <<act, mem, taken, took>> /\ UNCHANGED Around /\ RunsOK'
  BY Swept DEF Basic, Types
<1>2. busy' = NotBusy /\ keeping' # "load" /\ up'
  BY <1>1 DEF Idle, Around
<1>3. Types'
  BY <1>1 DEF Basic, Types, HostOK, Around
<1>4. Fresh'
  BY <1>1, Names DEF Basic, Fresh, Around
<1>5. Clean'
  BY <1>1, Names DEF Basic, Clean
<1> QED BY <1>2, <1>3, <1>4, <1>5 DEF Basic, Parts, Loading

LEMMA BasicBoot ==
  ASSUME Basic, Boot
  PROVE  Basic'
<1>1. /\ ~up /\ up' = TRUE
      /\ \A r \in Runs : \/ act'[r] = "dirty" /\ row[r] = "live"
                         \/ act'[r] = "no" /\ row[r] = "live"
                         \/ act'[r] = "no" /\ row[r] # "live" /\ row'[r] = row[r]
      /\ mem' = saved /\ keeping' # "load"
      /\ UNCHANGED <<saved, taken, took, head, timer, busy, resuming, next, crashes, atBound>>
      /\ UNCHANGED ghosts /\ RunsOK'
  BY Booted DEF Basic, Types
<1>2. busy' = NotBusy
  BY <1>1 DEF Basic, Parts
<1>3. Types'
  BY <1>1 DEF Basic, Types, HostOK, ghosts
<1>4. Fresh'
  BY <1>1 DEF Basic, Fresh
<1>5. Clean'
  BY <1>1 DEF Clean
<1> QED BY <1>1, <1>2, <1>3, <1>4, <1>5 DEF Basic, Parts, Loading

LEMMA BasicStops ==
  ASSUME Basic, Stops
  PROVE  Basic'
<1>1. /\ up' = FALSE /\ (\A r \in Runs : act'[r] = "no") /\ timer' = NoTimer /\ busy' = NotBusy
      /\ keeping' = "none" /\ (\A x \in Resumers : resuming'[x] = NoRun)
      /\ UNCHANGED <<row, saved, mem, taken, took, atBound, next, head, ghosts>>
      /\ resuming' \in [Resumers -> RunIds] /\ act' \in [Runs -> {"no", "dirty", "clean"}]
  BY DEF Stops, RunIds
<1>2. crashes' \in Nat
  BY SMTT(30) DEF Stops, Basic, Types, HostOK
<1>3. HostedRuns' = {}
  BY <1>1, HostingNext
<1>4. Types'
  BY <1>1, <1>2 DEF Basic, Types, RunsOK, HostOK, ghosts, Timers
<1>5. Fresh' /\ Clean'
  BY <1>1 DEF Basic, Fresh, Clean
<1> QED BY <1>1, <1>3, <1>4, <1>5 DEF Basic, Parts, Loading

LEMMA StartFresh ==
  ASSUME Types, Fresh, NEW carry, NEW streak, StartStanding(carry, streak)
  PROVE  Fresh'
<1>1. /\ next \in Runs /\ next' = next + 1 /\ UNCHANGED <<saved, taken>>
      /\ head' = [run |-> next, streak |-> streak, paused |-> "no"]
      /\ \A r \in Runs : r # next => act'[r] = act[r] /\ row'[r] = row[r] /\ mem'[r] = mem[r]
  BY Started
<1>2. head'.run = next /\ next < next'
  BY <1>1, RunNumbers, SMTT(30)
<1>3. ASSUME NEW r \in Runs, r >= next' PROVE r # next /\ r >= next
  BY <1>1, <1>3, RunNumbers, SMTT(30)
<1> QED BY <1>1, <1>2, <1>3 DEF Fresh

LEMMA StartClean ==
  ASSUME Types, Fresh, Clean, NEW carry, NEW streak, StartStanding(carry, streak)
  PROVE  Clean'
  BY Started DEF Clean

LEMMA StartTypes ==
  ASSUME Types, Fresh, NEW carry, NEW streak, StartStanding(carry, streak), carry \subseteq Items,
         streak \in Nat
  PROVE  RunsOK' /\ head' \in Heads /\ timer' \in Timers
<1>1. /\ next \in Runs /\ next' = next + 1 /\ UNCHANGED <<saved, took, taken, atBound>>
      /\ head' = [run |-> next, streak |-> streak, paused |-> "no"]
      /\ timer' = NoTimer \/ timer' = [kind |-> "age", run |-> next]
      /\ row' \in [Runs -> Rows] /\ act' \in [Runs -> {"no", "dirty", "clean"}]
      /\ mem' \in [Runs -> SUBSET Items]
  BY Started
<1>2. next' \in Nat
  BY <1>1, RunNumbers, SMTT(30)
<1>3. head' \in Heads
  BY <1>1 DEF Heads, RunIds
<1>4. timer' \in Timers
  BY <1>1 DEF Timers
<1> QED BY <1>1, <1>2, <1>3, <1>4 DEF Types, RunsOK

LEMMA BasicBegins ==
  ASSUME Basic, NEW carry, NEW streak, Begins(carry, streak)
  PROVE  Basic'
<1>1. /\ StartStanding(carry, streak) /\ carry \subseteq Items /\ streak \in Nat
      /\ busy = NotBusy /\ keeping' # "load" /\ up /\ UNCHANGED <<up, busy, crashes>>
      /\ resuming' \in [Resumers -> RunIds] /\ futile' \in Nat
  BY DEF Begins
<1>2. Types'
  BY <1>1, StartTypes DEF Basic, Types, HostOK
<1>3. Fresh' /\ Clean'
  BY <1>1, StartFresh, StartClean DEF Basic
<1> QED BY <1>1, <1>2, <1>3 DEF Basic, Parts, Loading

LEMMA BasicHands ==
  ASSUME Basic, NEW r \in Runs, Hands(r)
  PROVE  Basic'
<1>1. /\ StartStanding(mem[r], 0) /\ mem[r] \subseteq Items /\ r # next /\ futile' = 0
      /\ busy' = [op |-> "old", run |-> r, status |-> "done"]
  BY Handed DEF Basic
<1>2. /\ act[r] = "clean" /\ keeping # "load" /\ keeping' \in {keeping, "none"}
      /\ UNCHANGED <<up, resuming, crashes>>
  BY DEF Hands
<1>3. up /\ act'[r] = "clean"
  BY <1>1, <1>2, Started, Hosting DEF Basic, Parts
<1>4. Types'
  BY <1>1, <1>2, StartTypes DEF Basic, Types, HostOK
<1>5. Fresh' /\ Clean'
  BY <1>1, StartFresh, StartClean DEF Basic
<1>6. Parts'
  <2>1. busy'.op = "old" /\ busy'.run = r /\ r \in HostedRuns'
    BY <1>1, <1>3, HostingNext
  <2> QED BY <1>2, <1>3, <2>1 DEF Parts
<1> QED BY <1>2, <1>4, <1>5, <1>6 DEF Basic, Loading

LEMMA BasicQuiet ==
  ASSUME Basic, Quiet, head' \in Heads, head'.run < next, timer' \in Timers,
         resuming' \in [Resumers -> RunIds], Loading', up \/ UNCHANGED <<keeping, timer, resuming>>
  PROVE  Basic'
<1>1. /\ UNCHANGED <<row, saved, act, mem, taken, took, atBound, next>>
      /\ UNCHANGED <<busy, up, crashes, futile>> /\ HostedRuns' = HostedRuns
  BY DEF Quiet, runs, started, ghosts, HostedRuns, Hosted
<1>2. Types'
  BY <1>1 DEF Basic, Types, RunsOK, HostOK
<1>3. Fresh' /\ Clean'
  BY <1>1 DEF Basic, Fresh, Clean
<1>4. Parts'
  BY <1>1 DEF Basic, Parts
<1> QED BY <1>2, <1>3, <1>4 DEF Basic

LEMMA BasicStep ==
  ASSUME Basic, One, [Next]_vars
  PROVE  Basic'
<1>0. /\ head \in Heads /\ head.run < next /\ timer \in Timers /\ resuming \in [Resumers -> RunIds]
      /\ NoTimer \in Timers /\ Types /\ Fresh
  BY DEF Basic, Types, HostOK, Fresh, Timers
<1>1. CASE BackoffFires
  <2>1. CASE Quiet /\ timer' = NoTimer /\ head' = head
    <3>1. up /\ UNCHANGED <<keeping, resuming>> /\ keeping # "load"
      BY <1>1, BackoffBegins DEF Basic, Parts, Idle, NoTimer
    <3> QED BY <1>0, <2>1, <3>1, BasicQuiet DEF Loading
  <2> QED BY <1>1, <2>1, BackoffBegins, BasicBegins
<1>2. CASE KeepLoaded
  <2>1. CASE /\ Quiet /\ timer' = timer
             /\ head' = head \/ head' = [head EXCEPT !.paused = "cancel"]
    <3>1. up /\ UNCHANGED resuming /\ keeping' = "none"
      BY <1>2, KeepBegins DEF Basic, Parts
    <3>2. head' \in Heads /\ head'.run = head.run
      BY <1>0, <2>1 DEF Heads
    <3> QED BY <1>0, <2>1, <3>1, <3>2, BasicQuiet DEF Loading
  <2> QED BY <1>2, <2>1, KeepBegins, BasicBegins
<1>3. ASSUME NEW x \in Resumers, NEW drop \in BOOLEAN, ResumeLoaded(x, drop) PROVE Basic'
  <2>1. CASE Quiet /\ UNCHANGED <<head, timer>>
    <3>1. /\ up /\ keeping' # "load" /\ resuming' = [resuming EXCEPT ![x] = NoRun]
      BY <1>3, ResumeBegins, RunNumbers DEF Basic, Parts
    <3>2. resuming' \in [Resumers -> RunIds]
      BY <1>0, <3>1 DEF RunIds
    <3> QED BY <1>0, <2>1, <3>1, <3>2, BasicQuiet DEF Loading
  <2> QED BY <1>3, <2>1, ResumeBegins, BasicBegins
<1>4. CASE Adopts
  <2>1. /\ Quiet /\ StandingRun \in Runs /\ act[StandingRun] # "no" /\ UNCHANGED resuming
        /\ head' = head \/ head' = [run |-> StandingRun, streak |-> 0, paused |-> "no"]
        /\ timer' = [kind |-> "age", run |-> StandingRun] /\ keeping' = "none"
    BY <1>4, Hosting DEF Adopts
  <2>2. up
    BY <1>4 DEF Adopts, Basic, Parts
  <2>3. StandingRun < next
    BY <1>0, <2>1, Used
  <2>4. head' \in Heads /\ head'.run < next
    BY <1>0, <2>1, <2>3 DEF Heads, RunIds
  <2>5. timer' \in Timers
    BY <2>1 DEF Timers
  <2> QED BY <1>0, <2>1, <2>2, <2>4, <2>5, BasicQuiet DEF Loading
<1>5. CASE Asks
  <2>1. Quiet /\ UNCHANGED <<head, timer>>
    BY <1>5 DEF Asks
  <2>2. UNCHANGED busy /\ HostedRuns' = HostedRuns
    BY <2>1 DEF Quiet, runs, HostedRuns, Hosted
  <2>3. up \/ UNCHANGED <<keeping, timer, resuming>>
    BY <1>5 DEF Asks
  <2>4. resuming' \in [Resumers -> RunIds]
    BY <1>0, <1>5, HeadIs DEF Asks
  <2>5. Loading'
    BY <1>5, <2>1, <2>2 DEF Asks, Loading, Basic, Idle
  <2> QED BY <1>0, <2>1, <2>3, <2>4, <2>5, BasicQuiet
<1> QED BY <1>1, <1>2, <1>3, <1>4, <1>5, Steps, BasicWorks, BasicPersist, BasicEnds, BasicOld,
           BasicJudged, BasicSweep, BasicBoot, BasicStops, BasicHands

-----------------------------------------------------------------------------
(* One run, across crashes. *)

\* A step of the one run r that leaves it the only one, hosted or not.
LEMMA AloneOnly ==
  ASSUME RunsOK, Alone, up, busy = NotBusy, NEW r \in Runs, act[r] # "no", Only(r),
         row'[r] = "live" => act'[r] # "no", head' = head,
         busy' = NotBusy \/ (busy'.op = "ended" /\ act'[r] = "no")
  PROVE  Alone'
<1>1. \A q \in Runs : act[q] # "no" => q = r
  BY Hosting DEF Alone, One
<1>2. \A q \in Runs : row[q] = "live" => q = r
  BY <1>1 DEF Alone, Hosted
<1>3. \A q \in Runs : (act'[q] # "no" => q = r) /\ (row'[q] = "live" => q = r)
  BY <1>1, <1>2 DEF Only
<1>4. \A q \in HostedRuns' : q = r
  BY <1>3, HostingNext
<1>5. act'[r] = "no" => HostedRuns' = {}
  BY <1>3, HostingNext
<1>6. busy'.op \in {"none", "ended"}
  BY Names
<1> QED BY <1>3, <1>4, <1>5, <1>6, Names DEF Alone, One, Hosted

LEMMA AloneBegins ==
  ASSUME Basic, Alone, NEW carry, NEW streak, Begins(carry, streak)
  PROVE  Alone'
<1>1. StartStanding(carry, streak) /\ HostedRuns = {} /\ busy = NotBusy /\ up /\ busy' = busy
  BY DEF Begins
<1>2. \A q \in Runs : act[q] = "no" /\ row[q] # "live"
  BY <1>1, Hosting DEF Alone, Hosted
<1>3. /\ next \in Runs /\ row'[next] # "live"
      /\ \A q \in Runs : q # next => act'[q] = act[q] /\ row'[q] = row[q]
  BY <1>1, Started DEF Basic
<1>4. \A q \in Runs : row'[q] # "live" /\ (act'[q] # "no" => q = next)
  BY <1>2, <1>3
<1>5. \A q \in HostedRuns' : q = next
  BY <1>4, HostingNext
<1> QED BY <1>1, <1>4, <1>5, Names DEF Alone, One

LEMMA AloneHands ==
  ASSUME Basic, Alone, NEW r \in Runs, Hands(r)
  PROVE  Alone'
<1>1. /\ StartStanding(mem[r], 0) /\ r # next /\ act[r] = "clean" /\ busy = NotBusy
      /\ busy' = [op |-> "old", run |-> r, status |-> "done"]
  BY Handed DEF Basic, Hands
<1>2. up /\ up' = up
  BY <1>1, Hosting DEF Basic, Parts, Hands
<1>3. \A q \in Runs : (act[q] # "no" => q = r) /\ (row[q] = "live" => q = r)
  BY <1>1, <1>2, Hosting DEF Alone, One, Hosted
<1>4. /\ next \in Runs /\ row'[next] # "live" /\ head'.run = next
      /\ \A q \in Runs : q # next => act'[q] = act[q] /\ row'[q] = row[q]
  BY <1>1, Started DEF Basic
<1>5. \A q \in Runs : (act'[q] # "no" => q \in {r, next}) /\ (row'[q] = "live" => q = r)
  BY <1>3, <1>4
<1>6. HostedRuns' \subseteq {r, next} /\ act'[r] # "no"
  BY <1>1, <1>4, <1>5, HostingNext
<1>7. busy'.op = "old" /\ busy'.run = r
  BY <1>1
<1>8. busy' # NotBusy
  BY <1>7, Names
<1> QED BY <1>1, <1>4, <1>5, <1>6, <1>7, <1>8 DEF Alone, One, Hosted

LEMMA AloneOld ==
  ASSUME Basic, Alone, EndOld
  PROVE  Alone'
<1>1. busy.op = "old" /\ busy.run \in Runs /\ up
  BY BusyIs, Hosting DEF EndOld, Basic, Parts
<1>2. /\ act'[busy.run] = "no" /\ row'[busy.run] = "done" /\ Only(busy.run) /\ busy' = NotBusy
      /\ head' = head
  BY <1>1, OldEnded DEF Basic, Types
<1>3. \A q \in Runs : row[q] = "live" => q = busy.run
  BY <1>1, Hosting DEF Alone, Hosted
<1>4. \A q \in Runs : row'[q] # "live" /\ (act'[q] # "no" => q = head.run)
  BY <1>1, <1>2, <1>3, Hosting DEF Only, Alone
<1>5. \A q \in HostedRuns' : q = head.run
  BY <1>4, HostingNext
<1> QED BY <1>2, <1>4, <1>5, Names DEF Alone, One

LEMMA AloneBoot ==
  ASSUME MayLeave = FALSE, Basic, Alone, Boot
  PROVE  Alone'
<1>1. /\ ~up /\ busy' = busy
      /\ \A r \in Runs : /\ row'[r] = "live" => act'[r] # "no" /\ row[r] = "live"
                         /\ act'[r] # "no" => row[r] = "live"
  BY Booted, Names DEF Basic, Types
<1>2. busy' = NotBusy
  BY <1>1 DEF Basic, Parts
<1>3. \A q, r \in HostedRuns' : q = r
  BY <1>1, HostingNext DEF Alone
<1> QED BY <1>1, <1>2, <1>3, Names DEF Alone, One, Hosted

\* A step that leaves the runs, the rows and what is under way as they are.
LEMMA AloneSame ==
  ASSUME Alone, UNCHANGED <<act, row, busy, up>>, busy = NotBusy \/ head'.run = head.run
  PROVE  Alone'
<1>1. HostedRuns' = HostedRuns /\ \A r : Hosted(r)' = Hosted(r)
  BY DEF HostedRuns, Hosted
<1> QED BY <1>1, Names DEF Alone, One, Hosted

LEMMA AloneStep ==
  ASSUME MayLeave = FALSE, Basic, Alone, [Next]_vars
  PROVE  Alone'
<1>0. RunsOK /\ One /\ (Quiet => UNCHANGED <<act, row, busy, up>>)
  BY DEF Basic, Types, Alone, Quiet, runs
<1>1. ASSUME NEW r \in Runs, Works(r) PROVE Alone'
  <2>1. /\ Idle /\ act[r] = "clean" /\ act'[r] = "dirty" /\ Only(r) /\ UNCHANGED Around
    BY <1>0, <1>1, Worked
  <2>2. busy = NotBusy /\ up /\ head' = head /\ busy' = busy
    BY <2>1, Hosting DEF Idle, Basic, Parts, Around
  <2> QED BY <1>0, <2>1, <2>2, AloneOnly
<1>2. ASSUME NEW r \in Runs, Persist(r) PROVE Alone'
  <2>1. /\ busy = NotBusy /\ act[r] = "dirty" /\ act'[r] = "clean" /\ Only(r) /\ UNCHANGED Around
    BY <1>0, <1>2, Persisted
  <2>2. up /\ head' = head /\ busy' = busy
    BY <2>1, Hosting DEF Basic, Parts, Around
  <2> QED BY <1>0, <2>1, <2>2, AloneOnly
<1>3. ASSUME NEW r \in Runs, NEW status, Ends(r, status) PROVE Alone'
  <2>1. /\ act'[r] = "no" /\ row'[r] \in Ended /\ Only(r)
        /\ busy' = [op |-> "ended", run |-> r, status |-> status]
    BY <1>0, <1>3, EndSaved
  <2>2. act[r] # "no" /\ busy = NotBusy /\ head' = head
    BY <1>3 DEF Ends
  <2>3. up /\ busy'.op = "ended" /\ row'[r] # "live"
    BY <2>1, <2>2, Hosting, Names DEF Basic, Parts
  <2> QED BY <1>0, <2>1, <2>2, <2>3, AloneOnly
<1>4. ASSUME NEW r \in Runs, Sweep(r) PROVE Alone'
  <2>1. /\ \A q \in Runs : row'[q] = "live" => row[q] = "live"
        /\ Idle /\ act' = act /\ UNCHANGED Around
    BY <1>0, <1>4, Swept
  <2>2. busy' = NotBusy /\ up' = up /\ HostedRuns' = HostedRuns
    BY <2>1 DEF Idle, Around, HostedRuns, Hosted
  <2>3. One' /\ busy'.op = "none"
    BY <1>0, <2>1, <2>2, Names DEF One, Idle
  <2> QED BY <2>1, <2>2, <2>3 DEF Alone, Hosted
<1>5. CASE StandingEnded
  <2>1. busy.op = "ended" /\ busy.run \in Runs
    BY <1>5, BusyIs DEF StandingEnded, Basic, Parts
  <2>2. busy' = NotBusy /\ UNCHANGED <<row, act, up>>
    BY <1>5, <2>1, Judged DEF Basic, Types
  <2>3. HostedRuns' = {}
    BY <2>1, <2>2 DEF HostedRuns, Hosted, Alone
  <2> QED BY <2>2, <2>3, Names DEF Alone, One, Hosted
<1>6. CASE Stops
  <2>1. up' = FALSE /\ busy' = NotBusy /\ row' = row /\ \A r \in Runs : act'[r] = "no"
    BY <1>6 DEF Stops
  <2>2. HostedRuns' = {}
    BY <2>1, HostingNext
  <2> QED BY <2>1, <2>2, Names DEF Alone, One
<1>7. CASE BackoffFires \/ KeepLoaded
  <2>1. busy = NotBusy
    BY <1>7 DEF BackoffFires, KeepLoaded, Idle
  <2> QED BY <1>0, <1>7, <2>1, BackoffBegins, KeepBegins, AloneBegins, AloneSame
<1>8. ASSUME NEW x \in Resumers, NEW drop \in BOOLEAN, ResumeLoaded(x, drop) PROVE Alone'
  BY <1>0, <1>8, ResumeBegins, AloneBegins, AloneSame
<1>9. CASE Adopts
  BY <1>0, <1>9, AloneSame DEF Adopts, Idle
<1>10. CASE Asks
  BY <1>0, <1>10, AloneSame DEF Asks
<1> QED BY <1>0, <1>1, <1>2, <1>3, <1>4, <1>5, <1>6, <1>7, <1>8, <1>9, <1>10, Steps, AloneHands,
           AloneOld, AloneBoot

-----------------------------------------------------------------------------
(* The head, within one process. *)

LEMMA AheadOne ==
  ASSUME Ahead
  PROVE  /\ One
         /\ busy = NotBusy => /\ \A r \in HostedRuns : r = head.run
                              /\ \A r \in Runs : row[r] = "live" => r = head.run
<1>1. busy = NotBusy => busy.op # "old"
  BY Names
<1> QED BY <1>1 DEF Ahead, One

\* The run that the head names takes a step, and stays hosted.
LEMMA AheadOnly ==
  ASSUME Ahead, busy = NotBusy, UNCHANGED <<busy, head, timer>>, NEW r \in Runs, act[r] # "no",
         act'[r] # "no", Only(r)
  PROVE  Ahead'
<1>1. r = head.run /\ \A q \in Runs : (act[q] # "no" => q = r) /\ (row[q] = "live" => q = r)
  BY AheadOne, Hosting
<1>2. \A q \in Runs : (act'[q] # "no" => q = r) /\ (row'[q] = "live" => q = r)
  BY <1>1 DEF Only
<1>3. HostedRuns' \subseteq {r} /\ busy'.op = "none"
  BY <1>2, HostingNext, Names
<1>4. head.paused = "no"
  BY <1>1 DEF Ahead, Hosted
<1> QED BY <1>1, <1>2, <1>3, <1>4 DEF Ahead, Hosted

LEMMA AheadEnds ==
  ASSUME Basic, Ahead, NEW r \in Runs, NEW status, Ends(r, status)
  PROVE  Ahead'
<1>1. /\ act'[r] = "no" /\ row'[r] = status /\ status \in Ended /\ saved'[r] = mem[r] /\ mem' = mem
      /\ busy' = [op |-> "ended", run |-> r, status |-> status] /\ Only(r)
  BY EndSaved DEF Basic, Types
<1>2. busy = NotBusy /\ act[r] # "no" /\ UNCHANGED <<head, timer>>
  BY DEF Ends
<1>3. r = head.run /\ \A q \in Runs : (act[q] # "no" => q = r) /\ (row[q] = "live" => q = r)
  BY <1>2, AheadOne, Hosting
<1>4. \A q \in Runs : act'[q] = "no" /\ row'[q] # "live"
  BY <1>1, <1>3, Names DEF Only
<1>5. HostedRuns' = {} /\ busy'.op = "ended" /\ busy'.run = r
  BY <1>1, <1>4, HostingNext
<1> QED BY <1>1, <1>2, <1>3, <1>4, <1>5, Names DEF Ahead, Hosted

LEMMA StartAhead ==
  ASSUME Types, Fresh, NEW carry, NEW streak, StartStanding(carry, streak)
  PROVE  /\ next \in Runs /\ head'.run = next /\ head'.paused = "no" /\ row'[next] # "live"
         /\ \A q \in Runs : q # next => act'[q] = act[q] /\ row'[q] = row[q]
         /\ act'[next] # "no" \/ row'[next] # "none"
         /\ act'[next] = "no" => saved'[next] = mem'[next]
<1>1. /\ next \in Runs /\ saved' = saved /\ saved[next] = {}
      /\ \A q \in Runs : q # next => act'[q] = act[q] /\ row'[q] = row[q]
  BY Started
<1>2. head'.run = next /\ head'.paused = "no"
  BY Started
<1>3. \/ act'[next] = "dirty" /\ row'[next] = "none"
      \/ act'[next] = "no" /\ row'[next] = "error" /\ mem'[next] = {}
  BY Started
<1> QED BY <1>1, <1>2, <1>3

LEMMA AheadHands ==
  ASSUME Basic, Ahead, NEW r \in Runs, Hands(r)
  PROVE  Ahead'
<1>1. /\ StartStanding(mem[r], 0) /\ r # next /\ act[r] = "clean" /\ busy = NotBusy
      /\ busy' = [op |-> "old", run |-> r, status |-> "done"]
  BY Handed DEF Basic, Hands
<1>2. \A q \in Runs : (act[q] # "no" => q = r) /\ (row[q] = "live" => q = r)
  BY <1>1, AheadOne, Hosting
<1>3. /\ next \in Runs /\ head'.run = next /\ head'.paused = "no" /\ row'[next] # "live"
      /\ \A q \in Runs : q # next => act'[q] = act[q] /\ row'[q] = row[q]
      /\ act'[next] # "no" \/ row'[next] # "none"
      /\ act'[next] = "no" => saved'[next] = mem'[next]
  BY <1>1, StartAhead DEF Basic
<1>4. \A q \in Runs : (act'[q] # "no" => q \in {r, next}) /\ (row'[q] = "live" => q = r)
  BY <1>2, <1>3
<1>5. HostedRuns' \subseteq {next, r} /\ busy'.op = "old" /\ busy'.run = r
  BY <1>1, <1>4, HostingNext
<1> QED BY <1>1, <1>3, <1>4, <1>5 DEF Ahead, Hosted

LEMMA AheadBegins ==
  ASSUME Basic, Ahead, NEW carry, NEW streak, Begins(carry, streak),
         head.run \in Runs => row[head.run] # "live"
  PROVE  Ahead'
<1>1. StartStanding(carry, streak) /\ HostedRuns = {} /\ busy = NotBusy /\ busy' = busy
  BY DEF Begins
<1>2. \A q \in Runs : act[q] = "no" /\ row[q] # "live"
  BY <1>1, AheadOne, Hosting
<1>3. /\ next \in Runs /\ head'.run = next /\ head'.paused = "no" /\ row'[next] # "live"
      /\ \A q \in Runs : q # next => act'[q] = act[q] /\ row'[q] = row[q]
      /\ act'[next] # "no" \/ row'[next] # "none"
      /\ act'[next] = "no" => saved'[next] = mem'[next]
  BY <1>1, StartAhead DEF Basic
<1>4. \A q \in Runs : (act'[q] # "no" => q = next) /\ row'[q] # "live"
  BY <1>2, <1>3
<1>5. HostedRuns' \subseteq {next} /\ busy'.op = "none"
  BY <1>1, <1>4, HostingNext, Names
<1> QED BY <1>1, <1>3, <1>4, <1>5 DEF Ahead, Hosted

LEMMA AheadOld ==
  ASSUME Basic, Ahead, EndOld
  PROVE  Ahead'
<1>1. busy.op = "old" /\ busy.run \in Runs
  BY BusyIs, Hosting DEF EndOld, Basic, Parts
<1>2. /\ act'[busy.run] = "no" /\ row'[busy.run] = "done" /\ Only(busy.run) /\ busy' = NotBusy
      /\ UNCHANGED <<head, timer>>
  BY <1>1, OldEnded DEF Basic, Types
<1>3. head.run # busy.run /\ head.run \in Runs
  BY <1>1 DEF Ahead
<1>4. \A q \in Runs : (act'[q] # "no" => q = head.run) /\ row'[q] # "live"
  BY <1>1, <1>2, <1>3, Hosting DEF Ahead, Only
<1>5. HostedRuns' \subseteq {head.run} /\ busy'.op = "none"
  BY <1>2, <1>4, HostingNext, Names
<1>6. /\ act'[head.run] = act[head.run] /\ row'[head.run] = row[head.run]
      /\ saved'[head.run] = saved[head.run] /\ mem'[head.run] = mem[head.run]
  BY <1>2, <1>3 DEF Only
<1> QED BY <1>1, <1>2, <1>3, <1>4, <1>5, <1>6 DEF Ahead, Hosted

LEMMA AheadJudged ==
  ASSUME Basic, Ahead, StandingEnded
  PROVE  Ahead'
<1>1. busy.op = "ended" /\ busy.run \in Runs /\ row[busy.run] \in Ended
  BY BusyIs DEF StandingEnded, Basic, Parts
<1>2. busy' = NotBusy /\ head'.run = head.run /\ UNCHANGED <<row, saved, act, mem>>
  BY <1>1, Judged DEF Basic, Types
<1>3. busy.run = head.run /\ \A q \in Runs : act[q] = "no"
  BY <1>1, Hosting DEF Ahead
<1>4. HostedRuns' = {} /\ busy'.op = "none"
  BY <1>2, <1>3, HostingNext, Names
<1>5. \A q \in Runs : row[q] # "live"
  BY <1>1, <1>3, Names DEF Ahead
<1> QED BY <1>1, <1>2, <1>3, <1>4, <1>5 DEF Ahead, Hosted

LEMMA AheadBoot ==
  ASSUME Basic, Ahead, Boot
  PROVE  Ahead'
<1>1. /\ ~up /\ mem' = saved /\ UNCHANGED <<saved, head, timer, busy>>
      /\ \A r \in Runs : /\ act'[r] # "no" => row[r] = "live"
                         /\ row'[r] = "live" => row[r] = "live"
                         /\ row[r] # "none" => row'[r] # "none"
  BY Booted DEF Basic, Types
<1>2. busy = NotBusy /\ \A r \in Runs : act[r] = "no"
  BY <1>1, Hosting DEF Basic, Parts
<1>3. \A q \in Runs : row[q] = "live" => q = head.run
  BY <1>2, AheadOne
<1>4. HostedRuns' \subseteq {head.run} /\ busy'.op = "none"
  BY <1>1, <1>2, <1>3, HostingNext, Names
<1>5. head.run \in Runs => /\ row[head.run] # "none"
                           /\ row[head.run] = "live" => head.paused = "no" /\ timer = NoTimer
  BY <1>2 DEF Ahead, Hosted
<1> QED BY <1>1, <1>3, <1>4, <1>5 DEF Ahead, Hosted

\* The end of the process that the age of a removed Workflow's run causes.
LEMMA AheadStops ==
  ASSUME Basic, Ahead, Stops, crashes' = crashes
  PROVE  Ahead'
<1>1. /\ Idle /\ head.run \in HostedRuns /\ busy' = NotBusy /\ timer' = NoTimer
      /\ UNCHANGED <<row, saved, mem, head>> /\ \A r \in Runs : act'[r] = "no"
  <2>1. crashes + 1 # crashes
    BY SMTT(30) DEF Basic, Types, HostOK
  <2> QED BY <2>1 DEF Stops
<1>2. busy = NotBusy /\ head.run \in Runs /\ act[head.run] = "clean"
  BY <1>1, Hosting DEF Idle, Basic, Types, RunsOK
<1>3. row[head.run] = "live" /\ saved[head.run] = mem[head.run]
  BY <1>2 DEF Basic, Clean
<1>4. HostedRuns' = {} /\ busy'.op = "none"
  BY <1>1, HostingNext, Names
<1>5. \A q \in Runs : row[q] = "live" => q = head.run
  BY <1>2, AheadOne
<1>6. head.paused = "no"
  BY <1>2 DEF Ahead, Hosted
<1> QED BY <1>1, <1>3, <1>4, <1>5, <1>6 DEF Ahead

LEMMA AheadSame ==
  ASSUME Ahead, UNCHANGED <<act, row, saved, mem, busy>>, head'.run = head.run,
         head'.paused = head.paused, timer' = timer \/ timer' = NoTimer
  PROVE  Ahead'
<1>1. HostedRuns' = HostedRuns
  BY DEF HostedRuns, Hosted
<1> QED BY <1>1 DEF Ahead, Hosted

\* What begins a run begins it after one that is not live.
LEMMA AheadFirst ==
  ASSUME Basic, Ahead
  PROVE  /\ BackoffFires => (head.run \in Runs /\ HostedRuns = {} => row[head.run] # "live")
         /\ head.run \in Runs /\ HostedRuns = {} /\ head.paused # "no" => row[head.run] # "live"
<1>1. HostedRuns = {} /\ head.run \in Runs => ~Hosted(head.run)
  BY Hosting DEF Hosted
<1>2. BackoffFires => timer # NoTimer
  BY DEF BackoffFires, NoTimer
<1> QED BY <1>1, <1>2 DEF Ahead

LEMMA AheadStep ==
  ASSUME Basic, Ahead, [Next]_vars, crashes' = crashes
  PROVE  Ahead'
<1>0. RunsOK /\ One /\ (Quiet => UNCHANGED <<act, row, saved, mem, busy>>)
  BY AheadOne DEF Basic, Types, Quiet, runs
<1>1. ASSUME NEW r \in Runs, Works(r) PROVE Ahead'
  <2>1. /\ Idle /\ act[r] = "clean" /\ act'[r] = "dirty" /\ Only(r) /\ UNCHANGED Around
    BY <1>0, <1>1, Worked
  <2> QED BY <2>1, AheadOnly DEF Idle, Around
<1>2. ASSUME NEW r \in Runs, Persist(r) PROVE Ahead'
  <2>1. /\ busy = NotBusy /\ act[r] = "dirty" /\ act'[r] = "clean" /\ Only(r) /\ UNCHANGED Around
    BY <1>0, <1>2, Persisted
  <2> QED BY <2>1, AheadOnly DEF Around
<1>3. ASSUME NEW r \in Runs, Sweep(r) PROVE Ahead'
  <2>1. /\ \A q \in Runs : \/ row'[q] = row[q] /\ saved'[q] = saved[q]
                           \/ q # head.run /\ row'[q] = "none"
        /\ UNCHANGED <<act, mem, busy, head, timer>>
    BY <1>0, <1>3, Swept DEF Around
  <2>2. HostedRuns' = HostedRuns
    BY <2>1 DEF HostedRuns, Hosted
  <2>3. \A q \in Runs : row'[q] = "live" => row[q] = "live"
    BY <2>1
  <2>4. head.run \in Runs => row'[head.run] = row[head.run] /\ saved'[head.run] = saved[head.run]
    BY <2>1
  <2> QED BY <2>1, <2>2, <2>3, <2>4 DEF Ahead, Hosted
<1>4. CASE BackoffFires
  <2>1. CASE Quiet /\ timer' = NoTimer /\ head' = head
    BY <1>0, <2>1, AheadSame
  <2>2. CASE Begins(mem[head.run], head.streak)
    BY <1>4, <2>2, AheadFirst, AheadBegins DEF Begins
  <2> QED BY <1>4, <2>1, <2>2, BackoffBegins
<1>5. CASE KeepLoaded
  <2>1. CASE Quiet /\ timer' = timer /\ head' = head
    BY <1>0, <2>1, AheadSame
  <2>2. CASE /\ Quiet /\ timer' = timer /\ head.run \in Runs /\ row[head.run] = "cancelled"
             /\ head' = [head EXCEPT !.paused = "cancel"]
    <3>1. head'.run = head.run
      BY <2>2 DEF Basic, Types, HostOK, Heads
    <3>2. HostedRuns = {} /\ HostedRuns' = HostedRuns
      BY <1>0, <1>5, <2>2 DEF KeepLoaded, Basic, Loading, HostedRuns, Hosted
    <3> QED BY <1>0, <2>2, <3>1, <3>2, Hosting DEF Ahead, Hosted
  <2>3. CASE row[head.run] \in Ended /\ Begins(saved[head.run], head.streak)
    BY <2>3, AheadBegins, Names
  <2>4. CASE (head.run = NoRun \/ row[head.run] = "none") /\ Begins({}, 0)
    BY <2>4, AheadBegins, RunNumbers
  <2> QED BY <1>5, <2>1, <2>2, <2>3, <2>4, KeepBegins
<1>6. ASSUME NEW x \in Resumers, NEW drop \in BOOLEAN, ResumeLoaded(x, drop) PROVE Ahead'
  <2>1. CASE Quiet /\ UNCHANGED <<head, timer>>
    BY <1>0, <2>1, AheadSame
  <2>2. CASE head.paused # "no" /\ Begins(IF drop THEN {} ELSE saved[resuming[x]], 0)
    BY <2>2, AheadFirst, AheadBegins DEF Begins
  <2> QED BY <1>0, <1>6, <2>1, <2>2, ResumeBegins
<1>7. CASE Adopts
  <2>1. Quiet /\ StandingRun = head.run /\ head' = head /\ head.run \in HostedRuns
    BY <1>7, AheadOne DEF Adopts, Idle
  <2>2. HostedRuns' = HostedRuns /\ Hosted(head.run) /\ Hosted(head.run)'
    BY <1>0, <2>1 DEF HostedRuns, Hosted
  <2> QED BY <1>0, <2>1, <2>2 DEF Ahead
<1>8. CASE Asks
  BY <1>0, <1>8, AheadSame DEF Asks
<1>9. CASE Stops
  BY <1>9, AheadStops
<1> QED BY <1>0, <1>1, <1>2, <1>3, <1>4, <1>5, <1>6, <1>7, <1>8, <1>9, Steps, AheadEnds, AheadHands,
           AheadOld, AheadJudged, AheadBoot

\* Nothing that is under way while a resume loads changes what the resume was asked for.
LEMMA ResumingStep ==
  ASSUME Basic, Ahead, Resuming, [Next]_vars
  PROVE  Resuming'
<1>0. RunsOK /\ One
  BY AheadOne DEF Basic, Types
<1> DEFINE none == \A x \in Resumers : resuming[x] = NoRun
<1>1. ASSUME none, UNCHANGED resuming PROVE Resuming'
  BY <1>1 DEF Resuming
<1>2. Idle => none
  BY DEF Idle
<1>3. ASSUME NEW r \in Runs, BoundDue(r) PROVE none
  <2>1. act[r] = "clean" /\ taken[r] # 0
    BY <1>0, <1>3, PoolBounds, SMTT(30) DEF BoundDue, RunsOK
  <2> QED BY <2>1, Hosting DEF Resuming
<1>4. busy # NotBusy => none
  BY DEF Resuming
<1>5. ASSUME NEW r \in Runs, Works(r) PROVE Resuming'
  BY <1>0, <1>1, <1>2, <1>5, Worked DEF Around
<1>6. ASSUME NEW r \in Runs, Persist(r) PROVE Resuming'
  <2>1. /\ act[r] = "dirty" /\ act'[r] = "clean" /\ Only(r) /\ UNCHANGED Around /\ taken' = taken
    BY <1>0, <1>6, Persisted
  <2>2. HostedRuns' = HostedRuns
    BY <2>1, Hosting, HostingNext DEF Only
  <2> QED BY <2>1, <2>2 DEF Resuming, Around
<1>7. ASSUME NEW r \in Runs, Sweep(r) PROVE Resuming'
  BY <1>0, <1>1, <1>2, <1>7, Swept DEF Around
<1>8. ASSUME NEW r \in Runs, NEW status, Hands(r) \/ Ends(r, status) PROVE Resuming'
  BY <1>1, <1>2, <1>3, <1>8 DEF Hands, Ends
<1>9. CASE EndOld \/ StandingEnded
  BY <1>1, <1>4, <1>9, BusyIs DEF EndOld, StandingEnded
<1>10. CASE Boot \/ Stops
  BY <1>1, <1>10 DEF Boot, Basic, Parts, Stops, Resuming
<1>11. CASE BackoffFires
  BY <1>1, <1>2, <1>11 DEF BackoffFires
<1>12. CASE KeepLoaded
  BY <1>1, <1>12 DEF KeepLoaded, Basic, Loading
<1>13. CASE Adopts
  BY <1>1, <1>2, <1>13 DEF Adopts
<1>14. ASSUME NEW x \in Resumers, NEW drop \in BOOLEAN, ResumeLoaded(x, drop) PROVE Resuming'
  <2>1. busy = NotBusy /\ \A y \in Resumers : resuming'[y] \in {resuming[y], NoRun}
    BY <1>0, <1>14, ResumeBegins DEF Basic, Types, HostOK
  <2>2. CASE Quiet /\ UNCHANGED <<head, timer>>
    <3>1. HostedRuns' = HostedRuns /\ UNCHANGED <<taken, busy>>
      BY <2>2 DEF Quiet, runs, HostedRuns, Hosted
    <3> QED BY <2>1, <2>2, <3>1 DEF Resuming
  <2>3. ASSUME NEW carry, Begins(carry, 0) PROVE Resuming'
    <3>1. StartStanding(carry, 0) /\ HostedRuns = {} /\ busy' = busy
      BY <2>3 DEF Begins
    <3>2. /\ taken[next] = 0 /\ taken' = taken
          /\ \A r \in Runs : r # next => act'[r] = act[r]
      BY <3>1, Started DEF Basic
    <3>3. head'.paused = "no"
      BY <3>1, StartAhead DEF Basic
    <3>4. \A r \in HostedRuns' : r = next
      BY <3>1, <3>2, Hosting, HostingNext
    <3> QED BY <2>1, <3>1, <3>2, <3>3, <3>4 DEF Resuming
  <2> QED BY <1>0, <1>14, <2>2, <2>3, ResumeBegins
<1>15. CASE Asks
  <2>1. HostedRuns' = HostedRuns /\ UNCHANGED <<taken, busy, head>>
    BY <1>15 DEF Asks, Quiet, runs, HostedRuns, Hosted
  <2>2. CASE UNCHANGED resuming
    BY <2>1, <2>2 DEF Resuming
  <2>3. ASSUME busy = NotBusy, HostedRuns = {}, NEW x \in Resumers,
               resuming' = [resuming EXCEPT ![x] = head.run]
        PROVE  Resuming'
    <3>1. \A y \in Resumers : resuming'[y] \in {resuming[y], head.run}
      BY <2>3 DEF Basic, Types, HostOK
    <3> QED BY <2>1, <2>3, <3>1 DEF Resuming
  <2> QED BY <1>15, <2>2, <2>3 DEF Asks
<1> QED BY <1>0, <1>5, <1>6, <1>7, <1>8, <1>9, <1>10, <1>11, <1>12, <1>13, <1>14, <1>15, Steps

LEMMA StreakBegins ==
  ASSUME Basic, NEW carry, NEW streak, StartStanding(carry, streak),
         futile' <= streak, ~(streak > ErrorsPause)
  PROVE  Streak'
<1>1. head'.run \in Runs /\ head'.streak = streak
  BY Started DEF Basic
<1>2. timer' = NoTimer \/ timer' = [kind |-> "age", run |-> next]
  BY Started DEF Basic
<1>3. timer'.kind # "backoff"
  BY <1>2 DEF NoTimer
<1> QED BY <1>1, <1>3, RunNumbers DEF Streak

LEMMA StreakJudged ==
  ASSUME Basic, Ahead, Streak, StandingEnded
  PROVE  Streak'
<1>1. busy.run = head.run /\ head.run \in Runs
  BY BusyIs DEF StandingEnded, Basic, Parts, Ahead
<1>2. futile \in Nat /\ head \in Heads /\ head.streak \in Nat
  BY DEF Basic, Types, HostOK, Heads
<1>3. CASE busy.status = "cancelled"
  <2>1. head' = [head EXCEPT !.paused = "cancel"] /\ timer' = NoTimer /\ futile' = futile
    BY <1>1, <1>3 DEF StandingEnded
  <2>2. head'.run = head.run /\ head'.streak = head.streak /\ head'.paused = "cancel"
    BY <1>2, <2>1 DEF Heads
  <2> QED BY <1>1, <2>1, <2>2, RunNumbers DEF Streak, NoTimer
<1>4. CASE /\ busy.status # "cancelled"
           /\ busy.run \in atBound \/ busy.status \in HandsOver
  <2> DEFINE streak == IF Counts(busy.run) THEN head.streak + 1 ELSE 0
  <2>1. /\ head' = [run |-> busy.run, streak |-> streak,
                    paused |-> IF Pauses(streak) THEN "loop" ELSE "no"]
        /\ timer' = IF Pauses(streak) THEN NoTimer ELSE [kind |-> "backoff", run |-> busy.run]
        /\ futile' = IF took[busy.run] = "started" THEN 0 ELSE futile + 1
    BY <1>1, <1>4 DEF StandingEnded
  <2>2. futile' <= streak
    <3>1. CASE took[busy.run] = "started"
      BY <1>2, <2>1, <3>1, SMTT(30)
    <3>2. CASE took[busy.run] # "started"
      <4>1. Counts(busy.run)
        BY <3>2 DEF Counts
      <4> QED BY <1>2, <2>1, <3>2, <4>1, SMTT(30) DEF Streak
    <3> QED BY <3>1, <3>2
  <2> HIDE DEF streak
  <2>3. /\ head'.run = busy.run /\ head'.streak = streak
        /\ head'.paused = IF Pauses(streak) THEN "loop" ELSE "no"
    BY <2>1
  <2>4. timer'.kind = "backoff" => ~Pauses(streak)
    BY <2>1 DEF NoTimer
  <2> QED BY <1>1, <2>2, <2>3, <2>4, RunNumbers DEF Streak, Pauses
<1>5. CASE /\ busy.status # "cancelled"
           /\ ~(busy.run \in atBound \/ busy.status \in HandsOver)
  <2>1. timer' = NoTimer /\ UNCHANGED <<head, futile>>
    BY <1>1, <1>5 DEF StandingEnded
  <2> QED BY <2>1 DEF Streak, NoTimer
<1> QED BY <1>3, <1>4, <1>5

LEMMA StreakStep ==
  ASSUME Basic, Ahead, Streak, [Next]_vars
  PROVE  Streak'
<1>0. RunsOK /\ One /\ 0 <= 0 /\ ~(0 > ErrorsPause)
  BY AheadOne, SMTT(30) DEF Basic, Types, ErrorsPause
<1>1. ASSUME UNCHANGED <<head, futile>>, timer' = timer \/ timer'.kind # "backoff" PROVE Streak'
  BY <1>1 DEF Streak
<1>2. NoTimer.kind # "backoff"
  BY DEF NoTimer
<1>3. head.paused = "no" => ~(head.streak > ErrorsPause)
  BY DEF Streak
<1>4. ASSUME NEW r \in Runs, Works(r) \/ Persist(r) \/ Sweep(r) PROVE Streak'
  BY <1>0, <1>1, <1>4, Worked, Persisted, Swept DEF Around
<1>5. ASSUME NEW r \in Runs, NEW status, Ends(r, status) PROVE Streak'
  BY <1>1, <1>5 DEF Ends, ghosts
<1>6. ASSUME NEW r \in Runs, Hands(r) PROVE Streak'
  BY <1>0, <1>6, Handed, StreakBegins DEF Basic
<1>7. CASE EndOld \/ Boot
  BY <1>1, <1>7 DEF EndOld, Boot, ghosts
<1>8. CASE StandingEnded
  BY <1>8, StreakJudged
<1>9. CASE Stops
  BY <1>1, <1>2, <1>9 DEF Stops, ghosts
<1>10. CASE BackoffFires
  <2>1. timer.kind = "backoff" /\ futile' = futile
    BY <1>10, BackoffBegins DEF ghosts
  <2>2. CASE timer' = NoTimer /\ head' = head
    BY <1>1, <1>2, <2>1, <2>2
  <2>3. CASE Begins(mem[head.run], head.streak)
    BY <1>3, <2>1, <2>3, StreakBegins DEF Streak, Begins
  <2> QED BY <1>10, <2>2, <2>3, BackoffBegins
<1>11. CASE KeepLoaded
  <2>1. /\ futile' = futile /\ keeping = "load" /\ HostedRuns = {} /\ head.paused = "no"
        /\ timer = NoTimer
    BY <1>11, KeepBegins DEF ghosts, Basic, Loading
  <2>2. CASE timer' = timer /\ head' = head
    BY <1>1, <2>1, <2>2
  <2>3. CASE timer' = timer /\ head' = [head EXCEPT !.paused = "cancel"]
    <3>1. head'.run = head.run /\ head'.streak = head.streak /\ head'.paused = "cancel"
      BY <2>3 DEF Basic, Types, HostOK, Heads
    <3> QED BY <1>2, <2>1, <2>3, <3>1 DEF Streak
  <2>4. CASE Begins(saved[head.run], head.streak)
    BY <1>3, <2>1, <2>4, StreakBegins DEF Streak, Begins
  <2>5. CASE (head.run = NoRun \/ row[head.run] = "none") /\ Begins({}, 0)
    <3>1. head.run = NoRun
      BY <2>1, <2>5, HeadIs, Hosting DEF Ahead, Hosted, Basic, RunIds
    <3>2. futile' = 0
      BY <2>1, <3>1 DEF Streak
    <3> QED BY <1>0, <2>5, <3>2, StreakBegins DEF Begins
  <2> QED BY <1>11, <2>2, <2>3, <2>4, <2>5, KeepBegins
<1>12. ASSUME NEW x \in Resumers, NEW drop \in BOOLEAN, ResumeLoaded(x, drop) PROVE Streak'
  <2>1. CASE Quiet /\ UNCHANGED <<head, timer>>
    BY <1>1, <2>1 DEF Quiet, ghosts
  <2>2. CASE futile' = 0 /\ Begins(IF drop THEN {} ELSE saved[resuming[x]], 0)
    BY <1>0, <2>2, StreakBegins DEF Begins
  <2> QED BY <1>0, <1>12, <2>1, <2>2, ResumeBegins
<1>13. CASE Adopts
  <2>1. StandingRun = head.run /\ timer' = [kind |-> "age", run |-> StandingRun] /\ futile' = futile
    BY <1>13, AheadOne DEF Adopts, Idle, Quiet, ghosts
  <2>2. head' = head /\ timer'.kind # "backoff"
    BY <1>13, <2>1 DEF Adopts
  <2> QED BY <1>1, <2>1, <2>2
<1>14. CASE Asks
  BY <1>1, <1>14 DEF Asks, Quiet, ghosts
<1> QED BY <1>0, <1>4, <1>5, <1>6, <1>7, <1>8, <1>9, <1>10, <1>11, <1>12, <1>13, <1>14, Steps

-----------------------------------------------------------------------------
(* What is held. *)

\* A start that does not throw carries to the run that the head will name.
LEMMA HeldBegins ==
  ASSUME StartsThrow = FALSE, plain' = {}, refused \subseteq refused', Basic, NEW carry, NEW streak,
         StartStanding(carry, streak), acked' \ (left' \cup refused) \subseteq carry
  PROVE  Held'
<1>1. next \in Runs /\ head'.run = next
  BY StartAhead DEF Basic
<1>2. carry \ refused' \subseteq mem'[next]
  BY Started DEF Basic
<1> QED BY <1>1, <1>2 DEF Held

LEMMA HeldStep ==
  ASSUME StartsThrow = FALSE, plain' = {}, refused \subseteq refused', Basic, Ahead, Resuming, Held,
         [Next]_vars, crashes' = crashes
  PROVE  Held'
<1>0. RunsOK /\ One
  BY AheadOne DEF Basic, Types
<1>1. ASSUME head'.run = head.run, mem' = mem, UNCHANGED <<acked, left>> PROVE Held'
  BY <1>1 DEF Held
<1>2. ASSUME NEW r \in Runs, act[r] # "no", busy = NotBusy PROVE r = head.run
  BY <1>2, AheadOne, Hosting
<1>3. ASSUME HostedRuns = {}, NEW i \in acked \ (left \cup refused)
      PROVE  /\ head.run \in Runs /\ i \in mem[head.run] /\ i \in saved[head.run]
             /\ row[head.run] # "none"
  <2>1. head.run \in Runs /\ i \in mem[head.run]
    BY <1>3 DEF Held
  <2>2. act[head.run] = "no"
    BY <1>3, <2>1, Hosting
  <2> QED BY <2>1, <2>2 DEF Ahead, Hosted
<1>4. ASSUME NEW r \in Runs, Works(r) PROVE Held'
  <2>1. /\ Idle /\ act[r] = "clean" /\ acked' = acked /\ UNCHANGED Around /\ left \subseteq left'
        /\ mem[r] \ left' \subseteq mem'[r]
    BY <1>0, <1>4, Worked
  <2>2. r = head.run /\ head' = head
    BY <1>2, <2>1 DEF Idle, Around
  <2> QED BY <2>1, <2>2 DEF Held
<1>5. ASSUME NEW r \in Runs, Persist(r) PROVE Held'
  <2>1. /\ busy = NotBusy /\ act[r] = "dirty" /\ mem' = mem /\ acked' = acked \cup mem[r]
        /\ left' = left /\ UNCHANGED Around
    BY <1>0, <1>5, Persisted
  <2>2. r = head.run /\ head' = head
    BY <1>2, <2>1 DEF Around
  <2> QED BY <2>1, <2>2 DEF Held
<1>6. ASSUME NEW r \in Runs, Sweep(r) PROVE Held'
  BY <1>0, <1>1, <1>6, Swept DEF Around
<1>7. ASSUME NEW r \in Runs, NEW status, Ends(r, status) PROVE Held'
  BY <1>0, <1>1, <1>7, EndSaved DEF Ends, ghosts
<1>8. ASSUME NEW r \in Runs, Hands(r) PROVE Held'
  <2>1. act[r] = "clean" /\ busy = NotBusy /\ UNCHANGED <<acked, left>>
    BY <1>8 DEF Hands
  <2>2. r = head.run
    BY <1>2, <2>1
  <2>3. acked' \ (left' \cup refused) \subseteq mem[r]
    BY <2>1, <2>2 DEF Held
  <2> QED BY <1>8, <2>3, Handed, HeldBegins DEF Basic
<1>9. CASE EndOld
  BY <1>1, <1>9 DEF EndOld, ghosts
<1>10. CASE StandingEnded
  <2>1. busy.run \in Runs
    BY <1>10, BusyIs DEF StandingEnded, Basic, Parts
  <2> QED BY <1>1, <1>10, <2>1, Judged DEF Basic, Types
<1>11. CASE Boot
  <2>1. ~up /\ mem' = saved /\ UNCHANGED <<head, acked, left>>
    BY <1>0, <1>11, Booted DEF ghosts
  <2>2. HostedRuns = {}
    BY <2>1 DEF Basic, Parts
  <2> QED BY <1>3, <2>1, <2>2 DEF Held
<1>12. CASE Stops
  BY <1>1, <1>12 DEF Stops, ghosts
<1>13. CASE BackoffFires
  <2>1. UNCHANGED <<acked, left>>
    BY <1>13, BackoffBegins DEF ghosts
  <2>2. CASE Quiet /\ head' = head
    BY <1>1, <2>1, <2>2 DEF Quiet, runs
  <2>3. CASE Begins(mem[head.run], head.streak)
    BY <2>1, <2>3, HeldBegins DEF Held, Begins
  <2> QED BY <1>13, <2>2, <2>3, BackoffBegins
<1>14. CASE KeepLoaded
  <2>1. UNCHANGED <<acked, left>> /\ HostedRuns = {}
    BY <1>14, KeepBegins DEF ghosts, Basic, Loading
  <2>2. CASE Quiet /\ (head' = head \/ head' = [head EXCEPT !.paused = "cancel"])
    <3>1. head'.run = head.run /\ mem' = mem
      BY <2>2 DEF Quiet, runs, Basic, Types, HostOK, Heads
    <3> QED BY <1>1, <2>1, <3>1
  <2>3. CASE Begins(saved[head.run], head.streak)
    BY <1>3, <2>1, <2>3, HeldBegins DEF Begins
  <2>4. CASE (head.run = NoRun \/ row[head.run] = "none") /\ Begins({}, 0)
    <3>1. acked' \ (left' \cup refused) \subseteq {}
      BY <1>3, <2>1, <2>4, RunNumbers
    <3> QED BY <2>4, <3>1, HeldBegins DEF Begins
  <2> QED BY <1>14, <2>2, <2>3, <2>4, KeepBegins
<1>15. ASSUME NEW x \in Resumers, NEW drop \in BOOLEAN, ResumeLoaded(x, drop) PROVE Held'
  <2>1. resuming[x] \in Runs /\ acked' = acked
    BY <1>0, <1>15, ResumeBegins
  <2>2. CASE Quiet /\ UNCHANGED <<head, timer>>
    BY <1>1, <2>2 DEF Quiet, runs, ghosts
  <2>3. CASE /\ head.paused # "no"
             /\ Begins(IF drop THEN {} ELSE saved[resuming[x]], 0)
             /\ left' = IF drop THEN left \cup saved[resuming[x]] ELSE left
    <3>1. resuming[x] = head.run /\ HostedRuns = {}
      BY <2>1, <2>3, RunNumbers DEF Resuming, Begins
    <3>2. acked \ (left \cup refused) \subseteq saved[resuming[x]]
      BY <1>3, <3>1
    <3>3. acked' \ (left' \cup refused) \subseteq IF drop THEN {} ELSE saved[resuming[x]]
      BY <2>1, <2>3, <3>2
    <3> QED BY <2>3, <3>3, HeldBegins DEF Begins
  <2> QED BY <1>0, <1>15, <2>2, <2>3, ResumeBegins
<1>16. CASE Adopts
  <2>1. StandingRun = head.run
    BY <1>16, AheadOne DEF Adopts, Idle
  <2> QED BY <1>1, <1>16, <2>1 DEF Adopts, Quiet, runs, ghosts
<1>17. CASE Asks
  BY <1>1, <1>17 DEF Asks, Quiet, runs, ghosts
<1> QED BY <1>0, <1>4, <1>5, <1>6, <1>7, <1>8, <1>9, <1>10, <1>11, <1>12, <1>13, <1>14, <1>15, <1>16,
           <1>17, Steps

-----------------------------------------------------------------------------
(* The invariants. *)

LEMMA StartsSound == Init => Basic /\ Alone /\ Within /\ Held /\ crashes = 0
<1> SUFFICES ASSUME Init PROVE Basic /\ Alone /\ Within /\ Held /\ crashes = 0
  OBVIOUS
<1>1. /\ up = TRUE /\ row = [r \in Runs |-> "none"] /\ saved = [r \in Runs |-> {}]
      /\ head = [run |-> NoRun, streak |-> 0, paused |-> "no"]
      /\ act = [r \in Runs |-> "no"] /\ mem = [r \in Runs |-> {}]
      /\ took = [r \in Runs |-> "none"] /\ taken = [r \in Runs |-> 0]
      /\ atBound = {} /\ timer = NoTimer /\ busy = NotBusy /\ keeping = "ask"
      /\ resuming = [x \in Resumers |-> NoRun] /\ next = 1 /\ crashes = 0
      /\ acked = {} /\ futile = 0
  BY DEF Init
<1>2. /\ head.run = NoRun /\ head.streak = 0 /\ head.paused = "no"
      /\ (\A r \in Runs : act[r] = "no" /\ row[r] = "none" /\ taken[r] = 0 /\ mem[r] = {} /\ saved[r] = {})
      /\ \A x \in Resumers : resuming[x] = NoRun
  BY <1>1
<1>3. HostedRuns = {} /\ busy.op = "none" /\ timer.kind = "none"
  BY <1>1, <1>2, Hosting, Names DEF NoTimer
<1>4. NoRun < next /\ futile <= head.streak /\ ~(head.streak > ErrorsPause)
  BY <1>1, <1>2, SMTT(30) DEF NoRun, ErrorsPause
<1>5. Types
  <2>1. RunsOK
    BY <1>1 DEF RunsOK, Rows
  <2>2. head \in Heads
    BY <1>1 DEF Heads, RunIds
  <2> QED BY <1>1, <2>1, <2>2 DEF Types, HostOK, Timers, RunIds
<1>6. Fresh /\ Parts /\ Clean /\ Loading
  BY <1>1, <1>2, <1>3, <1>4 DEF Fresh, Parts, Clean, Loading
<1>7. Alone
  BY <1>1, <1>2, <1>3 DEF Alone, One
<1>8. Within
  BY <1>1, <1>2, <1>3, <1>4, RunNumbers DEF Within, Ahead, Resuming, Streak
<1> QED BY <1>1, <1>5, <1>6, <1>7, <1>8 DEF Basic, Held

\* A refusal, and a run of an ordinary Machine, stay on record.
LEMMA Recorded ==
  ASSUME [Next]_vars
  PROVE  refused \subseteq refused' /\ plain \subseteq plain'
<1>1. ASSUME NEW carry, NEW streak, StartStanding(carry, streak)
      PROVE  refused \subseteq refused' /\ plain \subseteq plain'
  BY <1>1 DEF StartStanding, CarriedOf
<1>2. ASSUME UNCHANGED started PROVE refused \subseteq refused' /\ plain \subseteq plain'
  BY <1>2 DEF started
<1>3. ASSUME NEW r \in Runs, BoundReached(r) \/ Persist(r) \/ Sweep(r)
      PROVE  refused \subseteq refused' /\ plain \subseteq plain'
  BY <1>1, <1>2, <1>3 DEF BoundReached, HandOverLive, SaveEnd, Persist, Sweep
<1>4. ASSUME NEW r \in Runs, NEW i \in Items, Hear(r, i) \/ Claim(r, i) PROVE UNCHANGED started
  BY <1>4 DEF Hear, Claim
<1>5. ASSUME NEW r \in Runs, NEW w, Settle(r, w) \/ RunEnds(r, w) PROVE UNCHANGED started
  BY <1>5 DEF Settle, RunEnds, SaveEnd
<1>6. CASE EndOld \/ StandingEnded \/ AgeThrows \/ Boot \/ Crash
  BY <1>2, <1>6 DEF EndOld, StandingEnded, AgeThrows, Boot, Crash, runs
<1>7. CASE AgeFires \/ BackoffFires \/ Keep
  BY <1>1, <1>2, <1>7 DEF AgeFires, HandOverLive, BackoffFires, Keep, KeepLive, KeepWithoutRun,
                          KeepLoaded, runs
<1>8. ASSUME NEW kind, Publish(kind) PROVE UNCHANGED started
  BY <1>8 DEF Publish, runs
<1>9. ASSUME NEW x \in Resumers, Resume(x)
      PROVE  refused \subseteq refused' /\ plain \subseteq plain'
  BY <1>1, <1>2, <1>9 DEF Resume, ResumeAsk, ResumeLoaded, runs
<1>10. CASE UNCHANGED vars
  BY <1>2, <1>10 DEF vars, runs
<1> QED BY <1>2, <1>3, <1>4, <1>5, <1>6, <1>7, <1>8, <1>9, <1>10 DEF Next

LEMMA CrashesCount ==
  ASSUME [Next]_vars
  PROVE  crashes' = crashes \/ crashes' = crashes + 1
<1>1. ASSUME NEW r \in Runs, BoundReached(r) \/ Persist(r) \/ Sweep(r) PROVE crashes' = crashes
  BY <1>1 DEF BoundReached, Persist, Sweep
<1>2. ASSUME NEW r \in Runs, NEW i \in Items, Hear(r, i) \/ Claim(r, i) PROVE crashes' = crashes
  BY <1>2 DEF Hear, Claim
<1>3. ASSUME NEW r \in Runs, NEW w, Settle(r, w) \/ RunEnds(r, w) PROVE crashes' = crashes
  BY <1>3 DEF Settle, RunEnds
<1>4. CASE EndOld \/ StandingEnded \/ AgeFires \/ AgeThrows \/ BackoffFires \/ Keep \/ Boot
  BY <1>4 DEF EndOld, StandingEnded, AgeFires, AgeThrows, BackoffFires, Keep, KeepLive,
              KeepWithoutRun, KeepLoaded, Boot
<1>5. ASSUME NEW kind, Publish(kind) PROVE crashes' = crashes
  BY <1>5 DEF Publish
<1>6. ASSUME NEW x \in Resumers, Resume(x) PROVE crashes' = crashes
  BY <1>6 DEF Resume, ResumeAsk, ResumeLoaded
<1>7. CASE Crash
  BY <1>7 DEF Crash
<1>8. CASE UNCHANGED vars
  BY <1>8 DEF vars
<1> QED BY <1>1, <1>2, <1>3, <1>4, <1>5, <1>6, <1>7, <1>8 DEF Next

\* No crash after the step, so none before it.
LEMMA NoCrash ==
  ASSUME [Next]_vars, crashes \in Nat
  PROVE  crashes' \in Nat /\ (crashes' = 0 => crashes = 0 /\ crashes' = crashes)
  BY CrashesCount, SMTT(30)

LEMMA AloneHolds ==
  ASSUME MayLeave = FALSE
  PROVE  Spec => []InvAlone
<1>1. Init => InvAlone
  BY StartsSound DEF InvAlone
<1>2. InvAlone /\ [Next]_vars => InvAlone'
  BY BasicStep, AloneStep DEF InvAlone, Alone
<1> QED BY <1>1, <1>2, PTL DEF Spec

LEMMA WithinHolds == Spec => []InvWithin
<1>1. Init => InvWithin
  BY StartsSound DEF InvWithin
<1>2. InvWithin /\ [Next]_vars => InvWithin'
  <2> SUFFICES ASSUME InvWithin, [Next]_vars, crashes' = 0 PROVE Basic' /\ Within'
    BY NoCrash DEF InvWithin
  <2>1. Basic /\ Ahead /\ Resuming /\ Streak /\ crashes' = crashes
    BY NoCrash DEF InvWithin, Within
  <2> QED BY <2>1, AheadOne, BasicStep, AheadStep, ResumingStep, StreakStep DEF Within
<1> QED BY <1>1, <1>2, PTL DEF Spec

LEMMA HeldHolds ==
  ASSUME StartsThrow = FALSE
  PROVE  Spec => []InvHeld
<1>1. Init => InvHeld
  BY StartsSound DEF InvHeld
<1>2. InvHeld /\ InvWithin' /\ [Next]_vars => InvHeld'
  <2> SUFFICES ASSUME InvHeld, InvWithin', [Next]_vars, crashes' = 0, plain' = {} PROVE Held'
    BY DEF InvHeld, InvWithin
  <2>1. /\ Basic /\ Ahead /\ Resuming /\ Held /\ crashes' = crashes
        /\ refused \subseteq refused'
    BY NoCrash, Recorded DEF InvHeld, Within
  <2> QED BY <2>1, HeldStep
<1> QED BY <1>1, <1>2, WithinHolds, PTL DEF Spec

-----------------------------------------------------------------------------
(* The theorems. *)

\* handOverLive, keepOne, resumeStanding and the back-off, across any number of crashes, publishes
\* and concurrent resumes: wherever another step can come, one run of the Workflow is hosted.  For
\* boots that restore or give up every live row (a row that a boot leaves to retry can come back
\* beside the run that was started meanwhile).
THEOREM OneStandingRunHolds ==
  ASSUME MayLeave = FALSE
  PROVE  Spec => []OneStandingRun
<1>1. InvAlone => OneStandingRun
  BY DEF InvAlone, Alone, One, OneStandingRun, Idle
<1> QED BY <1>1, AloneHolds, PTL

\* standingEnded and the streak that startStanding carries: while the process does not crash, four
\* runs in a row that ended with no run started leave the Workflow paused, whether or not starts
\* throw and boots leave rows.
THEOREM PoisonLoopPausesHolds == Spec => [](crashes = 0 => PoisonLoopPauses)
<1>1. InvWithin => (crashes = 0 => PoisonLoopPauses)
  <2> SUFFICES ASSUME InvWithin, crashes = 0, futile > ErrorsPause PROVE head.paused # "no"
    BY DEF PoisonLoopPauses
  <2>1. Streak /\ futile \in Nat /\ head.streak \in Nat
    BY DEF InvWithin, Within, Basic, Types, HostOK, Heads
  <2>2. head.streak > ErrorsPause
    BY <2>1, SMTT(30) DEF Streak, ErrorsPause
  <2> QED BY <2>1, <2>2 DEF Streak
<1> QED BY <1>1, WithinHolds, PTL

\* persist, handOverLive, startStanding, keepOne, resumeStanding and the sweep: while the process
\* does not crash, no start throws and the age hands over to no ordinary Workflow, an item whose Hook
\* was answered held stays with the run that the head names until a worker takes it, a Caller drops
\* it, or carriedOf refuses it with a mark.
THEOREM HeldWhileUpHolds ==
  ASSUME StartsThrow = FALSE
  PROVE  Spec => []HeldWhileUp
<1>1. InvHeld => HeldWhileUp
  <2> SUFFICES ASSUME InvHeld, crashes = 0, plain = {},
                      NEW i \in acked \ (left \cup refused)
               PROVE  \E r \in Runs : \/ Hosted(r) /\ i \in mem[r]
                                      \/ row[r] = "live" /\ i \in saved[r]
                                      \/ r = head.run /\ row[r] # "none" /\ i \in saved[r]
    BY DEF HeldWhileUp, HeldIsKept
  <2>1. head.run \in Runs /\ i \in mem[head.run] /\ Ahead
    BY DEF InvHeld, Held, Within
  <2>2. CASE Hosted(head.run)
    BY <2>1, <2>2
  <2>3. CASE ~Hosted(head.run)
    BY <2>1, <2>3 DEF Ahead, Hosted
  <2> QED BY <2>2, <2>3
<1> QED BY <1>1, HeldHolds, PTL
=============================================================================

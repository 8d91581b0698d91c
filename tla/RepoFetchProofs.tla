-------------------------- MODULE RepoFetchProofs --------------------------
(***************************************************************************)
(* What a `git fetch` inside a Sandbox finds, for every number of asks,    *)
(* seconds, pushes and faults.                                             *)
(*                                                                         *)
(* None of the three properties is inductive: each reads one end of a      *)
(* chain of copies.  The invariant follows the chain.  A stamp is Honest   *)
(* when the cache is whole and holds what was pushed before it, or when it *)
(* is older than the Sandbox; and every copy of a stamp is (Stamps): on    *)
(* the Repo, in the agent's hands, on the Sandbox and in an answer.  It starts with git, which begins after the   *)
(* attempt is stamped (Worker), and lasts because a whole clone stays      *)
(* whole and only grows (Disk, Onward).  An answer is then good for        *)
(* everyone who shares a wait, since they asked no later than the one who  *)
(* opened it (Waiting).                                                    *)
(***************************************************************************)
EXTENDS RepoFetch, FiniteSetTheorems, TLAPS

\* A leaf that names no prover is tried with Zenon, then with SMT.
USE ZenonT(30), SMTT(30)

Disks   == [holds : {"none", "half", "whole"}, version : Nat, marker : BOOLEAN]
Workers == [at : {"idle", "cloning", "probing", "pinning", "fetching", "reporting"},
            stamp : Int, asked : Int, from : Nat, entry : Entry, error : BOOLEAN]
Reports == [asked : Int, fetched : Int, error : BOOLEAN]
Records == [created : {Start}, mark : Int, entry : Reports,
            gate : {"pending", "failed", "fresh", "stale"}]
Fetches == [at : {"none", "marking", "waiting", "answered", "served"}, t : Int, by : Nat,
            had : Nat, answer : {"", "fetched", "stale"}, asOf : Int]

\* The state's values, for every bound.
Types ==
  /\ now \in Nat /\ pushed \in Seq(Nat)
  /\ disk \in Disks
  /\ repo \in Entry /\ seen \in Entry
  /\ agent \in Workers
  /\ sandbox \in Records /\ asks \in [Asks -> Fetches]
  /\ pod \in [created : Int, mark : Int]
  /\ seat \in Asks \cup {Nobody}

\* Nothing was pushed, or made, after now.
InOrder == Start <= now /\ \A v \in 1..Len(pushed) : pushed[v] <= now

\* After the pushes p, the version n holds all that was pushed before the second t.
Covers(p, n, t) == \A v \in 1..Len(p) : p[v] < t => v <= n

WholeDisk == disk.holds = "whole" /\ ~disk.marker

\* A stamp from before the Sandbox, or none: it claims nothing that was pushed since the start,
\* and the cache it speaks of may be gone.
Old(t) == ~(t >= Start)

\* A stamp that can be believed.
Honest(t) == t <= now /\ (~Old(t) => WholeDisk /\ Covers(pushed, disk.version, t))

\* An entry of this Sandbox's time that calls the clone present.
Claims(entry) == entry.present /\ ~Old(entry.last)

Stamps ==
  /\ Honest(repo.fetched) /\ Honest(seen.fetched) /\ Honest(agent.entry.fetched)
  /\ Honest(sandbox.entry.fetched)
  /\ \A a \in Asks : Honest(asks[a].asOf)

\* A clone under way, or cut short, has its marker; and what calls the clone present saw it whole.
Disk ==
  /\ disk.holds = "half" <=> disk.marker
  /\ \/ Claims(repo) \/ Claims(seen) \/ Claims(agent.entry) \/ Admitted
     \/ agent.at \in {"pinning", "fetching"}
     => WholeDisk
  /\ agent.at = "cloning" => disk.holds = "half"

\* git began after the attempt was stamped.
Worker ==
  /\ agent.stamp <= now
  /\ agent.at \in {"cloning", "fetching"} => Covers(pushed, agent.from, agent.stamp)

Gate == sandbox.gate = "fresh" => Covers(pushed, disk.version, sandbox.created)

Open(a) == asks[a].at \in {"marking", "waiting"}

\* Whoever shares a wait asked no later than the one who opened it; and what the remote had when
\* an ask was made was pushed by then.
Waiting ==
  /\ seat # Nobody => Open(seat) /\ asks[seat].by = seat
  /\ \A a \in Asks : Open(a) =>
       /\ asks[a].by \in Asks /\ Open(asks[a].by) /\ asks[asks[a].by].by = asks[a].by
       /\ asks[a].at = "marking" => asks[a].by = a
       /\ Start <= asks[a].t /\ asks[a].t <= asks[asks[a].by].t
       /\ asks[a].had <= Len(pushed)
       /\ \A v \in 1..asks[a].had : pushed[v] <= asks[a].t

Fetched == \A a \in Asks : asks[a].answer = "fetched" => WholeDisk /\ disk.version >= asks[a].had

IInv == Types /\ InOrder /\ Stamps /\ Disk /\ Worker /\ Gate /\ Waiting /\ Fetched

-----------------------------------------------------------------------------
(* Stamps stay true. *)

\* What every step does to the clock, the remote and the cache: a whole clone stays whole, and
\* holds no less.
Onward ==
  /\ now' \in Nat /\ now <= now' /\ disk'.version \in Nat
  /\ pushed' = pushed \/ pushed' = Append(pushed, now)
  /\ WholeDisk => WholeDisk' /\ disk.version <= disk'.version

\* A stamp that can be believed after the step.
StaysHonest(t) == t <= now' /\ (~Old(t) => WholeDisk' /\ Covers(pushed', disk'.version, t))

\* A version that holds what was pushed before a second that has come goes on to.
LEMMA CoversStays ==
  ASSUME Types, NEW n \in Nat, NEW m \in Nat, n <= m, NEW t \in Int, t <= now,
         Covers(pushed, n, t), pushed' = pushed \/ pushed' = Append(pushed, now)
  PROVE  Covers(pushed', m, t)
<1>1. pushed \in Seq(Nat) /\ now \in Nat
  BY DEF Types
<1>2. CASE pushed' = pushed
  BY <1>2, <1>1, SMTT(30) DEF Covers
<1>3. CASE pushed' = Append(pushed, now)
  <2>1. \A v \in 1..Len(pushed') : v \in 1..Len(pushed) \/ pushed'[v] = now
    BY <1>1, <1>3, SMTT(30)
  <2>2. \A v \in 1..Len(pushed) : pushed'[v] = pushed[v] /\ pushed[v] \in Nat
    BY <1>1, <1>3, SMTT(30)
  <2>3. Len(pushed') \in Nat
    BY <1>1, <1>3, SMTT(30)
  <2> QED
    BY <1>1, <2>1, <2>2, <2>3, SMTT(30) DEF Covers
<1> QED
  BY <1>2, <1>3

\* A stamp that can be believed stays so.
LEMMA HonestStays ==
  ASSUME Types, Onward, NEW t \in Int, Honest(t)
  PROVE  StaysHonest(t)
<1>1. now \in Nat /\ now' \in Nat /\ now <= now' /\ disk.version \in Nat /\ t <= now
  BY DEF Types, Disks, Onward, Honest
<1>2. t <= now'
  BY <1>1, SMTT(30)
<1>3. ~Old(t) => WholeDisk' /\ Covers(pushed', disk'.version, t)
  BY <1>1, CoversStays DEF Honest, Onward
<1> QED
  BY <1>2, <1>3 DEF StaysHonest

-----------------------------------------------------------------------------
(* The pieces of a step. *)

LEMMA IdleFields ==
  /\ NoEntry \in Entry /\ ~NoEntry.present /\ ~Claims(NoEntry) /\ NoEntry.fetched = NoTime
  /\ Idle \in Workers /\ Idle.at = "idle" /\ Idle.stamp = NoTime /\ Idle.entry = NoEntry
  /\ NoTime \in Int /\ NoTime < 0 /\ Old(NoTime)
BY SMTT(30) DEF NoEntry, Entry, Idle, Workers, NoTime, Old, Claims, Start

\* A worker that goes to its report carries the entry it was given.
LEMMA ReportingFields ==
  ASSUME agent \in Workers, NEW entry \in Entry, NEW error \in BOOLEAN, Reporting(entry, error)
  PROVE  /\ agent' \in Workers /\ agent'.at = "reporting" /\ agent'.entry = entry
         /\ agent'.stamp \in {agent.stamp, NoTime}
<1>1. CASE ~error /\ agent.asked > agent.stamp
  BY <1>1 DEF Reporting, Workers
<1>2. CASE ~(~error /\ agent.asked > agent.stamp)
  <2>1. agent' = [Idle EXCEPT !.at = "reporting", !.entry = entry, !.error = error]
    BY <1>2 DEF Reporting
  <2> QED
    BY <2>1, IdleFields DEF Workers
<1> QED
  BY <1>1, <1>2

LEMMA AttemptFields ==
  ASSUME agent \in Workers, NEW tried \in {"Probe", "Clone", "Fetch"}, NEW there \in BOOLEAN,
         NEW ok \in BOOLEAN, NEW fetched \in Int
  PROVE  /\ Attempt(tried, there, ok, fetched) \in Entry
         /\ Claims(Attempt(tried, there, ok, fetched)) => there
         /\ Attempt(tried, there, ok, fetched).fetched = fetched
BY DEF Attempt, Entry, Workers, Claims

\* A worker that begins has the time it begins at.
LEMMA StampedFields ==
  ASSUME Types, NEW state \in {"cloning", "probing", "pinning"}
  PROVE  /\ Stamped(state) \in Workers /\ Stamped(state).at = state /\ Stamped(state).stamp = now
         /\ Stamped(state).entry = NoEntry
<1>0. now \in Nat
  BY DEF Types
<1>1. now \in Int
  BY <1>0, SMTT(30)
<1>2. [Idle EXCEPT !.at = state] \in Workers
  BY IdleFields DEF Workers
<1>3. Stamped(state) = [[Idle EXCEPT !.at = state] EXCEPT !.stamp = now]
  BY DEF Stamped
<1>4. Stamped(state) \in Workers
  BY <1>1, <1>2, <1>3 DEF Workers
<1>5. Stamped(state).at = state /\ Stamped(state).stamp = now /\ Stamped(state).entry = NoEntry
  BY <1>3, IdleFields DEF Workers
<1> QED
  BY <1>4, <1>5

\* Asks, the gate and their stamps are what they were when a step leaves them alone.
LEMMA AsksStay ==
  ASSUME Types, Onward, Waiting, Fetched, Stamps, UNCHANGED git
  PROVE  Waiting' /\ Fetched' /\ \A a \in Asks : StaysHonest(asks'[a].asOf)
<1>1. \A a \in Asks : asks[a].asOf \in Int /\ asks[a].had \in Nat /\ asks'[a] = asks[a]
  BY DEF Types, Fetches, git
<1>2. \A a \in Asks : StaysHonest(asks'[a].asOf)
  BY <1>1, HonestStays DEF Stamps
<1>3. Fetched'
  <2>1. disk.version \in Nat /\ disk'.version \in Nat
    BY DEF Types, Disks, Onward
  <2> QED
    BY <1>1, <2>1, SMTT(30) DEF Fetched, Onward
<1>4. Waiting'
  <2>1. pushed \in Seq(Nat) /\ now \in Nat
    BY DEF Types
  <2>2. /\ Len(pushed) \in Nat /\ Len(pushed') \in Nat /\ Len(pushed) <= Len(pushed')
        /\ \A v \in 1..Len(pushed) : pushed'[v] = pushed[v]
    BY <2>1, SMTT(30) DEF Onward
  <2>3. \A a \in Asks : asks[a].had <= Len(pushed) =>
          /\ asks[a].had <= Len(pushed')
          /\ \A v \in 1..asks[a].had : pushed'[v] = pushed[v]
    BY <1>1, <2>2, SMTT(30)
  <2>4. seat' = seat /\ asks' = asks
    BY DEF git
  <2> QED
    BY <2>3, <2>4 DEF Waiting, Open
<1> QED
  BY <1>2, <1>3, <1>4

\* A step of the clock, the remote or the node.
LEMMA NodeMoves ==
  ASSUME IInv, Onward, UNCHANGED <<pod, sandbox, git>>,
         disk' \in Disks, repo' \in Entry, seen' \in Entry, agent' \in Workers,
         StaysHonest(repo'.fetched), StaysHonest(seen'.fetched), StaysHonest(agent'.entry.fetched),
         Disk', Worker', InOrder'
  PROVE  IInv'
<1>0. Types /\ now \in Nat /\ pushed \in Seq(Nat) /\ disk \in Disks /\ Start \in Int
  BY SMTT(30) DEF IInv, Types, Start
<1>1. /\ sandbox.entry.fetched \in Int /\ sandbox.created = Start
      /\ disk.version \in Nat
  BY <1>0 DEF Types, Records, Reports, Disks
<1>2. Types'
  <2>1. pushed' \in Seq(Nat) /\ now' \in Nat
    <3>1. (pushed' = pushed \/ pushed' = Append(pushed, now)) /\ now' \in Nat
      BY DEF Onward
    <3> QED
      BY <1>0, <3>1, SMTT(30)
  <2> QED
    BY <1>0, <2>1 DEF Types, git
<1>3. StaysHonest(sandbox'.entry.fetched)
  BY <1>0, <1>1, HonestStays DEF IInv, Stamps
<1>4. Waiting' /\ Fetched' /\ \A a \in Asks : StaysHonest(asks'[a].asOf)
  BY AsksStay DEF IInv
<1>5. Stamps'
  BY <1>3, <1>4 DEF Stamps, StaysHonest, Honest
<1>6. Gate'
  <2>1. sandbox.gate = "fresh" => WholeDisk
    BY DEF IInv, Disk, Admitted
  <2>2. sandbox.gate = "fresh" => Covers(pushed', disk'.version, sandbox.created)
    BY <1>0, <1>1, <2>1, CoversStays DEF IInv, Gate, Onward, InOrder
  <2> QED
    BY <2>2 DEF Gate
<1> QED
  BY <1>2, <1>4, <1>5, <1>6 DEF IInv

LEMMA TimeMoves ==
  ASSUME IInv, Tick \/ Push
  PROVE  IInv'
<1>1. /\ Types /\ now \in Nat /\ pushed \in Seq(Nat) /\ disk \in Disks
      /\ repo \in Entry /\ seen \in Entry /\ agent \in Workers
  BY DEF IInv, Types
<1>2. UNCHANGED <<disk, repo, seen, agent, pod, sandbox, git>>
  BY DEF Tick, Push, node
<1>3. /\ now' \in Nat /\ now <= now' /\ (pushed' = pushed \/ pushed' = Append(pushed, now))
  BY <1>1, SMTT(30) DEF Tick, Push
<1>4. Onward
  BY <1>1, <1>2, <1>3, SMTT(30) DEF Onward, WholeDisk, Disks
<1>5. /\ StaysHonest(repo'.fetched) /\ StaysHonest(seen'.fetched)
      /\ StaysHonest(agent'.entry.fetched)
  <2>1. repo.fetched \in Int /\ seen.fetched \in Int /\ agent.entry.fetched \in Int
    BY <1>1 DEF Entry, Workers
  <2> QED
    BY <1>1, <1>2, <1>4, <2>1, HonestStays DEF IInv, Stamps
<1>6. Disk'
  BY <1>2 DEF IInv, Disk, WholeDisk, Admitted
<1>7. Worker'
  <2>1. agent.stamp \in Int /\ agent.from \in Nat /\ agent.stamp <= now
    BY <1>1 DEF Workers, IInv, Worker
  <2>2. agent.at \in {"cloning", "fetching"} => Covers(pushed', agent.from, agent.stamp)
    BY <1>1, <1>3, <2>1, CoversStays, SMTT(30) DEF IInv, Worker
  <2> QED
    BY <1>1, <1>2, <1>3, <2>1, <2>2, SMTT(30) DEF Worker
<1>8. InOrder'
  <2>1. Start \in Int /\ Len(pushed) \in Nat
    BY <1>1, SMTT(30) DEF Start
  <2>2. \A v \in 1..Len(pushed') :
          (v \in 1..Len(pushed) /\ pushed'[v] = pushed[v]) \/ pushed'[v] = now
    BY <1>1, <1>3, SMTT(30)
  <2>3. \A v \in 1..Len(pushed) : pushed[v] \in Nat
    BY <1>1, SMTT(30)
  <2> QED
    BY <1>1, <1>3, <2>1, <2>2, <2>3, SMTT(30) DEF IInv, InOrder
<1> QED
  BY <1>1, <1>2, <1>4, <1>5, <1>6, <1>7, <1>8, NodeMoves

-----------------------------------------------------------------------------
(* The node. *)

\* A step of the worker, its copy or its report: what it leaves on the disk is whole if it was.
LEMMA WorkerMoves ==
  ASSUME IInv, UNCHANGED <<now, pushed, pod, sandbox, git>>,
         disk' \in Disks, WholeDisk => WholeDisk' /\ disk.version <= disk'.version,
         disk'.holds = "half" <=> disk'.marker,
         repo' = repo \/ repo' = agent.entry, seen' = seen \/ seen' = repo,
         agent' \in Workers, agent'.stamp <= now,
         StaysHonest(agent'.entry.fetched),
         Claims(agent'.entry) \/ agent'.at \in {"pinning", "fetching"} => WholeDisk',
         agent'.at = "cloning" => disk'.holds = "half",
         agent'.at \in {"cloning", "fetching"} => Covers(pushed, agent'.from, agent'.stamp)
  PROVE  IInv'
<1>1. Types /\ now \in Nat /\ repo \in Entry /\ seen \in Entry /\ agent \in Workers
  BY DEF IInv, Types
<1>2. agent.entry \in Entry /\ repo.fetched \in Int /\ seen.fetched \in Int
      /\ agent.entry.fetched \in Int
  BY <1>1 DEF Workers, Entry
<1>3. Onward
  <2>1. disk'.version \in Nat
    BY DEF Disks
  <2> QED
    BY <1>1, <2>1, SMTT(30) DEF Onward
<1>4. /\ StaysHonest(repo.fetched) /\ StaysHonest(seen.fetched)
      /\ StaysHonest(agent.entry.fetched)
  BY <1>1, <1>2, <1>3, HonestStays DEF IInv, Stamps
<1>5. StaysHonest(repo'.fetched) /\ StaysHonest(seen'.fetched) /\ repo' \in Entry /\ seen' \in Entry
  BY <1>1, <1>2, <1>4
<1>6. Disk'
  BY DEF IInv, Disk, Admitted
<1>7. Worker' /\ InOrder'
  BY DEF IInv, Worker, InOrder
<1> QED
  BY <1>3, <1>5, <1>6, <1>7, NodeMoves

\* The worker begins.
LEMMA WorkerBegins ==
  ASSUME IInv, Clone \/ Probe \/ Refresh
  PROVE  IInv'
<1>1. Types /\ now \in Nat /\ disk \in Disks /\ seen \in Entry
      /\ pushed \in Seq(Nat)
  BY DEF IInv, Types
<1>2. /\ UNCHANGED <<now, pushed, pod, sandbox, git>> /\ UNCHANGED <<repo, seen>>
  BY DEF Clone, Probe, Refresh, Begin, world
<1>3. Emptied \in Disks /\ ~Emptied.marker /\ Emptied.holds = "none" /\ Emptied.version = 0
  BY DEF Emptied, Disks
<1>4. /\ discardHalfClone \in Disks /\ discardHalfClone.holds # "half" /\ ~discardHalfClone.marker
      /\ WholeDisk => discardHalfClone = disk
  BY <1>1, <1>3 DEF discardHalfClone, IInv, Disk, WholeDisk, Disks
<1>5. StaysHonest(NoEntry.fetched)
  BY <1>1, <1>2, IdleFields, SMTT(30) DEF StaysHonest
<1>6. CASE Clone
  <2> DEFINE half == [holds |-> "half", version |-> 0, marker |-> TRUE]
             worker == [Stamped("cloning") EXCEPT !.from = Remote]
  <2>1. disk' = half /\ agent' = worker /\ discardHalfClone.holds = "none"
    BY <1>6 DEF Clone, Begin, present
  <2>2. half \in Disks /\ half.holds = "half" /\ half.marker = TRUE
    BY DEF Disks
  <2>3. ~WholeDisk
    BY <1>4, <2>1 DEF WholeDisk
  <2>4. Remote \in Nat
    BY <1>1, SMTT(30) DEF Remote
  <2>5. /\ worker \in Workers /\ worker.at = "cloning" /\ worker.stamp = now
        /\ worker.from = Remote /\ worker.entry = NoEntry
    BY <1>1, <2>4, StampedFields DEF Workers
  <2>6. Covers(pushed, Remote, now)
    BY <1>1, SMTT(30) DEF Covers, Remote
  <2> HIDE DEF half, worker
  <2> QED
    BY <1>1, <1>2, <1>5, <2>1, <2>2, <2>3, <2>5, <2>6, IdleFields, WorkerMoves, SMTT(30)
<1>7. CASE Probe
  <2>1. disk' = discardHalfClone /\ agent' \in {Idle, Stamped("probing")}
    BY <1>7 DEF Probe, Begin
  <2>2. /\ agent' \in Workers /\ agent'.at \in {"idle", "probing"} /\ agent'.stamp <= now
        /\ agent'.entry = NoEntry
    BY <1>1, <2>1, IdleFields, StampedFields, SMTT(30)
  <2>3. WholeDisk => WholeDisk' /\ disk.version <= disk'.version
    BY <1>1, <1>4, <2>1, SMTT(30) DEF WholeDisk, Disks
  <2> QED
    BY <1>1, <1>2, <1>4, <1>5, <2>1, <2>2, <2>3, IdleFields, WorkerMoves
<1>8. CASE Refresh
  <2> DEFINE worker == [Stamped("pinning") EXCEPT !.asked = Asked, !.entry = seen]
  <2>1. disk' = discardHalfClone /\ agent' = worker /\ discardHalfClone.holds # "none"
    BY <1>8 DEF Refresh, Begin, present
  <2>2. Asked \in Int
    BY <1>1, SMTT(30) DEF Types, Asked, Later, AskedAt, NoTime
  <2>3. /\ worker \in Workers /\ worker.at = "pinning" /\ worker.stamp = now
        /\ worker.entry = seen
    BY <1>1, <2>2, StampedFields DEF Workers
  <2>4. WholeDisk' /\ (WholeDisk => disk.version <= disk'.version)
    BY <1>1, <1>4, <2>1, SMTT(30) DEF WholeDisk, Disks
  <2>5. StaysHonest(seen.fetched)
    <3>1. seen.fetched \in Int /\ disk'.version \in Nat
      BY <1>1, <1>4, <2>1 DEF Entry, Disks
    <3>2. Onward
      BY <1>1, <1>2, <2>4, <3>1, SMTT(30) DEF Onward
    <3> QED
      BY <1>1, <3>1, <3>2, HonestStays DEF IInv, Stamps
  <2> HIDE DEF worker
  <2> QED
    BY <1>1, <1>2, <1>4, <2>1, <2>3, <2>4, <2>5, WorkerMoves, SMTT(30)
<1> QED
  BY <1>6, <1>7, <1>8

\* The values that the node's steps compare.
LEMMA NodeValues ==
  ASSUME IInv
  PROVE  /\ agent.entry \in Entry /\ agent.entry.fetched \in Int /\ agent.stamp \in Int
         /\ agent.from \in Nat /\ disk.version \in Nat /\ Remote \in Nat
         /\ agent.stamp <= now /\ NoTime \in Int /\ NoTime <= now
<1>1. now \in Nat /\ disk \in Disks /\ agent \in Workers /\ pushed \in Seq(Nat)
  BY DEF IInv, Types
<1>2. /\ agent.entry \in Entry /\ agent.stamp \in Int /\ agent.from \in Nat
      /\ disk.version \in Nat
  BY <1>1 DEF Workers, Disks
<1>3. agent.entry.fetched \in Int
  BY <1>2 DEF Entry
<1>4. agent.stamp <= now
  BY DEF IInv, Worker
<1>5. Remote \in Nat /\ NoTime \in Int /\ NoTime <= now
  BY <1>1, IdleFields, SMTT(30) DEF Remote
<1> QED
  BY <1>2, <1>3, <1>4, <1>5

\* git ends, well or not.
LEMMA GitEnds ==
  ASSUME IInv, CloneEnds \/ CloneFails \/ ProbeEnds \/ PinFails \/ FetchEnds \/ FetchFails
  PROVE  IInv'
<1>1. /\ Types /\ now \in Nat /\ disk \in Disks /\ agent \in Workers /\ pushed \in Seq(Nat)
  BY DEF IInv, Types
<1>2. UNCHANGED <<now, pushed, pod, sandbox, git, repo, seen>>
  BY DEF CloneEnds, CloneFails, ProbeEnds, PinFails, FetchEnds, FetchFails, world
<1>3. /\ agent.entry \in Entry /\ agent.entry.fetched \in Int /\ agent.stamp \in Int
      /\ agent.from \in Nat /\ disk.version \in Nat /\ Remote \in Nat
      /\ agent.stamp <= now /\ NoTime \in Int /\ NoTime <= now
  BY NodeValues
<1>4. \A t \in Int : t = NoTime => StaysHonest(t)
  BY <1>2, <1>3, IdleFields DEF StaysHonest
<1>5. ASSUME NEW tried \in {"Probe", "Clone", "Fetch"}, NEW there \in BOOLEAN,
             NEW ok \in BOOLEAN, NEW fetched \in Int, NEW error \in BOOLEAN,
             Reporting(Attempt(tried, there, ok, fetched), error),
             StaysHonest(fetched), there => WholeDisk',
             disk' \in Disks, WholeDisk => WholeDisk' /\ disk.version <= disk'.version,
             disk'.holds = "half" <=> disk'.marker
      PROVE  IInv'
  <2>1. /\ agent' \in Workers /\ agent'.at = "reporting" /\ (Claims(agent'.entry) => there)
        /\ agent'.entry.fetched = fetched /\ agent'.stamp \in {agent.stamp, NoTime}
    BY <1>1, <1>5, AttemptFields, ReportingFields, SMTT(30)
  <2> QED
    BY <1>2, <1>3, <1>5, <2>1, WorkerMoves
<1>6. CASE CloneEnds
  <2>1. PICK version \in agent.from..Remote : disk' = Whole(version)
    BY <1>6 DEF CloneEnds
  <2>2. version \in Nat /\ agent.from <= version
    BY <1>3, <2>1, SMTT(30)
  <2>3. disk' \in Disks /\ WholeDisk' /\ disk'.holds # "half" /\ ~disk'.marker
        /\ disk'.version = version
    BY <2>1, <2>2 DEF Whole, Disks, WholeDisk
  <2>4. ~WholeDisk
    BY <1>6 DEF CloneEnds, IInv, Disk, WholeDisk
  <2>5. StaysHonest(agent.stamp)
    <3>1. Covers(pushed, agent.from, agent.stamp)
      BY <1>6 DEF CloneEnds, IInv, Worker
    <3>2. Covers(pushed', disk'.version, agent.stamp)
      BY <1>1, <1>2, <1>3, <2>2, <2>3, <3>1, CoversStays
    <3> QED
      BY <1>2, <1>3, <2>3, <3>2 DEF StaysHonest
  <2>6. Reporting(Attempt("Clone", TRUE, TRUE, agent.stamp), FALSE)
    BY <1>6 DEF CloneEnds
  <2> QED
    BY <1>3, <1>5, <2>3, <2>4, <2>5, <2>6
<1>7. CASE CloneFails
  <2>1. disk' = Emptied /\ ~WholeDisk
    BY <1>7 DEF CloneFails, IInv, Disk, WholeDisk
  <2>2. Emptied \in Disks /\ Emptied.holds # "half" /\ ~Emptied.marker
    BY DEF Emptied, Disks
  <2>3. Reporting(Attempt("Clone", FALSE, FALSE, NoTime), TRUE)
    BY <1>7 DEF CloneFails
  <2> QED
    BY <1>3, <1>4, <1>5, <2>1, <2>2, <2>3
<1>8. CASE ProbeEnds \/ PinFails \/ FetchFails
  <2>1. disk' = disk /\ (WholeDisk' <=> WholeDisk)
    BY <1>8 DEF ProbeEnds, PinFails, FetchFails, WholeDisk
  <2>2. Onward
    BY <1>1, <1>2, <1>3, <2>1, SMTT(30) DEF Onward
  <2>3. StaysHonest(agent.entry.fetched)
    BY <1>1, <1>3, <2>2, HonestStays DEF IInv, Stamps
  <2>4. (disk.holds = "half" <=> disk.marker) /\ disk.version <= disk.version
    BY <1>3, SMTT(30) DEF IInv, Disk
  <2>5. CASE ProbeEnds
    <3>1. \E ok, error \in BOOLEAN : Reporting(Attempt("Probe", FALSE, ok, NoTime), error)
      BY <2>5 DEF ProbeEnds
    <3> QED
      BY <1>1, <1>3, <1>4, <1>5, <2>1, <2>4, <3>1
  <2>6. CASE PinFails \/ FetchFails
    <3>1. \E error \in BOOLEAN :
            Reporting(Attempt("Fetch", TRUE, FALSE, agent.entry.fetched), error)
      BY <2>6 DEF PinFails, FetchFails
    <3>2. WholeDisk
      BY <2>6 DEF PinFails, FetchFails, IInv, Disk
    <3> QED
      BY <1>1, <1>3, <1>5, <2>1, <2>3, <2>4, <3>1, <3>2
  <2> QED
    BY <1>8, <2>5, <2>6
<1>9. CASE FetchEnds
  <2>1. PICK version \in Later(agent.from, disk.version)..Remote :
          disk' = [disk EXCEPT !.version = version]
    BY <1>9 DEF FetchEnds
  <2>2. version \in Nat /\ agent.from <= version /\ disk.version <= version
    BY <1>3, <2>1, SMTT(30) DEF Later
  <2>3. WholeDisk
    BY <1>9 DEF FetchEnds, IInv, Disk
  <2>4. disk' \in Disks /\ WholeDisk' /\ disk'.holds # "half" /\ ~disk'.marker
        /\ disk'.version = version
    BY <1>1, <2>1, <2>2, <2>3 DEF Disks, WholeDisk
  <2>5. StaysHonest(agent.stamp)
    <3>1. Covers(pushed, agent.from, agent.stamp)
      BY <1>9 DEF FetchEnds, IInv, Worker
    <3>2. Covers(pushed', disk'.version, agent.stamp)
      BY <1>1, <1>2, <1>3, <2>2, <2>4, <3>1, CoversStays
    <3> QED
      BY <1>2, <1>3, <2>4, <3>2 DEF StaysHonest
  <2>6. Reporting(Attempt("Fetch", TRUE, TRUE, agent.stamp), FALSE)
    BY <1>9 DEF FetchEnds, FetchedAt
  <2> QED
    BY <1>3, <1>5, <2>2, <2>3, <2>4, <2>5, <2>6
<1> QED
  BY <1>6, <1>7, <1>8, <1>9

\* The node's other steps leave the cache as it is.
LEMMA NodeGoesOn ==
  ASSUME IInv, \/ NothingToDo \/ AwaitSecond \/ Fetch \/ Report \/ ReportConflicts
               \/ Woken \/ SeesRepo \/ AgentRestarts
  PROVE  IInv'
<1>1. /\ Types /\ now \in Nat /\ disk \in Disks /\ agent \in Workers /\ pushed \in Seq(Nat)
      /\ repo \in Entry /\ seen \in Entry
  BY DEF IInv, Types
<1>2. UNCHANGED <<now, pushed, pod, sandbox, git, disk>>
  BY DEF NothingToDo, AwaitSecond, Fetch, Report, ReportConflicts, Woken, SeesRepo,
         AgentRestarts, world
<1>3. (repo' = repo \/ repo' = agent.entry) /\ (seen' = seen \/ seen' = repo)
  BY DEF NothingToDo, AwaitSecond, Fetch, Report, ReportConflicts, Woken, SeesRepo,
         AgentRestarts
<1>4. /\ agent.entry.fetched \in Int /\ agent.stamp \in Int /\ agent.stamp <= now
      /\ disk.version \in Nat /\ Remote \in Nat /\ NoTime \in Int /\ NoTime <= now
  BY NodeValues
<1>5. /\ WholeDisk => WholeDisk' /\ disk.version <= disk'.version
      /\ disk'.holds = "half" <=> disk'.marker
      /\ WholeDisk' <=> WholeDisk
  BY <1>2, <1>4, SMTT(30) DEF WholeDisk, IInv, Disk
<1>6. StaysHonest(agent.entry.fetched) /\ StaysHonest(NoTime)
  <2>1. Onward
    BY <1>1, <1>2, <1>4, <1>5, SMTT(30) DEF Onward
  <2>2. StaysHonest(agent.entry.fetched)
    BY <1>1, <1>4, <2>1, HonestStays DEF IInv, Stamps
  <2>3. StaysHonest(NoTime)
    BY <1>2, <1>4, IdleFields DEF StaysHonest
  <2> QED
    BY <2>2, <2>3
<1>7. CASE agent' = Idle
  BY <1>1, <1>2, <1>3, <1>4, <1>5, <1>6, <1>7, IdleFields, WorkerMoves
<1>8. CASE agent' = agent
  BY <1>1, <1>2, <1>3, <1>4, <1>5, <1>6, <1>8, WorkerMoves DEF IInv, Disk, Worker
<1>9. CASE Fetch
  <2>1. agent' = [agent EXCEPT !.at = "fetching", !.from = Remote] /\ agent.at = "pinning"
    BY <1>9 DEF Fetch
  <2>2. /\ agent' \in Workers /\ agent'.at = "fetching" /\ agent'.from = Remote
        /\ agent'.stamp = agent.stamp /\ agent'.entry = agent.entry
    BY <1>1, <1>4, <2>1 DEF Workers
  <2>3. Covers(pushed, Remote, agent.stamp)
    BY <1>1, SMTT(30) DEF Covers, Remote
  <2>4. WholeDisk
    BY <2>1 DEF IInv, Disk
  <2> QED
    BY <1>1, <1>2, <1>3, <1>4, <1>5, <1>6, <2>2, <2>3, <2>4, WorkerMoves
<1> QED
  BY <1>7, <1>8, <1>9 DEF NothingToDo, AwaitSecond, Report, ReportConflicts, Woken,
                          SeesRepo, AgentRestarts

-----------------------------------------------------------------------------
(* The operator and the asks. *)

\* A step that leaves the clock, the remote and the node alone.
LEMMA ElsewhereMoves ==
  ASSUME IInv, UNCHANGED <<now, pushed, disk, repo, seen, agent>>,
         pod' \in [created : Int, mark : Int], sandbox' \in Records,
         asks' \in [Asks -> Fetches], seat' \in Asks \cup {Nobody},
         sandbox'.entry.fetched \in {sandbox.entry.fetched, repo.fetched},
         \A a \in Asks : asks'[a].asOf \in {asks[a].asOf, NoTime, sandbox.entry.fetched},
         sandbox'.gate \in {"fresh", "stale"} => WholeDisk,
         Gate', Waiting', Fetched'
  PROVE  IInv'
<1>1. Types' /\ InOrder' /\ Worker'
  BY DEF IInv, Types, InOrder, Worker
<1>2. Disk'
  BY DEF IInv, Disk, WholeDisk, Admitted
<1>3. \A t \in Int : Honest(t) => StaysHonest(t)
  BY DEF Honest, StaysHonest, WholeDisk
<1>4. StaysHonest(NoTime)
  BY NodeValues, IdleFields DEF StaysHonest
<1>5. /\ repo.fetched \in Int /\ seen.fetched \in Int /\ agent.entry.fetched \in Int
      /\ sandbox.entry.fetched \in Int /\ \A a \in Asks : asks[a].asOf \in Int
  BY NodeValues DEF IInv, Types, Entry, Records, Reports, Fetches
<1>6. /\ StaysHonest(repo.fetched) /\ StaysHonest(seen.fetched)
      /\ StaysHonest(agent.entry.fetched) /\ StaysHonest(sandbox.entry.fetched)
      /\ \A a \in Asks : StaysHonest(asks[a].asOf)
  BY <1>3, <1>5 DEF IInv, Stamps
<1>7. Stamps'
  <2>1. /\ StaysHonest(repo'.fetched) /\ StaysHonest(seen'.fetched)
        /\ StaysHonest(agent'.entry.fetched) /\ StaysHonest(sandbox'.entry.fetched)
        /\ \A a \in Asks : StaysHonest(asks'[a].asOf)
    BY <1>4, <1>6
  <2> QED
    BY <2>1 DEF Stamps, Honest, StaysHonest
<1> QED
  BY <1>1, <1>2, <1>7 DEF IInv

LEMMA OperatorMoves ==
  ASSUME IInv, StartPod \/ OperatorReconcile
  PROVE  IInv'
<1>1. /\ Types /\ now \in Nat /\ repo \in Entry /\ sandbox \in Records
      /\ pod \in [created : Int, mark : Int] /\ asks \in [Asks -> Fetches]
      /\ seat \in Asks \cup {Nobody} /\ disk \in Disks /\ NoTime \in Int
  BY NodeValues DEF IInv, Types
<1>2. UNCHANGED <<now, pushed, disk, repo, seen, agent, asks, seat>>
  BY DEF StartPod, OperatorReconcile, git
<1>3. Waiting' /\ Fetched'
  BY <1>2 DEF IInv, Waiting, Open, Fetched, WholeDisk
<1>4. CASE StartPod
  <2>1. sandbox' = sandbox /\ pod' = [created |-> now, mark |-> NoTime]
    BY <1>4 DEF StartPod, PodChanges
  <2>2. pod' \in [created : Int, mark : Int]
    BY <1>1, <2>1, SMTT(30)
  <2>3. Gate' /\ (sandbox'.gate \in {"fresh", "stale"} => WholeDisk)
    BY <1>2, <2>1 DEF IInv, Gate, Disk, Admitted
  <2> QED
    BY <1>1, <1>2, <1>3, <2>1, <2>2, <2>3, ElsewhereMoves
<1>5. CASE OperatorReconcile
  <2> DEFINE gate == IF Admitted THEN sandbox.gate ELSE reposReadiness
  <2>1. /\ pod' = [pod EXCEPT !.mark = sandbox.mark]
        /\ sandbox' = [sandbox EXCEPT !.entry = repoStatuses, !.gate = gate]
    BY <1>5 DEF OperatorReconcile, reconcileAsks, PodChanges, reconcileStatus
  <2>2. /\ sandbox.mark \in Int /\ sandbox.created \in Int /\ repo.fetched \in Int
        /\ sandbox.gate \in {"pending", "failed", "fresh", "stale"} /\ repo.present \in BOOLEAN
        /\ repo.last \in Int
    <3>1. sandbox.mark \in Int /\ sandbox.created = Start
          /\ sandbox.gate \in {"pending", "failed", "fresh", "stale"}
      BY <1>1 DEF Records
    <3>2. repo.fetched \in Int /\ repo.present \in BOOLEAN /\ repo.last \in Int
      BY <1>1 DEF Entry
    <3> QED
      BY <3>1, <3>2, SMTT(30) DEF Start
  <2>3. pod' \in [created : Int, mark : Int]
    BY <1>1, <2>1, <2>2
  <2>4. repoStatuses \in Reports /\ repoStatuses.fetched = repo.fetched
    <3>1. askedFor \in Int
      BY <1>1, <2>2, SMTT(30) DEF askedFor, Later, AskedAt
    <3> QED
      BY <2>2, <3>1 DEF repoStatuses, Reports
  <2>5. reposReadiness \in {"pending", "failed", "fresh", "stale"}
    BY DEF reposReadiness
  <2>6. /\ reposReadiness = "fresh" => repo.fetched >= sandbox.created
        /\ reposReadiness = "stale" => repo.present /\ repo.last >= sandbox.created
    BY DEF reposReadiness
  <2>7. gate \in {"pending", "failed", "fresh", "stale"}
    BY <2>2, <2>5
  <2>8. gate \in {"fresh", "stale"} => WholeDisk
    <3>1. sandbox.created = Start
      BY <1>1 DEF Records
    <3>2. reposReadiness = "fresh" => WholeDisk
      BY <2>6, <3>1 DEF IInv, Stamps, Honest, Old
    <3>3. reposReadiness = "stale" => WholeDisk
      BY <2>6, <3>1 DEF IInv, Disk, Claims, Old
    <3> QED
      BY <3>2, <3>3 DEF IInv, Disk, Admitted
  <2>9. gate = "fresh" => Covers(pushed, disk.version, sandbox.created)
    <3>1. CASE gate = sandbox.gate
      BY <3>1 DEF IInv, Gate
    <3>2. CASE gate = reposReadiness
      <4>1. gate = "fresh" => Honest(repo.fetched) /\ repo.fetched >= sandbox.created
        BY <2>6, <3>2 DEF IInv, Stamps
      <4>2. sandbox.created = Start
        BY <1>1 DEF Records
      <4>3. gate = "fresh" => Covers(pushed, disk.version, repo.fetched)
        BY <4>1, <4>2 DEF Honest, Old
      <4>4. \A v \in 1..Len(pushed) : pushed[v] \in Nat
        BY <1>1, SMTT(30) DEF Types
      <4> QED
        BY <2>2, <4>1, <4>3, <4>4, SMTT(30) DEF Covers
    <3> QED
      BY <3>1, <3>2
  <2> HIDE DEF gate
  <2>10. /\ sandbox' \in Records /\ sandbox'.gate = gate /\ sandbox'.created = sandbox.created
         /\ sandbox'.entry = repoStatuses
    BY <1>1, <2>1, <2>4, <2>7 DEF Records
  <2>11. Gate'
    BY <1>2, <2>9, <2>10 DEF Gate
  <2> QED
    BY <1>1, <1>2, <1>3, <2>3, <2>4, <2>8, <2>10, <2>11, ElsewhereMoves
<1> QED
  BY <1>4, <1>5

\* The fields of an ask's records.
LEMMA AskingFields ==
  ASSUME IInv, NEW at \in {"marking", "waiting"}, NEW by \in Nat
  PROVE  /\ Asking(at, by).at = at /\ Asking(at, by).t = now /\ Asking(at, by).by = by
         /\ Asking(at, by).had = Remote /\ Asking(at, by).answer = ""
         /\ Asking(at, by).asOf = NoTime
         /\ Asking(at, by) \in Fetches
<1>0. now \in Nat
  BY DEF IInv, Types
<1>1. Remote \in Nat /\ NoTime \in Int
  BY NodeValues
<1>2. now \in Int
  BY <1>0, SMTT(30)
<1> QED
  BY <1>1, <1>2 DEF Asking, Unasked, Fetches

LEMMA AnsweredFields ==
  ASSUME NEW ask, ask.had \in Nat, NEW says \in {"fetched", "stale"}, NEW asOf \in Int
  PROVE  /\ Answered(ask, says, asOf) \in Fetches
         /\ Answered(ask, says, asOf).at = "answered" /\ Answered(ask, says, asOf).had = ask.had
         /\ Answered(ask, says, asOf).answer = says /\ Answered(ask, says, asOf).asOf = asOf
<1>1. NoTime \in Int /\ Nobody \in Nat
  BY SMTT(30) DEF NoTime, Nobody
<1> QED
  BY <1>1 DEF Answered, Unasked, Fetches

\* The end of a wait answers everyone who shares it, and leaves the others as they are.
LEMMA SettleKeeps ==
  ASSUME IInv, NEW a \in Asks, Open(a), asks[a].by = a, NEW says \in {"fetched", "stale"},
         NEW asOf \in {NoTime, sandbox.entry.fetched}, Settle(a, says, asOf),
         UNCHANGED <<now, pushed, disk>>,
         says = "fetched" => WholeDisk /\ \A b \in Asks : Open(b) /\ asks[b].by = a =>
                                                           asks[b].had <= disk.version
  PROVE  /\ asks' \in [Asks -> Fetches] /\ seat' \in Asks \cup {Nobody} /\ Waiting' /\ Fetched'
         /\ \A b \in Asks : asks'[b].asOf \in {asks[b].asOf, NoTime, sandbox.entry.fetched}
<1>1. /\ asks \in [Asks -> Fetches] /\ seat \in Asks \cup {Nobody} /\ sandbox \in Records
      /\ disk.version \in Nat /\ NoTime \in Int
  BY NodeValues DEF IInv, Types
<1>2. asOf \in Int /\ \A b \in Asks : asks[b].had \in Nat /\ asks[b] \in Fetches
  BY <1>1 DEF Records, Reports, Fetches
<1>3. /\ \A b \in Asks : asks'[b] = IF asks[b].by = a /\ Open(b)
                                     THEN Answered(asks[b], says, asOf) ELSE asks[b]
      /\ asks' = [b \in Asks |-> asks'[b]]
      /\ seat' = IF seat = a THEN Nobody ELSE seat
  BY DEF Settle, Open
<1>4. \A b \in Asks : asks[b].by = a /\ Open(b) =>
        /\ asks'[b] \in Fetches /\ asks'[b].at = "answered" /\ asks'[b].had = asks[b].had
        /\ asks'[b].answer = says /\ asks'[b].asOf = asOf
  BY <1>2, <1>3, AnsweredFields, SMTT(30)
<1>5. asks' \in [Asks -> Fetches] /\ seat' \in Asks \cup {Nobody}
  BY <1>1, <1>2, <1>3, <1>4
<1>6. \A b \in Asks : asks'[b].asOf \in {asks[b].asOf, NoTime, sandbox.entry.fetched}
  BY <1>3, <1>4
<1>7. Fetched'
  <2>1. Fetched /\ (WholeDisk' <=> WholeDisk)
    BY DEF IInv, WholeDisk
  <2> QED
    BY <1>1, <1>2, <1>3, <1>4, <2>1 DEF Fetched
<1>8. Waiting'
  <2>1. \A b \in Asks : Open(b)' => Open(b) /\ asks[b].by # a /\ asks'[b] = asks[b]
    BY <1>3, <1>4 DEF Open
  <2>2. \A b \in Asks : Open(b) /\ asks[b].by # a => Open(b)' /\ asks'[b] = asks[b]
    BY <1>3 DEF Open
  <2>3. Waiting
    BY DEF IInv
  <2>4. seat' # Nobody => seat' = seat /\ seat # a /\ seat \in Asks
    BY <1>1, <1>3
  <2>5. \A b \in Asks : Open(b)' =>
          asks[b].by \in Asks /\ Open(asks[b].by)' /\ asks'[asks[b].by] = asks[asks[b].by]
    BY <2>1, <2>2, <2>3 DEF Waiting
  <2>6. seat' # Nobody => Open(seat)' /\ asks'[seat'].by = seat'
    <3>1. seat' # Nobody => Open(seat) /\ asks[seat].by = seat
      BY <2>3, <2>4 DEF Waiting
    <3> QED
      BY <2>2, <2>4, <3>1
  <2>7. ASSUME NEW b \in Asks, Open(b)'
        PROVE  /\ asks'[b].by \in Asks /\ Open(asks[b].by)'
               /\ asks'[asks'[b].by].by = asks'[b].by
               /\ asks'[b].at = "marking" => asks'[b].by = b
               /\ Start <= asks'[b].t /\ asks'[b].t <= asks'[asks'[b].by].t
               /\ asks'[b].had <= Len(pushed')
               /\ \A v \in 1..asks'[b].had : pushed'[v] <= asks'[b].t
    BY <2>1, <2>3, <2>5, <2>7, SMTT(30) DEF Waiting
  <2> QED
    BY <2>1, <2>4, <2>6, <2>7 DEF Waiting, Open
<1> QED
  BY <1>5, <1>6, <1>7, <1>8

\* A verdict of fetched is backed by the cache, for everyone who shares the wait.
LEMMA FetchedVerdict ==
  ASSUME IInv, NEW a \in Asks, Open(a), asks[a].by = a, verdict(a) = "fetched"
  PROVE  WholeDisk /\ \A b \in Asks : Open(b) /\ asks[b].by = a => asks[b].had <= disk.version
<1>1. /\ sandbox.entry.fetched \in Int /\ sandbox.entry.asked \in Int /\ disk.version \in Nat
      /\ \A b \in Asks : asks[b].t \in Int /\ asks[b].had \in Nat
      /\ pushed \in Seq(Nat)
  BY NodeValues DEF IInv, Types, Records, Reports, Fetches
<1>2. /\ sandbox.entry.asked >= AskedAt(asks[a].t)
      /\ sandbox.entry.fetched >= sandbox.entry.asked
  <2>1. AskedAt(asks[a].t) \in Int
    BY <1>1, SMTT(30) DEF AskedAt, NoTime
  <2>2. /\ ~(sandbox.entry.asked < AskedAt(asks[a].t))
        /\ sandbox.entry.fetched >= sandbox.entry.asked
    BY DEF verdict
  <2> QED
    BY <1>1, <2>1, <2>2, SMTT(30)
<1>3. asks[a].t >= Start
  BY DEF IInv, Waiting
<1>4. sandbox.entry.fetched > asks[a].t /\ ~Old(sandbox.entry.fetched)
  BY <1>1, <1>2, <1>3, SMTT(30) DEF AskedAt, Start, NoTime, Old
<1>5. WholeDisk /\ Covers(pushed, disk.version, sandbox.entry.fetched)
  BY <1>4 DEF IInv, Stamps, Honest
<1>6. ASSUME NEW b \in Asks, Open(b), asks[b].by = a PROVE asks[b].had <= disk.version
  <2>1. /\ asks[b].t <= asks[a].t /\ asks[b].had <= Len(pushed)
        /\ \A v \in 1..asks[b].had : pushed[v] <= asks[b].t
    BY <1>6 DEF IInv, Waiting
  <2>2. CASE asks[b].had = 0
    BY <1>1, <2>2, SMTT(30)
  <2>3. CASE asks[b].had # 0
    <3>1. asks[b].had \in 1..asks[b].had /\ asks[b].had \in 1..Len(pushed)
          /\ pushed[asks[b].had] \in Nat
      BY <1>1, <2>1, <2>3, SMTT(30)
    <3>2. pushed[asks[b].had] < sandbox.entry.fetched
      BY <1>1, <1>4, <2>1, <3>1, SMTT(30)
    <3> QED
      BY <1>5, <3>1, <3>2 DEF Covers
  <2> QED
    BY <2>2, <2>3
<1> QED
  BY <1>5, <1>6

\* An ask is made: it shares the wait of one made no earlier, or opens its own.
LEMMA AskMade ==
  ASSUME IInv, NEW a \in Asks, JoinAsk(a) \/ OpenAsk(a) \/ AskPastCap(a)
  PROVE  IInv'
<1>0. /\ Types /\ asks \in [Asks -> Fetches] /\ seat \in Asks \cup {Nobody} /\ sandbox \in Records
      /\ pod \in [created : Int, mark : Int] /\ now \in Nat /\ pushed \in Seq(Nat)
  BY DEF IInv, Types
<1>1. /\ UNCHANGED <<now, pushed, disk, repo, seen, agent, pod, sandbox>>
      /\ ~Open(a) /\ Waiting /\ Fetched
  BY DEF JoinAsk, OpenAsk, AskPastCap, Ask, rest, node, Open, IInv
<1>2. /\ Remote \in Nat /\ sandbox.entry.fetched \in Int /\ a \in Nat /\ Nobody \notin Asks
      /\ \A b \in Asks : asks[b].t \in Int /\ asks[b].had \in Nat
  <2>1. Remote \in Nat
    BY NodeValues
  <2>2. sandbox.entry.fetched \in Int /\ \A b \in Asks : asks[b].t \in Int /\ asks[b].had \in Nat
    BY <1>0 DEF Records, Reports, Fetches
  <2>3. a \in Nat /\ Nobody \notin Asks
    BY BoundsAssumption, SMTT(30) DEF Asks, Nobody
  <2> QED
    BY <2>1, <2>2, <2>3
<1>3. Gate' /\ (sandbox'.gate \in {"fresh", "stale"} => WholeDisk)
  BY <1>1 DEF IInv, Gate, Disk, Admitted
<1>4. Remote <= Len(pushed) /\ \A v \in 1..Remote : pushed[v] <= now
  BY <1>0, SMTT(30) DEF Remote, IInv, InOrder
<1>5. ASSUME NEW new \in Fetches, asks' = [asks EXCEPT ![a] = new], new.answer # "fetched",
             new.asOf \in {NoTime, sandbox.entry.fetched},
             \/ new.at = "answered" /\ seat' = seat
             \/ /\ new.at = "waiting" /\ new.by = seat /\ seat # Nobody /\ seat' = seat
                /\ new.t = now /\ new.had = Remote /\ now <= asks[seat].t
             \/ /\ new.at = "marking" /\ new.by = a /\ seat' = a
                /\ new.t = now /\ new.had = Remote
      PROVE  IInv'
  <2>1. /\ asks' \in [Asks -> Fetches] /\ asks'[a] = new
        /\ \A b \in Asks \ {a} : asks'[b] = asks[b]
    BY <1>0, <1>5
  <2>2. \A b \in Asks : asks'[b].asOf \in {asks[b].asOf, NoTime, sandbox.entry.fetched}
    BY <1>5, <2>1
  <2>3. Fetched'
    BY <1>1, <1>5, <2>1 DEF Fetched, WholeDisk
  <2>4. Waiting'
    <3>1. \A b \in Asks : Open(b) => b # a /\ asks[b].by # a /\ asks[b].by \in Asks /\ Open(b)'
      BY <1>1, <2>1 DEF Waiting, Open
    <3>2. seat # Nobody => Open(seat) /\ asks[seat].by = seat /\ seat \in Asks /\ seat # a
      BY <1>0, <1>1, <3>1 DEF Waiting
    <3>3. Start <= now
      BY DEF IInv, InOrder
    <3>4. ASSUME NEW b \in Asks, b # a, Open(b)'
          PROVE  /\ asks'[b].by \in Asks /\ Open(asks[b].by)' /\ asks'[b] = asks[b]
                 /\ asks'[asks'[b].by].by = asks'[b].by
                 /\ asks'[b].at = "marking" => asks'[b].by = b
                 /\ Start <= asks'[b].t /\ asks'[b].t <= asks'[asks'[b].by].t
                 /\ asks'[b].had <= Len(pushed')
                 /\ \A v \in 1..asks'[b].had : pushed'[v] <= asks'[b].t
      <4>1. asks'[b] = asks[b] /\ Open(b)
        BY <2>1, <3>4 DEF Open
      <4>2. asks[b].by # a /\ asks[b].by \in Asks /\ Open(asks[b].by)
        BY <1>1, <3>1, <4>1 DEF Waiting
      <4>3. asks'[asks[b].by] = asks[asks[b].by]
        BY <2>1, <4>2
      <4>4. Open(asks[b].by)'
        BY <4>1, <4>2, <4>3 DEF Open
      <4> QED
        BY <1>1, <4>1, <4>2, <4>3, <4>4 DEF Waiting
    <3>5. ASSUME Open(a)'
          PROVE  /\ asks'[a].by \in Asks /\ Open(asks[a].by)'
                 /\ asks'[asks'[a].by].by = asks'[a].by
                 /\ asks'[a].at = "marking" => asks'[a].by = a
                 /\ Start <= asks'[a].t /\ asks'[a].t <= asks'[asks'[a].by].t
                 /\ asks'[a].had <= Len(pushed')
                 /\ \A v \in 1..asks'[a].had : pushed'[v] <= asks'[a].t
      <4>1. new.at # "answered" /\ new.t = now /\ new.had = Remote
        BY <1>5, <2>1, <3>5 DEF Open
      <4>2. CASE new.by = a /\ new.at = "marking"
        <5>1. asks'[a].by = a /\ asks'[a].t = now /\ now \in Int /\ asks'[a].had = Remote
          BY <1>0, <2>1, <4>1, <4>2, SMTT(30)
        <5>2. Open(asks[a].by)'
          BY <3>5, <5>1 DEF Open
        <5> QED
          BY <1>0, <1>1, <1>4, <3>3, <5>1, <5>2, SMTT(30)
      <4>3. CASE new.by = seat /\ seat # Nobody /\ new.at = "waiting" /\ now <= asks[seat].t
        <5>1. seat \in Asks /\ seat # a /\ asks'[seat] = asks[seat] /\ Open(seat)
              /\ asks[seat].by = seat
          BY <2>1, <3>1, <3>2, <4>3
        <5>2. asks'[a].by = seat /\ asks'[a].t = now /\ asks'[a].had = Remote
              /\ asks'[a].at = "waiting"
          BY <2>1, <4>1, <4>3
        <5>3. Open(asks[a].by)'
          BY <5>1, <5>2 DEF Open
        <5> QED
          BY <1>1, <1>4, <3>3, <4>3, <5>1, <5>2, <5>3
      <4> QED
        BY <1>5, <4>1, <4>2, <4>3
    <3>6. seat' # Nobody => Open(seat)' /\ asks'[seat'].by = seat'
      BY <1>5, <2>1, <3>1, <3>2 DEF Open
    <3> QED
      BY <3>4, <3>5, <3>6 DEF Waiting
  <2>5. seat' \in Asks \cup {Nobody}
    BY <1>0, <1>5
  <2> QED
    BY <1>0, <1>1, <1>3, <2>1, <2>2, <2>3, <2>4, <2>5, ElsewhereMoves
<1>6. CASE JoinAsk(a)
  <2>1. /\ asks' = [asks EXCEPT ![a] = Asking("waiting", seat)] /\ seat' = seat
        /\ seat # Nobody /\ AskedAt(asks[seat].t) >= AskedAt(now)
    BY <1>6 DEF JoinAsk, Joins
  <2>2. seat \in Nat /\ asks[seat].t \in Int
    BY <1>0, <1>2, <2>1, SMTT(30) DEF Asks
  <2>3. now <= asks[seat].t
    BY <1>0, <2>1, <2>2, SMTT(30) DEF AskedAt, NoTime
  <2>4. Asking("waiting", seat).answer # "fetched"
    BY <2>2, AskingFields
  <2> QED
    BY <1>5, <2>1, <2>2, <2>3, <2>4, AskingFields
<1>7. CASE OpenAsk(a)
  <2>1. asks' = [asks EXCEPT ![a] = Asking("marking", a)] /\ seat' = a
    BY <1>7 DEF OpenAsk
  <2>2. Asking("marking", a).answer # "fetched"
    BY <1>2, AskingFields
  <2> QED
    BY <1>2, <1>5, <2>1, <2>2, AskingFields
<1>8. CASE AskPastCap(a)
  <2> DEFINE ask == Asking("", a)
             new == Answered(ask, "stale", sandbox.entry.fetched)
  <2>1. asks' = [asks EXCEPT ![a] = new] /\ seat' = seat
    BY <1>8 DEF AskPastCap
  <2>2. ask.had \in Nat
    BY <1>2 DEF Asking, Unasked
  <2> HIDE DEF ask
  <2>3. /\ new \in Fetches /\ new.at = "answered" /\ new.answer = "stale"
        /\ new.asOf = sandbox.entry.fetched
    BY <1>2, <2>2, AnsweredFields, SMTT(30)
  <2> HIDE DEF new
  <2> QED
    BY <1>5, <2>1, <2>3
<1> QED
  BY <1>6, <1>7, <1>8

\* An ask's later steps.
LEMMA AskGoesOn ==
  ASSUME IInv, NEW a \in Asks,
         Mark(a) \/ MarkRefused(a) \/ Hears(a) \/ BudgetEnds(a) \/ Serve(a)
  PROVE  IInv'
<1>0. /\ Types /\ asks \in [Asks -> Fetches] /\ seat \in Asks \cup {Nobody} /\ sandbox \in Records
      /\ pod \in [created : Int, mark : Int] /\ Waiting /\ Fetched
  BY DEF IInv, Types
<1>1. UNCHANGED <<now, pushed, disk, repo, seen, agent, pod>>
  BY DEF Mark, MarkRefused, Hears, BudgetEnds, Serve, rest, node
<1>2. /\ sandbox' \in Records /\ sandbox'.gate = sandbox.gate /\ sandbox'.entry = sandbox.entry
      /\ sandbox'.created = sandbox.created
  <2>1. asks[a].t \in Int
    BY <1>0 DEF Fetches
  <2>2. sandbox' = sandbox \/ sandbox' = [sandbox EXCEPT !.mark = asks[a].t]
    BY DEF Mark, MarkRefused, Hears, BudgetEnds, Serve
  <2> QED
    BY <1>0, <2>1, <2>2 DEF Records
<1>3. Gate' /\ (sandbox'.gate \in {"fresh", "stale"} => WholeDisk)
  BY <1>1, <1>2 DEF IInv, Gate, Disk, Admitted
<1>4. ASSUME asks' \in [Asks -> Fetches], seat' \in Asks \cup {Nobody}, Waiting', Fetched',
             \A b \in Asks : asks'[b].asOf \in {asks[b].asOf, NoTime, sandbox.entry.fetched}
      PROVE  IInv'
  BY <1>0, <1>1, <1>2, <1>3, <1>4, ElsewhereMoves
<1>5. ASSUME Open(a), asks[a].by = a, NEW says \in {"fetched", "stale"},
             NEW asOf \in {NoTime, sandbox.entry.fetched}, Settle(a, says, asOf),
             says = "fetched" => verdict(a) = "fetched"
      PROVE  IInv'
  <2>1. says = "fetched" => WholeDisk /\ \A b \in Asks : Open(b) /\ asks[b].by = a =>
                                                           asks[b].had <= disk.version
    BY <1>5, FetchedVerdict
  <2> QED
    BY <1>1, <1>4, <1>5, <2>1, SettleKeeps
<1>6. verdict(a) # "" => verdict(a) \in {"fetched", "stale"}
  BY DEF verdict
<1>7. asks[a].at = "marking" => Open(a) /\ asks[a].by = a
  BY <1>0 DEF Waiting, Open
<1>8. Waits(a) => Open(a) /\ asks[a].by = a
  BY DEF Waits, Open
<1>9. CASE MarkRefused(a)
  BY <1>5, <1>7, <1>9 DEF MarkRefused
<1>10. CASE Hears(a)
  BY <1>5, <1>6, <1>8, <1>10 DEF Hears
<1>11. CASE BudgetEnds(a)
  BY <1>5, <1>8, <1>11 DEF BudgetEnds
<1>12. CASE Mark(a)
  <2>1. CASE verdict(a) # ""
    <3>1. asks[a].at = "marking" /\ Settle(a, verdict(a), sandbox.entry.fetched)
      BY <1>12, <2>1 DEF Mark
    <3> QED
      BY <1>5, <1>6, <1>7, <2>1, <3>1
  <2>2. CASE verdict(a) = ""
    <3>1. /\ asks' = [asks EXCEPT ![a].at = "waiting"] /\ seat' = seat
          /\ asks[a].at = "marking"
      BY <1>12, <2>2 DEF Mark
    <3>2. asks' \in [Asks -> Fetches]
      BY <1>0, <3>1 DEF Fetches
    <3>3. \A b \in Asks :
            /\ asks'[b].t = asks[b].t /\ asks'[b].by = asks[b].by /\ asks'[b].had = asks[b].had
            /\ asks'[b].answer = asks[b].answer /\ asks'[b].asOf = asks[b].asOf
      BY <1>0, <3>1 DEF Fetches
    <3>4. \A b \in Asks : /\ Open(b)' <=> Open(b)
                          /\ asks'[b].at = "marking" => asks[b].at = "marking"
      BY <1>0, <3>1 DEF Open, Fetches
    <3>5. Fetched'
      BY <1>0, <1>1, <3>3 DEF Fetched, WholeDisk
    <3>6. Waiting'
      <4>1. ASSUME NEW b \in Asks, Open(b)'
            PROVE  /\ asks'[b].by \in Asks /\ Open(asks[b].by)'
                   /\ asks'[asks'[b].by].by = asks'[b].by
                   /\ asks'[b].at = "marking" => asks'[b].by = b
                   /\ Start <= asks'[b].t /\ asks'[b].t <= asks'[asks'[b].by].t
                   /\ asks'[b].had <= Len(pushed')
                   /\ \A v \in 1..asks'[b].had : pushed'[v] <= asks'[b].t
        <5>1. Open(b) /\ asks[b].by \in Asks /\ Open(asks[b].by)
          BY <1>0, <3>4, <4>1 DEF Waiting
        <5> QED
          BY <1>0, <1>1, <3>3, <3>4, <5>1, SMTT(30) DEF Waiting
      <4>2. seat' # Nobody => Open(seat)' /\ asks'[seat'].by = seat'
        BY <1>0, <3>1, <3>3, <3>4 DEF Waiting
      <4> QED
        BY <3>1, <3>3, <4>1, <4>2 DEF Waiting, Open
    <3> QED
      BY <1>0, <1>4, <3>1, <3>2, <3>3, <3>5, <3>6
  <2> QED
    BY <2>1, <2>2
<1>13. CASE Serve(a)
  <2> DEFINE done == [Unasked EXCEPT !.at = "served"]
  <2>1. asks' = [asks EXCEPT ![a] = done] /\ seat' = seat /\ asks[a].at = "answered"
    BY <1>13 DEF Serve
  <2>2. done \in Fetches
    <3>1. NoTime \in Int /\ Nobody \in Nat /\ 0 \in Nat
      BY SMTT(30) DEF NoTime, Nobody
    <3> QED
      BY <3>1 DEF Unasked, Fetches
  <2>3. done.at = "served" /\ done.answer # "fetched" /\ done.asOf = NoTime
    BY DEF Unasked
  <2> HIDE DEF done
  <2>4. /\ asks' \in [Asks -> Fetches] /\ asks'[a] = done
        /\ \A b \in Asks \ {a} : asks'[b] = asks[b]
    BY <1>0, <2>1, <2>2
  <2>5. ~Open(a) /\ ~Open(a)'
    BY <2>1, <2>3, <2>4 DEF Open
  <2>6. Fetched'
    BY <1>0, <1>1, <2>3, <2>4 DEF Fetched, WholeDisk
  <2>7. \A b \in Asks : Open(b)' <=> Open(b)
    BY <2>4, <2>5 DEF Open
  <2>8. \A b \in Asks : Open(b) => b # a /\ asks'[b] = asks[b]
    BY <2>4, <2>5
  <2>9. Waiting'
    <3>1. ASSUME NEW b \in Asks, Open(b)'
          PROVE  /\ asks'[b].by \in Asks /\ Open(asks[b].by)' /\ asks'[b] = asks[b]
                 /\ asks'[asks'[b].by].by = asks'[b].by
                 /\ asks'[b].at = "marking" => asks'[b].by = b
                 /\ Start <= asks'[b].t /\ asks'[b].t <= asks'[asks'[b].by].t
                 /\ asks'[b].had <= Len(pushed')
                 /\ \A v \in 1..asks'[b].had : pushed'[v] <= asks'[b].t
      <4>1. /\ asks'[b] = asks[b] /\ Open(b) /\ asks[b].by \in Asks /\ Open(asks[b].by)
            /\ asks'[asks[b].by] = asks[asks[b].by]
        BY <1>0, <2>7, <2>8, <3>1 DEF Waiting
      <4> QED
        BY <1>0, <1>1, <2>7, <4>1 DEF Waiting
    <3>2. seat' # Nobody => Open(seat)' /\ asks'[seat'].by = seat'
      BY <1>0, <2>1, <2>7, <2>8 DEF Waiting
    <3> QED
      BY <2>1, <3>1, <3>2 DEF Waiting, Open
  <2> QED
    BY <1>0, <1>4, <2>1, <2>3, <2>4, <2>6, <2>9
<1> QED
  BY <1>9, <1>10, <1>11, <1>12, <1>13

-----------------------------------------------------------------------------
LEMMA IInvInit == Init => IInv
<1> SUFFICES ASSUME Init PROVE IInv
  OBVIOUS
<1>1. /\ now = 1 /\ pushed = <<0>> /\ agent = Idle /\ seen = repo /\ seat = Nobody
      /\ pod = NoPod /\ NoTime = -1
      /\ sandbox = [created |-> Start, mark |-> NoTime, entry |-> NoReport, gate |-> "pending"]
      /\ asks = [a \in Asks |-> Unasked]
  BY SMTT(30) DEF Init, Start, NoTime
<1>2. /\ disk \in Disks /\ repo \in Entry
      /\ disk.holds = "half" <=> disk.marker
      /\ disk.marker = FALSE
      /\ repo.fetched \in {NoTime, 0} /\ ~Claims(repo)
  <2>1. /\ Emptied \in Disks /\ Emptied.holds = "none" /\ Emptied.marker = FALSE
        /\ Whole(0) \in Disks /\ Whole(0).holds = "whole" /\ Whole(0).marker = FALSE
    BY DEF Emptied, Whole, Disks
  <2>2. OldEntry \in Entry /\ OldEntry.fetched = 0 /\ ~Claims(OldEntry)
    BY SMTT(30) DEF OldEntry, Entry, Claims, Old, Start
  <2>3. disk \in {Emptied, Whole(0)} /\ repo \in {NoEntry, OldEntry}
    BY DEF Init
  <2> QED
    BY <2>1, <2>2, <2>3, IdleFields
<1>3. Unasked \in Fetches
  <2>1. NoTime \in Int /\ Nobody \in Nat /\ 0 \in Nat
    BY SMTT(30) DEF NoTime, Nobody
  <2> QED
    BY <2>1 DEF Unasked, Fetches
<1>4. sandbox \in Records /\ ~Admitted /\ sandbox.entry.fetched = NoTime
  BY <1>1, SMTT(30) DEF Records, NoReport, Reports, Admitted, NoTime
<1>5. Unasked.at = "none" /\ Unasked.asOf = NoTime /\ Unasked.answer # "fetched"
  BY DEF Unasked
<1>6. Types
  <2>1. pod \in [created : Int, mark : Int]
    BY <1>1, SMTT(30) DEF NoPod
  <2>2. now \in Nat /\ pushed \in Seq(Nat)
    BY <1>1, SMTT(30)
  <2> QED
    BY <1>1, <1>2, <1>3, <1>4, <2>1, <2>2, IdleFields DEF Types
<1>7. InOrder
  BY <1>1, SMTT(30) DEF InOrder, Start
<1>8. Honest(NoTime)
  BY <1>1, SMTT(30) DEF Honest, Old, Start
<1>9. Honest(repo.fetched)
  <2>1. Honest(0)
    BY <1>1, SMTT(30) DEF Honest, Old, Start
  <2> QED
    BY <1>2, <1>8, <2>1
<1>10. Stamps
  BY <1>1, <1>4, <1>5, <1>8, <1>9, IdleFields DEF Stamps
<1>11. Disk
  BY <1>1, <1>2, <1>4, IdleFields DEF Disk
<1>12. Worker
  BY <1>1, IdleFields, SMTT(30) DEF Worker
<1>13. Gate /\ Waiting /\ Fetched
  BY <1>1, <1>4, <1>5 DEF Gate, Admitted, Waiting, Open, Fetched
<1> QED
  BY <1>6, <1>7, <1>10, <1>11, <1>12, <1>13 DEF IInv

LEMMA IInvStep == IInv /\ [Next]_vars => IInv'
<1> SUFFICES ASSUME IInv, [Next]_vars PROVE IInv'
  OBVIOUS
<1>1. CASE UNCHANGED vars
  BY <1>1 DEF vars, IInv, Types, InOrder, Stamps, Honest, WholeDisk, Disk, Admitted, Worker,
              Gate, Waiting, Open, Fetched
<1>2. CASE Next
  BY <1>2, TimeMoves, WorkerBegins, GitEnds, NodeGoesOn, OperatorMoves, AskMade, AskGoesOn
     DEF Next, Works, Fetching
<1> QED
  BY <1>1, <1>2

LEMMA IInvAlways == Spec => []IInv
BY IInvInit, IInvStep, PTL DEF Spec

\* A version that holds all that was pushed before a second is at least their number.
LEMMA CoversBefore ==
  ASSUME pushed \in Seq(Nat), NEW n \in Nat, NEW t \in Int, Covers(pushed, n, t)
  PROVE  Before(t) <= n
<1> DEFINE early == {v \in 1..Len(pushed) : pushed[v] < t}
<1>1. early \subseteq 1..n
  BY SMTT(30) DEF Covers
<1>2. IsFiniteSet(1..n) /\ Cardinality(1..n) = n
  BY FS_Interval, SMTT(30)
<1>3. Cardinality(early) <= n
  BY <1>1, <1>2, FS_Subset
<1> QED
  BY <1>3 DEF Before

\* An ask that is answered `fetched` (verdict) finds in the cache everything the remote had when
\* it was made: for every number of asks, seconds, pushes and faults.
THEOREM FetchedIsFreshHolds == Spec => []FetchedIsFresh
<1>1. IInv => FetchedIsFresh
  BY DEF IInv, Fetched, FetchedIsFresh
<1> QED
  BY <1>1, IInvAlways, PTL

\* What a node reports present since the Sandbox was made, and what a Sandbox goes Ready on, is a
\* whole clone, wherever the agent ended (clone, discardHalfClone, the .cloning marker) and
\* whatever entry an earlier life of the node left.
THEOREM PresentIsWholeHolds == Spec => []PresentIsWhole
<1>1. IInv => PresentIsWhole
  BY DEF IInv, Disk, WholeDisk, Claims, Old, PresentIsWhole
<1> QED
  BY <1>1, IInvAlways, PTL

\* Every stamp names an instant whose remote the cache holds in full: the node's `lastFetched`,
\* the time by which a degraded answer dates the cache, and the gate's "fetched since".
THEOREM StampIsHonestHolds == Spec => []StampIsHonest
<1>1. IInv => StampIsHonest
  <2> SUFFICES ASSUME IInv PROVE StampIsHonest
    OBVIOUS
  <2>1. /\ pushed \in Seq(Nat) /\ disk.version \in Nat /\ repo.fetched \in Int
        /\ sandbox.created \in Int /\ \A a \in Asks : asks[a].asOf \in Int
    <3>1. disk.version \in Nat
      BY NodeValues
    <3>2. pushed \in Seq(Nat) /\ repo \in Entry /\ sandbox \in Records /\ asks \in [Asks -> Fetches]
      BY DEF IInv, Types
    <3>3. repo.fetched \in Int /\ sandbox.created = Start /\ \A a \in Asks : asks[a].asOf \in Int
      BY <3>2 DEF Entry, Records, Fetches
    <3> QED
      BY <3>1, <3>2, <3>3, SMTT(30) DEF Start
  <2>2. ASSUME NEW t \in Int, Honest(t) PROVE disk.version >= Before(t)
    <3>1. Covers(pushed, disk.version, t)
      <4>1. CASE Old(t)
        BY <2>1, <4>1, SMTT(30) DEF Covers, Old, Start
      <4> QED
        BY <2>2, <4>1 DEF Honest
    <3>2. Before(t) <= disk.version
      BY <2>1, <3>1, CoversBefore
    <3> QED
      BY <3>2
  <2>3. sandbox.gate = "fresh" => disk.version >= Before(sandbox.created)
    <3>1. sandbox.gate = "fresh" => Before(sandbox.created) <= disk.version
      BY <2>1, CoversBefore DEF IInv, Gate
    <3> QED
      BY <3>1
  <2>4. Honest(repo.fetched) /\ \A a \in Asks : Honest(asks[a].asOf)
    BY DEF IInv, Stamps
  <2> QED
    BY <2>1, <2>2, <2>3, <2>4 DEF StampIsHonest
<1> QED
  BY <1>1, IInvAlways, PTL
============================================================================

------------------------------ MODULE AgentTurn ------------------------------
(***************************************************************************)
(* The Turns of one continued conversation, as the Orchestrator's Agent    *)
(* actor drives them: the admission, behind the abort of the Turn before   *)
(* it; the wait for its Settlement; the nudge and the wake; the            *)
(* re-admission after a Harness restart that cut a busy Turn; the fault;   *)
(* the abort that ends a stopped Turn; and the restore of the host, which  *)
(* re-attaches a ledgered Turn.  The Harness is written after Submissions, *)
(* with a context: whose task the conversation's model has read.           *)
(*                                                                         *)
(* The Turn works in a Sandbox, whose watch tells the restarts of its      *)
(* Harness.  A fault that burns the conversation ends its epoch, and the   *)
(* model with it.  Whether the Agent's state is busy, and when it rests or *)
(* has Allowed picks, is the Machine's choice.  Notices and the texts of   *)
(* prompts are left out.                                                   *)
(***************************************************************************)
EXTENDS Naturals, FiniteSets

CONSTANTS MaxTurns,     \* bound: Turns that continue the conversation
          MaxSubs,      \* bound: admissions, and so Submissions
          MaxRestarts,  \* bound: restarts of the Harness
          MaxFaults,    \* bound: restarts of the Orchestrator, failed aborts
          NudgeBudget,  \* nudgeBudget
          Calm          \* what the network and the Harness are assumed to do

ASSUME TurnBounds ==
  {MaxTurns, MaxSubs, MaxRestarts, MaxFaults, NudgeBudget} \subseteq Nat

\* Calm may hold:
\*   "watchCurrent"   the watch has told a restart when the new Harness admits
ASSUME CalmKinds == Calm \subseteq {"watchCurrent"}

Turns == 1..MaxTurns
Subs == 1..MaxSubs

VARIABLES
  turn,     \* the Turn invoked last
  a,        \* its actor
  ledger,   \* agents[iid] of the run: the last admission, and whose Turn it is
  pending,  \* pendingAborts.get(iid): the newest abort, 0 when it is answered
  heard,    \* the watch's restart count, 0 before its first list
  burned,   \* bumpEpoch: the next Turn has another conversation
  posts,    \* admissions on their way to the Harness
  reply,    \* the answer to the live one, on its way back
  aborts,   \* the Turns whose abort is on its way
  failed,   \* the Turns whose abort failed, or outlived the Orchestrator:
            \* nobody waits for it, and it may still be on its way
  asks, crashes,
  up,       \* the Harness serves
  count,    \* its restart count, from 1
  kept,     \* it keeps the conversation
  fate,     \* its Submissions
  of,       \* what each was admitted as
  prompted, \* the running one's prompt is in the conversation
  minted,
  told,     \* history: how often this Turn's task is in the conversation
  odd       \* history: the Harness took an admission whose actor was gone; a
            \* run ended, died or was swept by an older Turn's abort between
            \* its surface read and its prompt; or a Submission of an older
            \* Turn read the surface of one that had asked

wire == <<posts, reply, aborts, failed, asks>>
harness == <<up, count, kept, fate, of, prompted, minted, told, odd>>
vars == <<turn, a, ledger, pending, heard, burned, wire, crashes,
          harness>>

NoActor == [pc |-> "none", wait |-> 0, task |-> FALSE,
            sub |-> 0, nudges |-> 0, admitted |-> FALSE, mark |-> 0,
            restarted |-> 0, served |-> FALSE, was |-> FALSE,
            carried |-> FALSE, attached |-> FALSE]
Done == [NoActor EXCEPT !.pc = "done"]
Alive == a.pc \notin {"none", "down"}
NoReply == [st |-> "none", sub |-> 0]
Live(p) == a.pc = "post" /\ p.no = asks
Unsettled(s) == fate[s] \in {"queued", "running", "cut"}

-----------------------------------------------------------------------------
(* The actor. *)

\* admitTurn from the actor state b: the mark of what was read is taken off
\* before the POST.
Admit(b, task, k) ==
  /\ asks < MaxSubs /\ asks' = asks + 1
  /\ a' = [b EXCEPT !.pc = "post", !.task = task,
                    !.was = b.served, !.served = FALSE]
  /\ posts' = posts \cup {[no |-> asks + 1, turn |-> turn, task |-> task,
                           kept |-> k]}

\* fault: the Turn is over for its actor; the Machine may leave the state.
Fault(conversationKept) ==
  /\ a' = Done
  /\ burned' = (burned \/ ~conversationKept)
  /\ UNCHANGED <<posts, asks>>

\* A state invokes the Agent: the actor starts behind the abort in flight.
Invoke ==
  /\ a.pc = "none" /\ ~burned /\ turn < MaxTurns
  /\ turn' = turn + 1
  /\ a' = [NoActor EXCEPT !.pc = "queue", !.wait = pending]
  /\ told' = 0
  /\ UNCHANGED <<ledger, pending, heard, burned, wire, crashes, up, count, kept,
                 fate, of, prompted, minted, odd>>

\* Mutant: the admission does not queue behind the abort in flight.
StartAtOnce ==
  /\ a.pc = "queue" /\ ~a.attached /\ ledger.sub = 0
  /\ Admit(a, TRUE, FALSE)
  /\ UNCHANGED <<turn, ledger, pending, heard, burned, reply, aborts, failed,
                 crashes, harness>>

\* The abort it waited for is answered or failed: re-attached, asked or admitted.
Start ==
  /\ a.pc = "queue" /\ a.wait \notin aborts \ failed
  /\ \/ /\ a.attached
        /\ a' = [a EXCEPT !.pc = "settle"] /\ UNCHANGED <<posts, asks>>
     \/ /\ ~a.attached /\ ledger.sub # 0
        /\ a' = [a EXCEPT !.pc = "holds"] /\ UNCHANGED <<posts, asks>>
     \/ /\ ~a.attached /\ ledger.sub = 0
        /\ Admit(a, TRUE, FALSE)
  /\ UNCHANGED <<turn, ledger, pending, heard, burned, reply, aborts, failed,
                 crashes, harness>>

\* client.holds: the Harness's word, or "held" when no answer comes in time.
Holds == {TRUE} \cup (IF up THEN {kept} ELSE {})

HoldsAnswers ==
  /\ a.pc = "holds"
  /\ \E held \in Holds : Admit(a, TRUE, held)
  /\ UNCHANGED <<turn, ledger, pending, heard, burned, reply, aborts, failed,
                 crashes, harness>>

\* The Harness queued it: the mark, the ledger, and what the admission carried.
AnswerArrives ==
  /\ reply.st = "queued" /\ reply' = NoReply
  /\ a' = [a EXCEPT !.pc = "settle", !.sub = reply.sub, !.admitted = TRUE,
                    !.mark = heard,
                    !.carried = (~a.was /\ a.carried) \/ a.task]
  /\ ledger' = [sub |-> reply.sub, turn |-> turn, mark |-> heard]
  /\ UNCHANGED <<turn, pending, heard, burned, posts, aborts, failed, asks,
                 crashes, harness>>

\* The Harness keeps no such conversation: admitted again with the task.
NotKept ==
  /\ reply.st = "notkept" /\ reply' = NoReply
  /\ Admit([a EXCEPT !.served = a.served \/ a.was], TRUE, FALSE)
  /\ UNCHANGED <<turn, ledger, pending, heard, burned, aborts, failed, crashes,
                 harness>>

\* Mutant: an admission whose answer is lost is sent again.
AnswerLostResends ==
  /\ reply.st # "none" /\ reply' = NoReply
  /\ Admit(a, a.task, FALSE)
  /\ UNCHANGED <<turn, ledger, pending, heard, burned, aborts, failed, crashes,
                 harness>>

\* The answer is lost after the POST was delivered: never sent again.
AnswerLost ==
  /\ reply.st # "none" /\ reply' = NoReply
  /\ Fault(FALSE)
  /\ UNCHANGED <<turn, ledger, pending, heard, aborts, failed, crashes,
                 harness>>

\* postAdmission sends again while nothing takes it; at the deadline it fails.
PostGivesUp ==
  /\ ~up /\ \E p \in posts :
       /\ Live(p) /\ posts' = posts \ {p}
       /\ a' = Done /\ burned' = TRUE
  /\ UNCHANGED <<turn, ledger, pending, heard, reply, aborts, failed, asks,
                 crashes, harness>>

\* readmitAfterCut: a Turn whose state is busy, or holds an answer the model
\* has not read, waits for Rest; any other faults.
Cut == \/ a' = [a EXCEPT !.pc = "rest"] /\ UNCHANGED <<posts, asks, burned>>
       \/ Fault(TRUE)

\* Mutant: the wait does not end on a 404.
SettlesButLost ==
  /\ a.pc = "settle"
  /\ \/ a.restarted # 0 /\ Cut
     \/ /\ a.restarted = 0 /\ up /\ fate[a.sub] = "restarted" /\ Cut
     \/ /\ a.restarted = 0 /\ up /\ fate[a.sub] = "completed"
        /\ a' = [a EXCEPT !.pc = "picks"] /\ UNCHANGED <<posts, asks, burned>>
     \/ /\ a.restarted = 0 /\ up /\ fate[a.sub] \in {"aborted", "failed"}
        /\ Fault(FALSE)
  /\ UNCHANGED <<turn, ledger, pending, heard, reply, aborts, failed, crashes,
                 harness>>

\* client.wait ends: with a Settlement, a 404, or the watch's abort.
Settles ==
  /\ a.pc = "settle"
  /\ \/ a.restarted # 0 /\ Cut
     \/ /\ a.restarted = 0 /\ up /\ fate[a.sub] = "restarted" /\ Cut
     \/ /\ a.restarted = 0 /\ up /\ fate[a.sub] = "completed"
        /\ a' = [a EXCEPT !.pc = "picks"] /\ UNCHANGED <<posts, asks, burned>>
     \/ /\ a.restarted = 0 /\ up
        /\ fate[a.sub] \in {"aborted", "failed", "gone"}
        /\ Fault(FALSE)
  /\ UNCHANGED <<turn, ledger, pending, heard, reply, aborts, failed, crashes,
                 harness>>

\* Mutant: the nudge goes out though a restart was told.
AskAgainAnyway ==
  /\ a.pc = "picks" /\ a.nudges < NudgeBudget
  /\ Admit([a EXCEPT !.nudges = a.nudges + 1], FALSE, TRUE)
  /\ UNCHANGED <<turn, ledger, pending, heard, burned, reply, aborts, failed,
                 crashes, harness>>

\* The ask-again rule: the nudge or the wake, on the kept conversation.
AskAgain ==
  /\ a.pc = "picks"
  /\ \/ a.nudges >= NudgeBudget /\ Fault(FALSE)
     \/ a.nudges < NudgeBudget /\ a.restarted # 0 /\ Fault(TRUE)
     \/ /\ a.nudges < NudgeBudget /\ a.restarted = 0
        /\ Admit([a EXCEPT !.nudges = a.nudges + 1], FALSE, TRUE)
        /\ UNCHANGED burned
  /\ UNCHANGED <<turn, ledger, pending, heard, reply, aborts, failed, crashes,
                 harness>>

\* untilRest: the restart that cut the Turn is the new mark.
Rest ==
  /\ a.pc = "rest"
  /\ a' = [a EXCEPT !.pc = "again", !.restarted = 0,
                    !.mark = IF a.restarted # 0 THEN a.restarted ELSE a.mark]
  /\ UNCHANGED <<turn, ledger, pending, heard, burned, wire, crashes,
                 harness>>

\* Mutant: a re-admission never carries the task.
TaskNever == FALSE

\* The task was carried by an admission that the Harness never read.
TaskUnheard == ~a.served /\ a.carried

Readmit ==
  /\ a.pc = "again"
  /\ \/ a.restarted # 0 /\ Fault(TRUE)
     \/ /\ a.restarted = 0
        /\ \E held \in Holds : Admit(a, held => TaskUnheard, held)
        /\ UNCHANGED burned
  /\ UNCHANGED <<turn, ledger, pending, heard, reply, aborts, failed, crashes,
                 harness>>

\* An admission cut with its Turn: gone, or already at a Harness that serves.
Stray == \/ posts' = {p \in posts : ~Live(p)}
         \/ up /\ posts' = posts

\* Mutant: the state exits and nothing is aborted.
StopQuietly ==
  /\ Alive
  /\ a' = NoActor
  /\ Stray /\ reply' = NoReply
  /\ UNCHANGED <<turn, ledger, pending, heard, burned, aborts, failed, asks,
                 crashes, harness>>

\* abandon: the state exits, and the actor's abort is on its way.
Stop ==
  /\ Alive
  /\ a' = NoActor
  /\ aborts' = aborts \cup {turn}
  /\ pending' = turn
  /\ Stray /\ reply' = NoReply
  /\ UNCHANGED <<turn, ledger, heard, burned, failed, asks, crashes, harness>>

\* Within the bound.
MayFail == crashes + Cardinality(failed) < MaxFaults

\* The one send of an abort fails, and the failure is ignored: the abort is
\* lost, or comes when nobody waits for it.
AbortFails(x) ==
  /\ x \in failed \/ MayFail
  /\ failed' = failed \cup {x}
  /\ aborts' \in {aborts, aborts \ {x}}
  /\ pending' = IF pending = x THEN 0 ELSE pending
  /\ UNCHANGED <<turn, a, ledger, heard, burned, posts, reply, asks, crashes,
                 harness>>

\* The listener: a count past the mark is a restart, and cuts the Turn.
Heard(b, seen) ==
  IF seen = 0 \/ ~b.admitted \/ b.restarted # 0 THEN b
  ELSE IF b.mark = 0 THEN [b EXCEPT !.mark = seen]
  ELSE IF seen > b.mark THEN [b EXCEPT !.restarted = seen]
  ELSE b

\* The watch tells the Sandbox, perhaps not for the first time; an admission
\* under way is cut.
WatchTells ==
  /\ heard' = count
  /\ \/ /\ a.pc # "post" \/ Heard(a, count).restarted = 0
        /\ a' = Heard(a, count) /\ UNCHANGED <<posts, reply>>
     \/ /\ a.pc = "post" /\ Heard(a, count).restarted # 0
        /\ a' = Done /\ Stray /\ reply' = NoReply
  /\ UNCHANGED <<turn, ledger, pending, burned, aborts, failed, asks, crashes,
                 harness>>

\* The Orchestrator stops for its own reasons, or dies: nothing is aborted.
HostStops ==
  /\ a.pc # "down" /\ MayFail /\ crashes' = crashes + 1
  /\ a' = IF Alive THEN [NoActor EXCEPT !.pc = "down"] ELSE a
  /\ pending' = 0 /\ heard' = 0
  /\ Stray /\ reply' = NoReply
  /\ failed' = failed \cup aborts
  /\ UNCHANGED <<turn, ledger, burned, aborts, asks, harness>>

\* reattachAgentRuns: an admission that this Turn ledgered is attached.
Restore ==
  /\ a.pc = "down"
  /\ a' = IF ledger.turn = turn
          THEN Heard([NoActor EXCEPT !.pc = "queue", !.attached = TRUE,
                                     !.admitted = TRUE, !.sub = ledger.sub,
                                     !.mark = ledger.mark], heard)
          ELSE [NoActor EXCEPT !.pc = "queue"]
  /\ UNCHANGED <<turn, ledger, pending, heard, burned, wire, crashes,
                 harness>>

-----------------------------------------------------------------------------
(* The Harness. *)

actor == <<turn, ledger, pending, heard, burned, asks, crashes>>

HarnessTakes(p) ==
  LET s == minted + 1 IN
  /\ up /\ posts' = posts \ {p}
  /\ "watchCurrent" \in Calm => heard \in {0, count}
  /\ IF p.kept /\ ~kept
     THEN /\ reply' = IF Live(p) THEN [st |-> "notkept", sub |-> 0] ELSE reply
          /\ UNCHANGED <<kept, fate, of, minted, told>>
     ELSE /\ minted' = s /\ fate' = [fate EXCEPT ![s] = "queued"]
          /\ of' = [of EXCEPT ![s] = [turn |-> p.turn, task |-> p.task]]
          /\ kept' = TRUE
          /\ told' = IF kept THEN told ELSE 0
          /\ reply' = IF Live(p) THEN [st |-> "queued", sub |-> s] ELSE reply
  /\ odd' = (odd \/ ~Live(p))
  /\ UNCHANGED <<actor, a, aborts, failed, up, count, prompted>>

\* The actor has sent an admission of its Turn.
Asked == Alive /\ a.pc \notin {"queue", "holds"}

\* The first of the queue runs, and reads its surface: whichever Turn has it.
HarnessReads(s) ==
  /\ up /\ fate[s] = "queued"
  /\ \A t \in Subs : fate[t] # "running" /\ (t < s => fate[t] # "queued")
  /\ IF Alive
     THEN /\ fate' = [fate EXCEPT ![s] = "running"]
          /\ a' = [a EXCEPT !.served = TRUE]
     ELSE /\ fate' = [fate EXCEPT ![s] = "aborted"]
          /\ UNCHANGED a
  /\ odd' = (odd \/ (Asked /\ of[s].turn # turn))
  /\ UNCHANGED <<actor, posts, reply, aborts, failed, up, count, kept, of,
                 prompted, minted, told>>

\* The engine appends its prompt.
HarnessPrompts(s) ==
  /\ up /\ fate[s] = "running" /\ ~prompted /\ prompted' = TRUE
  /\ told' = IF of[s].task /\ of[s].turn = turn THEN told + 1 ELSE told
  /\ UNCHANGED <<actor, a, posts, reply, aborts, failed, up, count, kept, fate,
                 of, minted, odd>>

\* The run ends; without a surface its Turn is over, and no sweep came.
HarnessEnds(s) ==
  /\ up /\ fate[s] = "running"
  /\ \E o \in {"failed"} \cup (IF prompted THEN {"completed"} ELSE {})
                         \cup (IF Alive THEN {} ELSE {"aborted"}) :
       fate' = [fate EXCEPT ![s] = o]
  /\ odd' = (odd \/ ~prompted) /\ prompted' = FALSE
  /\ UNCHANGED <<actor, a, posts, reply, aborts, failed, up, count, kept, of,
                 minted, told>>

\* A Submission of the Turn that has an actor.
Own(s) == Alive /\ of[s].turn = turn

\* Mutant: the sweep settles the active Submission, and not the queue.
SweepsActive(x) ==
  /\ aborts' = aborts \ {x}
  /\ pending' = IF pending = x THEN 0 ELSE pending
  /\ fate' = [s \in Subs |->
                IF up /\ fate[s] = "running" THEN "aborted" ELSE fate[s]]
  /\ prompted' = (prompted /\ ~up)
  /\ UNCHANGED <<turn, ledger, heard, burned, asks, crashes, a, posts,
                 reply, failed, up, count, kept, of, minted, told, odd>>

\* The abort sweeps what the conversation holds, or finds no one to ask.  (A
\* Submission that its own pick ended settles `ended`: no actor hears it.)
HarnessSweeps(x) ==
  LET swept == IF up THEN {s \in Subs : Unsettled(s)} ELSE {} IN
  /\ aborts' = aborts \ {x}
  /\ pending' = IF pending = x THEN 0 ELSE pending
  /\ fate' = [s \in Subs |-> IF s \in swept THEN "aborted" ELSE fate[s]]
  /\ odd' = (odd \/ (up /\ ~prompted /\ \E s \in Subs :
                                             Own(s) /\ fate[s] = "running"))
  /\ prompted' = (prompted /\ ~up)
  /\ UNCHANGED <<turn, ledger, heard, burned, asks, crashes, a, posts,
                 reply, failed, up, count, kept, of, minted, told>>

HarnessDies ==
  /\ up /\ count <= MaxRestarts /\ up' = FALSE
  /\ fate' = [s \in Subs |-> IF Unsettled(s) THEN "cut" ELSE fate[s]]
  /\ odd' = (odd \/ (~prompted /\ \E s \in Subs : fate[s] = "running"))
  /\ prompted' = FALSE
  /\ UNCHANGED <<actor, a, posts, reply, aborts, failed, count, kept, of,
                 minted, told>>

\* The boot reads the conversation back, or finds no record it can read.
HarnessBoots ==
  /\ ~up /\ up' = TRUE /\ count' = count + 1
  /\ \/ /\ fate' = [s \in Subs |->
                      IF fate[s] = "cut" THEN "restarted" ELSE fate[s]]
        /\ UNCHANGED <<kept, told>>
     \/ /\ kept /\ kept' = FALSE /\ told' = 0
        /\ fate' = [s \in Subs |-> IF fate[s] = "none" THEN "none" ELSE "gone"]
  /\ UNCHANGED <<actor, a, posts, reply, aborts, failed, of, prompted, minted,
                 odd>>

-----------------------------------------------------------------------------

Init ==
  /\ turn = 0 /\ a = NoActor /\ ledger = [sub |-> 0, turn |-> 0, mark |-> 0]
  /\ pending = 0 /\ heard = 0 /\ burned = FALSE
  /\ posts = {} /\ reply = NoReply /\ aborts = {} /\ failed = {}
  /\ asks = 0 /\ crashes = 0
  /\ up = TRUE /\ count = 1 /\ kept = FALSE /\ fate = [s \in Subs |-> "none"]
  /\ of = [s \in Subs |-> [turn |-> 0, task |-> FALSE]]
  /\ prompted = FALSE /\ minted = 0 /\ told = 0 /\ odd = FALSE

Harness ==
  \/ \E p \in posts : HarnessTakes(p)
  \/ \E s \in Subs : HarnessReads(s) \/ HarnessPrompts(s) \/ HarnessEnds(s)
  \/ \E x \in aborts : HarnessSweeps(x)
  \/ HarnessDies \/ HarnessBoots

Next ==
  \/ Invoke \/ Start \/ HoldsAnswers \/ AnswerArrives \/ NotKept \/ AnswerLost
  \/ PostGivesUp \/ Settles \/ AskAgain \/ Rest \/ Readmit
  \/ Stop \/ WatchTells \/ HostStops \/ Restore
  \/ \E x \in aborts : AbortFails(x)
  \/ Harness

Spec == Init /\ [][Next]_vars

\* The host runs what it owes and requests are answered; a dead container is
\* started again; a run whose Turn is over finds no surface and ends.  No run
\* of a live Turn has to end, and no Machine has to rest, pick or leave.
Fairness ==
  /\ WF_vars(Start \/ HoldsAnswers \/ AnswerArrives \/ NotKept \/ PostGivesUp
             \/ Settles \/ Readmit)
  /\ WF_vars(\E p \in posts : HarnessTakes(p))
  /\ WF_vars(\E x \in aborts \ failed : HarnessSweeps(x))
  /\ WF_vars(HarnessBoots)
  /\ WF_vars(\E s \in Subs : HarnessReads(s) \/ (~Alive /\ HarnessEnds(s)))
  /\ WF_vars(WatchTells)

FairSpec == Spec /\ Fairness

-----------------------------------------------------------------------------

Counts == 0..(MaxRestarts + 1)

TypeOK ==
  /\ turn \in 0..MaxTurns
  /\ a \in [pc : {"none", "queue", "holds", "post", "settle", "picks", "rest",
                  "again", "done", "down"},
            wait : 0..MaxTurns, task : BOOLEAN, sub : 0..MaxSubs,
            nudges : 0..NudgeBudget, admitted : BOOLEAN, mark : Counts,
            restarted : Counts, served : BOOLEAN, was : BOOLEAN,
            carried : BOOLEAN, attached : BOOLEAN]
  /\ ledger \in [sub : 0..MaxSubs, turn : 0..MaxTurns, mark : Counts]
  /\ pending \in 0..MaxTurns /\ heard \in Counts /\ burned \in BOOLEAN
  /\ posts \subseteq [no : Subs, turn : Turns, task : BOOLEAN, kept : BOOLEAN]
  /\ reply \in [st : {"none", "notkept", "queued"}, sub : 0..MaxSubs]
  /\ aborts \subseteq Turns /\ failed \subseteq Turns
  /\ asks \in 0..MaxSubs /\ crashes \in 0..MaxFaults /\ minted \in 0..MaxSubs
  /\ up \in BOOLEAN /\ count \in 1..(MaxRestarts + 1) /\ kept \in BOOLEAN
  /\ of \in [Subs -> [turn : 0..MaxTurns, task : BOOLEAN]]
  /\ prompted \in BOOLEAN /\ told \in 0..MaxSubs /\ odd \in BOOLEAN

\* "Queue behind any abort still in flight for this iid": a live Turn's
\* Submission is swept by no abort that it could wait for, that of the Turn
\* before it.  (An abort older than that, which the map no longer has, and one
\* that failed for its sender may still come late.)
NoForeignSweep ==
  [][\A s \in Subs :
       Own(s) /\ Unsettled(s) /\ fate'[s] = "aborted"
         => \E x \in aborts \ aborts' : x < turn - 1 \/ x \in failed]_vars

\* A Turn that has asked is served by its own Submissions: the surface it
\* registers under the conversation's name is read by no Submission of a Turn
\* before it, which its abort has swept (abandon, abort).  An abort that failed
\* leaves one that may read it.
SurfaceIsOwn ==
  [][\A s \in Subs :
       Asked /\ fate[s] = "queued" /\ fate'[s] = "running"
         => of[s].turn = turn \/ failed # {} \/ odd]_vars

\* A Turn has one Submission open at a time, but for one the Orchestrator died
\* on before it was ledgered: an admission that may have reached the Harness is
\* never sent again (neverDelivered), and a nudge, a wake or a re-admission
\* follows the end of the one before it.
OneOpenPerTurn ==
  \A s, t \in Subs :
    Unsettled(s) /\ Unsettled(t) /\ of[s].turn = of[t].turn
      => s = t \/ crashes > 0

\* While no restore drops what the actor knows, the model that works for a Turn
\* has read its task in the conversation it works in: a nudge, a re-admission
\* after a cut and an admission onto a lost conversation carry it when needed.
TaskInContext ==
  \A s \in Subs :
    Own(s) /\ fate[s] = "running" /\ prompted
      => told > 0 \/ crashes > 0 \/ odd

\* "a restart before the answer took the admission with it ...; a restart after
\* it is this Turn's" (admitTurn): a Turn that the watch cuts has been cut, its
\* Submission does not live on in a Harness that serves it.
CutIsCut ==
  a.pc = "settle" /\ a.restarted # 0 => fate[a.sub] \notin {"queued", "running"}

\* No Turn hangs: the actor that queues, asks, admits or has a settled
\* Submission goes on.  (A lost conversation takes two admissions: the bound
\* leaves them.)
Owed == \/ a.pc \in {"queue", "holds", "post", "again"} /\ asks + 2 <= MaxSubs
        \/ a.pc = "settle" /\ (a.restarted # 0 \/ ~Unsettled(a.sub))

TurnMovesOn == Owed ~> ~Owed

\* A Submission of a Turn that is over.
Abandoned ==
  \E s \in Subs : Unsettled(s) /\ (of[s].turn < turn \/ a.pc = "none")

\* "A turn ends with the state that asked for it" (abandon): the Submissions of
\* a Turn that is over settle, though the next Turn may have its surface
\* already.  One whose abort failed settles too, when it finds no surface: only
\* Turns that have one again and again may keep it, and one that the Harness
\* took after the abort.
AbandonedSettles ==
  \/ Abandoned ~> ~Abandoned \/ odd
  \/ []<>(failed # {} /\ Alive)
=============================================================================

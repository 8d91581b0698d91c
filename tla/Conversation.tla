---------------------------- MODULE Conversation ----------------------------
(***************************************************************************)
(* One conversation of a Harness: its queue of Submissions, the seat of    *)
(* the running one, its stream and the record it keeps on disk, with the   *)
(* requests the Orchestrator sends it (admission, abort sweep, long poll,  *)
(* live set), the drain of a stopping Harness, the end of the process at   *)
(* any point and the boot's rebuild from the record.                       *)
(*                                                                         *)
(* A synchronous step of the code that settles several Submissions writes  *)
(* one stream line for each: its decision is one action, the lines it owes *)
(* are in due, and Append writes them one at a time.  Nothing but the end  *)
(* of the process comes between them.  The log in memory and the log on    *)
(* disk are one variable, since append changes both in one step.           *)
(***************************************************************************)
EXTENDS Naturals, FiniteSets, Sequences, Functions

CONSTANTS MaxSubs,   \* bound: Submissions ever admitted
          MaxSaid,   \* bound: messages and memory kills on a stream
          MaxStops   \* bound: ends of the process

ASSUME ConvBounds == {MaxSubs, MaxSaid, MaxStops} \subseteq Nat

Subs == 1..MaxSubs
Outcomes == {"completed", "ended", "aborted", "failed", "restarted"}

VARIABLES
  up,        \* the process runs
  drain,     \* its stop: "no", "on" (drain waits), "done" (closing the server)
  known,     \* the conversation is in the app's map
  stopping,  \* Conversation.stopping
  queue,     \* Conversation.queue: everything unsettled, the active one first
  active,    \* the seat: its Submission (0: none) and what it is doing
  due,       \* the stream lines that the current synchronous step still owes
  post,      \* a POST past the drain's check, at its body: "none","fresh","kept"
  dir,       \* the record: "none", "ok", or "bad" when it does not read
  admitted,  \* the record: admitted.jsonl
  over,      \* the record: over.jsonl
  log,       \* the record: stream.jsonl
  torn,      \* the file that ends in a torn write, or "none"
  poll,      \* each Submission's wait in the Orchestrator's client
  ledger,    \* the run's ledger: "new", "holds" this conversation, "ended"
  stated,    \* a live set without this conversation is on its way
  picked,    \* the Submissions whose Turn its own pick ended
  minted, stops,
  running,   \* history: the runs of the model that still go on
  ran        \* history: the Submissions that ever ran

record == <<dir, admitted, over, log, torn>>
client == <<poll, ledger, stated, picked>>
vars == <<up, drain, known, stopping, queue, active, due, post, record, client,
          minted, stops, running, ran>>

Settled(s, o) == [type |-> "submission-settled", sub |-> s, out |-> o]
Said == [type |-> "message-appended", sub |-> 0, out |-> "none"]
Kill == [type |-> "memory-limit", sub |-> 0, out |-> "none"]
Events == {Said, Kill} \cup {Settled(s, o) : s \in Subs, o \in Outcomes}

Seat(s) == [sub |-> s, onPick |-> FALSE, waiting |-> FALSE]
NoSeat == Seat(0)

\* A client's wait: its offset, and the answer on its way to it.
Wait(st, off, next, out) == [st |-> st, off |-> off, next |-> next, out |-> out]
NotWaiting == Wait("none", 0, 0, "none")
Waiting(s) == poll[s].st \in {"idle", "parked", "adrift", "answer"}

SettledIn(l) == {e.sub : e \in {f \in Range(l) : f.type = "submission-settled"}}
OutcomesIn(l, s) == {e.out : e \in {f \in Range(l) : f = Settled(s, f.out)}}
Busy == active # NoSeat \/ queue # <<>>

\* A request handler, a timer or a callback of the engine starts a step.
Steps == up /\ due = <<>>

-----------------------------------------------------------------------------
(* The queue and the seat. *)

\* pump: with the seat a and the queue q, promote the first of the queue.
Pump(a, q, still) ==
  LET free == a = NoSeat /\ q # <<>>
      next == IF free THEN {Head(q)} ELSE {}
  IN  /\ queue' = q
      /\ active' = IF free THEN Seat(Head(q)) ELSE a
      /\ running' = still \cup next
      /\ ran' = ran \cup next

\* settle the Submission s: nothing when it is settled already.
Settle(s, o) == IF s \in Range(queue) THEN <<Settled(s, o)>> ELSE <<>>
Unqueued(s) ==
  IF s \notin Range(queue) THEN queue
  ELSE LET i == CHOOSE i \in DOMAIN queue :
                  queue[i] = s /\ \A j \in 1..(i - 1) : queue[j] # s
       IN  SubSeq(queue, 1, i - 1) \o SubSeq(queue, i + 1, Len(queue))

\* The cut's Settlements: the running Submission and everything behind it.
FailAll(q) == [i \in 1..Len(q) |-> Settled(q[i], "restarted")]

\* cutIfOnPick with the seat a and stopping set: the run is left on its poll.
CutIfOnPick(a) ==
  IF a # NoSeat /\ a.onPick
  THEN /\ due' = FailAll(queue)
       /\ Pump(NoSeat, <<>>, running \ {a.sub})
  ELSE /\ active' = a
       /\ UNCHANGED <<due, queue, running, ran>>

\* The Orchestrator admits a conversation's next Turn when no Turn of it waits.
PostArrives(k) ==
  /\ Steps /\ drain = "no" /\ post = "none" /\ minted < MaxSubs
  /\ ledger # "ended" /\ \A s \in Subs : ~Waiting(s)
  /\ post' = k
  /\ UNCHANGED <<up, drain, known, stopping, queue, active, due, record, client,
                 minted, stops, running, ran>>

\* A faulty definition or Frame, or a kept conversation that is not here.
PostRefused ==
  /\ Steps /\ post # "none"
  /\ post' = "none"
  /\ UNCHANGED <<up, drain, known, stopping, queue, active, due, record, client,
                 minted, stops, running, ran>>

\* An append onto a torn write joins two lines: the next boot cannot read it.
After(file) == IF torn = file THEN "bad" ELSE dir

\* admit, on the conversation in the map or on one that it seats.
Admit ==
  LET s == minted + 1 IN
  /\ Steps /\ post # "none"
  /\ ~(post = "kept" /\ ~known)
  /\ post' = "none" /\ minted' = s
  /\ known' = TRUE
  /\ IF known
     THEN /\ admitted' = Append(admitted, s) /\ dir' = After("admitted")
          /\ UNCHANGED <<over, log, torn, stopping>>
     ELSE /\ admitted' = <<s>> /\ over' = {} /\ log' = <<>>
          /\ dir' = "ok" /\ torn' = "none" /\ stopping' = FALSE
  /\ Pump(active, Append(queue, s), running)
  \* The answer reaches the client, or is lost on its way.
  /\ \/ /\ poll' = [poll EXCEPT ![s] = Wait("idle", Len(log'), 0, "none")]
        /\ ledger' = "holds"
     \/ UNCHANGED <<poll, ledger>>
  /\ UNCHANGED <<up, drain, due, stated, picked, stops>>

\* Mutant: a sweep frees the seat of a run that still winds down.
SweepFrees(named) ==
  /\ named \in {0} \cup picked
  /\ Steps /\ known /\ queue # <<>>
  /\ due' = [i \in 1..Len(queue) |-> Settled(queue[i], "aborted")]
  /\ Pump(NoSeat, <<>>, running)
  /\ UNCHANGED <<up, drain, known, stopping, post, record, client, minted, stops>>

\* Mutant: a cause is read about whatever Submission is active.
EndedIfActive(named, s) == named # 0 /\ s = active.sub

\* Only the active Submission that the cause names ended.
Ended(named, s) == s = named /\ s = active.sub

\* abort: named is the Submission of the cause "pick", 0 when there is none.  It
\* may come late, when another Submission is active.  A swept run winds down in
\* the seat; only one that had ended frees it here.
Sweep(named) ==
  /\ named \in {0} \cup picked
  /\ Steps /\ known /\ queue # <<>>
  /\ due' = [i \in 1..Len(queue) |->
       Settled(queue[i], IF Ended(named, queue[i]) THEN "ended" ELSE "aborted")]
  /\ Pump(IF active.waiting THEN NoSeat ELSE active, <<>>, running)
  /\ UNCHANGED <<up, drain, known, stopping, post, record, client, minted, stops>>

\* The run's promise settles: TURN_OVER on an unsettled Submission waits for
\* the sweep; every other end settles it (unless it is) and frees the seat.
RunTurnOver ==
  /\ Steps /\ active # NoSeat /\ ~active.waiting
  /\ ~active.onPick /\ active.sub \in Range(queue)
  /\ over' = over \cup {active.sub} /\ dir' = After("over")
  /\ active' = [active EXCEPT !.waiting = TRUE]
  /\ running' = running \ {active.sub}
  /\ UNCHANGED <<up, drain, known, stopping, queue, due, post, admitted, log,
                 torn, client, minted, stops, ran>>

RunEnds(o) ==
  /\ Steps /\ active # NoSeat /\ ~active.waiting
  /\ due' = Settle(active.sub, o)
  /\ Pump(NoSeat, Unqueued(active.sub), running \ {active.sub})
  /\ UNCHANGED <<up, drain, known, stopping, post, record, client, minted, stops>>

\* Mutant: the timer of the wait is set by a stopping Harness alone.
SweepWaitEndsStopping ==
  /\ Steps /\ active.waiting /\ stopping
  /\ due' = Settle(active.sub, "aborted")
  /\ Pump(NoSeat, Unqueued(active.sub), running)
  /\ UNCHANGED <<up, drain, known, stopping, post, record, client, minted, stops>>

\* sweepWaitMs passed and no sweep came.
SweepWaitEnds ==
  /\ Steps /\ active.waiting
  /\ due' = Settle(active.sub, "aborted")
  /\ Pump(NoSeat, Unqueued(active.sub), running)
  /\ UNCHANGED <<up, drain, known, stopping, post, record, client, minted, stops>>

\* seat.waiting: the engine's running calls came to be only a pick's poll, or
\* did not any more.
PickPolls ==
  /\ Steps /\ active # NoSeat /\ ~active.waiting
  /\ LET a == [active EXCEPT !.onPick = ~active.onPick]
     IN  IF stopping THEN CutIfOnPick(a)
         ELSE active' = a /\ UNCHANGED <<due, queue, running, ran>>
  /\ UNCHANGED <<up, drain, known, stopping, post, record, client, minted, stops>>

\* reportMemoryLimit asks for a Submission that is not settled.
Hears(e) == e = Kill => active.sub \in Range(queue)

\* appendMessage by the running Turn; reportMemoryLimit.
Speak(e) ==
  /\ Steps /\ active # NoSeat /\ ~active.waiting
  /\ Cardinality({i \in DOMAIN log : log[i] \in {Said, Kill}}) < MaxSaid
  /\ Hears(e)
  /\ due' = <<e>>
  /\ UNCHANGED <<up, drain, known, stopping, queue, active, post, record, client,
                 minted, stops, running, ran>>

-----------------------------------------------------------------------------
(* The stream. *)

\* Mutant: the read starts one event past its offset.
ViewLate(s, off, l) ==
  LET outs == OutcomesIn(SubSeq(l, off + 2, Len(l)), s)
  IN  Wait("answer", off, Len(l),
           IF outs = {} THEN "none" ELSE CHOOSE o \in outs : TRUE)

\* What a read at offset off answers: parseOffset takes the lesser.
View(s, off, l) ==
  LET from == IF off > Len(l) THEN Len(l) ELSE off
      outs == OutcomesIn(SubSeq(l, from + 1, Len(l)), s)
  IN  Wait("answer", off, Len(l),
           IF outs = {} THEN "none" ELSE CHOOSE o \in outs : TRUE)

\* Every parked poll, answered with the log after the append.
Woken == [s \in Subs |-> IF poll[s].st = "parked"
                         THEN View(s, poll[s].off, log') ELSE poll[s]]

\* append: the line, and every parked poll woken with the log as it is now.
AppendDue ==
  /\ up /\ due # <<>>
  /\ log' = Append(log, Head(due)) /\ due' = Tail(due)
  /\ dir' = After("stream")
  /\ poll' = Woken
  /\ UNCHANGED <<up, drain, known, stopping, queue, active, post, admitted,
                 over, torn, ledger, stated, picked, minted, stops, running,
                 ran>>

\* What a step of the client leaves alone.
ClientOnly ==
  UNCHANGED <<up, drain, known, stopping, queue, active, due, post, record,
              ledger, stated, minted, stops, running, ran>>

\* A long poll arrives: 404, an answer at once, or parked.
Poll(s) ==
  /\ Steps /\ poll[s].st = "idle"
  /\ poll' = [poll EXCEPT ![s] =
       IF ~known THEN Wait("lost", 0, 0, "none")
       ELSE IF @.off < Len(log) THEN View(s, @.off, log)
       ELSE [@ EXCEPT !.st = "parked"]]
  /\ ClientOnly /\ UNCHANGED picked

\* longPollMs passed: the 204, whose offset is the end of the log.
PollTimesOut(s) ==
  /\ Steps
  /\ \/ /\ poll[s].st = "parked"
        /\ poll' = [poll EXCEPT ![s] = View(s, @.off, log)]
     \/ /\ poll[s].st = "adrift"
        /\ poll' = [poll EXCEPT ![s].st = "idle"]
  /\ ClientOnly /\ UNCHANGED picked

\* The client reads an answer: its Settlement, or it polls on from there.
ReadAnswer(s) ==
  /\ poll[s].st = "answer"
  /\ poll' = [poll EXCEPT ![s] =
       IF @.out # "none" THEN Wait("told", 0, 0, @.out)
       ELSE Wait("idle", @.next, 0, "none")]
  /\ ClientOnly /\ UNCHANGED picked

\* The actor that waits is stopped: its state exits, by a pick of the Turn that
\* runs or for another reason, and its sweep arrives or not.
Leave(s) ==
  /\ Waiting(s)
  /\ \/ s \in ran /\ picked' = picked \cup {s}
     \/ UNCHANGED picked
  /\ poll' = [poll EXCEPT ![s] = Wait("left", 0, 0, "none")]
  /\ ClientOnly

-----------------------------------------------------------------------------
(* The live set, the drain, the end of the process, the boot. *)

\* The run ends, and its ledger with it.
RunOver ==
  /\ ledger = "holds" /\ \A s \in Subs : ~Waiting(s)
  /\ ledger' = "ended"
  /\ UNCHANGED <<up, drain, known, stopping, queue, active, due, post, record,
                 poll, stated, picked, minted, stops, running, ran>>

\* stateLiveSet, when no live run's ledger has this conversation.
StateLiveSet ==
  /\ ledger # "holds" /\ ~stated
  /\ stated' = TRUE
  /\ UNCHANGED <<up, drain, known, stopping, queue, active, due, post, record,
                 poll, ledger, picked, minted, stops, running, ran>>

\* PUT /agents with a set that does not name this conversation.  A poll parked
\* on a freed conversation is answered by its timer alone.
LiveSetArrives ==
  /\ Steps /\ stated /\ stated' = FALSE
  /\ IF Busy \/ dir = "none" THEN UNCHANGED <<known, stopping, record, poll>>
     ELSE /\ known' = FALSE /\ stopping' = FALSE
          /\ dir' = "none" /\ admitted' = <<>> /\ over' = {} /\ log' = <<>>
          /\ torn' = "none"
          /\ poll' = [s \in Subs |->
               IF poll[s].st = "parked"
               THEN [poll[s] EXCEPT !.st = "adrift"] ELSE poll[s]]
  /\ UNCHANGED <<up, drain, queue, active, due, post, ledger, picked, minted,
                 stops, running, ran>>

DrainBegins ==
  /\ Steps /\ drain = "no" /\ stops < MaxStops
  /\ drain' = "on" /\ stopping' = known
  /\ CutIfOnPick(active)
  /\ UNCHANGED <<up, known, post, record, client, minted, stops>>

DrainEnds ==
  /\ Steps /\ drain = "on" /\ ~(stopping /\ Busy)
  /\ drain' = "done"
  /\ UNCHANGED <<up, known, stopping, queue, active, due, post, record, client,
                 minted, stops, running, ran>>

\* What ends with the process; every open request is severed.
Ends ==
  /\ up' = FALSE /\ drain' = "no" /\ known' = FALSE /\ stopping' = FALSE
  /\ queue' = <<>> /\ active' = NoSeat /\ due' = <<>> /\ post' = "none"
  /\ running' = {}
  /\ stops' = stops + 1
  /\ poll' = [s \in Subs |-> IF poll[s].st \in {"parked", "adrift", "answer"}
                             THEN Wait("idle", poll[s].off, 0, "none")
                             ELSE poll[s]]
  /\ UNCHANGED <<ledger, stated, picked, minted, ran>>

Exit ==
  /\ Steps /\ drain = "done" /\ stops < MaxStops
  /\ Ends /\ UNCHANGED record

\* The process dies, and may tear the write it is in.
Crash ==
  /\ up /\ stops < MaxStops
  /\ Ends
  /\ \/ UNCHANGED record
     \/ /\ due # <<>> /\ torn' = "stream"
        /\ UNCHANGED <<dir, admitted, over, log>>
     \/ /\ due = <<>> /\ active # NoSeat /\ ~active.waiting
        /\ active.sub \in Range(queue) /\ torn' = "over"
        /\ UNCHANGED <<dir, admitted, over, log>>
     \/ /\ due = <<>> /\ post # "none" /\ known /\ torn' = "admitted"
        /\ UNCHANGED <<dir, admitted, over, log>>
     \* In startRecord, or in the first line of its new record.
     \/ /\ due = <<>> /\ post = "fresh" /\ ~known
        /\ \/ dir' = "bad" /\ torn' = "none"
           \/ dir' = "ok" /\ torn' = "admitted"
        /\ admitted' = <<>> /\ over' = {} /\ log' = <<>>

\* Mutant: the torn write stays at the end of its file.
Uncut == torn

\* recorderAt cuts the torn write of every file.
CutTornTail == "none"

\* rebuilt's loop over the admitted: the ones that the stream does not settle.
Unsettled[n \in 0..Len(admitted)] ==
  IF n = 0 THEN <<>>
  ELSE IF admitted[n] \in SettledIn(log) THEN Unsettled[n - 1]
  ELSE Append(Unsettled[n - 1], admitted[n])

\* The boot's rebuild: readRecord drops a torn tail, recorderAt cuts it, and
\* rebuilt settles what the ended process left unsettled.
Boot ==
  /\ ~up /\ up' = TRUE
  /\ IF dir = "ok"
     THEN /\ known' = TRUE /\ torn' = CutTornTail
          /\ LET lost == Unsettled[Len(admitted)]
             IN  due' = [i \in 1..Len(lost) |->
                   Settled(lost[i], IF lost[i] \in over THEN "aborted"
                                    ELSE "restarted")]
     ELSE UNCHANGED <<known, torn, due>>
  /\ UNCHANGED <<drain, stopping, queue, active, post, dir, admitted, over, log,
                 client, minted, stops, running, ran>>

Init ==
  /\ up = TRUE /\ drain = "no" /\ known = FALSE /\ stopping = FALSE
  /\ queue = <<>> /\ active = NoSeat /\ due = <<>> /\ post = "none"
  /\ dir = "none" /\ admitted = <<>> /\ over = {} /\ log = <<>>
  /\ torn = "none"
  /\ poll = [s \in Subs |-> NotWaiting] /\ ledger = "new" /\ stated = FALSE
  /\ picked = {}
  /\ minted = 0 /\ stops = 0 /\ running = {} /\ ran = {}

Next ==
  \/ \E k \in {"fresh", "kept"} : PostArrives(k)
  \/ PostRefused \/ Admit
  \/ \E named \in {0} \cup Subs : Sweep(named)
  \/ RunTurnOver
  \/ \E o \in {"completed", "aborted", "failed"} : RunEnds(o)
  \/ SweepWaitEnds \/ PickPolls
  \/ \E e \in {Said, Kill} : Speak(e)
  \/ AppendDue
  \/ \E s \in Subs : Poll(s) \/ PollTimesOut(s) \/ ReadAnswer(s) \/ Leave(s)
  \/ RunOver \/ StateLiveSet \/ LiveSetArrives
  \/ DrainBegins \/ DrainEnds \/ Exit \/ Crash \/ Boot

Spec == Init /\ [][Next]_vars

\* A request that reached a serving Harness is handled, a timer fires, the
\* client's loop goes on, and a Harness that ended is started again.  No Turn
\* is assumed to end: a model may generate, and a pick may wait, forever.
Fairness ==
  /\ WF_vars(AppendDue) /\ WF_vars(Boot) /\ WF_vars(SweepWaitEnds)
  /\ \A s \in Subs :
       WF_vars(Poll(s)) /\ WF_vars(PollTimesOut(s)) /\ WF_vars(ReadAnswer(s))

FairSpec == Spec /\ Fairness

-----------------------------------------------------------------------------
(* Properties. *)

\* Every variable has its type.
TypeOK ==
  /\ up \in BOOLEAN /\ known \in BOOLEAN /\ stopping \in BOOLEAN
  /\ drain \in {"no", "on", "done"} /\ post \in {"none", "fresh", "kept"}
  /\ queue \in Seq(Subs) /\ admitted \in Seq(Subs) /\ over \subseteq Subs
  /\ active \in [sub : {0} \cup Subs, onPick : BOOLEAN, waiting : BOOLEAN]
  /\ due \in Seq(Events) /\ log \in Seq(Events)
  /\ dir \in {"none", "ok", "bad"}
  /\ torn \in {"none", "stream", "admitted", "over"}
  /\ poll \in [Subs -> [st : {"none", "idle", "parked", "adrift", "answer",
                              "told", "lost", "left"},
                        off : Nat, next : Nat, out : {"none"} \cup Outcomes]]
  /\ ledger \in {"new", "holds", "ended"} /\ stated \in BOOLEAN
  /\ picked \subseteq Subs
  /\ minted \in 0..MaxSubs /\ stops \in Nat
  /\ running \subseteq Subs /\ ran \subseteq Subs

\* A conversation runs one Turn at a time: an abort sweep settles a Submission
\* at once, but its run winds down in the seat and the next one waits for it
\* (abort, pump).
OneTurnAtATime == Cardinality(running) <= 1

\* The record of a conversation that ever admitted a Submission stays readable
\* over every end of the process: a torn write is cut before the next line is
\* appended to its file (recorderAt, readRecord).
RecordReads == dir = "bad" => admitted = <<>>

\* A Submission settles completed only if it ran, and ended only if it ran and
\* the pick that ended the Turn was its own: a pick's sweep that comes when the
\* conversation has moved on settles the Submission it meets aborted, and so
\* does every sweep the ones that wait behind (abort, rebuilt).
EndedByItsPick ==
  \A i \in DOMAIN log :
    /\ log[i].out = "completed" => log[i].sub \in ran
    /\ log[i].out = "ended" => log[i].sub \in ran \cap picked

\* The Settlement on the stream reaches the client that waits for it, over
\* severed polls and restarts of the Harness, unless the actor
\* stops waiting or the conversation was freed (wait, waitForEvent, rebuilt).
WaiterTold ==
  \A s \in Subs : (Waiting(s) /\ s \in SettledIn(log))
                   ~> poll[s].st \in {"told", "lost", "left"}

\* The Submissions as a client can know them: the stream's word, and what the
\* process still owes it.
Finishing == {e.sub : e \in {f \in Range(due) :
                f.out \in {"completed", "failed"}}}
Fate(s) ==
  IF s > minted THEN "none"
  ELSE IF s \notin Range(admitted) THEN "gone"
  ELSE IF s \in SettledIn(log) THEN CHOOSE o \in OutcomesIn(log, s) : TRUE
  ELSE IF s \in Finishing THEN "running"
  ELSE IF s \notin Range(queue) \/ active = [Seat(s) EXCEPT !.waiting = TRUE]
  THEN "cut"
  ELSE IF Finishing = {} /\ active.sub = s THEN "running"
  ELSE "queued"

Promise == INSTANCE Submissions WITH fate <- [s \in Subs |-> Fate(s)]

\* The conversation keeps what a Harness promises of Submissions: in order and
\* one at a time, settled once, settled also when the process ends, the Turn is
\* cut or its run was over and no sweep came, and freed only with nothing open
\* (pump, release, settle, abort, cutIfOnPick, rebuilt, and the busy check of
\* PUT /agents).
KeepsPromise == Promise!Spec

\* serve.ts on a Harness that closes its server after its drain: "Every
\* Submission has settled by now".
DrainedIsSettled == drain = "done" => queue = <<>>

=============================================================================

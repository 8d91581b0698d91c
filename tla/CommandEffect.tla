---------------------------- MODULE CommandEffect ----------------------------
(***************************************************************************)
(* The `command` Effect (packages/orchestrator/src/effect.ts, commandWith  *)
(* and drive) of one run, against the execs of its Workspace's Harness.    *)
(*                                                                         *)
(* The Orchestrator keeps, per Effect, the invoked child of the Machine    *)
(* (`child`) and a ledger row (`row`, with the output `out` of a settled   *)
(* one).  Both are one snapshot: `mem` is the run in memory, `disk` what   *)
(* the last save wrote.  A row saved "at the write" saves all of `mem`     *)
(* before the transition that follows it; every transition is saved by a   *)
(* microtask (`Save`).  A crash, or a park of the run, leaves `disk` only. *)
(*                                                                         *)
(*   pc      where `drive` stands for the Effect                           *)
(*   pass    sends so far, of 1, or of Resends + 1 for the idempotent cut  *)
(*   sent    did the last start answer, or may it still be on its way      *)
(*   starts  start requests on the wire; they survive both sides' restarts *)
(*   kills   Effects whose kill is being sent (`killUntilKept`)            *)
(*   kept    Effects whose kill this Harness process answered (history)    *)
(*   dropped Effects this Harness process forgot when asked (history)      *)
(*   forgets settled Effects whose `forget` is on the wire                 *)
(*   heard   every output the Machine was sent (history)                   *)
(*   used    how often each fault happened, against its bound              *)
(***************************************************************************)
EXTENDS HarnessExecs

CONSTANTS Idempotent,     \* the Effects marked idempotent (the kit's cut)
          Resends,        \* RESENDS
          MaxCrashes,     \* Orchestrator crashes and parks
          MaxRestarts,    \* Harness restarts
          MaxLosses,      \* requests lost on the wire
          MaxSpawnerEnds  \* spawners that end under an exec

ASSUME EffectAssumption ==
    /\ Idempotent \subseteq Ids
    /\ Resends \in Nat
    /\ {MaxCrashes, MaxRestarts, MaxLosses, MaxSpawnerEnds} \subseteq Nat

VARIABLES up, mem, disk, pc, pass, sent, starts, kills, kept, dropped, forgets,
          heard, used
orchVars == <<up, mem, disk, pc, pass, sent, starts, kills, kept, dropped,
              forgets, heard, used>>
vars == <<execVars, orchVars>>

Results == Outputs \cup {"unknown"}
Views == [child : {"idle", "active", "done", "error", "stopped"},
          row : {"none", "intent", "settled", "aborted"},
          out : Results \cup {"none"}]
View(c, r, o) == [child |-> c, row |-> r, out |-> o]
Passes(e) == IF e \in Idempotent THEN Resends + 1 ELSE 1

Init ==
    /\ ExecInit
    /\ up = TRUE
    /\ mem = [e \in Ids |-> View("idle", "none", "none")]
    /\ disk = mem
    /\ pc = [e \in Ids |-> "off"]
    /\ pass = [e \in Ids |-> 0]
    /\ sent = [e \in Ids |-> FALSE]
    /\ starts = [e \in Ids |-> 0]
    /\ kills = {} /\ kept = {} /\ dropped = {} /\ forgets = {}
    /\ heard = [e \in Ids |-> {}]
    /\ used = [crash |-> 0, restart |-> 0, loss |-> 0, spawner |-> 0]

Spend(fault, bound) ==
    /\ used[fault] < bound
    /\ used' = [used EXCEPT ![fault] = @ + 1]

-----------------------------------------------------------------------------
(* drive: one Effect, from its start to its settled row. *)

\* `startOnce` puts the start on the wire, one more pass.
Send(e) ==
    /\ pc' = [pc EXCEPT ![e] = "sending"]
    /\ pass' = [pass EXCEPT ![e] = @ + 1]
    /\ starts' = [starts EXCEPT ![e] = @ + 1]
    /\ sent' = [sent EXCEPT ![e] = FALSE]

\* Mutant: the intent row is in memory only when the start leaves.
InvokeUnsaved(e) ==
    /\ up
    /\ mem[e].child = "idle"
    /\ mem' = [mem EXCEPT ![e] = View("active", "intent", "none")]
    /\ Send(e)
    /\ UNCHANGED <<execVars, up, disk, kills, kept, dropped, forgets, heard,
                   used>>

\* A state invokes the Effect.  `drive` writes the intent row, saved with the
\* snapshot that holds the child, and only then sends the start: one
\* synchronous step of the host.
Invoke(e) ==
    /\ up
    /\ mem[e].child = "idle"
    /\ mem' = [mem EXCEPT ![e] = View("active", "intent", "none")]
    /\ disk' = mem'
    /\ Send(e)
    /\ UNCHANGED <<execVars, up, kills, kept, dropped, forgets, heard, used>>

\* A worktree that is not one settles the Effect before anything is sent, and
\* a defect of the Machine is its error: neither writes an intent.
InvokeFaulty(e) ==
    /\ up
    /\ mem[e].child = "idle"
    /\ \/ /\ mem' = [mem EXCEPT ![e] = View("done", "settled", "exit127")]
          /\ disk' = [mem EXCEPT ![e] = View("active", "settled", "exit127")]
          /\ heard' = [heard EXCEPT ![e] = @ \cup {"exit127"}]
       \/ /\ mem' = [mem EXCEPT ![e].child = "error"]
          /\ UNCHANGED <<disk, heard>>
    /\ UNCHANGED <<execVars, up, pc, pass, sent, starts, kills, kept, dropped,
                   forgets, used>>

\* Mutant: the settled row waits for the transition's own save.
SettleUnsaved(e, o) ==
    /\ mem' = [mem EXCEPT ![e] = View("done", "settled", o)]
    /\ heard' = [heard EXCEPT ![e] = @ \cup {o}]
    /\ pc' = [pc EXCEPT ![e] = "off"]
    /\ UNCHANGED disk

\* The settled row is saved first, with the child still active; then the
\* Machine is sent the output.
Settle(e, o) ==
    /\ disk' = [mem EXCEPT ![e] = View("active", "settled", o)]
    /\ mem' = [mem EXCEPT ![e] = View("done", "settled", o)]
    /\ heard' = [heard EXCEPT ![e] = @ \cup {o}]
    /\ pc' = [pc EXCEPT ![e] = "off"]

\* The Harness's answer to the start comes back (`sent`); or the request
\* failed in a way that may have reached it (`uncertain`).  A request that
\* certainly never left is sent again, which changes nothing here.
StartAnswered(e) ==
    /\ up
    /\ pc[e] = "sending"
    /\ pc' = [pc EXCEPT ![e] = "reading"]
    /\ \E answered \in {sent[e], FALSE} : sent' = [sent EXCEPT ![e] = answered]
    /\ UNCHANGED <<execVars, up, mem, disk, pass, starts, kills, kept,
                   dropped, forgets, heard, used>>

\* The Harness refuses the start itself (a 4xx): the Effect errors.
StartRefused(e) ==
    /\ up
    /\ pc[e] = "sending"
    /\ starts[e] > 0
    /\ starts' = [starts EXCEPT ![e] = @ - 1]
    /\ mem' = [mem EXCEPT ![e].child = "error"]
    /\ pc' = [pc EXCEPT ![e] = "off"]
    /\ UNCHANGED <<execVars, up, disk, pass, sent, kills, kept, dropped,
                   forgets, heard, used>>

\* A read by id: the first one after a start, each one of `follow`, and the
\* first one after a restore.
Reading(e) == pc[e] \in {"reading", "following", "reattach"}

AskRead(e) ==
    /\ up
    /\ Reading(e)
    /\ Read(e)
    /\ UNCHANGED orchVars

\* The read's long-poll ended with nothing new, and is asked again.
PollEnds(e) ==
    /\ up
    /\ poll[e] = "parked"
    /\ ReadAgain(e)
    /\ UNCHANGED orchVars

\* The read's answer is lost on the wire, and is asked again (`retrying`).
AnswerLost(e) ==
    /\ up
    /\ poll[e] # "parked"
    /\ ReadAgain(e)
    /\ Spend("loss", MaxLosses)
    /\ UNCHANGED <<up, mem, disk, pc, pass, sent, starts, kills, kept,
                   dropped, forgets, heard>>

\* A read parked on a running exec: it is followed.
Follow(e) ==
    /\ up
    /\ pc[e] \in {"reading", "reattach"}
    /\ poll[e] = "parked"
    /\ pc' = [pc EXCEPT ![e] = "following"]
    /\ UNCHANGED <<execVars, up, mem, disk, pass, sent, starts, kills, kept,
                   dropped, forgets, heard, used>>

\* The read found it settled: the output is settled, then it is forgotten.
ReadSettled(e) ==
    /\ up
    /\ Reading(e)
    /\ poll[e] \in Outputs
    /\ Settle(e, poll[e])
    /\ forgets' = forgets \cup {e}
    /\ poll' = [poll EXCEPT ![e] = "idle"]
    /\ UNCHANGED <<exec, newer, group, runs, up, pass, sent, starts, kills,
                   kept, dropped, used>>

\* The read found no such exec: the Harness restarted, or the start has not
\* come.  An idempotent Effect with passes left goes out again.
ReadLostAgain(e) ==
    /\ up
    /\ Reading(e)
    /\ poll[e] = "lost"
    /\ pass[e] < Passes(e)
    /\ e \in Idempotent
    /\ Send(e)
    /\ poll' = [poll EXCEPT ![e] = "idle"]
    /\ UNCHANGED <<exec, newer, group, runs, up, mem, disk, kills, kept,
                   dropped, forgets, heard, used>>

\* Mutant: an exec lost while it was followed settles nothing.
ReadLostFirstOnly(e) ==
    /\ up
    /\ pc[e] # "following"
    /\ Reading(e)
    /\ poll[e] = "lost"
    /\ e \in Idempotent => pass[e] = Passes(e)
    /\ Settle(e, "unknown")
    /\ poll' = [poll EXCEPT ![e] = "idle"]
    /\ UNCHANGED <<exec, newer, group, runs, up, pass, sent, starts, kills,
                   kept, dropped, forgets, used>>

\* Any other settles `unknown` and is never run again.  A start that may
\* still be on its way is killed first.
ReadLost(e) ==
    /\ up
    /\ Reading(e)
    /\ poll[e] = "lost"
    /\ e \in Idempotent => pass[e] = Passes(e)
    /\ Settle(e, "unknown")
    /\ kills' = IF pc[e] = "reading" /\ ~sent[e] /\ e \notin Idempotent
                THEN kills \cup {e} ELSE kills
    /\ poll' = [poll EXCEPT ![e] = "idle"]
    /\ UNCHANGED <<exec, newer, group, runs, up, pass, sent, starts, kept,
                   dropped, forgets, used>>

\* The state that invoked the Effect exits (`stopped`): `drive` is aborted,
\* an intent row turns `aborted` in memory and the kill goes out.
ExitState(e) ==
    /\ up
    /\ mem[e].child = "active"
    /\ mem' = [mem EXCEPT ![e] =
                 View("stopped", IF @.row = "intent" THEN "aborted" ELSE @.row,
                      @.out)]
    /\ kills' = IF mem[e].row = "intent" THEN kills \cup {e} ELSE kills
    /\ pc' = [pc EXCEPT ![e] = "off"]
    /\ poll' = [poll EXCEPT ![e] = "idle"]
    /\ UNCHANGED <<exec, newer, group, runs, up, disk, pass, sent, starts,
                   kept, dropped, forgets, heard, used>>

\* A settled row whose transition was not saved: the restored Effect sends
\* the Machine that output, and runs nothing.
DeliverSettled(e) ==
    /\ up
    /\ pc[e] = "deliver"
    /\ mem' = [mem EXCEPT ![e].child = "done"]
    /\ heard' = [heard EXCEPT ![e] = @ \cup {mem[e].out}]
    /\ pc' = [pc EXCEPT ![e] = "off"]
    /\ UNCHANGED <<execVars, up, disk, pass, sent, starts, kills, kept,
                   dropped, forgets, used>>
-----------------------------------------------------------------------------
(* The host: its saves, its crashes and parks, and its restore. *)

\* The microtask save after a transition.
Save ==
    /\ up
    /\ disk # mem
    /\ disk' = mem
    /\ UNCHANGED <<execVars, up, mem, pc, pass, sent, starts, kills, kept,
                   dropped, forgets, heard, used>>

\* The process ends, or `stop` parks the run: nothing more is written, and
\* what is on the wire stays there.
Crash ==
    /\ up
    /\ Spend("crash", MaxCrashes)
    /\ up' = FALSE
    /\ mem' = disk
    /\ pc' = [e \in Ids |-> "off"]
    /\ pass' = [e \in Ids |-> 0]
    /\ sent' = [e \in Ids |-> FALSE]
    /\ poll' = [e \in Ids |-> "idle"]
    /\ UNCHANGED <<exec, newer, group, runs, disk, starts, kills, kept,
                   dropped, forgets, heard>>

\* How `drive` takes up an Effect whose child the saved snapshot holds.
Resumed(v) ==
    IF v.child # "active" THEN "off"
    ELSE IF v.row = "intent" THEN "reattach" ELSE "deliver"

\* An `aborted` row under an active child settles `unknown`.
Restore ==
    /\ ~up
    /\ up' = TRUE
    /\ mem' = [e \in Ids |->
                 IF disk[e].child = "active" /\ disk[e].row = "aborted"
                 THEN View("active", "settled", "unknown")
                 ELSE disk[e]]
    /\ disk' = mem'
    /\ pc' = [e \in Ids |-> Resumed(disk[e])]
    /\ UNCHANGED <<execVars, pass, sent, starts, kills, kept, dropped,
                   forgets, heard, used>>

-----------------------------------------------------------------------------
(* The wire and the Harness. *)

StartArrives(e) ==
    /\ starts[e] > 0
    /\ Start(e)
    /\ starts' = [starts EXCEPT ![e] = @ - 1]
    /\ sent' = [sent EXCEPT ![e] = @ \/ pc[e] = "sending"]
    /\ UNCHANGED <<up, mem, disk, pc, pass, kills, kept, dropped, forgets,
                   heard, used>>

StartLost(e) ==
    /\ starts[e] > 0
    /\ Spend("loss", MaxLosses)
    /\ starts' = [starts EXCEPT ![e] = @ - 1]
    /\ UNCHANGED <<execVars, up, mem, disk, pc, pass, sent, kills, kept,
                   dropped, forgets, heard>>

\* The kill is sent until the Harness answers it, or the deadline passes.
KillArrives(e) ==
    /\ e \in kills
    /\ Kill(e)
    /\ kills' = kills \ {e}
    /\ kept' = kept \cup {e}
    /\ UNCHANGED <<up, mem, disk, pc, pass, sent, starts, dropped, forgets,
                   heard, used>>

KillGivesUp(e) ==
    /\ e \in kills
    /\ kills' = kills \ {e}
    /\ UNCHANGED <<execVars, up, mem, disk, pc, pass, sent, starts, kept,
                   dropped, forgets, heard, used>>

\* A `forget` is sent once; its failure is ignored.
ForgetArrives(e) ==
    /\ e \in forgets
    /\ \/ Forget(e) /\ dropped' = dropped \cup {e}
       \/ UNCHANGED <<execVars, dropped>>
    /\ forgets' = forgets \ {e}
    /\ UNCHANGED <<up, mem, disk, pc, pass, sent, starts, kills, kept,
                   heard, used>>

ProcessStep(e) ==
    /\ \/ Exit(e) \/ TimesOut(e) \/ SpawnFails(e, FALSE) \/ OrphanExits(e)
    /\ UNCHANGED orchVars

SpawnerEnds(e) ==
    /\ SpawnFails(e, TRUE)
    /\ Spend("spawner", MaxSpawnerEnds)
    /\ UNCHANGED <<up, mem, disk, pc, pass, sent, starts, kills, kept,
                   dropped, forgets, heard>>

HarnessRestarts ==
    /\ HarnessRestart
    /\ Spend("restart", MaxRestarts)
    /\ kept' = {} /\ dropped' = {}
    /\ UNCHANGED <<up, mem, disk, pc, pass, sent, starts, kills, forgets,
                   heard>>

-----------------------------------------------------------------------------

DriveStep(e) ==
    \/ StartAnswered(e) \/ AskRead(e) \/ Follow(e)
    \/ ReadSettled(e) \/ ReadLostAgain(e) \/ ReadLost(e)
    \/ DeliverSettled(e)

Next ==
    \/ \E e \in Ids :
         \/ Invoke(e) \/ InvokeFaulty(e) \/ StartRefused(e) \/ ExitState(e)
         \/ DriveStep(e) \/ PollEnds(e) \/ AnswerLost(e)
         \/ StartArrives(e) \/ StartLost(e) \/ KillArrives(e) \/ KillGivesUp(e)
         \/ ForgetArrives(e) \/ ProcessStep(e) \/ SpawnerEnds(e)
    \/ Save \/ Crash \/ Restore \/ HarnessRestarts

Spec == Init /\ [][Next]_vars

\* The host runs what it owes; requests arrive, lost ones aside; an exec that
\* does not end is timed out, and a SIGKILL ends it.
Fairness ==
    /\ WF_vars(Save) /\ WF_vars(Restore)
    /\ \A e \in Ids :
         /\ WF_vars(DriveStep(e))
         /\ WF_vars(StartArrives(e))
         /\ WF_vars(TimesOut(e) /\ UNCHANGED orchVars)
         /\ WF_vars(exec[e].ended # "no" /\ Exit(e) /\ UNCHANGED orchVars)

FairSpec == Spec /\ Fairness

-----------------------------------------------------------------------------

TypeOK ==
    /\ ExecTypeOK
    /\ up \in BOOLEAN
    /\ mem \in [Ids -> Views]
    /\ disk \in [Ids -> Views]
    /\ pc \in [Ids -> {"off", "sending", "reading", "following", "reattach",
                       "deliver"}]
    /\ pass \in [Ids -> Nat]
    /\ sent \in [Ids -> BOOLEAN]
    /\ starts \in [Ids -> Nat]
    /\ kills \subseteq Ids
    /\ kept \subseteq Ids
    /\ dropped \subseteq Ids
    /\ forgets \subseteq Ids
    /\ heard \in [Ids -> SUBSET Results]
    /\ used \in [{"crash", "restart", "loss", "spawner"} -> Nat]

\* "No second fire": whatever crashes, restarts and loses requests, a command
\* that is not marked idempotent is started at most once.
NoSecondFire == \A e \in Ids \ Idempotent : runs[e] + starts[e] <= 1

\* The write-ahead rule of the ledger: nothing of an Effect is on the wire or
\* runs unless the saved snapshot has its row.
WriteAhead ==
    \A e \in Ids : runs[e] + starts[e] > 0 => disk[e].row # "none"

\* The Machine never hears two outcomes of one Effect, across restores.
OneOutcome == \A e \in Ids : Cardinality(heard[e]) <= 1

\* A kill holds whatever order it arrives in: once this Harness process has
\* answered a kill, and until it is told to forget the id, the Effect is not
\* started in it.
KillHolds ==
    [][\A e \in (kept \ dropped) \cap (kept' \ dropped') :
         runs'[e] = runs[e]]_vars

\* Every Effect a state waits on ends: it settles, errors or is stopped.
EffectEnds ==
    \A e \in Ids : mem[e].child = "active" ~> mem[e].child # "active"

=============================================================================

---------------------------- MODULE HarnessExecs ----------------------------
(***************************************************************************)
(* The execs of one Harness (packages/harness/src/exec.ts): where a        *)
(* Machine's `command` Effect runs.  The Orchestrator names each exec by   *)
(* its Effect's id, starts it, long-polls its output, kills it and forgets *)
(* it.  The stream of output bytes is left out; the outcome is kept.       *)
(*                                                                         *)
(*   exec   the `execs` Map: Unknown, or the exec's state, the reason this *)
(*          side ended it (`ended`) and its outcome (`output`)             *)
(*   newer  the Map's insertion order, which is what `settle` evicts by:   *)
(*          for each id in the Map, the ids that entered it later          *)
(*   group  is the exec's process group alive in the pod                   *)
(*   runs   how often a process was started under an id, in any Harness    *)
(*          process of this Sandbox (history)                              *)
(*   poll   the one read of an id: idle, parked in `read`, or its answer   *)
(***************************************************************************)
EXTENDS Naturals, FiniteSets

CONSTANTS Ids,          \* Effect ids
          KeepSettled   \* DEFAULT_KEEP_SETTLED: settled execs kept

ASSUME KeepAssumption == KeepSettled \in Nat

VARIABLES exec, newer, group, runs, poll
execVars == <<exec, newer, group, runs, poll>>

Outputs == {"exited", "exit127", "timeout", "killed"}

\* What `execs.get(id) === undefined` reads: no such exec.
Unknown == [st |-> "unknown", ended |-> "no", output |-> "none"]
Running == [st |-> "running", ended |-> "no", output |-> "none"]
Settled(why, o) == [st |-> "settled", ended |-> why, output |-> o]

ExecStates == [st : {"unknown", "running", "settled"},
               ended : {"no", "timeout", "killed"},
               output : Outputs \cup {"none"}]

ExecInit ==
    /\ exec = [i \in Ids |-> Unknown]
    /\ newer = [i \in Ids |-> {}]
    /\ group = [i \in Ids |-> FALSE]
    /\ runs = [i \in Ids |-> 0]
    /\ poll = [i \in Ids |-> "idle"]

-----------------------------------------------------------------------------

Known(ex) == {i \in Ids : ex[i].st # "unknown"}
SettledIn(ex, S) == {i \in S : ex[i].st = "settled"}

\* Id i enters the Map, behind every id it holds.
Entered(i) ==
    [j \in Ids |-> IF j \in Known(exec) THEN newer[j] \cup {i} ELSE {}]

\* Ids leave the Map.
Without(nw, gone) == [j \in Ids |-> IF j \in gone THEN {} ELSE nw[j] \ gone]

\* `settle` keeps the last KeepSettled settled entries of the Map, in the
\* Map's own order: by when an id was first seen, not by when it settled.
EvictedOf(ex, nw) ==
    {i \in SettledIn(ex, Ids) :
        Cardinality(SettledIn(ex, nw[i])) >= KeepSettled}

\* Settle id i in the Map of order nw: record its output, wake a parked read,
\* then evict.  A parked read holds the exec itself, so it is answered even
\* when its id is evicted here.
SettleIn(nw, i, why, o) ==
    LET settled == [exec EXCEPT ![i] = Settled(why, o)]
        gone == EvictedOf(settled, nw)
    IN  /\ exec' = [j \in Ids |-> IF j \in gone THEN Unknown ELSE settled[j]]
        /\ newer' = Without(nw, gone)
        /\ poll' = [poll EXCEPT ![i] = IF @ = "parked" THEN o ELSE @]

-----------------------------------------------------------------------------

\* `start` of an id this process knows, running or settled: nothing runs.
StartKnown(i) ==
    /\ exec[i].st # "unknown"
    /\ UNCHANGED execVars

\* `start` of a new id: the spawner starts its process group.
StartRuns(i) ==
    /\ exec[i].st = "unknown"
    /\ exec' = [exec EXCEPT ![i] = Running]
    /\ newer' = Entered(i)
    /\ group' = [group EXCEPT ![i] = TRUE]
    /\ runs' = [runs EXCEPT ![i] = @ + 1]
    /\ UNCHANGED poll

\* `start` of a new id whose folder is missing: it settles 127, nothing ran.
StartNoFolder(i) ==
    /\ exec[i].st = "unknown"
    /\ SettleIn(Entered(i), i, "no", "exit127")
    /\ UNCHANGED <<group, runs>>

Start(i) == StartKnown(i) \/ StartRuns(i) \/ StartNoFolder(i)

\* The top process ends (`child.exited`): the whole group is killed with it,
\* and the exec settles.  `signalled`: a signal ended it, this side's SIGKILL
\* or another (the kernel's at the memory limit); a kill can come too late.
Exit(i) ==
    /\ exec[i].st = "running"
    /\ group[i]
    /\ \E signalled \in BOOLEAN :
         SettleIn(newer, i, exec[i].ended,
                  IF exec[i].ended = "timeout" THEN "timeout"
                  ELSE IF signalled THEN "killed" ELSE "exited")
    /\ group' = [group EXCEPT ![i] = FALSE]
    /\ UNCHANGED runs

\* The exec's own timer.
TimesOut(i) ==
    /\ exec[i].st = "running"
    /\ exec[i].ended = "no"
    /\ exec' = [exec EXCEPT ![i].ended = "timeout"]
    /\ UNCHANGED <<newer, group, runs, poll>>

\* The process could not start, or the spawner ended under it: `exited`
\* rejects, and the exec settles with no signal to the group.
SpawnFails(i, runsOn) ==
    /\ exec[i].st = "running"
    /\ SettleIn(newer, i, exec[i].ended,
                IF exec[i].ended = "killed" THEN "killed" ELSE "exit127")
    /\ group' = [group EXCEPT ![i] = runsOn]
    /\ UNCHANGED runs

\* A process that outlived its exec ends by itself: no timer is left for it.
OrphanExits(i) ==
    /\ exec[i].st # "running"
    /\ group[i]
    /\ group' = [group EXCEPT ![i] = FALSE]
    /\ UNCHANGED <<exec, newer, runs, poll>>

\* Mutant: a kill of an unknown id answers 404 and keeps nothing.
KillForgetsUnknown(i) ==
    /\ exec[i].st = "unknown"
    /\ UNCHANGED execVars

\* `kill`: an unknown id is kept as settled `killed`, a settled one is left,
\* a running one is signalled (its Exit settles it).
KillUnknown(i) ==
    /\ exec[i].st = "unknown"
    /\ SettleIn(Entered(i), i, "killed", "killed")
    /\ UNCHANGED <<group, runs>>

KillKnown(i) ==
    /\ exec[i].st # "unknown"
    /\ exec' = [exec EXCEPT ![i].ended =
                  IF exec[i].st = "running" /\ @ = "no" THEN "killed" ELSE @]
    /\ UNCHANGED <<newer, group, runs, poll>>

Kill(i) == KillUnknown(i) \/ KillKnown(i)

\* `forget`: drop a settled exec; a running or unknown one is left.
Forget(i) ==
    /\ IF exec[i].st = "settled"
       THEN /\ exec' = [exec EXCEPT ![i] = Unknown]
            /\ newer' = Without(newer, {i})
       ELSE UNCHANGED <<exec, newer>>
    /\ UNCHANGED <<group, runs, poll>>

\* `read`: undefined for an unknown id, the output of a settled one; a read
\* of a running one parks until it settles or the long-poll ends.
Read(i) ==
    /\ poll[i] = "idle"
    /\ poll' = [poll EXCEPT ![i] =
                  CASE exec[i].st = "unknown" -> "lost"
                    [] exec[i].st = "settled" -> exec[i].output
                    [] OTHER -> "parked"]
    /\ UNCHANGED <<exec, newer, group, runs>>

\* The long-poll's wait ends with nothing new, or the answer does not reach
\* the Orchestrator (`retrying` asks again).
ReadAgain(i) ==
    /\ poll[i] # "idle"
    /\ poll' = [poll EXCEPT ![i] = "idle"]
    /\ UNCHANGED <<exec, newer, group, runs>>

\* The Harness container restarts: its processes end, and the new process
\* knows no exec.
HarnessRestart ==
    /\ exec' = [i \in Ids |-> Unknown]
    /\ newer' = [i \in Ids |-> {}]
    /\ group' = [i \in Ids |-> FALSE]
    /\ poll' = [i \in Ids |-> IF poll[i] = "parked" THEN "idle" ELSE poll[i]]
    /\ UNCHANGED runs

-----------------------------------------------------------------------------

ExecTypeOK ==
    /\ exec \in [Ids -> ExecStates]
    /\ newer \in [Ids -> SUBSET Ids]
    /\ group \in [Ids -> BOOLEAN]
    /\ runs \in [Ids -> Nat]
    /\ poll \in [Ids -> Outputs \cup {"idle", "parked", "lost"}]

=============================================================================

-------------------------- MODULE CommandEffectProofs --------------------------
(***************************************************************************)
(* Proofs about the command Effect, for every set of Effects, every bound  *)
(* and every choice of the idempotent ones.                                *)
(***************************************************************************)
EXTENDS CommandEffect, FiniteSetTheorems, TLAPS

\* A leaf that names no prover is tried with Zenon, then with SMT.
USE ZenonT(30), SMTT(30)

\* The part of the state the safety argument rests on: the run in memory, its
\* saved copy, and what left for the Harness.
LedgerTypeOK ==
    /\ mem \in [Ids -> Views]
    /\ disk \in [Ids -> Views]
    /\ pc \in [Ids -> {"off", "sending", "reading", "following", "reattach",
                       "deliver"}]
    /\ starts \in [Ids -> Nat]
    /\ runs \in [Ids -> Nat]
    /\ heard \in [Ids -> SUBSET Results]

\* A child a state has not invoked has no row, in memory or on disk, and an
\* active child has one: the intent row is saved with the child.
RowFollowsChild ==
    \A e \in Ids :
        /\ mem[e].child = "idle" => mem[e].row = "none"
        /\ disk[e].child = "idle" => disk[e].row = "none"
        /\ mem[e].child = "active" => mem[e].row # "none"
        /\ disk[e].child = "active" => disk[e].row # "none"

\* A row is saved as it is written, an abort aside: it is missing or settled
\* in memory and on disk alike, and a settled row has one output.
RowSaved ==
    \A e \in Ids :
        /\ mem[e].row = "none" <=> disk[e].row = "none"
        /\ mem[e].row = "settled" <=> disk[e].row = "settled"
        /\ mem[e].row = "settled" =>
             mem[e].out = disk[e].out /\ mem[e].out # "none"

\* `drive` sends and reads under an intent row, and delivers a settled one.
DriveFollowsRow ==
    \A e \in Ids :
        /\ pc[e] \notin {"off", "deliver"} => mem[e].row = "intent"
        /\ pc[e] = "deliver" => mem[e].row = "settled"

\* What the Machine heard is what the settled row says.
HeardIsRow ==
    \A e \in Ids :
        heard[e] # {} => mem[e].row = "settled" /\ heard[e] = {mem[e].out}

IInv ==
    /\ LedgerTypeOK
    /\ RowFollowsChild
    /\ RowSaved
    /\ DriveFollowsRow
    /\ HeardIsRow
    /\ WriteAhead
    /\ NoSecondFire

USE DEF Views, View, Results, Outputs

\* The inductive invariant holds before anything is invoked.
LEMMA IInvInit == Init => IInv
  BY EffectAssumption, SMTT(30)
     DEF Init, ExecInit, View, IInv, LedgerTypeOK, RowFollowsChild, RowSaved,
         DriveFollowsRow, HeardIsRow, WriteAhead, NoSecondFire

\* Settling an Effect under an intent row keeps the invariant: the settled
\* row is saved before the Machine hears its output.
LEMMA SettleKeeps ==
    ASSUME IInv, NEW e \in Ids, NEW o \in Results, Settle(e, o),
           mem[e].row = "intent", UNCHANGED <<starts, runs>>
    PROVE  IInv'
<1>1. /\ mem'[e] = View("done", "settled", o)
      /\ disk'[e] = View("active", "settled", o)
      /\ \A f \in Ids \ {e} : mem'[f] = mem[f] /\ disk'[f] = mem[f]
      /\ mem' \in [Ids -> Views]
      /\ disk' \in [Ids -> Views]
  BY DEF Settle, IInv, LedgerTypeOK
<1>2. /\ heard'[e] = {o}
      /\ \A f \in Ids \ {e} : heard'[f] = heard[f]
      /\ heard' \in [Ids -> SUBSET Results]
  BY DEF Settle, IInv, LedgerTypeOK, HeardIsRow
<1>3. pc' = [pc EXCEPT ![e] = "off"]
  BY DEF Settle
<1>4. LedgerTypeOK'
  BY <1>1, <1>2, <1>3 DEF IInv, LedgerTypeOK
<1>5. RowFollowsChild'
  BY <1>1, SMTT(30) DEF IInv, RowFollowsChild
<1>6. RowSaved'
  BY <1>1, SMTT(30) DEF IInv, RowSaved
<1>7. DriveFollowsRow'
  BY <1>1, <1>3, SMTT(30) DEF IInv, LedgerTypeOK, DriveFollowsRow
<1>8. HeardIsRow'
  BY <1>1, <1>2, SMTT(30) DEF IInv, HeardIsRow
<1>9. WriteAhead'
  BY <1>1, SMTT(30) DEF IInv, WriteAhead, RowSaved
<1>10. NoSecondFire'
  BY EffectAssumption DEF IInv, NoSecondFire
<1> QED
  BY <1>4, <1>5, <1>6, <1>7, <1>8, <1>9, <1>10 DEF IInv

\* Every step of the host, the wire and the Harness keeps the invariant.
LEMMA IInvStep == IInv /\ [Next]_vars => IInv'
<1> SUFFICES ASSUME IInv, [Next]_vars PROVE IInv'
  OBVIOUS
<1> USE EffectAssumption
<1> USE DEF IInv, LedgerTypeOK, RowFollowsChild, RowSaved, DriveFollowsRow,
            HeardIsRow, WriteAhead, NoSecondFire
<1>1. ASSUME NEW e \in Ids, Invoke(e) PROVE IInv'
  BY <1>1, SMTT(30) DEF Invoke, Send, execVars
<1>2. ASSUME NEW e \in Ids, InvokeFaulty(e) PROVE IInv'
  <2>1. CASE mem' = [mem EXCEPT ![e].child = "error"] /\ UNCHANGED <<disk, heard>>
    BY <1>2, <2>1, SMTT(30) DEF InvokeFaulty, execVars
  <2>2. CASE /\ mem' = [mem EXCEPT ![e] = View("done", "settled", "exit127")]
             /\ disk' = [mem EXCEPT ![e] = View("active", "settled", "exit127")]
             /\ heard' = [heard EXCEPT ![e] = @ \cup {"exit127"}]
    <3>1. heard[e] = {} /\ mem[e].row = "none"
      BY <1>2 DEF InvokeFaulty
    <3>2. heard'[e] = {"exit127"}
      BY <2>2, <3>1
    <3>3. /\ UNCHANGED <<pc, starts, runs>>
          /\ \A f \in Ids \ {e} : mem'[f] = mem[f] /\ disk'[f] = mem[f]
                                   /\ heard'[f] = heard[f]
      BY <1>2, <2>2, SMTT(30) DEF InvokeFaulty, execVars
    <3> QED
      BY <2>2, <3>1, <3>2, <3>3, SMTT(30)
  <2> QED
    BY <1>2, <2>1, <2>2 DEF InvokeFaulty
<1>3. ASSUME NEW e \in Ids, StartRefused(e) PROVE IInv'
  BY <1>3, SMTT(30) DEF StartRefused, execVars
<1>4. ASSUME NEW e \in Ids, ExitState(e) PROVE IInv'
  <2>1. /\ mem'[e] = View("stopped", IF mem[e].row = "intent" THEN "aborted"
                                     ELSE mem[e].row, mem[e].out)
        /\ \A f \in Ids \ {e} : mem'[f] = mem[f]
        /\ mem' \in [Ids -> Views]
    BY <1>4, SMTT(30) DEF ExitState
  <2>2. /\ UNCHANGED <<disk, starts, runs, heard>>
        /\ pc' = [pc EXCEPT ![e] = "off"]
        /\ mem[e].child = "active" /\ mem[e].row # "none"
    BY <1>4 DEF ExitState
  <2> HIDE DEF IInv, LedgerTypeOK, RowFollowsChild, RowSaved, DriveFollowsRow,
               HeardIsRow, WriteAhead, NoSecondFire
  <2>3. LedgerTypeOK'
    BY <2>1, <2>2 DEF IInv, LedgerTypeOK
  <2>4. RowFollowsChild' /\ RowSaved'
    BY <2>1, <2>2, SMTT(30) DEF IInv, RowFollowsChild, RowSaved
  <2>5. DriveFollowsRow'
    BY <2>1, <2>2 DEF IInv, LedgerTypeOK, DriveFollowsRow
  <2>6. HeardIsRow' /\ WriteAhead' /\ NoSecondFire'
    BY <2>1, <2>2, SMTT(30) DEF IInv, HeardIsRow, WriteAhead, NoSecondFire
  <2> QED
    BY <2>3, <2>4, <2>5, <2>6 DEF IInv
<1>5. ASSUME NEW e \in Ids, DriveStep(e) PROVE IInv'
  <2>1. CASE StartAnswered(e)
    BY <2>1, SMTT(30) DEF StartAnswered, execVars
  <2>2. CASE AskRead(e)
    BY <2>2 DEF AskRead, Read, orchVars
  <2>3. CASE Follow(e)
    BY <2>3, SMTT(30) DEF Follow, execVars
  <2>4. CASE ReadSettled(e)
    BY <2>4, SettleKeeps, poll[e] \in Results DEF ReadSettled, Reading
  <2>5. CASE ReadLostAgain(e)
    <3>1. /\ UNCHANGED <<mem, disk, runs, heard>>
          /\ pc' = [pc EXCEPT ![e] = "sending"]
          /\ starts' = [starts EXCEPT ![e] = @ + 1]
          /\ mem[e].row = "intent"
          /\ e \in Idempotent
      BY <2>5 DEF ReadLostAgain, Send, Reading
    <3> HIDE DEF IInv, LedgerTypeOK, RowFollowsChild, RowSaved,
                 DriveFollowsRow, HeardIsRow, WriteAhead, NoSecondFire
    <3>2. LedgerTypeOK'
      BY <3>1, SMTT(30) DEF IInv, LedgerTypeOK
    <3>3. RowFollowsChild' /\ RowSaved' /\ HeardIsRow'
      BY <3>1 DEF IInv, RowFollowsChild, RowSaved, HeardIsRow
    <3>4. DriveFollowsRow'
      BY <3>1 DEF IInv, LedgerTypeOK, DriveFollowsRow
    <3>5. WriteAhead' /\ NoSecondFire'
      BY <3>1 DEF IInv, LedgerTypeOK, RowSaved, WriteAhead, NoSecondFire
    <3> QED
      BY <3>2, <3>3, <3>4, <3>5 DEF IInv
  <2>6. CASE ReadLost(e)
    BY <2>6, SettleKeeps, "unknown" \in Results DEF ReadLost, Reading
  <2>7. CASE DeliverSettled(e)
    <3>1. /\ mem[e].row = "settled"
          /\ mem'[e] = View("done", "settled", mem[e].out)
          /\ \A f \in Ids \ {e} : mem'[f] = mem[f] /\ heard'[f] = heard[f]
          /\ mem' \in [Ids -> Views]
      BY <2>7, SMTT(30) DEF DeliverSettled
    <3>2. /\ heard'[e] = {mem[e].out}
          /\ mem[e].out # "none" => heard' \in [Ids -> SUBSET Results]
      BY <2>7, <3>1, SMTT(30) DEF DeliverSettled
    <3>3. /\ UNCHANGED <<disk, starts, runs>>
          /\ pc' = [pc EXCEPT ![e] = "off"]
      BY <2>7 DEF DeliverSettled, execVars
    <3> HIDE DEF IInv, LedgerTypeOK, RowFollowsChild, RowSaved,
                 DriveFollowsRow, HeardIsRow, WriteAhead, NoSecondFire
    <3>4. LedgerTypeOK'
      BY <3>1, <3>2, <3>3 DEF IInv, LedgerTypeOK, RowSaved
    <3>5. RowFollowsChild' /\ RowSaved'
      BY <3>1, <3>3, SMTT(30) DEF IInv, RowFollowsChild, RowSaved
    <3>6. DriveFollowsRow'
      BY <3>1, <3>3 DEF IInv, LedgerTypeOK, DriveFollowsRow
    <3>7. HeardIsRow'
      BY <3>1, <3>2, SMTT(30) DEF IInv, HeardIsRow
    <3>8. WriteAhead' /\ NoSecondFire'
      BY <3>3 DEF IInv, WriteAhead, NoSecondFire
    <3> QED
      BY <3>4, <3>5, <3>6, <3>7, <3>8 DEF IInv
  <2> HIDE DEF IInv, LedgerTypeOK, RowFollowsChild, RowSaved, DriveFollowsRow,
               HeardIsRow, WriteAhead, NoSecondFire
  <2> QED
    BY <1>5, <2>1, <2>2, <2>3, <2>4, <2>5, <2>6, <2>7 DEF DriveStep
<1>6. ASSUME NEW e \in Ids, PollEnds(e) \/ AnswerLost(e) PROVE IInv'
  BY <1>6, SMTT(30) DEF PollEnds, AnswerLost, ReadAgain, orchVars
<1>7. ASSUME NEW e \in Ids, StartArrives(e) PROVE IInv'
  <2>1. /\ UNCHANGED <<mem, disk, pc, heard>>
        /\ starts[e] > 0
        /\ starts' = [starts EXCEPT ![e] = @ - 1]
    BY <1>7 DEF StartArrives
  <2>2. runs' = runs \/ runs' = [runs EXCEPT ![e] = @ + 1]
    BY <1>7 DEF StartArrives, Start, StartKnown, StartRuns, StartNoFolder,
                execVars
  <2> QED
    BY <2>1, <2>2, SMTT(30)
<1>8. ASSUME NEW e \in Ids, StartLost(e) PROVE IInv'
  BY <1>8, SMTT(30) DEF StartLost, execVars
<1>9. ASSUME NEW e \in Ids, KillArrives(e) \/ KillGivesUp(e) PROVE IInv'
  BY <1>9, SMTT(30) DEF KillArrives, KillGivesUp, Kill, KillUnknown, KillKnown, SettleIn,
              execVars
<1>10. ASSUME NEW e \in Ids, ForgetArrives(e) PROVE IInv'
  BY <1>10 DEF ForgetArrives, Forget, execVars
<1>11. ASSUME NEW e \in Ids, ProcessStep(e) \/ SpawnerEnds(e) PROVE IInv'
  BY <1>11, SMTT(30) DEF ProcessStep, SpawnerEnds, Exit, TimesOut, SpawnFails,
               OrphanExits, orchVars
<1>12. CASE Save
  BY <1>12 DEF Save, execVars
<1>13. CASE Crash
  BY <1>13 DEF Crash
<1>14. CASE Restore
  <2>1. \A f \in Ids :
           /\ mem'[f] = IF disk[f].child = "active" /\ disk[f].row = "aborted"
                        THEN View("active", "settled", "unknown")
                        ELSE disk[f]
           /\ pc'[f] = Resumed(disk[f])
    BY <1>14 DEF Restore
  <2>2. mem' \in [Ids -> Views] /\ disk' = mem'
    BY <1>14, <2>1 DEF Restore
  <2>3. pc' \in [Ids -> {"off", "reattach", "deliver"}]
    BY <1>14 DEF Restore, Resumed
  <2>4. UNCHANGED <<starts, runs, heard>>
    BY <1>14 DEF Restore, execVars
  <2> QED
    BY <2>1, <2>2, <2>3, <2>4, SMTT(30) DEF Resumed
<1>15. CASE HarnessRestarts
  BY <1>15 DEF HarnessRestarts, HarnessRestart
<1>16. CASE UNCHANGED vars
  BY <1>16 DEF vars, execVars, orchVars
<1> HIDE DEF IInv, LedgerTypeOK, RowFollowsChild, RowSaved, DriveFollowsRow,
             HeardIsRow, WriteAhead, NoSecondFire
<1> QED
  BY <1>1, <1>2, <1>3, <1>4, <1>5, <1>6, <1>7, <1>8, <1>9, <1>10, <1>11,
     <1>12, <1>13, <1>14, <1>15, <1>16 DEF Next

\* In every run, whatever crashes, restarts, loses and delays, the invariant
\* of the ledger holds.
LEMMA IInvAlways == Spec => []IInv
  BY IInvInit, IInvStep, PTL DEF Spec

\* No second fire: a command that is not marked idempotent is started at most
\* once (drive and startOnce of effect.ts, start of exec.ts).
THEOREM NoSecondFireHolds == Spec => []NoSecondFire
<1>1. IInv => NoSecondFire
  BY DEF IInv
<1> QED
  BY <1>1, IInvAlways, PTL

\* Nothing leaves for the Harness before its intent row is saved (the
\* write-ahead of drive, recordEffect of run-host.ts).
THEOREM WriteAheadHolds == Spec => []WriteAhead
<1>1. IInv => WriteAhead
  BY DEF IInv
<1> QED
  BY <1>1, IInvAlways, PTL

\* The Machine hears at most one outcome of an Effect, across every restore.
THEOREM OneOutcomeHolds == Spec => []OneOutcome
<1>1. IInv => OneOutcome
  <2> SUFFICES ASSUME IInv, NEW e \in Ids PROVE Cardinality(heard[e]) <= 1
    BY DEF OneOutcome
  <2>1. CASE heard[e] = {}
    BY <2>1, FS_EmptySet, SMTT(30)
  <2>2. CASE heard[e] = {mem[e].out}
    <3>1. Cardinality({mem[e].out}) = 1
      BY FS_Singleton
    <3> QED
      BY <2>2, <3>1, SMTT(30)
  <2> QED
    BY <2>1, <2>2 DEF IInv, HeardIsRow
<1> QED
  BY <1>1, IInvAlways, PTL

-----------------------------------------------------------------------------
(* A kill holds.  The Harness keeps the mark of a kill as a settled exec,  *)
(* and evicts settled execs by their order in the Map: the argument is for *)
(* Sandboxes that see no more Effects than the Harness keeps.              *)

\* The Map and its order are as they should be, and what a kill was answered
\* for, and no forget dropped since, is in the Map.
Marked ==
    /\ exec \in [Ids -> ExecStates]
    /\ newer \in [Ids -> SUBSET Ids]
    /\ \A i \in Ids : i \notin newer[i]
    /\ kept \subseteq Ids
    /\ \A e \in kept \ dropped : exec[e].st # "unknown"

\* With room for every id, settle evicts nothing.
LEMMA NothingEvicted ==
    ASSUME IsFiniteSet(Ids), Cardinality(Ids) <= KeepSettled,
           NEW ex, NEW nw \in [Ids -> SUBSET Ids], \A i \in Ids : i \notin nw[i]
    PROVE  EvictedOf(ex, nw) = {}
<1> SUFFICES ASSUME NEW i \in Ids
             PROVE  ~(Cardinality(SettledIn(ex, nw[i])) >= KeepSettled)
  BY DEF EvictedOf, SettledIn
<1>1. SettledIn(ex, nw[i]) \subseteq Ids \ {i}
  BY DEF SettledIn
<1>2. /\ IsFiniteSet(Ids \ {i})
      /\ Cardinality(Ids \ {i}) = Cardinality(Ids) - 1
  BY FS_RemoveElement
<1>3. /\ Cardinality(SettledIn(ex, nw[i])) <= Cardinality(Ids \ {i})
      /\ IsFiniteSet(SettledIn(ex, nw[i]))
  BY <1>1, <1>2, FS_Subset
<1>4. /\ Cardinality(Ids) \in Nat /\ Cardinality(Ids \ {i}) \in Nat
      /\ Cardinality(SettledIn(ex, nw[i])) \in Nat
  BY <1>2, <1>3, FS_CardinalityType
<1> QED
  BY <1>2, <1>3, <1>4, KeepAssumption, SMTT(30)

\* So it settles the one exec, and the Map's order stays.
LEMMA SettleInKeeps ==
    ASSUME IsFiniteSet(Ids), Cardinality(Ids) <= KeepSettled, Marked,
           NEW i \in Ids, NEW why \in {"no", "timeout", "killed"},
           NEW o \in Outputs,
           NEW nw \in [Ids -> SUBSET Ids], \A j \in Ids : j \notin nw[j],
           SettleIn(nw, i, why, o)
    PROVE  /\ exec' \in [Ids -> ExecStates]
           /\ exec'[i].st = "settled" /\ \A j \in Ids \ {i} : exec'[j] = exec[j]
           /\ newer' \in [Ids -> SUBSET Ids] /\ \A j \in Ids : j \notin newer'[j]
<1> DEFINE settled == [exec EXCEPT ![i] = Settled(why, o)]
<1>1. EvictedOf(settled, nw) = {}
  BY NothingEvicted
<1>2. /\ exec' = [j \in Ids |-> IF j \in {} THEN Unknown ELSE settled[j]]
      /\ newer' = Without(nw, {})
  <2>1. /\ exec' = [j \in Ids |-> IF j \in EvictedOf(settled, nw) THEN Unknown
                                  ELSE settled[j]]
        /\ newer' = Without(nw, EvictedOf(settled, nw))
    BY DEF SettleIn
  <2> HIDE DEF settled
  <2> QED
    BY <1>1, <2>1
<1>3. Settled(why, o) \in ExecStates /\ Settled(why, o).st = "settled"
  BY DEF Settled, ExecStates, Outputs
<1>4. settled \in [Ids -> ExecStates] /\ settled[i] = Settled(why, o)
      /\ \A j \in Ids \ {i} : settled[j] = exec[j]
  BY <1>3 DEF Marked
<1> HIDE DEF settled
<1> QED
  BY <1>2, <1>3, <1>4 DEF Without

\* An id that is not in the Map enters it behind the others.
LEMMA EnteredOrder ==
    ASSUME Marked, NEW i \in Ids, exec[i].st = "unknown"
    PROVE  /\ Entered(i) \in [Ids -> SUBSET Ids]
           /\ \A j \in Ids : j \notin Entered(i)[j]
  BY DEF Entered, Known, Marked

\* A step of the Harness that drops no id keeps the marks.
LEMMA MarkedStays ==
    ASSUME Marked, exec' \in [Ids -> ExecStates], newer' \in [Ids -> SUBSET Ids],
           \A j \in Ids : j \notin newer'[j], UNCHANGED <<kept, dropped>>,
           \A j \in Ids : exec[j].st # "unknown" => exec'[j].st # "unknown"
    PROVE  Marked'
  BY DEF Marked

\* Every step keeps the marks, and starts nothing under one.
LEMMA MarkedStep ==
    ASSUME IsFiniteSet(Ids), Cardinality(Ids) <= KeepSettled, LedgerTypeOK,
           Marked, [Next]_vars
    PROVE  /\ Marked'
           /\ \A e \in kept \ dropped : runs'[e] = runs[e]
<1> DEFINE Goal == Marked' /\ \A e \in kept \ dropped : runs'[e] = runs[e]
<1>0. ASSUME UNCHANGED <<exec, newer, runs, kept, dropped>> PROVE Goal
  BY <1>0 DEF Marked
<1>1. ASSUME NEW e \in Ids,
             Invoke(e) \/ InvokeFaulty(e) \/ StartRefused(e) \/ ExitState(e)
               \/ DriveStep(e) \/ PollEnds(e) \/ AnswerLost(e) \/ StartLost(e)
               \/ KillGivesUp(e)
      PROVE  Goal
  BY <1>0, <1>1
     DEF Invoke, InvokeFaulty, StartRefused, ExitState, DriveStep, StartAnswered,
         AskRead, Follow, ReadSettled, ReadLostAgain, ReadLost, DeliverSettled,
         PollEnds, AnswerLost, StartLost, KillGivesUp, Read, ReadAgain, execVars,
         orchVars
<1>2. ASSUME NEW e \in Ids, StartArrives(e) PROVE Goal
  <2>1. UNCHANGED <<kept, dropped>>
    BY <1>2 DEF StartArrives
  <2>2. CASE StartKnown(e)
    BY <1>0, <2>1, <2>2 DEF StartKnown, execVars
  <2>3. CASE StartRuns(e)
    <3>1. /\ exec' \in [Ids -> ExecStates] /\ exec'[e].st = "running"
          /\ \A j \in Ids \ {e} : exec'[j] = exec[j]
      BY <2>3 DEF StartRuns, Running, ExecStates, Marked
    <3>2. newer' \in [Ids -> SUBSET Ids] /\ \A j \in Ids : j \notin newer'[j]
      BY <2>3, EnteredOrder DEF StartRuns
    <3>3. \A j \in kept \ dropped : j # e /\ j \in Ids
      BY <2>3 DEF StartRuns, Marked
    <3>4. \A j \in Ids \ {e} : runs'[j] = runs[j]
      BY <2>3 DEF StartRuns, LedgerTypeOK
    <3> QED
      BY <2>1, <3>1, <3>2, <3>3, <3>4, MarkedStays
  <2>4. CASE StartNoFolder(e)
    <3>1. Entered(e) \in [Ids -> SUBSET Ids] /\ \A j \in Ids : j \notin Entered(e)[j]
      BY <2>4, EnteredOrder DEF StartNoFolder
    <3>2. SettleIn(Entered(e), e, "no", "exit127") /\ UNCHANGED runs
      BY <2>4 DEF StartNoFolder
    <3> QED
      BY <2>1, <3>1, <3>2, SettleInKeeps, MarkedStays DEF Outputs
  <2> QED
    BY <1>2, <2>2, <2>3, <2>4 DEF StartArrives, Start
<1>3. ASSUME NEW e \in Ids, KillArrives(e) PROVE Goal
  <2>1. /\ kept' = kept \cup {e} /\ UNCHANGED <<dropped, runs>>
        /\ Kill(e)
    BY <1>3 DEF KillArrives, Kill, KillUnknown, KillKnown
  <2>2. CASE KillUnknown(e)
    <3>1. Entered(e) \in [Ids -> SUBSET Ids] /\ \A j \in Ids : j \notin Entered(e)[j]
      BY <2>2, EnteredOrder DEF KillUnknown
    <3>2. SettleIn(Entered(e), e, "killed", "killed")
      BY <2>2 DEF KillUnknown
    <3>3. /\ exec' \in [Ids -> ExecStates] /\ exec'[e].st = "settled"
          /\ \A j \in Ids \ {e} : exec'[j] = exec[j]
          /\ newer' \in [Ids -> SUBSET Ids] /\ \A j \in Ids : j \notin newer'[j]
      BY <3>1, <3>2, SettleInKeeps DEF Outputs
    <3> QED
      BY <2>1, <3>3 DEF Marked
  <2>3. CASE KillKnown(e)
    <3>1. /\ exec' \in [Ids -> ExecStates] /\ UNCHANGED newer
          /\ \A j \in Ids : exec'[j].st = exec[j].st
          /\ exec[e].st # "unknown"
      BY <2>3 DEF KillKnown, Marked, ExecStates
    <3> QED
      BY <2>1, <3>1 DEF Marked
  <2> QED
    BY <2>1, <2>2, <2>3 DEF Kill
<1>4. ASSUME NEW e \in Ids, ForgetArrives(e) PROVE Goal
  <2>1. CASE Forget(e) /\ dropped' = dropped \cup {e}
    <3>1. /\ exec' \in [Ids -> ExecStates]
          /\ \A j \in Ids \ {e} : exec'[j] = exec[j]
      BY <2>1, SMTT(30) DEF Forget, Marked, Unknown, ExecStates
    <3>2. newer' \in [Ids -> SUBSET Ids] /\ \A j \in Ids : j \notin newer'[j]
      BY <2>1, SMTT(30) DEF Forget, Without, Marked
    <3> QED
      BY <1>4, <2>1, <3>1, <3>2 DEF ForgetArrives, Forget, Marked
  <2>2. CASE UNCHANGED <<execVars, dropped>>
    BY <1>0, <1>4, <2>2 DEF ForgetArrives, execVars
  <2> QED
    BY <1>4, <2>1, <2>2 DEF ForgetArrives
<1>5. ASSUME NEW e \in Ids, ProcessStep(e) \/ SpawnerEnds(e) PROVE Goal
  <2>1. UNCHANGED <<kept, dropped, runs>>
    BY <1>5 DEF ProcessStep, SpawnerEnds, Exit, TimesOut, SpawnFails, OrphanExits,
                orchVars
  <2>2. ASSUME NEW why \in {"no", "timeout", "killed"}, NEW o \in Outputs,
               SettleIn(newer, e, why, o)
        PROVE  Goal
    BY <2>1, <2>2, SettleInKeeps, MarkedStays DEF Marked
  <2>3. exec[e].ended \in {"no", "timeout", "killed"}
    BY DEF Marked, ExecStates
  <2>4. CASE Exit(e) \/ SpawnFails(e, TRUE) \/ SpawnFails(e, FALSE)
    BY <2>2, <2>3, <2>4 DEF Exit, SpawnFails, Outputs
  <2>5. CASE TimesOut(e)
    <3>1. /\ exec' \in [Ids -> ExecStates] /\ UNCHANGED newer
          /\ \A j \in Ids : exec'[j].st = exec[j].st
      BY <2>5 DEF TimesOut, Marked, ExecStates
    <3> QED
      BY <2>1, <3>1, MarkedStays DEF Marked
  <2>6. CASE OrphanExits(e)
    BY <1>0, <2>1, <2>6 DEF OrphanExits
  <2> QED
    BY <1>5, <2>4, <2>5, <2>6 DEF ProcessStep, SpawnerEnds
<1>6. CASE Save \/ Crash \/ Restore
  BY <1>0, <1>6 DEF Save, Crash, Restore, execVars
<1>7. CASE HarnessRestarts
  <2>1. kept' = {} /\ UNCHANGED runs
    BY <1>7 DEF HarnessRestarts, HarnessRestart
  <2>2. exec' = [i \in Ids |-> Unknown] /\ newer' = [i \in Ids |-> {}]
    BY <1>7 DEF HarnessRestarts, HarnessRestart
  <2>3. Unknown \in ExecStates
    BY DEF Unknown, ExecStates
  <2> QED
    BY <2>1, <2>2, <2>3 DEF Marked
<1>8. CASE UNCHANGED vars
  BY <1>0, <1>8 DEF vars, execVars, orchVars
<1> QED
  BY <1>1, <1>2, <1>3, <1>4, <1>5, <1>6, <1>7, <1>8 DEF Next

\* A kill holds whatever order it arrives in (kill and start of exec.ts): in a
\* Sandbox that sees no more Effects than the Harness keeps settled, once this
\* Harness process has answered a kill and until it is told to forget the id,
\* it never starts the Effect, whatever is lost, late, crashed or restored.
THEOREM KillHoldsHere ==
    ASSUME IsFiniteSet(Ids), Cardinality(Ids) <= KeepSettled
    PROVE  Spec => KillHolds
<1> DEFINE Held == \A e \in (kept \ dropped) \cap (kept' \ dropped') :
                     runs'[e] = runs[e]
<1>1. Init => Marked
  BY SMTT(30) DEF Init, ExecInit, Unknown, ExecStates, Marked
<1>2. IInv /\ Marked /\ [Next]_vars => Marked' /\ Held
  BY MarkedStep DEF IInv
<1>3. Spec => [](IInv /\ Marked)
  BY <1>1, <1>2, IInvAlways, PTL DEF Spec
<1>4. IInv /\ Marked /\ [Next]_vars => [Held]_vars
  BY <1>2
<1>5. Spec => [][Held]_vars
  BY <1>3, <1>4, PTL DEF Spec
<1> QED
  BY <1>5 DEF KillHolds

=============================================================================

--------------------------- MODULE RunHostProofs ---------------------------
(***************************************************************************)
(* For every number of runs, callers, keys, waiters and faults: the run    *)
(* host's type invariant, and one run per key.                             *)
(*                                                                         *)
(* OneRunPerKey is not inductive: nothing in it says what a start knows    *)
(* between its lookup and the spawn.  Core adds that.  A start in flight   *)
(* holds its key (Owner), the only run that can carry the key is the one   *)
(* its lookup found (Alone), that run is not hosted once its row is gone   *)
(* (Gone), ids not yet given name nothing (Fresh), and what a restore will *)
(* host has a row (Listed).                                                *)
(***************************************************************************)
EXTENDS RunHost, TLAPS

\* A leaf that names no prover is tried with Zenon, then with SMT.
USE ZenonT(30), SMTT(30)

\* A run that the store or this process knows.
Present(r) == row[r] # "none" \/ act[r] # "no"

\* A start in flight holds its key, and one that has its run knows it.
Owner ==
  \A c \in Callers :
    /\ call[c].st \in {"asked", "started"} =>
         call[c].key \in Keys /\ dispatching[call[c].key] = c
    /\ call[c].st = "started" => call[c].run \in Runs

\* Between a start's lookup and its spawn, no run carries its key but the one
\* that the lookup found.
Alone ==
  \A c \in Callers : call[c].st = "asked" =>
    \A q \in Runs : Present(q) /\ key[q] = call[c].key => q = call[c].run

\* The run that a lookup found is not hosted when its row is gone.
Gone ==
  \A c \in Callers : call[c].st = "asked" =>
    \A q \in Runs : q = call[c].run /\ row[q] = "none" => act[q] = "no"

\* No run has an id that was not given yet, and no start found one.
Fresh ==
  /\ \A r \in Runs : r >= next => ~Present(r)
  /\ \A c \in Callers : call[c].run < next

\* A run that a restore will host has a row.
Listed ==
  /\ \A r \in todo : row[r] # "none"
  /\ cur.at # "none" => cur.run \in Runs /\ row[cur.run] # "none"

Core == OneRunPerKey /\ Owner /\ Alone /\ Gone /\ Fresh /\ Listed
IInv == TypeOK /\ Core

----------------------------------------------------------------------------
(* The type invariant. *)

\* What the constants' assumptions say of the ids.
LEMMA Ids ==
  /\ MaxRuns \in Nat /\ Runs \subseteq Nat \ {0} /\ NoRun \notin Runs
  /\ NoKey \notin Keys /\ Nobody \notin Callers
  BY BoundsAreNaturals, NullsAreApart, SMTT(30) DEF Runs, NoRun

\* The save of a run keeps the store's type.
LEMMA SaveRowType ==
  ASSUME TypeOK, NEW r \in Runs, NEW status \in Ended \cup {"live"},
         SaveRow(r, status)
  PROVE  /\ row' \in [Runs -> Ended \cup {"none", "live"}]
         /\ saveFaults' \in 0..MaxSaveFaults
  BY BoundsAreNaturals, SMTT(30) DEF TypeOK, SaveRow

\* What a listener is told keeps its type.
LEMMA FireSettledType ==
  ASSUME TypeOK, NEW r \in Runs, NEW status \in Ended, FireSettled(r, status)
  PROVE  wait' \in [Waiters -> [st : {"idle", "attached", "told"},
                                run : Runs \cup {NoRun},
                                read : Ended \cup {"none", "live"},
                                told : Ended \cup {"none"}]]
  BY DEF TypeOK, FireSettled

\* The terminal save keeps the types of all it writes.
LEMMA PersistEndType ==
  ASSUME TypeOK, NEW r \in Runs, NEW status \in Ended, PersistEnd(r, status),
         UNCHANGED <<mode, assembled, key, next, unhosted, calls, restore,
                     crashes, restoreFaults, swept>>
  PROVE  TypeOK'
<1>1. /\ row' \in [Runs -> Ended \cup {"none", "live"}]
      /\ saveFaults' \in 0..MaxSaveFaults
  BY SaveRowType DEF PersistEnd
<1>2. wait' \in [Waiters -> [st : {"idle", "attached", "told"},
                             run : Runs \cup {NoRun},
                             read : Ended \cup {"none", "live"},
                             told : Ended \cup {"none"}]]
  BY FireSettledType DEF PersistEnd
<1>3. act' \in [Runs -> {"no", "dirty", "clean", "over"}]
  BY DEF PersistEnd, TypeOK
<1> QED
  BY <1>1, <1>2, <1>3 DEF TypeOK, calls, restore

\* A lookup answers a call of its type.
LEMMA DispatchedType ==
  ASSUME IInv, NEW k \in Keys
  PROVE  Dispatched(k) \in [st : {"asked", "started"}, key : {k},
                            run : Runs \cup {NoRun}]
<1>1. CASE HostedWith(k) # {}
  <2>1. (CHOOSE r \in HostedWith(k) : TRUE) \in Runs
    BY <1>1 DEF HostedWith
  <2> QED
    BY <1>1, <2>1 DEF Dispatched
<1>2. CASE HostedWith(k) = {} /\ StoredWith(k) # {}
  <2>1. PICK r \in StoredWith(k) : TRUE
    BY <1>2
  <2>2. \A q \in StoredWith(k) : q = r
    BY <2>1, Ids DEF IInv, Core, OneRunPerKey, StoredWith, Hosted
  <2>3. \E m \in StoredWith(k) : \A q \in StoredWith(k) : m <= q
    BY <2>1, <2>2, Ids, SMTT(30) DEF StoredWith
  <2>4. (CHOOSE m \in StoredWith(k) : \A q \in StoredWith(k) : m <= q) \in Runs
    BY <2>3 DEF StoredWith
  <2> QED
    BY <1>2, <2>4 DEF Dispatched
<1>3. CASE HostedWith(k) = {} /\ StoredWith(k) = {}
  BY <1>3 DEF Dispatched
<1> QED
  BY <1>1, <1>2, <1>3

\* Every step keeps the types.
LEMMA TypeStep == IInv /\ [Next]_vars => TypeOK'
<1> SUFFICES ASSUME IInv, [Next]_vars PROVE TypeOK'
  OBVIOUS
<1>0. TypeOK /\ Runs \subseteq Nat \ {0} /\ MaxRuns \in Nat
  BY Ids DEF IInv
<1> DEFINE Calls == [st : {"idle", "asked", "joined", "started"},
                     key : Keys \cup {NoKey}, run : Runs \cup {NoRun}]
<1>1. ASSUME NEW c \in Callers, NEW k \in Keys, CallStart(c, k) PROVE TypeOK'
  <2>1. Dispatched(k) \in Calls
    BY DispatchedType
  <2>2. PICK d \in Calls : call' = [call EXCEPT ![c] = d]
    BY <1>1, <2>1 DEF CallStart, Start, StartShared, StartHeld
  <2>3. call' \in [Callers -> Calls]
    BY <1>0, <2>2 DEF TypeOK
  <2>4. dispatching' \in [Keys -> Callers \cup {Nobody}]
    BY <1>0, <1>1, SMTT(30) DEF CallStart, Start, StartShared, StartHeld, TypeOK
  <2> QED
    BY <1>0, <1>1, <2>3, <2>4
       DEF CallStart, TypeOK, store, restore, faults, history
<1>2. ASSUME NEW c \in Callers, Resolve(c) PROVE TypeOK'
  <2>1. call' \in [Callers -> Calls]
    BY <1>0, <1>2, SMTT(30) DEF Resolve, TypeOK
  <2> QED
    BY <1>0, <1>2, <2>1 DEF Resolve, TypeOK, store, restore, faults, history
<1>3. ASSUME NEW c \in Callers, StartFresh(c) PROVE TypeOK'
  <2>1. call' \in [Callers -> Calls]
    BY <1>0, <1>3 DEF StartFresh, TypeOK
  <2>2. /\ act' \in [Runs -> {"no", "dirty", "clean", "over"}]
        /\ key' \in [Runs -> Keys \cup {NoKey}]
    BY <1>0, <1>3 DEF StartFresh, TypeOK
  <2>3. next' \in 1..(MaxRuns + 1)
    BY <1>0, <1>3, SMTT(30) DEF StartFresh, TypeOK, Runs
  <2> QED
    BY <1>0, <1>3, <2>1, <2>2, <2>3
       DEF StartFresh, TypeOK, restore, faults, history
<1>4. ASSUME NEW c \in Callers, Refuse(c) PROVE TypeOK'
  <2>1. call' \in [Callers -> Calls]
    BY <1>0, <1>4 DEF Refuse, IdleCall, TypeOK
  <2>2. dispatching' \in [Keys -> Callers \cup {Nobody}]
    BY <1>0, <1>4 DEF Refuse, TypeOK
  <2> QED
    BY <1>0, <1>4, <2>1, <2>2 DEF Refuse, TypeOK, store, restore, faults, history
<1>5. ASSUME NEW c \in Callers, Answer(c) PROVE TypeOK'
  <2>1. call[c].run \in Runs
    BY <1>5 DEF Answer, IInv, Core, Owner
  <2>2. call' \in [Callers -> Calls]
    BY <1>0, <1>5 DEF Answer, IdleCall, TypeOK
  <2>3. dispatching' \in [Keys -> Callers \cup {Nobody}]
    BY <1>0, <1>5 DEF Answer, TypeOK
  <2>4. answers' \in [Keys -> SUBSET Runs]
    BY <1>0, <1>5, <2>1 DEF Answer, TypeOK
  <2> QED
    BY <1>0, <1>5, <2>2, <2>3, <2>4
       DEF Answer, TypeOK, store, restore, faults, history
<1>6. ASSUME NEW r \in Runs, Transition(r) \/ Finish(r) PROVE TypeOK'
  <2>1. act' \in [Runs -> {"no", "dirty", "clean", "over"}]
    BY <1>0, <1>6, SMTT(30) DEF Transition, Finish, TypeOK
  <2> QED
    BY <1>0, <1>6, <2>1 DEF Transition, Finish, TypeOK, store, calls, restore,
                            faults, history
<1>7. ASSUME NEW r \in Runs, PersistLive(r) PROVE TypeOK'
  <2>1. /\ row' \in [Runs -> Ended \cup {"none", "live"}]
        /\ saveFaults' \in 0..MaxSaveFaults
    BY <1>0, <1>7, SaveRowType DEF PersistLive
  <2> QED
    BY <1>0, <1>7, <2>1 DEF PersistLive, TypeOK, calls, restore, history
<1>8. ASSUME NEW r \in Runs, PersistDone(r) \/ Fault(r) \/ End(r) PROVE TypeOK'
  <2>1. PICK status \in Ended : PersistEnd(r, status)
    BY <1>8 DEF PersistDone, Fault, End, Ended
  <2>2. UNCHANGED <<mode, assembled, key, next, unhosted, calls, restore,
                    crashes, restoreFaults, swept>>
    BY <1>8 DEF PersistDone, Fault, End, history
  <2> QED
    BY <1>0, <2>1, <2>2, PersistEndType DEF TypeOK
<1>9. ASSUME NEW r \in Runs, Cancel(r) PROVE TypeOK'
  <2>1. CASE PersistEnd(r, "cancelled")
    BY <1>0, <1>9, <2>1, PersistEndType DEF Cancel, Ended, history
  <2>2. CASE UNCHANGED <<row, act, wait, saveFaults>>
    BY <1>0, <1>9, <2>2 DEF Cancel, TypeOK, calls, restore, history
  <2> QED
    BY <1>9, <2>1, <2>2 DEF Cancel
<1>10. ASSUME NEW r \in Runs, Sweep(r) PROVE TypeOK'
  BY <1>0, <1>10 DEF Sweep, TypeOK, calls, restore, faults
<1>11. ASSUME NEW w \in Waiters, WaitStep(w) PROVE TypeOK'
  <2>1. ASSUME NEW r \in Runs, OnSettled(w, r) PROVE TypeOK'
    BY <1>0, <2>1 DEF OnSettled, TypeOK, store, calls, restore, faults, history
  <2>2. CASE ReadAnswer(w)
    BY <1>0, <2>2, SMTT(30) DEF ReadAnswer, TypeOK, store, calls, restore, faults, history
  <2>3. CASE Detach(w)
    BY <1>0, <2>3 DEF Detach, IdleWait, TypeOK, store, calls, restore, faults,
                      history
  <2> QED
    BY <1>11, <2>1, <2>2, <2>3 DEF WaitStep
<1>12. ASSUME NEW r \in Runs, RestoreNext(r) PROVE TypeOK'
  BY <1>0, <1>12 DEF RestoreNext, NoCur, TypeOK, store, calls, faults, history
<1>13. CASE Reattach \/ RestoreDone \/ RestoreThrows
  <2>1. CASE Reattach
    <3>1. act' \in [Runs -> {"no", "dirty", "clean", "over"}]
      BY <1>0, <2>1 DEF Reattach, TypeOK
    <3>2. cur' \in [run : Runs \cup {NoRun},
                    at : {"none", "asking", "lost", "drifted"}]
      BY <2>1 DEF Reattach, NoCur
    <3> QED
      BY <1>0, <2>1, <3>1, <3>2 DEF Reattach, TypeOK, store, calls, faults,
                                    history
  <2>2. CASE RestoreDone
    BY <1>0, <2>2 DEF RestoreDone, TypeOK, store, calls, faults, history
  <2>3. CASE RestoreThrows
    <3>1. restoreFaults' \in 0..MaxRestoreFaults
      BY <1>0, <2>3, BoundsAreNaturals, SMTT(30) DEF RestoreThrows, TypeOK
    <3> QED
      BY <1>0, <2>3, <3>1 DEF RestoreThrows, NoCur, TypeOK, store, calls, history
  <2> QED
    BY <1>13, <2>1, <2>2, <2>3
<1>14. CASE MarkRow
  <2>1. row' \in [Runs -> Ended \cup {"none", "live"}]
    BY <1>0, <1>14 DEF MarkRow, TypeOK, Ended
  <2>2. cur' \in [run : Runs \cup {NoRun},
                  at : {"none", "asking", "lost", "drifted"}]
    BY <1>0, <1>14 DEF MarkRow, TypeOK
  <2> QED
    BY <1>0, <1>14, <2>1, <2>2 DEF MarkRow, TypeOK, calls, faults, history
<1>15. CASE LeaveToRetry
  BY <1>0, <1>15 DEF LeaveToRetry, NoCur, TypeOK, IInv, Core, Listed, store,
                     calls, faults, history
<1>16. CASE SettledUnhosted
  <2>1. wait' \in [Waiters -> [st : {"idle", "attached", "told"},
                               run : Runs \cup {NoRun},
                               read : Ended \cup {"none", "live"},
                               told : Ended \cup {"none"}]]
    <3>1. cur.run \in Runs /\ cur.at \in Ended
      BY <1>16 DEF SettledUnhosted, IInv, Core, Listed, Ended
    <3> QED
      BY <1>0, <1>16, <3>1, FireSettledType DEF SettledUnhosted
  <2> QED
    BY <1>0, <1>16, <2>1 DEF SettledUnhosted, NoCur, TypeOK, store, calls,
                             faults, history
<1>17. CASE Boot \/ BootDeferred \/ Publish
  BY <1>0, <1>17 DEF Boot, BootDeferred, Publish, LiveRows, TypeOK, store, calls,
                     faults, history
<1>18. CASE Crash
  <2>1. /\ call' \in [Callers -> [st : {"idle", "asked", "joined", "started"},
                                  key : Keys \cup {NoKey},
                                  run : Runs \cup {NoRun}]]
        /\ dispatching' \in [Keys -> Callers \cup {Nobody}]
        /\ act' \in [Runs -> {"no", "dirty", "clean", "over"}]
    BY <1>18 DEF Crash, IdleCall
  <2>2. wait' \in [Waiters -> [st : {"idle", "attached", "told"},
                               run : Runs \cup {NoRun},
                               read : Ended \cup {"none", "live"},
                               told : Ended \cup {"none"}]]
    BY <1>18 DEF Crash, IdleWait
  <2>3. cur' \in [run : Runs \cup {NoRun},
                  at : {"none", "asking", "lost", "drifted"}]
    BY <1>18 DEF Crash, NoCur
  <2>4. crashes' \in 0..MaxCrashes
    BY <1>0, <1>18, BoundsAreNaturals, SMTT(30) DEF Crash, TypeOK
  <2> QED
    BY <1>0, <1>18, <2>1, <2>2, <2>3, <2>4 DEF Crash, TypeOK, store, history
<1>19. CASE UNCHANGED vars
  BY <1>0, <1>19 DEF vars, TypeOK, store, calls, restore, faults, history
<1> QED
  BY <1>1, <1>2, <1>3, <1>4, <1>5, <1>6, <1>7, <1>8, <1>9, <1>10, <1>11, <1>12,
     <1>13, <1>14, <1>15, <1>16, <1>17, <1>18, <1>19
     DEF Next, CallStep, RunStep, RestoreStep

----------------------------------------------------------------------------
(* One run per key. *)

\* A step that starts no run and looks none up keeps the argument, when it
\* makes no run present, and hosts none that has no row.
LEMMA Shrinks ==
  ASSUME IInv, UNCHANGED <<call, dispatching, key, next>>,
         \A r \in Runs : Present(r)' => Present(r),
         \A r \in Runs : row'[r] = "none" /\ act'[r] # "no" => row[r] = "none",
         Listed'
  PROVE  Core'
<1>1. OneRunPerKey'
  BY DEF IInv, Core, OneRunPerKey, Present, Hosted
<1>2. Owner'
  BY DEF IInv, Core, Owner
<1>3. Alone'
  BY DEF IInv, Core, Alone
<1>4. Gone'
  BY DEF IInv, Core, Gone, Present
<1>5. Fresh'
  BY DEF IInv, Core, Fresh
<1> QED
  BY <1>1, <1>2, <1>3, <1>4, <1>5 DEF Core

\* A start that ends, answered or refused, lets go of its key and of nothing
\* else.
LEMMA LetGo ==
  ASSUME IInv, NEW c \in Callers, call[c].st \in {"asked", "started"},
         call' = [d \in Callers |->
                    IF d \in AnsweredBy(c) THEN IdleCall ELSE call[d]],
         dispatching' = [dispatching EXCEPT ![call[c].key] = Nobody],
         UNCHANGED <<row, key, next, act, todo, cur>>
  PROVE  Core'
<1>1. \A d \in Callers :
        \/ call'[d] = IdleCall
        \/ call'[d] = call[d] /\ d # c
  BY DEF AnsweredBy
<1>2. OneRunPerKey' /\ Listed'
  BY DEF IInv, Core, OneRunPerKey, Listed, Hosted
<1>3. Owner'
  BY <1>1, SMTT(30) DEF IInv, Core, Owner, TypeOK, IdleCall
<1>4. Alone' /\ Gone'
  BY <1>1 DEF IInv, Core, Alone, Gone, Present, IdleCall
<1>5. Fresh'
  BY <1>1, SMTT(30) DEF IInv, TypeOK, Core, Fresh, Present, IdleCall, NoRun
<1> QED
  BY <1>2, <1>3, <1>4, <1>5 DEF Core

\* What a lookup says: a hosted run is the answer; else no run but the one it
\* found carries the key, and that one has a row.
LEMMA DispatchedFinds ==
  ASSUME IInv, NEW k \in Keys
  PROVE  LET d == Dispatched(k)
         IN /\ d.st = "started" => d.run \in Runs /\ Present(d.run)
            /\ d.st = "asked" =>
                 /\ \A q \in Runs : Present(q) /\ key[q] = k => q = d.run
                 /\ d.run # NoRun => d.run \in Runs /\ row[d.run] # "none"
<1>1. CASE HostedWith(k) # {}
  <2>1. (CHOOSE r \in HostedWith(k) : TRUE) \in HostedWith(k)
    BY <1>1
  <2> QED
    BY <1>1, <2>1 DEF Dispatched, HostedWith, Hosted, Present
<1>2. CASE HostedWith(k) = {}
  <2>1. \A q \in Runs : Present(q) /\ key[q] = k => q \in StoredWith(k)
    BY <1>2 DEF HostedWith, Hosted, StoredWith, Present
  <2>2. \A q, r \in StoredWith(k) : q = r
    BY Ids DEF IInv, Core, OneRunPerKey, StoredWith
  <2>3. CASE StoredWith(k) = {}
    BY <1>2, <2>1, <2>3 DEF Dispatched
  <2>4. CASE StoredWith(k) # {}
    <3> DEFINE m == CHOOSE r \in StoredWith(k) : \A q \in StoredWith(k) : r <= q
    <3>1. \E r \in StoredWith(k) : \A q \in StoredWith(k) : r <= q
      <4>1. PICK r \in StoredWith(k) : TRUE
        BY <2>4
      <4>2. \A q \in StoredWith(k) : q = r /\ r \in Nat
        BY <2>2, <4>1, Ids DEF StoredWith
      <4> QED
        BY <4>1, <4>2, SMTT(30)
    <3>2. m \in StoredWith(k)
      BY <3>1
    <3>3. Dispatched(k) = [st |-> "asked", key |-> k, run |-> m]
      BY <1>2, <2>4 DEF Dispatched
    <3> HIDE DEF m
    <3> QED
      BY <2>1, <2>2, <3>2, <3>3, SMTT(30) DEF StoredWith
  <2> QED
    BY <2>3, <2>4
<1> QED
  BY <1>1, <1>2

\* Every step keeps the argument.
LEMMA CoreStep == IInv /\ [Next]_vars => Core'
<1> SUFFICES ASSUME IInv, [Next]_vars PROVE Core'
  OBVIOUS
<1>0. TypeOK /\ Core
  BY DEF IInv
<1>1. ASSUME NEW c \in Callers, NEW k \in Keys, CallStart(c, k) PROVE Core'
  <2>1. UNCHANGED <<row, key, next, act, todo, cur>> /\ call[c].st = "idle"
    BY <1>1 DEF CallStart, store, restore
  <2>2. OneRunPerKey' /\ Listed'
    BY <1>0, <2>1 DEF Core, OneRunPerKey, Listed, Hosted
  <2>3. CASE StartShared(c, k)
    <3>1. \A d \in Callers :
            \/ call'[d] = call[d]
            \/ call'[d] = [st |-> "joined", key |-> k, run |-> NoRun]
      BY <1>0, <2>3 DEF StartShared, TypeOK
    <3>2. Owner'
      BY <1>0, <2>3, <3>1, SMTT(30) DEF StartShared, Core, Owner
    <3>3. Alone' /\ Gone'
      BY <1>0, <2>1, <3>1, SMTT(30) DEF Core, Alone, Gone, Present
    <3>4. Fresh'
      BY <1>0, <2>1, <3>1, SMTT(30) DEF TypeOK, Core, Fresh, Present, NoRun
    <3> QED
      BY <2>2, <3>2, <3>3, <3>4 DEF Core
  <2>4. CASE StartHeld(c, k)
    <3> DEFINE d == Dispatched(k)
    <3>1. /\ call'[c] = d
          /\ \A e \in Callers \ {c} : call'[e] = call[e]
      BY <1>0, <2>4 DEF StartHeld, TypeOK
    <3>2. /\ d.key = k
          /\ d.st = "started" => d.run \in Runs /\ Present(d.run)
          /\ d.st = "asked" =>
               /\ \A q \in Runs : Present(q) /\ key[q] = k => q = d.run
               /\ d.run # NoRun => d.run \in Runs /\ row[d.run] # "none"
          /\ d.st \in {"asked", "started"}
      BY DispatchedFinds, DispatchedType
    <3> HIDE DEF d
    <3>3. dispatching'[k] = c /\ \A j \in Keys \ {k} : dispatching'[j] = dispatching[j]
      BY <1>0, <2>4 DEF StartHeld, TypeOK
    <3>4. \A e \in Callers \ {c} :
            call[e].st \in {"asked", "started"} => call[e].key # k
      BY <1>0, <2>4, Ids DEF StartHeld, Core, Owner
    <3>5. Owner'
      BY <1>0, <3>1, <3>2, <3>3, <3>4, SMTT(30) DEF Core, Owner
    <3>6. Alone'
      BY <1>0, <2>1, <3>1, <3>2, SMTT(30) DEF Core, Alone, Present
    <3>7. Gone'
      BY <1>0, <2>1, <3>1, <3>2, Ids DEF Core, Gone
    <3>8. Fresh'
      <4>1. d.run < next
        BY <1>0, <3>2, Ids, SMTT(30) DEF TypeOK, Core, Fresh, Present, NoRun, Runs
      <4> QED
        BY <1>0, <2>1, <3>1, <4>1 DEF Core, Fresh, Present
    <3> QED
      BY <2>2, <3>5, <3>6, <3>7, <3>8 DEF Core
  <2> QED
    BY <1>1, <2>3, <2>4 DEF CallStart, Start
<1>2. ASSUME NEW c \in Callers, Resolve(c) PROVE Core'
  <2>1. UNCHANGED <<row, key, next, act, todo, cur, dispatching>>
    BY <1>2 DEF Resolve, store, restore
  <2>2. /\ call[c].st = "asked" /\ call[c].run # NoRun
        /\ call'[c].st = "started"
        /\ call'[c].key = call[c].key /\ call'[c].run = call[c].run
        /\ \A d \in Callers \ {c} : call'[d] = call[d]
    BY <1>0, <1>2 DEF Resolve, TypeOK
  <2>3. OneRunPerKey' /\ Listed'
    BY <1>0, <2>1 DEF Core, OneRunPerKey, Listed, Hosted
  <2>4. Owner'
    BY <1>0, <2>1, <2>2, SMTT(30) DEF TypeOK, Core, Owner
  <2>5. Alone' /\ Gone' /\ Fresh'
    BY <1>0, <2>1, <2>2, SMTT(30) DEF Core, Alone, Gone, Fresh, Present
  <2> QED
    BY <2>3, <2>4, <2>5 DEF Core
<1>3. ASSUME NEW c \in Callers, StartFresh(c) PROVE Core'
  <2>1. /\ UNCHANGED <<row, todo, cur, dispatching>>
        /\ next \in Runs /\ next' = next + 1
        /\ act'[next] = "dirty" /\ key'[next] = call[c].key
        /\ \A r \in Runs \ {next} : act'[r] = act[r] /\ key'[r] = key[r]
    BY <1>0, <1>3 DEF StartFresh, TypeOK, restore
  <2>2. /\ call[c].st = "asked"
        /\ call[c].run # NoRun => row[call[c].run] = "none"
        /\ call'[c] = [st |-> "started", key |-> call[c].key, run |-> next]
        /\ \A d \in Callers \ {c} : call'[d] = call[d]
    BY <1>0, <1>3 DEF StartFresh, TypeOK
  <2>3. \A q \in Runs : Present(q) => key[q] # call[c].key
    BY <1>0, <2>2, Ids DEF Core, Alone, Gone, Present
  <2>4. OneRunPerKey'
    BY <1>0, <2>1, <2>3, SMTT(30) DEF Core, OneRunPerKey, Present, Hosted
  <2>5. Owner'
    BY <1>0, <2>1, <2>2, SMTT(30) DEF Core, Owner
  <2>6. \A d \in Callers \ {c} : call[d].st = "asked" => call[d].key # call[c].key
    BY <1>0, <2>2 DEF Core, Owner
  <2>7. Alone'
    BY <1>0, <2>1, <2>2, <2>6, SMTT(30) DEF Core, Alone, Present
  <2>8. Gone'
    BY <1>0, <2>1, <2>2, Ids, SMTT(30) DEF TypeOK, Core, Gone, Fresh
  <2>9. Fresh'
    <3>1. next \in Nat \ {0} /\ Runs \subseteq Nat
      BY <2>1, Ids
    <3>2. ASSUME NEW r \in Runs, r >= next' PROVE ~Present(r)'
      <4>1. r > next /\ r # next /\ r >= next
        BY <2>1, <3>1, <3>2, SMTT(30)
      <4>2. ~Present(r)
        BY <1>0, <4>1 DEF Core, Fresh
      <4> QED
        BY <2>1, <4>1, <4>2 DEF Present
    <3>3. \A d \in Callers : call[d].run \in Nat
      <4>1. \A d \in Callers : call[d].run \in Runs \cup {NoRun}
        BY <1>0 DEF TypeOK
      <4>2. Runs \cup {NoRun} \subseteq Nat
        BY <3>1, SMTT(30) DEF NoRun
      <4> QED
        BY <4>1, <4>2
    <3>4. \A d \in Callers : call'[d].run < next'
      BY <1>0, <2>1, <2>2, <3>1, <3>3, SMTT(30) DEF Core, Fresh
    <3> QED
      BY <3>2, <3>4 DEF Fresh
  <2>10. Listed'
    BY <1>0, <2>1 DEF Core, Listed
  <2> QED
    BY <2>4, <2>5, <2>7, <2>8, <2>9, <2>10 DEF Core
<1>4. ASSUME NEW c \in Callers, Refuse(c) \/ Answer(c) PROVE Core'
  BY <1>4, LetGo DEF Refuse, Answer, store, restore
<1>5. ASSUME NEW r \in Runs, Transition(r) \/ Finish(r) PROVE Core'
  <2>1. /\ UNCHANGED <<row, key, next, call, dispatching, todo, cur>>
        /\ act[r] # "no" /\ \A q \in Runs \ {r} : act'[q] = act[q]
    BY <1>0, <1>5 DEF Transition, Finish, TypeOK, store, calls, restore
  <2> QED
    BY <1>0, <2>1, Shrinks DEF Core, Listed, Present
<1>6. ASSUME NEW r \in Runs, PersistLive(r) PROVE Core'
  <2>1. /\ UNCHANGED <<key, next, call, dispatching, todo, cur>>
        /\ act[r] # "no" /\ \A q \in Runs \ {r} : act'[q] = act[q]
        /\ \A q \in Runs \ {r} : row'[q] = row[q]
        /\ row'[r] \in {row[r], "live"}
    BY <1>0, <1>6 DEF PersistLive, SaveRow, TypeOK, calls, restore
  <2>2. Listed'
    BY <1>0, <2>1, SMTT(30) DEF TypeOK, Core, Listed
  <2> QED
    BY <2>1, <2>2, Shrinks DEF Present
<1>7. ASSUME NEW r \in Runs, NEW status \in Ended, PersistEnd(r, status),
             act[r] # "no",
             UNCHANGED <<key, next, call, dispatching, todo, cur>>
      PROVE  Core'
  <2>1. /\ act'[r] = "no" /\ \A q \in Runs \ {r} : act'[q] = act[q]
        /\ \A q \in Runs \ {r} : row'[q] = row[q]
        /\ row'[r] \in {row[r], status}
    BY <1>0, <1>7 DEF PersistEnd, SaveRow, TypeOK
  <2>2. Listed'
    BY <1>0, <1>7, <2>1 DEF TypeOK, Core, Listed, Ended
  <2> QED
    BY <1>7, <2>1, <2>2, Shrinks DEF Present
<1>8. ASSUME NEW r \in Runs, PersistDone(r) \/ Fault(r) \/ End(r) PROVE Core'
  <2>1. \E status \in Ended : PersistEnd(r, status)
    BY <1>8 DEF PersistDone, Fault, End, Ended
  <2>2. act[r] # "no" /\ UNCHANGED <<key, next, call, dispatching, todo, cur>>
    BY <1>8 DEF PersistDone, Fault, End, Hosted, calls, restore
  <2> QED
    BY <1>7, <2>1, <2>2
<1>9. ASSUME NEW r \in Runs, Cancel(r) PROVE Core'
  <2>1. UNCHANGED <<key, next, call, dispatching, todo, cur>>
    BY <1>9 DEF Cancel, calls, restore
  <2>2. CASE Hosted(r) /\ PersistEnd(r, "cancelled")
    BY <1>7, <2>1, <2>2 DEF Hosted, Ended
  <2>3. CASE UNCHANGED <<row, act>>
    BY <1>0, <2>1, <2>3, Shrinks DEF Core, Listed, Present
  <2> QED
    BY <1>9, <2>2, <2>3 DEF Cancel
<1>10. ASSUME NEW r \in Runs, Sweep(r) PROVE Core'
  <2>1. /\ UNCHANGED <<key, next, call, dispatching, todo, cur, act>>
        /\ act[r] = "no" /\ r \notin todo /\ r # cur.run
        /\ \A q \in Runs \ {r} : row'[q] = row[q]
        /\ row[r] \in Ended /\ row'[r] = "none"
    BY <1>0, <1>10 DEF Sweep, Hosted, TypeOK, calls, restore
  <2>2. Listed'
    BY <1>0, <2>1 DEF TypeOK, Core, Listed
  <2> QED
    BY <2>1, <2>2, Shrinks DEF Present, Ended
<1>11. ASSUME NEW w \in Waiters, WaitStep(w) PROVE Core'
  <2>1. UNCHANGED <<row, act, key, next, call, dispatching, todo, cur>>
    BY <1>11 DEF WaitStep, OnSettled, ReadAnswer, Detach, store, calls, restore
  <2> QED
    BY <1>0, <2>1, Shrinks DEF Core, Listed, Present
<1>12. ASSUME NEW r \in Runs, RestoreNext(r) PROVE Core'
  <2>1. UNCHANGED <<row, act, key, next, call, dispatching>>
    BY <1>12 DEF RestoreNext, store, calls
  <2>2. Listed'
    BY <1>0, <1>12, <2>1 DEF RestoreNext, NoCur, Core, Listed
  <2> QED
    BY <2>1, <2>2, Shrinks DEF Present
<1>13. CASE Reattach
  <2>1. /\ UNCHANGED <<row, key, next, call, dispatching, todo>>
        /\ cur' = NoCur
        /\ cur.run \in Runs /\ row[cur.run] # "none"
        /\ \A q \in Runs \ {cur.run} : act'[q] = act[q]
    BY <1>0, <1>13 DEF Reattach, Core, Listed, TypeOK, store, calls
  <2>2. Listed'
    BY <1>0, <2>1 DEF Core, Listed, NoCur
  <2> QED
    BY <2>1, <2>2, Shrinks DEF Present
<1>14. CASE MarkRow
  <2>1. /\ UNCHANGED <<act, key, next, call, dispatching, todo>>
        /\ cur.run \in Runs /\ row[cur.run] # "none"
        /\ row'[cur.run] # "none" /\ cur'.run = cur.run
        /\ \A q \in Runs \ {cur.run} : row'[q] = row[q]
    BY <1>0, <1>14 DEF MarkRow, Core, Listed, TypeOK, calls
  <2>2. Listed'
    BY <1>0, <2>1 DEF TypeOK, Core, Listed
  <2> QED
    BY <2>1, <2>2, Shrinks DEF Present
<1>15. CASE LeaveToRetry \/ SettledUnhosted \/ RestoreThrows \/ RestoreDone
  <2>1. /\ UNCHANGED <<row, act, key, next, call, dispatching>>
        /\ todo' \subseteq todo /\ cur' = NoCur
    BY <1>15 DEF LeaveToRetry, SettledUnhosted, RestoreThrows, RestoreDone,
                 store, calls
  <2>2. Listed'
    BY <1>0, <2>1 DEF Core, Listed, NoCur
  <2> QED
    BY <2>1, <2>2, Shrinks DEF Present
<1>16. CASE Boot \/ BootDeferred \/ Publish
  <2>1. /\ UNCHANGED <<row, act, key, next, call, dispatching, cur>>
        /\ todo' \in {todo, LiveRows}
    BY <1>16 DEF Boot, BootDeferred, Publish, store, calls
  <2>2. Listed'
    BY <1>0, <2>1 DEF Core, Listed, LiveRows
  <2> QED
    BY <2>1, <2>2, Shrinks DEF Present
<1>17. CASE Crash
  <2>1. /\ UNCHANGED <<row, key, next>>
        /\ todo' = {} /\ cur' = NoCur
        /\ \A r \in Runs : act'[r] = "no"
        /\ \A c \in Callers : call'[c] = IdleCall
    BY <1>17 DEF Crash, store
  <2>2. OneRunPerKey'
    BY <1>0, <2>1 DEF Core, OneRunPerKey, Hosted
  <2>3. Owner' /\ Alone' /\ Gone' /\ Listed'
    BY <2>1, SMTT(30) DEF Owner, Alone, Gone, Listed, IdleCall, NoCur
  <2>4. Fresh'
    BY <1>0, <2>1, SMTT(30) DEF TypeOK, Core, Fresh, Present, IdleCall, NoRun
  <2> QED
    BY <2>2, <2>3, <2>4 DEF Core
<1>18. CASE UNCHANGED vars
  <2>1. UNCHANGED <<row, act, key, next, call, dispatching, todo, cur>>
    BY <1>18 DEF vars, store, calls, restore
  <2> QED
    BY <1>0, <2>1, Shrinks DEF Core, Listed, Present
<1> QED
  BY <1>1, <1>2, <1>3, <1>4, <1>5, <1>6, <1>8, <1>9, <1>10, <1>11, <1>12,
     <1>13, <1>14, <1>15, <1>16, <1>17, <1>18
     DEF Next, CallStep, RunStep, RestoreStep

----------------------------------------------------------------------------
\* The invariant holds before anything is started.
LEMMA IInvInit == Init => IInv
<1> SUFFICES ASSUME Init PROVE IInv
  OBVIOUS
<1>1. TypeOK
  <2>1. /\ call \in [Callers -> [st : {"idle", "asked", "joined", "started"},
                                 key : Keys \cup {NoKey},
                                 run : Runs \cup {NoRun}]]
        /\ cur \in [run : Runs \cup {NoRun},
                    at : {"none", "asking", "lost", "drifted"}]
    BY DEF Init, IdleCall, NoCur
  <2>2. wait \in [Waiters -> [st : {"idle", "attached", "told"},
                              run : Runs \cup {NoRun},
                              read : Ended \cup {"none", "live"},
                              told : Ended \cup {"none"}]]
    BY DEF Init, IdleWait
  <2>3. next \in 1..(MaxRuns + 1)
    BY Ids, SMTT(30) DEF Init
  <2>4. /\ crashes \in 0..MaxCrashes /\ saveFaults \in 0..MaxSaveFaults
        /\ restoreFaults \in 0..MaxRestoreFaults
    BY BoundsAreNaturals, SMTT(30) DEF Init
  <2> QED
    BY <2>1, <2>2, <2>3, <2>4 DEF Init, TypeOK
<1>2. OneRunPerKey /\ Owner /\ Alone /\ Gone /\ Listed
  BY DEF Init, OneRunPerKey, Hosted, Owner, Alone, Gone, Listed, IdleCall, NoCur
<1>3. Fresh
  BY SMTT(30) DEF Init, Fresh, Present, IdleCall, NoRun
<1> QED
  BY <1>1, <1>2, <1>3 DEF IInv, Core

\* The invariant holds in every run.
LEMMA IInvAlways == Spec => []IInv
<1>1. IInv /\ [Next]_vars => IInv'
  BY TypeStep, CoreStep DEF IInv
<1> QED
  BY <1>1, IInvInit, PTL DEF Spec

\* The host's state keeps its types, whatever starts, ends, crashes, restores
\* and sweeps interleave.
THEOREM TypeCorrect == Spec => []TypeOK
<1>1. IInv => TypeOK
  BY DEF IInv
<1> QED
  BY <1>1, IInvAlways, PTL

\* Two runs never carry one idempotency key, for every number of keys, callers
\* and runs, crashes, refused saves and restores that throw (RunHost.start,
\* RunHost.dispatched).
THEOREM OneRunPerKeyHolds == Spec => []OneRunPerKey
<1>1. IInv => OneRunPerKey
  BY DEF IInv, Core
<1> QED
  BY <1>1, IInvAlways, PTL

-----------------------------------------------------------------------------
(***************************************************************************)
(* What a start answers, a waiter is told and a restore brings back, for   *)
(* every number of runs, callers, keys, waiters and faults.                *)
(*                                                                         *)
(* On top of Core, this is an argument about what a process is doing.      *)
(* Stage says what can be hosted, started and restoring in each mode; Once *)
(* that until a restore throws as a whole, what is still to be restored or *)
(* was left to retry is live and not hosted, and what ended is not hosted  *)
(* (hence EndedStaysEnded); Kept that a live row is hosted, to come, or    *)
(* left to retry (hence NoOrphan); Saved that a row stands behind every    *)
(* answer (hence StableAnswer); Heard what a waiter was told or is about   *)
(* to be (hence ToldTheTruth).                                             *)
(***************************************************************************)

\* Where the process is: nothing is hosted or started before it has an Assembly,
\* and a restore runs before the doors open or because one was deferred.
Stage ==
  /\ mode = "down" => ~assembled /\ ~pending
  /\ ~assembled =>
       /\ ~restoring /\ unhosted = {}
       /\ \A r \in Runs : act[r] = "no"
       /\ \A c \in Callers : call[c].st = "idle"
  /\ mode = "boot" => restoring
  /\ restoring => mode = "boot" \/ (mode = "serving" /\ pending)
  /\ ~restoring => todo = {} /\ cur = NoCur

\* Every live row that nothing hosts is still to come, or was left to retry.
Kept ==
  saveFaults = 0 =>
    \A r \in Runs : row[r] = "live" /\ act[r] = "no" =>
      \/ r \in unhosted \cup todo
      \/ cur.at = "asking" /\ cur.run = r
      \/ mode = "down" \/ (pending /\ ~restoring)

\* Until a restore throws, a process restores once: what it has yet to ask about
\* and what it left to retry are live, not hosted, and not each other; and no
\* run that ended is hosted.
Once ==
  restoreFaults = 0 =>
    /\ pending /\ ~restoring => ~assembled
    /\ \A r \in todo \cup unhosted : row[r] = "live" /\ act[r] = "no"
    /\ cur.at = "asking" =>
         /\ row[cur.run] = "live" /\ act[cur.run] = "no"
         /\ cur.run \notin todo \cup unhosted
    /\ todo \cap unhosted = {}
    /\ \A r \in Runs : row[r] \in Ended => act[r] = "no"

Life == Stage /\ Kept /\ Once

\* What a start has found or made carries its key, what was answered does too,
\* and with no save refused, a row stands behind both until it is swept.
Saved ==
  /\ \A c \in Callers :
       call[c].st \in {"asked", "started"} /\ call[c].run # NoRun =>
         key[call[c].run] = call[c].key
  /\ \A k \in Keys : \A q \in answers[k] : q < next /\ key[q] = k
  /\ saveFaults = 0 =>
       /\ \A r \in Runs : act[r] = "clean" => row[r] # "none"
       /\ \A c \in Callers : call[c].st = "started" =>
            \/ row[call[c].run] # "none"
            \/ act[call[c].run] \in {"dirty", "over"}
            \/ call[c].run \in swept
       /\ \A k \in Keys : \A q \in answers[k] : row[q] # "none" \/ q \in swept

\* What a waiter was told, and what a read that is under way will tell it.
Heard ==
  /\ \A w \in Waiters :
       IF wait[w].st = "idle" THEN wait[w].read = "none" ELSE wait[w].run \in Runs
  /\ \A w \in Waiters : wait[w].st = "told" => wait[w].told \in Ended
  /\ saveFaults = 0 /\ restoreFaults = 0 =>
       /\ \A w \in Waiters : wait[w].read \in Ended =>
            row[wait[w].run] = wait[w].read \/ wait[w].run \in swept
       /\ cur.at \in {"lost", "drifted"} => row[cur.run] = cur.at

\* Every step keeps the stage.
LEMMA StageStep ==
  ASSUME IInv, Stage, [Next]_vars
  PROVE  Stage'
<1>0. TypeOK /\ Listed
  BY DEF IInv, Core
<1>1. ASSUME NEW c \in Callers, CallStep(c) PROVE Stage'
  BY <1>0, <1>1, SMTT(30) DEF CallStep, CallStart, Start, StartShared, StartHeld, Resolve,
                    StartFresh, Refuse, Answer, IdleCall, TypeOK, Stage, store,
                    restore
<1>2. ASSUME NEW r \in Runs, RunStep(r) PROVE Stage'
  BY <1>0, <1>2, SMTT(30) DEF RunStep, Transition, Finish, PersistLive, PersistDone, Fault,
                    End, Cancel, Sweep, PersistEnd, Hosted, TypeOK, Stage, calls,
                    restore
<1>3. ASSUME NEW w \in Waiters, WaitStep(w) PROVE Stage'
  BY <1>3, SMTT(30) DEF WaitStep, OnSettled, ReadAnswer, Detach, Stage, calls, restore
<1>4. CASE RestoreStep
  BY <1>0, <1>4, SMTT(30) DEF RestoreStep, RestoreNext, Reattach, MarkRow, SettledUnhosted,
                    LeaveToRetry, RestoreDone, NoCur, TypeOK, Stage, calls
<1>5. CASE RestoreThrows \/ Boot \/ BootDeferred \/ Publish \/ Crash
  BY <1>0, <1>5, SMTT(30) DEF RestoreThrows, Boot, BootDeferred, Publish, Crash, IdleCall,
                    NoCur, TypeOK, Stage, calls
<1>6. CASE UNCHANGED vars
  BY <1>6 DEF vars, Stage, calls, restore
<1> QED
  BY <1>1, <1>2, <1>3, <1>4, <1>5, <1>6 DEF Next

\* Every step keeps what is still to come apart from what is hosted or over.
LEMMA OnceStep ==
  ASSUME IInv, Stage, Once, [Next]_vars
  PROVE  Once'
<1>0. TypeOK /\ Fresh /\ Listed
  BY DEF IInv, Core
<1>1. ASSUME NEW c \in Callers, CallStep(c) PROVE Once'
  <2>1. CASE StartFresh(c)
    <3>1. /\ UNCHANGED <<row, todo, unhosted, cur, pending, restoring, assembled>>
          /\ UNCHANGED restoreFaults
          /\ next \in Runs /\ \A r \in Runs \ {next} : act'[r] = act[r]
      BY <1>0, <2>1 DEF StartFresh, TypeOK, restore, faults
    <3>2. row[next] = "none"
      BY <1>0, <3>1, Ids, SMTT(30) DEF Fresh, Present
    <3>3. restoreFaults = 0 =>
            next \notin todo \cup unhosted /\ (cur.at = "asking" => cur.run # next)
      BY <3>2 DEF Once
    <3>4. row[next] \notin Ended
      BY <3>2 DEF Ended
    <3> QED
      BY <1>0, <3>1, <3>3, <3>4 DEF Once, TypeOK, Listed
  <2>2. CASE UNCHANGED <<row, act, todo, unhosted, cur, pending, restoring,
                         assembled, restoreFaults>>
    BY <2>2 DEF Once
  <2> QED
    BY <1>1, <2>1, <2>2 DEF CallStep, CallStart, Resolve, Refuse, Answer, store,
                            restore, faults
<1>2. ASSUME NEW r \in Runs, RunStep(r) PROVE Once'
  <2>1. /\ UNCHANGED <<todo, unhosted, cur, pending, restoring, assembled>>
        /\ UNCHANGED restoreFaults
        /\ \A q \in Runs \ {r} : row'[q] = row[q] /\ act'[q] = act[q]
    BY <1>0, <1>2 DEF RunStep, Transition, Finish, PersistLive, PersistDone,
                      Fault, End, Cancel, Sweep, PersistEnd, SaveRow, Hosted,
                      TypeOK, store, restore, faults
  <2>2. CASE act[r] # "no" /\ row'[r] \in {row[r], "live"}
    BY <1>0, <2>1, <2>2, SMTT(30) DEF Once, TypeOK, Listed, Ended
  <2>3. CASE act[r] # "no" /\ act'[r] = "no"
    BY <1>0, <2>1, <2>3, SMTT(30) DEF Once, TypeOK, Listed
  <2>4. CASE row'[r] = "none" /\ row[r] \in Ended
    BY <1>0, <2>1, <2>4, SMTT(30) DEF Once, TypeOK, Listed, Ended
  <2>5. CASE UNCHANGED <<row, act>>
    BY <2>1, <2>5 DEF Once
  <2> QED
    BY <1>0, <1>2, <2>2, <2>3, <2>4, <2>5
       DEF RunStep, Transition, Finish, PersistLive, PersistDone, Fault, End,
           Cancel, Sweep, PersistEnd, SaveRow, Hosted, TypeOK, store
<1>3. ASSUME NEW w \in Waiters, WaitStep(w) PROVE Once'
  BY <1>3 DEF WaitStep, OnSettled, ReadAnswer, Detach, Once, store, restore,
              faults
<1>4. ASSUME NEW r \in Runs, RestoreNext(r) PROVE Once'
  BY <1>0, <1>4 DEF RestoreNext, Hosted, NoCur, TypeOK, Once, Stage, store,
                    faults
<1>5. CASE Reattach
  <2>1. /\ cur.at = "asking" /\ cur.run \in Runs /\ cur' = NoCur
        /\ UNCHANGED <<row, todo, pending, restoring, assembled, restoreFaults>>
        /\ unhosted' \subseteq unhosted
        /\ \A q \in Runs \ {cur.run} : act'[q] = act[q]
    BY <1>0, <1>5 DEF Reattach, Listed, TypeOK, store, faults
  <2> QED
    BY <1>0, <2>1 DEF Once, NoCur, TypeOK, Ended
<1>6. CASE MarkRow
  BY <1>0, <1>6, SMTT(30) DEF MarkRow, Listed, TypeOK, Once, Ended, faults
<1>7. CASE SettledUnhosted \/ LeaveToRetry \/ RestoreDone
  BY <1>0, <1>7, SMTT(30) DEF SettledUnhosted, LeaveToRetry, RestoreDone, NoCur, Listed,
                    Stage, Once, store, faults
<1>8. CASE RestoreThrows \/ BootDeferred \/ Crash
  BY <1>0, <1>8, SMTT(30) DEF RestoreThrows, BootDeferred, Crash, NoCur, TypeOK, Stage,
                    Once, store, faults
<1>9. CASE Boot \/ Publish
  <2>1. restoreFaults = 0 => ~assembled
    BY <1>9 DEF Boot, Publish, Stage, Once
  <2>2. /\ todo' = LiveRows /\ restoring'
        /\ UNCHANGED <<row, act, unhosted, cur, restoreFaults>>
    BY <1>9 DEF Boot, Publish, store, faults
  <2> QED
    BY <1>0, <2>1, <2>2, SMTT(30) DEF Stage, Once, LiveRows, NoCur, Ended
<1>10. CASE UNCHANGED vars
  BY <1>10 DEF vars, Once, store, restore, faults
<1> QED
  BY <1>1, <1>2, <1>3, <1>4, <1>5, <1>6, <1>7, <1>8, <1>9, <1>10
     DEF Next, RestoreStep

\* No step leaves a live row with nobody to host it or to retry it.
LEMMA KeptStep ==
  ASSUME IInv, Stage, Kept, [Next]_vars
  PROVE  Kept'
<1>0. TypeOK /\ Listed
  BY DEF IInv, Core
<1>1. ASSUME NEW c \in Callers, CallStep(c) PROVE Kept'
  BY <1>0, <1>1 DEF CallStep, CallStart, Resolve, StartFresh, Refuse, Answer,
                    TypeOK, Kept, store, restore, faults
<1>2. ASSUME NEW r \in Runs, RunStep(r) PROVE Kept'
  BY <1>0, <1>2, BoundsAreNaturals, SMTT(30)
     DEF RunStep, Transition, Finish, PersistLive, PersistDone, Fault, End,
         Cancel, Sweep, PersistEnd, SaveRow, Hosted, Ended, TypeOK, Kept, store,
         restore, faults
<1>3. ASSUME NEW w \in Waiters, WaitStep(w) PROVE Kept'
  BY <1>3, SMTT(30) DEF WaitStep, OnSettled, ReadAnswer, Detach, Kept, store, restore,
              faults
<1>4. CASE RestoreStep \/ RestoreThrows
  BY <1>0, <1>4, SMTT(30) DEF RestoreStep, RestoreNext, Reattach, MarkRow, SettledUnhosted,
                    LeaveToRetry, RestoreDone, RestoreThrows, Hosted, NoCur,
                    Stage, TypeOK, Kept, store, faults
<1>5. CASE Boot \/ BootDeferred \/ Publish \/ Crash
  BY <1>0, <1>5 DEF Boot, BootDeferred, Publish, Crash, LiveRows, Stage, Kept,
                    store, faults
<1>6. CASE UNCHANGED vars
  BY <1>6 DEF vars, Kept, store, restore, faults
<1> QED
  BY <1>1, <1>2, <1>3, <1>4, <1>5, <1>6 DEF Next

\* What a lookup finds carries the key, and is saved or about to be.
LEMMA DispatchedSaved ==
  ASSUME IInv, Saved, NEW k \in Keys
  PROVE  LET d == Dispatched(k)
         IN /\ d.key = k /\ (d.run # NoRun => d.run \in Runs /\ key[d.run] = k)
            /\ d.st = "started" => d.run \in Runs /\ act[d.run] # "no"
<1>1. CASE HostedWith(k) # {}
  <2>1. (CHOOSE r \in HostedWith(k) : TRUE) \in HostedWith(k)
    BY <1>1
  <2> QED
    BY <1>1, <2>1 DEF Dispatched, HostedWith, Hosted
<1>2. CASE HostedWith(k) = {} /\ StoredWith(k) = {}
  BY <1>2 DEF Dispatched
<1>3. CASE HostedWith(k) = {} /\ StoredWith(k) # {}
  <2> DEFINE m == CHOOSE r \in StoredWith(k) : \A q \in StoredWith(k) : r <= q
  <2>1. PICK r \in StoredWith(k) : TRUE
    BY <1>3
  <2>2. \A q \in StoredWith(k) : q = r /\ r \in Nat
    BY <2>1, Ids DEF IInv, Core, OneRunPerKey, StoredWith
  <2>3. \E q \in StoredWith(k) : \A p \in StoredWith(k) : q <= p
    BY <2>1, <2>2, SMTT(30)
  <2>4. m \in StoredWith(k)
    BY <2>3
  <2>5. Dispatched(k) = [st |-> "asked", key |-> k, run |-> m]
    BY <1>3 DEF Dispatched
  <2> HIDE DEF m
  <2> QED
    BY <2>4, <2>5, SMTT(30) DEF StoredWith
<1> QED
  BY <1>1, <1>2, <1>3

\* Every step keeps a row behind what was started and answered.
LEMMA SavedStep ==
  ASSUME IInv, Saved, [Next]_vars
  PROVE  Saved'
<1>0. TypeOK /\ Owner /\ Fresh /\ Listed
  BY DEF IInv, Core
<1>1. ASSUME NEW c \in Callers, NEW k \in Keys, CallStart(c, k) PROVE Saved'
  <2> DEFINE d == Dispatched(k)
  <2>1. UNCHANGED <<row, key, next, act, answers, swept, saveFaults>>
    BY <1>1 DEF CallStart, store, faults, history
  <2>2. /\ d.key = k /\ (d.run # NoRun => d.run \in Runs /\ key[d.run] = k)
        /\ d.st = "started" => d.run \in Runs /\ act[d.run] # "no"
    BY DispatchedSaved
  <2> HIDE DEF d
  <2>3. \A e \in Callers :
          \/ call'[e] = call[e]
          \/ call'[e] = d
          \/ call'[e] = [st |-> "joined", key |-> k, run |-> NoRun]
    BY <1>0, <1>1 DEF d, CallStart, Start, StartShared, StartHeld, TypeOK
  <2>4. \A e \in Callers :
          call'[e].st \in {"asked", "started"} /\ call'[e].run # NoRun =>
            key[call'[e].run] = call'[e].key
    BY <2>2, <2>3, SMTT(30) DEF Saved
  <2>5. \A e \in Callers : saveFaults = 0 /\ call'[e].st = "started" =>
          \/ row[call'[e].run] # "none"
          \/ act[call'[e].run] \in {"dirty", "over"}
          \/ call'[e].run \in swept
    <3>1. d.st = "started" /\ saveFaults = 0 =>
            row[d.run] # "none" \/ act[d.run] \in {"dirty", "over"}
      BY <1>0, <2>2 DEF Saved, TypeOK
    <3> QED
      BY <2>3, <3>1, SMTT(30) DEF Saved
  <2> QED
    BY <2>1, <2>4, <2>5 DEF Saved
<1>2. ASSUME NEW c \in Callers, Resolve(c) PROVE Saved'
  BY <1>0, <1>2, SMTT(30) DEF Resolve, Saved, TypeOK, store, faults, history
<1>3. ASSUME NEW c \in Callers, StartFresh(c) PROVE Saved'
  <2>1. /\ UNCHANGED <<row, answers, swept, saveFaults>>
        /\ next \in Runs /\ next' = next + 1
        /\ act'[next] = "dirty" /\ key'[next] = call[c].key
        /\ \A r \in Runs \ {next} : act'[r] = act[r] /\ key'[r] = key[r]
        /\ call'[c] = [st |-> "started", key |-> call[c].key, run |-> next]
        /\ \A d \in Callers \ {c} : call'[d] = call[d]
    BY <1>0, <1>3 DEF StartFresh, TypeOK, faults, history
  <2>2. \A d \in Callers : call[d].run # next
    BY <1>0, <2>1, Ids, SMTT(30) DEF Fresh
  <2>3. /\ \A k \in Keys : \A q \in answers[k] : q \in Runs /\ q # next /\ q < next'
        /\ \A d \in Callers : call[d].st = "started" => call[d].run \in Runs
    BY <1>0, <2>1, Ids, SMTT(30) DEF Saved, Owner, TypeOK
  <2>4. /\ \A d \in Callers :
             call'[d].st \in {"asked", "started"} /\ call'[d].run # NoRun =>
               key'[call'[d].run] = call'[d].key
        /\ \A k \in Keys : \A q \in answers[k] : q < next' /\ key'[q] = k
    <3>1. \A d \in Callers : call[d].run # NoRun => call[d].run \in Runs
      BY <1>0 DEF TypeOK
    <3> QED
      BY <2>1, <2>2, <2>3, <3>1, SMTT(30) DEF Saved
  <2>5. saveFaults = 0 => \A r \in Runs : act'[r] = "clean" => row[r] # "none"
    BY <2>1 DEF Saved
  <2>6. saveFaults = 0 =>
          /\ \A d \in Callers : call'[d].st = "started" =>
               \/ row[call'[d].run] # "none"
               \/ act'[call'[d].run] \in {"dirty", "over"}
               \/ call'[d].run \in swept
          /\ \A k \in Keys : \A q \in answers[k] : row[q] # "none" \/ q \in swept
    BY <2>1, <2>2, <2>3, SMTT(30) DEF Saved
  <2> QED
    BY <2>1, <2>4, <2>5, <2>6 DEF Saved
<1>4. ASSUME NEW c \in Callers, Refuse(c) \/ Answer(c) PROVE Saved'
  <2>1. /\ UNCHANGED <<row, key, next, act, swept, saveFaults>>
        /\ \A d \in Callers : call'[d] \in {call[d], IdleCall}
    BY <1>4 DEF Refuse, Answer, store, faults, history
  <2>2. CASE UNCHANGED answers
    BY <2>1, <2>2, SMTT(30) DEF Saved, IdleCall
  <2>3. CASE Answer(c)
    <3>1. /\ call[c].st = "started" /\ call[c].key \in Keys
          /\ call[c].run \in Runs /\ call[c].run # NoRun /\ call[c].run < next
          /\ key[call[c].run] = call[c].key
      BY <1>0, <2>3, Ids DEF Answer, Owner, Fresh, Saved
    <3>2. saveFaults = 0 => row[call[c].run] # "none" \/ call[c].run \in swept
      BY <2>3, <3>1 DEF Answer, Saved
    <3>3. \A k \in Keys : \A q \in answers'[k] :
            q \in answers[k] \/ (q = call[c].run /\ k = call[c].key)
      BY <1>0, <2>3 DEF Answer, TypeOK
    <3> QED
      BY <2>1, <3>1, <3>2, <3>3, SMTT(30) DEF Saved, IdleCall
  <2> QED
    BY <1>4, <2>2, <2>3 DEF Refuse
<1>5. ASSUME NEW r \in Runs, RunStep(r) PROVE Saved'
  <2>1. /\ UNCHANGED <<key, next, call, answers>> /\ swept \subseteq swept'
        /\ \A q \in Runs \ {r} : row'[q] = row[q] /\ act'[q] = act[q]
    BY <1>0, <1>5 DEF RunStep, Transition, Finish, PersistLive, PersistDone,
                      Fault, End, Cancel, Sweep, PersistEnd, SaveRow, TypeOK,
                      store, calls, history
  <2>2. saveFaults' = 0 =>
          /\ saveFaults = 0
          /\ \/ row'[r] # "none"
             \/ row'[r] = row[r] /\ act'[r] \in {"dirty", "over"}
             \/ row'[r] = row[r] /\ act'[r] = act[r]
             \/ act'[r] = "no" /\ r \in swept'
    <3>1. saveFaults \in Nat
      BY <1>0, BoundsAreNaturals, SMTT(30) DEF TypeOK
    <3>2. \A status \in Ended \cup {"live"} : SaveRow(r, status) /\ saveFaults' = 0 =>
            saveFaults = 0 /\ row'[r] # "none"
      BY <1>0, <3>1, SMTT(30) DEF SaveRow, TypeOK, Ended
    <3>3. CASE Transition(r) \/ Finish(r) \/ Sweep(r)
      BY <1>0, <3>3 DEF Transition, Finish, Sweep, Hosted, TypeOK, store, faults
    <3>4. CASE PersistLive(r) \/ PersistDone(r) \/ Fault(r) \/ End(r) \/ Cancel(r)
      BY <3>2, <3>4 DEF PersistLive, PersistDone, Fault, End, Cancel, PersistEnd,
                        Ended
    <3> QED
      BY <1>5, <3>3, <3>4 DEF RunStep
  <2>3. /\ \A k \in Keys : answers[k] \subseteq Runs
        /\ \A c \in Callers : call[c].st = "started" => call[c].run \in Runs
    BY <1>0 DEF TypeOK, Owner
  <2> QED
    BY <2>1, <2>2, <2>3, SMTT(30) DEF Saved
<1>6. ASSUME NEW w \in Waiters, WaitStep(w) PROVE Saved'
  BY <1>6 DEF WaitStep, OnSettled, ReadAnswer, Detach, Saved, store, calls,
              faults, history
<1>7. CASE RestoreStep \/ RestoreThrows
  <2>1. /\ UNCHANGED <<key, next, call, answers, swept, saveFaults>>
        /\ \A q \in Runs : row'[q] = row[q] \/ row'[q] # "none"
        /\ \A q \in Runs : act'[q] = act[q] \/ act'[q] = "dirty"
    BY <1>0, <1>7 DEF RestoreStep, RestoreNext, Reattach, MarkRow,
                      SettledUnhosted, LeaveToRetry, RestoreDone, RestoreThrows,
                      TypeOK, store, calls, faults, history
  <2>2. /\ \A k \in Keys : answers[k] \subseteq Runs
        /\ \A c \in Callers : call[c].st = "started" => call[c].run \in Runs
    BY <1>0 DEF TypeOK, Owner
  <2> QED
    BY <2>1, <2>2 DEF Saved
<1>8. CASE Boot \/ BootDeferred \/ Publish \/ Crash
  BY <1>8, SMTT(30) DEF Boot, BootDeferred, Publish, Crash, IdleCall, Saved, store, calls,
              faults, history
<1>9. CASE UNCHANGED vars
  BY <1>9 DEF vars, Saved, store, calls, faults, history
<1> QED
  BY <1>1, <1>2, <1>3, <1>4, <1>5, <1>6, <1>7, <1>8, <1>9 DEF Next, CallStep

\* Every step keeps what was told, and what will be, true.
LEMMA HeardStep ==
  ASSUME IInv, Once, Heard, ToldTheTruth, [Next]_vars
  PROVE  Heard' /\ ToldTheTruth'
<1>0. TypeOK /\ Listed
  BY DEF IInv, Core
<1>1. ASSUME NEW c \in Callers, CallStep(c) PROVE Heard' /\ ToldTheTruth'
  BY <1>0, <1>1 DEF CallStep, CallStart, Resolve, StartFresh, Refuse, Answer,
                    Heard, ToldTheTruth, store, restore, faults, history
<1>2. ASSUME NEW r \in Runs, RunStep(r) PROVE Heard' /\ ToldTheTruth'
  <2>1. /\ UNCHANGED <<cur, restoreFaults>> /\ swept \subseteq swept'
        /\ saveFaults' = 0 => saveFaults = 0
        /\ \A q \in Runs \ {r} : row'[q] = row[q]
    BY <1>0, <1>2, BoundsAreNaturals, SMTT(30)
       DEF RunStep, Transition, Finish, PersistLive, PersistDone, Fault, End,
           Cancel, Sweep, PersistEnd, SaveRow, TypeOK, store, restore, faults,
           history
  <2>2. CASE UNCHANGED wait
             /\ (row'[r] = row[r] \/ (r \in swept' /\ r # cur.run) \/ act[r] # "no")
    <3>1. restoreFaults = 0 /\ act[r] # "no" => row[r] \notin Ended
      BY DEF Once
    <3>2. \A w \in Waiters : wait[w].read \in Ended => wait[w].run \in Runs
      BY DEF Heard, Ended
    <3>3. cur.at \in {"lost", "drifted"} => cur.at \in Ended /\ cur.run \in Runs
      BY <1>0 DEF Listed, Ended
    <3> QED
      BY <2>1, <2>2, <3>1, <3>2, <3>3 DEF Heard, ToldTheTruth
  <2>3. ASSUME NEW status \in Ended, act[r] # "no", PersistEnd(r, status)
        PROVE  Heard' /\ ToldTheTruth'
    <3>1. \A w \in Waiters :
            /\ wait'[w].read = wait[w].read /\ wait'[w].run = wait[w].run
            /\ \/ wait'[w].st = wait[w].st /\ wait'[w].told = wait[w].told
               \/ /\ wait'[w].st = "told" /\ wait'[w].told = status
                  /\ wait[w].run = r
      BY <1>0, <2>3 DEF PersistEnd, FireSettled, TypeOK
    <3>2. saveFaults' = 0 => row'[r] = status
      BY <1>0, <2>3, BoundsAreNaturals, SMTT(30) DEF PersistEnd, SaveRow, TypeOK
    <3>3. restoreFaults = 0 => row[r] \notin Ended
      BY <2>3 DEF Once
    <3>4. \A w \in Waiters : wait[w].read \in Ended => wait[w].run \in Runs
      BY DEF Heard, Ended
    <3>5. cur.at \in {"lost", "drifted"} => cur.at \in Ended /\ cur.run \in Runs
      BY <1>0 DEF Listed, Ended
    <3>6. Heard'
      <4>1. \A w \in Waiters :
              /\ IF wait[w].st = "idle" THEN wait[w].read = "none" ELSE wait[w].run \in Runs
              /\ wait[w].st = "told" => wait[w].told \in Ended
        BY DEF Heard
      <4>2. \A w \in Waiters :
              /\ IF wait'[w].st = "idle" THEN wait'[w].read = "none" ELSE wait'[w].run \in Runs
              /\ wait'[w].st = "told" => wait'[w].told \in Ended
        BY <2>3, <3>1, <4>1, SMTT(30)
      <4>3. ASSUME saveFaults' = 0, restoreFaults' = 0
            PROVE  /\ \A w \in Waiters : wait'[w].read \in Ended =>
                        row'[wait'[w].run] = wait'[w].read \/ wait'[w].run \in swept'
                   /\ cur'.at \in {"lost", "drifted"} => row'[cur'.run] = cur'.at
        BY <2>1, <2>3, <3>1, <3>2, <3>3, <3>4, <3>5, <4>3, SMTT(30) DEF Heard
      <4> QED
        BY <4>2, <4>3 DEF Heard
    <3>7. ASSUME NEW w \in Waiters, wait'[w].st = "told", saveFaults' = 0, restoreFaults' = 0
          PROVE  row'[wait'[w].run] = wait'[w].told \/ wait'[w].run \in swept'
      BY <2>1, <3>1, <3>2, <3>3, <3>7, SMTT(30) DEF Heard, ToldTheTruth
    <3> QED
      BY <3>6, <3>7 DEF ToldTheTruth
  <2> QED
    BY <1>0, <1>2, <2>2, <2>3
       DEF RunStep, Transition, Finish, PersistLive, PersistDone, Fault, End,
           Cancel, Sweep, Hosted, Ended, store
<1>3. ASSUME NEW w \in Waiters, WaitStep(w) PROVE Heard' /\ ToldTheTruth'
  <2>1. /\ UNCHANGED <<row, cur, swept, saveFaults, restoreFaults>>
        /\ \A v \in Waiters \ {w} : wait'[v] = wait[v]
    BY <1>0, <1>3 DEF WaitStep, OnSettled, ReadAnswer, Detach, TypeOK, store,
                      restore, faults, history
  <2>2. ASSUME NEW r \in Runs, OnSettled(w, r)
        PROVE  wait'[w].st = "attached" /\ wait'[w].run = r
               /\ (wait'[w].read \in Ended => wait'[w].read = row[r])
    BY <1>0, <2>2 DEF OnSettled, TypeOK, Ended
  <2>3. CASE ReadAnswer(w)
    <3>1. /\ wait'[w].read = "none" /\ wait'[w].run = wait[w].run
          /\ \/ wait'[w].st = wait[w].st /\ wait'[w].told = wait[w].told
             \/ /\ wait[w].st = "attached" /\ wait[w].read \in Ended
                /\ wait'[w].st = "told" /\ wait'[w].told = wait[w].read
      BY <1>0, <2>3, SMTT(30) DEF ReadAnswer, TypeOK
    <3> QED
      BY <2>1, <3>1 DEF Heard, ToldTheTruth, Ended
  <2>4. CASE Detach(w)
    BY <1>0, <2>1, <2>4 DEF Detach, IdleWait, Heard, ToldTheTruth, TypeOK, Ended
  <2>5. CASE \E r \in Runs : OnSettled(w, r)
    BY <2>1, <2>2, <2>5 DEF Heard, ToldTheTruth
  <2> QED
    BY <1>3, <2>3, <2>4, <2>5 DEF WaitStep
<1>4. CASE RestoreStep \/ RestoreThrows
  <2>1. UNCHANGED <<swept, saveFaults>>
    BY <1>4 DEF RestoreStep, RestoreNext, Reattach, MarkRow, SettledUnhosted,
                LeaveToRetry, RestoreDone, RestoreThrows, faults, history
  <2>2. CASE SettledUnhosted
    <3>1. cur.run \in Runs /\ cur.at \in Ended
      BY <1>0, <2>2 DEF SettledUnhosted, Listed, Ended
    <3>2. \A w \in Waiters :
            /\ wait'[w].read = wait[w].read /\ wait'[w].run = wait[w].run
            /\ \/ wait'[w].st = wait[w].st /\ wait'[w].told = wait[w].told
               \/ /\ wait'[w].st = "told" /\ wait'[w].told = cur.at
                  /\ wait[w].run = cur.run
      BY <1>0, <2>2 DEF SettledUnhosted, FireSettled, TypeOK
    <3> QED
      BY <2>1, <2>2, <3>1, <3>2
         DEF SettledUnhosted, NoCur, Heard, ToldTheTruth, store, faults
  <2>3. CASE MarkRow
    <3>1. /\ UNCHANGED <<wait, restoreFaults>> /\ cur'.run = cur.run
          /\ cur.at = "asking" /\ cur.run \in Runs
          /\ row'[cur.run] = cur'.at
          /\ \A q \in Runs \ {cur.run} : row'[q] = row[q]
      BY <1>0, <2>3, SMTT(30) DEF MarkRow, Listed, TypeOK, faults
    <3>2. restoreFaults = 0 => row[cur.run] \notin Ended
      BY <3>1 DEF Once, Ended
    <3>3. \A w \in Waiters : wait[w].read \in Ended => wait[w].run \in Runs
      BY DEF Heard, Ended
    <3> QED
      BY <2>1, <3>1, <3>2, <3>3 DEF Heard, ToldTheTruth
  <2>4. CASE UNCHANGED <<row, wait>> /\ cur'.at \notin {"lost", "drifted"}
             /\ (restoreFaults' = 0 => restoreFaults = 0)
    BY <2>1, <2>4 DEF Heard, ToldTheTruth
  <2> QED
    BY <1>0, <1>4, <2>2, <2>3, <2>4, BoundsAreNaturals, SMTT(30)
       DEF RestoreStep, RestoreNext, Reattach, LeaveToRetry, RestoreDone,
           RestoreThrows, NoCur, TypeOK, store, faults
<1>5. CASE Boot \/ BootDeferred \/ Publish \/ Crash
  BY <1>0, <1>5, SMTT(30) DEF Boot, BootDeferred, Publish, Crash, IdleWait, NoCur, Ended,
                    Heard, ToldTheTruth, store, faults, history
<1>6. CASE UNCHANGED vars
  BY <1>6 DEF vars, Heard, ToldTheTruth, store, restore, faults, history
<1> QED
  BY <1>1, <1>2, <1>3, <1>4, <1>5, <1>6 DEF Next

----------------------------------------------------------------------------
\* All of it holds before anything is started.
LEMMA LifeInit == Init => Life /\ Saved /\ Heard /\ ToldTheTruth
<1> SUFFICES ASSUME Init PROVE Life /\ Saved /\ Heard /\ ToldTheTruth
  OBVIOUS
<1>1. Stage /\ Kept /\ Once
  BY DEF Init, Stage, Kept, Once, NoCur, IdleCall, Ended
<1>2. Saved
  BY DEF Init, Saved, IdleCall
<1>3. Heard /\ ToldTheTruth
  BY DEF Init, Heard, ToldTheTruth, IdleWait, NoCur, Ended
<1> QED
  BY <1>1, <1>2, <1>3 DEF Life

\* And in every run.
LEMMA LifeAlways == Spec => [](IInv /\ Life /\ Saved /\ Heard /\ ToldTheTruth)
<1> DEFINE Inv == IInv /\ Life /\ Saved /\ Heard /\ ToldTheTruth
<1>1. Init => Inv
  BY IInvInit, LifeInit
<1>2. Inv /\ [Next]_vars => Inv'
  BY TypeStep, CoreStep, StageStep, OnceStep, KeptStep, SavedStep, HeardStep
     DEF IInv, Life
<1> QED
  BY <1>1, <1>2, PTL DEF Spec

\* A caller that was answered a run under a key is never answered another one,
\* by this process or a later one, until the run's row is swept: for every
\* number of callers, keys, runs and crashes (RunHost.start, the queued first
\* save of startFresh).
THEOREM StableAnswerHolds == Spec => []StableAnswer
<1>1. IInv /\ Saved => StableAnswer
  <2> SUFFICES ASSUME IInv, Saved, saveFaults = 0, NEW k \in Keys,
                      NEW q \in answers[k], NEW r \in answers[k],
                      q \notin swept, r \notin swept
               PROVE  q = r
    BY DEF StableAnswer
  <2>1. q \in Runs /\ r \in Runs
    BY DEF IInv, TypeOK
  <2>2. row[q] # "none" /\ row[r] # "none" /\ key[q] = k /\ key[r] = k
    BY DEF Saved
  <2> QED
    BY <2>1, <2>2, Ids DEF IInv, Core, OneRunPerKey
<1> QED
  BY <1>1, LifeAlways, PTL

\* A waiter is told the end that the row records, whatever ends, verdicts, late
\* reads and sweeps interleave (RunHost.onSettled, RunHost.fireSettled).
THEOREM ToldTheTruthHolds == Spec => []ToldTheTruth
  BY LifeAlways, PTL

\* With no restore running or owed, the live rows that nothing hosts are those
\* that a restore left to retry (RunHost.restore, RunHost.liveConversations).
THEOREM NoOrphanHolds == Spec => []NoOrphan
<1>1. IInv /\ Life => NoOrphan
  <2> SUFFICES ASSUME IInv, Life, mode = "serving", ~pending, ~restoring,
                      saveFaults = 0
               PROVE  LET orphans == {r \in LiveRows : ~Hosted(r)}
                      IN /\ orphans \subseteq unhosted
                         /\ restoreFaults = 0 => unhosted = orphans
    BY DEF NoOrphan
  <2>0. todo = {} /\ cur.at = "none"
    BY SMTT(30) DEF Life, Stage, NoCur
  <2>1. \A r \in Runs : row[r] = "live" /\ act[r] = "no" => r \in unhosted
    BY <2>0, SMTT(30) DEF Life, Kept
  <2>2. restoreFaults = 0 => \A r \in unhosted : row[r] = "live" /\ act[r] = "no"
    BY DEF Life, Once
  <2>3. unhosted \subseteq Runs
    BY DEF IInv, TypeOK
  <2> QED
    BY <2>1, <2>2, <2>3 DEF LiveRows, Hosted
<1> QED
  BY <1>1, LifeAlways, PTL

\* A run that ended stays ended: no later step of a start, a save, a restore or
\* another process makes its row live or hosts it again (RunHost.persist,
\* RunHost.restore).
THEOREM EndedStaysEndedHolds == Spec => EndedStaysEnded
<1> DEFINE Stays == \A r \in Runs : row[r] \in Ended /\ restoreFaults = 0 =>
                      row'[r] \in Ended \cup {"none"} /\ act'[r] = "no"
<1>1. IInv /\ Life /\ [Next]_vars => [Stays]_vars
  <2> SUFFICES ASSUME IInv, Life, [Next]_vars, NEW r \in Runs,
                      row[r] \in Ended, restoreFaults = 0
               PROVE  row'[r] \in Ended \cup {"none"} /\ act'[r] = "no"
    OBVIOUS
  <2>0. TypeOK /\ Fresh /\ Listed /\ Once /\ act[r] = "no"
    BY DEF IInv, Core, Life, Once
  <2>1. ASSUME NEW c \in Callers, CallStep(c)
        PROVE  row'[r] = row[r] /\ act'[r] = "no"
    BY <2>0, <2>1, Ids, SMTT(30) DEF CallStep, CallStart, Resolve, StartFresh, Refuse,
                           Answer, Fresh, Present, TypeOK, Ended, store
  <2>2. ASSUME NEW q \in Runs, RunStep(q)
        PROVE  row'[r] \in {row[r], "none"} /\ act'[r] = "no"
    BY <2>0, <2>2 DEF RunStep, Transition, Finish, PersistLive, PersistDone,
                      Fault, End, Cancel, Sweep, PersistEnd, SaveRow, Hosted,
                      TypeOK, store
  <2>3. ASSUME NEW w \in Waiters, WaitStep(w)
        PROVE  row'[r] = row[r] /\ act'[r] = "no"
    BY <2>0, <2>3 DEF WaitStep, OnSettled, ReadAnswer, Detach, store
  <2>4. CASE RestoreStep \/ RestoreThrows
    <3>1. cur.at = "asking" => cur.run # r
      BY <2>0 DEF Once, Ended
    <3> QED
      BY <2>0, <2>4, <3>1
         DEF RestoreStep, RestoreNext, Reattach, MarkRow, SettledUnhosted,
             LeaveToRetry, RestoreDone, RestoreThrows, TypeOK, store
  <2>5. CASE Boot \/ BootDeferred \/ Publish \/ Crash \/ UNCHANGED vars
    BY <2>0, <2>5 DEF Boot, BootDeferred, Publish, Crash, vars, store
  <2> QED
    BY <2>1, <2>2, <2>3, <2>4, <2>5 DEF Next
<1>2. Spec => [][Stays]_vars
  BY <1>1, LifeAlways, PTL DEF Spec
<1> QED
  BY <1>2 DEF EndedStaysEnded

=============================================================================

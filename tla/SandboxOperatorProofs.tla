------------------------ MODULE SandboxOperatorProofs ------------------------
(***************************************************************************)
(* Proofs about the Sandbox controller, for every number of Sandboxes,     *)
(* removals, lapses and stopped reconciles, and without the bound on       *)
(* faults of the model-checked instance: a Sandbox has one Pod, recorded   *)
(* once, what the controller writes is what SandboxStatus allows, and a    *)
(* Sandbox is Lost for a loss of its own.                                  *)
(***************************************************************************)
EXTENDS SandboxOperator, TLAPS

\* A leaf that names no prover is tried with Zenon, then with SMT.
USE ZenonT(30), SMTT(30)

Sandboxes ==
  [uid : Nat, deleting : BOOLEAN, lapsed : BOOLEAN,
   phase : {"", "Pending", "Ready", "Terminating", "Lost"},
   scheduled : BOOLEAN, podUID : Nat, fresh : BOOLEAN]

Pods == [uid : Nat, owner : Nat, deleting : BOOLEAN,
         state : {"none", "pending", "scheduled", "ready", "ended"}]

Reconciles == [step : {"idle", "live", "create", "record", "write"},
               sandbox : Sandboxes, to : Sandboxes]

Types ==
  /\ cr \in Sandboxes /\ crCache \in Sandboxes /\ born \in Nat
  /\ pod \in Pods /\ podCache \in Pods /\ made \in Seq(Nat)
  /\ op \in Reconciles

\* `to` differs from the copy s in what a status write of a Sandbox that stays may change.
Written(s, to) ==
  /\ to.uid = s.uid /\ to.deleting = s.deleting /\ to.lapsed = s.lapsed
  /\ \/ to.phase \in {"Pending", "Ready"}
     \/ to.phase = "Lost" /\ to.scheduled = s.scheduled

\* x is a copy of the Sandbox there is, or of one before it, the last uid given being `last`.
\* A Pod that a copy has recorded is the one the Sandbox has recorded.
Copy(x, sandbox, last) ==
  /\ x.uid <= last
  /\ x.uid = sandbox.uid /\ x.podUID # 0 => x.podUID = sandbox.podUID

\* Uids are given in order, and only the last can be in use.
UidsInOrder ==
  /\ cr.uid = 0 => cr = NoCr
  /\ cr.uid \in {0, born}
  /\ crCache.uid = 0 => crCache = NoCr
  /\ Copy(crCache, cr, born)

\* What a reconcile may rely on at each of its calls, whatever happened since it read.
Underway ==
  /\ op.step # "idle" =>
       op.sandbox.uid # 0 /\ op.sandbox.phase # "Lost" /\ Copy(op.sandbox, cr, born)
  /\ op.step = "live" =>
       /\ op.to.uid # 0 /\ op.to.phase # "Lost" /\ op.to.podUID # 0
       /\ op.sandbox.uid <= op.to.uid /\ Copy(op.to, cr, born)
  /\ op.step \in {"create", "record"} => cr.podUID = 0 /\ cr.phase # "Lost"
  /\ op.step = "write" =>
       /\ Written(op.sandbox, op.to)
       /\ op.sandbox.uid = cr.uid /\ op.sandbox.podUID # 0 => op.to.podUID = op.sandbox.podUID

\* The inductive invariant.
OperatorInv == Types /\ UidsInOrder /\ Underway

\* A Sandbox just created.
Created(n) == [NoCr EXCEPT !.uid = n]

\* What may change of a Sandbox in one step, in the fields that SandboxStatus has: a delete is
\* asked for, its stamp lapses or is renewed, and the operator reports.
Allowed(c, d) ==
  \/ d.deleting = TRUE /\ d.lapsed = c.lapsed /\ d.phase = c.phase /\ d.scheduled = c.scheduled
  \/ d.deleting = c.deleting /\ d.phase = c.phase /\ d.scheduled = c.scheduled
  \/ /\ d.deleting = c.deleting /\ d.lapsed = c.lapsed
     /\ \/ c.phase # "Lost" /\ d.phase \in {"Pending", "Ready"}
        \/ d.phase = "Lost" /\ d.scheduled = c.scheduled
        \/ c.deleting = TRUE /\ d.phase = "Terminating" /\ d.scheduled = c.scheduled

\* How one step of anybody may change the Sandbox.
Moves ==
  \/ UNCHANGED <<cr, born>>
  \/ cr.uid # 0 /\ cr' = NoCr /\ born' = born
  \/ cr.uid = 0 /\ born' = born + 1 /\ cr' = Created(born + 1)
  \/ /\ cr.uid # 0 /\ cr'.uid = cr.uid /\ born' = born /\ Allowed(cr, cr')
     /\ cr.podUID # 0 => cr'.podUID = cr.podUID

-----------------------------------------------------------------------------
(* What the reconcile's pure parts return.                                 *)

\* No Sandbox has no Pod and no phase.
LEMMA NoCrFields ==
  NoCr \in Sandboxes /\ NoCr.uid = 0 /\ NoCr.podUID = 0 /\ NoCr.phase = ""
BY DEF NoCr, Sandboxes

\* A Sandbox just created differs in its uid.
LEMMA CreatedFields ==
  ASSUME NEW n \in Nat
  PROVE  /\ Created(n) \in Sandboxes /\ Created(n).uid = n
         /\ Created(n).podUID = 0 /\ Created(n).phase = ""
         /\ Created(n).deleting = FALSE /\ Created(n).lapsed = FALSE
         /\ Created(n).scheduled = FALSE
BY DEF Created, NoCr, Sandboxes

\* The next uid is a number, and its Sandbox has it.
LEMMA NextUid ==
  ASSUME Types
  PROVE  /\ Created(born + 1) \in Sandboxes /\ Created(born + 1).uid = born + 1
         /\ Created(born + 1).podUID = 0 /\ Created(born + 1).phase = ""
<1>1. born + 1 \in Nat
  BY SMTT(30) DEF Types
<1>2. QED
  BY <1>1, CreatedFields

\* The uid after a uid.
LEMMA NextNat == ASSUME NEW n \in Nat PROVE n + 1 \in Nat
BY SMTT(30)

\* No uid given is the next one.
LEMMA UidGiven ==
  ASSUME NEW x \in Nat, NEW last \in Nat, x <= last
  PROVE  x # last + 1
BY SMTT(30)

\* markLost changes the phase alone.
LEMMA LostFields ==
  ASSUME NEW s \in Sandboxes
  PROVE  /\ markLost(s) \in Sandboxes /\ Written(s, markLost(s))
         /\ markLost(s).podUID = s.podUID
BY DEF Sandboxes, markLost, Written

\* reconcileRefused keeps the Pod recorded.
LEMMA RefusedFields ==
  ASSUME NEW s \in Sandboxes
  PROVE  /\ reconcileRefused(s) \in Sandboxes /\ Written(s, reconcileRefused(s))
         /\ reconcileRefused(s).podUID = s.podUID
BY DEF Sandboxes, reconcileRefused, Written

\* reconcileStatus records the Pod it was given.
LEMMA StatusFields ==
  ASSUME NEW s \in Sandboxes, NEW p \in Pods, NEW reposReady \in BOOLEAN
  PROVE  /\ reconcileStatus(s, p, reposReady) \in Sandboxes
         /\ Written(s, reconcileStatus(s, p, reposReady))
         /\ reconcileStatus(s, p, reposReady).podUID = p.uid
BY DEF Sandboxes, Pods, reconcileStatus, reposAdmitted, Written

\* A verdict keeps the Pod recorded, or records one that the judged copy does not deny.
LEMMA VerdictFields ==
  ASSUME NEW judged \in Sandboxes, NEW s \in Sandboxes, NEW p \in Pods, p.uid # 0,
         NEW to \in Verdicts(judged, s, p)
  PROVE  /\ to \in Sandboxes /\ Written(s, to)
         /\ \/ to.podUID = s.podUID
            \/ to.podUID = p.uid /\ (judged.podUID # 0 => p.uid = judged.podUID)
<1>1. CASE podLost(judged, p)
  BY <1>1, LostFields DEF Verdicts
<1>2. CASE ~podLost(judged, p)
  <2>1. PICK reposReady \in BOOLEAN : to = reconcileStatus(s, p, reposReady)
    BY <1>2 DEF Verdicts
  <2>2. judged.podUID # 0 => p.uid = judged.podUID
    BY <1>2 DEF podLost
  <2>3. QED
    BY <2>1, <2>2, StatusFields
<1>3. QED
  BY <1>1, <1>2

-----------------------------------------------------------------------------
(* What any step leaves true.                                              *)

\* A copy stays one through every change of the Sandbox.
LEMMA CopyStays ==
  ASSUME Types, UidsInOrder, Moves, NEW x \in Sandboxes, Copy(x, cr, born),
         x.uid = 0 => x.podUID = 0
  PROVE  Copy(x, cr', born')
<1>1. CASE UNCHANGED <<cr, born>>
  BY <1>1
<1>2. CASE cr.uid # 0 /\ cr' = NoCr /\ born' = born
  BY <1>2, NoCrFields DEF Copy
<1>3. CASE cr.uid = 0 /\ born' = born + 1 /\ cr' = Created(born + 1)
  <2>1. cr'.uid = born + 1
    BY <1>3, NextUid
  <2>2. x.uid <= born /\ x.uid \in Nat /\ born \in Nat
    BY DEF Copy, Types, Sandboxes
  <2>3. QED
    BY <1>3, <2>1, <2>2, SMTT(30) DEF Copy
<1>4. CASE /\ cr.uid # 0 /\ cr'.uid = cr.uid /\ born' = born /\ Allowed(cr, cr')
           /\ cr.podUID # 0 => cr'.podUID = cr.podUID
  BY <1>4 DEF Copy
<1>5. QED
  BY <1>1, <1>2, <1>3, <1>4 DEF Moves

\* Uids stay in order while the Sandbox cache stays as it is.
LEMMA OrderStays ==
  ASSUME Types, UidsInOrder, Moves, crCache' = crCache
  PROVE  UidsInOrder'
<1>1. crCache \in Sandboxes /\ born \in Nat
  BY DEF Types
<1>2. Copy(crCache, cr', born')
  <2>1. crCache.uid = 0 => crCache.podUID = 0
    BY NoCrFields DEF UidsInOrder
  <2>2. QED
    BY <1>1, <2>1, CopyStays DEF UidsInOrder
<1>3. (cr'.uid = 0 => cr' = NoCr) /\ cr'.uid \in {0, born'}
  <2>1. CASE UNCHANGED <<cr, born>>
    BY <2>1 DEF UidsInOrder
  <2>2. CASE cr.uid # 0 /\ cr' = NoCr /\ born' = born
    BY <2>2, NoCrFields
  <2>3. CASE cr.uid = 0 /\ born' = born + 1 /\ cr' = Created(born + 1)
    <3>1. cr'.uid = born + 1
      BY <2>3, NextUid
    <3>2. QED
      BY <2>3, <3>1, <1>1, SMTT(30)
  <2>4. CASE /\ cr.uid # 0 /\ cr'.uid = cr.uid /\ born' = born /\ Allowed(cr, cr')
             /\ cr.podUID # 0 => cr'.podUID = cr.podUID
    BY <2>4 DEF UidsInOrder
  <2>5. QED
    BY <2>1, <2>2, <2>3, <2>4 DEF Moves
<1>4. QED
  BY <1>2, <1>3 DEF UidsInOrder

\* What a reconcile relies on stays while only others move: nobody else records a Pod or
\* writes a phase.
LEMMA UnderwayStays ==
  ASSUME Types, UidsInOrder, Underway, Moves, op' = op,
         cr'.podUID = 0 \/ cr'.podUID = cr.podUID,
         cr'.phase = "" \/ cr'.phase = cr.phase
  PROVE  Underway'
<1>1. op.sandbox \in Sandboxes /\ op.to \in Sandboxes
  BY DEF Types, Reconciles
<1>2. op.step # "idle" => Copy(op.sandbox, cr', born')
  BY <1>1, CopyStays DEF Underway
<1>3. op.step = "live" => Copy(op.to, cr', born')
  BY <1>1, CopyStays DEF Underway
<1>4. op.step = "write" /\ op.sandbox.uid = cr'.uid => op.sandbox.uid = cr.uid
  <2>1. SUFFICES ASSUME op.step = "write", op.sandbox.uid = cr'.uid
                 PROVE  op.sandbox.uid = cr.uid
    OBVIOUS
  <2>2. op.sandbox.uid # 0 /\ op.sandbox.uid <= born /\ op.sandbox.uid \in Nat /\ born \in Nat
    BY <2>1, <1>1 DEF Underway, Copy, Sandboxes, Types
  <2>3. cr' # NoCr
    BY <2>1, <2>2, NoCrFields
  <2>4. cr' # Created(born + 1)
    <3>1. SUFFICES ASSUME cr' = Created(born + 1) PROVE FALSE
      OBVIOUS
    <3>2. op.sandbox.uid = born + 1
      BY <2>1, <3>1, NextUid
    <3>3. QED
      BY <2>2, <3>2, UidGiven
  <2>5. QED
    BY <2>1, <2>3, <2>4 DEF Moves
<1>5. op.step \in {"create", "record"} => cr'.podUID = 0 /\ cr'.phase # "Lost"
  BY DEF Underway
<1>6. op.step = "write" /\ op.sandbox.uid = cr'.uid /\ op.sandbox.podUID # 0
        => op.to.podUID = op.sandbox.podUID
  BY <1>4 DEF Underway
<1>7. QED
  BY <1>2, <1>3, <1>5, <1>6 DEF Underway

-----------------------------------------------------------------------------
(* The steps.                                                              *)

\* A status that is written of a Sandbox that is not Lost is one SandboxStatus allows.
LEMMA WrittenAllowed ==
  ASSUME NEW s, NEW to, Written(s, to), s.phase # "Lost"
  PROVE  Allowed(s, to)
BY DEF Written, Allowed

\* A status write lands on the copy it was computed from, or not at all.
LEMMA UpdateMoves ==
  ASSUME Types, UidsInOrder,
         NEW s \in Sandboxes, NEW to \in Sandboxes, s.uid # 0, to.uid = s.uid,
         s.uid = cr.uid /\ s.podUID # 0 => to.podUID = s.podUID,
         Allowed(s, to), Update(s, to)
  PROVE  Moves /\ cr' \in Sandboxes
<1>1. CASE cr = s
  BY <1>1 DEF Update, Moves
<1>2. CASE cr # s
  BY <1>2 DEF Update, Moves, Types
<1>3. QED
  BY <1>1, <1>2

\* Types hold after a step that keeps the caches and leaves a Sandbox, a Pod and a reconcile.
LEMMA TypesStay ==
  ASSUME Types, UNCHANGED <<crCache, podCache>>, cr' \in Sandboxes, born' \in Nat,
         pod' \in Pods, made' \in Seq(Nat), op' \in Reconciles
  PROVE  Types'
BY DEF Types

\* The steps that end with no reconcile under way.
LEMMA EndsIdle ==
  ASSUME Types, UidsInOrder, Moves, cr' \in Sandboxes, op'.step = "idle", op' \in Reconciles,
         UNCHANGED <<born, pod, made, crCache, podCache>>
  PROVE  OperatorInv'
<1>1. Types'
  BY TypesStay DEF Types
<1>2. UidsInOrder'
  BY OrderStays
<1>3. Underway'
  BY DEF Underway
<1>4. QED
  BY <1>1, <1>2, <1>3 DEF OperatorInv

\* The steps that begin a reconcile's next call and write nothing of the Sandbox.
LEMMA GoesOn ==
  ASSUME Types, UidsInOrder, UNCHANGED <<cr, born, crCache, podCache>>,
         pod' \in Pods, made' \in Seq(Nat), op' \in Reconciles, Underway'
  PROVE  OperatorInv' /\ Moves
<1>1. Types'
  BY TypesStay DEF Types
<1>2. Moves
  BY DEF Moves
<1>3. UidsInOrder'
  BY <1>2, OrderStays
<1>4. QED
  BY <1>1, <1>2, <1>3 DEF OperatorInv

\* Idle is a reconcile.
LEMMA IdleFields == Idle \in Reconciles /\ Idle.step = "idle"
BY NoCrFields DEF Idle, Reconciles

\* ReportTerminating.
LEMMA ReportStep ==
  ASSUME OperatorInv, op.step = "idle", ReportTerminating, UNCHANGED <<crCache, podCache>>
  PROVE  OperatorInv' /\ Moves
<1>0. Types /\ UidsInOrder
  BY DEF OperatorInv
<1> DEFINE to == [crCache EXCEPT !.phase = "Terminating"]
<1>1. crCache \in Sandboxes
  BY <1>0 DEF Types
<1>2. /\ to \in Sandboxes /\ to.uid = crCache.uid /\ to.podUID = crCache.podUID
      /\ to.phase = "Terminating" /\ to.deleting = crCache.deleting
      /\ to.lapsed = crCache.lapsed /\ to.scheduled = crCache.scheduled
  BY <1>1 DEF Sandboxes
<1>3. crCache.uid # 0 /\ crCache.deleting = TRUE
  <2>1. crCache.deleting = TRUE
    BY <1>1 DEF ReportTerminating, Sandboxes
  <2>2. NoCr.deleting = FALSE
    BY DEF NoCr
  <2>3. QED
    BY <1>0, <2>1, <2>2 DEF UidsInOrder
<1>4. Allowed(crCache, to)
  <2> HIDE DEF to
  <2>1. QED
    BY <1>2, <1>3 DEF Allowed
<1>5. Update(crCache, to)
  BY DEF ReportTerminating
<1> HIDE DEF to
<1>6. Moves /\ cr' \in Sandboxes
  BY <1>0, <1>1, <1>2, <1>3, <1>4, <1>5, UpdateMoves
<1>7. UNCHANGED <<born, pod, made, op>>
  BY DEF ReportTerminating, Update
<1>8. QED
  BY <1>0, <1>6, <1>7, EndsIdle DEF Types

\* reconcileIdleTimeout.
LEMMA IdleTimeoutStep ==
  ASSUME OperatorInv, op.step = "idle", reconcileIdleTimeout, UNCHANGED <<crCache, podCache>>
  PROVE  OperatorInv' /\ Moves
<1>1. Types /\ UidsInOrder
  BY DEF OperatorInv
<1>2. Moves /\ cr' \in Sandboxes
  BY NoCrFields DEF reconcileIdleTimeout, There, Moves
<1>3. QED
  BY <1>1, <1>2, EndsIdle DEF reconcileIdleTimeout, Types

\* PodCached.
LEMMA PodCachedStep ==
  ASSUME OperatorInv, op.step = "idle", PodCached, UNCHANGED <<crCache, podCache>>
  PROVE  OperatorInv' /\ Moves
<1>1. Types /\ UidsInOrder /\ crCache \in Sandboxes /\ podCache \in Pods
  BY DEF OperatorInv, Types
<1>2. PICK to \in Verdicts(crCache, crCache, podCache) : Update(crCache, to)
  BY DEF PodCached
<1>3. crCache.uid # 0 /\ crCache.phase # "Lost" /\ podCache.uid # 0
  BY DEF PodCached, Kept
<1>4. /\ to \in Sandboxes /\ Written(crCache, to)
      /\ crCache.podUID # 0 => to.podUID = crCache.podUID
  BY <1>1, <1>3, VerdictFields
<1>5. Allowed(crCache, to) /\ to.uid = crCache.uid
  BY <1>3, <1>4, WrittenAllowed DEF Written
<1>6. Moves /\ cr' \in Sandboxes
  BY <1>1, <1>2, <1>3, <1>4, <1>5, UpdateMoves
<1>7. UNCHANGED <<born, pod, made, op>>
  BY <1>2 DEF PodCached, Update
<1>8. QED
  BY <1>1, <1>6, <1>7, EndsIdle DEF Types

\* A reconcile at its next call, from its parts.
LEMMA GotoFields ==
  ASSUME NEW step \in {"idle", "live", "create", "record", "write"},
         NEW s \in Sandboxes, NEW to \in Sandboxes, Goto(step, s, to)
  PROVE  op' \in Reconciles /\ op'.step = step /\ op'.sandbox = s /\ op'.to = to
BY DEF Goto, Reconciles

\* PodNotCached: what it read from the API server holds when it goes on.
LEMMA PodNotCachedStep ==
  ASSUME OperatorInv, op.step = "idle", PodNotCached, UNCHANGED <<crCache, podCache>>
  PROVE  OperatorInv' /\ Moves
<1>1. /\ Types /\ UidsInOrder /\ crCache \in Sandboxes /\ cr \in Sandboxes
      /\ pod \in Pods /\ made \in Seq(Nat)
  BY DEF OperatorInv, Types
<1>2. /\ UNCHANGED <<cr, born, pod, made>>
      /\ crCache.uid # 0 /\ crCache.phase # "Lost" /\ cr.uid # 0 /\ cr.phase # "Lost"
  BY DEF PodNotCached, Kept, There, cluster
<1>3. Copy(crCache, cr', born') /\ Copy(cr, cr', born') /\ crCache.uid <= cr.uid
  <2>1. born \in Nat /\ cr.uid = born
    BY <1>1, <1>2 DEF Types, UidsInOrder
  <2>2. QED
    BY <1>1, <1>2, <2>1, SMTT(30) DEF UidsInOrder, Copy
<1>4. CASE cr.podUID # 0
  <2>1. Goto("live", crCache, cr)
    BY <1>4 DEF PodNotCached
  <2>2. op' \in Reconciles /\ op'.step = "live" /\ op'.sandbox = crCache /\ op'.to = cr
    BY <1>1, <2>1, GotoFields
  <2>3. Underway'
    BY <1>2, <1>3, <1>4, <2>2 DEF Underway
  <2>4. QED
    BY <1>1, <1>2, <2>2, <2>3, GoesOn
<1>5. CASE cr.podUID = 0
  <2>1. Goto("create", crCache, NoCr)
    BY <1>5 DEF PodNotCached
  <2>2. op' \in Reconciles /\ op'.step = "create" /\ op'.sandbox = crCache
    BY <1>1, <2>1, GotoFields, NoCrFields
  <2>3. Underway'
    BY <1>2, <1>3, <1>5, <2>2 DEF Underway
  <2>4. QED
    BY <1>1, <1>2, <2>2, <2>3, GoesOn
<1>6. QED
  BY <1>4, <1>5

\* The steps that have a status to write, and write it next.
LEMMA GoesOnToWrite ==
  ASSUME Types, UidsInOrder, UNCHANGED <<cr, born, pod, made, crCache, podCache>>,
         NEW s \in Sandboxes, NEW to \in Sandboxes, Goto("write", s, to),
         s.uid # 0, s.phase # "Lost", Copy(s, cr, born), Written(s, to),
         s.uid = cr.uid /\ s.podUID # 0 => to.podUID = s.podUID
  PROVE  OperatorInv' /\ Moves
<1>1. op' \in Reconciles /\ op'.step = "write" /\ op'.sandbox = s /\ op'.to = to
  BY GotoFields
<1>2. Underway'
  BY <1>1 DEF Underway
<1>3. QED
  BY <1>1, <1>2, GoesOn DEF Types

\* ReadLive: the Pod is judged on the fresh copy, and the status is written on the cached one.
LEMMA ReadLiveStep ==
  ASSUME OperatorInv, ReadLive, UNCHANGED <<crCache, podCache>>
  PROVE  OperatorInv' /\ Moves
<1>1. /\ Types /\ UidsInOrder /\ Underway /\ pod \in Pods
      /\ op.sandbox \in Sandboxes /\ op.to \in Sandboxes
  BY DEF OperatorInv, Types, Reconciles
<1>2. UNCHANGED <<cr, born, pod, made>> /\ op.step = "live"
  BY DEF ReadLive, cluster
<1>3. /\ op.sandbox.uid # 0 /\ op.sandbox.phase # "Lost" /\ Copy(op.sandbox, cr, born)
      /\ op.to.uid # 0 /\ op.to.phase # "Lost" /\ op.to.podUID # 0
      /\ op.sandbox.uid <= op.to.uid /\ Copy(op.to, cr, born)
  BY <1>1, <1>2 DEF Underway
<1>4. CASE HasPod
  <2>1. PICK to \in Verdicts(op.to, op.sandbox, pod) : Goto("write", op.sandbox, to)
    BY <1>4 DEF ReadLive
  <2>2. /\ to \in Sandboxes /\ Written(op.sandbox, to)
        /\ to.podUID = op.sandbox.podUID \/ to.podUID = op.to.podUID
    BY <1>1, <1>3, <1>4, VerdictFields, SMTT(30) DEF HasPod
  <2>3. op.sandbox.uid = cr.uid /\ op.sandbox.podUID # 0 => to.podUID = op.sandbox.podUID
    <3>1. SUFFICES ASSUME op.sandbox.uid = cr.uid, op.sandbox.podUID # 0
                   PROVE  op.to.podUID = op.sandbox.podUID
      BY <2>2
    <3>2. op.to.uid = cr.uid
      <4>1. cr.uid = born /\ born \in Nat /\ op.to.uid \in Nat
        BY <1>1, <1>3, <3>1 DEF UidsInOrder, Types, Sandboxes
      <4>2. born <= op.to.uid /\ op.to.uid <= born
        BY <1>3, <3>1, <4>1 DEF Copy
      <4>3. QED
        BY <4>1, <4>2, SMTT(30)
    <3>3. QED
      BY <1>3, <3>1, <3>2 DEF Copy
  <2>4. QED
    BY <1>1, <1>2, <1>3, <2>1, <2>2, <2>3, GoesOnToWrite
<1>5. CASE ~HasPod
  <2>1. Goto("write", op.to, markLost(op.to))
    BY <1>5 DEF ReadLive
  <2>2. QED
    BY <1>1, <1>2, <1>3, <2>1, LostFields, GoesOnToWrite
<1>6. QED
  BY <1>4, <1>5

\* CreatePod: the Sandbox has no Pod recorded when its Pod is made.
LEMMA CreatePodStep ==
  ASSUME OperatorInv, CreatePod, UNCHANGED <<crCache, podCache>>
  PROVE  OperatorInv' /\ Moves
<1>1. /\ Types /\ UidsInOrder /\ Underway /\ made \in Seq(Nat)
      /\ op.sandbox \in Sandboxes /\ op.sandbox.uid \in Nat
  BY DEF OperatorInv, Types, Reconciles, Sandboxes
<1>2. UNCHANGED <<cr, born>> /\ op.step = "create" /\ Goto("record", op.sandbox, NoCr)
  BY DEF CreatePod
<1>3. made' \in Seq(Nat)
  BY <1>1, SMTT(30) DEF CreatePod
<1>4. pod' \in Pods
  BY <1>1, SMTT(30) DEF CreatePod, Pods
<1>5. op' \in Reconciles /\ op'.step = "record" /\ op'.sandbox = op.sandbox
  BY <1>1, <1>2, GotoFields, NoCrFields
<1>6. Underway'
  BY <1>1, <1>2, <1>5 DEF Underway
<1>7. QED
  BY <1>1, <1>2, <1>3, <1>4, <1>5, <1>6, GoesOn

\* PodExists.
LEMMA PodExistsStep ==
  ASSUME OperatorInv, PodExists, UNCHANGED <<crCache, podCache>>
  PROVE  OperatorInv' /\ Moves
<1>1. Types /\ UidsInOrder /\ Underway /\ pod \in Pods /\ op.sandbox \in Sandboxes
  BY DEF OperatorInv, Types, Reconciles
<1>2. UNCHANGED <<cr, born, pod, made>> /\ op.step = "create" /\ pod.uid # 0
  BY DEF PodExists, cluster, HasPod
<1>3. op.sandbox.uid # 0 /\ op.sandbox.phase # "Lost" /\ Copy(op.sandbox, cr, born)
  BY <1>1, <1>2 DEF Underway
<1>4. PICK to \in Verdicts(op.sandbox, op.sandbox, pod) : Goto("write", op.sandbox, to)
  BY DEF PodExists
<1>5. /\ to \in Sandboxes /\ Written(op.sandbox, to)
      /\ op.sandbox.podUID # 0 => to.podUID = op.sandbox.podUID
  BY <1>1, <1>2, VerdictFields
<1>6. QED
  BY <1>1, <1>2, <1>3, <1>4, <1>5, GoesOnToWrite

\* CreateRefused.
LEMMA CreateRefusedStep ==
  ASSUME OperatorInv, CreateRefused, UNCHANGED <<crCache, podCache>>
  PROVE  OperatorInv' /\ Moves
<1>1. Types /\ UidsInOrder /\ Underway /\ op.sandbox \in Sandboxes /\ op.step = "create"
  BY DEF OperatorInv, Types, Reconciles, CreateRefused
<1>2. op.sandbox.uid # 0 /\ op.sandbox.phase # "Lost"
  BY <1>1 DEF Underway
<1>3. /\ reconcileRefused(op.sandbox) \in Sandboxes
      /\ Written(op.sandbox, reconcileRefused(op.sandbox))
      /\ reconcileRefused(op.sandbox).podUID = op.sandbox.podUID
  BY <1>1, RefusedFields
<1>4. /\ Allowed(op.sandbox, reconcileRefused(op.sandbox))
      /\ reconcileRefused(op.sandbox).uid = op.sandbox.uid
  BY <1>2, <1>3, WrittenAllowed DEF Written
<1>5. Update(op.sandbox, reconcileRefused(op.sandbox))
  BY DEF CreateRefused
<1>6. Moves /\ cr' \in Sandboxes
  BY <1>1, <1>2, <1>3, <1>4, <1>5, UpdateMoves
<1>7. UNCHANGED <<born, pod, made>> /\ op' = Idle
  BY <1>5 DEF CreateRefused, Update
<1>8. QED
  BY <1>1, <1>6, <1>7, EndsIdle, IdleFields

\* RecordPod: the Sandbox under the name has no Pod recorded, even when it is not the one the
\* Pod was made for.
LEMMA RecordPodStep ==
  ASSUME OperatorInv, RecordPod, UNCHANGED <<crCache, podCache>>
  PROVE  OperatorInv' /\ Moves
<1>1. /\ Types /\ UidsInOrder /\ Underway /\ cr \in Sandboxes /\ op.step = "record"
      /\ pod \in Pods /\ made \in Seq(Nat) /\ born \in Nat /\ Len(made) \in Nat
  BY SMTT(30) DEF OperatorInv, Types, RecordPod
<1>2. cr.podUID = 0 /\ cr.phase # "Lost" /\ UNCHANGED <<born, pod, made>>
  BY <1>1 DEF Underway, RecordPod
<1>3. CASE ~There
  <2>1. op' = Idle /\ cr' = cr
    BY <1>3 DEF RecordPod
  <2>2. Moves
    BY <2>1, <1>2 DEF Moves
  <2>3. QED
    BY <1>1, <1>2, <2>1, <2>2, EndsIdle, IdleFields
<1>4. CASE There
  <2> DEFINE patched == [cr EXCEPT !.podUID = Len(made)]
             new == [NoPod EXCEPT !.uid = Len(made), !.state = "pending"]
  <2>1. new \in Pods /\ new.uid = Len(made)
    BY <1>1 DEF NoPod, Pods
  <2>2. /\ patched \in Sandboxes /\ patched.podUID = Len(made) /\ patched.uid = cr.uid
        /\ patched.phase = cr.phase /\ patched.deleting = cr.deleting
        /\ patched.lapsed = cr.lapsed /\ patched.scheduled = cr.scheduled
    BY <1>1 DEF Sandboxes
  <2>3. /\ cr' = patched
        /\ \E reposReady \in BOOLEAN :
             Goto("write", patched, reconcileStatus(patched, new, reposReady))
    BY <1>4 DEF RecordPod
  <2> HIDE DEF patched, new
  <2>4. PICK reposReady \in BOOLEAN :
             Goto("write", patched, reconcileStatus(patched, new, reposReady))
    BY <2>3
  <2>5. /\ reconcileStatus(patched, new, reposReady) \in Sandboxes
        /\ Written(patched, reconcileStatus(patched, new, reposReady))
        /\ reconcileStatus(patched, new, reposReady).podUID = patched.podUID
    BY <2>1, <2>2, StatusFields
  <2>6. /\ op' \in Reconciles /\ op'.step = "write" /\ op'.sandbox = patched
        /\ op'.to = reconcileStatus(patched, new, reposReady)
    BY <2>2, <2>4, <2>5, GotoFields
  <2>7. Moves
    BY <1>2, <1>4, <2>2, <2>3 DEF Moves, Allowed, There
  <2>8. Types'
    BY <1>1, <1>2, <2>2, <2>3, <2>6, TypesStay
  <2>9. UidsInOrder'
    BY <1>1, <2>7, OrderStays
  <2>10. Copy(patched, cr', born')
    BY <1>1, <1>2, <1>4, <2>2, <2>3, SMTT(30) DEF Copy, UidsInOrder, There
  <2>11. Underway'
    BY <1>2, <1>4, <2>2, <2>5, <2>6, <2>10 DEF Underway, There
  <2>12. QED
    BY <2>7, <2>8, <2>9, <2>11 DEF OperatorInv
<1>5. QED
  BY <1>3, <1>4

\* WriteStatus.
LEMMA WriteStatusStep ==
  ASSUME OperatorInv, WriteStatus, UNCHANGED <<crCache, podCache>>
  PROVE  OperatorInv' /\ Moves
<1>1. /\ Types /\ UidsInOrder /\ Underway /\ op.step = "write"
      /\ op.sandbox \in Sandboxes /\ op.to \in Sandboxes
  BY DEF OperatorInv, Types, Reconciles, WriteStatus
<1>2. /\ op.sandbox.uid # 0 /\ op.sandbox.phase # "Lost" /\ Written(op.sandbox, op.to)
      /\ op.sandbox.uid = cr.uid /\ op.sandbox.podUID # 0 => op.to.podUID = op.sandbox.podUID
  BY <1>1 DEF Underway
<1>3. Allowed(op.sandbox, op.to) /\ op.to.uid = op.sandbox.uid
  BY <1>2, WrittenAllowed DEF Written
<1>4. Update(op.sandbox, op.to) /\ op' = Idle
  BY DEF WriteStatus
<1>5. Moves /\ cr' \in Sandboxes
  BY <1>1, <1>2, <1>3, <1>4, UpdateMoves
<1>6. UNCHANGED <<born, pod, made>>
  BY <1>4 DEF Update
<1>7. QED
  BY <1>1, <1>4, <1>5, <1>6, EndsIdle, IdleFields

\* The steps of the cluster, which leave the operator as it is.
LEMMA ClusterMoves ==
  ASSUME OperatorInv, UNCHANGED <<crCache, podCache, op>>, pod' \in Pods, made' = made,
         cr' \in Sandboxes, Moves,
         cr'.podUID = 0 \/ cr'.podUID = cr.podUID,
         cr'.phase = "" \/ cr'.phase = cr.phase
  PROVE  OperatorInv'
<1>1. Types /\ UidsInOrder /\ Underway
  BY DEF OperatorInv
<1>2. born' \in Nat
  <2>1. born' = born \/ born' = born + 1
    BY DEF Moves
  <2>2. born \in Nat /\ born + 1 \in Nat
    BY <1>1, NextNat DEF Types
  <2>3. QED
    BY <2>1, <2>2
<1>3. Types'
  BY <1>1, <1>2, TypesStay DEF Types
<1>4. UidsInOrder'
  BY <1>1, OrderStays
<1>5. Underway'
  BY <1>1, UnderwayStays
<1>6. QED
  BY <1>3, <1>4, <1>5 DEF OperatorInv

\* Each step of the cluster changes the Sandbox or the Pod.
LEMMA ClusterStep ==
  ASSUME OperatorInv, Cluster
  PROVE  OperatorInv' /\ Moves
<1>1. cr \in Sandboxes /\ pod \in Pods /\ Types /\ UidsInOrder
  BY DEF OperatorInv, Types
<1>2. UNCHANGED <<crCache, podCache, op>>
  BY DEF Cluster
<1>3. CASE Apply
  <2>1. cr.uid = 0 /\ born' = born + 1 /\ cr' = Created(born + 1) /\ UNCHANGED <<pod, made>>
    BY <1>3 DEF Apply, There, Created
  <2>2. cr' \in Sandboxes /\ cr'.podUID = 0 /\ cr'.phase = ""
    BY <1>1, <2>1, NextUid
  <2>3. Moves
    BY <2>1 DEF Moves
  <2>4. QED
    BY <1>1, <1>2, <2>1, <2>2, <2>3, ClusterMoves
<1>4. CASE Destroy
  <2> DEFINE new == [cr EXCEPT !.deleting = TRUE]
  <2>1. cr' = new /\ cr.uid # 0 /\ UNCHANGED <<born, pod, made>>
    BY <1>4 DEF Destroy, There
  <2>2. /\ new \in Sandboxes /\ new.podUID = cr.podUID /\ new.phase = cr.phase
        /\ new.uid = cr.uid /\ new.lapsed = cr.lapsed /\ new.scheduled = cr.scheduled
        /\ new.deleting = TRUE
    BY <1>1 DEF Sandboxes
  <2> HIDE DEF new
  <2>3. Moves
    BY <2>1, <2>2 DEF Moves, Allowed
  <2>4. QED
    BY <1>1, <1>2, <2>1, <2>2, <2>3, ClusterMoves
<1>5. CASE RemoveByHand \/ CollectSandbox
  <2>1. cr' = NoCr /\ cr.uid # 0 /\ UNCHANGED <<born, pod, made>>
    <3>1. CASE RemoveByHand
      BY <3>1 DEF RemoveByHand, There
    <3>2. CASE CollectSandbox
      <4>1. NoCr.deleting = FALSE
        BY DEF NoCr
      <4>2. QED
        BY <1>1, <3>2, <4>1 DEF CollectSandbox, UidsInOrder
    <3>3. QED
      BY <1>5, <3>1, <3>2
  <2>2. Moves
    BY <2>1 DEF Moves
  <2>3. QED
    BY <1>1, <1>2, <2>1, <2>2, ClusterMoves, NoCrFields
<1>6. CASE Lapse \/ Renew
  <2>1. PICK lapsed \in BOOLEAN : cr' = [cr EXCEPT !.lapsed = lapsed]
    BY <1>6 DEF Lapse, Renew
  <2>2. cr.uid # 0 /\ UNCHANGED <<born, pod, made>>
    <3>1. CASE Lapse
      BY <3>1 DEF Lapse, There
    <3>2. CASE Renew
      <4>1. NoCr.lapsed = FALSE
        BY DEF NoCr
      <4>2. QED
        BY <1>1, <3>2, <4>1 DEF Renew, UidsInOrder
    <3>3. QED
      BY <1>6, <3>1, <3>2
  <2> DEFINE new == [cr EXCEPT !.lapsed = lapsed]
  <2>3. /\ new \in Sandboxes /\ new.podUID = cr.podUID /\ new.phase = cr.phase
        /\ new.uid = cr.uid /\ new.deleting = cr.deleting /\ new.scheduled = cr.scheduled
    BY <1>1 DEF Sandboxes
  <2>4. cr' = new
    BY <2>1
  <2> HIDE DEF new
  <2>5. Moves
    BY <2>2, <2>3, <2>4 DEF Moves, Allowed
  <2>6. QED
    BY <1>1, <1>2, <2>2, <2>3, <2>4, <2>5, ClusterMoves
<1>7. CASE PodMoves \/ DeletePod \/ CollectPod \/ PodGone
  <2>1. UNCHANGED <<cr, born, made>>
    BY <1>7 DEF PodMoves, DeletePod, CollectPod, PodGone
  <2>2. pod' \in Pods
    <3>1. CASE PodMoves
      <4>1. PICK to \in {"scheduled", "ready", "ended"} : pod' = [pod EXCEPT !.state = to]
        BY <3>1 DEF PodMoves
      <4>2. QED
        BY <1>1, <4>1 DEF Pods
    <3>2. CASE DeletePod \/ CollectPod
      BY <1>1, <3>2 DEF DeletePod, CollectPod, Pods
    <3>3. CASE PodGone
      BY <3>3 DEF PodGone, NoPod, Pods
    <3>4. QED
      BY <1>7, <3>1, <3>2, <3>3
  <2>3. Moves
    BY <2>1 DEF Moves
  <2>4. QED
    BY <1>1, <1>2, <2>1, <2>2, <2>3, ClusterMoves
<1>8. QED
  BY <1>3, <1>4, <1>5, <1>6, <1>7 DEF Cluster

\* Every step.
LEMMA NextStep ==
  ASSUME OperatorInv, Next
  PROVE  OperatorInv' /\ Moves
<1>1. Types /\ UidsInOrder /\ Underway
  BY DEF OperatorInv
<1>2. CASE Reconcile
  <2>1. UNCHANGED <<crCache, podCache>>
    BY <1>2 DEF Reconcile
  <2>2. QED
    BY <1>2, <2>1, ReportStep, IdleTimeoutStep, PodCachedStep, PodNotCachedStep, ReadLiveStep,
       CreatePodStep, PodExistsStep, CreateRefusedStep, RecordPodStep, WriteStatusStep
       DEF Reconcile
<1>3. CASE Stop
  <2>1. op' = Idle /\ UNCHANGED <<cr, born, pod, made, crCache, podCache>>
    BY <1>3 DEF Stop, cluster
  <2>2. Moves
    BY <2>1 DEF Moves
  <2>3. QED
    BY <1>1, <2>1, <2>2, EndsIdle, IdleFields DEF Types
<1>4. CASE Cluster
  BY <1>4, ClusterStep
<1>5. CASE SyncSandbox
  <2>1. crCache' = cr /\ UNCHANGED <<cr, born, pod, made, podCache, op>>
    BY <1>5 DEF SyncSandbox, cluster
  <2>2. Types'
    BY <1>1, <2>1 DEF Types
  <2>3. Copy(cr, cr, born)
    BY <1>1, SMTT(30) DEF Copy, UidsInOrder, Types
  <2>4. UidsInOrder'
    BY <1>1, <2>1, <2>3 DEF UidsInOrder
  <2>5. Underway'
    BY <1>1, <2>1 DEF Underway
  <2>6. QED
    BY <2>1, <2>2, <2>4, <2>5 DEF OperatorInv, Moves
<1>6. CASE SyncPod
  <2>1. podCache' = pod /\ UNCHANGED <<cr, born, pod, made, crCache, op>>
    BY <1>6 DEF SyncPod, cluster
  <2>2. Types'
    BY <1>1, <2>1 DEF Types
  <2>3. UidsInOrder' /\ Underway'
    BY <1>1, <2>1 DEF UidsInOrder, Underway
  <2>4. QED
    BY <2>1, <2>2, <2>3 DEF OperatorInv, Moves
<1>7. QED
  BY <1>2, <1>3, <1>4, <1>5, <1>6 DEF Next

\* The invariant holds initially.
LEMMA InitInv == Init => OperatorInv
<1> SUFFICES ASSUME Init PROVE OperatorInv
  OBVIOUS
<1>1. cr = NoCr /\ crCache = NoCr /\ born = 0 /\ pod = NoPod /\ podCache = NoPod
      /\ made = <<>> /\ op = Idle
  BY DEF Init
<1>2. NoPod \in Pods
  BY DEF NoPod, Pods
<1>3. Types
  <2>1. made \in Seq(Nat) /\ born \in Nat
    BY <1>1, SMTT(30)
  <2>2. cr \in Sandboxes /\ crCache \in Sandboxes /\ pod \in Pods /\ podCache \in Pods
        /\ op \in Reconciles
    BY <1>1, <1>2, NoCrFields, IdleFields
  <2>3. QED
    BY <2>1, <2>2 DEF Types
<1>4. UidsInOrder
  <2>1. NoCr.uid = 0 /\ NoCr.podUID = 0 /\ born = 0
    BY <1>1, NoCrFields
  <2>2. Copy(NoCr, NoCr, born)
    BY <2>1, SMTT(30) DEF Copy
  <2>3. QED
    BY <1>1, <2>1, <2>2 DEF UidsInOrder
<1>5. Underway
  BY <1>1, IdleFields DEF Underway
<1>6. QED
  BY <1>3, <1>4, <1>5 DEF OperatorInv

\* A step of nobody keeps it.
LEMMA StutterInv == OperatorInv /\ UNCHANGED vars => OperatorInv' /\ UNCHANGED <<cr, born>>
BY DEF OperatorInv, Types, UidsInOrder, Underway, vars

\* In every reachable state: uids are given in order, a copy never denies the Pod recorded,
\* and a reconcile at its create or its record has a Sandbox with no Pod before it.
THEOREM OperatorInvariant == Spec => []OperatorInv
<1>1. OperatorInv /\ [Next]_vars => OperatorInv'
  BY NextStep, StutterInv
<1>2. QED
  BY <1>1, InitInv, PTL DEF Spec

-----------------------------------------------------------------------------
(* The results.                                                            *)

\* The Pod that a Sandbox has recorded is never changed, however the caches lag, wherever the
\* operator stops and whatever is deleted meanwhile.
THEOREM PodRecordedOnce == Spec => PodUIDOnce
<1>1. OperatorInv /\ [Next]_vars =>
        [cr.podUID # 0 /\ cr'.uid = cr.uid => cr'.podUID = cr.podUID]_vars
  <2>1. SUFFICES ASSUME OperatorInv, Next, cr.podUID # 0, cr'.uid = cr.uid
                 PROVE  cr'.podUID = cr.podUID
    BY DEF vars
  <2>2. Moves /\ cr.uid # 0
    BY <2>1, NextStep, NoCrFields DEF OperatorInv, UidsInOrder
  <2>3. cr' # NoCr
    BY <2>1, <2>2, NoCrFields
  <2>4. QED
    BY <2>1, <2>2, <2>3 DEF Moves
<1>2. QED
  BY <1>1, OperatorInvariant, PTL DEF PodUIDOnce, Spec

\* No Pod is made for a Sandbox that has one recorded, or that is Lost.
THEOREM OnePodHolds == Spec => OnePod
<1>1. OperatorInv /\ [Next]_vars =>
        [made' # made /\ made'[Len(made')] = cr.uid => cr.podUID = 0 /\ cr.phase # "Lost"]_vars
  <2>1. SUFFICES ASSUME OperatorInv, Next, made' # made
                 PROVE  cr.podUID = 0 /\ cr.phase # "Lost"
    BY DEF vars
  <2>2. CreatePod
    BY <2>1 DEF Next, Reconcile, ReportTerminating, reconcileIdleTimeout, PodCached,
       PodNotCached, ReadLive, PodExists, CreateRefused, RecordPod, WriteStatus, Update, Stop,
       Cluster, Apply, Destroy, RemoveByHand, Lapse, Renew, PodMoves, DeletePod, CollectPod,
       PodGone, CollectSandbox, SyncSandbox, SyncPod, cluster
  <2>3. QED
    BY <2>1, <2>2 DEF CreatePod, OperatorInv, Underway
<1>2. QED
  BY <1>1, OperatorInvariant, PTL DEF OnePod, Spec

\* The fields that SandboxStatus has.
Statuses ==
  [uid : Nat, deleting : BOOLEAN, lapsed : BOOLEAN,
   phase : {"", "Pending", "Ready", "Terminating", "Lost"}, scheduled : BOOLEAN]

Status(c) == [uid |-> c.uid, deleting |-> c.deleting, lapsed |-> c.lapsed,
              phase |-> c.phase, scheduled |-> c.scheduled]

LEMMA StatusOf ==
  ASSUME NEW c \in Sandboxes
  PROVE  /\ Status(c) \in Statuses
         /\ Status(c).uid = c.uid /\ Status(c).deleting = c.deleting
         /\ Status(c).lapsed = c.lapsed /\ Status(c).phase = c.phase
         /\ Status(c).scheduled = c.scheduled
BY DEF Status, Sandboxes, Statuses

\* Two of them with the same fields are the same.
LEMMA SameStatus ==
  ASSUME NEW a \in Statuses, NEW b \in Statuses, a.uid = b.uid, a.deleting = b.deleting,
         a.lapsed = b.lapsed, a.phase = b.phase, a.scheduled = b.scheduled
  PROVE  a = b
<1>1. a = [uid |-> a.uid, deleting |-> a.deleting, lapsed |-> a.lapsed,
           phase |-> a.phase, scheduled |-> a.scheduled]
  BY DEF Statuses
<1>2. b = [uid |-> b.uid, deleting |-> b.deleting, lapsed |-> b.lapsed,
           phase |-> b.phase, scheduled |-> b.scheduled]
  BY DEF Statuses
<1>3. QED
  BY <1>1, <1>2

\* A delete that is asked for.
LEMMA DeletingExcept ==
  ASSUME NEW c \in Statuses, NEW d \in Statuses, d.uid = c.uid, d.deleting = TRUE,
         d.lapsed = c.lapsed, d.phase = c.phase, d.scheduled = c.scheduled
  PROVE  d = [c EXCEPT !.deleting = TRUE]
<1> DEFINE e == [c EXCEPT !.deleting = TRUE]
<1>1. /\ e \in Statuses /\ e.uid = c.uid /\ e.deleting = TRUE /\ e.lapsed = c.lapsed
      /\ e.phase = c.phase /\ e.scheduled = c.scheduled
  BY DEF Statuses
<1> HIDE DEF e
<1>2. d = e
  BY <1>1, SameStatus
<1>3. QED
  BY <1>2 DEF e

\* A stamp that lapses or is renewed.
LEMMA LapsedExcept ==
  ASSUME NEW c \in Statuses, NEW d \in Statuses, d.uid = c.uid, d.deleting = c.deleting,
         d.phase = c.phase, d.scheduled = c.scheduled
  PROVE  /\ d.lapsed = TRUE => d = [c EXCEPT !.lapsed = TRUE]
         /\ d.lapsed = FALSE => d = [c EXCEPT !.lapsed = FALSE]
<1> DEFINE e == [c EXCEPT !.lapsed = TRUE]
           f == [c EXCEPT !.lapsed = FALSE]
<1>1. /\ e \in Statuses /\ e.uid = c.uid /\ e.deleting = c.deleting /\ e.lapsed = TRUE
      /\ e.phase = c.phase /\ e.scheduled = c.scheduled
  BY DEF Statuses
<1>2. /\ f \in Statuses /\ f.uid = c.uid /\ f.deleting = c.deleting /\ f.lapsed = FALSE
      /\ f.phase = c.phase /\ f.scheduled = c.scheduled
  BY DEF Statuses
<1> HIDE DEF e, f
<1>3. d.lapsed = TRUE => d = e
  BY <1>1, SameStatus
<1>4. d.lapsed = FALSE => d = f
  BY <1>2, SameStatus
<1>5. QED
  BY <1>3, <1>4 DEF e, f

\* A report of the phase and of the Scheduled condition, or of the phase alone.
LEMMA PhaseExcept ==
  ASSUME NEW c \in Statuses, NEW d \in Statuses, d.uid = c.uid, d.deleting = c.deleting,
         d.lapsed = c.lapsed
  PROVE  /\ d = [c EXCEPT !.phase = d.phase, !.scheduled = d.scheduled]
         /\ d.scheduled = c.scheduled => d = [c EXCEPT !.phase = d.phase]
<1> DEFINE e == [c EXCEPT !.phase = d.phase, !.scheduled = d.scheduled]
           f == [c EXCEPT !.phase = d.phase]
<1>1. /\ e \in Statuses /\ e.uid = c.uid /\ e.deleting = c.deleting /\ e.lapsed = c.lapsed
      /\ e.phase = d.phase /\ e.scheduled = d.scheduled
  BY DEF Statuses
<1>2. /\ f \in Statuses /\ f.uid = c.uid /\ f.deleting = c.deleting /\ f.lapsed = c.lapsed
      /\ f.phase = d.phase /\ f.scheduled = c.scheduled
  BY DEF Statuses
<1> HIDE DEF e, f
<1>3. d = e
  BY <1>1, SameStatus
<1>4. d.scheduled = c.scheduled => d = f
  BY <1>2, SameStatus
<1>5. QED
  BY <1>3, <1>4 DEF e, f

\* Every change of the Sandbox is a step of SandboxStatus, or none.
LEMMA MovesRefine ==
  ASSUME Types, Types', UidsInOrder, Moves
  PROVE  Promise!StatusNext \/ UNCHANGED <<Status(cr), born>>
<1>1. CASE UNCHANGED <<cr, born>>
  BY <1>1 DEF Status
<1>2. CASE cr.uid # 0 /\ cr' = NoCr /\ born' = born
  <2>1. Status(cr)' = Promise!NoCr
    BY <1>2 DEF NoCr, Promise!NoCr, Status
  <2>2. Promise!Gone
    BY <1>2, <2>1 DEF Promise!Gone, Promise!There, Status
  <2>3. QED
    BY <2>2 DEF Promise!StatusNext
<1>3. CASE cr.uid = 0 /\ born' = born + 1 /\ cr' = Created(born + 1)
  <2>1. Status(cr)' = Promise!Created
    <3>1. born + 1 \in Nat /\ cr' \in Sandboxes
      BY NextNat DEF Types
    <3>2. /\ Promise!Created \in Statuses /\ Promise!Created.uid = born + 1
          /\ Promise!Created.deleting = FALSE /\ Promise!Created.lapsed = FALSE
          /\ Promise!Created.phase = "" /\ Promise!Created.scheduled = FALSE
      BY <3>1 DEF Promise!Created, Promise!NoCr, Statuses
    <3>3. /\ cr'.uid = born + 1 /\ cr'.deleting = FALSE /\ cr'.lapsed = FALSE
          /\ cr'.phase = "" /\ cr'.scheduled = FALSE
      BY <1>3, <3>1, CreatedFields
    <3>4. /\ Status(cr') \in Statuses /\ Status(cr').uid = cr'.uid
          /\ Status(cr').deleting = cr'.deleting /\ Status(cr').lapsed = cr'.lapsed
          /\ Status(cr').phase = cr'.phase /\ Status(cr').scheduled = cr'.scheduled
      BY <3>1, StatusOf
    <3>5. QED
      BY <3>2, <3>3, <3>4, SameStatus
  <2>2. Promise!Create
    BY <1>3, <2>1 DEF Promise!Create, Promise!There, Status
  <2>3. QED
    BY <2>2 DEF Promise!StatusNext
<1>4. CASE /\ cr.uid # 0 /\ cr'.uid = cr.uid /\ born' = born /\ Allowed(cr, cr')
           /\ cr.podUID # 0 => cr'.podUID = cr.podUID
  <2>0. cr.lapsed \in BOOLEAN /\ cr'.lapsed \in BOOLEAN /\ cr'.scheduled \in BOOLEAN
    BY DEF Types, Sandboxes
  <2>1. /\ Status(cr) \in Statuses /\ Status(cr') \in Statuses
        /\ Status(cr).uid = cr.uid /\ Status(cr').uid = cr'.uid
        /\ Status(cr).deleting = cr.deleting /\ Status(cr').deleting = cr'.deleting
        /\ Status(cr).lapsed = cr.lapsed /\ Status(cr').lapsed = cr'.lapsed
        /\ Status(cr).phase = cr.phase /\ Status(cr').phase = cr'.phase
        /\ Status(cr).scheduled = cr.scheduled /\ Status(cr').scheduled = cr'.scheduled
    <3>1. cr \in Sandboxes /\ cr' \in Sandboxes
      BY DEF Types
    <3>2. QED
      BY <3>1, StatusOf
  <2>2. CASE cr'.deleting = TRUE /\ cr'.lapsed = cr.lapsed /\ cr'.phase = cr.phase
             /\ cr'.scheduled = cr.scheduled
    <3>0. /\ Status(cr').uid = Status(cr).uid /\ Status(cr').deleting = TRUE
          /\ Status(cr').lapsed = Status(cr).lapsed /\ Status(cr').phase = Status(cr).phase
          /\ Status(cr').scheduled = Status(cr).scheduled
      BY <1>4, <2>1, <2>2
    <3>1. Status(cr') = [Status(cr) EXCEPT !.deleting = TRUE]
      BY <2>1, <3>0, DeletingExcept
    <3>2. Promise!DeleteForeground
      BY <1>4, <3>1 DEF Promise!DeleteForeground, Promise!There, Status
    <3>3. QED
      BY <3>2 DEF Promise!StatusNext
  <2>3. CASE cr'.deleting = cr.deleting /\ cr'.phase = cr.phase /\ cr'.scheduled = cr.scheduled
    <3>1. CASE cr'.lapsed = cr.lapsed
      BY <1>4, <2>3, <3>1 DEF Status
    <3>2. CASE cr.lapsed = FALSE /\ cr'.lapsed = TRUE
      <4>1. Status(cr') = [Status(cr) EXCEPT !.lapsed = TRUE]
        BY <1>4, <2>1, <2>3, <3>2, LapsedExcept
      <4>2. Promise!Lapse
        BY <1>4, <3>2, <4>1 DEF Promise!Lapse, Promise!There, Status
      <4>3. QED
        BY <4>2 DEF Promise!StatusNext
    <3>3. CASE cr'.lapsed = FALSE
      <4>1. Status(cr') = [Status(cr) EXCEPT !.lapsed = FALSE]
        BY <1>4, <2>1, <2>3, <3>3, LapsedExcept
      <4>2. Promise!Stamp
        BY <1>4, <4>1 DEF Promise!Stamp, Promise!There, Status
      <4>3. QED
        BY <4>2 DEF Promise!StatusNext
    <3>4. QED
      BY <2>0, <3>1, <3>2, <3>3
  <2>4. CASE /\ cr'.deleting = cr.deleting /\ cr'.lapsed = cr.lapsed
             /\ cr.phase # "Lost" /\ cr'.phase \in {"Pending", "Ready"}
    <3>0. /\ Status(cr').uid = Status(cr).uid /\ Status(cr').lapsed = Status(cr).lapsed
          /\ Status(cr').deleting = Status(cr).deleting
      BY <1>4, <2>1, <2>4
    <3>1. Status(cr') = [Status(cr) EXCEPT !.phase = Status(cr').phase,
                                           !.scheduled = Status(cr').scheduled]
      BY <2>1, <3>0, PhaseExcept
    <3>2. Promise!Report(cr'.phase, cr'.scheduled)
      BY <1>4, <2>4, <3>1 DEF Promise!Report, Promise!There, Status
    <3>3. QED
      BY <2>0, <2>4, <3>2 DEF Promise!StatusNext
  <2>5. CASE /\ cr'.deleting = cr.deleting /\ cr'.lapsed = cr.lapsed
             /\ cr'.phase = "Lost" /\ cr'.scheduled = cr.scheduled
    <3>1. Promise!Lose
      BY <1>4, <2>5, SMTT(30) DEF Promise!Lose, Promise!There
    <3>2. QED
      BY <3>1 DEF Promise!StatusNext
  <2>6. CASE /\ cr'.deleting = cr.deleting /\ cr'.lapsed = cr.lapsed /\ cr.deleting = TRUE
             /\ cr'.phase = "Terminating" /\ cr'.scheduled = cr.scheduled
    <3>1. Promise!SayTerminating
      BY <1>4, <2>6, SMTT(30) DEF Promise!SayTerminating, Promise!There
    <3>2. QED
      BY <3>1 DEF Promise!StatusNext
  <2>7. QED
    BY <1>4, <2>2, <2>3, <2>4, <2>5, <2>6 DEF Allowed
<1>5. QED
  BY <1>1, <1>2, <1>3, <1>4 DEF Moves

\* The controller and the cluster implement SandboxStatus, its liveness apart: Lost is the last
\* phase of a Sandbox that stays, and Terminating is said of one being deleted alone.
THEOREM OperatorKeepsSafety == Spec => Promise!StatusSafety
<1>1. Init => Promise!StatusInit
  <2>1. NoCr.uid = 0 /\ NoCr.deleting = FALSE /\ NoCr.lapsed = FALSE /\ NoCr.phase = ""
        /\ NoCr.scheduled = FALSE
    BY DEF NoCr
  <2>2. QED
    BY <2>1 DEF Init, Promise!StatusInit, Promise!NoCr
<1>2. OperatorInv /\ OperatorInv' /\ [Next]_vars =>
        [Promise!StatusNext]_<<[uid |-> cr.uid, deleting |-> cr.deleting,
           lapsed |-> cr.lapsed, phase |-> cr.phase, scheduled |-> cr.scheduled], born>>
  <2>1. SUFFICES ASSUME OperatorInv, OperatorInv', [Next]_vars
                 PROVE  Promise!StatusNext \/ UNCHANGED <<Status(cr), born>>
    BY DEF Status
  <2>2. Moves
    BY <2>1, NextStep, StutterInv DEF Moves
  <2>3. QED
    BY <2>1, <2>2, MovesRefine DEF OperatorInv
<1>3. QED
  BY <1>1, <1>2, OperatorInvariant, PTL DEF Spec, Promise!StatusSafety

-----------------------------------------------------------------------------
(* A loss is a Sandbox's own.                                              *)

\* A Pod that was made and is not there, whole and running, any more.
Dead(u) == pod.uid = u => pod.deleting \/ pod.state = "ended"

\* Pods are numbered as they are made, and a cached Pod is the one there is, or was.
PodsInOrder ==
  /\ pod.uid <= Len(made) /\ podCache.uid <= Len(made)
  /\ podCache.uid # 0 /\ podCache.uid = pod.uid =>
       /\ podCache.deleting => pod.deleting
       /\ podCache.state = "ended" => pod.state = "ended"

\* What is known of a Sandbox created when all trace of the one before it was gone: the copies
\* and the Pods in every hand are its own, and a verdict of a loss, written or on its way, has a
\* Pod of its own to name.
Own ==
  cr.uid # 0 /\ cr.uid \notin heirs =>
    /\ crCache.uid \in {0, cr.uid}
    /\ {cr.podUID, crCache.podUID, pod.uid, podCache.uid} \subseteq Mine \cup {0}
    /\ cr.phase = "Lost" => \E u \in Mine : Dead(u)
    /\ op.step # "idle" => op.sandbox.uid = cr.uid /\ op.sandbox.podUID \in Mine \cup {0}
    /\ op.step \in {"live", "write"} => op.to.podUID \in Mine \cup {0}
    /\ op.step = "live" => op.to.uid = cr.uid
    /\ op.step = "write" /\ op.to.phase = "Lost" => \E u \in Mine : Dead(u)
    /\ op.step = "record" => Len(made) \in Mine

\* What the life of a Pod may do to it, whoever moves it.
PodMoved ==
  \/ pod' = pod
  \/ pod' = NoPod
  \/ pod'.uid = Len(made) + 1
  \/ /\ pod'.uid = pod.uid
     /\ pod.deleting => pod'.deleting
     /\ pod.state = "ended" => pod'.state = "ended"

\* The Pods of a Sandbox stay its own, and a dead one stays dead.
LEMMA LossStays ==
  ASSUME Types, cr'.uid = cr.uid, PodMoved,
         made' = made \/ \E n \in Nat : made' = Append(made, n)
  PROVE  Mine \subseteq Mine' /\ \A u \in Mine : Dead(u) => Dead(u)'
<1>1. made \in Seq(Nat)
  BY DEF Types
<1>2. \A u \in DOMAIN made : u \in Nat \ {0} /\ u <= Len(made)
  BY <1>1, SMTT(30)
<1>3. \A u \in DOMAIN made : u \in DOMAIN made' /\ made'[u] = made[u]
  BY <1>1, SMTT(30)
<1>4. NoPod.uid = 0
  BY DEF NoPod
<1>5. \A u \in Mine : u # NoPod.uid /\ u # Len(made) + 1
  <2>1. Len(made) \in Nat
    BY <1>1, SMTT(30)
  <2> QED
    BY <1>2, <1>4, <2>1, SMTT(30) DEF Mine
<1>6. Mine \subseteq Mine'
  BY <1>3 DEF Mine
<1> QED
  BY <1>5, <1>6 DEF PodMoved, Dead

\* A loss that is judged on a Sandbox's own Pods has one of them to name.
LEMMA LossHasPod ==
  ASSUME Types, PodsInOrder, NEW judged \in Sandboxes, NEW p \in {pod, podCache},
         judged.podUID \in Mine \cup {0}, p.uid \in Mine, p.uid # 0, podLost(judged, p)
  PROVE  \E u \in Mine : Dead(u)
<1>1. CASE judged.podUID # 0 /\ p.uid # judged.podUID
  BY <1>1 DEF Dead
<1>2. CASE p.deleting \/ p.state = "ended"
  BY <1>2, SMTT(30) DEF Dead, PodsInOrder
<1> QED
  BY <1>1, <1>2 DEF podLost

\* Only a loss writes Lost.
LEMMA LostIsLoss ==
  ASSUME NEW judged \in Sandboxes, NEW s \in Sandboxes, NEW p \in Pods,
         NEW to \in Verdicts(judged, s, p), to.phase = "Lost"
  PROVE  podLost(judged, p)
<1> SUFFICES ASSUME ~podLost(judged, p) PROVE FALSE
  OBVIOUS
<1>1. PICK reposReady \in BOOLEAN : to = reconcileStatus(s, p, reposReady)
  BY DEF Verdicts
<1>2. to.phase \in {"Ready", "Pending"}
  BY <1>1 DEF reconcileStatus, Sandboxes
<1> QED
  BY <1>2

\* A reconcile that ends, its write landed or not.
LEMMA OwnEnds ==
  ASSUME Types, Own, op'.step = "idle", UNCHANGED <<pod, made, crCache, podCache, heirs>>,
         \/ cr' = cr
         \/ cr' = NoCr
         \/ /\ cr'.uid = cr.uid
            /\ cr.uid # 0 /\ cr.uid \notin heirs =>
                 /\ cr'.podUID \in Mine \cup {0}
                 /\ cr'.phase = "Lost" => \E u \in Mine : Dead(u)
  PROVE  Own'
<1> SUFFICES ASSUME cr'.uid # 0, cr'.uid \notin heirs PROVE Own'
  BY DEF Own
<1>1. cr'.uid = cr.uid
  BY NoCrFields
<1>2. Mine' = Mine /\ \A u : Dead(u)' <=> Dead(u)
  BY <1>1 DEF Mine, Dead
<1>3. cr'.podUID \in Mine \cup {0} /\ (cr'.phase = "Lost" => \E u \in Mine : Dead(u))
  BY <1>1, NoCrFields DEF Own
<1> QED
  BY <1>1, <1>2, <1>3 DEF Own

\* Every step of the reconcile keeps a loss the Sandbox's own.
LEMMA OwnReconciles ==
  ASSUME OperatorInv, PodsInOrder, Own, Reconcile
  PROVE  Own'
<1>0. Types /\ UidsInOrder /\ Underway /\ UNCHANGED <<crCache, podCache>>
  BY DEF OperatorInv, Reconcile
<1>1. /\ cr \in Sandboxes /\ crCache \in Sandboxes /\ op.sandbox \in Sandboxes
      /\ op.to \in Sandboxes /\ pod \in Pods /\ podCache \in Pods /\ made \in Seq(Nat)
  BY <1>0 DEF Types, Reconciles
<1> DEFINE Ours == cr.uid # 0 /\ cr.uid \notin heirs
           Loss == \E u \in Mine : Dead(u)
<1>2. CASE op.step = "idle" /\ ReportTerminating
  <2> DEFINE to == [crCache EXCEPT !.phase = "Terminating"]
  <2>1. to.uid = crCache.uid /\ to.podUID = crCache.podUID /\ to.phase # "Lost"
    BY <1>1 DEF Sandboxes
  <2>2. cr' = IF cr = crCache THEN to ELSE cr
    BY <1>2 DEF ReportTerminating, Update
  <2>3. op' = op /\ UNCHANGED <<pod, made, heirs>>
    BY <1>2 DEF ReportTerminating, Update
  <2> HIDE DEF to
  <2> QED
    BY <1>0, <1>2, <2>1, <2>2, <2>3, OwnEnds DEF Own
<1>3. CASE op.step = "idle" /\ reconcileIdleTimeout
  BY <1>0, <1>3, OwnEnds DEF reconcileIdleTimeout
<1>4. CASE op.step = "idle" /\ PodCached
  <2>1. PICK to \in Verdicts(crCache, crCache, podCache) : Update(crCache, to)
    BY <1>4 DEF PodCached
  <2>2. podCache.uid # 0 /\ crCache.uid # 0 /\ op' = op
    BY <1>4 DEF PodCached, Kept
  <2>3. /\ to.uid = crCache.uid
        /\ to.podUID \in {crCache.podUID, podCache.uid}
    BY <1>1, <2>1, <2>2, VerdictFields, SMTT(30) DEF Written
  <2>4. ASSUME Ours, to.phase = "Lost" PROVE Loss
    <3>1. podLost(crCache, podCache)
      BY <1>1, <2>1, <2>4, LostIsLoss
    <3> QED
      BY <1>0, <1>1, <2>2, <2>4, <3>1, LossHasPod DEF Own
  <2>5. UNCHANGED <<pod, made, heirs>> /\ cr' = IF cr = crCache THEN to ELSE cr
    BY <2>1 DEF Update
  <2> QED
    BY <1>0, <1>4, <2>2, <2>3, <2>4, <2>5, OwnEnds DEF Own
<1>5. CASE op.step = "idle" /\ PodNotCached
  <2>1. /\ UNCHANGED <<cr, pod, made, heirs>> /\ crCache.uid # 0
        /\ \/ op' = [step |-> "live", sandbox |-> crCache, to |-> cr]
           \/ op' = [step |-> "create", sandbox |-> crCache, to |-> NoCr]
    BY <1>5 DEF PodNotCached, Kept, Goto, cluster
  <2>2. Mine' = Mine /\ \A u : Dead(u)' <=> Dead(u)
    BY <2>1 DEF Mine, Dead
  <2> QED
    BY <1>0, <2>1, <2>2, SMTT(30) DEF Own
<1>6. CASE ReadLive
  <2>1. UNCHANGED <<cr, pod, made, heirs>> /\ op.step = "live"
    BY <1>6 DEF ReadLive, cluster
  <2>2. Mine' = Mine /\ \A u : Dead(u)' <=> Dead(u)
    BY <2>1 DEF Mine, Dead
  <2>3. CASE HasPod
    <3>1. PICK to \in Verdicts(op.to, op.sandbox, pod) :
            op' = [step |-> "write", sandbox |-> op.sandbox, to |-> to]
      BY <1>6, <2>3 DEF ReadLive, Goto
    <3>2. to.podUID \in {op.sandbox.podUID, pod.uid}
      BY <1>1, <2>3, <3>1, VerdictFields, SMTT(30) DEF HasPod
    <3>3. ASSUME Ours, to.phase = "Lost" PROVE Loss
      <4>1. podLost(op.to, pod)
        BY <1>1, <3>1, <3>3, LostIsLoss
      <4> QED
        BY <1>0, <1>1, <2>1, <2>3, <3>3, <4>1, LossHasPod DEF Own, HasPod
    <3> QED
      BY <1>0, <2>1, <2>2, <3>1, <3>2, <3>3 DEF Own
  <2>4. CASE ~HasPod
    <3>1. op' = [step |-> "write", sandbox |-> op.to, to |-> markLost(op.to)]
      BY <1>6, <2>4 DEF ReadLive, Goto
    <3>2. markLost(op.to).podUID = op.to.podUID /\ op.to.podUID # 0
      BY <1>0, <1>1, <2>1, LostFields DEF Underway
    <3>3. ASSUME Ours PROVE Loss
      <4>1. op.to.podUID \in Mine /\ pod.uid = 0
        BY <2>1, <2>4, <3>2, <3>3 DEF Own, HasPod
      <4> QED
        BY <3>2, <4>1 DEF Dead
    <3> QED
      BY <1>0, <2>1, <2>2, <3>1, <3>2, <3>3 DEF Own
  <2> QED
    BY <2>3, <2>4
<1>7. CASE CreatePod
  <2>1. /\ op.step = "create" /\ UNCHANGED <<cr, heirs>>
        /\ made' = Append(made, op.sandbox.uid)
        /\ pod'.uid = Len(made) + 1
        /\ op' = [step |-> "record", sandbox |-> op.sandbox, to |-> NoCr]
    BY <1>7 DEF CreatePod, Goto
  <2>2. op.sandbox.uid \in Nat
    BY <1>1 DEF Sandboxes
  <2>3. Mine \subseteq Mine' /\ \A u \in Mine : Dead(u) => Dead(u)'
    BY <1>0, <2>1, <2>2, LossStays DEF PodMoved
  <2>4. /\ Len(made') = Len(made) + 1 /\ Len(made') \in DOMAIN made'
        /\ made'[Len(made')] = op.sandbox.uid
    BY <1>1, <2>1, <2>2, SMTT(30)
  <2>5. Ours => Len(made') \in Mine'
    BY <2>1, <2>4 DEF Own, Mine
  <2> QED
    BY <1>0, <2>1, <2>3, <2>4, <2>5 DEF Own
<1>8. CASE PodExists
  <2>1. UNCHANGED <<cr, pod, made, heirs>> /\ op.step = "create" /\ pod.uid # 0
    BY <1>8 DEF PodExists, cluster, HasPod
  <2>2. Mine' = Mine /\ \A u : Dead(u)' <=> Dead(u)
    BY <2>1 DEF Mine, Dead
  <2>3. PICK to \in Verdicts(op.sandbox, op.sandbox, pod) :
          op' = [step |-> "write", sandbox |-> op.sandbox, to |-> to]
    BY <1>8 DEF PodExists, Goto
  <2>4. to.podUID \in {op.sandbox.podUID, pod.uid}
    BY <1>1, <2>1, <2>3, VerdictFields, SMTT(30)
  <2>5. ASSUME Ours, to.phase = "Lost" PROVE Loss
    <3>1. podLost(op.sandbox, pod)
      BY <1>1, <2>3, <2>5, LostIsLoss
    <3> QED
      BY <1>0, <1>1, <2>1, <2>5, <3>1, LossHasPod DEF Own
  <2> QED
    BY <1>0, <2>1, <2>2, <2>3, <2>4, <2>5 DEF Own
<1>9. CASE CreateRefused
  <2>1. /\ op.step = "create" /\ UNCHANGED <<pod, made, heirs>> /\ op'.step = "idle"
        /\ cr' = IF cr = op.sandbox THEN reconcileRefused(op.sandbox) ELSE cr
    BY <1>9, IdleFields DEF CreateRefused, Update
  <2>2. /\ reconcileRefused(op.sandbox).uid = op.sandbox.uid
        /\ reconcileRefused(op.sandbox).podUID = op.sandbox.podUID
        /\ reconcileRefused(op.sandbox).phase # "Lost"
    BY <1>1 DEF reconcileRefused, Sandboxes
  <2> QED
    BY <1>0, <2>1, <2>2, OwnEnds DEF Own
<1>10. CASE RecordPod
  <2>1. op.step = "record" /\ UNCHANGED <<pod, made, heirs>>
    BY <1>10 DEF RecordPod
  <2>2. CASE ~There
    BY <1>0, <1>10, <2>1, <2>2, IdleFields, OwnEnds DEF RecordPod
  <2>3. CASE There
    <3> DEFINE patched == [cr EXCEPT !.podUID = Len(made)]
    <3>1. PICK reposReady \in BOOLEAN :
            op' = [step |-> "write", sandbox |-> patched,
                   to |-> reconcileStatus(patched,
                            [NoPod EXCEPT !.uid = Len(made), !.state = "pending"],
                            reposReady)]
      BY <1>10, <2>3 DEF RecordPod, Goto
    <3>0. Len(made) \in Nat
      BY <1>1, SMTT(30)
    <3>2. /\ cr' = patched /\ patched \in Sandboxes /\ patched.uid = cr.uid
          /\ patched.podUID = Len(made) /\ patched.phase = cr.phase
      <4>1. cr' = patched
        BY <1>10, <2>3 DEF RecordPod
      <4>2. /\ patched \in Sandboxes /\ patched.uid = cr.uid
            /\ patched.podUID = Len(made) /\ patched.phase = cr.phase
        BY <1>1, <3>0 DEF Sandboxes
      <4> QED
        BY <4>1, <4>2
    <3>3. [NoPod EXCEPT !.uid = Len(made), !.state = "pending"] \in Pods
          /\ [NoPod EXCEPT !.uid = Len(made), !.state = "pending"].uid = Len(made)
      BY <3>0 DEF NoPod, Pods
    <3> HIDE DEF patched
    <3>4. /\ op'.step = "write" /\ op'.sandbox = patched
          /\ op'.to.podUID = Len(made) /\ op'.to.phase # "Lost"
      <4>1. op'.to.podUID = Len(made)
        BY <3>1, <3>2, <3>3, StatusFields
      <4>2. op'.to.phase \in {"Ready", "Pending"}
        BY <3>1, <3>2 DEF reconcileStatus, Sandboxes
      <4> QED
        BY <3>1, <4>1, <4>2
    <3>5. Mine' = Mine /\ \A u : Dead(u)' <=> Dead(u)
      BY <2>1, <3>2 DEF Mine, Dead
    <3> QED
      BY <1>0, <2>1, <3>2, <3>4, <3>5 DEF Own
  <2> QED
    BY <2>2, <2>3
<1>11. CASE WriteStatus
  <2>1. /\ op.step = "write" /\ op'.step = "idle" /\ UNCHANGED <<pod, made, heirs>>
        /\ cr' = IF cr = op.sandbox THEN op.to ELSE cr
    BY <1>11, IdleFields DEF WriteStatus, Update
  <2>2. op.to.uid = op.sandbox.uid
    BY <1>0, <2>1 DEF Underway, Written
  <2> QED
    BY <1>0, <2>1, <2>2, OwnEnds DEF Own
<1> QED
  BY <1>2, <1>3, <1>4, <1>5, <1>6, <1>7, <1>8, <1>9, <1>10, <1>11 DEF Reconcile

\* The cluster keeps it too: only a Sandbox that finds no trace of another starts with a claim.
LEMMA OwnElsewhere ==
  ASSUME OperatorInv, PodsInOrder, Own, Stop \/ Cluster \/ SyncSandbox \/ SyncPod
  PROVE  Own'
<1>0. Types
  BY DEF OperatorInv
<1>1. cr \in Sandboxes /\ pod \in Pods /\ made \in Seq(Nat) /\ born \in Nat
  BY <1>0 DEF Types
<1>2. CASE Stop
  BY <1>0, <1>2, IdleFields, OwnEnds DEF Stop, cluster
<1>3. CASE Cluster
  <2>1. UNCHANGED <<crCache, podCache, op>>
    BY <1>3 DEF Cluster
  <2>2. CASE Apply
    <3> SUFFICES ASSUME cr'.uid \notin heirs' PROVE Own'
      BY DEF Own
    <3>1. cr' = Created(born + 1) /\ UNCHANGED <<pod, made>>
      BY <2>2 DEF Apply, Created
    <3>2. cr'.uid = born + 1 /\ cr'.podUID = 0 /\ cr'.phase = ""
      BY <1>0, <3>1, NextUid
    <3>3. Forgotten
      <4>1. heirs' = IF Forgotten THEN heirs ELSE heirs \cup {born + 1}
        BY <2>2 DEF Apply
      <4> QED
        BY <3>2, <4>1
    <3>4. crCache.uid = 0 /\ crCache.podUID = 0 /\ podCache.uid = 0 /\ op.step = "idle"
          /\ pod.uid = 0
      BY <3>3, NoCrFields, IdleFields DEF Forgotten, HasPod, NoPod
    <3> QED
      BY <2>1, <3>1, <3>2, <3>4 DEF Own
  <2>3. CASE RemoveByHand \/ CollectSandbox
    BY <2>3, NoCrFields DEF RemoveByHand, CollectSandbox, Own
  <2>4. CASE Destroy \/ Lapse \/ Renew
    <3>1. /\ cr'.uid = cr.uid /\ cr'.podUID = cr.podUID /\ cr'.phase = cr.phase
          /\ UNCHANGED <<pod, made, heirs>>
      BY <1>1, <2>4 DEF Destroy, Lapse, Renew, Sandboxes
    <3>2. Mine' = Mine /\ \A u : Dead(u)' <=> Dead(u)
      BY <3>1 DEF Mine, Dead
    <3> QED
      BY <2>1, <3>1, <3>2 DEF Own
  <2>5. CASE PodMoves \/ DeletePod \/ CollectPod \/ PodGone
    <3>1. UNCHANGED <<cr, made, heirs>>
      BY <2>5 DEF PodMoves, DeletePod, CollectPod, PodGone
    <3>2. PodMoved /\ pod'.uid \in {pod.uid, 0}
      <4>1. CASE PodGone
        BY <4>1 DEF PodGone, PodMoved, NoPod
      <4>2. CASE DeletePod \/ CollectPod
        BY <1>1, <4>2 DEF DeletePod, CollectPod, PodMoved, Pods
      <4>3. CASE PodMoves
        <5>1. PICK to \in {"scheduled", "ready", "ended"} :
                pod.state # "ended" /\ pod' = [pod EXCEPT !.state = to]
          BY <1>1, <4>3 DEF PodMoves, Pods
        <5> QED
          BY <1>1, <5>1 DEF PodMoved, Pods
      <4> QED
        BY <2>5, <4>1, <4>2, <4>3
    <3>3. Mine' = Mine /\ \A u \in Mine : Dead(u) => Dead(u)'
      BY <1>0, <3>1, <3>2, LossStays DEF Mine
    <3> QED
      BY <2>1, <3>1, <3>2, <3>3 DEF Own
  <2> QED
    BY <1>3, <2>2, <2>3, <2>4, <2>5 DEF Cluster
<1>4. CASE SyncSandbox \/ SyncPod
  <2>1. UNCHANGED <<cr, pod, made, heirs, op>>
    BY <1>4 DEF SyncSandbox, SyncPod, cluster
  <2>2. Mine' = Mine /\ \A u : Dead(u)' <=> Dead(u)
    BY <2>1 DEF Mine, Dead
  <2> QED
    BY <1>4, <2>1, <2>2 DEF SyncSandbox, SyncPod, Own
<1> QED
  BY <1>2, <1>3, <1>4

\* Pods stay in order.
LEMMA PodsStayInOrder ==
  ASSUME OperatorInv, PodsInOrder, [Next]_vars
  PROVE  PodsInOrder'
<1>1. pod \in Pods /\ podCache \in Pods /\ made \in Seq(Nat)
  BY DEF OperatorInv, Types
<1>2. CASE CreatePod /\ UNCHANGED podCache
  <2>1. pod'.uid = Len(made) + 1 /\ \E n \in Nat : made' = Append(made, n)
    BY <1>2 DEF CreatePod, OperatorInv, Types, Reconciles, Sandboxes
  <2>2. Len(made') = Len(made) + 1 /\ Len(made) \in Nat /\ podCache.uid \in Nat
    BY <1>1, <2>1, SMTT(30) DEF Pods
  <2> QED
    BY <1>2, <2>1, <2>2, SMTT(30) DEF PodsInOrder
<1>3. CASE PodMoves /\ UNCHANGED <<made, podCache>>
  <2>1. PICK to \in {"scheduled", "ready", "ended"} :
          pod.state # "ended" /\ pod' = [pod EXCEPT !.state = to]
    BY <1>1, <1>3 DEF PodMoves, Pods
  <2> QED
    BY <1>1, <1>3, <2>1 DEF PodsInOrder, Pods
<1>4. CASE (DeletePod \/ CollectPod) /\ UNCHANGED <<made, podCache>>
  BY <1>1, <1>4 DEF DeletePod, CollectPod, PodsInOrder, Pods
<1>5. CASE PodGone /\ UNCHANGED <<made, podCache>>
  <2>1. pod'.uid = 0 /\ Len(made) \in Nat
    BY <1>1, <1>5, SMTT(30) DEF PodGone, NoPod
  <2> QED
    BY <1>5, <2>1, SMTT(30) DEF PodsInOrder
<1>6. CASE podCache' = pod /\ UNCHANGED <<pod, made>>
  BY <1>6 DEF PodsInOrder
<1>7. CASE UNCHANGED <<pod, made, podCache>>
  BY <1>7 DEF PodsInOrder
<1> QED
  BY <1>2, <1>3, <1>4, <1>5, <1>6, <1>7
     DEF Next, Reconcile, ReportTerminating, reconcileIdleTimeout, PodCached,
         PodNotCached, ReadLive, PodExists, CreateRefused, RecordPod, WriteStatus,
         Update, CreatePod, Stop, Cluster, Apply, Destroy, RemoveByHand, Lapse, Renew,
         PodMoves, DeletePod, CollectPod, PodGone, CollectSandbox, SyncSandbox, SyncPod,
         cluster, vars

\* A Sandbox is Lost for a loss of its own (podLost, markLost): a Sandbox created once every
\* trace of the one before was gone had a Pod, and its one Pod is not still alive.  For every
\* number of Sandboxes and faults, and of the operator's stops between any two of its writes.
THEOREM LostIsMineHolds == Spec => []LostIsMine
<1>1. Init => PodsInOrder /\ Own
  <2>1. NoPod.uid = 0 /\ Len(<<>>) = 0
    BY DEF NoPod
  <2>2. Init => Own
    BY NoCrFields DEF Init, Own
  <2>3. Init => PodsInOrder
    <3> SUFFICES ASSUME Init PROVE PodsInOrder
      OBVIOUS
    <3>1. pod.uid = 0 /\ podCache.uid = 0 /\ Len(made) = 0
      BY <2>1 DEF Init
    <3> QED
      BY <3>1, SMTT(30) DEF PodsInOrder
  <2> QED
    BY <2>2, <2>3
<1>2. OperatorInv /\ PodsInOrder /\ Own /\ [Next]_vars => PodsInOrder' /\ Own'
  <2> SUFFICES ASSUME OperatorInv, PodsInOrder, Own, [Next]_vars PROVE PodsInOrder' /\ Own'
    OBVIOUS
  <2>1. CASE UNCHANGED vars
    <3>1. Mine' = Mine /\ \A u : Dead(u)' <=> Dead(u)
      BY <2>1 DEF vars, Mine, Dead
    <3> QED
      BY <2>1, <3>1, PodsStayInOrder DEF vars, Own
  <2>2. CASE Next
    BY <2>2, PodsStayInOrder, OwnReconciles, OwnElsewhere DEF Next
  <2> QED
    BY <2>1, <2>2
<1>3. PodsInOrder /\ Own /\ OperatorInv => LostIsMine
  <2> SUFFICES ASSUME Own, OperatorInv, cr.phase = "Lost", cr.uid \notin heirs
               PROVE  Mine # {} /\ (Mine = {pod.uid} => pod.deleting \/ pod.state = "ended")
    BY DEF LostIsMine
  <2>1. cr.uid # 0
    BY NoCrFields DEF OperatorInv, UidsInOrder
  <2>2. PICK u \in Mine : Dead(u)
    BY <2>1 DEF Own
  <2> QED
    BY <2>2 DEF Dead
<1> QED
  BY <1>1, <1>2, <1>3, OperatorInvariant, PTL DEF Spec

=============================================================================

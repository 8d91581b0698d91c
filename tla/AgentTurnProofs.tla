--------------------------- MODULE AgentTurnProofs ---------------------------
(***************************************************************************)
(* What a Turn may rely on, for every number of Turns, Submissions and     *)
(* restarts.                                                               *)
(*                                                                         *)
(* The actor's steps are first sorted by what they do (ActorStep): it      *)
(* asks, ends, moves or is told, or its abort fails.  Base holds whatever  *)
(* the network does: what is on the wire (Wire), that there is a number    *)
(* for it (Room), what the Harness serves (Serving), and what the actor    *)
(* and the ledger name (Named).  Marks says that no restart is past the    *)
(* mark of an open Submission (hence CutIsCut); Single that a Turn has one *)
(* admission under way (hence OneOpenPerTurn); Waits that a Turn waits for *)
(* the abort of the one before it (hence NoForeignSweep); Swept that what  *)
(* works is then its own (hence SurfaceIsOwn); and Context that what the   *)
(* actor concludes of its task is so (hence TaskInContext).                *)
(***************************************************************************)
EXTENDS AgentTurn, FiniteSetTheorems, TLAPS

\* A leaf that names no prover is tried with Zenon, then with SMT.
USE ZenonT(30), SMTT(30)

Fates == {"none", "queued", "running", "cut", "completed", "ended", "aborted",
          "failed", "restarted", "gone"}
Pcs == {"none", "queue", "holds", "post", "settle", "picks", "rest", "again",
        "done", "down"}
Actors == [pc : Pcs, wait : Nat, task : BOOLEAN, sub : Nat, nudges : Nat,
           admitted : BOOLEAN, mark : Nat, restarted : Nat, served : BOOLEAN,
           was : BOOLEAN, carried : BOOLEAN, attached : BOOLEAN]
Posts == [no : Nat, turn : Nat, task : BOOLEAN, kept : BOOLEAN]
Replies == [st : {"none", "notkept", "queued"}, sub : Nat]
Ledgers == [sub : Nat, turn : Nat, mark : Nat]
Admissions == [turn : Nat, task : BOOLEAN]

\* The state's values, for every bound.
Types ==
  /\ turn \in Nat /\ a \in Actors /\ ledger \in Ledgers
  /\ pending \in Nat /\ heard \in Nat /\ burned \in BOOLEAN
  /\ posts \subseteq Posts /\ reply \in Replies /\ aborts \subseteq Nat /\ failed \subseteq Nat
  /\ asks \in Nat /\ crashes \in Nat
  /\ up \in BOOLEAN /\ count \in Nat /\ kept \in BOOLEAN
  /\ fate \in [Subs -> Fates] /\ of \in [Subs -> Admissions]
  /\ prompted \in BOOLEAN /\ minted \in Nat /\ told \in Nat /\ odd \in BOOLEAN

\* Fields of the actors that are written as a whole.
LEMMA Blank ==
  /\ NoActor \in Actors /\ Done \in Actors /\ NoActor.pc = "none" /\ Done.pc = "done"
  /\ ~Done.admitted /\ ~Done.attached /\ ~NoActor.admitted /\ ~NoActor.attached
BY DEF NoActor, Done, Actors, Pcs

LEMMA HeardIs ==
  ASSUME NEW b \in Actors, NEW n \in Nat
  PROVE  /\ Heard(b, n) \in Actors
         /\ \/ Heard(b, n) = b
            \/ Heard(b, n) = [b EXCEPT !.mark = n] /\ b.mark = 0 /\ b.admitted
            \/ Heard(b, n) = [b EXCEPT !.restarted = n] /\ n > b.mark /\ b.mark # 0 /\ b.admitted
BY DEF Heard, Actors

LEMMA AdmitTypes ==
  ASSUME Types, NEW b \in Actors, NEW task \in BOOLEAN, NEW k \in BOOLEAN, Admit(b, task, k)
  PROVE  a' \in Actors /\ posts' \subseteq Posts /\ asks' \in Nat
<1>1. a' \in Actors
  BY DEF Admit, Actors, Pcs
<1>2. [no |-> asks + 1, turn |-> turn, task |-> task, kept |-> k] \in Posts
  BY SMTT(30) DEF Types, Posts
<1> QED BY <1>1, <1>2, SMTT(30) DEF Admit, Types

LEMMA HoldsBoolean == Types => Holds \subseteq BOOLEAN
BY DEF Types, Holds


LEMMA TypesStep == Types /\ [Next]_vars => Types'
<1> SUFFICES ASSUME Types, [Next]_vars PROVE Types'
  OBVIOUS
<1>1. CASE Invoke
  <2>1. a' \in Actors
    BY <1>1 DEF Invoke, Types, NoActor, Actors, Pcs
  <2> QED BY <1>1, <2>1, SMTT(30) DEF Invoke, Types, wire
<1>2. CASE Start
  <2>1. a \in Actors
    BY DEF Types
  <2>2. a' \in Actors /\ posts' \subseteq Posts /\ asks' \in Nat
    <3>1. CASE Admit(a, TRUE, FALSE)
      BY <2>1, <3>1, AdmitTypes
    <3>2. CASE a' = [a EXCEPT !.pc = "settle"] /\ UNCHANGED <<posts, asks>>
      BY <2>1, <3>2 DEF Types, Actors, Pcs
    <3>3. CASE a' = [a EXCEPT !.pc = "holds"] /\ UNCHANGED <<posts, asks>>
      BY <2>1, <3>3 DEF Types, Actors, Pcs
    <3> QED BY <1>2, <3>1, <3>2, <3>3 DEF Start
  <2> QED BY <1>2, <2>2 DEF Start, Types, harness
<1>3. CASE HoldsAnswers
  <2>1. PICK held \in Holds : Admit(a, TRUE, held)
    BY <1>3 DEF HoldsAnswers
  <2>2. a' \in Actors /\ posts' \subseteq Posts /\ asks' \in Nat
    BY <2>1, AdmitTypes, HoldsBoolean DEF Types
  <2> QED BY <1>3, <2>2 DEF HoldsAnswers, Types, harness
<1>4. CASE AnswerArrives
  BY <1>4 DEF AnswerArrives, Types, Actors, Pcs, Ledgers, Replies, NoReply, harness
<1>5. CASE NotKept
  <2> DEFINE b == [a EXCEPT !.served = a.served \/ a.was]
  <2>1. b \in Actors
    BY DEF Types, Actors
  <2>2. a' \in Actors /\ posts' \subseteq Posts /\ asks' \in Nat
    BY <1>5, <2>1, AdmitTypes DEF NotKept
  <2> QED BY <1>5, <2>2 DEF NotKept, Types, harness, NoReply, Replies
<1>6. CASE AnswerLost
  BY <1>6, Blank DEF AnswerLost, Fault, Types, harness, NoReply, Replies
<1>7. CASE PostGivesUp
  BY <1>7, Blank DEF PostGivesUp, Types, harness
<1>8. CASE Settles
  <2>1. a' \in Actors /\ burned' \in BOOLEAN /\ UNCHANGED <<posts, asks>>
    BY <1>8, Blank DEF Settles, Cut, Fault, Types, Actors, Pcs
  <2> QED BY <1>8, <2>1 DEF Settles, Types, harness
<1>9. CASE AskAgain
  <2> DEFINE b == [a EXCEPT !.nudges = a.nudges + 1]
  <2>1. b \in Actors
    BY SMTT(30) DEF Types, Actors
  <2>2. CASE Admit(b, FALSE, TRUE) /\ UNCHANGED burned
    <3>1. a' \in Actors /\ posts' \subseteq Posts /\ asks' \in Nat
      BY <2>2, <2>1, AdmitTypes
    <3> QED BY <1>9, <2>2, <3>1 DEF AskAgain, Types, harness
  <2>3. CASE Fault(FALSE) \/ Fault(TRUE)
    BY <1>9, <2>3, Blank DEF AskAgain, Fault, Types, harness
  <2> QED BY <1>9, <2>2, <2>3 DEF AskAgain
<1>10. CASE Rest
  BY <1>10 DEF Rest, Types, Actors, Pcs, harness, wire
<1>11. CASE Readmit
  <2>2. ASSUME NEW held \in Holds, Admit(a, held => TaskUnheard, held), UNCHANGED burned
        PROVE Types'
    <3>1. held \in BOOLEAN /\ (held => TaskUnheard) \in BOOLEAN /\ a \in Actors
      BY HoldsBoolean DEF Types
    <3>2. a' \in Actors /\ posts' \subseteq Posts /\ asks' \in Nat
      BY <2>2, <3>1, AdmitTypes
    <3> QED BY <1>11, <2>2, <3>2 DEF Readmit, Types, harness
  <2>3. CASE Fault(TRUE)
    BY <1>11, <2>3, Blank DEF Readmit, Fault, Types, harness
  <2> QED BY <1>11, <2>2, <2>3 DEF Readmit
<1>12. CASE Stop
  BY <1>12, Blank DEF Stop, Stray, Types, harness, NoReply, Replies
<1>13. CASE WatchTells
  <2>1. a' \in Actors
    <3>1. Heard(a, count) \in Actors
      BY HeardIs DEF Types
    <3> QED BY <1>13, <3>1, Blank DEF WatchTells
  <2>2. posts' \subseteq Posts /\ reply' \in Replies
    BY <1>13, SMTT(30) DEF WatchTells, Stray, Types, NoReply, Replies
  <2> QED BY <1>13, <2>1, <2>2 DEF WatchTells, Types, harness
<1>14. CASE HostStops
  <2>1. a' \in Actors
    BY <1>14 DEF HostStops, Types, NoActor, Actors, Pcs
  <2>2. posts' \subseteq Posts /\ reply' \in Replies /\ failed' \subseteq Nat
    BY <1>14 DEF HostStops, Stray, Types, NoReply, Replies
  <2> QED BY <1>14, <2>1, <2>2, SMTT(30) DEF HostStops, Types, harness
<1>15. CASE Restore
  <2> DEFINE b == [NoActor EXCEPT !.pc = "queue", !.attached = TRUE,
                                  !.admitted = TRUE, !.sub = ledger.sub,
                                  !.mark = ledger.mark]
  <2>1. b \in Actors /\ [NoActor EXCEPT !.pc = "queue"] \in Actors
    BY DEF Types, NoActor, Actors, Pcs, Ledgers
  <2>2. a' \in Actors
    BY <1>15, <2>1, HeardIs DEF Restore, Types
  <2> QED BY <1>15, <2>2 DEF Restore, Types, harness, wire
<1>16. CASE \E p \in posts : HarnessTakes(p)
  <2>1. PICK p \in posts : HarnessTakes(p)
    BY <1>16
  <2>2. p \in Posts
    BY DEF Types
  <2>3. fate' \in [Subs -> Fates] /\ of' \in [Subs -> Admissions]
    BY <2>1, <2>2, SMTT(30) DEF HarnessTakes, Types, Posts, Admissions, Fates
  <2>4. minted' \in Nat /\ told' \in Nat /\ kept' \in BOOLEAN
    <3>1. minted + 1 \in Nat /\ 0 \in Nat
      BY SMTT(30) DEF Types
    <3> QED BY <2>1, <3>1 DEF HarnessTakes, Types
  <2>5. reply' \in Replies
    <3>1. [st |-> "notkept", sub |-> 0] \in Replies /\ [st |-> "queued", sub |-> minted + 1] \in Replies
      BY SMTT(30) DEF Types, Replies
    <3> QED BY <2>1, <3>1 DEF HarnessTakes, Types
  <2> QED BY <2>1, <2>3, <2>4, <2>5 DEF HarnessTakes, Types, actor
<1>17. CASE \E s \in Subs : HarnessReads(s) \/ HarnessPrompts(s) \/ HarnessEnds(s)
  <2>1. PICK s \in Subs : HarnessReads(s) \/ HarnessPrompts(s) \/ HarnessEnds(s)
    BY <1>17
  <2>2. CASE HarnessReads(s)
    BY <2>2 DEF HarnessReads, Types, Fates, actor, Actors
  <2>3. CASE HarnessPrompts(s)
    BY <2>3, SMTT(30) DEF HarnessPrompts, Types, actor
  <2>4. CASE HarnessEnds(s)
    BY <2>4 DEF HarnessEnds, Types, actor, Fates
  <2> QED BY <2>1, <2>2, <2>3, <2>4
<1>18. CASE \E x \in aborts : HarnessSweeps(x)
  BY <1>18, SMTT(30) DEF HarnessSweeps, Types, Fates
<1>19. CASE HarnessDies
  BY <1>19 DEF HarnessDies, Types, Fates, actor
<1>20. CASE HarnessBoots
  <2>1. fate' \in [Subs -> Fates]
    BY <1>20 DEF HarnessBoots, Types, Fates
  <2>2. count' \in Nat /\ told' \in Nat
    BY <1>20, SMTT(30) DEF HarnessBoots, Types
  <2>3. kept' \in BOOLEAN
    BY <1>20 DEF HarnessBoots, Types
  <2> QED BY <1>20, <2>1, <2>2, <2>3 DEF HarnessBoots, Types, actor
<1>21. CASE \E x \in aborts : AbortFails(x)
  BY <1>21 DEF AbortFails, Types, harness
<1>22. CASE UNCHANGED vars
  BY <1>22 DEF vars, wire, harness, Types
<1> QED
  BY <1>1, <1>2, <1>3, <1>4, <1>5, <1>6, <1>7, <1>8, <1>9, <1>10, <1>11, <1>12, <1>13,
     <1>14, <1>15, <1>16, <1>17, <1>18, <1>19, <1>20, <1>21, <1>22 DEF Next, Harness

-----------------------------------------------------------------------------
(* The steps of the actor, by what they do. *)

\* Messages on their way: an admission has its own number, and the live one is
\* this Turn's; its answer is on its way back when it is not on its way there.
Wire ==
  /\ \A p \in posts : p.no <= asks /\ p.turn <= turn
  /\ \A p, q \in posts : p.no = q.no => p = q
  /\ a.pc = "post" => \A p \in posts : p.no = asks => p.turn = turn /\ p.task = a.task
  /\ reply.st # "none" => a.pc = "post" /\ \A p \in posts : p.no # asks
  /\ reply.st = "queued" =>
       reply.sub \in Subs /\ reply.sub <= minted /\ of[reply.sub].turn = turn
         /\ of[reply.sub].task = a.task

\* What the actor knows of its admission, it goes on knowing.
Knows ==
  /\ a' \in Actors /\ a'.sub = a.sub /\ a'.admitted = a.admitted
  /\ a'.attached = a.attached /\ a'.carried = a.carried

\* An admission, with the task or without.
Asking(task, k) ==
  /\ \/ a.pc = "queue" /\ a.wait \notin aborts \ failed /\ ~a.attached /\ task
     \/ a.pc = "holds" /\ task
     \/ a.pc = "post" /\ reply.st = "notkept" /\ task
     \/ a.pc = "picks" /\ a.restarted = 0 /\ k
     \/ a.pc = "again" /\ a.restarted = 0 /\ (task \/ (k /\ (a.served \/ ~a.carried)))
  /\ Knows /\ a'.mark = a.mark /\ a'.restarted = a.restarted
  /\ a'.pc = "post" /\ a'.task = task /\ ~a'.served
  /\ asks < MaxSubs /\ asks' = asks + 1
  /\ posts' = posts \cup {[no |-> asks + 1, turn |-> turn, task |-> task, kept |-> k]}
  /\ reply'.st = "none"
  /\ UNCHANGED <<turn, ledger, pending, heard, aborts, failed, crashes, harness>>

\* The Turn is over for its actor.
Ending ==
  /\ Alive /\ a.pc # "queue" /\ a' = Done /\ posts' \subseteq posts /\ reply'.st = "none"
  /\ heard' = heard \/ heard' = count
  /\ UNCHANGED <<turn, ledger, pending, aborts, failed, asks, crashes, harness>>

\* The actor goes on, with nothing sent.
Moving ==
  /\ \/ a.pc = "queue" /\ a.wait \notin aborts \ failed /\ a.attached /\ a'.pc = "settle"
     \/ a.pc = "queue" /\ a.wait \notin aborts \ failed /\ ~a.attached /\ a'.pc = "holds"
     \/ a.pc = "settle" /\ a'.pc = "rest" /\ (a.restarted # 0 \/ fate[a.sub] = "restarted")
     \/ a.pc = "settle" /\ a'.pc = "picks" /\ fate[a.sub] = "completed"
     \/ a.pc = "rest" /\ a'.pc = "again"
  /\ Knows /\ a'.served = a.served
  /\ a.pc = "rest" \/ (a'.mark = a.mark /\ a'.restarted = a.restarted)
  /\ UNCHANGED <<turn, ledger, pending, heard, wire, crashes, harness>>

\* The watch tells the count of restarts, and the actor goes on.
Telling ==
  /\ heard' = count /\ a' = Heard(a, count)
  /\ a.pc = "post" => a'.restarted = 0
  /\ UNCHANGED <<turn, ledger, pending, wire, crashes, harness>>

\* The send of an abort fails.
Failing ==
  /\ \E x \in aborts :
       /\ aborts' \subseteq aborts /\ failed' = failed \cup {x}
       /\ aborts' \ failed' = (aborts \ failed) \ {x}
       /\ pending' = IF pending = x THEN 0 ELSE pending
  /\ UNCHANGED <<turn, a, ledger, heard, posts, reply, asks, crashes, harness>>

LEMMA AdmitIs ==
  ASSUME Types, NEW b \in Actors, NEW task \in BOOLEAN, NEW k \in BOOLEAN, Admit(b, task, k)
  PROVE  /\ a' \in Actors /\ a'.sub = b.sub /\ a'.admitted = b.admitted
         /\ a'.attached = b.attached /\ a'.carried = b.carried
         /\ a'.mark = b.mark /\ a'.restarted = b.restarted
         /\ a'.pc = "post" /\ a'.task = task /\ ~a'.served
         /\ asks < MaxSubs /\ asks' = asks + 1
         /\ posts' = posts \cup {[no |-> asks + 1, turn |-> turn, task |-> task, kept |-> k]}
<1>1. a' \in Actors
  BY AdmitTypes
<1> QED BY <1>1 DEF Admit, Actors

LEMMA SameFields ==
  ASSUME a \in Actors
  PROVE  /\ \A n : LET b == [a EXCEPT !.nudges = n] IN
              /\ b.sub = a.sub /\ b.admitted = a.admitted /\ b.attached = a.attached
              /\ b.carried = a.carried /\ b.mark = a.mark /\ b.restarted = a.restarted
         /\ \A n : LET b == [a EXCEPT !.served = n] IN
              /\ b.sub = a.sub /\ b.admitted = a.admitted /\ b.attached = a.attached
              /\ b.carried = a.carried /\ b.mark = a.mark /\ b.restarted = a.restarted
BY DEF Actors

LEMMA Asks ==
  ASSUME Types, Wire, NEW b \in Actors, NEW task \in BOOLEAN, NEW k \in BOOLEAN,
         Admit(b, task, k),
         b.sub = a.sub, b.admitted = a.admitted, b.attached = a.attached,
         b.carried = a.carried, b.mark = a.mark, b.restarted = a.restarted,
         \/ a.pc = "queue" /\ a.wait \notin aborts \ failed /\ ~a.attached /\ task
         \/ a.pc = "holds" /\ task
         \/ a.pc = "post" /\ reply.st = "notkept" /\ task /\ reply' = NoReply
         \/ a.pc = "picks" /\ a.restarted = 0 /\ k
         \/ a.pc = "again" /\ a.restarted = 0 /\ (task \/ (k /\ (a.served \/ ~a.carried))),
         reply' = reply \/ reply' = NoReply,
         UNCHANGED <<turn, ledger, pending, heard, aborts, failed, crashes, harness>>
  PROVE  Asking(task, k)
<1>1. reply'.st = "none"
  BY SMTT(30) DEF Wire, NoReply, Types, Replies
<1> QED BY <1>1, AdmitIs DEF Asking, Knows

\* Every step of the actor is one of these.
ActorStep ==
  \/ Invoke \/ AnswerArrives \/ Stop \/ HostStops \/ Restore
  \/ \E task, k \in BOOLEAN : Asking(task, k)
  \/ Ending \/ Moving \/ Telling \/ Failing

LEMMA Steps ==
  ASSUME Types, Wire, Next
  PROVE  ActorStep \/ Harness
<1>0. a \in Actors
  BY DEF Types
<1>2. ASSUME Start PROVE ActorStep
  <2>1. CASE ~a.attached /\ Admit(a, TRUE, FALSE)
    <3>1. Asking(TRUE, FALSE)
      BY <1>0, <1>2, <2>1, Asks DEF Start
    <3> QED BY <3>1 DEF ActorStep
  <2>2. CASE a.attached /\ a' = [a EXCEPT !.pc = "settle"] /\ UNCHANGED <<posts, asks>>
    <3>1. Moving
      BY <1>0, <1>2, <2>2 DEF Start, Moving, Knows, Actors, Pcs, wire
    <3> QED BY <3>1 DEF ActorStep
  <2>3. CASE ~a.attached /\ a' = [a EXCEPT !.pc = "holds"] /\ UNCHANGED <<posts, asks>>
    <3>1. Moving
      BY <1>0, <1>2, <2>3 DEF Start, Moving, Knows, Actors, Pcs, wire
    <3> QED BY <3>1 DEF ActorStep
  <2> QED BY <1>2, <2>1, <2>2, <2>3 DEF Start
<1>3. ASSUME HoldsAnswers PROVE ActorStep
  <2>1. PICK held \in Holds : Admit(a, TRUE, held)
    BY <1>3 DEF HoldsAnswers
  <2>2. held \in BOOLEAN
    BY HoldsBoolean
  <2>3. Asking(TRUE, held)
    BY <1>0, <1>3, <2>1, <2>2, Asks DEF HoldsAnswers
  <2> QED BY <2>2, <2>3 DEF ActorStep
<1>5. ASSUME NotKept PROVE ActorStep
  <2> DEFINE b == [a EXCEPT !.served = a.served \/ a.was]
  <2>1. b \in Actors
    BY <1>0 DEF Actors
  <2>2. /\ b.sub = a.sub /\ b.admitted = a.admitted /\ b.attached = a.attached
        /\ b.carried = a.carried /\ b.mark = a.mark /\ b.restarted = a.restarted
    BY <1>0, SameFields
  <2>3. Admit(b, TRUE, FALSE) /\ a.pc = "post"
    BY <1>5 DEF NotKept, Wire
  <2> HIDE DEF b
  <2>4. Asking(TRUE, FALSE)
    BY <1>5, <2>1, <2>2, <2>3, Asks DEF NotKept
  <2> QED BY <2>4 DEF ActorStep
<1>6. ASSUME AnswerLost PROVE ActorStep
  <2>1. Ending
    BY <1>6 DEF AnswerLost, Fault, Ending, Wire, Alive, NoReply
  <2> QED BY <2>1 DEF ActorStep
<1>7. ASSUME PostGivesUp PROVE ActorStep
  <2>1. reply.st = "none" /\ Alive /\ a.pc # "queue"
    BY <1>7 DEF PostGivesUp, Live, Wire, Alive
  <2>2. Ending
    BY <1>7, <2>1 DEF PostGivesUp, Ending
  <2> QED BY <2>2 DEF ActorStep
<1>8. ASSUME Settles PROVE ActorStep
  <2>1. reply.st = "none" /\ Alive /\ a.pc # "queue"
    BY <1>8 DEF Settles, Wire, Alive
  <2>2. CASE Fault(FALSE) \/ Fault(TRUE)
    <3>1. Ending
      BY <1>8, <2>1, <2>2 DEF Settles, Fault, Ending
    <3> QED BY <3>1 DEF ActorStep
  <2>3. CASE a' = [a EXCEPT !.pc = "rest"] /\ (a.restarted # 0 \/ fate[a.sub] = "restarted")
             /\ UNCHANGED <<posts, asks>>
    <3>1. Moving
      BY <1>0, <1>8, <2>3 DEF Settles, Moving, Knows, Actors, Pcs, wire
    <3> QED BY <3>1 DEF ActorStep
  <2>4. CASE a' = [a EXCEPT !.pc = "picks"] /\ fate[a.sub] = "completed"
             /\ UNCHANGED <<posts, asks>>
    <3>1. Moving
      BY <1>0, <1>8, <2>4 DEF Settles, Moving, Knows, Actors, Pcs, wire
    <3> QED BY <3>1 DEF ActorStep
  <2> QED BY <1>8, <2>2, <2>3, <2>4 DEF Settles, Cut
<1>9. ASSUME AskAgain PROVE ActorStep
  <2> DEFINE b == [a EXCEPT !.nudges = a.nudges + 1]
  <2>1. b \in Actors
    BY <1>0, SMTT(30) DEF Actors
  <2>2. /\ b.sub = a.sub /\ b.admitted = a.admitted /\ b.attached = a.attached
        /\ b.carried = a.carried /\ b.mark = a.mark /\ b.restarted = a.restarted
    BY <1>0, SameFields
  <2>3. CASE a.restarted = 0 /\ Admit(b, FALSE, TRUE)
    <3> HIDE DEF b
    <3>1. Asking(FALSE, TRUE)
      BY <1>9, <2>1, <2>2, <2>3, Asks DEF AskAgain
    <3> QED BY <3>1 DEF ActorStep
  <2>4. CASE Fault(FALSE) \/ Fault(TRUE)
    <3>1. reply.st = "none" /\ Alive /\ a.pc # "queue"
      BY <1>9 DEF AskAgain, Wire, Alive
    <3>2. Ending
      BY <1>9, <2>4, <3>1 DEF AskAgain, Fault, Ending
    <3> QED BY <3>2 DEF ActorStep
  <2> QED BY <1>9, <2>3, <2>4 DEF AskAgain
<1>10. ASSUME Rest PROVE ActorStep
  <2>1. Moving
    BY <1>0, <1>10 DEF Rest, Moving, Knows, Actors, Pcs
  <2> QED BY <2>1 DEF ActorStep
<1>11. ASSUME Readmit PROVE ActorStep
  <2>1. ASSUME a.restarted = 0, NEW held \in Holds, Admit(a, held => TaskUnheard, held)
        PROVE  ActorStep
    <3>1. held \in BOOLEAN /\ (held => TaskUnheard) \in BOOLEAN
      BY HoldsBoolean
    <3>2. (held => TaskUnheard) \/ (held /\ (a.served \/ ~a.carried))
      BY DEF TaskUnheard
    <3>3. Asking(held => TaskUnheard, held)
      BY <1>0, <1>11, <2>1, <3>1, <3>2, Asks DEF Readmit
    <3> QED BY <3>1, <3>3 DEF ActorStep
  <2>2. CASE Fault(TRUE)
    <3>1. reply.st = "none" /\ Alive /\ a.pc # "queue"
      BY <1>11 DEF Readmit, Wire, Alive
    <3>2. Ending
      BY <1>11, <2>2, <3>1 DEF Readmit, Fault, Ending
    <3> QED BY <3>2 DEF ActorStep
  <2> QED BY <1>11, <2>1, <2>2 DEF Readmit
<1>13. ASSUME WatchTells PROVE ActorStep
  <2>1. CASE /\ a' = Heard(a, count) /\ UNCHANGED <<posts, reply>>
             /\ a.pc # "post" \/ Heard(a, count).restarted = 0
    <3>1. Telling
      BY <1>13, <2>1 DEF WatchTells, Telling, wire
    <3> QED BY <3>1 DEF ActorStep
  <2>2. CASE a.pc = "post" /\ a' = Done /\ Stray /\ reply' = NoReply
    <3>1. Ending
      BY <1>13, <2>2 DEF WatchTells, Ending, Stray, Alive, NoReply
    <3> QED BY <3>1 DEF ActorStep
  <2> QED BY <1>13, <2>1, <2>2 DEF WatchTells
<1>14. ASSUME NEW x \in aborts, AbortFails(x) PROVE ActorStep
  <2>1. Failing
    BY <1>14 DEF AbortFails, Failing
  <2> QED BY <2>1 DEF ActorStep
<1> QED
  BY <1>2, <1>3, <1>5, <1>6, <1>7, <1>8, <1>9, <1>10, <1>11, <1>13, <1>14
     DEF Next, ActorStep

-----------------------------------------------------------------------------
(* The wire, the Harness and what the actor knows, whatever the network does. *)

\* Every Submission took an admission off the wire: there is room for the next.
Room == IsFiniteSet(posts) /\ minted + Cardinality(posts) <= asks /\ asks <= MaxSubs

\* At work, or in line for it.
Runs(s) == fate[s] \in {"queued", "running"}

\* The Harness: numbers in order, one run at a time, none while it is down, and
\* what is open is in a conversation that it keeps, and of a Turn that was invoked.
Serving ==
  /\ \A s \in Subs : fate[s] = "none" <=> s > minted
  /\ \A s, t \in Subs : fate[s] = "running" /\ fate[t] = "running" => s = t
  /\ ~up => \A s \in Subs : ~Runs(s)
  /\ prompted => \E s \in Subs : fate[s] = "running"
  /\ \A s \in Subs : Unsettled(s) => kept /\ of[s].turn <= turn

\* What the actor and the ledger name.
Named ==
  /\ a.pc # "none" => turn > 0
  /\ a.admitted \/ a.attached \/ a.pc = "settle" =>
       a.admitted /\ a.sub \in Subs /\ a.sub <= minted /\ of[a.sub].turn = turn
  /\ ledger.turn # 0 =>
       ledger.sub \in Subs /\ ledger.sub <= minted /\ of[ledger.sub].turn = ledger.turn

Base == Types /\ Wire /\ Room /\ Serving /\ Named

\* There is a number for the admission that the Harness takes.
LEMMA NumberLeft ==
  ASSUME Types, Room, NEW p \in posts
  PROVE  /\ minted + 1 \in Subs
         /\ IsFiniteSet(posts \ {p}) /\ Cardinality(posts \ {p}) = Cardinality(posts) - 1
<1>1. IsFiniteSet(posts) /\ Cardinality(posts) \in Nat
  BY FS_CardinalityType DEF Room
<1>2. IsFiniteSet(posts \ {p}) /\ Cardinality(posts \ {p}) = Cardinality(posts) - 1
  BY <1>1, FS_RemoveElement
<1>3. Cardinality(posts \ {p}) \in Nat
  BY <1>2, FS_CardinalityType
<1> QED BY <1>1, <1>2, <1>3, TurnBounds, SMTT(30) DEF Room, Subs, Types

LEMMA RoomShrinks ==
  ASSUME Types, Room, posts' \subseteq posts, asks' = asks, minted' = minted
  PROVE  Room'
<1>1. IsFiniteSet(posts) /\ Cardinality(posts) \in Nat
  BY FS_CardinalityType DEF Room
<1>2. IsFiniteSet(posts') /\ Cardinality(posts') <= Cardinality(posts) /\ Cardinality(posts') \in Nat
  BY <1>1, FS_Subset, FS_CardinalityType
<1> QED BY <1>1, <1>2, TurnBounds, SMTT(30) DEF Room, Types

LEMMA RoomStep ==
  ASSUME Types, Wire, Room, [Next]_vars
  PROVE  Room'
<1>1. ASSUME NEW task \in BOOLEAN, NEW k \in BOOLEAN, Asking(task, k) PROVE Room'
  <2> DEFINE x == [no |-> asks + 1, turn |-> turn, task |-> task, kept |-> k]
  <2>1. IsFiniteSet(posts) /\ Cardinality(posts) \in Nat
    BY FS_CardinalityType DEF Room
  <2>2. posts' = posts \cup {x} /\ asks' = asks + 1 /\ asks < MaxSubs /\ minted' = minted
    BY <1>1 DEF Asking, harness
  <2> HIDE DEF x
  <2>3. IsFiniteSet(posts \cup {x})
    BY <2>1, FS_AddElement
  <2>4. Cardinality(posts \cup {x}) = Cardinality(posts)
          \/ Cardinality(posts \cup {x}) = Cardinality(posts) + 1
    BY <2>1, FS_AddElement
  <2> QED BY <2>1, <2>2, <2>3, <2>4, TurnBounds, SMTT(30) DEF Room, Types
<1>2. CASE Invoke \/ AnswerArrives \/ Stop \/ HostStops \/ Restore
           \/ Ending \/ Moving \/ Telling \/ Failing \/ UNCHANGED vars
  <2>1. posts' \subseteq posts /\ asks' = asks /\ minted' = minted
    BY <1>2 DEF Invoke, AnswerArrives, Stop, HostStops, Restore, Ending, Moving, Telling,
                Failing, Stray, wire, harness, vars
  <2> QED BY <2>1, RoomShrinks
<1>3. ASSUME NEW p \in posts, HarnessTakes(p) PROVE Room'
  <2>1. /\ posts' = posts \ {p} /\ asks' = asks
        /\ minted' = minted \/ minted' = minted + 1
    BY <1>3 DEF HarnessTakes, actor
  <2>2. IsFiniteSet(posts) /\ Cardinality(posts) \in Nat
    BY FS_CardinalityType DEF Room
  <2> QED BY <2>1, <2>2, NumberLeft, TurnBounds, SMTT(30) DEF Room, Types
<1>4. ASSUME Harness, ~\E p \in posts : HarnessTakes(p) PROVE Room'
  <2>1. UNCHANGED <<posts, asks, minted>>
    BY <1>4 DEF Harness, HarnessReads, HarnessPrompts, HarnessEnds, HarnessSweeps,
                HarnessDies, HarnessBoots, actor
  <2> QED BY <2>1, RoomShrinks
<1> QED BY <1>1, <1>2, <1>3, <1>4, Steps DEF ActorStep

\* The step of a Harness that takes an admission.
LEMMA TakesIs ==
  ASSUME Types, Wire, Room, NEW p \in posts, HarnessTakes(p)
  PROVE  /\ up /\ posts' = posts \ {p}
         /\ UNCHANGED <<turn, ledger, pending, heard, asks, crashes, a, aborts, failed, up, count,
                         prompted>>
         /\ Live(p) <=> a.pc = "post" /\ p.no = asks
         /\ \/ /\ p.kept /\ ~kept /\ UNCHANGED <<kept, fate, of, minted, told>>
               /\ Live(p) => reply'.st = "notkept"
            \/ /\ ~(p.kept /\ ~kept) /\ kept' /\ minted' = minted + 1 /\ minted + 1 \in Subs
               /\ fate' = [fate EXCEPT ![minted + 1] = "queued"]
               /\ of'[minted + 1].turn = p.turn /\ of'[minted + 1].task = p.task
               /\ \A s \in Subs \ {minted + 1} : of'[s] = of[s]
               /\ told' = IF kept THEN told ELSE 0
               /\ Live(p) => reply'.st = "queued" /\ reply'.sub = minted + 1
         /\ ~Live(p) => reply' = reply /\ odd'
         /\ odd => odd'
         /\ "watchCurrent" \in Calm => heard \in {0, count}
<1>1. minted + 1 \in Subs
  BY NumberLeft
<1>2. /\ up /\ posts' = posts \ {p}
      /\ UNCHANGED <<turn, ledger, pending, heard, asks, crashes, a, aborts, failed, up, count,
                         prompted>>
      /\ "watchCurrent" \in Calm => heard \in {0, count}
  BY DEF HarnessTakes, actor
<1>3. Live(p) <=> a.pc = "post" /\ p.no = asks
  BY DEF Live
<1>4. (odd => odd') /\ (~Live(p) => odd')
  BY DEF HarnessTakes
<1>5. CASE p.kept /\ ~kept
  <2>1. UNCHANGED <<kept, fate, of, minted, told>>
        /\ reply' = IF Live(p) THEN [st |-> "notkept", sub |-> 0] ELSE reply
    BY <1>5 DEF HarnessTakes
  <2> QED BY <1>2, <1>3, <1>4, <1>5, <2>1
<1>6. CASE ~(p.kept /\ ~kept)
  <2>1. /\ minted' = minted + 1 /\ kept' = TRUE
        /\ fate' = [fate EXCEPT ![minted + 1] = "queued"]
        /\ of' = [of EXCEPT ![minted + 1] = [turn |-> p.turn, task |-> p.task]]
        /\ told' = IF kept THEN told ELSE 0
        /\ reply' = IF Live(p) THEN [st |-> "queued", sub |-> minted + 1] ELSE reply
    BY <1>6 DEF HarnessTakes
  <2>2. of'[minted + 1] = [turn |-> p.turn, task |-> p.task]
        /\ \A s \in Subs \ {minted + 1} : of'[s] = of[s]
    BY <1>1, <2>1 DEF Types
  <2>3. of'[minted + 1].turn = p.turn /\ of'[minted + 1].task = p.task
    BY <2>2, SMTT(30)
  <2>4. Live(p) => reply'.st = "queued" /\ reply'.sub = minted + 1
    BY <2>1
  <2>5. ~Live(p) => reply' = reply
    BY <2>1
  <2> QED BY <1>1, <1>2, <1>3, <1>4, <1>6, <2>1, <2>2, <2>3, <2>4, <2>5
<1> QED BY <1>5, <1>6

\* The other steps of the Harness.
HarnessGoes ==
  \/ \E s \in Subs : HarnessReads(s) \/ HarnessPrompts(s) \/ HarnessEnds(s)
  \/ \E x \in aborts : HarnessSweeps(x)
  \/ HarnessDies \/ HarnessBoots

\* They leave the wire alone, and of the actor only whether it was read.
LEMMA GoesIs ==
  ASSUME Types, HarnessGoes
  PROVE  /\ UNCHANGED <<turn, ledger, heard, asks, crashes, posts, reply, failed, of, minted>>
         /\ a'.pc = a.pc /\ a'.task = a.task /\ a'.mark = a.mark
         /\ a'.restarted = a.restarted /\ a'.wait = a.wait /\ Knows
<1>1. UNCHANGED <<turn, ledger, heard, asks, crashes, posts, reply, failed, of, minted>>
  BY DEF HarnessGoes, HarnessReads, HarnessPrompts, HarnessEnds, HarnessSweeps,
         HarnessDies, HarnessBoots, actor
<1>2. a' = a \/ a' = [a EXCEPT !.served = TRUE]
  BY DEF HarnessGoes, HarnessReads, HarnessPrompts, HarnessEnds, HarnessSweeps,
         HarnessDies, HarnessBoots, actor
<1> QED BY <1>1, <1>2 DEF Types, Actors, Knows

LEMMA HarnessIs == Harness <=> (\E p \in posts : HarnessTakes(p)) \/ HarnessGoes
BY DEF Harness, HarnessGoes

LEMMA TellingIs ==
  ASSUME Types, Telling
  PROVE  /\ a'.pc = a.pc /\ a'.task = a.task /\ a'.served = a.served /\ a'.wait = a.wait /\ Knows
         /\ \/ a'.mark = a.mark /\ a'.restarted = a.restarted
            \/ a.mark = 0 /\ a'.mark = count /\ a'.restarted = a.restarted
            \/ /\ a.admitted /\ a.mark # 0 /\ count > a.mark
               /\ a'.mark = a.mark /\ a'.restarted = count
         /\ UNCHANGED <<turn, ledger, pending, posts, reply, aborts, failed, asks, crashes, harness>>
<1>1. a \in Actors /\ count \in Nat
  BY DEF Types
<1>2. a' \in Actors
  BY <1>1, HeardIs DEF Telling
<1>3. \/ a' = a
      \/ a' = [a EXCEPT !.mark = count] /\ a.mark = 0
      \/ a' = [a EXCEPT !.restarted = count] /\ count > a.mark /\ a.mark # 0 /\ a.admitted
  BY <1>1, HeardIs DEF Telling
<1>4. UNCHANGED <<turn, ledger, pending, posts, reply, aborts, failed, asks, crashes, harness>>
  BY DEF Telling, wire
<1> QED BY <1>1, <1>2, <1>3, <1>4 DEF Actors, Knows

LEMMA RestoreIs ==
  ASSUME Types, Restore
  PROVE  /\ a.pc = "down" /\ a'.pc = "queue"
         /\ UNCHANGED <<turn, ledger, pending, heard, wire, crashes, harness>>
         /\ ledger.turn = turn =>
              /\ a'.attached /\ a'.admitted /\ a'.sub = ledger.sub
              /\ \/ a'.mark = ledger.mark /\ a'.restarted = 0
                 \/ ledger.mark = 0 /\ a'.mark = heard /\ a'.restarted = 0
                 \/ ledger.mark # 0 /\ heard > ledger.mark
         /\ ledger.turn # turn => ~a'.attached /\ ~a'.admitted
<1> DEFINE b == [NoActor EXCEPT !.pc = "queue", !.attached = TRUE,
                                !.admitted = TRUE, !.sub = ledger.sub,
                                !.mark = ledger.mark]
<1>1. /\ b \in Actors /\ b.pc = "queue" /\ b.sub = ledger.sub /\ b.admitted /\ b.attached
      /\ b.mark = ledger.mark /\ b.restarted = 0
  BY DEF Types, NoActor, Actors, Pcs, Ledgers
<1>2. ledger.turn = turn => a' = Heard(b, heard)
  BY DEF Restore
<1>3. /\ a.pc = "down"
      /\ UNCHANGED <<turn, ledger, pending, heard, wire, crashes, harness>>
  BY DEF Restore
<1>4. ledger.turn # turn => a'.pc = "queue" /\ ~a'.attached /\ ~a'.admitted
  BY DEF Restore, NoActor
<1> HIDE DEF b
<1>5. \/ Heard(b, heard) = b
      \/ Heard(b, heard) = [b EXCEPT !.mark = heard] /\ b.mark = 0
      \/ Heard(b, heard) = [b EXCEPT !.restarted = heard] /\ heard > b.mark /\ b.mark # 0
  BY <1>1, HeardIs DEF Types
<1>6. ASSUME ledger.turn = turn
      PROVE  /\ a'.pc = "queue" /\ a'.attached /\ a'.admitted /\ a'.sub = ledger.sub
             /\ \/ a'.mark = ledger.mark /\ a'.restarted = 0
                \/ ledger.mark = 0 /\ a'.mark = heard /\ a'.restarted = 0
                \/ ledger.mark # 0 /\ heard > ledger.mark
  BY <1>1, <1>2, <1>5, <1>6 DEF Actors
<1> QED BY <1>3, <1>4, <1>6

LEMMA WireStep ==
  ASSUME Types, Wire, Room, Serving, [Next]_vars
  PROVE  Wire'
<1>1. ASSUME NEW task \in BOOLEAN, NEW k \in BOOLEAN, Asking(task, k) PROVE Wire'
  <2> DEFINE x == [no |-> asks + 1, turn |-> turn, task |-> task, kept |-> k]
  <2>1. posts' = posts \cup {x} /\ asks' = asks + 1 /\ turn' = turn
        /\ a'.pc = "post" /\ a'.task = task /\ reply'.st = "none"
    BY <1>1 DEF Asking
  <2>2. x.no = asks + 1 /\ x.turn = turn /\ x.task = task
    OBVIOUS
  <2> HIDE DEF x
  <2>3. \A p \in posts : p.no \in Nat /\ p.no <= asks /\ p.turn <= turn
    BY DEF Types, Posts, Wire
  <2>4. asks \in Nat /\ turn \in Nat
    BY DEF Types
  <2>5. \A p, q \in posts' : p.no = q.no => p = q
    BY <2>1, <2>2, <2>3, <2>4, SMTT(30) DEF Wire
  <2>6. \A p \in posts' : p.no <= asks' /\ p.turn <= turn'
                          /\ (p.no = asks' => p.turn = turn' /\ p.task = a'.task)
    BY <2>1, <2>2, <2>3, <2>4, SMTT(30)
  <2> QED BY <2>1, <2>5, <2>6 DEF Wire
<1>2. CASE AnswerArrives \/ Stop \/ HostStops \/ Restore \/ Ending
  <2>1. posts' \subseteq posts /\ asks' = asks /\ turn' = turn
    BY <1>2 DEF AnswerArrives, Stop, HostStops, Restore, Ending, Stray, wire
  <2>2. reply'.st = "none"
    BY <1>2, SMTT(30) DEF AnswerArrives, Stop, HostStops, Restore, Ending, wire, NoReply, Wire
  <2>3. a'.pc # "post"
    <3>1. CASE AnswerArrives
      BY <3>1 DEF AnswerArrives, Types, Actors
    <3>2. CASE Stop \/ Ending
      BY <3>2, Blank DEF Stop, Ending
    <3>3. CASE HostStops
      <4>1. a.pc = "post" => Alive
        BY DEF Alive
      <4> QED BY <3>3, <4>1 DEF HostStops, NoActor
    <3>4. CASE Restore
      BY <3>4, RestoreIs
    <3> QED BY <1>2, <3>1, <3>2, <3>3, <3>4
  <2> QED BY <2>1, <2>2, <2>3 DEF Wire
<1>3. CASE Invoke
  <2>1. reply.st = "none" /\ a'.pc = "queue" /\ turn' = turn + 1 /\ UNCHANGED <<posts, asks, reply>>
    BY <1>3 DEF Invoke, Wire, NoActor, wire
  <2> QED BY <2>1, SMTT(30) DEF Wire, Types, Posts
<1>4. CASE Moving
  BY <1>4 DEF Moving, Wire, wire, harness
<1>5. CASE Telling
  <2>1. a'.pc = a.pc /\ a'.task = a.task /\ UNCHANGED <<turn, posts, reply, asks, minted, of>>
    BY <1>5, TellingIs DEF harness
  <2> QED BY <2>1 DEF Wire
<1>6. ASSUME NEW p \in posts, HarnessTakes(p) PROVE Wire'
  <2>1. posts' = posts \ {p} /\ UNCHANGED <<turn, asks, a>>
    BY <1>6, TakesIs
  <2>2. /\ \A q \in posts' : q.no <= asks' /\ q.turn <= turn'
        /\ \A q, r \in posts' : q.no = r.no => q = r
        /\ a'.pc = "post" => \A q \in posts' : q.no = asks' => q.turn = turn' /\ q.task = a'.task
    BY <2>1 DEF Wire
  <2>3. CASE Live(p)
    <3>1. a.pc = "post" /\ p.no = asks /\ p.turn = turn /\ p.task = a.task
      BY <2>3 DEF Live, Wire
    <3>2. \A q \in posts' : q.no # asks
      BY <2>1, <3>1 DEF Wire
    <3>3. reply'.st = "queued" =>
             /\ reply'.sub = minted + 1 /\ minted' = minted + 1 /\ minted + 1 \in Subs
             /\ of'[minted + 1].turn = p.turn /\ of'[minted + 1].task = p.task
      BY <1>6, <2>3, TakesIs
    <3>4. reply'.st = "queued" => reply'.sub <= minted'
      BY <3>3, SMTT(30) DEF Types
    <3> QED BY <2>1, <2>2, <3>1, <3>2, <3>3, <3>4 DEF Wire
  <2>4. CASE ~Live(p)
    <3>1. reply' = reply
      BY <1>6, <2>4, TakesIs
    <3>2. reply.st = "queued" => of'[reply.sub] = of[reply.sub] /\ reply.sub <= minted'
      <4>1. CASE minted' = minted + 1 /\ \A s \in Subs \ {minted + 1} : of'[s] = of[s]
        BY <4>1, SMTT(30) DEF Wire, Types, Replies
      <4>2. CASE UNCHANGED <<of, minted>>
        BY <4>2 DEF Wire
      <4> QED BY <1>6, <4>1, <4>2, TakesIs
    <3> QED BY <2>1, <2>2, <3>1, <3>2 DEF Wire
  <2> QED BY <2>3, <2>4
<1>7. CASE HarnessGoes
  <2>1. UNCHANGED <<turn, asks, posts, reply, of, minted>> /\ a'.pc = a.pc /\ a'.task = a.task
    BY <1>7, GoesIs
  <2> QED BY <2>1 DEF Wire
<1>8. CASE Failing \/ UNCHANGED vars
  BY <1>8 DEF Failing, vars, Wire, wire, harness
<1> QED BY <1>1, <1>2, <1>3, <1>4, <1>5, <1>6, <1>7, <1>8, Steps, HarnessIs DEF ActorStep

LEMMA ServingStep ==
  ASSUME Types, Wire, Room, Serving, [Next]_vars
  PROVE  Serving'
<1>0. minted \in Nat /\ fate \in [Subs -> Fates] /\ turn \in Nat /\ of \in [Subs -> Admissions]
      /\ \A s \in Subs : s \in Nat
  BY SMTT(30) DEF Types, Subs
<1>1. CASE ActorStep \/ UNCHANGED vars
  <2>1. /\ UNCHANGED <<up, kept, fate, of, prompted, minted>> 
        /\ turn' = turn \/ turn' = turn + 1
    BY <1>1 DEF ActorStep, Invoke, AnswerArrives, Stop, HostStops, Restore, Asking,
                Ending, Moving, Telling, Failing, harness, vars
  <2>2. \A s \in Subs : of[s].turn <= turn => of[s].turn <= turn'
    BY <1>0, <2>1, SMTT(30) DEF Admissions
  <2> QED BY <2>1, <2>2 DEF Serving, Unsettled, Runs
<1>2. ASSUME NEW p \in posts, HarnessTakes(p) PROVE Serving'
  <2>1. UNCHANGED <<up, prompted, turn>> /\ up
    BY <1>2, TakesIs
  <2>2. CASE UNCHANGED <<kept, fate, of, minted>>
    BY <2>1, <2>2 DEF Serving, Unsettled, Runs
  <2>3. CASE /\ kept' /\ minted' = minted + 1 /\ minted + 1 \in Subs
             /\ fate' = [fate EXCEPT ![minted + 1] = "queued"]
             /\ of'[minted + 1].turn = p.turn
             /\ \A s \in Subs \ {minted + 1} : of'[s] = of[s]
    <3>1. p.turn <= turn
      BY DEF Wire
    <3>2. \A s \in Subs : fate'[s] = IF s = minted + 1 THEN "queued" ELSE fate[s]
      BY <1>0, <2>3
    <3>3. fate[minted + 1] = "none"
      BY <1>0, <2>3, SMTT(30) DEF Serving
    <3>4. \A s \in Subs : fate'[s] = "none" <=> s > minted'
      BY <1>0, <2>3, <3>2, SMTT(30) DEF Serving
    <3>5. \A s \in Subs : Unsettled(s)' => kept' /\ of'[s].turn <= turn'
      BY <2>1, <2>3, <3>1, <3>2 DEF Serving, Unsettled
    <3>6. \A s \in Subs : fate'[s] = "running" <=> fate[s] = "running"
      BY <3>2, <3>3
    <3> QED BY <2>1, <3>4, <3>5, <3>6 DEF Serving
  <2> QED BY <1>2, <2>2, <2>3, TakesIs
<1>3. ASSUME NEW s \in Subs, HarnessReads(s) PROVE Serving'
  BY <1>0, <1>3 DEF HarnessReads, Serving, Unsettled, Runs, actor
<1>4. ASSUME NEW s \in Subs, HarnessPrompts(s) PROVE Serving'
  BY <1>0, <1>4 DEF HarnessPrompts, Serving, Unsettled, Runs, actor
<1>5. ASSUME NEW s \in Subs, HarnessEnds(s) PROVE Serving'
  BY <1>0, <1>5 DEF HarnessEnds, Serving, Unsettled, Runs, actor
<1>6. ASSUME NEW x \in aborts, HarnessSweeps(x) PROVE Serving'
  BY <1>0, <1>6 DEF HarnessSweeps, Serving, Unsettled, Runs
<1>7. CASE HarnessDies
  BY <1>0, <1>7 DEF HarnessDies, Serving, Unsettled, Runs, actor
<1>8. CASE HarnessBoots
  BY <1>0, <1>8 DEF HarnessBoots, Serving, Unsettled, Runs, actor
<1> QED
  BY <1>1, <1>2, <1>3, <1>4, <1>5, <1>6, <1>7, <1>8, Steps, HarnessIs DEF HarnessGoes

LEMMA NamedStep ==
  ASSUME Types, Wire, Room, Named, [Next]_vars
  PROVE  Named'
<1>0. /\ minted \in Nat /\ turn \in Nat /\ a \in Actors /\ ledger \in Ledgers
  BY DEF Types
<1>1. CASE Invoke
  BY <1>0, <1>1, SMTT(30) DEF Invoke, Named, NoActor
<1>2. ASSUME NEW task \in BOOLEAN, NEW k \in BOOLEAN, Asking(task, k) PROVE Named'
  BY <1>2 DEF Asking, Knows, Named, harness
<1>3. CASE AnswerArrives
  BY <1>0, <1>3 DEF AnswerArrives, Wire, Named, harness, Actors, Ledgers
<1>4. CASE Stop
  BY <1>4, Blank DEF Stop, Named, harness
<1>5. CASE HostStops
  BY <1>5 DEF HostStops, Named, harness, NoActor, Alive
<1>6. CASE Restore
  <2>3. a.pc = "down" /\ turn > 0 /\ UNCHANGED <<turn, ledger, minted, of>>
    BY <1>6 DEF Restore, Named, harness
  <2>4. CASE ledger.turn = turn
    BY <1>0, <1>6, <2>3, <2>4, RestoreIs, SMTT(30) DEF Named
  <2>5. CASE ledger.turn # turn
    BY <1>0, <1>6, <2>3, <2>5, RestoreIs DEF Named
  <2> QED BY <2>4, <2>5
<1>7. CASE Ending
  BY <1>7, Blank DEF Ending, Named, Alive, harness
<1>8. CASE Moving
  BY <1>8 DEF Moving, Knows, Named, harness
<1>9. CASE Telling
  <2>1. a'.pc = a.pc /\ Knows /\ UNCHANGED <<turn, ledger, minted, of>>
    BY <1>9, TellingIs DEF harness
  <2> QED BY <2>1 DEF Named, Knows
<1>10. ASSUME NEW p \in posts, HarnessTakes(p) PROVE Named'
  <2>1. /\ UNCHANGED <<turn, ledger, a>> /\ (minted' = minted \/ minted' = minted + 1)
        /\ of' = of \/ \A s \in Subs \ {minted + 1} : of'[s] = of[s]
    BY <1>10, TakesIs
  <2>2. \A s \in Subs : s <= minted => of'[s] = of[s] /\ s <= minted'
    BY <1>0, <2>1, SMTT(30) DEF Subs
  <2> QED BY <2>1, <2>2 DEF Named
<1>11. CASE HarnessGoes
  <2>1. UNCHANGED <<turn, ledger, minted, of>> /\ a'.pc = a.pc /\ Knows
    BY <1>11, GoesIs
  <2> QED BY <2>1 DEF Named, Knows
<1>12. CASE Failing \/ UNCHANGED vars
  BY <1>12 DEF Failing, vars, Named, harness
<1> QED
  BY <1>1, <1>2, <1>3, <1>4, <1>5, <1>6, <1>7, <1>8, <1>9, <1>10, <1>11, <1>12, Steps,
     HarnessIs DEF ActorStep

LEMMA BaseInit == Init => Base
<1> SUFFICES ASSUME Init PROVE Base
  OBVIOUS
<1>1. Types
  BY Blank DEF Init, Types, Ledgers, Replies, NoReply, Admissions, Fates
<1>2. Wire /\ Serving /\ Named
  BY SMTT(30) DEF Init, Wire, Serving, Named, NoActor, NoReply, Subs, Unsettled, Runs
<1>3. Room
  BY FS_EmptySet, TurnBounds, SMTT(30) DEF Init, Room
<1> QED BY <1>1, <1>2, <1>3 DEF Base

LEMMA BaseStep == Base /\ [Next]_vars => Base'
BY TypesStep, WireStep, RoomStep, ServingStep, NamedStep DEF Base

LEMMA BaseAlways == Spec => []Base
BY BaseInit, BaseStep, PTL DEF Spec

-----------------------------------------------------------------------------
(* A Turn that the watch cuts has been cut. *)

\* While a Submission is open no restart was told since its admission, so none
\* is past its mark; an admission is sent by an actor that was told none; and the
\* actor goes on only from a Submission that is settled.
Marks ==
  /\ (\E s \in Subs : Unsettled(s)) => heard = 0 \/ heard = count
  /\ a.admitted /\ Unsettled(a.sub) => (a.mark = 0 \/ a.mark = count) /\ a.restarted = 0
  /\ ledger.turn # 0 /\ Unsettled(ledger.sub) => ledger.mark = 0 \/ ledger.mark = count
  /\ a.pc = "post" \/ ~a.admitted => a.restarted = 0
  /\ a.pc = "queue" /\ a.admitted => a.attached
  /\ a.pc = "holds" => ~a.admitted
  /\ a.pc \in {"picks", "rest", "again"} => a.admitted /\ ~Unsettled(a.sub)

\* Nothing settled opens again, but for the number that the Harness gives next,
\* and a boot leaves nothing open.
LEMMA OpenStays ==
  ASSUME Base, [Next]_vars
  PROVE  /\ \A s \in Subs : s <= minted /\ Unsettled(s)' => Unsettled(s)
         /\ (\E p \in posts : HarnessTakes(p)) \/ \A s \in Subs : Unsettled(s)' => Unsettled(s)
         /\ count' # count => \A s \in Subs : ~Unsettled(s)'
<1>0. minted \in Nat /\ fate \in [Subs -> Fates] /\ count \in Nat /\ \A s \in Subs : s \in Nat
  BY SMTT(30) DEF Base, Types, Subs
<1>1. CASE ActorStep \/ UNCHANGED vars
  <2>1. UNCHANGED <<fate, count>>
    BY <1>1 DEF ActorStep, Invoke, AnswerArrives, Stop, HostStops, Restore, Asking,
                Ending, Moving, Telling, Failing, harness, vars
  <2> QED BY <2>1 DEF Unsettled
<1>2. ASSUME NEW p \in posts, HarnessTakes(p)
      PROVE  /\ \A s \in Subs : s <= minted /\ Unsettled(s)' => Unsettled(s)
             /\ count' = count
  <2>1. count' = count
        /\ (UNCHANGED fate \/ fate' = [fate EXCEPT ![minted + 1] = "queued"])
    BY <1>2, TakesIs DEF Base
  <2>2. \A s \in Subs : s <= minted => fate'[s] = fate[s]
    BY <1>0, <2>1, SMTT(30)
  <2> QED BY <2>1, <2>2 DEF Unsettled
<1>3. CASE \E s \in Subs : HarnessReads(s) \/ HarnessPrompts(s) \/ HarnessEnds(s)
  BY <1>0, <1>3 DEF HarnessReads, HarnessPrompts, HarnessEnds, Unsettled
<1>4. CASE (\E x \in aborts : HarnessSweeps(x)) \/ HarnessDies
  BY <1>0, <1>4 DEF HarnessSweeps, HarnessDies, Unsettled
<1>5. CASE HarnessBoots
  <2>1. \A s \in Subs : ~Runs(s)
    BY <1>5 DEF HarnessBoots, Base, Serving
  <2> QED BY <1>0, <1>5, <2>1 DEF HarnessBoots, Unsettled, Runs
<1> QED BY <1>1, <1>2, <1>3, <1>4, <1>5, Steps, HarnessIs DEF Base, HarnessGoes

LEMMA MarksStep ==
  ASSUME "watchCurrent" \in Calm, Base, Base', Marks, [Next]_vars
  PROVE  Marks'
<1>0. /\ a \in Actors /\ ledger \in Ledgers /\ turn \in Nat /\ heard \in Nat /\ count \in Nat
      /\ Types /\ Wire /\ Room /\ Named
  BY DEF Base, Types
<1>1. CASE ActorStep
  <2>1. UNCHANGED <<fate, count>>
    BY <1>1 DEF ActorStep, Invoke, AnswerArrives, Stop, HostStops, Restore, Asking,
                Ending, Moving, Telling, Failing, harness
  <2>2. \A s : Unsettled(s)' <=> Unsettled(s)
    BY <2>1 DEF Unsettled
  <2>3. heard' \in {0, heard, count}
    BY <1>1 DEF ActorStep, Invoke, AnswerArrives, Stop, HostStops, Restore, Asking,
                Ending, Moving, Telling, Failing
  <2>4. (\E s \in Subs : Unsettled(s)') => heard' = 0 \/ heard' = count'
    BY <2>1, <2>2, <2>3 DEF Marks
  <2> DEFINE M2 == a'.admitted /\ Unsettled(a'.sub) => (a'.mark = 0 \/ a'.mark = count) /\ a'.restarted = 0
             M3 == ledger'.turn # 0 /\ Unsettled(ledger'.sub) => ledger'.mark = 0 \/ ledger'.mark = count
             M4 == a'.pc = "post" \/ ~a'.admitted => a'.restarted = 0
             M5 == /\ a'.pc = "queue" /\ a'.admitted => a'.attached
                   /\ a'.pc = "holds" => ~a'.admitted
                   /\ a'.pc \in {"picks", "rest", "again"} => a'.admitted /\ ~Unsettled(a'.sub)
  <2>5. SUFFICES M2 /\ M3 /\ M4 /\ M5
    <3>1. Unsettled(a.sub)' <=> Unsettled(a'.sub)
      BY <2>1 DEF Unsettled
    <3>2. Unsettled(ledger.sub)' <=> Unsettled(ledger'.sub)
      BY <2>1 DEF Unsettled
    <3> QED BY <2>1, <2>4, <3>1, <3>2 DEF Marks
  <2>6. CASE Invoke
    BY <2>6 DEF Invoke, Marks, NoActor
  <2>7. ASSUME NEW task \in BOOLEAN, NEW k \in BOOLEAN, Asking(task, k) PROVE M2 /\ M3 /\ M4 /\ M5
    BY <1>0, <2>7 DEF Asking, Knows, Marks
  <2>8. CASE AnswerArrives
    <3>1. /\ a.pc = "post" /\ reply.sub \in Subs
          /\ a'.sub = reply.sub /\ a'.admitted /\ a'.mark = heard /\ a'.restarted = a.restarted
          /\ a'.pc = "settle" /\ ledger'.sub = reply.sub /\ ledger'.mark = heard
      BY <1>0, <2>8 DEF AnswerArrives, Wire, Actors
    <3> QED BY <3>1 DEF Marks
  <2>9. CASE Stop \/ Ending
    BY <2>9, SMTT(30) DEF Stop, Ending, Done, NoActor, Marks
  <2>10. CASE HostStops
    BY <2>10 DEF HostStops, NoActor, Marks
  <2>11. CASE Restore
    <3>1. turn > 0 /\ UNCHANGED ledger /\ a'.pc = "queue"
      BY <1>0, <2>11, RestoreIs DEF Named
    <3>2. CASE ledger.turn = turn
      <4>1. ledger.sub \in Subs
        BY <1>0, <3>1, <3>2, SMTT(30) DEF Named
      <4>2. Unsettled(ledger.sub) => heard = 0 \/ heard = count
        BY <4>1 DEF Marks
      <4>3. ledger.mark \in Nat
        BY <1>0 DEF Ledgers
      <4> QED BY <1>0, <2>11, <3>1, <3>2, <4>2, <4>3, RestoreIs, SMTT(30) DEF Marks
    <3>3. CASE ledger.turn # turn
      <4>1. a'.restarted = 0
        BY <2>11, <3>3 DEF Restore, NoActor
      <4> QED BY <1>0, <2>11, <3>1, <3>3, <4>1, RestoreIs DEF Marks
    <3> QED BY <3>2, <3>3
  <2>12. CASE Moving
    <3>1. a.pc = "settle" => a.admitted
      BY <1>0 DEF Named
    <3>2. CASE a.pc # "rest"
      BY <2>12, <3>1, <3>2 DEF Moving, Knows, Marks, Unsettled
    <3>3. CASE a.pc = "rest"
      BY <2>12, <3>3 DEF Moving, Knows, Marks
    <3> QED BY <3>2, <3>3
  <2>13. CASE Telling
    <3>1. a.mark \in Nat
      BY <1>0 DEF Actors
    <3> QED BY <1>0, <2>13, <3>1, TellingIs, SMTT(30) DEF Telling, Knows, Marks
  <2>14. CASE Failing
    BY <2>14 DEF Failing, Marks
  <2> HIDE DEF M2, M3, M4, M5
  <2> QED
    BY <1>1, <2>6, <2>7, <2>8, <2>9, <2>10, <2>11, <2>12, <2>13, <2>14 DEF ActorStep
<1>2. CASE UNCHANGED vars
  BY <1>2 DEF vars, harness, Marks, Unsettled
<1>3. ASSUME NEW p \in posts, HarnessTakes(p) PROVE Marks'
  <2>1. UNCHANGED <<a, ledger, heard, count>> /\ heard \in {0, count}
    BY <1>0, <1>3, TakesIs
  <2>2. \A s \in Subs : s <= minted /\ Unsettled(s)' => Unsettled(s)
    BY OpenStays
  <2>3. a.admitted => a.sub \in Subs /\ a.sub <= minted
    BY <1>0 DEF Named
  <2>4. ledger.turn # 0 => ledger.sub \in Subs /\ ledger.sub <= minted
    BY <1>0 DEF Named
  <2>5. a.admitted /\ Unsettled(a.sub)' => Unsettled(a.sub)
    BY <2>2, <2>3, <2>1 DEF Unsettled
  <2>6. ledger.turn # 0 /\ Unsettled(ledger.sub)' => Unsettled(ledger.sub)
    BY <2>2, <2>4, <2>1 DEF Unsettled
  <2> QED BY <2>1, <2>5, <2>6 DEF Marks
<1>4. CASE HarnessGoes
  <2>1. /\ UNCHANGED <<ledger, heard, minted>> /\ a'.pc = a.pc /\ Knows /\ a'.mark = a.mark
        /\ a'.restarted = a.restarted
    BY <1>0, <1>4, GoesIs
  <2>2. \A s \in Subs : s <= minted /\ Unsettled(s)' => Unsettled(s)
    BY OpenStays
  <2>3. \A s \in Subs : Unsettled(s)' => s <= minted
    BY <2>1, SMTT(30) DEF Base, Serving, Unsettled, Types, Subs
  <2>4. CASE count' = count
    BY <1>0, <2>1, <2>2, <2>3, <2>4 DEF Marks, Knows, Named, Unsettled
  <2>5. CASE count' # count
    <3>1. \A s \in Subs : ~Unsettled(s)'
      BY <2>5, OpenStays
    <3> QED BY <1>0, <2>1, <3>1 DEF Marks, Knows, Named, Unsettled
  <2> QED BY <2>4, <2>5
<1> QED BY <1>0, <1>1, <1>2, <1>3, <1>4, Steps, HarnessIs

LEMMA MarksInit == Init => Marks
BY SMTT(30) DEF Init, Marks, NoActor, Unsettled

\* "a restart after it is this Turn's" (admitTurn): with a watch that has told
\* the restarts by the time the new Harness admits, a Turn that the watch cuts
\* has been cut, for every number of Turns, restarts and crashes.
THEOREM CutIsCutHolds ==
  ASSUME "watchCurrent" \in Calm
  PROVE  Spec => []CutIsCut
<1>1. Base /\ Marks => CutIsCut
  BY DEF Base, Named, Marks, CutIsCut, Unsettled
<1>2. Base /\ Marks /\ Base' /\ [Next]_vars => Marks'
  BY MarksStep
<1> QED BY <1>1, <1>2, MarksInit, BaseAlways, PTL DEF Spec

-----------------------------------------------------------------------------
(* A Turn has one admission under way at a time. *)

\* The open Submissions of a Turn, and its admissions on the wire.
At(t) == {s \in Subs : Unsettled(s) /\ of[s].turn = t}
Sent(t) == {p \in posts : p.turn = t}

\* Of a Turn there is one of them, if any.
Lone(t) ==
  /\ \A p, q \in Sent(t) : p = q
  /\ \A s, u \in At(t) : s = u
  /\ Sent(t) = {} \/ At(t) = {}

\* Until the Orchestrator stops: an actor that may admit has none of its Turn
\* under way, and one that waits has only what it waits for.
Single ==
  crashes = 0 =>
    /\ a.pc # "down" /\ ~a.attached
    /\ \A t \in Nat : Lone(t)
    /\ a.pc \in {"queue", "holds", "picks", "rest", "again"} => Sent(turn) = {} /\ At(turn) = {}
    /\ a.pc = "post" =>
         /\ \A p \in Sent(turn) : p.no = asks
         /\ reply.st # "none" => Sent(turn) = {}
         /\ reply.st # "queued" => At(turn) = {}
         /\ At(turn) \subseteq {reply.sub} \/ At(turn) = {}
    /\ a.pc = "settle" => Sent(turn) = {} /\ At(turn) \subseteq {a.sub}

\* With less on the wire and less open, what is alone stays so.
LEMMA LoneStays ==
  ASSUME NEW t, Lone(t), Sent(t)' \subseteq Sent(t), At(t)' \subseteq At(t)
  PROVE  Lone(t)'
BY DEF Lone

LEMMA Fewer ==
  ASSUME posts' \subseteq posts, of' = of, \A s \in Subs : Unsettled(s)' => Unsettled(s)
  PROVE  \A t : Sent(t)' \subseteq Sent(t) /\ At(t)' \subseteq At(t)
BY DEF Sent, At

LEMMA Narrows ==
  ASSUME Base, Telling \/ HarnessGoes
  PROVE  /\ Sent(turn)' \subseteq Sent(turn) /\ At(turn)' \subseteq At(turn)
         /\ \A t : Sent(t)' \subseteq Sent(t) /\ At(t)' \subseteq At(t)
<1>1. UNCHANGED <<turn, posts, of>>
  BY TellingIs, GoesIs DEF harness, Base
<1>2. \A s \in Subs : Unsettled(s)' => Unsettled(s)
  <2>0. fate \in [Subs -> Fates] /\ Serving
    BY DEF Base, Types
  <2>1. CASE Telling
    BY <2>1 DEF Telling, harness, Unsettled
  <2>2. CASE \E s \in Subs : HarnessReads(s) \/ HarnessPrompts(s) \/ HarnessEnds(s)
    BY <2>0, <2>2 DEF HarnessReads, HarnessPrompts, HarnessEnds, Unsettled
  <2>3. CASE (\E x \in aborts : HarnessSweeps(x)) \/ HarnessDies \/ HarnessBoots
    BY <2>0, <2>3 DEF HarnessSweeps, HarnessDies, HarnessBoots, Unsettled
  <2> QED BY <2>1, <2>2, <2>3 DEF HarnessGoes
<1>3. \A t : Sent(t)' \subseteq Sent(t) /\ At(t)' \subseteq At(t)
  BY <1>1, <1>2, Fewer
<1> QED BY <1>1, <1>2, <1>3 DEF Sent, At

LEMMA SingleStep ==
  ASSUME "watchCurrent" \in Calm, Base, Marks, Single, [Next]_vars
  PROVE  Single'
<1>0. /\ a \in Actors /\ turn \in Nat /\ crashes \in Nat /\ crashes' \in Nat
      /\ Types /\ Wire /\ Room /\ Named /\ Serving
  BY TypesStep DEF Base, Types
<1>01. SUFFICES ASSUME crashes' = 0 PROVE Single'
  BY DEF Single
<1>02. crashes = 0 \/ HostStops
  BY <1>0, <1>01, Steps, HarnessIs, TakesIs, GoesIs
     DEF ActorStep, Invoke, AnswerArrives, Stop, Restore, Asking, Ending, Moving, Telling,
         Failing, vars
<1>03. ~HostStops /\ crashes = 0
  BY <1>0, <1>01, <1>02, SMTT(30) DEF HostStops
<1>04. /\ a.pc # "down" /\ ~a.attached /\ \A t \in Nat : Lone(t)
  BY <1>03 DEF Single
<1>1. CASE Invoke
  <2>1. /\ turn' = turn + 1 /\ UNCHANGED <<posts, of, fate, crashes>> /\ a'.pc = "queue" /\ ~a'.attached
    BY <1>1 DEF Invoke, NoActor, wire
  <2>2. \A t : Sent(t)' \subseteq Sent(t) /\ At(t)' \subseteq At(t)
    BY <2>1, Fewer DEF Unsettled
  <2>3. Sent(turn + 1) = {} /\ At(turn + 1) = {}
    BY <1>0, SMTT(30) DEF Sent, At, Wire, Serving, Types, Posts, Admissions
  <2>4. Sent(turn)' = {} /\ At(turn)' = {}
    BY <2>1, <2>2, <2>3 DEF Sent, At
  <2>5. \A t \in Nat : Lone(t)'
    BY <1>04, <2>2, LoneStays
  <2> QED BY <2>1, <2>4, <2>5 DEF Single
<1>2. ASSUME NEW task \in BOOLEAN, NEW k \in BOOLEAN, Asking(task, k) PROVE Single'
  <2> DEFINE x == [no |-> asks + 1, turn |-> turn, task |-> task, kept |-> k]
  <2>1. /\ posts' = posts \cup {x} /\ asks' = asks + 1 /\ UNCHANGED <<turn, of, fate, crashes>>
        /\ a'.pc = "post" /\ reply'.st = "none" /\ ~a'.attached
    BY <1>2, <1>04 DEF Asking, Knows, harness
  <2>2. x.turn = turn /\ x.no = asks + 1
    OBVIOUS
  <2> HIDE DEF x
  <2>3. Sent(turn) = {} /\ At(turn) = {}
    BY <1>2, <1>03 DEF Asking, Single
  <2>4. \A t : At(t)' = At(t)
    BY <2>1 DEF At, Unsettled
  <2>5. \A t : t # turn => Sent(t)' = Sent(t)
    BY <2>1, <2>2 DEF Sent
  <2>6. Sent(turn)' = {x}
    BY <2>1, <2>2, <2>3 DEF Sent
  <2>7. Sent(turn) = {} /\ At(turn)' = {}
    BY <2>1, <2>3, <2>4 DEF At
  <2>8. ASSUME NEW t \in Nat PROVE Lone(t)'
    <3>1. CASE t = turn
      <4>1. Sent(t)' = {x}
        BY <2>6, <2>1, <3>1 DEF Sent
      <4>2. At(t)' = {}
        BY <2>3, <2>4, <3>1
      <4> QED BY <4>1, <4>2 DEF Lone
    <3>2. CASE t # turn
      BY <1>04, <2>4, <2>5, <3>2, LoneStays
    <3> QED BY <3>1, <3>2
  <2>9. \A p \in Sent(turn)' : p.no = asks'
    BY <2>1, <2>2, <2>6
  <2> QED BY <2>1, <2>7, <2>8, <2>9 DEF Single
<1>3. CASE AnswerArrives
  <2>1. /\ a.pc = "post" /\ reply.st = "queued" /\ a'.pc = "settle" /\ a'.sub = reply.sub
        /\ ~a'.attached /\ UNCHANGED <<turn, posts, of, fate, crashes>>
    BY <1>0, <1>3, <1>04 DEF AnswerArrives, Wire, Actors, harness
  <2>2. \A t : Sent(t)' = Sent(t) /\ At(t)' = At(t)
    BY <2>1 DEF Sent, At, Unsettled
  <2>3. Sent(turn) = {} /\ At(turn) \subseteq {reply.sub}
    BY <1>03, <2>1 DEF Single
  <2>4. Sent(turn)' = {} /\ At(turn)' \subseteq {reply.sub}
    BY <2>1, <2>3 DEF Sent, At, Unsettled
  <2>5. \A t \in Nat : Lone(t)'
    BY <1>04, <2>2, LoneStays
  <2> QED BY <2>1, <2>4, <2>5 DEF Single
<1>4. CASE Stop \/ Ending
  <2>1. /\ posts' \subseteq posts /\ UNCHANGED <<turn, of, fate, crashes>>
        /\ a'.pc \in {"none", "done"} /\ ~a'.attached
    BY <1>4, Blank DEF Stop, Ending, Stray, harness
  <2>2. \A t : Sent(t)' \subseteq Sent(t) /\ At(t)' \subseteq At(t)
    BY <2>1, Fewer DEF Unsettled
  <2>3. \A t \in Nat : Lone(t)'
    BY <1>04, <2>2, LoneStays
  <2> QED BY <2>1, <2>3 DEF Single
<1>5. CASE Restore
  BY <1>04, <1>5 DEF Restore
<1>6. CASE Moving
  <2>1. UNCHANGED <<turn, posts, of, fate, crashes, reply>> /\ ~a'.attached /\ a'.sub = a.sub
    BY <1>6, <1>04 DEF Moving, Knows, wire, harness
  <2>2. \A t : Sent(t)' = Sent(t) /\ At(t)' = At(t)
    BY <2>1 DEF Sent, At, Unsettled
  <2>3. \A t \in Nat : Lone(t)'
    BY <1>04, <2>2, LoneStays
  <2>4. a.pc = "settle" => a.admitted
    BY <1>0 DEF Named
  <2>5. a'.pc = "rest" \/ a'.pc = "picks" => ~Unsettled(a.sub) /\ a.pc = "settle"
    BY <1>6, <1>04, <2>4 DEF Moving, Marks, Unsettled
  <2>6. a'.pc \in {"holds", "rest", "picks", "again"}
    BY <1>6, <1>04 DEF Moving
  <2>7. Sent(turn) = {} /\ At(turn) = {}
    BY <1>6, <1>03, <1>04, <2>5 DEF Moving, Single, At
  <2>8. Sent(turn)' = {} /\ At(turn)' = {}
    BY <2>1, <2>7 DEF Sent, At, Unsettled
  <2> QED BY <2>1, <2>3, <2>6, <2>8 DEF Single
<1>7. CASE Telling \/ HarnessGoes
  <2>1. /\ UNCHANGED <<turn, posts, of, reply, asks, crashes>> /\ a'.pc = a.pc /\ a'.sub = a.sub
        /\ a'.attached = a.attached
    BY <1>0, <1>7, TellingIs, GoesIs DEF harness, Knows
  <2>3. /\ \A t : Sent(t)' \subseteq Sent(t) /\ At(t)' \subseteq At(t)
        /\ Sent(turn)' \subseteq Sent(turn) /\ At(turn)' \subseteq At(turn)
    BY <1>7, Narrows
  <2>4. \A t \in Nat : Lone(t)'
    BY <1>04, <2>3, LoneStays
  <2> QED BY <1>03, <2>1, <2>3, <2>4 DEF Single
<1>8. ASSUME NEW p \in posts, HarnessTakes(p) PROVE Single'
  <2>0. p \in Posts /\ p.turn \in Nat /\ minted \in Nat
    BY <1>0 DEF Types, Posts
  <2>1. posts' = posts \ {p} /\ UNCHANGED <<turn, asks, crashes, a>>
    BY <1>0, <1>8, TakesIs
  <2>2. /\ \A s \in Subs \ {minted + 1} : of'[s] = of[s] /\ fate'[s] = fate[s]
        /\ UNCHANGED <<fate, of>> \/ of'[minted + 1].turn = p.turn
    <3>1. CASE UNCHANGED <<fate, of>>
      BY <3>1
    <3>2. CASE /\ fate' = [fate EXCEPT ![minted + 1] = "queued"]
               /\ of'[minted + 1].turn = p.turn
               /\ \A s \in Subs \ {minted + 1} : of'[s] = of[s]
      BY <1>0, <3>2 DEF Types
    <3> QED BY <1>0, <1>8, <3>1, <3>2, TakesIs
  <2>3. fate[minted + 1] = "none" \/ minted + 1 \notin Subs
    BY <1>0, <2>0, SMTT(30) DEF Serving
  <2>4. \A t : t # p.turn => Sent(t)' = Sent(t) /\ At(t)' = At(t)
    <3>1. \A t : t # p.turn => Sent(t)' = Sent(t)
      BY <2>1 DEF Sent
    <3>2. \A t : t # p.turn => At(t)' = At(t)
      BY <2>2, <2>3 DEF At, Unsettled
    <3> QED BY <3>1, <3>2
  <2>5. p \in Sent(p.turn) /\ Lone(p.turn)
    BY <1>04, <2>0 DEF Sent
  <2>6. Sent(p.turn) = {p} /\ At(p.turn) = {}
    BY <2>5 DEF Lone
  <2>7. Sent(p.turn)' = {} /\ At(p.turn)' \subseteq {minted + 1}
    <3>1. {q \in posts' : q.turn = p.turn} = {}
      BY <2>1, <2>6 DEF Sent
    <3>2. {s \in Subs : Unsettled(s)' /\ of'[s].turn = p.turn} \subseteq {minted + 1}
      BY <2>2, <2>6 DEF At, Unsettled
    <3> QED BY <3>1, <3>2 DEF Sent, At
  <2>8. \A t \in Nat : Lone(t)'
    <3> SUFFICES ASSUME NEW t \in Nat PROVE Lone(t)'
      OBVIOUS
    <3>1. CASE t = p.turn
      <4>1. {q \in posts' : q.turn = t} = {} 
        BY <2>1, <2>6, <3>1 DEF Sent
      <4>2. {s \in Subs : Unsettled(s)' /\ of'[s].turn = t} \subseteq {minted + 1}
        BY <2>2, <2>6, <3>1 DEF At, Unsettled
      <4> QED BY <4>1, <4>2 DEF Lone, Sent, At
    <3>2. CASE t # p.turn
      BY <1>04, <2>4, <3>2, LoneStays
    <3> QED BY <3>1, <3>2
  <2>9. CASE p.turn # turn
    <3>1. Sent(turn)' = Sent(turn) /\ At(turn)' = At(turn)
      BY <2>1, <2>4, <2>9 DEF Sent, At
    <3>2. ~Live(p)
      BY <1>0, <2>9 DEF Live, Wire
    <3>3. reply' = reply
      BY <1>0, <1>8, <3>2, TakesIs
    <3> QED BY <1>03, <2>1, <2>8, <3>1, <3>3 DEF Single
  <2>10. CASE p.turn = turn
    <3>1. Sent(turn)' = {} /\ At(turn)' \subseteq {minted + 1}
      <4>1. {q \in posts' : q.turn = turn'} = {} 
        BY <2>1, <2>6, <2>10 DEF Sent
      <4>2. {s \in Subs : Unsettled(s)' /\ of'[s].turn = turn'} \subseteq {minted + 1}
        BY <2>1, <2>2, <2>6, <2>10 DEF At, Unsettled
      <4> QED BY <4>1, <4>2 DEF Sent, At
    <3>2. Sent(turn) # {}
      BY <2>6, <2>10
    <3>3. CASE a.pc = "post"
      <4>1. Live(p)
        BY <1>03, <2>6, <2>10, <3>3 DEF Single, Live
      <4>2. \/ UNCHANGED <<fate, of>> /\ reply'.st = "notkept"
            \/ reply'.st = "queued" /\ reply'.sub = minted + 1
        BY <1>0, <1>8, <4>1, TakesIs
      <4>3. UNCHANGED <<fate, of>> => At(turn)' = {}
        BY <2>1, <2>6, <2>10 DEF At, Unsettled
      <4>4. a'.pc = "post"
        BY <2>1, <3>3
      <4> QED BY <1>04, <2>1, <2>8, <3>1, <4>2, <4>3, <4>4 DEF Single
    <3>4. CASE a.pc # "post"
      <4>1. a'.pc = a.pc /\ a.pc \notin {"queue", "holds", "picks", "rest", "again", "settle"}
        BY <1>03, <2>1, <3>2 DEF Single
      <4> QED BY <1>04, <2>1, <2>8, <3>4, <4>1 DEF Single
    <3> QED BY <3>3, <3>4
  <2> QED BY <2>9, <2>10
<1>9. CASE Failing \/ UNCHANGED vars
  <2>1. UNCHANGED <<turn, posts, of, fate, reply, asks, crashes, a>>
    BY <1>9 DEF Failing, vars, wire, harness
  <2> QED BY <1>03, <2>1 DEF Single, Lone, Sent, At, Unsettled
<1> QED
  BY <1>0, <1>03, <1>1, <1>2, <1>3, <1>4, <1>5, <1>6, <1>7, <1>8, <1>9, Steps, HarnessIs
     DEF ActorStep

LEMMA SingleInit == Init => Single
<1> SUFFICES ASSUME Init PROVE Single
  OBVIOUS
<1>1. \A t : Sent(t) = {} /\ At(t) = {}
  BY DEF Init, Sent, At, Unsettled
<1> QED BY <1>1 DEF Init, Single, Lone, NoActor

\* An admission that may have reached the Harness is never sent again
\* (neverDelivered), and a nudge, a wake or a re-admission follows the end of the
\* one before it: with a watch that has told the restarts by the time the new
\* Harness admits, a Turn has one Submission open, for every number of Turns,
\* Submissions and restarts, but for one the Orchestrator died on.
THEOREM OneOpenPerTurnHolds ==
  ASSUME "watchCurrent" \in Calm
  PROVE  Spec => []OneOpenPerTurn
<1>1. ASSUME Base, Single PROVE OneOpenPerTurn
  <2>1. crashes \in Nat /\ \A s \in Subs : of[s].turn \in Nat
    BY <1>1 DEF Base, Types, Admissions
  <2>2. ASSUME crashes = 0, NEW s \in Subs, NEW t \in Subs, Unsettled(s), Unsettled(t),
               of[s].turn = of[t].turn
        PROVE  s = t
    <3>1. Lone(of[s].turn)
      BY <1>1, <2>1, <2>2 DEF Single
    <3>2. s \in At(of[s].turn) /\ t \in At(of[s].turn)
      BY <2>2 DEF At
    <3> QED BY <3>1, <3>2 DEF Lone
  <2> QED BY <2>1, <2>2, SMTT(30) DEF OneOpenPerTurn
<1>2. Base /\ Marks /\ Base' /\ [Next]_vars => Marks'
  BY MarksStep
<1>3. Base /\ Marks /\ Single /\ [Next]_vars => Single'
  BY SingleStep
<1> QED BY <1>1, <1>2, <1>3, MarksInit, SingleInit, BaseAlways, PTL DEF Spec

-----------------------------------------------------------------------------
(* The abort of a Turn, and the Turn that queues behind it. *)

\* A Turn waits for the abort of the Turn before it, unless it failed, and has no
\* admission under way till then; an older abort may be on its way, and so may one
\* that failed.
Waits ==
  /\ \A x \in aborts : x <= turn
  /\ a.pc # "none" => turn \notin aborts
  /\ a.pc = "none" /\ turn \in aborts \ failed => pending = turn
  /\ a.pc = "down" => aborts \subseteq failed
  /\ a.pc = "queue" /\ turn - 1 \in aborts \ failed =>
       a.wait = turn - 1 /\ Sent(turn) = {} /\ At(turn) = {}
  /\ Alive /\ a.pc # "queue" => turn - 1 \notin aborts \ failed

LEMMA WaitsStep ==
  ASSUME Base, Waits, [Next]_vars
  PROVE  Waits'
<1>0. /\ a \in Actors /\ turn \in Nat /\ pending \in Nat /\ aborts \subseteq Nat
      /\ failed \subseteq Nat /\ Types /\ Wire /\ Room /\ Serving
  BY DEF Base, Types
<1>1. CASE Invoke
  <2>1. /\ turn' = turn + 1 /\ UNCHANGED <<posts, of, fate, aborts, failed, pending>>
        /\ a'.pc = "queue" /\ a'.wait = pending /\ a.pc = "none"
    BY <1>1 DEF Invoke, NoActor, wire
  <2>2. {p \in posts' : p.turn = turn'} = {} /\ {s \in Subs : Unsettled(s)' /\ of'[s].turn = turn'} = {}
    BY <1>0, <2>1, SMTT(30) DEF Wire, Serving, Types, Posts, Admissions, Unsettled
  <2>3. Sent(turn)' = {} /\ At(turn)' = {}
    BY <2>2 DEF Sent, At
  <2>4. turn' - 1 = turn
    BY <1>0, <2>1, SMTT(30)
  <2>5. (\A x \in aborts' : x <= turn') /\ turn' \notin aborts'
    BY <1>0, <2>1, SMTT(30) DEF Waits
  <2>6. turn' - 1 \in aborts' \ failed' => a'.wait = turn' - 1
    BY <2>1, <2>4 DEF Waits
  <2> QED BY <2>1, <2>3, <2>5, <2>6 DEF Waits
<1>2. CASE (\E task, k \in BOOLEAN : Asking(task, k)) \/ AnswerArrives \/ Ending \/ Moving
  <2>1. UNCHANGED <<turn, aborts, failed>> /\ a'.pc \notin {"none", "queue", "down"}
    BY <1>0, <1>2, Blank DEF Asking, AnswerArrives, Ending, Moving, wire, Actors
  <2>2. a.pc # "queue" \/ a.wait \notin aborts \ failed
    BY <1>0, <1>2 DEF Asking, AnswerArrives, Ending, Moving, Wire
  <2>3. Alive
    BY <1>0, <1>2 DEF Asking, AnswerArrives, Ending, Moving, Wire, Alive
  <2>4. turn - 1 \notin aborts \ failed
    BY <2>2, <2>3 DEF Waits
  <2>5. a.pc # "none"
    BY <2>3 DEF Alive
  <2> QED BY <2>1, <2>4, <2>5 DEF Waits
<1>3. CASE Stop
  <2>1. /\ a'.pc = "none" /\ turn' = turn /\ aborts' = aborts \cup {turn} /\ pending' = turn
    BY <1>3, Blank DEF Stop
  <2>2. \A x \in aborts' : x <= turn'
    BY <1>0, <2>1, SMTT(30) DEF Waits
  <2> QED BY <2>1, <2>2 DEF Waits, Alive
<1>4. CASE HostStops
  <2>1. aborts' = aborts /\ aborts' \subseteq failed' /\ turn' = turn
    BY <1>4 DEF HostStops
  <2>2. a'.pc \in {"none", "down"} /\ (a'.pc = "none" => a.pc = "none")
    BY <1>0, <1>4 DEF HostStops, Alive, NoActor
  <2>3. (a.pc = "none" /\ a'.pc = "none") \/ (a.pc # "none" /\ a'.pc = "down")
    BY <1>4, <2>2 DEF HostStops, Alive, NoActor
  <2> QED BY <2>1, <2>3 DEF Waits, Alive
<1>5. CASE Restore
  <2>1. UNCHANGED <<turn, aborts, failed>> /\ a.pc = "down" /\ a'.pc = "queue"
    BY <1>0, <1>5, RestoreIs DEF wire
  <2>2. aborts \subseteq failed
    BY <2>1 DEF Waits
  <2> QED BY <2>1, <2>2 DEF Waits
<1>6. CASE Telling \/ (HarnessGoes /\ ~\E x \in aborts : HarnessSweeps(x))
  <2>1. UNCHANGED <<turn, aborts, failed, pending>> /\ a'.pc = a.pc /\ a'.wait = a.wait
    <3>1. CASE Telling
      BY <1>0, <3>1, TellingIs DEF harness
    <3>2. CASE HarnessGoes /\ ~\E x \in aborts : HarnessSweeps(x)
      <4>1. UNCHANGED <<aborts, pending>>
        BY <3>2 DEF HarnessGoes, HarnessReads, HarnessPrompts, HarnessEnds, HarnessDies,
                    HarnessBoots, actor
      <4> QED BY <1>0, <3>2, <4>1, GoesIs
    <3> QED BY <1>6, <3>1, <3>2
  <2>2. Sent(turn)' \subseteq Sent(turn) /\ At(turn)' \subseteq At(turn)
    BY <1>6, Narrows
  <2> QED BY <2>1, <2>2 DEF Waits, Alive
<1>7. CASE Failing \/ \E x \in aborts : HarnessSweeps(x)
  <2>1. PICK x \in aborts :
          /\ aborts' \subseteq aborts /\ UNCHANGED <<turn, a>> /\ failed \subseteq failed'
          /\ aborts' \ failed' = (aborts \ failed) \ {x}
          /\ pending' = IF pending = x THEN 0 ELSE pending
    BY <1>7 DEF Failing, HarnessSweeps
  <2>2. Sent(turn)' \subseteq Sent(turn) /\ At(turn)' \subseteq At(turn)
    <3>1. CASE Failing
      BY <3>1 DEF Failing, harness, Sent, At, Unsettled
    <3>2. CASE \E y \in aborts : HarnessSweeps(y)
      BY <3>2, Narrows DEF HarnessGoes
    <3> QED BY <1>7, <3>1, <3>2
  <2>3. turn \in aborts' \ failed' /\ a.pc = "none" => pending' = turn
    BY <2>1 DEF Waits
  <2> QED BY <2>1, <2>2, <2>3 DEF Waits, Alive
<1>8. ASSUME NEW p \in posts, HarnessTakes(p) PROVE Waits'
  <2>1. /\ UNCHANGED <<turn, a, aborts, failed, pending>> /\ posts' \subseteq posts
        /\ \/ UNCHANGED <<fate, of>>
           \/ /\ fate' = [fate EXCEPT ![minted + 1] = "queued"]
              /\ of'[minted + 1].turn = p.turn
              /\ \A s \in Subs \ {minted + 1} : of'[s] = of[s]
    BY <1>0, <1>8, TakesIs
  <2>2. ASSUME Sent(turn) = {}, At(turn) = {} PROVE Sent(turn)' = {} /\ At(turn)' = {}
    <3>1. p.turn # turn
      BY <2>2 DEF Sent
    <3>2. {q \in posts' : q.turn = turn'} = {}
      BY <2>1, <2>2 DEF Sent
    <3>3. {s \in Subs : Unsettled(s)' /\ of'[s].turn = turn'} = {}
      BY <1>0, <2>1, <2>2, <3>1 DEF At, Unsettled, Types
    <3> QED BY <3>2, <3>3 DEF Sent, At
  <2> QED BY <2>1, <2>2 DEF Waits, Alive
<1>9. CASE UNCHANGED vars
  <2>1. UNCHANGED <<turn, posts, of, fate, aborts, failed, pending, a>>
    BY <1>9 DEF vars, wire, harness
  <2> QED BY <2>1 DEF Waits, Alive, Sent, At, Unsettled
<1> QED
  BY <1>0, <1>1, <1>2, <1>3, <1>4, <1>5, <1>6, <1>7, <1>8, <1>9, Steps, HarnessIs
     DEF ActorStep

\* "Queue behind any abort still in flight for this iid": the abort of the Turn
\* before it sweeps no Submission of a live Turn, unless that abort failed, and
\* however late an older one comes; for every number of Turns, Submissions,
\* restarts and failures.
THEOREM NoForeignSweepHolds == Spec => NoForeignSweep
<1>1. Init => Waits
  BY SMTT(30) DEF Init, Waits, NoActor, Alive
<1>2. Base /\ Waits /\ [Next]_vars => Waits'
  BY WaitsStep
<1>3. ASSUME Base, Waits, [Next]_vars
      PROVE  [\A s \in Subs :
                Own(s) /\ Unsettled(s) /\ fate'[s] = "aborted"
                  => \E x \in aborts \ aborts' : x < turn - 1 \/ x \in failed]_vars
  <2> SUFFICES ASSUME NEW s \in Subs, Own(s), Unsettled(s), fate'[s] = "aborted"
               PROVE  \E x \in aborts \ aborts' : x < turn - 1 \/ x \in failed
    OBVIOUS
  <2>0. /\ Types /\ Wire /\ Room /\ Serving /\ turn \in Nat /\ aborts \subseteq Nat
        /\ fate \in [Subs -> Fates] /\ Alive
    BY <1>3 DEF Base, Types, Own
  <2>1. fate[s] # "aborted" /\ fate' # fate
    BY DEF Unsettled
  <2>2. ~ActorStep /\ ~UNCHANGED vars
    BY <2>1 DEF ActorStep, Invoke, AnswerArrives, Stop, HostStops, Restore, Asking,
                Ending, Moving, Telling, Failing, harness, vars
  <2>3. ~\E p \in posts : HarnessTakes(p)
    <3> SUFFICES ASSUME NEW p \in posts, HarnessTakes(p) PROVE FALSE
      OBVIOUS
    <3>1. fate' = fate \/ fate' = [fate EXCEPT ![minted + 1] = "queued"]
      BY <2>0, TakesIs
    <3> QED BY <2>0, <2>1, <3>1
  <2>4. ~HarnessDies /\ ~HarnessBoots
    BY <2>0, <2>1 DEF HarnessDies, HarnessBoots
  <2>5. ~\E t \in Subs : HarnessReads(t) \/ HarnessPrompts(t) \/ HarnessEnds(t)
    BY <2>0, <2>1 DEF HarnessReads, HarnessPrompts, HarnessEnds
  <2>6. PICK x \in aborts : HarnessSweeps(x)
    BY <1>3, <2>0, <2>2, <2>3, <2>4, <2>5, Steps, HarnessIs DEF HarnessGoes
  <2>7. x \in aborts \ aborts'
    BY <2>6 DEF HarnessSweeps
  <2>8. s \in At(turn)
    BY DEF At, Own
  <2>9. x = turn - 1 => x \in failed
    BY <1>3, <2>0, <2>8 DEF Waits
  <2>10. x <= turn /\ x # turn /\ x \in Nat
    BY <1>3, <2>0 DEF Waits, Alive
  <2>11. x < turn - 1 \/ x = turn - 1
    BY <2>0, <2>10, SMTT(30)
  <2> QED BY <2>7, <2>9, <2>11
<1> QED BY <1>1, <1>2, <1>3, BaseAlways, PTL DEF Spec, NoForeignSweep

-----------------------------------------------------------------------------
(* The surface of a Turn, and the Submissions that read it. *)

\* Nothing but an admission taken has more at work.
LEMMA RunsStay ==
  ASSUME Base, HarnessGoes
  PROVE  /\ \A s \in Subs : Runs(s)' => Runs(s)
         /\ (\E x \in aborts : HarnessSweeps(x)) => \A s \in Subs : ~Runs(s)'
<1>0. fate \in [Subs -> Fates] /\ Serving
  BY DEF Base, Types
<1>1. ASSUME NEW t \in Subs, HarnessReads(t) \/ HarnessPrompts(t) \/ HarnessEnds(t)
      PROVE  \A s \in Subs : Runs(s)' => Runs(s)
  BY <1>0, <1>1 DEF HarnessReads, HarnessPrompts, HarnessEnds, Runs
<1>2. ASSUME NEW x \in aborts, HarnessSweeps(x) PROVE \A s \in Subs : ~Runs(s)'
  <2>1. \A s \in Subs : fate'[s] = IF up /\ Unsettled(s) THEN "aborted" ELSE fate[s]
    BY <1>2 DEF HarnessSweeps
  <2> QED BY <1>0, <2>1 DEF Serving, Runs, Unsettled
<1>3. ASSUME HarnessDies \/ HarnessBoots PROVE \A s \in Subs : Runs(s)' => Runs(s)
  BY <1>0, <1>3 DEF HarnessDies, HarnessBoots, Runs
<1>4. (\E x \in aborts : HarnessSweeps(x)) => \A s \in Subs : ~Runs(s)'
  BY <1>2
<1> QED BY <1>1, <1>2, <1>3, <1>4 DEF HarnessGoes

\* No abort failed, and no stray admission was taken.
Clear == failed = {} /\ ~odd

\* What works, or is in line, is this Turn's, or waits for the abort that the
\* Turn waits for: whichever abort comes first sweeps it.
Swept ==
  Clear =>
    /\ a.pc = "none" /\ (\E s \in Subs : Runs(s)) => pending \in aborts
    /\ a.pc = "queue" /\ (\E s \in Subs : Runs(s) /\ of[s].turn # turn) => a.wait \in aborts
    /\ a.pc \notin {"none", "queue"} => \A s \in Subs : Runs(s) => of[s].turn = turn

LEMMA ClearBefore ==
  ASSUME Base, [Next]_vars, Clear'
  PROVE  Clear /\ ~Failing /\ \A p \in posts : HarnessTakes(p) => Live(p)
<1>0. Types /\ Wire /\ Room /\ failed' = {} /\ ~odd'
  BY DEF Base, Clear
<1>1. ~Failing
  BY <1>0 DEF Failing
<1>2. ASSUME ActorStep \/ UNCHANGED vars PROVE Clear
  <2>1. odd' = odd /\ failed \subseteq failed'
    BY <1>1, <1>2 DEF ActorStep, Invoke, AnswerArrives, Stop, HostStops, Restore, Asking,
                      Ending, Moving, Telling, wire, harness, vars
  <2> QED BY <1>0, <2>1 DEF Clear
<1>3. ASSUME NEW p \in posts, HarnessTakes(p) PROVE Clear
  BY <1>0, <1>3, TakesIs DEF Clear
<1>4. ASSUME HarnessGoes PROVE Clear
  <2>1. failed' = failed
    BY <1>0, <1>4, GoesIs
  <2>2. odd => odd'
    BY <1>4 DEF HarnessGoes, HarnessReads, HarnessPrompts, HarnessEnds, HarnessSweeps,
                       HarnessDies, HarnessBoots
  <2> QED BY <1>0, <2>1, <2>2 DEF Clear
<1>5. \A p \in posts : HarnessTakes(p) => Live(p)
  BY <1>0, TakesIs
<1> QED BY <1>0, <1>1, <1>2, <1>3, <1>4, <1>5, Steps, HarnessIs

LEMMA SweptStep ==
  ASSUME Base, Swept, [Next]_vars
  PROVE  Swept'
<1>01. SUFFICES ASSUME Clear' PROVE Swept'
  BY DEF Swept
<1>0. /\ a \in Actors /\ Types /\ Wire /\ Room /\ Serving /\ failed = {} /\ failed' = {}
      /\ Clear /\ ~Failing /\ \A p \in posts : HarnessTakes(p) => Live(p)
  BY <1>01, ClearBefore DEF Base, Types, Clear
<1>1. CASE Invoke
  <2>1. /\ a.pc = "none" /\ a'.pc = "queue" /\ a'.wait = pending /\ UNCHANGED <<fate, aborts>>
    BY <1>1 DEF Invoke, NoActor, wire
  <2> QED BY <1>0, <2>1 DEF Swept, Runs
<1>2. CASE (\E task, k \in BOOLEAN : Asking(task, k)) \/ AnswerArrives \/ Ending \/ Moving
  <2>1. UNCHANGED <<fate, of, turn, aborts>> /\ a'.pc \notin {"none", "queue"}
    BY <1>0, <1>2, Blank DEF Asking, AnswerArrives, Ending, Moving, wire, harness, Actors
  <2>2. a.pc # "none" /\ (a.pc # "queue" \/ a.wait \notin aborts)
    BY <1>0, <1>2 DEF Asking, AnswerArrives, Ending, Moving, Wire, Alive
  <2>3. \A s \in Subs : Runs(s) => of[s].turn = turn
    BY <1>0, <2>2 DEF Swept
  <2> QED BY <2>1, <2>3 DEF Swept, Runs
<1>3. CASE Stop
  <2>1. a'.pc = "none" /\ aborts' = aborts \cup {turn} /\ pending' = turn
    BY <1>3, Blank DEF Stop
  <2> QED BY <2>1 DEF Swept
<1>4. CASE HostStops
  <2>1. aborts = {} /\ UNCHANGED <<fate, of, turn>>
    BY <1>0, <1>4 DEF HostStops, harness
  <2>2. (a.pc = "none" /\ a'.pc = "none") \/ (a.pc # "none" /\ a'.pc = "down")
    BY <1>4 DEF HostStops, Alive, NoActor
  <2>3. a.pc = "none" => \A s \in Subs : ~Runs(s)
    BY <1>0, <2>1 DEF Swept
  <2>4. a.pc # "none" => \A s \in Subs : Runs(s) => of[s].turn = turn
    BY <1>0, <2>1 DEF Swept
  <2> QED BY <2>1, <2>2, <2>3, <2>4 DEF Swept, Runs
<1>5. CASE Restore
  <2>1. a.pc = "down" /\ a'.pc = "queue" /\ UNCHANGED <<fate, of, turn>>
    BY <1>0, <1>5, RestoreIs DEF harness
  <2> QED BY <1>0, <2>1 DEF Swept, Runs
<1>6. CASE Telling
  <2>1. UNCHANGED <<fate, of, turn, aborts, pending>> /\ a'.pc = a.pc /\ a'.wait = a.wait
    BY <1>0, <1>6, TellingIs DEF harness
  <2> QED BY <1>0, <2>1 DEF Swept, Runs
<1>7. ASSUME NEW p \in posts, HarnessTakes(p) PROVE Swept'
  <2>1. a' = a /\ turn' = turn /\ a.pc = "post" /\ p.turn = turn
    BY <1>0, <1>7, TakesIs DEF Live, Wire
  <2>2. \/ UNCHANGED <<fate, of>>
        \/ /\ fate' = [fate EXCEPT ![minted + 1] = "queued"] /\ minted + 1 \in Subs
           /\ of'[minted + 1].turn = p.turn
           /\ \A s \in Subs \ {minted + 1} : of'[s] = of[s]
    BY <1>0, <1>7, TakesIs
  <2>3. \A s \in Subs : Runs(s) => of[s].turn = turn
    BY <1>0, <2>1 DEF Swept
  <2>4. \A s \in Subs : Runs(s)' => of'[s].turn = turn
    BY <1>0, <2>1, <2>2, <2>3 DEF Runs, Types
  <2> QED BY <2>1, <2>4 DEF Swept
<1>8. CASE HarnessGoes
  <2>1. UNCHANGED <<turn, of>> /\ a'.pc = a.pc /\ a'.wait = a.wait
    BY <1>0, <1>8, GoesIs
  <2>2. CASE \E x \in aborts : HarnessSweeps(x)
    BY <1>8, <2>2, RunsStay DEF Swept
  <2>3. CASE ~\E x \in aborts : HarnessSweeps(x)
    <3>1. UNCHANGED <<aborts, pending>>
      BY <1>8, <2>3 DEF HarnessGoes, HarnessReads, HarnessPrompts, HarnessEnds, HarnessDies,
                        HarnessBoots, actor
    <3> QED BY <1>0, <1>8, <2>1, <3>1, RunsStay DEF Swept
  <2> QED BY <2>2, <2>3
<1>9. CASE UNCHANGED vars
  <2>1. UNCHANGED <<turn, of, fate, aborts, pending, a>>
    BY <1>9 DEF vars, wire, harness
  <2> QED BY <1>0, <2>1 DEF Swept, Runs
<1> QED
  BY <1>0, <1>1, <1>2, <1>3, <1>4, <1>5, <1>6, <1>7, <1>8, <1>9, Steps, HarnessIs
     DEF ActorStep

\* The surface that a Turn registers under the conversation's name is read by no
\* Submission of a Turn before it: in whatever order the aborts come, those are
\* swept when the Turn asks, unless an abort failed or the Harness took an
\* admission whose actor was gone; for every number of Turns, Submissions and
\* restarts.
THEOREM SurfaceIsOwnHolds == Spec => SurfaceIsOwn
<1>1. Init => Swept
  BY DEF Init, Swept, Runs, NoActor
<1>2. Base /\ Swept /\ [Next]_vars => Swept'
  BY SweptStep
<1>3. ASSUME Swept
      PROVE  [\A s \in Subs :
                Asked /\ fate[s] = "queued" /\ fate'[s] = "running"
                  => of[s].turn = turn \/ failed # {} \/ odd]_vars
  BY <1>3 DEF Swept, Clear, Asked, Alive, Runs
<1> QED BY <1>1, <1>2, <1>3, BaseAlways, PTL DEF Spec, SurfaceIsOwn

-----------------------------------------------------------------------------
(* The model that works for a Turn has read its task. *)

\* No restore dropped what the actor knows, no stray admission was taken, no
\* stranger read the surface, and no run ended or was swept before its prompt.
Untroubled == crashes = 0 /\ ~odd

LEMMA UntroubledBefore ==
  ASSUME Base, [Next]_vars, Untroubled'
  PROVE  Untroubled /\ ~HostStops /\ \A p \in posts : HarnessTakes(p) => Live(p)
<1>0. crashes \in Nat /\ crashes' \in Nat /\ Types /\ Wire /\ Room /\ crashes' = 0 /\ ~odd'
  BY TypesStep DEF Base, Types, Untroubled
<1>1. ~HostStops
  BY <1>0, SMTT(30) DEF HostStops
<1>2. ASSUME ActorStep \/ UNCHANGED vars PROVE Untroubled
  <2>1. UNCHANGED <<crashes, odd>>
    BY <1>1, <1>2 DEF ActorStep, Invoke, AnswerArrives, Stop, Restore, Asking, Ending, Moving,
                      Telling, Failing, harness, vars
  <2> QED BY <1>0, <2>1 DEF Untroubled
<1>3. ASSUME NEW p \in posts, HarnessTakes(p) PROVE Untroubled
  BY <1>0, <1>3, TakesIs DEF Untroubled
<1>4. ASSUME HarnessGoes PROVE Untroubled
  <2>1. crashes' = crashes
    BY <1>0, <1>4, GoesIs
  <2>2. odd => odd'
    BY <1>4 DEF HarnessGoes, HarnessReads, HarnessPrompts, HarnessEnds, HarnessSweeps,
                       HarnessDies, HarnessBoots
  <2> QED BY <1>0, <2>1, <2>2 DEF Untroubled
<1>5. \A p \in posts : HarnessTakes(p) => Live(p)
  BY <1>0, TakesIs
<1> QED BY <1>0, <1>1, <1>2, <1>3, <1>4, <1>5, Steps, HarnessIs

\* The conversation, if the Harness keeps it, has the task; and if not yet, a run
\* that read its surface is about to say it.
Read == kept => told > 0
ReadBy(s) == Read \/ (fate[s] = "running" /\ ~prompted)

\* Of this Turn, what works or is in line.
Worked ==
  Untroubled =>
    /\ \A s \in Subs : Runs(s) /\ of[s].turn = turn => of[s].task \/ told > 0
    /\ \A s \in Subs : fate[s] = "running" /\ prompted /\ of[s].turn = turn => told > 0

\* What the actor concludes from its marks: an admission without the task goes
\* onto a conversation that has it, a Turn that was read has it there, and so has
\* one whose Submission is complete.
Concluded ==
  Untroubled =>
    /\ a.pc = "post" /\ reply.st = "none" =>
         \A p \in posts : p.no = asks => p.task \/ (p.kept /\ Read)
    /\ a.pc = "post" /\ reply.st # "queued" => ~a.served
    /\ a.pc = "post" /\ reply.st = "queued" =>
         /\ ~a.task => Read
         /\ a.served => ReadBy(reply.sub)
         /\ fate[reply.sub] = "completed" => Read
    /\ a.pc = "settle" /\ fate[a.sub] = "completed" => Read
    /\ a.pc \in {"settle", "rest", "again"} =>
         /\ a.served => ReadBy(a.sub)
         /\ a.served \/ a.carried \/ Read
    /\ a.pc = "picks" => Read

Context == Worked /\ Concluded

\* The steps of the actor.
LEMMA ContextActor ==
  ASSUME Base, Marks, Single, Context, ActorStep, ~HostStops, Untroubled
  PROVE  Context'
<1>0. /\ a \in Actors /\ turn \in Nat /\ asks \in Nat /\ Types /\ Wire /\ Serving /\ Named
      /\ a.pc # "down" /\ ~a.attached
  BY DEF Base, Types, Single, Untroubled
<1>1. CASE Invoke
  <2>1. /\ turn' = turn + 1 /\ UNCHANGED <<of, fate>> /\ a'.pc = "queue"
    BY <1>1 DEF Invoke, NoActor
  <2>2. \A s \in Subs : Runs(s)' => of'[s].turn # turn'
    BY <1>0, <2>1, SMTT(30) DEF Serving, Runs, Unsettled, Types, Admissions
  <2> QED BY <2>1, <2>2 DEF Context, Worked, Concluded, Runs
<1>2. CASE ~Invoke
  <2>1. UNCHANGED <<turn, kept, fate, of, prompted, told>>
    BY <1>2 DEF ActorStep, Invoke, AnswerArrives, Stop, HostStops, Restore, Asking,
                Ending, Moving, Telling, Failing, harness
  <2>2. Worked'
    BY <2>1 DEF Context, Worked, Runs
  <2>3. Read' <=> Read
    BY <2>1 DEF Read
  <2>5. Concluded
    BY DEF Context
  <2>6. SUFFICES Concluded'
    BY <2>2 DEF Context
  <2>7. ASSUME NEW task \in BOOLEAN, NEW k \in BOOLEAN, Asking(task, k) PROVE Concluded'
    <3> DEFINE x == [no |-> asks + 1, turn |-> turn, task |-> task, kept |-> k]
    <3>1. /\ posts' = posts \cup {x} /\ asks' = asks + 1
          /\ a'.pc = "post" /\ ~a'.served /\ reply'.st = "none"
      BY <2>7 DEF Asking
    <3>2. x.no = asks + 1 /\ x.task = task /\ x.kept = k
      OBVIOUS
    <3> HIDE DEF x
    <3>3. task \/ (k /\ Read)
      <4>1. CASE a.pc = "picks"
        BY <2>5, <2>7, <4>1 DEF Asking, Concluded
      <4>2. CASE a.pc = "again"
        <5>1. fate[a.sub] # "running"
          BY <4>2 DEF Marks, Unsettled
        <5>2. a.served => Read
          BY <2>5, <4>2, <5>1 DEF Concluded, ReadBy
        <5>3. a.served \/ a.carried \/ Read
          BY <2>5, <4>2 DEF Concluded
        <5> QED BY <2>7, <4>2, <5>2, <5>3 DEF Asking
      <4> QED BY <2>7, <4>1, <4>2 DEF Asking
    <3>4. \A p \in posts : p.no # asks + 1
      BY <1>0, SMTT(30) DEF Wire, Types, Posts
    <3>5. \A p \in posts' : p.no = asks' => p.task \/ (p.kept /\ Read')
      BY <2>3, <3>1, <3>2, <3>3, <3>4
    <3> QED BY <3>1, <3>5 DEF Concluded
  <2>8. CASE AnswerArrives
    <3>1. /\ a.pc = "post" /\ reply.st = "queued" /\ a'.pc = "settle" /\ a'.sub = reply.sub
          /\ a'.served = a.served /\ (a.task => a'.carried)
      BY <1>0, <2>8 DEF AnswerArrives, Wire, Actors
    <3>2. /\ ~a.task => Read
          /\ a.served => ReadBy(reply.sub)
          /\ fate[reply.sub] = "completed" => Read
      BY <2>5, <3>1 DEF Concluded
    <3>3. a'.served => ReadBy(a'.sub)
      BY <3>1, <3>2
    <3>4. a'.served => ReadBy(a.sub)'
      BY <2>1, <3>3 DEF ReadBy, Read
    <3> QED BY <2>1, <2>3, <3>1, <3>2, <3>4 DEF Concluded
  <2>9. CASE Stop \/ Ending
    <3>1. a'.pc \in {"none", "done"}
      BY <2>9, Blank DEF Stop, Ending
    <3> QED BY <3>1 DEF Concluded
  <2>10. CASE Restore
    BY <1>0, <2>10 DEF Restore
  <2>11. CASE Moving
    <3>1. /\ a'.sub = a.sub /\ a'.served = a.served /\ a'.carried = a.carried
          /\ \/ a'.pc = "holds"
             \/ a.pc = "settle" /\ a'.pc = "rest"
             \/ a.pc = "settle" /\ a'.pc = "picks" /\ fate[a.sub] = "completed"
             \/ a.pc = "rest" /\ a'.pc = "again"
      BY <1>0, <2>11 DEF Moving, Knows
    <3>2. ReadBy(a.sub)' <=> ReadBy(a.sub)
      BY <2>1, <2>3, <3>1 DEF ReadBy
    <3> QED BY <2>3, <2>5, <3>1, <3>2 DEF Concluded
  <2>12. CASE Telling
    <3>1. /\ a'.pc = a.pc /\ a'.task = a.task /\ a'.sub = a.sub /\ a'.served = a.served
          /\ a'.carried = a.carried /\ UNCHANGED <<posts, reply, asks>>
      BY <1>0, <2>12, TellingIs DEF Knows
    <3>2. ReadBy(a.sub)' <=> ReadBy(a.sub)
      BY <2>1, <2>3, <3>1 DEF ReadBy
    <3>3. ReadBy(reply.sub)' <=> ReadBy(reply.sub)
      BY <2>1, <2>3, <3>1 DEF ReadBy
    <3> QED BY <2>1, <2>3, <2>5, <3>1, <3>2, <3>3 DEF Concluded
  <2>13. CASE Failing
    <3>1. UNCHANGED <<a, posts, reply, asks>>
      BY <2>13 DEF Failing
    <3> QED BY <2>1, <2>3, <2>5, <3>1 DEF Concluded, ReadBy
  <2> QED BY <1>2, <2>7, <2>8, <2>9, <2>10, <2>11, <2>12, <2>13 DEF ActorStep
<1> QED BY <1>1, <1>2

\* The Harness takes the live admission.
LEMMA ContextTakes ==
  ASSUME Base, Single, Context, Untroubled, NEW p \in posts, HarnessTakes(p), Live(p)
  PROVE  Context'
<1>0. /\ Types /\ Wire /\ Room /\ Serving /\ fate \in [Subs -> Fates] /\ told \in Nat
      /\ crashes = 0 /\ Worked /\ Concluded
  BY DEF Base, Types, Untroubled, Context
<1>1. /\ a.pc = "post" /\ p.no = asks /\ reply.st = "none" /\ p.turn = turn /\ p.task = a.task
      /\ a' = a /\ turn' = turn /\ prompted' = prompted /\ posts' \subseteq posts
  BY <1>0, TakesIs DEF Live, Wire, Types, Replies
<1>2. At(turn) = {}
  BY <1>0, <1>1 DEF Single
<1>3. (p.task \/ (p.kept /\ Read)) /\ ~a.served
  BY <1>0, <1>1 DEF Concluded
<1>4. CASE UNCHANGED <<kept, fate, of, minted, told>> /\ reply'.st = "notkept"
  <2>1. Worked'
    BY <1>0, <1>1, <1>4 DEF Worked, Runs
  <2>2. Concluded'
    BY <1>1, <1>3, <1>4 DEF Concluded
  <2> QED BY <2>1, <2>2 DEF Context
<1>5. CASE /\ ~(p.kept /\ ~kept) /\ minted + 1 \in Subs
           /\ fate' = [fate EXCEPT ![minted + 1] = "queued"]
           /\ of'[minted + 1].turn = p.turn /\ of'[minted + 1].task = p.task
           /\ \A s \in Subs \ {minted + 1} : of'[s] = of[s]
           /\ told' = IF kept THEN told ELSE 0
           /\ reply'.st = "queued" /\ reply'.sub = minted + 1
  <2>1. p.task \/ told' > 0
    BY <1>0, <1>3, <1>5 DEF Read
  <2>2. \A s \in Subs \ {minted + 1} : Runs(s)' => of'[s].turn # turn
    BY <1>0, <1>2, <1>5 DEF At, Unsettled, Runs
  <2>3. fate'[minted + 1] = "queued"
    BY <1>0, <1>5
  <2>4. \A s \in Subs : Runs(s)' /\ of'[s].turn = turn => of'[s].task \/ told' > 0
    BY <1>5, <2>1, <2>2
  <2>5. \A s \in Subs : fate'[s] = "running" => of'[s].turn # turn
    BY <2>2, <2>3 DEF Runs
  <2>6. Worked'
    BY <1>1, <2>4, <2>5 DEF Worked
  <2>7. Concluded'
    <3>1. ~a'.task => Read'
      BY <1>1, <2>1 DEF Read
    <3> QED BY <1>1, <1>3, <1>5, <2>3, <3>1 DEF Concluded
  <2> QED BY <2>6, <2>7 DEF Context
<1> QED BY <1>0, <1>4, <1>5, TakesIs

\* The Harness at work.
LEMMA ContextGoes ==
  ASSUME Base, Marks, Single, Context, HarnessGoes, Untroubled, Untroubled'
  PROVE  Context'
<1>0. /\ Types /\ Wire /\ Serving /\ fate \in [Subs -> Fates] /\ told \in Nat /\ a \in Actors
      /\ prompted \in BOOLEAN /\ crashes = 0 /\ ~odd' /\ Worked /\ Concluded
  BY DEF Base, Types, Untroubled, Context
<1>1. /\ UNCHANGED <<turn, of, posts, reply, asks>> /\ a'.pc = a.pc /\ a'.task = a.task
      /\ a'.sub = a.sub /\ a'.carried = a.carried
  BY <1>0, GoesIs DEF Knows
<1>2. \A s \in Subs : Runs(s)' => Runs(s)
  BY RunsStay
<1>3. ASSUME NEW s \in Subs, HarnessReads(s) PROVE Context'
  <2>1. UNCHANGED <<kept, told, prompted>> /\ fate[s] = "queued" /\ \A t \in Subs : fate[t] # "running"
    BY <1>3 DEF HarnessReads, actor
  <2>2. ~prompted
    BY <1>0, <2>1 DEF Serving
  <2>3. Worked'
    BY <1>0, <1>1, <1>2, <2>1, <2>2 DEF Worked
  <2>4. CASE ~Asked
    <3>1. a'.pc \in {"none", "down", "queue", "holds"}
      BY <1>1, <2>4 DEF Asked, Alive
    <3> QED BY <2>3, <3>1 DEF Context, Concluded
  <2>5. CASE Asked
    <3>1. fate' = [fate EXCEPT ![s] = "running"] /\ fate'[s] = "running" /\ ~prompted'
      BY <1>0, <1>3, <2>1, <2>2, <2>5, SMTT(30) DEF HarnessReads, Asked
    <3>2. s \in At(turn)
      BY <1>0, <1>3, <2>1, <2>5 DEF HarnessReads, At, Unsettled
    <3>3. a.pc = "settle" => s = a.sub
      BY <1>0, <3>2 DEF Single
    <3>4. a.pc = "post" => reply.st = "queued" /\ s = reply.sub
      BY <1>0, <3>2 DEF Single
    <3>5. a.pc \in {"settle", "post", "done"}
      BY <1>0, <2>5, <3>2 DEF Single, Asked, Alive, Actors, Pcs
    <3>6. a.pc = "settle" => fate'[a'.sub] = "running"
      BY <1>1, <3>1, <3>3
    <3>7. a.pc = "post" => fate'[reply'.sub] = "running" /\ reply'.st = "queued"
      BY <1>1, <3>1, <3>4
    <3>8. a.pc = "post" /\ ~a'.task => Read'
      BY <1>0, <1>1, <2>1, <3>4 DEF Concluded, Read
    <3>9. a.pc = "settle" => a'.served
      BY <1>0, <1>3, <2>5 DEF HarnessReads, Asked, Actors
    <3>10. Concluded'
      BY <1>1, <3>1, <3>5, <3>6, <3>7, <3>8, <3>9 DEF Concluded, ReadBy
    <3> QED BY <2>3, <3>10 DEF Context
  <2> QED BY <2>4, <2>5
<1>4. ASSUME a' = a, Worked', Read => Read',
             ASSUME NEW s \in Subs, Own(s)
             PROVE  /\ ReadBy(s) => Read' \/ (fate'[s] = "running" /\ ~prompted')
                    /\ fate'[s] = "completed" => fate[s] = "completed" \/ Read'
      PROVE  Context'
  <2>1. a.pc \in {"settle", "rest", "again"} => a.sub \in Subs /\ Own(a.sub)
    BY <1>0 DEF Base, Named, Marks, Own, Alive
  <2>2. reply.st = "queued" => reply.sub \in Subs /\ Own(reply.sub)
    BY <1>0 DEF Wire, Own, Alive
  <2>3. /\ a.pc \in {"settle", "rest", "again"} /\ ReadBy(a.sub) => ReadBy(a.sub)'
        /\ a.pc = "settle" /\ fate'[a.sub] = "completed" => fate[a.sub] = "completed" \/ Read'
    BY <1>4, <2>1 DEF ReadBy
  <2>4. a.pc = "post" /\ reply.st = "queued" =>
          /\ ReadBy(reply.sub) => ReadBy(reply.sub)'
          /\ fate'[reply.sub] = "completed" => fate[reply.sub] = "completed" \/ Read'
    BY <1>1, <1>4, <2>2 DEF ReadBy
  <2>5. Concluded'
    BY <1>0, <1>1, <1>4, <2>3, <2>4 DEF Concluded
  <2> QED BY <1>4, <2>5 DEF Context
<1>5. ASSUME NEW s \in Subs, HarnessPrompts(s) PROVE Context'
  <2>1. /\ fate[s] = "running" /\ UNCHANGED <<a, kept, fate>>
        /\ told' = IF of[s].task /\ of[s].turn = turn THEN told + 1 ELSE told
    BY <1>5 DEF HarnessPrompts, actor
  <2>2. told' \in Nat /\ told' >= told
    BY <1>0, <2>1, SMTT(30)
  <2>3. of[s].turn = turn => told' > 0
    BY <1>0, <2>1, <2>2, SMTT(30) DEF Worked, Runs
  <2>4. \A t \in Subs : fate[t] = "running" => t = s
    BY <1>0, <2>1 DEF Serving
  <2>5. Worked'
    BY <1>0, <1>1, <2>1, <2>2, <2>3, <2>4 DEF Worked, Runs
  <2>6. Read => Read'
    BY <1>0, <2>1, <2>2, SMTT(30) DEF Read
  <2>7. Own(s) => Read'
    BY <2>3 DEF Own, Read
  <2>8. \A t \in Subs : Own(t) /\ ReadBy(t) => Read'
    BY <2>4, <2>6, <2>7 DEF ReadBy
  <2> QED BY <1>4, <2>1, <2>5, <2>6, <2>8
<1>6. ASSUME NEW s \in Subs, HarnessEnds(s) PROVE Context'
  <2>1. fate[s] = "running" /\ UNCHANGED <<a, kept, told>> /\ prompted' = FALSE
        /\ odd' = (odd \/ ~prompted)
    BY <1>6 DEF HarnessEnds, actor
  <2>2. prompted
    BY <1>0, <2>1
  <2>3. \A t \in Subs \ {s} : fate'[t] = fate[t]
    BY <1>0, <1>6 DEF HarnessEnds
  <2>4. Worked'
    BY <1>0, <1>1, <1>2, <2>1 DEF Worked
  <2>5. Read' <=> Read
    BY <2>1 DEF Read
  <2>6. Own(s) => Read
    BY <1>0, <2>1, <2>2 DEF Own, Read, Worked
  <2>7. \A t \in Subs : ReadBy(t) => Read
    BY <2>2 DEF ReadBy
  <2> QED BY <1>4, <2>1, <2>3, <2>4, <2>5, <2>6, <2>7
<1>7. ASSUME NEW x \in aborts, HarnessSweeps(x) PROVE Context'
  <2>1. /\ UNCHANGED <<a, kept, told>>
        /\ odd' = (odd \/ (up /\ ~prompted /\ \E s \in Subs : Own(s) /\ fate[s] = "running"))
        /\ \A s \in Subs : fate'[s] = fate[s] \/ fate'[s] = "aborted"
    BY <1>7 DEF HarnessSweeps
  <2>2. \A s \in Subs : ~Runs(s)'
    BY <1>7, RunsStay
  <2>3. Worked'
    BY <2>2 DEF Worked, Runs
  <2>4. Read' <=> Read
    BY <2>1 DEF Read
  <2>5. \A s \in Subs : Own(s) /\ fate[s] = "running" => prompted
    BY <1>0, <2>1 DEF Serving, Runs
  <2>6. \A s \in Subs : Own(s) =>
          /\ ReadBy(s) => Read'
          /\ fate'[s] = "completed" => fate[s] = "completed"
    BY <2>1, <2>4, <2>5 DEF ReadBy
  <2> QED BY <1>4, <2>1, <2>3, <2>4, <2>6
<1>8. CASE HarnessDies
  <2>1. /\ UNCHANGED <<a, kept, told>>
        /\ odd' = (odd \/ (~prompted /\ \E s \in Subs : fate[s] = "running"))
    BY <1>8 DEF HarnessDies, actor
  <2>2. prompted \/ \A s \in Subs : fate[s] # "running"
    BY <1>0, <2>1
  <2>3. \A s \in Subs : fate'[s] = IF Unsettled(s) THEN "cut" ELSE fate[s]
    BY <1>8 DEF HarnessDies
  <2>4. Worked'
    BY <2>3 DEF Worked, Runs, Unsettled
  <2>5. Read' <=> Read
    BY <2>1 DEF Read
  <2>6. \A s \in Subs : /\ ReadBy(s) => Read'
                        /\ fate'[s] = "completed" => fate[s] = "completed"
    BY <2>2, <2>3, <2>5 DEF ReadBy
  <2> QED BY <1>4, <2>1, <2>4, <2>5, <2>6
<1>9. CASE HarnessBoots
  <2>1. a' = a /\ ~up
    BY <1>9 DEF HarnessBoots, actor
  <2>2. \A s \in Subs : ~Runs(s) /\ ~Runs(s)'
    BY <1>0, <1>2, <2>1 DEF Serving
  <2>3. Worked'
    BY <2>2 DEF Worked, Runs
  <2>4. \/ /\ UNCHANGED <<kept, told>>
           /\ fate' = [s \in Subs |-> IF fate[s] = "cut" THEN "restarted" ELSE fate[s]]
        \/ kept' = FALSE
    BY <1>9 DEF HarnessBoots
  <2>5. Read => Read'
    BY <2>4 DEF Read
  <2>6. \A s \in Subs : /\ ReadBy(s) => Read'
                        /\ fate'[s] = "completed" => fate[s] = "completed" \/ Read'
    <3>1. \A s \in Subs : ReadBy(s) => Read'
      BY <2>2, <2>5 DEF ReadBy, Runs
    <3>2. kept' = FALSE => Read'
      BY DEF Read
    <3> QED BY <2>4, <3>1, <3>2
  <2> QED BY <1>4, <2>1, <2>3, <2>5, <2>6
<1> QED BY <1>3, <1>5, <1>6, <1>7, <1>8, <1>9 DEF HarnessGoes

LEMMA ContextStep ==
  ASSUME Base, Marks, Single, Context, [Next]_vars
  PROVE  Context'
<1>0. Types /\ Wire
  BY DEF Base
<1>1. CASE ~Untroubled'
  BY <1>1 DEF Context, Worked, Concluded
<1>2. CASE Untroubled'
  <2>1. Untroubled /\ ~HostStops /\ \A p \in posts : HarnessTakes(p) => Live(p)
    BY <1>2, UntroubledBefore
  <2>2. CASE UNCHANGED vars
    BY <2>2 DEF vars, wire, harness, Context, Worked, Concluded, Untroubled, Runs, Read, ReadBy
  <2>3. CASE ActorStep
    BY <2>1, <2>3, ContextActor
  <2>4. ASSUME NEW p \in posts, HarnessTakes(p) PROVE Context'
    BY <2>1, <2>4, ContextTakes
  <2>5. CASE HarnessGoes
    BY <1>2, <2>1, <2>5, ContextGoes
  <2> QED BY <1>0, <2>2, <2>3, <2>4, <2>5, Steps, HarnessIs
<1> QED BY <1>1, <1>2

\* While no restore drops what the actor knows, the model that works for a Turn
\* has read its task in the conversation it works in, though aborts fail or come
\* late: with a watch that has told the restarts by the time the new Harness
\* admits, the marks by which admitTurn, the nudge and readmitAfterCut leave the
\* task out are not wrong, for every number of Turns, Submissions and restarts,
\* unless the surface was read by a stranger (see SurfaceIsOwn), or a run read it
\* and ended before it prompted.
THEOREM TaskInContextHolds ==
  ASSUME "watchCurrent" \in Calm
  PROVE  Spec => []TaskInContext
<1>1. Base /\ Context => TaskInContext
  BY SMTT(30) DEF Base, Types, Context, Worked, Untroubled, TaskInContext, Own
<1>2. Init => Context
  <2> SUFFICES ASSUME Init PROVE Context
    OBVIOUS
  <2>1. a.pc = "none"
    BY DEF Init, NoActor
  <2>2. \A s \in Subs : fate[s] = "none"
    BY DEF Init
  <2> QED BY <2>1, <2>2 DEF Context, Worked, Concluded, Runs
<1>3. Base /\ Marks /\ Base' /\ [Next]_vars => Marks'
  BY MarksStep
<1>4. Base /\ Marks /\ Single /\ [Next]_vars => Single'
  BY SingleStep
<1>5. Base /\ Marks /\ Single /\ Context /\ [Next]_vars => Context'
  BY ContextStep
<1> QED
  BY <1>1, <1>2, <1>3, <1>4, <1>5, MarksInit, SingleInit, BaseAlways, PTL DEF Spec
=============================================================================

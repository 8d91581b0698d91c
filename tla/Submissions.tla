----------------------------- MODULE Submissions -----------------------------
(***************************************************************************)
(* What a Harness promises about the Submissions of one conversation,      *)
(* whatever happens to its process: each is taken in the order of          *)
(* admission, one at a time; it settles once; one that the process cannot  *)
(* finish settles all the same, and says so; and the conversation is freed *)
(* only when everything it admitted is settled.                            *)
(***************************************************************************)
EXTENDS Naturals

CONSTANT MaxSubs

VARIABLE fate   \* each Submission's state as the stream tells it

Subs == 1..MaxSubs
Ends == {"completed", "ended", "aborted", "failed", "restarted"}

\* What may follow a fate.  A Submission is "cut" when it will not run on and
\* its Settlement is not on the stream yet; "gone" with a freed conversation.
After(f) ==
  CASE f = "none"    -> {"queued", "running"}
    [] f = "queued"  -> {"running", "cut", "aborted"}
    [] f = "running" -> {"cut", "completed", "failed", "ended", "aborted"}
    [] f = "cut"     -> {"ended", "aborted", "restarted"}
    [] f = "gone"    -> {}
    [] f \in Ends    -> {"gone"}

Running(f) == {s \in Subs : f[s] = "running"}
Open(f) == {s \in Subs : f[s] \in {"queued", "running", "cut"}}

Init == fate = [s \in Subs |-> "none"]

\* A step from the fates f to the fates g.
Step(f, g) ==
  /\ \A s \in Subs : g[s] = f[s] \/ g[s] \in After(f[s])
  \* One at a time.
  /\ \A s, t \in Running(g) : s = t
  \* First in, first out.
  /\ \A s \in Running(g) \ Running(f) :
       \A t \in 1..(s - 1) : g[t] \notin {"none", "queued"}
  \* Freed whole, and never while something is open.
  /\ (\E s \in Subs : g[s] = "gone" /\ f[s] # "gone") =>
       Open(f) = {} /\ \A s \in Subs : g[s] \in {"none", "gone"}

Next == Step(fate, fate')

\* A cut Submission settles.
CutSettles == \A s \in Subs : fate[s] = "cut" ~> fate[s] \in Ends \cup {"gone"}

\* The promise without its liveness.
SafeSpec == Init /\ [][Next]_fate

Spec == SafeSpec /\ CutSettles

=============================================================================

----------------------------- MODULE MCRunHost -----------------------------
(***************************************************************************)
(* The run host on small instances.                                        *)
(***************************************************************************)
EXTENDS RunHost, TLC

\* Two faults of any kind in a behaviour.
TwoFaults == crashes + saveFaults + restoreFaults <= 2

\* Two starts in flight, or someone who waits on a run: not both at once.
StartsOrWaits ==
  \/ \E c \in Callers : call[c].st = "idle"
  \/ \A w \in Waiters : wait[w].st = "idle"

\* Keys are alike, so that the first run that has one has this one.
FirstKey == key[1] \in {NoKey, CHOOSE k \in Keys : TRUE}

=============================================================================

-------------------------- MODULE MCPublishWorkflow ---------------------------
(***************************************************************************)
(* An instance of PublishWorkflow for TLC: two sources of one version on   *)
(* main, as after a release that was started afresh, and a release of a    *)
(* support line.  What follows bounds the two cases separately.            *)
(***************************************************************************)
EXTENDS PublishWorkflow

First  == [line |-> "main", at |-> 1, version |-> 1]
Rival  == [line |-> "main", at |-> 2, version |-> 1]
Patch  == [line |-> "support", at |-> 1, version |-> 2]

MCSources == {First, Rival, Patch}

\* As long as the support line has no commit, rivals with all their faults and
\* re-runs; as long as main has no rival, both lines with one fault.
OneLine  == tip["support"] = 0
TwoLines ==
  /\ tip["main"] <= 1 /\ tip["support"] <= 2 /\ faults <= 1
  /\ \A r \in {run, pending, last} \ {None} : r.attempt = 1
Bounded == OneLine \/ TwoLines

\* The bounds hold back merges, re-runs and faults, never a step of a run.
MCSpec == Init /\ [][Next /\ Bounded']_vars /\ Fairness
=============================================================================

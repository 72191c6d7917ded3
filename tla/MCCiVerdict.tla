----------------------------- MODULE MCCiVerdict ------------------------------
(***************************************************************************)
(* Candidate CI for TLC: the binding of a candidate before it runs, and    *)
(* the verdict on what ran.  A behaviour is one of CandidateBinder, with   *)
(* 120, 30 and 60 seconds in units of ten, or one of RequiredCiReporter,   *)
(* with changes of the pull request or with two reporters at once.         *)
(* `subject' says which, from the start; the other part has no state.      *)
(***************************************************************************)
EXTENDS CandidateBinder, TLC

CONSTANTS h1, h2, plain, changed
MCTold == {None, 2, 9}

CONSTANTS CiHeads, On, OwnWorkflow, MaxTip, MaxRunAttempts, MaxReporters

\* What RequiredCiReporter is given.
ASSUME VerdictAssumption ==
  /\ MaxTip \in Nat \ {0} /\ MaxReporters \in Nat \ {0}
  /\ On \in [CiHeads -> 1..MaxTip] /\ None \notin CiHeads

VARIABLES subject, branches, request, staged, writer, changes, runs, reporter, checks

\* A head that keeps the workflow of main and one, on the second commit of
\* main, that does not.
HeadOn == (plain :> 1) @@ (changed :> 2)

Verdict == INSTANCE RequiredCiReporter WITH
  Heads <- CiHeads, MaxAttempts <- MaxRunAttempts,
  tip <- branches, pull <- request, copied <- staged, moves <- changes

verdictVars ==
  <<branches, request, staged, writer, changes, runs, reporter, checks>>

NoBinding ==
  /\ tip = [main |-> 1, support |-> 1] /\ moves = 0 /\ clock = 0 /\ quiet = 0
  /\ pull = [open |-> FALSE, head |-> Candidate, base |-> "main", sha |-> 1]
  /\ copied = Candidate
  /\ bind = [step |-> "failed", attempt |-> 1, base |-> "main", sha |-> 0,
             policy |-> 1, together |-> FALSE, pullRead |-> 0, delay |-> 0]

NoVerdict ==
  /\ branches = None /\ request = None /\ staged = None /\ writer = None
  /\ changes = None /\ runs = None /\ reporter = None /\ checks = None

\* Either the pull request changes and one reporter is at work at a time, or
\* several are and it does not.
Bounded ==
  /\ subject = "changing" => \A r \in 2..MaxReporters : reporter[r] = Verdict!Idle
  /\ subject = "together" => changes = 0

MCInit ==
  \/ subject = "binding" /\ Init /\ NoVerdict
  \/ subject \in {"changing", "together"} /\ NoBinding /\ Verdict!Init

MCNext ==
  /\ UNCHANGED subject
  /\ \/ subject = "binding" /\ Next /\ UNCHANGED verdictVars
     \/ subject # "binding" /\ Verdict!Next /\ Bounded' /\ UNCHANGED vars

MCSpec == MCInit /\ [][MCNext]_<<subject, vars, verdictVars>>

\* A successful check rests on a successful attempt that protected jobs bound
\* to its policy and base, or on a staged head of this commit of main, and both
\* were the tips of their branches when the last reading began
\* (bind_candidate, run of report_required_ci.py).
ChecksAreEarned ==
  subject # "binding" =>
    Verdict!TypeOK /\ Verdict!GreenIsEarned /\ Verdict!CurrentAtRebind

\* The newest check of a run is never of an older attempt and no attempt has
\* two, though reporters work at once and lose the answers to what they create
\* (the concurrency group of required-ci.yml, report_check).
VerdictsInOrder == subject # "binding" => Verdict!VerdictsInOrder
=============================================================================

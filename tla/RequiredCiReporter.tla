--------------------------- MODULE RequiredCiReporter ---------------------------
(***************************************************************************)
(* The verdict of CI on a pull request: candidate runs (ci.yml,            *)
(* ci-candidate.yml, ci-trusted.yml) bind the policy and the base they run *)
(* against into the name of a job, and after each completed attempt        *)
(* required-ci.yml starts the reporter (report_required_ci.py), which      *)
(* reads everything again, twice, and creates a check of the head.         *)
(* Meanwhile branches advance, the pull request is pushed, retargeted and  *)
(* closed, runs are run again and a writer loses the permission.           *)
(*                                                                         *)
(* One pull request.  The first reading of the inspect operation, whose    *)
(* outputs nothing uses, is left out: report repeats it.                   *)
(***************************************************************************)
EXTENDS Naturals, Sequences, FiniteSets, SequencesExt

CONSTANTS
  Heads,       \* commits that may be the head of the pull request
  On,          \* the commit of main, in 1..MaxTip, each linearly succeeds
  OwnWorkflow, \* those that change a file of the CI workflow
  MaxTip,      \* bound: commits of main
  MaxAttempts, \* bound: attempts of all runs of CI
  MaxReporters,\* bound: reporters at work at once
  MaxMoves,    \* bound: changes of the pull request and of permissions
  None

VARIABLES
  tip,      \* the branches; main is the policy as well
  pull,     \* the pull request, sha being what its base was at the last update
  copied,   \* refs/heads/pull-request/N
  writer,   \* whether who pushed the staging refs may write
  moves,    \* counts towards MaxMoves
  runs,     \* the runs of CI, each with the results of its attempts
  reporter, \* the reporters at work
  checks    \* the App's checks, in the order of their creation

vars == <<tip, pull, copied, writer, moves, runs, reporter, checks>>
repository == <<tip, pull, copied, writer, moves>>

Bases == {"main", "support"}
\* A job ends with success, or in one of the seven other ways.
Conclusions == {"success", "other"}
Reporters == 1..MaxReporters
Idle == [step |-> "idle", run |-> 0]
ReadSteps == {"run", "main", "pull", "base", "actor", "commits", "ref", "jobs"}

\* The attempts of all runs.
Attempts == FoldLeft(LAMBDA n, run : n + run.attempt, 0, runs)

Names   == [policy : Nat, base : Bases, sha : Nat]
Results == [conclusion : Conclusions, held : BOOLEAN, policy : Nat, name : Names]
CiRuns  == [ref : {"copied", "staging"}, head : Heads, attempt : Nat \ {0},
            step : {"queued", "read", "bound", "rebound", "completed"},
            name : Names, held : BOOLEAN, lanes : BOOLEAN, results : Seq(Results)]
AtWork  == [step : ReadSteps \cup {"list", "post"}, run : Nat \ {0}, attempt : Nat \ {0},
            again : BOOLEAN, base : Bases, sha : Nat, policy : Nat,
            conclusion : Conclusions \cup {None}, tips : [Bases -> Nat]]
Checks  == [run : Nat \ {0}, attempt : Nat \ {0}, base : Bases, sha : Nat, policy : Nat,
            tips : [Bases -> Nat], conclusion : {"success", "failure"}]

TypeOK ==
  /\ tip \in [Bases -> Nat] /\ tip.main <= MaxTip
  /\ pull \in [open : BOOLEAN, head : Heads, base : Bases, sha : Nat]
  /\ copied \in Heads \cup {None} /\ writer \in BOOLEAN /\ moves \in 0..MaxMoves
  /\ runs \in Seq(CiRuns)
  /\ \A i \in DOMAIN runs :
       runs[i].attempt = Len(runs[i].results) + (IF runs[i].step = "completed" THEN 0 ELSE 1)
  /\ reporter \in [Reporters -> {Idle} \cup AtWork]
  /\ checks \in Seq(Checks)

Init ==
  /\ tip = [main |-> 1, support |-> 1]
  /\ \E h \in Heads, b \in Bases : pull = [open |-> TRUE, head |-> h, base |-> b, sha |-> 1]
  /\ copied = None /\ writer = TRUE /\ moves = 0 /\ runs = <<>> /\ checks = <<>>
  /\ reporter = [r \in Reporters |-> Idle]

-----------------------------------------------------------------------------
(***************************************************************************)
(* The repository and the pull request.                                    *)
(***************************************************************************)
Others == UNCHANGED <<runs, reporter, checks>>
Move == moves < MaxMoves /\ moves' = moves + 1

AdvanceMain ==
  /\ tip.main < MaxTip /\ tip' = [tip EXCEPT !.main = @ + 1]
  /\ UNCHANGED <<pull, copied, writer, moves>> /\ Others
AdvanceSupport ==
  /\ tip.support = 1 /\ tip' = [tip EXCEPT !.support = 11]
  /\ UNCHANGED <<pull, copied, writer, moves>> /\ Others

\* A push of a head, perhaps of an earlier one, or a change of the base; GitHub
\* takes the base as it is then.
Update(h, b) ==
  /\ Move
  /\ pull' = [pull EXCEPT !.head = h, !.base = b, !.sha = tip[b]] /\ pull' # pull
  /\ UNCHANGED <<tip, copied, writer>> /\ Others
Close ==
  /\ Move
  /\ pull' = [pull EXCEPT !.open = ~@]
  /\ UNCHANGED <<tip, copied, writer>> /\ Others
Revoke ==
  /\ Move /\ writer /\ writer' = FALSE
  /\ UNCHANGED <<tip, pull, copied>> /\ Others

-----------------------------------------------------------------------------
(***************************************************************************)
(* Runs of CI.                                                             *)
(***************************************************************************)
NoName == [policy |-> 0, base |-> "main", sha |-> 0]
NewRun(ref) == [ref |-> ref, head |-> pull.head, attempt |-> 1, step |-> "queued",
                name |-> NoName, held |-> FALSE, lanes |-> FALSE, results |-> <<>>]

\* The end of an attempt: the event is delivered, with the policy of then.  The
\* run keeps the name of a binding that held.
Ended(run, conclusion) ==
  [run EXCEPT !.step = "completed",
     !.name = IF run.held THEN @ ELSE NoName,
     !.results = Append(@, [conclusion |-> conclusion, held |-> run.held, policy |-> tip.main,
                            name |-> IF run.step = "read" THEN NoName ELSE run.name])]

\* A push to the copied ref cancels the run of that ref.
Copy ==
  /\ Attempts < MaxAttempts /\ copied # pull.head
  /\ copied' = pull.head
  /\ runs' = Append([i \in DOMAIN runs |->
                       IF runs[i].ref = "copied" /\ runs[i].step # "completed"
                       THEN Ended(runs[i], "other") ELSE runs[i]],
                    NewRun("copied"))
  /\ UNCHANGED <<tip, pull, writer, moves, reporter, checks>>

\* A writer pushes ci-testing/pr-N-HEAD.
Stage ==
  /\ Attempts < MaxAttempts /\ writer
  /\ \A i \in DOMAIN runs : runs[i].ref = "staging" => runs[i].head # pull.head
  /\ runs' = Append(runs, NewRun("staging"))
  /\ UNCHANGED <<repository, reporter, checks>>

SetRun(i, run) ==
  /\ runs' = [runs EXCEPT ![i] = run]
  /\ UNCHANGED <<repository, reporter, checks>>

\* The workflow is the protected one, so that the jobs are those of ci-candidate.yml.
Bound(i) == runs[i].ref = "copied" /\ runs[i].head \notin OwnWorkflow

\* candidate_binding: the pull request, then the refs (CandidateBinder has the
\* calls one by one).  A binding that fails leaves the name empty.
BindPull(i) ==
  /\ Bound(i) /\ runs[i].step = "queued"
  /\ pull.open /\ pull.head = runs[i].head
  /\ SetRun(i, [runs[i] EXCEPT !.step = "read",
                  !.name = [policy |-> tip.main, base |-> pull.base, sha |-> pull.sha]])
BindRefs(i) ==
  /\ runs[i].step = "read"
  /\ LET name == runs[i].name IN
     SetRun(i, IF copied = runs[i].head /\ tip.main = name.policy /\ tip[name.base] = name.sha
               THEN [runs[i] EXCEPT !.step = "bound", !.held = TRUE]
               ELSE Ended(runs[i], "other"))

\* Each lane binds again and compares.
Rebind(i) ==
  /\ runs[i].step = "bound"
  /\ pull.open /\ pull.head = runs[i].head /\ copied = runs[i].head
  /\ pull.sha = tip[pull.base]
  /\ runs[i].name = [policy |-> tip.main, base |-> pull.base, sha |-> pull.sha]
  /\ SetRun(i, [runs[i] EXCEPT !.step = "rebound", !.lanes = TRUE])

Complete(i, conclusion) ==
  /\ runs[i].step # "completed"
  /\ Bound(i) /\ runs[i].step # "bound" => runs[i].step \in {"queued", "rebound"}
  /\ conclusion = "success" => ~Bound(i) \/ runs[i].step = "rebound"
  /\ IF runs[i].ref = "copied" /\ ~Bound(i)
     THEN \E name \in {NoName, [policy |-> tip.main, base |-> pull.base, sha |-> pull.sha]} :
            SetRun(i, Ended([runs[i] EXCEPT !.name = name], conclusion))
     ELSE SetRun(i, Ended(runs[i], conclusion))

\* All jobs are run again.
Rerun(i) ==
  /\ runs[i].step = "completed" /\ Attempts < MaxAttempts
  /\ SetRun(i, [runs[i] EXCEPT !.step = "queued", !.attempt = @ + 1, !.name = NoName,
                  !.held = FALSE, !.lanes = FALSE])

\* Those that failed, or one, and what needs them: the outputs of the binding
\* stay, and with them the name.  Lanes that had bound again may have passed and
\* are then left.  When candidate_linux is not among the jobs its name is of
\* another attempt, as if there were none.
RerunJobs(i) ==
  /\ runs[i].step = "completed" /\ Attempts < MaxAttempts
  /\ Bound(i) /\ runs[i].held
  /\ \E step \in {"bound"} \cup (IF runs[i].lanes THEN {"rebound"} ELSE {}) :
       SetRun(i, [runs[i] EXCEPT !.step = step, !.attempt = @ + 1,
                    !.lanes = step = "rebound"])

-----------------------------------------------------------------------------
(***************************************************************************)
(* The reporters.                                                          *)
(***************************************************************************)
At(r, step) == reporter[r].step = step
Require(r, condition, step) ==
  /\ reporter' = [reporter EXCEPT ![r] = IF condition THEN [@ EXCEPT !.step = step] ELSE Idle]
  /\ UNCHANGED <<repository, runs, checks>>

\* The concurrency group of required-ci.yml: one reporter for a run.
Serial(i) == \A r \in Reporters : reporter[r].run # i

\* The event of an attempt, or its reporter run again with the same event.
Deliver(i, attempt) ==
  /\ Serial(i)
  /\ \E free \in Reporters :
       /\ reporter[free] = Idle /\ \A q \in 1..(free - 1) : reporter[q] # Idle
       /\ reporter' = [reporter EXCEPT ![free] =
            [step |-> "run", run |-> i, attempt |-> attempt, again |-> FALSE,
             base |-> "main", sha |-> 0, policy |-> runs[i].results[attempt].policy,
             conclusion |-> None, tips |-> [b \in Bases |-> 0]]]
  /\ UNCHANGED <<repository, runs, checks>>

Run(r) == runs[reporter[r].run]
Staged(r) == Run(r).ref = "staging"

\* bind_candidate, read by read: the delivered attempt is the run's, and complete.
ReadRun(r) ==
  /\ At(r, "run")
  /\ Require(r, Run(r).attempt = reporter[r].attempt /\ Run(r).step = "completed", "main")

\* Mutant of SameWorkflow: the files are not compared.
AnyWorkflow(r) == TRUE

\* _workflow_blob of each file, at the policy and at the head.
SameWorkflow(r) == Staged(r) \/ Run(r).head \notin OwnWorkflow

ReadMain(r) ==
  /\ At(r, "main")
  /\ Require(r, tip.main = reporter[r].policy /\ SameWorkflow(r), "pull")

ReadPull(r) ==
  /\ At(r, "pull")
  /\ IF /\ pull.open /\ pull.head = Run(r).head
        /\ Staged(r) => pull.base = "main"
        /\ pull.base = "main" => pull.sha = reporter[r].policy
     THEN reporter' = [reporter EXCEPT ![r].base = pull.base, ![r].sha = pull.sha,
                         ![r].step = IF pull.base # "main" THEN "base"
                                     ELSE IF Staged(r) THEN "actor" ELSE "commits"]
     ELSE reporter' = [reporter EXCEPT ![r] = Idle]
  /\ UNCHANGED <<repository, runs, checks>>

\* The base ref, unless it is main, which has been read.
ReadBase(r) ==
  At(r, "base") /\ Require(r, tip[reporter[r].base] = reporter[r].sha, "commits")

\* _staging_actor.
ReadActor(r) == At(r, "actor") /\ Require(r, writer, "commits")

\* The commits end at the head and, staged, lead to it from the base.
ReadCommits(r) ==
  /\ At(r, "commits")
  /\ Require(r, /\ pull.head = Run(r).head
                /\ Staged(r) => On[Run(r).head] = reporter[r].sha, "ref")

\* The copied ref; a staging ref stays, for its name has the head.
ReadRef(r) == At(r, "ref") /\ Require(r, Staged(r) \/ copied = Run(r).head, "jobs")

Authoritative(r) ==
  LET me == reporter[r] IN
  Staged(r) \/ Run(r).results[me.attempt].name =
                 [policy |-> me.policy, base |-> me.base, sha |-> me.sha]

\* run: after the scope of the token has been verified everything is read again.
NextRound(r) == IF reporter[r].again THEN "list" ELSE "run"

ReadJobs(r) ==
  /\ At(r, "jobs")
  /\ reporter' = [reporter EXCEPT ![r] =
       IF Authoritative(r)
       THEN [@ EXCEPT !.step = NextRound(r), !.again = TRUE,
                      !.tips = IF reporter[r].again THEN reporter[r].tips ELSE tip,
                      !.conclusion = Run(r).results[reporter[r].attempt].conclusion]
       ELSE Idle]
  /\ UNCHANGED <<repository, runs, checks>>

\* Mutant of Found: a check of this attempt is not looked for.
NothingFound(r) == FALSE

\* report_check: the check with the external id, which names run, attempt and
\* base commit.
Found(r) ==
  \E k \in DOMAIN checks :
    /\ checks[k].run = reporter[r].run /\ checks[k].attempt = reporter[r].attempt
    /\ checks[k].sha = reporter[r].sha /\ checks[k].base = reporter[r].base

List(r) == At(r, "list") /\ Require(r, ~Found(r), "post")

\* Binding.check_conclusion.
CheckConclusion(conclusion) == IF conclusion = "success" THEN "success" ELSE "failure"

\* The check is created; its answer and the reading back, which may fail or be
\* lost, change nothing.
Post(r) ==
  /\ At(r, "post")
  /\ LET me == reporter[r] IN
     checks' = Append(checks, [run |-> me.run, attempt |-> me.attempt, base |-> me.base,
                               sha |-> me.sha, policy |-> me.policy, tips |-> me.tips,
                               conclusion |-> CheckConclusion(me.conclusion)])
  /\ reporter' = [reporter EXCEPT ![r] = Idle]
  /\ UNCHANGED <<repository, runs>>

\* A call fails, or the job is cancelled or out of time.
Stop(r) ==
  /\ reporter[r].step # "idle"
  /\ reporter' = [reporter EXCEPT ![r] = Idle]
  /\ UNCHANGED <<repository, runs, checks>>

Report(r) ==
  \/ ReadRun(r) \/ ReadMain(r) \/ ReadPull(r) \/ ReadBase(r) \/ ReadActor(r)
  \/ ReadCommits(r) \/ ReadRef(r) \/ ReadJobs(r) \/ List(r) \/ Post(r) \/ Stop(r)

Next ==
  \/ AdvanceMain \/ AdvanceSupport \/ Close \/ Revoke \/ Copy \/ Stage
  \/ \E h \in Heads, b \in Bases : Update(h, b)
  \/ \E i \in DOMAIN runs :
       \/ BindPull(i) \/ BindRefs(i) \/ Rebind(i) \/ Rerun(i) \/ RerunJobs(i)
       \/ \E conclusion \in Conclusions : Complete(i, conclusion)
       \/ \E attempt \in DOMAIN runs[i].results : Deliver(i, attempt)
  \/ \E r \in Reporters : Report(r)

Spec == Init /\ [][Next]_vars

-----------------------------------------------------------------------------
(***************************************************************************)
(* Properties.                                                             *)
(***************************************************************************)
Result(k) == runs[checks[k].run].results[checks[k].attempt]

\* A successful check rests on a successful attempt, which was either bound by
\* protected jobs, before anything ran, to the very policy and base of the
\* check, or was staged for a head that succeeds this commit of main
\* (attested_job_name, bind_candidate).
GreenIsEarned ==
  \A k \in DOMAIN checks : checks[k].conclusion = "success" =>
    /\ Result(k).conclusion = "success"
    /\ IF runs[checks[k].run].ref = "staging"
       THEN checks[k].base = "main" /\ On[runs[checks[k].run].head] = checks[k].sha
       ELSE /\ Result(k).held
            /\ Result(k).name = [policy |-> checks[k].policy, base |-> checks[k].base,
                                 sha |-> checks[k].sha]

\* When the last reading began, after the App's token existed, the policy and
\* the base of the check were the tips of their branches, so that neither moved
\* between the candidate's binding and that moment (run).
CurrentAtRebind ==
  \A k \in DOMAIN checks :
    checks[k].tips.main = checks[k].policy /\ checks[k].tips[checks[k].base] = checks[k].sha

\* The checks of a run follow its attempts, one for each at most, whichever
\* reporters stop, are run again or lose the answer to their creation: the
\* newest check is never of an older attempt (concurrency, report_check).
VerdictsInOrder ==
  \A j, k \in DOMAIN checks :
    j < k /\ checks[j].run = checks[k].run => checks[j].attempt < checks[k].attempt

-----------------------------------------------------------------------------
(***************************************************************************)
(* The invariant by which these are proved.                                *)
(***************************************************************************)
Working(r) == reporter[r] # Idle

\* The attempt of which a reporter or a check speaks has ended, and what it
\* ended with.
Ending(x) == runs[x.run].results[x.attempt]
HasEnded(x) == x.run \in DOMAIN runs /\ x.attempt \in DOMAIN runs[x.run].results

\* What speaks for an attempt names the base that its binding names, or that
\* its head, staged, succeeds.
Speaks(x) ==
  IF runs[x.run].ref = "staging"
  THEN x.base = "main" /\ On[runs[x.run].head] = x.sha
  ELSE /\ runs[x.run].head \notin OwnWorkflow
       /\ Ending(x).name = [policy |-> x.policy, base |-> x.base, sha |-> x.sha]

\* Reporters and checks are of attempts that have ended, and no two reporters
\* are of one run.
EndedInv ==
  /\ \A r \in Reporters : Working(r) => HasEnded(reporter[r])
  /\ \A k \in DOMAIN checks : HasEnded(checks[k])
SerialInv ==
  \A q, r \in Reporters : Working(q) /\ reporter[q].run = reporter[r].run => q = r

\* A protected attempt succeeds only after it has been bound.
BoundInv ==
  \A i \in DOMAIN runs : Bound(i) =>
    /\ runs[i].step \in {"bound", "rebound"} => runs[i].held
    /\ \A a \in DOMAIN runs[i].results :
         runs[i].results[a].conclusion = "success" => runs[i].results[a].held

AfterMain    == {"pull", "base", "actor", "commits", "ref", "jobs", "list", "post"}
AfterPull    == AfterMain \ {"pull"}
AfterBase    == {"actor", "commits", "ref", "jobs", "list", "post"}
AfterCommits == AfterBase \ {"actor", "commits"}
AfterJobs    == {"list", "post"}

\* What the reads of a reporter have shown so far.
ReadOK(r) ==
  LET me == reporter[r] IN
  /\ me.step \in AfterMain => me.policy <= tip["main"] /\ SameWorkflow(r)
  /\ me.step \in AfterPull =>
       (Staged(r) => me.base = "main") /\ (me.base = "main" => me.sha = me.policy)
  /\ me.step \in AfterBase => me.sha <= tip[me.base]
  /\ me.step \in AfterCommits /\ Staged(r) => On[Run(r).head] = me.sha
  /\ me.step \in AfterJobs =>
       me.again /\ Speaks(me) /\ me.conclusion = Ending(me).conclusion
ReadInv == \A r \in Reporters : Working(r) => ReadOK(r)

\* What the first round has shown of the moment at which the second began, and
\* what the second has confirmed.
RoundOK(r) ==
  LET me == reporter[r] IN
  me.again =>
    /\ \A b \in Bases : me.tips[b] <= tip[b]
    /\ me.policy <= me.tips["main"]
    /\ ~Staged(r) => Ending(me).name.sha <= me.tips[Ending(me).name.base]
    /\ me.step \in AfterMain => me.tips["main"] = me.policy
    /\ me.step \in AfterBase => me.tips[me.base] <= me.sha
    /\ me.step \in AfterJobs => me.tips[me.base] = me.sha
RoundInv == \A r \in Reporters : Working(r) => RoundOK(r)

\* What a check says, it says of an attempt that said so.
CheckInv ==
  \A k \in DOMAIN checks :
    /\ Speaks(checks[k])
    /\ checks[k].conclusion = "success" => Ending(checks[k]).conclusion = "success"

\* While a reporter is at work on a run no check of a later attempt appears,
\* and before it posts there is none of its own.
OrderOK(r) ==
  \A k \in DOMAIN checks : checks[k].run = reporter[r].run =>
    /\ reporter[r].step # "run" => checks[k].attempt <= reporter[r].attempt
    /\ reporter[r].step = "post" => checks[k].attempt # reporter[r].attempt
OrderInv == \A r \in Reporters : Working(r) => OrderOK(r)

IInv == /\ TypeOK /\ EndedInv /\ SerialInv /\ BoundInv /\ ReadInv /\ RoundInv
        /\ CheckInv /\ OrderInv /\ CurrentAtRebind /\ VerdictsInOrder
=============================================================================

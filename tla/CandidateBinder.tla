---------------------------- MODULE CandidateBinder ----------------------------
(***************************************************************************)
(* The binding of a candidate before it runs (bind-candidate-pr.py): five  *)
(* anonymous reads of GitHub, none of which sees the state of another,     *)
(* with at most three attempts in one budget of time, while branches and   *)
(* the pull request move and GitHub limits the rate, fails or stalls.      *)
(***************************************************************************)
EXTENDS Naturals

CONSTANTS
  Heads,         \* commits that may be the head of the pull request
  Candidate,     \* the one to be run
  Budget,        \* MAX_BINDING_SECONDS
  RequestLimit,  \* MAX_REQUEST_SECONDS
  SecondaryWait, \* the first wait after a secondary rate limit
  Told,          \* times in the headers of an answer, or None
  MaxMoves,      \* bound: changes in the repository
  None

ASSUME CandidateAssumption == Candidate \in Heads /\ None \notin Nat
ASSUME BudgetAssumption ==
  /\ Budget \in Nat \ {0} /\ RequestLimit \in 1..Budget /\ SecondaryWait \in Nat \ {0}
  /\ MaxMoves \in Nat /\ Told \subseteq Nat \cup {None}

MaxAttempts == 3
Kinds == {"primary", "secondary", "server", "other"}

VARIABLES
  tip,    \* main, which is the policy, and a support branch
  pull,   \* the pull request, sha being what its base was at the last update
  copied, \* refs/heads/pull-request/N
  moves,  \* counts towards MaxMoves
  clock,  \* the time since the binding began
  quiet,  \* until when GitHub has told the client to wait
  bind    \* the binding

vars == <<tip, pull, copied, moves, clock, quiet, bind>>
repository == <<tip, pull, copied, moves>>

Bases == {"main", "support"}
Reads == <<"pull", "commits", "ref", "main", "base">>
Read == {Reads[i] : i \in DOMAIN Reads}

TypeOK ==
  /\ tip \in [Bases -> Nat] /\ copied \in Heads /\ moves \in 0..MaxMoves
  /\ pull \in [open : BOOLEAN, head : Heads, base : Bases, sha : Nat]
  /\ clock \in Nat /\ quiet \in Nat
  /\ bind \in [step : Read \cup {"wait", "bound", "failed"}, attempt : 1..MaxAttempts,
               base : Bases, sha : Nat, policy : Nat, together : BOOLEAN,
               pullRead : 0..MaxAttempts, delay : Nat]

\* The run begins for the head that was copied, with main as the policy.
Init ==
  /\ tip = [main |-> 1, support |-> 1] /\ moves = 0 /\ clock = 0 /\ quiet = 0
  /\ \E b \in Bases : pull = [open |-> TRUE, head |-> Candidate, base |-> b, sha |-> 1]
  /\ copied = Candidate
  /\ bind = [step |-> "pull", attempt |-> 1, base |-> "main", sha |-> 0, policy |-> 1,
             together |-> FALSE, pullRead |-> 0, delay |-> 0]

-----------------------------------------------------------------------------
(***************************************************************************)
(* The repository and the pull request.                                    *)
(***************************************************************************)
Move == moves < MaxMoves /\ moves' = moves + 1 /\ UNCHANGED <<clock, quiet, bind>>

Advance(b) == Move /\ tip' = [tip EXCEPT ![b] = @ + 1] /\ UNCHANGED <<pull, copied>>
Update(h, b) ==
  /\ Move /\ pull' = [pull EXCEPT !.head = h, !.base = b, !.sha = tip[b]]
  /\ pull' # pull /\ UNCHANGED <<tip, copied>>
Close == Move /\ pull' = [pull EXCEPT !.open = ~@] /\ UNCHANGED <<tip, copied>>
Copy == Move /\ copied' = pull.head /\ UNCHANGED <<tip, pull>>

-----------------------------------------------------------------------------
(***************************************************************************)
(* The reads.                                                              *)
(***************************************************************************)
At(step) == bind.step = step
Least(m, n) == IF m < n THEN m ELSE n
Greatest(m, n) == IF m < n THEN n ELSE m

\* AnonymousGitHubApi.get: the time a read may take.
Timeout == Least(RequestLimit, Budget - clock)

\* Some time passes, within the timeout, until a read answers.
Pass ==
  /\ clock' \in clock..(clock + Timeout) /\ Timeout > 0
  /\ UNCHANGED <<repository, quiet>>

Then(condition, next) == bind' = [bind EXCEPT !.step = IF condition THEN next ELSE "failed"]

\* bind_candidate_pr, read by read.
ReadPull ==
  /\ At("pull") /\ Pass
  /\ bind' = IF pull.open /\ pull.head = Candidate
             THEN [bind EXCEPT !.step = "commits", !.base = pull.base, !.sha = pull.sha,
                     !.together = tip.main = bind.policy /\ tip[pull.base] = pull.sha,
                     !.pullRead = bind.attempt]
             ELSE [bind EXCEPT !.step = "failed"]
ReadCommits == At("commits") /\ Pass /\ Then(pull.head = Candidate, "ref")
ReadRef == At("ref") /\ Pass /\ Then(copied = Candidate, "main")

\* Mutant of BaseIsCurrent: what the pull request says of its base is taken.
BaseIsBelieved == TRUE

\* The ref of the base is what the pull request said.
BaseIsCurrent == tip[bind.base] = bind.sha
\* Main stands for the base as well when it is the base.
ReadMain ==
  /\ At("main") /\ Pass
  /\ IF bind.base = "main"
     THEN Then(tip.main = bind.policy /\ BaseIsCurrent /\ clock' < Budget, "bound")
     ELSE Then(tip.main = bind.policy, "base")

ReadBase == At("base") /\ Pass /\ Then(BaseIsCurrent /\ clock' < Budget, "bound")

\* A read does not answer in time; it may never, and nobody waits for it.
Expire ==
  /\ bind.step \in Read
  /\ clock' = clock + Timeout /\ bind' = [bind EXCEPT !.step = "failed"]
  /\ UNCHANGED <<repository, quiet>>

-----------------------------------------------------------------------------
(***************************************************************************)
(* Failures and retries.                                                   *)
(***************************************************************************)
\* Each wait is twice the one before.
Backoff == <<1, 2, 4>>

\* Mutant of RetryDelay: what is advertised counts for secondary limits alone.
DelayOfKind(kind, after, reset, attempt, now) ==
  IF kind = "other" \/ (kind = "primary" /\ reset = None) THEN None
  ELSE IF kind = "primary" THEN Greatest(1, reset + 1 - Least(now, reset + 1))
  ELSE IF kind = "secondary" /\ after # None THEN Greatest(1, after)
  ELSE (IF kind = "secondary" THEN SecondaryWait ELSE 1) * Backoff[attempt]

\* GitHubHttpError.retry_delay.
RetryDelay(kind, after, reset, attempt, now) ==
  IF kind = "other" \/ (kind = "primary" /\ reset = None) THEN None
  ELSE IF kind = "primary"
       THEN Greatest(Greatest(1, reset + 1 - Least(now, reset + 1)), IF after = None THEN 0 ELSE after)
  ELSE IF after # None THEN Greatest(1, after)
  ELSE (IF kind = "secondary" THEN SecondaryWait ELSE 1) * Backoff[attempt]

\* bind_with_retries.
Retried(delay, now) ==
  delay # None /\ bind.attempt < MaxAttempts /\ delay < Budget - now

\* What GitHub means by it.
Tells(kind, after, reset) ==
  LET until == IF after = None THEN 0 ELSE clock' + after
  IN quiet' = Greatest(until, IF kind = "primary" /\ reset # None THEN reset ELSE 0)

\* An HTTP error arrives, which may carry retry-after and x-ratelimit-reset.
HttpError(kind, after, reset) ==
  /\ bind.step \in Read /\ Timeout > 0
  /\ clock' \in clock..(clock + Timeout) /\ Tells(kind, after, reset)
  /\ bind' = LET delay == RetryDelay(kind, after, reset, bind.attempt, clock')
             IN IF Retried(delay, clock')
                THEN [bind EXCEPT !.step = "wait", !.delay = delay]
                ELSE [bind EXCEPT !.step = "failed"]
  /\ UNCHANGED repository

\* Any other failure of a read ends the binding.
ReadFails == bind.step \in Read /\ Pass /\ bind' = [bind EXCEPT !.step = "failed"]

\* A binding begins with the pull request, and so does every retry.
FirstRead == "pull"

\* The wait is over: the whole binding begins again.
Wake ==
  /\ At("wait") /\ clock' = clock + bind.delay
  /\ bind' = [bind EXCEPT !.step = FirstRead, !.attempt = @ + 1, !.delay = 0]
  /\ UNCHANGED <<repository, quiet>>

Answered == ReadPull \/ ReadCommits \/ ReadRef \/ ReadMain \/ ReadBase
Next ==
  \/ Answered \/ Expire \/ ReadFails \/ Wake \/ Close \/ Copy
  \/ \E kind \in Kinds, after, reset \in Told : HttpError(kind, after, reset)
  \/ \E b \in Bases : Advance(b)
  \/ \E h \in Heads, b \in Bases : Update(h, b)

Spec == Init /\ [][Next]_vars

-----------------------------------------------------------------------------
(***************************************************************************)
(* Properties.                                                             *)
(***************************************************************************)
\* What is bound was all true at one moment of the last attempt: when the pull
\* request was read, after every wait, main was the policy and the base's ref
\* the commit bound, though each was read at another time (bind_candidate_pr,
\* bind_with_retries).
BoundTogether == bind.step = "bound" => bind.together /\ bind.pullRead = bind.attempt

\* No read begins and no wait ends after the budget, and a binding is printed
\* only within it (bind_with_retries).
WithinBudget == clock <= Budget /\ (bind.step = "bound" => clock < Budget)

\* Having been told to wait, by either header and for any kind of failure, the
\* client reads nothing until then (retry_delay).
QuietWhenTold == bind.step \in Read => quiet <= clock

\* Both: the time that is left and the time that is asked for.
KeepsTime == WithinBudget /\ QuietWhenTold
=============================================================================

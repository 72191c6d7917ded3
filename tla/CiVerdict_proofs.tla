------------------------- MODULE CiVerdict_proofs --------------------------
(***************************************************************************)
(* Proofs about candidate CI.                                              *)
(*                                                                         *)
(* First CandidateBinder, for any budget, limits and moves.  Branches only *)
(* move forward, so a branch that a later read finds where an earlier one  *)
(* expects it has not moved in between; and a wait is only begun that ends *)
(* within the budget.                                                      *)
(*                                                                         *)
(* Then RequiredCiReporter, the instance Verdict of MCCiVerdict, for any   *)
(* heads, commits, attempts, reporters and changes of the pull request.    *)
(* Runs only grow and branches only advance, so that what a reporter has   *)
(* read of them stays, and what its second round finds where the first one *)
(* left it has not moved in between.                                       *)
(***************************************************************************)
EXTENDS MCCiVerdict, Sequences, TLAPS

\* The steps after the pull request has been read.
Later == {"commits", "ref", "main", "base", "bound"}

\* What the repository says never exceeds where its branches are.
ForwardInv ==
  /\ bind.policy <= tip["main"] /\ pull.sha <= tip[pull.base]
  /\ bind.step \in Later => bind.sha <= tip[bind.base] /\ bind.pullRead = bind.attempt

\* If what is still to be confirmed is confirmed, it all held together.
TogetherInv ==
  /\ bind.step \in {"commits", "ref", "main"} =>
       (tip["main"] = bind.policy /\ tip[bind.base] = bind.sha => bind.together)
  /\ bind.step = "base" => (tip[bind.base] = bind.sha => bind.together)
  /\ bind.step = "bound" => bind.together

\* A wait ends within the budget, after the time GitHub has asked for, and is
\* followed by an attempt that is allowed.
WaitInv ==
  bind.step = "wait" =>
    /\ clock + bind.delay < Budget /\ quiet <= clock + bind.delay
    /\ bind.attempt < MaxAttempts

IInv ==
  TypeOK /\ ForwardInv /\ TogetherInv /\ WaitInv /\ WithinBudget /\ QuietWhenTold

BindType == [step : Read \cup {"wait", "bound", "failed"}, attempt : 1..MaxAttempts,
             base : Bases, sha : Nat, policy : Nat, together : BOOLEAN,
             pullRead : 0..MaxAttempts, delay : Nat]

-----------------------------------------------------------------------------
(* The steps that are reads, one by one.                                   *)
LEMMA ReadSteps == Read = {"pull", "commits", "ref", "main", "base"}
<1>1. DOMAIN Reads = 1..5
  BY DEF Reads
<1>2. 1..5 = {1, 2, 3, 4, 5}
  OBVIOUS
<1> QED
  BY <1>1, <1>2 DEF Read, Reads

(* A step that takes some time, within the timeout, stays in the budget    *)
(* (AnonymousGitHubApi.get).                                               *)
LEMMA PassInBudget ==
  ASSUME TypeOK, WithinBudget, NEW t \in clock..(clock + Timeout)
  PROVE  t \in Nat /\ clock <= t /\ t <= Budget
<1>1. clock \in Nat /\ clock <= Budget /\ Budget \in Nat /\ RequestLimit \in Nat
  BY BudgetAssumption DEF TypeOK, WithinBudget
<1>2. Timeout \in Nat /\ Timeout <= Budget - clock
  BY <1>1 DEF Timeout, Least
<1> QED
  BY <1>1, <1>2

(* The delay before a retry is as long as GitHub has asked for             *)
(* (retry_delay).                                                          *)
LEMMA DelayHonours ==
  ASSUME NEW kind \in Kinds, NEW after \in Told, NEW reset \in Told,
         NEW attempt \in 1..MaxAttempts, NEW now \in Nat,
         RetryDelay(kind, after, reset, attempt, now) # None
  PROVE  /\ RetryDelay(kind, after, reset, attempt, now) \in Nat
         /\ after # None => after <= RetryDelay(kind, after, reset, attempt, now)
         /\ kind = "primary" =>
              reset # None /\ reset <= now + RetryDelay(kind, after, reset, attempt, now)
<1> DEFINE delay == RetryDelay(kind, after, reset, attempt, now)
<1>1. (after # None => after \in Nat) /\ (reset # None => reset \in Nat)
  BY BudgetAssumption
<1>2. CASE kind = "primary"
  <2>1. reset # None /\ reset \in Nat
    BY <1>1, <1>2 DEF RetryDelay
  <2>2. delay = Greatest(Greatest(1, reset + 1 - Least(now, reset + 1)),
                         IF after = None THEN 0 ELSE after)
    BY <1>2, <2>1 DEF RetryDelay
  <2>3. reset + 1 - Least(now, reset + 1) \in Nat
        /\ reset <= now + (reset + 1 - Least(now, reset + 1))
    BY <2>1 DEF Least
  <2> HIDE DEF delay
  <2> QED
    BY <1>1, <2>1, <2>2, <2>3 DEF Greatest, delay
<1>3. CASE kind # "primary" /\ after # None
  <2>1. delay = Greatest(1, after)
    BY <1>3 DEF RetryDelay
  <2> QED
    BY <1>1, <1>3, <2>1 DEF Greatest
<1>4. CASE kind # "primary" /\ after = None
  <2>1. delay = (IF kind = "secondary" THEN SecondaryWait ELSE 1) * Backoff[attempt]
    BY <1>4 DEF RetryDelay
  <2>2. attempt \in {1, 2, 3} /\ Backoff[attempt] \in Nat
    BY DEF MaxAttempts, Backoff
  <2>3. SecondaryWait \in Nat
    BY BudgetAssumption
  <2> QED
    BY <1>4, <2>1, <2>2, <2>3
<1> QED
  BY <1>2, <1>3, <1>4

-----------------------------------------------------------------------------
(* The invariant holds at first.                                           *)
LEMMA InitInv == Init => IInv
<1> SUFFICES ASSUME Init PROVE IInv
  OBVIOUS
<1> USE CandidateAssumption, BudgetAssumption
<1>1. TypeOK
  BY ReadSteps DEF Init, TypeOK, Bases, MaxAttempts
<1>2. ForwardInv
  BY DEF Init, ForwardInv, Later, Bases
<1>3. TogetherInv /\ WaitInv /\ WithinBudget /\ QuietWhenTold
  BY DEF Init, TogetherInv, WaitInv, WithinBudget, QuietWhenTold
<1> QED
  BY <1>1, <1>2, <1>3 DEF IInv

(* Changes of the repository keep the invariant: a branch that has moved   *)
(* on is not where the binding expects it (Advance).                       *)
LEMMA AdvanceInv == ASSUME IInv, NEW b \in Bases, Advance(b) PROVE IInv'
<1> USE DEF IInv, Advance, Move
<1>1. /\ tip' \in [Bases -> Nat] /\ tip'[b] = tip[b] + 1 /\ tip[b] \in Nat
      /\ \A c \in Bases : c # b => tip'[c] = tip[c]
      /\ \A c \in Bases : tip[c] \in Nat /\ tip[c] <= tip'[c]
  BY DEF TypeOK
<1>2. "main" \in Bases /\ bind.base \in Bases /\ pull.base \in Bases
      /\ bind.policy \in Nat /\ bind.sha \in Nat /\ pull.sha \in Nat
  BY DEF TypeOK, Bases
<1>3. TypeOK'
  BY <1>1, BudgetAssumption DEF TypeOK
<1>4. ForwardInv'
  BY <1>1, <1>2 DEF ForwardInv
<1>5. bind.step \in Later /\ tip'[bind.base] = bind.sha => tip[bind.base] = bind.sha
  BY <1>1, <1>2 DEF ForwardInv
<1>6. tip'["main"] = bind.policy => tip["main"] = bind.policy
  BY <1>1, <1>2 DEF ForwardInv
<1>7. TogetherInv'
  BY <1>5, <1>6 DEF TogetherInv, Later
<1> QED
  BY <1>3, <1>4, <1>7 DEF WaitInv, WithinBudget, QuietWhenTold

(* The pull request changes, is closed or is copied (Update, Close, Copy). *)
LEMMA PullInv ==
  ASSUME IInv, Close \/ Copy \/ \E h \in Heads, b \in Bases : Update(h, b)
  PROVE  IInv'
<1> USE DEF IInv
<1>1. /\ UNCHANGED <<tip, clock, quiet, bind>> /\ moves' \in 0..MaxMoves
      /\ copied' \in Heads /\ pull' \in [open : BOOLEAN, head : Heads, base : Bases, sha : Nat]
  <2>1. moves < MaxMoves /\ moves' = moves + 1 /\ UNCHANGED <<tip, clock, quiet, bind>>
    BY DEF Close, Copy, Update, Move
  <2>2. moves' \in 0..MaxMoves
    BY <2>1, BudgetAssumption DEF TypeOK
  <2>3. CASE Close
    BY <2>1, <2>2, <2>3 DEF Close, TypeOK
  <2>4. CASE Copy
    BY <2>1, <2>2, <2>4 DEF Copy, TypeOK
  <2>5. CASE \E h \in Heads, b \in Bases : Update(h, b)
    <3> PICK h \in Heads, b \in Bases : Update(h, b)
      BY <2>5
    <3>1. tip[b] \in Nat
      BY DEF TypeOK
    <3> QED
      BY <2>1, <2>2, <3>1 DEF Update, TypeOK
  <2> QED
    BY <2>3, <2>4, <2>5
<1>2. pull'.sha <= tip[pull'.base]
  <2>1. CASE \E h \in Heads, b \in Bases : Update(h, b)
    <3> PICK h \in Heads, b \in Bases : Update(h, b)
      BY <2>1
    <3>1. pull'.sha = tip[b] /\ pull'.base = b /\ tip[b] \in Nat
      BY DEF Update, TypeOK
    <3> QED
      BY <3>1
  <2>2. CASE Close \/ Copy
    BY <2>2 DEF Close, Copy, ForwardInv, TypeOK
  <2> QED
    BY <2>1, <2>2
<1>3. TypeOK'
  BY <1>1 DEF TypeOK
<1>4. ForwardInv'
  BY <1>1, <1>2 DEF ForwardInv
<1> QED
  BY <1>1, <1>3, <1>4 DEF TogetherInv, WaitInv, WithinBudget, QuietWhenTold

(* A step that ends the binding in time keeps the invariant.               *)
LEMMA FailInv ==
  ASSUME IInv, UNCHANGED repository, clock' \in Nat, clock' <= Budget, quiet' \in Nat,
         bind' = [bind EXCEPT !.step = "failed"]
  PROVE  IInv'
<1> USE DEF IInv, repository
<1>1. bind' \in BindType /\ bind'.step = "failed" /\ bind'.policy = bind.policy
  BY DEF TypeOK, BindType
<1>2. TypeOK'
  BY <1>1 DEF TypeOK, BindType
<1> QED
  BY <1>1, <1>2, ReadSteps
  DEF ForwardInv, TogetherInv, WaitInv, WithinBudget, QuietWhenTold, Later

(* A read that confirms what is expected goes on to the next (Then).       *)
LEMMA GoOnInv ==
  ASSUME IInv, bind.step \in {"commits", "ref", "main", "base"}, UNCHANGED <<repository, quiet>>,
         clock' \in Nat, clock <= clock', clock' <= Budget,
         NEW next \in Later, bind' = [bind EXCEPT !.step = next],
         next = "bound" => clock' < Budget /\ (tip[bind.base] = bind.sha => bind.together)
                           /\ tip[bind.base] = bind.sha,
         next = "base" => (tip[bind.base] = bind.sha => bind.together),
         next \in {"commits", "ref", "main"} => bind.step \in {"commits", "ref", "main"}
  PROVE  IInv'
<1> USE DEF IInv, repository
<1>1. /\ bind' \in BindType /\ bind'.step = next /\ bind'.policy = bind.policy
      /\ bind'.base = bind.base /\ bind'.sha = bind.sha /\ bind'.together = bind.together
      /\ bind'.pullRead = bind.pullRead /\ bind'.attempt = bind.attempt
  BY ReadSteps DEF TypeOK, BindType, Later
<1>2. TypeOK'
  BY <1>1 DEF TypeOK, BindType
<1>3. ForwardInv'
  BY <1>1 DEF ForwardInv, Later
<1>4. TogetherInv'
  BY <1>1 DEF TogetherInv
<1>5. quiet <= clock
  BY ReadSteps DEF QuietWhenTold
<1>6. WithinBudget' /\ WaitInv'
  BY <1>1 DEF WithinBudget, WaitInv, Later
<1>7. QuietWhenTold'
  BY <1>5 DEF QuietWhenTold, TypeOK
<1> QED
  BY <1>2, <1>3, <1>4, <1>6, <1>7

-----------------------------------------------------------------------------
(* A step of a read that takes time (Pass) stays in the budget.            *)
LEMMA PassStep ==
  ASSUME IInv, Pass
  PROVE  /\ UNCHANGED <<repository, quiet>> /\ quiet' \in Nat
         /\ clock' \in Nat /\ clock <= clock' /\ clock' <= Budget
<1>1. clock' \in clock..(clock + Timeout) /\ UNCHANGED <<repository, quiet>>
  BY DEF Pass
<1>2. TypeOK /\ WithinBudget
  BY DEF IInv
<1>3. clock' \in Nat /\ clock <= clock' /\ clock' <= Budget
  BY <1>1, <1>2, PassInBudget
<1> QED
  BY <1>1, <1>2, <1>3 DEF TypeOK

(* The read of the pull request keeps the invariant (ReadPull).            *)
LEMMA ReadPullInv == ASSUME IInv, ReadPull PROVE IInv'
<1> USE DEF IInv
<1>1. /\ UNCHANGED <<repository, quiet>> /\ quiet' \in Nat
      /\ clock' \in Nat /\ clock <= clock' /\ clock' <= Budget
  BY PassStep DEF ReadPull
<1>2. CASE ~(pull.open /\ pull.head = Candidate)
  BY <1>1, <1>2, FailInv DEF ReadPull
<1>3. CASE pull.open /\ pull.head = Candidate
  <2> DEFINE now == tip["main"] = bind.policy /\ tip[pull.base] = pull.sha
  <2>1. bind' = [bind EXCEPT !.step = "commits", !.base = pull.base, !.sha = pull.sha,
                   !.together = now, !.pullRead = bind.attempt]
    BY <1>3 DEF ReadPull
  <2>2. now \in BOOLEAN
    OBVIOUS
  <2> HIDE DEF now
  <2>3. /\ bind' \in BindType /\ bind'.step = "commits" /\ bind'.policy = bind.policy
        /\ bind'.base = pull.base /\ bind'.sha = pull.sha /\ bind'.together = now
        /\ bind'.pullRead = bind.attempt /\ bind'.attempt = bind.attempt
    <3>1. pull.base \in Bases /\ pull.sha \in Nat /\ bind \in BindType
      BY DEF TypeOK, BindType
    <3>2. bind.attempt \in 0..MaxAttempts /\ "commits" \in Read
      BY <3>1, ReadSteps DEF BindType, MaxAttempts
    <3> QED
      BY <2>1, <2>2, <3>1, <3>2 DEF BindType
  <2>4. TypeOK'
    BY <1>1, <2>3 DEF TypeOK, BindType, repository
  <2>5. ForwardInv'
    BY <1>1, <2>3 DEF ForwardInv, repository
  <2>6. TogetherInv'
    BY <1>1, <2>3 DEF TogetherInv, repository, now
  <2>7. quiet <= clock
    BY ReadSteps DEF ReadPull, At, QuietWhenTold
  <2>8. QuietWhenTold'
    BY <1>1, <2>7 DEF QuietWhenTold, TypeOK
  <2> QED
    BY <1>1, <2>3, <2>4, <2>5, <2>6, <2>8 DEF WithinBudget, WaitInv
<1> QED
  BY <1>2, <1>3

(* The other reads keep the invariant.                                     *)
LEMMA ReadOtherInv ==
  ASSUME IInv, ReadCommits \/ ReadRef \/ ReadMain \/ ReadBase
  PROVE  IInv'
<1> USE DEF IInv
<1>1. Pass
  BY DEF ReadCommits, ReadRef, ReadMain, ReadBase
<1>2. /\ UNCHANGED <<repository, quiet>> /\ quiet' \in Nat
      /\ clock' \in Nat /\ clock <= clock' /\ clock' <= Budget
  BY <1>1, PassStep
<1>3. CASE bind' = [bind EXCEPT !.step = "failed"]
  BY <1>2, <1>3, FailInv
<1>4. CASE bind' # [bind EXCEPT !.step = "failed"]
  <2>1. CASE ReadCommits
    <3>1. bind.step = "commits" /\ bind' = [bind EXCEPT !.step = "ref"]
      BY <1>4, <2>1 DEF ReadCommits, At, Then
    <3> QED
      BY <1>2, <3>1, GoOnInv DEF Later
  <2>2. CASE ReadRef
    <3>1. bind.step = "ref" /\ bind' = [bind EXCEPT !.step = "main"]
      BY <1>4, <2>2 DEF ReadRef, At, Then
    <3> QED
      BY <1>2, <3>1, GoOnInv DEF Later
  <2>3. CASE ReadMain /\ bind.base = "main"
    <3>1. /\ bind.step = "main" /\ bind' = [bind EXCEPT !.step = "bound"]
          /\ tip["main"] = bind.policy /\ tip[bind.base] = bind.sha /\ clock' < Budget
      BY <1>4, <2>3 DEF ReadMain, At, Then, BaseIsCurrent
    <3> QED
      BY <1>2, <3>1, GoOnInv DEF Later, TogetherInv
  <2>4. CASE ReadMain /\ bind.base # "main"
    <3>1. /\ bind.step = "main" /\ bind' = [bind EXCEPT !.step = "base"]
          /\ tip["main"] = bind.policy
      BY <1>4, <2>4 DEF ReadMain, At, Then
    <3> QED
      BY <1>2, <3>1, GoOnInv DEF Later, TogetherInv
  <2>5. CASE ReadBase
    <3>1. /\ bind.step = "base" /\ bind' = [bind EXCEPT !.step = "bound"]
          /\ tip[bind.base] = bind.sha /\ clock' < Budget
      BY <1>4, <2>5 DEF ReadBase, At, Then, BaseIsCurrent
    <3> QED
      BY <1>2, <3>1, GoOnInv DEF Later, TogetherInv
  <2> QED
    BY <2>1, <2>2, <2>3, <2>4, <2>5
<1> QED
  BY <1>3, <1>4

(* A read that does not answer in time, or fails (Expire, ReadFails).      *)
LEMMA NoAnswerInv == ASSUME IInv, Expire \/ ReadFails PROVE IInv'
<1>1. CASE Expire
  <2>1. clock + Timeout \in Nat /\ clock + Timeout <= Budget
    <3>1. clock + Timeout \in clock..(clock + Timeout)
      BY BudgetAssumption DEF IInv, TypeOK, WithinBudget, Timeout, Least
    <3> QED
      BY <3>1, PassInBudget DEF IInv
  <2> QED
    BY <1>1, <2>1, FailInv DEF Expire, IInv, TypeOK
<1>2. CASE ReadFails
  BY <1>2, PassStep, FailInv DEF ReadFails
<1> QED
  BY <1>1, <1>2

(* An HTTP error keeps the invariant (HttpError): it ends the binding, or  *)
(* is followed by a wait that both the budget and GitHub allow.            *)
LEMMA HttpErrorInv ==
  ASSUME IInv, NEW kind \in Kinds, NEW after \in Told, NEW reset \in Told,
         HttpError(kind, after, reset)
  PROVE  IInv'
<1> USE DEF IInv
<1> PICK delay : delay = RetryDelay(kind, after, reset, bind.attempt, clock')
  OBVIOUS
<1>1. /\ clock' \in clock..(clock + Timeout) /\ Tells(kind, after, reset)
      /\ bind.step \in Read /\ UNCHANGED repository
      /\ bind' = IF Retried(delay, clock')
                 THEN [bind EXCEPT !.step = "wait", !.delay = delay]
                 ELSE [bind EXCEPT !.step = "failed"]
  BY DEF HttpError
<1>2. clock' \in Nat /\ clock <= clock' /\ clock' <= Budget
  BY <1>1, PassInBudget
<1>3. (after # None => after \in Nat) /\ (reset # None => reset \in Nat)
  BY BudgetAssumption
<1>4. /\ quiet' \in Nat
      /\ quiet' <= clock' \/ (after # None /\ quiet' <= clock' + after)
         \/ (kind = "primary" /\ reset # None /\ quiet' <= reset)
  BY <1>1, <1>2, <1>3 DEF Tells, Greatest
<1>5. CASE ~Retried(delay, clock')
  BY <1>1, <1>2, <1>4, <1>5, FailInv
<1>6. CASE Retried(delay, clock')
  <2>0. bind' = [bind EXCEPT !.step = "wait", !.delay = delay]
    BY <1>1, <1>6
  <2>1. delay # None /\ bind.attempt < MaxAttempts /\ delay < Budget - clock'
    BY <1>6 DEF Retried
  <2>2. bind.attempt \in 1..MaxAttempts
    BY DEF TypeOK
  <2>3. /\ delay \in Nat
        /\ after # None => after <= delay
        /\ kind = "primary" => reset # None /\ reset <= clock' + delay
    BY <1>2, <2>1, <2>2, DelayHonours
  <2>4. clock' + delay < Budget /\ quiet' <= clock' + delay
    <3>1. clock' + delay < Budget /\ clock' <= clock' + delay
      BY <1>2, <2>1, <2>3, BudgetAssumption
    <3>2. CASE quiet' <= clock'
      BY <1>2, <1>4, <2>3, <3>1, <3>2
    <3>3. CASE after # None /\ quiet' <= clock' + after
      BY <1>2, <1>3, <1>4, <2>3, <3>1, <3>3
    <3>4. CASE kind = "primary" /\ reset # None /\ quiet' <= reset
      BY <1>2, <1>3, <1>4, <2>3, <3>1, <3>4
    <3> QED
      BY <1>4, <3>2, <3>3, <3>4
  <2>5. /\ bind' \in BindType /\ bind'.step = "wait" /\ bind'.delay = delay
        /\ bind'.attempt = bind.attempt /\ bind'.policy = bind.policy
    <3>1. bind' = [bind EXCEPT !.step = "wait", !.delay = delay]
      BY <2>0
    <3> QED
      BY <2>3, <3>1 DEF TypeOK, BindType
  <2>6. TypeOK'
    BY <1>1, <1>2, <1>4, <2>5 DEF TypeOK, BindType, repository
  <2>7. ForwardInv' /\ TogetherInv' /\ WaitInv'
    BY <1>1, <2>1, <2>4, <2>5 DEF ForwardInv, TogetherInv, WaitInv, Later, repository
  <2> QED
    BY <1>2, <2>5, <2>6, <2>7, ReadSteps DEF WithinBudget, QuietWhenTold
<1> QED
  BY <1>5, <1>6

(* When a wait is over, what GitHub asked for has passed (Wake).           *)
LEMMA WakeInv == ASSUME IInv, Wake PROVE IInv'
<1> USE DEF IInv
<1>1. /\ bind.step = "wait" /\ clock' = clock + bind.delay /\ UNCHANGED <<repository, quiet>>
      /\ bind' = [bind EXCEPT !.step = FirstRead, !.attempt = bind.attempt + 1, !.delay = 0]
  BY DEF Wake, At
<1>2. /\ clock + bind.delay < Budget /\ quiet <= clock + bind.delay
      /\ bind.attempt < MaxAttempts
  BY <1>1 DEF WaitInv
<1>3. bind \in BindType /\ clock \in Nat
  BY DEF TypeOK, BindType
<1>4. bind.attempt + 1 \in 1..MaxAttempts
  BY <1>2, <1>3 DEF BindType, MaxAttempts
<1>5. bind' \in BindType /\ bind'.step = "pull" /\ bind'.policy = bind.policy
  BY <1>1, <1>3, <1>4, ReadSteps DEF BindType, FirstRead
<1>6. clock' \in Nat
  BY <1>1, <1>3 DEF BindType
<1>7. TypeOK'
  BY <1>1, <1>5, <1>6 DEF TypeOK, BindType, repository
<1>8. ForwardInv' /\ TogetherInv' /\ WaitInv'
  BY <1>1, <1>5 DEF ForwardInv, TogetherInv, WaitInv, Later, repository
<1>9. WithinBudget' /\ QuietWhenTold'
  BY <1>1, <1>2, <1>5, <1>6, BudgetAssumption DEF WithinBudget, QuietWhenTold
<1> QED
  BY <1>7, <1>8, <1>9

-----------------------------------------------------------------------------
(* Every step keeps the invariant.                                         *)
LEMMA NextInv == IInv /\ [Next]_vars => IInv'
<1> SUFFICES ASSUME IInv, [Next]_vars PROVE IInv'
  OBVIOUS
<1>1. CASE UNCHANGED vars
  BY <1>1
  DEF vars, repository, IInv, TypeOK, ForwardInv, TogetherInv, WaitInv, WithinBudget,
      QuietWhenTold
<1>2. CASE Next
  BY <1>2, AdvanceInv, PullInv, ReadPullInv, ReadOtherInv, NoAnswerInv, HttpErrorInv, WakeInv
  DEF Next, Answered
<1> QED
  BY <1>1, <1>2

(* The invariant holds in every state of every binding.                    *)
LEMMA Invariance == Spec => []IInv
  BY InitInv, NextInv, PTL DEF Spec

(* The types of every variable.                                            *)
THEOREM TypeCorrect == Spec => []TypeOK
<1>1. IInv => TypeOK
  BY DEF IInv
<1> QED
  BY <1>1, Invariance, PTL

(* What is bound was true at one moment of the last attempt                *)
(* (bind_candidate_pr).                                                    *)
THEOREM BoundAtOneMoment == Spec => []BoundTogether
<1>1. IInv => BoundTogether
  BY DEF IInv, BoundTogether, TogetherInv, ForwardInv, Later
<1> QED
  BY <1>1, Invariance, PTL

(* Reads, waits and the binding stay within the budget, and nothing is read *)
(* before GitHub allows it again (bind_with_retries, retry_delay).          *)
THEOREM TimesAreKept == Spec => []KeepsTime
<1>1. IInv => KeepsTime
  BY DEF IInv, KeepsTime
<1> QED
  BY <1>1, Invariance, PTL

-----------------------------------------------------------------------------
(***************************************************************************)
(* The reporters.                                                          *)
(***************************************************************************)
\* What never changes of the runs: their refs, heads, and what their attempts
\* ended with.
Grown ==
  /\ Len(runs') >= Len(runs) /\ DOMAIN runs \subseteq DOMAIN runs'
  /\ \A i \in DOMAIN runs :
       /\ runs'[i].ref = runs[i].ref /\ runs'[i].head = runs[i].head
       /\ DOMAIN runs[i].results \subseteq DOMAIN runs'[i].results
       /\ \A a \in DOMAIN runs[i].results : runs'[i].results[a] = runs[i].results[a]

(* What reporters and checks rest on stays when runs go on and branches     *)
(* advance.                                                                 *)
LEMMA GrownKeeps ==
  ASSUME Verdict!IInv, Grown, UNCHANGED <<reporter, checks>>,
         \A b \in Verdict!Bases : branches'[b] \in Nat /\ branches[b] <= branches'[b]
  PROVE  /\ Verdict!EndedInv' /\ Verdict!SerialInv' /\ Verdict!ReadInv'
         /\ Verdict!RoundInv' /\ Verdict!CheckInv' /\ Verdict!OrderInv'
         /\ Verdict!CurrentAtRebind' /\ Verdict!VerdictsInOrder'
<1> USE DEF Verdict!IInv
<1>0. "main" \in Verdict!Bases
  BY DEF Verdict!Bases
<1>1. /\ Verdict!SerialInv' /\ Verdict!OrderInv'
      /\ Verdict!CurrentAtRebind' /\ Verdict!VerdictsInOrder'
  BY DEF Verdict!SerialInv, Verdict!OrderInv, Verdict!OrderOK, Verdict!CurrentAtRebind,
         Verdict!VerdictsInOrder, Verdict!Working
<1>2. Verdict!EndedInv'
  BY DEF Verdict!EndedInv, Verdict!HasEnded, Verdict!Working, Grown
<1>3. Verdict!CheckInv'
  BY DEF Verdict!EndedInv, Verdict!HasEnded, Verdict!CheckInv, Verdict!Speaks, Verdict!Ending,
         Grown
<1>4. ASSUME NEW r \in Verdict!Reporters, Verdict!Working(r)'
      PROVE  Verdict!ReadOK(r)' /\ Verdict!RoundOK(r)'
  <2>1. /\ Verdict!Working(r) /\ Verdict!ReadOK(r) /\ Verdict!RoundOK(r)
        /\ Verdict!HasEnded(reporter[r])
    BY <1>4 DEF Verdict!Working, Verdict!ReadInv, Verdict!RoundInv, Verdict!EndedInv
  <2>2. reporter[r] \in Verdict!AtWork
    BY <2>1 DEF Verdict!TypeOK, Verdict!Working
  <2> DEFINE me == reporter[r]
  <2>3. /\ Verdict!Run(r)'.ref = Verdict!Run(r).ref /\ Verdict!Run(r)'.head = Verdict!Run(r).head
        /\ runs'[me.run].results[me.attempt] = runs[me.run].results[me.attempt]
    BY <2>1 DEF Verdict!Run, Verdict!HasEnded, Grown
  <2>4. /\ me.policy \in Nat /\ me.sha \in Nat /\ me.base \in Verdict!Bases
        /\ me.tips \in [Verdict!Bases -> Nat] /\ branches \in [Verdict!Bases -> Nat]
    BY <2>2 DEF Verdict!AtWork, Verdict!TypeOK
  <2>5. reporter'[r] = me
    OBVIOUS
  <2>6. (Verdict!Staged(r)' <=> Verdict!Staged(r))
        /\ (Verdict!SameWorkflow(r)' <=> Verdict!SameWorkflow(r))
    BY <2>3 DEF Verdict!Staged, Verdict!SameWorkflow
  <2>7. Verdict!ReadOK(r)'
    BY <1>0, <2>1, <2>3, <2>4, <2>5, <2>6
    DEF Verdict!ReadOK, Verdict!Speaks, Verdict!Ending, Verdict!Run
  <2>8. Verdict!RoundOK(r)'
    <3>1. me.again => \A b \in Verdict!Bases : me.tips[b] <= branches'[b]
      BY <2>1, <2>4 DEF Verdict!RoundOK
    <3> QED
      BY <1>0, <2>1, <2>3, <2>4, <2>5, <2>6, <3>1 DEF Verdict!RoundOK, Verdict!Ending
  <2> QED
    BY <2>7, <2>8
<1> QED
  BY <1>1, <1>2, <1>3, <1>4 DEF Verdict!ReadInv, Verdict!RoundInv

(* The repository and the pull request move, and the runs stay.            *)
LEMMA MoveInv ==
  ASSUME Verdict!IInv, UNCHANGED <<runs, reporter, checks>>,
         branches' \in [Verdict!Bases -> Nat], branches'.main <= MaxTip,
         request' \in [open : BOOLEAN, head : CiHeads, base : Verdict!Bases, sha : Nat],
         staged' = staged, writer' \in BOOLEAN, changes' \in 0..MaxMoves,
         \A b \in Verdict!Bases : branches[b] <= branches'[b]
  PROVE  Verdict!IInv'
<1>1. Verdict!TypeOK' /\ Verdict!BoundInv'
  BY DEF Verdict!IInv, Verdict!TypeOK, Verdict!BoundInv, Verdict!Bound
<1>2. Grown
  BY DEF Grown
<1> QED
  BY <1>1, <1>2, GrownKeeps DEF Verdict!IInv

LEMMA RepositoryInv ==
  ASSUME Verdict!IInv,
         \/ Verdict!AdvanceMain \/ Verdict!AdvanceSupport \/ Verdict!Close \/ Verdict!Revoke
         \/ \E h \in CiHeads, b \in Verdict!Bases : Verdict!Update(h, b)
  PROVE  Verdict!IInv'
<1>0. /\ branches \in [Verdict!Bases -> Nat] /\ branches.main <= MaxTip
      /\ request \in [open : BOOLEAN, head : CiHeads, base : Verdict!Bases, sha : Nat]
      /\ writer \in BOOLEAN /\ changes \in 0..MaxMoves
      /\ Verdict!Bases = {"main", "support"} /\ MaxTip \in Nat /\ MaxMoves \in Nat
      /\ \A b \in Verdict!Bases : branches[b] <= branches[b]
  BY VerdictAssumption, BudgetAssumption DEF Verdict!IInv, Verdict!TypeOK, Verdict!Bases
<1> USE DEF Verdict!Others, Verdict!Move
<1>1. CASE Verdict!AdvanceMain
  <2>1. /\ branches' \in [Verdict!Bases -> Nat] /\ branches'.main <= MaxTip
        /\ \A b \in Verdict!Bases : branches[b] <= branches'[b]
    BY <1>0, <1>1 DEF Verdict!AdvanceMain
  <2> QED
    BY <1>0, <1>1, <2>1, MoveInv DEF Verdict!AdvanceMain
<1>2. CASE Verdict!AdvanceSupport
  <2>1. /\ branches' \in [Verdict!Bases -> Nat] /\ branches'.main <= MaxTip
        /\ \A b \in Verdict!Bases : branches[b] <= branches'[b]
    BY <1>0, <1>2 DEF Verdict!AdvanceSupport
  <2> QED
    BY <1>0, <1>2, <2>1, MoveInv DEF Verdict!AdvanceSupport
<1>3. CASE Verdict!Close
  <2>1. request' = [request EXCEPT !.open = ~request.open]
    BY <1>3 DEF Verdict!Close
  <2>2. request' \in [open : BOOLEAN, head : CiHeads, base : Verdict!Bases, sha : Nat]
    BY <1>0, <2>1
  <2>3. UNCHANGED <<branches, staged, runs, reporter, checks>>
        /\ changes' \in 0..MaxMoves
    BY <1>0, <1>3 DEF Verdict!Close
  <2>4. writer' \in BOOLEAN
    BY <1>0, <1>3 DEF Verdict!Close
  <2> QED
    BY <1>0, <2>2, <2>3, <2>4, MoveInv
<1>4. CASE Verdict!Revoke
  <2>1. writer' \in BOOLEAN
    BY <1>4 DEF Verdict!Revoke
  <2>2. UNCHANGED <<branches, request, staged, runs, reporter, checks>>
    BY <1>4 DEF Verdict!Revoke
  <2>3. changes' \in 0..MaxMoves
    BY <1>0, <1>4 DEF Verdict!Revoke
  <2> QED
    BY <1>0, <2>1, <2>2, <2>3, MoveInv
<1>5. ASSUME NEW h \in CiHeads, NEW b \in Verdict!Bases, Verdict!Update(h, b)
      PROVE  Verdict!IInv'
  <2>1. request' \in [open : BOOLEAN, head : CiHeads, base : Verdict!Bases, sha : Nat]
    BY <1>0, <1>5 DEF Verdict!Update
  <2>2. UNCHANGED <<branches, staged, runs, reporter, checks>>
    BY <1>5 DEF Verdict!Update
  <2>3. writer' \in BOOLEAN
    BY <1>0, <1>5 DEF Verdict!Update
  <2>4. changes' \in 0..MaxMoves
    <3>1. changes < MaxMoves /\ changes' = changes + 1
      BY <1>5 DEF Verdict!Update
    <3> QED
      BY <1>0, <3>1
  <2> QED
    BY <1>0, <2>1, <2>2, <2>3, <2>4, MoveInv
<1> QED
  BY <1>1, <1>2, <1>3, <1>4, <1>5

(* A run goes on, and keeps what its attempts have ended with.             *)
LEMMA RunStepInv ==
  ASSUME Verdict!IInv, NEW i \in DOMAIN runs, NEW run \in Verdict!CiRuns,
         Verdict!SetRun(i, run), run.ref = runs[i].ref, run.head = runs[i].head,
         run.attempt = Len(run.results) + (IF run.step = "completed" THEN 0 ELSE 1),
         run.results = runs[i].results
           \/ \E result \in Verdict!Results :
                /\ run.results = Append(runs[i].results, result)
                /\ Verdict!Bound(i) /\ result.conclusion = "success" => result.held,
         Verdict!Bound(i) /\ run.step \in {"bound", "rebound"} => run.held
  PROVE  Verdict!IInv'
<1>1. /\ runs \in Seq(Verdict!CiRuns) /\ runs[i] \in Verdict!CiRuns
      /\ runs[i].results \in Seq(Verdict!Results) /\ run.results \in Seq(Verdict!Results)
  <2>1. runs \in Seq(Verdict!CiRuns)
    BY DEF Verdict!IInv, Verdict!TypeOK
  <2>2. runs[i] \in Verdict!CiRuns
    BY <2>1
  <2> QED
    BY <2>1, <2>2 DEF Verdict!CiRuns
<1>2. /\ runs' \in Seq(Verdict!CiRuns) /\ DOMAIN runs' = DOMAIN runs /\ Len(runs') = Len(runs)
      /\ \A j \in DOMAIN runs : runs'[j] = IF j = i THEN run ELSE runs[j]
  BY <1>1 DEF Verdict!SetRun
<1> DEFINE Kept ==
             /\ DOMAIN runs[i].results \subseteq DOMAIN run.results
             /\ \A a \in DOMAIN runs[i].results : run.results[a] = runs[i].results[a]
             /\ \A a \in DOMAIN run.results :
                  \/ a \in DOMAIN runs[i].results
                  \/ Verdict!Bound(i) /\ run.results[a].conclusion = "success" =>
                       run.results[a].held
<1>3. Kept
  <2>1. CASE run.results = runs[i].results
    BY <2>1
  <2>2. ASSUME NEW result \in Verdict!Results,
               run.results = Append(runs[i].results, result),
               Verdict!Bound(i) /\ result.conclusion = "success" => result.held
        PROVE  Kept
    BY <1>1, <2>2
  <2> QED
    BY <2>1, <2>2
<1>4. Grown
  BY <1>1, <1>2, <1>3 DEF Grown
<1>5. Verdict!TypeOK'
  BY <1>1, <1>2 DEF Verdict!IInv, Verdict!TypeOK, Verdict!SetRun, Verdict!repository
<1>6. Verdict!BoundInv'
  <2> SUFFICES ASSUME NEW j \in DOMAIN runs', Verdict!Bound(j)'
               PROVE  /\ runs'[j].step \in {"bound", "rebound"} => runs'[j].held
                      /\ \A a \in DOMAIN runs'[j].results :
                           runs'[j].results[a].conclusion = "success" => runs'[j].results[a].held
    BY DEF Verdict!BoundInv
  <2>1. j \in DOMAIN runs /\ Verdict!Bound(j)
    BY <1>2 DEF Verdict!Bound
  <2> QED
    BY <1>2, <1>3, <2>1 DEF Verdict!IInv, Verdict!BoundInv
<1>7. \A b \in Verdict!Bases : branches'[b] \in Nat /\ branches[b] <= branches'[b]
  BY DEF Verdict!IInv, Verdict!TypeOK, Verdict!SetRun, Verdict!repository
<1> QED
  BY <1>4, <1>5, <1>6, <1>7, GrownKeeps DEF Verdict!IInv, Verdict!SetRun

-----------------------------------------------------------------------------
(* The name of a binding that is made now.                                 *)
LEMMA NameNow ==
  ASSUME Verdict!TypeOK
  PROVE  /\ [policy |-> branches.main, base |-> request.base, sha |-> request.sha] \in Verdict!Names
         /\ Verdict!NoName \in Verdict!Names /\ branches.main \in Nat
  BY DEF Verdict!TypeOK, Verdict!Names, Verdict!NoName, Verdict!Bases

(* What an attempt ends with (Ended).                                      *)
LEMMA EndedResult ==
  ASSUME Verdict!TypeOK, NEW run \in Verdict!CiRuns, NEW conclusion \in Verdict!Conclusions,
         run.attempt = Len(run.results) + 1
  PROVE  LET result == [conclusion |-> conclusion, held |-> run.held, policy |-> branches.main,
                        name |-> IF run.step = "read" THEN Verdict!NoName ELSE run.name]
             ended  == Verdict!Ended(run, conclusion)
         IN /\ result \in Verdict!Results /\ ended \in Verdict!CiRuns
            /\ ended.ref = run.ref /\ ended.head = run.head /\ ended.held = run.held
            /\ ended.step = "completed" /\ ended.attempt = Len(ended.results)
            /\ ended.results = Append(run.results, result)
<1> DEFINE result == [conclusion |-> conclusion, held |-> run.held, policy |-> branches.main,
                      name |-> IF run.step = "read" THEN Verdict!NoName ELSE run.name]
           ended  == Verdict!Ended(run, conclusion)
<1>1. /\ run.results \in Seq(Verdict!Results) /\ run.held \in BOOLEAN
      /\ run.name \in Verdict!Names
  BY DEF Verdict!CiRuns
<1>2. result \in Verdict!Results
  BY <1>1, NameNow DEF Verdict!Results
<1>3. Append(run.results, result) \in Seq(Verdict!Results)
  BY <1>1, <1>2
<1> DEFINE name == IF run.held THEN run.name ELSE Verdict!NoName
<1>4. /\ ended = [run EXCEPT !.step = "completed", !.name = name,
                             !.results = Append(run.results, result)]
      /\ name \in Verdict!Names
  BY <1>1, NameNow DEF Verdict!Ended
<1> HIDE DEF result, ended, name
<1>5. ended \in Verdict!CiRuns
  BY <1>3, <1>4 DEF Verdict!CiRuns
<1>6. /\ ended.ref = run.ref /\ ended.head = run.head /\ ended.held = run.held
      /\ ended.step = "completed" /\ ended.attempt = run.attempt
      /\ ended.results = Append(run.results, result)
  BY <1>4 DEF Verdict!CiRuns
<1>7. Len(ended.results) = Len(run.results) + 1
  BY <1>1, <1>2, <1>6
<1> USE DEF result, ended
<1> QED
  BY <1>2, <1>5, <1>6, <1>7

(* The run as it is typed.                                                 *)
LEMMA RunTyped ==
  ASSUME Verdict!IInv, NEW i \in DOMAIN runs
  PROVE  /\ runs[i] \in Verdict!CiRuns /\ Verdict!TypeOK
         /\ runs[i].attempt = Len(runs[i].results) + (IF runs[i].step = "completed" THEN 0 ELSE 1)
         /\ Verdict!Bound(i) /\ runs[i].step \in {"bound", "rebound"} => runs[i].held
<1>1. runs \in Seq(Verdict!CiRuns) /\ Verdict!TypeOK
  BY DEF Verdict!IInv, Verdict!TypeOK
<1>2. runs[i] \in Verdict!CiRuns
  BY <1>1
<1>3. runs[i].attempt = Len(runs[i].results) + (IF runs[i].step = "completed" THEN 0 ELSE 1)
  BY DEF Verdict!IInv, Verdict!TypeOK
<1>4. Verdict!Bound(i) /\ runs[i].step \in {"bound", "rebound"} => runs[i].held
  BY DEF Verdict!IInv, Verdict!BoundInv
<1> QED
  BY <1>1, <1>2, <1>3, <1>4

(* The end of an attempt keeps the invariant, if a protected one succeeds   *)
(* only when it is held to its binding.                                    *)
LEMMA AttemptEnds ==
  ASSUME Verdict!IInv, NEW i \in DOMAIN runs, NEW run \in Verdict!CiRuns,
         NEW conclusion \in Verdict!Conclusions,
         run.ref = runs[i].ref, run.head = runs[i].head, run.results = runs[i].results,
         run.attempt = Len(run.results) + 1,
         Verdict!Bound(i) /\ conclusion = "success" => run.held,
         Verdict!SetRun(i, Verdict!Ended(run, conclusion))
  PROVE  Verdict!IInv'
<1> DEFINE result == [conclusion |-> conclusion, held |-> run.held, policy |-> branches.main,
                      name |-> IF run.step = "read" THEN Verdict!NoName ELSE run.name]
           ended  == Verdict!Ended(run, conclusion)
<1>1. /\ result \in Verdict!Results /\ ended \in Verdict!CiRuns
      /\ ended.ref = run.ref /\ ended.head = run.head
      /\ ended.step = "completed" /\ ended.attempt = Len(ended.results)
      /\ ended.results = Append(run.results, result)
  BY RunTyped, EndedResult
<1>2. Verdict!Bound(i) /\ result.conclusion = "success" => result.held
  OBVIOUS
<1>3. Verdict!SetRun(i, ended)
  OBVIOUS
<1>4. Len(ended.results) \in Nat
  BY <1>1 DEF Verdict!CiRuns
<1> HIDE DEF result, ended
<1>5. \E r \in Verdict!Results :
        /\ ended.results = Append(runs[i].results, r)
        /\ Verdict!Bound(i) /\ r.conclusion = "success" => r.held
  BY <1>1, <1>2
<1>6. /\ ended.ref = runs[i].ref /\ ended.head = runs[i].head
      /\ ended.attempt = Len(ended.results) + (IF ended.step = "completed" THEN 0 ELSE 1)
      /\ Verdict!Bound(i) /\ ended.step \in {"bound", "rebound"} => ended.held
  BY <1>1, <1>4
<1> QED
  BY <1>1, <1>3, <1>5, <1>6, RunStepInv

(* The binding of the pull request keeps the invariant (BindPull).         *)
LEMMA BindPullInv ==
  ASSUME Verdict!IInv, NEW i \in DOMAIN runs, Verdict!BindPull(i) PROVE Verdict!IInv'
<1> DEFINE run == [runs[i] EXCEPT !.step = "read",
                     !.name = [policy |-> branches.main, base |-> request.base,
                               sha |-> request.sha]]
<1>1. runs[i] \in Verdict!CiRuns /\ Verdict!SetRun(i, run)
  BY RunTyped DEF Verdict!BindPull
<1>2. /\ run \in Verdict!CiRuns /\ run.ref = runs[i].ref /\ run.head = runs[i].head
      /\ run.attempt = runs[i].attempt /\ run.results = runs[i].results /\ run.step = "read"
  BY <1>1, RunTyped, NameNow DEF Verdict!CiRuns
<1>3. run.attempt = Len(run.results) + 1
  BY <1>2, RunTyped DEF Verdict!BindPull
<1> QED
  BY <1>1, <1>2, <1>3, RunStepInv

(* The binding of the refs keeps the invariant (BindRefs): the run is held *)
(* to what it was bound to, or the attempt ends without success.           *)
LEMMA BindRefsInv ==
  ASSUME Verdict!IInv, NEW i \in DOMAIN runs, Verdict!BindRefs(i) PROVE Verdict!IInv'
<1>1. /\ runs[i] \in Verdict!CiRuns /\ runs[i].step = "read"
      /\ runs[i].attempt = Len(runs[i].results) + 1
  BY RunTyped DEF Verdict!BindRefs
<1>2. CASE Verdict!SetRun(i, [runs[i] EXCEPT !.step = "bound", !.held = TRUE])
  <2> DEFINE run == [runs[i] EXCEPT !.step = "bound", !.held = TRUE]
  <2>1. /\ run \in Verdict!CiRuns /\ run.ref = runs[i].ref /\ run.head = runs[i].head
        /\ run.attempt = runs[i].attempt /\ run.results = runs[i].results
        /\ run.step = "bound" /\ run.held
    BY <1>1 DEF Verdict!CiRuns
  <2> HIDE DEF run
  <2> QED
    BY <1>1, <1>2, <2>1, RunStepInv DEF run
<1>3. CASE Verdict!SetRun(i, Verdict!Ended(runs[i], "other"))
  BY <1>1, <1>3, AttemptEnds DEF Verdict!Conclusions
<1> QED
  BY <1>2, <1>3 DEF Verdict!BindRefs

(* The second binding keeps the invariant (Rebind).                        *)
LEMMA RebindInv ==
  ASSUME Verdict!IInv, NEW i \in DOMAIN runs, Verdict!Rebind(i) PROVE Verdict!IInv'
<1> DEFINE run == [runs[i] EXCEPT !.step = "rebound", !.lanes = TRUE]
<1>1. /\ runs[i] \in Verdict!CiRuns /\ runs[i].step = "bound" /\ Verdict!SetRun(i, run)
      /\ runs[i].attempt = Len(runs[i].results) + 1
  BY RunTyped DEF Verdict!Rebind
<1>2. Verdict!Bound(i) => runs[i].held
  BY <1>1, RunTyped
<1>3. /\ run \in Verdict!CiRuns /\ run.ref = runs[i].ref /\ run.head = runs[i].head
      /\ run.attempt = runs[i].attempt /\ run.results = runs[i].results
      /\ run.step = "rebound"
  BY <1>1 DEF Verdict!CiRuns
<1>4. Verdict!Bound(i) => run.held
  BY <1>1, <1>2 DEF Verdict!CiRuns
<1> HIDE DEF run
<1> QED
  BY <1>1, <1>3, <1>4, RunStepInv

(* Another attempt keeps the invariant (Rerun).                            *)
LEMMA RerunInv ==
  ASSUME Verdict!IInv, NEW i \in DOMAIN runs, Verdict!Rerun(i) PROVE Verdict!IInv'
<1> DEFINE run == [runs[i] EXCEPT !.step = "queued", !.attempt = @ + 1,
                     !.name = Verdict!NoName, !.held = FALSE, !.lanes = FALSE]
<1>1. runs[i] \in Verdict!CiRuns /\ runs[i].step = "completed"
  BY RunTyped DEF Verdict!Rerun
<1>2. Verdict!SetRun(i, run)
  BY DEF Verdict!Rerun
<1>3. runs[i].attempt = Len(runs[i].results) /\ runs[i].attempt + 1 \in Nat \ {0}
  <2>1. Len(runs[i].results) \in Nat /\ runs[i].attempt \in Nat
    BY <1>1 DEF Verdict!CiRuns
  <2>2. runs[i].attempt = Len(runs[i].results) + (IF runs[i].step = "completed" THEN 0 ELSE 1)
    BY RunTyped
  <2> QED
    BY <1>1, <2>1, <2>2
<1>4. Verdict!NoName \in Verdict!Names
  BY RunTyped, NameNow
<1>5. /\ run.ref = runs[i].ref /\ run.head = runs[i].head /\ run.step = "queued"
      /\ run.attempt = runs[i].attempt + 1 /\ run.results = runs[i].results
      /\ run \in Verdict!CiRuns
  BY <1>1, <1>3, <1>4 DEF Verdict!CiRuns
<1> HIDE DEF run
<1> QED
  BY <1>2, <1>3, <1>5, RunStepInv

(* Another attempt of some jobs keeps the invariant, for what it keeps of  *)
(* the run is held (RerunJobs).                                            *)
LEMMA RerunJobsInv ==
  ASSUME Verdict!IInv, NEW i \in DOMAIN runs, Verdict!RerunJobs(i) PROVE Verdict!IInv'
<1>1. /\ runs[i] \in Verdict!CiRuns /\ runs[i].step = "completed" /\ runs[i].held
  BY RunTyped DEF Verdict!RerunJobs
<1>2. PICK step \in {"bound", "rebound"} :
        Verdict!SetRun(i, [runs[i] EXCEPT !.step = step, !.attempt = @ + 1,
                             !.lanes = step = "rebound"])
  BY DEF Verdict!RerunJobs
<1> DEFINE lanes == step = "rebound"
           run   == [runs[i] EXCEPT !.step = step, !.attempt = @ + 1, !.lanes = lanes]
<1>3. runs[i].attempt = Len(runs[i].results) /\ runs[i].attempt + 1 \in Nat \ {0}
  <2>1. Len(runs[i].results) \in Nat /\ runs[i].attempt \in Nat
    BY <1>1 DEF Verdict!CiRuns
  <2>2. runs[i].attempt = Len(runs[i].results) + (IF runs[i].step = "completed" THEN 0 ELSE 1)
    BY RunTyped
  <2> QED
    BY <1>1, <2>1, <2>2
<1>4. Verdict!SetRun(i, run) /\ lanes \in BOOLEAN
  BY <1>2
<1> HIDE DEF lanes
<1>5. /\ run.ref = runs[i].ref /\ run.head = runs[i].head /\ run.step = step
      /\ run.attempt = runs[i].attempt + 1 /\ run.results = runs[i].results
      /\ run \in Verdict!CiRuns
  BY <1>1, <1>3, <1>4 DEF Verdict!CiRuns
<1>6. run.held
  BY <1>1 DEF Verdict!CiRuns
<1> HIDE DEF run
<1> QED
  BY <1>3, <1>4, <1>5, <1>6, RunStepInv

(* The end of an attempt keeps the invariant (Complete).                   *)
LEMMA CompleteInv ==
  ASSUME Verdict!IInv, NEW i \in DOMAIN runs, NEW conclusion \in Verdict!Conclusions,
         Verdict!Complete(i, conclusion)
  PROVE  Verdict!IInv'
<1>1. /\ runs[i] \in Verdict!CiRuns /\ runs[i].attempt = Len(runs[i].results) + 1
      /\ Verdict!TypeOK
  BY RunTyped DEF Verdict!Complete
<1>2. Verdict!Bound(i) /\ conclusion = "success" => runs[i].held
  BY RunTyped DEF Verdict!Complete
<1>3. CASE runs[i].ref = "copied" /\ ~Verdict!Bound(i)
  <2>1. PICK name \in Verdict!Names :
               Verdict!SetRun(i, Verdict!Ended([runs[i] EXCEPT !.name = name], conclusion))
    BY <1>1, <1>3, NameNow DEF Verdict!Complete
  <2> DEFINE run == [runs[i] EXCEPT !.name = name]
  <2>2. /\ run \in Verdict!CiRuns /\ run.ref = runs[i].ref /\ run.head = runs[i].head
        /\ run.results = runs[i].results /\ run.attempt = runs[i].attempt
    BY <1>1 DEF Verdict!CiRuns
  <2>3. Verdict!SetRun(i, Verdict!Ended(run, conclusion))
    BY <2>1
  <2> HIDE DEF run
  <2> QED
    BY <1>1, <1>3, <2>2, <2>3, AttemptEnds
<1>4. CASE Verdict!SetRun(i, Verdict!Ended(runs[i], conclusion))
  BY <1>1, <1>2, <1>4, AttemptEnds
<1> QED
  BY <1>3, <1>4 DEF Verdict!Complete

(* A new run is added, and some of those before it are cancelled.          *)
LEMMA AddedInv ==
  ASSUME Verdict!IInv, NEW f \in Seq(Verdict!CiRuns), DOMAIN f = DOMAIN runs,
         \A i \in DOMAIN runs :
           f[i] = runs[i] \/ (runs[i].step # "completed" /\ f[i] = Verdict!Ended(runs[i], "other")),
         NEW ref \in {"copied", "staging"}, runs' = Append(f, Verdict!NewRun(ref)),
         UNCHANGED <<branches, request, changes, reporter, checks>>,
         writer' \in BOOLEAN, staged' \in CiHeads \cup {None}
  PROVE  Verdict!IInv'
<1> DEFINE new == Verdict!NewRun(ref)
<1>1. /\ new \in Verdict!CiRuns /\ new.attempt = 1 /\ new.results = <<>> /\ new.step = "queued"
      /\ Verdict!TypeOK /\ Len(new.results) = 0
  <2>1. <<>> \in Seq(Verdict!Results) /\ request.head \in CiHeads /\ Verdict!TypeOK
    <3>1. <<>> \in Seq(Verdict!Results)
      OBVIOUS
    <3> QED
      BY <3>1 DEF Verdict!IInv, Verdict!TypeOK
  <2> QED
    BY <2>1, NameNow DEF Verdict!NewRun, Verdict!CiRuns
<1> HIDE DEF new
<1>2. runs \in Seq(Verdict!CiRuns) /\ Len(f) = Len(runs)
  BY <1>1 DEF Verdict!TypeOK
<1>3. /\ runs' \in Seq(Verdict!CiRuns) /\ Len(runs') = Len(runs) + 1
      /\ DOMAIN runs' = DOMAIN runs \cup {Len(runs) + 1}
      /\ \A i \in DOMAIN runs : runs'[i] = f[i]
      /\ runs'[Len(runs) + 1] = new
  BY <1>1, <1>2 DEF new
<1>4. ASSUME NEW i \in DOMAIN runs
      PROVE  /\ f[i].ref = runs[i].ref /\ f[i].head = runs[i].head
             /\ f[i].attempt = Len(f[i].results) + (IF f[i].step = "completed" THEN 0 ELSE 1)
             /\ DOMAIN runs[i].results \subseteq DOMAIN f[i].results
             /\ \A a \in DOMAIN runs[i].results : f[i].results[a] = runs[i].results[a]
             /\ \A a \in DOMAIN f[i].results :
                  a \in DOMAIN runs[i].results \/ f[i].results[a].conclusion = "other"
             /\ f[i].step \in {"bound", "rebound"} => f[i] = runs[i]
  <2>1. CASE f[i] = runs[i]
    BY <2>1, RunTyped
  <2>2. CASE runs[i].step # "completed" /\ f[i] = Verdict!Ended(runs[i], "other")
    <3>1. /\ runs[i] \in Verdict!CiRuns /\ runs[i].attempt = Len(runs[i].results) + 1
          /\ "other" \in Verdict!Conclusions
      BY <2>2, RunTyped DEF Verdict!Conclusions
    <3> DEFINE result == [conclusion |-> "other", held |-> runs[i].held,
                          policy |-> branches.main,
                          name |-> IF runs[i].step = "read" THEN Verdict!NoName
                                   ELSE runs[i].name]
    <3>2. /\ result \in Verdict!Results /\ f[i].ref = runs[i].ref /\ f[i].head = runs[i].head
          /\ f[i].step = "completed" /\ f[i].attempt = Len(f[i].results)
          /\ f[i].results = Append(runs[i].results, result)
      BY <1>1, <2>2, <3>1, EndedResult
    <3>3. result.conclusion = "other"
      OBVIOUS
    <3>4. runs[i].results \in Seq(Verdict!Results)
      BY <3>1 DEF Verdict!CiRuns
    <3> HIDE DEF result
    <3> QED
      BY <3>2, <3>3, <3>4
  <2> QED
    BY <2>1, <2>2
<1>5. Grown
  <2>1. Len(runs') >= Len(runs) /\ DOMAIN runs \subseteq DOMAIN runs'
    BY <1>2, <1>3
  <2>2. ASSUME NEW i \in DOMAIN runs
        PROVE  /\ runs'[i].ref = runs[i].ref /\ runs'[i].head = runs[i].head
               /\ DOMAIN runs[i].results \subseteq DOMAIN runs'[i].results
               /\ \A a \in DOMAIN runs[i].results : runs'[i].results[a] = runs[i].results[a]
    BY <1>3, <1>4
  <2> QED
    BY <2>1, <2>2 DEF Grown
<1>6. Verdict!TypeOK'
  <2>1. \A i \in DOMAIN runs' :
          runs'[i].attempt = Len(runs'[i].results) + (IF runs'[i].step = "completed" THEN 0 ELSE 1)
    <3>1. ASSUME NEW i \in DOMAIN runs
          PROVE  runs'[i].attempt =
                   Len(runs'[i].results) + (IF runs'[i].step = "completed" THEN 0 ELSE 1)
      <4>1. runs'[i] = f[i]
        BY <1>3
      <4>2. f[i].attempt = Len(f[i].results) + (IF f[i].step = "completed" THEN 0 ELSE 1)
        BY <1>4
      <4> QED
        BY <4>1, <4>2
    <3>2. new.attempt = Len(new.results) + (IF new.step = "completed" THEN 0 ELSE 1)
      BY <1>1
    <3> QED
      BY <1>3, <3>1, <3>2
  <2> QED
    BY <1>1, <1>3, <2>1 DEF Verdict!TypeOK
<1>7. Verdict!BoundInv'
  <2> SUFFICES ASSUME NEW i \in DOMAIN runs', Verdict!Bound(i)'
               PROVE  /\ runs'[i].step \in {"bound", "rebound"} => runs'[i].held
                      /\ \A a \in DOMAIN runs'[i].results :
                           runs'[i].results[a].conclusion = "success" => runs'[i].results[a].held
    BY DEF Verdict!BoundInv
  <2>1. CASE i \in DOMAIN runs
    <3>1. runs'[i] = f[i] /\ Verdict!Bound(i)
      BY <1>3, <1>4, <2>1 DEF Verdict!Bound
    <3>2. /\ runs[i].step \in {"bound", "rebound"} => runs[i].held
          /\ \A a \in DOMAIN runs[i].results :
               runs[i].results[a].conclusion = "success" => runs[i].results[a].held
      BY <2>1, <3>1 DEF Verdict!IInv, Verdict!BoundInv
    <3>3. f[i].step \in {"bound", "rebound"} => f[i].held
      BY <1>4, <2>1, <3>2
    <3>4. ASSUME NEW a \in DOMAIN f[i].results, f[i].results[a].conclusion = "success"
          PROVE  f[i].results[a].held
      <4>1. a \in DOMAIN runs[i].results /\ f[i].results[a] = runs[i].results[a]
        BY <1>4, <2>1, <3>4
      <4> QED
        BY <3>2, <3>4, <4>1
    <3> QED
      BY <3>1, <3>3, <3>4
  <2>2. CASE i = Len(runs) + 1
    BY <1>1, <1>3, <2>2
  <2> QED
    BY <1>3, <2>1, <2>2
<1>8. \A b \in Verdict!Bases : branches'[b] \in Nat /\ branches[b] <= branches'[b]
  BY <1>1 DEF Verdict!TypeOK
<1> QED
  BY <1>5, <1>6, <1>7, <1>8, GrownKeeps DEF Verdict!IInv

(* A run for a staged head keeps the invariant (Stage).                    *)
LEMMA StageInv == ASSUME Verdict!IInv, Verdict!Stage PROVE Verdict!IInv'
<1>1. /\ runs \in Seq(Verdict!CiRuns) /\ staged \in CiHeads \cup {None} /\ writer \in BOOLEAN
  BY DEF Verdict!IInv, Verdict!TypeOK
<1>2. /\ runs' = Append(runs, Verdict!NewRun("staging"))
      /\ UNCHANGED <<branches, request, changes, reporter, checks>> /\ staged' = staged
  BY DEF Verdict!Stage, Verdict!repository
<1>3. writer' \in BOOLEAN
  BY <1>1 DEF Verdict!Stage, Verdict!repository
<1> QED
  BY <1>1, <1>2, <1>3, AddedInv

(* A run for the copied head keeps the invariant (Copy): it cancels the    *)
(* run of that ref that is not complete.                                   *)
LEMMA CopyInv == ASSUME Verdict!IInv, Verdict!Copy PROVE Verdict!IInv'
<1> DEFINE Cancelled(i) == runs[i].ref = "copied" /\ runs[i].step # "completed"
           f == [i \in DOMAIN runs |->
                   IF Cancelled(i) THEN Verdict!Ended(runs[i], "other") ELSE runs[i]]
<1>1. /\ runs \in Seq(Verdict!CiRuns) /\ request.head \in CiHeads /\ writer \in BOOLEAN
      /\ Verdict!TypeOK /\ "other" \in Verdict!Conclusions
  BY DEF Verdict!IInv, Verdict!TypeOK, Verdict!Conclusions
<1>2. \A i \in DOMAIN runs : f[i] \in Verdict!CiRuns
  BY <1>1, RunTyped, EndedResult
<1>3. f \in Seq(Verdict!CiRuns) /\ DOMAIN f = DOMAIN runs
  BY <1>1, <1>2
<1>4. \A i \in DOMAIN runs :
        f[i] = runs[i] \/ (runs[i].step # "completed" /\ f[i] = Verdict!Ended(runs[i], "other"))
  OBVIOUS
<1>5. /\ runs' = Append(f, Verdict!NewRun("copied"))
      /\ UNCHANGED <<branches, request, changes, reporter, checks>>
      /\ staged' \in CiHeads \cup {None}
  BY <1>1 DEF Verdict!Copy
<1>6. writer' \in BOOLEAN
  BY <1>1 DEF Verdict!Copy
<1> HIDE DEF f
<1> QED
  BY <1>3, <1>4, <1>5, <1>6, AddedInv

-----------------------------------------------------------------------------
(* What a reporter's step leaves alone keeps its types.                    *)
LEMMA OthersTyped ==
  ASSUME Verdict!IInv, UNCHANGED <<Verdict!repository, runs>>,
         reporter' \in [Verdict!Reporters -> {Verdict!Idle} \cup Verdict!AtWork],
         checks' \in Seq(Verdict!Checks)
  PROVE  Verdict!TypeOK' /\ Verdict!BoundInv'
<1>1. UNCHANGED <<branches, request, staged, changes, runs>>
  BY DEF Verdict!repository
<1>2. writer' \in BOOLEAN
  BY DEF Verdict!repository, Verdict!IInv, Verdict!TypeOK
<1>3. Verdict!TypeOK'
  BY <1>1, <1>2 DEF Verdict!IInv, Verdict!TypeOK
<1> QED
  BY <1>1, <1>3 DEF Verdict!IInv, Verdict!BoundInv, Verdict!Bound

(* The reporters that do not step stay as they are.                        *)
LEMMA OtherReporters ==
  ASSUME Verdict!IInv, NEW r \in Verdict!Reporters, NEW new,
         reporter' = [reporter EXCEPT ![r] = new], UNCHANGED <<Verdict!repository, runs>>
  PROVE  /\ reporter'[r] = new
         /\ \A q \in Verdict!Reporters : q # r => reporter'[q] = reporter[q]
         /\ \A q \in Verdict!Reporters : q # r /\ Verdict!Working(q)' =>
              Verdict!Working(q) /\ Verdict!ReadOK(q)' /\ Verdict!RoundOK(q)'
<1>1. reporter \in [Verdict!Reporters -> {Verdict!Idle} \cup Verdict!AtWork]
  BY DEF Verdict!IInv, Verdict!TypeOK
<1>2. /\ reporter'[r] = new
      /\ \A q \in Verdict!Reporters : q # r => reporter'[q] = reporter[q]
  BY <1>1
<1>3. ASSUME NEW q \in Verdict!Reporters, q # r, Verdict!Working(q)'
      PROVE  Verdict!Working(q) /\ Verdict!ReadOK(q)' /\ Verdict!RoundOK(q)'
  <2>1. UNCHANGED <<reporter[q], branches, runs>>
    BY <1>2, <1>3 DEF Verdict!repository
  <2>2. Verdict!Working(q) /\ Verdict!ReadOK(q) /\ Verdict!RoundOK(q)
    BY <1>3, <2>1 DEF Verdict!IInv, Verdict!ReadInv, Verdict!RoundInv, Verdict!Working
  <2> QED
    BY <2>1, <2>2
    DEF Verdict!ReadOK, Verdict!RoundOK, Verdict!Staged, Verdict!SameWorkflow,
        Verdict!Speaks, Verdict!Ending, Verdict!Run
<1> QED
  BY <1>2, <1>3

(* A reporter that takes a step keeps the invariant if what it has read is *)
(* so.                                                                     *)
LEMMA SteppedInv ==
  ASSUME Verdict!IInv, NEW r \in Verdict!Reporters, Verdict!Working(r),
         NEW new \in Verdict!AtWork, new.run = reporter[r].run,
         new.attempt = reporter[r].attempt,
         reporter' = [reporter EXCEPT ![r] = new],
         UNCHANGED <<Verdict!repository, runs, checks>>,
         Verdict!ReadOK(r)', Verdict!RoundOK(r)', Verdict!OrderOK(r)'
  PROVE  Verdict!IInv'
<1>1. /\ reporter \in [Verdict!Reporters -> {Verdict!Idle} \cup Verdict!AtWork]
      /\ checks \in Seq(Verdict!Checks)
  BY DEF Verdict!IInv, Verdict!TypeOK
<1>2. Verdict!TypeOK' /\ Verdict!BoundInv'
  BY <1>1, OthersTyped
<1>3. /\ reporter'[r] = new
      /\ \A q \in Verdict!Reporters : q # r => reporter'[q] = reporter[q]
      /\ \A q \in Verdict!Reporters : q # r /\ Verdict!Working(q)' =>
           Verdict!Working(q) /\ Verdict!ReadOK(q)' /\ Verdict!RoundOK(q)'
  BY OtherReporters
<1>4. Verdict!EndedInv'
  BY <1>3 DEF Verdict!IInv, Verdict!EndedInv, Verdict!HasEnded, Verdict!Working
<1>5. Verdict!SerialInv'
  <2> SUFFICES ASSUME NEW p \in Verdict!Reporters, NEW q \in Verdict!Reporters,
                      Verdict!Working(p)', reporter'[p].run = reporter'[q].run
               PROVE  p = q
    BY DEF Verdict!SerialInv
  <2>1. Verdict!Working(p) /\ reporter[p].run = reporter[q].run
    BY <1>3
  <2> QED
    BY <2>1 DEF Verdict!IInv, Verdict!SerialInv
<1>6. Verdict!CheckInv'
  BY DEF Verdict!IInv, Verdict!CheckInv, Verdict!Speaks, Verdict!Ending
<1>7. Verdict!OrderInv'
  BY <1>3 DEF Verdict!IInv, Verdict!OrderInv, Verdict!OrderOK
<1>8. Verdict!CurrentAtRebind' /\ Verdict!VerdictsInOrder'
  BY DEF Verdict!IInv, Verdict!CurrentAtRebind, Verdict!VerdictsInOrder
<1>9. Verdict!ReadInv' /\ Verdict!RoundInv'
  BY <1>3 DEF Verdict!ReadInv, Verdict!RoundInv
<1> QED
  BY <1>2, <1>4, <1>5, <1>6, <1>7, <1>8, <1>9 DEF Verdict!IInv

(* A reporter that stops or refuses keeps the invariant (Stop, Require).   *)
LEMMA StoppedInv ==
  ASSUME Verdict!IInv, NEW r \in Verdict!Reporters,
         reporter' = [reporter EXCEPT ![r] = Verdict!Idle],
         UNCHANGED <<Verdict!repository, runs, checks>>
  PROVE  Verdict!IInv'
<1>1. /\ reporter \in [Verdict!Reporters -> {Verdict!Idle} \cup Verdict!AtWork]
      /\ checks \in Seq(Verdict!Checks)
  BY DEF Verdict!IInv, Verdict!TypeOK
<1>2. Verdict!TypeOK' /\ Verdict!BoundInv'
  BY <1>1, OthersTyped
<1>3. /\ reporter'[r] = Verdict!Idle /\ ~Verdict!Working(r)'
      /\ \A q \in Verdict!Reporters : q # r => reporter'[q] = reporter[q]
      /\ \A q \in Verdict!Reporters : q # r /\ Verdict!Working(q)' =>
           Verdict!Working(q) /\ Verdict!ReadOK(q)' /\ Verdict!RoundOK(q)'
  BY OtherReporters DEF Verdict!Working
<1>4. Verdict!EndedInv'
  BY <1>3 DEF Verdict!IInv, Verdict!EndedInv, Verdict!HasEnded, Verdict!Working
<1>5. Verdict!SerialInv'
  <2> SUFFICES ASSUME NEW p \in Verdict!Reporters, NEW q \in Verdict!Reporters,
                      Verdict!Working(p)', reporter'[p].run = reporter'[q].run
               PROVE  p = q
    BY DEF Verdict!SerialInv
  <2>1. p # r /\ Verdict!Working(p) /\ reporter'[p] = reporter[p]
    BY <1>3
  <2>2. reporter[p].run \in Nat \ {0}
    BY <1>1, <2>1 DEF Verdict!Working, Verdict!AtWork
  <2>3. CASE q = r
    BY <1>3, <2>1, <2>2, <2>3 DEF Verdict!Idle
  <2>4. CASE q # r
    BY <1>3, <2>1, <2>4 DEF Verdict!IInv, Verdict!SerialInv
  <2> QED
    BY <2>3, <2>4
<1>6. Verdict!CheckInv'
  BY DEF Verdict!IInv, Verdict!CheckInv, Verdict!Speaks, Verdict!Ending
<1>7. Verdict!OrderInv'
  BY <1>3 DEF Verdict!IInv, Verdict!OrderInv, Verdict!OrderOK
<1>8. Verdict!CurrentAtRebind' /\ Verdict!VerdictsInOrder'
  BY DEF Verdict!IInv, Verdict!CurrentAtRebind, Verdict!VerdictsInOrder
<1>9. Verdict!ReadInv' /\ Verdict!RoundInv'
  BY <1>3 DEF Verdict!ReadInv, Verdict!RoundInv
<1> QED
  BY <1>2, <1>4, <1>5, <1>6, <1>7, <1>8, <1>9 DEF Verdict!IInv

\* ReadOK, RoundOK and OrderOK of a reporter, as statements about its record.
ReadsOf(me) ==
  /\ me.step \in Verdict!AfterMain =>
       /\ me.policy <= branches["main"]
       /\ runs[me.run].ref = "staging" \/ runs[me.run].head \notin OwnWorkflow
  /\ me.step \in Verdict!AfterPull =>
       /\ runs[me.run].ref = "staging" => me.base = "main"
       /\ me.base = "main" => me.sha = me.policy
  /\ me.step \in Verdict!AfterBase => me.sha <= branches[me.base]
  /\ me.step \in Verdict!AfterCommits /\ runs[me.run].ref = "staging" =>
       On[runs[me.run].head] = me.sha
  /\ me.step \in Verdict!AfterJobs =>
       me.again /\ Verdict!Speaks(me) /\ me.conclusion = Verdict!Ending(me).conclusion
RoundsOf(me) ==
  me.again =>
    /\ \A b \in Verdict!Bases : me.tips[b] <= branches[b]
    /\ me.policy <= me.tips["main"]
    /\ runs[me.run].ref # "staging" =>
         Verdict!Ending(me).name.sha <= me.tips[Verdict!Ending(me).name.base]
    /\ me.step \in Verdict!AfterMain => me.tips["main"] = me.policy
    /\ me.step \in Verdict!AfterBase => me.tips[me.base] <= me.sha
    /\ me.step \in Verdict!AfterJobs => me.tips[me.base] = me.sha
OrdersOf(me) ==
  \A k \in DOMAIN checks : checks[k].run = me.run =>
    /\ me.step # "run" => checks[k].attempt <= me.attempt
    /\ me.step = "post" => checks[k].attempt # me.attempt

(* What is known of a reporter at work.                                    *)
LEMMA WorkFacts ==
  ASSUME Verdict!IInv, NEW r \in Verdict!Reporters, Verdict!Working(r)
  PROVE  /\ reporter[r] \in Verdict!AtWork /\ Verdict!HasEnded(reporter[r])
         /\ ReadsOf(reporter[r]) /\ RoundsOf(reporter[r]) /\ OrdersOf(reporter[r])
         /\ branches \in [Verdict!Bases -> Nat] /\ "main" \in Verdict!Bases
         /\ request \in [open : BOOLEAN, head : CiHeads, base : Verdict!Bases, sha : Nat]
         /\ runs[reporter[r].run] \in Verdict!CiRuns
         /\ Verdict!Ending(reporter[r]) \in Verdict!Results
<1>1. /\ reporter[r] \in Verdict!AtWork /\ runs \in Seq(Verdict!CiRuns)
      /\ branches \in [Verdict!Bases -> Nat] /\ "main" \in Verdict!Bases
      /\ request \in [open : BOOLEAN, head : CiHeads, base : Verdict!Bases, sha : Nat]
  BY DEF Verdict!IInv, Verdict!TypeOK, Verdict!Working, Verdict!Bases
<1>2. Verdict!HasEnded(reporter[r])
  BY DEF Verdict!IInv, Verdict!EndedInv
<1>3. runs[reporter[r].run] \in Verdict!CiRuns
  BY <1>1, <1>2 DEF Verdict!HasEnded
<1>4. runs[reporter[r].run].results \in Seq(Verdict!Results)
  BY <1>3 DEF Verdict!CiRuns
<1>5. Verdict!Ending(reporter[r]) \in Verdict!Results
  BY <1>2, <1>4 DEF Verdict!Ending, Verdict!HasEnded
<1>6. Verdict!ReadOK(r) /\ Verdict!RoundOK(r) /\ Verdict!OrderOK(r)
  BY DEF Verdict!IInv, Verdict!ReadInv, Verdict!RoundInv, Verdict!OrderInv
<1>7. ReadsOf(reporter[r])
  BY <1>6 DEF ReadsOf, Verdict!ReadOK, Verdict!Staged, Verdict!SameWorkflow, Verdict!Run
<1>8. RoundsOf(reporter[r]) /\ OrdersOf(reporter[r])
  BY <1>6 DEF RoundsOf, OrdersOf, Verdict!RoundOK, Verdict!OrderOK, Verdict!Staged, Verdict!Run
<1> QED
  BY <1>1, <1>2, <1>3, <1>5, <1>7, <1>8

(* A reporter's record may become another one of the same attempt of which *)
(* the invariant says nothing wrong.                                       *)
LEMMA RecordInv ==
  ASSUME Verdict!IInv, NEW r \in Verdict!Reporters, Verdict!Working(r),
         NEW new \in Verdict!AtWork, new.run = reporter[r].run,
         new.attempt = reporter[r].attempt,
         reporter' = [reporter EXCEPT ![r] = new],
         UNCHANGED <<Verdict!repository, runs, checks>>,
         ReadsOf(new), RoundsOf(new), OrdersOf(new)
  PROVE  Verdict!IInv'
<1>1. reporter'[r] = new
  BY OtherReporters
<1>2. UNCHANGED <<branches, runs, checks>>
  BY DEF Verdict!repository
<1>3. Verdict!ReadOK(r)'
  BY <1>1, <1>2
  DEF ReadsOf, Verdict!ReadOK, Verdict!Staged, Verdict!SameWorkflow, Verdict!Run,
      Verdict!Speaks, Verdict!Ending
<1>4. Verdict!RoundOK(r)' /\ Verdict!OrderOK(r)'
  BY <1>1, <1>2
  DEF RoundsOf, OrdersOf, Verdict!RoundOK, Verdict!OrderOK, Verdict!Staged, Verdict!Run,
      Verdict!Ending
<1> QED
  BY <1>3, <1>4, SteppedInv

(* A reporter goes on to its next step if what that step presumes has been *)
(* read; that it is still so is part of the invariant.                     *)
LEMMA StepTo ==
  ASSUME Verdict!IInv, NEW r \in Verdict!Reporters, Verdict!Working(r),
         NEW step \in Verdict!ReadSteps \cup {"list", "post"},
         reporter' = [reporter EXCEPT ![r] = [reporter[r] EXCEPT !.step = step]],
         UNCHANGED <<Verdict!repository, runs, checks>>,
         ReadsOf([reporter[r] EXCEPT !.step = step]),
         RoundsOf([reporter[r] EXCEPT !.step = step]),
         OrdersOf([reporter[r] EXCEPT !.step = step])
  PROVE  Verdict!IInv'
<1> DEFINE new == [reporter[r] EXCEPT !.step = step]
<1>1. reporter[r] \in Verdict!AtWork
  BY WorkFacts
<1>2. new \in Verdict!AtWork /\ new.run = reporter[r].run /\ new.attempt = reporter[r].attempt
  BY <1>1 DEF Verdict!AtWork
<1> HIDE DEF new
<1> QED
  BY <1>2, RecordInv DEF new

(* A record that differs in its step.                                      *)
LEMMA StepOnly ==
  ASSUME NEW me \in Verdict!AtWork, NEW step
  PROVE  LET new == [me EXCEPT !.step = step]
         IN /\ new.step = step /\ new.run = me.run /\ new.attempt = me.attempt
            /\ new.again = me.again /\ new.base = me.base /\ new.sha = me.sha
            /\ new.policy = me.policy /\ new.conclusion = me.conclusion /\ new.tips = me.tips
  BY DEF Verdict!AtWork

(* What both rounds have shown is kept by a record that differs in its step *)
(* if what the new step presumes has been shown.                           *)
LEMMA RoundsKept ==
  ASSUME NEW me \in Verdict!AtWork, NEW step, RoundsOf(me),
         me.again /\ step \in Verdict!AfterMain => me.tips["main"] = me.policy,
         me.again /\ step \in Verdict!AfterBase => me.tips[me.base] <= me.sha,
         me.again /\ step \in Verdict!AfterJobs => me.tips[me.base] = me.sha
  PROVE  RoundsOf([me EXCEPT !.step = step])
<1> DEFINE new == [me EXCEPT !.step = step]
<1>1. /\ new.step = step /\ new.run = me.run /\ new.attempt = me.attempt
      /\ new.again = me.again /\ new.base = me.base /\ new.sha = me.sha
      /\ new.policy = me.policy /\ new.tips = me.tips
  BY StepOnly
<1>2. Verdict!Ending(new) = Verdict!Ending(me)
  BY <1>1 DEF Verdict!Ending
<1> HIDE DEF new
<1>3. ASSUME new.again
      PROVE  /\ \A b \in Verdict!Bases : new.tips[b] <= branches[b]
             /\ new.policy <= new.tips["main"]
             /\ runs[new.run].ref # "staging" =>
                  Verdict!Ending(new).name.sha <= new.tips[Verdict!Ending(new).name.base]
  BY <1>1, <1>2, <1>3 DEF RoundsOf
<1>4. RoundsOf(new)
  BY <1>1, <1>3 DEF RoundsOf
<1> QED
  BY <1>4 DEF new

(* The same of what has been read, before the list of checks.              *)
LEMMA ReadsKept ==
  ASSUME NEW me \in Verdict!AtWork, NEW step \in Verdict!ReadSteps,
         step \in Verdict!AfterMain =>
           /\ me.policy <= branches["main"]
           /\ runs[me.run].ref = "staging" \/ runs[me.run].head \notin OwnWorkflow,
         step \in Verdict!AfterPull =>
           /\ runs[me.run].ref = "staging" => me.base = "main"
           /\ me.base = "main" => me.sha = me.policy,
         step \in Verdict!AfterBase => me.sha <= branches[me.base],
         step \in Verdict!AfterCommits /\ runs[me.run].ref = "staging" =>
           On[runs[me.run].head] = me.sha
  PROVE  ReadsOf([me EXCEPT !.step = step])
<1> DEFINE new == [me EXCEPT !.step = step]
<1>1. /\ new.step = step /\ new.run = me.run /\ new.base = me.base /\ new.sha = me.sha
      /\ new.policy = me.policy
  BY StepOnly
<1>2. step \notin Verdict!AfterJobs
  BY DEF Verdict!ReadSteps, Verdict!AfterJobs
<1> HIDE DEF new
<1>3. ReadsOf(new)
  BY <1>1, <1>2 DEF ReadsOf
<1> QED
  BY <1>3 DEF new

(* The steps before which each fact has been read.                         *)
LEMMA After ==
  /\ "run" \notin Verdict!AfterMain /\ "main" \notin Verdict!AfterMain
  /\ \A s \in {"pull", "base", "actor", "commits", "ref", "jobs", "list", "post"} :
       s \in Verdict!AfterMain
  /\ \A s \in {"base", "actor", "commits", "ref", "jobs", "list", "post"} :
       s \in Verdict!AfterPull
  /\ \A s \in {"actor", "commits", "ref", "jobs", "list", "post"} : s \in Verdict!AfterBase
  /\ \A s \in {"ref", "jobs", "list", "post"} : s \in Verdict!AfterCommits
  /\ \A s \in {"list", "post"} : s \in Verdict!AfterJobs
  /\ \A s \in {"run", "main", "pull"} : s \notin Verdict!AfterPull
  /\ \A s \in {"run", "main", "pull", "base"} : s \notin Verdict!AfterBase
  /\ \A s \in {"run", "main", "pull", "base", "actor", "commits"} :
       s \notin Verdict!AfterCommits
  /\ \A s \in {"run", "main", "pull", "base", "actor", "commits", "ref", "jobs"} :
       s \notin Verdict!AfterJobs
  BY DEF Verdict!AfterMain, Verdict!AfterPull, Verdict!AfterBase, Verdict!AfterCommits,
         Verdict!AfterJobs

(* The run is read (ReadRun): all checks are of attempts that have ended,  *)
(* and this is the last of them.                                           *)
LEMMA ReadRunInv ==
  ASSUME Verdict!IInv, NEW r \in Verdict!Reporters, Verdict!Working(r), Verdict!ReadRun(r)
  PROVE  Verdict!IInv'
<1> DEFINE me  == reporter[r]
           new == [me EXCEPT !.step = "main"]
<1>1. CASE Verdict!Run(r).attempt = me.attempt /\ Verdict!Run(r).step = "completed"
  <2>1. reporter' = [reporter EXCEPT ![r] = new] /\ UNCHANGED <<Verdict!repository, runs, checks>>
    BY <1>1 DEF Verdict!ReadRun, Verdict!Require
  <2>2. /\ new.step = "main" /\ new.run = me.run /\ new.attempt = me.attempt
        /\ new.again = me.again /\ new.base = me.base /\ new.sha = me.sha
        /\ new.policy = me.policy /\ new.conclusion = me.conclusion /\ new.tips = me.tips
    BY WorkFacts, StepOnly
  <2>3. OrdersOf(new)
    <3>1. runs[me.run].results \in Seq(Verdict!Results)
      BY WorkFacts DEF Verdict!CiRuns
    <3>2. runs[me.run].attempt = Len(runs[me.run].results) /\ runs[me.run].attempt = me.attempt
      <4>1. me.run \in DOMAIN runs
        BY WorkFacts DEF Verdict!HasEnded
      <4>2. runs[me.run].attempt = Len(runs[me.run].results)
                                    + (IF runs[me.run].step = "completed" THEN 0 ELSE 1)
        BY <4>1, RunTyped
      <4>3. Len(runs[me.run].results) \in Nat
        BY <3>1
      <4> QED
        BY <1>1, <4>2, <4>3 DEF Verdict!Run
    <3>3. ASSUME NEW k \in DOMAIN checks, checks[k].run = me.run
          PROVE  checks[k].attempt <= me.attempt
      <4>1. checks[k].attempt \in DOMAIN runs[me.run].results
        BY <3>3 DEF Verdict!IInv, Verdict!EndedInv, Verdict!HasEnded
      <4>2. /\ DOMAIN runs[me.run].results = 1..Len(runs[me.run].results)
            /\ Len(runs[me.run].results) \in Nat
        BY <3>1
      <4>3. checks[k].attempt \in 1..Len(runs[me.run].results)
        BY <4>1, <4>2
      <4>4. \A n \in Nat : \A m \in 1..n : m <= n
        OBVIOUS
      <4>5. checks[k].attempt <= Len(runs[me.run].results)
        BY <4>2, <4>3, <4>4
      <4> QED
        BY <3>2, <4>5
    <3> HIDE DEF new
    <3> QED
      BY <2>2, <3>3 DEF OrdersOf
  <2>4. /\ "main" \notin Verdict!AfterMain /\ "main" \notin Verdict!AfterPull
        /\ "main" \notin Verdict!AfterBase /\ "main" \notin Verdict!AfterCommits
        /\ "main" \notin Verdict!AfterJobs
    BY After
  <2>5. ReadsOf(new) /\ RoundsOf(new)
    BY <2>4, WorkFacts, ReadsKept, RoundsKept DEF Verdict!ReadSteps
  <2> HIDE DEF new
  <2> QED
    BY <2>1, <2>3, <2>5, StepTo DEF new, Verdict!ReadSteps
<1>2. CASE ~(Verdict!Run(r).attempt = me.attempt /\ Verdict!Run(r).step = "completed")
  BY <1>2, StoppedInv DEF Verdict!ReadRun, Verdict!Require
<1> QED
  BY <1>1, <1>2

(* The policy is read (ReadMain): it has not moved since the round began,  *)
(* for it has not moved back since.                                        *)
LEMMA ReadMainInv ==
  ASSUME Verdict!IInv, NEW r \in Verdict!Reporters, Verdict!Working(r), Verdict!ReadMain(r)
  PROVE  Verdict!IInv'
<1> DEFINE me  == reporter[r]
           new == [me EXCEPT !.step = "pull"]
<1>1. CASE branches.main = me.policy /\ Verdict!SameWorkflow(r)
  <2>1. /\ reporter' = [reporter EXCEPT ![r] = new] /\ me.step = "main"
        /\ UNCHANGED <<Verdict!repository, runs, checks>>
    BY <1>1 DEF Verdict!ReadMain, Verdict!Require, Verdict!At
  <2>2. /\ "pull" \notin Verdict!AfterPull /\ "pull" \notin Verdict!AfterBase
        /\ "pull" \notin Verdict!AfterCommits /\ "pull" \notin Verdict!AfterJobs
    BY After
  <2>3. /\ me.policy <= branches["main"] /\ me.policy = branches["main"]
        /\ runs[me.run].ref = "staging" \/ runs[me.run].head \notin OwnWorkflow
    BY <1>1, WorkFacts DEF Verdict!SameWorkflow, Verdict!Staged, Verdict!Run
  <2>4. me.again => me.tips["main"] = me.policy
    <3>1. ASSUME me.again PROVE me.tips["main"] <= branches["main"] /\ me.policy <= me.tips["main"]
      BY <3>1, WorkFacts DEF RoundsOf
    <3>2. me.tips["main"] \in Nat /\ me.policy \in Nat
      BY WorkFacts DEF Verdict!AtWork
    <3> QED
      BY <2>3, <3>1, <3>2
  <2>5. me \in Verdict!AtWork /\ RoundsOf(me) /\ OrdersOf(me) /\ "pull" \in Verdict!ReadSteps
    BY WorkFacts DEF Verdict!ReadSteps
  <2>6. ReadsOf(new)
    BY <2>2, <2>3, <2>5, ReadsKept
  <2>7. RoundsOf(new)
    BY <2>2, <2>4, <2>5, RoundsKept
  <2>8. OrdersOf(new)
    BY <2>1, <2>5, StepOnly DEF OrdersOf
  <2> HIDE DEF new
  <2> QED
    BY <2>1, <2>5, <2>6, <2>7, <2>8, StepTo DEF new
<1>2. CASE ~(branches.main = me.policy /\ Verdict!SameWorkflow(r))
  BY <1>2, StoppedInv DEF Verdict!ReadMain, Verdict!Require
<1> QED
  BY <1>1, <1>2

(* The base is read (ReadBase): it is where the pull request has it.       *)
LEMMA ReadBaseInv ==
  ASSUME Verdict!IInv, NEW r \in Verdict!Reporters, Verdict!Working(r), Verdict!ReadBase(r)
  PROVE  Verdict!IInv'
<1> DEFINE me  == reporter[r]
           new == [me EXCEPT !.step = "commits"]
<1>1. CASE branches[me.base] = me.sha
  <2>1. /\ reporter' = [reporter EXCEPT ![r] = new] /\ me.step = "base"
        /\ UNCHANGED <<Verdict!repository, runs, checks>>
    BY <1>1 DEF Verdict!ReadBase, Verdict!Require, Verdict!At
  <2>2. /\ "base" \in Verdict!AfterMain /\ "base" \in Verdict!AfterPull
        /\ "commits" \notin Verdict!AfterCommits /\ "commits" \notin Verdict!AfterJobs
    BY After
  <2>3. /\ me.policy <= branches["main"] /\ me.sha <= branches[me.base]
        /\ runs[me.run].ref = "staging" \/ runs[me.run].head \notin OwnWorkflow
        /\ runs[me.run].ref = "staging" => me.base = "main"
        /\ me.base = "main" => me.sha = me.policy
    BY <1>1, <2>1, <2>2, WorkFacts DEF ReadsOf, Verdict!AtWork
  <2>4. me.again => me.tips["main"] = me.policy /\ me.tips[me.base] <= me.sha
    BY <1>1, <2>1, <2>2, WorkFacts DEF RoundsOf, Verdict!AtWork
  <2>5. me \in Verdict!AtWork /\ RoundsOf(me) /\ OrdersOf(me) /\ "commits" \in Verdict!ReadSteps
    BY WorkFacts DEF Verdict!ReadSteps
  <2>6. ReadsOf(new)
    BY <2>2, <2>3, <2>5, ReadsKept
  <2>7. RoundsOf(new)
    BY <2>2, <2>4, <2>5, RoundsKept
  <2>8. OrdersOf(new)
    BY <2>1, <2>5, StepOnly DEF OrdersOf
  <2> HIDE DEF new
  <2> QED
    BY <2>1, <2>5, <2>6, <2>7, <2>8, StepTo DEF new
<1>2. CASE ~(branches[me.base] = me.sha)
  BY <1>2, StoppedInv DEF Verdict!ReadBase, Verdict!Require
<1> QED
  BY <1>1, <1>2

(* The permission is read (ReadActor).                                     *)
LEMMA ReadActorInv ==
  ASSUME Verdict!IInv, NEW r \in Verdict!Reporters, Verdict!Working(r), Verdict!ReadActor(r)
  PROVE  Verdict!IInv'
<1> DEFINE me  == reporter[r]
           new == [me EXCEPT !.step = "commits"]
<1>1. CASE writer
  <2>1. /\ reporter' = [reporter EXCEPT ![r] = new] /\ me.step = "actor"
        /\ UNCHANGED <<Verdict!repository, runs, checks>>
    BY <1>1 DEF Verdict!ReadActor, Verdict!Require, Verdict!At
  <2>2. /\ "actor" \in Verdict!AfterMain /\ "actor" \in Verdict!AfterPull
        /\ "actor" \in Verdict!AfterBase /\ "commits" \notin Verdict!AfterJobs
        /\ "commits" \notin Verdict!AfterCommits
    BY After
  <2>3. /\ me.policy <= branches["main"] /\ me.sha <= branches[me.base]
        /\ runs[me.run].ref = "staging" \/ runs[me.run].head \notin OwnWorkflow
        /\ runs[me.run].ref = "staging" => me.base = "main"
        /\ me.base = "main" => me.sha = me.policy
    BY <2>1, <2>2, WorkFacts DEF ReadsOf, Verdict!Staged, Verdict!Run
  <2>4. me.again => me.tips["main"] = me.policy /\ me.tips[me.base] <= me.sha
    BY <2>1, <2>2, WorkFacts DEF RoundsOf
  <2>5. me \in Verdict!AtWork /\ RoundsOf(me) /\ OrdersOf(me) /\ "commits" \in Verdict!ReadSteps
    BY WorkFacts DEF Verdict!ReadSteps
  <2>6. ReadsOf(new)
    BY <2>2, <2>3, <2>5, ReadsKept
  <2>7. RoundsOf(new)
    BY <2>2, <2>4, <2>5, RoundsKept
  <2>8. OrdersOf(new)
    BY <2>1, <2>5, StepOnly DEF OrdersOf
  <2> HIDE DEF new
  <2> QED
    BY <2>1, <2>5, <2>6, <2>7, <2>8, StepTo DEF new
<1>2. CASE ~(writer)
  BY <1>2, StoppedInv DEF Verdict!ReadActor, Verdict!Require
<1> QED
  BY <1>1, <1>2

(* The commits are read (ReadCommits): a staged head succeeds the base.    *)
LEMMA ReadCommitsInv ==
  ASSUME Verdict!IInv, NEW r \in Verdict!Reporters, Verdict!Working(r), Verdict!ReadCommits(r)
  PROVE  Verdict!IInv'
<1> DEFINE me  == reporter[r]
           new == [me EXCEPT !.step = "ref"]
<1>1. CASE /\ request.head = Verdict!Run(r).head
           /\ Verdict!Staged(r) => On[Verdict!Run(r).head] = me.sha
  <2>1. /\ reporter' = [reporter EXCEPT ![r] = new] /\ me.step = "commits"
        /\ UNCHANGED <<Verdict!repository, runs, checks>>
    BY <1>1 DEF Verdict!ReadCommits, Verdict!Require, Verdict!At
  <2>2. /\ "commits" \in Verdict!AfterMain /\ "commits" \in Verdict!AfterPull
        /\ "commits" \in Verdict!AfterBase /\ "ref" \notin Verdict!AfterJobs
    BY After
  <2>3. /\ me.policy <= branches["main"] /\ me.sha <= branches[me.base]
        /\ runs[me.run].ref = "staging" \/ runs[me.run].head \notin OwnWorkflow
        /\ runs[me.run].ref = "staging" => me.base = "main"
        /\ me.base = "main" => me.sha = me.policy
        /\ runs[me.run].ref = "staging" => On[runs[me.run].head] = me.sha
    BY <1>1, <2>1, <2>2, WorkFacts DEF ReadsOf, Verdict!Staged, Verdict!Run
  <2>4. me.again => me.tips["main"] = me.policy /\ me.tips[me.base] <= me.sha
    BY <2>1, <2>2, WorkFacts DEF RoundsOf
  <2>5. me \in Verdict!AtWork /\ RoundsOf(me) /\ OrdersOf(me) /\ "ref" \in Verdict!ReadSteps
    BY WorkFacts DEF Verdict!ReadSteps
  <2>6. ReadsOf(new)
    BY <2>2, <2>3, <2>5, ReadsKept
  <2>7. RoundsOf(new)
    BY <2>2, <2>4, <2>5, RoundsKept
  <2>8. OrdersOf(new)
    BY <2>1, <2>5, StepOnly DEF OrdersOf
  <2> HIDE DEF new
  <2> QED
    BY <2>1, <2>5, <2>6, <2>7, <2>8, StepTo DEF new
<1>2. CASE ~(/\ request.head = Verdict!Run(r).head
             /\ Verdict!Staged(r) => On[Verdict!Run(r).head] = me.sha)
  BY <1>2, StoppedInv DEF Verdict!ReadCommits, Verdict!Require
<1> QED
  BY <1>1, <1>2

(* The copied ref is read (ReadRef).                                       *)
LEMMA ReadRefInv ==
  ASSUME Verdict!IInv, NEW r \in Verdict!Reporters, Verdict!Working(r), Verdict!ReadRef(r)
  PROVE  Verdict!IInv'
<1> DEFINE me  == reporter[r]
           new == [me EXCEPT !.step = "jobs"]
<1>1. CASE Verdict!Staged(r) \/ staged = Verdict!Run(r).head
  <2>1. /\ reporter' = [reporter EXCEPT ![r] = new] /\ me.step = "ref"
        /\ UNCHANGED <<Verdict!repository, runs, checks>>
    BY <1>1 DEF Verdict!ReadRef, Verdict!Require, Verdict!At
  <2>2. /\ "ref" \in Verdict!AfterMain /\ "ref" \in Verdict!AfterPull
        /\ "ref" \in Verdict!AfterBase /\ "jobs" \notin Verdict!AfterJobs
        /\ "ref" \in Verdict!AfterCommits
    BY After
  <2>3. /\ me.policy <= branches["main"] /\ me.sha <= branches[me.base]
        /\ runs[me.run].ref = "staging" \/ runs[me.run].head \notin OwnWorkflow
        /\ runs[me.run].ref = "staging" => me.base = "main"
        /\ me.base = "main" => me.sha = me.policy
        /\ runs[me.run].ref = "staging" => On[runs[me.run].head] = me.sha
    BY <1>1, <2>1, <2>2, WorkFacts DEF ReadsOf, Verdict!Staged, Verdict!Run
  <2>4. me.again => me.tips["main"] = me.policy /\ me.tips[me.base] <= me.sha
    BY <2>1, <2>2, WorkFacts DEF RoundsOf
  <2>5. me \in Verdict!AtWork /\ RoundsOf(me) /\ OrdersOf(me) /\ "jobs" \in Verdict!ReadSteps
    BY WorkFacts DEF Verdict!ReadSteps
  <2>6. ReadsOf(new)
    BY <2>2, <2>3, <2>5, ReadsKept
  <2>7. RoundsOf(new)
    BY <2>2, <2>4, <2>5, RoundsKept
  <2>8. OrdersOf(new)
    BY <2>1, <2>5, StepOnly DEF OrdersOf
  <2> HIDE DEF new
  <2> QED
    BY <2>1, <2>5, <2>6, <2>7, <2>8, StepTo DEF new
<1>2. CASE ~(Verdict!Staged(r) \/ staged = Verdict!Run(r).head)
  BY <1>2, StoppedInv DEF Verdict!ReadRef, Verdict!Require
<1> QED
  BY <1>1, <1>2

(* The pull request is read (ReadPull): based on main it has the policy as *)
(* its base.                                                               *)
LEMMA PullReadInv ==
  ASSUME Verdict!IInv, NEW r \in Verdict!Reporters, Verdict!Working(r), Verdict!ReadPull(r)
  PROVE  Verdict!IInv'
<1> DEFINE me   == reporter[r]
           step == IF request.base # "main" THEN "base"
                   ELSE IF Verdict!Staged(r) THEN "actor" ELSE "commits"
           new  == [me EXCEPT !.base = request.base, !.sha = request.sha, !.step = step]
<1>1. me.step = "pull" /\ UNCHANGED <<Verdict!repository, runs, checks>>
  BY DEF Verdict!ReadPull, Verdict!At
<1>2. CASE /\ Verdict!Staged(r) => request.base = "main"
           /\ request.base = "main" => request.sha = me.policy
           /\ reporter' = [reporter EXCEPT ![r] = new]
  <2>1. /\ me \in Verdict!AtWork /\ request.base \in Verdict!Bases /\ request.sha \in Nat
        /\ RoundsOf(me) /\ OrdersOf(me) /\ branches \in [Verdict!Bases -> Nat]
    BY WorkFacts
  <2>2. step \in {"base", "actor", "commits"} /\ (step # "base" => request.base = "main")
    OBVIOUS
  <2>3. step \in Verdict!ReadSteps
    BY <2>2 DEF Verdict!ReadSteps
  <2> HIDE DEF step
  <2>4. /\ new \in Verdict!AtWork /\ new.run = me.run /\ new.attempt = me.attempt
        /\ new.again = me.again /\ new.base = request.base /\ new.sha = request.sha
        /\ new.policy = me.policy /\ new.tips = me.tips /\ new.step = step
    BY <2>1, <2>3 DEF Verdict!AtWork
  <2> HIDE DEF new
  <2>5. /\ me.step \in Verdict!AfterMain /\ step \notin Verdict!AfterJobs
        /\ step \notin Verdict!AfterCommits /\ "base" \notin Verdict!AfterBase
    BY <1>1, <2>2, After
  <2>6. /\ me.policy <= branches["main"]
        /\ runs[me.run].ref = "staging" \/ runs[me.run].head \notin OwnWorkflow
    BY <2>5, WorkFacts DEF ReadsOf
  <2>7. ReadsOf(new)
    <3>1. /\ runs[me.run].ref = "staging" => request.base = "main"
          /\ request.base = "main" => request.sha = me.policy
      BY <1>2 DEF Verdict!Staged, Verdict!Run
    <3>2. step \in Verdict!AfterBase => request.sha <= branches[request.base]
      BY <2>2, <2>5, <2>6, <3>1
    <3> QED
      BY <2>4, <2>5, <2>6, <3>1, <3>2 DEF ReadsOf
  <2>8. RoundsOf(new)
    <3>1. Verdict!Ending(new) = Verdict!Ending(me)
      BY <2>4 DEF Verdict!Ending
    <3> SUFFICES ASSUME new.again
                 PROVE  /\ \A b \in Verdict!Bases : new.tips[b] <= branches[b]
                        /\ new.policy <= new.tips["main"]
                        /\ runs[new.run].ref # "staging" =>
                             Verdict!Ending(new).name.sha <= new.tips[Verdict!Ending(new).name.base]
                        /\ new.tips["main"] = new.policy
                        /\ new.step \in Verdict!AfterBase => new.tips[new.base] <= new.sha
      BY <2>4, <2>5 DEF RoundsOf
    <3>2. /\ \A b \in Verdict!Bases : me.tips[b] <= branches[b]
          /\ me.policy <= me.tips["main"] /\ me.tips["main"] = me.policy
          /\ runs[me.run].ref # "staging" =>
               Verdict!Ending(me).name.sha <= me.tips[Verdict!Ending(me).name.base]
      BY <2>1, <2>4, <2>5 DEF RoundsOf
    <3>3. me.policy \in Nat
      BY <2>1 DEF Verdict!AtWork
    <3>4. step \in Verdict!AfterBase => me.tips[request.base] <= request.sha
      BY <1>2, <2>2, <2>5, <3>2, <3>3
    <3> QED
      BY <2>4, <3>1, <3>2, <3>4
  <2>9. OrdersOf(new)
    BY <1>1, <2>1, <2>2, <2>4 DEF OrdersOf
  <2> QED
    BY <1>1, <1>2, <2>4, <2>7, <2>8, <2>9, RecordInv
<1>3. CASE reporter' = [reporter EXCEPT ![r] = Verdict!Idle]
  BY <1>1, <1>3, StoppedInv
<1>4. reporter[r] \in Verdict!AtWork
  BY WorkFacts
<1>5. [reporter EXCEPT ![r].base = request.base, ![r].sha = request.sha, ![r].step = step]
        = [reporter EXCEPT ![r] = new]
  <2>1. reporter \in [Verdict!Reporters -> {Verdict!Idle} \cup Verdict!AtWork]
    BY DEF Verdict!IInv, Verdict!TypeOK
  <2> HIDE DEF step
  <2> QED
    BY <1>4, <2>1 DEF Verdict!AtWork
<1> QED
  BY <1>2, <1>3, <1>5 DEF Verdict!ReadPull

(* The jobs are read (ReadJobs).  The first round ends, and the second     *)
(* begins with the branches as they are; after the second the name of the  *)
(* binding is confirmed, whose base had been reached when the round began. *)
LEMMA ReadJobsInv ==
  ASSUME Verdict!IInv, NEW r \in Verdict!Reporters, Verdict!Working(r), Verdict!ReadJobs(r)
  PROVE  Verdict!IInv'
<1> DEFINE me   == reporter[r]
           new  == [me EXCEPT !.step = Verdict!NextRound(r), !.again = TRUE,
                      !.tips = IF me.again THEN @ ELSE branches,
                      !.conclusion = Verdict!Ending(me).conclusion]
<1>1. me.step = "jobs" /\ UNCHANGED <<Verdict!repository, runs, checks>>
  BY DEF Verdict!ReadJobs, Verdict!At
<1>2. CASE Verdict!Authoritative(r) /\ reporter' = [reporter EXCEPT ![r] = new]
  <2>1. /\ me \in Verdict!AtWork /\ RoundsOf(me) /\ OrdersOf(me)
        /\ branches \in [Verdict!Bases -> Nat] /\ Verdict!Ending(me) \in Verdict!Results
        /\ "main" \in Verdict!Bases
    BY WorkFacts
  <2>2. /\ me.step \in Verdict!AfterMain /\ me.step \in Verdict!AfterPull
        /\ me.step \in Verdict!AfterBase /\ me.step \in Verdict!AfterCommits
    BY <1>1, After
  <2>3. /\ me.policy <= branches["main"] /\ me.sha <= branches[me.base]
        /\ runs[me.run].ref = "staging" \/ runs[me.run].head \notin OwnWorkflow
        /\ runs[me.run].ref = "staging" => me.base = "main"
        /\ me.base = "main" => me.sha = me.policy
        /\ runs[me.run].ref = "staging" => On[runs[me.run].head] = me.sha
    BY <2>2, WorkFacts DEF ReadsOf
  <2>4. runs[me.run].ref # "staging" =>
          Verdict!Ending(me).name = [policy |-> me.policy, base |-> me.base, sha |-> me.sha]
    BY <1>2 DEF Verdict!Authoritative, Verdict!Staged, Verdict!Run, Verdict!Ending
  <2>5. Verdict!Ending(me).conclusion \in Verdict!Conclusions
    BY <2>1 DEF Verdict!Results
  <2>6. CASE me.again
    <3>1. new = [me EXCEPT !.step = "list", !.again = TRUE, !.tips = me.tips,
                   !.conclusion = Verdict!Ending(me).conclusion]
      BY <2>6 DEF Verdict!NextRound
    <3> HIDE DEF new
    <3>2. /\ new \in Verdict!AtWork /\ new.run = me.run /\ new.attempt = me.attempt
          /\ new.again = TRUE /\ new.base = me.base /\ new.sha = me.sha
          /\ new.policy = me.policy /\ new.tips = me.tips /\ new.step = "list"
          /\ new.conclusion = Verdict!Ending(me).conclusion
      BY <2>1, <2>5, <3>1 DEF Verdict!AtWork
    <3>3. Verdict!Ending(new) = Verdict!Ending(me) /\ Verdict!Speaks(new)
      BY <2>3, <2>4, <3>2 DEF Verdict!Ending, Verdict!Speaks
    <3>4. ReadsOf(new)
      BY <2>3, <3>2, <3>3 DEF ReadsOf
    <3>5. RoundsOf(new)
      <4>1. /\ \A b \in Verdict!Bases : me.tips[b] <= branches[b]
            /\ me.policy <= me.tips["main"] /\ me.tips["main"] = me.policy
            /\ runs[me.run].ref # "staging" =>
                 Verdict!Ending(me).name.sha <= me.tips[Verdict!Ending(me).name.base]
            /\ me.tips[me.base] <= me.sha
        BY <2>1, <2>2, <2>6 DEF RoundsOf
      <4>2. me.sha \in Nat /\ me.tips[me.base] \in Nat
        BY <2>1 DEF Verdict!AtWork
      <4>3. me.tips[me.base] = me.sha
        <5>1. CASE runs[me.run].ref = "staging"
          BY <2>3, <4>1, <5>1
        <5>2. CASE runs[me.run].ref # "staging"
          <6>1. me.sha <= me.tips[me.base]
            BY <2>4, <4>1, <5>2
          <6> QED
            BY <4>1, <4>2, <6>1
        <5> QED
          BY <5>1, <5>2
      <4> QED
        BY <3>2, <3>3, <4>1, <4>2, <4>3 DEF RoundsOf
    <3>6. OrdersOf(new)
      BY <1>1, <2>1, <3>2 DEF OrdersOf
    <3> QED
      BY <1>1, <1>2, <3>2, <3>4, <3>5, <3>6, RecordInv
  <2>7. CASE ~me.again
    <3>1. new = [me EXCEPT !.step = "run", !.again = TRUE, !.tips = branches,
                   !.conclusion = Verdict!Ending(me).conclusion]
      BY <2>7 DEF Verdict!NextRound
    <3> HIDE DEF new
    <3>2. /\ new \in Verdict!AtWork /\ new.run = me.run /\ new.attempt = me.attempt
          /\ new.base = me.base /\ new.sha = me.sha
          /\ new.policy = me.policy /\ new.tips = branches /\ new.step = "run"
      BY <2>1, <2>5, <3>1 DEF Verdict!AtWork, Verdict!ReadSteps
    <3>3. Verdict!Ending(new) = Verdict!Ending(me)
      BY <3>2 DEF Verdict!Ending
    <3>4. /\ new.step \notin Verdict!AfterMain /\ new.step \notin Verdict!AfterPull
          /\ new.step \notin Verdict!AfterBase /\ new.step \notin Verdict!AfterCommits
          /\ new.step \notin Verdict!AfterJobs
      BY <3>2, After
    <3>5. ReadsOf(new) /\ OrdersOf(new)
      BY <3>2, <3>4 DEF ReadsOf, OrdersOf
    <3>6. RoundsOf(new)
      <4>1. \A b \in Verdict!Bases : branches[b] <= branches[b]
        BY <2>1
      <4>2. runs[me.run].ref # "staging" =>
              Verdict!Ending(me).name.sha <= branches[Verdict!Ending(me).name.base]
        BY <2>3, <2>4
      <4> QED
        BY <2>3, <3>2, <3>3, <3>4, <4>1, <4>2 DEF RoundsOf
    <3> QED
      BY <1>1, <1>2, <3>2, <3>5, <3>6, RecordInv
  <2> QED
    BY <2>6, <2>7
<1>3. CASE reporter' = [reporter EXCEPT ![r] = Verdict!Idle]
  BY <1>1, <1>3, StoppedInv
<1>4. Verdict!Run(r).results[reporter[r].attempt].conclusion = Verdict!Ending(me).conclusion
  BY DEF Verdict!Ending, Verdict!Run
<1>5. CASE Verdict!Authoritative(r)
  <2>1. reporter' = [reporter EXCEPT ![r] = new]
    BY <1>4, <1>5 DEF Verdict!ReadJobs
  <2> QED
    BY <1>2, <1>5, <2>1
<1>6. CASE ~Verdict!Authoritative(r)
  BY <1>3, <1>6 DEF Verdict!ReadJobs
<1> QED
  BY <1>5, <1>6

(* The checks are listed (List): one of the same attempt speaks for the    *)
(* same base, so that it is found.                                         *)
LEMMA ListInv ==
  ASSUME Verdict!IInv, NEW r \in Verdict!Reporters, Verdict!Working(r), Verdict!List(r)
  PROVE  Verdict!IInv'
<1> DEFINE me  == reporter[r]
           new == [me EXCEPT !.step = "post"]
<1>1. CASE ~Verdict!Found(r)
  <2>1. /\ reporter' = [reporter EXCEPT ![r] = new] /\ me.step = "list"
        /\ UNCHANGED <<Verdict!repository, runs, checks>>
    BY <1>1 DEF Verdict!List, Verdict!Require, Verdict!At
  <2>2. /\ "list" \in Verdict!AfterMain /\ "list" \in Verdict!AfterPull
        /\ "list" \in Verdict!AfterBase /\ "list" \in Verdict!AfterCommits
        /\ "list" \in Verdict!AfterJobs
    BY After
  <2>3. me \in Verdict!AtWork /\ ReadsOf(me) /\ RoundsOf(me) /\ OrdersOf(me)
    BY WorkFacts
  <2>4. /\ new.step = "post" /\ new.run = me.run /\ new.attempt = me.attempt
        /\ new.again = me.again /\ new.base = me.base /\ new.sha = me.sha
        /\ new.policy = me.policy /\ new.conclusion = me.conclusion /\ new.tips = me.tips
    BY <2>3, StepOnly
  <2>5. Verdict!Speaks(me) /\ me.again
    BY <2>1, <2>2, <2>3 DEF ReadsOf
  <2>6. RoundsOf(new)
    <3>1. me.again => /\ me.tips["main"] = me.policy /\ me.tips[me.base] <= me.sha
                      /\ me.tips[me.base] = me.sha
      BY <2>1, <2>2, <2>3 DEF RoundsOf
    <3> QED
      BY <2>3, <3>1, RoundsKept
  <2> HIDE DEF new
  <2>7. Verdict!Ending(new) = Verdict!Ending(me) /\ Verdict!Speaks(new)
    BY <2>4, <2>5 DEF Verdict!Ending, Verdict!Speaks
  <2>8. ReadsOf(new)
    BY <2>1, <2>2, <2>3, <2>4, <2>7 DEF ReadsOf
  <2>9. OrdersOf(new)
    <3>1. ASSUME NEW k \in DOMAIN checks, checks[k].run = me.run
          PROVE  checks[k].attempt # me.attempt
      <4> SUFFICES ASSUME checks[k].attempt = me.attempt PROVE FALSE
        OBVIOUS
      <4>1. Verdict!Speaks(checks[k]) /\ Verdict!Ending(checks[k]) = Verdict!Ending(me)
        BY <3>1 DEF Verdict!IInv, Verdict!CheckInv, Verdict!Ending
      <4>2. checks[k].base = me.base /\ checks[k].sha = me.sha
        BY <2>5, <3>1, <4>1 DEF Verdict!Speaks
      <4> QED
        BY <1>1, <3>1, <4>2 DEF Verdict!Found
    <3> QED
      BY <2>1, <2>3, <2>4, <3>1 DEF OrdersOf
  <2> QED
    BY <2>1, <2>6, <2>8, <2>9, StepTo DEF new
<1>2. CASE Verdict!Found(r)
  BY <1>2, StoppedInv DEF Verdict!List, Verdict!Require
<1> QED
  BY <1>1, <1>2

(* The check is created (Post): it says what its reporter has read, which  *)
(* no other reporter's order is about.                                     *)
LEMMA PostInv ==
  ASSUME Verdict!IInv, NEW r \in Verdict!Reporters, Verdict!Working(r), Verdict!Post(r)
  PROVE  Verdict!IInv'
<1> DEFINE me  == reporter[r]
           new == [run |-> me.run, attempt |-> me.attempt, base |-> me.base, sha |-> me.sha,
                   policy |-> me.policy, tips |-> me.tips,
                   conclusion |-> Verdict!CheckConclusion(me.conclusion)]
<1>1. /\ me.step = "post" /\ UNCHANGED <<Verdict!repository, runs>>
      /\ reporter' = [reporter EXCEPT ![r] = Verdict!Idle] /\ checks' = Append(checks, new)
  BY DEF Verdict!Post, Verdict!At
<1>2. /\ me \in Verdict!AtWork /\ ReadsOf(me) /\ RoundsOf(me) /\ OrdersOf(me)
      /\ Verdict!HasEnded(me)
  BY WorkFacts
<1>3. /\ me.step \in Verdict!AfterMain /\ me.step \in Verdict!AfterPull
      /\ me.step \in Verdict!AfterBase /\ me.step \in Verdict!AfterJobs
  BY <1>1, After
<1>4. /\ Verdict!Speaks(me) /\ me.conclusion = Verdict!Ending(me).conclusion
      /\ me.tips["main"] = me.policy /\ me.tips[me.base] = me.sha
  BY <1>2, <1>3 DEF ReadsOf, RoundsOf
<1>5. /\ checks \in Seq(Verdict!Checks) /\ new \in Verdict!Checks
      /\ reporter \in [Verdict!Reporters -> {Verdict!Idle} \cup Verdict!AtWork]
  BY <1>2 DEF Verdict!IInv, Verdict!TypeOK, Verdict!AtWork, Verdict!Checks,
              Verdict!CheckConclusion
<1>6. /\ new.run = me.run /\ new.attempt = me.attempt /\ new.base = me.base
      /\ new.sha = me.sha /\ new.policy = me.policy /\ new.tips = me.tips
      /\ new.conclusion = "success" => me.conclusion = "success"
  BY DEF Verdict!CheckConclusion
<1> HIDE DEF new
<1>7. /\ checks' \in Seq(Verdict!Checks) /\ Len(checks) \in Nat
      /\ DOMAIN checks = 1..Len(checks) /\ DOMAIN checks' = DOMAIN checks \cup {Len(checks) + 1}
      /\ checks'[Len(checks) + 1] = new
      /\ \A k \in DOMAIN checks : checks'[k] = checks[k]
  BY <1>1, <1>5
<1>8. reporter' \in [Verdict!Reporters -> {Verdict!Idle} \cup Verdict!AtWork]
  BY <1>1, <1>5
<1>9. Verdict!TypeOK' /\ Verdict!BoundInv'
  BY <1>1, <1>7, <1>8, OthersTyped
<1>10. /\ reporter'[r] = Verdict!Idle /\ ~Verdict!Working(r)'
       /\ \A q \in Verdict!Reporters : q # r => reporter'[q] = reporter[q]
       /\ \A q \in Verdict!Reporters : q # r /\ Verdict!Working(q)' =>
            Verdict!Working(q) /\ Verdict!ReadOK(q)' /\ Verdict!RoundOK(q)'
  BY <1>1, OtherReporters DEF Verdict!Working
<1>11. Verdict!EndedInv'
  <2>1. ASSUME NEW k \in DOMAIN checks'
        PROVE  checks'[k].run \in DOMAIN runs
               /\ checks'[k].attempt \in DOMAIN runs[checks'[k].run].results
    BY <1>2, <1>6, <1>7 DEF Verdict!IInv, Verdict!EndedInv, Verdict!HasEnded
  <2>2. ASSUME NEW q \in Verdict!Reporters, Verdict!Working(q)'
        PROVE  reporter'[q].run \in DOMAIN runs
               /\ reporter'[q].attempt \in DOMAIN runs[reporter'[q].run].results
    BY <1>10, <2>2 DEF Verdict!IInv, Verdict!EndedInv, Verdict!HasEnded
  <2> QED
    BY <1>1, <2>1, <2>2 DEF Verdict!EndedInv, Verdict!HasEnded
<1>12. Verdict!SerialInv'
  <2> SUFFICES ASSUME NEW p \in Verdict!Reporters, NEW q \in Verdict!Reporters,
                      Verdict!Working(p)', reporter'[p].run = reporter'[q].run
               PROVE  p = q
    BY DEF Verdict!SerialInv
  <2>1. p # r /\ Verdict!Working(p) /\ reporter'[p] = reporter[p]
    BY <1>10
  <2>2. reporter[p].run \in Nat \ {0}
    BY <1>5, <2>1 DEF Verdict!Working, Verdict!AtWork
  <2>3. CASE q = r
    BY <1>10, <2>1, <2>2, <2>3 DEF Verdict!Idle
  <2>4. CASE q # r
    BY <1>10, <2>1, <2>4 DEF Verdict!IInv, Verdict!SerialInv
  <2> QED
    BY <2>3, <2>4
<1>13. Verdict!ReadInv' /\ Verdict!RoundInv'
  BY <1>10 DEF Verdict!ReadInv, Verdict!RoundInv
<1>14. Verdict!CheckInv'
  <2>1. ASSUME NEW k \in DOMAIN checks'
        PROVE  /\ Verdict!Speaks(checks'[k])
               /\ checks'[k].conclusion = "success" =>
                    Verdict!Ending(checks'[k]).conclusion = "success"
    <3>1. CASE k \in DOMAIN checks
      BY <1>7, <3>1 DEF Verdict!IInv, Verdict!CheckInv
    <3>2. CASE k = Len(checks) + 1
      <4>1. Verdict!Ending(new) = Verdict!Ending(me) /\ Verdict!Speaks(new)
        BY <1>4, <1>6 DEF Verdict!Ending, Verdict!Speaks
      <4> QED
        BY <1>4, <1>6, <1>7, <3>2, <4>1
    <3> QED
      BY <1>7, <3>1, <3>2
  <2>2. \A x : /\ Verdict!Speaks(x)' <=> Verdict!Speaks(x)
               /\ Verdict!Ending(x)' = Verdict!Ending(x)
    BY <1>1 DEF Verdict!Speaks, Verdict!Ending
  <2> QED
    BY <2>1, <2>2 DEF Verdict!CheckInv, Verdict!Speaks, Verdict!Ending
<1>15. Verdict!OrderInv'
  <2> SUFFICES ASSUME NEW q \in Verdict!Reporters, Verdict!Working(q)'
               PROVE  Verdict!OrderOK(q)'
    BY DEF Verdict!OrderInv
  <2>1. q # r /\ reporter'[q] = reporter[q] /\ Verdict!Working(q) /\ Verdict!OrderOK(q)
    BY <1>10 DEF Verdict!IInv, Verdict!OrderInv
  <2>2. new.run # reporter[q].run
    BY <1>6, <2>1 DEF Verdict!IInv, Verdict!SerialInv
  <2> QED
    BY <1>7, <2>1, <2>2 DEF Verdict!OrderOK
<1>16. Verdict!CurrentAtRebind'
  BY <1>4, <1>6, <1>7 DEF Verdict!IInv, Verdict!CurrentAtRebind
<1>17. Verdict!VerdictsInOrder'
  <2>1. \A k \in DOMAIN checks : checks[k].run = me.run => checks[k].attempt < me.attempt
    <3> SUFFICES ASSUME NEW k \in DOMAIN checks, checks[k].run = me.run
                 PROVE  checks[k].attempt < me.attempt
      OBVIOUS
    <3>1. checks[k].attempt <= me.attempt /\ checks[k].attempt # me.attempt
      BY <1>1, <1>2 DEF OrdersOf
    <3>2. checks[k].attempt \in Nat /\ me.attempt \in Nat
      <4>1. checks[k] \in Verdict!Checks
        BY <1>5
      <4> QED
        BY <1>2, <4>1 DEF Verdict!Checks, Verdict!AtWork
    <3> QED
      BY <3>1, <3>2
  <2> SUFFICES ASSUME NEW j \in DOMAIN checks', NEW k \in DOMAIN checks', j < k,
                      checks'[j].run = checks'[k].run
               PROVE  checks'[j].attempt < checks'[k].attempt
    BY DEF Verdict!VerdictsInOrder
  <2>2. j \in DOMAIN checks
    BY <1>7
  <2>3. CASE k \in DOMAIN checks
    BY <1>7, <2>2, <2>3 DEF Verdict!IInv, Verdict!VerdictsInOrder
  <2>4. CASE k = Len(checks) + 1
    BY <1>6, <1>7, <2>1, <2>2, <2>4
  <2> QED
    BY <1>7, <2>3, <2>4
<1> QED
  BY <1>9, <1>11, <1>12, <1>13, <1>14, <1>15, <1>16, <1>17 DEF Verdict!IInv

(* An event is delivered (Deliver) of a run on which no reporter is at      *)
(* work.                                                                   *)
LEMMA DeliverInv ==
  ASSUME Verdict!IInv, NEW i \in DOMAIN runs, NEW attempt \in DOMAIN runs[i].results,
         Verdict!Deliver(i, attempt)
  PROVE  Verdict!IInv'
<1> DEFINE new == [step |-> "run", run |-> i, attempt |-> attempt, again |-> FALSE,
                   base |-> "main", sha |-> 0, policy |-> runs[i].results[attempt].policy,
                   conclusion |-> None, tips |-> [b \in Verdict!Bases |-> 0]]
<1>1. PICK r \in Verdict!Reporters :
             reporter[r] = Verdict!Idle /\ reporter' = [reporter EXCEPT ![r] = new]
  BY DEF Verdict!Deliver
<1>2. UNCHANGED <<Verdict!repository, runs, checks>> /\ Verdict!Serial(i)
  BY DEF Verdict!Deliver
<1>3. /\ runs \in Seq(Verdict!CiRuns) /\ branches \in [Verdict!Bases -> Nat]
      /\ checks \in Seq(Verdict!Checks)
      /\ reporter \in [Verdict!Reporters -> {Verdict!Idle} \cup Verdict!AtWork]
  BY DEF Verdict!IInv, Verdict!TypeOK
<1>4. /\ i \in Nat \ {0} /\ attempt \in Nat \ {0} /\ runs[i].results[attempt].policy \in Nat
  <2>1. runs[i] \in Verdict!CiRuns
    BY <1>3
  <2>2. runs[i].results \in Seq(Verdict!Results)
    BY <2>1 DEF Verdict!CiRuns
  <2>3. runs[i].results[attempt] \in Verdict!Results
    BY <2>2
  <2>4. runs[i].results[attempt].policy \in Nat
    BY <2>3 DEF Verdict!Results
  <2> QED
    BY <1>3, <2>2, <2>4
<1>5. new \in Verdict!AtWork
  BY <1>3, <1>4 DEF Verdict!AtWork, Verdict!ReadSteps, Verdict!Bases
<1>6. /\ new.step = "run" /\ new.run = i /\ new.attempt = attempt /\ ~new.again
  OBVIOUS
<1> HIDE DEF new
<1>7. reporter' \in [Verdict!Reporters -> {Verdict!Idle} \cup Verdict!AtWork]
  BY <1>1, <1>3, <1>5
<1>8. Verdict!TypeOK' /\ Verdict!BoundInv'
  BY <1>2, <1>3, <1>7, OthersTyped
<1>9. /\ reporter'[r] = new
      /\ \A q \in Verdict!Reporters : q # r => reporter'[q] = reporter[q]
      /\ \A q \in Verdict!Reporters : q # r /\ Verdict!Working(q)' =>
           Verdict!Working(q) /\ Verdict!ReadOK(q)' /\ Verdict!RoundOK(q)'
  BY <1>1, <1>2, OtherReporters
<1>10. Verdict!EndedInv'
  BY <1>2, <1>6, <1>9 DEF Verdict!IInv, Verdict!EndedInv, Verdict!HasEnded, Verdict!Working
<1>11. Verdict!SerialInv'
  <2> SUFFICES ASSUME NEW p \in Verdict!Reporters, NEW q \in Verdict!Reporters,
                      Verdict!Working(p)', reporter'[p].run = reporter'[q].run
               PROVE  p = q
    BY DEF Verdict!SerialInv
  <2>1. CASE p # r /\ q # r
    BY <1>9, <2>1 DEF Verdict!IInv, Verdict!SerialInv
  <2>2. \A x \in Verdict!Reporters : x # r => reporter'[x].run # i
    BY <1>2, <1>9 DEF Verdict!Serial
  <2> QED
    BY <1>6, <1>9, <2>1, <2>2
<1>12. /\ Verdict!ReadOK(r)' /\ Verdict!RoundOK(r)' /\ Verdict!OrderOK(r)'
  <2>1. /\ "run" \notin Verdict!AfterMain /\ "run" \notin Verdict!AfterPull
        /\ "run" \notin Verdict!AfterBase /\ "run" \notin Verdict!AfterCommits
        /\ "run" \notin Verdict!AfterJobs
    BY After
  <2> QED
    BY <1>6, <1>9, <2>1 DEF Verdict!ReadOK, Verdict!RoundOK, Verdict!OrderOK
<1>13. Verdict!ReadInv' /\ Verdict!RoundInv'
  BY <1>9, <1>12 DEF Verdict!ReadInv, Verdict!RoundInv
<1>14. Verdict!OrderInv'
  BY <1>2, <1>9, <1>12 DEF Verdict!IInv, Verdict!OrderInv, Verdict!OrderOK
<1>15. Verdict!CheckInv' /\ Verdict!CurrentAtRebind' /\ Verdict!VerdictsInOrder'
  BY <1>2 DEF Verdict!IInv, Verdict!CheckInv, Verdict!Speaks, Verdict!Ending,
              Verdict!CurrentAtRebind, Verdict!VerdictsInOrder
<1> QED
  BY <1>8, <1>10, <1>11, <1>13, <1>14, <1>15 DEF Verdict!IInv

-----------------------------------------------------------------------------
(* The invariant holds at first.                                           *)
LEMMA VerdictInit == Verdict!Init => Verdict!IInv
<1> SUFFICES ASSUME Verdict!Init PROVE Verdict!IInv
  OBVIOUS
<1> USE VerdictAssumption, BudgetAssumption DEF Verdict!Init
<1>1. branches \in [Verdict!Bases -> Nat] /\ branches.main <= MaxTip
  BY DEF Verdict!Bases
<1>2. request \in [open : BOOLEAN, head : CiHeads, base : Verdict!Bases, sha : Nat]
  OBVIOUS
<1>3. /\ staged \in CiHeads \cup {None} /\ changes \in 0..MaxMoves
      /\ runs \in Seq(Verdict!CiRuns) /\ checks \in Seq(Verdict!Checks)
      /\ DOMAIN runs = {} /\ DOMAIN checks = {}
      /\ reporter \in [Verdict!Reporters -> {Verdict!Idle} \cup Verdict!AtWork]
  OBVIOUS
<1>4. writer \in BOOLEAN
  OBVIOUS
<1>5. \A r \in Verdict!Reporters : ~Verdict!Working(r)
  BY DEF Verdict!Working
<1>6. Verdict!TypeOK
  BY <1>1, <1>2, <1>3, <1>4 DEF Verdict!TypeOK
<1>7. /\ Verdict!EndedInv /\ Verdict!SerialInv /\ Verdict!ReadInv /\ Verdict!RoundInv
      /\ Verdict!OrderInv
  BY <1>3, <1>5 DEF Verdict!EndedInv, Verdict!SerialInv, Verdict!ReadInv, Verdict!RoundInv,
                    Verdict!OrderInv
<1>8. /\ Verdict!BoundInv /\ Verdict!CheckInv /\ Verdict!CurrentAtRebind
      /\ Verdict!VerdictsInOrder
  BY <1>3 DEF Verdict!BoundInv, Verdict!CheckInv, Verdict!CurrentAtRebind,
              Verdict!VerdictsInOrder
<1> QED
  BY <1>6, <1>7, <1>8 DEF Verdict!IInv

(* Every step of the reporters keeps the invariant (Report).               *)
LEMMA ReportInv ==
  ASSUME Verdict!IInv, NEW r \in Verdict!Reporters, Verdict!Report(r) PROVE Verdict!IInv'
<1>1. reporter[r].step # "idle"
  BY DEF Verdict!Report, Verdict!ReadRun, Verdict!ReadMain, Verdict!ReadPull, Verdict!ReadBase,
         Verdict!ReadActor, Verdict!ReadCommits, Verdict!ReadRef, Verdict!ReadJobs,
         Verdict!List, Verdict!Post, Verdict!Stop, Verdict!At
<1>2. Verdict!Working(r)
  BY <1>1 DEF Verdict!Working, Verdict!Idle
<1>3. CASE Verdict!Stop(r)
  BY <1>3, StoppedInv DEF Verdict!Stop
<1> QED
  BY <1>2, <1>3, ReadRunInv, ReadMainInv, PullReadInv, ReadBaseInv, ReadActorInv,
     ReadCommitsInv, ReadRefInv, ReadJobsInv, ListInv, PostInv DEF Verdict!Report

(* Every step of the repository, of the runs and of the reporters keeps    *)
(* the invariant.                                                          *)
LEMMA VerdictNext == ASSUME Verdict!IInv, Verdict!Next PROVE Verdict!IInv'
<1>1. CASE \E r \in Verdict!Reporters : Verdict!Report(r)
  BY <1>1, ReportInv
<1>2. CASE \E i \in DOMAIN runs :
             \/ Verdict!BindPull(i) \/ Verdict!BindRefs(i) \/ Verdict!Rebind(i)
             \/ Verdict!Rerun(i) \/ Verdict!RerunJobs(i)
             \/ \E conclusion \in Verdict!Conclusions : Verdict!Complete(i, conclusion)
             \/ \E attempt \in DOMAIN runs[i].results : Verdict!Deliver(i, attempt)
  BY <1>2, BindPullInv, BindRefsInv, RebindInv, RerunInv, RerunJobsInv, CompleteInv,
     DeliverInv
<1>3. CASE \/ Verdict!AdvanceMain \/ Verdict!AdvanceSupport \/ Verdict!Close \/ Verdict!Revoke
           \/ \E h \in CiHeads, b \in Verdict!Bases : Verdict!Update(h, b)
  BY <1>3, RepositoryInv
<1>4. CASE Verdict!Copy
  BY <1>4, CopyInv
<1>5. CASE Verdict!Stage
  BY <1>5, StageInv
<1> QED
  BY <1>1, <1>2, <1>3, <1>4, <1>5 DEF Verdict!Next

(* Behaviours of the reporters keep the invariant; the other ones, of the  *)
(* binding alone, have no state of theirs.                                 *)
LEMMA VerdictInvariance == MCSpec => [](subject # "binding" => Verdict!IInv)
<1> DEFINE Inv == subject # "binding" => Verdict!IInv
<1>1. MCInit => Inv
  BY VerdictInit DEF MCInit
<1>2. Inv /\ [MCNext]_<<subject, vars, verdictVars>> => Inv'
  <2> SUFFICES ASSUME Inv, [MCNext]_<<subject, vars, verdictVars>>, subject' # "binding"
               PROVE  Verdict!IInv'
    OBVIOUS
  <2>1. CASE MCNext
    <3>1. subject # "binding" /\ Verdict!Next
      BY <2>1 DEF MCNext
    <3> QED
      BY <3>1, VerdictNext
  <2>2. CASE UNCHANGED <<subject, vars, verdictVars>>
    <3>1. Verdict!IInv
      BY <2>2
    <3>2. UNCHANGED <<branches, request, staged, changes, runs, reporter, checks>>
      BY <2>2 DEF verdictVars
    <3>3. writer' \in BOOLEAN
      BY <2>2, <3>1 DEF verdictVars, Verdict!IInv, Verdict!TypeOK
    <3>4. /\ branches \in [Verdict!Bases -> Nat] /\ branches.main <= MaxTip
          /\ request \in [open : BOOLEAN, head : CiHeads, base : Verdict!Bases, sha : Nat]
          /\ changes \in 0..MaxMoves
          /\ \A b \in Verdict!Bases : branches[b] <= branches[b]
      BY <3>1 DEF Verdict!IInv, Verdict!TypeOK
    <3> QED
      BY <3>1, <3>2, <3>3, <3>4, MoveInv
  <2> QED
    BY <2>1, <2>2
<1> QED
  BY <1>1, <1>2, PTL DEF MCSpec

(* A successful check rests on a successful attempt that protected jobs     *)
(* bound to its policy and base, or on a staged head of this commit of      *)
(* main, and both were the tips of their branches when the last reading    *)
(* began, however many heads, runs, attempts and reporters there are        *)
(* (bind_candidate, run of report_required_ci.py).                         *)
THEOREM GreenChecksAreEarned == MCSpec => []ChecksAreEarned
<1>1. (subject # "binding" => Verdict!IInv) => ChecksAreEarned
  <2> SUFFICES ASSUME Verdict!IInv
               PROVE  Verdict!TypeOK /\ Verdict!GreenIsEarned /\ Verdict!CurrentAtRebind
    BY DEF ChecksAreEarned
  <2>1. ASSUME NEW k \in DOMAIN checks, checks[k].conclusion = "success"
        PROVE  /\ Verdict!Result(k).conclusion = "success"
               /\ IF runs[checks[k].run].ref = "staging"
                  THEN checks[k].base = "main" /\ On[runs[checks[k].run].head] = checks[k].sha
                  ELSE /\ Verdict!Result(k).held
                       /\ Verdict!Result(k).name =
                            [policy |-> checks[k].policy, base |-> checks[k].base,
                             sha |-> checks[k].sha]
    <3>1. /\ Verdict!HasEnded(checks[k]) /\ Verdict!Speaks(checks[k])
          /\ Verdict!Ending(checks[k]).conclusion = "success"
          /\ Verdict!Ending(checks[k]) = Verdict!Result(k)
      BY <2>1 DEF Verdict!IInv, Verdict!EndedInv, Verdict!CheckInv, Verdict!Ending,
                  Verdict!Result
    <3>2. CASE runs[checks[k].run].ref = "staging"
      BY <3>1, <3>2 DEF Verdict!Speaks
    <3>3. CASE runs[checks[k].run].ref # "staging"
      <4>1. runs \in Seq(Verdict!CiRuns) /\ checks[k].run \in DOMAIN runs
        BY <3>1 DEF Verdict!IInv, Verdict!TypeOK, Verdict!HasEnded
      <4>2. runs[checks[k].run] \in Verdict!CiRuns
        BY <4>1
      <4>3. Verdict!Bound(checks[k].run)
        BY <3>1, <3>3, <4>2 DEF Verdict!Speaks, Verdict!Bound, Verdict!CiRuns
      <4>4. Verdict!Result(k).held
        BY <3>1, <4>1, <4>3 DEF Verdict!IInv, Verdict!BoundInv, Verdict!Result,
                                Verdict!HasEnded
      <4>5. Verdict!Result(k).name = [policy |-> checks[k].policy, base |-> checks[k].base,
                                      sha |-> checks[k].sha]
        BY <3>1, <3>3 DEF Verdict!Speaks
      <4> QED
        BY <3>1, <3>3, <4>4, <4>5
    <3> QED
      BY <3>2, <3>3
  <2> QED
    BY <2>1 DEF Verdict!IInv, Verdict!GreenIsEarned
<1> QED
  BY <1>1, VerdictInvariance, PTL

(* The newest check of a run is never of an older attempt, and no attempt  *)
(* has two, whichever reporters work at once, stop or are run again (the   *)
(* concurrency group of required-ci.yml, report_check).                    *)
THEOREM ChecksFollowAttempts == MCSpec => []VerdictsInOrder
<1>1. (subject # "binding" => Verdict!IInv) => VerdictsInOrder
  BY DEF VerdictsInOrder, Verdict!IInv
<1> QED
  BY <1>1, VerdictInvariance, PTL

=============================================================================

--------------------------- MODULE PublishWorkflow ----------------------------
(***************************************************************************)
(* The publication workflow (src/.github/workflows/publish.yml) and the    *)
(* qualification it runs (src/xtask/src/github.rs, qualify): one run after *)
(* another takes a release source through qualification, an approval, the  *)
(* publication of its crate, the wait for crates.io, a second approval and *)
(* the finalizer.                                                          *)
(*                                                                         *)
(* Branches move at any time, jobs die at any step, replies are lost,      *)
(* crates.io shows a publication late, and people reject approvals, re-run *)
(* completed runs and dispatch recoveries.  Binding::verify and rebind are *)
(* single steps here (see Provenance), and so are the two halves of the    *)
(* finalizer (see ReleaseReconcile).                                       *)
(***************************************************************************)
EXTENDS Naturals, FiniteSets

CONSTANTS
  Sources,      \* release sources: [line, at, version]
  MaxTip,       \* bound: commits on a line
  MaxAttempts,  \* bound: attempts of a run
  MaxFaults,    \* bound: lost replies, dead jobs, rejections, timeouts
  None

Lines    == {s.line : s \in Sources} \cup {"main"}
Versions == {s.version : s \in Sources}
Modes    == {"push", "release", "recover"}
Jobs     == {"qualify", "publish", "await", "approve", "finalize"}

ASSUME SourcesAssumption ==
  /\ \A s \in Sources : s.at \in 1..MaxTip
  /\ \A s, t \in Sources : s.line = t.line /\ s.at = t.at => s = t
ASSUME BoundsAssumption ==
  MaxTip \in Nat /\ MaxAttempts \in Nat \ {0} /\ MaxFaults \in Nat

VARIABLES
  tip,        \* number of commits on each protected branch
  crate,      \* crates.io: the source each version was published from
  visible,    \* versions whose publication crates.io shows
  tag,        \* GitHub: the source of each version's annotated tag
  release,    \* GitHub: the source of each version's immutable Release
  run,        \* the run that holds the concurrency group
  pending,    \* the run that waits for it
  last,       \* the run that completed last
  completed,  \* commits of main whose push run has completed
  pc,         \* the step of the run
  registry,   \* registry_state, as the present qualification has read it
  faults      \* faults so far

worldVars == <<tip, crate, visible, tag, release>>
runVars   == <<run, pending, last, completed, pc, registry, faults>>
vars == <<worldVars, runVars>>

\* done are the jobs that have succeeded; grants and used are history: the
\* finalization approvals given and the App tokens minted.
Run == [mode : Modes, source : Sources \cup {None}, sha : 0..MaxTip,
        attempt : 1..MaxAttempts, done : SUBSET Jobs,
        qualified : BOOLEAN, registry : {"none", "absent", "published"},
        grants : 0..MaxAttempts, used : 0..MaxAttempts]

ASSUME NoneAssumption == None \notin Sources /\ None \notin Run

Steps == {"idle", "live", "registry", "forge", "verify", "publishGate",
          "rebind", "releasePlz", "awaitRebind", "await",
          "finalGate", "finalRebind", "confirm", "tag", "release", "end"}

\* TypeOK gives every variable its type, and says that a step is under way
\* exactly when a run holds the group, that crates.io shows only what was
\* published.
TypeOK ==
  /\ tip \in [Lines -> 0..MaxTip]
  /\ crate \in [Versions -> Sources \cup {None}]
  /\ visible \in SUBSET {v \in Versions : crate[v] # None}
  /\ tag \in [Versions -> Sources \cup {None}]
  /\ release \in [Versions -> Sources \cup {None}]
  /\ run \in Run \cup {None} /\ pending \in Run \cup {None}
  /\ last \in Run \cup {None}
  /\ completed \in SUBSET (1..MaxTip)
  /\ pc \in Steps /\ (pc = "idle" <=> run = None)
  /\ registry \in {"none", "absent", "published"}
  /\ faults \in 0..MaxFaults

Init ==
  /\ tip = [l \in Lines |-> 0]
  /\ crate = [v \in Versions |-> None]
  /\ visible = {}
  /\ tag = [v \in Versions |-> None]
  /\ release = [v \in Versions |-> None]
  /\ run = None /\ pending = None /\ last = None
  /\ completed = {}
  /\ pc = "idle" /\ registry = "none"
  /\ faults = 0

-----------------------------------------------------------------------------
(***************************************************************************)
(* Which job is next: the conditions of the jobs in publish.yml.           *)
(***************************************************************************)
PublishDue(r) == r.registry = "absent" /\ "publish" \notin r.done

ApprovalDue(r) == r.attempt = 1 /\ "approve" \notin r.done

\* Mutant of FinalizeDue: a re-run of the finalizer uses an old approval.
FinalizeDueAgain(r) == "approve" \in r.done /\ "finalize" \notin r.done

FinalizeDue(r) ==
  r.attempt = 1 /\ "approve" \in r.done /\ "finalize" \notin r.done

FirstStep(r) ==
  CASE "qualify" \notin r.done -> "live"
    [] "qualify" \in r.done /\ ~r.qualified -> "end"
    [] r.qualified /\ PublishDue(r) -> "publishGate"
    [] r.qualified /\ ~PublishDue(r) /\ "await" \notin r.done -> "awaitRebind"
    [] "await" \in r.done /\ ApprovalDue(r) -> "finalGate"
    [] "await" \in r.done /\ ~ApprovalDue(r) /\ FinalizeDue(r) -> "finalRebind"
    [] OTHER -> "end"

NewRun(mode, s) ==
  [mode |-> mode, source |-> s, sha |-> tip'["main"], attempt |-> 1,
   done |-> {}, qualified |-> FALSE, registry |-> "none",
   grants |-> 0, used |-> 0]

\* The commit whose push run ends with r, if r is the run of a push.
Ends(r) == IF r # None /\ r.mode = "push" THEN {r.sha} ELSE {}

\* concurrency: one run at work and one waiting, which a newer one replaces.
Enqueue(r) ==
  IF run = None /\ pending = None
  THEN run' = r /\ pc' = FirstStep(r) /\ registry' = "none" /\ UNCHANGED pending
  ELSE pending' = r /\ UNCHANGED <<run, pc, registry>>

Dequeue ==
  /\ run = None /\ pending # None
  /\ run' = pending /\ pc' = FirstStep(pending) /\ registry' = "none"
  /\ pending' = None
  /\ UNCHANGED <<worldVars, last, completed, faults>>

-----------------------------------------------------------------------------
(***************************************************************************)
(* People and services around the workflow.                                *)
(***************************************************************************)
SourceAt(l, n) ==
  IF \E s \in Sources : s.line = l /\ s.at = n
  THEN CHOOSE s \in Sources : s.line = l /\ s.at = n ELSE None

\* Every push to main starts a run; a push to a support line starts none.
\* A run that is replaced in the queue is cancelled, and so has completed.
Merge(l) ==
  /\ tip[l] < MaxTip
  /\ tip' = [tip EXCEPT ![l] = @ + 1]
  /\ IF l = "main"
     THEN /\ Enqueue(NewRun("push", SourceAt(l, tip[l] + 1)))
          /\ completed' = completed \cup Ends(pending)
     ELSE UNCHANGED <<run, pending, completed, pc, registry>>
  /\ UNCHANGED <<crate, visible, tag, release, last, faults>>

\* workflow_dispatch; people dispatch when nothing waits.
Dispatch(mode, s) ==
  /\ pending = None /\ s.at <= tip[s.line]
  /\ mode = "release" => s.line # "main"
  /\ UNCHANGED <<worldVars, last, completed, faults>>
  /\ Enqueue(NewRun(mode, s))

\* Re-run all jobs, or only those that failed, of the run that ended last; a
\* push run is no longer completed then.
Rerun(all) ==
  /\ last # None /\ last.attempt < MaxAttempts /\ pending = None
  /\ Enqueue(IF all
             THEN [last EXCEPT !.attempt = @ + 1, !.done = {},
                               !.qualified = FALSE, !.registry = "none"]
             ELSE [last EXCEPT !.attempt = @ + 1])
  /\ last' = None
  /\ completed' = completed \ Ends(last)
  /\ UNCHANGED <<worldVars, faults>>

\* crates.io shows what it has accepted.
Show(v) ==
  /\ crate[v] # None /\ v \notin visible
  /\ visible' = visible \cup {v}
  /\ UNCHANGED <<tip, crate, tag, release, runVars>>

-----------------------------------------------------------------------------
(***************************************************************************)
(* A run.                                                                  *)
(***************************************************************************)
Source  == run.source
Version == run.source.version
Fresh   == run.mode # "recover"

\* require_live_policy_main: main is still the commit whose policy runs.
PolicyLive == tip["main"] = run.sha

\* Binding::verify and rebind: main is the policy of the run, and the source
\* is on its base, at the tip if it is to be published.
Authorized ==
  /\ PolicyLive
  /\ Source.at <= tip[Source.line]
  /\ Fresh => Source.at = tip[Source.line]

\* The run ends and leaves the group.
Finish(r) ==
  /\ run' = None /\ pc' = "idle" /\ last' = r /\ registry' = "none"
  /\ completed' = completed \cup Ends(r)

Go(next) == pc' = next /\ UNCHANGED <<run, last, completed, registry>>

\* A job has succeeded; the next one starts.
Succeed(r) ==
  /\ run' = r /\ pc' = FirstStep(r) /\ registry' = "none"
  /\ UNCHANGED <<last, completed>>

\* A step that reads, and fails its job unless what it finds is as it must be.
Check(step, holds, next) ==
  /\ pc = step
  /\ IF holds THEN Go(next) ELSE Finish(run)
  /\ UNCHANGED <<worldVars, pending, faults>>

End == pc = "end" /\ Finish(run) /\ UNCHANGED <<worldVars, pending, faults>>

\* A runner dies, a reply is lost, a timeout hits, an approval is rejected.
Die ==
  /\ pc # "idle" /\ faults < MaxFaults
  /\ faults' = faults + 1
  /\ Finish(run)
  /\ UNCHANGED <<worldVars, pending>>

-----------------------------------------------------------------------------
(***************************************************************************)
(* qualify, in its two places: the qualify job, and once more in the       *)
(* publish job, after the approval, with mode publish unless the run is a  *)
(* recovery.  Its reads happen one after another.                          *)
(***************************************************************************)
Requalifying == "qualify" \in run.done

\* Mutant of OriginalRun: a support recovery, too, needs a push run.
OriginalRunOfAnyLine == Source.at \in completed

\* validate_original_run: the push run of a source on main has completed.
OriginalRun == Source.line = "main" => Source.at \in completed

\* require_fresh_progression: no support version is released twice.
Progresses == Source.line # "main" => tag[Version] = None

\* The mode's conditions; the associated release PR.
Live ==
  /\ pc = "live"
  /\ UNCHANGED <<worldVars, pending, faults>>
  /\ CASE PolicyLive /\ Source = None ->
            Succeed([run EXCEPT !.done = @ \cup {"qualify"}])
       [] ~PolicyLive -> Finish(run)
       [] OTHER ->
            IF Authorized /\ (IF Fresh THEN Progresses ELSE OriginalRun)
            THEN Go("registry") ELSE Finish(run)

\* Mutant of PublishedSource: any archive of the version will do.
PublishedVersion == Version \in visible

\* verify_published_source: crates.io shows the archive of this source.
PublishedSource == Version \in visible /\ crate[Version] = Source

\* Mutant of Admits: a recovery may start with nothing published.
AdmitsZeroPackages(state) == run.mode = "release" /\ ~Requalifying => state = "absent"

\* What each mode wants of the registry.
Admits(state) ==
  /\ run.mode = "recover" => state = "published"
  /\ run.mode = "release" /\ ~Requalifying => state = "absent"

ReadRegistry ==
  /\ pc = "registry"
  /\ LET state == IF Version \in visible THEN "published" ELSE "absent"
     IN IF Admits(state) /\ (state = "published" => PublishedSource)
        THEN /\ pc' = "forge" /\ registry' = state
             /\ UNCHANGED <<run, last, completed>>
        ELSE Finish(run)
  /\ UNCHANGED <<worldVars, pending, faults>>

\* inspect_tag and inspect_release: what is there is this source's.
ForgeAgrees ==
  /\ tag[Version] \in {None, Source} /\ release[Version] \in {None, Source}
  /\ registry = "absent" => tag[Version] = None /\ release[Version] = None
  /\ release[Version] # None => tag[Version] # None

ReadForge == Check("forge", ForgeAgrees, "verify")

Verify ==
  /\ pc = "verify"
  /\ UNCHANGED <<worldVars, pending, faults>>
  /\ IF ~Authorized \/ (Requalifying /\ registry = "published" /\ Fresh)
     THEN Finish(run)
     ELSE IF Requalifying THEN Go("rebind")
     ELSE Succeed([run EXCEPT !.done = @ \cup {"qualify"},
                              !.qualified = TRUE, !.registry = registry])

-----------------------------------------------------------------------------
(***************************************************************************)
(* The jobs publish and await_publication.                                 *)
(***************************************************************************)
ApprovePublication ==
  /\ pc = "publishGate" /\ Go("live")
  /\ UNCHANGED <<worldVars, pending, faults>>

Rebind == Check("rebind", Authorized, "releasePlz")

\* release-plz publishes, or skips what crates.io shows as published; crates.io
\* refuses a version that it has.  A publication whose reply is lost fails the
\* job.
ReleasePlz ==
  /\ pc = "releasePlz"
  /\ crate' = [crate EXCEPT ![Version] = IF @ = None THEN Source ELSE @]
  /\ \/ /\ crate[Version] = None \/ Version \in visible
        /\ Succeed([run EXCEPT !.done = @ \cup {"publish"}])
        /\ UNCHANGED faults
     \/ /\ crate[Version] = None /\ faults < MaxFaults
        /\ faults' = faults + 1 /\ Finish(run)
     \/ /\ crate[Version] # None /\ Version \notin visible
        /\ Finish(run) /\ UNCHANGED faults
  /\ UNCHANGED <<tip, visible, tag, release, pending>>

AwaitRebind == Check("awaitRebind", Authorized, "await")

Await ==
  /\ pc = "await" /\ Version \in visible
  /\ IF PublishedSource
     THEN Succeed([run EXCEPT !.done = @ \cup {"await"}]) ELSE Finish(run)
  /\ UNCHANGED <<worldVars, pending, faults>>

-----------------------------------------------------------------------------
(***************************************************************************)
(* finalization_approval and finalize.  A reply lost by a write is a job   *)
(* that dies after it.                                                     *)
(***************************************************************************)
ApproveFinalization ==
  /\ pc = "finalGate"
  /\ Succeed([run EXCEPT !.done = @ \cup {"approve"}, !.grants = @ + 1])
  /\ UNCHANGED <<worldVars, pending, faults>>

\* rebind-policy, and then the App token.
FinalRebind ==
  /\ pc = "finalRebind"
  /\ IF Authorized
     THEN /\ run' = [run EXCEPT !.used = @ + 1] /\ pc' = "confirm"
          /\ UNCHANGED <<last, completed, registry>>
     ELSE Finish(run)
  /\ UNCHANGED <<worldVars, pending, faults>>

Confirm == Check("confirm", Authorized /\ PublishedSource, "tag")

ReconcileTag ==
  /\ pc = "tag"
  /\ IF Authorized /\ tag[Version] \in {None, Source}
     THEN tag' = [tag EXCEPT ![Version] = Source] /\ Go("release")
     ELSE UNCHANGED tag /\ Finish(run)
  /\ UNCHANGED <<tip, crate, visible, release, pending, faults>>

ReconcileRelease ==
  /\ pc = "release"
  /\ IF /\ Authorized /\ tag[Version] = Source
        /\ release[Version] \in {None, Source}
     THEN /\ release' = [release EXCEPT ![Version] = Source]
          /\ Succeed([run EXCEPT !.done = @ \cup {"finalize"}])
     ELSE UNCHANGED release /\ Finish(run)
  /\ UNCHANGED <<tip, crate, visible, tag, pending, faults>>

-----------------------------------------------------------------------------
RunStep ==
  \/ Dequeue \/ Live \/ ReadRegistry \/ ReadForge \/ Verify
  \/ ApprovePublication \/ Rebind \/ ReleasePlz \/ AwaitRebind \/ Await
  \/ ApproveFinalization \/ FinalRebind \/ Confirm
  \/ ReconcileTag \/ ReconcileRelease \/ End

Next ==
  \/ RunStep \/ Die
  \/ \E l \in Lines : Merge(l)
  \/ \E s \in Sources : Dispatch("release", s) \/ Dispatch("recover", s)
  \/ \E all \in BOOLEAN : Rerun(all)
  \/ \E v \in Versions : Show(v)

Spec == Init /\ [][Next]_vars

\* People dispatch the recovery of a release that is not complete.
Recover(s) ==
  /\ crate[s.version] = s /\ release[s.version] = None
  /\ Dispatch("recover", s)

\* Jobs are run and approved, crates.io shows what it accepted in the end, and
\* people do not give up a recovery.  Nothing obliges a branch to move, a job
\* to die or anything to be re-run.
Fairness ==
  /\ WF_vars(RunStep)
  /\ \A v \in Versions : WF_vars(Show(v))
  /\ \A s \in Sources : SF_vars(Recover(s))

FairSpec == Spec /\ Fairness

-----------------------------------------------------------------------------
(***************************************************************************)
(* Properties.                                                             *)
(***************************************************************************)
\* Whatever is lost, rejected, cancelled, re-run or raced by another source of
\* the same version: a tag is that of the source crates.io shows the crate of,
\* and a Release that of its tag ("Verify the published crate before creating
\* a tag or Release", src/MAINTAINERS.md).
ForgeFollowsRegistry ==
  \A v \in Versions :
    /\ tag[v] # None => v \in visible /\ tag[v] = crate[v]
    /\ release[v] # None => release[v] = tag[v]

\* No App token without an approval of its own: re-running the jobs of a run
\* never uses the approval of an earlier attempt (publish.yml, finalize:
\* "Reject a reused finalization approval").
OneFinalizerPerApproval ==
  \A r \in {run, pending, last} \ {None} : r.used <= r.grants /\ r.grants <= 1

\* A recovery completes a publication and never makes one ("zero-package
\* recovery is forbidden", qualify); and what is published for the first time
\* has no tag and no Release yet.
FirstPublication == [][
  \A v \in Versions : crate'[v] # crate[v] =>
    /\ run.mode # "recover"
    /\ tag[v] = None /\ release[v] = None]_vars

\* Once the crate of a source is on crates.io, its Release is made in the end:
\* no crash, race or advance of a branch leaves a state that recovery refuses.
PublishedIsReleased ==
  \A s \in Sources :
    crate[s.version] = s ~> release[s.version] = s
=============================================================================

-------------------------- MODULE ReleaseReconcile ---------------------------
(***************************************************************************)
(* The finalizer of a release (src/xtask/src/github.rs, finalize,          *)
(* reconcile_tag, reconcile_release, and github/latest.rs): it creates the *)
(* annotated tag and the immutable GitHub Release of a version whose crate *)
(* is published, or finds that an earlier, interrupted run has done so.    *)
(*                                                                         *)
(* Runs act on a GitHub that changes under them: main and support branches *)
(* advance, replies to a POST are lost, runs die at any step and are       *)
(* recovered, and other people edit what is not protected.  A run stands   *)
(* for one process after another; the publication workflow's concurrency   *)
(* group allows one at a time.                                             *)
(*                                                                         *)
(* A source is a commit of a line at a position, with the version of its   *)
(* manifest.  The tag object of a source is deterministic (same message,   *)
(* tagger and date), so the source itself stands for the object's SHA.     *)
(***************************************************************************)
EXTENDS Naturals, FiniteSets

CONSTANTS
  Runs,        \* finalizer processes that may be active at once
  Sources,     \* [line, at, version]
  Stable,      \* versions that are not prereleases
  MaxTip,      \* bound: commits on a line
  MaxTampers,  \* bound: edits by other people
  None,        \* nothing there
  Foreign      \* an object that is not what the release policy would create

Lines    == {s.line : s \in Sources} \cup {"main"}
Versions == {s.version : s \in Sources}
Operations == {"fresh", "recover"}

ASSUME SourcesAssumption ==
  \A s \in Sources : s.at \in Nat /\ s.version \in Nat
ASSUME NoneAssumption ==
  /\ None \notin Sources /\ None \notin Versions
  /\ Foreign \notin Sources /\ Foreign # None
ASSUME BoundsAssumption == MaxTip \in Nat /\ MaxTampers \in Nat

VARIABLES
  tip,       \* number of commits on each protected branch
  crate,     \* crates.io: the source each version was published from
  tagRef,    \* refs/tags: the object each version's tag points to
  release,   \* the Release of each version: its target source
  latest,    \* the version of releases/latest
  tampers,   \* history: edits by other people
  pc,        \* where each run is
  src,       \* the run's release source (ReleaseSpec)
  op,        \* Binding::operation
  policy,    \* Context::sha, the commit of main the run executes
  before,    \* latest::Guard::before
  advance,   \* latest::Guard::advance
  result,    \* "none", "ok" or "err"
  stale,     \* history: writes sent after the run's authority was gone
  owed,      \* history: nothing that happened can excuse a failure
  finalized  \* history: sources for which a run has returned ok

forgeVars == <<tagRef, release, latest>>
worldVars == <<tip, crate, forgeVars, tampers>>
specVars  == <<src, op, policy>>
guardVars == <<before, advance>>
histVars  == <<stale, owed, finalized>>
vars == <<worldVars, pc, specVars, guardVars, result, histVars>>

Steps == {"idle", "authorize", "archive", "rebind",
          "inspectTag", "rebindTagObject", "postTagObject", "rebindRef",
          "postRef", "inspectAfterRefError", "confirmTag",
          "captureLatest", "inspectRelease", "retainedTag", "rebindRelease",
          "recheckTag", "recheckLatest", "postRelease",
          "inspectAfterReleaseError", "confirmRelease", "confirmReleasedTag",
          "verifyLatest"}

TypeOK ==
  /\ tip \in [Lines -> 0..MaxTip]
  /\ crate \in [Versions -> Sources \cup {None}]
  /\ tagRef \in [Versions -> Sources \cup {None, Foreign}]
  /\ release \in [Versions -> Sources \cup {None, Foreign}]
  /\ latest \in Versions \cup {None}
  /\ tampers \in 0..MaxTampers
  /\ pc \in [Runs -> Steps]
  /\ src \in [Runs -> Sources \cup {None}]
  /\ op \in [Runs -> Operations]
  /\ policy \in [Runs -> 0..MaxTip]
  /\ before \in [Runs -> Versions \cup {None}]
  /\ advance \in [Runs -> BOOLEAN]
  /\ result \in [Runs -> {"none", "ok", "err"}]
  /\ stale \in [Runs -> Nat]
  /\ owed \in [Runs -> BOOLEAN]
  /\ finalized \in SUBSET Sources

Init ==
  /\ tip = [l \in Lines |-> 0]
  /\ crate = [v \in Versions |-> None]
  /\ tagRef = [v \in Versions |-> None]
  /\ release = [v \in Versions |-> None]
  /\ latest = None /\ tampers = 0
  /\ pc = [r \in Runs |-> "idle"]
  /\ src = [r \in Runs |-> None]
  /\ op = [r \in Runs |-> "fresh"]
  /\ policy = [r \in Runs |-> 0]
  /\ before = [r \in Runs |-> None]
  /\ advance = [r \in Runs |-> FALSE]
  /\ result = [r \in Runs |-> "none"]
  /\ stale = [r \in Runs |-> 0]
  /\ owed = [r \in Runs |-> FALSE]
  /\ finalized = {}

-----------------------------------------------------------------------------
(***************************************************************************)
(* The world around the finalizer.                                         *)
(***************************************************************************)
\* Protected branches only move forward.  Every run at work may lose its
\* authority.
Advance(l) ==
  /\ tip[l] < MaxTip
  /\ tip' = [tip EXCEPT ![l] = @ + 1]
  /\ owed' = [r \in Runs |-> FALSE]
  /\ UNCHANGED <<crate, forgeVars, tampers, pc, specVars, guardVars, result,
                 stale, finalized>>

\* crates.io accepts a version once.
Publish(s) ==
  /\ crate[s.version] = None /\ s.at <= tip[s.line]
  /\ crate' = [crate EXCEPT ![s.version] = s]
  /\ UNCHANGED <<tip, forgeVars, tampers, pc, specVars, guardVars, result,
                 histVars>>

\* A release that is immutable locks its tag; anything else can be edited.
Tamper ==
  /\ tampers < MaxTampers
  /\ tampers' = tampers + 1
  /\ owed' = [r \in Runs |-> FALSE]
  /\ \/ \E v \in Versions, o \in {None, Foreign} :
          /\ release[v] = None
          /\ tagRef' = [tagRef EXCEPT ![v] = o]
          /\ UNCHANGED <<release, latest>>
     \/ \E v \in Versions :
          /\ release[v] = None
          /\ release' = [release EXCEPT ![v] = Foreign]
          /\ tagRef' = [tagRef EXCEPT ![v] = IF @ = None THEN Foreign ELSE @]
          /\ UNCHANGED latest
     \/ /\ latest' \in {v \in Versions : release[v] # None}
        /\ UNCHANGED <<tagRef, release>>
  /\ UNCHANGED <<tip, crate, pc, specVars, guardVars, result, stale, finalized>>

-----------------------------------------------------------------------------
(***************************************************************************)
(* Steps of a run.                                                         *)
(***************************************************************************)
Version(r) == src[r].version

\* Binding::verify: main is still the policy the run executes, and the
\* source is on its protected base (at its tip, for a fresh release).
Authorized(r) ==
  /\ tip["main"] = policy[r]
  /\ src[r].at <= tip[src[r].line]
  /\ op[r] = "fresh" => src[r].at = tip[src[r].line]

Stop(r, how) ==
  /\ pc' = [pc EXCEPT ![r] = "idle"]
  /\ result' = [result EXCEPT ![r] = how]
  /\ before' = [before EXCEPT ![r] = None]
  /\ advance' = [advance EXCEPT ![r] = FALSE]

Go(r, next) ==
  /\ pc' = [pc EXCEPT ![r] = next]
  /\ UNCHANGED <<result, guardVars>>

\* A step that reads, and goes on if what it finds is as it must be.
Check(r, step, holds, next) ==
  /\ pc[r] = step
  /\ IF holds THEN Go(r, next) ELSE Stop(r, "err")
  /\ UNCHANGED <<worldVars, specVars, histVars>>

\* The workflow starts a run on current main.
Start(r, s, o) ==
  /\ pc[r] = "idle"
  /\ pc' = [pc EXCEPT ![r] = "authorize"]
  /\ src' = [src EXCEPT ![r] = s]
  /\ op' = [op EXCEPT ![r] = o]
  /\ policy' = [policy EXCEPT ![r] = tip["main"]]
  /\ result' = [result EXCEPT ![r] = "none"]
  /\ stale' = [stale EXCEPT ![r] = 0]
  /\ owed' = [owed EXCEPT ![r] =
       /\ crate[s.version] = s /\ tampers = 0
       /\ s.at <= tip[s.line]
       /\ o = "fresh" => s.at = tip[s.line]]
  /\ UNCHANGED <<worldVars, guardVars, finalized>>

\* A read fails for good, a limit is hit, or the process is killed.
Abort(r) ==
  /\ pc[r] # "idle"
  /\ Stop(r, "err")
  /\ owed' = [owed EXCEPT ![r] = FALSE]
  /\ UNCHANGED <<worldVars, specVars, stale, finalized>>

\* finalize, up to its first write.
Authorize(r)     == Check(r, "authorize", Authorized(r), "archive")
VerifyArchive(r) == Check(r, "archive", crate[Version(r)] = src[r], "rebind")
Rebind(r)        == Check(r, "rebind", Authorized(r), "inspectTag")

ExactTag(r) == tagRef[Version(r)] = src[r]

\* A write is sent: history.
Sent(r) ==
  /\ stale' = [stale EXCEPT ![r] = IF Authorized(r) THEN @ ELSE @ + 1]
  /\ UNCHANGED finalized

-----------------------------------------------------------------------------
\* reconcile_tag.
InspectTag(r) ==
  Check(r, "inspectTag", tagRef[Version(r)] \in {src[r], None},
        IF ExactTag(r) THEN "captureLatest" ELSE "rebindTagObject")

RebindTagObject(r) ==
  Check(r, "rebindTagObject", Authorized(r), "postTagObject")

\* The object is not reachable until its ref exists.  A lost reply ends the
\* run.
PostTagObject(r) ==
  /\ pc[r] = "postTagObject"
  /\ Go(r, "rebindRef")
  /\ Sent(r)
  /\ UNCHANGED <<worldVars, specVars, owed>>

\* Mutant of RebindRef: authority is not looked at between the two POSTs.
SkipRebindRef(r) == Check(r, "rebindRef", TRUE, "postRef")

RebindRef(r) == Check(r, "rebindRef", Authorized(r), "postRef")

\* GitHub creates the ref, unless there is one; the reply may be lost.
CreateRef(r) ==
  /\ tagRef[Version(r)] = None
  /\ tagRef' = [tagRef EXCEPT ![Version(r)] = src[r]]
  /\ UNCHANGED owed

RefRejected(r) ==
  /\ owed' = [owed EXCEPT ![r] = @ /\ tagRef[Version(r)] # None]
  /\ UNCHANGED tagRef

PostRef(r) ==
  /\ pc[r] = "postRef"
  /\ \/ CreateRef(r) /\ Go(r, "confirmTag")
     \/ CreateRef(r) /\ Go(r, "inspectAfterRefError")
     \/ RefRejected(r) /\ Go(r, "inspectAfterRefError")
  /\ Sent(r)
  /\ UNCHANGED <<tip, crate, release, latest, tampers, specVars>>

\* Mutant of InspectAfterRefError: an error of the POST is final.
RefErrorIsFinal(r) == Check(r, "inspectAfterRefError", FALSE, "confirmTag")

InspectAfterRefError(r) ==
  Check(r, "inspectAfterRefError", ExactTag(r), "confirmTag")

ConfirmTag(r) == Check(r, "confirmTag", ExactTag(r), "captureLatest")

-----------------------------------------------------------------------------
\* reconcile_release.
MakeLatest(r) == src[r].line = "main" /\ Version(r) \in Stable

\* Mutant of CaptureLatest: every stable main release becomes Latest.
CaptureLatestBlindly(r) ==
  /\ pc[r] = "captureLatest"
  /\ pc' = [pc EXCEPT ![r] = "inspectRelease"]
  /\ before' = [before EXCEPT ![r] = latest]
  /\ advance' = [advance EXCEPT ![r] = MakeLatest(r)]
  /\ UNCHANGED result
  /\ UNCHANGED <<worldVars, specVars, histVars>>

\* Guard::capture.
CaptureLatest(r) ==
  /\ pc[r] = "captureLatest"
  /\ IF src[r].line # "main" /\ latest = Version(r)
     THEN Stop(r, "err")
     ELSE /\ pc' = [pc EXCEPT ![r] = "inspectRelease"]
          /\ before' = [before EXCEPT ![r] = latest]
          /\ advance' = [advance EXCEPT ![r] =
               MakeLatest(r) /\ (latest = None \/ latest < Version(r))]
          /\ UNCHANGED result
  /\ UNCHANGED <<worldVars, specVars, histVars>>

InspectRelease(r) ==
  Check(r, "inspectRelease", release[Version(r)] \in {src[r], None},
        IF release[Version(r)] = None THEN "rebindRelease" ELSE "retainedTag")

RetainedTag(r)   == Check(r, "retainedTag", ExactTag(r), "verifyLatest")
RebindRelease(r) == Check(r, "rebindRelease", Authorized(r), "recheckTag")
RecheckTag(r)    == Check(r, "recheckTag", ExactTag(r), "recheckLatest")
RecheckLatest(r) == Check(r, "recheckLatest", latest = before[r], "postRelease")

\* GitHub creates the Release, with a lightweight tag if there is none.
CreateRelease(r) ==
  /\ release[Version(r)] = None
  /\ release' = [release EXCEPT ![Version(r)] = src[r]]
  /\ tagRef' = [tagRef EXCEPT ![Version(r)] = IF @ = None THEN Foreign ELSE @]
  /\ latest' = IF advance[r] THEN Version(r) ELSE latest
  /\ UNCHANGED owed

ReleaseRejected(r) ==
  /\ owed' = [owed EXCEPT ![r] = @ /\ release[Version(r)] # None]
  /\ UNCHANGED forgeVars

PostRelease(r) ==
  /\ pc[r] = "postRelease"
  /\ \/ CreateRelease(r) /\ Go(r, "confirmRelease")
     \/ CreateRelease(r) /\ Go(r, "inspectAfterReleaseError")
     \/ ReleaseRejected(r) /\ Go(r, "inspectAfterReleaseError")
  /\ Sent(r)
  /\ UNCHANGED <<tip, crate, tampers, specVars>>

ExactRelease(r) == release[Version(r)] = src[r]

InspectAfterReleaseError(r) ==
  Check(r, "inspectAfterReleaseError", ExactRelease(r), "confirmRelease")

ConfirmRelease(r) ==
  Check(r, "confirmRelease", ExactRelease(r), "confirmReleasedTag")

\* Mutant of ConfirmReleasedTag: the tag is not read back after the Release.
SkipConfirmReleasedTag(r) ==
  Check(r, "confirmReleasedTag", TRUE, "verifyLatest")

ConfirmReleasedTag(r) ==
  Check(r, "confirmReleasedTag", ExactTag(r), "verifyLatest")

\* Guard::verify, and the end of the run.
LatestAsIntended(r) ==
  IF advance[r] THEN latest = Version(r) ELSE latest = before[r]

VerifyLatest(r) ==
  /\ pc[r] = "verifyLatest"
  /\ Stop(r, IF LatestAsIntended(r) THEN "ok" ELSE "err")
  /\ finalized' = IF LatestAsIntended(r) THEN finalized \cup {src[r]}
                                         ELSE finalized
  /\ UNCHANGED <<worldVars, specVars, stale, owed>>

-----------------------------------------------------------------------------
TagStep(r) ==
  \/ InspectTag(r) \/ RebindTagObject(r) \/ PostTagObject(r) \/ RebindRef(r)
  \/ PostRef(r) \/ InspectAfterRefError(r) \/ ConfirmTag(r)

ReleaseStep(r) ==
  \/ CaptureLatest(r) \/ InspectRelease(r) \/ RetainedTag(r)
  \/ RebindRelease(r) \/ RecheckTag(r) \/ RecheckLatest(r) \/ PostRelease(r)
  \/ InspectAfterReleaseError(r) \/ ConfirmRelease(r) \/ ConfirmReleasedTag(r)
  \/ VerifyLatest(r)

RunStep(r) ==
  Authorize(r) \/ VerifyArchive(r) \/ Rebind(r) \/ TagStep(r) \/ ReleaseStep(r)

World ==
  \/ Tamper
  \/ \E l \in Lines : Advance(l)
  \/ \E s \in Sources : Publish(s)

Next ==
  \/ World
  \/ \E r \in Runs : RunStep(r) \/ Abort(r)
  \/ \E r \in Runs, s \in Sources, o \in Operations : Start(r, s, o)

Spec == Init /\ [][Next]_vars

-----------------------------------------------------------------------------
(***************************************************************************)
(* Properties.                                                             *)
(***************************************************************************)

(* What a run has reported as finalized stays finalized, and exactly so:   *)
(* the crate, the annotated tag and the immutable Release of the version   *)
(* are those of its source for ever, whatever other runs and other people  *)
(* do before or after (finalize, the read-back after the last write).      *)
FinalizedForever ==
  \A s \in finalized :
    /\ crate[s.version] = s
    /\ tagRef[s.version] = s
    /\ release[s.version] = s

(* No tag or Release of the tooling exists for a version whose crate was   *)
(* published from another source or not at all, even with rival sources    *)
(* for one version and runs that died half-way (verify_published_source).  *)
ForgeFollowsCrate ==
  \A v \in Versions :
    /\ tagRef[v] \in Sources => crate[v] = tagRef[v]
    /\ release[v] \in Sources => crate[v] = release[v]

(* A run whose authority goes away (main or the base moved) sends at most  *)
(* one more write: the one its last rebind could not foresee (the rebind   *)
(* before each POST in reconcile_tag and reconcile_release).               *)
AtMostOneStaleWrite == \A r \in Runs : stale[r] <= 1

(* Latest is the newest stable main Release: older recoveries, support     *)
(* releases and prereleases never move it back, as long as runs follow     *)
(* one another and nobody else edits it (latest::Guard).                   *)
LatestIsNewest ==
  LET shown == {s.version : s \in {t \in Sources :
                  t.line = "main" /\ t.version \in Stable
                  /\ release[t.version] = t}}
  IN IF shown = {} THEN latest = None
     ELSE latest \in shown /\ \A v \in shown : v <= latest

(* Whatever dead runs have left behind, a run with authority over a        *)
(* published source succeeds unless something disturbs it; a lost reply to *)
(* the POST of the ref or of the Release does not (InspectAfterRefError,   *)
(* InspectAfterReleaseError).                                              *)
RecoverySucceeds == \A r \in Runs : result[r] = "err" => ~owed[r]

(* The finalizer keeps the promise of ReleaseLedger: the crate, then the   *)
(* tag, then the Release with the right Latest, and nothing is replaced    *)
(* (finalize).                                                             *)
Ledger == INSTANCE ReleaseLedger WITH tag <- tagRef

KeepsTheLedger == Ledger!Spec

-----------------------------------------------------------------------------
(***************************************************************************)
(* The inductive invariant behind the safety properties, in named parts.   *)
(***************************************************************************)
\* What a run has checked about its source stays true while it goes on.
RunInv ==
  \A r \in Runs :
    /\ pc[r] # "idle" => src[r] \in Sources
    /\ pc[r] \notin {"idle", "authorize"} => src[r].at <= tip[src[r].line]
    /\ pc[r] \notin {"idle", "authorize", "archive"} =>
         crate[Version(r)] = src[r]

\* Authority that is gone does not come back, and a run about to send a write
\* has sent none without authority before.
Revoked(r) ==
  \/ policy[r] < tip["main"]
  \/ op[r] = "fresh" /\ src[r] \in Sources /\ src[r].at < tip[src[r].line]

StaleInv ==
  \A r \in Runs :
    /\ policy[r] <= tip["main"]
    /\ stale[r] = 0 \/ (stale[r] = 1 /\ Revoked(r))
    /\ pc[r] \in {"authorize", "archive", "postTagObject", "postRef",
                  "recheckTag", "recheckLatest", "postRelease"}
         => stale[r] = 0

\* After the Release is seen it stays, and so does the tag it locks.
ReleasedInv ==
  \A r \in Runs :
    /\ pc[r] \in {"retainedTag", "confirmReleasedTag", "verifyLatest"}
         => ExactRelease(r)
    /\ pc[r] = "verifyLatest" => ExactTag(r)

IInv ==
  /\ TypeOK /\ RunInv /\ StaleInv /\ ReleasedInv
  /\ ForgeFollowsCrate /\ FinalizedForever

(***************************************************************************)
(* What holds besides when runs follow one another (the concurrency group  *)
(* of the publication workflow) and nobody else edits tags and Releases.   *)
(***************************************************************************)
Serial == MaxTampers = 0 /\ \A r, q \in Runs : r = q

\* Everything on the forge is there because the tooling created it.
NoForeign == \A v \in Versions : tagRef[v] # Foreign /\ release[v] # Foreign

\* Guard::capture's decision is the right one until the Release is posted.
ToAdvance(r) == MakeLatest(r) /\ (latest = None \/ latest < Version(r))

GuardInv ==
  \A r \in Runs :
    /\ pc[r] \in {"inspectRelease", "rebindRelease", "recheckTag",
                  "recheckLatest", "postRelease", "retainedTag"}
         => latest = before[r] /\ advance[r] = ToAdvance(r)
    /\ pc[r] \in {"rebindRelease", "recheckTag", "recheckLatest", "postRelease"}
         => release[Version(r)] = None
    /\ pc[r] \in {"recheckLatest", "postRelease"} => ExactTag(r)

SerialInv == NoForeign /\ GuardInv /\ LatestIsNewest

\* Nothing stands in the way of a run that is owed success.
OwedInv ==
  \A r \in Runs : owed[r] /\ pc[r] # "idle" =>
    /\ Authorized(r) /\ crate[Version(r)] = src[r]
    /\ pc[r] \notin {"authorize", "archive", "rebind", "inspectTag",
                     "rebindTagObject", "postTagObject", "rebindRef", "postRef"}
         => ExactTag(r)
    /\ pc[r] \in {"inspectAfterReleaseError", "confirmRelease",
                  "confirmReleasedTag", "verifyLatest"}
         => ExactRelease(r) /\ LatestAsIntended(r)
=============================================================================

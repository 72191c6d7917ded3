----------------------- MODULE ReleaseReconcile_proofs -----------------------
(***************************************************************************)
(* Proofs about ReleaseReconcile, for every set of runs and of sources and *)
(* every number of commits and of edits by other people.                   *)
(***************************************************************************)
EXTENDS ReleaseReconcile, TLAPS

(* Every variable keeps its type through every step of a run and of the    *)
(* world: in particular a tag or a Release that a run creates is that of a *)
(* release source (reconcile_tag, reconcile_release).                      *)
LEMMA TypeStep == TypeOK /\ RunInv /\ [Next]_vars => TypeOK'
  <1> SUFFICES ASSUME TypeOK, RunInv, [Next]_vars PROVE TypeOK'
    OBVIOUS
  <1> USE SourcesAssumption, NoneAssumption, BoundsAssumption DEF TypeOK, RunInv, Steps, Operations, Version, ExactTag, Versions, Lines, worldVars, forgeVars, specVars, guardVars, histVars
  <1>1. CASE UNCHANGED vars
    BY <1>1 DEF vars
  <1>2. CASE Tamper
    <2>1. CASE UNCHANGED <<release, latest>>
      <3>1. tagRef' \in [Versions -> Sources \cup {None, Foreign}]
        BY <1>2, <2>1 DEF Tamper
      <3>2. tampers' \in 0..MaxTampers /\ owed' \in [Runs -> BOOLEAN]
        BY <1>2 DEF Tamper
      <3>3. QED
        BY <1>2, <2>1, <3>1, <3>2 DEF Tamper
    <2>2. CASE UNCHANGED latest /\ ~UNCHANGED release
      <3>1. /\ tagRef' \in [Versions -> Sources \cup {None, Foreign}]
            /\ release' \in [Versions -> Sources \cup {None, Foreign}]
        <4>1. PICK v \in Versions :
                /\ release' = [release EXCEPT ![v] = Foreign]
                /\ tagRef' = [tagRef EXCEPT ![v] = IF @ = None THEN Foreign ELSE @]
          BY <1>2, <2>2 DEF Tamper
        <4>2. QED
          BY <4>1
      <3>2. tampers' \in 0..MaxTampers /\ owed' \in [Runs -> BOOLEAN]
        BY <1>2 DEF Tamper
      <3>3. QED
        BY <1>2, <2>2, <3>1, <3>2 DEF Tamper
    <2>3. CASE UNCHANGED <<tagRef, release>>
      BY <1>2, <2>3 DEF Tamper
    <2>4. QED
      BY <1>2, <2>1, <2>2, <2>3 DEF Tamper
  <1>3. ASSUME NEW l \in Lines, Advance(l) PROVE TypeOK'
    BY <1>3 DEF Advance
  <1>4. ASSUME NEW s \in Sources, Publish(s) PROVE TypeOK'
    BY <1>4 DEF Publish
  <1>5. ASSUME NEW r \in Runs, NEW s \in Sources, NEW o \in Operations, Start(r, s, o)
        PROVE TypeOK'
    BY <1>5 DEF Start
  <1>6. ASSUME NEW r \in Runs, Abort(r) PROVE TypeOK'
    BY <1>6 DEF Abort, Stop
  <1>7. ASSUME NEW r \in Runs, RunStep(r) PROVE TypeOK'
    <2>1. CASE Authorize(r)
      BY <2>1 DEF Authorize, Check, Go, Stop
    <2>2. CASE VerifyArchive(r)
      BY <2>2 DEF VerifyArchive, Check, Go, Stop
    <2>3. CASE Rebind(r)
      BY <2>3 DEF Rebind, Check, Go, Stop
    <2>4. CASE InspectTag(r)
      BY <2>4 DEF InspectTag, Check, Go, Stop
    <2>5. CASE RebindTagObject(r)
      BY <2>5 DEF RebindTagObject, Check, Go, Stop
    <2>6. CASE PostTagObject(r)
      BY <2>6 DEF PostTagObject, Go, Sent
    <2>7. CASE RebindRef(r)
      BY <2>7 DEF RebindRef, Check, Go, Stop
    <2>8. CASE PostRef(r)
      <3>1. src[r] \in Sources /\ Version(r) \in Versions
        BY <2>8 DEF PostRef
      <3>2. CASE CreateRef(r)
        BY <2>8, <3>1, <3>2 DEF PostRef, Go, Sent, CreateRef
      <3>3. CASE RefRejected(r)
        <4>1. owed' \in [Runs -> BOOLEAN]
          BY <3>3 DEF RefRejected
        <4>2. QED
          BY <2>8, <3>1, <3>3, <4>1 DEF PostRef, Go, Sent, RefRejected
      <3>4. QED
        BY <2>8, <3>2, <3>3 DEF PostRef
    <2>9. CASE InspectAfterRefError(r)
      BY <2>9 DEF InspectAfterRefError, Check, Go, Stop
    <2>10. CASE ConfirmTag(r)
      BY <2>10 DEF ConfirmTag, Check, Go, Stop
    <2>11. CASE CaptureLatest(r)
      <3>1. CASE src[r].line # "main" /\ latest = Version(r)
        BY <2>11, <3>1 DEF CaptureLatest, Stop
      <3>2. CASE ~(src[r].line # "main" /\ latest = Version(r))
        <4>1. advance' \in [Runs -> BOOLEAN]
          BY <2>11, <3>2 DEF CaptureLatest, MakeLatest
        <4>2. QED
          BY <2>11, <3>2, <4>1 DEF CaptureLatest
      <3>3. QED
        BY <3>1, <3>2
    <2>12. CASE InspectRelease(r)
      BY <2>12 DEF InspectRelease, Check, Go, Stop
    <2>13. CASE RetainedTag(r)
      BY <2>13 DEF RetainedTag, Check, Go, Stop
    <2>14. CASE RebindRelease(r)
      BY <2>14 DEF RebindRelease, Check, Go, Stop
    <2>15. CASE RecheckTag(r)
      BY <2>15 DEF RecheckTag, Check, Go, Stop
    <2>16. CASE RecheckLatest(r)
      BY <2>16 DEF RecheckLatest, Check, Go, Stop
    <2>17. CASE PostRelease(r)
      <3>1. src[r] \in Sources /\ Version(r) \in Versions
        BY <2>17 DEF PostRelease
      <3>2. CASE CreateRelease(r)
        BY <2>17, <3>1, <3>2 DEF PostRelease, Go, Sent, CreateRelease
      <3>3. CASE ReleaseRejected(r)
        <4>1. owed' \in [Runs -> BOOLEAN]
          BY <3>3 DEF ReleaseRejected
        <4>2. QED
          BY <2>17, <3>1, <3>3, <4>1 DEF PostRelease, Go, Sent, ReleaseRejected
      <3>4. QED
        BY <2>17, <3>2, <3>3 DEF PostRelease
    <2>18. CASE InspectAfterReleaseError(r)
      BY <2>18 DEF InspectAfterReleaseError, Check, Go, Stop
    <2>19. CASE ConfirmRelease(r)
      BY <2>19 DEF ConfirmRelease, Check, Go, Stop
    <2>20. CASE ConfirmReleasedTag(r)
      BY <2>20 DEF ConfirmReleasedTag, Check, Go, Stop
    <2>21. CASE VerifyLatest(r)
      BY <2>21 DEF VerifyLatest, Stop
    <2>22. QED
      BY <1>7, <2>1, <2>2, <2>3, <2>4, <2>5, <2>6, <2>7, <2>8, <2>9, <2>10, <2>11, <2>12, <2>13, <2>14, <2>15, <2>16, <2>17, <2>18, <2>19, <2>20, <2>21 DEF RunStep, TagStep, ReleaseStep
  <1> HIDE DEF TypeOK
  <1>8. QED
    BY <1>1, <1>2, <1>3, <1>4, <1>5, <1>6, <1>7 DEF Next, World

(* What a run has checked about its source stays true while it goes on:    *)
(* branches only move forward and crates.io accepts a version once         *)
(* (Binding::verify, verify_published_source).                             *)
LEMMA RunStepInv == TypeOK /\ RunInv /\ [Next]_vars => RunInv'
  <1> SUFFICES ASSUME TypeOK, RunInv, [Next]_vars PROVE RunInv'
    OBVIOUS
  <1> USE SourcesAssumption, NoneAssumption, BoundsAssumption DEF TypeOK, RunInv, Version, worldVars, forgeVars, specVars, guardVars, histVars
  <1>1. CASE UNCHANGED vars
    BY <1>1 DEF vars
  <1>2. CASE Tamper
    BY <1>2 DEF Tamper
  <1>3. ASSUME NEW l \in Lines, Advance(l) PROVE RunInv'
    BY <1>3 DEF Advance, Lines
  <1>4. ASSUME NEW s \in Sources, Publish(s) PROVE RunInv'
    BY <1>4 DEF Publish, Versions
  <1>5. ASSUME NEW r \in Runs, NEW s \in Sources, NEW o \in Operations, Start(r, s, o)
        PROVE RunInv'
    BY <1>5 DEF Start
  <1>6. ASSUME NEW r \in Runs, Abort(r) PROVE RunInv'
    BY <1>6 DEF Abort, Stop
  <1>7. ASSUME NEW r \in Runs, RunStep(r) PROVE RunInv'
    <2>1. CASE Authorize(r)
      BY <2>1 DEF Authorize, Authorized, Check, Go, Stop
    <2>2. CASE VerifyArchive(r)
      BY <2>2 DEF VerifyArchive, Check, Go, Stop
    <2>3. CASE Rebind(r)
      BY <2>3 DEF Rebind, Check, Go, Stop
    <2>4. CASE InspectTag(r)
      BY <2>4 DEF InspectTag, ExactTag, Check, Go, Stop
    <2>5. CASE RebindTagObject(r)
      BY <2>5 DEF RebindTagObject, Check, Go, Stop
    <2>6. CASE PostTagObject(r)
      BY <2>6 DEF PostTagObject, Go, Sent
    <2>7. CASE RebindRef(r)
      BY <2>7 DEF RebindRef, Check, Go, Stop
    <2>8. CASE PostRef(r)
      BY <2>8 DEF PostRef, Go, Sent, CreateRef, RefRejected
    <2>9. CASE InspectAfterRefError(r)
      BY <2>9 DEF InspectAfterRefError, Check, Go, Stop
    <2>10. CASE ConfirmTag(r)
      BY <2>10 DEF ConfirmTag, Check, Go, Stop
    <2>11. CASE CaptureLatest(r)
      BY <2>11 DEF CaptureLatest, Stop, MakeLatest
    <2>12. CASE InspectRelease(r)
      BY <2>12 DEF InspectRelease, Check, Go, Stop
    <2>13. CASE RetainedTag(r)
      BY <2>13 DEF RetainedTag, Check, Go, Stop
    <2>14. CASE RebindRelease(r)
      BY <2>14 DEF RebindRelease, Check, Go, Stop
    <2>15. CASE RecheckTag(r)
      BY <2>15 DEF RecheckTag, Check, Go, Stop
    <2>16. CASE RecheckLatest(r)
      BY <2>16 DEF RecheckLatest, Check, Go, Stop
    <2>17. CASE PostRelease(r)
      BY <2>17 DEF PostRelease, Go, Sent, CreateRelease, ReleaseRejected
    <2>18. CASE InspectAfterReleaseError(r)
      BY <2>18 DEF InspectAfterReleaseError, Check, Go, Stop
    <2>19. CASE ConfirmRelease(r)
      BY <2>19 DEF ConfirmRelease, Check, Go, Stop
    <2>20. CASE ConfirmReleasedTag(r)
      BY <2>20 DEF ConfirmReleasedTag, Check, Go, Stop
    <2>21. CASE VerifyLatest(r)
      BY <2>21 DEF VerifyLatest, Stop
    <2>22. QED
      BY <1>7, <2>1, <2>2, <2>3, <2>4, <2>5, <2>6, <2>7, <2>8, <2>9, <2>10, <2>11, <2>12, <2>13, <2>14, <2>15, <2>16, <2>17, <2>18, <2>19, <2>20, <2>21 DEF RunStep, TagStep, ReleaseStep
  <1>8. QED
    BY <1>1, <1>2, <1>3, <1>4, <1>5, <1>6, <1>7 DEF Next, World

(* The authority of a run that once had it is only lost because a branch   *)
(* has moved on (Binding::verify).                                         *)
LEMMA LostAuthority ==
  ASSUME TypeOK, RunInv, StaleInv, NEW r \in Runs, ~Authorized(r),
         pc[r] \notin {"idle", "authorize"}
  PROVE  Revoked(r)
  <1>1. src[r] \in Sources /\ src[r].at <= tip[src[r].line] /\ src[r].at \in Nat
    BY SourcesAssumption DEF RunInv, TypeOK
  <1>2. src[r].line \in Lines /\ "main" \in Lines
    BY <1>1 DEF Lines
  <1>3. policy[r] <= tip["main"] /\ policy[r] \in Nat
        /\ tip["main"] \in Nat /\ tip[src[r].line] \in Nat
    BY <1>2, BoundsAssumption DEF StaleInv, TypeOK
  <1>4. QED
    BY <1>1, <1>3 DEF Authorized, Revoked

(* Nobody edits what an immutable Release locks.                           *)
LEMMA TamperFrame ==
  ASSUME TypeOK, Tamper, NEW v \in Versions, release[v] \in Sources
  PROVE  tagRef'[v] = tagRef[v] /\ release'[v] = release[v]
  <1>1. release[v] # None
    BY NoneAssumption
  <1>2. CASE UNCHANGED <<release, latest>>
    BY <1>1, <1>2 DEF Tamper, TypeOK
  <1>3. CASE UNCHANGED latest /\ ~UNCHANGED release
    BY <1>1, <1>3 DEF Tamper, TypeOK
  <1>4. CASE UNCHANGED <<tagRef, release>>
    BY <1>4
  <1>5. QED
    BY <1>2, <1>3, <1>4 DEF Tamper

(* Authority that is gone does not come back, so the rebind before each    *)
(* POST stops a run that has sent one write without it (reconcile_tag,     *)
(* reconcile_release).                                                     *)
LEMMA StaleStep == TypeOK /\ RunInv /\ StaleInv /\ [Next]_vars => StaleInv'
  <1> SUFFICES ASSUME TypeOK, RunInv, StaleInv, [Next]_vars PROVE StaleInv'
    OBVIOUS
  <1> USE SourcesAssumption, NoneAssumption, BoundsAssumption DEF TypeOK, RunInv, StaleInv, Revoked, Lines, worldVars, forgeVars, specVars, guardVars, histVars
  <1>1. CASE UNCHANGED vars
    BY <1>1 DEF vars
  <1>2. CASE Tamper
    BY <1>2 DEF Tamper
  <1>3. ASSUME NEW l \in Lines, Advance(l) PROVE StaleInv'
    BY <1>3 DEF Advance
  <1>4. ASSUME NEW s \in Sources, Publish(s) PROVE StaleInv'
    BY <1>4 DEF Publish
  <1>5. ASSUME NEW r \in Runs, NEW s \in Sources, NEW o \in Operations, Start(r, s, o)
        PROVE StaleInv'
    BY <1>5 DEF Start
  <1>6. ASSUME NEW r \in Runs, Abort(r) PROVE StaleInv'
    BY <1>6 DEF Abort, Stop
  <1>7. ASSUME NEW r \in Runs, RunStep(r) PROVE StaleInv'
    <2>1. CASE Authorize(r)
      BY <2>1 DEF Authorize, Authorized, Check, Go, Stop
    <2>2. CASE VerifyArchive(r)
      BY <2>2 DEF VerifyArchive, Check, Go, Stop
    <2>3. CASE Rebind(r)
      BY <2>3 DEF Rebind, Authorized, Check, Go, Stop
    <2>4. CASE InspectTag(r)
      BY <2>4 DEF InspectTag, Check, Go, Stop
    <2>5. CASE RebindTagObject(r)
      BY <2>5 DEF RebindTagObject, Authorized, Check, Go, Stop
    <2>6. CASE PostTagObject(r)
      <3>1. stale[r] = 0 /\ pc[r] \notin {"idle", "authorize"}
        BY <2>6 DEF PostTagObject
      <3>2. ~Authorized(r) => Revoked(r)
        BY <3>1, LostAuthority
      <3>3. /\ UNCHANGED <<tip, src, op, policy>>
            /\ \A x \in Runs \ {r} : stale'[x] = stale[x] /\ pc'[x] = pc[x]
            /\ pc'[r] \in {"rebindRef", "confirmTag", "inspectAfterRefError",
                          "confirmRelease", "inspectAfterReleaseError"}
            /\ stale'[r] = IF Authorized(r) THEN 0 ELSE 1
        BY <2>6, <3>1 DEF PostTagObject, Go, Sent
      <3>4. QED
        BY <3>2, <3>3
    <2>7. CASE RebindRef(r)
      BY <2>7 DEF RebindRef, Authorized, Check, Go, Stop
    <2>8. CASE PostRef(r)
      <3>1. stale[r] = 0 /\ pc[r] \notin {"idle", "authorize"}
        BY <2>8 DEF PostRef
      <3>2. ~Authorized(r) => Revoked(r)
        BY <3>1, LostAuthority
      <3>3. /\ UNCHANGED <<tip, src, op, policy>>
            /\ \A x \in Runs \ {r} : stale'[x] = stale[x] /\ pc'[x] = pc[x]
            /\ pc'[r] \in {"rebindRef", "confirmTag", "inspectAfterRefError",
                          "confirmRelease", "inspectAfterReleaseError"}
            /\ stale'[r] = IF Authorized(r) THEN 0 ELSE 1
        BY <2>8, <3>1 DEF PostRef, Go, Sent
      <3>4. QED
        BY <3>2, <3>3
    <2>9. CASE InspectAfterRefError(r)
      BY <2>9 DEF InspectAfterRefError, Check, Go, Stop
    <2>10. CASE ConfirmTag(r)
      BY <2>10 DEF ConfirmTag, Check, Go, Stop
    <2>11. CASE CaptureLatest(r)
      BY <2>11 DEF CaptureLatest, Stop, MakeLatest
    <2>12. CASE InspectRelease(r)
      BY <2>12 DEF InspectRelease, Check, Go, Stop
    <2>13. CASE RetainedTag(r)
      BY <2>13 DEF RetainedTag, Check, Go, Stop
    <2>14. CASE RebindRelease(r)
      BY <2>14 DEF RebindRelease, Authorized, Check, Go, Stop
    <2>15. CASE RecheckTag(r)
      BY <2>15 DEF RecheckTag, Check, Go, Stop
    <2>16. CASE RecheckLatest(r)
      BY <2>16 DEF RecheckLatest, Check, Go, Stop
    <2>17. CASE PostRelease(r)
      <3>1. stale[r] = 0 /\ pc[r] \notin {"idle", "authorize"}
        BY <2>17 DEF PostRelease
      <3>2. ~Authorized(r) => Revoked(r)
        BY <3>1, LostAuthority
      <3>3. /\ UNCHANGED <<tip, src, op, policy>>
            /\ \A x \in Runs \ {r} : stale'[x] = stale[x] /\ pc'[x] = pc[x]
            /\ pc'[r] \in {"rebindRef", "confirmTag", "inspectAfterRefError",
                          "confirmRelease", "inspectAfterReleaseError"}
            /\ stale'[r] = IF Authorized(r) THEN 0 ELSE 1
        BY <2>17, <3>1 DEF PostRelease, Go, Sent
      <3>4. QED
        BY <3>2, <3>3
    <2>18. CASE InspectAfterReleaseError(r)
      BY <2>18 DEF InspectAfterReleaseError, Check, Go, Stop
    <2>19. CASE ConfirmRelease(r)
      BY <2>19 DEF ConfirmRelease, Check, Go, Stop
    <2>20. CASE ConfirmReleasedTag(r)
      BY <2>20 DEF ConfirmReleasedTag, Check, Go, Stop
    <2>21. CASE VerifyLatest(r)
      BY <2>21 DEF VerifyLatest, Stop
    <2>22. QED
      BY <1>7, <2>1, <2>2, <2>3, <2>4, <2>5, <2>6, <2>7, <2>8, <2>9, <2>10, <2>11, <2>12, <2>13, <2>14, <2>15, <2>16, <2>17, <2>18, <2>19, <2>20, <2>21 DEF RunStep, TagStep, ReleaseStep
  <1>8. QED
    BY <1>1, <1>2, <1>3, <1>4, <1>5, <1>6, <1>7 DEF Next, World

(* A Release that a run has seen stays, and so does the tag it locks       *)
(* (inspect_release, require_exact_tag_object).                            *)
LEMMA ReleasedStep == TypeOK /\ RunInv /\ ReleasedInv /\ [Next]_vars => ReleasedInv'
  <1> SUFFICES ASSUME TypeOK, RunInv, ReleasedInv, [Next]_vars PROVE ReleasedInv'
    OBVIOUS
  <1> USE SourcesAssumption, NoneAssumption, BoundsAssumption DEF TypeOK, RunInv, ReleasedInv, ExactRelease, ExactTag, Version, Versions, worldVars, forgeVars, specVars, guardVars, histVars
  <1>1. CASE UNCHANGED vars
    BY <1>1 DEF vars
  <1>2. CASE Tamper
    <2>1. \A v \in Versions : release[v] \in Sources =>
             tagRef'[v] = tagRef[v] /\ release'[v] = release[v]
      BY <1>2, TamperFrame
    <2>2. UNCHANGED <<crate, pc, src, finalized>>
      BY <1>2 DEF Tamper
    <2>3. QED
      BY <2>1, <2>2
  <1>3. ASSUME NEW l \in Lines, Advance(l) PROVE ReleasedInv'
    BY <1>3 DEF Advance
  <1>4. ASSUME NEW s \in Sources, Publish(s) PROVE ReleasedInv'
    BY <1>4 DEF Publish
  <1>5. ASSUME NEW r \in Runs, NEW s \in Sources, NEW o \in Operations, Start(r, s, o)
        PROVE ReleasedInv'
    BY <1>5 DEF Start
  <1>6. ASSUME NEW r \in Runs, Abort(r) PROVE ReleasedInv'
    BY <1>6 DEF Abort, Stop
  <1>7. ASSUME NEW r \in Runs, RunStep(r) PROVE ReleasedInv'
    <2>1. CASE Authorize(r)
      BY <2>1 DEF Authorize, Check, Go, Stop
    <2>2. CASE VerifyArchive(r)
      BY <2>2 DEF VerifyArchive, Check, Go, Stop
    <2>3. CASE Rebind(r)
      BY <2>3 DEF Rebind, Check, Go, Stop
    <2>4. CASE InspectTag(r)
      BY <2>4 DEF InspectTag, Check, Go, Stop
    <2>5. CASE RebindTagObject(r)
      BY <2>5 DEF RebindTagObject, Check, Go, Stop
    <2>6. CASE PostTagObject(r)
      BY <2>6 DEF PostTagObject, Go, Sent
    <2>7. CASE RebindRef(r)
      BY <2>7 DEF RebindRef, Check, Go, Stop
    <2>8. CASE PostRef(r)
      BY <2>8 DEF PostRef, Go, Sent, CreateRef, RefRejected
    <2>9. CASE InspectAfterRefError(r)
      BY <2>9 DEF InspectAfterRefError, Check, Go, Stop
    <2>10. CASE ConfirmTag(r)
      BY <2>10 DEF ConfirmTag, Check, Go, Stop
    <2>11. CASE CaptureLatest(r)
      BY <2>11 DEF CaptureLatest, Stop, MakeLatest
    <2>12. CASE InspectRelease(r)
      BY <2>12 DEF InspectRelease, Check, Go, Stop
    <2>13. CASE RetainedTag(r)
      BY <2>13 DEF RetainedTag, Check, Go, Stop
    <2>14. CASE RebindRelease(r)
      BY <2>14 DEF RebindRelease, Check, Go, Stop
    <2>15. CASE RecheckTag(r)
      BY <2>15 DEF RecheckTag, Check, Go, Stop
    <2>16. CASE RecheckLatest(r)
      BY <2>16 DEF RecheckLatest, Check, Go, Stop
    <2>17. CASE PostRelease(r)
      BY <2>17 DEF PostRelease, Go, Sent, CreateRelease, ReleaseRejected
    <2>18. CASE InspectAfterReleaseError(r)
      BY <2>18 DEF InspectAfterReleaseError, Check, Go, Stop
    <2>19. CASE ConfirmRelease(r)
      BY <2>19 DEF ConfirmRelease, Check, Go, Stop
    <2>20. CASE ConfirmReleasedTag(r)
      BY <2>20 DEF ConfirmReleasedTag, Check, Go, Stop
    <2>21. CASE VerifyLatest(r)
      BY <2>21 DEF VerifyLatest, Stop
    <2>22. QED
      BY <1>7, <2>1, <2>2, <2>3, <2>4, <2>5, <2>6, <2>7, <2>8, <2>9, <2>10, <2>11, <2>12, <2>13, <2>14, <2>15, <2>16, <2>17, <2>18, <2>19, <2>20, <2>21 DEF RunStep, TagStep, ReleaseStep
  <1>8. QED
    BY <1>1, <1>2, <1>3, <1>4, <1>5, <1>6, <1>7 DEF Next, World

(* No step creates a tag or a Release for a version whose crate comes from *)
(* another source, and none changes the source of a published crate        *)
(* (verify_published_source).                                              *)
LEMMA ForgeStep == TypeOK /\ RunInv /\ ForgeFollowsCrate /\ [Next]_vars => ForgeFollowsCrate'
  <1> SUFFICES ASSUME TypeOK, RunInv, ForgeFollowsCrate, [Next]_vars PROVE ForgeFollowsCrate'
    OBVIOUS
  <1> USE SourcesAssumption, NoneAssumption, BoundsAssumption DEF TypeOK, RunInv, ForgeFollowsCrate, Version, Versions, worldVars, forgeVars, specVars, guardVars, histVars
  <1>1. CASE UNCHANGED vars
    BY <1>1 DEF vars
  <1>2. CASE Tamper
    BY <1>2 DEF Tamper
  <1>3. ASSUME NEW l \in Lines, Advance(l) PROVE ForgeFollowsCrate'
    BY <1>3 DEF Advance
  <1>4. ASSUME NEW s \in Sources, Publish(s) PROVE ForgeFollowsCrate'
    BY <1>4 DEF Publish
  <1>5. ASSUME NEW r \in Runs, NEW s \in Sources, NEW o \in Operations, Start(r, s, o)
        PROVE ForgeFollowsCrate'
    BY <1>5 DEF Start
  <1>6. ASSUME NEW r \in Runs, Abort(r) PROVE ForgeFollowsCrate'
    BY <1>6 DEF Abort, Stop
  <1>7. ASSUME NEW r \in Runs, RunStep(r) PROVE ForgeFollowsCrate'
    <2>1. CASE Authorize(r)
      BY <2>1 DEF Authorize, Check, Go, Stop
    <2>2. CASE VerifyArchive(r)
      BY <2>2 DEF VerifyArchive, Check, Go, Stop
    <2>3. CASE Rebind(r)
      BY <2>3 DEF Rebind, Check, Go, Stop
    <2>4. CASE InspectTag(r)
      BY <2>4 DEF InspectTag, Check, Go, Stop
    <2>5. CASE RebindTagObject(r)
      BY <2>5 DEF RebindTagObject, Check, Go, Stop
    <2>6. CASE PostTagObject(r)
      BY <2>6 DEF PostTagObject, Go, Sent
    <2>7. CASE RebindRef(r)
      BY <2>7 DEF RebindRef, Check, Go, Stop
    <2>8. CASE PostRef(r)
      BY <2>8 DEF PostRef, Go, Sent, CreateRef, RefRejected
    <2>9. CASE InspectAfterRefError(r)
      BY <2>9 DEF InspectAfterRefError, Check, Go, Stop
    <2>10. CASE ConfirmTag(r)
      BY <2>10 DEF ConfirmTag, Check, Go, Stop
    <2>11. CASE CaptureLatest(r)
      BY <2>11 DEF CaptureLatest, Stop, MakeLatest
    <2>12. CASE InspectRelease(r)
      BY <2>12 DEF InspectRelease, Check, Go, Stop
    <2>13. CASE RetainedTag(r)
      BY <2>13 DEF RetainedTag, Check, Go, Stop
    <2>14. CASE RebindRelease(r)
      BY <2>14 DEF RebindRelease, Check, Go, Stop
    <2>15. CASE RecheckTag(r)
      BY <2>15 DEF RecheckTag, Check, Go, Stop
    <2>16. CASE RecheckLatest(r)
      BY <2>16 DEF RecheckLatest, Check, Go, Stop
    <2>17. CASE PostRelease(r)
      BY <2>17 DEF PostRelease, Go, Sent, CreateRelease, ReleaseRejected
    <2>18. CASE InspectAfterReleaseError(r)
      BY <2>18 DEF InspectAfterReleaseError, Check, Go, Stop
    <2>19. CASE ConfirmRelease(r)
      BY <2>19 DEF ConfirmRelease, Check, Go, Stop
    <2>20. CASE ConfirmReleasedTag(r)
      BY <2>20 DEF ConfirmReleasedTag, Check, Go, Stop
    <2>21. CASE VerifyLatest(r)
      BY <2>21 DEF VerifyLatest, Stop
    <2>22. QED
      BY <1>7, <2>1, <2>2, <2>3, <2>4, <2>5, <2>6, <2>7, <2>8, <2>9, <2>10, <2>11, <2>12, <2>13, <2>14, <2>15, <2>16, <2>17, <2>18, <2>19, <2>20, <2>21 DEF RunStep, TagStep, ReleaseStep
  <1>8. QED
    BY <1>1, <1>2, <1>3, <1>4, <1>5, <1>6, <1>7 DEF Next, World

(* What a run reports as finalized is so, and no later step undoes it      *)
(* (finalize, the read-back after the last write).                         *)
LEMMA FinalizedStep == TypeOK /\ RunInv /\ ReleasedInv /\ FinalizedForever /\ [Next]_vars => FinalizedForever'
  <1> SUFFICES ASSUME TypeOK, RunInv, ReleasedInv, FinalizedForever, [Next]_vars PROVE FinalizedForever'
    OBVIOUS
  <1> USE SourcesAssumption, NoneAssumption, BoundsAssumption DEF TypeOK, RunInv, FinalizedForever, Version, Versions, worldVars, forgeVars, specVars, guardVars, histVars
  <1>1. CASE UNCHANGED vars
    BY <1>1 DEF vars
  <1>2. CASE Tamper
    <2>1. \A v \in Versions : release[v] \in Sources =>
             tagRef'[v] = tagRef[v] /\ release'[v] = release[v]
      BY <1>2, TamperFrame
    <2>2. UNCHANGED <<crate, pc, src, finalized>>
      BY <1>2 DEF Tamper
    <2>3. QED
      BY <2>1, <2>2
  <1>3. ASSUME NEW l \in Lines, Advance(l) PROVE FinalizedForever'
    BY <1>3 DEF Advance
  <1>4. ASSUME NEW s \in Sources, Publish(s) PROVE FinalizedForever'
    BY <1>4 DEF Publish
  <1>5. ASSUME NEW r \in Runs, NEW s \in Sources, NEW o \in Operations, Start(r, s, o)
        PROVE FinalizedForever'
    BY <1>5 DEF Start
  <1>6. ASSUME NEW r \in Runs, Abort(r) PROVE FinalizedForever'
    BY <1>6 DEF Abort, Stop
  <1>7. ASSUME NEW r \in Runs, RunStep(r) PROVE FinalizedForever'
    <2>1. CASE Authorize(r)
      BY <2>1 DEF Authorize, Check, Go, Stop
    <2>2. CASE VerifyArchive(r)
      BY <2>2 DEF VerifyArchive, Check, Go, Stop
    <2>3. CASE Rebind(r)
      BY <2>3 DEF Rebind, Check, Go, Stop
    <2>4. CASE InspectTag(r)
      BY <2>4 DEF InspectTag, Check, Go, Stop
    <2>5. CASE RebindTagObject(r)
      BY <2>5 DEF RebindTagObject, Check, Go, Stop
    <2>6. CASE PostTagObject(r)
      BY <2>6 DEF PostTagObject, Go, Sent
    <2>7. CASE RebindRef(r)
      BY <2>7 DEF RebindRef, Check, Go, Stop
    <2>8. CASE PostRef(r)
      BY <2>8 DEF PostRef, Go, Sent, CreateRef, RefRejected
    <2>9. CASE InspectAfterRefError(r)
      BY <2>9 DEF InspectAfterRefError, Check, Go, Stop
    <2>10. CASE ConfirmTag(r)
      BY <2>10 DEF ConfirmTag, Check, Go, Stop
    <2>11. CASE CaptureLatest(r)
      BY <2>11 DEF CaptureLatest, Stop, MakeLatest
    <2>12. CASE InspectRelease(r)
      BY <2>12 DEF InspectRelease, Check, Go, Stop
    <2>13. CASE RetainedTag(r)
      BY <2>13 DEF RetainedTag, Check, Go, Stop
    <2>14. CASE RebindRelease(r)
      BY <2>14 DEF RebindRelease, Check, Go, Stop
    <2>15. CASE RecheckTag(r)
      BY <2>15 DEF RecheckTag, Check, Go, Stop
    <2>16. CASE RecheckLatest(r)
      BY <2>16 DEF RecheckLatest, Check, Go, Stop
    <2>17. CASE PostRelease(r)
      BY <2>17 DEF PostRelease, Go, Sent, CreateRelease, ReleaseRejected
    <2>18. CASE InspectAfterReleaseError(r)
      BY <2>18 DEF InspectAfterReleaseError, Check, Go, Stop
    <2>19. CASE ConfirmRelease(r)
      BY <2>19 DEF ConfirmRelease, Check, Go, Stop
    <2>20. CASE ConfirmReleasedTag(r)
      BY <2>20 DEF ConfirmReleasedTag, Check, Go, Stop
    <2>21. CASE VerifyLatest(r)
      BY <2>21 DEF VerifyLatest, ReleasedInv, ExactRelease, ExactTag, Stop
    <2>22. QED
      BY <1>7, <2>1, <2>2, <2>3, <2>4, <2>5, <2>6, <2>7, <2>8, <2>9, <2>10, <2>11, <2>12, <2>13, <2>14, <2>15, <2>16, <2>17, <2>18, <2>19, <2>20, <2>21 DEF RunStep, TagStep, ReleaseStep
  <1>8. QED
    BY <1>1, <1>2, <1>3, <1>4, <1>5, <1>6, <1>7 DEF Next, World

-----------------------------------------------------------------------------
(* The inductive invariant holds before any run.                           *)
LEMMA InitIInv == Init => IInv
  <1> SUFFICES ASSUME Init PROVE IInv
    OBVIOUS
  <1> USE SourcesAssumption, NoneAssumption, BoundsAssumption DEF Init
  <1>1. TypeOK
    BY DEF TypeOK, Steps, Operations, Versions
  <1>2. RunInv /\ StaleInv /\ ReleasedInv
    BY DEF RunInv, StaleInv, ReleasedInv, Lines
  <1>3. ForgeFollowsCrate /\ FinalizedForever
    BY DEF ForgeFollowsCrate, FinalizedForever
  <1>4. QED
    BY <1>1, <1>2, <1>3 DEF IInv

(* Every step of every run and of the world preserves it.                  *)
LEMMA StepIInv == IInv /\ [Next]_vars => IInv'
BY TypeStep, RunStepInv, StaleStep, ReleasedStep, ForgeStep, FinalizedStep
   DEF IInv

(* The inductive invariant holds in every reachable state.                 *)
LEMMA Inductive == Spec => []IInv
BY InitIInv, StepIInv, PTL DEF Spec

(* Every variable keeps its type for ever (finalize and the environment it *)
(* runs in).                                                               *)
THEOREM TypeCorrect == Spec => []TypeOK
  <1>1. IInv => TypeOK
    BY DEF IInv
  <1>2. QED
    BY <1>1, Inductive, PTL

(* A source for which a run has returned success has its crate, annotated  *)
(* tag and immutable Release for ever, whatever other runs and other       *)
(* people do (finalize).                                                   *)
THEOREM FinalizationIsFinal == Spec => []FinalizedForever
  <1>1. IInv => FinalizedForever
    BY DEF IInv
  <1>2. QED
    BY <1>1, Inductive, PTL

(* The tooling never creates a tag or a Release for a version whose crate  *)
(* was published from another source or not at all                         *)
(* (verify_published_source).                                              *)
THEOREM ForgeIsBoundToCrate == Spec => []ForgeFollowsCrate
  <1>1. IInv => ForgeFollowsCrate
    BY DEF IInv
  <1>2. QED
    BY <1>1, Inductive, PTL

(* A run sends at most one write after its authority has gone (the rebind  *)
(* before each POST).                                                      *)
THEOREM OneStaleWrite == Spec => []AtMostOneStaleWrite
  <1>1. IInv => AtMostOneStaleWrite
    BY DEF IInv, StaleInv, AtMostOneStaleWrite
  <1>2. QED
    BY <1>1, Inductive, PTL

-----------------------------------------------------------------------------
(***************************************************************************)
(* Runs that follow one another.                                           *)
(***************************************************************************)
(* Only the two POSTs, and people, change the forge; a run reads otherwise *)
(* (finalize).                                                             *)
LEMMA ReadsOnly ==
  ASSUME NEW r \in Runs, RunStep(r), ~PostRef(r), ~PostRelease(r)
  PROVE  UNCHANGED <<worldVars, specVars>>
BY DEF RunStep, TagStep, ReleaseStep, Authorize, VerifyArchive, Rebind, InspectTag,
   RebindTagObject, PostTagObject, RebindRef, InspectAfterRefError, ConfirmTag,
   CaptureLatest, InspectRelease, RetainedTag, RebindRelease, RecheckTag,
   RecheckLatest, InspectAfterReleaseError, ConfirmRelease, ConfirmReleasedTag,
   VerifyLatest, Check

(* With nobody editing the forge there are no edits.                       *)
LEMMA NoTamper == ASSUME Serial, TypeOK PROVE ~Tamper
BY DEF Serial, TypeOK, Tamper

(* A tag and a Release that exist are those of the crate's source.         *)
LEMMA OnlyOurs ==
  ASSUME IInv, NoForeign, NEW v \in Versions
  PROVE  /\ tagRef[v] = None \/ (tagRef[v] \in Sources /\ tagRef[v] = crate[v])
         /\ release[v] = None \/ (release[v] \in Sources /\ release[v] = crate[v])
BY DEF IInv, TypeOK, NoForeign, ForgeFollowsCrate

(* A run's source and version past its checks.                             *)
LEMMA RunSource ==
  ASSUME IInv, NEW r \in Runs, pc[r] # "idle"
  PROVE  /\ src[r] \in Sources /\ Version(r) \in Versions /\ Version(r) \in Nat
         /\ Version(r) # None
         /\ pc[r] \notin {"authorize", "archive"} => crate[Version(r)] = src[r]
BY SourcesAssumption, NoneAssumption DEF IInv, RunInv, Version, Versions

(* The POST of the ref is a Tag of ReleaseLedger: the crate is of the same *)
(* source and there was no tag (reconcile_tag).                            *)
LEMMA PostRefTags ==
  ASSUME IInv, NEW r \in Runs, PostRef(r)
  PROVE  Ledger!Tag(src[r]) \/ UNCHANGED <<crate, tagRef, release, latest>>
<1>1. pc[r] = "postRef"
  BY DEF PostRef
<1>2. crate[src[r].version] = src[r]
  BY <1>1, RunSource DEF Version
<1>3. CASE CreateRef(r)
  BY <1>2, <1>3 DEF PostRef, CreateRef, Version, Ledger!Tag
<1>4. CASE RefRejected(r)
  BY <1>4 DEF PostRef, RefRejected
<1>5. QED
  BY <1>3, <1>4 DEF PostRef

(* The POST of the Release is a Release of ReleaseLedger: the tag is there *)
(* and make_latest says what the ledger's Latest says (reconcile_release,  *)
(* Guard::capture).                                                        *)
LEMMA PostReleaseReleases ==
  ASSUME IInv, GuardInv, NEW r \in Runs, PostRelease(r)
  PROVE  Ledger!Release(src[r]) \/ UNCHANGED <<crate, tagRef, release, latest>>
<1>1. pc[r] = "postRelease" /\ src[r] \in Sources /\ Version(r) \in Versions
  BY RunSource DEF PostRelease
<1>2. ExactTag(r) /\ advance[r] = ToAdvance(r)
  BY <1>1 DEF GuardInv
<1>3. CASE CreateRelease(r)
  <2>1. tagRef[Version(r)] = src[r] /\ src[r] # None
    BY <1>1, <1>2, NoneAssumption DEF ExactTag
  <2>2. tagRef' = tagRef
    BY <1>1, <1>3, <2>1 DEF CreateRelease, IInv, TypeOK
  <2>3. release' = [release EXCEPT ![src[r].version] = src[r]]
        /\ release[src[r].version] = None /\ crate' = crate
    BY <1>3 DEF CreateRelease, PostRelease, Version
  <2>4. latest' = IF Ledger!OnMain(src[r]) /\ (latest = None \/ latest < src[r].version)
                  THEN src[r].version ELSE latest
    BY <1>2, <1>3 DEF CreateRelease, ToAdvance, MakeLatest, Ledger!OnMain, Version
  <2>5. QED
    BY <2>1, <2>2, <2>3, <2>4 DEF Ledger!Release, Version
<1>4. CASE ReleaseRejected(r)
  BY <1>4 DEF PostRelease, ReleaseRejected, forgeVars
<1>5. QED
  BY <1>3, <1>4 DEF PostRelease

(* Every step of the finalizer and of its environment is a step of the     *)
(* ledger, or changes nothing that the ledger shows.                       *)
LEMMA LedgerStep ==
  ASSUME Serial, IInv, GuardInv, [Next]_vars
  PROVE  [Ledger!Next]_<<crate, tagRef, release, latest>>
<1>1. ~Tamper
  BY NoTamper DEF IInv
<1>2. CASE UNCHANGED vars
  BY <1>2 DEF vars, worldVars, forgeVars
<1>3. ASSUME NEW s \in Sources, Publish(s) PROVE Ledger!Next
  BY <1>3 DEF Publish, forgeVars, Ledger!Publish, Ledger!Next
<1>4. ASSUME NEW l \in Lines, Advance(l)
      PROVE  UNCHANGED <<crate, tagRef, release, latest>>
  BY <1>4 DEF Advance, forgeVars
<1>5. ASSUME NEW r \in Runs, RunStep(r)
      PROVE  [Ledger!Next]_<<crate, tagRef, release, latest>>
  <2>1. CASE PostRef(r)
    BY <2>1, PostRefTags, RunSource DEF Ledger!Next, PostRef
  <2>2. CASE PostRelease(r)
    BY <2>2, PostReleaseReleases, RunSource DEF Ledger!Next, PostRelease
  <2>3. QED
    BY <1>5, <2>1, <2>2, ReadsOnly DEF worldVars, forgeVars
<1>6. ASSUME NEW r \in Runs, Abort(r)
      PROVE  UNCHANGED <<crate, tagRef, release, latest>>
  BY <1>6 DEF Abort, worldVars, forgeVars
<1>7. ASSUME NEW r \in Runs, NEW s \in Sources, NEW o \in Operations, Start(r, s, o)
      PROVE  UNCHANGED <<crate, tagRef, release, latest>>
  BY <1>7 DEF Start, worldVars, forgeVars
<1>8. QED
  BY <1>1, <1>2, <1>3, <1>4, <1>5, <1>6, <1>7 DEF Next, World

-----------------------------------------------------------------------------
\* The stable versions of the main line that have their Release.
Shown == {s.version : s \in {t \in Sources :
            t.line = "main" /\ t.version \in Stable /\ release[t.version] = t}}

(* The ledger's own steps keep Latest the newest: this is a property of    *)
(* the promise, and the finalizer inherits it.                             *)
LEMMA LedgerKeepsLatest ==
  ASSUME TypeOK, LatestIsNewest, [Ledger!Next]_<<crate, tagRef, release, latest>>
  PROVE  LatestIsNewest'
<1> USE SourcesAssumption, NoneAssumption DEF Versions
<1>1. LatestIsNewest <=> IF Shown = {} THEN latest = None
                         ELSE latest \in Shown /\ \A v \in Shown : v <= latest
  BY DEF LatestIsNewest, Shown
<1>2. LatestIsNewest' <=> IF Shown' = {} THEN latest' = None
                          ELSE latest' \in Shown' /\ \A v \in Shown' : v <= latest'
  BY DEF LatestIsNewest, Shown
<1>3. CASE UNCHANGED <<release, latest>>
  BY <1>1, <1>2, <1>3 DEF Shown
<1>4. ASSUME NEW s \in Sources, Ledger!Release(s) PROVE LatestIsNewest'
  <2>1. /\ s.version \in Nat /\ s.version \in Versions /\ s # None
        /\ release[s.version] = None /\ release' = [release EXCEPT ![s.version] = s]
    BY <1>4 DEF Ledger!Release
  <2>2. \A t \in Sources : release[t.version] = t => t.version # s.version
    BY <2>1
  <2>3. \A t \in Sources : release'[t.version] = t <=> release[t.version] = t \/ t = s
    BY <2>1, <2>2 DEF TypeOK
  <2>4. Shown \subseteq Nat /\ None \notin Shown
    BY DEF Shown
  <2>5. CASE Ledger!OnMain(s)
    <3>1. Shown' = Shown \cup {s.version}
      BY <2>3, <2>5 DEF Shown, Ledger!OnMain
    <3>2. latest' = IF latest = None \/ latest < s.version THEN s.version ELSE latest
      BY <1>4, <2>5 DEF Ledger!Release
    <3>3. CASE Shown = {}
      <4>1. latest = None /\ Shown' = {s.version} /\ latest' = s.version
        BY <1>1, <3>1, <3>2, <3>3
      <4>2. QED
        BY <1>2, <2>1, <4>1
    <3>4. CASE Shown # {}
      <4>1. latest \in Nat /\ latest \in Shown /\ \A v \in Shown : v <= latest
        BY <1>1, <2>4, <3>4
      <4>2. latest # None
        BY <2>4, <4>1
      <4>3. CASE latest < s.version
        <5>1. latest' = s.version
          BY <3>2, <4>3
        <5>2. \A v \in Shown' : v <= s.version
          BY <2>1, <2>4, <3>1, <4>1, <4>3
        <5>3. QED
          BY <1>2, <3>1, <5>1, <5>2
      <4>4. CASE ~(latest < s.version)
        <5>1. latest' = latest
          BY <3>2, <4>2, <4>4
        <5>2. \A v \in Shown' : v <= latest
          BY <2>1, <3>1, <4>1, <4>4
        <5>3. QED
          BY <1>2, <3>1, <4>1, <5>1, <5>2
      <4>5. QED
        BY <4>3, <4>4
    <3>5. QED
      BY <3>3, <3>4
  <2>6. CASE ~Ledger!OnMain(s)
    <3>1. Shown' = Shown
      BY <2>3, <2>6 DEF Shown, Ledger!OnMain
    <3>2. latest' = latest
      BY <1>4, <2>6 DEF Ledger!Release
    <3>3. QED
      BY <1>1, <1>2, <3>1, <3>2
  <2>7. QED
    BY <2>5, <2>6
<1>5. QED
  BY <1>3, <1>4 DEF Ledger!Next, Ledger!Publish, Ledger!Tag

(* A version that Latest shows has its Release on the main line, and a     *)
(* stable Release of the main line is not newer than Latest.               *)
LEMMA LatestShows ==
  ASSUME TypeOK, LatestIsNewest
  PROVE  /\ latest # None => \E t \in Sources : /\ t.line = "main" /\ t.version = latest
                                               /\ release[latest] = t
         /\ \A t \in Sources : t.line = "main" /\ t.version \in Stable
                               /\ release[t.version] = t
              => latest \in Nat /\ latest # None /\ t.version <= latest
<1> USE SourcesAssumption, NoneAssumption DEF Versions
<1>1. IF Shown = {} THEN latest = None
      ELSE latest \in Shown /\ \A v \in Shown : v <= latest
  BY DEF LatestIsNewest, Shown
<1>2. Shown \subseteq Nat /\ None \notin Shown
  BY DEF Shown
<1>3. QED
  BY <1>1, <1>2 DEF Shown

-----------------------------------------------------------------------------
(* With one run at a time, nothing comes between what a run reads of the   *)
(* tag, the Release and Latest and its POST of the Release                 *)
(* (reconcile_release, Guard::capture).                                    *)
LEMMA GuardStep ==
  ASSUME Serial, IInv, SerialInv, [Next]_vars PROVE GuardInv' /\ NoForeign'
<1> USE DEF SerialInv
<1>0. ~Tamper /\ \A x, y \in Runs : x = y
  BY NoTamper DEF IInv, Serial
<1>1. CASE UNCHANGED vars
  BY <1>1 DEF vars, worldVars, forgeVars, specVars, guardVars, GuardInv, NoForeign,
     ToAdvance, MakeLatest, Version, ExactTag
<1>2. ASSUME NEW l \in Lines, Advance(l) PROVE GuardInv' /\ NoForeign'
  BY <1>2 DEF Advance, forgeVars, specVars, guardVars, GuardInv, NoForeign,
     ToAdvance, MakeLatest, Version, ExactTag
<1>3. ASSUME NEW s \in Sources, Publish(s) PROVE GuardInv' /\ NoForeign'
  BY <1>3 DEF Publish, forgeVars, specVars, guardVars, GuardInv, NoForeign,
     ToAdvance, MakeLatest, Version, ExactTag
<1>4. ASSUME NEW r \in Runs, NEW s \in Sources, NEW o \in Operations, Start(r, s, o)
      PROVE  GuardInv' /\ NoForeign'
  <2>1. \A x \in Runs : pc'[x] = "authorize"
    BY <1>0, <1>4 DEF Start, IInv, TypeOK
  <2>2. QED
    BY <1>4, <2>1 DEF Start, worldVars, forgeVars, GuardInv, NoForeign
<1>5. ASSUME NEW r \in Runs, Abort(r) PROVE GuardInv' /\ NoForeign'
  <2>1. \A x \in Runs : pc'[x] = "idle"
    BY <1>0, <1>5 DEF Abort, Stop, IInv, TypeOK
  <2>2. QED
    BY <1>5, <2>1 DEF Abort, worldVars, forgeVars, GuardInv, NoForeign
<1>6. ASSUME NEW r \in Runs, RunStep(r) PROVE GuardInv' /\ NoForeign'
  <2>1. CASE PostRef(r)
    <3>1. \A x \in Runs : pc'[x] \in {"confirmTag", "inspectAfterRefError"}
      BY <1>0, <2>1 DEF PostRef, Go, IInv, TypeOK
    <3>2. Ledger!Tag(src[r]) \/ UNCHANGED <<crate, tagRef, release, latest>>
      BY <2>1, PostRefTags
    <3>3. src[r] # Foreign
      BY <2>1, RunSource, NoneAssumption DEF PostRef
    <3>4. QED
      BY <3>1, <3>2, <3>3 DEF GuardInv, NoForeign, Ledger!Tag, IInv, TypeOK
  <2>2. CASE PostRelease(r)
    <3>1. \A x \in Runs : pc'[x] \in {"confirmRelease", "inspectAfterReleaseError"}
      BY <1>0, <2>2 DEF PostRelease, Go, IInv, TypeOK
    <3>2. Ledger!Release(src[r]) \/ UNCHANGED <<crate, tagRef, release, latest>>
      BY <2>2, PostReleaseReleases
    <3>3. src[r] # Foreign
      BY <2>2, RunSource, NoneAssumption DEF PostRelease
    <3>4. QED
      BY <3>1, <3>2, <3>3 DEF GuardInv, NoForeign, Ledger!Release, IInv, TypeOK
  <2>3. CASE ~PostRef(r) /\ ~PostRelease(r)
    <3>1. UNCHANGED <<tip, crate, tagRef, release, latest, tampers, src, op, policy>>
      BY <1>6, <2>3, ReadsOnly DEF worldVars, forgeVars, specVars
    <3>2. NoForeign' /\ ToAdvance(r)' = ToAdvance(r) /\ ExactTag(r)' = ExactTag(r)
          /\ Version(r)' = Version(r)
      BY <3>1 DEF NoForeign, ToAdvance, MakeLatest, Version, ExactTag
    <3>3. ASSUME pc'[r] \in {"idle", "archive", "rebind", "inspectTag",
                   "rebindTagObject", "rebindRef", "postRef", "postTagObject",
                   "confirmTag", "captureLatest", "confirmRelease",
                   "confirmReleasedTag", "verifyLatest"}
          PROVE  GuardInv'
      BY <1>0, <3>3 DEF GuardInv
    <3>4. CASE CaptureLatest(r)
      <4>1. CASE pc'[r] = "idle"
        BY <3>2, <3>3, <4>1
      <4>2. CASE pc'[r] # "idle"
        <5>1. pc'[r] = "inspectRelease" /\ before'[r] = latest /\ advance'[r] = ToAdvance(r)
          BY <3>4, <4>2 DEF CaptureLatest, Stop, ToAdvance, IInv, TypeOK
        <5>2. QED
          BY <1>0, <3>1, <3>2, <5>1 DEF GuardInv
      <4>3. QED
        BY <4>1, <4>2
    <3>5. CASE InspectRelease(r)
      <4>1. CASE pc'[r] = "idle"
        BY <3>2, <3>3, <4>1
      <4>2. CASE pc'[r] # "idle"
        <5>1. UNCHANGED guardVars /\ pc'[r] \in {"rebindRelease", "retainedTag"}
              /\ (pc'[r] = "rebindRelease" <=> release[Version(r)] = None)
          BY <3>5, <4>2 DEF InspectRelease, Check, Go, Stop, IInv, TypeOK
        <5>2. latest = before[r] /\ advance[r] = ToAdvance(r)
          BY <3>5 DEF GuardInv, InspectRelease, Check
        <5>3. QED
          BY <1>0, <3>1, <3>2, <5>1, <5>2 DEF GuardInv, guardVars
      <4>3. QED
        BY <4>1, <4>2
    <3>6. CASE RebindRelease(r)
      <4>1. pc'[r] = "idle" \/ (pc'[r] = "recheckTag" /\ UNCHANGED guardVars)
        BY <3>6 DEF RebindRelease, Check, Go, Stop, IInv, TypeOK
      <4>2. QED
        BY <1>0, <3>1, <3>2, <3>3, <3>6, <4>1 DEF GuardInv, guardVars, RebindRelease, Check
    <3>7. CASE RecheckTag(r)
      <4>1. pc'[r] = "idle" \/ (pc'[r] = "recheckLatest" /\ UNCHANGED guardVars /\ ExactTag(r))
        BY <3>7 DEF RecheckTag, Check, Go, Stop, IInv, TypeOK
      <4>2. QED
        BY <1>0, <3>1, <3>2, <3>3, <3>7, <4>1 DEF GuardInv, guardVars, RecheckTag, Check
    <3>8. CASE RecheckLatest(r)
      <4>1. pc'[r] = "idle" \/ (pc'[r] = "postRelease" /\ UNCHANGED guardVars)
        BY <3>8 DEF RecheckLatest, Check, Go, Stop, IInv, TypeOK
      <4>2. QED
        BY <1>0, <3>1, <3>2, <3>3, <3>8, <4>1 DEF GuardInv, guardVars, RecheckLatest, Check
    <3>9. CASE PostTagObject(r)
      BY <3>2, <3>3, <3>9 DEF PostTagObject, Go, IInv, TypeOK
    <3>10. QED
      <4>1. CASE ~(CaptureLatest(r) \/ InspectRelease(r) \/ RebindRelease(r)
                    \/ RecheckTag(r) \/ RecheckLatest(r) \/ PostTagObject(r))
        <5>1. pc'[r] \in {"idle", "archive", "rebind", "inspectTag",
                   "rebindTagObject", "rebindRef", "postRef", "postTagObject",
                   "confirmTag", "captureLatest", "confirmRelease",
                   "confirmReleasedTag", "verifyLatest"}
          BY <1>6, <2>3, <4>1 DEF RunStep, TagStep, ReleaseStep, Authorize,
             VerifyArchive, Rebind, InspectTag, RebindTagObject, RebindRef,
             InspectAfterRefError, ConfirmTag, RetainedTag,
             InspectAfterReleaseError, ConfirmRelease, ConfirmReleasedTag,
             VerifyLatest, Check, Go, Stop, IInv, TypeOK
        <5>2. QED
          BY <3>2, <3>3, <5>1
      <4>2. QED
        BY <3>2, <3>4, <3>5, <3>6, <3>7, <3>8, <3>9, <4>1
  <2>4. QED
    BY <2>1, <2>2, <2>3
<1>7. QED
  BY <1>0, <1>1, <1>2, <1>3, <1>4, <1>5, <1>6 DEF Next, World

(* The serial invariant holds in every reachable state.                    *)
LEMMA SerialInductive == ASSUME Serial PROVE Spec => []SerialInv
<1>1. Init => SerialInv
  BY NoneAssumption DEF Init, SerialInv, NoForeign, GuardInv, LatestIsNewest, Versions
<1>2. IInv /\ SerialInv /\ [Next]_vars => SerialInv'
  BY GuardStep, LedgerStep, LedgerKeepsLatest DEF SerialInv, IInv
<1>3. QED
  BY <1>1, <1>2, Inductive, PTL DEF Spec

(* When runs follow one another and nobody else edits the forge, the       *)
(* finalizer keeps the promise of ReleaseLedger: the crate, then the tag,  *)
(* then the Release with the right Latest, and nothing is replaced, for    *)
(* every interruption, lost reply and recovery (finalize).                 *)
THEOREM FinalizerKeepsTheLedger == ASSUME Serial PROVE Spec => KeepsTheLedger
<1>1. Init => Ledger!Init
  BY DEF Init, Ledger!Init, Versions, Ledger!Versions
<1>2. IInv /\ SerialInv /\ [Next]_vars
        => [Ledger!Next]_<<crate, tagRef, release, latest>>
  BY LedgerStep DEF SerialInv
<1>3. Spec => Ledger!Spec
  BY <1>1, <1>2, Inductive, SerialInductive, PTL DEF Spec, Ledger!Spec
<1>4. QED
  BY <1>3 DEF KeepsTheLedger

(* Latest is the newest stable Release of the main line, whatever is       *)
(* recovered, on whatever line, in whatever order (latest::Guard).         *)
THEOREM LatestStaysNewest == ASSUME Serial PROVE Spec => []LatestIsNewest
<1>1. SerialInv => LatestIsNewest
  BY DEF SerialInv
<1>2. QED
  BY <1>1, SerialInductive, PTL

-----------------------------------------------------------------------------
(***************************************************************************)
(* Recovery.                                                               *)
(***************************************************************************)
(* What a run that is owed success knows of the forge: the tag and the     *)
(* Release of its version are its own or are not there, and Latest does    *)
(* not name a version of another line (inspect_tag, inspect_release).      *)
LEMMA OwedFinds ==
  ASSUME IInv, SerialInv, OwedInv, NEW r \in Runs, owed[r], pc[r] # "idle"
  PROVE  /\ Authorized(r) /\ crate[Version(r)] = src[r]
         /\ ExactTag(r) \/ tagRef[Version(r)] = None
         /\ ExactRelease(r) \/ release[Version(r)] = None
         /\ ~(src[r].line # "main" /\ latest = Version(r))
         /\ ExactRelease(r) => ~ToAdvance(r)
<1>1. /\ src[r] \in Sources /\ Version(r) \in Versions /\ Version(r) \in Nat
      /\ Version(r) # None
  BY RunSource
<1>2. Authorized(r) /\ crate[Version(r)] = src[r]
  BY DEF OwedInv
<1>3. /\ ExactTag(r) \/ tagRef[Version(r)] = None
      /\ ExactRelease(r) \/ release[Version(r)] = None
  BY <1>1, <1>2, OnlyOurs DEF SerialInv, ExactTag, ExactRelease
<1>4. ASSUME latest = Version(r) PROVE src[r].line = "main"
  <2>1. PICK t \in Sources : t.line = "main" /\ release[Version(r)] = t
    BY <1>1, <1>4, LatestShows DEF SerialInv, IInv
  <2>2. t = src[r]
    BY <1>1, <1>2, <2>1, OnlyOurs, NoneAssumption DEF SerialInv
  <2>3. QED
    BY <2>1, <2>2
<1>5. ASSUME ExactRelease(r), ToAdvance(r) PROVE FALSE
  <2>1. latest \in Nat /\ latest # None /\ Version(r) <= latest
    BY <1>1, <1>5, LatestShows DEF SerialInv, IInv, ExactRelease, ToAdvance, MakeLatest, Version
  <2>2. QED
    BY <1>1, <1>5, <2>1 DEF ToAdvance
<1>6. QED
  BY <1>2, <1>3, <1>4, <1>5

(* A reading step of a run that is owed success finds what it looks for,   *)
(* and goes on (inspect_after_ref_error and the other read-backs).         *)
LEMMA OwedReads ==
  ASSUME Serial, IInv, SerialInv, OwedInv, NEW r \in Runs, owed[r],
         RunStep(r), ~PostRef(r), ~PostRelease(r)
  PROVE  /\ UNCHANGED <<worldVars, specVars>>
         /\ result'[r] \in {result[r], "ok"}
         /\ pc'[r] \notin {"idle", "authorize", "archive", "rebind", "inspectTag",
                           "rebindTagObject", "postTagObject", "rebindRef", "postRef"}
              => ExactTag(r)
         /\ pc'[r] \in {"inspectAfterReleaseError", "confirmRelease",
                        "confirmReleasedTag", "verifyLatest"}
              => ExactRelease(r) /\ LatestAsIntended(r)'
<1> USE DEF Check, Go, Stop
<1>0. UNCHANGED <<worldVars, specVars>>
  BY ReadsOnly
<1>1. pc[r] # "idle" /\ pc[r] \in Steps
  BY DEF RunStep, TagStep, ReleaseStep, Authorize, VerifyArchive, Rebind, InspectTag,
     RebindTagObject, PostTagObject, RebindRef, InspectAfterRefError, ConfirmTag,
     CaptureLatest, InspectRelease, RetainedTag, RebindRelease, RecheckTag,
     RecheckLatest, InspectAfterReleaseError, ConfirmRelease, ConfirmReleasedTag,
     VerifyLatest, IInv, TypeOK
<1>2. /\ Authorized(r) /\ crate[Version(r)] = src[r]
      /\ ExactTag(r) \/ tagRef[Version(r)] = None
      /\ ExactRelease(r) \/ release[Version(r)] = None
      /\ ~(src[r].line # "main" /\ latest = Version(r))
      /\ ExactRelease(r) => ~ToAdvance(r)
  BY <1>1, OwedFinds
<1>3. pc[r] \notin {"authorize", "archive", "rebind", "inspectTag",
                     "rebindTagObject", "postTagObject", "rebindRef", "postRef"}
         => ExactTag(r)
  BY <1>1 DEF OwedInv
<1>4. pc[r] \in {"inspectAfterReleaseError", "confirmRelease",
                  "confirmReleasedTag", "verifyLatest"}
         => ExactRelease(r) /\ LatestAsIntended(r)
  BY <1>1 DEF OwedInv
<1>5. UNCHANGED guardVars => LatestAsIntended(r)' = LatestAsIntended(r)
  BY <1>0 DEF LatestAsIntended, guardVars, worldVars, forgeVars, specVars, Version
<1>6. CASE Authorize(r) \/ VerifyArchive(r) \/ Rebind(r) \/ RebindTagObject(r)
             \/ PostTagObject(r) \/ RebindRef(r)
  BY <1>0, <1>2, <1>6 DEF Authorize, VerifyArchive, Rebind, RebindTagObject,
     PostTagObject, RebindRef, IInv, TypeOK
<1>7. CASE InspectTag(r)
  BY <1>0, <1>2, <1>7 DEF InspectTag, ExactTag, IInv, TypeOK
<1>8. CASE InspectAfterRefError(r) \/ ConfirmTag(r) \/ RebindRelease(r) \/ RecheckTag(r)
  BY <1>0, <1>2, <1>3, <1>8 DEF InspectAfterRefError, ConfirmTag, RebindRelease,
     RecheckTag, IInv, TypeOK
<1>9. CASE CaptureLatest(r)
  BY <1>0, <1>2, <1>3, <1>9 DEF CaptureLatest, IInv, TypeOK
<1>10. CASE InspectRelease(r)
  BY <1>0, <1>2, <1>3, <1>10 DEF InspectRelease, ExactRelease, IInv, TypeOK
<1>11. CASE RecheckLatest(r)
  <2>1. latest = before[r]
    BY <1>11 DEF RecheckLatest, SerialInv, GuardInv
  <2>2. QED
    BY <1>0, <1>3, <1>11, <2>1 DEF RecheckLatest, IInv, TypeOK
<1>12. CASE RetainedTag(r)
  <2>1. /\ pc[r] = "retainedTag" /\ ExactTag(r) /\ ExactRelease(r)
        /\ latest = before[r] /\ advance[r] = ToAdvance(r)
    BY <1>3, <1>12 DEF RetainedTag, SerialInv, GuardInv, IInv, ReleasedInv
  <2>2. LatestAsIntended(r)
    BY <1>2, <2>1 DEF LatestAsIntended
  <2>3. QED
    BY <1>0, <1>5, <1>12, <2>1, <2>2 DEF RetainedTag, IInv, TypeOK
<1>13. CASE InspectAfterReleaseError(r) \/ ConfirmRelease(r) \/ ConfirmReleasedTag(r)
  BY <1>0, <1>3, <1>4, <1>5, <1>13 DEF InspectAfterReleaseError, ConfirmRelease,
     ConfirmReleasedTag, IInv, TypeOK
<1>14. CASE VerifyLatest(r)
  BY <1>0, <1>4, <1>14 DEF VerifyLatest, IInv, TypeOK
<1>15. QED
  BY <1>6, <1>7, <1>8, <1>9, <1>10, <1>11, <1>12, <1>13, <1>14
     DEF RunStep, TagStep, ReleaseStep

(* The POSTs of a run that is owed success have their effect, whether or   *)
(* not the reply arrives: a rejected POST is only excused when what it     *)
(* would create is there (reconcile_tag, reconcile_release).               *)
LEMMA OwedPosts ==
  ASSUME Serial, IInv, SerialInv, OwedInv, NEW r \in Runs, owed[r], owed'[r],
         PostRef(r) \/ PostRelease(r)
  PROVE  /\ UNCHANGED <<tip, crate, specVars, result>>
         /\ ExactTag(r)'
         /\ pc'[r] \in {"inspectAfterReleaseError", "confirmRelease",
                        "confirmReleasedTag", "verifyLatest"}
              => ExactRelease(r)' /\ LatestAsIntended(r)'
<1>1. pc[r] # "idle" /\ UNCHANGED <<tip, crate, specVars, result>>
  BY DEF PostRef, PostRelease, Go
<1>2. src[r] \in Sources /\ Version(r) \in Versions /\ src[r] # None /\ Version(r)' = Version(r)
  BY <1>1, RunSource, NoneAssumption DEF Version, specVars
<1>3. CASE PostRef(r)
  <2>1. pc'[r] \in {"confirmTag", "inspectAfterRefError"}
    BY <1>3 DEF PostRef, Go, IInv, TypeOK
  <2>2. CASE CreateRef(r)
    BY <1>1, <1>2, <2>1, <2>2 DEF CreateRef, ExactTag, specVars, IInv, TypeOK
  <2>3. CASE RefRejected(r)
    <3>1. tagRef' = tagRef /\ tagRef[Version(r)] # None
      BY <2>3 DEF RefRejected, IInv, TypeOK
    <3>2. ExactTag(r)
      BY <1>1, <3>1, OwedFinds
    <3>3. QED
      BY <1>1, <1>2, <2>1, <3>1, <3>2 DEF ExactTag, specVars
  <2>4. QED
    BY <1>3, <2>2, <2>3 DEF PostRef
<1>4. CASE PostRelease(r)
  <2>1. /\ release[Version(r)] = None /\ tagRef[Version(r)] = src[r]
        /\ latest = before[r] /\ UNCHANGED guardVars
    BY <1>4 DEF PostRelease, SerialInv, GuardInv, ExactTag, Go
  <2>2. CreateRelease(r)
    BY <1>4, <2>1 DEF PostRelease, ReleaseRejected, IInv, TypeOK
  <2>3. tagRef' = tagRef /\ release'[Version(r)] = src[r]
    BY <1>2, <2>1, <2>2 DEF CreateRelease, IInv, TypeOK
  <2>4. LatestAsIntended(r)'
    BY <1>2, <2>1, <2>2 DEF CreateRelease, LatestAsIntended, guardVars
  <2>5. QED
    BY <1>1, <1>2, <2>1, <2>3, <2>4 DEF ExactTag, ExactRelease, specVars
<1>5. QED
  BY <1>3, <1>4

(* A run that is owed success keeps being owed it, or gets it.             *)
LEMMA OwedStep ==
  ASSUME Serial, IInv, SerialInv, OwedInv, RecoverySucceeds, [Next]_vars
  PROVE  OwedInv' /\ RecoverySucceeds'
<1>0. ~Tamper /\ \A x, y \in Runs : x = y
  BY NoTamper DEF IInv, Serial
<1> USE DEF OwedInv, RecoverySucceeds
<1>1. CASE UNCHANGED vars
  BY <1>1 DEF vars, worldVars, forgeVars, specVars, guardVars, histVars, Version,
     Authorized, ExactTag, ExactRelease, LatestAsIntended
<1>2. ASSUME NEW l \in Lines, Advance(l) PROVE OwedInv' /\ RecoverySucceeds'
  BY <1>2 DEF Advance
<1>3. ASSUME NEW s \in Sources, Publish(s) PROVE OwedInv' /\ RecoverySucceeds'
  <2>1. \A r \in Runs : owed[r] /\ pc[r] # "idle" => crate'[Version(r)] = crate[Version(r)]
    BY <1>3, RunSource, NoneAssumption DEF Publish, IInv, TypeOK
  <2>2. QED
    BY <1>3, <2>1 DEF Publish, forgeVars, specVars, guardVars, histVars, Version,
       Authorized, ExactTag, ExactRelease, LatestAsIntended
<1>4. ASSUME NEW r \in Runs, NEW s \in Sources, NEW o \in Operations, Start(r, s, o)
      PROVE  OwedInv' /\ RecoverySucceeds'
  <2>1. /\ pc'[r] = "authorize" /\ result'[r] = "none" /\ src'[r] = s /\ op'[r] = o
        /\ policy'[r] = tip["main"] /\ UNCHANGED <<tip, crate>>
        /\ owed'[r] => /\ crate[s.version] = s /\ s.at <= tip[s.line]
                       /\ o = "fresh" => s.at = tip[s.line]
    BY <1>4 DEF Start, worldVars, IInv, TypeOK
  <2>2. owed'[r] => Authorized(r)' /\ (crate[Version(r)] = src[r])'
    BY <2>1 DEF Authorized, Version
  <2>3. QED
    BY <1>0, <2>1, <2>2
<1>5. ASSUME NEW r \in Runs, Abort(r) PROVE OwedInv' /\ RecoverySucceeds'
  <2>1. \A x \in Runs : ~owed'[x]
    BY <1>0, <1>5 DEF Abort, IInv, TypeOK
  <2>2. QED
    BY <2>1
<1>6. ASSUME NEW r \in Runs, RunStep(r) PROVE OwedInv' /\ RecoverySucceeds'
  <2>1. SUFFICES ASSUME owed'[r]
                 PROVE  /\ result'[r] # "err"
                        /\ pc'[r] # "idle" =>
                             /\ Authorized(r)' /\ (crate[Version(r)] = src[r])'
                             /\ pc'[r] \notin {"authorize", "archive", "rebind",
                                  "inspectTag", "rebindTagObject", "postTagObject",
                                  "rebindRef", "postRef"} => ExactTag(r)'
                             /\ pc'[r] \in {"inspectAfterReleaseError", "confirmRelease",
                                  "confirmReleasedTag", "verifyLatest"}
                                  => ExactRelease(r)' /\ LatestAsIntended(r)'
    BY <1>0
  <2>2. owed[r] /\ pc[r] # "idle"
    BY <1>6, <2>1 DEF RunStep, TagStep, ReleaseStep, Authorize, VerifyArchive, Rebind,
       InspectTag, RebindTagObject, PostTagObject, RebindRef, PostRef,
       InspectAfterRefError, ConfirmTag, CaptureLatest, InspectRelease, RetainedTag,
       RebindRelease, RecheckTag, RecheckLatest, PostRelease,
       InspectAfterReleaseError, ConfirmRelease, ConfirmReleasedTag, VerifyLatest,
       Check, CreateRef, RefRejected, CreateRelease, ReleaseRejected, histVars, IInv, TypeOK
  <2>3. Authorized(r) /\ crate[Version(r)] = src[r] /\ result[r] # "err"
    BY <2>2
  <2>4. CASE PostRef(r) \/ PostRelease(r)
    <3>1. /\ UNCHANGED <<tip, crate, specVars, result>>
          /\ ExactTag(r)'
          /\ pc'[r] \in {"inspectAfterReleaseError", "confirmRelease",
                         "confirmReleasedTag", "verifyLatest"}
               => ExactRelease(r)' /\ LatestAsIntended(r)'
      BY <2>1, <2>2, <2>4, OwedPosts
    <3>2. Authorized(r)' /\ (crate[Version(r)] = src[r])'
      BY <2>3, <3>1 DEF Authorized, Version, specVars
    <3>3. QED
      BY <2>3, <3>1, <3>2
  <2>5. CASE ~PostRef(r) /\ ~PostRelease(r)
    <3>1. /\ UNCHANGED <<worldVars, specVars>>
          /\ result'[r] \in {result[r], "ok"}
          /\ pc'[r] \notin {"idle", "authorize", "archive", "rebind", "inspectTag",
                            "rebindTagObject", "postTagObject", "rebindRef", "postRef"}
               => ExactTag(r)
          /\ pc'[r] \in {"inspectAfterReleaseError", "confirmRelease",
                         "confirmReleasedTag", "verifyLatest"}
               => ExactRelease(r) /\ LatestAsIntended(r)'
      BY <1>6, <2>2, <2>5, OwedReads
    <3>2. Authorized(r)' /\ (crate[Version(r)] = src[r])'
          /\ ExactTag(r)' = ExactTag(r) /\ ExactRelease(r)' = ExactRelease(r)
      BY <2>3, <3>1 DEF Authorized, Version, specVars, worldVars, forgeVars, ExactTag,
         ExactRelease
    <3>3. QED
      BY <2>3, <3>1, <3>2
  <2>6. QED
    BY <2>4, <2>5
<1>7. QED
  BY <1>0, <1>1, <1>2, <1>3, <1>4, <1>5, <1>6 DEF Next, World

(* A run with authority over a published source succeeds, whatever the     *)
(* runs that died before it have left on the forge and whichever replies   *)
(* to its own POSTs are lost (finalize, reconcile_tag, reconcile_release). *)
THEOREM RecoveryAlwaysSucceeds == ASSUME Serial PROVE Spec => []RecoverySucceeds
<1>1. Init => OwedInv /\ RecoverySucceeds
  BY DEF Init, OwedInv, RecoverySucceeds
<1>2. IInv /\ SerialInv /\ OwedInv /\ RecoverySucceeds /\ [Next]_vars
        => (OwedInv /\ RecoverySucceeds)'
  BY OwedStep
<1>3. QED
  BY <1>1, <1>2, Inductive, SerialInductive, PTL DEF Spec
=============================================================================

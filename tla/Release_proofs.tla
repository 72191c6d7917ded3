--------------------------- MODULE Release_proofs ----------------------------
(***************************************************************************)
(* Proofs about a release on its way to publication: about PublishWorkflow,*)
(* for any sources, commits, attempts and faults, about the proposal it    *)
(* begins with (ReleaseProposal), and about the releases of a line         *)
(* (ReleaseProgression), both as MCReleaseCommands composes them.          *)
(*                                                                         *)
(* What a run of the workflow may do next follows from the jobs it has     *)
(* done (FirstStep), and those record what was found when they were done.  *)
(* What a command of a proposal may rely on at a step is what its earlier  *)
(* steps found and no fetch, merge or maintainer can have undone.  What is *)
(* published of a line precedes its tip, because the line goes forward.    *)
(***************************************************************************)
EXTENDS PublishWorkflow, MCReleaseCommands, TLAPS

-----------------------------------------------------------------------------
(***************************************************************************)
(* The invariant.                                                          *)
(***************************************************************************)
WorldType ==
  /\ tip \in [Lines -> 0..MaxTip]
  /\ crate \in [Versions -> Sources \cup {None}]
  /\ visible \in SUBSET {v \in Versions : crate[v] # None}
  /\ tag \in [Versions -> Sources \cup {None}]
  /\ release \in [Versions -> Sources \cup {None}]

RunType ==
  /\ run \in Run \cup {None} /\ pending \in Run \cup {None}
  /\ last \in Run \cup {None}
  /\ completed \in SUBSET (1..MaxTip)
  /\ pc \in Steps /\ (pc = "idle" <=> run = None)
  /\ registry \in {"none", "absent", "published"}
  /\ faults \in 0..MaxFaults

\* What a run has done and been granted, at work or not.
RunOK(r) ==
  /\ r \in Run
  /\ r.mode = "push" => r.sha \in 1..MaxTip
  /\ r.qualified => r.source \in Sources /\ "qualify" \in r.done
  /\ "await" \in r.done => r.qualified /\ ~PublishDue(r)
  /\ r.mode = "recover" => r.registry # "absent"
  /\ r.used <= r.grants /\ r.grants <= 1
  /\ r.attempt = 1 => r.grants = (IF "approve" \in r.done THEN 1 ELSE 0)

\* The step p a run r is at, having read g of the registry.
StepOK(r, p, g) ==
  /\ p \notin {"live", "end"} => r.source \in Sources
  /\ p \in {"live", "registry", "forge", "verify"} /\ "qualify" \in r.done =>
       r.mode # "recover" /\ r.qualified
  /\ p \in {"forge", "verify"} /\ r.mode = "recover" => g = "published"
  /\ p \in {"publishGate", "rebind", "releasePlz"} => r.mode # "recover" /\ r.qualified
  /\ p \in {"awaitRebind", "await"} => r.qualified /\ ~PublishDue(r)
  /\ p = "finalGate" => ApprovalDue(r)
  /\ p = "finalRebind" => FinalizeDue(r)
  /\ r.attempt = 1 /\ r.used > 0 =>
       p \in {"confirm", "tag", "release"} \/ "finalize" \in r.done

QueueInv ==
  /\ run # None => RunOK(run) /\ StepOK(run, pc, registry)
  /\ pending # None => RunOK(pending) /\ (pending.attempt = 1 => pending.used = 0)
  /\ last # None => RunOK(last)

\* The finalizer has confirmed the crate of its source.
ConfirmedInv ==
  pc \in {"tag", "release"} => Version \in visible /\ crate[Version] = Source

IInv == WorldType /\ RunType /\ ForgeFollowsRegistry /\ QueueInv /\ ConfirmedInv

USE BoundsAssumption

-----------------------------------------------------------------------------
(***************************************************************************)
(* How a run begins, goes on and ends.                                     *)
(***************************************************************************)
(* The first step of a job is one the run is entitled to (FirstStep).      *)
LEMMA FirstStepOK ==
  ASSUME NEW r, RunOK(r), r.attempt = 1 /\ r.used > 0 => "finalize" \in r.done
  PROVE  StepOK(r, FirstStep(r), "none") /\ FirstStep(r) \in Steps \ {"idle", "tag", "release"}
<1>1. r.done \in SUBSET Jobs /\ r.qualified \in BOOLEAN
  BY DEF RunOK, Run
<1>2. CASE "qualify" \notin r.done
  BY <1>1, <1>2 DEF FirstStep, StepOK, RunOK, Steps
<1>3. CASE "qualify" \in r.done /\ ~r.qualified
  BY <1>1, <1>3 DEF FirstStep, StepOK, RunOK, Steps
<1>4. CASE "qualify" \in r.done /\ r.qualified /\ PublishDue(r)
  <2>1. "await" \notin r.done
    BY <1>4 DEF RunOK
  <2>2. FirstStep(r) = "publishGate"
    BY <1>1, <1>4, <2>1 DEF FirstStep
  <2> QED
    BY <1>4, <2>2 DEF StepOK, RunOK, Steps, PublishDue
<1>5. CASE "qualify" \in r.done /\ r.qualified /\ ~PublishDue(r) /\ "await" \notin r.done
  <2>1. FirstStep(r) = "awaitRebind"
    BY <1>1, <1>5 DEF FirstStep
  <2> QED
    BY <1>5, <2>1 DEF StepOK, RunOK, Steps
<1>6. CASE "qualify" \in r.done /\ r.qualified /\ ~PublishDue(r) /\ "await" \in r.done
  <2>1. \/ FirstStep(r) = "finalGate" /\ ApprovalDue(r)
        \/ FirstStep(r) = "finalRebind" /\ FinalizeDue(r)
        \/ FirstStep(r) = "end"
    BY <1>1, <1>6 DEF FirstStep
  <2> QED
    BY <1>6, <2>1 DEF StepOK, RunOK, Steps
<1> QED
  BY <1>2, <1>3, <1>4, <1>5, <1>6

(* A job has succeeded (Succeed).                                          *)
LEMMA SucceedInv ==
  ASSUME IInv, NEW r, Succeed(r), RunOK(r), r.attempt = 1 /\ r.used > 0 => "finalize" \in r.done,
         WorldType', ForgeFollowsRegistry', faults' \in 0..MaxFaults, UNCHANGED pending
  PROVE  IInv'
<1> USE DEF IInv, Succeed
<1>1. /\ run' = r /\ pc' = FirstStep(r) /\ registry' = "none"
      /\ UNCHANGED <<last, completed, pending>> /\ r \in Run
  BY DEF RunOK
<1>2. StepOK(r, FirstStep(r), "none") /\ FirstStep(r) \in Steps \ {"idle", "tag", "release"}
  BY FirstStepOK
<1>3. RunType'
  BY <1>1, <1>2, NoneAssumption DEF RunType
<1>4. QueueInv'
  BY <1>1, <1>2 DEF QueueInv
<1>5. ConfirmedInv'
  BY <1>1, <1>2 DEF ConfirmedInv
<1> QED
  BY <1>3, <1>4, <1>5

(* A run ends (Finish).                                                    *)
LEMMA FinishInv ==
  ASSUME IInv, Finish(run), run # None, WorldType', ForgeFollowsRegistry',
         faults' \in 0..MaxFaults, UNCHANGED pending
  PROVE  IInv'
<1> USE DEF IInv, Finish
<1>1. Ends(run) \subseteq 1..MaxTip
  BY DEF QueueInv, RunOK, Ends
<1>2. RunType'
  BY <1>1 DEF RunType, Steps
<1>3. QueueInv'
  BY DEF QueueInv
<1> QED
  BY <1>2, <1>3 DEF ConfirmedInv

(* The next step of a job (Go).                                            *)
LEMMA GoInv ==
  ASSUME IInv, run # None, NEW next \in Steps \ {"idle"}, Go(next), UNCHANGED <<pending, faults>>,
         WorldType', ForgeFollowsRegistry', StepOK(run, next, registry),
         next \in {"tag", "release"} => Version \in visible' /\ crate'[Version] = Source
  PROVE  IInv'
<1> USE DEF IInv, Go
<1>1. RunType'
  BY DEF RunType
<1>2. QueueInv'
  BY DEF QueueInv
<1>3. ConfirmedInv'
  BY DEF ConfirmedInv, Source, Version
<1> QED
  BY <1>1, <1>2, <1>3

(* A step that reads, and fails unless what it reads is right (Check).     *)
LEMMA CheckInv ==
  ASSUME IInv, NEW step \in Steps \ {"idle"}, NEW holds, NEW next \in Steps \ {"idle"},
         Check(step, holds, next), StepOK(run, step, registry) => StepOK(run, next, registry),
         holds /\ next \in {"tag", "release"} => Version \in visible /\ crate[Version] = Source
  PROVE  IInv'
<1>1. pc = step /\ run # None /\ UNCHANGED <<worldVars, pending, faults>>
  BY DEF Check, IInv, RunType
<1>2. WorldType' /\ ForgeFollowsRegistry' /\ faults' \in 0..MaxFaults
  BY <1>1 DEF IInv, WorldType, ForgeFollowsRegistry, worldVars, RunType
<1>3. CASE holds
  <2>1. Go(next) /\ StepOK(run, next, registry)
    BY <1>1, <1>3 DEF Check, IInv, QueueInv
  <2> QED
    BY <1>1, <1>2, <1>3, <2>1, GoInv DEF worldVars
<1>4. CASE ~holds
  BY <1>1, <1>2, <1>4, FinishInv DEF Check
<1> QED
  BY <1>3, <1>4

-----------------------------------------------------------------------------
(***************************************************************************)
(* The queue, and the world around the workflow.                           *)
(***************************************************************************)
(* The invariant holds at first.                                           *)
LEMMA InitInv == Init => IInv
<1> SUFFICES ASSUME Init PROVE IInv
  OBVIOUS
<1>1. WorldType
  BY DEF Init, WorldType
<1>2. RunType
  BY DEF Init, RunType, Steps
<1> QED
  BY <1>1, <1>2 DEF Init, IInv, ForgeFollowsRegistry, QueueInv, ConfirmedInv

(* A run is queued, or begins at once (Enqueue).                           *)
LEMMA EnqueueInv ==
  ASSUME IInv, NEW r, Enqueue(r), RunOK(r), r.attempt = 1 => r.used = 0,
         WorldType', ForgeFollowsRegistry', UNCHANGED <<crate, visible, faults>>,
         last' \in {last, None}, completed' \in SUBSET (1..MaxTip)
  PROVE  IInv'
<1> USE DEF IInv
<1>1. r \in Run
  BY DEF RunOK
<1>2. CASE run = None /\ pending = None
  <2>1. run' = r /\ pc' = FirstStep(r) /\ registry' = "none" /\ UNCHANGED pending
    BY <1>2 DEF Enqueue
  <2>2. r.attempt = 1 /\ r.used > 0 => "finalize" \in r.done
    OBVIOUS
  <2>3. StepOK(r, FirstStep(r), "none") /\ FirstStep(r) \in Steps \ {"idle", "tag", "release"}
    BY <2>2, FirstStepOK
  <2>4. RunType'
    BY <1>1, <2>1, <2>3, NoneAssumption DEF RunType
  <2>5. QueueInv'
    BY <1>2, <2>1, <2>3 DEF QueueInv
  <2> QED
    BY <2>1, <2>3, <2>4, <2>5 DEF ConfirmedInv
<1>3. CASE ~(run = None /\ pending = None)
  <2>1. pending' = r /\ UNCHANGED <<run, pc, registry>>
    BY <1>3 DEF Enqueue
  <2>2. RunType'
    BY <1>1, <2>1 DEF RunType
  <2>3. QueueInv'
    BY <2>1 DEF QueueInv
  <2>4. ConfirmedInv'
    BY <2>1 DEF ConfirmedInv, Version, Source
  <2> QED
    BY <2>2, <2>3, <2>4
<1> QED
  BY <1>2, <1>3

(* The waiting run takes the place of the one that has ended (Dequeue).    *)
LEMMA DequeueInv == ASSUME IInv, Dequeue PROVE IInv'
<1> USE DEF IInv, Dequeue
<1>1. /\ run' = pending /\ pc' = FirstStep(pending) /\ registry' = "none" /\ pending' = None
      /\ RunOK(pending) /\ pending \in Run /\ UNCHANGED <<worldVars, last, completed, faults>>
  BY DEF QueueInv, RunOK
<1>2. pending.attempt = 1 /\ pending.used > 0 => "finalize" \in pending.done
  BY DEF QueueInv
<1>3. /\ StepOK(pending, FirstStep(pending), "none")
      /\ FirstStep(pending) \in Steps \ {"idle", "tag", "release"}
  BY <1>1, <1>2, FirstStepOK
<1>4. WorldType' /\ ForgeFollowsRegistry'
  BY <1>1 DEF WorldType, ForgeFollowsRegistry, worldVars
<1>5. RunType'
  BY <1>1, <1>3, NoneAssumption DEF RunType
<1>6. QueueInv'
  BY <1>1, <1>3 DEF QueueInv
<1> QED
  BY <1>1, <1>3, <1>4, <1>5, <1>6 DEF ConfirmedInv

(* A new run has done nothing and been granted nothing (NewRun).           *)
LEMMA NewRunOK ==
  ASSUME NEW mode \in Modes, NEW s \in Sources \cup {None}, tip'["main"] \in 0..MaxTip,
         mode = "push" => tip'["main"] \in 1..MaxTip
  PROVE  RunOK(NewRun(mode, s)) /\ NewRun(mode, s).used = 0
<1>1. {} \in SUBSET Jobs /\ 1 \in 1..MaxAttempts /\ 0 \in 0..MaxAttempts
  OBVIOUS
<1>2. NewRun(mode, s) \in Run
  BY <1>1 DEF NewRun, Run
<1> QED
  BY <1>2 DEF NewRun, RunOK

(* A push to a protected branch (Merge).                                   *)
LEMMA MergeInv == ASSUME IInv, NEW l \in Lines, Merge(l) PROVE IInv'
<1> USE DEF IInv, Merge
<1>1. tip[l] \in 0..MaxTip /\ tip[l] + 1 \in 1..MaxTip
  BY DEF WorldType
<1>2. /\ tip' \in [Lines -> 0..MaxTip] /\ tip'[l] = tip[l] + 1 /\ tip[l] + 1 \in 1..MaxTip
      /\ UNCHANGED <<crate, visible, tag, release, last, faults>>
  BY <1>1 DEF WorldType
<1>3. WorldType' /\ ForgeFollowsRegistry'
  BY <1>2 DEF WorldType, ForgeFollowsRegistry
<1>4. CASE l = "main"
  <2> DEFINE r == NewRun("push", SourceAt(l, tip[l] + 1))
  <2>1. Enqueue(r) /\ completed' = completed \cup Ends(pending)
    BY <1>4
  <2>2. SourceAt(l, tip[l] + 1) \in Sources \cup {None}
    BY DEF SourceAt
  <2>3. RunOK(r) /\ r.used = 0
    BY <1>2, <1>4, <2>2, NewRunOK DEF Modes
  <2>4. completed' \in SUBSET (1..MaxTip)
    BY <2>1 DEF QueueInv, RunOK, RunType, Ends
  <2> HIDE DEF r
  <2> QED
    BY <1>2, <1>3, <2>1, <2>3, <2>4, EnqueueInv
<1>5. CASE l # "main"
  <2>1. UNCHANGED <<run, pending, completed, pc, registry>>
    BY <1>5
  <2> QED
    BY <1>2, <1>3, <2>1 DEF RunType, QueueInv, ConfirmedInv, Version, Source
<1> QED
  BY <1>4, <1>5

(* People dispatch a run (Dispatch).                                       *)
LEMMA DispatchInv ==
  ASSUME IInv, NEW mode \in {"release", "recover"}, NEW s \in Sources, Dispatch(mode, s)
  PROVE  IInv'
<1>1. /\ UNCHANGED <<worldVars, last, completed, faults>> /\ Enqueue(NewRun(mode, s))
  BY DEF Dispatch
<1>2. WorldType' /\ ForgeFollowsRegistry'
  BY <1>1 DEF IInv, WorldType, ForgeFollowsRegistry, worldVars
<1>3. tip'["main"] \in 0..MaxTip
  BY <1>2 DEF WorldType, Lines
<1>4. RunOK(NewRun(mode, s)) /\ NewRun(mode, s).used = 0
  BY <1>3, NewRunOK DEF Modes
<1>5. completed' \in SUBSET (1..MaxTip)
  BY <1>1 DEF IInv, RunType
<1> QED
  BY <1>1, <1>2, <1>4, <1>5, EnqueueInv DEF worldVars

(* A completed run is run again, in another attempt (Rerun).               *)
LEMMA RerunInv == ASSUME IInv, NEW all \in BOOLEAN, Rerun(all) PROVE IInv'
<1> DEFINE r == IF all
                THEN [last EXCEPT !.attempt = last.attempt + 1, !.done = {},
                                  !.qualified = FALSE, !.registry = "none"]
                ELSE [last EXCEPT !.attempt = last.attempt + 1]
<1>1. /\ last # None /\ last.attempt < MaxAttempts /\ Enqueue(r) /\ last' = None
      /\ completed' = completed \ Ends(last) /\ UNCHANGED <<worldVars, faults>>
  BY DEF Rerun
<1>2. WorldType' /\ ForgeFollowsRegistry'
  BY <1>1 DEF IInv, WorldType, ForgeFollowsRegistry, worldVars
<1>3. RunOK(last) /\ last \in Run /\ last.attempt + 1 \in 2..MaxAttempts
  BY <1>1 DEF IInv, QueueInv, RunOK, Run
<1>4. RunOK(r) /\ r.attempt # 1
  <2>1. CASE all
    <3>1. r = [last EXCEPT !.attempt = last.attempt + 1, !.done = {},
                           !.qualified = FALSE, !.registry = "none"]
      BY <2>1
    <3>2. \A f \in {"mode", "source", "sha", "grants", "used"} : r[f] = last[f]
      BY <1>3, <3>1 DEF Run
    <3>3. /\ r.attempt = last.attempt + 1 /\ r.done = {}
          /\ r.qualified = FALSE /\ r.registry = "none"
      BY <1>3, <3>1 DEF Run
    <3>4. r \in Run
      <4>1. last.attempt + 1 \in 1..MaxAttempts /\ {} \in SUBSET Jobs /\ FALSE \in BOOLEAN
        BY <1>3
      <4>2. r = [mode |-> last.mode, source |-> last.source, sha |-> last.sha,
                 attempt |-> last.attempt + 1, done |-> {}, qualified |-> FALSE,
                 registry |-> "none", grants |-> last.grants, used |-> last.used]
        BY <1>3, <3>1 DEF Run
      <4> QED
        BY <1>3, <4>1, <4>2 DEF Run
    <3> HIDE DEF r
    <3> QED
      BY <1>3, <3>2, <3>3, <3>4 DEF RunOK
  <2>2. CASE ~all
    <3>1. r = [last EXCEPT !.attempt = last.attempt + 1]
      BY <2>2
    <3>2. r \in Run
      BY <1>3, <3>1 DEF Run
    <3> QED
      BY <1>3, <3>1, <3>2 DEF RunOK, Run, PublishDue
  <2> QED
    BY <2>1, <2>2
<1>5. completed' \in SUBSET (1..MaxTip)
  BY <1>1 DEF IInv, RunType
<1> HIDE DEF r
<1> QED
  BY <1>1, <1>2, <1>4, <1>5, EnqueueInv DEF worldVars

(* crates.io shows what it has (Show).                                     *)
LEMMA ShowInv == ASSUME IInv, NEW v \in Versions, Show(v) PROVE IInv'
<1> USE DEF IInv, Show, runVars
<1>1. WorldType'
  BY DEF WorldType
<1>2. ForgeFollowsRegistry'
  BY DEF ForgeFollowsRegistry
<1> QED
  BY <1>1, <1>2 DEF RunType, QueueInv, ConfirmedInv, Version, Source

-----------------------------------------------------------------------------
(***************************************************************************)
(* The steps of the run.                                                   *)
(***************************************************************************)
(* What holds of the run at its step.                                      *)
LEMMA AtWork ==
  ASSUME IInv, pc # "idle"
  PROVE  /\ run # None /\ run \in Run /\ RunOK(run) /\ StepOK(run, pc, registry)
         /\ pc \notin {"live", "end"} => Source \in Sources /\ Version \in Versions
BY DEF IInv, RunType, QueueInv, RunOK, StepOK, Source, Version, Versions

(* A step that changes nothing but the run leaves the world as it is.      *)
LEMMA WorldKept ==
  ASSUME IInv, UNCHANGED <<worldVars, pending, faults>>
  PROVE  /\ WorldType' /\ ForgeFollowsRegistry' /\ faults' \in 0..MaxFaults
         /\ UNCHANGED pending
BY DEF IInv, WorldType, ForgeFollowsRegistry, worldVars, RunType

(* The conditions of the mode (Live).                                      *)
LEMMA LiveInv == ASSUME IInv, Live PROVE IInv'
<1>1. pc = "live" /\ UNCHANGED <<worldVars, pending, faults>>
  BY DEF Live
<1>2. run # None /\ run \in Run /\ RunOK(run) /\ StepOK(run, "live", registry)
  BY <1>1, AtWork
<1>3. WorldType' /\ ForgeFollowsRegistry' /\ faults' \in 0..MaxFaults
  BY <1>1, WorldKept
<1>4. CASE PolicyLive /\ Source = None
  <2> DEFINE r == [run EXCEPT !.done = run.done \cup {"qualify"}]
  <2>1. Succeed(r)
    BY <1>4 DEF Live
  <2>2. r \in Run
    BY <1>2 DEF Run, Jobs
  <2>3. RunOK(r)
    BY <1>2, <1>4, <2>2, NoneAssumption DEF RunOK, Run, Source, PublishDue
  <2>4. r.attempt = 1 /\ r.used > 0 => "finalize" \in r.done
    BY <1>2 DEF StepOK, Run
  <2> HIDE DEF r
  <2> QED
    BY <1>1, <1>3, <2>1, <2>3, <2>4, SucceedInv
<1>5. CASE PolicyLive /\ Source # None
  <2>1. Go("registry") \/ Finish(run)
    BY <1>5 DEF Live
  <2>2. StepOK(run, "registry", registry)
    BY <1>2, <1>5 DEF StepOK, Run, Source
  <2> QED
    BY <1>1, <1>2, <1>3, <2>1, <2>2, FinishInv, GoInv DEF Steps
<1>6. CASE ~PolicyLive
  BY <1>1, <1>2, <1>3, <1>6, FinishInv DEF Live
<1> QED
  BY <1>4, <1>5, <1>6

(* What crates.io has, and whether the mode admits it (ReadRegistry).      *)
LEMMA ReadRegistryInv == ASSUME IInv, ReadRegistry PROVE IInv'
<1>1. pc = "registry" /\ UNCHANGED <<worldVars, pending, faults>>
  BY DEF ReadRegistry
<1>2. run # None /\ run \in Run /\ RunOK(run) /\ StepOK(run, "registry", registry)
  BY <1>1, AtWork
<1>3. WorldType' /\ ForgeFollowsRegistry' /\ faults' \in 0..MaxFaults
  BY <1>1, WorldKept
<1> DEFINE state == IF Version \in visible THEN "published" ELSE "absent"
<1>4. CASE Finish(run)
  BY <1>1, <1>2, <1>3, <1>4, FinishInv
<1>5. CASE ~Finish(run)
  <2>1. /\ Admits(state) /\ pc' = "forge" /\ registry' = state
        /\ UNCHANGED <<run, last, completed>>
    BY <1>5 DEF ReadRegistry
  <2>2. state \in {"none", "absent", "published"}
    OBVIOUS
  <2>3. StepOK(run, "forge", state)
    BY <1>2, <2>1 DEF StepOK, Admits
  <2> HIDE DEF state
  <2>4. RunType'
    BY <1>1, <1>2, <2>1, <2>2 DEF IInv, RunType, Steps
  <2>5. QueueInv'
    BY <1>1, <1>2, <2>1, <2>3 DEF IInv, QueueInv
  <2> QED
    BY <1>3, <2>1, <2>4, <2>5 DEF IInv, ConfirmedInv
<1> QED
  BY <1>4, <1>5

(* The qualification is done, or done once more (Verify).                  *)
LEMMA VerifyInv == ASSUME IInv, Verify PROVE IInv'
<1>1. pc = "verify" /\ UNCHANGED <<worldVars, pending, faults>>
  BY DEF Verify
<1>2. /\ run # None /\ run \in Run /\ RunOK(run) /\ StepOK(run, "verify", registry)
      /\ Source \in Sources
  BY <1>1, AtWork
<1>3. WorldType' /\ ForgeFollowsRegistry' /\ faults' \in 0..MaxFaults
  BY <1>1, WorldKept
<1>4. CASE Finish(run)
  BY <1>1, <1>2, <1>3, <1>4, FinishInv
<1>5. CASE Requalifying /\ Go("rebind")
  <2>1. StepOK(run, "rebind", registry)
    BY <1>2, <1>5 DEF StepOK, Requalifying
  <2> QED
    BY <1>1, <1>2, <1>3, <1>5, <2>1, GoInv DEF Steps
<1>6. CASE ~Requalifying /\ ~Finish(run)
  <2> DEFINE r == [run EXCEPT !.done = run.done \cup {"qualify"},
                              !.qualified = TRUE, !.registry = registry]
  <2>1. Succeed(r)
    BY <1>6 DEF Verify
  <2>2. \A f \in {"mode", "source", "sha", "attempt", "grants", "used"} : r[f] = run[f]
    BY <1>2 DEF Run
  <2>3. r.done = run.done \cup {"qualify"} /\ r.qualified = TRUE /\ r.registry = registry
    BY <1>2 DEF Run
  <2>4. r \in Run
    <3>1. run.done \cup {"qualify"} \in SUBSET Jobs
      BY <1>2 DEF Run, Jobs
    <3>2. registry \in {"none", "absent", "published"} /\ TRUE \in BOOLEAN
      BY DEF IInv, RunType
    <3> QED
      BY <1>2, <3>1, <3>2 DEF Run
  <2> HIDE DEF r
  <2>5. "await" \notin r.done
    BY <1>2, <1>6, <2>3 DEF RunOK, Requalifying
  <2>6. RunOK(r)
    BY <1>2, <2>2, <2>3, <2>4, <2>5 DEF RunOK, StepOK, Source
  <2>7. r.attempt = 1 /\ r.used > 0 => "finalize" \in r.done
    BY <1>2, <2>2, <2>3 DEF StepOK
  <2> QED
    BY <1>1, <1>3, <2>1, <2>6, <2>7, SucceedInv
<1> QED
  BY <1>4, <1>5, <1>6 DEF Verify

(* The steps that read, and what they lead to (Check).                     *)
LEMMA ReadsInv ==
  ASSUME IInv, ReadForge \/ Rebind \/ AwaitRebind \/ Confirm
  PROVE  IInv'
<1>1. CASE ReadForge
  <2>1. StepOK(run, "forge", registry) => StepOK(run, "verify", registry)
    BY DEF StepOK
  <2> QED
    BY <1>1, <2>1, CheckInv DEF ReadForge, Steps
<1>2. CASE Rebind
  <2>1. StepOK(run, "rebind", registry) => StepOK(run, "releasePlz", registry)
    BY DEF StepOK
  <2> QED
    BY <1>2, <2>1, CheckInv DEF Rebind, Steps
<1>3. CASE AwaitRebind
  <2>1. StepOK(run, "awaitRebind", registry) => StepOK(run, "await", registry)
    BY DEF StepOK
  <2> QED
    BY <1>3, <2>1, CheckInv DEF AwaitRebind, Steps
<1>4. CASE Confirm
  <2>1. StepOK(run, "confirm", registry) => StepOK(run, "tag", registry)
    BY DEF StepOK
  <2> QED
    BY <1>4, <2>1, CheckInv DEF Confirm, Steps, PublishedSource
<1> QED
  BY <1>1, <1>2, <1>3, <1>4

(* The publication is approved, and qualified once more.                   *)
LEMMA ApprovePublicationInv == ASSUME IInv, ApprovePublication PROVE IInv'
<1>1. pc = "publishGate" /\ Go("live") /\ UNCHANGED <<worldVars, pending, faults>>
  BY DEF ApprovePublication
<1>2. run # None /\ StepOK(run, "publishGate", registry)
  BY <1>1, AtWork
<1>3. WorldType' /\ ForgeFollowsRegistry'
  BY <1>1, WorldKept
<1>4. StepOK(run, "live", registry)
  BY <1>2 DEF StepOK
<1> QED
  BY <1>1, <1>2, <1>3, <1>4, GoInv DEF Steps

(* A job that has succeeded is added to those of the run.                  *)
LEMMA DoneOK ==
  ASSUME NEW r, RunOK(r), NEW j \in {"publish", "await", "finalize"},
         j = "await" => r.qualified /\ ~PublishDue(r)
  PROVE  LET q == [r EXCEPT !.done = r.done \cup {j}]
         IN /\ RunOK(q) /\ q.used = r.used /\ q.attempt = r.attempt
            /\ q.done = r.done \cup {j}
<1> DEFINE q == [r EXCEPT !.done = r.done \cup {j}]
<1>1. \A f \in {"mode", "source", "sha", "attempt", "qualified", "registry", "grants", "used"} :
        q[f] = r[f]
  BY DEF RunOK, Run
<1>2. q.done = r.done \cup {j} /\ q \in Run
  BY DEF RunOK, Run, Jobs
<1> HIDE DEF q
<1>3. RunOK(q)
  BY <1>1, <1>2 DEF RunOK, PublishDue
<1>4. RunOK(q) /\ q.used = r.used /\ q.attempt = r.attempt /\ q.done = r.done \cup {j}
  BY <1>1, <1>2, <1>3
<1> QED
  BY <1>4 DEF q

(* release-plz publishes the crate (ReleasePlz).                           *)
LEMMA ReleasePlzInv == ASSUME IInv, ReleasePlz PROVE IInv'
<1>1. /\ pc = "releasePlz" /\ UNCHANGED <<tip, visible, tag, release, pending>>
      /\ crate' = [crate EXCEPT ![Version] = IF crate[Version] = None THEN Source
                                             ELSE crate[Version]]
  BY DEF ReleasePlz
<1>2. /\ run # None /\ RunOK(run) /\ StepOK(run, "releasePlz", registry)
      /\ Source \in Sources /\ Version \in Versions
  BY <1>1, AtWork
<1>3. /\ crate' \in [Versions -> Sources \cup {None}]
      /\ \A v \in Versions : crate[v] # None => crate'[v] = crate[v]
  BY <1>1, <1>2 DEF IInv, WorldType
<1>4. WorldType'
  BY <1>1, <1>3 DEF IInv, WorldType
<1>5. ForgeFollowsRegistry'
  BY <1>1, <1>3 DEF IInv, WorldType, ForgeFollowsRegistry
<1>6. faults' \in 0..MaxFaults
  BY DEF ReleasePlz, IInv, RunType
<1>7. CASE Finish(run)
  BY <1>1, <1>2, <1>4, <1>5, <1>6, <1>7, FinishInv
<1>8. CASE ~Finish(run)
  <2> DEFINE r == [run EXCEPT !.done = run.done \cup {"publish"}]
  <2>1. Succeed(r)
    BY <1>8 DEF ReleasePlz
  <2>2. /\ RunOK(r) /\ r.used = run.used /\ r.attempt = run.attempt
        /\ r.done = run.done \cup {"publish"}
    BY <1>2, DoneOK
  <2> HIDE DEF r
  <2>3. r.attempt = 1 /\ r.used > 0 => "finalize" \in r.done
    BY <1>2, <2>2 DEF StepOK
  <2> QED
    BY <1>1, <1>4, <1>5, <1>6, <2>1, <2>2, <2>3, SucceedInv
<1> QED
  BY <1>7, <1>8

(* crates.io shows the publication (Await).                                *)
LEMMA AwaitInv == ASSUME IInv, Await PROVE IInv'
<1>1. pc = "await" /\ UNCHANGED <<worldVars, pending, faults>>
  BY DEF Await
<1>2. run # None /\ RunOK(run) /\ StepOK(run, "await", registry)
  BY <1>1, AtWork
<1>3. WorldType' /\ ForgeFollowsRegistry' /\ faults' \in 0..MaxFaults
  BY <1>1, WorldKept
<1>4. CASE PublishedSource
  <2> DEFINE r == [run EXCEPT !.done = run.done \cup {"await"}]
  <2>1. Succeed(r)
    BY <1>4 DEF Await
  <2>2. run.qualified /\ ~PublishDue(run)
    BY <1>2 DEF StepOK
  <2>3. /\ RunOK(r) /\ r.used = run.used /\ r.attempt = run.attempt
        /\ r.done = run.done \cup {"await"}
    BY <1>2, <2>2, DoneOK
  <2> HIDE DEF r
  <2>4. r.attempt = 1 /\ r.used > 0 => "finalize" \in r.done
    BY <1>2, <2>3 DEF StepOK
  <2> QED
    BY <1>1, <1>3, <2>1, <2>3, <2>4, SucceedInv
<1>5. CASE ~PublishedSource
  BY <1>1, <1>2, <1>3, <1>5, FinishInv DEF Await
<1> QED
  BY <1>4, <1>5

(* The finalization is approved (ApproveFinalization).                     *)
LEMMA ApproveFinalizationInv == ASSUME IInv, ApproveFinalization PROVE IInv'
<1> DEFINE r == [run EXCEPT !.done = run.done \cup {"approve"}, !.grants = run.grants + 1]
<1>1. pc = "finalGate" /\ UNCHANGED <<worldVars, pending, faults>> /\ Succeed(r)
  BY DEF ApproveFinalization
<1>2. run \in Run /\ RunOK(run) /\ StepOK(run, "finalGate", registry)
  BY <1>1, AtWork
<1>3. WorldType' /\ ForgeFollowsRegistry' /\ faults' \in 0..MaxFaults
  BY <1>1, WorldKept
<1>4. run.attempt = 1 /\ run.grants = 0 /\ run.used = 0
  BY <1>2 DEF StepOK, RunOK, ApprovalDue, Run
<1>5. \A f \in {"mode", "source", "sha", "attempt", "qualified", "registry", "used"} : r[f] = run[f]
  BY <1>2 DEF Run
<1>6. r.done = run.done \cup {"approve"} /\ r.grants = 1
  BY <1>2, <1>4 DEF Run
<1>7. r \in Run
  <2>1. run.done \cup {"approve"} \in SUBSET Jobs /\ run.grants + 1 \in 0..MaxAttempts
    BY <1>2, <1>4 DEF Run, Jobs
  <2> QED
    BY <1>2, <2>1 DEF Run
<1> HIDE DEF r
<1>8. RunOK(r)
  BY <1>2, <1>4, <1>5, <1>6, <1>7 DEF RunOK, PublishDue
<1> QED
  BY <1>1, <1>3, <1>4, <1>5, <1>8, SucceedInv

(* The approval is used for an App token (FinalRebind).                    *)
LEMMA FinalRebindInv == ASSUME IInv, FinalRebind PROVE IInv'
<1>1. pc = "finalRebind" /\ UNCHANGED <<worldVars, pending, faults>>
  BY DEF FinalRebind
<1>2. /\ run # None /\ run \in Run /\ RunOK(run) /\ StepOK(run, "finalRebind", registry)
      /\ Source \in Sources
  BY <1>1, AtWork
<1>3. WorldType' /\ ForgeFollowsRegistry' /\ faults' \in 0..MaxFaults
  BY <1>1, WorldKept
<1>4. CASE Authorized
  <2> DEFINE r == [run EXCEPT !.used = run.used + 1]
  <2>1. run' = r /\ pc' = "confirm" /\ UNCHANGED <<last, completed, registry, pending>>
    BY <1>1, <1>4 DEF FinalRebind
  <2>2. run.grants = 1 /\ run.used = 0
    BY <1>2 DEF StepOK, RunOK, FinalizeDue, Run
  <2>3. \A f \in {"mode", "source", "sha", "attempt", "done", "qualified", "registry", "grants"} :
          r[f] = run[f]
    BY <1>2 DEF Run
  <2>4. r.used = 1 /\ r \in Run
    BY <1>2, <2>2 DEF Run
  <2> HIDE DEF r
  <2>5. RunOK(r)
    BY <1>2, <2>2, <2>3, <2>4 DEF RunOK, PublishDue
  <2>6. StepOK(r, "confirm", registry)
    BY <1>2, <2>3 DEF StepOK, Source
  <2>7. RunType'
    BY <1>1, <1>3, <2>1, <2>4, NoneAssumption DEF IInv, RunType, Steps
  <2>8. QueueInv'
    BY <2>1, <2>5, <2>6 DEF IInv, QueueInv
  <2> QED
    BY <1>3, <2>1, <2>7, <2>8 DEF IInv, ConfirmedInv
<1>5. CASE ~Authorized
  BY <1>1, <1>2, <1>3, <1>5, FinishInv DEF FinalRebind
<1> QED
  BY <1>4, <1>5

(* The tag is made, or found (ReconcileTag).                               *)
LEMMA ReconcileTagInv == ASSUME IInv, ReconcileTag PROVE IInv'
<1>1. pc = "tag" /\ UNCHANGED <<tip, crate, visible, release, pending, faults>>
  BY DEF ReconcileTag
<1>2. /\ run # None /\ RunOK(run) /\ StepOK(run, "tag", registry)
      /\ Source \in Sources /\ Version \in Versions
  BY <1>1, AtWork
<1>3. Version \in visible /\ crate[Version] = Source
  BY <1>1 DEF IInv, ConfirmedInv
<1>4. faults' \in 0..MaxFaults
  BY <1>1 DEF IInv, RunType
<1>5. CASE tag' = [tag EXCEPT ![Version] = Source] /\ tag[Version] \in {None, Source} /\ Go("release")
  <2>1. WorldType'
    BY <1>1, <1>2, <1>5 DEF IInv, WorldType
  <2>2. ForgeFollowsRegistry'
    BY <1>1, <1>2, <1>3, <1>5 DEF IInv, WorldType, ForgeFollowsRegistry
  <2>3. StepOK(run, "release", registry)
    BY <1>2 DEF StepOK
  <2> QED
    BY <1>1, <1>2, <1>3, <1>5, <2>1, <2>2, <2>3, GoInv DEF Steps
<1>6. CASE UNCHANGED tag /\ Finish(run)
  <2>1. WorldType' /\ ForgeFollowsRegistry'
    BY <1>1, <1>6 DEF IInv, WorldType, ForgeFollowsRegistry
  <2> QED
    BY <1>1, <1>2, <1>4, <1>6, <2>1, FinishInv
<1> QED
  BY <1>5, <1>6 DEF ReconcileTag

(* The Release is made, or found (ReconcileRelease).                       *)
LEMMA ReconcileReleaseInv == ASSUME IInv, ReconcileRelease PROVE IInv'
<1>1. pc = "release" /\ UNCHANGED <<tip, crate, visible, tag, pending, faults>>
  BY DEF ReconcileRelease
<1>2. /\ run # None /\ RunOK(run) /\ StepOK(run, "release", registry)
      /\ Source \in Sources /\ Version \in Versions
  BY <1>1, AtWork
<1>3. faults' \in 0..MaxFaults
  BY <1>1 DEF IInv, RunType
<1> DEFINE r == [run EXCEPT !.done = run.done \cup {"finalize"}]
<1>4. CASE /\ tag[Version] = Source
           /\ release' = [release EXCEPT ![Version] = Source] /\ Succeed(r)
  <2>1. WorldType'
    BY <1>1, <1>2, <1>4 DEF IInv, WorldType
  <2>2. ForgeFollowsRegistry'
    BY <1>1, <1>2, <1>4 DEF IInv, WorldType, ForgeFollowsRegistry
  <2>3. RunOK(r) /\ r.done = run.done \cup {"finalize"}
    BY <1>2, DoneOK
  <2>4. Succeed(r)
    BY <1>4
  <2> HIDE DEF r
  <2> QED
    BY <1>1, <1>3, <2>1, <2>2, <2>3, <2>4, SucceedInv
<1>5. CASE UNCHANGED release /\ Finish(run)
  <2>1. WorldType' /\ ForgeFollowsRegistry'
    BY <1>1, <1>5 DEF IInv, WorldType, ForgeFollowsRegistry
  <2> QED
    BY <1>1, <1>2, <1>3, <1>5, <2>1, FinishInv
<1> QED
  BY <1>4, <1>5 DEF ReconcileRelease

(* The run ends, or dies (End, Die).                                       *)
LEMMA EndsInv == ASSUME IInv, End \/ Die PROVE IInv'
<1>1. pc # "idle" /\ Finish(run) /\ UNCHANGED <<worldVars, pending>>
  BY DEF End, Die
<1>2. faults' \in 0..MaxFaults
  BY DEF End, Die, IInv, RunType
<1>3. WorldType' /\ ForgeFollowsRegistry'
  BY <1>1 DEF IInv, WorldType, ForgeFollowsRegistry, worldVars
<1> QED
  BY <1>1, <1>2, <1>3, AtWork, FinishInv

-----------------------------------------------------------------------------
(***************************************************************************)
(* The theorems.                                                           *)
(***************************************************************************)
(* Every step keeps the invariant.                                         *)
LEMMA NextInv == IInv /\ [Next]_vars => IInv'
<1> SUFFICES ASSUME IInv, [Next]_vars PROVE IInv'
  OBVIOUS
<1>1. CASE RunStep
  BY <1>1, DequeueInv, LiveInv, ReadRegistryInv, ReadsInv, VerifyInv, ApprovePublicationInv,
     ReleasePlzInv, AwaitInv, ApproveFinalizationInv, FinalRebindInv, ReconcileTagInv,
     ReconcileReleaseInv, EndsInv DEF RunStep
<1>2. CASE Die
  BY <1>2, EndsInv
<1>3. CASE \E l \in Lines : Merge(l)
  BY <1>3, MergeInv
<1>4. CASE \E s \in Sources : Dispatch("release", s) \/ Dispatch("recover", s)
  BY <1>4, DispatchInv
<1>5. CASE \E all \in BOOLEAN : Rerun(all)
  BY <1>5, RerunInv
<1>6. CASE \E v \in Versions : Show(v)
  BY <1>6, ShowInv
<1>7. CASE UNCHANGED vars
  BY <1>7 DEF vars, worldVars, runVars, IInv, WorldType, RunType, ForgeFollowsRegistry,
     QueueInv, ConfirmedInv, Version, Source
<1> QED
  BY <1>1, <1>2, <1>3, <1>4, <1>5, <1>6, <1>7 DEF Next

LEMMA Invariance == Spec => []IInv
BY InitInv, NextInv, PTL DEF Spec

(* Every variable has its type: crates.io shows only what was published,   *)
(* and a step is under way exactly when a run holds the group.             *)
THEOREM TypeCorrect == Spec => []TypeOK
<1>1. IInv => TypeOK
  BY DEF IInv, WorldType, RunType, TypeOK
<1> QED
  BY <1>1, Invariance, PTL

(* Whatever is lost, rejected, cancelled, run again or raced, a tag is that *)
(* of the crate that crates.io shows, and a Release that of its tag        *)
(* (reconcile_tag and reconcile_release after the finalizer's reads).      *)
THEOREM ForgeIsBehind == Spec => []ForgeFollowsRegistry
<1>1. IInv => ForgeFollowsRegistry
  BY DEF IInv
<1> QED
  BY <1>1, Invariance, PTL

(* However often the jobs of a run are run again, it is granted at most one *)
(* finalization and mints no App token beyond that (publish.yml, finalize). *)
THEOREM ApprovalsAreUsedOnce == Spec => []OneFinalizerPerApproval
<1>1. IInv => OneFinalizerPerApproval
  BY DEF IInv, QueueInv, RunOK, OneFinalizerPerApproval
<1> QED
  BY <1>1, Invariance, PTL

(* Only release-plz publishes, of a run that is no recovery and a version  *)
(* that has no tag and no Release (publish.yml, publish).                  *)
THEOREM PublicationsAreFirst == Spec => FirstPublication
<1>1. IInv /\ [Next]_vars =>
        [\A v \in Versions : crate'[v] # crate[v] =>
           /\ run.mode # "recover"
           /\ tag[v] = None /\ release[v] = None]_vars
  <2> SUFFICES ASSUME IInv, [Next]_vars, NEW v \in Versions, crate'[v] # crate[v]
               PROVE  run.mode # "recover" /\ tag[v] = None /\ release[v] = None
    OBVIOUS
  <2>1. ReleasePlz
    BY DEF Next, RunStep, Dequeue, Live, ReadRegistry, ReadForge, Verify, ApprovePublication,
       Rebind, AwaitRebind, Await, ApproveFinalization, FinalRebind, Confirm, ReconcileTag,
       ReconcileRelease, End, Die, Merge, Dispatch, Rerun, Show, Check, vars, worldVars
  <2>2. pc = "releasePlz" /\ crate[v] = None
    BY <2>1 DEF ReleasePlz, IInv, WorldType
  <2>3. run.mode # "recover"
    BY <2>2, AtWork DEF StepOK
  <2> QED
    BY <2>2, <2>3 DEF IInv, WorldType, ForgeFollowsRegistry
<1> QED
  BY <1>1, Invariance, PTL DEF Spec, FirstPublication

-----------------------------------------------------------------------------
(***************************************************************************)
(* The proposal of a release.                                              *)
(***************************************************************************)
(* What TypeOK and the invariant say of trees and of where HEAD stands.    *)
LEMMA TreesTyped ==
  ASSUME Proposal!IInv
  PROVE  /\ upstream \in Seq(Proposal!Trees) /\ Len(upstream) \in 1..MaxUpstream
         /\ DOMAIN upstream = 1..Len(upstream) /\ Len(upstream) \in DOMAIN upstream
         /\ \A i \in DOMAIN upstream : upstream[i] \in Proposal!Trees
         /\ head.base \in DOMAIN upstream /\ head.own \in Seq(Proposal!Commits)
         /\ head = [base |-> head.base, own |-> head.own]
         /\ Proposal!Base \in Proposal!BaseTrees /\ wt \in Proposal!Trees
         /\ tracking \in DOMAIN upstream /\ head.base <= tracking
         /\ \A k \in DOMAIN head.own :
              /\ head.own[k] \in Proposal!Commits /\ head.own[k].tree \in Proposal!Trees
         /\ head.own = <<>> => Proposal!HeadTree = Proposal!Base
         /\ Proposal!HeadTree \in Proposal!Trees
<1> USE DEF Proposal!IInv
<1>1. /\ upstream \in Seq(Proposal!Trees) /\ Len(upstream) \in 1..MaxUpstream
      /\ tracking \in head.base..Len(upstream) /\ wt \in Proposal!Trees
  BY DEF Proposal!TypeOK
<1>2. /\ head \in [base : DOMAIN upstream, own : Seq(Proposal!Commits)]
      /\ Proposal!Base \in Proposal!BaseTrees
  BY DEF Proposal!HeadInv
<1>3. /\ DOMAIN upstream = 1..Len(upstream) /\ Len(upstream) \in DOMAIN upstream
      /\ \A i \in DOMAIN upstream : upstream[i] \in Proposal!Trees
  BY <1>1, ProposalAssumption
<1>4. /\ head.base \in DOMAIN upstream /\ head.own \in Seq(Proposal!Commits)
      /\ head = [base |-> head.base, own |-> head.own]
  BY <1>2
<1>5. tracking \in DOMAIN upstream /\ head.base <= tracking
  BY <1>1, <1>3, <1>4
<1>6. \A k \in DOMAIN head.own : /\ head.own[k] \in Proposal!Commits
                                 /\ head.own[k].tree \in Proposal!Trees
  <2>1. \A k \in DOMAIN head.own : head.own[k] \in Proposal!Commits
    BY <1>4
  <2> QED
    BY <2>1 DEF Proposal!Commits
<1>7. head.own = <<>> => Proposal!HeadTree = Proposal!Base
  BY DEF Proposal!HeadTree, Proposal!Base
<1>8. Proposal!HeadTree \in Proposal!Trees
  <2>1. CASE head.own = <<>>
    BY <1>3, <1>4, <2>1 DEF Proposal!HeadTree
  <2>2. CASE head.own # <<>>
    <3>1. Len(head.own) \in DOMAIN head.own
      BY <1>4, <2>2
    <3> QED
      BY <1>6, <2>2, <3>1 DEF Proposal!HeadTree
  <2> QED
    BY <2>1, <2>2
<1> QED
  BY <1>1, <1>2, <1>3, <1>4, <1>5, <1>6, <1>7, <1>8

(* Which steps have which facts.                                           *)
LEMMA StageFacts ==
  /\ Proposal!AfterPaths = {"content", "ok"}
  /\ Proposal!BeforeWrite = {"begun", "clean", "tool", "update"}
  /\ Proposal!AfterClean = {"tool", "update", "derived", "subset", "set", "dirty", "base",
                            "paths", "content", "temporary", "activated", "ok"}
  /\ Proposal!AfterSigned = {"paths", "content", "ok"}
  /\ Proposal!AfterCount = {"signed", "paths", "content", "ok"}
  /\ Proposal!AfterClear = {"main", "count", "signed", "paths", "content", "ok"}
BY DEF Proposal!AfterPaths, Proposal!BeforeWrite, Proposal!AfterClean,
       Proposal!AfterSigned, Proposal!AfterCount, Proposal!AfterClear

(* A command at work is a record, at work on a proposal not yet pushed.    *)
LEMMA Working ==
  ASSUME Proposal!IInv, ~Proposal!Idle
  PROVE  /\ call \in [cmd : Proposal!Commands, step : Proposal!CallSteps,
                      original : Proposal!Manifests, main : Nat, start : Proposal!Trees]
         /\ pull = Proposal!None /\ merged = Proposal!None /\ call.main <= tracking
         /\ call # Proposal!None
         /\ \A i \in DOMAIN upstream : upstream[i] \in Proposal!BaseTrees
<1> USE DEF Proposal!IInv
<1>1. call # Proposal!None /\ pull = Proposal!None
  BY DEF Proposal!CallShape, Proposal!Idle, Proposal!None
<1>2. merged = Proposal!None
  BY <1>1 DEF Proposal!PullInv
<1> QED
  BY <1>1, <1>2 DEF Proposal!CallShape, Proposal!TypeOK, Proposal!HeadInv

CallRecord ==
  [cmd : Proposal!Commands, step : Proposal!CallSteps, original : Proposal!Manifests,
   main : Nat, start : Proposal!Trees]

(* A step of a command leaves the repository, HEAD and the pull request    *)
(* alone.                                                                  *)
LEMMA CommandStep ==
  ASSUME Proposal!IInv, ~Proposal!Idle,
         UNCHANGED <<upstream, tracking, branch, head, pull, merged, work>>,
         call' \in CallRecord, call'.main <= tracking, wt' \in Proposal!Trees,
         Proposal!OwnOther(wt)', Proposal!PathsInv', Proposal!StartInv',
         Proposal!ActivateInv', Proposal!CheckInv'
  PROVE  Proposal!IInv'
<1> USE DEF Proposal!IInv
<1>1. pull = Proposal!None /\ merged = Proposal!None
  BY Working
<1>2. Proposal!CallShape'
  BY <1>1 DEF Proposal!CallShape, CallRecord, Proposal!None
<1>3. Proposal!HeadInv'
  BY DEF Proposal!HeadInv, Proposal!OwnOther, Proposal!Base
<1>4. Proposal!PullInv'
  BY <1>1 DEF Proposal!PullInv, Proposal!None
<1>5. Proposal!TypeOK'
  BY <1>1 DEF Proposal!TypeOK, Proposal!None, CallRecord
<1> QED
  BY <1>2, <1>3, <1>4, <1>5

(* What the invariant asks of the step s of the command at work.           *)
Facts(s) ==
  /\ call.cmd # "activate" =>
       /\ s \in Proposal!AfterPaths => wt.other = Proposal!Base.other /\ wt.new = {}
       /\ s = "ok" => Proposal!Released(wt)
  /\ call.cmd \in {"prepare", "activate"} =>
       /\ s \in Proposal!BeforeWrite => wt = call.start
       /\ s = "clean" => head.own = <<>>
       /\ s \in Proposal!AfterClean => head.own = <<>> /\ call.start = Proposal!Base
  /\ call.cmd = "activate" =>
       /\ s \in {"begun", "clean", "tool", "activated", "ok", "failed", "killed"}
       /\ s \in {"activated", "ok"} => wt = [call.start EXCEPT !.manifest = "stub"]
       /\ s = "failed" => wt \in Proposal!Left
       /\ s = "killed" =>
            wt \in Proposal!Left \cup {[call.start EXCEPT !.new = {"temporary"}]}
  /\ call.cmd = "check" =>
       /\ s \in Proposal!AfterClear => wt = Proposal!HeadTree
       /\ s \in Proposal!AfterCount => Len(head.own) = 1 /\ head.base = call.main
       /\ s \in Proposal!AfterSigned => Proposal!SignedOff(head.own[1])
       /\ s = "ok" => wt.other # "bad"

(* A read moves the command to a step whose facts it has found.            *)
LEMMA ReadStep ==
  ASSUME Proposal!IInv, ~Proposal!Idle, Proposal!Read, NEW s \in Proposal!CallSteps,
         s # "temporary", call' = [call EXCEPT !.step = s], Facts(s)
  PROVE  Proposal!IInv'
<1>1. /\ UNCHANGED <<upstream, tracking, branch, head, pull, merged, work>> /\ wt' = wt
  BY DEF Proposal!Read
<1>2. /\ call \in CallRecord /\ call.main <= tracking
  BY Working DEF CallRecord
<1>3. /\ call' \in CallRecord /\ call'.cmd = call.cmd /\ call'.step = s
      /\ call'.start = call.start /\ call'.main = call.main
  BY <1>2 DEF CallRecord
<1>4. wt \in Proposal!Trees /\ Proposal!OwnOther(wt)
  BY DEF Proposal!IInv, Proposal!TypeOK, Proposal!HeadInv
<1>5. Proposal!PathsInv' /\ Proposal!StartInv'
  BY <1>1, <1>3 DEF Facts, Proposal!PathsInv, Proposal!StartInv, Proposal!Base, Proposal!Released
<1>6. Proposal!ActivateInv'
  <2>1. Proposal!Left' = Proposal!Left
    BY <1>3 DEF Proposal!Left
  <2> QED
    BY <1>1, <1>3, <2>1 DEF Facts, Proposal!ActivateInv
<1>7. Proposal!CheckInv'
  BY <1>1, <1>3 DEF Facts, Proposal!CheckInv, Proposal!HeadTree, Proposal!SignedOff
<1>8. Proposal!OwnOther(wt)'
  BY <1>1, <1>4 DEF Proposal!OwnOther, Proposal!Base
<1> QED
  BY <1>1, <1>2, <1>3, <1>4, <1>5, <1>6, <1>7, <1>8, CommandStep

(* An activation that fails before it has written a file beside the        *)
(* manifest leaves what it found, or the version set; one that is killed   *)
(* may leave that file (Fail, Kill, Require).                              *)
LEMMA StopFacts ==
  ASSUME Proposal!IInv, ~Proposal!Idle
  PROVE  Facts("killed") /\ (call.step # "temporary" => Facts("failed"))
<1>1. CASE call.cmd # "activate"
  BY <1>1, StageFacts DEF Facts
<1>2. CASE call.cmd = "activate"
  <2>1. call.step \in {"begun", "clean", "tool", "temporary", "activated"}
    BY <1>2 DEF Proposal!IInv, Proposal!ActivateInv, Proposal!Idle
  <2>2. call.step # "temporary" => wt \in Proposal!Left
    <3>1. CASE call.step \in {"begun", "clean", "tool"}
      BY <1>2, <3>1, StageFacts DEF Proposal!IInv, Proposal!StartInv, Proposal!Left
    <3>2. CASE call.step = "activated"
      BY <1>2, <3>2 DEF Proposal!IInv, Proposal!ActivateInv, Proposal!Left
    <3> QED
      BY <2>1, <3>1, <3>2
  <2>3. call.step = "temporary" => wt = [call.start EXCEPT !.new = {"temporary"}]
    BY <1>2 DEF Proposal!IInv, Proposal!ActivateInv
  <2> QED
    BY <1>2, <2>2, <2>3, StageFacts DEF Facts
<1> QED
  BY <1>1, <1>2

LEMMA StopInv ==
  ASSUME Proposal!IInv, Proposal!Fail \/ Proposal!Kill
  PROVE  Proposal!IInv'
<1>1. "failed" \in Proposal!CallSteps /\ "killed" \in Proposal!CallSteps
  BY DEF Proposal!CallSteps
<1>2. CASE Proposal!Fail
  <2>1. /\ ~Proposal!Idle /\ call.step # "temporary" /\ Proposal!Read
        /\ call' = [call EXCEPT !.step = "failed"]
    BY <1>2 DEF Proposal!Fail, Proposal!Goto
  <2> QED
    BY <1>1, <2>1, StopFacts, ReadStep
<1>3. CASE Proposal!Kill
  <2>1. ~Proposal!Idle /\ Proposal!Read /\ call' = [call EXCEPT !.step = "killed"]
    BY <1>3 DEF Proposal!Kill, Proposal!Goto
  <2> QED
    BY <1>1, <2>1, StopFacts, ReadStep
<1> QED
  BY <1>2, <1>3

(* A check that is passed or fails the command (Require).                  *)
LEMMA RequireInv ==
  ASSUME Proposal!IInv, ~Proposal!Idle, call.step # "temporary", Proposal!Read,
         NEW condition, NEW s \in Proposal!CallSteps, s # "temporary",
         Proposal!Require(condition, s),
         condition => Facts(s)
  PROVE  Proposal!IInv'
<1>1. "failed" \in Proposal!CallSteps
  BY DEF Proposal!CallSteps
<1>2. CASE condition
  <2>1. call' = [call EXCEPT !.step = s]
    BY <1>2 DEF Proposal!Require, Proposal!Goto
  <2> QED
    BY <1>2, <2>1, ReadStep
<1>3. CASE ~condition
  <2>1. call' = [call EXCEPT !.step = "failed"]
    BY <1>3 DEF Proposal!Require, Proposal!Goto
  <2> QED
    BY <1>1, <2>1, StopFacts, ReadStep
<1> QED
  BY <1>2, <1>3

(* The first read of prepare and activate, and the clean start: what is in *)
(* the worktree is what HEAD has (require_exact_git_state).                *)
LEMMA StartChecks ==
  ASSUME Proposal!IInv, Proposal!ExactBase \/ Proposal!CleanStart
  PROVE  Proposal!IInv'
<1>1. /\ ~Proposal!Idle /\ Proposal!Read /\ call.cmd \in {"prepare", "activate"}
      /\ call.step \in {"begun", "clean"} /\ call.step # "temporary"
      /\ "clean" \in Proposal!CallSteps /\ "tool" \in Proposal!CallSteps
  <2>1. ~Proposal!Idle /\ Proposal!Read /\ call.cmd # "check" /\ call.step \in {"begun", "clean"}
    BY DEF Proposal!ExactBase, Proposal!CleanStart
  <2>2. call.cmd \in Proposal!Commands
    BY <2>1, Working
  <2> QED
    BY <2>1, <2>2 DEF Proposal!Commands, Proposal!CallSteps
<1>2. wt = call.start
  BY <1>1, StageFacts DEF Proposal!IInv, Proposal!StartInv
<1>3. CASE Proposal!ExactBase
  <2>1. Proposal!Require(Proposal!OnTracking, "clean")
    BY <1>3 DEF Proposal!ExactBase
  <2>2. Proposal!OnTracking => Facts("clean")
    BY <1>1, <1>2, StageFacts DEF Facts, Proposal!OnTracking
  <2> QED
    BY <1>1, <2>1, <2>2, RequireInv
<1>4. CASE Proposal!CleanStart
  <2>1. Proposal!Require(wt = Proposal!HeadTree, "tool") /\ call.step = "clean"
    BY <1>4 DEF Proposal!CleanStart
  <2>2. head.own = <<>> /\ Proposal!HeadTree = Proposal!Base
    BY <1>1, <2>1, TreesTyped DEF Proposal!IInv, Proposal!StartInv
  <2>3. wt = Proposal!HeadTree => Facts("tool")
    BY <1>1, <1>2, <2>2, StageFacts DEF Facts
  <2> QED
    BY <1>1, <2>1, <2>3, RequireInv
<1> QED
  BY <1>3, <1>4

(* What a command that has started cleanly started from.                   *)
LEMMA Started ==
  ASSUME Proposal!IInv, call.cmd \in {"prepare", "activate"},
         call.step \in Proposal!AfterClean
  PROVE  head.own = <<>> /\ call.start = Proposal!Base /\ Proposal!HeadTree = Proposal!Base
BY TreesTyped DEF Proposal!IInv, Proposal!StartInv

(* The reads of prepare after the update (prepare).                        *)
LEMMA PrepareChecks ==
  ASSUME Proposal!IInv,
         Proposal!Derived \/ Proposal!Subset \/ Proposal!Dirty \/ Proposal!StillOnBase
  PROVE  Proposal!IInv'
<1>1. /\ Proposal!Read /\ call.cmd = "prepare"
      /\ call.step \in {"derived", "subset", "dirty", "base"}
  BY DEF Proposal!Derived, Proposal!Subset, Proposal!Dirty, Proposal!StillOnBase, Proposal!At
<1>2. ~Proposal!Idle /\ call.step # "temporary"
  BY <1>1 DEF Proposal!Idle
<1>3. head.own = <<>> /\ call.start = Proposal!Base
  BY <1>1, Started, StageFacts
<1>4. \A s \in {"dirty", "subset", "set", "base", "paths"} :
        s \in Proposal!CallSteps /\ s # "temporary" /\ Facts(s)
  BY <1>1, <1>3, StageFacts DEF Facts, Proposal!CallSteps
<1>5. CASE Proposal!Derived
  <2>1. CASE call' = [call EXCEPT !.step = "dirty"]
    BY <1>1, <1>2, <1>4, <2>1, ReadStep
  <2>2. CASE Proposal!Require(Proposal!Adjustable(call.original, wt.manifest), "subset")
    BY <1>1, <1>2, <1>4, <2>2, RequireInv
  <2> QED
    BY <1>5, <2>1, <2>2 DEF Proposal!Derived, Proposal!Goto
<1>6. CASE Proposal!Subset
  <2>1. Proposal!Require(Proposal!ChangedPaths \subseteq Proposal!ReleasePaths, "set")
    BY <1>6 DEF Proposal!Subset
  <2> QED
    BY <1>1, <1>2, <1>4, <2>1, RequireInv
<1>7. CASE Proposal!Dirty
  <2>1. Proposal!Require(wt # Proposal!HeadTree, "base")
    BY <1>7 DEF Proposal!Dirty
  <2> QED
    BY <1>1, <1>2, <1>4, <2>1, RequireInv
<1>8. CASE Proposal!StillOnBase
  <2>1. Proposal!Require(Proposal!OnTracking, "paths")
    BY <1>8 DEF Proposal!StillOnBase
  <2> QED
    BY <1>1, <1>2, <1>4, <2>1, RequireInv
<1> QED
  BY <1>5, <1>6, <1>7, <1>8

(* The steps of prepare that note the version or write: whatever release-plz *)
(* does, the other files are as they were or its own (prepare).            *)
LEMMA PrepareWrites ==
  ASSUME Proposal!IInv, Proposal!Tool \/ Proposal!Update \/ Proposal!SetVersion
  PROVE  Proposal!IInv'
<1>1. /\ call.cmd = "prepare" /\ call.step \in {"tool", "update", "set"}
      /\ UNCHANGED <<upstream, tracking, branch, head, pull, merged, work>>
  BY DEF Proposal!Tool, Proposal!Update, Proposal!SetVersion, Proposal!ReleasePlz,
         Proposal!At, Proposal!Read, Proposal!Write
<1>2. ~Proposal!Idle
  BY <1>1 DEF Proposal!Idle
<1>3. call \in CallRecord /\ call.main <= tracking
  BY <1>2, Working DEF CallRecord
<1>4. head.own = <<>> /\ call.start = Proposal!Base
  BY <1>1, Started, StageFacts
<1>5. wt \in Proposal!Trees /\ Proposal!OwnOther(wt)
  BY DEF Proposal!IInv, Proposal!TypeOK, Proposal!HeadInv
<1>6. {"update", "derived", "dirty", "failed"} \subseteq Proposal!CallSteps
  BY DEF Proposal!CallSteps
<1>7. /\ wt' \in Proposal!Trees /\ Proposal!OwnOther(wt')
      /\ \/ call' = [call EXCEPT !.step = "update", !.original = wt.manifest] /\ wt' = wt
            /\ call.step = "tool"
         \/ \E s \in {"derived", "dirty", "failed"} : call' = [call EXCEPT !.step = s]
  <2>1. CASE Proposal!Tool
    BY <1>5, <2>1 DEF Proposal!Tool, Proposal!Read, Proposal!At
  <2>2. CASE Proposal!Update \/ Proposal!SetVersion
    <3>1. PICK m \in {wt.manifest, "near", "sel", "else"},
               c \in {wt.changelog, "sel", "empty", "twice"},
               rest \in Proposal!Elsewhere(wt), s \in {"derived", "dirty", "failed"} :
            /\ wt' = [rest EXCEPT !.manifest = m, !.changelog = c]
            /\ call' = [call EXCEPT !.step = s]
      BY <2>2 DEF Proposal!Update, Proposal!SetVersion, Proposal!ReleasePlz, Proposal!Goto,
                  Proposal!Write
    <3>2. m \in Proposal!Manifests /\ c \in Proposal!Changelogs
      BY <1>5 DEF Proposal!Trees, Proposal!Manifests, Proposal!Changelogs
    <3>3. rest \in Proposal!Trees /\ rest.other \in {wt.other, "mine"}
      BY <1>5 DEF Proposal!Elsewhere, Proposal!Trees, Proposal!Others, Proposal!NewFiles
    <3>4. wt' \in Proposal!Trees /\ wt'.other = rest.other
      BY <3>1, <3>2, <3>3 DEF Proposal!Trees
    <3> QED
      BY <1>5, <3>1, <3>3, <3>4 DEF Proposal!OwnOther
  <2> QED
    BY <2>1, <2>2
<1>8. /\ call' \in CallRecord /\ call'.cmd = "prepare" /\ call'.main = call.main
      /\ call'.start = call.start
      /\ \/ call'.step = "update" /\ wt' = wt /\ call.step = "tool"
         \/ call'.step \in {"derived", "dirty", "failed"}
  <2>1. wt.manifest \in Proposal!Manifests
    BY <1>5 DEF Proposal!Trees
  <2> QED
    BY <1>1, <1>3, <1>6, <1>7, <2>1 DEF CallRecord
<1>9. Proposal!PathsInv'
  BY <1>8, StageFacts DEF Proposal!PathsInv
<1>10. Proposal!StartInv'
  <2>1. call.step = "tool" => wt = call.start
    BY <1>1, StageFacts DEF Proposal!IInv, Proposal!StartInv
  <2> QED
    BY <1>1, <1>4, <1>8, <2>1, StageFacts DEF Proposal!StartInv, Proposal!Base
<1>11. Proposal!ActivateInv' /\ Proposal!CheckInv'
  BY <1>8 DEF Proposal!ActivateInv, Proposal!CheckInv
<1>12. Proposal!OwnOther(wt)'
  BY <1>1, <1>7 DEF Proposal!OwnOther, Proposal!Base
<1> QED
  BY <1>1, <1>2, <1>3, <1>7, <1>8, <1>9, <1>10, <1>11, <1>12, CommandStep

(* What check reads of the commit (require_one_signed_commit).             *)
LEMMA CommitChecks ==
  ASSUME Proposal!IInv, Proposal!Committed \/ Proposal!OneCommit \/ Proposal!Signed
  PROVE  Proposal!IInv'
<1>1. /\ Proposal!Read /\ call.cmd = "check" /\ call.step \in {"begun", "count", "signed"}
  BY DEF Proposal!Committed, Proposal!OneCommit, Proposal!Signed, Proposal!At
<1>2. ~Proposal!Idle /\ call.step # "temporary"
  BY <1>1 DEF Proposal!Idle
<1>3. {"main", "signed", "paths"} \subseteq Proposal!CallSteps
  BY DEF Proposal!CallSteps
<1>4. CASE Proposal!Committed
  <2>1. Proposal!Require(wt = Proposal!HeadTree, "main")
    BY <1>4 DEF Proposal!Committed
  <2>2. wt = Proposal!HeadTree => Facts("main")
    BY <1>1, StageFacts DEF Facts
  <2> QED
    BY <1>1, <1>2, <1>3, <2>1, <2>2, RequireInv
<1>5. CASE Proposal!OneCommit
  <2>1. /\ Proposal!Require(Proposal!Above = 1 /\ Len(head.own) = 1 /\ head.base = call.main,
                            "signed")
        /\ call.step = "count"
    BY <1>5 DEF Proposal!OneCommit, Proposal!At
  <2>2. wt = Proposal!HeadTree
    BY <1>1, <2>1, StageFacts DEF Proposal!IInv, Proposal!CheckInv
  <2>3. Proposal!Above = 1 /\ Len(head.own) = 1 /\ head.base = call.main => Facts("signed")
    BY <1>1, <2>2, StageFacts DEF Facts
  <2> QED
    BY <1>1, <1>2, <1>3, <2>1, <2>3, RequireInv
<1>6. CASE Proposal!Signed
  <2> DEFINE commit == head.own[Len(head.own)]
             Good   == commit.signature \in {"ssh", "unknown", "other"} /\ commit.dco
  <2>1. Proposal!Require(Good, "paths") /\ call.step = "signed"
    BY <1>6 DEF Proposal!Signed, Proposal!At
  <2>2. wt = Proposal!HeadTree /\ Len(head.own) = 1 /\ head.base = call.main
    BY <1>1, <2>1, StageFacts DEF Proposal!IInv, Proposal!CheckInv
  <2>3. Good => Proposal!SignedOff(head.own[1])
    BY <2>2 DEF Proposal!SignedOff
  <2>4. Good => Facts("paths")
    BY <1>1, <2>2, <2>3, StageFacts DEF Facts
  <2> HIDE DEF Good
  <2> QED
    BY <1>1, <1>2, <1>3, <2>1, <2>4, RequireInv
<1> QED
  BY <1>4, <1>5, <1>6

(* The base of the count is the remote-tracking ref as it is now.          *)
LEMMA ReadMainInv ==
  ASSUME Proposal!IInv, Proposal!ReadMain
  PROVE  Proposal!IInv'
<1>1. /\ call.cmd = "check" /\ call.step = "main" /\ wt' = wt
      /\ UNCHANGED <<upstream, tracking, branch, head, pull, merged, work>>
      /\ call' = [call EXCEPT !.step = "count", !.main = tracking]
  BY DEF Proposal!ReadMain, Proposal!At, Proposal!Read
<1>2. ~Proposal!Idle
  BY <1>1 DEF Proposal!Idle
<1>3. call \in CallRecord
  BY <1>2, Working DEF CallRecord
<1>4. tracking \in Nat /\ wt \in Proposal!Trees /\ Proposal!OwnOther(wt)
  <2>1. tracking \in DOMAIN upstream /\ DOMAIN upstream = 1..Len(upstream)
    BY TreesTyped
  <2> QED
    BY <2>1, TreesTyped DEF Proposal!IInv, Proposal!HeadInv
<1>5. /\ call' \in CallRecord /\ call'.cmd = "check" /\ call'.step = "count"
      /\ call'.main = tracking
  BY <1>1, <1>3, <1>4 DEF CallRecord, Proposal!CallSteps
<1>6. wt = Proposal!HeadTree
  BY <1>1, StageFacts DEF Proposal!IInv, Proposal!CheckInv
<1>7. Proposal!CheckInv'
  BY <1>1, <1>5, <1>6, StageFacts DEF Proposal!CheckInv, Proposal!HeadTree
<1>8. Proposal!PathsInv' /\ Proposal!StartInv' /\ Proposal!ActivateInv'
  BY <1>5, StageFacts DEF Proposal!PathsInv, Proposal!StartInv, Proposal!ActivateInv
<1>9. Proposal!OwnOther(wt)'
  BY <1>1, <1>4 DEF Proposal!OwnOther, Proposal!Base
<1> QED
  BY <1>1, <1>2, <1>4, <1>5, <1>7, <1>8, <1>9, CommandStep

(* The paths that differ from the remote-tracking ref, wherever a fetch has *)
(* put it, differ from the commit HEAD stands on: others never make what   *)
(* the proposal makes (release_changed_paths).                             *)
LEMMA PathsDiffer ==
  ASSUME Proposal!IInv, ~Proposal!Idle, Proposal!ChangedPaths = Proposal!ReleasePaths
  PROVE  wt.other = Proposal!Base.other /\ wt.new = {}
<1> DEFINE t == upstream[tracking]
<1>1. t \in Proposal!BaseTrees
  BY Working, TreesTyped
<1>2. wt.other = t.other /\ wt.new = t.new
  BY DEF Proposal!ChangedPaths, Proposal!Changed, Proposal!ReleasePaths, Proposal!Files
<1>3. Proposal!OwnOther(wt)
  BY DEF Proposal!IInv, Proposal!HeadInv
<1> HIDE DEF t
<1> QED
  BY <1>1, <1>2, <1>3 DEF Proposal!BaseTrees, Proposal!OwnOther

(* The last checks of prepare and check (require_release_changes,          *)
(* validate_release_content).                                              *)
LEMMA LastChecks ==
  ASSUME Proposal!IInv, Proposal!Paths \/ Proposal!Content
  PROVE  Proposal!IInv'
<1>1. /\ Proposal!Read /\ ~Proposal!Idle /\ call.cmd # "activate"
      /\ call.step \in {"paths", "content"} /\ call.step # "temporary"
      /\ {"content", "ok"} \subseteq Proposal!CallSteps
  BY DEF Proposal!Paths, Proposal!Content, Proposal!CallSteps
<1>2. call.cmd \in {"prepare", "check"}
  BY <1>1, Working DEF Proposal!Commands
<1>3. call.cmd = "prepare" => head.own = <<>> /\ call.start = Proposal!Base
  BY <1>1, Started, StageFacts
<1>4. call.cmd = "check" =>
        /\ wt = Proposal!HeadTree /\ Len(head.own) = 1 /\ head.base = call.main
        /\ Proposal!SignedOff(head.own[1])
  BY <1>1, StageFacts DEF Proposal!IInv, Proposal!CheckInv
<1>5. CASE Proposal!Paths
  <2>1. Proposal!Require(Proposal!ChangedPaths = Proposal!ReleasePaths, "content")
    BY <1>5 DEF Proposal!Paths
  <2>2. Proposal!ChangedPaths = Proposal!ReleasePaths => Facts("content")
    BY <1>1, <1>2, <1>3, <1>4, PathsDiffer, StageFacts DEF Facts
  <2> QED
    BY <1>1, <2>1, <2>2, RequireInv
<1>6. CASE Proposal!Content
  <2> DEFINE Good == /\ Proposal!ConfigExact(wt) /\ wt.manifest = "sel"
                     /\ Proposal!ChangelogExact(wt)
                     /\ call.cmd = "check" => Proposal!PackageExact(wt)
  <2>1. Proposal!Require(Good, "ok") /\ call.step = "content"
    BY <1>6 DEF Proposal!Content
  <2>2. wt.other = Proposal!Base.other /\ wt.new = {}
    BY <1>1, <2>1, StageFacts DEF Proposal!IInv, Proposal!PathsInv
  <2>3. Good => Proposal!Released(wt) /\ wt.other # "bad"
    BY DEF Proposal!ConfigExact, Proposal!ChangelogExact, Proposal!Headings, Proposal!Released
  <2>4. Good => Facts("ok")
    BY <1>1, <1>2, <1>3, <1>4, <2>2, <2>3, StageFacts DEF Facts
  <2> HIDE DEF Good
  <2> QED
    BY <1>1, <2>1, <2>4, RequireInv
<1> QED
  BY <1>5, <1>6

(* The write of activate: a temporary file beside the manifest, renamed    *)
(* over it or removed (write_exact_file).                                  *)
LEMMA ActivateWrites ==
  ASSUME Proposal!IInv,
         Proposal!WriteTemporary \/ Proposal!Persist \/ Proposal!Activated
  PROVE  Proposal!IInv'
<1> DEFINE start == call.start
<1>1. /\ call.cmd = "activate" /\ call.step \in {"tool", "temporary", "activated"}
      /\ UNCHANGED <<upstream, tracking, branch, head, pull, merged, work>>
  BY DEF Proposal!WriteTemporary, Proposal!Persist, Proposal!Activated, Proposal!At,
         Proposal!Read, Proposal!Write
<1>2. ~Proposal!Idle
  BY <1>1 DEF Proposal!Idle
<1>3. call \in CallRecord /\ call.main <= tracking
  BY <1>2, Working DEF CallRecord
<1>4. /\ head.own = <<>> /\ start = Proposal!Base /\ Proposal!HeadTree = start
      /\ start \in Proposal!Trees /\ start.new = {}
  <2>1. head.own = <<>> /\ start = Proposal!Base /\ Proposal!HeadTree = start
    BY <1>1, Started, StageFacts
  <2>2. start \in Proposal!BaseTrees
    BY <2>1, TreesTyped
  <2> QED
    BY <1>3, <2>1, <2>2 DEF Proposal!BaseTrees, CallRecord
<1>5. wt \in Proposal!Trees /\ Proposal!OwnOther(wt)
  BY DEF Proposal!IInv, Proposal!TypeOK, Proposal!HeadInv
<1>6. {"temporary", "activated", "ok", "failed"} \subseteq Proposal!CallSteps
  BY DEF Proposal!CallSteps
<1>7. ASSUME NEW s \in {"temporary", "activated", "failed"},
             call' = [call EXCEPT !.step = s], wt' \in Proposal!Trees,
             Proposal!OwnOther(wt'),
             s = "temporary" => wt' = [start EXCEPT !.new = {"temporary"}],
             s = "activated" => wt' = [start EXCEPT !.manifest = "stub"],
             s = "failed" => wt' = start
      PROVE  Proposal!IInv'
  <2>1. /\ call' \in CallRecord /\ call'.cmd = "activate" /\ call'.step = s
        /\ call'.start = start /\ call'.main = call.main
    BY <1>1, <1>3, <1>6, <1>7 DEF CallRecord
  <2>2. Proposal!PathsInv' /\ Proposal!CheckInv'
    BY <2>1 DEF Proposal!PathsInv, Proposal!CheckInv
  <2>3. Proposal!StartInv'
    BY <1>1, <1>4, <1>7, <2>1, StageFacts DEF Proposal!StartInv, Proposal!Base
  <2>4. Proposal!ActivateInv'
    BY <1>7, <2>1 DEF Proposal!ActivateInv, Proposal!Left
  <2>5. Proposal!OwnOther(wt)'
    BY <1>1, <1>7 DEF Proposal!OwnOther, Proposal!Base
  <2> QED
    BY <1>1, <1>2, <1>3, <1>7, <2>1, <2>2, <2>3, <2>4, <2>5, CommandStep
<1>8. CASE Proposal!WriteTemporary
  <2>1. call.step = "tool" /\ wt = start
    BY <1>1, <1>8, StageFacts DEF Proposal!WriteTemporary, Proposal!At, Proposal!IInv,
                                  Proposal!StartInv
  <2>2. CASE call' = [call EXCEPT !.step = "temporary"]
             /\ wt' = [wt EXCEPT !.new = @ \cup {"temporary"}]
    <3>1. wt' = [start EXCEPT !.new = {"temporary"}] /\ wt' \in Proposal!Trees
          /\ wt'.other = wt.other
      BY <1>4, <2>1, <2>2 DEF Proposal!Trees, Proposal!NewFiles
    <3> QED
      BY <1>5, <1>7, <2>2, <3>1 DEF Proposal!OwnOther
  <2>3. CASE call' = [call EXCEPT !.step = "failed"] /\ wt' = wt
    BY <1>5, <1>7, <2>1, <2>3
  <2> QED
    BY <1>8, <2>2, <2>3 DEF Proposal!WriteTemporary, Proposal!Goto, Proposal!Write,
                            Proposal!Read
<1>9. CASE Proposal!Persist
  <2>1. call.step = "temporary" /\ wt = [start EXCEPT !.new = {"temporary"}]
    BY <1>1, <1>9 DEF Proposal!Persist, Proposal!At, Proposal!IInv, Proposal!ActivateInv
  <2>2. CASE call' = [call EXCEPT !.step = "activated"]
             /\ wt' = [wt EXCEPT !.manifest = "stub", !.new = @ \ {"temporary"}]
    <3>1. wt' \in Proposal!Trees /\ wt'.other = wt.other
      BY <1>5, <2>2 DEF Proposal!Trees, Proposal!Manifests
    <3>2. wt' = [start EXCEPT !.manifest = "stub"]
      BY <1>4, <2>1, <2>2 DEF Proposal!Trees
    <3> QED
      BY <1>5, <1>7, <2>2, <3>1, <3>2 DEF Proposal!OwnOther
  <2>3. CASE call' = [call EXCEPT !.step = "failed"]
             /\ wt' = [wt EXCEPT !.new = @ \ {"temporary"}]
    <3>1. wt' \in Proposal!Trees /\ wt'.other = wt.other
      BY <1>5, <2>3 DEF Proposal!Trees
    <3>2. wt' = start
      BY <1>4, <2>1, <2>3 DEF Proposal!Trees
    <3> QED
      BY <1>5, <1>7, <2>3, <3>1, <3>2 DEF Proposal!OwnOther
  <2> QED
    BY <1>9, <2>2, <2>3 DEF Proposal!Persist, Proposal!Goto, Proposal!Write
<1>10. CASE Proposal!Activated
  <2>1. call.step = "activated" /\ Proposal!Read
        /\ Proposal!Require(Proposal!Changed(wt, Proposal!HeadTree) = Proposal!ActivationPaths
                            /\ wt.manifest = "stub", "ok")
    BY <1>10 DEF Proposal!Activated, Proposal!At
  <2>2. wt = [start EXCEPT !.manifest = "stub"]
    BY <1>1, <2>1 DEF Proposal!IInv, Proposal!ActivateInv
  <2>3. Facts("ok")
    BY <1>1, <1>4, <2>2, StageFacts DEF Facts
  <2>4. "ok" \in Proposal!CallSteps /\ call.step # "temporary"
    BY <1>6, <2>1
  <2> QED
    BY <1>2, <2>1, <2>3, <2>4, RequireInv
<1> QED
  BY <1>8, <1>9, <1>10

(* A command begins: nothing is known of the proposal yet (run).           *)
LEMMA BeginInv ==
  ASSUME Proposal!IInv, NEW cmd \in Proposal!Commands, Proposal!Begin(cmd)
  PROVE  Proposal!IInv'
<1>1. /\ pull = Proposal!None /\ work < MaxWork /\ work' = work + 1
      /\ UNCHANGED <<upstream, tracking, branch, head, wt, pull, merged>>
      /\ \E s \in {"begun", "failed"} :
           call' = [cmd |-> cmd, step |-> s, original |-> wt.manifest, main |-> 0, start |-> wt]
  BY DEF Proposal!Begin, Proposal!Spend
<1>2. wt \in Proposal!Trees /\ wt.manifest \in Proposal!Manifests
  BY DEF Proposal!IInv, Proposal!TypeOK, Proposal!Trees
<1>3. /\ call' \in CallRecord /\ call'.cmd = cmd /\ call'.step \in {"begun", "failed"}
      /\ call'.main = 0 /\ call'.start = wt
  BY <1>1, <1>2 DEF CallRecord, Proposal!CallSteps
<1>4. merged = Proposal!None
  BY <1>1 DEF Proposal!IInv, Proposal!PullInv
<1>5. Proposal!TypeOK'
  <2>1. tracking \in Nat /\ work \in 0..MaxWork /\ MaxWork \in Nat
    BY TreesTyped, ProposalAssumption DEF Proposal!IInv, Proposal!TypeOK
  <2>2. call'.cmd \in Proposal!Commands /\ call'.main <= tracking'
    BY <1>1, <1>3, <2>1
  <2> QED
    BY <1>1, <1>4, <2>1, <2>2 DEF Proposal!IInv, Proposal!TypeOK
<1>6. Proposal!HeadInv' /\ Proposal!PullInv'
  BY <1>1, <1>4 DEF Proposal!IInv, Proposal!HeadInv, Proposal!PullInv, Proposal!OwnOther,
                    Proposal!Base
<1>7. Proposal!CallShape'
  BY <1>1, <1>3 DEF Proposal!CallShape, CallRecord, Proposal!None
<1>8. Proposal!PathsInv' /\ Proposal!StartInv' /\ Proposal!ActivateInv' /\ Proposal!CheckInv'
  BY <1>1, <1>3, StageFacts DEF Proposal!PathsInv, Proposal!StartInv, Proposal!ActivateInv,
                                Proposal!Left, Proposal!CheckInv
<1> QED
  BY <1>5, <1>6, <1>7, <1>8 DEF Proposal!IInv

(* Work on the proposal before it is pushed ends what the last command     *)
(* found.                                                                  *)
LEMMA OwnWork ==
  ASSUME Proposal!IInv, Proposal!Spend, call' = Proposal!None,
         UNCHANGED <<upstream, tracking, pull, merged>>,
         branch' \in {"release", "activate"},
         head' \in [base : DOMAIN upstream, own : Seq(Proposal!Commits)],
         Len(head'.own) <= MaxOwn, head'.base <= tracking, wt' \in Proposal!Trees,
         Proposal!OwnOther(wt)',
         \A k \in DOMAIN head'.own :
           head'.own[k].tree.other \in {upstream[head'.base].other, "mine", "bad"}
  PROVE  Proposal!IInv'
<1>1. pull = Proposal!None /\ work < MaxWork /\ work' = work + 1
  BY DEF Proposal!Spend
<1>2. merged = Proposal!None
  BY <1>1 DEF Proposal!IInv, Proposal!PullInv
<1>3. \A i \in DOMAIN upstream : upstream[i] \in Proposal!BaseTrees
  BY <1>2 DEF Proposal!IInv, Proposal!HeadInv
<1>4. head'.base \in DOMAIN upstream /\ head'.own \in Seq(Proposal!Commits)
  OBVIOUS
<1>5. Proposal!TypeOK'
  <2>1. /\ tracking \in DOMAIN upstream /\ DOMAIN upstream = 1..Len(upstream)
        /\ Len(upstream) \in 1..MaxUpstream /\ work \in 0..MaxWork /\ MaxWork \in Nat
        /\ upstream \in Seq(Proposal!Trees)
    BY TreesTyped, ProposalAssumption DEF Proposal!IInv, Proposal!TypeOK
  <2>2. tracking' \in head'.base..Len(upstream') /\ work' \in 0..MaxWork
    BY <1>1, <1>4, <2>1
  <2> QED
    BY <1>1, <1>2, <1>4, <2>1, <2>2 DEF Proposal!TypeOK
<1>6. Proposal!HeadInv'
  BY <1>2, <1>3, <1>4 DEF Proposal!HeadInv, Proposal!Base, Proposal!OwnOther
<1>7. Proposal!CallShape' /\ Proposal!PullInv'
  BY <1>1, <1>2 DEF Proposal!CallShape, Proposal!PullInv
<1>8. Proposal!PathsInv' /\ Proposal!StartInv' /\ Proposal!ActivateInv' /\ Proposal!CheckInv'
  BY StageFacts DEF Proposal!PathsInv, Proposal!StartInv, Proposal!ActivateInv,
                    Proposal!CheckInv, Proposal!None
<1> QED
  BY <1>5, <1>6, <1>7, <1>8 DEF Proposal!IInv

(* The maintainer edits, commits or starts over.                           *)
LEMMA MaintainerInv ==
  ASSUME Proposal!IInv,
         \/ Proposal!Edit
         \/ \E s \in Proposal!Signatures, d \in BOOLEAN : Proposal!Commit(s, d)
         \/ \E name \in {"release", "activate"} : Proposal!Reset(name)
  PROVE  Proposal!IInv'
<1>1. /\ head = [base |-> head.base, own |-> head.own] /\ head.base \in DOMAIN upstream
      /\ head.own \in Seq(Proposal!Commits) /\ Len(head.own) <= MaxOwn
      /\ head.base <= tracking /\ tracking \in DOMAIN upstream
      /\ wt \in Proposal!Trees /\ branch \in {"release", "activate"}
  BY TreesTyped DEF Proposal!IInv, Proposal!TypeOK
<1>2. /\ wt.other \in {upstream[head.base].other, "mine", "bad"}
      /\ \A k \in DOMAIN head.own :
           head.own[k].tree.other \in {upstream[head.base].other, "mine", "bad"}
  BY DEF Proposal!IInv, Proposal!HeadInv, Proposal!OwnOther, Proposal!Base
<1>3. CASE Proposal!Edit
  <2>1. /\ Proposal!Spend /\ call' = Proposal!None
        /\ UNCHANGED <<upstream, tracking, branch, head, pull, merged>>
        /\ \/ wt' = [wt EXCEPT !.other = "bad"]
           \/ wt' = [wt EXCEPT !.changelog = "apart"]
           \/ wt' = [wt EXCEPT !.new = {"extra"}]
    BY <1>3 DEF Proposal!Edit
  <2>2. wt' \in Proposal!Trees /\ wt'.other \in {wt.other, "bad"}
    BY <1>1, <2>1 DEF Proposal!Trees, Proposal!Others, Proposal!Changelogs, Proposal!NewFiles
  <2>3. Proposal!OwnOther(wt)'
    BY <1>2, <2>1, <2>2 DEF Proposal!OwnOther, Proposal!Base
  <2> QED
    BY <1>1, <1>2, <2>1, <2>2, <2>3, OwnWork
<1>4. ASSUME NEW s \in Proposal!Signatures, NEW d \in BOOLEAN, Proposal!Commit(s, d)
      PROVE  Proposal!IInv'
  <2> DEFINE commit == [tree |-> wt, signature |-> s, dco |-> d]
  <2>1. commit \in Proposal!Commits /\ commit.tree = wt
    BY <1>1 DEF Proposal!Commits
  <2>2. /\ Proposal!Spend /\ call' = Proposal!None /\ Len(head.own) < MaxOwn
        /\ UNCHANGED <<upstream, tracking, branch, wt, pull, merged>>
        /\ head' = [head EXCEPT !.own = Append(@, commit)]
    BY <1>4 DEF Proposal!Commit
  <2> HIDE DEF commit
  <2>3. head' = [base |-> head.base, own |-> Append(head.own, commit)]
    BY <1>1, <2>2
  <2>4. /\ Append(head.own, commit) \in Seq(Proposal!Commits)
        /\ Len(Append(head.own, commit)) = Len(head.own) + 1
        /\ \A k \in DOMAIN Append(head.own, commit) :
             \/ k \in DOMAIN head.own /\ Append(head.own, commit)[k] = head.own[k]
             \/ Append(head.own, commit)[k] = commit
    BY <1>1, <2>1
  <2>5. \A k \in DOMAIN head'.own :
          head'.own[k].tree.other \in {upstream[head'.base].other, "mine", "bad"}
    BY <1>2, <2>1, <2>3, <2>4
  <2>6. Proposal!OwnOther(wt)'
    BY <1>2, <2>2, <2>3 DEF Proposal!OwnOther, Proposal!Base
  <2>7. Len(head'.own) <= MaxOwn
    BY <1>1, <2>2, <2>3, <2>4, ProposalAssumption
  <2> QED
    BY <1>1, <2>2, <2>3, <2>4, <2>5, <2>6, <2>7, OwnWork
<1>5. ASSUME NEW name \in {"release", "activate"}, Proposal!Reset(name)
      PROVE  Proposal!IInv'
  <2>1. /\ Proposal!Spend /\ call' = Proposal!None /\ branch' = name
        /\ UNCHANGED <<upstream, tracking, pull, merged>>
        /\ head' = [base |-> tracking, own |-> <<>>] /\ wt' = upstream[tracking]
    BY <1>5 DEF Proposal!Reset
  <2>2. upstream[tracking] \in Proposal!Trees
    BY TreesTyped
  <2>3. Proposal!OwnOther(wt)'
    BY <2>1 DEF Proposal!OwnOther, Proposal!Base
  <2>4. tracking <= tracking /\ Len(<<>>) <= MaxOwn
    BY <1>1, ProposalAssumption, TreesTyped
  <2> QED
    BY <1>1, <2>1, <2>2, <2>3, <2>4, OwnWork
<1> QED
  BY <1>3, <1>4, <1>5

(* A fetch moves the remote-tracking ref alone, whatever runs.             *)
LEMMA FetchInv ==
  ASSUME Proposal!IInv, Proposal!Fetch
  PROVE  Proposal!IInv'
<1>1. /\ tracking' = Len(upstream)
      /\ UNCHANGED <<upstream, branch, head, wt, call, pull, merged, work>>
  BY DEF Proposal!Fetch
<1>2. Proposal!TypeOK'
  <2>1. /\ tracking \in DOMAIN upstream /\ DOMAIN upstream = 1..Len(upstream)
        /\ head.base \in DOMAIN upstream /\ Len(upstream) \in 1..MaxUpstream
    BY TreesTyped
  <2>2. call # Proposal!None => call.main \in Nat
    BY DEF Proposal!IInv, Proposal!CallShape
  <2>3. tracking <= tracking' /\ tracking' \in head'.base..Len(upstream')
    BY <1>1, <2>1
  <2>4. call' = Proposal!None \/ (call'.cmd \in Proposal!Commands /\ call'.main <= tracking')
    <3>1. call = Proposal!None \/ (call.cmd \in Proposal!Commands /\ call.main <= tracking)
      BY DEF Proposal!IInv, Proposal!TypeOK
    <3>2. tracking \in Nat /\ tracking' \in Nat
      BY <1>1, <2>1
    <3> QED
      BY <1>1, <2>2, <2>3, <3>1, <3>2
  <2> QED
    BY <1>1, <2>3, <2>4 DEF Proposal!IInv, Proposal!TypeOK
<1>3. Proposal!HeadInv' /\ Proposal!CallShape' /\ Proposal!PathsInv'
  BY <1>1 DEF Proposal!IInv, Proposal!HeadInv, Proposal!CallShape, Proposal!PathsInv,
              Proposal!Base, Proposal!OwnOther, Proposal!Released, Proposal!Idle
<1>4. Proposal!StartInv' /\ Proposal!ActivateInv' /\ Proposal!CheckInv'
  BY <1>1 DEF Proposal!IInv, Proposal!StartInv, Proposal!ActivateInv, Proposal!Left,
              Proposal!CheckInv, Proposal!Base, Proposal!HeadTree, Proposal!SignedOff
<1>5. Proposal!PullInv'
  BY <1>1 DEF Proposal!IInv, Proposal!PullInv, Proposal!Proven, Proposal!SignedOff,
              Proposal!Released, Proposal!Changed
<1> QED
  BY <1>2, <1>3, <1>4, <1>5 DEF Proposal!IInv

(* The base grows at its end: what a command found of the commit HEAD      *)
(* stands on, and what check found of the pull request, stays true.        *)
LEMMA GrownInv ==
  ASSUME Proposal!IInv, NEW tree \in Proposal!Trees, Proposal!Advance(tree),
         UNCHANGED <<tracking, branch, head, wt, call, work>>,
         Proposal!CallShape', Proposal!PullInv',
         merged' # Proposal!None => merged'.index <= Len(upstream'),
         pull' # Proposal!None => Len(pull'.own) > 0 /\ pull'.base <= Len(upstream'),
         \A i \in DOMAIN upstream' :
           merged' = Proposal!None \/ i < merged'.index => upstream'[i] \in Proposal!BaseTrees
  PROVE  Proposal!IInv'
<1>1. /\ upstream \in Seq(Proposal!Trees) /\ Len(upstream) \in 1..MaxUpstream
      /\ DOMAIN upstream = 1..Len(upstream) /\ head.base \in DOMAIN upstream
      /\ tracking \in DOMAIN upstream /\ head.base <= tracking
  BY TreesTyped
<1>2. Len(upstream) < MaxUpstream /\ upstream' = Append(upstream, tree)
  BY DEF Proposal!Advance
<1>3. /\ upstream' \in Seq(Proposal!Trees) /\ Len(upstream') = Len(upstream) + 1
      /\ DOMAIN upstream \subseteq DOMAIN upstream'
      /\ \A i \in DOMAIN upstream : upstream'[i] = upstream[i]
  BY <1>1, <1>2
<1>4. upstream'[head'.base] = upstream[head.base]
  BY <1>1, <1>3
<1>5. Proposal!TypeOK'
  <2>1. /\ Len(upstream') \in 1..MaxUpstream /\ tracking' \in head'.base..Len(upstream')
    BY <1>1, <1>2, <1>3, ProposalAssumption
  <2> QED
    BY <1>3, <2>1 DEF Proposal!IInv, Proposal!TypeOK
<1>6. Proposal!HeadInv'
  <2>1. head' \in [base : DOMAIN upstream', own : Seq(Proposal!Commits)]
    BY <1>1, <1>3, TreesTyped
  <2> QED
    BY <1>4, <2>1 DEF Proposal!IInv, Proposal!HeadInv, Proposal!Base, Proposal!OwnOther
<1>7. head'.own = head.own /\ (head.own # <<>> => Proposal!HeadTree' = Proposal!HeadTree)
      /\ (head.own = <<>> => Proposal!HeadTree' = Proposal!HeadTree)
  BY <1>4 DEF Proposal!HeadTree
<1>8. Proposal!PathsInv' /\ Proposal!StartInv' /\ Proposal!ActivateInv'
  BY <1>4 DEF Proposal!IInv, Proposal!PathsInv, Proposal!StartInv, Proposal!ActivateInv,
              Proposal!Left, Proposal!Base, Proposal!Released
<1>9. Proposal!CheckInv'
  BY <1>7 DEF Proposal!IInv, Proposal!CheckInv, Proposal!SignedOff
<1> QED
  BY <1>5, <1>6, <1>8, <1>9 DEF Proposal!IInv

(* What check proved of a commit, of the base as it was, it proved of the  *)
(* base as it has become.                                                  *)
LEMMA PullGrows ==
  ASSUME Proposal!IInv, NEW tree \in Proposal!Trees, Proposal!Advance(tree), pull # Proposal!None
  PROVE  /\ pull.own \in Seq(Proposal!Commits) /\ pull.own # <<>>
         /\ pull.from \in DOMAIN upstream' /\ pull.base \in DOMAIN upstream'
         /\ pull.from \in DOMAIN upstream /\ pull.base \in DOMAIN upstream
         /\ pull.from <= pull.base
         /\ pull.checked =>
              Len(pull.own) = 1 /\ Proposal!Proven(pull.own[1], upstream'[pull.from])
         /\ DOMAIN upstream' = 1..Len(upstream') /\ Len(upstream') = Len(upstream) + 1
         /\ upstream'[Len(upstream')] = tree /\ Len(upstream) \in Nat
         /\ \A i \in DOMAIN upstream : i \in DOMAIN upstream' /\ upstream'[i] = upstream[i]
         /\ \A i \in DOMAIN upstream' : i \in DOMAIN upstream \/ i = Len(upstream')
<1>1. upstream \in Seq(Proposal!Trees) /\ DOMAIN upstream = 1..Len(upstream)
  BY TreesTyped
<1>2. /\ DOMAIN upstream' = 1..Len(upstream') /\ Len(upstream') = Len(upstream) + 1
      /\ upstream'[Len(upstream')] = tree /\ Len(upstream) \in Nat
      /\ \A i \in DOMAIN upstream : i \in DOMAIN upstream' /\ upstream'[i] = upstream[i]
      /\ \A i \in DOMAIN upstream' : i \in DOMAIN upstream \/ i = Len(upstream')
  BY <1>1 DEF Proposal!Advance
<1>3. /\ pull.own \in Seq(Proposal!Commits) /\ pull.own # <<>>
      /\ pull.from \in DOMAIN upstream /\ pull.base \in DOMAIN upstream
      /\ pull.from <= pull.base
  BY DEF Proposal!IInv, Proposal!PullInv
<1>4. pull.checked => Len(pull.own) = 1 /\ Proposal!Proven(pull.own[1], upstream[pull.from])
  BY DEF Proposal!IInv, Proposal!PullInv
<1>5. upstream'[pull.from] = upstream[pull.from]
  BY <1>2, <1>3
<1>6. pull.checked => Len(pull.own) = 1 /\ Proposal!Proven(pull.own[1], upstream'[pull.from])
  BY <1>4, <1>5
<1> QED
  BY <1>2, <1>3, <1>6

(* Others' work, or another release, is merged.                            *)
LEMMA MergeOthersInv ==
  ASSUME Proposal!IInv, Proposal!MergeOthers
  PROVE  Proposal!IInv'
<1>1. UNCHANGED <<tracking, branch, head, wt, call, pull, merged, work>>
  BY DEF Proposal!MergeOthers
<1>2. /\ upstream \in Seq(Proposal!Trees) /\ DOMAIN upstream = 1..Len(upstream)
      /\ Len(upstream) \in DOMAIN upstream
  BY TreesTyped
<1>3. Proposal!TipTree \in Proposal!Trees
  BY TreesTyped DEF Proposal!TipTree
<1>4. PICK tree : /\ Proposal!Advance(tree)
                  /\ \/ tree = [Proposal!TipTree EXCEPT !.other = "theirs"]
                     \/ tree = [Proposal!TipTree EXCEPT !.manifest = "else",
                                                        !.changelog = "else"]
  BY DEF Proposal!MergeOthers
<1>5. tree \in Proposal!Trees
  BY <1>3, <1>4 DEF Proposal!Trees, Proposal!Others, Proposal!Manifests, Proposal!Changelogs
<1>6. Proposal!TipTree \in Proposal!BaseTrees => tree \in Proposal!BaseTrees
  BY <1>4 DEF Proposal!BaseTrees
<1>7. /\ upstream' = Append(upstream, tree) /\ Len(upstream') = Len(upstream) + 1
      /\ Len(upstream) \in Nat /\ upstream'[Len(upstream')] = tree
      /\ \A i \in DOMAIN upstream : i \in DOMAIN upstream' /\ upstream'[i] = upstream[i]
      /\ \A i \in DOMAIN upstream' : i \in DOMAIN upstream \/ i = Len(upstream')
  BY <1>2, <1>4, <1>5 DEF Proposal!Advance
<1>8. merged # Proposal!None =>
        /\ merged.index \in DOMAIN upstream /\ pull # Proposal!None /\ merged.pull = pull
  BY DEF Proposal!IInv, Proposal!PullInv
<1>9. \A i \in DOMAIN upstream' :
        merged' = Proposal!None \/ i < merged'.index => upstream'[i] \in Proposal!BaseTrees
  <2>1. \A i \in DOMAIN upstream : merged = Proposal!None \/ i < merged.index
          => upstream[i] \in Proposal!BaseTrees
    BY DEF Proposal!IInv, Proposal!HeadInv
  <2>2. merged # Proposal!None => ~(Len(upstream') < merged.index)
    BY <1>2, <1>7, <1>8
  <2>3. merged = Proposal!None => tree \in Proposal!BaseTrees
    BY <1>2, <1>6, <2>1 DEF Proposal!TipTree
  <2> QED
    BY <1>1, <1>7, <2>1, <2>2, <2>3
<1>10. Proposal!PullInv'
  <2>1. pull # Proposal!None =>
          /\ pull.own \in Seq(Proposal!Commits) /\ pull.own # <<>>
          /\ pull.from \in DOMAIN upstream' /\ pull.base \in DOMAIN upstream'
          /\ pull.from <= pull.base
          /\ pull.checked =>
               Len(pull.own) = 1 /\ Proposal!Proven(pull.own[1], upstream'[pull.from])
    BY <1>4, <1>5, PullGrows
  <2>2. merged # Proposal!None =>
          /\ pull # Proposal!None /\ merged.pull = pull
          /\ merged.index \in DOMAIN upstream' /\ pull.base < merged.index
          /\ merged.dco \in BOOLEAN
          /\ merged.index - 1 = pull.from =>
               upstream'[merged.index] = pull.own[Len(pull.own)].tree
    BY <1>7, <1>8 DEF Proposal!IInv, Proposal!PullInv
  <2> QED
    BY <1>1, <2>1, <2>2 DEF Proposal!PullInv, Proposal!Proven, Proposal!SignedOff,
                            Proposal!Released, Proposal!Changed
<1>11. Proposal!CallShape'
  BY <1>1 DEF Proposal!IInv, Proposal!CallShape, Proposal!Idle
<1>12. /\ merged' # Proposal!None => merged'.index <= Len(upstream')
       /\ pull' # Proposal!None => Len(pull'.own) > 0 /\ pull'.base <= Len(upstream')
  BY <1>1, <1>2, <1>7, <1>8 DEF Proposal!IInv, Proposal!TypeOK, Proposal!PullInv
<1> QED
  BY <1>1, <1>4, <1>5, <1>9, <1>10, <1>11, <1>12, GrownInv

(* What check found of HEAD goes with the pull request (release check).    *)
LEMMA PushInv ==
  ASSUME Proposal!IInv, Proposal!Push
  PROVE  Proposal!IInv'
<1> DEFINE found == Proposal!At("check", "ok")
<1>1. /\ Proposal!Idle /\ pull = Proposal!None /\ head.own # <<>>
      /\ UNCHANGED <<upstream, tracking, branch, head, wt, merged, work>>
      /\ call' = Proposal!None
      /\ pull' = [own |-> head.own, from |-> head.base, base |-> Len(upstream),
                  checked |-> found]
  BY DEF Proposal!Push
<1>2. /\ pull'.own = head.own /\ pull'.from = head.base /\ pull'.base = Len(upstream)
      /\ pull'.checked = found
  BY <1>1
<1>3. /\ head.own \in Seq(Proposal!Commits) /\ head.base \in DOMAIN upstream
      /\ Len(upstream) \in DOMAIN upstream /\ DOMAIN upstream = 1..Len(upstream)
      /\ Len(upstream) \in Nat
  BY TreesTyped
<1>4. found => Len(head.own) = 1 /\ Proposal!Proven(head.own[1], upstream[head.base])
  <2> SUFFICES ASSUME found
               PROVE  Len(head.own) = 1 /\ Proposal!Proven(head.own[1], upstream[head.base])
    OBVIOUS
  <2>1. call.cmd = "check" /\ call.step = "ok"
    BY DEF Proposal!At
  <2>2. /\ wt = Proposal!HeadTree /\ Len(head.own) = 1 /\ Proposal!SignedOff(head.own[1])
        /\ wt.other # "bad"
    BY <2>1, StageFacts DEF Proposal!IInv, Proposal!CheckInv
  <2>3. wt.other = Proposal!Base.other /\ wt.new = {} /\ Proposal!Released(wt)
    BY <2>1, StageFacts DEF Proposal!IInv, Proposal!PathsInv
  <2>4. wt = head.own[1].tree
    BY <1>1, <2>2 DEF Proposal!HeadTree
  <2>5. Proposal!Changed(wt, Proposal!Base) = Proposal!ReleasePaths
    <3>1. /\ Proposal!Base.manifest # "sel" /\ Proposal!Base.changelog \notin {"sel", "empty"}
          /\ Proposal!Base.new = {}
      BY TreesTyped DEF Proposal!BaseTrees
    <3> QED
      BY <2>3, <3>1 DEF Proposal!Changed, Proposal!Files, Proposal!ReleasePaths,
                        Proposal!Released
  <2> QED
    BY <2>2, <2>3, <2>4, <2>5 DEF Proposal!Proven, Proposal!Base
<1> HIDE DEF found
<1>5. merged = Proposal!None
  BY <1>1 DEF Proposal!IInv, Proposal!PullInv
<1>6. Proposal!PullInv'
  <2>1. pull'.checked => Len(pull'.own) = 1 /\ Proposal!Proven(pull'.own[1], upstream[pull'.from])
    BY <1>2, <1>4
  <2>2. pull'.from <= pull'.base
    BY <1>2, <1>3
  <2> QED
    BY <1>1, <1>2, <1>3, <1>5, <2>1, <2>2 DEF Proposal!PullInv, Proposal!Proven,
       Proposal!SignedOff, Proposal!Released, Proposal!Changed
<1>7. Proposal!TypeOK'
  <2>1. Len(pull'.own) > 0 /\ pull'.base <= Len(upstream')
    BY <1>1, <1>2, <1>3
  <2> QED
    BY <1>1, <2>1 DEF Proposal!IInv, Proposal!TypeOK
<1>8. Proposal!HeadInv' /\ Proposal!CallShape'
  BY <1>1 DEF Proposal!IInv, Proposal!HeadInv, Proposal!CallShape, Proposal!Base,
              Proposal!OwnOther, Proposal!Idle, Proposal!None
<1>9. Proposal!PathsInv' /\ Proposal!StartInv' /\ Proposal!ActivateInv' /\ Proposal!CheckInv'
  BY <1>1, StageFacts DEF Proposal!PathsInv, Proposal!StartInv, Proposal!ActivateInv,
                          Proposal!CheckInv, Proposal!None
<1> QED
  BY <1>6, <1>7, <1>8, <1>9 DEF Proposal!IInv

(* The squash of a head onto a tip that is its own base is its tree; and a *)
(* squash is a tree.                                                       *)
LEMMA SquashOntoBase ==
  ASSUME NEW tree \in Proposal!Trees, NEW from, upstream[from] \in Proposal!Trees,
         Proposal!TipTree \in Proposal!Trees
  PROVE  /\ Proposal!Squash(tree, from) \in Proposal!Trees
         /\ upstream[from] = Proposal!TipTree => Proposal!Squash(tree, from) = tree
<1> DEFINE t == Proposal!Squash(tree, from)
<1>1. DOMAIN t = Proposal!Files /\ \A f \in Proposal!Files : t[f] \in {tree[f], Proposal!TipTree[f]}
  BY DEF Proposal!Squash
<1>2. t = [manifest |-> t["manifest"], changelog |-> t["changelog"],
           other |-> t["other"], new |-> t["new"]]
  BY DEF Proposal!Squash, Proposal!Files
<1>3. t \in Proposal!Trees
  <2> HIDE DEF t
  <2>1. /\ t["manifest"] \in Proposal!Manifests /\ t["changelog"] \in Proposal!Changelogs
        /\ t["other"] \in Proposal!Others /\ t["new"] \in SUBSET Proposal!NewFiles
    BY <1>1 DEF Proposal!Trees, Proposal!Files
  <2> QED
    BY <1>2, <2>1 DEF Proposal!Trees
<1>4. ASSUME upstream[from] = Proposal!TipTree PROVE t = tree
  <2>1. \A f \in Proposal!Files : t[f] = tree[f]
    BY <1>4 DEF Proposal!Squash
  <2> HIDE DEF t
  <2> QED
    BY <1>3, <2>1 DEF Proposal!Trees, Proposal!Files
<1> QED
  BY <1>3, <1>4

(* The pull request is merged.                                             *)
LEMMA MergedInv ==
  ASSUME Proposal!IInv, Proposal!Merge
  PROVE  Proposal!IInv'
<1> DEFINE own  == pull.own[Len(pull.own)].tree
           tree == Proposal!Squash(own, pull.from)
<1>1. /\ pull # Proposal!None /\ merged = Proposal!None /\ Proposal!Advance(tree)
      /\ UNCHANGED <<tracking, branch, head, wt, call, pull, work>>
      /\ \E dco \in BOOLEAN :
           merged' = [pull |-> pull, index |-> Len(upstream'), dco |-> dco]
  BY DEF Proposal!Merge
<1>2. merged'.pull = pull /\ merged'.index = Len(upstream') /\ merged'.dco \in BOOLEAN
  BY <1>1
<1>3. own \in Proposal!Trees
  <2>1. pull.own \in Seq(Proposal!Commits) /\ pull.own # <<>>
    BY <1>1 DEF Proposal!IInv, Proposal!PullInv
  <2>2. pull.own[Len(pull.own)] \in Proposal!Commits
    BY <2>1
  <2> QED
    BY <2>2 DEF Proposal!Commits
<1>4. /\ pull.from \in DOMAIN upstream /\ upstream[pull.from] \in Proposal!Trees
      /\ Proposal!TipTree \in Proposal!Trees
  BY <1>1, TreesTyped DEF Proposal!IInv, Proposal!PullInv, Proposal!TipTree
<1>5. /\ tree \in Proposal!Trees
      /\ upstream[pull.from] = Proposal!TipTree => tree = own
  BY <1>3, <1>4, SquashOntoBase
<1> HIDE DEF tree
<1>6. /\ pull.own \in Seq(Proposal!Commits) /\ pull.own # <<>>
      /\ pull.from \in DOMAIN upstream' /\ pull.base \in DOMAIN upstream'
      /\ pull.from \in DOMAIN upstream /\ pull.base \in DOMAIN upstream
      /\ pull.from <= pull.base
      /\ pull.checked =>
           Len(pull.own) = 1 /\ Proposal!Proven(pull.own[1], upstream'[pull.from])
      /\ DOMAIN upstream' = 1..Len(upstream') /\ Len(upstream') = Len(upstream) + 1
      /\ upstream'[Len(upstream')] = tree /\ Len(upstream) \in Nat
      /\ \A i \in DOMAIN upstream : i \in DOMAIN upstream' /\ upstream'[i] = upstream[i]
      /\ \A i \in DOMAIN upstream' : i \in DOMAIN upstream \/ i = Len(upstream')
  BY <1>1, <1>5, PullGrows
<1>7. DOMAIN upstream = 1..Len(upstream)
  BY TreesTyped
<1>8. \A i \in DOMAIN upstream' :
        merged' = Proposal!None \/ i < merged'.index => upstream'[i] \in Proposal!BaseTrees
  <2>1. \A i \in DOMAIN upstream : upstream[i] \in Proposal!BaseTrees
    BY <1>1 DEF Proposal!IInv, Proposal!HeadInv
  <2>2. ~(Len(upstream') < Len(upstream'))
    BY <1>6
  <2>3. merged' # Proposal!None
    <3>1. DOMAIN merged' = {"pull", "index", "dco"} /\ DOMAIN Proposal!None = {"cmd", "step"}
      BY <1>1 DEF Proposal!None
    <3> QED
      BY <3>1
  <2> QED
    BY <1>2, <1>6, <2>1, <2>2, <2>3
<1>9. Proposal!PullInv'
  <2>1. merged'.index - 1 = pull.from => upstream'[merged'.index] = own
    BY <1>2, <1>5, <1>6 DEF Proposal!TipTree
  <2>2. merged'.index \in DOMAIN upstream' /\ pull.base < merged'.index
    BY <1>2, <1>6, <1>7
  <2> QED
    BY <1>1, <1>2, <1>6, <2>1, <2>2 DEF Proposal!PullInv, Proposal!Proven,
       Proposal!SignedOff, Proposal!Released, Proposal!Changed
<1>10. Proposal!CallShape'
  BY <1>1 DEF Proposal!IInv, Proposal!CallShape, Proposal!Idle
<1>11. /\ merged' # Proposal!None => merged'.index <= Len(upstream')
       /\ pull' # Proposal!None => Len(pull'.own) > 0 /\ pull'.base <= Len(upstream')
  BY <1>1, <1>2, <1>6
<1> QED
  BY <1>1, <1>5, <1>8, <1>9, <1>10, <1>11, GrownInv

(* Every behaviour begins with a base that has none of it.                 *)
LEMMA ProposalBegins ==
  ASSUME Proposal!Init
  PROVE  Proposal!IInv
<1>1. PICK manifest \in {"old", "stub"} :
        upstream = <<[manifest |-> manifest, changelog |-> "old", other |-> "old", new |-> {}]>>
  BY DEF Proposal!Init
<1>2. /\ tracking = 1 /\ branch = "release" /\ wt = upstream[1]
      /\ head = [base |-> 1, own |-> <<>>]
      /\ call = Proposal!None /\ pull = Proposal!None /\ merged = Proposal!None /\ work = 0
  BY DEF Proposal!Init
<1>3. Len(upstream) = 1 /\ DOMAIN upstream = {1}
  BY <1>1
<1>4. upstream[1] \in Proposal!BaseTrees /\ upstream[1] \in Proposal!Trees
  BY <1>1 DEF Proposal!BaseTrees, Proposal!Trees, Proposal!Manifests, Proposal!Changelogs,
              Proposal!Others
<1>5. upstream \in Seq(Proposal!Trees)
  BY <1>1, <1>4
<1>6. head.base = 1 /\ head.own = <<>>
  BY <1>2
<1>7. Proposal!TypeOK
  BY <1>2, <1>3, <1>4, <1>5, <1>6, ProposalAssumption DEF Proposal!TypeOK
<1>8. Proposal!HeadInv
  <2>1. head \in [base : DOMAIN upstream, own : Seq(Proposal!Commits)]
    BY <1>2, <1>3
  <2> QED
    BY <1>2, <1>3, <1>4, <1>6, <2>1 DEF Proposal!HeadInv, Proposal!Base, Proposal!OwnOther
<1>9. Proposal!CallShape /\ Proposal!PullInv
  BY <1>2 DEF Proposal!CallShape, Proposal!PullInv
<1>10. Proposal!PathsInv /\ Proposal!StartInv /\ Proposal!ActivateInv /\ Proposal!CheckInv
  BY <1>2, StageFacts DEF Proposal!PathsInv, Proposal!StartInv, Proposal!ActivateInv,
                          Proposal!CheckInv, Proposal!None
<1> QED
  BY <1>7, <1>8, <1>9, <1>10 DEF Proposal!IInv

(* A step of the other subject of a run, or none.                          *)
LEMMA ProposalRests ==
  ASSUME Proposal!IInv, UNCHANGED proposalVars
  PROVE  Proposal!IInv'
<1> USE DEF proposalVars
<1>1. Proposal!TypeOK'
  BY DEF Proposal!IInv, Proposal!TypeOK
<1>2. Proposal!HeadInv' /\ Proposal!CallShape' /\ Proposal!PathsInv'
  BY DEF Proposal!IInv, Proposal!HeadInv, Proposal!CallShape, Proposal!PathsInv,
         Proposal!Base, Proposal!OwnOther, Proposal!Released, Proposal!Idle
<1>3. Proposal!StartInv' /\ Proposal!ActivateInv' /\ Proposal!CheckInv'
  BY DEF Proposal!IInv, Proposal!StartInv, Proposal!ActivateInv, Proposal!Left,
         Proposal!CheckInv, Proposal!Base, Proposal!HeadTree, Proposal!SignedOff
<1>4. Proposal!PullInv'
  BY DEF Proposal!IInv, Proposal!PullInv, Proposal!Proven, Proposal!SignedOff,
         Proposal!Released, Proposal!Changed
<1> QED
  BY <1>1, <1>2, <1>3, <1>4 DEF Proposal!IInv

(* Every action keeps the invariant.                                       *)
LEMMA ProposalStep ==
  ASSUME Proposal!IInv, Proposal!Next
  PROVE  Proposal!IInv'
<1>1. CASE Proposal!Command
  <2>1. ASSUME NEW cmd \in Proposal!Commands, Proposal!Begin(cmd) PROVE Proposal!IInv'
    BY <2>1, BeginInv
  <2>2. CASE Proposal!ExactBase \/ Proposal!CleanStart
    BY <2>2, StartChecks
  <2>3. CASE Proposal!Tool \/ Proposal!Update \/ Proposal!SetVersion
    BY <2>3, PrepareWrites
  <2>4. CASE Proposal!Derived \/ Proposal!Subset \/ Proposal!Dirty \/ Proposal!StillOnBase
    BY <2>4, PrepareChecks
  <2>5. CASE Proposal!Committed \/ Proposal!OneCommit \/ Proposal!Signed
    BY <2>5, CommitChecks
  <2>6. CASE Proposal!ReadMain
    BY <2>6, ReadMainInv
  <2>7. CASE Proposal!Paths \/ Proposal!Content
    BY <2>7, LastChecks
  <2>8. CASE Proposal!WriteTemporary \/ Proposal!Persist \/ Proposal!Activated
    BY <2>8, ActivateWrites
  <2>9. CASE Proposal!Fail \/ Proposal!Kill
    BY <2>9, StopInv
  <2> QED
    BY <1>1, <2>1, <2>2, <2>3, <2>4, <2>5, <2>6, <2>7, <2>8, <2>9 DEF Proposal!Command
<1>2. CASE \/ Proposal!Edit
           \/ \E s \in Proposal!Signatures, d \in BOOLEAN : Proposal!Commit(s, d)
           \/ \E name \in {"release", "activate"} : Proposal!Reset(name)
  BY <1>2, MaintainerInv
<1>3. CASE Proposal!Fetch
  BY <1>3, FetchInv
<1>4. CASE Proposal!MergeOthers
  BY <1>4, MergeOthersInv
<1>5. CASE Proposal!Push
  BY <1>5, PushInv
<1>6. CASE Proposal!Merge
  BY <1>6, MergedInv
<1> QED
  BY <1>1, <1>2, <1>3, <1>4, <1>5, <1>6 DEF Proposal!Next

(* In every reachable state the invariant holds of a proposal.             *)
LEMMA ProposalInvariant ==
  CommandsSpec => [](subject = "proposal" => Proposal!IInv)
<1> DEFINE Inv == subject = "proposal" => Proposal!IInv
<1>1. CommandsInit => Inv
  BY ProposalBegins DEF CommandsInit
<1>2. Inv /\ [CommandsNext]_<<subject, proposalVars, lineVars>> => Inv'
  <2> SUFFICES ASSUME Inv, [CommandsNext]_<<subject, proposalVars, lineVars>>,
                      subject' = "proposal"
               PROVE  Proposal!IInv'
    OBVIOUS
  <2>1. subject = "proposal" /\ Proposal!IInv
    BY DEF CommandsNext
  <2>2. Proposal!Next \/ UNCHANGED proposalVars
    BY <2>1 DEF CommandsNext
  <2> QED
    BY <2>1, <2>2, ProposalStep, ProposalRests
<1> HIDE DEF Inv
<1>3. CommandsSpec => []Inv
  BY <1>1, <1>2, PTL DEF CommandsSpec
<1> QED
  BY <1>3 DEF Inv

(* What a command that succeeded has done is what it says: prepare changed *)
(* the manifest and the changelog and nothing of an earlier call is in the *)
(* worktree, whichever files release-plz edited on the way; what check     *)
(* accepts is one commit of those two files on the very base it stands on; *)
(* activate changed the version alone, and one that failed or was killed   *)
(* left what it found, the version set or, when killed, a file beside the  *)
(* manifest (release.rs: prepare, check, activate).                        *)
THEOREM CommandsAreExact == CommandsSpec => []CommandsExact
<1>1. ASSUME Proposal!IInv PROVE Proposal!PreparedExactly
  <2> SUFFICES ASSUME call.cmd = "prepare", call.step = "ok"
               PROVE  /\ Proposal!Changed(wt, Proposal!HeadTree) = Proposal!ReleasePaths
                      /\ wt.manifest = "sel" /\ Proposal!Headings(wt) = 1
                      /\ call.start = Proposal!HeadTree
    BY DEF Proposal!PreparedExactly, Proposal!At
  <2>1. call.start = Proposal!Base /\ Proposal!HeadTree = Proposal!Base
    BY <1>1, Started, StageFacts
  <2>2. wt.other = Proposal!Base.other /\ wt.new = {} /\ Proposal!Released(wt)
    BY <1>1, StageFacts DEF Proposal!IInv, Proposal!PathsInv
  <2>3. /\ Proposal!Base.manifest # "sel" /\ Proposal!Base.changelog \notin {"sel", "empty"}
        /\ Proposal!Base.new = {}
    BY <1>1, TreesTyped DEF Proposal!BaseTrees
  <2>4. Proposal!Changed(wt, Proposal!Base) = Proposal!ReleasePaths
    BY <2>2, <2>3 DEF Proposal!Changed, Proposal!Files, Proposal!ReleasePaths,
                      Proposal!Released
  <2> QED
    BY <2>1, <2>2, <2>4 DEF Proposal!Released, Proposal!Headings
<1>2. ASSUME Proposal!IInv PROVE Proposal!CheckedExactly
  <2> SUFFICES ASSUME call.cmd = "check", call.step = "ok"
               PROVE  /\ Len(head.own) = 1 /\ head.base = call.main
                      /\ Proposal!Changed(Proposal!HeadTree, upstream[head.base])
                           = Proposal!ReleasePaths
                      /\ head.own[1].tree.manifest = "sel"
                      /\ Proposal!Headings(head.own[1].tree) = 1
    BY DEF Proposal!CheckedExactly, Proposal!At
  <2>1. wt = Proposal!HeadTree /\ Len(head.own) = 1 /\ head.base = call.main
    BY <1>2, StageFacts DEF Proposal!IInv, Proposal!CheckInv
  <2>2. wt.other = Proposal!Base.other /\ wt.new = {} /\ Proposal!Released(wt)
    BY <1>2, StageFacts DEF Proposal!IInv, Proposal!PathsInv
  <2>3. /\ Proposal!Base.manifest # "sel" /\ Proposal!Base.changelog \notin {"sel", "empty"}
        /\ Proposal!Base.new = {}
    BY <1>2, TreesTyped DEF Proposal!BaseTrees
  <2>4. Proposal!Changed(wt, Proposal!Base) = Proposal!ReleasePaths
    BY <2>2, <2>3 DEF Proposal!Changed, Proposal!Files, Proposal!ReleasePaths,
                      Proposal!Released
  <2>5. head.own # <<>>
    BY <1>2, <2>1, <2>2, <2>3, TreesTyped DEF Proposal!Released
  <2>6. wt = head.own[1].tree
    BY <2>1, <2>5 DEF Proposal!HeadTree
  <2> QED
    BY <2>1, <2>2, <2>4, <2>6 DEF Proposal!Released, Proposal!Headings, Proposal!Base
<1>3. ASSUME Proposal!IInv PROVE Proposal!ActivatedExactly
  <2> SUFFICES ASSUME call.cmd = "activate"
               PROVE  /\ call.step = "ok" => wt = [Proposal!HeadTree EXCEPT !.manifest = "stub"]
                      /\ call.step = "failed" => wt \in Proposal!Left
                      /\ call.step = "killed" =>
                           wt \in Proposal!Left \cup {[call.start EXCEPT !.new = {"temporary"}]}
    BY DEF Proposal!ActivatedExactly, Proposal!Left
  <2>1. ASSUME call.step = "ok" PROVE call.start = Proposal!HeadTree
    BY <1>3, <2>1, Started, StageFacts
  <2> QED
    BY <1>3, <2>1 DEF Proposal!IInv, Proposal!ActivateInv
<1>4. (subject = "proposal" => Proposal!IInv) => CommandsExact
  BY <1>1, <1>2, <1>3 DEF CommandsExact, Proposal!IInv
<1> QED
  BY <1>4, ProposalInvariant, PTL

(* A source that qualifies differs from the base before it in the version, *)
(* which is the selected one, and in the changelog, whose section of that  *)
(* version has text, and it is the tree of the one commit of its pull      *)
(* request (validate_release_head, validate_commit, release_body).         *)
THEOREM QualifiedSourceIsTheProposal == CommandsSpec => []QualifiedIsTheProposal
<1>1. ASSUME Proposal!IInv PROVE Proposal!QualifiedIsTheProposal
  <2> DEFINE before == upstream[merged.index - 1]
             tree   == upstream[merged.index]
  <2> SUFFICES ASSUME merged # Proposal!None, Proposal!Qualifies(merged)
               PROVE  /\ tree = [before EXCEPT !.manifest = "sel", !.changelog = tree.changelog]
                      /\ tree.changelog \in {"sel", "apart"}
                      /\ tree = merged.pull.own[1].tree
                      /\ merged.pull.from = merged.index - 1
    BY DEF Proposal!QualifiedIsTheProposal
  <2>1. Proposal!HeadMerged(merged) /\ tree.manifest = "sel"
        /\ Proposal!Changed(tree, before) = Proposal!ReleasePaths
        /\ tree.changelog \in {"sel", "apart"}
    BY DEF Proposal!Qualifies, Proposal!PathsModified, Proposal!ReleaseBody
  <2>2. tree = merged.pull.own[1].tree /\ merged.pull.from = merged.index - 1
    BY <2>1 DEF Proposal!HeadMerged
  <2>3. merged.index \in DOMAIN upstream /\ merged.index - 1 \in DOMAIN upstream
    <3>1. /\ merged.index \in DOMAIN upstream /\ merged.pull = pull
          /\ pull.from \in DOMAIN upstream
      BY <1>1 DEF Proposal!IInv, Proposal!PullInv
    <3> QED
      BY <2>2, <3>1
  <2>4. before \in Proposal!Trees /\ tree \in Proposal!Trees
    BY <1>1, <2>3, TreesTyped
  <2>5. tree.other = before.other /\ tree.new = before.new
    BY <2>1 DEF Proposal!Changed, Proposal!Files, Proposal!ReleasePaths
  <2> HIDE DEF before, tree
  <2>6. tree = [before EXCEPT !.manifest = "sel", !.changelog = tree.changelog]
    BY <2>1, <2>4, <2>5 DEF Proposal!Trees
  <2> QED
    BY <2>1, <2>2, <2>6
<1>2. (subject = "proposal" => Proposal!IInv) => QualifiedIsTheProposal
  BY <1>1 DEF QualifiedIsTheProposal
<1> QED
  BY <1>2, ProposalInvariant, PTL

(* What check accepted qualifies once it is merged if, and only if, the    *)
(* base has not moved, the maintainer's key signed it, the section of the  *)
(* changelog has text and the squash kept the sign-off: what check does    *)
(* not look at is what qualification may still refuse (check, qualify).    *)
THEOREM CheckedSourceQualifies == CommandsSpec => []CheckedQualifies
<1>1. ASSUME Proposal!IInv PROVE Proposal!CheckedQualifies
  <2> DEFINE commit == pull.own[1]
             before == upstream[pull.from]
             tree   == upstream[merged.index]
             OnBase == pull.from = merged.index - 1
             Text   == commit.signature = "ssh" /\ commit.tree.changelog # "empty"
  <2> SUFFICES ASSUME merged # Proposal!None, merged.pull.checked
               PROVE  Proposal!Qualifies(merged) <=> OnBase /\ Text /\ merged.dco
    <3>1. merged # Proposal!None => merged.pull = pull
      BY <1>1 DEF Proposal!IInv, Proposal!PullInv
    <3> QED
      BY <3>1 DEF Proposal!CheckedQualifies
  <2>1. /\ pull # Proposal!None /\ merged.pull = pull
        /\ merged.index \in DOMAIN upstream /\ pull.base < merged.index
        /\ pull.from \in DOMAIN upstream /\ pull.base \in DOMAIN upstream
        /\ pull.from <= pull.base
        /\ merged.index - 1 = pull.from =>
             upstream[merged.index] = pull.own[Len(pull.own)].tree
    BY <1>1 DEF Proposal!IInv, Proposal!PullInv
  <2>2. Len(pull.own) = 1 /\ Proposal!Proven(commit, before)
    BY <1>1, <2>1 DEF Proposal!IInv, Proposal!PullInv
  <2>3. pull.own[Len(pull.own)] = commit
    BY <2>2
  <2>4. OnBase => pull.from = pull.base /\ merged.index - 1 = pull.base /\ tree = commit.tree
    <3>1. DOMAIN upstream = 1..Len(upstream)
      BY <1>1, TreesTyped
    <3> QED
      BY <2>1, <2>3, <3>1
  <2>5. Proposal!HeadMerged(merged) => OnBase /\ tree = commit.tree
    BY <2>1 DEF Proposal!HeadMerged
  <2>6. OnBase => Proposal!HeadMerged(merged)
    BY <2>1, <2>2, <2>4 DEF Proposal!HeadMerged
  <2>7. commit.tree.manifest = "sel" /\ commit.tree.changelog \in {"sel", "empty"}
        /\ commit.tree.other # "bad"
        /\ Proposal!Changed(commit.tree, before) = Proposal!ReleasePaths
        /\ Proposal!SignedOff(commit)
    BY <2>2 DEF Proposal!Proven, Proposal!Released
  <2> HIDE DEF commit, before, tree
  <2>8. /\ Proposal!HeadVerified(commit) /\ Proposal!ByMaintainer(commit) <=>
             commit.signature = "ssh"
    BY <2>7 DEF Proposal!HeadVerified, Proposal!ByMaintainer, Proposal!SignedOff
  <2>9. ASSUME Proposal!Qualifies(merged) PROVE OnBase /\ Text /\ merged.dco
    <3>1. /\ Proposal!HeadMerged(merged) /\ merged.dco
          /\ Proposal!HeadVerified(commit) /\ Proposal!ByMaintainer(commit)
          /\ Proposal!ReleaseBody(tree)
      BY <2>1, <2>3, <2>9 DEF Proposal!Qualifies, tree
    <3>2. OnBase /\ tree = commit.tree
      BY <2>5, <3>1
    <3>3. commit.tree.changelog # "empty"
      BY <3>1, <3>2 DEF Proposal!ReleaseBody
    <3> HIDE DEF OnBase
    <3> QED
      BY <2>8, <3>1, <3>2, <3>3
  <2>10. ASSUME OnBase, Text, merged.dco PROVE Proposal!Qualifies(merged)
    <3>1. tree = commit.tree /\ Proposal!HeadMerged(merged)
      BY <2>4, <2>6, <2>10
    <3>2. /\ Proposal!ConfigExact(tree) /\ tree.manifest = "sel"
          /\ Proposal!PathsModified(tree, before) /\ Proposal!PathsModified(commit.tree, before)
          /\ Proposal!ReleaseBody(tree)
      BY <2>7, <2>10, <3>1 DEF Proposal!ConfigExact, Proposal!PathsModified,
                               Proposal!ReleaseBody
    <3>3. Proposal!HeadVerified(commit) /\ Proposal!ByMaintainer(commit)
      BY <2>8, <2>10
    <3>4. upstream[merged.index - 1] = before /\ upstream[merged.pull.from] = before
      BY <2>1, <2>10 DEF before
    <3> HIDE DEF OnBase, Text
    <3> QED
      BY <2>1, <2>3, <2>10, <3>1, <3>2, <3>3, <3>4 DEF Proposal!Qualifies, tree
  <2> HIDE DEF OnBase, Text
  <2> QED
    BY <2>9, <2>10
<1>2. (subject = "proposal" => Proposal!IInv) => CheckedQualifies
  BY <1>1 DEF CheckedQualifies
<1> QED
  BY <1>2, ProposalInvariant, PTL

-----------------------------------------------------------------------------
(***************************************************************************)
(* The releases of a line.                                                 *)
(***************************************************************************)
(* What a version is made of.                                              *)
LEMMA VersionShape ==
  ASSUME NEW v \in Line!Versions
  PROVE  /\ v.patch \in 0..MaxPatch /\ v.rc \in Nat /\ v.kind \in Line!Kinds
         /\ v = Line!V(v.patch, v.kind, v.rc)
         /\ v.kind # "rc" => v.rc = 0
         /\ Line!Rank[v.kind] \in 0..3
<1>1. CASE v \in {Line!V(p, "rc", k) : p \in 0..MaxPatch, k \in 0..MaxRc}
  <2>1. PICK p \in 0..MaxPatch, k \in 0..MaxRc : v = Line!V(p, "rc", k)
    BY <1>1
  <2> QED
    BY <2>1 DEF Line!V, Line!Kinds, Line!Rank
<1>2. CASE v \in {Line!V(p, kind, 0) : p \in 0..MaxPatch, kind \in Line!Kinds \ {"rc"}}
  <2>1. PICK p \in 0..MaxPatch, kind \in Line!Kinds \ {"rc"} : v = Line!V(p, kind, 0)
    BY <1>2
  <2> QED
    BY <2>1 DEF Line!V, Line!Kinds, Line!Rank
<1> QED
  BY <1>1, <1>2 DEF Line!Versions

(* The kinds of versions have the order of their ranks.                    *)
LEMMA Ranks ==
  /\ Line!Kinds = {"beta", "rc", "stable", "build"}
  /\ Line!Rank["beta"] = 0 /\ Line!Rank["rc"] = 1 /\ Line!Rank["stable"] = 2
  /\ Line!Rank["build"] = 3
  /\ \A a, b \in Line!Kinds : Line!Rank[a] = Line!Rank[b] => a = b
BY DEF Line!Kinds, Line!Rank

(* Before is a total order.                                                *)
LEMMA Ordered ==
  ASSUME NEW u \in Line!Versions, NEW v \in Line!Versions
  PROVE  /\ ~Line!Before(u, u) /\ ~(Line!Before(u, v) /\ Line!Before(v, u))
         /\ u = v \/ Line!Before(u, v) \/ Line!Before(v, u)
<1> DEFINE a == Line!Rank[u.kind]
           b == Line!Rank[v.kind]
<1>1. /\ u.patch \in Nat /\ u.rc \in Nat /\ v.patch \in Nat /\ v.rc \in Nat
      /\ a \in Nat /\ b \in Nat
  BY VersionShape
<1>2. a = b => u.kind = v.kind
  BY VersionShape, Ranks
<1>3. u.patch = v.patch /\ u.kind = v.kind /\ u.rc = v.rc => u = v
  BY VersionShape
<1>4. Line!Before(u, v) <=> \/ u.patch < v.patch
                            \/ u.patch = v.patch /\ a < b
                            \/ u.patch = v.patch /\ u.kind = v.kind /\ u.rc < v.rc
  BY DEF Line!Before
<1>5. Line!Before(v, u) <=> \/ v.patch < u.patch
                            \/ v.patch = u.patch /\ b < a
                            \/ v.patch = u.patch /\ v.kind = u.kind /\ v.rc < u.rc
  BY DEF Line!Before
<1>6. ~Line!Before(u, u)
  BY <1>1 DEF Line!Before
<1>7. u.kind = v.kind => a = b
  OBVIOUS
<1> HIDE DEF a, b
<1> QED
  BY <1>1, <1>2, <1>3, <1>4, <1>5, <1>6, <1>7

LEMMA Transitive ==
  ASSUME NEW u \in Line!Versions, NEW v \in Line!Versions, NEW w \in Line!Versions,
         Line!NotAfter(u, v), Line!NotAfter(v, w)
  PROVE  Line!NotAfter(u, w)
<1>1. CASE u = v \/ v = w
  BY <1>1 DEF Line!NotAfter
<1>2. CASE Line!Before(u, v) /\ Line!Before(v, w)
  <2> DEFINE a == Line!Rank[u.kind]
             b == Line!Rank[v.kind]
             c == Line!Rank[w.kind]
  <2>1. /\ u.patch \in Nat /\ u.rc \in Nat /\ v.patch \in Nat /\ v.rc \in Nat
        /\ w.patch \in Nat /\ w.rc \in Nat /\ a \in Nat /\ b \in Nat /\ c \in Nat
    BY VersionShape
  <2>2. /\ u.kind = v.kind => a = b
        /\ v.kind = w.kind => b = c
    OBVIOUS
  <2>3. /\ \/ u.patch < v.patch
           \/ u.patch = v.patch /\ a < b
           \/ u.patch = v.patch /\ u.kind = v.kind /\ u.rc < v.rc
        /\ \/ v.patch < w.patch
           \/ v.patch = w.patch /\ b < c
           \/ v.patch = w.patch /\ v.kind = w.kind /\ v.rc < w.rc
    BY <1>2 DEF Line!Before
  <2> HIDE DEF a, b, c
  <2>4. \/ u.patch < w.patch
        \/ u.patch = w.patch /\ a < c
        \/ u.patch = w.patch /\ u.kind = w.kind /\ u.rc < w.rc
    BY <2>1, <2>2, <2>3
  <2> QED
    BY <2>4 DEF a, c, Line!Before, Line!NotAfter
<1> QED
  BY <1>1, <1>2 DEF Line!NotAfter

(* A set that has a greatest version still has one when one more is added. *)
LEMMA PeakGrows ==
  ASSUME NEW S \in SUBSET Line!Versions, NEW v \in Line!Versions, Line!Peak(S)
  PROVE  Line!Peak(S \cup {v})
<1>1. CASE S = {}
  BY <1>1 DEF Line!Peak, Line!NotAfter
<1>2. CASE S # {}
  <2>1. PICK top \in S : \A w \in S : Line!NotAfter(w, top)
    BY <1>2 DEF Line!Peak
  <2>2. CASE Line!NotAfter(v, top)
    BY <2>1, <2>2 DEF Line!Peak
  <2>3. CASE ~Line!NotAfter(v, top)
    <3>1. Line!NotAfter(top, v)
      BY <2>3, Ordered DEF Line!NotAfter
    <3>2. \A w \in S : Line!NotAfter(w, v)
      BY <2>1, <3>1, Transitive
    <3> QED
      BY <3>2 DEF Line!Peak, Line!NotAfter
  <2> QED
    BY <2>2, <2>3
<1> QED
  BY <1>1, <1>2

(* The greatest of such a set is in it and follows all others.             *)
LEMMA GreatestIs ==
  ASSUME NEW S \in SUBSET Line!Versions, S # {}, Line!Peak(S)
  PROVE  /\ Line!Greatest(S) \in S
         /\ \A w \in S : Line!NotAfter(w, Line!Greatest(S))
<1>1. \E v \in S : \A w \in S : v = w \/ Line!Before(w, v)
  BY DEF Line!Peak, Line!NotAfter
<1> QED
  BY <1>1 DEF Line!Greatest, Line!NotAfter

(* An adjusted version follows the one it replaces                         *)
(* (require_exact_version_adjustment).                                     *)
LEMMA AdjustmentAdvances ==
  ASSUME NEW original \in Line!Versions, NEW derived \in Line!Versions,
         NEW selected \in Line!Versions,
         Line!RequireAdjustment(original, derived, selected)
  PROVE  Line!Before(original, selected)
<1>1. /\ original.patch \in Nat /\ original.rc \in Nat /\ selected.patch \in Nat
      /\ selected.rc \in Nat /\ derived.patch \in Nat
  BY VersionShape
<1>2. CASE \/ original.kind = "rc" /\ original.rc = 0 /\ derived = original
              /\ Line!Before(original, selected)
           \/ Line!Before(original, selected) /\ Line!Before(selected, derived)
  BY <1>2
<1>3. CASE /\ derived.patch = selected.patch /\ original.kind = "rc" /\ derived = original
           /\ selected.kind = "rc" /\ selected.rc = original.rc + 1
  BY <1>1, <1>3 DEF Line!Before
<1>4. CASE /\ original.kind \in {"beta", "rc"} /\ selected.kind \notin {"beta", "rc"}
           /\ original.patch = selected.patch
  <2>1. selected.kind \in {"stable", "build"}
    BY <1>4, VersionShape, Ranks
  <2>2. Line!Rank[original.kind] < Line!Rank[selected.kind]
    BY <1>4, <2>1, Ranks
  <2> QED
    BY <1>4, <2>2 DEF Line!Before
<1>5. CASE selected = Line!V(original.patch + 1, "rc", 1)
  <2>1. selected.patch = original.patch + 1
    BY <1>5 DEF Line!V
  <2> QED
    BY <1>1, <2>1 DEF Line!Before
<1> QED
  BY <1>2, <1>3, <1>4, <1>5 DEF Line!RequireAdjustment

(* What the invariant says of the line, as the steps below use it.         *)
LEMMA LineTyped ==
  ASSUME Line!IInv
  PROVE  /\ line \in Seq(Line!Versions) /\ Len(line) \in 1..MaxCommits
         /\ DOMAIN line = 1..Len(line) /\ Line!Tip \in DOMAIN line /\ Line!Tip = Len(line)
         /\ \A i \in DOMAIN line : line[i] \in Line!Versions
         /\ crates \subseteq Line!Versions /\ tags \subseteq crates /\ clone \subseteq tags
         /\ publication = Line!None \/
              publication \in [stage : {"approve", "publish", "finalize"},
                               source : 1..Len(line), version : Line!Versions]
<1>1. /\ line \in Seq(Line!Versions) /\ Len(line) \in 1..MaxCommits
      /\ crates \subseteq Line!Versions /\ tags \subseteq crates /\ clone \subseteq tags
      /\ publication = Line!None \/
           publication \in [stage : {"approve", "publish", "finalize"},
                            source : 1..Len(line), version : Line!Versions]
  BY DEF Line!IInv, Line!TypeOK
<1>2. DOMAIN line = 1..Len(line) /\ \A i \in DOMAIN line : line[i] \in Line!Versions
  BY <1>1
<1>3. Line!Tip = Len(line) /\ Line!Tip \in DOMAIN line
  BY <1>1, <1>2, ProgressionAssumption DEF Line!Tip
<1> QED
  BY <1>1, <1>2, <1>3

LEMMA BaselineIsVersion == Line!Baseline \in Line!Versions
BY ProgressionAssumption DEF Line!Baseline, Line!Versions, Line!Kinds, Line!V

(* A maintainer fetches the tags, or prepares a release: it does not go    *)
(* back behind what the manifest has (prepare).                            *)
LEMMA ClonesInv ==
  ASSUME Line!IInv, Line!Fetch \/ \E v \in Line!Versions : Line!Prepare(v)
  PROVE  Line!IInv'
<1>1. UNCHANGED <<line, crates, tags, publication>>
  BY DEF Line!Fetch, Line!Prepare
<1>2. CASE Line!Fetch
  <2>1. clone' = tags /\ proposal' = proposal
    BY <1>2 DEF Line!Fetch
  <2>2. Line!TypeOK' /\ Line!LineInv' /\ Line!NoPatchSkipped'
    BY <1>1, <2>1 DEF Line!IInv, Line!TypeOK, Line!LineInv, Line!NoPatchSkipped,
                      Line!NotAfter
  <2>3. Line!CratesInv'
    BY <1>1, <2>1, LineTyped DEF Line!IInv, Line!CratesInv
  <2>4. Line!PeaksInv'
    BY <1>1, <2>1 DEF Line!IInv, Line!PeaksInv
  <2>5. Line!RunInv'
    BY <1>1 DEF Line!IInv, Line!RunInv
  <2> QED
    BY <2>2, <2>3, <2>4, <2>5 DEF Line!IInv
<1>3. ASSUME NEW selected \in Line!Versions, Line!Prepare(selected) PROVE Line!IInv'
  <2> DEFINE new == [version |-> selected, base |-> Line!Tip]
  <2>1. /\ Line!Tip < MaxCommits /\ proposal' = proposal \cup {new} /\ clone' = clone
        /\ \E derived \in Line!Derived(line[Line!Tip]) :
             derived = selected \/ Line!RequireAdjustment(line[Line!Tip], derived, selected)
    BY <1>3 DEF Line!Prepare
  <2>2. Line!NotAfter(line[Line!Tip], selected)
    <3> DEFINE original == line[Line!Tip]
    <3>1. original \in Line!Versions
      BY LineTyped
    <3> HIDE DEF original
    <3>2. PICK derived \in Line!Versions :
            /\ ~Line!Before(derived, original)
            /\ derived = selected \/ Line!RequireAdjustment(original, derived, selected)
      BY <2>1 DEF Line!Derived, original
    <3>3. CASE derived = selected
      BY <3>1, <3>2, <3>3, Ordered DEF Line!NotAfter, original
    <3>4. CASE Line!RequireAdjustment(original, derived, selected)
      BY <3>1, <3>2, <3>4, AdjustmentAdvances DEF Line!NotAfter, original
    <3> QED
      BY <3>2, <3>3, <3>4
  <2>3. Line!TypeOK'
    <3>1. new \in [version : Line!Versions, base : 1..MaxCommits]
      BY LineTyped, ProgressionAssumption
    <3> QED
      BY <1>1, <2>1, <3>1 DEF Line!IInv, Line!TypeOK
  <2>4. Line!LineInv'
    <3>1. \A p \in proposal' : /\ p.base \in DOMAIN line /\ p.base < MaxCommits
                               /\ Line!NotAfter(line[p.base], p.version)
      <4>1. \A p \in proposal : /\ p.base \in DOMAIN line /\ p.base < MaxCommits
                                /\ Line!NotAfter(line[p.base], p.version)
        BY DEF Line!IInv, Line!LineInv
      <4>2. new.base = Line!Tip /\ new.version = selected
        OBVIOUS
      <4> HIDE DEF new
      <4> QED
        BY <2>1, <2>2, <4>1, <4>2, LineTyped
    <3> QED
      BY <1>1, <3>1 DEF Line!IInv, Line!LineInv, Line!NotAfter
  <2>5. Line!CratesInv' /\ Line!NoPatchSkipped' /\ Line!PeaksInv' /\ Line!RunInv'
    BY <1>1, <2>1 DEF Line!IInv, Line!CratesInv, Line!NoPatchSkipped, Line!PeaksInv,
                      Line!RunInv
  <2> QED
    BY <2>3, <2>4, <2>5 DEF Line!IInv
<1> QED
  BY <1>2, <1>3

(* A release is committed to the line at its tip.                          *)
LEMMA ReleaseMerged ==
  ASSUME Line!IInv, NEW p \in proposal, Line!Merge(p)
  PROVE  Line!IInv'
<1>1. /\ p.base = Line!Tip /\ line' = Append(line, p.version) /\ proposal' = proposal \ {p}
      /\ UNCHANGED <<crates, tags, clone, publication>>
  BY DEF Line!Merge
<1>2. /\ p.version \in Line!Versions /\ p.base < MaxCommits
      /\ Line!NotAfter(line[Line!Tip], p.version)
  BY <1>1 DEF Line!IInv, Line!TypeOK, Line!LineInv
<1>3. /\ line' \in Seq(Line!Versions) /\ Len(line') = Len(line) + 1
      /\ DOMAIN line' = 1..Len(line') /\ line'[Len(line')] = p.version
      /\ \A i \in DOMAIN line : i \in DOMAIN line' /\ line'[i] = line[i]
      /\ \A i \in DOMAIN line' : i \in DOMAIN line \/ i = Len(line')
  BY <1>1, <1>2, LineTyped
<1>4. Line!TypeOK'
  <2>1. Len(line') \in 1..MaxCommits
    BY <1>1, <1>2, <1>3, LineTyped, ProgressionAssumption
  <2>2. publication = Line!None \/
          publication \in [stage : {"approve", "publish", "finalize"},
                           source : 1..Len(line'), version : Line!Versions]
    <3>1. 1..Len(line) \subseteq 1..Len(line')
      BY <1>3, LineTyped
    <3> QED
      BY <3>1, LineTyped
  <2> QED
    BY <1>1, <1>3, <2>1, <2>2 DEF Line!IInv, Line!TypeOK
<1>5. Line!LineInv'
  <2>1. ASSUME NEW i \in DOMAIN line', NEW j \in DOMAIN line', i <= j
        PROVE  Line!NotAfter(line'[i], line'[j])
    <3>1. CASE i \in DOMAIN line /\ j \in DOMAIN line
      BY <1>3, <2>1, <3>1 DEF Line!IInv, Line!LineInv
    <3>2. CASE i \in DOMAIN line /\ j = Len(line')
      <4>1. Line!NotAfter(line[i], line[Line!Tip])
        BY <3>2, LineTyped DEF Line!IInv, Line!LineInv
      <4>2. Line!NotAfter(line[i], p.version)
        BY <1>2, <3>2, <4>1, LineTyped, Transitive
      <4> QED
        BY <1>3, <3>2, <4>2
    <3>3. CASE i = Len(line')
      <4>1. j = i
        BY <1>3, <2>1, <3>3, LineTyped
      <4> QED
        BY <4>1 DEF Line!NotAfter
    <3> QED
      BY <1>3, <3>1, <3>2, <3>3
  <2>2. \A q \in proposal' : /\ q.base \in DOMAIN line' /\ q.base < MaxCommits
                             /\ Line!NotAfter(line'[q.base], q.version)
    BY <1>1, <1>3 DEF Line!IInv, Line!LineInv
  <2> QED
    BY <2>1, <2>2 DEF Line!LineInv, Line!NotAfter
<1>6. Line!CratesInv'
  BY <1>1, <1>3 DEF Line!IInv, Line!CratesInv
<1>7. Line!NoPatchSkipped' /\ Line!PeaksInv'
  BY <1>1 DEF Line!IInv, Line!NoPatchSkipped, Line!PeaksInv
<1>8. Line!RunInv'
  <2>1. publication # Line!None => publication.source \in DOMAIN line
    BY LineTyped
  <2> QED
    BY <1>1, <1>3, <2>1 DEF Line!IInv, Line!RunInv
<1> QED
  BY <1>4, <1>5, <1>6, <1>7, <1>8 DEF Line!IInv

(* What is on the line precedes its tip, and so does what is published.    *)
LEMMA TipIsLast ==
  ASSUME Line!IInv, NEW w \in crates
  PROVE  Line!NotAfter(w, line[Line!Tip])
<1>1. PICK i \in DOMAIN line : w = line[i]
  BY DEF Line!IInv, Line!CratesInv
<1> QED
  BY <1>1, LineTyped DEF Line!IInv, Line!LineInv

(* A run begins, at any source of the line or at one that is published, is *)
(* approved while its source is the tip, or stops (Binding::verify,        *)
(* require_fresh_progression).                                             *)
LEMMA RunSteps ==
  ASSUME Line!IInv,
         \/ Line!Approved \/ Line!Stop
         \/ \E s \in 1..Line!Tip : Line!Dispatch(s) \/ Line!Recover(s)
  PROVE  Line!IInv'
<1>1. UNCHANGED <<line, crates, tags, clone, proposal>>
  BY DEF Line!Approved, Line!Stop, Line!Dispatch, Line!Recover
<1>2. ASSUME publication' = Line!None \/
               publication' \in [stage : {"approve", "publish", "finalize"},
                                 source : 1..Len(line), version : Line!Versions],
             Line!RunInv'
      PROVE  Line!IInv'
  <2>1. Line!TypeOK'
    BY <1>1, <1>2 DEF Line!IInv, Line!TypeOK
  <2>2. Line!LineInv' /\ Line!CratesInv' /\ Line!NoPatchSkipped' /\ Line!PeaksInv'
    BY <1>1 DEF Line!IInv, Line!LineInv, Line!CratesInv, Line!NoPatchSkipped, Line!PeaksInv,
                Line!NotAfter
  <2> QED
    BY <1>2, <2>1, <2>2 DEF Line!IInv
<1>3. CASE Line!Approved
  <2>1. /\ publication.stage = "approve" /\ publication.source = Line!Tip
        /\ Line!RequireAdvancement(publication.version, tags)
        /\ publication' = [publication EXCEPT !.stage = "publish"]
    BY <1>3 DEF Line!Approved, Line!AtTip, Line!Fresh
  <2>2. /\ publication \in [stage : {"approve", "publish", "finalize"},
                            source : 1..Len(line), version : Line!Versions]
        /\ publication # Line!None
    BY <2>1, LineTyped DEF Line!None
  <2>3. /\ publication' \in [stage : {"approve", "publish", "finalize"},
                             source : 1..Len(line), version : Line!Versions]
        /\ publication'.version = publication.version
        /\ publication'.source = publication.source
    BY <2>1, <2>2
  <2>4. publication.version = line[Line!Tip]
    BY <2>1, <2>2 DEF Line!IInv, Line!RunInv
  <2>5. \A w \in crates : Line!NotAfter(w, publication.version)
    BY <2>4, TipIsLast
  <2>6. Line!RunInv'
    <3>1. publication'.version = line'[publication'.source]
      BY <1>1, <2>1, <2>3, <2>4
    <3>2. \A w \in crates' : Line!NotAfter(w, publication'.version)
      BY <1>1, <2>3, <2>5
    <3> QED
      BY <1>1, <2>1, <2>3, <3>1, <3>2 DEF Line!RunInv
  <2> QED
    BY <1>2, <2>3, <2>6
<1>4. CASE Line!Stop
  <2>1. publication' = Line!None
    BY <1>4 DEF Line!Stop
  <2>2. Line!RunInv'
    BY <2>1 DEF Line!RunInv, Line!None
  <2> QED
    BY <1>2, <2>1, <2>2
<1>5. ASSUME NEW s \in 1..Line!Tip, Line!Dispatch(s) \/ Line!Recover(s) PROVE Line!IInv'
  <2>1. \E stage \in {"approve", "finalize"} :
          publication' = [stage |-> stage, source |-> s, version |-> line[s]]
    BY <1>5 DEF Line!Dispatch, Line!Recover, Line!Running
  <2>2. s \in 1..Len(line) /\ line[s] \in Line!Versions
    BY LineTyped
  <2>3. Line!RunInv'
    BY <1>1, <2>1 DEF Line!RunInv
  <2> QED
    BY <1>2, <2>1, <2>2, <2>3
<1> QED
  BY <1>3, <1>4, <1>5

(* A version the policy admits is of the kind that is published, on the    *)
(* patch after the greatest stable release that is tagged                  *)
(* (require_advancement).                                                  *)
LEMMA Admitted ==
  ASSUME Line!IInv, NEW known \in {tags, clone}, NEW v \in Line!Versions,
         Line!RequireAdvancement(v, known)
  PROVE  /\ Line!Sound(v) /\ v.patch > 0
         /\ Line!V(v.patch - 1, "stable", 0) \in known
<1> DEFINE top == Line!Greatest(Line!Stables(known))
<1>1. /\ v.kind # "build" /\ v.patch = top.patch + 1
      /\ v.kind # "stable" => v.kind = "rc" /\ v.rc > 0
      /\ Line!Stables(known) # {}
  BY DEF Line!RequireAdvancement
<1>2. /\ Line!Stables(known) \in SUBSET Line!Versions /\ Line!Peak(Line!Stables(known))
  BY LineTyped DEF Line!IInv, Line!PeaksInv, Line!Stables
<1>3. top \in Line!Stables(known)
  BY <1>1, <1>2, GreatestIs
<1>4. top \in known /\ top.kind = "stable" /\ top \in Line!Versions
  BY <1>2, <1>3 DEF Line!Stables
<1> HIDE DEF top
<1>5. /\ top.patch \in Nat /\ v.patch \in Nat
      /\ top = Line!V(top.patch, "stable", 0)
  <2>1. top.rc = 0 /\ top = Line!V(top.patch, top.kind, top.rc)
    BY <1>4, VersionShape
  <2> QED
    BY <1>4, <2>1, VersionShape
<1>6. v.patch > 0 /\ v.patch - 1 = top.patch
  BY <1>1, <1>5
<1> QED
  BY <1>1, <1>4, <1>5, <1>6 DEF Line!Sound

(* The crate is published.                                                 *)
LEMMA CratePublished ==
  ASSUME Line!IInv, Line!Publish
  PROVE  Line!IInv'
<1> DEFINE v == publication.version
<1>1. /\ publication.stage = "publish" /\ crates' = crates \cup {v}
      /\ publication' = [publication EXCEPT !.stage = "finalize"]
      /\ UNCHANGED <<line, tags, clone, proposal>>
  BY DEF Line!Publish
<1>2. /\ publication \in [stage : {"approve", "publish", "finalize"},
                          source : 1..Len(line), version : Line!Versions]
      /\ publication # Line!None
  BY <1>1, LineTyped DEF Line!None
<1>3. /\ publication' \in [stage : {"approve", "publish", "finalize"},
                           source : 1..Len(line), version : Line!Versions]
      /\ publication'.stage = "finalize" /\ publication'.version = v
      /\ publication'.source = publication.source
  BY <1>1, <1>2
<1>4. /\ v = line[publication.source] /\ Line!RequireAdvancement(v, tags)
      /\ v \in Line!Versions /\ publication.source \in DOMAIN line
  BY <1>1, <1>2, LineTyped DEF Line!IInv, Line!RunInv
<1> HIDE DEF v
<1>5. /\ Line!Sound(v) /\ v.patch > 0
      /\ Line!V(v.patch - 1, "stable", 0) \in tags
  BY <1>4, Admitted
<1>6. Line!TypeOK'
  BY <1>1, <1>3, <1>4 DEF Line!IInv, Line!TypeOK
<1>7. Line!LineInv' /\ Line!PeaksInv'
  BY <1>1 DEF Line!IInv, Line!LineInv, Line!PeaksInv, Line!NotAfter
<1>8. Line!CratesInv'
  BY <1>1, <1>4, <1>5 DEF Line!IInv, Line!CratesInv
<1>9. Line!NoPatchSkipped'
  BY <1>1, <1>5, LineTyped DEF Line!IInv, Line!NoPatchSkipped
<1>10. Line!RunInv'
  BY <1>1, <1>3, <1>4 DEF Line!RunInv
<1> QED
  BY <1>6, <1>7, <1>8, <1>9, <1>10 DEF Line!IInv

(* The tag is made, the newest or one that a recovery adds below it.       *)
LEMMA TagMade ==
  ASSUME Line!IInv, Line!Finalize
  PROVE  Line!IInv'
<1> DEFINE v == publication.version
<1>1. /\ v \in crates /\ tags' = tags \cup {v} /\ publication' = Line!None
      /\ UNCHANGED <<line, crates, clone, proposal>>
  BY DEF Line!Finalize
<1> HIDE DEF v
<1>2. v \in Line!Versions
  BY <1>1, LineTyped
<1>3. Line!TypeOK'
  BY <1>1 DEF Line!IInv, Line!TypeOK
<1>4. Line!LineInv' /\ Line!CratesInv' /\ Line!NoPatchSkipped'
  BY <1>1 DEF Line!IInv, Line!LineInv, Line!CratesInv, Line!NoPatchSkipped, Line!NotAfter
<1>5. Line!RunInv'
  BY <1>1 DEF Line!RunInv, Line!None
<1>6. Line!Peak(Line!Stables(tags'))
  <2>1. Line!Stables(tags) \in SUBSET Line!Versions /\ Line!Peak(Line!Stables(tags))
    BY LineTyped DEF Line!IInv, Line!PeaksInv, Line!Stables
  <2>2. Line!Stables(tags') \in {Line!Stables(tags), Line!Stables(tags) \cup {v}}
    BY <1>1 DEF Line!Stables
  <2> QED
    BY <1>2, <2>1, <2>2, PeakGrows
<1>7. ASSUME NEW patch \in 0..MaxPatch PROVE Line!Peak(Line!Rivals(tags', patch))
  <2>1. /\ Line!Rivals(tags, patch) \in SUBSET Line!Versions
        /\ Line!Peak(Line!Rivals(tags, patch))
    BY LineTyped DEF Line!IInv, Line!PeaksInv, Line!Rivals
  <2>2. Line!Rivals(tags', patch) \in
          {Line!Rivals(tags, patch), Line!Rivals(tags, patch) \cup {v}}
    BY <1>1 DEF Line!Rivals
  <2> QED
    BY <1>2, <2>1, <2>2, PeakGrows
<1>8. Line!PeaksInv'
  BY <1>1, <1>6, <1>7 DEF Line!IInv, Line!PeaksInv
<1> QED
  BY <1>3, <1>4, <1>5, <1>8 DEF Line!IInv

(* A line begins at its anchor.                                            *)
LEMMA LineBegins ==
  ASSUME Line!Init
  PROVE  Line!IInv
<1>1. /\ line = <<Line!Baseline>> /\ crates = {Line!Baseline} /\ tags = {Line!Baseline}
      /\ clone = {Line!Baseline} /\ proposal = {} /\ publication = Line!None
  BY DEF Line!Init
<1>2. line \in Seq(Line!Versions) /\ Len(line) = 1 /\ DOMAIN line = {1} /\ line[1] = Line!Baseline
  BY <1>1, BaselineIsVersion
<1>3. Line!TypeOK
  BY <1>1, <1>2, BaselineIsVersion, ProgressionAssumption DEF Line!TypeOK
<1>4. Line!LineInv
  BY <1>1, <1>2 DEF Line!LineInv, Line!NotAfter
<1>5. Line!CratesInv
  BY <1>1, <1>2 DEF Line!CratesInv, Line!Sound, Line!Baseline, Line!V
<1>6. Line!NoPatchSkipped /\ Line!RunInv
  BY <1>1 DEF Line!NoPatchSkipped, Line!RunInv, Line!None
<1>7. Line!PeaksInv
  BY <1>1 DEF Line!PeaksInv, Line!Peak, Line!Stables, Line!Rivals, Line!NotAfter
<1> QED
  BY <1>3, <1>4, <1>5, <1>6, <1>7 DEF Line!IInv

LEMMA LineStep ==
  ASSUME Line!IInv, Line!Next \/ UNCHANGED lineVars
  PROVE  Line!IInv'
<1>1. CASE Line!Next
  <2>1. CASE Line!Fetch \/ \E v \in Line!Versions : Line!Prepare(v)
    BY <2>1, ClonesInv
  <2>2. CASE \E p \in proposal : Line!Merge(p)
    BY <2>2, ReleaseMerged
  <2>3. CASE \/ Line!Approved \/ Line!Stop
             \/ \E s \in 1..Line!Tip : Line!Dispatch(s) \/ Line!Recover(s)
    BY <2>3, RunSteps
  <2>4. CASE Line!Publish
    BY <2>4, CratePublished
  <2>5. CASE Line!Finalize
    BY <2>5, TagMade
  <2> QED
    BY <1>1, <2>1, <2>2, <2>3, <2>4, <2>5 DEF Line!Next
<1>2. CASE UNCHANGED lineVars
  BY <1>2 DEF lineVars, Line!IInv, Line!TypeOK, Line!LineInv, Line!CratesInv,
              Line!NoPatchSkipped, Line!PeaksInv, Line!RunInv, Line!NotAfter
<1> QED
  BY <1>1, <1>2

(* In every reachable state the invariant holds of the line.               *)
LEMMA LineInvariant == CommandsSpec => []Line!IInv
<1>1. CommandsInit => Line!IInv
  BY LineBegins DEF CommandsInit
<1>2. Line!IInv /\ [CommandsNext]_<<subject, proposalVars, lineVars>> => Line!IInv'
  BY LineStep DEF CommandsNext
<1> QED
  BY <1>1, <1>2, PTL DEF CommandsSpec

(* The versions the policy admits are the next patch and its next          *)
(* candidate, whatever tags are known (require_advancement): a candidate   *)
(* follows all known ones of its patch by one because the greatest of them *)
(* is a candidate too.                                                     *)
LEMMA SuccessorsAreAdmitted ==
  ASSUME Line!IInv
  PROVE  Line!AdmitsSuccessors
<1> SUFFICES ASSUME NEW known \in {tags, clone}, NEW v \in Line!Versions
             PROVE  Line!RequireAdvancement(v, known) <=>
                      LET top == Line!Greatest(Line!Stables(known)).patch
                          rcs == {w.rc : w \in {u \in known : u.patch = top + 1}}
                      IN /\ v.patch = top + 1
                         /\ \/ v.kind = "stable"
                            \/ v.kind = "rc" /\ v.rc > 0 /\ \A k \in rcs : k < v.rc
                                 /\ (rcs # {} => v.rc - 1 \in rcs)
  BY DEF Line!AdmitsSuccessors
<1> DEFINE top    == Line!Greatest(Line!Stables(known)).patch
           rcs    == {w.rc : w \in {u \in known : u.patch = top + 1}}
           rivals == {u \in known : u.patch = v.patch}
           newest == Line!Greatest(rivals)
           AfterAll  == /\ v.kind = "rc" /\ v.rc > 0
                        /\ \A k \in rcs : k < v.rc /\ (rcs # {} => v.rc - 1 \in rcs)
           AfterLast == /\ v.kind = "rc" /\ v.rc > 0
                        /\ rivals # {} =>
                             newest.kind = "rc" /\ newest.rc > 0 /\ v.rc = newest.rc + 1
<1>1. known \subseteq crates /\ known \subseteq Line!Versions /\ Line!Baseline \in known
  BY LineTyped DEF Line!IInv, Line!CratesInv
<1>2. \A w \in known : Line!Sound(w) /\ w \in Line!Versions /\ w.rc \in Nat /\ w.patch \in Nat
  BY <1>1, VersionShape DEF Line!IInv, Line!CratesInv
<1>3. /\ Line!Stables(known) # {} /\ Line!Stables(known) \in SUBSET Line!Versions
      /\ Line!Peak(Line!Stables(known))
  <2>1. Line!Baseline \in Line!Stables(known)
    BY <1>1 DEF Line!Stables, Line!Baseline, Line!V
  <2> QED
    BY <1>1, <2>1 DEF Line!IInv, Line!PeaksInv, Line!Stables
<1>4. top \in Nat /\ \A w \in known : w.kind = "stable" => w.patch <= top
  <2> DEFINE g == Line!Greatest(Line!Stables(known))
  <2>1. g \in Line!Stables(known) /\ \A w \in Line!Stables(known) : Line!NotAfter(w, g)
    BY <1>3, GreatestIs
  <2>2. g \in known
    BY <2>1 DEF Line!Stables
  <2> HIDE DEF g
  <2>3. g.patch \in Nat
    BY <1>2, <2>2
  <2>4. ASSUME NEW w \in known, w.kind = "stable" PROVE w.patch <= g.patch
    <3>1. w = g \/ Line!Before(w, g)
      BY <2>1, <2>4 DEF Line!Stables, Line!NotAfter
    <3> QED
      BY <1>2, <2>2, <3>1 DEF Line!Before
  <2> QED
    BY <2>3, <2>4 DEF g
<1>5. v.patch \in 0..MaxPatch /\ v.patch \in Nat /\ v.rc \in Nat
  BY VersionShape, ProgressionAssumption
<1> HIDE DEF top
<1>6. ASSUME v.patch = top + 1
      PROVE  /\ \A w \in rivals : w.kind = "rc" /\ w.rc > 0 /\ w.rc \in Nat /\ w \in known
             /\ rcs = {w.rc : w \in rivals}
             /\ rivals # {} => newest \in rivals /\ \A w \in rivals : w.rc <= newest.rc
  <2>1. \A w \in rivals : w.kind = "rc" /\ w.rc > 0 /\ w.rc \in Nat /\ w \in known
    BY <1>2, <1>4, <1>6 DEF Line!Sound
  <2>2. rcs = {w.rc : w \in rivals}
    BY <1>6
  <2>3. ASSUME rivals # {} PROVE newest \in rivals /\ \A w \in rivals : w.rc <= newest.rc
    <3>1. rivals \in SUBSET Line!Versions /\ Line!Peak(rivals)
      BY <1>1, <1>5 DEF Line!IInv, Line!PeaksInv, Line!Rivals
    <3> HIDE DEF rivals
    <3>2. newest \in rivals /\ \A w \in rivals : Line!NotAfter(w, newest)
      BY <2>3, <3>1, GreatestIs
    <3>3. newest.kind = "rc" /\ newest.rc \in Nat /\ newest.patch = v.patch
      BY <2>1, <3>2 DEF rivals
    <3> HIDE DEF newest
    <3>4. ASSUME NEW w \in rivals PROVE w.rc <= newest.rc
      <4>1. w = newest \/ Line!Before(w, newest)
        BY <3>2 DEF Line!NotAfter
      <4>2. w.kind = "rc" /\ w.patch = v.patch /\ w.rc \in Nat
        BY <2>1 DEF rivals
      <4> QED
        BY <1>5, <3>3, <4>1, <4>2, Ranks DEF Line!Before
    <3> QED
      BY <3>2, <3>4
  <2> QED
    BY <2>1, <2>2, <2>3
<1>7. ASSUME v.patch = top + 1, v.kind = "stable" PROVE v \notin known
  BY <1>4, <1>7
<1>8. ASSUME v.patch = top + 1, v.kind = "rc", v \in known PROVE ~AfterAll /\ ~AfterLast
  <2>1. v \in rivals /\ v.rc \in rcs /\ ~(v.rc < v.rc)
    BY <1>5, <1>6, <1>8
  <2>2. v.rc <= newest.rc /\ newest.rc \in Nat
    BY <1>6, <1>8, <2>1
  <2>3. ~AfterAll
    BY <2>1
  <2>4. v.rc # newest.rc + 1
    BY <1>5, <2>2
  <2> QED
    BY <2>1, <2>3, <2>4
<1>9. ASSUME v.patch = top + 1 PROVE AfterAll <=> AfterLast
  <2>1. CASE rivals = {}
    <3>1. rcs = {}
      BY <1>6, <1>9, <2>1
    <3> QED
      BY <2>1, <3>1
  <2>2. CASE rivals # {}
    <3>1. /\ newest \in rivals /\ newest.kind = "rc" /\ newest.rc > 0 /\ newest.rc \in Nat
          /\ \A w \in rivals : w.rc <= newest.rc /\ w.rc \in Nat
          /\ rcs = {w.rc : w \in rivals}
      BY <1>6, <1>9, <2>2
    <3>2. /\ rcs # {} /\ newest.rc \in rcs
          /\ \A k \in rcs : k \in Nat /\ k <= newest.rc
      BY <2>2, <3>1
    <3> HIDE DEF rcs, newest, rivals
    <3>3. ASSUME AfterAll PROVE v.rc = newest.rc + 1
      <4>1. newest.rc < v.rc /\ v.rc - 1 \in rcs
        BY <3>2, <3>3
      <4>2. v.rc - 1 <= newest.rc
        BY <3>2, <4>1
      <4> QED
        BY <1>5, <3>1, <4>1, <4>2
    <3>4. ASSUME v.rc = newest.rc + 1
          PROVE  v.rc - 1 \in rcs /\ \A k \in rcs : k < v.rc
      <4>1. v.rc - 1 = newest.rc
        BY <1>5, <3>1, <3>4
      <4>2. \A k \in rcs : k < v.rc
        BY <1>5, <3>1, <3>2, <3>4
      <4> QED
        BY <3>2, <4>1, <4>2
    <3> QED
      BY <2>2, <3>1, <3>3, <3>4
  <2> QED
    BY <2>1, <2>2
<1>10. Line!RequireAdvancement(v, known) <=>
         v.patch = top + 1 /\ v \notin known /\ (v.kind = "stable" \/ AfterLast)
  BY <1>3 DEF Line!RequireAdvancement, top
<1> HIDE DEF rcs, rivals, newest, AfterAll, AfterLast
<1>11. Line!RequireAdvancement(v, known) <=>
         v.patch = top + 1 /\ (v.kind = "stable" \/ AfterAll)
  <2>1. AfterAll => v.kind = "rc"
    BY DEF AfterAll
  <2>2. AfterLast => v.kind = "rc"
    BY DEF AfterLast
  <2> QED
    BY <1>7, <1>8, <1>9, <1>10, <2>1, <2>2
<1> QED
  BY <1>11 DEF AfterAll, rcs, top

(* The versions of a line reach crates.io in their order and skip no patch,*)
(* and the policy admits the next ones alone (require_advancement,         *)
(* Binding::verify): a run is approved at the tip, which no version of the *)
(* line follows, and none can be published by another run before this one  *)
(* is done.                                                                *)
THEOREM LinesAdvance == CommandsSpec => LineAdvances
<1>1. Line!IInv /\ [CommandsNext]_<<subject, proposalVars, lineVars>> =>
        [\A v \in crates' \ crates : \A w \in crates : Line!Before(w, v)]_lineVars
  <2> SUFFICES ASSUME Line!IInv, [CommandsNext]_<<subject, proposalVars, lineVars>>,
                      NEW v \in crates' \ crates, NEW w \in crates
               PROVE  Line!Before(w, v)
    OBVIOUS
  <2>1. Line!Publish
    BY DEF CommandsNext, lineVars, proposalVars, Line!Next, Line!Fetch, Line!Approved,
           Line!Finalize, Line!Stop, Line!Prepare, Line!Merge, Line!Dispatch, Line!Recover
  <2>2. publication.stage = "publish" /\ v = publication.version
    BY <2>1 DEF Line!Publish
  <2>3. Line!NotAfter(w, v)
    BY <2>2 DEF Line!IInv, Line!RunInv
  <2> QED
    BY <2>3 DEF Line!NotAfter
<1>2. Line!IInv =>
        (subject = "line" => Line!TypeOK /\ Line!NoPatchSkipped /\ Line!AdmitsSuccessors)
  BY SuccessorsAreAdmitted DEF Line!IInv
<1> QED
  BY <1>1, <1>2, LineInvariant, PTL
     DEF CommandsSpec, LineAdvances, Line!PublishedInOrder, Line!vars, lineVars
=============================================================================

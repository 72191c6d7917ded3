-------------------------- MODULE ReleaseProgression --------------------------
(***************************************************************************)
(* Versions on one support line: which version a maintainer may select     *)
(* (ReleaseLine::require_advancement in src/xtask/src/release_policy.rs,   *)
(* release_base::validate_version, require_exact_version_adjustment in     *)
(* src/xtask/src/release.rs) and which one a publication may publish       *)
(* (support::require_fresh_progression, and the binding to the tip).       *)
(*                                                                         *)
(* A maintainer's clone knows the tags of some earlier moment.  A release  *)
(* is committed to the line, then published by a run that may stop at any  *)
(* point, after which the crate can be published and its tag missing.      *)
(* Runs follow one another (publish.yml, concurrency).                     *)
(***************************************************************************)
EXTENDS Naturals, Sequences, FiniteSets

CONSTANTS
  MaxPatch,   \* bound: patches of the line
  MaxRc,      \* bound: ordinals of release candidates
  MaxCommits  \* bound: release commits on the line

\* A version of the line: its patch and what follows it.  "rc" has an ordinal,
\* "beta" stands for any other prerelease, "build" for build metadata.
Kinds == {"beta", "rc", "stable", "build"}
Rank == [beta |-> 0, rc |-> 1, stable |-> 2, build |-> 3]
V(patch, kind, rc) == [patch |-> patch, kind |-> kind, rc |-> rc]
Versions ==
  {V(p, "rc", k) : p \in 0..MaxPatch, k \in 0..MaxRc}
  \cup {V(p, kind, 0) : p \in 0..MaxPatch, kind \in Kinds \ {"rc"}}

\* The order of semantic versions.
Before(v, w) ==
  \/ v.patch < w.patch
  \/ v.patch = w.patch /\ Rank[v.kind] < Rank[w.kind]
  \/ v.patch = w.patch /\ v.kind = w.kind /\ v.rc < w.rc
Greatest(S) == CHOOSE v \in S : \A w \in S : v = w \/ Before(w, v)

VARIABLES
  line,      \* the releases committed to the line, in order
  crates,    \* the versions on crates.io
  tags,      \* the versions with an annotated tag
  clone,     \* the tags the maintainer's clone has
  proposal,  \* the proposed releases: [version, base]
  run        \* the publication run: [stage, source, version]

vars == <<line, crates, tags, clone, proposal, run>>

None == [stage |-> "none"]
Running(stage, source) ==
  [stage |-> stage, source |-> source, version |-> line[source]]
Baseline == V(0, "stable", 0)

TypeOK ==
  /\ line \in Seq(Versions) /\ Len(line) \in 1..MaxCommits
  /\ crates \subseteq Versions /\ tags \subseteq crates /\ clone \subseteq tags
  /\ proposal \subseteq [version : Versions, base : 1..MaxCommits]
  /\ run = None \/ run \in [stage : {"approve", "publish", "finalize"},
                           source : 1..Len(line), version : Versions]

\* The line begins at its anchor, a published stable release.
Init ==
  /\ line = <<Baseline>>
  /\ crates = {Baseline} /\ tags = {Baseline} /\ clone = {Baseline}
  /\ proposal = {} /\ run = None

-----------------------------------------------------------------------------
(***************************************************************************)
(* The policy.                                                             *)
(***************************************************************************)
Stables(published) == {v \in published : v.kind = "stable"}

\* ReleaseLine::require_advancement.
RequireAdvancement(selected, published) ==
  LET rivals == {v \in published : v.patch = selected.patch}
  IN /\ selected.kind # "build"
     /\ Stables(published) # {}
     /\ selected.patch = Greatest(Stables(published)).patch + 1
     /\ selected \notin published
     /\ selected.kind # "stable" =>
          /\ selected.kind = "rc" /\ selected.rc > 0
          /\ rivals # {} => LET last == Greatest(rivals)
                            IN /\ last.kind = "rc" /\ last.rc > 0
                               /\ selected.rc = last.rc + 1

\* require_exact_version_adjustment, for a selected version on the line.
RequireAdjustment(original, derived, selected) ==
  LET sameCore == derived.patch = selected.patch
      real     == selected.kind = "rc" /\ selected.rc > 0
      pre(v)   == v.kind \in {"beta", "rc"}
      plain(v) == ~pre(v)
      firstReal ==
        /\ original.kind = "rc" /\ original.rc = 0 /\ derived = original
        /\ Before(original, selected) /\ (plain(selected) \/ real)
      nextRc ==
        /\ original.kind = "rc" /\ original.rc > 0 /\ derived = original
        /\ selected.kind = "rc" /\ selected.rc = original.rc + 1
      promotion ==
        /\ pre(original) /\ plain(selected) /\ original.patch = selected.patch
        /\ pre(derived) /\ ~Before(derived, original) /\ Before(derived, selected)
      newPrerelease ==
        /\ plain(original) /\ pre(selected) /\ plain(derived)
        /\ Before(original, selected) /\ Before(selected, derived)
      nextPatch ==
        /\ original.kind = "stable" /\ derived = original
        /\ selected = V(original.patch + 1, "rc", 1)
  IN \/ sameCore /\ (firstReal \/ nextRc \/ promotion \/ newPrerelease)
     \/ nextPatch

-----------------------------------------------------------------------------
(***************************************************************************)
(* The maintainers.                                                        *)
(***************************************************************************)
Tip == Len(line)

Fetch ==
  /\ clone' = tags
  /\ UNCHANGED <<line, crates, tags, proposal, run>>

\* What release-plz update makes of a manifest is not less than it was.
Derived(original) == {d \in Versions : ~Before(d, original)}

\* release prepare and check, and the review of the proposal.
Prepare(selected) ==
  /\ Tip < MaxCommits
  /\ RequireAdvancement(selected, clone)
  /\ ~(selected.kind = "rc" /\ selected.rc = 0)
  /\ \E derived \in Derived(line[Tip]) :
       derived = selected \/ RequireAdjustment(line[Tip], derived, selected)
  /\ proposal' = proposal \cup {[version |-> selected, base |-> Tip]}
  /\ UNCHANGED <<line, crates, tags, clone, run>>

\* A proposal is one commit on the tip, or it is not merged.
Merge(p) ==
  /\ p.base = Tip
  /\ line' = Append(line, p.version)
  /\ proposal' = proposal \ {p}
  /\ UNCHANGED <<crates, tags, clone, run>>

-----------------------------------------------------------------------------
(***************************************************************************)
(* The publication run.                                                    *)
(***************************************************************************)
\* Mutant of AtTip: any source of the line may be published.
AnySource(source) == TRUE

\* Binding::verify: a fresh operation has the tip as its source.
AtTip(source) == source = Tip

\* support::require_fresh_progression reads the tags anew.
Fresh(version) == RequireAdvancement(version, tags)

\* qualify, mode Release.
Dispatch(source) ==
  /\ run = None
  /\ AtTip(source) /\ Fresh(line[source])
  /\ line[source] \notin crates
  /\ run' = Running("approve", source)
  /\ UNCHANGED <<line, crates, tags, clone, proposal>>

\* qualify, mode Publish, after the approval.
Approved ==
  /\ run.stage = "approve"
  /\ AtTip(run.source) /\ Fresh(run.version)
  /\ run' = [run EXCEPT !.stage = "publish"]
  /\ UNCHANGED <<line, crates, tags, clone, proposal>>

\* release-plz release: what is on crates.io is left alone.
Publish ==
  /\ run.stage = "publish"
  /\ crates' = crates \cup {run.version}
  /\ run' = [run EXCEPT !.stage = "finalize"]
  /\ UNCHANGED <<line, tags, clone, proposal>>

\* await_publication and finalize.
Finalize ==
  /\ run.stage = "finalize" /\ run.version \in crates
  /\ tags' = tags \cup {run.version} /\ run' = None
  /\ UNCHANGED <<line, crates, clone, proposal>>

\* A run fails, is cancelled or is not approved.
Stop ==
  /\ run # None /\ run' = None
  /\ UNCHANGED <<line, crates, tags, clone, proposal>>

\* qualify, mode Recover: an older source whose crate is published.
Recover(source) ==
  /\ run = None /\ line[source] \in crates
  /\ run' = Running("finalize", source)
  /\ UNCHANGED <<line, crates, tags, clone, proposal>>

Next ==
  \/ Fetch \/ Approved \/ Publish \/ Finalize \/ Stop
  \/ \E v \in Versions : Prepare(v)
  \/ \E p \in proposal : Merge(p)
  \/ \E s \in 1..Tip : Dispatch(s) \/ Recover(s)

Spec == Init /\ [][Next]_vars

-----------------------------------------------------------------------------
(***************************************************************************)
(* Properties.                                                             *)
(***************************************************************************)
\* A version is published after all that precede it on its line and never
\* after one that follows it, although progression is checked against tags,
\* which a stopped run leaves behind the registry, and clones are stale
\* (require_advancement, require_exact_version_adjustment, Binding::verify).
PublishedInOrder ==
  [][\A v \in crates' \ crates : \A w \in crates : Before(w, v)]_vars

\* No patch is skipped: what is published of a patch stands on the published
\* stable release of the patch before (require_advancement, the line's base).
NoPatchSkipped ==
  \A v \in crates \ {Baseline} :
    v.patch > 0 /\ V(v.patch - 1, "stable", 0) \in crates

\* The policy means what RELEASING.md says of a selection: whatever set of
\* tags a line that came into being this way has, the versions admitted are
\* the next patch, and the next ordinal of it or the first one of any number.
AdmitsSuccessors ==
  \A known \in {tags, clone} : \A v \in Versions :
    RequireAdvancement(v, known) <=>
      LET top  == Greatest(Stables(known)).patch
          rcs  == {w.rc : w \in {u \in known : u.patch = top + 1}}
      IN /\ v.patch = top + 1
         /\ \/ v.kind = "stable"
            \/ v.kind = "rc" /\ v.rc > 0 /\ \A k \in rcs : k < v.rc
                 /\ (rcs # {} => v.rc - 1 \in rcs)

-----------------------------------------------------------------------------
(***************************************************************************)
(* The invariant by which these are proved.                                *)
(***************************************************************************)
NotAfter(v, w) == v = w \/ Before(v, w)

\* The line goes forward, and so does what is proposed for it.
LineInv ==
  /\ \A i, j \in DOMAIN line : i <= j => NotAfter(line[i], line[j])
  /\ \A p \in proposal : /\ p.base \in DOMAIN line /\ p.base < MaxCommits
                         /\ NotAfter(line[p.base], p.version)

\* What is published is of the line: candidates from the first on, and stables.
Sound(v) == v.kind = "stable" \/ (v.kind = "rc" /\ v.rc > 0)
CratesInv ==
  /\ \A v \in crates : Sound(v) /\ \E i \in DOMAIN line : v = line[i]
  /\ Baseline \in clone

\* What the policy looks for among the tags is there.
Rivals(published, patch) == {v \in published : v.patch = patch}
Peak(S) == S # {} => \E v \in S : \A w \in S : NotAfter(w, v)
PeaksInv ==
  \A known \in {tags, clone} :
    /\ Peak(Stables(known))
    /\ \A patch \in 0..MaxPatch : Peak(Rivals(known, patch))

\* What is about to be published follows all that is, by the tags as they are.
RunInv ==
  /\ run # None => run.version = line[run.source]
  /\ run.stage = "publish" =>
       /\ RequireAdvancement(run.version, tags)
       /\ \A w \in crates : NotAfter(w, run.version)

IInv == TypeOK /\ LineInv /\ CratesInv /\ NoPatchSkipped /\ PeaksInv /\ RunInv
=============================================================================

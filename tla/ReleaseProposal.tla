---------------------------- MODULE ReleaseProposal ----------------------------
(***************************************************************************)
(* The proposal of a release: cargo xtask release activate, prepare and    *)
(* check (src/xtask/src/release.rs) in a maintainer's clone, the pull      *)
(* request that carries the commit, and what qualification later demands   *)
(* of the merged source (validate_release_head, validate_commit and the    *)
(* signature checks of src/xtask/src/github.rs).                           *)
(*                                                                         *)
(* Every Git read of a command is a step of its own: the remote base moves *)
(* and the clone fetches it between any two of them.  Maintainers edit,    *)
(* commit and reset between commands.  A command may be killed at any      *)
(* step.  release-plz may leave any edits, also when it fails.             *)
(***************************************************************************)
EXTENDS Naturals, Sequences, FiniteSets

CONSTANTS
  MaxUpstream,  \* bound: commits of the base
  MaxWork,      \* bound: commands, edits, commits and resets before the push
  MaxOwn        \* bound: the maintainer's commits on top of the base

\* A tree: the version in the manifest ("stub" is rc.0, "near" another version
\* of the selected one's core, "else" any other that is not asked for), the
\* changelog by its headings of the selected version ("sel" and "empty" have
\* one, above a section with and without text; "twice" has two in a row, "apart"
\* two with another heading and text between them), everything else, and the
\* files the base has not.
Manifests  == {"old", "stub", "near", "sel", "else"}
Changelogs == {"old", "sel", "empty", "twice", "apart", "else"}
NewFiles   == {"extra", "temporary"}
Others     == {"old", "mine", "theirs", "bad"}
Trees == [manifest : Manifests, changelog : Changelogs, other : Others, new : SUBSET NewFiles]
Files == {"manifest", "changelog", "other", "new"}

ReleasePaths    == {"manifest", "changelog"}
ActivationPaths == {"manifest"}

\* ssh, gpg: the maintainer's, verified by GitHub; unknown: SSH, of a key that
\* GitHub does not know; other: SSH and verified, of another signer, account,
\* author or address.
Signatures == {"none", "ssh", "gpg", "unknown", "other"}
Commits == [tree : Trees, signature : Signatures, dco : BOOLEAN]
Commands == {"activate", "prepare", "check"}

VARIABLES
  upstream,  \* the trees of the base's commits
  tracking,  \* refs/remotes/origin/...: the commit of the base last fetched
  branch,    \* the branch checked out: the release's or the activation's
  head,      \* HEAD: the base commit it stands on and the commits above it
  wt,        \* the worktree
  call,      \* the command that runs, or the result of the last one
  pull,      \* the pull request
  merged,    \* the merged pull request
  work       \* counts towards MaxWork

vars == <<upstream, tracking, branch, head, wt, call, pull, merged, work>>

Changed(a, b) == {f \in Files : a[f] # b[f]}
Headings(tree) == CASE tree.changelog \in {"sel", "empty"} -> 1
                    [] tree.changelog \in {"twice", "apart"} -> 2
                    [] OTHER -> 0
HeadTree == IF head.own = <<>> THEN upstream[head.base] ELSE head.own[Len(head.own)].tree
None == [cmd |-> "none", step |-> "idle"]

TypeOK ==
  /\ upstream \in Seq(Trees) /\ Len(upstream) \in 1..MaxUpstream
  /\ tracking \in head.base..Len(upstream)
  /\ branch \in {"release", "activate"}
  /\ head.own \in Seq(Commits) /\ Len(head.own) <= MaxOwn
  /\ wt \in Trees
  /\ call = None \/ (call.cmd \in Commands /\ call.main <= tracking)
  /\ pull # None => Len(pull.own) > 0 /\ pull.base <= Len(upstream)
  /\ merged # None => merged.index <= Len(upstream)
  /\ work \in 0..MaxWork

Init ==
  /\ \E manifest \in {"old", "stub"} :
       upstream = <<[manifest |-> manifest, changelog |-> "old", other |-> "old", new |-> {}]>>
  /\ tracking = 1 /\ branch = "release"
  /\ head = [base |-> 1, own |-> <<>>] /\ wt = upstream[1]
  /\ call = None /\ pull = None /\ merged = None /\ work = 0

-----------------------------------------------------------------------------
(***************************************************************************)
(* Commands: where one stands, and its reads.                              *)
(***************************************************************************)
Idle == call.step \in {"idle", "ok", "failed", "killed"}
At(cmd, step) == call.cmd = cmd /\ call.step = step
Goto(step) == call' = [call EXCEPT !.step = step]
Require(condition, step) == Goto(IF condition THEN step ELSE "failed")
Spend == pull = None /\ work < MaxWork /\ work' = work + 1

Read == UNCHANGED <<upstream, tracking, branch, head, wt, pull, merged, work>>
Write(tree) ==
  /\ wt' = tree
  /\ UNCHANGED <<upstream, tracking, branch, head, pull, merged, work>>

\* resolve: without --base-ref the base must be an ancestor of HEAD.
Resolves(explicit) == explicit \/ tracking <= head.base

\* The branch named for the command and its version.
OwnBranch(cmd) == IF cmd = "activate" THEN "activate" ELSE "release"

\* run, require_branch, require_activation_branch, activation_version.
Begin(cmd) ==
  /\ Idle /\ Spend
  /\ \E explicit \in BOOLEAN :
       LET admitted == /\ branch = OwnBranch(cmd)
                       /\ cmd # "activate" => Resolves(explicit)
                       /\ cmd = "activate" => wt.manifest # "stub"
       IN call' = [cmd |-> cmd, step |-> IF admitted THEN "begun" ELSE "failed",
                   original |-> wt.manifest, main |-> 0, start |-> wt]
  /\ UNCHANGED <<upstream, tracking, branch, head, wt, pull, merged>>

\* A child that does not run, fails or answers what cannot be read, or a version
\* that is refused for its numbers, which a tree does not keep.
Fail ==
  /\ ~Idle /\ call.step # "temporary" /\ Goto("failed") /\ Read

\* The command is killed; nothing is undone.
Kill ==
  /\ ~Idle /\ Goto("killed") /\ Read

-----------------------------------------------------------------------------
(***************************************************************************)
(* Checks of prepare and activate.                                         *)
(***************************************************************************)
OnTracking == head.own = <<>> /\ head.base = tracking

\* require_exact_git_state, its first read.
ExactBase ==
  /\ ~Idle /\ call.cmd # "check" /\ call.step = "begun"
  /\ Require(OnTracking, "clean") /\ Read

\* Mutant of CleanStart: what is in the worktree is left to the check of paths.
AnyStart ==
  /\ ~Idle /\ call.cmd # "check" /\ call.step = "clean"
  /\ Goto("tool") /\ Read

\* require_exact_git_state, clean_start.
CleanStart ==
  /\ ~Idle /\ call.cmd # "check" /\ call.step = "clean"
  /\ Require(wt = HeadTree, "tool") /\ Read

\* require_release_plz, and the version before the update.
Tool ==
  /\ At("prepare", "tool")
  /\ call' = [call EXCEPT !.step = "update", !.original = wt.manifest] /\ Read

\* release-plz edits all, some or none of the two files, and maybe another file
\* or a new one, and then succeeds or fails.
Elsewhere(tree) == {tree, [tree EXCEPT !.other = "mine"], [tree EXCEPT !.new = @ \cup {"extra"}]}
ReleasePlz(next) ==
  \E m \in {wt.manifest, "near", "sel", "else"}, c \in {wt.changelog, "sel", "empty", "twice"},
    rest \in Elsewhere(wt), step \in {next, "failed"} :
    Goto(step) /\ Write([rest EXCEPT !.manifest = m, !.changelog = c])

Update == At("prepare", "update") /\ ReleasePlz("derived")

\* require_exact_version_adjustment: an unchanged version may be adjusted (rc.0,
\* a candidate, the stable version before the next patch) and a changed one of
\* the selected core (a promotion, a first prerelease).  Which of these the
\* numbers allow is in ReleaseProgression; here the others end in Fail.
Adjustable(original, derived) == derived \in {original, "near"}

\* prepare, after the update.
Derived ==
  /\ At("prepare", "derived")
  /\ IF wt.manifest = "sel" THEN Goto("dirty")
     ELSE Require(Adjustable(call.original, wt.manifest), "subset")
  /\ Read

\* release_changed_paths: against the remote-tracking ref as it is now.
ChangedPaths == Changed(wt, upstream[tracking])

\* require_release_path_subset.
Subset ==
  /\ At("prepare", "subset")
  /\ Require(ChangedPaths \subseteq ReleasePaths, "set") /\ Read

\* apply_exact_version, release-plz set-version: what it wrote is judged by the
\* checks that follow.
SetVersion == At("prepare", "set") /\ ReleasePlz("dirty")

\* require_release_changes, of a worktree.
Dirty ==
  /\ At("prepare", "dirty") /\ Require(wt # HeadTree, "base") /\ Read
StillOnBase ==
  /\ At("prepare", "base") /\ Require(OnTracking, "paths") /\ Read

-----------------------------------------------------------------------------
(***************************************************************************)
(* Checks of check.                                                        *)
(***************************************************************************)
\* require_release_changes, accept_committed.
Committed ==
  /\ At("check", "begun") /\ Require(wt = HeadTree, "main") /\ Read

\* require_one_signed_commit: the base, the count of commits above it, HEAD^.
ReadMain ==
  /\ At("check", "main")
  /\ call' = [call EXCEPT !.step = "count", !.main = tracking] /\ Read
Above == Len(head.own) + (IF head.base > tracking THEN head.base - tracking ELSE 0)

OneCommit ==
  /\ At("check", "count")
  /\ Require(Above = 1 /\ Len(head.own) = 1 /\ head.base = call.main, "signed") /\ Read

Signed ==
  /\ At("check", "signed")
  /\ LET commit == head.own[Len(head.own)]
     IN Require(commit.signature \in {"ssh", "unknown", "other"} /\ commit.dco, "paths")
  /\ Read

\* require_release_changes: both files and nothing else.
Paths ==
  /\ ~Idle /\ call.cmd # "activate" /\ call.step = "paths"
  /\ Require(ChangedPaths = ReleasePaths, "content") /\ Read

\* check_manifest: the exact release-plz configuration, one publishable library.
ConfigExact(tree) == tree.other # "bad"

\* validate_changelog.
ChangelogExact(tree) == Headings(tree) = 1

\* package_content::run: Cargo's list of the package is the inventory.
PackageExact(tree) == tree.new = {}

\* validate_release_content, and check's inventory of the package.
Content ==
  /\ ~Idle /\ call.cmd # "activate" /\ call.step = "content"
  /\ Require(/\ ConfigExact(wt) /\ wt.manifest = "sel" /\ ChangelogExact(wt)
             /\ call.cmd = "check" => PackageExact(wt), "ok")
  /\ Read

-----------------------------------------------------------------------------
(***************************************************************************)
(* The write of activate.                                                  *)
(***************************************************************************)
\* set_activation_manifest_version reads the manifest again; write_exact_file
\* writes a temporary file beside it, which only a kill leaves there.
WriteTemporary ==
  /\ At("activate", "tool")
  /\ IF wt.manifest = call.original THEN Goto("temporary") /\ Write([wt EXCEPT !.new = @ \cup {"temporary"}])
     ELSE Goto("failed") /\ Read

\* NamedTempFile::persist renames it over the manifest.
Persist ==
  /\ At("activate", "temporary")
  /\ \/ Goto("activated") /\ Write([wt EXCEPT !.manifest = "stub", !.new = @ \ {"temporary"}])
     \/ Goto("failed") /\ Write([wt EXCEPT !.new = @ \ {"temporary"}])

\* require_exact_changed_paths against HEAD, and the version read back.
Activated ==
  /\ At("activate", "activated")
  /\ Require(Changed(wt, HeadTree) = ActivationPaths /\ wt.manifest = "stub", "ok") /\ Read

-----------------------------------------------------------------------------
(***************************************************************************)
(* The maintainer, between commands.                                       *)
(***************************************************************************)
Edit ==
  /\ Idle /\ Spend
  /\ \/ wt' = [wt EXCEPT !.other = "bad"]
     \/ wt' = [wt EXCEPT !.changelog = "apart"]
     \/ wt' = [wt EXCEPT !.new = {"extra"}]
  /\ call' = None
  /\ UNCHANGED <<upstream, tracking, branch, head, pull, merged>>

Commit(signature, dco) ==
  /\ Idle /\ Spend /\ wt # HeadTree /\ Len(head.own) < MaxOwn
  /\ head' = [head EXCEPT !.own =
       Append(@, [tree |-> wt, signature |-> signature, dco |-> dco])]
  /\ call' = None
  /\ UNCHANGED <<upstream, tracking, branch, wt, pull, merged>>

\* git switch --create from the remote-tracking ref, worktree reset.
Reset(name) ==
  /\ Idle /\ Spend
  /\ branch' = name /\ head' = [base |-> tracking, own |-> <<>>]
  /\ wt' = upstream[tracking] /\ call' = None
  /\ UNCHANGED <<upstream, tracking, pull, merged>>

\* At any time, also while a command runs; none does once the pull request is open.
Fetch ==
  /\ pull = None
  /\ tracking' = Len(upstream)
  /\ UNCHANGED <<upstream, branch, head, wt, call, pull, merged, work>>

-----------------------------------------------------------------------------
(***************************************************************************)
(* The repository.                                                         *)
(***************************************************************************)
TipTree == upstream[Len(upstream)]
Advance(tree) == Len(upstream) < MaxUpstream /\ upstream' = Append(upstream, tree)

\* Others' work, or another release, is merged.
MergeOthers ==
  /\ \/ Advance([TipTree EXCEPT !.other = "theirs"])
     \/ Advance([TipTree EXCEPT !.manifest = "else", !.changelog = "else"])
  /\ UNCHANGED <<tracking, branch, head, wt, call, pull, merged, work>>

\* The head is pushed and the pull request opened: its base is the tip.
Push ==
  /\ Idle /\ pull = None /\ branch = "release" /\ head.own # <<>>
  /\ pull' = [own |-> head.own, from |-> head.base, base |-> Len(upstream),
              checked |-> At("check", "ok")]
  /\ call' = None
  /\ UNCHANGED <<upstream, tracking, branch, head, wt, merged, work>>

\* The squash of a head that forked at a base commit, onto the tip.
Squash(tree, from) ==
  [f \in Files |-> IF tree[f] # upstream[from][f] THEN tree[f] ELSE TipTree[f]]
Conflict(tree, from) ==
  \E f \in Files : /\ tree[f] # upstream[from][f]
                   /\ TipTree[f] # upstream[from][f] /\ tree[f] # TipTree[f]

\* Whoever merges may keep the sign-off in the message of the squash.
Merge ==
  /\ pull # None /\ merged = None
  /\ LET tree == pull.own[Len(pull.own)].tree
     IN ~Conflict(tree, pull.from) /\ Advance(Squash(tree, pull.from))
  /\ \E dco \in BOOLEAN : merged' = [pull |-> pull, index |-> Len(upstream'), dco |-> dco]
  /\ UNCHANGED <<tracking, branch, head, wt, call, pull, work>>

-----------------------------------------------------------------------------
(***************************************************************************)
(* Qualification of the merged source.                                     *)
(***************************************************************************)
\* Mutant of HeadMerged: the base may have moved before the merge.
HeadOnBase(m) ==
  /\ Len(m.pull.own) = 1 /\ m.pull.from = m.pull.base

\* validate_release_head: one commit on the pull's base, merged onto that base.
HeadMerged(m) ==
  /\ Len(m.pull.own) = 1 /\ m.pull.from = m.pull.base
  /\ m.index - 1 = m.pull.base
  /\ upstream[m.index] = m.pull.own[1].tree

\* validate_commit: both files modified and nothing else.
PathsModified(tree, parent) == Changed(tree, parent) = ReleasePaths

\* validate_commit: GitHub's verdict and the sign-off.
HeadVerified(commit) == commit.signature \in {"ssh", "gpg", "other"} /\ commit.dco

\* Mutant of ByMaintainer: whoever GitHub knows may have signed.
ByAnyone(commit) == TRUE

\* validate_release_head_signature: the one signer, account, author and address.
ByMaintainer(commit) == commit.signature \in {"ssh", "gpg"}

\* release_body: the section of the first heading is not empty, and what ends
\* it, if anything does, is another heading.
ReleaseBody(tree) == tree.changelog \in {"sel", "apart"}

\* qualify, of the version's source and head; what it asks of the registry, of
\* tags and of the versions before it is elsewhere.  GitHub signs the squash.
Qualifies(m) ==
  LET tree == upstream[m.index]
      commit == m.pull.own[Len(m.pull.own)]
  IN /\ ConfigExact(tree) /\ tree.manifest = "sel"
     /\ m.dco /\ PathsModified(tree, upstream[m.index - 1])
     /\ HeadMerged(m)
     /\ HeadVerified(commit) /\ PathsModified(commit.tree, upstream[m.pull.from])
     /\ ByMaintainer(commit)
     /\ ReleaseBody(tree)

-----------------------------------------------------------------------------
Command ==
  \/ \E cmd \in Commands : Begin(cmd)
  \/ ExactBase \/ CleanStart \/ Tool \/ Update \/ Derived \/ Subset \/ SetVersion
  \/ Dirty \/ StillOnBase \/ Committed \/ ReadMain \/ OneCommit \/ Signed
  \/ Paths \/ Content \/ WriteTemporary \/ Persist \/ Activated \/ Fail \/ Kill

Next ==
  \/ Command
  \/ Edit \/ Fetch \/ MergeOthers \/ Push \/ Merge
  \/ \E s \in Signatures, d \in BOOLEAN : Commit(s, d)
  \/ \E name \in {"release", "activate"} : Reset(name)

Spec == Init /\ [][Next]_vars

-----------------------------------------------------------------------------
(***************************************************************************)
(* Properties.                                                             *)
(***************************************************************************)
\* When prepare succeeds, the worktree differs from the commit it stands on in
\* the manifest and the changelog alone, with the selected version and one
\* heading for it, and all of it was done by this call: nothing an earlier,
\* failed or killed command or an editor left is in it, although paths are
\* compared with a ref that a fetch may move (prepare, require_release_changes).
PreparedExactly ==
  At("prepare", "ok") =>
    /\ Changed(wt, HeadTree) = ReleasePaths
    /\ wt.manifest = "sel" /\ Headings(wt) = 1
    /\ call.start = HeadTree

\* When check succeeds, HEAD is one signed and signed-off commit on a commit of
\* the base and changes the manifest and the changelog of that very commit
\* alone, whatever was fetched during the check (require_one_signed_commit,
\* release_changed_paths).
CheckedExactly ==
  At("check", "ok") =>
    /\ Len(head.own) = 1 /\ head.base = call.main
    /\ Changed(HeadTree, upstream[head.base]) = ReleasePaths
    /\ head.own[1].tree.manifest = "sel" /\ Headings(head.own[1].tree) = 1

\* When activate succeeds, the worktree is HEAD's with the version set to rc.0
\* and nothing else.  One that fails leaves the worktree as the call found it,
\* or with the version set; one that is killed may besides leave the temporary
\* file, and then the manifest as it was (write_exact_file).
ActivatedExactly ==
  call.cmd = "activate" =>
    LET found == call.start
        set   == [found EXCEPT !.manifest = "stub"]
    IN /\ call.step = "ok" => wt = [HeadTree EXCEPT !.manifest = "stub"]
       /\ call.step = "failed" => wt \in {found, set}
       /\ call.step = "killed" => wt \in {found, set, [found EXCEPT !.new = {"temporary"}]}

\* A source that qualifies differs from the base that preceded it in the version,
\* which is the selected one, and in the changelog, whose first section of that
\* version has text; it neither carries nor undoes work of others that was
\* merged while the proposal was open, and it is the tree of the pull request's
\* one commit (validate_release_head, release_body).
QualifiedIsTheProposal ==
  merged # None /\ Qualifies(merged) =>
    LET before == upstream[merged.index - 1]
        tree   == upstream[merged.index]
    IN /\ tree = [before EXCEPT !.manifest = "sel", !.changelog = tree.changelog]
       /\ tree.changelog \in {"sel", "apart"}
       /\ tree = merged.pull.own[1].tree
       /\ merged.pull.from = merged.index - 1

\* What check leaves to qualification: the source of a proposal that it accepted
\* qualifies if the base has not moved, the key is the maintainer's, the section
\* of the changelog has text and the squash kept the sign-off, and not otherwise.
\* Check sees none of these, so that a proposal which it accepted may be
\* refused once it is merged (check against qualify).
CheckedQualifies ==
  merged # None /\ merged.pull.checked =>
    LET commit == merged.pull.own[1]
    IN Qualifies(merged) <=>
         /\ merged.pull.from = merged.index - 1
         /\ commit.signature = "ssh" /\ commit.tree.changelog # "empty"
         /\ merged.dco

-----------------------------------------------------------------------------
(***************************************************************************)
(* The invariant by which these are proved.                                *)
(***************************************************************************)
\* What the base holds before the proposal is merged: others' work only.
BaseTrees == [manifest : {"old", "stub", "else"}, changelog : {"old", "else"},
              other : {"old", "theirs"}, new : {{}}]
Base == upstream[head.base]

\* HEAD stands on a commit of the base, and what differs from that commit in
\* the other files is the maintainer's or release-plz's, never others'.
OwnOther(tree) == tree.other \in {Base.other, "mine", "bad"}
HeadInv ==
  /\ head \in [base : DOMAIN upstream, own : Seq(Commits)] /\ Base \in BaseTrees
  /\ \A i \in DOMAIN upstream : merged = None \/ i < merged.index => upstream[i] \in BaseTrees
  /\ OwnOther(wt) /\ \A k \in DOMAIN head.own : OwnOther(head.own[k].tree)

CallSteps ==
  {"begun", "clean", "tool", "update", "derived", "subset", "set", "dirty", "base", "main",
   "count", "signed", "paths", "content", "temporary", "activated", "ok", "failed", "killed"}
CallShape ==
  /\ call = None \/ call \in [cmd : Commands, step : CallSteps, original : Manifests,
                              main : Nat, start : Trees]
  /\ Idle \/ pull = None

\* Nothing but the two files differs from the commit HEAD stands on; the last
\* step finds the version and one heading in them.
AfterPaths == {"content", "ok"}
Released(tree) == tree.manifest = "sel" /\ tree.changelog \in {"sel", "empty"}
PathsInv ==
  call.cmd # "activate" =>
    /\ call.step \in AfterPaths => wt.other = Base.other /\ wt.new = {}
    /\ call.step = "ok" => Released(wt)

\* Where a command that writes begins, and what it has written.
BeforeWrite == {"begun", "clean", "tool", "update"}
AfterClean  == {"tool", "update", "derived", "subset", "set", "dirty", "base", "paths",
                "content", "temporary", "activated", "ok"}
StartInv ==
  call.cmd \in {"prepare", "activate"} =>
    /\ call.step \in BeforeWrite => wt = call.start
    /\ call.step = "clean" => head.own = <<>>
    /\ call.step \in AfterClean => head.own = <<>> /\ call.start = Base
Left == {call.start, [call.start EXCEPT !.manifest = "stub"]}
ActivateInv ==
  call.cmd = "activate" =>
    /\ call.step \in {"begun", "clean", "tool", "temporary", "activated", "ok", "failed",
                      "killed"}
    /\ call.step = "temporary" => wt = [call.start EXCEPT !.new = {"temporary"}]
    /\ call.step \in {"activated", "ok"} => wt = [call.start EXCEPT !.manifest = "stub"]
    /\ call.step = "failed" => wt \in Left
    /\ call.step = "killed" => wt \in Left \cup {[call.start EXCEPT !.new = {"temporary"}]}

\* What check has found of the commit.
AfterSigned == {"paths", "content", "ok"}
AfterCount  == {"signed"} \cup AfterSigned
AfterClear  == {"main", "count"} \cup AfterCount
SignedOff(commit) == commit.signature \in {"ssh", "unknown", "other"} /\ commit.dco
CheckInv ==
  call.cmd = "check" =>
    /\ call.step \in AfterClear => wt = HeadTree
    /\ call.step \in AfterCount => Len(head.own) = 1 /\ head.base = call.main
    /\ call.step \in AfterSigned => SignedOff(head.own[1])
    /\ call.step = "ok" => wt.other # "bad"

\* What is merged is the pull request; on an unmoved base, its very tree.
Proven(commit, parent) ==
  /\ SignedOff(commit) /\ Released(commit.tree) /\ commit.tree.other # "bad"
  /\ Changed(commit.tree, parent) = ReleasePaths
PullInv ==
  /\ pull # None =>
       /\ pull.own \in Seq(Commits) /\ pull.own # <<>>
       /\ pull.from \in DOMAIN upstream /\ pull.base \in DOMAIN upstream /\ pull.from <= pull.base
       /\ pull.checked => Len(pull.own) = 1 /\ Proven(pull.own[1], upstream[pull.from])
  /\ merged # None =>
       /\ pull # None /\ merged.pull = pull
       /\ merged.index \in DOMAIN upstream /\ pull.base < merged.index
       /\ merged.dco \in BOOLEAN
       /\ merged.index - 1 = pull.from =>
            upstream[merged.index] = pull.own[Len(pull.own)].tree

IInv == /\ TypeOK /\ HeadInv /\ CallShape /\ PathsInv /\ StartInv /\ ActivateInv
        /\ CheckInv /\ PullInv
=============================================================================

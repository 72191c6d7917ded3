# Verification of yaml-sigil-traits

The repository publishes one small Rust crate of traits and data types
(`src/src`, no state, no control). Its logic is in the tooling that builds,
checks and releases that crate: `src/xtask/src` (the typed release commands and
the bounded execution of subprocesses) and `src/.github` (the publication
workflow, the required-CI reporter and the candidate binder). This directory
models that tooling in TLA+, model-checks it with TLC and proves its most
important safety properties with TLAPS.

## The system's parts

| Part | State it keeps | Operations | What makes it hard | What makes it correct |
|---|---|---|---|---|
| Bounded execution, containment (`bounded_process.rs`, `SubreaperScope`) | process-wide lock, subreaper attribute, baseline of children | enter, launch, kill, reap, drop | the command's processes fork, orphan children, change session and exit while `/proc` is walked; several threads call at once; deadlines | nothing of the command is left on a clean return, bystanders are spared, the attribute is restored, the call returns |
| Bounded execution, capture (`output_inner`) | captured bytes, input offset, exit status, grace period | drain, write, poll, decide, terminate, reap | three pipes and an exit race; limits; pipes that outlive the child | a success carries all of the output, overflow is exact, no deadlock, the call ends after the exit |
| Bounded execution on Windows (`bounded_process.rs`, `cfg(windows)`) | job object, up to three workers, a channel | suspended start, assign, resume, record, cancel, join | a killed process may hold its pipes for ever, a cancellation may miss a worker, every call can fail | nothing survives a call, a success is complete, the call returns, no worker is left behind |
| Release finalization (`github.rs` `finalize`, `github/latest.rs`) | GitHub's tag, Release and Latest; crates.io's record | reconcile tag, reconcile Release, guard Latest | branches move, replies are lost, runs die and are recovered, people edit | tag, Release and crate agree for ever; Latest is the newest stable; recovery converges; after authority is lost at most the write in flight is made |
| Release qualification (`github.rs` `qualify`) | none of its own, reads GitHub and crates.io | qualify in five modes | the world changes between reads | a qualified source is the one that was reviewed |
| Source provenance (`github/provenance.rs`, `github/support.rs`) | a binding (line, operation, main, source, anchor) | load, verify, rebind, start support | base and main are read one after the other | the conditions hold together at some instant |
| Publication workflow (`publish.yml`) | jobs, approvals, run attempts | qualify, publish, await, approve, finalize | re-runs of single jobs, approvals given earlier, partial success | each publication and finalization has its own approval |
| GitHub transport (`github/transport.rs`) | the attempt of a call | get, get_optional, graphql, mutate | requests and answers are lost or late; failures look like absence | a mutation takes effect once, absence is real |
| Support activation (`github/support.rs`, `start`) | none, reads GitHub, crates.io and Git | propose a line's branch and inventory | a proposal is printed from many reads and executed later | it holds when printed, leads to a source that loads, and moves no branch |
| Required CI verdict (`ci.yml`, `ci-candidate.yml`, `ci-trusted.yml`, `required-ci.yml`, `report_required_ci.py`, `bind-candidate-pr.py`) | runs, attempts, job names, checks | bind, rebind, report, retry | the pull request, branches and permissions change between any two reads; reports come twice; one deadline for all retries | a check stands for what ran, on the policy and the base that it names, in the order of attempts |
| Release policy (`release_policy.rs`, `release_base.rs`) | the tags a clone knows | admit a version, adjust | clones are stale; a stopped run leaves the tag behind the crate | versions are published in order, none is skipped |
| Release preparation (`release.rs`) | a worktree, a commit, a pull request | activate, prepare, check | the base moves and is fetched between any two reads; commands are killed | what is accepted is one release, exactly |
| Crate archive and registry (`crate_archive.rs`) | a budget of bytes | poll, read, download, inspect | two passes over the same bytes; sizes at boundaries; failed attempts count | one reading of an archive; absence is real; the budget holds |
| Trusted files (`safe_file.rs`) | open handles | open below a root, read within a limit | the tree changes between any two calls | no link is followed, contents are whole |

Components interact by call (every `git`, `gh`, `cargo` command of the release
tooling runs through bounded execution; finalization calls provenance before
each write), by the objects on GitHub and crates.io that one run leaves for the
next, and by the outputs of workflow jobs. `PROJECT.json` lists every part with
its status, and under `hazards` what is hard to test in each.

## Modules

| Module | Models | Refines |
|---|---|---|
| `ProcessContainment` | `SubreaperScope` and the process effects of `output_inner`, several callers, the kernel | `ContainedCommand` |
| `ContainedCommand` | what a call of `output` promises | |
| `CaptureLoop` | the loop of `output_inner` with its pipes, limits and failures | |
| `ReleaseReconcile` | `finalize`, `reconcile_tag`, `reconcile_release`, `latest::Guard`, and GitHub | `ReleaseLedger` |
| `ReleaseLedger` | the public record of versions: crate, tag, Release, Latest | |
| `Provenance` | `Binding::load`, `verify`, `verify_git`, `rebind`, and the Git history they read | |
| `GitHubTransport` | `GhCli`: the attempts of a call and what its failures mean, over a network and a service | |
| `SupportActivation` | `start-support`, its proposal, and the execution of it (uses `Provenance`'s `Load`) | |
| `PublishWorkflow` | `publish.yml`: its jobs, approvals, re-runs and queue, around `qualify`, `await_publication` and `finalize` | |
| `RequiredCiReporter` | the runs of CI, the reporter and its checks | |
| `CandidateBinder` | the reads, retries and budget of `bind-candidate-pr.py` | |
| `ReleaseProgression` | which version may be selected and published on a support line | |
| `ReleaseProposal` | `activate`, `prepare`, `check`, the pull request and what qualifies | |
| `CrateArchive` | the inspection of a downloaded archive, block by block | |
| `RegistryReads` | polls, record and download of one command, with retries and the budget | |
| `TrustedRead` | `TrustedRoot`, `open_file` and `read_bounded` on Unix and Windows | |
| `BoundedProcessWindows` | `output` on Windows: job, workers, channel, both endings | |
| `*_proofs` | theorems about the module of that name; `CaptureLoop_proofs` and `Provenance_proofs` also about the other component of their run (Windows, `SupportActivation`), as an instance in the `MC` module; `Services_proofs` about the three of `services`; `CiVerdict_proofs` about both of `ci_verdict`; `Release_proofs` about `PublishWorkflow` and both of `release_commands` | |
| `MC*` | constants, and where components share a run, which of them a behaviour is of | |

Components that do not act on each other's state in the code are checked in one
run where they answer one question. `MCBoundedOutput`, `MCServices`,
`MCReleaseCommands`, `MCProvenance`, `MCTrustedRead` and `MCCiVerdict` have a
variable (`subject`, `platform`) that chooses the component in the initial state
and never changes; the variables of the others keep one value. Nothing is
composed in these runs. Composition is inside the modules: callers, kernel and
processes; runs, GitHub, crates.io and the people who edit; the workflow's
queue, jobs and the registry; `start-support`, its execution and
`Binding::load`; the reporter, CI's runs and the pull request.

### ProcessContainment

One state variable per thing the code or the kernel keeps: `lock` is
`SUBREAPER_LOCK`, `subreaper` the process attribute, `wasEnabled`/`baseline`
the fields of `SubreaperScope`, `unscanned`/`found` the progress of
`direct_children`, `adopted` the vector of `terminate_and_reap`,
`child`/`reaped` the direct child, `parent`/`group`/`life`/`killed` the kernel's
process table. The `/proc` walk is one action per entry, so that processes are
created, re-parented and collected between two reads; a process created during
a walk may or may not be listed. `tree`, `hostFlag` and `leaked` are history.
`Succeed` and `Fail` are possible whenever the processes allow them: when the
capture decides what is the subject of `CaptureLoop`.

Assumptions: PIDs are not reused; descendants leave the command's process group
by `setsid` and never join the caller's group, and none makes itself a subreaper; reading and setting the
subreaper attribute and `getpgid(None)` do not fail before the attribute is
set; the lock is not poisoned. Each is a hazard with a note where the code is
exposed to it. On other Unix systems there is no subreaper and a process that
changes session survives; the tests document that and it is not modelled.

### CaptureLoop

Bytes are counted. `pipe`, `inPipe` are the contents of the pipes, `holders`
who has an output open, `reader`/`got` are `Capture`, `stdin`/`offset` the
input, `status`/`grace`/`failure` the loop's locals, and `pc` the place in the
loop. Processes write, read, close, fork, leave the group and exit between any
two steps. A drain is one step: what is written while it runs is seen by the
next one. `GraceEnds` may come at any time after the exit was seen, so the
model includes a thread that stalls for the whole grace period.

### ReleaseReconcile

`tip` are the protected branches, `crate` crates.io, `tagRef`, `release` and
`latest` GitHub's objects. A run (`pc`, `src`, `op`, `policy`, `before`,
`advance`) is one process of the finalize job; the same run starts again and
again, so a history of any number of dead and recovered runs is explored. Every
read of the code that decides something is a step (`Check`), and so is every
POST, whose effect and whose reply are separate: applied and answered, applied
and lost, not applied. `Abort` is any permanent failure, timeout or kill. The
tag object's identity is its content, because tagger, date and message are
functions of the source: the source stands for the object's SHA. `Authorized`
is `Binding::verify` as one step, which `BoundTogether` of `Provenance` justifies. `Tamper` edits what GitHub does not lock: tags without an
immutable Release, a missing Release, Latest.

`stale` counts writes sent after the run's authority had gone, `owed` says that
nothing has happened that can excuse a failure, `finalized` collects the
sources for which a run has returned success.

### Provenance

`db` is the object database: a commit has its past, the contents of the policy
files and the inventory at the line's path. `main` and `base` are the two
protected branches; they only move forward, by any of the merges in `Merge`
(edits, reviewed and altered inventories, merges of one branch into the
other), as MAINTAINERS.md describes them. A call has the fields of `Binding`
(`line`, `op`, `source`, `policy`) and `seen`, the base as first read. Every
read of a branch is a step; a comparison of two commits may be one step,
because commits do not change. `load` is one step for that reason. `together`
is history: at the second look of a call, whether everything held at once.
`Past`, `Ancestor` and `MergeBases` are Git's: `git merge-base` prints one of
the best common ancestors, and `MergeBases` is their set, which must be the
anchor alone (when there are several, the code compares the one Git prints).
Whatever `inventory()` refuses is the one value `Malformed`. The seed file
`.github/support-policy-paths.txt` is a constant. A call is made once; `Calls`
may be any set of concurrent ones. Not modelled: the syntax of paths and object
IDs. `support::start` is the subject of `SupportActivation`.

### PublishWorkflow

`run` holds the concurrency group, `pending` waits for it and is replaced by a
newer one, `last` is the run that completed last, which people may re-run, all
of it or only the jobs that failed. A run keeps the jobs that have succeeded
and the outputs of its `qualify` job; `FirstStep` is the `if:` of every job.
`pc` is the step within a job. `qualify` is read by read, in the `qualify` job
and again in the publish job after the approval. `crate` and `visible` are
crates.io, which shows a publication some time after it has accepted it. `Die`
is a timeout, a lost runner, a rejected approval or a lost reply of a write
that took effect; `ReleasePlz` has a lost reply of its own. `Authorized`
(`Binding::verify` or `rebind`) is one step, and so are the tag and the Release
of the finalizer, which `ReleaseReconcile` takes apart. `release-plz` publishes
what crates.io does not have, skips what it shows, and fails when crates.io
refuses. A source stands for a signed, merged release pull request; a push
without one is an ordinary one. `Progresses` keeps of
`require_fresh_progression` that a tagged support version is not released
again (`ReleaseProgression` has all of it). People dispatch only when nothing
waits. The `validate` dispatch is left out: it writes nothing.

### GitHubTransport

`object` is one object of the repository, `requests` what has been sent and not
been served, `call` the call that `GhCli` is making. Serving a request is one
action, whether its answer arrives (`ServeAnswered`), is unusable
(`ServeUnusable`), or comes after the attempt has been given up (`ServeLate`);
`FailFirst` is a failure before the request is served. Others write and delete the
object at any time (`Other`). `AfterFailure` is what `request` makes of the
text `gh` prints: try again, take it for absence, or fail. The waits between
attempts are left out, so an attempt may follow at any time. `applied` and
`during` are history.

### SupportActivation

Commits are those of `Provenance`, with the version of their manifest. A
command reads the checkout, refs, tags, anchor, successor, inventory and main
again, a step each (`Start` to `RereadMain`), while main is edited and
released, versions are published and tagged by the App or by others, and
another line is opened. `proposals` keeps what was printed; `Push`,
`MergeInventory` and `Import` are what maintainers then do with it, at any time
and more than once. `ProposedIsLoadable` asks `Provenance`'s own `Load`, the
translation of `Binding::load`. Four versions are enough for a line with a
stable release, a later patch, a successor's prerelease and a successor.

### RequiredCiReporter

`pull` is the pull request, `copied` the ref of the copied route, `runs` the
runs of CI with the results of their attempts, `reporter` the reporters at work,
`checks` the App's checks in order. `BindPull` and `BindRefs` are the protected
binding job (`CandidateBinder` has its reads one by one), `Rebind` the second
one at the end, taken as one step. A reporter reads run, main, pull request,
base, actor, commits, ref and jobs, twice (`NextRound`), lists the checks and
creates one; `Stop` is any failure or timeout, after which it may be run
again (`Deliver`). A run of CI is run again as a whole (`Rerun`) or in single
jobs (`RerunJobs`), which keep the binding, and with it the job's name, of an
earlier attempt. A creation is served or lost before its job ends. The first
reading of `inspect`, whose outputs nothing uses, is left out: `report` repeats
it. `Serial` is the concurrency group of `required-ci.yml`.

### CandidateBinder

`bind` is one binding: its step among the five reads, its attempt and what it
has read; `clock` counts from its beginning, `quiet` is until when GitHub has
told it to wait. A read takes any time within its timeout (`Pass`), may fail
with an HTTP error of any kind with any headers (`HttpError`), or never be
answered (`Expire`). `RetryDelay` and `Retried` are `retry_delay` and the
test in `bind_with_retries`; `Wake` ends a wait. `together` is history: whether,
when the pull request was read, all that the binding says was true.

### ReleaseProgression

A version of the line is a patch and what follows it: an ordinal, another
prerelease, nothing, or build metadata. `RequireAdvancement` is
`ReleaseLine::require_advancement`, `RequireAdjustment` is
`require_exact_version_adjustment`, whose tables of cases they keep. `clone`
are the tags of some earlier moment, `proposal` what was prepared from it,
`run` a publication run that may stop after the crate is published and before
the tag is made.

### ReleaseProposal

A tree keeps of the manifest its version (what it was, the rc.0 stub, the
selected one, one with the same core, another), of the changelog what both
readers of it tell apart (no heading of the version, one with or without text
below it, two in a row, two further apart), and of everything else whether it
is as it was, somebody's, or wrong. A command is a sequence of
steps, one for each Git read, write or tool (`call.step`), each of which may
fail, and `Kill` may end it at any of them; between commands people edit,
commit, reset and fetch, between any two steps the base moves and the clone
fetches it. release-plz leaves any edits, also when it fails (`ReleasePlz`, for
`Update` and `SetVersion`). `Adjustable` admits an unchanged version and one of
the selected core; which of them the numbers allow is in `ReleaseProgression`,
so that any may also be refused (`Fail`). A commit carries its signature, by
the maintainer, by a key that GitHub does not know, or by somebody else
whom it knows. `Push`, `MergeOthers` and `Merge` are the pull request, squashed
onto whatever base there is, with the sign-off or without, and `Qualifies` what
`qualify` demands of the merged source: source and head commit, the maintainer's
signature (`HeadVerified`, `ByMaintainer`) and the section of the changelog
(`ReleaseBody`). The clone is followed until the pull request is open.

### CrateArchive

A tar is a sequence of blocks. What a block holds does not depend on who reads
it: `TerminationStep` walks the blocks from size to size, as
`validate_tar_termination` does with its own arithmetic, `Entry` takes the next
entry as the tar library does, and the model finds the tars on which they
could disagree. Sizes are in bytes with the width of `MaxU64`, and `Sum` is
`checked_add`. Decompression is one condition (one member, whole blocks, within
the limit). The reference is `IsReading`, a set of positions that tiles the tar;
its total size is a running one, given for every position (`IsTotal`).

### RegistryReads

A command polls until the version is there (`await_publication`) or once
(`qualify`), then reads its record and downloads the archive, each with up to
three attempts (`Retry`) on faults that carry any number of bytes. What is
transient differs in one status (500 is asked again for a record and not for a
download); both are faults here, `Transient` or `Permanent`. `Account` is
`account_response`. The registry publishes once, yanks and restores. `seen`,
`received`, `faults` and `refused` are history.

### TrustedRead

`entry` maps directory entries to inodes; a handle stays with its inode. A read
opens the root, a directory and a file and reads, a step per system call, on
either platform (`Windows`), while another process renames, replaces and
rewrites. `held` and `texts` are history: what every entry named and every file
contained at some time of the call. `Now` and `Around` serve the environment.

### BoundedProcessWindows

`job`, `handle` and `holds` are the kernel's, `worker` the threads, `queue` the
channel, `finished` and `kept` the fields of `Captures`, `pc` the place of the
calling thread. Killing is asynchronous (`Condemn`, then `KilledDies`). A
cancellation reaches a worker only while it is in a call (`Cancel`); it may
report and go on afterwards. Every call of the calling thread that can fail
fails in some behaviour. The assumption is that closing the last handle of a
job with `KILL_ON_JOB_CLOSE` kills what is in it, and that terminating a
process does not fail. The processes write at most `MaxExcess` bytes over the
limit of a stream. A worker that the call has given up may outlive it; what is
claimed is that the call returns and that its processes are condemned.

## Runs

| Run | Question | Properties | Bounds |
|---|---|---|---|
| `containment` | does a call leave, kill or change anything it should not? | `Contained`, `KillsSpareUnrelated`, `AttributeRestored` | 2 callers (symmetric), 3 processes |
| `containment_progress` | does it return, and does it implement `ContainedCommand`? | `CallReturns`, `ImplementsContainedCommand` | 2 callers, 2 processes |
| `capture` | is what `output` returns on Linux complete, and does it return? | `FaithfulOutput`, `OverflowExact`, `ReturnsAfterExit` | child and one descendant; limits of 1 and 0 bytes, 2 bytes written per stream; pipes of 1 byte, 2 bytes of input |
| `bounded_output` | the same on Windows; and do input and output block each other on Linux? | `FaithfulCapture`, `NothingIsLeft`, `CallReturns`; `FilterCompletes` | Windows: child and one descendant with the same limits, one byte over each, or a child that takes input; Linux: a filter, 5 bytes of input, pipes of 1 byte |
| `release_serial` | do runs that die and are recovered complete the record? | `LatestIsNewest`, `RecoverySucceeds`, `KeepsTheLedger` | 1 run at a time, 4 sources of 3 versions on 2 lines, 2 commits per line |
| `release_rivals` | what may two runs and somebody's edits do to a release? | `FinalizedForever`, `AtMostOneStaleWrite` | 2 runs at once, 2 rival sources of a version, 2 commits, 1 edit |
| `provenance` | is authority read while branches move real, and does it last? | `BoundTogether`, `RecoveryStaysOpen`, `ProposalsAreTrue`, `ProposedIsLoadable` | 1 call, 5 commits, 2 paths, 2 contents (symmetric); for `start-support` 4 versions, 1 path |
| `publish` | what do re-runs, recoveries and the queue make of approvals and releases? | `ForgeFollowsRegistry`, `OneFinalizerPerApproval`, `FirstPublication`, `PublishedIsReleased` | 2 rival sources on main, 3 commits, 2 attempts, 2 faults; or a source on main and one on a support line, 2 commits, 1 attempt, 1 fault |
| `services` | do lost, late and cut answers lead the clients astray? | `AppliedOnce`, `AnswersAreTrue`, `OutcomesAreJust`, `InspectionIsExact` | GitHub: 3 calls of up to 3 attempts, 2 writes by others; registry: 2 polls, 3 attempts, a budget of one archive and two records; tars of up to 5 blocks out of 10 |
| `release_commands` | is what the commands accept one release, and the next one? | `CommandsExact`, `QualifiedIsTheProposal`, `CheckedQualifies`, `LineAdvances` | 3 commits of the base, 2 of the release branch, 4 commands, edits, commits or resets; a line of 3 patches with up to 3 candidates each and 4 commits |
| `trusted_read` | does the file system's movement get into what is read? | `NoLinkFollowed`, `WholeContents`, `Returns` | limit of 1 byte, 2 renames, 1 rewrite, both platforms |
| `ci_verdict` | does a binding or a check ever stand for something that did not hold? | `BoundTogether`, `KeepsTime`, `ChecksAreEarned`, `VerdictsInOrder` | 2 moves, 3 attempts; 2 heads, 2 commits of main, 2 attempts of a run; 1 reporter and 2 moves, or 2 reporters and none |

Several of the properties of the `MC` modules are the conjunction of a
component's properties, together with its type invariant: `AnswersAreTrue`,
`OutcomesAreJust`, `InspectionIsExact`, `CommandsExact`, `LineAdvances`,
`ProposalsAreTrue`, `ChecksAreEarned`, `KeepsTime`. Their comments say what each
one claims.

Why the bounds are enough. Three processes are a direct child, a descendant
that it orphans and a bystander or a second generation; the containment
properties are in addition proved for any number. Two callers are what the lock
tells apart. The capture limits are reached and passed by one byte on either
stream, a pipe of one byte makes every write block, and five bytes exceed
everything that the two pipes and the filter can hold (three). Rival sources, a
support line and two stable versions on main give every case of the Latest
guard; two commits allow authority to be lost at every step. Five commits are
the anchor, a source with its inventory on the line, a policy commit of main,
and a change after each of the two. Four versions are what a line needs for a
stable release, a later patch, a successor's prerelease and a successor. In
`PublishWorkflow` two attempts are what `run_attempt == 1` tells apart, two
sources suffice for a rival and for a competitor in the queue, and two faults
allow a recovery to fail after the run it recovers. Three calls of the transport
let a late mutation of one be served during another. The budget of the registry
client admits the record and the archive and is exceeded by one fault. A tar of
five blocks holds a header, contents, a second header and the two zero blocks
that end it, or a header whose size reaches past the end; the ten blocks contain
sizes of zero, of a part of a block, of more than one, and one whose rounding
overflows `MaxU64`. Three patches with three candidates are every case of
`require_advancement` and its neighbours on either side. A limit of one byte is
reached and passed; two renames replace a component by a link and back between
two opens. The binder's 120, 30 and 60 seconds are 12, 3 and 6 units: what
matters is that two waits of the longest kind use the budget up.

The bounds of each instance are constants (`MaxWritten`, `MaxExcess`, `MaxTip`,
`MaxTampers`, `MaxCommits`, `MaxAttempts`, `MaxFaults`, `MaxMoves`, `MaxOthers`,
`MaxRenames`, `MaxWork` and so on) in the guards of actions of the environment.
Where the code has the number itself (three attempts, the limits of
an archive, the budget), it is a constant or a definition of that name.
`MCPublishWorkflow` bounds its two cases by `Bounded`, which no step of a run can
make false: merges, re-runs and faults are held back, runs are not.

Deadlock is checked where the system never rests (`containment`,
`containment_progress`, `release_serial`, `release_rivals`). In all other runs a
call or a command ends, commits run out, or a repository may rest, and
`CHECK_DEADLOCK FALSE` says so. `release_serial` checks one run at a time
because the workflow's concurrency group allows one; with two, a Release of an
older version could carry a `make_latest` decided before the newer one, which no
server-side comparison prevents, and `LatestIsNewest` is not claimed.

## Fairness

`containment_progress`: each calling thread keeps running (weak fairness of its
steps) and its deadlines pass. Nothing is assumed of the command's processes,
not even that a killed process ends. `capture`: the loop's
thread runs (`Loop`) and the clock advances (`GraceEnds`). `bounded_output`: on
Windows the calling thread runs (`CallStep`), time passes (`TimePasses`), and a worker whose pipe has
ended or whose call was cancelled sees that (`WorkerEnds`). Nothing is assumed of
these processes, which may keep their pipes for ever; the filter on Linux reads,
writes and exits when it can. `publish`: jobs are run and approved
unless they die (weak fairness of `RunStep`), crates.io shows in the end what it
has accepted (`Show`), and people do not give up the recovery of a release that
is not complete (strong fairness of `Recover`, because others take the place in
the queue in between). Nothing obliges a branch to move or a run to be repeated;
branches move and jobs die only finitely often, by the bounds, without which a
run that needs main to stand still could be disturbed for ever. `trusted_read`:
the operating system answers a read of a regular file and an open that does not
wait. The remaining runs check safety, and action properties, and need none.

## What is proved

TLAPS proves the following for every value of the constants. The assumptions are
those named in the modules: that callers, PIDs, sources, versions, limits and
bounds are what their names say (numbers, positive, different from `None`); that
the direct child is one of the processes (`DirectAssumption`, `WinAssumption`);
that the seed names some paths and that `None` is no inventory
(`PathsAssumption`, `ActivationAssumption`); that every head has the commit of
main that it carries (`VerdictAssumption`); that a base has a commit and a line a
release (`ProposalAssumption`, `ProgressionAssumption`); that the limits of an
archive, which in the code are far below 2^64, are within `u64`
(`ArchiveAssumption`); and that a request of the binder is
limited within its budget (`BudgetAssumption`). TLC evaluates each of them in a
run. Where several components share a run, their constants are declared in the
`MC` module, and the theorem is about `MCSpec`, for any values of them.

`ProcessContainment_proofs`: `TypeCorrect`, `CallsContainTheirTree`
(`Contained`), `OrphansStayHere` (`NeverEscapesToInit`), `AttributeIsRestored`
(`AttributeRestored`), `KillsAreAimed` (`KillsSpareUnrelated`, an action property)
and `ContainmentImplements` (`ImplementsContainedCommand`: the initial states of
the protocol are initial states of `ContainedCommand`, and every step is one of it
or a stutter). `Contained` alone is
not inductive. Its invariant `IInv` says that only the lock's holder is in a
call (`LockInv`), that the attribute is on under a scope (`FlagInv`), that the
tree is outside baseline and the caller's group (`TreeInv`), that every
existing member hangs from this process or from a live member with a smaller
PID (`LineageInv`), and, the heart of it, that during the walk some child of
this process that belongs to the tree is among the entries read or still to be
read as long as anything is left (`ScanInv`). The walk therefore cannot end
empty over a tree that is not: the smallest member of what is left is a child
of this process (`TopExists`, by well-foundedness of the PIDs), and when a
member's parent dies the member is adopted by a process whose entry is yet to
be read or stands for it.

`CaptureLoop_proofs`: `TypeCorrect`, `SuccessIsFaithful` (`FaithfulOutput`),
`OverflowIsReal` (`OverflowExact`), `GroupIsKilled` (`GroupKilled`), for any
processes, limits, inputs and sizes of pipes. The invariant accounts for every
byte (`CountInv`: what was written is in the buffer or in the pipe, and the
buffer never exceeds the sentinel), says that a stream whose reader is gone has
ended with an empty pipe unless the loop has failed (`EndedInv`), what the loop
has established at each of its places (`LoopInv`), and that whoever is left of
the group after the loop was told to end (`GroupInv`). An exit seen before the
last bytes are read is harmless because success asks for the end of both streams.

`CaptureLoop_proofs` also proves, of the calls on Windows, `WindowsLeavesNothing`
(`NothingIsLeft`) and `WindowsCaptureIsFaithful` (`FaithfulCapture`), for any
processes and any set of requests with their inputs and limits. `Windows!IInv`
says that before the resume there is only the child, suspended, that from then on
whoever is alive is in the job, and that nobody is after the job was killed
(`JobInv`); that what a message in the channel says of a worker is still so when
it is received (`MessageInv`); that a stream received without a failure was read to
its end within its limit (`CaptureInv`); and that a success has received every
worker (`CallInv`).

`ReleaseReconcile_proofs`: `TypeCorrect`, `FinalizationIsFinal`
(`FinalizedForever`), `ForgeIsBoundToCrate` (`ForgeFollowsCrate`),
`OneStaleWrite` (`AtMostOneStaleWrite`), for any number of concurrent runs,
sources, commits and edits. The invariant adds what a run has established about
its source (`RunInv`), that lost authority stays lost and that a run about to
send a write has sent none without authority (`StaleInv`), and that a Release
once seen locks the tag (`ReleasedInv`).

Under `Serial` (one run at a time, and nobody edits the forge) three more:
`FinalizerKeepsTheLedger` (`KeepsTheLedger`, the refinement of `ReleaseLedger`),
`LatestStaysNewest` (`LatestIsNewest`) and `RecoveryAlwaysSucceeds`
(`RecoverySucceeds`). `Serial` is what the concurrency group of `publish.yml`
guarantees and what `release_serial` instantiates; without it they are false, as
`Limits` says. Their invariants: everything on the forge was made by the tooling
(`NoForeign`), what the guard of Latest has decided stays the right decision until
the Release is created (`GuardInv`), and a run that nothing has disturbed finds
authority, crate, tag and Release as it needs them at each of its places,
whatever a dead run has left (`OwedInv`).

`Provenance_proofs`: `TypeCorrect`, `AcceptedAtOneInstant` (`BoundTogether`),
`FreshSourceCarriesPolicy` (`FreshCarriesPolicy`),
`AcceptedSourcesStayRecoverable` (`RecoveryStaysOpen`), for any number of calls
and commits and any inventories. `IInv` says that history is well formed
(`HistoryInv`), that what `load` and the comparisons established about fixed
commits stays established (`LoadInv`, `LineageInv`), and that a call past its
second look saw everything hold at once if its last read confirms it
(`TogetherInv`). That the base can be read, then main, is sound only because
branches never move back: equal at two reads means equal between them. For
recovery, `PastInv` (an ancestor's past is part of its descendant's) and
`ForwardInv` (an accepted source is in the past of the branches from then on)
carry the checks over to every later main and base.

It also proves of `SupportActivation` `ProposalsStayTrue` (`ProposalsAreTrue`)
and `ProposalsAreLoadable` (`ProposedIsLoadable`), for any files, contents and
number of commits. Its invariant says that a history is a chain of commits with
versions that never go back (`HistoryInv`), that patches of the line are not made
on main, which the line leaves at its first commit (`LineInv`), that a
version is published once, from the commit that has it (`CrateInv`), what a
command has found by each of its steps (`CallInv`), and what a proposal says of
fixed commits (`ProposalInv`). All reads but the last are of commits, tags and
crates, which stay; the last one finds main where it was, so that everything holds
of main as it is. The anchor can only be the commit at which the line leaves
main: a version of the line on main is its first stable one, whose crate is
published from one commit. The successor's commit is another one, which has the
anchor in its past because the history of main is a chain.

`Release_proofs`, of `PublishWorkflow`: `TypeCorrect`, `ForgeIsBehind`
(`ForgeFollowsRegistry`), `ApprovalsAreUsedOnce` (`OneFinalizerPerApproval`),
`PublicationsAreFirst` (`FirstPublication`, an action property), for any
sources, commits, attempts and faults. The invariant says what the jobs a run
has completed entail (`RunOK`: among them that it was granted at most one
finalization and has used no more than it was granted), that the step under way is one the run is entitled to (`StepOK`), that
both hold of the running, the waiting and the last run (`QueueInv`), and that a
run about to tag has seen its own source on crates.io (`ConfirmedInv`).
`FirstPublication` follows because only the publish job of a run that is no
recovery publishes, and a version that crates.io does not have has neither tag
nor Release.

`Release_proofs`, of a proposal: `CommandsAreExact` (`CommandsExact`),
`QualifiedSourceIsTheProposal` (`QualifiedIsTheProposal`) and
`CheckedSourceQualifies` (`CheckedQualifies`), for any number of commits of the
base, of the branch, and of what people do. `Proposal!IInv` says at each step of
a command what the steps before it have established and cannot be undone: prepare
and activate stand on a commit of the base with the worktree they found
(`StartInv`), activate has written nothing but the version and its temporary
file, whether it succeeded, failed or was killed (`ActivateInv`), check speaks of the one signed commit that HEAD is (`CheckInv`),
and what was checked at the push is true of the pull request (`PullInv`). The
changed paths are compared with a ref that may have moved, and yet nothing else
differs from the commit under HEAD (`PathsInv`): what others commit is never what
a maintainer or release-plz writes (`HeadInv`), so a file that agrees with the
moved ref was not edited. `CheckedQualifies` is an equivalence: it says what a
proposal that check accepted must besides be in order to qualify, and that
nothing else is missing.

`Release_proofs`, of a line: `LinesAdvance` (`LineAdvances`, with the action
property `PublishedInOrder`), for any number of patches, candidates and commits.
`Line!IInv` says that the line goes forward, because a release is prepared
from the version of the tip and merged onto it (`LineInv`), so that a run
approved at the tip publishes what follows everything published (`RunInv`); and
that the greatest stable tag, and the greatest tag of each patch, which the
policy asks for, exist among the tags and in every clone (`PeaksInv`). The order
of publication owes nothing to the tags: they may lack any version whose run
stopped. What they decide is the patch, and with it that none is skipped.

`TrustedRead_proofs`: `TypeCorrect`, `LinksAreNotFollowed` (`NoLinkFollowed`),
`ReplacedFilesAreWhole` (`WholeContents`), `UndisturbedReadsSucceed`
(`ReadsWhatIsThere`), for both platforms and any limit. Each handle is what its
entry named at some time of the call (`HandleInv`), what has been read is a
prefix of the file while nothing is rewritten in place (`PrefixInv`), nothing
longer than what some file held is ever read (`LongInv`), and without a rename
the path leads to the file (`PathInv`).

`Services_proofs`: `TypeCorrect`, `MutationsApplyOnce` (`AppliedOnce`),
`AnswersOfEveryCall` (`AnswersAreTrue`), for any number of calls. A mutation on
the wire has not been served, and there is at most one of it (`SentInv`); a call
that has yet to send one has never sent it (`UnsentInv`).

`RegistryOutcomesAreJust` (`OutcomesAreJust`), of the same module, is about
`RegistryReads`: for any sizes, budget, number of polls and faults, the outcome of
a command is what the registry was while it asked. The record's state is among
those seen at any time (`SeenInv`); every byte that came is accounted for, and a
command that still asks is within its budget, met no refusal, and had a fault in
every attempt but the one it makes (`AskingInv`).

`InspectionExact` (`InspectionIsExact`), of the same module, is about
`CrateArchive`, for tars of any blocks and any length. Whatever reading a tar has,
both passes are at one of its headers or at its end (`FollowsInv`), because no header
lies within an entry of a reading (`NoneBetween`, by the least counterexample). A
pass that is at a header of a canonical reading therefore does not refuse it: its
stride is its extent, for its size is within the limit (`CanonicalStride`), and
count and total are those of a part of the reading (`FilesInv`, `TotalInv`). The
other way round, what the first pass has met is a chain that ends in zeros, which
is a reading (`PassInv`), and so the second pass read that one. The induction over
the blocks is that of the passes; no recursive sum occurs.

`CiVerdict_proofs`, of the binder: `TypeCorrect`, `BoundAtOneMoment`
(`BoundTogether`), `TimesAreKept` (`KeepsTime`), for any budget, waits and
movement. Branches only move forward past what was read (`ForwardInv`), what is
still to be confirmed, if confirmed, held when the pull request was read
(`TogetherInv`), and a wait ends within the budget and not before GitHub allows
(`WaitInv`). Of the reporter: `GreenChecksAreEarned` (`ChecksAreEarned`) and
`ChecksFollowAttempts` (`VerdictsInOrder`), for any heads, commits of main, runs,
attempts and reporters. The invariant `Verdict!IInv` says that a protected attempt
succeeds only after it was bound (`BoundInv`), what a reporter knows by each of its
reads (`ReadInv`), and, of its second round, that branches whose tips then equal what
the first round has read were there when the second began (`RoundInv`). For the order it says that no two
reporters are of one run (`SerialInv`, the concurrency group), and that while one
is at work no check of a later attempt appears and, before it posts, none of its
own (`OrderInv`).

Proved and not checked in a run of their own: the type invariants,
`NeverEscapesToInit`, `GroupKilled`, `ForgeFollowsCrate`, `FreshCarriesPolicy`
and `ReadsWhatIsThere`.

Only model-checked: liveness (`CallReturns`, `ReturnsAfterExit`,
`FilterCompletes`, `PublishedIsReleased`, `Returns`: fairness and ENABLED are out
of the prover's reach). Every safety property that a run checks is also a theorem.

## Limits of what is claimed

Exposed in the code, seen while modelling, and not excluded by any property:

- Two finalizers of different versions at once (`github.rs:1140`): only the
  concurrency group of `publish.yml` keeps `make_latest` in order.
- main or the base may move between `rebind-policy` and release-plz
  (`publish.yml:251`); nothing on crates.io compares branches. The model lets it
  happen.
- A push run of a release that is cancelled while it waits publishes nothing,
  and no recovery of it is accepted (`publish.yml:45`), by design.
- The base or the head may move after the reporter's last read
  (`report_required_ci.py:823`); two runs of one head, copied and staged, report
  in the order of their ends (`:755`); a creation served after its job has ended
  can leave two checks of an attempt (`:756`); a reporter whose policy is no
  longer main's refuses for ever, and CI is run again (`:487`).
- `check` accepts proposals that `qualify` refuses once they are merged: an empty
  section of the changelog (`release.rs:707`, `github.rs:1225`), and any SSH
  signature, whoever's it is (`release.rs:562`, `github.rs:801`). The squash must
  carry the sign-off as well (`github.rs:853`), which nobody checks before. The
  version is then not released, and another proposal is needed.
- `release_body` sees a second heading of a version only if no other heading
  stands between (`github.rs:1214`); `check` sees any.
- A first candidate may have any ordinal (`release_policy.rs:172`), and one whose
  run stopped before its tag does not count, so crates.io may lack ordinals; only
  their order is claimed.
- The budget for all of a command's answers is the limit of one archive
  (`crate_archive.rs:23`): an archive within a record's length of it is refused.
- A file that is rewritten in place during a read may be read torn
  (`safe_file.rs:52`); every writer here replaces by rename.
- Two operators may open two lines at once (`support.rs:91`); both see none open.
- `is_not_found` looks for its text anywhere in what `gh` prints
  (`transport.rs:197`); the model abstracts the text to the status.
- An answer that trickles keeps urllib's socket timeout from firing
  (`bind-candidate-pr.py:180`), and the reset is in GitHub's clock (`:139`).
- The direct child's run time is unbounded by design (`bounded_process.rs:604`); a
  thread that stalls through the grace period reports retained pipes (`:659`);
  PIDs may be reused between the walk and the kill (`:208`).

## Not modelled

- The public traits crate: it has no state.
- The command line, the feature, coverage and CI checks, `cargo_metadata_output.rs`:
  sequential glue that runs tools in turn and stops at the first failure.
- `package_content.rs`: a comparison of two sets of paths.
- `materialize-candidate.sh`, the commands the CI lanes run, tool set-up and the
  scripts' checks of strings.
- The `validate` dispatch of `publish.yml`, which writes nothing.
- Parsing and formatting: GitHub's JSON, TOML, versions, paths, object IDs, the
  changelog. Where a decision depends on them the model keeps the decision.
- The Windows file and process calls themselves (FFI) and decompression.
- `CheckedQualifies` leaves out progression, which `ReleaseProgression` has, and
  what `qualify` asks of the registry, of tags and of Releases; the
  reporter's last rebind is one step, the protected binding two, and
  `CandidateBinder` has its reads one by one.

## Plan

Every safety property of the runs is proved, and liveness stays with the model
checker. What could be added is model rather than proof: the comparison of
package contents (`package_content.rs`), and the parts that
`PROJECT.json` lists as not modelled.

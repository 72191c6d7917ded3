------------------------- MODULE ProcessContainment -------------------------
(***************************************************************************)
(* Process-tree containment of xtask's bounded subprocess execution on     *)
(* Linux (src/xtask/src/bounded_process.rs, SubreaperScope and the process *)
(* effects of output_inner).  Threads of one process ("callers") run       *)
(* bounded commands under a process-wide lock; while the lock is held the  *)
(* process is a child subreaper, so descendants orphaned by the command    *)
(* are adopted by it and can be found, killed and reaped.                  *)
(*                                                                         *)
(* The kernel side (fork, exit, setsid, reparenting) is modelled from what *)
(* the code relies on.  A PID is never reused: Fresh picks a PID above     *)
(* every PID ever used.  What the captured pipes contribute to the outcome *)
(* of a call is the subject of CaptureLoop; here the call succeeds or      *)
(* fails at any point that leaves the processes in the same state.         *)
(***************************************************************************)
EXTENDS Naturals, Integers, FiniteSets

CONSTANTS
  Callers,     \* threads that call bounded_process::output
  NoCaller,    \* nobody holds SUBREAPER_LOCK
  Pids         \* process identifiers the kernel can hand out

ASSUME CallersAssumption == NoCaller \notin Callers
ASSUME PidsAssumption == Pids \subseteq Nat \ {0}

Self        == 0     \* the calling process, as a parent
InitProc    == -1    \* the process that adopts orphans when nobody else does
CallerGroup == 0     \* the calling process's own process group
NoPid       == 0

VARIABLES
  lock,        \* SUBREAPER_LOCK: the caller that holds it
  subreaper,   \* the PR_SET_CHILD_SUBREAPER attribute of the calling process
  parent,      \* parent of each process
  group,       \* process group of each process
  life,        \* "unborn", "alive", "zombie" or "gone"
  killed,      \* processes a SIGKILL was sent to
  pc,          \* where each caller is
  wasEnabled,  \* SubreaperScope::was_enabled
  baseline,    \* SubreaperScope::baseline
  unscanned,   \* /proc entries the current direct_children has yet to read
  found,       \* children of this process the current direct_children has read
  adopted,     \* what terminate_and_reap selected in this round
  child,       \* the direct child of the current call
  reaped,      \* the direct child's exit status was collected
  expired,     \* the 2s post-cancellation deadline has passed
  outcome,     \* how the current call ends
  tree,        \* history: every process descending from the call's direct child
  hostFlag,    \* history: the process was a subreaper before any call
  leaked       \* history: some enter() failed after it set the attribute

kernelVars == <<parent, group, life, killed>>
scopeVars  == <<wasEnabled, baseline, adopted, expired>>
scanVars   == <<unscanned, found>>
callVars   == <<child, reaped, outcome>>
histVars   == <<hostFlag, leaked>>
vars == <<lock, subreaper, kernelVars, pc, scopeVars, scanVars, callVars,
          tree, histVars>>

(***************************************************************************)
(* Phases of a call.  All but "idle" and "returned" hold the lock.         *)
(***************************************************************************)
Phases == {"idle", "baseline", "spawn", "wait", "reapChild", "cleanup",
           "scan", "reapAdopted", "drop", "unlock", "returned"}
Outcomes == {"none", "ok", "err", "dirty"}
Holding(c) == pc[c] \notin {"idle", "returned"}
Scanning(c) == pc[c] \in {"baseline", "scan"}
Finished(c) == pc[c] \in {"drop", "unlock", "returned"}

TypeOK ==
  /\ lock \in Callers \cup {NoCaller}
  /\ subreaper \in BOOLEAN
  /\ parent \in [Pids -> Pids \cup {Self, InitProc}]
  /\ group \in [Pids -> Pids \cup {CallerGroup}]
  /\ life \in [Pids -> {"unborn", "alive", "zombie", "gone"}]
  /\ killed \in SUBSET Pids
  /\ pc \in [Callers -> Phases]
  /\ wasEnabled \in [Callers -> BOOLEAN]
  /\ baseline \in [Callers -> SUBSET Pids]
  /\ unscanned \in [Callers -> SUBSET Pids]
  /\ found \in [Callers -> SUBSET Pids]
  /\ adopted \in [Callers -> SUBSET Pids]
  /\ child \in [Callers -> Pids \cup {NoPid}]
  /\ reaped \in [Callers -> BOOLEAN]
  /\ expired \in [Callers -> BOOLEAN]
  /\ outcome \in [Callers -> Outcomes]
  /\ tree \in [Callers -> SUBSET Pids]
  /\ hostFlag \in BOOLEAN
  /\ leaked \in BOOLEAN

Init ==
  /\ lock = NoCaller
  /\ hostFlag \in BOOLEAN
  /\ subreaper = hostFlag
  /\ parent = [p \in Pids |-> Self]
  /\ group = [p \in Pids |-> CallerGroup]
  /\ life = [p \in Pids |-> "unborn"]
  /\ killed = {}
  /\ pc = [c \in Callers |-> "idle"]
  /\ wasEnabled = [c \in Callers |-> FALSE]
  /\ baseline = [c \in Callers |-> {}]
  /\ unscanned = [c \in Callers |-> {}]
  /\ found = [c \in Callers |-> {}]
  /\ adopted = [c \in Callers |-> {}]
  /\ child = [c \in Callers |-> NoPid]
  /\ reaped = [c \in Callers |-> FALSE]
  /\ expired = [c \in Callers |-> FALSE]
  /\ outcome = [c \in Callers |-> "none"]
  /\ tree = [c \in Callers |-> {}]
  /\ leaked = FALSE

-----------------------------------------------------------------------------
(***************************************************************************)
(* The kernel.                                                             *)
(***************************************************************************)
Existing(p) == life[p] \in {"alive", "zombie"}

\* A new process gets a PID above every PID used so far.
Fresh(p) ==
  /\ life[p] = "unborn"
  /\ \A q \in Pids : life[q] # "unborn" => q < p

\* The parent an orphan of this process's tree gets.
Reaper == IF subreaper THEN Self ELSE InitProc

\* A process created during a /proc walk is listed by it or not.
ListNewProcess(p) ==
  \E listing \in SUBSET {c \in Callers : Scanning(c)} :
    unscanned' = [c \in Callers |->
                    IF c \in listing THEN unscanned[c] \cup {p}
                                     ELSE unscanned[c]]

\* Process p forks q, which inherits its process group.
Fork(p, q) ==
  /\ life[p] = "alive" /\ p \notin killed
  /\ Fresh(q)
  /\ life' = [life EXCEPT ![q] = "alive"]
  /\ parent' = [parent EXCEPT ![q] = p]
  /\ group' = [group EXCEPT ![q] = group[p]]
  /\ tree' = [c \in Callers |->
                IF p \in tree[c] THEN tree[c] \cup {q} ELSE tree[c]]
  /\ ListNewProcess(q)
  /\ UNCHANGED <<lock, subreaper, killed, pc, scopeVars, found, callVars,
                 histVars>>

\* A descendant of a command leaves its process group (setsid).
Setsid(p) ==
  /\ life[p] = "alive" /\ p \notin killed
  /\ group[p] \notin {CallerGroup, p}
  /\ group' = [group EXCEPT ![p] = p]
  /\ UNCHANGED <<lock, subreaper, parent, life, killed, pc, scopeVars,
                 scanVars, callVars, tree, histVars>>

\* Process p ends, by itself or by a SIGKILL; its children get a new parent,
\* and what the init process inherits as a zombie disappears at once.
Exit(p) ==
  /\ life[p] = "alive"
  /\ parent' = [q \in Pids |-> IF parent[q] = p THEN Reaper ELSE parent[q]]
  /\ life' = [q \in Pids |->
       IF q = p THEN IF parent[p] = InitProc THEN "gone" ELSE "zombie"
       ELSE IF parent[q] = p /\ life[q] = "zombie" /\ Reaper = InitProc
            THEN "gone" ELSE life[q]]
  /\ UNCHANGED <<lock, subreaper, group, killed, pc, scopeVars, scanVars,
                 callVars, tree, histVars>>

\* A live parent other than the calling process waits for its child.
ParentReaps(p) ==
  /\ life[p] = "zombie" /\ parent[p] \in Pids
  /\ life' = [life EXCEPT ![p] = "gone"]
  /\ UNCHANGED <<lock, subreaper, parent, group, killed, pc, scopeVars,
                 scanVars, callVars, tree, histVars>>

\* Other code of the calling process starts a child in the caller's group.
UnrelatedSpawn(p) ==
  /\ Fresh(p)
  /\ life' = [life EXCEPT ![p] = "alive"]
  /\ ListNewProcess(p)
  /\ UNCHANGED <<lock, subreaper, parent, group, killed, pc, scopeVars, found,
                 callVars, tree, histVars>>

\* ... and waits for it.
UnrelatedReap(p) ==
  /\ life[p] = "zombie" /\ parent[p] = Self /\ group[p] = CallerGroup
  /\ life' = [life EXCEPT ![p] = "gone"]
  /\ UNCHANGED <<lock, subreaper, parent, group, killed, pc, scopeVars,
                 scanVars, callVars, tree, histVars>>

-----------------------------------------------------------------------------
(***************************************************************************)
(* SubreaperScope::enter.                                                  *)
(***************************************************************************)
BeginScan(c) ==
  /\ unscanned' = [unscanned EXCEPT ![c] = {p \in Pids : Existing(p)}]
  /\ found' = [found EXCEPT ![c] = {}]

\* Mutant of Acquire: SUBREAPER_LOCK is not taken.
AcquireUnlocked(c) ==
  /\ pc[c] \in {"idle", "returned"}
  /\ lock' = c
  /\ wasEnabled' = [wasEnabled EXCEPT ![c] = subreaper]
  /\ subreaper' = TRUE
  /\ BeginScan(c)
  /\ pc' = [pc EXCEPT ![c] = "baseline"]
  /\ outcome' = [outcome EXCEPT ![c] = "none"]
  /\ tree' = [tree EXCEPT ![c] = {}]
  /\ UNCHANGED <<kernelVars, baseline, adopted, expired, child, reaped,
                 histVars>>

Acquire(c) ==
  /\ pc[c] \in {"idle", "returned"} /\ lock = NoCaller
  /\ lock' = c
  /\ wasEnabled' = [wasEnabled EXCEPT ![c] = subreaper]
  /\ subreaper' = TRUE
  /\ BeginScan(c)
  /\ pc' = [pc EXCEPT ![c] = "baseline"]
  /\ outcome' = [outcome EXCEPT ![c] = "none"]
  /\ tree' = [tree EXCEPT ![c] = {}]
  /\ UNCHANGED <<kernelVars, baseline, adopted, expired, child, reaped,
                 histVars>>

\* direct_children reads one entry; an entry that disappeared is skipped.
ScanEntry(c, p) ==
  /\ Scanning(c) /\ p \in unscanned[c]
  /\ unscanned' = [unscanned EXCEPT ![c] = @ \ {p}]
  /\ found' = [found EXCEPT ![c] =
                 IF Existing(p) /\ parent[p] = Self THEN @ \cup {p} ELSE @]
  /\ UNCHANGED <<lock, subreaper, kernelVars, pc, scopeVars, callVars, tree,
                 histVars>>

\* What the call kept for itself is gone once it returns.
ScopeEnds(c) ==
  /\ lock' = NoCaller
  /\ pc' = [pc EXCEPT ![c] = "returned"]
  /\ wasEnabled' = [wasEnabled EXCEPT ![c] = FALSE]
  /\ baseline' = [baseline EXCEPT ![c] = {}]
  /\ unscanned' = [unscanned EXCEPT ![c] = {}]
  /\ found' = [found EXCEPT ![c] = {}]
  /\ child' = [child EXCEPT ![c] = NoPid]
  /\ reaped' = [reaped EXCEPT ![c] = FALSE]
  /\ expired' = [expired EXCEPT ![c] = FALSE]

\* direct_children fails inside enter: no scope exists yet, so only the
\* mutex guard is dropped and the attribute stays set.
EnterFails(c) ==
  /\ pc[c] = "baseline"
  /\ ScopeEnds(c)
  /\ outcome' = [outcome EXCEPT ![c] = "err"]
  /\ leaked' = TRUE
  /\ UNCHANGED <<subreaper, kernelVars, adopted, tree, hostFlag>>

Entered(c) ==
  /\ pc[c] = "baseline" /\ unscanned[c] = {}
  /\ baseline' = [baseline EXCEPT ![c] = found[c]]
  /\ found' = [found EXCEPT ![c] = {}]
  /\ pc' = [pc EXCEPT ![c] = "spawn"]
  /\ UNCHANGED <<lock, subreaper, kernelVars, wasEnabled, adopted, expired,
                 unscanned, callVars, tree, histVars>>

-----------------------------------------------------------------------------
(***************************************************************************)
(* output_inner, reduced to what it does to processes.                     *)
(***************************************************************************)
\* The child enters a group of its own before spawn returns.
Spawn(c, p) ==
  /\ pc[c] = "spawn" /\ Fresh(p)
  /\ life' = [life EXCEPT ![p] = "alive"]
  /\ parent' = [parent EXCEPT ![p] = Self]
  /\ group' = [group EXCEPT ![p] = p]
  /\ child' = [child EXCEPT ![c] = p]
  /\ tree' = [tree EXCEPT ![c] = @ \cup {p}]
  /\ pc' = [pc EXCEPT ![c] = "wait"]
  /\ UNCHANGED <<lock, subreaper, killed, scopeVars, scanVars, reaped,
                 outcome, histVars>>

SpawnFails(c) ==
  /\ pc[c] = "spawn"
  /\ outcome' = [outcome EXCEPT ![c] = "err"]
  /\ pc' = [pc EXCEPT ![c] = "cleanup"]
  /\ UNCHANGED <<lock, subreaper, kernelVars, scopeVars, scanVars, child,
                 reaped, tree, histVars>>

\* The poll closure's try_wait collects the direct child's status.
Poll(c) ==
  /\ pc[c] = "wait" /\ ~reaped[c] /\ life[child[c]] = "zombie"
  /\ life' = [life EXCEPT ![child[c]] = "gone"]
  /\ reaped' = [reaped EXCEPT ![c] = TRUE]
  /\ UNCHANGED <<lock, subreaper, parent, group, killed, pc, scopeVars,
                 scanVars, child, outcome, tree, histVars>>

GroupOf(c) == {p \in Pids : Existing(p) /\ group[p] = child[c]}

\* Mutant of Succeed: the cleanup is run for failures only.
SucceedWithoutCleanup(c) ==
  /\ pc[c] = "wait" /\ reaped[c]
  /\ killed' = killed \cup GroupOf(c)
  /\ outcome' = [outcome EXCEPT ![c] = "ok"]
  /\ pc' = [pc EXCEPT ![c] = "drop"]
  /\ UNCHANGED <<lock, subreaper, parent, group, life, scopeVars, scanVars,
                 child, reaped, tree, histVars>>

\* Status collected and both pipes complete: terminate_remaining_group.
Succeed(c) ==
  /\ pc[c] = "wait" /\ reaped[c]
  /\ killed' = killed \cup GroupOf(c)
  /\ outcome' = [outcome EXCEPT ![c] = "ok"]
  /\ pc' = [pc EXCEPT ![c] = "cleanup"]
  /\ UNCHANGED <<lock, subreaper, parent, group, life, scopeVars, scanVars,
                 child, reaped, tree, histVars>>

\* A capture, limit, grace or poll failure: terminate_tree.
Fail(c) ==
  /\ pc[c] = "wait"
  /\ killed' = killed \cup GroupOf(c)
                      \cup (IF ~reaped[c] THEN {child[c]} ELSE {})
  /\ outcome' = [outcome EXCEPT ![c] = "err"]
  /\ pc' = [pc EXCEPT ![c] = IF reaped[c] THEN "cleanup" ELSE "reapChild"]
  /\ UNCHANGED <<lock, subreaper, parent, group, life, scopeVars, scanVars,
                 child, reaped, tree, histVars>>

\* reap_until: the direct child exits in time ...
ReapChild(c) ==
  /\ pc[c] = "reapChild" /\ life[child[c]] = "zombie"
  /\ life' = [life EXCEPT ![child[c]] = "gone"]
  /\ reaped' = [reaped EXCEPT ![c] = TRUE]
  /\ pc' = [pc EXCEPT ![c] = "cleanup"]
  /\ UNCHANGED <<lock, subreaper, parent, group, killed, scopeVars, scanVars,
                 child, outcome, tree, histVars>>

\* ... or its deadline passes first.
ReapChildTimesOut(c) ==
  /\ pc[c] = "reapChild"
  /\ pc' = [pc EXCEPT ![c] = "cleanup"]
  /\ UNCHANGED <<lock, subreaper, kernelVars, scopeVars, scanVars, callVars,
                 tree, histVars>>

-----------------------------------------------------------------------------
(***************************************************************************)
(* SubreaperScope::terminate_and_reap and the drop of the scope.           *)
(***************************************************************************)
StartRound(c) ==
  /\ pc[c] = "cleanup"
  /\ BeginScan(c)
  /\ pc' = [pc EXCEPT ![c] = "scan"]
  /\ UNCHANGED <<lock, subreaper, kernelVars, scopeVars, callVars, tree,
                 histVars>>

\* Mutants of Adopted: only the direct child's own group is considered ...
AdoptedInGroup(c) ==
  {p \in found[c] \ baseline[c] : Existing(p) /\ group[p] = child[c]}

\* ... or children in the caller's own group are not left out.
AdoptedAnyGroup(c) == {p \in found[c] \ baseline[c] : Existing(p)}

\* New children of this process outside its own group.
Adopted(c) ==
  {p \in found[c] \ baseline[c] : Existing(p) /\ group[p] # CallerGroup}

Quiesced(c) ==
  /\ pc[c] = "scan" /\ unscanned[c] = {} /\ Adopted(c) = {}
  /\ pc' = [pc EXCEPT ![c] = "drop"]
  /\ UNCHANGED <<lock, subreaper, kernelVars, scopeVars, scanVars, callVars,
                 tree, histVars>>

KillAdopted(c) ==
  /\ pc[c] = "scan" /\ unscanned[c] = {} /\ Adopted(c) # {}
  /\ adopted' = [adopted EXCEPT ![c] = Adopted(c)]
  /\ killed' = killed \cup Adopted(c)
  /\ found' = [found EXCEPT ![c] = {}]
  /\ pc' = [pc EXCEPT ![c] = "reapAdopted"]
  /\ UNCHANGED <<lock, subreaper, parent, group, life, wasEnabled, baseline,
                 expired, unscanned, callVars, tree, histVars>>

\* Mutant of ReapAdopted: the deadline is not looked at.
ReapAdoptedForEver(c) ==
  /\ pc[c] = "reapAdopted"
  /\ life' = [p \in Pids |-> IF p \in adopted[c] /\ life[p] = "zombie"
                             THEN "gone" ELSE life[p]]
  /\ pc' = [pc EXCEPT ![c] = "cleanup"]
  /\ adopted' = [adopted EXCEPT ![c] = {}]
  /\ UNCHANGED <<lock, subreaper, parent, group, killed, wasEnabled, baseline,
                 expired, scanVars, callVars, tree, histVars>>

\* waitpid(NOHANG) on each: only those already dead are collected.  Then the
\* deadline is looked at: give up, or start another round.
ReapAdopted(c) ==
  /\ pc[c] = "reapAdopted"
  /\ life' = [p \in Pids |-> IF p \in adopted[c] /\ life[p] = "zombie"
                             THEN "gone" ELSE life[p]]
  /\ pc' = [pc EXCEPT ![c] = IF expired[c] THEN "drop" ELSE "cleanup"]
  /\ outcome' = [outcome EXCEPT ![c] = IF expired[c] THEN "dirty" ELSE @]
  /\ adopted' = [adopted EXCEPT ![c] = {}]
  /\ UNCHANGED <<lock, subreaper, parent, group, killed, wasEnabled, baseline,
                 expired, scanVars, child, reaped, tree, histVars>>

\* A /proc read or a waitpid fails: terminate_and_reap returns the error.
CleanupFails(c) ==
  /\ pc[c] \in {"scan", "reapAdopted"}
  /\ outcome' = [outcome EXCEPT ![c] = "dirty"]
  /\ adopted' = [adopted EXCEPT ![c] = {}]
  /\ pc' = [pc EXCEPT ![c] = "drop"]
  /\ UNCHANGED <<lock, subreaper, kernelVars, wasEnabled, baseline, expired,
                 scanVars, child, reaped, tree, histVars>>

DeadlinePasses(c) ==
  /\ pc[c] \in {"cleanup", "scan", "reapAdopted"} /\ ~expired[c]
  /\ expired' = [expired EXCEPT ![c] = TRUE]
  /\ UNCHANGED <<lock, subreaper, kernelVars, pc, wasEnabled, baseline,
                 adopted, scanVars, callVars, tree, histVars>>

\* Drop for SubreaperScope runs first ...
DropScope(c) ==
  /\ pc[c] = "drop"
  /\ subreaper' = wasEnabled[c]
  /\ pc' = [pc EXCEPT ![c] = "unlock"]
  /\ UNCHANGED <<lock, kernelVars, scopeVars, scanVars, callVars, tree,
                 histVars>>

\* ... then its fields are dropped, the mutex guard among them.
Unlock(c) ==
  /\ pc[c] = "unlock"
  /\ ScopeEnds(c)
  /\ UNCHANGED <<subreaper, kernelVars, adopted, outcome, tree, histVars>>

-----------------------------------------------------------------------------
Kernel ==
  \/ \E p, q \in Pids : Fork(p, q)
  \/ \E p \in Pids : Setsid(p) \/ Exit(p) \/ ParentReaps(p)
                     \/ UnrelatedSpawn(p) \/ UnrelatedReap(p)

Enter(c) ==
  \/ Acquire(c) \/ EnterFails(c) \/ Entered(c)
  \/ \E p \in Pids : ScanEntry(c, p)

Inner(c) ==
  \/ \E p \in Pids : Spawn(c, p)
  \/ SpawnFails(c) \/ Poll(c) \/ Succeed(c) \/ Fail(c)
  \/ ReapChild(c) \/ ReapChildTimesOut(c)

Cleanup(c) ==
  \/ StartRound(c) \/ Quiesced(c) \/ KillAdopted(c) \/ ReapAdopted(c)
  \/ CleanupFails(c) \/ DeadlinePasses(c) \/ DropScope(c) \/ Unlock(c)

Next == Kernel \/ \E c \in Callers : Enter(c) \/ Inner(c) \/ Cleanup(c)

Spec == Init /\ [][Next]_vars

(***************************************************************************)
(* The callers are running threads and deadlines pass.  Nothing is assumed *)
(* of the command: it may never exit, and a killed process may stay in the *)
(* kernel for ever.                                                        *)
(***************************************************************************)
CallerStep(c) ==
  \/ Entered(c) \/ Poll(c) \/ Succeed(c) \/ ReapChild(c)
  \/ ReapChildTimesOut(c) \/ SpawnFails(c)
  \/ StartRound(c) \/ Quiesced(c) \/ KillAdopted(c) \/ ReapAdopted(c)
  \/ DropScope(c) \/ Unlock(c)
  \/ \E p \in Pids : ScanEntry(c, p)

Fairness == \A c \in Callers : WF_vars(CallerStep(c)) /\ WF_vars(DeadlinePasses(c))

FairSpec == Spec /\ Fairness

-----------------------------------------------------------------------------
(***************************************************************************)
(* Properties.                                                             *)
(***************************************************************************)

(* A call that returns without a cleanup failure leaves no process of its *)
(* command's tree behind, whatever that tree forked, orphaned or moved to  *)
(* another session while the /proc walk was under way (terminate_and_reap).*)
Contained ==
  \A c \in Callers :
    pc[c] = "returned" /\ outcome[c] \in {"ok", "err"}
      => \A p \in tree[c] : ~Existing(p)

(* While a call runs, an orphan of its tree never escapes to init: the     *)
(* subreaper attribute is on for as long as the scope exists, whatever the *)
(* other callers do (SUBREAPER_LOCK, Drop for SubreaperScope).             *)
NeverEscapesToInit ==
  \A c \in Callers :
    Holding(c) /\ pc[c] # "unlock"
      => \A p \in tree[c] : Existing(p) => parent[p] # InitProc

(* A SIGKILL only ever goes to a process of a command's tree: never to a   *)
(* child in the caller's own group, which another thread owns, and never   *)
(* to a child that existed before the scope ("Leave unrelated children     *)
(* alone").                                                                *)
KillsSpareUnrelated ==
  [][\A p \in killed' \ killed :
       /\ group[p] # CallerGroup
       /\ \E c \in Callers : lock = c /\ p \notin baseline[c]]_vars

(* The calling process's subreaper attribute survives every sequence of    *)
(* calls: between calls it is what it was before the first, except that a  *)
(* failed enter() leaves it on; it is never turned off under a host that   *)
(* had it on (SubreaperScope::drop, was_enabled).                          *)
AttributeRestored ==
  /\ lock = NoCaller => (subreaper <=> hostFlag \/ leaked)
  /\ hostFlag => subreaper

(* Once the direct child has ended or the call has given up, the call      *)
(* returns, even if killed descendants never leave the kernel.             *)
CallReturns ==
  \A c \in Callers :
    (pc[c] = "wait" /\ life[child[c]] # "alive") \/ pc[c] = "reapChild"
      ~> pc[c] = "returned"

(* The calls implement the promise of ContainedCommand: one at a time, one *)
(* launch each, and nothing left of the tree on a clean return             *)
(* (bounded_process.rs, output_with_status_poll).                          *)
Abstract == INSTANCE ContainedCommand WITH
  phase    <- [c \in Callers |-> IF Holding(c) THEN "running" ELSE pc[c]],
  live     <- [c \in Callers |-> {p \in tree[c] : Existing(p)}],
  launched <- [c \in Callers |-> tree[c] # {}],
  result   <- outcome

ImplementsContainedCommand == Abstract!Spec

-----------------------------------------------------------------------------
(***************************************************************************)
(* The inductive invariant behind Contained, in named parts.               *)
(***************************************************************************)
\* Only the holder of the lock is inside a call.
LockInv == \A c \in Callers : Holding(c) => lock = c

\* The attribute is on for as long as a scope exists.
FlagInv == \A c \in Callers : Holding(c) /\ pc[c] # "unlock" => subreaper

\* The call's tree is made of fresh processes outside the caller's group.
TreeInv ==
  \A c \in Callers : \A p \in tree[c] :
    life[p] # "unborn" /\ group[p] # CallerGroup /\ p \notin baseline[c]

\* A scope's baseline holds processes that existed when it was taken.
BaselineInv ==
  \A c \in Callers : \A p \in baseline[c] \cup found[c] \cup unscanned[c] :
    life[p] # "unborn"

\* Before the launch there is no tree, and the direct child belongs to it.
LaunchInv ==
  \A c \in Callers :
    /\ pc[c] \in {"idle", "baseline", "spawn"} => tree[c] = {}
    /\ pc[c] \in {"wait", "reapChild"} => child[c] \in tree[c]

\* Inside the tree, every existing process hangs from this process or from
\* a live member with a smaller PID.
LineageInv ==
  \A c \in Callers : Holding(c) /\ pc[c] # "unlock" =>
    \A p \in tree[c] : Existing(p) =>
      \/ parent[p] = Self
      \/ parent[p] \in tree[c] /\ life[parent[p]] = "alive" /\ parent[p] < p

\* While the /proc walk lasts, as long as anything of the tree is left, one
\* of this process's own children has been read or is still to be read.
ScanInv ==
  \A c \in Callers : pc[c] = "scan" /\ (\E p \in tree[c] : Existing(p)) =>
    \E t \in tree[c] : /\ Existing(t) /\ parent[t] = Self
                       /\ t \in found[c] \cup unscanned[c]

\* A clean end means that the tree is gone.
CleanInv ==
  \A c \in Callers : Finished(c) /\ outcome[c] \in {"ok", "err"} =>
    \A p \in tree[c] : ~Existing(p)

\* What each scope restores, and the attribute once it has restored it.
RestoreInv ==
  \A c \in Callers :
    /\ Holding(c) => (wasEnabled[c] <=> hostFlag \/ leaked)
    /\ pc[c] = "unlock" => subreaper = wasEnabled[c]

\* A process group other than the caller's is named after a process that was
\* started, and the direct child's group never leaves the call's tree.
GroupInv ==
  /\ \A p \in Pids : group[p] = CallerGroup \/ life[group[p]] # "unborn"
  /\ \A c \in Callers : pc[c] = "wait" =>
       \A p \in Pids : group[p] = child[c] => p \in tree[c]

\* Past the wait, the call knows how it ends.
DecidedInv ==
  \A c \in Callers :
    Holding(c) /\ pc[c] \notin {"baseline", "spawn", "wait"}
      => outcome[c] # "none"

IInv ==
  /\ TypeOK /\ LockInv /\ FlagInv /\ TreeInv /\ BaselineInv
  /\ LaunchInv /\ LineageInv /\ ScanInv /\ CleanInv
=============================================================================

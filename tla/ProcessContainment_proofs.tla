---------------------- MODULE ProcessContainment_proofs ----------------------
(***************************************************************************)
(* Proofs about ProcessContainment, for every set of callers and of PIDs.  *)
(***************************************************************************)
EXTENDS ProcessContainment, WellFoundedInduction, TLAPS

(* Every variable keeps its type through every step of a call and of the   *)
(* kernel; a call that waits has launched its direct child.                *)
LEMMA TypeStep == TypeOK /\ LaunchInv /\ [Next]_vars => TypeOK'
  <2> SUFFICES ASSUME TypeOK, LaunchInv, [Next]_vars PROVE TypeOK'
    OBVIOUS
  <2> USE PidsAssumption DEF TypeOK, Phases, Outcomes, kernelVars, scopeVars, scanVars,
          callVars, histVars
  <2>1. CASE UNCHANGED vars
    BY <2>1 DEF vars
  <2>2. ASSUME NEW p \in Pids, NEW q \in Pids, Fork(p, q) PROVE TypeOK'
    BY <2>2 DEF Fork, ListNewProcess
  <2>3. ASSUME NEW p \in Pids, Setsid(p) PROVE TypeOK'
    BY <2>3 DEF Setsid
  <2>4. ASSUME NEW p \in Pids, Exit(p) PROVE TypeOK'
    BY <2>4 DEF Exit, Reaper, Self, InitProc
  <2>5. ASSUME NEW p \in Pids, ParentReaps(p) PROVE TypeOK'
    BY <2>5 DEF ParentReaps
  <2>6. ASSUME NEW p \in Pids, UnrelatedSpawn(p) PROVE TypeOK'
    BY <2>6 DEF UnrelatedSpawn, ListNewProcess
  <2>7. ASSUME NEW p \in Pids, UnrelatedReap(p) PROVE TypeOK'
    BY <2>7 DEF UnrelatedReap
  <2>8. ASSUME NEW c \in Callers, Enter(c) PROVE TypeOK'
    <3>1. CASE Acquire(c)
      BY <3>1 DEF Acquire, BeginScan
    <3>2. CASE EnterFails(c)
      BY <3>2 DEF EnterFails, ScopeEnds, NoPid
    <3>3. CASE Entered(c)
      BY <3>3 DEF Entered
    <3>4. ASSUME NEW p \in Pids, ScanEntry(c, p) PROVE TypeOK'
      BY <3>4 DEF ScanEntry
    <3>5. QED
      BY <2>8, <3>1, <3>2, <3>3, <3>4 DEF Enter
  <2>9. ASSUME NEW c \in Callers, Inner(c) PROVE TypeOK'
    <3>1. ASSUME NEW p \in Pids, Spawn(c, p) PROVE TypeOK'
      BY <3>1 DEF Spawn, Self
    <3>2. CASE SpawnFails(c)
      BY <3>2 DEF SpawnFails
    <3>3. CASE Poll(c)
      BY <3>3 DEF Poll
    <3>4. CASE Succeed(c)
      BY <3>4 DEF Succeed, GroupOf
    <3>5. CASE ReapChild(c)
      BY <3>5 DEF ReapChild
    <3>6. CASE ReapChildTimesOut(c)
      BY <3>6 DEF ReapChildTimesOut
    <3>7. CASE Fail(c)
      <4>1. (IF ~reaped[c] THEN {child[c]} ELSE {}) \in SUBSET Pids
        BY <3>7 DEF Fail, LaunchInv
      <4> QED
        BY <3>7, <4>1 DEF Fail, GroupOf
    <3>8. QED
      BY <2>9, <3>1, <3>2, <3>3, <3>4, <3>5, <3>6, <3>7 DEF Inner
  <2>10. ASSUME NEW c \in Callers, Cleanup(c) PROVE TypeOK'
    <3>1. CASE StartRound(c)
      BY <3>1 DEF StartRound, BeginScan
    <3>2. CASE Quiesced(c)
      BY <3>2 DEF Quiesced
    <3>3. CASE KillAdopted(c)
      BY <3>3 DEF KillAdopted, Adopted
    <3>4. CASE ReapAdopted(c)
      BY <3>4 DEF ReapAdopted
    <3>5. CASE CleanupFails(c)
      BY <3>5 DEF CleanupFails
    <3>6. CASE DeadlinePasses(c)
      BY <3>6 DEF DeadlinePasses
    <3>7. CASE DropScope(c)
      BY <3>7 DEF DropScope
    <3>8. CASE Unlock(c)
      BY <3>8 DEF Unlock, ScopeEnds, NoPid
    <3>9. QED
      BY <2>10, <3>1, <3>2, <3>3, <3>4, <3>5, <3>6, <3>7, <3>8 DEF Cleanup
  <2>11. QED
    BY <2>1, <2>2, <2>3, <2>4, <2>5, <2>6, <2>7, <2>8, <2>9, <2>10
       DEF Next, Kernel

(* A call has no process before it spawns one, and while it waits for or   *)
(* reaps a direct child, that child is one it spawned (output_inner's      *)
(* child and group are set by the spawn).                                  *)
LEMMA LaunchStep == TypeOK /\ LaunchInv /\ [Next]_vars => LaunchInv'
<1> SUFFICES ASSUME TypeOK, LaunchInv, [Next]_vars PROVE LaunchInv'
  OBVIOUS
<1> USE DEF TypeOK, LaunchInv, kernelVars, scopeVars, scanVars, callVars, histVars
<1>1. CASE UNCHANGED vars
  BY <1>1 DEF vars
<1>2. CASE Kernel
  BY <1>2 DEF Kernel, Fork, Setsid, Exit, ParentReaps, UnrelatedSpawn, UnrelatedReap
<1>3. ASSUME NEW c \in Callers, Enter(c) PROVE LaunchInv'
  BY <1>3 DEF Enter, Acquire, BeginScan, EnterFails, ScopeEnds, Entered, ScanEntry
<1>4. ASSUME NEW c \in Callers, Inner(c) PROVE LaunchInv'
  <2>1. ASSUME NEW p \in Pids, Spawn(c, p) PROVE LaunchInv'
    BY <2>1 DEF Spawn
  <2>2. CASE SpawnFails(c)
    BY <2>2 DEF SpawnFails
  <2>3. CASE Poll(c)
    BY <2>3 DEF Poll
  <2>4. CASE Succeed(c)
    BY <2>4 DEF Succeed
  <2>5. CASE Fail(c)
    BY <2>5 DEF Fail
  <2>6. CASE ReapChild(c) \/ ReapChildTimesOut(c)
    BY <2>6 DEF ReapChild, ReapChildTimesOut
  <2>7. QED
    BY <1>4, <2>1, <2>2, <2>3, <2>4, <2>5, <2>6 DEF Inner
<1>5. ASSUME NEW c \in Callers, Cleanup(c) PROVE LaunchInv'
  BY <1>5 DEF Cleanup, StartRound, BeginScan, Quiesced, KillAdopted,
     ReapAdopted, CleanupFails, DeadlinePasses, DropScope, Unlock, ScopeEnds
<1>6. QED
  BY <1>1, <1>2, <1>3, <1>4, <1>5 DEF Next

(* Before any call every variable has its type and no call has launched    *)
(* anything.                                                               *)
LEMMA InitTyped == Init => TypeOK /\ LaunchInv
<1>1. Init => TypeOK
  <2> SUFFICES ASSUME Init PROVE TypeOK
    OBVIOUS
  <2>1. /\ subreaper \in BOOLEAN /\ hostFlag \in BOOLEAN /\ leaked \in BOOLEAN
        /\ wasEnabled \in [Callers -> BOOLEAN]
        /\ reaped \in [Callers -> BOOLEAN] /\ expired \in [Callers -> BOOLEAN]
    BY Zenon DEF Init
  <2>2. /\ parent \in [Pids -> Pids \cup {Self, InitProc}]
        /\ group \in [Pids -> Pids \cup {CallerGroup}]
        /\ child \in [Callers -> Pids \cup {NoPid}]
    BY DEF Init
  <2>3. QED
    BY <2>1, <2>2 DEF Init, TypeOK, Phases, Outcomes
<1>2. Init => LaunchInv
  BY DEF Init, LaunchInv
<1>3. QED
  BY <1>1, <1>2

(* Every variable keeps its type for ever: in particular a PID that the    *)
(* code kills or waits for is always that of a process, never the 0 that   *)
(* kill(2) takes for the caller's own group (terminate_tree).              *)
THEOREM TypeCorrect == Spec => []TypeOK
<1>1. TypeOK /\ LaunchInv /\ [Next]_vars => (TypeOK /\ LaunchInv)'
  BY TypeStep, LaunchStep
<1>2. QED
  BY <1>1, InitTyped, PTL DEF Spec

-----------------------------------------------------------------------------
(***************************************************************************)
(* One lemma per part of the inductive invariant.                          *)
(***************************************************************************)
(* No step lets a second caller into a call (SUBREAPER_LOCK).              *)
LEMMA LockStep == TypeOK /\ LockInv /\ [Next]_vars => LockInv'
<1> SUFFICES ASSUME TypeOK, LockInv, [Next]_vars PROVE LockInv'
  OBVIOUS
<1> USE CallersAssumption DEF TypeOK, LockInv, Holding
<1>1. CASE UNCHANGED vars
  BY <1>1 DEF vars
<1>2. CASE Kernel
  BY <1>2 DEF Kernel, Fork, Setsid, Exit, ParentReaps, UnrelatedSpawn, UnrelatedReap
<1>3. ASSUME NEW c \in Callers, Enter(c) PROVE LockInv'
  BY <1>3 DEF Enter, Acquire, EnterFails, ScopeEnds, Entered, ScanEntry
<1>4. ASSUME NEW c \in Callers, Inner(c) PROVE LockInv'
  BY <1>4 DEF Inner, Spawn, SpawnFails, Poll, Succeed, Fail, ReapChild, ReapChildTimesOut
<1>5. ASSUME NEW c \in Callers, Cleanup(c) PROVE LockInv'
  BY <1>5 DEF Cleanup, StartRound, Quiesced, KillAdopted, ReapAdopted,
     CleanupFails, DeadlinePasses, DropScope, Unlock, ScopeEnds
<1>6. QED
  BY <1>1, <1>2, <1>3, <1>4, <1>5 DEF Next

(* No step turns the subreaper attribute off under a scope: only the       *)
(* holder of the lock writes it (enter, Drop for SubreaperScope).          *)
LEMMA FlagStep == TypeOK /\ LockInv /\ FlagInv /\ [Next]_vars => FlagInv'
<1> SUFFICES ASSUME TypeOK, LockInv, FlagInv, [Next]_vars PROVE FlagInv'
  OBVIOUS
<1> USE CallersAssumption DEF TypeOK, LockInv, FlagInv, Holding
<1>1. CASE UNCHANGED vars
  BY <1>1 DEF vars
<1>2. CASE Kernel
  BY <1>2 DEF Kernel, Fork, Setsid, Exit, ParentReaps, UnrelatedSpawn, UnrelatedReap
<1>3. ASSUME NEW c \in Callers, Enter(c) PROVE FlagInv'
  BY <1>3 DEF Enter, Acquire, EnterFails, ScopeEnds, Entered, ScanEntry
<1>4. ASSUME NEW c \in Callers, Inner(c) PROVE FlagInv'
  BY <1>4 DEF Inner, Spawn, SpawnFails, Poll, Succeed, Fail, ReapChild, ReapChildTimesOut
<1>5. ASSUME NEW c \in Callers, Cleanup(c) PROVE FlagInv'
  BY <1>5 DEF Cleanup, StartRound, Quiesced, KillAdopted, ReapAdopted,
     CleanupFails, DeadlinePasses, DropScope, Unlock, ScopeEnds
<1>6. QED
  BY <1>1, <1>2, <1>3, <1>4, <1>5 DEF Next

(* A scope's baseline, and what a /proc walk has read or will read, only   *)
(* ever holds PIDs that were in use (direct_children).                     *)
LEMMA BaselineStep == TypeOK /\ BaselineInv /\ [Next]_vars => BaselineInv'
<1> SUFFICES ASSUME TypeOK, BaselineInv, [Next]_vars PROVE BaselineInv'
  OBVIOUS
<1> USE DEF TypeOK, BaselineInv, scopeVars, scanVars, kernelVars, callVars
<1>1. CASE UNCHANGED vars
  BY <1>1 DEF vars
<1>2. CASE Kernel
  BY <1>2 DEF Kernel, Fork, Setsid, Exit, ParentReaps, UnrelatedSpawn,
     UnrelatedReap, ListNewProcess
<1>3. ASSUME NEW c \in Callers, Enter(c) PROVE BaselineInv'
  BY <1>3 DEF Enter, Acquire, BeginScan, Existing, EnterFails, ScopeEnds, Entered, ScanEntry
<1>4. ASSUME NEW c \in Callers, Inner(c) PROVE BaselineInv'
  BY <1>4 DEF Inner, Spawn, SpawnFails, Poll, Succeed, Fail, ReapChild, ReapChildTimesOut
<1>5. ASSUME NEW c \in Callers, Cleanup(c) PROVE BaselineInv'
  BY <1>5 DEF Cleanup, StartRound, BeginScan, Existing, Quiesced, KillAdopted, ReapAdopted,
     CleanupFails, DeadlinePasses, DropScope, Unlock, ScopeEnds
<1>6. QED
  BY <1>1, <1>2, <1>3, <1>4, <1>5 DEF Next

(* A step that ends or regroups processes, but adds none to a tree, leaves *)
(* the tree's invariant as it is (Exit, Setsid and the reaping steps).     *)
LEMMA TreeFrame ==
  ASSUME TypeOK, TreeInv, tree' = tree,
         \A c \in Callers : baseline'[c] \subseteq baseline[c],
         \A q \in Pids : life'[q] = "unborn" => life[q] = "unborn",
         \A q \in Pids : group'[q] = CallerGroup => group[q] = CallerGroup
  PROVE  TreeInv'
BY DEF TypeOK, TreeInv

(* A command's tree stays disjoint from the baseline and outside the       *)
(* caller's process group (prepare's setpgid, terminate_and_reap's filter).*)
LEMMA TreeStep ==
  TypeOK /\ LaunchInv /\ BaselineInv /\ TreeInv /\ [Next]_vars => TreeInv'
<1> SUFFICES ASSUME TypeOK, LaunchInv, BaselineInv, TreeInv, [Next]_vars
             PROVE TreeInv'
  OBVIOUS
<1> USE DEF scopeVars, scanVars, kernelVars, callVars
<1>1. CASE UNCHANGED vars
  BY <1>1, TreeFrame DEF vars
<1>2. ASSUME NEW p \in Pids, NEW q \in Pids, Fork(p, q) PROVE TreeInv'
  BY <1>2 DEF Fork, Fresh, TypeOK, TreeInv, BaselineInv
<1>3. ASSUME NEW p \in Pids, Setsid(p) PROVE TreeInv'
  BY <1>3, TreeFrame, PidsAssumption DEF Setsid, TypeOK, CallerGroup
<1>4. ASSUME NEW p \in Pids, Exit(p) PROVE TreeInv'
  BY <1>4, TreeFrame DEF Exit, TypeOK
<1>5. ASSUME NEW p \in Pids, ParentReaps(p) \/ UnrelatedReap(p) \/ UnrelatedSpawn(p)
      PROVE TreeInv'
  BY <1>5, TreeFrame DEF ParentReaps, UnrelatedReap, UnrelatedSpawn, TypeOK
<1>6. ASSUME NEW c \in Callers, Enter(c) PROVE TreeInv'
  <2>1. CASE Acquire(c)
    BY <2>1 DEF Acquire, TypeOK, TreeInv
  <2>2. CASE EnterFails(c)
    BY <2>2, TreeFrame DEF EnterFails, ScopeEnds, TypeOK
  <2>3. CASE Entered(c)
    BY <2>3 DEF Entered, TypeOK, TreeInv, LaunchInv
  <2>4. ASSUME NEW p \in Pids, ScanEntry(c, p) PROVE TreeInv'
    BY <2>4, TreeFrame DEF ScanEntry
  <2>5. QED
    BY <1>6, <2>1, <2>2, <2>3, <2>4 DEF Enter
<1>7. ASSUME NEW c \in Callers, Inner(c) PROVE TreeInv'
  <2>1. ASSUME NEW p \in Pids, Spawn(c, p) PROVE TreeInv'
    BY <2>1, PidsAssumption DEF Spawn, Fresh, TypeOK, TreeInv, BaselineInv, CallerGroup
  <2>2. CASE SpawnFails(c) \/ Succeed(c) \/ Fail(c) \/ ReapChildTimesOut(c)
    BY <2>2, TreeFrame DEF SpawnFails, Succeed, Fail, ReapChildTimesOut
  <2>3. CASE Poll(c) \/ ReapChild(c)
    BY <2>3, TreeFrame DEF Poll, ReapChild, TypeOK
  <2>4. QED
    BY <1>7, <2>1, <2>2, <2>3 DEF Inner
<1>8. ASSUME NEW c \in Callers, Cleanup(c) PROVE TreeInv'
  <2>1. CASE ReapAdopted(c)
    BY <2>1, TreeFrame DEF ReapAdopted, TypeOK
  <2>2. CASE Unlock(c)
    BY <2>2, TreeFrame DEF Unlock, ScopeEnds, TypeOK
  <2>3. QED
    BY <1>8, <2>1, <2>2, TreeFrame DEF Cleanup, StartRound, Quiesced, KillAdopted,
       CleanupFails, DeadlinePasses, DropScope
<1>9. QED
  BY <1>1, <1>2, <1>3, <1>4, <1>5, <1>6, <1>7, <1>8 DEF Next, Kernel

(* While a scope exists, what is left of a command's tree hangs together:  *)
(* each member's parent is this process or a live member with a smaller    *)
(* PID, whatever forks and exits (the subreaper attribute).                *)
LEMMA LineageStep ==
  TypeOK /\ LockInv /\ FlagInv /\ LaunchInv /\ TreeInv /\ LineageInv /\ [Next]_vars
    => LineageInv'
<1> SUFFICES ASSUME TypeOK, LockInv, FlagInv, LaunchInv, TreeInv, LineageInv,
                    [Next]_vars,
                    NEW c \in Callers, Holding(c)', pc'[c] # "unlock",
                    NEW r \in tree'[c], Existing(r)'
             PROVE  \/ parent'[r] = Self
                    \/ /\ parent'[r] \in tree'[c] /\ life'[parent'[r]] = "alive"
                       /\ parent'[r] < r
  BY DEF LineageInv
<1> USE PidsAssumption DEF TypeOK, Existing, Self, scopeVars, scanVars, kernelVars, callVars
<1> DEFINE Hangs(p) == \/ parent[p] = Self
                       \/ /\ parent[p] \in tree[c] /\ life[parent[p]] = "alive"
                          /\ parent[p] < p
<1>0. Holding(c) /\ pc[c] # "unlock" => \A p \in tree[c] : Existing(p) => Hangs(p)
  BY DEF LineageInv
<1>k. ASSUME pc' = pc PROVE Holding(c) /\ pc[c] # "unlock"
  BY <1>k DEF Holding
<1>1. CASE UNCHANGED vars
  BY <1>1, <1>0, <1>k DEF vars
<1>2. ASSUME NEW p \in Pids, NEW q \in Pids, Fork(p, q)
      PROVE Hangs(r)'
  <2>1. CASE r = q
    <3>1. p \in tree[c] /\ parent'[r] = p /\ life'[p] = "alive" /\ p \in tree'[c]
      BY <1>2, <2>1 DEF Fork, Fresh, TreeInv
    <3>2. p < r
      BY <1>2, <2>1 DEF Fork, Fresh
    <3>3. QED
      BY <3>1, <3>2
  <2>2. CASE r # q
    <3>1. r \in tree[c] /\ Existing(r) /\ Hangs(r)
      BY <1>2, <2>2, <1>0, <1>k DEF Fork
    <3>2. parent'[r] = parent[r] /\ tree[c] \subseteq tree'[c]
      BY <1>2, <2>2 DEF Fork
    <3>3. \A s \in Pids : life[s] = "alive" => life'[s] = "alive"
      BY <1>2 DEF Fork
    <3>4. QED
      BY <3>1, <3>2, <3>3
  <2>3. QED
    BY <2>1, <2>2
<1>3. ASSUME NEW p \in Pids, Exit(p) PROVE Hangs(r)'
  <2>1. r \in tree[c] /\ Existing(r) /\ Hangs(r) /\ tree'[c] = tree[c]
    BY <1>3, <1>0, <1>k DEF Exit
  <2>2. subreaper
    BY <1>3, <1>k DEF FlagInv, Exit
  <2>3. CASE parent[r] = p
    BY <1>3, <2>2, <2>3 DEF Exit, Reaper
  <2>4. CASE parent[r] # p
    <3>1. parent'[r] = parent[r]
      BY <1>3, <2>4, <2>1 DEF Exit
    <3>2. \A s \in Pids \ {p} : life[s] = "alive" => life'[s] = "alive"
      BY <1>3 DEF Exit
    <3>3. QED
      BY <2>1, <2>4, <3>1, <3>2
  <2>5. QED
    BY <2>3, <2>4
<1>4. ASSUME NEW p \in Pids,
             Setsid(p) \/ ParentReaps(p) \/ UnrelatedReap(p) \/ UnrelatedSpawn(p)
      PROVE Hangs(r)'
  <2>1. pc' = pc /\ tree' = tree /\ parent' = parent
    BY <1>4 DEF Setsid, ParentReaps, UnrelatedReap, UnrelatedSpawn
  <2>2. \A s \in Pids : life[s] = "alive" => life'[s] = "alive"
    BY <1>4 DEF Setsid, ParentReaps, UnrelatedReap, UnrelatedSpawn
  <2>3. life[r] # "unborn"
    BY <2>1 DEF TreeInv
  <2>4. Existing(r)
    BY <1>4, <2>1, <2>3 DEF Setsid, ParentReaps, UnrelatedReap, UnrelatedSpawn, Fresh
  <2>5. QED
    BY <1>0, <1>k, <2>1, <2>2, <2>4
<1>5. ASSUME NEW d \in Callers, Enter(d) PROVE Hangs(r)'
  <2>1. CASE Acquire(d)
    BY <2>1, <1>0 DEF Acquire, LockInv, Holding
  <2>2. CASE EnterFails(d)
    BY <2>2, <1>0 DEF EnterFails, ScopeEnds, Holding
  <2>3. CASE Entered(d)
    BY <2>3, <1>0 DEF Entered, Holding
  <2>4. ASSUME NEW p \in Pids, ScanEntry(d, p) PROVE Hangs(r)'
    BY <2>4, <1>0, <1>k DEF ScanEntry
  <2>5. QED
    BY <1>5, <2>1, <2>2, <2>3, <2>4 DEF Enter
<1>6. ASSUME NEW d \in Callers, Inner(d) PROVE Hangs(r)'
  <2>1. ASSUME NEW p \in Pids, Spawn(d, p) PROVE Hangs(r)'
    <3>1. CASE r = p
      BY <2>1, <3>1 DEF Spawn
    <3>2. CASE r # p
      <4>1. r \in tree[c] /\ Holding(c) /\ pc[c] # "unlock" /\ Existing(r)
        BY <2>1, <3>2 DEF Spawn, Holding
      <4>2. Hangs(r)
        BY <4>1, <1>0
      <4>3. parent'[r] = parent[r] /\ tree[c] \subseteq tree'[c]
        BY <2>1, <3>2, <4>1 DEF Spawn
      <4>4. \A s \in Pids : life[s] = "alive" => life'[s] = "alive"
        BY <2>1 DEF Spawn
      <4>5. QED
        BY <4>1, <4>2, <4>3, <4>4
    <3>3. QED
      BY <3>1, <3>2
  <2>2. CASE SpawnFails(d) \/ Succeed(d) \/ Fail(d) \/ ReapChildTimesOut(d)
    BY <2>2, <1>0 DEF SpawnFails, Succeed, Fail, ReapChildTimesOut, Holding
  <2>3. CASE Poll(d) \/ ReapChild(d)
    <3>1. parent' = parent /\ tree' = tree /\ Holding(c) /\ pc[c] # "unlock"
      BY <2>3 DEF Poll, ReapChild, Holding
    <3>2. Existing(r) /\ \A s \in Pids : life[s] = "alive" => life'[s] = "alive"
      BY <2>3 DEF Poll, ReapChild
    <3>3. QED
      BY <3>1, <3>2, <1>0
  <2>4. QED
    BY <1>6, <2>1, <2>2, <2>3 DEF Inner
<1>7. ASSUME NEW d \in Callers, Cleanup(d) PROVE Hangs(r)'
  <2>1. CASE ReapAdopted(d)
    <3>1. parent' = parent /\ tree' = tree /\ Holding(c) /\ pc[c] # "unlock"
      BY <2>1 DEF ReapAdopted, Holding
    <3>2. Existing(r) /\ \A s \in Pids : life[s] = "alive" => life'[s] = "alive"
      BY <2>1, <3>1 DEF ReapAdopted
    <3>3. QED
      BY <3>1, <3>2, <1>0
  <2>2. CASE Unlock(d)
    BY <2>2, <1>0 DEF Unlock, ScopeEnds, Holding
  <2>3. CASE DropScope(d)
    BY <2>3, <1>0 DEF DropScope, Holding
  <2>4. QED
    BY <1>7, <2>1, <2>2, <2>3, <1>0 DEF Cleanup, StartRound, Quiesced, KillAdopted,
       CleanupFails, DeadlinePasses, Holding
<1>8. QED
  BY <1>1, <1>2, <1>3, <1>4, <1>5, <1>6, <1>7 DEF Next, Kernel

(* What is left of a tree has a member whose parent is this process: the   *)
(* one with the smallest PID (the child that direct_children can see).     *)
LEMMA TopExists ==
  ASSUME TypeOK, LineageInv, NEW c \in Callers, Holding(c), pc[c] # "unlock",
         \E p \in tree[c] : Existing(p)
  PROVE  \E t \in tree[c] : Existing(t) /\ parent[t] = Self
<1> DEFINE T == {p \in tree[c] : Existing(p)}
           R == OpToRel(<, Nat)
<1>1. T \subseteq Nat /\ T # {}
  BY PidsAssumption DEF TypeOK
<1>2. \E t \in T : \A y \in T : ~(<<y, t>> \in R)
  <2> HIDE DEF T, R
  <2> QED
    BY <1>1, NatLessThanWellFounded, WFMin DEF R
<1>3. PICK t \in T : \A y \in T : ~(<<y, t>> \in R)
  BY <1>2
<1>4. \A y \in T : ~(y < t)
  <2> TAKE y \in T
  <2>1. <<y, t>> \in Nat \X Nat /\ <<y, t>>[1] = y /\ <<y, t>>[2] = t
    BY <1>1
  <2>2. <<y, t>> \notin {ss \in Nat \X Nat : ss[1] < ss[2]}
    BY <1>3 DEF OpToRel
  <2> QED
    BY <2>1, <2>2
<1>5. ~(parent[t] \in tree[c] /\ life[parent[t]] = "alive" /\ parent[t] < t)
  BY <1>4 DEF Existing
<1>6. QED
  BY <1>3, <1>5 DEF LineageInv

(* While direct_children walks /proc, something that is left of the tree   *)
(* always keeps one of this process's own children among the entries read  *)
(* or still to be read: the walk cannot miss the tree altogether.          *)
LEMMA ScanStep ==
  TypeOK /\ LockInv /\ LaunchInv /\ TreeInv /\ LineageInv /\ ScanInv /\ [Next]_vars
    => ScanInv'
<1> SUFFICES ASSUME TypeOK, LockInv, LaunchInv, TreeInv, LineageInv, ScanInv,
                    [Next]_vars
             PROVE  ScanInv'
  OBVIOUS
<1> SUFFICES ASSUME NEW c \in Callers, pc'[c] = "scan",
                    NEW r \in tree'[c], Existing(r)'
             PROVE  \E t \in tree'[c] :
                      /\ Existing(t)' /\ parent'[t] = Self
                      /\ t \in found'[c] \cup unscanned'[c]
  BY DEF ScanInv, Existing
<1> USE PidsAssumption DEF scopeVars, scanVars, kernelVars, callVars
<1> DEFINE Top(t) == /\ t \in tree[c] /\ Existing(t) /\ parent[t] = Self
                     /\ t \in found[c] \cup unscanned[c]
<1>s. SUFFICES \E t \in Pids : Top(t)'
  BY DEF TypeOK
<1>0. ASSUME pc[c] = "scan", NEW s \in tree[c], Existing(s)
      PROVE  \E t \in Pids : Top(t)
  BY <1>0 DEF ScanInv, TypeOK
<1>1. CASE UNCHANGED vars
  BY <1>1, <1>0 DEF vars, Existing
<1>2. ASSUME NEW p \in Pids, NEW q \in Pids, Fork(p, q)
      PROVE \E t \in Pids : Top(t)'
  <2>1. pc[c] = "scan" /\ \E s \in tree[c] : Existing(s)
    <3>1. pc[c] = "scan" /\ life[p] = "alive"
      BY <1>2 DEF Fork
    <3>2. CASE p \in tree[c]
      BY <3>1, <3>2 DEF Existing
    <3>3. CASE p \notin tree[c]
      <4>1. r \in tree[c]
        BY <1>2, <3>3 DEF Fork, TypeOK
      <4>2. r # q
        BY <1>2, <4>1 DEF Fork, Fresh, TreeInv
      <4>3. Existing(r)
        BY <1>2, <4>1, <4>2 DEF Fork, Existing, TypeOK
      <4>4. QED
        BY <3>1, <4>1, <4>3
    <3>4. QED
      BY <3>2, <3>3
  <2>2. PICK t \in Pids : Top(t)
    BY <2>1, <1>0
  <2>3. t # q
    BY <1>2, <2>2 DEF Fork, Fresh, Existing
  <2>4. t \in found'[c] \cup unscanned'[c]
    BY <1>2, <2>2 DEF Fork, ListNewProcess, TypeOK
  <2>5. t \in tree'[c] /\ life'[t] = life[t] /\ parent'[t] = parent[t]
    BY <1>2, <2>2, <2>3 DEF Fork, TypeOK
  <2>6. QED
    BY <2>2, <2>4, <2>5 DEF Existing
<1>3. ASSUME NEW p \in Pids, Exit(p) PROVE \E t \in Pids : Top(t)'
  <2>1. pc[c] = "scan" /\ r \in tree[c] /\ Existing(r)
    BY <1>3 DEF Exit, Existing, TypeOK
  <2>2. PICK t \in Pids : Top(t)
    BY <2>1, <1>0
  <2>3. parent[t] # p /\ parent[t] # InitProc
    BY <2>2 DEF Self, InitProc
  <2>4. Existing(t)' /\ parent'[t] = Self
    BY <1>3, <2>2, <2>3 DEF Exit, Existing, TypeOK
  <2>5. QED
    BY <1>3, <2>2, <2>4 DEF Exit
<1>4. ASSUME NEW p \in Pids,
             Setsid(p) \/ ParentReaps(p) \/ UnrelatedReap(p) \/ UnrelatedSpawn(p)
      PROVE \E t \in Pids : Top(t)'
  <2>1. /\ pc[c] = "scan" /\ r \in tree[c] /\ tree' = tree /\ parent' = parent
        /\ found' = found /\ unscanned[c] \subseteq unscanned'[c]
    BY <1>4 DEF Setsid, ParentReaps, UnrelatedReap, UnrelatedSpawn,
       ListNewProcess, TypeOK
  <2>2. Existing(r)
    BY <1>4, <2>1 DEF Setsid, ParentReaps, UnrelatedReap, UnrelatedSpawn, Fresh,
       Existing, TypeOK, TreeInv
  <2>3. PICK t \in Pids : Top(t)
    BY <2>1, <2>2, <1>0
  <2>4. group[t] # CallerGroup
    BY <2>3 DEF TreeInv
  <2>5. Existing(t)'
    BY <1>4, <2>3, <2>4 DEF Setsid, ParentReaps, UnrelatedReap, UnrelatedSpawn,
       Fresh, Existing, TypeOK, Self
  <2>6. QED
    BY <2>1, <2>3, <2>5
<1>5. ASSUME NEW d \in Callers, Enter(d) PROVE \E t \in Pids : Top(t)'
  <2>1. CASE Acquire(d) \/ EnterFails(d)
    BY <2>1, CallersAssumption DEF Acquire, EnterFails, ScopeEnds, LockInv, Holding, TypeOK
  <2>2. CASE Entered(d)
    BY <2>2, <1>0 DEF Entered, LockInv, Holding, TypeOK, Existing
  <2>3. ASSUME NEW p \in Pids, ScanEntry(d, p) PROVE \E t \in Pids : Top(t)'
    <3>1. pc[c] = "scan" /\ r \in tree[c] /\ Existing(r)
      BY <2>3 DEF ScanEntry, Existing
    <3>2. PICK t \in Pids : Top(t)
      BY <3>1, <1>0
    <3>3. t \in found'[c] \cup unscanned'[c]
      BY <2>3, <3>2 DEF ScanEntry, TypeOK
    <3>4. QED
      BY <2>3, <3>2, <3>3 DEF ScanEntry, Existing
  <2>4. QED
    BY <1>5, <2>1, <2>2, <2>3 DEF Enter
<1>6. ASSUME NEW d \in Callers, Inner(d) PROVE \E t \in Pids : Top(t)'
  <2>1. d = c \/ pc[d] \notin {"spawn", "wait", "reapChild"}
    BY <1>6 DEF LockInv, Holding, Inner, Spawn, SpawnFails, Poll, Succeed, Fail,
       ReapChild, ReapChildTimesOut, TypeOK
  <2>2. QED
    BY <1>6, <2>1 DEF Inner, Spawn, SpawnFails, Poll, Succeed, Fail,
       ReapChild, ReapChildTimesOut, TypeOK
<1>7. ASSUME NEW d \in Callers, Cleanup(d) PROVE \E t \in Pids : Top(t)'
  <2>1. CASE StartRound(c)
    <3>1. r \in tree[c] /\ Existing(r)
      BY <2>1 DEF StartRound, Existing
    <3>2. PICK t \in tree[c] : Existing(t) /\ parent[t] = Self
      BY <2>1, <3>1, TopExists DEF StartRound, Holding
    <3>3. t \in Pids /\ t \in unscanned'[c]
      BY <2>1, <3>2 DEF StartRound, BeginScan, TypeOK
    <3>4. QED
      BY <2>1, <3>2, <3>3 DEF StartRound, Existing
  <2>2. ASSUME d # c PROVE FALSE
    <3>1. pc[d] \in {"cleanup", "scan", "reapAdopted", "drop", "unlock"} /\ pc[c] = pc'[c]
      BY <1>7, <2>2 DEF Cleanup, StartRound, Quiesced, KillAdopted, ReapAdopted,
         CleanupFails, DeadlinePasses, DropScope, Unlock, ScopeEnds, TypeOK
    <3>2. QED
      BY <2>2, <3>1 DEF LockInv, Holding
  <2>3. CASE DeadlinePasses(c)
    <3>1. pc[c] = "scan" /\ r \in tree[c] /\ Existing(r)
      BY <2>3 DEF DeadlinePasses, Existing
    <3>2. PICK t \in Pids : Top(t)
      BY <3>1, <1>0
    <3>3. QED
      BY <2>3, <3>2 DEF DeadlinePasses, Existing
  <2>4. QED
    BY <1>7, <2>1, <2>2, <2>3 DEF Cleanup, StartRound, Quiesced, KillAdopted, ReapAdopted,
       CleanupFails, DropScope, Unlock, ScopeEnds, TypeOK
<1>8. QED
  BY <1>1, <1>2, <1>3, <1>4, <1>5, <1>6, <1>7 DEF Next, Kernel

(* A call whose cleanup found nothing left stays clean until the caller    *)
(* starts its next call (terminate_and_reap's Ok return).                  *)
LEMMA CleanStep ==
  TypeOK /\ LockInv /\ LaunchInv /\ TreeInv /\ ScanInv /\ CleanInv /\ [Next]_vars
    => CleanInv'
<1> SUFFICES ASSUME TypeOK, LockInv, LaunchInv, TreeInv, ScanInv, CleanInv,
                    [Next]_vars
             PROVE  CleanInv'
  OBVIOUS
<1> SUFFICES ASSUME NEW c \in Callers, Finished(c)', outcome'[c] \in {"ok", "err"},
                    NEW r \in tree'[c]
             PROVE  ~Existing(r)'
  BY DEF CleanInv
<1> USE PidsAssumption DEF scopeVars, scanVars, kernelVars, callVars
<1>0. ASSUME Finished(c), outcome[c] \in {"ok", "err"}
      PROVE  \A p \in tree[c] : life[p] = "gone"
  BY <1>0 DEF CleanInv, Existing, TypeOK, TreeInv
<1>1. CASE UNCHANGED vars
  BY <1>1, <1>0 DEF vars, Existing, Finished
<1>2. CASE Kernel
  <2>1. \A p \in tree[c] : life[p] = "gone"
    BY <1>2, <1>0 DEF Kernel, Fork, Setsid, Exit, ParentReaps, UnrelatedReap,
       UnrelatedSpawn, Finished
  <2>2. ASSUME NEW p \in Pids, NEW q \in Pids, Fork(p, q) PROVE ~Existing(r)'
    <3>1. p \notin tree[c] /\ q \notin tree[c]
      BY <2>1, <2>2 DEF Fork, Fresh
    <3>2. QED
      BY <2>1, <2>2, <3>1 DEF Fork, Existing, TypeOK
  <2>3. ASSUME NEW p \in Pids,
               Setsid(p) \/ ParentReaps(p) \/ UnrelatedReap(p) \/ UnrelatedSpawn(p)
        PROVE ~Existing(r)'
    BY <2>1, <2>3 DEF Setsid, ParentReaps, UnrelatedReap, UnrelatedSpawn, Fresh,
       Existing, TypeOK
  <2>4. ASSUME NEW p \in Pids, Exit(p) PROVE ~Existing(r)'
    BY <2>1, <2>4 DEF Exit, Existing, TypeOK
  <2>5. QED
    BY <1>2, <2>2, <2>3, <2>4 DEF Kernel
<1>3. ASSUME NEW d \in Callers, Enter(d) PROVE ~Existing(r)'
  <2>1. CASE Acquire(d)
    BY <2>1, <1>0 DEF Acquire, Finished, Existing, TypeOK
  <2>2. CASE EnterFails(d)
    BY <2>2, <1>0 DEF EnterFails, ScopeEnds, LaunchInv, Finished, Existing, TypeOK
  <2>3. CASE Entered(d) \/ \E p \in Pids : ScanEntry(d, p)
    BY <2>3, <1>0 DEF Entered, ScanEntry, Finished, Existing, TypeOK
  <2>4. QED
    BY <1>3, <2>1, <2>2, <2>3 DEF Enter
<1>4. ASSUME NEW d \in Callers, Inner(d) PROVE ~Existing(r)'
  <2>1. pc[d] \in {"spawn", "wait", "reapChild"}
    BY <1>4 DEF Inner, Spawn, SpawnFails, Poll, Succeed, Fail, ReapChild,
       ReapChildTimesOut
  <2>2. d # c /\ Finished(c) /\ outcome'[c] = outcome[c]
    BY <1>4, <2>1 DEF Inner, Spawn, SpawnFails, Poll, Succeed, Fail, ReapChild,
       ReapChildTimesOut, Finished, TypeOK
  <2>3. tree'[c] = tree[c]
    BY <1>4, <2>2 DEF Inner, Spawn, SpawnFails, Poll, Succeed, Fail, ReapChild,
       ReapChildTimesOut, TypeOK
  <2>4. life[r] = "gone" /\ r \in Pids
    BY <1>0, <2>2, <2>3 DEF TypeOK
  <2>5. life'[r] = "gone"
    BY <1>4, <2>4 DEF Inner, Spawn, SpawnFails, Poll, Succeed, Fail, ReapChild,
       ReapChildTimesOut, Fresh, TypeOK
  <2>6. QED
    BY <2>5 DEF Existing
<1>5. ASSUME NEW d \in Callers, Cleanup(d) PROVE ~Existing(r)'
  <2>1. CASE Quiesced(d) /\ d = c
    <3>1. ASSUME NEW t \in tree[c], Existing(t), parent[t] = Self,
                 t \in found[c] \cup unscanned[c]
          PROVE  FALSE
      BY <2>1, <3>1 DEF Quiesced, Adopted, TreeInv, TypeOK
    <3>2. \A p \in tree[c] : ~Existing(p)
      BY <2>1, <3>1 DEF ScanInv, Quiesced
    <3>3. QED
      BY <2>1, <3>2 DEF Quiesced, Existing
  <2>2. CASE ReapAdopted(d)
    BY <2>2, <1>0 DEF ReapAdopted, Finished, Existing, TypeOK
  <2>3. CASE CleanupFails(d)
    BY <2>3, <1>0 DEF CleanupFails, Finished, Existing, TypeOK
  <2>4. CASE DropScope(d) \/ Unlock(d)
    BY <2>4, <1>0 DEF DropScope, Unlock, ScopeEnds, Finished, Existing, TypeOK
  <2>5. CASE StartRound(d) \/ KillAdopted(d) \/ DeadlinePasses(d)
    BY <2>5, <1>0 DEF StartRound, KillAdopted, DeadlinePasses, Finished, Existing, TypeOK
  <2>6. CASE Quiesced(d) /\ d # c
    BY <2>6, <1>0 DEF Quiesced, Finished, Existing, TypeOK
  <2>7. QED
    BY <1>5, <2>1, <2>2, <2>3, <2>4, <2>5, <2>6 DEF Cleanup
<1>6. QED
  BY <1>1, <1>2, <1>3, <1>4, <1>5 DEF Next

-----------------------------------------------------------------------------
(* The inductive invariant holds before any call.                          *)
LEMMA InitIInv == Init => IInv
<1> SUFFICES ASSUME Init PROVE IInv
  OBVIOUS
<1>1. TypeOK /\ LaunchInv
  BY InitTyped
<1>2. \A c \in Callers : ~Holding(c) /\ ~Finished(c) /\ pc[c] # "scan"
  BY DEF Init, Holding, Finished
<1>3. TreeInv /\ BaselineInv
  BY DEF Init, TreeInv, BaselineInv
<1>4. LockInv /\ FlagInv /\ LineageInv /\ ScanInv /\ CleanInv
  BY <1>2 DEF LockInv, FlagInv, LineageInv, ScanInv, CleanInv
<1>5. QED
  BY <1>1, <1>3, <1>4 DEF IInv

(* Every step of every caller and of the kernel preserves the inductive    *)
(* invariant.                                                              *)
LEMMA StepIInv == IInv /\ [Next]_vars => IInv'
BY TypeStep, LaunchStep, LockStep, FlagStep, BaselineStep, TreeStep, LineageStep,
   ScanStep, CleanStep DEF IInv

(* The inductive invariant holds in every reachable state.                 *)
LEMMA Inductive == Spec => []IInv
BY InitIInv, StepIInv, PTL DEF Spec

(* Whatever the command's processes fork, orphan or move to a new session, *)
(* and however the /proc walk interleaves with them, a call that reports   *)
(* no cleanup failure leaves none of them behind (terminate_and_reap).     *)
THEOREM CallsContainTheirTree == Spec => []Contained
<1>1. IInv => Contained
  BY DEF IInv, CleanInv, Contained, Finished
<1>2. QED
  BY <1>1, Inductive, PTL

(* No orphan of a running command is adopted by init: the attribute that   *)
(* makes this process the reaper is never off under a scope.               *)
THEOREM OrphansStayHere == Spec => []NeverEscapesToInit
<1>1. IInv => NeverEscapesToInit
  <2> SUFFICES ASSUME IInv, NEW c \in Callers, Holding(c), pc[c] # "unlock",
                      NEW p \in tree[c], Existing(p)
               PROVE  parent[p] # InitProc
    BY DEF NeverEscapesToInit
  <2>1. parent[p] = Self \/ parent[p] \in Pids
    BY DEF IInv, LineageInv, TypeOK
  <2>2. QED
    BY <2>1, PidsAssumption DEF Self, InitProc
<1>2. QED
  BY <1>1, Inductive, PTL

-----------------------------------------------------------------------------
(***************************************************************************)
(* The subreaper attribute.                                                *)
(***************************************************************************)
(* What the holder of the lock remembers and writes back is what the host  *)
(* had, or what an earlier enter() left on (was_enabled,                   *)
(* Drop for SubreaperScope).                                               *)
LEMMA RestoreStep ==
  TypeOK /\ LockInv /\ FlagInv /\ RestoreInv /\ AttributeRestored /\ [Next]_vars
    => (RestoreInv /\ AttributeRestored)'
<1> SUFFICES ASSUME TypeOK, LockInv, FlagInv, RestoreInv, AttributeRestored,
                    [Next]_vars
             PROVE  (RestoreInv /\ AttributeRestored)'
  OBVIOUS
<1> USE CallersAssumption DEF RestoreInv, AttributeRestored, Holding, scopeVars, histVars
<1>1. CASE UNCHANGED vars
  BY <1>1 DEF vars
<1>2. CASE Kernel
  BY <1>2 DEF Kernel, Fork, Setsid, Exit, ParentReaps, UnrelatedSpawn, UnrelatedReap
<1>3. ASSUME NEW c \in Callers, Enter(c) PROVE (RestoreInv /\ AttributeRestored)'
  <2>1. CASE Acquire(c)
    BY <2>1 DEF Acquire, LockInv, TypeOK
  <2>2. CASE EnterFails(c)
    BY <2>2 DEF EnterFails, ScopeEnds, FlagInv, LockInv, TypeOK
  <2>3. CASE Entered(c) \/ \E p \in Pids : ScanEntry(c, p)
    BY <2>3 DEF Entered, ScanEntry, TypeOK
  <2>4. QED
    BY <1>3, <2>1, <2>2, <2>3 DEF Enter
<1>4. ASSUME NEW c \in Callers, Inner(c) PROVE (RestoreInv /\ AttributeRestored)'
  BY <1>4 DEF Inner, Spawn, SpawnFails, Poll, Succeed, Fail, ReapChild,
     ReapChildTimesOut, TypeOK
<1>5. ASSUME NEW c \in Callers, Cleanup(c) PROVE (RestoreInv /\ AttributeRestored)'
  <2>1. CASE DropScope(c)
    BY <2>1 DEF DropScope, LockInv, TypeOK
  <2>2. CASE Unlock(c)
    BY <2>2 DEF Unlock, ScopeEnds, TypeOK
  <2>3. QED
    BY <1>5, <2>1, <2>2 DEF Cleanup, StartRound, Quiesced, KillAdopted, ReapAdopted,
       CleanupFails, DeadlinePasses, TypeOK
<1>6. QED
  BY <1>1, <1>2, <1>3, <1>4, <1>5 DEF Next

(* However many callers run however many commands, and wherever they fail, *)
(* the calling process ends up with the attribute it had, except that a    *)
(* failed enter() leaves it on (SubreaperScope::enter and its drop).       *)
THEOREM AttributeIsRestored == Spec => []AttributeRestored
<1>1. Init => RestoreInv /\ AttributeRestored
  BY DEF Init, RestoreInv, AttributeRestored, Holding
<1>2. QED
  BY <1>1, RestoreStep, Inductive, PTL DEF Spec, IInv

-----------------------------------------------------------------------------
(***************************************************************************)
(* What a SIGKILL can reach.                                               *)
(***************************************************************************)
(* The group of the direct child is a new one, and only its descendants    *)
(* ever enter it: setsid makes a group named after its caller, and every   *)
(* other process stays in the group it inherited (prepare, killpg).        *)
LEMMA GroupStep ==
  TypeOK /\ LaunchInv /\ TreeInv /\ GroupInv /\ [Next]_vars => GroupInv'
<1> SUFFICES ASSUME TypeOK, LaunchInv, TreeInv, GroupInv, [Next]_vars
             PROVE  GroupInv'
  OBVIOUS
<1> USE PidsAssumption DEF GroupInv, CallerGroup, kernelVars, scopeVars, scanVars, callVars
<1>1. CASE UNCHANGED vars
  BY <1>1 DEF vars
<1>2. ASSUME NEW p \in Pids, NEW q \in Pids, Fork(p, q) PROVE GroupInv'
  BY <1>2 DEF Fork, Fresh, TypeOK
<1>3. ASSUME NEW p \in Pids, Setsid(p) PROVE GroupInv'
  <2>1. \A c \in Callers : pc[c] = "wait" => child[c] \in tree[c]
    BY DEF LaunchInv
  <2>2. QED
    BY <1>3, <2>1 DEF Setsid, TypeOK
<1>4. ASSUME NEW p \in Pids,
             Exit(p) \/ ParentReaps(p) \/ UnrelatedSpawn(p) \/ UnrelatedReap(p)
      PROVE GroupInv'
  <2>1. group' = group /\ pc' = pc /\ child' = child /\ tree' = tree
    BY <1>4 DEF Exit, ParentReaps, UnrelatedSpawn, UnrelatedReap
  <2>2. \A q \in Pids : life'[q] = "unborn" => life[q] = "unborn"
    BY <1>4 DEF Exit, ParentReaps, UnrelatedSpawn, UnrelatedReap, TypeOK
  <2>3. QED
    BY <2>1, <2>2 DEF TypeOK
<1>5. ASSUME NEW c \in Callers, Enter(c) PROVE GroupInv'
  BY <1>5 DEF Enter, Acquire, EnterFails, ScopeEnds, Entered, ScanEntry, TypeOK
<1>6. ASSUME NEW c \in Callers, Inner(c) PROVE GroupInv'
  <2>1. ASSUME NEW p \in Pids, Spawn(c, p) PROVE GroupInv'
    <3>1. \A q \in Pids : group[q] # p
      BY <2>1 DEF Spawn, Fresh
    <3>2. \A d \in Callers : pc[d] = "wait" => child[d] # p
      BY <2>1 DEF Spawn, Fresh, LaunchInv, TreeInv
    <3>3. QED
      BY <2>1, <3>1, <3>2 DEF Spawn, TypeOK
  <2>2. CASE Poll(c)
    BY <2>2 DEF Poll, TypeOK
  <2>3. CASE ReapChild(c)
    BY <2>3 DEF ReapChild, TypeOK
  <2>4. QED
    BY <1>6, <2>1, <2>2, <2>3 DEF Inner, SpawnFails, Succeed, Fail,
       ReapChildTimesOut, TypeOK
<1>7. ASSUME NEW c \in Callers, Cleanup(c) PROVE GroupInv'
  <2>1. CASE ReapAdopted(c)
    BY <2>1 DEF ReapAdopted, TypeOK
  <2>2. QED
    BY <1>7, <2>1 DEF Cleanup, StartRound, BeginScan, Quiesced, KillAdopted,
       CleanupFails, DeadlinePasses, DropScope, Unlock, ScopeEnds, TypeOK
<1>8. QED
  BY <1>1, <1>2, <1>3, <1>4, <1>5, <1>6, <1>7 DEF Next, Kernel

(* A SIGKILL sent by a step: the group of the direct child and what the    *)
(* /proc walk selected are outside the caller's group and the baseline.    *)
LEMMA KillStep ==
  ASSUME IInv, GroupInv, [Next]_vars, NEW p \in killed' \ killed
  PROVE  /\ group[p] # CallerGroup
         /\ \E c \in Callers : lock = c /\ p \notin baseline[c]
<1> USE DEF IInv, kernelVars
<1>1. ASSUME NEW c \in Callers, pc[c] = "wait", p \in GroupOf(c) \cup {child[c]}
      PROVE  group[p] # CallerGroup /\ lock = c /\ p \notin baseline[c]
  <2>1. child[c] \in tree[c]
    BY <1>1 DEF LaunchInv
  <2>2. p \in tree[c]
    BY <1>1, <2>1 DEF GroupOf, GroupInv
  <2>3. QED
    BY <1>1, <2>2 DEF TreeInv, LockInv, Holding
<1>2. CASE UNCHANGED vars \/ Kernel
  BY <1>2 DEF vars, Kernel, Fork, Setsid, Exit, ParentReaps, UnrelatedSpawn, UnrelatedReap
<1>3. ASSUME NEW c \in Callers, Enter(c) PROVE FALSE
  BY <1>3 DEF Enter, Acquire, EnterFails, Entered, ScanEntry
<1>4. ASSUME NEW c \in Callers, Inner(c)
      PROVE  group[p] # CallerGroup /\ \E d \in Callers : lock = d /\ p \notin baseline[d]
  <2>1. pc[c] = "wait" /\ p \in GroupOf(c) \cup {child[c]}
    BY <1>4 DEF Inner, Spawn, SpawnFails, Poll, Succeed, Fail, ReapChild, ReapChildTimesOut
  <2>2. QED
    BY <2>1, <1>1
<1>5. ASSUME NEW c \in Callers, Cleanup(c)
      PROVE  group[p] # CallerGroup /\ \E d \in Callers : lock = d /\ p \notin baseline[d]
  <2>1. pc[c] = "scan" /\ p \in Adopted(c)
    BY <1>5 DEF Cleanup, StartRound, Quiesced, KillAdopted, ReapAdopted,
       CleanupFails, DeadlinePasses, DropScope, Unlock
  <2>2. QED
    BY <2>1 DEF Adopted, LockInv, Holding
<1>6. QED
  BY <1>2, <1>3, <1>4, <1>5 DEF Next

(* A SIGKILL never reaches another thread's child or a process that was    *)
(* there before the scope, however PIDs, groups and orphans move between   *)
(* the /proc walk and the kill (terminate_tree, terminate_and_reap).       *)
THEOREM KillsAreAimed == Spec => KillsSpareUnrelated
<1>1. Init => GroupInv
  BY DEF Init, GroupInv
<1>2. TypeOK /\ LaunchInv /\ TreeInv /\ GroupInv /\ [Next]_vars => GroupInv'
  BY GroupStep
<1>3. IInv /\ GroupInv /\ [Next]_vars
        => [\A p \in killed' \ killed :
              /\ group[p] # CallerGroup
              /\ \E c \in Callers : lock = c /\ p \notin baseline[c]]_vars
  BY KillStep
<1>4. Spec => []GroupInv
  BY <1>1, <1>2, Inductive, PTL DEF Spec, IInv
<1>5. QED
  BY <1>3, <1>4, Inductive, PTL DEF Spec, KillsSpareUnrelated

-----------------------------------------------------------------------------
(***************************************************************************)
(* The calls implement ContainedCommand.                                   *)
(***************************************************************************)
(* Past the wait a call knows how it ends (output_inner's result is set    *)
(* before terminate_and_reap runs).                                        *)
LEMMA DecidedStep == TypeOK /\ DecidedInv /\ [Next]_vars => DecidedInv'
<1> SUFFICES ASSUME TypeOK, DecidedInv, [Next]_vars PROVE DecidedInv'
  OBVIOUS
<1> USE DEF TypeOK, DecidedInv, Holding, callVars
<1>1. CASE UNCHANGED vars
  BY <1>1 DEF vars
<1>2. CASE Kernel
  BY <1>2 DEF Kernel, Fork, Setsid, Exit, ParentReaps, UnrelatedSpawn, UnrelatedReap
<1>3. ASSUME NEW c \in Callers, Enter(c) PROVE DecidedInv'
  BY <1>3 DEF Enter, Acquire, EnterFails, ScopeEnds, Entered, ScanEntry
<1>4. ASSUME NEW c \in Callers, Inner(c) PROVE DecidedInv'
  BY <1>4 DEF Inner, Spawn, SpawnFails, Poll, Succeed, Fail, ReapChild, ReapChildTimesOut
<1>5. ASSUME NEW c \in Callers, Cleanup(c) PROVE DecidedInv'
  BY <1>5 DEF Cleanup, StartRound, Quiesced, KillAdopted, ReapAdopted,
     CleanupFails, DeadlinePasses, DropScope, Unlock, ScopeEnds
<1>6. QED
  BY <1>1, <1>2, <1>3, <1>4, <1>5 DEF Next

\* What is left of a caller's tree, and where the caller is, as
\* ContainedCommand sees them.
Live(c)  == {p \in tree[c] : Existing(p)}
Phase(c) == IF Holding(c) THEN "running" ELSE pc[c]

(* A step that adds nothing to a tree, brings nothing back to life and     *)
(* moves no caller into or out of a call is one of Evolve.                 *)
LEMMA EvolveStep ==
  ASSUME TypeOK, TypeOK', outcome' = outcome,
         \A c \in Callers : Phase(c)' = Phase(c),
         \A c \in Callers : (tree'[c] # {}) = (tree[c] # {}),
         \A c \in Callers : Live(c)' # {} => Live(c) # {}
  PROVE  Abstract!Evolve
<1>1. [c \in Callers |-> Live(c)'] \in [Callers -> SUBSET Pids]
  BY DEF TypeOK, Live
<1>2. [c \in Callers |-> Phase(c)'] = [c \in Callers |-> Phase(c)]
  OBVIOUS
<1>3. [c \in Callers |-> tree'[c] # {}] = [c \in Callers |-> tree[c] # {}]
  OBVIOUS
<1>4. QED
  BY <1>1, <1>2, <1>3 DEF Abstract!Evolve, Live, Phase

(* The same for a step that settles how the call ends.                     *)
LEMMA DecideStep ==
  ASSUME TypeOK, TypeOK', NEW d \in Callers, NEW r, Holding(d),
         outcome' = [outcome EXCEPT ![d] = r],
         \A c \in Callers : Phase(c)' = Phase(c),
         \A c \in Callers : (tree'[c] # {}) = (tree[c] # {}),
         \A c \in Callers : Live(c)' # {} => Live(c) # {}
  PROVE  Abstract!Decide(d, r)
<1>1. [c \in Callers |-> Live(c)'] \in [Callers -> SUBSET Pids]
  BY DEF TypeOK, Live
<1>2. [c \in Callers |-> Phase(c)'] = [c \in Callers |-> Phase(c)]
  OBVIOUS
<1>3. [c \in Callers |-> tree'[c] # {}] = [c \in Callers |-> tree[c] # {}]
  OBVIOUS
<1>4. QED
  BY <1>1, <1>2, <1>3 DEF Abstract!Decide, Live, Phase

(* The kernel's steps, whatever they do to a tree, bring none back.        *)
LEMMA KernelEvolves ==
  ASSUME TypeOK, TypeOK', TreeInv, Kernel PROVE Abstract!Evolve
<1> USE DEF TypeOK, Phase, Holding, Live, Existing, callVars
<1>1. ASSUME NEW p \in Pids, NEW q \in Pids, Fork(p, q) PROVE Abstract!Evolve
  <2>1. \A c \in Callers : (tree'[c] # {}) = (tree[c] # {})
    BY <1>1 DEF Fork
  <2>2. ASSUME NEW c \in Callers, Live(c)' # {} PROVE Live(c) # {}
    <3>1. CASE p \in tree[c]
      BY <1>1, <3>1 DEF Fork
    <3>2. CASE p \notin tree[c]
      <4>1. tree'[c] = tree[c] /\ q \notin tree[c]
        BY <1>1, <3>2 DEF Fork, Fresh, TreeInv
      <4>2. QED
        BY <1>1, <2>2, <4>1 DEF Fork
    <3>3. QED
      BY <3>1, <3>2
  <2>3. pc' = pc /\ outcome' = outcome
    BY <1>1 DEF Fork
  <2>4. QED
    BY <2>1, <2>2, <2>3, EvolveStep
<1>2. ASSUME NEW p \in Pids,
             Setsid(p) \/ Exit(p) \/ ParentReaps(p) \/ UnrelatedSpawn(p)
               \/ UnrelatedReap(p)
      PROVE Abstract!Evolve
  <2>1. pc' = pc /\ outcome' = outcome /\ tree' = tree
    BY <1>2 DEF Setsid, Exit, ParentReaps, UnrelatedSpawn, UnrelatedReap
  <2>2. \A c \in Callers : \A q \in tree[c] : Existing(q)' => Existing(q)
    BY <1>2 DEF Setsid, Exit, ParentReaps, UnrelatedSpawn, UnrelatedReap, Fresh, TreeInv
  <2>3. QED
    BY <2>1, <2>2, EvolveStep
<1>3. QED
  BY <1>1, <1>2 DEF Kernel

(* Leaving a call is one Return of ContainedCommand: with nothing launched *)
(* when enter() fails, and with an empty tree when the outcome is clean.   *)
LEMMA ReturnStep ==
  ASSUME TypeOK, TypeOK', NEW c \in Callers, NEW r, Holding(c), ScopeEnds(c),
         r \in {"ok", "err"} => Live(c) = {},
         outcome' = [outcome EXCEPT ![c] = r], life' = life, tree' = tree
  PROVE  Abstract!Return(c, r)
<1> USE DEF TypeOK, Phase, Live, Holding, Existing
<1>1. [d \in Callers |-> Phase(d)']
        = [[d \in Callers |-> Phase(d)] EXCEPT ![c] = "returned"]
  BY DEF ScopeEnds
<1>2. [d \in Callers |-> Live(d)'] = [d \in Callers |-> Live(d)]
  OBVIOUS
<1>3. QED
  BY <1>1, <1>2 DEF Abstract!Return

(* Every step of SubreaperScope::enter: the lock makes it a Begin, its     *)
(* failure a Return.                                                       *)
LEMMA EnterImplements ==
  ASSUME IInv, TypeOK', NEW c \in Callers, Enter(c)
  PROVE  [Abstract!Next]_(Abstract!vars)
<1> USE DEF IInv, TypeOK, callVars, scopeVars, kernelVars
<1>1. CASE Acquire(c)
  <2>1. \A d \in Callers : ~Holding(d)
    BY <1>1, CallersAssumption DEF Acquire, LockInv
  <2>2. [d \in Callers |-> Phase(d)']
          = [[d \in Callers |-> Phase(d)] EXCEPT ![c] = "running"]
    BY <1>1 DEF Acquire, Phase, Holding
  <2>3. [d \in Callers |-> Live(d)'] = [[d \in Callers |-> Live(d)] EXCEPT ![c] = {}]
    BY <1>1 DEF Acquire, Live, Existing
  <2>4. [d \in Callers |-> tree'[d] # {}]
          = [[d \in Callers |-> tree[d] # {}] EXCEPT ![c] = FALSE]
    BY <1>1 DEF Acquire
  <2>5. \A d \in Callers : pc[d] # "running"
    BY DEF Phases
  <2>6. Abstract!Begin(c)
    BY <1>1, <2>1, <2>2, <2>3, <2>4, <2>5 DEF Acquire, Abstract!Begin, Live, Phase
  <2>7. QED
    BY <2>6 DEF Abstract!Next
<1>2. CASE EnterFails(c)
  <2>1. Live(c) = {} /\ Holding(c)
    BY <1>2 DEF EnterFails, LaunchInv, Live, Holding
  <2>2. Abstract!Return(c, "err")
    BY <1>2, <2>1, ReturnStep DEF EnterFails
  <2>3. QED
    BY <2>2 DEF Abstract!Next
<1>3. CASE Entered(c) \/ \E p \in Pids : ScanEntry(c, p)
  <2>1. \A d \in Callers : Phase(d)' = Phase(d)
    BY <1>3 DEF Entered, ScanEntry, Phase, Holding
  <2>2. outcome' = outcome /\ tree' = tree /\ life' = life
    BY <1>3 DEF Entered, ScanEntry
  <2>3. Abstract!Evolve
    BY <2>1, <2>2, EvolveStep DEF Live, Existing
  <2>4. QED
    BY <2>3 DEF Abstract!Next
<1>4. QED
  BY <1>1, <1>2, <1>3 DEF Enter

(* Every step of output_inner: the one spawn is the Launch.                *)
LEMMA InnerImplements ==
  ASSUME IInv, TypeOK', NEW c \in Callers, Inner(c)
  PROVE  [Abstract!Next]_(Abstract!vars)
<1> USE DEF IInv, TypeOK, callVars, scopeVars, kernelVars
<1>1. ASSUME NEW p \in Pids, Spawn(c, p) PROVE Abstract!Launch(c)
  <2>1. Holding(c) /\ tree[c] = {} /\ \A d \in Callers : Phase(d)' = Phase(d)
    BY <1>1 DEF Spawn, LaunchInv, Phase, Holding
  <2>2. \A d \in Callers \ {c} : Live(d)' = Live(d)
    BY <1>1 DEF Spawn, Live, Existing, Fresh, TreeInv
  <2>3. [d \in Callers |-> Live(d)'] \in [Callers -> SUBSET Pids]
    BY DEF Live
  <2>4. [d \in Callers |-> Phase(d)'] = [d \in Callers |-> Phase(d)]
    BY <2>1
  <2>5. [d \in Callers |-> tree'[d] # {}]
          = [[d \in Callers |-> tree[d] # {}] EXCEPT ![c] = TRUE]
    BY <1>1 DEF Spawn
  <2>6. QED
    BY <1>1, <2>1, <2>2, <2>3, <2>4, <2>5 DEF Spawn, Abstract!Launch, Live, Phase
<1>2. ASSUME NEW r \in {"ok", "err", "dirty"}, Holding(c),
             outcome' = [outcome EXCEPT ![c] = r], tree' = tree, life' = life,
             \A d \in Callers : Phase(d)' = Phase(d)
      PROVE  Abstract!Decide(c, r)
  BY <1>2, DecideStep DEF Live, Existing
<1>3. CASE SpawnFails(c) \/ Succeed(c) \/ Fail(c)
  <2>1. \A d \in Callers : Phase(d)' = Phase(d)
    BY <1>3 DEF SpawnFails, Succeed, Fail, Phase, Holding
  <2>2. \E r \in {"ok", "err"} :
          Holding(c) /\ outcome' = [outcome EXCEPT ![c] = r] /\ tree' = tree /\ life' = life
    BY <1>3 DEF SpawnFails, Succeed, Fail, Holding
  <2>3. \E r \in {"ok", "err", "dirty"} : Abstract!Decide(c, r)
    BY <2>1, <2>2, <1>2
  <2>4. QED
    BY <2>3 DEF Abstract!Next
<1>4. CASE Poll(c) \/ ReapChild(c) \/ ReapChildTimesOut(c)
  <2>1. \A d \in Callers : Phase(d)' = Phase(d)
    BY <1>4 DEF Poll, ReapChild, ReapChildTimesOut, Phase, Holding
  <2>2. outcome' = outcome /\ tree' = tree
    BY <1>4 DEF Poll, ReapChild, ReapChildTimesOut
  <2>3. \A q \in Pids : Existing(q)' => Existing(q)
    BY <1>4 DEF Poll, ReapChild, ReapChildTimesOut, Existing
  <2>4. Abstract!Evolve
    BY <2>1, <2>2, <2>3, EvolveStep DEF Live
  <2>5. QED
    BY <2>4 DEF Abstract!Next
<1>5. QED
  BY <1>1, <1>3, <1>4 DEF Inner, Abstract!Next

(* Every step of terminate_and_reap and of the drop: giving up is a        *)
(* Decide, the unlock a Return.                                            *)
LEMMA CleanupImplements ==
  ASSUME IInv, DecidedInv, TypeOK', NEW c \in Callers, Cleanup(c)
  PROVE  [Abstract!Next]_(Abstract!vars)
<1> USE DEF IInv, TypeOK, callVars, scopeVars, kernelVars
<1>1. CASE Unlock(c)
  <2>1. PICK r \in {"ok", "err", "dirty"} : outcome[c] = r
    BY <1>1 DEF Unlock, DecidedInv, Holding, Outcomes
  <2>2. Holding(c) /\ (r \in {"ok", "err"} => Live(c) = {})
    BY <1>1, <2>1 DEF Unlock, CleanInv, Finished, Live, Holding
  <2>3. outcome' = [outcome EXCEPT ![c] = r] /\ life' = life /\ tree' = tree
    BY <1>1, <2>1 DEF Unlock
  <2>4. ScopeEnds(c)
    BY <1>1 DEF Unlock
  <2>5. Abstract!Return(c, r)
    BY <2>2, <2>3, <2>4, ReturnStep
  <2>6. QED
    BY <2>5 DEF Abstract!Next
<1>2. CASE ReapAdopted(c) \/ CleanupFails(c)
  <2>1. Holding(c) /\ \A d \in Callers : Phase(d)' = Phase(d)
    BY <1>2 DEF ReapAdopted, CleanupFails, Phase, Holding
  <2>2. tree' = tree /\ \A q \in Pids : Existing(q)' => Existing(q)
    BY <1>2 DEF ReapAdopted, CleanupFails, Existing
  <2>3. outcome' = outcome \/ outcome' = [outcome EXCEPT ![c] = "dirty"]
    BY <1>2 DEF ReapAdopted, CleanupFails
  <2>4. CASE outcome' = outcome
    BY <2>1, <2>2, <2>4, EvolveStep DEF Live, Abstract!Next
  <2>5. CASE outcome' = [outcome EXCEPT ![c] = "dirty"]
    BY <2>1, <2>2, <2>5, DecideStep DEF Live, Abstract!Next
  <2>6. QED
    BY <2>3, <2>4, <2>5
<1>3. CASE StartRound(c) \/ Quiesced(c) \/ KillAdopted(c) \/ DeadlinePasses(c)
             \/ DropScope(c)
  <2>1. \A d \in Callers : Phase(d)' = Phase(d)
    BY <1>3 DEF StartRound, Quiesced, KillAdopted, DeadlinePasses, DropScope,
       Phase, Holding
  <2>2. outcome' = outcome /\ tree' = tree /\ life' = life
    BY <1>3 DEF StartRound, Quiesced, KillAdopted, DeadlinePasses, DropScope
  <2>3. Abstract!Evolve
    BY <2>1, <2>2, EvolveStep DEF Live, Existing
  <2>4. QED
    BY <2>3 DEF Abstract!Next
<1>4. QED
  BY <1>1, <1>2, <1>3 DEF Cleanup

(* output_with_status_poll keeps the promise of ContainedCommand: one      *)
(* command at a time, one launch each, and no process left behind by a     *)
(* call that does not report a failed cleanup.                             *)
THEOREM ContainmentImplements == Spec => ImplementsContainedCommand
<1>1. Init => Abstract!Init
  <2> SUFFICES ASSUME Init PROVE Abstract!Init
    OBVIOUS
  <2>1. [c \in Callers |-> IF Holding(c) THEN "running" ELSE pc[c]]
          = [c \in Callers |-> "idle"]
    BY DEF Init, Holding
  <2>2. QED
    BY <2>1 DEF Init, Abstract!Init
<1>2. Init => DecidedInv
  BY DEF Init, DecidedInv, Holding
<1>3. IInv /\ IInv' /\ DecidedInv /\ [Next]_vars => [Abstract!Next]_(Abstract!vars)
  <2> SUFFICES ASSUME IInv, IInv', DecidedInv, [Next]_vars
               PROVE  [Abstract!Next]_(Abstract!vars)
    OBVIOUS
  <2>1. TypeOK /\ TypeOK' /\ TreeInv
    BY DEF IInv
  <2>2. CASE UNCHANGED vars
    BY <2>2 DEF vars, kernelVars, callVars, Abstract!vars, Holding, Existing
  <2>3. CASE Kernel
    BY <2>1, <2>3, KernelEvolves DEF Abstract!Next
  <2>4. QED
    BY <2>1, <2>2, <2>3, EnterImplements, InnerImplements, CleanupImplements DEF Next
<1>4. TypeOK /\ DecidedInv /\ [Next]_vars => DecidedInv'
  BY DecidedStep
<1>5. Spec => []DecidedInv
  BY <1>2, <1>4, Inductive, PTL DEF Spec, IInv
<1>6. Spec => Abstract!Spec
  BY <1>1, <1>3, <1>5, Inductive, PTL DEF Spec, Abstract!Spec
<1>7. QED
  BY <1>6 DEF ImplementsContainedCommand
=============================================================================

-------------------------- MODULE Provenance_proofs ---------------------------
(***************************************************************************)
(* Proofs about Provenance, for any number of calls, commits and files,    *)
(* and about SupportActivation, for any number of commits and files.       *)
(*                                                                         *)
(* Commits never change and branches only move to new commits.  So what a  *)
(* call has computed of old commits stays true (LoadStable), and a branch  *)
(* that still, or again, shows the commit that was read first has not      *)
(* moved in between.                                                       *)
(***************************************************************************)
EXTENDS MCProvenance, WellFoundedInduction, TLAPS

(* What the database has is kept, and grows by one commit (Record).        *)
LEMMA Grows ==
  ASSUME db \in Seq(Commit), NEW r \in Commit, db' = Append(db, r)
  PROVE  /\ db' \in Seq(Commit)
         /\ DOMAIN db' = DOMAIN db \cup {Len(db) + 1}
         /\ \A i \in DOMAIN db : db'[i] = db[i]
         /\ db'[Len(db) + 1] = r
         /\ Len(db) + 1 \notin DOMAIN db
  OBVIOUS

(* Merge bases of old commits do not depend on newer ones (MergeBases).    *)
LEMMA MergeBasesStable ==
  ASSUME HistoryInv, NEW a \in DOMAIN db, NEW c \in DOMAIN db,
         \A i \in DOMAIN db : db'[i] = db[i]
  PROVE  MergeBases(a, c)' = MergeBases(a, c)
<1>1. Past(a)' = Past(a) /\ Past(c)' = Past(c)
  BY DEF Past
<1>2. \A e \in Past(a) \cap Past(c) : Past(e)' = Past(e)
  BY DEF Past, HistoryInv
<1> QED
  BY <1>1, <1>2 DEF MergeBases

(* The outcome of Binding::load on old commits stays what it was.          *)
LEMMA LoadStable ==
  ASSUME HistoryInv, NEW a \in DOMAIN db, NEW s \in DOMAIN db, NEW l, NEW o,
         \A i \in DOMAIN db : db'[i] = db[i], Load(a, s, l, o)
  PROVE  Load(a, s, l, o)'
<1>1. CASE l # "support"
  BY <1>1 DEF Load
<1>2. CASE l = "support"
  <2>1. db'[a] = db[a] /\ db'[s] = db[s]
    OBVIOUS
  <2>2. HasInventory(s) /\ Anchored(a, s) /\ HistoricalChain(a, s)
    BY <1>2 DEF Load, Anchored
  <2>3. db[s].inv.policy \in DOMAIN db
    BY <2>2 DEF HistoryInv
  <2>4. db'[db[s].inv.policy] = db[db[s].inv.policy]
    BY <2>3
  <2>5. Anchored(a, s)'
    BY <2>1, <2>2, MergeBasesStable DEF Anchored, HasInventory
  <2>6. HistoricalChain(a, s)'
    BY <2>1, <2>2, <2>4 DEF HistoricalChain, HistoricalPathsHold, Ancestor, Past
  <2>7. CarriesPolicy(a, s) => CarriesPolicy(a, s)'
    BY <2>1 DEF CarriesPolicy
  <2> QED
    BY <1>2, <2>5, <2>6, <2>7 DEF Load
<1> QED
  BY <1>1, <1>2

(* The same of the comparisons of verify and verify_git.                   *)
LEMMA LineageStable ==
  ASSUME HistoryInv, NEW a \in DOMAIN db, NEW s, NEW l, NEW o,
         NEW t \in DOMAIN db,
         \A i \in DOMAIN db : db'[i] = db[i], OnLineage(a, s, l, o, t)
  PROVE  OnLineage(a, s, l, o, t)'
<1>1. db'[a] = db[a] /\ db'[t] = db[t]
  OBVIOUS
<1>2. MergeBases(t, a)' = MergeBases(t, a)
  BY MergeBasesStable
<1> QED
  BY <1>1, <1>2 DEF OnLineage, Ancestor, Past

(* A merge keeps the invariant: calls do not move, old commits do not      *)
(* change, and a branch either stays or moves to a commit nobody has seen. *)
LEMMA RecordKeeps ==
  ASSUME IInv, NEW past \in SUBSET DOMAIN db, NEW blobs \in [Paths -> Blobs],
         NEW inv \in Inventory \cup {None, Malformed},
         inv \in Inventory => inv.policy \in DOMAIN db,
         Record(past, blobs, inv),
         main' \in {main, Len(db) + 1}, base' \in {base, Len(db) + 1}
  PROVE  IInv'
<1> DEFINE n == Len(db) + 1
           r == [past |-> past \cup {n}, blobs |-> blobs, inv |-> inv]
<1>t. TypeOK /\ HistoryInv /\ LoadInv /\ LineageInv /\ TogetherInv /\ BoundTogether
  BY DEF IInv
<1>d. /\ db \in Seq(Commit) /\ main \in DOMAIN db /\ base \in DOMAIN db
      /\ pc \in [Calls -> Steps]
      /\ \A c \in Calls : /\ source[c] \in DOMAIN db /\ policy[c] \in DOMAIN db
                          /\ seen[c] \in DOMAIN db
  BY <1>t DEF TypeOK
<1>n. n \in Commits /\ DOMAIN db \subseteq Commits
  BY <1>d DEF Commits
<1>r. r \in Commit
  BY <1>n DEF Commit
<1>a. db' = Append(db, r)
  BY DEF Record
<1>g. /\ db' \in Seq(Commit) /\ DOMAIN db' = DOMAIN db \cup {n}
      /\ \A i \in DOMAIN db : db'[i] = db[i]
      /\ db'[n] = r /\ n \notin DOMAIN db
  <2> HIDE DEF r
  <2> QED BY <1>a, <1>r, <1>d, Grows
<1>u. UNCHANGED <<pc, argVars, seen, together>>
  BY DEF Record
<1>1. TypeOK'
  <2>1. main' \in DOMAIN db' /\ base' \in DOMAIN db'
    BY <1>d, <1>g
  <2>2. /\ source \in [Calls -> DOMAIN db'] /\ policy \in [Calls -> DOMAIN db']
        /\ seen \in [Calls -> DOMAIN db']
    BY <1>t, <1>g DEF TypeOK
  <2> HIDE DEF r, n
  <2> QED
    BY <1>t, <1>u, <1>g, <2>1, <2>2 DEF TypeOK, argVars
<1>2. HistoryInv'
  <2> SUFFICES ASSUME NEW c \in DOMAIN db'
               PROVE  /\ db'[c].past \subseteq DOMAIN db'
                      /\ db'[c].inv \notin {None, Malformed}
                           => db'[c].inv.policy \in DOMAIN db'
    BY DEF HistoryInv, Past, HasInventory
  <2>1. CASE c = n
    BY <2>1, <1>g
  <2>2. CASE c \in DOMAIN db
    BY <2>2, <1>g, <1>t DEF HistoryInv, Past, HasInventory
  <2> QED
    BY <2>1, <2>2, <1>g
<1>3. LoadInv'
  <2> SUFFICES ASSUME NEW c \in Calls, pc[c] \in LoadedSteps
               PROVE  Load(policy[c], source[c], line[c], op[c])'
    BY <1>u DEF LoadInv
  <2>1. PICK a \in DOMAIN db, s \in DOMAIN db : a = policy[c] /\ s = source[c]
    BY <1>d
  <2>2. PICK l, o : l = line[c] /\ o = op[c]
    OBVIOUS
  <2>3. Load(a, s, l, o)
    BY <2>1, <2>2, <1>t DEF LoadInv
  <2>4. Load(a, s, l, o)'
    BY <2>3, <1>t, <1>g, LoadStable
  <2> QED
    BY <2>1, <2>2, <2>4, <1>u DEF argVars, Load, Anchored, HistoricalChain
<1>4. LineageInv'
  <2>1. ASSUME NEW c \in Calls, NEW a \in DOMAIN db, NEW s, NEW l, NEW o,
               NEW t \in DOMAIN db, a = policy[c], s = source[c], l = line[c],
               o = op[c], t = seen[c],
               pc[c] \in {"rereadBase", "refetchMain", "refetchBase"}
        PROVE  OnLineage(a, s, l, o, t)'
    <3>1. OnLineage(a, s, l, o, t)
      BY <2>1, <1>t DEF LineageInv
    <3> QED
      BY <3>1, <1>t, <1>g, LineageStable
  <2> QED
    BY <2>1, <1>d, <1>u, <1>t
    DEF LineageInv, argVars, OnLineage, MergeBases, Ancestor, Past
<1>5. TogetherInv'
  <2>1. ASSUME NEW c \in Calls, pc[c] = "readMain", main' = policy[c]
        PROVE  together[c]
    BY <2>1, <1>d, <1>g, <1>t DEF TogetherInv
  <2>2. ASSUME NEW c \in Calls, pc[c] = "refetchBase", Fetched(c)' = seen[c]
        PROVE  together[c]
    BY <2>2, <1>d, <1>g, <1>t, <1>u DEF TogetherInv, Fetched, argVars
  <2> QED
    BY <2>1, <2>2, <1>u DEF TogetherInv, argVars
<1>6. BoundTogether'
  BY <1>t, <1>u DEF BoundTogether
<1> QED
  BY <1>1, <1>2, <1>3, <1>4, <1>5, <1>6 DEF IInv

(* A line that has just been opened satisfies the invariant (Init).        *)
LEMMA InitInv ==
  Init => IInv
<1> SUFFICES ASSUME Init PROVE IInv
  OBVIOUS
<1>1. PICK b \in Blobs : LET b1 == [p \in Paths |-> b] IN
        db = << [past |-> {1}, blobs |-> b1, inv |-> None],
                [past |-> {1, 2}, blobs |-> b1,
                 inv |-> [anchor |-> 1, policy |-> 1, enforce |-> TRUE,
                          blobs |-> [p \in Seed |-> b1[p]]]] >>
  BY DEF Init
<1>2. /\ main = 2 /\ base = 1 /\ pc = [c \in Calls |-> "start"]
      /\ line = [c \in Calls |-> "main"] /\ op = [c \in Calls |-> "fresh"]
      /\ source = [c \in Calls |-> 1] /\ policy = [c \in Calls |-> 1]
      /\ seen = [c \in Calls |-> 1] /\ together = [c \in Calls |-> FALSE]
  BY DEF Init
<1> DEFINE b1 == [p \in Paths |-> b]
           i == [anchor |-> 1, policy |-> 1, enforce |-> TRUE,
                 blobs |-> [p \in Seed |-> b1[p]]]
           c1 == [past |-> {1}, blobs |-> b1, inv |-> None]
           c2 == [past |-> {1, 2}, blobs |-> b1, inv |-> i]
<1>3. i \in Inventory
  <2>1. [p \in Seed |-> b1[p]] \in [Seed -> Blobs] /\ Seed \in (SUBSET Paths) \ {{}}
    BY PathsAssumption
  <2> QED
    BY <2>1 DEF Inventory, Commits
<1>4. c1 \in Commit /\ c2 \in Commit
  <2> HIDE DEF i
  <2> QED BY <1>3 DEF Commit, Commits
<1>5. db = <<c1, c2>>
  BY <1>1
<1>6. db \in Seq(Commit) /\ DOMAIN db = {1, 2} /\ db[1] = c1 /\ db[2] = c2
  <2> HIDE DEF c1, c2
  <2> QED BY <1>4, <1>5
<1>7. TypeOK
  BY <1>2, <1>6 DEF TypeOK, Steps, Operations
<1>8. HistoryInv
  BY <1>6 DEF HistoryInv, Past, HasInventory
<1>9. LoadInv /\ LineageInv /\ TogetherInv /\ BoundTogether
  BY <1>2 DEF LoadInv, LoadedSteps, LineageInv, TogetherInv, BoundTogether
<1> QED
  BY <1>7, <1>8, <1>9 DEF IInv

(* The parts of a new commit, for each kind of merge (Merge).              *)
LEMMA MergeInv ==
  ASSUME IInv, Merge
  PROVE  IInv'
<1>t. TypeOK /\ HistoryInv
  BY DEF IInv
<1>m. /\ main \in DOMAIN db /\ base \in DOMAIN db /\ DOMAIN db \subseteq Commits
      /\ db \in Seq(Commit)
  BY <1>t DEF TypeOK, Commits
<1>d. \A c \in DOMAIN db :
        /\ db[c].blobs \in [Paths -> Blobs]
        /\ db[c].inv \in Inventory \cup {None, Malformed}
        /\ Past(c) \subseteq DOMAIN db
        /\ db[c].inv \in Inventory => HasInventory(c) /\ db[c].inv.policy \in DOMAIN db
        /\ HasInventory(c) => db[c].inv \in Inventory
  <2> SUFFICES ASSUME NEW c \in DOMAIN db
               PROVE  /\ db[c].blobs \in [Paths -> Blobs]
                      /\ db[c].inv \in Inventory \cup {None, Malformed}
                      /\ Past(c) \subseteq DOMAIN db
                      /\ db[c].inv \in Inventory
                           => HasInventory(c) /\ db[c].inv.policy \in DOMAIN db
                      /\ HasInventory(c) => db[c].inv \in Inventory
    OBVIOUS
  <2>1. db[c] \in Commit
    BY <1>m
  <2>2. /\ db[c].blobs \in [Paths -> Blobs]
        /\ db[c].inv \in Inventory \cup {None, Malformed}
    BY <2>1 DEF Commit
  <2> QED
    BY <2>2, <1>t, NoneAssumption DEF HistoryInv, HasInventory
<1>i. \A j \in Inventory : \A K, c :
        K \in (SUBSET Paths) \ {{}} /\ c \in DOMAIN db =>
          /\ BlobsAt(c, K) \in [K -> Blobs]
          /\ BlobsAt(c, K) \in UNION {[L -> Blobs] : L \in (SUBSET Paths) \ {{}}}
  BY <1>d DEF BlobsAt
<1>k. \A j \in Inventory : DOMAIN j.blobs \in (SUBSET Paths) \ {{}}
  BY DEF Inventory
<1>o. \A c \in DOMAIN db : \A K : Overlay(c, K) \in [Paths -> Blobs]
  BY <1>d, <1>m DEF Overlay
<1>main. ASSUME NEW past \in SUBSET DOMAIN db, NEW blobs \in [Paths -> Blobs],
                NEW inv \in Inventory \cup {None, Malformed},
                inv \in Inventory => inv.policy \in DOMAIN db,
                OnMain(past, blobs, inv)
         PROVE  IInv'
  BY <1>main, RecordKeeps DEF OnMain
<1>base. ASSUME NEW past \in SUBSET DOMAIN db, NEW blobs \in [Paths -> Blobs],
                NEW inv \in Inventory \cup {None, Malformed},
                inv \in Inventory => inv.policy \in DOMAIN db,
                OnBase(past, blobs, inv)
         PROVE  IInv'
  BY <1>base, RecordKeeps DEF OnBase
<1>1. ASSUME NEW p \in Paths, NEW b \in Blobs, EditMain(p, b)
      PROVE  IInv'
  <2>1. [db[main].blobs EXCEPT ![p] = b] \in [Paths -> Blobs]
    BY <1>d, <1>m
  <2> QED
    BY <1>1, <2>1, <1>d, <1>m, <1>main DEF EditMain
<1>2. ASSUME NEW p \in Paths, NEW b \in Blobs, EditBase(p, b)
      PROVE  IInv'
  <2>1. [db[base].blobs EXCEPT ![p] = b] \in [Paths -> Blobs]
    BY <1>d, <1>m
  <2> QED
    BY <1>2, <2>1, <1>d, <1>m, <1>base DEF EditBase
<1>3. ASSUME NEW K \in (SUBSET Paths) \ {{}}, NEW e \in BOOLEAN,
             NEW a \in Commits, ReviewInventory(a, K, e)
      PROVE  IInv'
  <2> DEFINE j == [anchor |-> a, policy |-> main, enforce |-> e,
                   blobs |-> BlobsAt(main, K)]
  <2>1. j \in Inventory /\ j.policy \in DOMAIN db
    <3>1. BlobsAt(main, K) \in UNION {[L -> Blobs] : L \in (SUBSET Paths) \ {{}}}
      BY <1>d, <1>m DEF BlobsAt
    <3> QED BY <3>1, <1>m DEF Inventory
  <2>2. OnMain(Past(main), db[main].blobs, j)
    BY <1>3 DEF ReviewInventory
  <2> HIDE DEF j
  <2> QED
    BY <2>1, <2>2, <1>d, <1>m, <1>main
<1>4. ASSUME NEW i \in {None, Malformed}, DropInventory(i)
      PROVE  IInv'
  BY <1>4, <1>d, <1>m, <1>main, NoneAssumption DEF DropInventory
<1>5. CASE ImportInventory
  <2> DEFINE j == db[main].inv
  <2>1. j \in Inventory /\ j.policy \in DOMAIN db
    BY <1>5, <1>d, <1>m DEF ImportInventory
  <2>2. OnBase(Past(base), Overlay(j.policy, DOMAIN j.blobs), j)
    BY <1>5 DEF ImportInventory
  <2> HIDE DEF j
  <2> QED
    BY <2>1, <2>2, <1>d, <1>m, <1>o, <1>base
<1>6. CASE RefreshInventory
  <2> DEFINE i == db[main].inv
             j == [i EXCEPT !.policy = main, !.blobs = BlobsAt(main, DOMAIN i.blobs)]
  <2>1. i \in Inventory
    BY <1>6, <1>d, <1>m DEF RefreshInventory
  <2>2. OnBase(Past(base), Overlay(main, DOMAIN i.blobs), j)
    BY <1>6 DEF RefreshInventory
  <2>3. j \in Inventory /\ j.policy = main
    <3> HIDE DEF i
    <3>1. DOMAIN i.blobs \in (SUBSET Paths) \ {{}}
      BY <2>1, <1>k
    <3>2. BlobsAt(main, DOMAIN i.blobs)
            \in UNION {[L -> Blobs] : L \in (SUBSET Paths) \ {{}}}
      BY <3>1, <2>1, <1>i, <1>m
    <3> QED BY <3>2, <2>1, <1>m DEF Inventory
  <2> HIDE DEF j, i
  <2> QED
    BY <2>2, <2>3, <1>d, <1>m, <1>o, <1>base
<1>7. CASE AlterInventory
  <2> DEFINE i == db[base].inv
             Becomes(j) == OnBase(Past(base), db[base].blobs, j)
  <2>1. i \in Inventory /\ i.policy \in DOMAIN db
    BY <1>7, <1>d, <1>m DEF AlterInventory
  <2>2. ASSUME NEW j \in Inventory, j.policy \in DOMAIN db, Becomes(j)
        PROVE  IInv'
    BY <2>2, <1>d, <1>m, <1>base
  <2>3. \/ Becomes([i EXCEPT !.anchor = main])
        \/ Becomes([i EXCEPT !.enforce = ~i.enforce])
        \/ \E c \in DOMAIN db : Becomes([i EXCEPT !.policy = c])
        \/ \E K \in (SUBSET Paths) \ {{}} :
             Becomes([i EXCEPT !.blobs = BlobsAt(base, K)])
    BY <1>7 DEF AlterInventory
  <2> HIDE DEF i, Becomes
  <2>4. CASE Becomes([i EXCEPT !.anchor = main])
    <3>1. [i EXCEPT !.anchor = main] \in Inventory
      BY <2>1, <1>m DEF Inventory
    <3> QED BY <3>1, <2>4, <2>2, <2>1 DEF Inventory
  <2>5. CASE Becomes([i EXCEPT !.enforce = ~i.enforce])
    <3>1. [i EXCEPT !.enforce = ~i.enforce] \in Inventory
      BY <2>1 DEF Inventory
    <3> QED BY <3>1, <2>5, <2>2, <2>1 DEF Inventory
  <2>6. ASSUME NEW c \in DOMAIN db, Becomes([i EXCEPT !.policy = c])
        PROVE  IInv'
    <3>1. [i EXCEPT !.policy = c] \in Inventory
      BY <2>1, <1>m DEF Inventory
    <3> QED BY <3>1, <2>6, <2>2, <2>1 DEF Inventory
  <2>7. ASSUME NEW K \in (SUBSET Paths) \ {{}},
               Becomes([i EXCEPT !.blobs = BlobsAt(base, K)])
        PROVE  IInv'
    <3>0. BlobsAt(base, K) \in UNION {[L -> Blobs] : L \in (SUBSET Paths) \ {{}}}
      BY <2>1, <1>i, <1>m
    <3>1. [i EXCEPT !.blobs = BlobsAt(base, K)] \in Inventory
      BY <2>1, <3>0 DEF Inventory
    <3> QED BY <3>1, <2>7, <2>2, <2>1 DEF Inventory
  <2> QED
    BY <2>3, <2>4, <2>5, <2>6, <2>7
<1>8. CASE MergeBaseIntoMain
  BY <1>8, <1>d, <1>m, <1>main DEF MergeBaseIntoMain
<1>9. CASE MergeMainIntoBase
  BY <1>9, <1>d, <1>m, <1>base DEF MergeMainIntoBase
<1>10. 1 \in Commits /\ main \in Commits
  BY <1>m DEF Commits
<1>11. TRUE \in BOOLEAN /\ Seed \in (SUBSET Paths) \ {{}}
  BY PathsAssumption
<1> QED
  BY <1>1, <1>2, <1>3, <1>4, <1>5, <1>6, <1>7, <1>8, <1>9, <1>10, <1>11 DEF Merge

(* A step of a call keeps the invariant: what is established in one step   *)
(* of verify or rebind is what the next one builds on.                     *)
LEMMA CallInv ==
  ASSUME IInv, NEW c \in Calls, CallStep(c)
  PROVE  IInv'
<1>t. TypeOK /\ HistoryInv /\ LoadInv /\ LineageInv /\ TogetherInv /\ BoundTogether
  BY DEF IInv
<1>d. /\ main \in DOMAIN db /\ base \in DOMAIN db /\ pc \in [Calls -> Steps]
      /\ line \in [Calls -> {"main", "support"}]
      /\ \A k \in Calls : /\ source[k] \in DOMAIN db /\ policy[k] \in DOMAIN db
                          /\ seen[k] \in DOMAIN db
      /\ seen \in [Calls -> DOMAIN db] /\ together \in [Calls -> BOOLEAN]
  BY <1>t DEF TypeOK
<1>u. UNCHANGED <<repoVars, argVars>>
  BY DEF CallStep, ReadBase, Compare, RereadBase, ReadMain, FetchMain, FetchBase,
         Inspect, RefetchMain, RefetchBase, Fail
<1>h. HistoryInv'
  BY <1>t, <1>u DEF HistoryInv, repoVars, Past, HasInventory
<1>b. Bound(c) \in BOOLEAN
  BY DEF Bound
<1>tip. Tip(line[c]) \in DOMAIN db /\ Fetched(c) \in DOMAIN db
  BY <1>d DEF Tip, Fetched
<1>1. TypeOK'
  <2>1. \E next \in Steps : pc' = [pc EXCEPT ![c] = next]
    BY DEF CallStep, ReadBase, Compare, RereadBase, ReadMain, FetchMain,
           FetchBase, Inspect, RefetchMain, RefetchBase, Fail, Go, Steps
  <2>2. pc' \in [Calls -> Steps]
    BY <2>1, <1>d
  <2>3. seen' = seen \/ \E t \in DOMAIN db : seen' = [seen EXCEPT ![c] = t]
    BY <1>tip DEF CallStep, ReadBase, Compare, RereadBase, ReadMain, FetchMain,
           FetchBase, Inspect, RefetchMain, RefetchBase, Fail
  <2>4. seen' \in [Calls -> DOMAIN db]
    BY <2>3, <1>d
  <2>5. together' = together \/ together' = [together EXCEPT ![c] = Bound(c)]
    BY DEF CallStep, ReadBase, Compare, RereadBase, ReadMain, FetchMain,
           FetchBase, Inspect, RefetchMain, RefetchBase, Fail
  <2>6. together' \in [Calls -> BOOLEAN]
    BY <2>5, <1>b, <1>d
  <2> QED
    BY <1>t, <1>u, <2>2, <2>4, <2>6 DEF TypeOK, repoVars, argVars
<1>o. \A k \in Calls \ {c} :
        pc'[k] = pc[k] /\ seen'[k] = seen[k] /\ together'[k] = together[k]
  BY <1>d DEF CallStep, ReadBase, Compare, RereadBase, ReadMain, FetchMain,
         FetchBase, Inspect, RefetchMain, RefetchBase, Fail, Go
<1> DEFINE L(k) == Load(policy[k], source[k], line[k], op[k])
           A(k) == OnLineage(policy[k], source[k], line[k], op[k], seen[k])
<1>l. \A k \in Calls : L(k)' <=> L(k)
  BY <1>u
  DEF repoVars, argVars, Load, Anchored, HistoricalChain, HistoricalPathsHold,
      CarriesPolicy, HasInventory, MergeBases, Ancestor, Past
<1>a. \A k \in Calls : seen'[k] = seen[k] => (A(k)' <=> A(k))
  BY <1>u DEF repoVars, argVars, OnLineage, MergeBases, Ancestor, Past
<1>2. LoadInv' /\ LineageInv' /\ TogetherInv' /\ BoundTogether'
  <2> SUFFICES ASSUME NEW k \in Calls
               PROVE
        /\ pc'[k] \in LoadedSteps => L(k)'
        /\ pc'[k] \in {"rereadBase", "refetchMain", "refetchBase"} => A(k)'
        /\ pc'[k] \in {"inspect", "refetchMain", "refetchBase"}
             => (line'[k] = "main" => seen'[k] = policy'[k])
        /\ pc'[k] = "readMain" /\ main' = policy'[k] => together'[k]
        /\ pc'[k] = "refetchBase" /\ Fetched(k)' = seen'[k] => together'[k]
        /\ pc'[k] = "ok" => together'[k]
    BY DEF LoadInv, LoadedSteps, LineageInv, TogetherInv, BoundTogether
  <2>i. /\ pc[k] \in LoadedSteps => L(k)
        /\ pc[k] \in {"rereadBase", "refetchMain", "refetchBase"} => A(k)
        /\ pc[k] \in {"inspect", "refetchMain", "refetchBase"}
             => (line[k] = "main" => seen[k] = policy[k])
        /\ pc[k] = "readMain" /\ main = policy[k] => together[k]
        /\ pc[k] = "refetchBase" /\ Fetched(k) = seen[k] => together[k]
        /\ pc[k] = "ok" => together[k]
    BY <1>t DEF LoadInv, LoadedSteps, LineageInv, TogetherInv, BoundTogether
  <2>f. /\ main' = main /\ line'[k] = line[k] /\ policy'[k] = policy[k]
        /\ Fetched(k)' = Fetched(k)
    BY <1>u DEF repoVars, argVars, Fetched
  <2>l. L(k)' <=> L(k)
    BY <1>l
  <2>a. seen'[k] = seen[k] => (A(k)' <=> A(k))
    BY <1>a
  <2> HIDE DEF L, A
  <2>0. CASE k # c
    BY <2>0, <2>i, <2>f, <2>l, <2>a, <1>o
  <2> SUFFICES ASSUME k = c
               PROVE
        /\ pc'[k] \in LoadedSteps => L(k)'
        /\ pc'[k] \in {"rereadBase", "refetchMain", "refetchBase"} => A(k)'
        /\ pc'[k] \in {"inspect", "refetchMain", "refetchBase"}
             => (line'[k] = "main" => seen'[k] = policy'[k])
        /\ pc'[k] = "readMain" /\ main' = policy'[k] => together'[k]
        /\ pc'[k] = "refetchBase" /\ Fetched(k)' = seen'[k] => together'[k]
        /\ pc'[k] = "ok" => together'[k]
    BY <2>0
  <2>1. CASE ReadBase(c)
    <3>1. pc[c] = "readBase" /\ pc'[c] \in {"compare", "err"}
      BY <2>1, <1>d DEF ReadBase, Go
    <3> QED BY <3>1, <2>i, <2>l DEF LoadedSteps
  <2>2. CASE Compare(c)
    <3>1. /\ pc[c] = "compare" /\ seen' = seen
          /\ pc'[c] = IF A(c) THEN "rereadBase" ELSE "err"
      BY <2>2, <1>d DEF Compare, Go, A
    <3> QED BY <3>1, <2>i, <2>l, <2>a DEF LoadedSteps
  <2>3. CASE RereadBase(c)
    <3>1. /\ pc[c] = "rereadBase" /\ seen' = seen /\ together'[c] = Bound(c)
          /\ pc'[c] = IF Tip(line[c]) = seen[c] THEN "readMain" ELSE "err"
      BY <2>3, <1>d DEF RereadBase, Go
    <3>2. L(c) /\ A(c)
      BY <3>1, <2>i DEF LoadedSteps
    <3>3. Tip(line[c]) = seen[c] /\ main = policy[c] => Bound(c)
      BY <3>2 DEF Bound, L, A
    <3> QED BY <3>1, <3>2, <3>3, <2>l, <2>f DEF LoadedSteps
  <2>4. CASE ReadMain(c)
    <3>1. /\ pc[c] = "readMain" /\ together' = together
          /\ pc'[c] = IF main = policy[c] THEN "ok" ELSE "err"
      BY <2>4, <1>d DEF ReadMain, Go
    <3> QED BY <3>1, <2>i, <2>l DEF LoadedSteps
  <2>5. CASE FetchMain(c)
    <3>1. pc'[c] \in {"fetchBase", "err"}
      BY <2>5, <1>d DEF FetchMain, Go
    <3> QED BY <3>1 DEF LoadedSteps
  <2>6. CASE FetchBase(c)
    <3>1. pc'[c] = "inspect" /\ seen'[c] = Fetched(c)
      BY <2>6, <1>d DEF FetchBase, Go
    <3> QED BY <3>1, <2>f DEF LoadedSteps, Fetched
  <2>7. CASE Inspect(c)
    <3>1. /\ pc[c] = "inspect" /\ seen' = seen
          /\ pc'[c] = IF L(c) /\ A(c) THEN "refetchMain" ELSE "err"
      BY <2>7, <1>d DEF Inspect, Go, L, A
    <3> QED BY <3>1, <2>i, <2>l, <2>a, <2>f DEF LoadedSteps
  <2>8. CASE RefetchMain(c)
    <3>1. /\ pc[c] = "refetchMain" /\ seen' = seen /\ together'[c] = Bound(c)
          /\ pc'[c] = IF main = policy[c] THEN "refetchBase" ELSE "err"
      BY <2>8, <1>d DEF RefetchMain, Go
    <3>2. L(c) /\ A(c) /\ (line[c] = "main" => seen[c] = policy[c])
      BY <3>1, <2>i DEF LoadedSteps
    <3>3. main = policy[c] /\ Fetched(c) = seen[c] => Tip(line[c]) = seen[c]
      BY <3>2 DEF Fetched, Tip
    <3>4. main = policy[c] /\ Tip(line[c]) = seen[c] => Bound(c)
      BY <3>2 DEF Bound, L, A
    <3> QED BY <3>1, <3>2, <3>3, <3>4, <2>l, <2>a, <2>f DEF LoadedSteps
  <2>9. CASE RefetchBase(c)
    <3>1. /\ pc[c] = "refetchBase" /\ together' = together
          /\ pc'[c] = IF Fetched(c) = seen[c] THEN "ok" ELSE "err"
      BY <2>9, <1>d DEF RefetchBase, Go
    <3> QED BY <3>1, <2>i, <2>l DEF LoadedSteps
  <2>10. CASE Fail(c)
    <3>1. pc'[c] = "err"
      BY <2>10, <1>d DEF Fail, Go
    <3> QED BY <3>1 DEF LoadedSteps
  <2> QED
    BY <2>1, <2>2, <2>3, <2>4, <2>5, <2>6, <2>7, <2>8, <2>9, <2>10 DEF CallStep
<1> QED
  BY <1>h, <1>1, <1>2 DEF IInv

(* A call begins with what load finds on the policy it executes            *)
(* (StartVerify, StartRebind).                                             *)
LEMMA StartInv ==
  ASSUME IInv, NEW c \in Calls, NEW l \in {"main", "support"},
         NEW o \in Operations, NEW s \in DOMAIN db,
         StartVerify(c, l, o, s) \/ StartRebind(c, l, o, s)
  PROVE  IInv'
<1>t. TypeOK /\ HistoryInv /\ LoadInv /\ LineageInv /\ TogetherInv /\ BoundTogether
  BY DEF IInv
<1>1. /\ Arguments(c, l, o, s) /\ \E next \in Steps : pc' = [pc EXCEPT ![c] = next]
      /\ pc'[c] \in {"readBase", "err", "fetchMain"}
      /\ pc'[c] = "readBase" => Load(main, s, l, o)
  BY <1>t DEF StartVerify, StartRebind, Go, Steps, TypeOK
<1>2. TypeOK'
  BY <1>1, <1>t DEF TypeOK, Arguments, repoVars
<1>h. HistoryInv'
  BY <1>t, <1>1 DEF Arguments, HistoryInv, repoVars, Past, HasInventory
<1>o. \A k \in Calls \ {c} :
        /\ pc'[k] = pc[k] /\ seen'[k] = seen[k] /\ together'[k] = together[k]
        /\ line'[k] = line[k] /\ op'[k] = op[k]
        /\ source'[k] = source[k] /\ policy'[k] = policy[k]
  BY <1>1, <1>t DEF TypeOK, Arguments
<1>c. line'[c] = l /\ op'[c] = o /\ source'[c] = s /\ policy'[c] = main
  BY <1>1, <1>t DEF TypeOK, Arguments
<1>r. db' = db /\ main' = main /\ base' = base
  BY <1>1 DEF Arguments, repoVars
<1>3. LoadInv'
  <2> SUFFICES ASSUME NEW k \in Calls, pc'[k] \in LoadedSteps
               PROVE  Load(policy[k], source[k], line[k], op[k])'
    BY DEF LoadInv, LoadedSteps
  <2>1. PICK a, y, z, w :
          a = policy'[k] /\ y = source'[k] /\ z = line'[k] /\ w = op'[k]
    OBVIOUS
  <2>2. Load(a, y, z, w)
    BY <2>1, <1>1, <1>t, <1>o, <1>c DEF LoadInv, LoadedSteps
  <2>3. Load(a, y, z, w)'
    BY <2>2, <1>r
    DEF Load, Anchored, HistoricalChain, HistoricalPathsHold,
        CarriesPolicy, HasInventory, MergeBases, Ancestor, Past
  <2> QED
    BY <2>1, <2>3 DEF Load, Anchored, HistoricalChain
<1>4. LineageInv'
  <2>1. ASSUME NEW k \in Calls, pc'[k] \in {"rereadBase", "refetchMain", "refetchBase"}
        PROVE  OnLineage(policy[k], source[k], line[k], op[k], seen[k])'
    <3>1. k # c /\ OnLineage(policy[k], source[k], line[k], op[k], seen[k])
      BY <2>1, <1>1, <1>o, <1>t DEF LineageInv
    <3> QED
      BY <3>1, <1>o, <1>r DEF OnLineage, MergeBases, Ancestor, Past
  <2> QED
    BY <2>1, <1>1, <1>o, <1>t DEF LineageInv
<1>5. TogetherInv' /\ BoundTogether'
  BY <1>1, <1>o, <1>r, <1>t DEF TogetherInv, BoundTogether, Fetched
<1> QED
  BY <1>2, <1>h, <1>3, <1>4, <1>5 DEF IInv

(* Nothing happens, and nothing is lost.                                   *)
LEMMA StutterInv ==
  ASSUME IInv, UNCHANGED vars
  PROVE  IInv'
<1>t. TypeOK /\ HistoryInv /\ LoadInv /\ LineageInv /\ TogetherInv /\ BoundTogether
  BY DEF IInv
<1>u. /\ db' = db /\ main' = main /\ base' = base /\ pc' = pc /\ line' = line
      /\ op' = op /\ source' = source /\ policy' = policy /\ seen' = seen
      /\ together' = together
  BY DEF vars, repoVars, argVars
<1>1. TypeOK' /\ TogetherInv' /\ BoundTogether'
  BY <1>t, <1>u DEF TypeOK, TogetherInv, BoundTogether, Fetched
<1>2. HistoryInv'
  BY <1>t, <1>u DEF HistoryInv, Past, HasInventory
<1>3. LoadInv'
  <2>1. \A k \in Calls :
          Load(policy[k], source[k], line[k], op[k])'
            <=> Load(policy[k], source[k], line[k], op[k])
    BY <1>u
    DEF Load, Anchored, HistoricalChain, HistoricalPathsHold,
        CarriesPolicy, HasInventory, MergeBases, Ancestor, Past
  <2> QED
    BY <1>t, <1>u, <2>1 DEF LoadInv, LoadedSteps
<1>4. LineageInv'
  BY <1>t, <1>u DEF LineageInv, OnLineage, MergeBases, Ancestor, Past
<1> QED
  BY <1>1, <1>2, <1>3, <1>4 DEF IInv

(* The invariant holds in every behaviour (Spec).                          *)
LEMMA Invariance ==
  Spec => []IInv
<1>1. IInv /\ [Next]_vars => IInv'
  BY MergeInv, CallInv, StartInv, StutterInv DEF Next
<1> QED
  BY InitInv, <1>1, PTL DEF Spec

(* Branches, arguments and what was read always name commits that exist    *)
(* (Binding).                                                              *)
THEOREM TypeCorrect ==
  Spec => []TypeOK
<1>1. IInv => TypeOK
  BY DEF IInv
<1> QED
  BY Invariance, <1>1, PTL

(* An Ok of verify or of rebind stands for one instant at which everything *)
(* it has checked held together (Binding::verify, rebind).                 *)
THEOREM AcceptedAtOneInstant ==
  Spec => []BoundTogether
<1>1. IInv => BoundTogether
  BY DEF IInv
<1> QED
  BY Invariance, <1>1, PTL

(* A fresh source has the files of the policy it was accepted under,       *)
(* byte for byte (Binding::load).                                          *)
THEOREM FreshSourceCarriesPolicy ==
  Spec => []FreshCarriesPolicy
<1>1. IInv => FreshCarriesPolicy
  <2> SUFFICES ASSUME IInv, NEW c \in Calls, pc[c] = "ok", line[c] = "support",
                      op[c] = "fresh", db[policy[c]].inv.enforce,
                      NEW p \in DOMAIN db[policy[c]].inv.blobs
               PROVE  db[source[c]].blobs[p] = db[policy[c]].blobs[p]
    BY DEF FreshCarriesPolicy
  <2>1. Load(policy[c], source[c], line[c], op[c])
    BY DEF IInv, LoadInv, LoadedSteps
  <2>2. /\ HistoricalChain(policy[c], source[c])
        /\ CarriesPolicy(policy[c], source[c])
    BY <2>1 DEF Load
  <2> QED
    BY <2>2 DEF HistoricalChain, CarriesPolicy
<1> QED
  BY Invariance, <1>1, PTL

-----------------------------------------------------------------------------
(* A non-empty set of bounded numbers has a greatest one (the best common  *)
(* ancestor is found among the common ones).                               *)
LEMMA Greatest ==
  ASSUME NEW n \in Nat, NEW S \in SUBSET Nat, S # {}, \A x \in S : x <= n
  PROVE  \E m \in S : \A x \in S : x <= m
<1> DEFINE T == {k \in Nat : \E x \in S : k = n - x}
           R == OpToRel(<, Nat)
<1>1. T \subseteq Nat /\ T # {}
  <2>1. PICK x \in S : x \in Nat /\ x <= n
    OBVIOUS
  <2>2. n - x \in T
    BY <2>1
  <2> QED
    BY <2>2
<1>2. \E t \in T : \A y \in T : ~(<<y, t>> \in R)
  <2> HIDE DEF T, R
  <2> QED
    BY <1>1, NatLessThanWellFounded, WFMin DEF R
<1>3. PICK t \in T : \A y \in T : ~(<<y, t>> \in R)
  BY <1>2
<1>4. \A y \in T : ~(y < t)
  <2> TAKE y \in T
  <2>1. <<y, t>> \in Nat \X Nat /\ <<y, t>>[1] = y /\ <<y, t>>[2] = t
    BY <1>1
  <2>2. <<y, t>> \notin {ss \in Nat \X Nat : ss[1] < ss[2]}
    BY <1>3 DEF OpToRel
  <2> QED
    BY <2>1, <2>2
<1>5. PICK m \in S : t = n - m
  OBVIOUS
<1>6. \A x \in S : x <= m
  <2> TAKE x \in S
  <2>1. n - x \in T
    OBVIOUS
  <2>2. ~(n - x < t)
    <3> HIDE DEF T
    <3> QED BY <2>1, <1>4
  <2> QED
    BY <2>2, <1>5
<1> QED
  BY <1>6

(* If all that two histories share lies below one commit, so does all that *)
(* one of them shares with a part of the other (the anchor of a source is  *)
(* that of the tip it is on).                                              *)
LEMMA AnchorOfSource ==
  ASSUME TypeOK, HistoryInv, PastInv, NEW a \in DOMAIN db, NEW t \in DOMAIN db,
         NEW s \in Past(t), NEW x \in Past(s),
         MergeBases(t, a) = {x}
  PROVE  MergeBases(s, a) = {x}
<1> DEFINE C == Past(t) \cap Past(a)
<1>1. /\ s \in DOMAIN db /\ C \subseteq DOMAIN db /\ x \in C
      /\ Past(s) \subseteq Past(t)
  BY DEF HistoryInv, PastInv, MergeBases
<1>2. ASSUME NEW e \in C
      PROVE  e \in Past(x)
  <2> DEFINE Above == {d \in C : e \in Past(d)}
  <2>0. DOMAIN db \subseteq Nat /\ Len(db) \in Nat /\ \A d \in DOMAIN db : d <= Len(db)
    BY DEF TypeOK
  <2>1. e \in Above
    BY <1>1 DEF PastInv
  <2>2. Above \subseteq Nat /\ \A d \in Above : d <= Len(db)
    BY <1>1, <2>0
  <2>3. PICK m \in Above : \A d \in Above : d <= m
    <3> HIDE DEF Above
    <3> QED BY <2>0, <2>1, <2>2, Greatest
  <2>4. \A d \in C : m \in Past(d) => d = m
    <3> SUFFICES ASSUME NEW d \in C, m \in Past(d) PROVE d = m
      OBVIOUS
    <3>1. d \in DOMAIN db /\ e \in Past(m)
      BY <1>1
    <3>2. m <= d /\ e \in Past(d)
      BY <3>1 DEF PastInv
    <3>3. d <= m
      BY <3>2, <2>3
    <3> QED
      BY <3>2, <3>3, <2>0, <1>1
  <2>5. m \in MergeBases(t, a)
    BY <2>4 DEF MergeBases
  <2> QED
    BY <2>5
<1>3. x \in Past(s) \cap Past(a)
  BY <1>1
<1>4. \A e \in Past(s) \cap Past(a) : x \in Past(e) => e = x
  <2> TAKE e \in Past(s) \cap Past(a)
  <2>1. e \in C
    BY <1>1
  <2> QED
    BY <2>1, <1>1 DEF MergeBases
<1>5. \A e \in Past(s) \cap Past(a) :
        (\A d \in Past(s) \cap Past(a) : e \in Past(d) => d = e) => e = x
  BY <1>1, <1>2, <1>3
<1> QED
  BY <1>3, <1>4, <1>5 DEF MergeBases

(* A merge adds one commit on top of a branch, whose history it contains   *)
(* (Merge).                                                                *)
LEMMA MergeExtends ==
  ASSUME IInv, PastInv, Merge
  PROVE  \E past \in SUBSET DOMAIN db : \E blobs, inv :
           /\ Record(past, blobs, inv)
           /\ \A d \in past : Past(d) \subseteq past
           /\ \/ main' = Len(db) + 1 /\ base' = base /\ Past(main) \subseteq past
              \/ base' = Len(db) + 1 /\ main' = main /\ Past(base) \subseteq past
<1> DEFINE Goal ==
      \E past \in SUBSET DOMAIN db : \E blobs, inv :
           /\ Record(past, blobs, inv)
           /\ \A d \in past : Past(d) \subseteq past
           /\ \/ main' = Len(db) + 1 /\ base' = base /\ Past(main) \subseteq past
              \/ base' = Len(db) + 1 /\ main' = main /\ Past(base) \subseteq past
<1>1. /\ main \in DOMAIN db /\ base \in DOMAIN db
      /\ Past(main) \subseteq DOMAIN db /\ Past(base) \subseteq DOMAIN db
      /\ \A d \in Past(main) : Past(d) \subseteq Past(main)
      /\ \A d \in Past(base) : Past(d) \subseteq Past(base)
  BY DEF IInv, TypeOK, HistoryInv, PastInv
<1> DEFINE both == Past(main) \cup Past(base)
<1>2. ASSUME NEW past \in {Past(main), Past(main) \cup Past(base)},
             NEW blobs, NEW inv, OnMain(past, blobs, inv)
      PROVE  Goal
  <2>1. /\ past \in SUBSET DOMAIN db /\ \A d \in past : Past(d) \subseteq past
        /\ Past(main) \subseteq past
    BY <1>1
  <2>2. Record(past, blobs, inv) /\ main' = Len(db) + 1 /\ base' = base
    BY <1>2 DEF OnMain
  <2> QED BY <2>1, <2>2
<1>3. ASSUME NEW past \in {Past(base), Past(base) \cup Past(main)},
             NEW blobs, NEW inv, OnBase(past, blobs, inv)
      PROVE  Goal
  <2>1. /\ past \in SUBSET DOMAIN db /\ \A d \in past : Past(d) \subseteq past
        /\ Past(base) \subseteq past
    BY <1>1
  <2>2. Record(past, blobs, inv) /\ base' = Len(db) + 1 /\ main' = main
    BY <1>3 DEF OnBase
  <2> QED BY <2>1, <2>2
<1>4. \/ \E past \in {Past(main), Past(main) \cup Past(base)} : \E blobs, inv :
           OnMain(past, blobs, inv)
      \/ \E past \in {Past(base), Past(base) \cup Past(main)} : \E blobs, inv :
           OnBase(past, blobs, inv)
  BY DEF Merge, EditMain, EditBase, ReviewInventory, DropInventory,
         ImportInventory, RefreshInventory, AlterInventory,
         MergeBaseIntoMain, MergeMainIntoBase
<1> HIDE DEF Goal
<1>5. Goal
  BY <1>2, <1>3, <1>4
<1> QED
  BY <1>5 DEF Goal

(* Histories stay closed, and what was on a branch stays on it: protected  *)
(* branches only move forward (Merge).                                     *)
LEMMA MergeForward ==
  ASSUME RecoveryInv, Merge
  PROVE  PastInv' /\ ForwardInv'
<1>t. IInv /\ TypeOK /\ HistoryInv /\ PastInv /\ ForwardInv
  BY DEF RecoveryInv, IInv
<1>p. PICK past \in SUBSET DOMAIN db : \E blobs, inv :
        /\ Record(past, blobs, inv)
        /\ \A d \in past : Past(d) \subseteq past
        /\ \/ main' = Len(db) + 1 /\ base' = base /\ Past(main) \subseteq past
           \/ base' = Len(db) + 1 /\ main' = main /\ Past(base) \subseteq past
  BY <1>t, MergeExtends
<1>1. PICK blobs, inv :
        /\ Record(past, blobs, inv)
        /\ \A d \in past : Past(d) \subseteq past
        /\ \/ main' = Len(db) + 1 /\ base' = base /\ Past(main) \subseteq past
           \/ base' = Len(db) + 1 /\ main' = main /\ Past(base) \subseteq past
  BY <1>p
<1>0. PICK n \in Nat : n = Len(db) + 1
  BY <1>t DEF TypeOK
<1> DEFINE r == [past |-> past \cup {n}, blobs |-> blobs, inv |-> inv]
<1>2. IInv'
  BY <1>t, MergeInv
<1>3. db' = Append(db, r) /\ UNCHANGED <<pc, argVars>>
  BY <1>0, <1>1 DEF Record
<1>4. /\ DOMAIN db = 1..Len(db) /\ Len(db) \in Nat
      /\ DOMAIN db' = DOMAIN db \cup {n}
      /\ \A d \in DOMAIN db : db'[d] = db[d]
      /\ db'[n] = r
  <2> HIDE DEF r
  <2> QED BY <1>0, <1>t, <1>3 DEF TypeOK
<1>5. PastInv'
  <2>1. \A d \in DOMAIN db : Past(d)' = Past(d) /\ Past(d) \subseteq DOMAIN db
    BY <1>4, <1>t DEF Past, HistoryInv
  <2>2. Past(n)' = past \cup {n}
    BY <1>4 DEF Past
  <2>3. \A d \in DOMAIN db :
          d \in Past(d) /\ \A e \in Past(d) : e <= d /\ Past(e) \subseteq Past(d)
    BY <1>t DEF PastInv
  <2> SUFFICES ASSUME NEW c \in DOMAIN db'
               PROVE  /\ c \in Past(c)'
                      /\ \A d \in Past(c)' : d <= c /\ Past(d)' \subseteq Past(c)'
    BY DEF PastInv
  <2>4. CASE c \in DOMAIN db
    BY <2>4, <2>1, <2>3
  <2>5. CASE c = n
    <3>1. \A d \in past : d \in DOMAIN db /\ d <= n
      BY <1>0, <1>4
    <3> QED
      BY <2>5, <1>0, <2>1, <2>2, <3>1, <1>1, <1>4
  <2> QED
    BY <2>4, <2>5, <1>4
<1>6. Past(main) \subseteq Past(main)' /\ Past(base) \subseteq Past(base)'
  <2>1. main \in DOMAIN db /\ base \in DOMAIN db
    BY <1>t DEF TypeOK
  <2>2. db'[main] = db[main] /\ db'[base] = db[base]
    BY <2>1, <1>4
  <2>3. db'[n].past = past \cup {n}
    BY <1>4
  <2> HIDE DEF r
  <2> QED
    BY <2>2, <2>3, <1>1, <1>0 DEF Past
<1>7. ForwardInv'
  <2> SUFFICES ASSUME NEW c \in Calls
               PROVE  /\ policy[c] \in Past(main)'
                      /\ pc[c] \in {"readMain", "ok"} /\ line[c] = "support"
                           => source[c] \in Past(base)'
    BY <1>3 DEF ForwardInv, argVars
  <2> QED
    BY <1>6, <1>t DEF ForwardInv
<1> QED
  BY <1>5, <1>7

(* A source that passed the comparison with the second look at its base is *)
(* on that base (RereadBase, RefetchBase).                                 *)
LEMMA CallForward ==
  ASSUME RecoveryInv, NEW c \in Calls,
         \/ CallStep(c)
         \/ \E l \in {"main", "support"}, o \in Operations, s \in DOMAIN db :
              StartVerify(c, l, o, s) \/ StartRebind(c, l, o, s)
  PROVE  PastInv' /\ ForwardInv'
<1>t. /\ TypeOK /\ PastInv /\ LineageInv
      /\ \A k \in Calls :
           /\ policy[k] \in Past(main)
           /\ pc[k] \in {"readMain", "ok"} /\ line[k] = "support"
                => source[k] \in Past(base)
  BY DEF RecoveryInv, IInv, ForwardInv
<1>d. main \in DOMAIN db /\ pc \in [Calls -> Steps]
  BY <1>t DEF TypeOK
<1>r. db' = db /\ main' = main /\ base' = base
  BY DEF CallStep, ReadBase, Compare, RereadBase, ReadMain, FetchMain, FetchBase,
         Inspect, RefetchMain, RefetchBase, Fail, StartVerify, StartRebind,
         Arguments, repoVars
<1>1. PastInv'
  BY <1>r, <1>t DEF PastInv, Past
<1>2. CASE CallStep(c)
  <2>1. UNCHANGED argVars
    BY <1>2 DEF CallStep, ReadBase, Compare, RereadBase, ReadMain, FetchMain,
           FetchBase, Inspect, RefetchMain, RefetchBase, Fail
  <2>2. \A k \in Calls \ {c} : pc'[k] = pc[k]
    BY <1>2, <1>d DEF CallStep, ReadBase, Compare, RereadBase, ReadMain,
         FetchMain, FetchBase, Inspect, RefetchMain, RefetchBase, Fail, Go
  <2>3. pc'[c] \in {"readMain", "ok"} =>
          \/ pc[c] \in {"readMain", "ok"}
          \/ pc[c] = "rereadBase" /\ Tip(line[c]) = seen[c]
          \/ pc[c] = "refetchBase" /\ Fetched(c) = seen[c]
    BY <1>2, <1>d DEF CallStep, ReadBase, Compare, RereadBase, ReadMain,
         FetchMain, FetchBase, Inspect, RefetchMain, RefetchBase, Fail, Go
  <2>4. pc[c] \in {"rereadBase", "refetchBase"} => source[c] \in Past(seen[c])
    BY <1>t DEF LineageInv, OnLineage, Ancestor
  <2>5. pc'[c] \in {"readMain", "ok"} /\ line[c] = "support"
          => source[c] \in Past(base)
    BY <2>3, <2>4, <1>t DEF Tip, Fetched
  <2>6. ForwardInv'
    BY <2>1, <2>2, <2>5, <1>t, <1>r DEF ForwardInv, argVars, Past
  <2> QED
    BY <1>1, <2>6
<1>3. ASSUME NEW l \in {"main", "support"}, NEW o \in Operations,
             NEW s \in DOMAIN db, StartVerify(c, l, o, s) \/ StartRebind(c, l, o, s)
      PROVE  PastInv' /\ ForwardInv'
  <2>1. Arguments(c, l, o, s) /\ pc'[c] \notin {"readMain", "ok"}
    BY <1>3, <1>d DEF StartVerify, StartRebind, Go
  <2>2. \A k \in Calls \ {c} :
          /\ pc'[k] = pc[k] /\ line'[k] = line[k]
          /\ source'[k] = source[k] /\ policy'[k] = policy[k]
    BY <1>3, <1>t DEF StartVerify, StartRebind, Arguments, Go, TypeOK
  <2>3. policy'[c] = main
    BY <2>1, <1>t DEF Arguments, TypeOK
  <2>4. main \in Past(main)
    BY <1>d, <1>t DEF PastInv
  <2>5. ForwardInv'
    BY <2>1, <2>2, <2>3, <2>4, <1>t, <1>r DEF ForwardInv, Past
  <2> QED
    BY <1>1, <2>5
<1> QED
  BY <1>2, <1>3

(* The stronger invariant holds in every behaviour (Spec).                 *)
LEMMA RecoveryInvariance ==
  Spec => []RecoveryInv
<1>1. Init => RecoveryInv
  <2> SUFFICES ASSUME Init PROVE RecoveryInv
    OBVIOUS
  <2>1. IInv
    BY InitInv
  <2>2. PICK b : LET b1 == [p \in Paths |-> b] IN
          db = << [past |-> {1}, blobs |-> b1, inv |-> None],
                  [past |-> {1, 2}, blobs |-> b1,
                   inv |-> [anchor |-> 1, policy |-> 1, enforce |-> TRUE,
                            blobs |-> [p \in Seed |-> b1[p]]]] >>
    BY DEF Init
  <2>3. DOMAIN db = {1, 2} /\ Past(1) = {1} /\ Past(2) = {1, 2}
    BY <2>2 DEF Past
  <2>4. PastInv
    BY <2>3 DEF PastInv
  <2>5. ForwardInv
    <3>1. /\ main = 2 /\ pc = [c \in Calls |-> "start"]
          /\ policy = [c \in Calls |-> 1]
      BY DEF Init
    <3> QED
      BY <3>1, <2>3 DEF ForwardInv
  <2> QED
    BY <2>1, <2>4, <2>5 DEF RecoveryInv
<1>2. RecoveryInv /\ [Next]_vars => RecoveryInv'
  <2> SUFFICES ASSUME RecoveryInv, [Next]_vars PROVE RecoveryInv'
    OBVIOUS
  <2>1. IInv
    BY DEF RecoveryInv
  <2>2. IInv'
    BY <2>1, MergeInv, CallInv, StartInv, StutterInv DEF Next
  <2>3. CASE UNCHANGED vars
    <3>1. PastInv' /\ ForwardInv'
      BY <2>3 DEF RecoveryInv, PastInv, ForwardInv, Past, vars, repoVars, argVars
    <3> QED BY <3>1, <2>2 DEF RecoveryInv
  <2>4. CASE Next
    <3>1. PastInv' /\ ForwardInv'
      BY <2>4, MergeForward, CallForward DEF Next
    <3> QED BY <3>1, <2>2 DEF RecoveryInv
  <2> QED
    BY <2>3, <2>4
<1> QED
  BY <1>1, <1>2, PTL DEF Spec

(* Whatever becomes of main and of the line, a source that was accepted    *)
(* can be recovered while main keeps its anchor and the line stays apart   *)
(* (Binding::load, Binding::verify).                                       *)
THEOREM AcceptedSourcesStayRecoverable ==
  Spec => []RecoveryStaysOpen
<1>1. RecoveryInv => RecoveryStaysOpen
  <2> SUFFICES ASSUME RecoveryInv, NEW c \in Calls, pc[c] = "ok",
                      line[c] = "support", LineStands(source[c])
               PROVE  /\ Load(main, source[c], "support", "recover")
                      /\ OnLineage(main, source[c], "support", "recover", base)
    BY DEF RecoveryStaysOpen
  <2> DEFINE s == source[c]
             x == db[main].inv.anchor
  <2>1. TypeOK /\ HistoryInv /\ PastInv /\ ForwardInv /\ LoadInv
    BY DEF RecoveryInv, IInv
  <2>2. main \in DOMAIN db /\ base \in DOMAIN db /\ s \in DOMAIN db
    BY <2>1 DEF TypeOK
  <2>3. s \in Past(base) /\ policy[c] \in Past(main)
    BY <2>1 DEF ForwardInv
  <2>4. Anchored(policy[c], s) /\ HistoricalChain(policy[c], s)
    BY <2>1 DEF LoadInv, LoadedSteps, Load
  <2>5. HasInventory(main) /\ x = db[s].inv.anchor /\ MergeBases(base, main) = {x}
    BY DEF LineStands
  <2>6. x \in Past(s)
    BY <2>4, <2>5 DEF Anchored, MergeBases
  <2>7. MergeBases(s, main) = {x}
    <3> HIDE DEF s, x
    <3> QED BY <2>1, <2>2, <2>3, <2>5, <2>6, AnchorOfSource
  <2>8. Anchored(main, s)
    BY <2>4, <2>5, <2>7 DEF Anchored
  <2>9. HistoricalChain(main, s)
    <3>1. db[s].inv.policy \in Past(main)
      BY <2>1, <2>2, <2>3, <2>4 DEF HistoricalChain, Ancestor, PastInv
    <3> QED
      BY <3>1, <2>4 DEF HistoricalChain, Ancestor
  <2> QED
    BY <2>3, <2>5, <2>8, <2>9 DEF Load, OnLineage, Ancestor
<1> QED
  BY RecoveryInvariance, <1>1, PTL

-----------------------------------------------------------------------------
(***************************************************************************)
(* The opening of a support line.                                          *)
(***************************************************************************)
LineCommit ==
  [past : SUBSET (1..MaxCommits), blobs : [LinePaths -> LineBlobs \cup {Absent}],
   inv : Activation!P!Inventory \cup {None}, version : Activation!Versions]

(* The versions, one by one, and their order.                              *)
LEMMA VersionFacts ==
  /\ \A v \in Activation!Versions :
       /\ v.line \in {0, 1} /\ v.patch \in {0, 1}
       /\ ~Activation!Before(v, v)
  /\ \A v \in Activation!Versions, w \in Activation!Versions :
       /\ v.line > w.line => ~Activation!Before(v, w)
       /\ v.line < w.line => Activation!Before(v, w)
       /\ Activation!Before(v, w) => ~Activation!Before(w, v)
  /\ \A v \in Activation!Versions, w \in Activation!Versions, x \in Activation!Versions :
       ~Activation!Before(w, v) /\ ~Activation!Before(x, w) => ~Activation!Before(x, v)
<1> USE DEF Activation!Versions, Activation!V, Activation!Before
<1>1. \A v \in Activation!Versions :
       /\ v.line \in {0, 1} /\ v.patch \in {0, 1}
       /\ ~Activation!Before(v, v)
  OBVIOUS
<1>2. \A v \in Activation!Versions, w \in Activation!Versions :
       /\ v.line > w.line => ~Activation!Before(v, w)
       /\ v.line < w.line => Activation!Before(v, w)
       /\ Activation!Before(v, w) => ~Activation!Before(w, v)
  OBVIOUS
<1> DEFINE Rank(v) == 2 * v.line + (IF v.line = 0 THEN v.patch ELSE IF v.stable THEN 1 ELSE 0)
<1>3. \A v \in Activation!Versions, w \in Activation!Versions :
        Activation!Before(v, w) <=> Rank(v) < Rank(w)
  OBVIOUS
<1>4. \A v \in Activation!Versions : Rank(v) \in Nat
  BY <1>1
<1>5. \A v \in Activation!Versions, w \in Activation!Versions, x \in Activation!Versions :
       ~Activation!Before(w, v) /\ ~Activation!Before(x, w) => ~Activation!Before(x, v)
  <2> HIDE DEF Activation!Versions, Rank
  <2> QED
    BY <1>3, <1>4
<1> QED
  BY <1>1, <1>2, <1>5

(* A nonempty set of versions has a latest one (select_successor).         *)
LEMMA LatestExists ==
  ASSUME NEW S \in SUBSET Activation!Versions, S # {}
  PROVE  Activation!Latest(S) \in S
<1> DEFINE Tops(v) == \A w \in S : v = w \/ Activation!Before(w, v)
           a == Activation!V(0, 0, TRUE)
           b == Activation!V(0, 1, TRUE)
           c == Activation!V(1, 0, FALSE)
           d == Activation!V(1, 0, TRUE)
<1>0. /\ Activation!Before(a, b) /\ Activation!Before(a, c) /\ Activation!Before(a, d)
      /\ Activation!Before(b, c) /\ Activation!Before(b, d) /\ Activation!Before(c, d)
      /\ \A w \in S : w \in {a, b, c, d}
  BY DEF Activation!Versions, Activation!V, Activation!Before
<1>1. \E v \in S : Tops(v)
  <2> HIDE DEF a, b, c, d
  <2>1. CASE d \in S
    BY <1>0, <2>1
  <2>2. CASE d \notin S /\ c \in S
    BY <1>0, <2>2
  <2>3. CASE d \notin S /\ c \notin S /\ b \in S
    BY <1>0, <2>3
  <2>4. CASE d \notin S /\ c \notin S /\ b \notin S
    <3>1. \A w \in S : w = a
      BY <1>0, <2>4
    <3>2. PICK v \in S : TRUE
      OBVIOUS
    <3> QED
      BY <3>1, <3>2
  <2> QED
    BY <2>1, <2>2, <2>3, <2>4
<1> QED
  BY <1>1 DEF Activation!Latest

(* What the types say of the commits.                                      *)
LEMMA LineTyped ==
  ASSUME Activation!IInv
  PROVE  /\ git \in Seq(LineCommit) /\ DOMAIN git = 1..Len(git) /\ Len(git) \in Nat
         /\ mainRef \in DOMAIN git /\ lineRef \in {0} \cup DOMAIN git /\ 0 \notin DOMAIN git
         /\ \A c \in DOMAIN git :
              /\ git[c] \in LineCommit /\ c \in git[c].past /\ git[c].past \subseteq 1..c
              /\ git[c].past \subseteq DOMAIN git /\ git[c].version \in Activation!Versions
<1>1. /\ git \in Seq(LineCommit) /\ mainRef \in DOMAIN git /\ lineRef \in {0} \cup DOMAIN git
      /\ \A c \in DOMAIN git : c \in git[c].past /\ git[c].past \subseteq 1..c
  BY DEF Activation!IInv, Activation!TypeOK, LineCommit
<1>2. DOMAIN git = 1..Len(git) /\ Len(git) \in Nat
  BY <1>1
<1>3. \A c \in DOMAIN git : git[c] \in LineCommit /\ git[c].version \in Activation!Versions
  <2>1. \A c \in DOMAIN git : git[c] \in LineCommit
    BY <1>1
  <2> QED
    BY <2>1 DEF LineCommit
<1>4. \A c \in DOMAIN git : git[c].past \subseteq DOMAIN git
  BY <1>1, <1>2
<1> QED
  BY <1>1, <1>2, <1>3, <1>4

(* A commit is recorded on top of another, with no older version (Record). *)
LEMMA RecordedCommit ==
  ASSUME Activation!IInv, NEW from \in DOMAIN git, NEW commit \in LineCommit,
         Activation!Record(from, commit),
         ~Activation!Before(commit.version, git[from].version)
  PROVE  /\ git' \in Seq(LineCommit) /\ DOMAIN git' = DOMAIN git \cup {Len(git) + 1}
         /\ Len(git) + 1 \notin DOMAIN git
         /\ \A c \in DOMAIN git : git'[c] = git[c]
         /\ git'[Len(git) + 1].past = git[from].past \cup {Len(git) + 1}
         /\ git'[Len(git) + 1].blobs = commit.blobs
         /\ git'[Len(git) + 1].inv = commit.inv
         /\ git'[Len(git) + 1].version = commit.version
         /\ \A c \in DOMAIN git' : c \in git'[c].past /\ git'[c].past \subseteq 1..c
         /\ Activation!HistoryInv'
<1> DEFINE n   == Len(git) + 1
           added == [commit EXCEPT !.past = git[from].past \cup {n}]
<1>1. /\ git \in Seq(LineCommit) /\ DOMAIN git = 1..Len(git) /\ Len(git) \in Nat
      /\ Len(git) < MaxCommits /\ git' = Append(git, added) /\ MaxCommits \in Nat
      /\ git[from].past \subseteq 1..from /\ git[from].past \subseteq DOMAIN git
  BY LineTyped, MaxCommitsAssumption DEF Activation!Record
<1>2. git[from].past \cup {n} \subseteq 1..n /\ 1..n \subseteq 1..MaxCommits
  BY <1>1
<1>3. /\ added \in LineCommit /\ added.past = git[from].past \cup {n} /\ added.blobs = commit.blobs
      /\ added.inv = commit.inv /\ added.version = commit.version
  BY <1>2 DEF LineCommit
<1> HIDE DEF added
<1>4. /\ git' \in Seq(LineCommit) /\ DOMAIN git' = DOMAIN git \cup {n} /\ n \notin DOMAIN git
      /\ \A c \in DOMAIN git : git'[c] = git[c]
      /\ git'[n] = added
  BY <1>1, <1>3
<1>5. \A c \in DOMAIN git' : c \in git'[c].past /\ git'[c].past \subseteq 1..c
  BY <1>2, <1>3, <1>4, LineTyped
<1>6. Activation!HistoryInv'
  <2> SUFFICES ASSUME NEW c \in DOMAIN git', NEW d \in git'[c].past
               PROVE  /\ git'[d].past \subseteq git'[c].past
                      /\ ~Activation!Before(git'[c].version, git'[d].version)
                      /\ \A e \in git'[c].past : d \in git'[e].past \/ e \in git'[d].past
    BY DEF Activation!HistoryInv, Activation!Before
  <2>1. ASSUME NEW x \in DOMAIN git, NEW y \in git[x].past
        PROVE  /\ y \in DOMAIN git /\ git[y].past \subseteq git[x].past
               /\ ~Activation!Before(git[x].version, git[y].version)
               /\ \A e \in git[x].past : y \in git[e].past \/ e \in git[y].past
    BY <2>1, LineTyped DEF Activation!IInv, Activation!HistoryInv
  <2>2. CASE c \in DOMAIN git
    <3>1. git'[c] = git[c] /\ d \in DOMAIN git /\ git'[d] = git[d]
      BY <1>4, <2>1, <2>2
    <3>2. \A e \in git[c].past : git'[e] = git[e]
      BY <1>4, <2>1, <2>2
    <3> QED
      BY <2>1, <2>2, <3>1, <3>2
  <2>3. CASE c = n /\ d = n
    <3>1. ~Activation!Before(added.version, added.version)
      BY <1>3, VersionFacts DEF LineCommit
    <3>2. \A e \in added.past : e \in added.past
      OBVIOUS
    <3> QED
      BY <1>4, <2>3, <3>1, <3>2
  <2>4. CASE c = n /\ d # n
    <3>1. d \in git[from].past /\ d \in DOMAIN git /\ git'[d] = git[d] /\ git'[c] = added
      BY <1>1, <1>3, <1>4, <2>4
    <3>2. git[d].past \subseteq added.past
      BY <1>3, <2>1, <3>1
    <3>3. ~Activation!Before(added.version, git[d].version)
      <4>1. ~Activation!Before(git[from].version, git[d].version)
        BY <2>1, <3>1
      <4>2. /\ added.version \in Activation!Versions /\ git[d].version \in Activation!Versions
            /\ git[from].version \in Activation!Versions
        BY <1>3, <3>1, LineTyped DEF LineCommit
      <4> QED
        BY <1>3, <4>1, <4>2, VersionFacts
    <3>4. ASSUME NEW e \in added.past
          PROVE  d \in git'[e].past \/ e \in git'[d].past
      <4>1. CASE e = n
        BY <1>3, <1>4, <3>1, <4>1
      <4>2. CASE e \in git[from].past
        <5>1. git'[e] = git[e]
          BY <1>1, <1>4, <4>2
        <5> QED
          BY <2>1, <3>1, <4>2, <5>1
      <4> QED
        BY <1>3, <4>1, <4>2
    <3> QED
      BY <3>1, <3>2, <3>3, <3>4
  <2> QED
    BY <1>4, <2>2, <2>3, <2>4
<1> QED
  BY <1>3, <1>4, <1>5, <1>6

(* What is known of fixed commits stays when commits are recorded and main  *)
(* goes on.                                                                *)
LEMMA RecordedKeeps ==
  ASSUME Activation!IInv, DOMAIN git \subseteq DOMAIN git',
         \A c \in DOMAIN git : git'[c] = git[c],
         git[mainRef].past \subseteq git'[mainRef'].past,
         UNCHANGED <<crates, tags, call, proposals>>
  PROVE  /\ Activation!CrateInv' /\ Activation!CallInv' /\ Activation!ProposalInv'
         /\ Activation!ProposalHolds' /\ Activation!AnchorIsSuperseded'
         /\ \A r \in crates' : git'[r.source].version = r.version
         /\ \A t \in tags' : t.app => [version |-> t.version, source |-> t.source] \in crates'
         /\ call'.step \in Activation!CallSteps
         /\ \A i \in proposals' : i.anchor < i.policy /\ i.policy \in git'[mainRef'].past
<1> USE DEF Activation!IInv
<1>1. /\ mainRef \in DOMAIN git
      /\ \A c \in DOMAIN git : git[c].past \subseteq DOMAIN git
      /\ 1 \in DOMAIN git
  BY LineTyped DEF Activation!LineInv
<1>2. /\ \A r \in crates : r.source \in DOMAIN git
      /\ \A t \in tags : t.source \in DOMAIN git
  BY DEF Activation!CrateInv
<1>3. Activation!CrateInv'
  BY <1>1 DEF Activation!CrateInv
<1>4. /\ \A r \in crates' : git'[r.source].version = r.version
      /\ \A t \in tags' : t.app => [version |-> t.version, source |-> t.source] \in crates'
      /\ call'.step \in Activation!CallSteps
      /\ \A i \in proposals' : i.anchor < i.policy /\ i.policy \in git'[mainRef'].past
  BY <1>2 DEF Activation!TypeOK
<1>5. Activation!CallInv'
  <2> SUFFICES ASSUME call.step \in Activation!AfterStart
               PROVE  Activation!CallInv'
    BY DEF Activation!CallInv, Activation!AfterStart, Activation!AfterRefs,
           Activation!AfterTags, Activation!AfterAnchor, Activation!AfterSuccessor,
           Activation!AfterInventory
  <2>1. call.m \in git[mainRef].past /\ call.m \in DOMAIN git /\ git'[call.m] = git[call.m]
    BY <1>1 DEF Activation!CallInv
  <2>2. Activation!SeedInventory(call.anchor, call.m)' = Activation!SeedInventory(call.anchor, call.m)
    BY <2>1 DEF Activation!SeedInventory
  <2> QED
    BY <2>1, <2>2 DEF Activation!CallInv
<1>6. /\ \A i \in proposals : i.policy \in DOMAIN git /\ git'[i.policy] = git[i.policy]
                             /\ i.anchor \in DOMAIN git /\ git'[i.anchor] = git[i.anchor]
  BY <1>1 DEF Activation!TypeOK, Activation!ProposalInv
<1>7. Activation!ProposalInv'
  BY <1>6 DEF Activation!ProposalInv, Activation!P!Inventory, Activation!P!Commits
<1>8. Activation!ProposalHolds'
  BY DEF Activation!ProposalHolds
<1>9. Activation!AnchorIsSuperseded'
  BY <1>2, <1>6 DEF Activation!AnchorIsSuperseded, Activation!Before
<1> QED
  BY <1>3, <1>4, <1>5, <1>7, <1>8, <1>9

(* Main goes on by a commit that makes no patch of the line (OnMain).      *)
LEMMA OnMainInv ==
  ASSUME Activation!IInv, NEW commit \in LineCommit, Activation!OnMain(commit),
         ~Activation!Before(commit.version, git[mainRef].version),
         commit.version.line = 0 => commit.version = Activation!First
  PROVE  Activation!IInv'
<1> DEFINE n == Len(git) + 1
<1>1. /\ Activation!Record(mainRef, commit) /\ mainRef' = n
      /\ UNCHANGED <<lineRef, rival, crates, tags, call, proposals>>
  BY DEF Activation!OnMain
<1>2. /\ mainRef \in DOMAIN git /\ lineRef \in {0} \cup DOMAIN git /\ rival \in BOOLEAN
      /\ 0 \notin DOMAIN git
      /\ \A c \in DOMAIN git : git[c].past \subseteq DOMAIN git
  BY LineTyped DEF Activation!IInv, Activation!TypeOK
<1>3. /\ git' \in Seq(LineCommit) /\ DOMAIN git' = DOMAIN git \cup {n} /\ n \notin DOMAIN git
      /\ \A c \in DOMAIN git : git'[c] = git[c]
      /\ git'[n].past = git[mainRef].past \cup {n} /\ git'[n].version = commit.version
      /\ \A c \in DOMAIN git' : c \in git'[c].past /\ git'[c].past \subseteq 1..c
      /\ Activation!HistoryInv'
  BY <1>1, <1>2, RecordedCommit
<1>4. /\ Activation!CrateInv' /\ Activation!CallInv' /\ Activation!ProposalInv'
      /\ Activation!ProposalHolds' /\ Activation!AnchorIsSuperseded'
      /\ \A r \in crates' : git'[r.source].version = r.version
      /\ \A t \in tags' : t.app => [version |-> t.version, source |-> t.source] \in crates'
      /\ call'.step \in Activation!CallSteps
      /\ \A i \in proposals' : i.anchor < i.policy /\ i.policy \in git'[mainRef'].past
  BY <1>1, <1>3, RecordedKeeps
<1>5. rival' \in BOOLEAN
  BY <1>1, <1>2
<1>6. Activation!TypeOK'
  BY <1>1, <1>2, <1>3, <1>4, <1>5 DEF Activation!TypeOK, LineCommit
<1>7. Activation!LineInv'
  <2>1. 1 \in git'[mainRef'].past /\ git'[1].inv = None
    BY <1>1, <1>2, <1>3 DEF Activation!IInv, Activation!LineInv
  <2>2. ASSUME NEW c \in git'[mainRef'].past, git'[c].version.line = 0
        PROVE  git'[c].version = Activation!First
    <3>1. CASE c = n
      BY <1>3, <2>2, <3>1
    <3>2. CASE c \in git[mainRef].past
      BY <1>2, <1>3, <2>2, <3>2 DEF Activation!IInv, Activation!LineInv
    <3> QED
      BY <1>1, <1>3, <3>1, <3>2
  <2>3. ASSUME lineRef # 0
        PROVE  /\ lineRef \in DOMAIN git /\ git'[lineRef] = git[lineRef]
               /\ git'[mainRef'].past \cap git'[lineRef].past = {1}
    BY <1>1, <1>2, <1>3, <2>3 DEF Activation!IInv, Activation!LineInv
  <2>4. lineRef # 0 /\ git[lineRef].inv # None =>
          \A p \in LineSeed : git[lineRef].blobs[p] = git[lineRef].inv.blobs[p]
    BY DEF Activation!IInv, Activation!LineInv
  <2> QED
    BY <1>1, <2>1, <2>2, <2>3, <2>4
    DEF Activation!LineInv, Activation!First, Activation!V
<1> QED
  BY <1>3, <1>4, <1>6, <1>7 DEF Activation!IInv

(* The line goes on by a commit that has the files of its inventory        *)
(* (OnBase).                                                               *)
LEMMA OnBaseInv ==
  ASSUME Activation!IInv, NEW commit \in LineCommit, Activation!OnBase(commit),
         ~Activation!Before(commit.version, git[lineRef].version),
         commit.inv # None => \A p \in LineSeed : commit.blobs[p] = commit.inv.blobs[p]
  PROVE  Activation!IInv'
<1> DEFINE n == Len(git) + 1
<1>1. /\ lineRef # 0 /\ Activation!Record(lineRef, commit) /\ lineRef' = n
      /\ UNCHANGED <<mainRef, rival, crates, tags, call, proposals>>
  BY DEF Activation!OnBase
<1>2. /\ mainRef \in DOMAIN git /\ lineRef \in DOMAIN git /\ rival \in BOOLEAN
      /\ \A c \in DOMAIN git : git[c].past \subseteq DOMAIN git
  BY <1>1, LineTyped DEF Activation!IInv, Activation!TypeOK
<1>3. /\ git' \in Seq(LineCommit) /\ DOMAIN git' = DOMAIN git \cup {n} /\ n \notin DOMAIN git
      /\ \A c \in DOMAIN git : git'[c] = git[c]
      /\ git'[n].past = git[lineRef].past \cup {n}
      /\ git'[n].blobs = commit.blobs /\ git'[n].inv = commit.inv
      /\ \A c \in DOMAIN git' : c \in git'[c].past /\ git'[c].past \subseteq 1..c
      /\ Activation!HistoryInv'
  BY <1>1, <1>2, RecordedCommit
<1>4. /\ Activation!CrateInv' /\ Activation!CallInv' /\ Activation!ProposalInv'
      /\ Activation!ProposalHolds' /\ Activation!AnchorIsSuperseded'
      /\ \A r \in crates' : git'[r.source].version = r.version
      /\ \A t \in tags' : t.app => [version |-> t.version, source |-> t.source] \in crates'
      /\ call'.step \in Activation!CallSteps
      /\ \A i \in proposals' : i.anchor < i.policy /\ i.policy \in git'[mainRef'].past
  BY <1>1, <1>2, <1>3, RecordedKeeps
<1>5. rival' \in BOOLEAN
  BY <1>1, <1>2
<1>6. Activation!TypeOK'
  BY <1>1, <1>2, <1>3, <1>4, <1>5 DEF Activation!TypeOK, LineCommit
<1>7. Activation!LineInv'
  <2>1. /\ 1 \in git'[mainRef].past /\ git'[mainRef] = git[mainRef] /\ git'[1].inv = None
        /\ \A c \in git[mainRef].past : git'[c] = git[c]
    BY <1>2, <1>3 DEF Activation!IInv, Activation!LineInv
  <2>2. \A c \in git[mainRef].past : git[c].version.line = 0 => git[c].version = Activation!First
    BY DEF Activation!IInv, Activation!LineInv
  <2>3. git'[mainRef].past \cap git'[n].past = {1}
    BY <1>1, <1>2, <1>3, <2>1 DEF Activation!IInv, Activation!LineInv
  <2> QED
    BY <1>1, <1>3, <2>1, <2>2, <2>3
    DEF Activation!LineInv, Activation!First, Activation!V
<1> QED
  BY <1>3, <1>4, <1>6, <1>7 DEF Activation!IInv

(* The merges into both branches keep the invariant.                       *)
LEMMA BranchInv ==
  ASSUME Activation!IInv,
         \/ \E p \in LinePaths, b \in LineBlobs \cup {Absent} : Activation!EditPolicy(p, b)
         \/ \E v \in Activation!Versions : Activation!ReleaseMain(v)
         \/ Activation!ReleaseSupport
         \/ \E i \in proposals : Activation!MergeInventory(i) \/ Activation!Import(i)
  PROVE  Activation!IInv'
<1>0. /\ mainRef \in DOMAIN git /\ git[mainRef] \in LineCommit /\ mainRef \in git[mainRef].past
      /\ git[mainRef].version \in Activation!Versions
      /\ ~Activation!Before(git[mainRef].version, git[mainRef].version)
      /\ git[mainRef].version.line = 0 => git[mainRef].version = Activation!First
  <2>1. /\ mainRef \in DOMAIN git /\ git[mainRef] \in LineCommit /\ mainRef \in git[mainRef].past
        /\ git[mainRef].version \in Activation!Versions
    BY LineTyped
  <2>2. git[mainRef].version.line = 0 => git[mainRef].version = Activation!First
    BY <2>1 DEF Activation!IInv, Activation!LineInv
  <2> QED
    BY <2>1, <2>2, VersionFacts
<1>1. ASSUME NEW p \in LinePaths, NEW b \in LineBlobs \cup {Absent}, Activation!EditPolicy(p, b)
      PROVE  Activation!IInv'
  <2> DEFINE commit == [git[mainRef] EXCEPT !.blobs[p] = b]
  <2>1. commit \in LineCommit /\ commit.version = git[mainRef].version
    BY <1>0 DEF LineCommit
  <2>2. Activation!OnMain(commit)
    BY <1>1 DEF Activation!EditPolicy
  <2> HIDE DEF commit
  <2> QED
    BY <1>0, <2>1, <2>2, OnMainInv
<1>2. ASSUME NEW v \in Activation!Versions, Activation!ReleaseMain(v)
      PROVE  Activation!IInv'
  <2> DEFINE commit == [git[mainRef] EXCEPT !.version = v]
  <2>1. commit \in LineCommit /\ commit.version = v
    BY <1>0 DEF LineCommit
  <2>2. /\ Activation!OnMain(commit) /\ v.line > 0
        /\ Activation!Before(git[mainRef].version, v)
    BY <1>2 DEF Activation!ReleaseMain
  <2>3. ~Activation!Before(v, git[mainRef].version) /\ v.line # 0
    BY <1>0, <2>2, VersionFacts
  <2> HIDE DEF commit
  <2> QED
    BY <2>1, <2>2, <2>3, OnMainInv
<1>3. ASSUME NEW i \in proposals, Activation!MergeInventory(i) PROVE Activation!IInv'
  <2> DEFINE commit == [git[mainRef] EXCEPT !.inv = i]
  <2>1. i \in Activation!P!Inventory
    BY DEF Activation!IInv, Activation!ProposalInv
  <2>2. commit \in LineCommit /\ commit.version = git[mainRef].version
    BY <1>0, <2>1 DEF LineCommit
  <2>3. Activation!OnMain(commit)
    BY <1>3 DEF Activation!MergeInventory
  <2> HIDE DEF commit
  <2> QED
    BY <1>0, <2>2, <2>3, OnMainInv
<1>4. ASSUME lineRef # 0
      PROVE  /\ git[lineRef] \in LineCommit /\ git[lineRef].version \in Activation!Versions
             /\ ~Activation!Before(git[lineRef].version, git[lineRef].version)
             /\ git[lineRef].inv # None =>
                  \A p \in LineSeed : git[lineRef].blobs[p] = git[lineRef].inv.blobs[p]
  <2>1. git[lineRef] \in LineCommit /\ git[lineRef].version \in Activation!Versions
    BY <1>4, LineTyped
  <2> QED
    BY <1>4, <2>1, VersionFacts DEF Activation!IInv, Activation!LineInv
<1>5. CASE Activation!ReleaseSupport
  <2> DEFINE commit == [git[lineRef] EXCEPT !.version = Activation!V(0, 1, TRUE)]
  <2>1. /\ lineRef # 0 /\ git[lineRef].version = Activation!V(0, 0, TRUE)
        /\ Activation!OnBase(commit)
    BY <1>5 DEF Activation!ReleaseSupport
  <2>2. /\ commit \in LineCommit /\ commit.version = Activation!V(0, 1, TRUE)
        /\ commit.inv = git[lineRef].inv /\ commit.blobs = git[lineRef].blobs
    BY <1>4, <2>1 DEF LineCommit, Activation!Versions
  <2>3. ~Activation!Before(Activation!V(0, 1, TRUE), Activation!V(0, 0, TRUE))
    BY DEF Activation!Before, Activation!V
  <2> HIDE DEF commit
  <2> QED
    BY <1>4, <2>1, <2>2, <2>3, OnBaseInv
<1>6. ASSUME NEW i \in proposals, Activation!Import(i) PROVE Activation!IInv'
  <2> DEFINE blobs == [p \in LinePaths |-> IF p \in LineSeed THEN i.blobs[p]
                                           ELSE git[lineRef].blobs[p]]
             commit == [git[lineRef] EXCEPT !.inv = i, !.blobs = blobs]
  <2>1. lineRef # 0 /\ Activation!OnBase(commit)
    BY <1>6 DEF Activation!Import
  <2>2. /\ i \in Activation!P!Inventory /\ DOMAIN i.blobs = LineSeed
        /\ LineSeed \subseteq LinePaths
    BY ActivationAssumption DEF Activation!IInv, Activation!ProposalInv
  <2>3. i.blobs \in [LineSeed -> LineBlobs \cup {Absent}]
    BY <2>2 DEF Activation!P!Inventory
  <2>4. /\ blobs \in [LinePaths -> LineBlobs \cup {Absent}]
        /\ \A p \in LineSeed : blobs[p] = i.blobs[p]
    BY <1>4, <2>1, <2>2, <2>3 DEF LineCommit
  <2> HIDE DEF blobs
  <2>5. /\ commit \in LineCommit /\ commit.version = git[lineRef].version
        /\ commit.inv = i /\ commit.blobs = blobs
    BY <1>4, <2>1, <2>2, <2>4 DEF LineCommit
  <2> HIDE DEF commit
  <2> QED
    BY <1>4, <2>1, <2>4, <2>5, OnBaseInv
<1> QED
  BY <1>1, <1>2, <1>3, <1>5, <1>6

(* Publications, tags, another line and the push of the ref keep the       *)
(* invariant: a version is published once, and the ref starts at the first *)
(* commit.                                                                 *)
LEMMA WorldInv ==
  ASSUME Activation!IInv,
         \/ Activation!OpenRival
         \/ \E c \in DOMAIN git : Activation!Publish(c)
         \/ \E v \in Activation!Versions, c \in DOMAIN git, app \in BOOLEAN :
              Activation!Tag(v, c, app)
         \/ \E i \in proposals : Activation!Push(i)
  PROVE  Activation!IInv'
<1> USE DEF Activation!IInv
<1>0. /\ mainRef \in DOMAIN git /\ lineRef \in {0} \cup DOMAIN git /\ rival \in BOOLEAN
      /\ 1 \in DOMAIN git /\ git[1].past = {1}
      /\ \A c \in DOMAIN git : git[c].version \in Activation!Versions
  <2>1. /\ mainRef \in DOMAIN git /\ lineRef \in {0} \cup DOMAIN git
        /\ git[mainRef].past \subseteq DOMAIN git /\ 1 \in git[mainRef].past
        /\ \A c \in DOMAIN git : git[c].version \in Activation!Versions
    BY LineTyped DEF Activation!LineInv
  <2>2. 1 \in DOMAIN git /\ 1 \in git[1].past /\ git[1].past \subseteq 1..1
    BY <2>1, LineTyped
  <2>3. rival \in BOOLEAN
    BY DEF Activation!TypeOK
  <2> QED
    BY <2>1, <2>2, <2>3
<1>1. CASE Activation!OpenRival
  <2>1. UNCHANGED <<git, mainRef, lineRef, crates, tags, call, proposals>>
    BY <1>1 DEF Activation!OpenRival
  <2>2. rival' \in BOOLEAN
    BY <1>1 DEF Activation!OpenRival
  <2>3. Activation!TypeOK'
    BY <2>1, <2>2 DEF Activation!TypeOK
  <2>4. Activation!HistoryInv' /\ Activation!LineInv' /\ Activation!CrateInv'
    BY <2>1 DEF Activation!HistoryInv, Activation!LineInv, Activation!CrateInv
  <2>5. Activation!CallInv' /\ Activation!ProposalInv'
    BY <2>1 DEF Activation!CallInv, Activation!ProposalInv, Activation!SeedInventory
  <2> QED
    BY <2>1, <2>3, <2>4, <2>5 DEF Activation!ProposalHolds, Activation!AnchorIsSuperseded
<1>2. ASSUME NEW c \in DOMAIN git, Activation!Publish(c) PROVE Activation!IInv'
  <2> DEFINE added == [version |-> git[c].version, source |-> c]
  <2>1. /\ UNCHANGED <<git, mainRef, lineRef, tags, call, proposals>>
        /\ crates' = crates \cup {added} /\ \A r \in crates : r.version # git[c].version
    BY <1>2 DEF Activation!Publish
  <2>2. rival' \in BOOLEAN
    BY <1>0, <1>2 DEF Activation!Publish
  <2>3. Activation!TypeOK'
    <3>1. \A r \in crates' : git'[r.source].version = r.version
      BY <2>1 DEF Activation!TypeOK
    <3>2. \A t \in tags' : t.app => [version |-> t.version, source |-> t.source] \in crates'
      BY <2>1 DEF Activation!TypeOK
    <3> QED
      BY <2>1, <2>2, <3>1, <3>2 DEF Activation!TypeOK
  <2>4. Activation!HistoryInv' /\ Activation!LineInv'
    BY <2>1 DEF Activation!HistoryInv, Activation!LineInv
  <2>5. Activation!CrateInv'
    <3>1. \A r \in crates' : r \in [version : Activation!Versions, source : DOMAIN git]
      BY <1>0, <2>1 DEF Activation!CrateInv
    <3>2. \A r, s \in crates' : r.version = s.version => r = s
      BY <2>1 DEF Activation!CrateInv
    <3> QED
      BY <2>1, <3>1, <3>2 DEF Activation!CrateInv
  <2>6. Activation!CallInv' /\ Activation!ProposalInv'
    BY <2>1 DEF Activation!CallInv, Activation!ProposalInv, Activation!SeedInventory
  <2>7. Activation!ProposalHolds' /\ Activation!AnchorIsSuperseded'
    BY <2>1 DEF Activation!ProposalHolds, Activation!AnchorIsSuperseded
  <2> QED
    BY <2>3, <2>4, <2>5, <2>6, <2>7
<1>3. ASSUME NEW v \in Activation!Versions, NEW c \in DOMAIN git, NEW app \in BOOLEAN,
             Activation!Tag(v, c, app)
      PROVE  Activation!IInv'
  <2> DEFINE added == [version |-> v, source |-> c, app |-> app]
  <2>1. UNCHANGED <<git, mainRef, lineRef, crates, call, proposals>>
    BY <1>3 DEF Activation!Tag
  <2>2. rival' \in BOOLEAN
    BY <1>0, <1>3 DEF Activation!Tag
  <2>3. tags' = tags \cup {added} /\ (app => [version |-> v, source |-> c] \in crates)
    BY <1>3 DEF Activation!Tag
  <2>4. \A t \in tags' : t.app => [version |-> t.version, source |-> t.source] \in crates'
    BY <2>1, <2>3 DEF Activation!TypeOK
  <2>5. \A t \in tags' : t \in [version : Activation!Versions, source : DOMAIN git, app : BOOLEAN]
    BY <2>3 DEF Activation!CrateInv
  <2>6. Activation!TypeOK'
    BY <2>1, <2>2, <2>4 DEF Activation!TypeOK
  <2>7. Activation!HistoryInv' /\ Activation!LineInv' /\ Activation!CrateInv'
    BY <2>1, <2>5 DEF Activation!HistoryInv, Activation!LineInv, Activation!CrateInv
  <2>8. Activation!CallInv' /\ Activation!ProposalInv'
    BY <2>1 DEF Activation!CallInv, Activation!ProposalInv, Activation!SeedInventory
  <2> QED
    BY <2>1, <2>6, <2>7, <2>8 DEF Activation!ProposalHolds, Activation!AnchorIsSuperseded
<1>4. ASSUME NEW i \in proposals, Activation!Push(i) PROVE Activation!IInv'
  <2>1. UNCHANGED <<git, mainRef, crates, tags, call, proposals>> /\ lineRef' = 1
    BY <1>4 DEF Activation!Push, Activation!ProposalInv
  <2>2. rival' \in BOOLEAN
    BY <1>0, <1>4 DEF Activation!Push
  <2>3. Activation!TypeOK'
    BY <1>0, <2>1, <2>2 DEF Activation!TypeOK
  <2>4. git[1].inv = None
    BY DEF Activation!LineInv
  <2>5. Activation!HistoryInv' /\ Activation!LineInv' /\ Activation!CrateInv'
    BY <1>0, <2>1, <2>4 DEF Activation!HistoryInv, Activation!LineInv, Activation!CrateInv
  <2>6. Activation!CallInv' /\ Activation!ProposalInv'
    BY <2>1 DEF Activation!CallInv, Activation!ProposalInv, Activation!SeedInventory
  <2> QED
    BY <2>1, <2>3, <2>5, <2>6 DEF Activation!ProposalHolds, Activation!AnchorIsSuperseded
<1> QED
  BY <1>1, <1>2, <1>3, <1>4

(* The command's own steps change nothing else.                            *)
LEMMA OwnStepInv ==
  ASSUME Activation!IInv, UNCHANGED <<git, mainRef, lineRef, crates, tags, proposals>>,
         rival' = rival, call'.step \in Activation!CallSteps, Activation!CallInv',
         call'.step # "ok"
  PROVE  Activation!IInv'
<1> USE DEF Activation!IInv
<1>1. rival' \in BOOLEAN
  BY DEF Activation!TypeOK
<1>2. Activation!TypeOK'
  BY <1>1 DEF Activation!TypeOK
<1>3. Activation!HistoryInv' /\ Activation!LineInv' /\ Activation!CrateInv'
  BY DEF Activation!HistoryInv, Activation!LineInv, Activation!CrateInv
<1>4. Activation!ProposalInv' /\ Activation!AnchorIsSuperseded' /\ Activation!ProposalHolds'
  BY DEF Activation!ProposalInv, Activation!AnchorIsSuperseded, Activation!ProposalHolds
<1> QED
  BY <1>2, <1>3, <1>4

(* Which facts a command has at each of its steps.                         *)
LEMMA StepFacts ==
  /\ \A s \in {"idle", "failed"} : s \notin Activation!AfterStart
  /\ \A s \in {"checkout", "refs"} : s \in Activation!AfterStart /\ s \notin Activation!AfterRefs
  /\ "tags" \in Activation!AfterRefs /\ "tags" \notin Activation!AfterTags
  /\ "anchor" \in Activation!AfterTags /\ "anchor" \notin Activation!AfterAnchor
  /\ "successor" \in Activation!AfterAnchor /\ "successor" \notin Activation!AfterSuccessor
  /\ "inventory" \in Activation!AfterSuccessor /\ "inventory" \notin Activation!AfterInventory
  /\ "main" \in Activation!AfterInventory
  /\ Activation!AfterInventory \subseteq Activation!AfterSuccessor
  /\ Activation!AfterSuccessor \subseteq Activation!AfterAnchor
  /\ Activation!AfterAnchor \subseteq Activation!AfterTags
  /\ Activation!AfterTags \subseteq Activation!AfterRefs
  /\ Activation!AfterRefs \subseteq Activation!AfterStart
  /\ Activation!AfterStart \subseteq Activation!CallSteps
  /\ "failed" \in Activation!CallSteps
BY DEF Activation!AfterStart, Activation!AfterRefs, Activation!AfterTags,
       Activation!AfterAnchor, Activation!AfterSuccessor, Activation!AfterInventory,
       Activation!CallSteps

(* A command that fails has no facts (Require).                            *)
LEMMA FailedInv ==
  ASSUME Activation!IInv, UNCHANGED <<git, mainRef, lineRef, crates, tags, proposals>>,
         rival' = rival, call' = [step |-> "failed"]
  PROVE  Activation!IInv'
<1>1. Activation!CallInv'
  BY StepFacts DEF Activation!CallInv
<1> QED
  BY <1>1, StepFacts, OwnStepInv

(* A passed check moves the command to its next step and keeps its data.   *)
LEMMA MovedCall ==
  ASSUME Activation!IInv, call.step \in Activation!AfterStart, NEW next,
         call' = [call EXCEPT !.step = next]
  PROVE  /\ call'.step = next
         /\ DOMAIN call' = {"step", "version", "m", "successor", "anchor", "inventory", "held"}
         /\ call'.m = call.m /\ call'.version = call.version
         /\ call'.successor = call.successor /\ call'.anchor = call.anchor
         /\ call'.inventory = call.inventory
<1>1. DOMAIN call = {"step", "version", "m", "successor", "anchor", "inventory", "held"}
  BY DEF Activation!IInv, Activation!CallInv
<1> QED
  BY <1>1

(* The steps of start-support up to the second read of main: each keeps    *)
(* what the earlier ones found and adds its own (start, select_successor,  *)
(* published_source, seed_inventory).                                      *)
LEMMA ChecksInv ==
  ASSUME Activation!IInv,
         \/ \E v \in Activation!Versions : Activation!Start(v)
         \/ Activation!Checkout \/ Activation!Refs \/ Activation!Tags \/ Activation!Anchor
         \/ Activation!SuccessorPublished \/ Activation!Inventory
  PROVE  Activation!IInv'
<1> DEFINE Still == UNCHANGED <<git, mainRef, lineRef, crates, tags, proposals>> /\ rival' = rival
<1>0. ASSUME Activation!IInv, Still, call' = [step |-> "failed"] PROVE Activation!IInv'
  BY <1>0, FailedInv
<1>1. ASSUME NEW v \in Activation!Versions, Activation!Start(v) PROVE Activation!IInv'
  <2>1. Still /\ v.stable /\ v.line = 0
    BY <1>1 DEF Activation!Start, Activation!history
  <2>2. /\ call'.step = "checkout" /\ call'.m = mainRef /\ call'.version = v
        /\ DOMAIN call' = {"step", "version", "m", "successor", "anchor", "inventory", "held"}
    BY <1>1 DEF Activation!Start
  <2>3. mainRef \in git[mainRef].past
    BY LineTyped
  <2>4. Activation!CallInv'
    BY <2>1, <2>2, <2>3, StepFacts DEF Activation!CallInv
  <2> QED
    BY <2>1, <2>2, <2>4, StepFacts, OwnStepInv
<1>2. CASE Activation!Checkout
  <2>1. Still /\ call.step = "checkout"
    BY <1>2 DEF Activation!Checkout, Activation!At, Activation!Require, Activation!history
  <2>2. call' = [call EXCEPT !.step = "refs"] \/ call' = [step |-> "failed"]
    BY <1>2 DEF Activation!Checkout, Activation!Require
  <2>3. CASE call' = [call EXCEPT !.step = "refs"]
    <3>1. call'.step = "refs" /\ Activation!CallInv'
      BY <2>1, <2>3, MovedCall, StepFacts DEF Activation!IInv, Activation!CallInv
    <3> QED
      BY <2>1, <3>1, StepFacts, OwnStepInv
  <2> QED
    BY <1>0, <2>1, <2>2, <2>3
<1>3. CASE Activation!Refs
  <2>1. Still /\ call.step = "refs"
    BY <1>3 DEF Activation!Refs, Activation!At, Activation!Require, Activation!history
  <2>2. \/ call' = [call EXCEPT !.step = "tags"] /\ git[call.m].inv = None
        \/ call' = [step |-> "failed"]
    BY <1>3 DEF Activation!Refs, Activation!Require
  <2>3. CASE call' = [call EXCEPT !.step = "tags"] /\ git[call.m].inv = None
    <3>1. call'.step = "tags" /\ Activation!CallInv'
      BY <2>1, <2>3, MovedCall, StepFacts DEF Activation!IInv, Activation!CallInv
    <3> QED
      BY <2>1, <3>1, StepFacts, OwnStepInv
  <2> QED
    BY <1>0, <2>1, <2>2, <2>3
<1>4. CASE Activation!Tags
  <2> DEFINE named == {t.version : t \in tags}
             s == Activation!Latest(Activation!Successors(named))
  <2>1. Still /\ call.step = "tags"
    BY <1>4 DEF Activation!Tags, Activation!At, Activation!history
  <2>2. \/ /\ Activation!Successors(named) # {}
           /\ call' = [call EXCEPT !.step = "anchor", !.successor = s]
        \/ call' = [step |-> "failed"]
    BY <1>4 DEF Activation!Tags
  <2>3. CASE /\ Activation!Successors(named) # {}
             /\ call' = [call EXCEPT !.step = "anchor", !.successor = s]
    <3>1. Activation!Successors(named) \subseteq Activation!Versions
      BY DEF Activation!Successors, Activation!IInv, Activation!CrateInv
    <3>2. s \in Activation!Successors(named)
      BY <2>3, <3>1, LatestExists
    <3>3. s \in Activation!Versions /\ s.line > 0 /\ s.stable
      BY <3>1, <3>2 DEF Activation!Successors
    <3> HIDE DEF s
    <3>4. DOMAIN call = {"step", "version", "m", "successor", "anchor", "inventory", "held"}
      BY <2>1, StepFacts DEF Activation!IInv, Activation!CallInv
    <3>5. /\ call'.step = "anchor" /\ DOMAIN call' = DOMAIN call /\ call'.m = call.m
          /\ call'.version = call.version /\ call'.successor = s
      BY <2>3, <3>4
    <3>6. Activation!CallInv'
      BY <2>1, <3>3, <3>4, <3>5, StepFacts DEF Activation!IInv, Activation!CallInv
    <3> QED
      BY <2>1, <3>5, <3>6, StepFacts, OwnStepInv
  <2> QED
    BY <1>0, <2>1, <2>2, <2>3
<1>5. CASE Activation!Anchor
  <2>1. Still /\ call.step = "anchor"
    BY <1>5 DEF Activation!Anchor, Activation!At, Activation!history
  <2>2. PICK t \in tags : /\ t.version = call.version
                          /\ call' = IF Activation!Published(t, call.m)
                                     THEN [call EXCEPT !.step = "successor", !.anchor = t.source]
                                     ELSE [step |-> "failed"]
    BY <1>5 DEF Activation!Anchor
  <2>3. CASE Activation!Published(t, call.m)
    <3>1. DOMAIN call = {"step", "version", "m", "successor", "anchor", "inventory", "held"}
      BY <2>1, StepFacts DEF Activation!IInv, Activation!CallInv
    <3>2. /\ call'.step = "successor" /\ DOMAIN call' = DOMAIN call /\ call'.m = call.m
          /\ call'.version = call.version /\ call'.successor = call.successor
          /\ call'.anchor = t.source
      BY <2>2, <2>3, <3>1
    <3>3. /\ t.source \in git[call.m].past
          /\ [version |-> call.version, source |-> t.source] \in crates
      BY <2>2, <2>3 DEF Activation!Published
    <3>4. Activation!CallInv'
      BY <2>1, <3>1, <3>2, <3>3, StepFacts DEF Activation!IInv, Activation!CallInv
    <3> QED
      BY <2>1, <3>2, <3>4, StepFacts, OwnStepInv
  <2> QED
    BY <1>0, <2>1, <2>2, <2>3
<1>6. CASE Activation!SuccessorPublished
  <2>1. Still /\ call.step = "successor"
    BY <1>6 DEF Activation!SuccessorPublished, Activation!At, Activation!Require,
                Activation!history
  <2>2. PICK t \in tags :
          /\ t.version = call.successor
          /\ \/ Activation!Published(t, call.m) /\ call' = [call EXCEPT !.step = "inventory"]
             \/ call' = [step |-> "failed"]
    BY <1>6 DEF Activation!SuccessorPublished, Activation!Require
  <2>3. CASE Activation!Published(t, call.m) /\ call' = [call EXCEPT !.step = "inventory"]
    <3>1. \E r \in crates : r.version = call.successor /\ r.source \in git[call.m].past
      <4> DEFINE r == [version |-> t.version, source |-> t.source]
      <4>1. r \in crates /\ r.version = call.successor /\ r.source \in git[call.m].past
        BY <2>2, <2>3 DEF Activation!Published
      <4> QED
        BY <4>1
    <3>2. call'.step = "inventory" /\ Activation!CallInv'
      BY <2>1, <2>3, <3>1, MovedCall, StepFacts DEF Activation!IInv, Activation!CallInv
    <3> QED
      BY <2>1, <3>2, StepFacts, OwnStepInv
  <2> QED
    BY <1>0, <2>1, <2>2, <2>3
<1>7. CASE Activation!Inventory
  <2> DEFINE i == Activation!SeedInventory(call.anchor, call.m)
  <2>1. Still /\ call.step = "inventory"
    BY <1>7 DEF Activation!Inventory, Activation!At, Activation!history
  <2>2. \/ call' = [call EXCEPT !.step = "main", !.inventory = i]
        \/ call' = [step |-> "failed"]
    BY <1>7 DEF Activation!Inventory
  <2>3. CASE call' = [call EXCEPT !.step = "main", !.inventory = i]
    <3>1. DOMAIN call = {"step", "version", "m", "successor", "anchor", "inventory", "held"}
      BY <2>1, StepFacts DEF Activation!IInv, Activation!CallInv
    <3>2. /\ call'.step = "main" /\ DOMAIN call' = DOMAIN call /\ call'.m = call.m
          /\ call'.version = call.version /\ call'.successor = call.successor
          /\ call'.anchor = call.anchor /\ call'.inventory = i
      BY <2>3, <3>1
    <3>3. call'.inventory = Activation!SeedInventory(call.anchor, call.m)'
      BY <2>1, <3>2 DEF Activation!SeedInventory
    <3> HIDE DEF i
    <3>4. Activation!CallInv'
      BY <2>1, <3>1, <3>2, <3>3, StepFacts DEF Activation!IInv, Activation!CallInv
    <3> QED
      BY <2>1, <3>2, <3>4, StepFacts, OwnStepInv
  <2> QED
    BY <1>0, <2>1, <2>2, <2>3
<1> QED
  BY <1>1, <1>2, <1>3, <1>4, <1>5, <1>6, <1>7

(* What the second read of main completes: all that the proposal says      *)
(* holds, of main as it is.                                                *)
LEMMA Completed ==
  ASSUME Activation!IInv, Activation!At("main"), mainRef = call.m,
         NEW i, i = call.inventory
  PROVE  /\ Activation!Eligible
         /\ i \in Activation!P!Inventory /\ i.anchor = 1 /\ i.policy = mainRef /\ i.enforce
         /\ DOMAIN i.blobs = LineSeed /\ 1 < mainRef
         /\ git[1].version = Activation!First
         /\ \E r \in crates :
              /\ r.version.line > 0 /\ r.version.stable /\ r.version \in Activation!Versions
              /\ 1 \in git[r.source].past \ {r.source} /\ r.source \in git[mainRef].past
<1> USE DEF Activation!IInv
<1>1. /\ mainRef \in DOMAIN git /\ mainRef \in git[mainRef].past /\ git[mainRef] \in LineCommit
      /\ \A c \in DOMAIN git : c \in git[c].past /\ git[c].past \subseteq 1..c
      /\ DOMAIN git = 1..Len(git) /\ Len(git) \in Nat
      /\ git[mainRef].past \subseteq DOMAIN git
  BY LineTyped
<1>2. /\ call.version \in Activation!Versions /\ call.version.line = 0
      /\ git[mainRef].inv = None
      /\ call.successor \in Activation!Versions /\ call.successor.line > 0
      /\ call.successor.stable
      /\ call.anchor \in git[mainRef].past
      /\ [version |-> call.version, source |-> call.anchor] \in crates
      /\ i = Activation!SeedInventory(call.anchor, mainRef)
  <2>1. call.step = "main"
    BY DEF Activation!At
  <2> QED
    BY <2>1, StepFacts DEF Activation!CallInv
<1>3. PICK r \in crates : r.version = call.successor /\ r.source \in git[mainRef].past
  <2>1. call.step = "main"
    BY DEF Activation!At
  <2> QED
    BY <2>1, StepFacts DEF Activation!CallInv
<1>4. call.anchor = 1 /\ call.version = Activation!First
  <2> DEFINE s == [version |-> call.version, source |-> call.anchor]
             f == [version |-> Activation!First, source |-> 1]
  <2>1. git[call.anchor].version = call.version
    <3>1. git[s.source].version = s.version
      BY <1>2 DEF Activation!TypeOK
    <3> QED
      BY <3>1
  <2>2. call.version = Activation!First
    BY <1>2, <2>1 DEF Activation!LineInv
  <2>3. f \in crates /\ s \in crates /\ s.version = f.version
    BY <1>2, <2>2 DEF Activation!CrateInv
  <2>4. s = f
    BY <2>3 DEF Activation!CrateInv
  <2> QED
    BY <2>2, <2>4
<1>5. git[1].version = Activation!First
  BY <1>2, <1>4 DEF Activation!TypeOK
<1>6. git[r.source].version = call.successor
  BY <1>3 DEF Activation!TypeOK
<1>7. r.source # 1 /\ r.source \in DOMAIN git
  BY <1>1, <1>2, <1>3, <1>5, <1>6 DEF Activation!First, Activation!V
<1>8. 1 \in git[r.source].past
  <2>1. 1 \in git[mainRef].past /\ 1 \in DOMAIN git
    BY <1>1 DEF Activation!LineInv
  <2>2. 1 \in git[r.source].past \/ r.source \in git[1].past
    BY <1>1, <1>3, <2>1 DEF Activation!HistoryInv
  <2>3. r.source \notin git[1].past
    BY <1>1, <1>7, <2>1
  <2> QED
    BY <2>2, <2>3
<1>9. 1 < mainRef
  BY <1>1, <1>3, <1>7
<1>10. /\ i.anchor = 1 /\ i.policy = mainRef /\ i.enforce = TRUE
       /\ i.blobs = [p \in LineSeed |-> git[mainRef].blobs[p]]
  BY <1>2, <1>4 DEF Activation!SeedInventory
<1>11. i \in Activation!P!Inventory
  <2>1. git[mainRef].blobs \in [LinePaths -> LineBlobs \cup {Absent}]
    BY <1>1 DEF LineCommit
  <2>2. i.blobs \in [LineSeed -> LineBlobs \cup {Absent}]
    BY <1>10, <2>1, ActivationAssumption
  <2> DEFINE b == i.blobs
  <2>3. i = [anchor |-> 1, policy |-> mainRef, enforce |-> TRUE, blobs |-> b]
    BY <1>2, <1>4 DEF Activation!SeedInventory
  <2>4. b \in UNION {[K -> LineBlobs \cup {Absent}] : K \in (SUBSET LinePaths) \ {{}}}
    BY <2>2, ActivationAssumption
  <2>5. 1 \in Nat \ {0} /\ mainRef \in Nat \ {0}
    BY <1>1, <1>9
  <2> HIDE DEF b
  <2> QED
    BY <2>3, <2>4, <2>5 DEF Activation!P!Inventory, Activation!P!Commits
<1>12. Activation!Eligible
  <2>1. \A p \in LineSeed : git[mainRef].blobs[p] = i.blobs[p]
    BY <1>10
  <2>2. \E s \in crates : s.version = call.version /\ s.source = i.anchor
    <3> DEFINE s == [version |-> call.version, source |-> call.anchor]
    <3>1. s \in crates /\ s.version = call.version /\ s.source = i.anchor
      BY <1>2, <1>4, <1>10
    <3> QED
      BY <3>1
  <2>3. \E s \in crates : s.version.line > 0 /\ s.version.stable /\ s.source \in git[mainRef].past
    BY <1>2, <1>3
  <2>4. 1 \in git[mainRef].past
    BY DEF Activation!LineInv
  <2> QED
    BY <1>2, <1>10, <2>1, <2>2, <2>3, <2>4 DEF Activation!Eligible
<1>13. r.version.line > 0 /\ r.version.stable /\ r.version \in Activation!Versions
  BY <1>2, <1>3
<1>14. DOMAIN i.blobs = LineSeed
  BY <1>10
<1> QED
  BY <1>3, <1>5, <1>7, <1>8, <1>9, <1>10, <1>11, <1>12, <1>13, <1>14

(* The proposal is made of main as read, which has not moved (start).      *)
LEMMA ProposeInv ==
  ASSUME Activation!IInv, Activation!RereadMain
  PROVE  Activation!IInv'
<1> USE DEF Activation!IInv
<1>1. /\ Activation!At("main") /\ UNCHANGED <<git, mainRef, lineRef, crates, tags>>
      /\ rival' = rival
  BY DEF Activation!RereadMain, Activation!Propose
<1>2. CASE mainRef # call.m
  <2>1. call' = [step |-> "failed"] /\ proposals' = proposals
    BY <1>2 DEF Activation!RereadMain, Activation!Propose
  <2> QED
    BY <1>1, <2>1, FailedInv
<1>3. CASE mainRef = call.m
  <2> DEFINE i == call.inventory
  <2>1. /\ call' = [call EXCEPT !.step = "ok", !.held = Activation!Eligible]
        /\ proposals' = proposals \cup {i}
    BY <1>3 DEF Activation!RereadMain, Activation!Propose
  <2>2. /\ Activation!Eligible
        /\ i \in Activation!P!Inventory /\ i.anchor = 1 /\ i.policy = mainRef /\ i.enforce
        /\ DOMAIN i.blobs = LineSeed /\ 1 < mainRef
        /\ git[1].version = Activation!First
        /\ \E r \in crates :
             /\ r.version.line > 0 /\ r.version.stable /\ r.version \in Activation!Versions
             /\ 1 \in git[r.source].past \ {r.source} /\ r.source \in git[mainRef].past
    BY <1>1, <1>3, Completed
  <2>3. call.step = "main" /\ "main" \in Activation!AfterStart /\ "ok" \in Activation!CallSteps
        /\ "main" \in Activation!AfterInventory
    BY <1>1, StepFacts DEF Activation!At, Activation!CallSteps
  <2>4. DOMAIN call = {"step", "version", "m", "successor", "anchor", "inventory", "held"}
    BY <2>3 DEF Activation!CallInv
  <2> DEFINE held == Activation!Eligible
  <2>5. /\ call'.step = "ok" /\ DOMAIN call' = DOMAIN call /\ call'.m = call.m
        /\ call'.version = call.version /\ call'.successor = call.successor
        /\ call'.anchor = call.anchor /\ call'.inventory = i /\ call'.held = held
    <3>1. call' = [call EXCEPT !.step = "ok", !.held = held]
      BY <2>1
    <3> HIDE DEF held
    <3> QED
      BY <2>4, <3>1
  <2>6. git[mainRef].inv = None /\ \A p \in LineSeed : git[mainRef].blobs[p] = i.blobs[p]
    BY <2>2 DEF Activation!Eligible
  <2>7. mainRef \in git[mainRef].past
    BY LineTyped
  <2>8. rival' \in BOOLEAN
    BY <1>1 DEF Activation!TypeOK
  <2>9. \A j \in proposals' : j.anchor < j.policy /\ j.policy \in git'[mainRef'].past
    BY <1>1, <2>1, <2>2, <2>7 DEF Activation!TypeOK
  <2>10. Activation!TypeOK'
    BY <1>1, <2>3, <2>5, <2>8, <2>9 DEF Activation!TypeOK
  <2>11. Activation!HistoryInv' /\ Activation!LineInv' /\ Activation!CrateInv'
    BY <1>1 DEF Activation!HistoryInv, Activation!LineInv, Activation!CrateInv
  <2>12. Activation!CallInv'
    BY <1>1, <2>3, <2>4, <2>5, StepFacts DEF Activation!CallInv, Activation!SeedInventory
  <2>13. Activation!ProposalInv'
    BY <1>1, <2>1, <2>2, <2>6 DEF Activation!ProposalInv
  <2>14. Activation!ProposalHolds'
    BY <2>2, <2>5 DEF Activation!ProposalHolds
  <2>15. Activation!AnchorIsSuperseded'
    <3>1. \A v \in Activation!Versions : v.line > 0 => Activation!Before(Activation!First, v)
      BY DEF Activation!Before, Activation!First, Activation!V
    <3>2. Activation!First.line = 0 /\ Activation!First.stable
      BY DEF Activation!First, Activation!V
    <3>3. \E r \in crates : /\ r.version.stable /\ Activation!Before(git[1].version, r.version)
                            /\ 1 \in git[r.source].past \ {r.source}
                            /\ r.source \in git[mainRef].past
      BY <2>2, <3>1
    <3>4. \A j \in {i} :
            /\ git[j.anchor].version.line = 0 /\ git[j.anchor].version.stable
            /\ \E r \in crates : /\ r.version.stable
                                 /\ Activation!Before(git[j.anchor].version, r.version)
                                 /\ j.anchor \in git[r.source].past \ {r.source}
                                 /\ r.source \in git[j.policy].past
      BY <2>2, <3>2, <3>3
    <3> QED
      BY <1>1, <2>1, <3>4 DEF Activation!AnchorIsSuperseded, Activation!Before
  <2> QED
    BY <2>10, <2>11, <2>12, <2>13, <2>14, <2>15
<1> QED
  BY <1>2, <1>3

(* The first commit, its release and nothing proposed.                     *)
LEMMA OpeningInv ==
  ASSUME Activation!Init
  PROVE  Activation!IInv
<1>1. PICK b \in LineBlobs :
        git = <<[past |-> {1}, blobs |-> [p \in LinePaths |-> b], inv |-> None,
                 version |-> Activation!First]>>
  BY DEF Activation!Init, Activation!First
<1>2. /\ mainRef = 1 /\ lineRef = 0 /\ rival = FALSE
      /\ crates = {[version |-> Activation!First, source |-> 1]}
      /\ tags = {[version |-> Activation!First, source |-> 1, app |-> TRUE]}
      /\ call.step = "idle" /\ proposals = {}
  BY DEF Activation!Init, Activation!Idle, Activation!First
<1>3. /\ git \in Seq(LineCommit) /\ DOMAIN git = {1} /\ git[1].past = {1} /\ git[1].inv = None
      /\ git[1].version = Activation!First /\ Activation!First \in Activation!Versions
  <2>1. Activation!First \in Activation!Versions
    BY DEF Activation!First, Activation!Versions
  <2>2. {1} \in SUBSET (1..MaxCommits)
    BY MaxCommitsAssumption, ActivationAssumption
  <2>3. [past |-> {1}, blobs |-> [p \in LinePaths |-> b], inv |-> None,
         version |-> Activation!First] \in LineCommit
    BY <2>1, <2>2 DEF LineCommit
  <2> QED
    BY <1>1, <2>1, <2>3
<1>4. "idle" \in Activation!CallSteps
  BY DEF Activation!CallSteps
<1>5. rival \in BOOLEAN
  BY <1>2
<1>6. Activation!TypeOK
  BY <1>2, <1>3, <1>4, <1>5 DEF Activation!TypeOK, LineCommit
<1>7. Activation!HistoryInv
  <2>1. ~Activation!Before(Activation!First, Activation!First)
    BY <1>3, VersionFacts
  <2> QED
    BY <1>3, <2>1 DEF Activation!HistoryInv
<1>8. Activation!LineInv
  BY <1>2, <1>3 DEF Activation!LineInv
<1>9. Activation!CrateInv
  BY <1>2, <1>3 DEF Activation!CrateInv
<1>10. Activation!CallInv
  BY <1>2, StepFacts DEF Activation!CallInv
<1>11. Activation!ProposalInv /\ Activation!ProposalHolds /\ Activation!AnchorIsSuperseded
  BY <1>2 DEF Activation!ProposalInv, Activation!ProposalHolds, Activation!AnchorIsSuperseded
<1> QED
  BY <1>6, <1>7, <1>8, <1>9, <1>10, <1>11 DEF Activation!IInv

(* Every step keeps the invariant.                                         *)
LEMMA ActivationStep ==
  ASSUME Activation!IInv, Activation!Next
  PROVE  Activation!IInv'
<1>1. CASE Activation!Command
  <2>1. \/ \E v \in Activation!Versions : Activation!Start(v)
        \/ Activation!Checkout \/ Activation!Refs \/ Activation!Tags \/ Activation!Anchor
        \/ Activation!SuccessorPublished \/ Activation!Inventory
        \/ Activation!RereadMain
    BY <1>1 DEF Activation!Command
  <2>2. CASE Activation!RereadMain
    BY <2>2, ProposeInv
  <2> QED
    BY <2>1, <2>2, ChecksInv
<1>2. CASE \/ \E p \in LinePaths, b \in LineBlobs \cup {Absent} : Activation!EditPolicy(p, b)
           \/ \E v \in Activation!Versions : Activation!ReleaseMain(v)
           \/ Activation!ReleaseSupport
           \/ \E i \in proposals : Activation!MergeInventory(i) \/ Activation!Import(i)
  BY <1>2, BranchInv
<1>3. CASE \/ Activation!OpenRival
           \/ \E c \in DOMAIN git : Activation!Publish(c)
           \/ \E v \in Activation!Versions, c \in DOMAIN git, app \in BOOLEAN :
                Activation!Tag(v, c, app)
           \/ \E i \in proposals : Activation!Push(i)
  BY <1>3, WorldInv
<1> QED
  BY <1>1, <1>2, <1>3 DEF Activation!Next

(* Nothing else disturbs it.                                               *)
LEMMA ActivationStutter ==
  ASSUME Activation!IInv, UNCHANGED activationVars
  PROVE  Activation!IInv'
<1>1. /\ UNCHANGED <<git, mainRef, lineRef, crates, tags, call, proposals>> /\ rival' = rival
  BY DEF activationVars
<1>2. rival' \in BOOLEAN
  BY <1>1 DEF Activation!IInv, Activation!TypeOK
<1>3. Activation!TypeOK'
  BY <1>1, <1>2 DEF Activation!IInv, Activation!TypeOK
<1>4. Activation!HistoryInv' /\ Activation!LineInv' /\ Activation!CrateInv'
  BY <1>1 DEF Activation!IInv, Activation!HistoryInv, Activation!LineInv, Activation!CrateInv
<1>5. Activation!CallInv' /\ Activation!ProposalInv'
  BY <1>1 DEF Activation!IInv, Activation!CallInv, Activation!ProposalInv,
              Activation!SeedInventory
<1> QED
  BY <1>1, <1>3, <1>4, <1>5
  DEF Activation!IInv, Activation!ProposalHolds, Activation!AnchorIsSuperseded

(* The invariant holds throughout the opening of a support line.           *)
LEMMA ActivationInvariance == MCSpec => [](subject = "activation" => Activation!IInv)
<1> DEFINE Inv == subject = "activation" => Activation!IInv
<1>1. MCInit => Inv
  BY OpeningInv DEF MCInit
<1>2. Inv /\ [MCNext]_<<subject, vars, activationVars>> => Inv'
  <2> SUFFICES ASSUME Inv, [MCNext]_<<subject, vars, activationVars>>,
                      subject' = "activation"
               PROVE  Activation!IInv'
    OBVIOUS
  <2>1. subject = "activation" /\ (Activation!Next \/ UNCHANGED activationVars)
    BY DEF MCNext
  <2> QED
    BY <2>1, ActivationStep, ActivationStutter
<1> QED
  BY <1>1, <1>2, PTL DEF MCSpec

(* When start-support prints a proposal, everything it says of main holds  *)
(* together of main as it is at that moment, though refs, tags, registry   *)
(* and policy files were read one after the other, because main is read    *)
(* again and its history only grows; and the anchor of every proposal is a *)
(* stable release of the line that a stable release of main supersedes     *)
(* (start, select_successor, published_source).                            *)
THEOREM ProposalsStayTrue == MCSpec => []ProposalsAreTrue
<1>1. (subject = "activation" => Activation!IInv) => ProposalsAreTrue
  BY DEF ProposalsAreTrue, Activation!IInv
<1> QED
  BY <1>1, ActivationInvariance, PTL

(* An inventory that the command proposed passes the judgement of          *)
(* Binding::load once the line has imported it: for recovery whatever main *)
(* did to the policy since, and for a fresh source while main keeps the    *)
(* recorded files (seed_inventory against Binding::load).                  *)
THEOREM ProposalsAreLoadable == MCSpec => []ProposedIsLoadable
<1>1. Activation!IInv => Activation!ProposedIsLoadable
  <2> SUFFICES ASSUME Activation!IInv, NEW i \in proposals,
                      lineRef # 0, git[mainRef].inv = i, git[lineRef].inv = i
               PROVE  /\ Activation!P!Load(mainRef, lineRef, "support", "recover")
                      /\ (\A p \in LineSeed : git[mainRef].blobs[p] = i.blobs[p]) =>
                           Activation!P!Load(mainRef, lineRef, "support", "fresh")
    BY DEF Activation!ProposedIsLoadable
  <2>1. /\ i \in Activation!P!Inventory /\ i.anchor = 1 /\ i.enforce
        /\ DOMAIN i.blobs = LineSeed
        /\ git[i.policy].inv = None /\ \A p \in LineSeed : git[i.policy].blobs[p] = i.blobs[p]
        /\ i.policy \in git[mainRef].past
    BY DEF Activation!IInv, Activation!ProposalInv, Activation!TypeOK
  <2>2. i # None /\ i # Malformed
    BY <2>1, ActivationAssumption
  <2>3. /\ git[mainRef].past \cap git[lineRef].past = {1}
        /\ \A p \in LineSeed : git[lineRef].blobs[p] = i.blobs[p]
    BY <2>2 DEF Activation!IInv, Activation!LineInv
  <2>4. Activation!P!MergeBases(lineRef, mainRef) = {1}
    BY <2>3 DEF Activation!P!MergeBases, Activation!P!Past
  <2>5. Activation!P!Anchored(mainRef, lineRef)
    BY <2>1, <2>2, <2>4 DEF Activation!P!Anchored, Activation!P!HasInventory
  <2>6. Activation!P!HistoricalChain(mainRef, lineRef)
    BY <2>1, <2>3 DEF Activation!P!HistoricalChain, Activation!P!HistoricalPathsHold,
                      Activation!P!Ancestor, Activation!P!Past
  <2>7. (\A p \in LineSeed : git[mainRef].blobs[p] = i.blobs[p]) =>
          Activation!P!CarriesPolicy(mainRef, lineRef)
    BY <2>1 DEF Activation!P!CarriesPolicy
  <2> QED
    BY <2>5, <2>6, <2>7 DEF Activation!P!Load
<1>2. (subject = "activation" => Activation!IInv) => ProposedIsLoadable
  BY <1>1 DEF ProposedIsLoadable
<1> QED
  BY <1>2, ActivationInvariance, PTL
=============================================================================

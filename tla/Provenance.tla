------------------------------ MODULE Provenance ------------------------------
(***************************************************************************)
(* The proof that a release source may be released, before authority is    *)
(* used (src/xtask/src/github/provenance.rs).  Binding::load inspects the  *)
(* history that main and a support branch share and the inventories of     *)
(* policy files recorded in it; Binding::verify compares the outcome with  *)
(* the live branches, one read after the other; rebind does both over two  *)
(* fetches of an anonymous clone.                                          *)
(*                                                                         *)
(* A commit is a number, in the order of creation, and never changes.      *)
(* Branches move while calls read them, but only forward: they are         *)
(* protected.  One support line is modelled, next to main.                 *)
(***************************************************************************)
EXTENDS Naturals, Sequences

CONSTANTS
  Calls,       \* concurrent calls of verify or rebind
  Paths,       \* files of the release policy
  Seed,        \* paths of .github/support-policy-paths.txt
  Blobs,       \* contents of a file
  MaxCommits,  \* bound: commits in the repository
  None,        \* no inventory at the line's path
  Malformed    \* an inventory that inventory() refuses

ASSUME PathsAssumption == Seed \in (SUBSET Paths) \ {{}}
ASSUME MaxCommitsAssumption == MaxCommits \in Nat

Commits == Nat \ {0}

Inventory ==
  [anchor : Commits, policy : Commits, enforce : BOOLEAN,
   blobs : UNION {[K -> Blobs] : K \in (SUBSET Paths) \ {{}}}]

ASSUME NoneAssumption == None \notin Inventory /\ Malformed \notin Inventory
                         /\ None # Malformed

\* past is the commit itself and all of its ancestors.
Commit == [past : SUBSET Commits, blobs : [Paths -> Blobs],
           inv : Inventory \cup {None, Malformed}]

Operations == {"fresh", "recover"}

VARIABLES
  db,        \* the object database: a sequence of commits
  main,      \* refs/heads/main
  base,      \* refs/heads/support/M.N
  pc,        \* where each call is
  line,      \* Binding::line
  op,        \* Binding::operation
  source,    \* Binding::source
  policy,    \* Binding::main, the commit of main that the call executes
  seen,      \* the protected base as first read
  together   \* history: everything held at the second read of the base

repoVars == <<db, main, base>>
argVars  == <<line, op, source, policy>>
vars == <<repoVars, pc, argVars, seen, together>>

Steps == {"start", "readBase", "compare", "rereadBase", "readMain",
          "fetchMain", "fetchBase", "inspect", "refetchMain", "refetchBase",
          "ok", "err"}

TypeOK ==
  /\ db \in Seq(Commit)
  /\ main \in DOMAIN db /\ base \in DOMAIN db
  /\ pc \in [Calls -> Steps]
  /\ line \in [Calls -> {"main", "support"}]
  /\ op \in [Calls -> Operations]
  /\ source \in [Calls -> DOMAIN db]
  /\ policy \in [Calls -> DOMAIN db]
  /\ seen \in [Calls -> DOMAIN db]
  /\ together \in [Calls -> BOOLEAN]

-----------------------------------------------------------------------------
(***************************************************************************)
(* Git history.                                                            *)
(***************************************************************************)
Past(c) == db[c].past

\* git merge-base --is-ancestor
Ancestor(a, c) == a \in Past(c)

\* git merge-base, GitHub's merge_base_commit: the best common ancestors.
MergeBases(a, c) ==
  LET common == Past(a) \cap Past(c)
  IN {d \in common : \A e \in common : d \in Past(e) => e = d}

HasInventory(c) == db[c].inv \notin {None, Malformed}

\* historical_chain: the paths that were required when the source recorded
\* its inventory.
HistoricalPathsHold(recorded) ==
  LET then == db[recorded.policy].inv
  IN IF then = None
     THEN recorded.enforce /\ DOMAIN recorded.blobs = Seed
     ELSE /\ then # Malformed
          /\ then.anchor = recorded.anchor
          /\ then.enforce = recorded.enforce
          /\ DOMAIN recorded.blobs = DOMAIN then.blobs

HistoricalChain(at, s) ==
  LET recorded == db[s].inv
  IN /\ Ancestor(recorded.policy, at)
     /\ HistoricalPathsHold(recorded)
     /\ \A p \in DOMAIN recorded.blobs :
          /\ db[s].blobs[p] = recorded.blobs[p]
          /\ db[recorded.policy].blobs[p] = recorded.blobs[p]

\* A fresh source carries what main requires now, with its bytes.
CarriesPolicy(at, s) ==
  LET active == db[at].inv
      recorded == db[s].inv
  IN active.enforce =>
       /\ recorded.enforce
       /\ DOMAIN recorded.blobs = DOMAIN active.blobs
       /\ \A p \in DOMAIN recorded.blobs : db[at].blobs[p] = recorded.blobs[p]

Anchored(at, s) ==
  /\ HasInventory(at) /\ HasInventory(s)
  /\ db[at].inv.anchor = db[s].inv.anchor
  /\ MergeBases(s, at) = {db[at].inv.anchor}

\* Mutant of Load: a fresh source is compared with current main only.
LoadFreshWithoutChain(at, s, l, o) ==
  l = "support" =>
    /\ Anchored(at, s)
    /\ o = "recover" => HistoricalChain(at, s)
    /\ o = "fresh" => CarriesPolicy(at, s)

\* Binding::load.  That the anchor is an ancestor of both follows from its
\* being their merge base.
Load(at, s, l, o) ==
  l = "support" =>
    /\ Anchored(at, s)
    /\ HistoricalChain(at, s)
    /\ o = "fresh" => CarriesPolicy(at, s)

\* The lineage checks of verify and verify_git for one tip of the base.
OnLineage(at, s, l, o, tip) ==
  /\ o = "fresh" => tip = s
  /\ Ancestor(s, tip)
  /\ l = "support" => MergeBases(tip, at) = {db[at].inv.anchor}

Tip(l) == IF l = "main" THEN main ELSE base

\* All that a call establishes, at the present instant.
Bound(c) ==
  /\ main = policy[c]
  /\ Load(main, source[c], line[c], op[c])
  /\ OnLineage(main, source[c], line[c], op[c], Tip(line[c]))

Init ==
  \* The line has just been opened: its inventory is on main.
  \E b \in Blobs : LET b1 == [p \in Paths |-> b] IN
    /\ db = << [past |-> {1}, blobs |-> b1, inv |-> None],
               [past |-> {1, 2}, blobs |-> b1,
                inv |-> [anchor |-> 1, policy |-> 1, enforce |-> TRUE,
                         blobs |-> [p \in Seed |-> b1[p]]]] >>
    /\ main = 2 /\ base = 1
    /\ pc = [c \in Calls |-> "start"]
    /\ line = [c \in Calls |-> "main"]
    /\ op = [c \in Calls |-> "fresh"]
    /\ source = [c \in Calls |-> 1]
    /\ policy = [c \in Calls |-> 1]
    /\ seen = [c \in Calls |-> 1]
    /\ together = [c \in Calls |-> FALSE]

-----------------------------------------------------------------------------
(***************************************************************************)
(* Merges into the protected branches.                                     *)
(***************************************************************************)
Record(past, blobs, inv) ==
  /\ Len(db) < MaxCommits
  /\ db' = Append(db, [past |-> past \cup {Len(db) + 1},
                       blobs |-> blobs, inv |-> inv])
  /\ UNCHANGED <<pc, argVars, seen, together>>

OnMain(past, blobs, inv) ==
  /\ Record(past, blobs, inv)
  /\ main' = Len(db) + 1
  /\ UNCHANGED base

OnBase(past, blobs, inv) ==
  /\ Record(past, blobs, inv)
  /\ base' = Len(db) + 1
  /\ UNCHANGED main

\* The paths K of a commit, as an inventory records them.
BlobsAt(c, K) == [p \in K |-> db[c].blobs[p]]

EditMain(p, b) ==
  OnMain(Past(main), [db[main].blobs EXCEPT ![p] = b], db[main].inv)

\* Main's inventory is reviewed anew: its path set, its enforcement, or
\* another activation of the line.
ReviewInventory(anchor, K, e) ==
  OnMain(Past(main), db[main].blobs,
         [anchor |-> anchor, policy |-> main, enforce |-> e,
          blobs |-> BlobsAt(main, K)])

DropInventory(i) == OnMain(Past(main), db[main].blobs, i)

MergeBaseIntoMain ==
  OnMain(Past(main) \cup Past(base), db[main].blobs, db[main].inv)

EditBase(p, b) ==
  OnBase(Past(base), [db[base].blobs EXCEPT ![p] = b], db[base].inv)

\* The files K of commit c are brought to the base, with an inventory.
Overlay(c, K) ==
  [p \in Paths |-> IF p \in K THEN db[c].blobs[p] ELSE db[base].blobs[p]]

\* The activation is imported: main's own inventory and what it records.
ImportInventory ==
  /\ HasInventory(main)
  /\ LET i == db[main].inv
     IN OnBase(Past(base), Overlay(i.policy, DOMAIN i.blobs), i)

\* The base is brought up to the policy of current main.
RefreshInventory ==
  /\ HasInventory(main)
  /\ LET i == db[main].inv
     IN OnBase(Past(base), Overlay(main, DOMAIN i.blobs),
               [i EXCEPT !.policy = main,
                         !.blobs = BlobsAt(main, DOMAIN i.blobs)])

\* One entry of the base's inventory is changed, as a review should notice.
AlterInventory ==
  LET i == db[base].inv
      Becomes(j) == OnBase(Past(base), db[base].blobs, j)
  IN /\ HasInventory(base)
     /\ \/ Becomes([i EXCEPT !.anchor = main])
        \/ Becomes([i EXCEPT !.enforce = ~i.enforce])
        \/ \E c \in DOMAIN db : Becomes([i EXCEPT !.policy = c])
        \/ \E K \in (SUBSET Paths) \ {{}} :
             Becomes([i EXCEPT !.blobs = BlobsAt(base, K)])

MergeMainIntoBase ==
  OnBase(Past(base) \cup Past(main), db[base].blobs, db[base].inv)

Merge ==
  \/ \E p \in Paths, b \in Blobs : EditMain(p, b) \/ EditBase(p, b)
  \/ \E K \in (SUBSET Paths) \ {{}}, e \in BOOLEAN : ReviewInventory(1, K, e)
  \/ ReviewInventory(main, Seed, TRUE)
  \/ \E i \in {None, Malformed} : DropInventory(i)
  \/ ImportInventory \/ RefreshInventory
  \/ AlterInventory
  \/ MergeBaseIntoMain \/ MergeMainIntoBase

-----------------------------------------------------------------------------
(***************************************************************************)
(* Calls.                                                                  *)
(***************************************************************************)
Go(c, next) == pc' = [pc EXCEPT ![c] = next]

Arguments(c, l, o, s) ==
  /\ pc[c] = "start"
  /\ line' = [line EXCEPT ![c] = l]
  /\ op' = [op EXCEPT ![c] = o]
  /\ source' = [source EXCEPT ![c] = s]
  /\ policy' = [policy EXCEPT ![c] = main]
  /\ together' = [together EXCEPT ![c] = FALSE]
  /\ UNCHANGED <<repoVars, seen>>

\* Binding::load on a workflow's commit of main, then Binding::verify.
StartVerify(c, l, o, s) ==
  /\ Arguments(c, l, o, s)
  /\ Go(c, IF Load(main, s, l, o) THEN "readBase" ELSE "err")

ReadBase(c) ==
  /\ pc[c] = "readBase"
  /\ seen' = [seen EXCEPT ![c] = Tip(line[c])]
  /\ Go(c, IF op[c] = "fresh" => Tip(line[c]) = source[c]
           THEN "compare" ELSE "err")
  /\ UNCHANGED <<repoVars, argVars, together>>

\* Comparisons of commits do not depend on when they are asked for.
Compare(c) ==
  /\ pc[c] = "compare"
  /\ Go(c, IF OnLineage(policy[c], source[c], line[c], op[c], seen[c])
           THEN "rereadBase" ELSE "err")
  /\ UNCHANGED <<repoVars, argVars, seen, together>>

\* Mutant of RereadBase: the base may have moved.
SkipRereadBase(c) ==
  /\ pc[c] = "rereadBase"
  /\ together' = [together EXCEPT ![c] = Bound(c)]
  /\ Go(c, "readMain")
  /\ UNCHANGED <<repoVars, argVars, seen>>

RereadBase(c) ==
  /\ pc[c] = "rereadBase"
  /\ together' = [together EXCEPT ![c] = Bound(c)]
  /\ Go(c, IF Tip(line[c]) = seen[c] THEN "readMain" ELSE "err")
  /\ UNCHANGED <<repoVars, argVars, seen>>

ReadMain(c) ==
  /\ pc[c] = "readMain"
  /\ Go(c, IF main = policy[c] THEN "ok" ELSE "err")
  /\ UNCHANGED <<repoVars, argVars, seen, together>>

\* rebind, from a policy checkout of main.
StartRebind(c, l, o, s) == Arguments(c, l, o, s) /\ Go(c, "fetchMain")

FetchMain(c) ==
  /\ pc[c] = "fetchMain"
  /\ Go(c, IF main = policy[c] THEN "fetchBase" ELSE "err")
  /\ UNCHANGED <<repoVars, argVars, seen, together>>

\* For main itself there is one ref, which was just fetched.
Fetched(c) == IF line[c] = "main" THEN policy[c] ELSE base

FetchBase(c) ==
  /\ pc[c] = "fetchBase"
  /\ seen' = [seen EXCEPT ![c] = Fetched(c)]
  /\ Go(c, "inspect")
  /\ UNCHANGED <<repoVars, argVars, together>>

\* Binding::load and verify_git on the fetched objects.
Inspect(c) ==
  /\ pc[c] = "inspect"
  /\ Go(c, IF /\ Load(policy[c], source[c], line[c], op[c])
              /\ OnLineage(policy[c], source[c], line[c], op[c], seen[c])
           THEN "refetchMain" ELSE "err")
  /\ UNCHANGED <<repoVars, argVars, seen, together>>

RefetchMain(c) ==
  /\ pc[c] = "refetchMain"
  /\ together' = [together EXCEPT ![c] = Bound(c)]
  /\ Go(c, IF main = policy[c] THEN "refetchBase" ELSE "err")
  /\ UNCHANGED <<repoVars, argVars, seen>>

RefetchBase(c) ==
  /\ pc[c] = "refetchBase"
  /\ Go(c, IF Fetched(c) = seen[c] THEN "ok" ELSE "err")
  /\ UNCHANGED <<repoVars, argVars, seen, together>>

\* A read or a fetch fails.
Fail(c) ==
  /\ pc[c] \notin {"start", "ok", "err"}
  /\ Go(c, "err")
  /\ UNCHANGED <<repoVars, argVars, seen, together>>

CallStep(c) ==
  \/ ReadBase(c) \/ Compare(c) \/ RereadBase(c) \/ ReadMain(c)
  \/ FetchMain(c) \/ FetchBase(c) \/ Inspect(c)
  \/ RefetchMain(c) \/ RefetchBase(c) \/ Fail(c)

Next ==
  \/ Merge
  \/ \E c \in Calls : CallStep(c)
  \/ \E c \in Calls, l \in {"main", "support"}, o \in Operations,
       s \in DOMAIN db : StartVerify(c, l, o, s) \/ StartRebind(c, l, o, s)

Spec == Init /\ [][Next]_vars

-----------------------------------------------------------------------------
(***************************************************************************)
(* Properties.                                                             *)
(***************************************************************************)

(* A call reads main and the base one after the other, while both move.    *)
(* If it returns Ok there was one instant, that of its second look, at     *)
(* which main was the executed policy, the source was on the base (at its  *)
(* tip, if fresh) and the inventories and the anchor held (the two reads   *)
(* of the base in Binding::verify, the two fetches of rebind).             *)
BoundTogether == \A c \in Calls : pc[c] = "ok" => together[c]

(* A source accepted for fresh publication on a line whose policy is       *)
(* enforced has, file by file, the policy that main required, though the   *)
(* call never compares the two directly: it goes through the source's own  *)
(* inventory (historical_chain and the last check of Binding::load).       *)
FreshCarriesPolicy ==
  \A c \in Calls :
    LET active == db[policy[c]].inv
    IN (/\ pc[c] = "ok" /\ line[c] = "support" /\ op[c] = "fresh"
        /\ active.enforce)
       => \A p \in DOMAIN active.blobs :
            db[source[c]].blobs[p] = db[policy[c]].blobs[p]

\* Main still selects the source's activation and the line is apart.
LineStands(s) ==
  /\ HasInventory(main) /\ db[main].inv.anchor = db[s].inv.anchor
  /\ MergeBases(base, main) = {db[main].inv.anchor}

(* What was accepted stays recoverable: however main changes the required  *)
(* paths, their bytes or the enforcement, and however far the line moves   *)
(* on, a later recovery of the same source passes, as long as main keeps   *)
(* the line's anchor and the two are not merged (Binding::load, "fresh     *)
(* publication must be recoverable").                                      *)
RecoveryStaysOpen ==
  \A c \in Calls :
    pc[c] = "ok" /\ line[c] = "support" /\ LineStands(source[c]) =>
      /\ Load(main, source[c], "support", "recover")
      /\ OnLineage(main, source[c], "support", "recover", base)

-----------------------------------------------------------------------------
(***************************************************************************)
(* The inductive invariant behind the safety properties, in named parts.   *)
(***************************************************************************)
\* Histories and inventories name commits that exist.
HistoryInv ==
  \A c \in DOMAIN db :
    /\ Past(c) \subseteq DOMAIN db
    /\ HasInventory(c) => db[c].inv.policy \in DOMAIN db

\* What load has established stays true of the same commits.
LoadedSteps == {"readBase", "compare", "rereadBase", "readMain",
                "refetchMain", "refetchBase", "ok"}

LoadInv ==
  \A c \in Calls : pc[c] \in LoadedSteps =>
    Load(policy[c], source[c], line[c], op[c])

\* What was compared is about the base as it was first read.
LineageInv ==
  \A c \in Calls :
    /\ pc[c] \in {"rereadBase", "refetchMain", "refetchBase"}
         => OnLineage(policy[c], source[c], line[c], op[c], seen[c])
    /\ pc[c] \in {"inspect", "refetchMain", "refetchBase"}
         => (line[c] = "main" => seen[c] = policy[c])

\* A branch that has moved since the second look never comes back.
TogetherInv ==
  \A c \in Calls :
    /\ pc[c] = "readMain" /\ main = policy[c] => together[c]
    /\ pc[c] = "refetchBase" /\ Fetched(c) = seen[c] => together[c]

IInv == TypeOK /\ HistoryInv /\ LoadInv /\ LineageInv /\ TogetherInv
        /\ BoundTogether

\* A history is closed and in the order of creation.
PastInv ==
  \A c \in DOMAIN db :
    /\ c \in Past(c)
    /\ \A d \in Past(c) : d <= c /\ Past(d) \subseteq Past(c)

\* What was on a protected branch stays on it.
ForwardInv ==
  \A c \in Calls :
    /\ policy[c] \in Past(main)
    /\ pc[c] \in {"readMain", "ok"} /\ line[c] = "support"
         => source[c] \in Past(base)

RecoveryInv == IInv /\ PastInv /\ ForwardInv
=============================================================================

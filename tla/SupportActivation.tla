--------------------------- MODULE SupportActivation ---------------------------
(***************************************************************************)
(* Opening a support line: cargo xtask github release start-support        *)
(* (src/xtask/src/github/support.rs) reads main, refs, tags, the registry  *)
(* and Git one after the other, and proposes a push of an absent ref and   *)
(* an inventory of policy files.  Maintainers execute the proposal later,  *)
(* perhaps twice; meanwhile main moves, releases are published and tagged, *)
(* and another line may be opened.                                         *)
(*                                                                         *)
(* Commits are those of Provenance, which judges the line afterwards: past,*)
(* policy files and inventory, here with the version in the manifest.      *)
(***************************************************************************)
EXTENDS Naturals, Sequences, FiniteSets

CONSTANTS
  Paths,      \* files of the release policy
  Seed,       \* paths of .github/support-policy-paths.txt
  Blobs,      \* contents of a file
  Absent,     \* the content of a path that a commit has not
  MaxCommits, \* bound: commits in the repository
  None, Malformed

VARIABLES
  db,       \* the commits
  main,     \* refs/heads/main
  base,     \* refs/heads/support/M.N, 0 when absent
  rival,    \* whether another support ref exists
  crates,   \* the published versions, each with the commit in its archive
  tags,     \* the release tags: version, commit and whether the App's
  call,     \* the command
  proposals \* the inventories proposed by commands that succeeded

vars == <<db, main, base, rival, crates, tags, call, proposals>>
history == <<db, main, base, rival, crates, tags, proposals>>

\* The judgement of the line by Binding::load.
P == INSTANCE Provenance WITH
       Calls <- {}, pc <- 0, line <- 0, op <- 0, source <- 0, policy <- 0,
       seen <- 0, together <- 0, Blobs <- Blobs \cup {Absent}

-----------------------------------------------------------------------------
(***************************************************************************)
(* Versions.  Line 0 is the one to be opened.                              *)
(***************************************************************************)
V(line, patch, stable) == [line |-> line, patch |-> patch, stable |-> stable]
Versions == {V(0, 0, TRUE), V(0, 1, TRUE), V(1, 0, FALSE), V(1, 0, TRUE)}
Before(v, w) ==
  \/ v.line < w.line
  \/ v.line = w.line /\ v.patch < w.patch
  \/ v.line = w.line /\ v.patch = w.patch /\ ~v.stable /\ w.stable
Latest(S) == CHOOSE v \in S : \A w \in S : v = w \/ Before(w, v)

Idle == [step |-> "idle"]
CallSteps == {"idle", "checkout", "refs", "tags", "anchor", "successor", "inventory",
              "main", "ok", "failed"}

TypeOK ==
  /\ db \in Seq([past : SUBSET (1..MaxCommits), blobs : [Paths -> Blobs \cup {Absent}],
                 inv : P!Inventory \cup {None}, version : Versions])
  /\ \A c \in DOMAIN db : c \in db[c].past /\ db[c].past \subseteq 1..c
  /\ main \in DOMAIN db /\ base \in {0} \cup DOMAIN db /\ rival \in BOOLEAN
  /\ \A r \in crates : db[r.source].version = r.version
  /\ \A t \in tags : t.app => [version |-> t.version, source |-> t.source] \in crates
  /\ call.step \in CallSteps
  /\ \A i \in proposals : i.anchor < i.policy /\ i.policy \in db[main].past

Init ==
  \E b \in Blobs :
    /\ db = <<[past |-> {1}, blobs |-> [p \in Paths |-> b], inv |-> None,
               version |-> V(0, 0, TRUE)]>>
    /\ main = 1 /\ base = 0 /\ rival = FALSE
    /\ crates = {[version |-> V(0, 0, TRUE), source |-> 1]}
    /\ tags = {[version |-> V(0, 0, TRUE), source |-> 1, app |-> TRUE]}
    /\ call = Idle /\ proposals = {}

-----------------------------------------------------------------------------
(***************************************************************************)
(* The repository and the registry.                                        *)
(***************************************************************************)
Record(from, commit) ==
  /\ Len(db) < MaxCommits
  /\ db' = Append(db, [commit EXCEPT !.past = db[from].past \cup {Len(db) + 1}])

OnMain(commit) ==
  /\ Record(main, commit) /\ main' = Len(db) + 1
  /\ UNCHANGED <<base, rival, crates, tags, call, proposals>>
OnBase(commit) ==
  /\ base # 0 /\ Record(base, commit) /\ base' = Len(db) + 1
  /\ UNCHANGED <<main, rival, crates, tags, call, proposals>>

EditPolicy(p, b) ==
  b # db[main].blobs[p] /\ OnMain([db[main] EXCEPT !.blobs[p] = b])
ReleaseMain(v) ==
  v.line > 0 /\ Before(db[main].version, v) /\ OnMain([db[main] EXCEPT !.version = v])
ReleaseSupport ==
  base # 0 /\ db[base].version = V(0, 0, TRUE) /\ OnBase([db[base] EXCEPT !.version = V(0, 1, TRUE)])

Publish(c) ==
  /\ c \in db[main].past \/ (base # 0 /\ c \in db[base].past)
  /\ \A r \in crates : r.version # db[c].version
  /\ crates' = crates \cup {[version |-> db[c].version, source |-> c]}
  /\ UNCHANGED <<db, main, base, rival, tags, call, proposals>>

\* The finalizer tags what is published; somebody else may push a tag of a
\* stable version to the first commit.
Tag(v, c, app) ==
  /\ \A t \in tags : t.version # v
  /\ IF app THEN [version |-> v, source |-> c] \in crates ELSE v.stable /\ c = 1
  /\ tags' = tags \cup {[version |-> v, source |-> c, app |-> app]}
  /\ UNCHANGED <<db, main, base, rival, crates, call, proposals>>

OpenRival ==
  /\ ~rival /\ rival' = TRUE
  /\ UNCHANGED <<db, main, base, crates, tags, call, proposals>>

-----------------------------------------------------------------------------
(***************************************************************************)
(* The command.                                                            *)
(***************************************************************************)
Require(condition, step) ==
  /\ call' = IF condition THEN [call EXCEPT !.step = step] ELSE [step |-> "failed"]
  /\ UNCHANGED history
At(step) == call.step = step

\* start: the version and the first read of main.
Start(v) ==
  /\ call.step \in {"idle", "failed"} /\ v.stable /\ v.line = 0
  /\ call' = [step |-> "checkout", version |-> v, m |-> main, successor |-> v,
              anchor |-> 0, inventory |-> None, held |-> FALSE]
  /\ UNCHANGED history

\* The checkout is main as read: it is fetched before the call or is older.
Checkout ==
  /\ At("checkout")
  /\ \E fetched \in BOOLEAN : Require(fetched, "refs")

\* No support ref, no inventory in main as read.
Refs ==
  /\ At("refs")
  /\ Require(base = 0 /\ ~rival /\ db[call.m].inv = None, "tags")

\* require_successor: a stable version after the line.
Successors(S) == {v \in S : v.line > 0 /\ v.stable}

\* select_successor.
Tags ==
  /\ At("tags")
  /\ LET named == {t.version : t \in tags}
         ofLine == {v \in named : v.line = 0 /\ v.stable}
     IN IF ofLine # {} /\ Latest(ofLine) = call.version /\ Successors(named) # {}
        THEN call' = [call EXCEPT !.step = "anchor", !.successor = Latest(Successors(named))]
        ELSE call' = [step |-> "failed"]
  /\ UNCHANGED history

\* published_source: the App's tag of a commit of main as read, whose archive
\* is published.
Published(t, m) ==
  t.app /\ t.source \in db[m].past /\ [version |-> t.version, source |-> t.source] \in crates

Anchor ==
  /\ At("anchor")
  /\ \E t \in tags :
       /\ t.version = call.version
       /\ call' = IF Published(t, call.m)
                  THEN [call EXCEPT !.step = "successor", !.anchor = t.source]
                  ELSE [step |-> "failed"]
  /\ UNCHANGED history

SuccessorPublished ==
  /\ At("successor")
  /\ \E t \in tags : t.version = call.successor /\ Require(Published(t, call.m), "inventory")

\* Mutant of SeedInventory: the files are those of the anchor.
SeedOfAnchor(anchor, m) ==
  [anchor |-> anchor, policy |-> m, enforce |-> TRUE,
   blobs |-> [p \in Seed |-> db[anchor].blobs[p]]]

\* seed_inventory: the seed's paths, each one regular blob of main as read.
SeedInventory(anchor, m) ==
  [anchor |-> anchor, policy |-> m, enforce |-> TRUE,
   blobs |-> [p \in Seed |-> db[m].blobs[p]]]

Inventory ==
  /\ At("inventory")
  /\ LET i == SeedInventory(call.anchor, call.m)
     IN call' = IF \A p \in Seed : i.blobs[p] # Absent
                THEN [call EXCEPT !.step = "main", !.inventory = i]
                ELSE [step |-> "failed"]
  /\ UNCHANGED history

\* What a reader of the proposal takes for true.
Eligible ==
  LET i == call.inventory IN
  /\ db[main].inv = None
  /\ \A p \in Seed : db[main].blobs[p] = i.blobs[p]
  /\ i.policy = main /\ i.anchor \in db[main].past
  /\ \E r \in crates : r.version = call.version /\ r.source = i.anchor
  /\ \E r \in crates : r.version.line > 0 /\ r.version.stable /\ r.source \in db[main].past

Propose(condition) ==
  /\ call' = IF condition THEN [call EXCEPT !.step = "ok", !.held = Eligible]
             ELSE [step |-> "failed"]
  /\ proposals' = IF condition THEN proposals \cup {call.inventory} ELSE proposals
  /\ UNCHANGED <<db, main, base, rival, crates, tags>>

\* Mutant of RereadMain: the proposal is printed at once.
NotReread == At("main") /\ Propose(TRUE)

\* start: main has not moved.
RereadMain == At("main") /\ Propose(main = call.m)

Command ==
  \/ \E v \in Versions : Start(v)
  \/ Checkout \/ Refs \/ Tags \/ Anchor \/ SuccessorPublished \/ Inventory \/ RereadMain

-----------------------------------------------------------------------------
(***************************************************************************)
(* The activation, by maintainers, at any later time.                      *)
(***************************************************************************)
\* git push --force-with-lease=REF: succeeds when the ref is absent.
Push(i) ==
  /\ base = 0 /\ base' = i.anchor
  /\ UNCHANGED <<db, main, rival, crates, tags, call, proposals>>

MergeInventory(i) ==
  db[main].inv = None /\ OnMain([db[main] EXCEPT !.inv = i])

\* The line imports its inventory and the files it records.
Import(i) ==
  base # 0 /\ db[base].inv = None /\
  OnBase([db[base] EXCEPT !.inv = i,
            !.blobs = [p \in Paths |-> IF p \in Seed THEN i.blobs[p] ELSE @[p]]])

Next ==
  \/ Command
  \/ \E p \in Paths, b \in Blobs \cup {Absent} : EditPolicy(p, b)
  \/ \E v \in Versions : ReleaseMain(v)
  \/ ReleaseSupport \/ OpenRival
  \/ \E c \in DOMAIN db : Publish(c)
  \/ \E v \in Versions, c \in DOMAIN db, app \in BOOLEAN : Tag(v, c, app)
  \/ \E i \in proposals : Push(i) \/ MergeInventory(i) \/ Import(i)

Spec == Init /\ [][Next]_vars

-----------------------------------------------------------------------------
(***************************************************************************)
(* Properties.                                                             *)
(***************************************************************************)
\* When a proposal is printed, all it says of main holds together of main as it
\* is: no inventory, the recorded bytes of the policy files, the published
\* anchor and a stable successor published from main, though each was read at
\* another time (start, published_source, seed_inventory).
ProposalHolds == call.step = "ok" => call.held

\* What is proposed is what the line is later judged by: a source that imports
\* the proposed inventory can be recovered whatever main does to the policy,
\* and is fresh as long as main keeps the recorded files (seed_inventory
\* against Binding::load).
ProposedIsLoadable ==
  \A i \in proposals :
    /\ base # 0 /\ db[main].inv = i /\ db[base].inv = i
    /\ \A c \in db[base].past : c > i.anchor => db[c].inv \in {None, i}
    => /\ P!Load(main, base, "support", "recover")
       /\ (\A p \in Seed : db[main].blobs[p] = i.blobs[p]) =>
            P!Load(main, base, "support", "fresh")

\* The anchor of every proposal is a stable release of the line made from main,
\* never one of the line itself, and it is older than the stable release of
\* main that supersedes it (select_successor, published_source).
AnchorIsSuperseded ==
  \A i \in proposals :
    /\ db[i.anchor].version.line = 0 /\ db[i.anchor].version.stable
    /\ \E r \in crates : /\ r.version.stable /\ Before(db[i.anchor].version, r.version)
                         /\ i.anchor \in db[r.source].past \ {r.source}
                         /\ r.source \in db[i.policy].past

-----------------------------------------------------------------------------
(***************************************************************************)
(* The invariant by which these are proved.                                *)
(***************************************************************************)
First == V(0, 0, TRUE)

\* A history is a chain of commits along which versions never go back.
HistoryInv ==
  \A c \in DOMAIN db : \A d \in db[c].past :
    /\ db[d].past \subseteq db[c].past /\ ~Before(db[c].version, db[d].version)
    /\ \A e \in db[c].past : d \in db[e].past \/ e \in db[d].past

\* The patches of the line are not made on main, and the line leaves main at
\* its first commit, from which on it has the files that it has imported.
LineInv ==
  /\ 1 \in db[main].past /\ db[1].inv = None
  /\ \A c \in db[main].past : db[c].version.line = 0 => db[c].version = First
  /\ base # 0 =>
       /\ db[main].past \cap db[base].past = {1}
       /\ db[base].inv # None => \A p \in Seed : db[base].blobs[p] = db[base].inv.blobs[p]

\* A version is published once, from the commit that has it.
CrateInv ==
  /\ \A r \in crates : r \in [version : Versions, source : DOMAIN db]
  /\ \A r, s \in crates : r.version = s.version => r = s
  /\ [version |-> First, source |-> 1] \in crates
  /\ \A t \in tags : t \in [version : Versions, source : DOMAIN db, app : BOOLEAN]

AfterInventory == {"main", "ok"}
AfterSuccessor == AfterInventory \cup {"inventory"}
AfterAnchor    == AfterSuccessor \cup {"successor"}
AfterTags      == AfterAnchor \cup {"anchor"}
AfterRefs      == AfterTags \cup {"tags"}
AfterStart     == AfterRefs \cup {"checkout", "refs"}

\* What a command has found, of commits that never change.
CallInv ==
  /\ call.step \in AfterStart =>
       /\ DOMAIN call = {"step", "version", "m", "successor", "anchor", "inventory", "held"}
       /\ call.m \in db[main].past
       /\ call.version \in Versions /\ call.version.line = 0 /\ call.version.stable
  /\ call.step \in AfterRefs => db[call.m].inv = None
  /\ call.step \in AfterTags =>
       call.successor \in Versions /\ call.successor.line > 0 /\ call.successor.stable
  /\ call.step \in AfterAnchor =>
       /\ call.anchor \in db[call.m].past
       /\ [version |-> call.version, source |-> call.anchor] \in crates
  /\ call.step \in AfterSuccessor =>
       \E r \in crates : r.version = call.successor /\ r.source \in db[call.m].past
  /\ call.step \in AfterInventory => call.inventory = SeedInventory(call.anchor, call.m)

\* A proposal is anchored where the line leaves main, and records the files of
\* a commit of main that had no inventory yet.
ProposalInv ==
  \A i \in proposals :
    /\ i \in P!Inventory /\ i.anchor = 1 /\ i.enforce /\ DOMAIN i.blobs = Seed
    /\ db[i.policy].inv = None /\ \A p \in Seed : db[i.policy].blobs[p] = i.blobs[p]

IInv == /\ TypeOK /\ HistoryInv /\ LineInv /\ CrateInv /\ CallInv /\ ProposalInv
        /\ ProposalHolds /\ AnchorIsSuperseded
=============================================================================

---------------------------- MODULE MCProvenance -----------------------------
(***************************************************************************)
(* Source provenance and the opening of a support line for TLC.  A         *)
(* behaviour is either one of Provenance, with two policy files with two   *)
(* contents each of which the activation required one, or one of           *)
(* SupportActivation, with the required file alone.  `subject' says which, *)
(* from the start; the other part has no state.                            *)
(***************************************************************************)
EXTENDS Provenance, TLC

CONSTANTS ci, publish, old, new, Absent
MCPaths == {ci, publish}
MCSeed  == {ci}
MCBlobs == {old, new}

\* What SupportActivation is given.
CONSTANTS LinePaths, LineSeed, LineBlobs

ContentsAreAlike == Permutations(MCBlobs)

VARIABLES subject, git, mainRef, lineRef, rival, crates, tags, call, proposals

Activation == INSTANCE SupportActivation WITH
  Paths <- LinePaths, Seed <- LineSeed, Blobs <- LineBlobs,
  db <- git, main <- mainRef, base <- lineRef

ASSUME ActivationAssumption ==
  /\ LineSeed \in (SUBSET LinePaths) \ {{}} /\ MaxCommits > 0
  /\ None \notin Activation!P!Inventory /\ Malformed \notin Activation!P!Inventory

activationVars == <<git, mainRef, lineRef, rival, crates, tags, call, proposals>>

MCInit ==
  \/ /\ subject = "provenance" /\ Init
     /\ git = None /\ mainRef = None /\ lineRef = None /\ rival = None
     /\ crates = None /\ tags = None /\ call = None /\ proposals = None
  \/ /\ subject = "activation" /\ Activation!Init
     /\ db = <<>> /\ main = 0 /\ base = 0
     /\ pc = [c \in Calls |-> "err"]
     /\ line = None /\ op = None /\ source = None /\ policy = None
     /\ seen = None /\ together = None

MCNext ==
  /\ UNCHANGED subject
  /\ \/ subject = "provenance" /\ Next /\ UNCHANGED activationVars
     \/ subject = "activation" /\ Activation!Next /\ UNCHANGED vars

MCSpec == MCInit /\ [][MCNext]_<<subject, vars, activationVars>>

\* When a proposal is printed, all it says of main holds together of main as it
\* is, though each was read at another time, and the anchor of every proposal
\* is a stable release of the line that a stable release of main supersedes
\* (start, published_source, select_successor).
ProposalsAreTrue ==
  subject = "activation" =>
    Activation!TypeOK /\ Activation!ProposalHolds /\ Activation!AnchorIsSuperseded

\* What is proposed is what the line is later judged by: a source that imports
\* the proposed inventory stays recoverable, and is fresh as long as main keeps
\* the recorded files (seed_inventory against Binding::load).
ProposedIsLoadable == subject = "activation" => Activation!ProposedIsLoadable
=============================================================================

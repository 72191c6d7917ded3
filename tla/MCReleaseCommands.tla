-------------------------- MODULE MCReleaseCommands ---------------------------
(***************************************************************************)
(* The proposal of one release and the succession of the releases of a     *)
(* line for TLC.  A behaviour is one of ReleaseProposal or one of          *)
(* ReleaseProgression.  `subject' says which, from the start; the other    *)
(* part stays as it begins.                                                *)
(***************************************************************************)
EXTENDS Naturals, Sequences

\* What ReleaseProposal is given.
CONSTANTS MaxUpstream, MaxWork, MaxOwn

ASSUME ProposalAssumption ==
  MaxUpstream \in Nat \ {0} /\ MaxWork \in Nat /\ MaxOwn \in Nat

\* What ReleaseProgression is given.
CONSTANTS MaxPatch, MaxRc, MaxCommits

ASSUME ProgressionAssumption ==
  MaxPatch \in Nat /\ MaxRc \in Nat /\ MaxCommits \in Nat \ {0}

VARIABLES
  subject, upstream, tracking, branch, head, wt, call, pull, merged, work,
  line, crates, tags, clone, proposal, publication

Proposal == INSTANCE ReleaseProposal
Line == INSTANCE ReleaseProgression WITH run <- publication

proposalVars == <<upstream, tracking, branch, head, wt, call, pull, merged, work>>
lineVars     == <<line, crates, tags, clone, proposal, publication>>

NoProposal ==
  /\ upstream = <<>> /\ tracking = 0 /\ branch = "release"
  /\ head = [base |-> 0, own |-> <<>>] /\ wt = Proposal!None
  /\ call = Proposal!None /\ pull = Proposal!None /\ merged = Proposal!None /\ work = 0

CommandsInit ==
  \/ subject = "proposal" /\ Proposal!Init /\ Line!Init
  \/ subject = "line" /\ NoProposal /\ Line!Init

CommandsNext ==
  /\ UNCHANGED subject
  /\ \/ subject = "proposal" /\ Proposal!Next /\ UNCHANGED lineVars
     \/ subject = "line" /\ Line!Next /\ UNCHANGED proposalVars

CommandsSpec == CommandsInit /\ [][CommandsNext]_<<subject, proposalVars, lineVars>>

\* The three commands of a proposal do exactly what they say, in a clone and a
\* worktree that change between any two of their steps: what a prepare, check or
\* activate that succeeded has in the worktree or in HEAD, and what an activate
\* that failed or was killed can leave (prepare, check, activate).
CommandsExact ==
  subject = "proposal" =>
    /\ Proposal!TypeOK /\ Proposal!PreparedExactly /\ Proposal!CheckedExactly
    /\ Proposal!ActivatedExactly

\* A source that qualifies differs from the base that preceded it in the version,
\* which is the selected one, and in the changelog, whose first section of that
\* version has text; it neither carries nor undoes work of others that was
\* merged while the proposal was open, and it is the tree of the pull request's
\* one commit (validate_release_head, release_body).
QualifiedIsTheProposal == subject = "proposal" => Proposal!QualifiedIsTheProposal

\* What check leaves to qualification: the source of a proposal that it accepted
\* qualifies if the base has not moved, the key is the maintainer's, the section
\* of the changelog has text and the squash kept the sign-off, and not otherwise.
\* Check sees none of these, so that a proposal which it accepted may be
\* refused once it is merged (check against qualify).
CheckedQualifies == subject = "proposal" => Proposal!CheckedQualifies

\* The versions of a line reach the registry in their order, none after one
\* that follows it; no patch is skipped; and whatever tags and clone hold, the
\* policy admits the next versions and no others (require_advancement,
\* require_exact_version_adjustment, Binding::verify).
LineAdvances ==
  /\ Line!PublishedInOrder
  /\ [](subject = "line" =>
          Line!TypeOK /\ Line!NoPatchSkipped /\ Line!AdmitsSuccessors)
=============================================================================

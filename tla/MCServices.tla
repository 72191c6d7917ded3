----------------------------- MODULE MCServices ------------------------------
(***************************************************************************)
(* What a command asks of the outside for TLC.  A behaviour is one of      *)
(* GitHubTransport, of RegistryReads or of CrateArchive.  `subject' says   *)
(* which, from the start; the other parts have no state or have failed.    *)
(***************************************************************************)
EXTENDS GitHubTransport, Sequences

CONSTANTS MaxPolls, MaxTotal, RecordBytes, ArchiveBytes, MaxFault

\* What RegistryReads is given: at least one poll, and sizes in bytes.
ASSUME RegistryAssumption ==
  /\ MaxPolls \in Nat \ {0}
  /\ MaxTotal \in Nat /\ RecordBytes \in Nat /\ ArchiveBytes \in Nat
  /\ MaxFault \in Nat

\* What CrateArchive is given: sizes in bytes, limits that 64 bits hold.
CONSTANTS Blocks, TarBlocks, Commit, NoCommit, Vcs, BlockBytes, MaxU64, MaxBlocks,
          MaxFiles, MaxUnpacked

ASSUME ArchiveAssumption ==
  /\ \A b \in Blocks : b.kind = "header" => b.size \in Nat
  /\ TarBlocks \in Nat /\ MaxBlocks \in Nat /\ MaxFiles \in Nat /\ MaxUnpacked \in Nat
  /\ BlockBytes \in Nat \ {0} /\ MaxU64 \in Nat
  /\ MaxBlocks <= MaxU64 /\ MaxUnpacked + BlockBytes <= MaxU64

VARIABLES
  subject,
  record, content, command, stage, attempt, poll, taken, result, seen,
  received, faults, refused,
  single, tar, pc, offset, files, count, total

Registry == INSTANCE RegistryReads WITH total <- taken

registryVars == <<record, content, command, stage, attempt, poll, taken,
                  result, seen, received, faults, refused>>

\* What the blocks of a tar can be for TLC: sizes that fill no block, a part of
\* one, more than one, and a size whose rounding overflows.
Entry(path, size, type, mode, owner) ==
  [kind |-> "header", path |-> path, size |-> size, type |-> type,
   mode |-> mode, owner |-> owner, mtime |-> "cargo"]
Canonical(path, size) == Entry(path, size, "file", "644", "nul")
TarBlock ==
  {[kind |-> "zero"],
   [kind |-> "data", contents |-> "release"],
   [kind |-> "data", contents |-> "dirty"],
   Canonical("vcs", 1), Canonical("lib", 0), Canonical("lib", 1),
   Canonical("lib", 3), Canonical("big", MaxU64),
   Entry("lib", 0, "longName", "644", "nul"),
   Entry("../escape", 0, "file", "755", "octal")}

Archive == INSTANCE CrateArchive

archiveVars == <<single, tar, pc, offset, files, count, total>>

NoGitHub ==
  /\ object = Absent /\ during = {Absent} /\ requests = {}
  /\ calls = MaxCalls /\ others = MaxOthers
  /\ call = [Start("get") EXCEPT !.step = "failed"]
  /\ applied = [c \in 1..MaxCalls |-> 0]

NoRegistry ==
  /\ record = "absent" /\ content = "none" /\ command = "qualify"
  /\ stage = "wait" /\ attempt = 1 /\ poll = 1 /\ taken = 0
  /\ result = "failed" /\ seen = {"absent"} /\ received = 0 /\ faults = 0
  /\ refused = TRUE

NoArchive ==
  /\ single = FALSE /\ tar = <<>> /\ pc = "rejected" /\ offset = 0
  /\ files = <<>> /\ count = 0 /\ total = 0

MCInit ==
  \/ subject = "github"   /\ Init /\ NoRegistry /\ NoArchive
  \/ subject = "registry" /\ NoGitHub /\ Registry!Init /\ NoArchive
  \/ subject = "archive"  /\ NoGitHub /\ NoRegistry /\ Archive!Init

MCNext ==
  /\ UNCHANGED subject
  /\ \/ /\ subject = "github" /\ Next
        /\ UNCHANGED <<registryVars, archiveVars>>
     \/ /\ subject = "registry" /\ Registry!Next
        /\ UNCHANGED <<vars, archiveVars>>
     \/ /\ subject = "archive" /\ Archive!Next
        /\ UNCHANGED <<vars, registryVars>>

MCSpec == MCInit /\ [][MCNext]_<<subject, vars, registryVars, archiveVars>>

\* A command accepts only the release's own published archive, reports absence
\* only of a version that was absent while it polled, gives up only for a
\* reason, and takes in no more than its budget and one answer (CratesIo,
\* require_archive, account_response).
OutcomesAreJust ==
  /\ Registry!TypeOK
  /\ Registry!AcceptedIsPublished
  /\ Registry!AbsenceSeen
  /\ Registry!NoNeedlessFailure
  /\ Registry!BytesBounded

\* The two passes over a tar agree: an accepted archive is nothing but the
\* files reported, and an archive Cargo could have written is never refused
\* (validate_tar_termination, inspect_archive_entries).
InspectionIsExact ==
  Archive!TypeOK /\ Archive!OneReading /\ Archive!CanonicalAccepted
=============================================================================

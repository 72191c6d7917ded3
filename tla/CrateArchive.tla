----------------------------- MODULE CrateArchive -----------------------------
(***************************************************************************)
(* Inspection of a downloaded source archive (src/xtask/src/               *)
(* crate_archive.rs): one gzip member around a tar that is read twice, by  *)
(* validate_tar_termination over its blocks and then by the iterator of    *)
(* the tar library over its entries.  A block is the same bytes whether it *)
(* is read as a header or as data, so what each pass takes for a header    *)
(* depends on where the sizes before it lead.                              *)
(*                                                                         *)
(* The tar is a sequence of blocks.  Sizes are in bytes, with BlockBytes   *)
(* to a block, and MaxU64 is the largest of their arithmetic.              *)
(***************************************************************************)
EXTENDS Naturals, Sequences, FiniteSets

CONSTANTS
  Blocks,           \* what a block can hold
  TarBlocks,        \* bound: blocks of a tar
  Commit,           \* the expected commit, or NoCommit (archive_vcs_commit)
  NoCommit,
  Vcs,              \* the path .cargo_vcs_info.json
  BlockBytes,       \* TAR_BLOCK_BYTES
  MaxU64,           \* u64::MAX, at least BlockBytes
  MaxBlocks,        \* MAX_CRATE_DECOMPRESSED_BYTES, in blocks
  MaxFiles,         \* MAX_CRATE_FILES
  MaxUnpacked       \* MAX_CRATE_UNPACKED_BYTES, at most MaxU64

\* Kinds of block: all zero, file contents, and what parses as a header.
Zero == [kind |-> "zero"]
Data(contents) == [kind |-> "data", contents |-> contents]
Header(path, size, type, mode, owner, mtime) ==
  [kind |-> "header", path |-> path, size |-> size, type |-> type,
   mode |-> mode, owner |-> owner, mtime |-> mtime]

VARIABLES
  single,   \* one gzip member around whole blocks, of admissible length
  tar,      \* the blocks in it
  pc,       \* "termination", "entries", "accepted", "rejected"
  offset,   \* blocks before the next header
  files,    \* the map of the entries read: path -> [at, size, body]
  count,    \* entries read
  total     \* bytes of the entries read

vars == <<single, tar, pc, offset, files, count, total>>

Passes == {"termination", "entries"}

TypeOK ==
  /\ single \in BOOLEAN
  /\ tar \in Seq(Blocks) /\ Len(tar) <= TarBlocks
  /\ pc \in Passes \cup {"accepted", "rejected"}
  /\ offset \in 0..Len(tar)
  /\ count \in 0..MaxFiles + 1
  /\ total \in 0..MaxUnpacked
  /\ DOMAIN files \subseteq {tar[i].path : i \in {j \in DOMAIN tar :
                                                   tar[j].kind = "header"}}

Init ==
  /\ single \in BOOLEAN
  /\ \E n \in 0..TarBlocks : tar \in [1..n -> Blocks]
  /\ pc = "termination"
  /\ offset = 0
  /\ files = <<>>
  /\ count = 0 /\ total = 0

Reject == pc' = "rejected" /\ UNCHANGED <<single, tar, offset, files, count, total>>

-----------------------------------------------------------------------------
(***************************************************************************)
(* Sizes.                                                                  *)
(***************************************************************************)
\* checked_add: MaxU64 + 1 stands for None.
Sum(x, y) == IF x + y > MaxU64 THEN MaxU64 + 1 ELSE x + y

\* Blocks from a header to the next one; None is more than any tar has.
Stride(size) ==
  LET rounded == Sum(size, BlockBytes - 1)
  IN IF rounded > MaxU64 THEN MaxU64 + 1 ELSE 1 + rounded \div BlockBytes

AllZeroFrom(i) == \A j \in i..Len(tar) : tar[j] = Zero

-----------------------------------------------------------------------------
(***************************************************************************)
(* decompress_single_gzip, and the first pass.                             *)
(***************************************************************************)
Decompressed == single /\ Len(tar) <= MaxBlocks

\* Two zero blocks, and nothing else after them.
Terminated(i) == i + 1 <= Len(tar) /\ AllZeroFrom(i + 1)

TerminationStarts ==
  /\ pc = "termination" /\ offset = 0
  /\ ~(Decompressed /\ Len(tar) >= 2)
  /\ Reject

TerminationFound ==
  /\ pc = "termination" /\ Decompressed /\ Len(tar) >= 2
  /\ offset < Len(tar) /\ tar[offset + 1] = Zero
  /\ IF Terminated(offset + 1)
     THEN pc' = "entries" /\ offset' = 0 /\ UNCHANGED <<single, tar, files, count, total>>
     ELSE Reject

\* The size field of a header, and of other bytes if they parse as one.
HasSize(block) == block.kind = "header"

TerminationStep ==
  /\ pc = "termination" /\ Decompressed /\ Len(tar) >= 2
  /\ offset < Len(tar) /\ tar[offset + 1] # Zero
  /\ IF /\ HasSize(tar[offset + 1])
        /\ offset + Stride(tar[offset + 1].size) <= Len(tar)
     THEN /\ offset' = offset + Stride(tar[offset + 1].size)
          /\ UNCHANGED <<single, tar, pc, files, count, total>>
     ELSE Reject

TerminationMissing ==
  /\ pc = "termination" /\ offset > 0 /\ offset = Len(tar)
  /\ Reject

-----------------------------------------------------------------------------
(***************************************************************************)
(* The second pass.                                                        *)
(***************************************************************************)
\* cargo_archive_metadata.
CargoMetadata(h) ==
  /\ h.type = "file"
  /\ h.mode \in {"644", "755"}
  /\ h.owner \in {"nul", "octal"}
  /\ h.mtime = "cargo"

\* validate_archive_path and validate_raw_header_path.
SafePath(h) == h.path \notin {"../escape", "absolute", "otherRoot", "aliased"}

\* Blocks of an entry's body.
Body(at, size) == SubSeq(tar, at + 1, at + Stride(size) - 1)

\* Mutant of NextHeader: the library interprets extension entries, and hides
\* them with what they rename (no raw(true)).
NextHeaderCooked(i) ==
  IF i < Len(tar) /\ tar[i + 1].kind = "header" /\ tar[i + 1].type = "longName"
  THEN i + Stride(tar[i + 1].size) ELSE i

\* Where the library's iterator, in raw mode, finds the next header.
NextHeader(i) == i

AtEnd(i) == i >= Len(tar) \/ tar[i + 1] = Zero

Admissible(h, at) ==
  /\ count + 1 <= MaxFiles
  /\ Sum(total, h.size) <= MaxUnpacked
  /\ SafePath(h) /\ CargoMetadata(h)
  /\ at + Stride(h.size) - 1 <= Len(tar)
  /\ h.path \notin DOMAIN files

Entry ==
  /\ pc = "entries" /\ ~AtEnd(NextHeader(offset))
  /\ LET at == NextHeader(offset)
         h  == tar[at + 1]
     IN IF HasSize(h) /\ Admissible(h, at + 1)
        THEN /\ files' = [p \in DOMAIN files \cup {h.path} |->
                           IF p = h.path
                           THEN [at |-> at, size |-> h.size,
                                 body |-> Body(at + 1, h.size)]
                           ELSE files[p]]
             /\ count' = count + 1
             /\ total' = total + h.size
             /\ offset' = at + Stride(h.size)
             /\ UNCHANGED <<single, tar, pc>>
        ELSE Reject

\* parse_vcs_info, and the comparison with the expected commit.
VcsCommit ==
  IF Vcs \in DOMAIN files /\ Len(files[Vcs].body) = 1
       /\ files[Vcs].body[1].kind = "data"
  THEN files[Vcs].body[1].contents ELSE "invalid"

Refused == {"invalid", "dirty", "otherPath"}
Bound ==
  /\ VcsCommit \notin Refused
  /\ Commit = NoCommit \/ VcsCommit = Commit

EntriesEnd ==
  /\ pc = "entries" /\ AtEnd(NextHeader(offset))
  /\ IF count > 0 /\ Bound
     THEN pc' = "accepted" /\ UNCHANGED <<single, tar, offset, files, count, total>>
     ELSE Reject

Next ==
  \/ TerminationStarts \/ TerminationFound \/ TerminationStep
  \/ TerminationMissing \/ Entry \/ EntriesEnd

Spec == Init /\ [][Next]_vars

-----------------------------------------------------------------------------
(***************************************************************************)
(* Properties.                                                             *)
(***************************************************************************)
\* The reference: a set of header positions that tiles the tar, each entry
\* followed by the next one and the last by zero blocks only.
Extent(size) == 1 + (size + BlockBytes - 1) \div BlockBytes
IsReading(S, end) ==
  /\ \A i \in S : tar[i].kind = "header"
  /\ {1} \cup {i + Extent(tar[i].size) : i \in S} = S \cup {end}
  /\ end + 1 <= Len(tar) /\ AllZeroFrom(end)

\* The running total of the sizes of the entries of S.
IsTotal(S, f) ==
  /\ f[1] = 0
  /\ \A i \in DOMAIN tar : f[i + 1] = f[i] + (IF i \in S THEN tar[i].size ELSE 0)
Totals == [1..Len(tar) + 1 -> 0..MaxUnpacked]

\* Entries as Cargo writes them, one for a path, within the limits.
IsCanonical(S) ==
  /\ \A i \in S : CargoMetadata(tar[i]) /\ SafePath(tar[i])
  /\ \A i, j \in S : tar[i].path = tar[j].path => i = j
  /\ S # {} /\ Cardinality(S) <= MaxFiles /\ \E f \in Totals : IsTotal(S, f)

Starts == {files[p].at + 1 : p \in DOMAIN files}

\* An accepted archive is nothing but the files reported: the two passes agree
\* on every header, no block is hidden between two entries, taken for both
\* header and contents, or left after the end (validate_tar_termination and
\* entries().raw(true) read the same bytes with different code).
OneReading ==
  pc = "accepted" =>
    /\ Decompressed /\ Cardinality(Starts) = count
    /\ \E end \in 1..Len(tar) : IsReading(Starts, end)
    /\ IsCanonical(Starts)
    /\ \A p \in DOMAIN files : tar[files[p].at + 1].path = p

\* A canonical reading, in which the one block of the VCS information names the
\* expected commit.
IsBoundReading(S, end) ==
  /\ IsReading(S, end) /\ IsCanonical(S)
  /\ \E i \in S : /\ tar[i].path = Vcs
                  /\ Extent(tar[i].size) = 2
                  /\ tar[i + 1].kind = "data"
                  /\ tar[i + 1].contents \notin Refused
                  /\ Commit \in {NoCommit, tar[i + 1].contents}

\* An archive Cargo could have written, bound to the commit, is never refused,
\* whatever its data blocks look like and however near it is to a limit.
CanonicalAccepted ==
  pc = "rejected" =>
    \/ ~Decompressed
    \/ \A S \in SUBSET {i \in DOMAIN tar : tar[i].kind = "header"} :
         \A end \in 1..Len(tar) : ~IsBoundReading(S, end)

-----------------------------------------------------------------------------
(***************************************************************************)
(* The invariant by which these are proved.                                *)
(***************************************************************************)
\* The headers a pass has met lead from the first block to the block `end'.
Chain(S, end) ==
  /\ S \subseteq DOMAIN tar /\ \A i \in S : tar[i].kind = "header"
  /\ {1} \cup {i + Extent(tar[i].size) : i \in S} = S \cup {end}

\* The first pass has met a chain; the second pass meets it again, in a tar
\* that has been found to end.
PassInv ==
  pc \in Passes =>
    /\ offset > 0 => Decompressed
    /\ pc = "termination" => files = <<>> /\ count = 0 /\ total = 0
                             /\ \E S \in SUBSET (1..offset) : Chain(S, offset + 1)
    /\ pc = "entries" => /\ Decompressed /\ Chain(Starts, offset + 1)
                         /\ \E S \in SUBSET DOMAIN tar, end \in DOMAIN tar :
                              IsReading(S, end)

\* The files are what was read of their blocks.
FilesInv ==
  /\ IsFiniteSet(Starts) /\ Cardinality(Starts) = count /\ count <= MaxFiles
  /\ pc = "entries" =>
       \A p \in DOMAIN files :
         LET i == files[p].at + 1
         IN /\ files[p].at \in Nat /\ i \in DOMAIN tar /\ i <= offset
            /\ tar[i].kind = "header" /\ tar[i].path = p
            /\ CargoMetadata(tar[i]) /\ SafePath(tar[i])
            /\ files[p].body = Body(i, tar[i].size)
TotalInv ==
  pc \in Passes =>
    \E f \in Totals : /\ IsTotal(Starts, f)
                      /\ \A i \in offset + 1..Len(tar) + 1 : f[i] = total

\* A reading of the tar that is canonical is the one the passes follow.
FollowsInv ==
  pc \in Passes =>
    \A S \in SUBSET DOMAIN tar, end \in DOMAIN tar :
      IsReading(S, end) =>
        /\ offset + 1 \in S \cup {end}
        /\ pc = "entries" => Starts = {i \in S : i <= offset}

IInv == /\ TypeOK /\ PassInv /\ FilesInv /\ TotalInv /\ FollowsInv
        /\ OneReading /\ CanonicalAccepted
=============================================================================

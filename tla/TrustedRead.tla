----------------------------- MODULE TrustedRead ------------------------------
(***************************************************************************)
(* Reads anchored at a root that follow no link (TrustedRoot, open_file    *)
(* and read_bounded in src/xtask/src/safe_file.rs, on Unix and Windows),   *)
(* while another process renames, replaces and rewrites what is under the  *)
(* path.                                                                   *)
(*                                                                         *)
(* A directory entry names an inode; a handle stays with its inode.  The   *)
(* path has a directory and a file below the root, as the code's own tests *)
(* read; the release commands read files directly below it.                *)
(***************************************************************************)
EXTENDS Naturals, Sequences, FiniteSets

CONSTANTS
  Windows,    \* the platform: links are opened, then refused by their type
  Limit,      \* the limit of a read, in units of what one read returns
  MaxRenames, \* bound: changes of directory entries
  MaxWrites   \* bound: files rewritten in place

ASSUME PlatformAssumption == Windows \in BOOLEAN /\ Limit \in Nat
ASSUME BoundAssumption == MaxRenames \in Nat /\ MaxWrites \in Nat

Directories == {"root", "inner", "outer"}
Regular     == {"file", "other"}
Links       == {"linkToOuter", "linkToOther"}
Inodes      == Directories \cup Regular \cup Links \cup {"pipe"}
Target      == [linkToOuter |-> "outer", linkToOther |-> "other"]

\* Entries: that of the root itself, and "dir" and "name" in each directory.
Slots == {<<"top">>} \cup (Directories \X {"dir", "name"})
Nothing == "nothing"
Contents == UNION {[1..n -> {"a", "b"}] : n \in 0..(Limit + 2)}

VARIABLES
  entry,    \* what each slot names
  content,  \* the contents of the regular files
  call,     \* the read: its step, handle, bytes and result
  renames,  \* counts towards MaxRenames
  writes,   \* counts towards MaxWrites
  held,     \* the slots and what they named at some time of the call
  texts     \* the files and what they contained at some time of the call

vars == <<entry, content, call, renames, writes, held, texts>>

Now(e) == {<<s, e[s]>> : s \in Slots}
Texts(c) == {<<f, c[f]>> : f \in Regular}
Fresh == [step |-> "root", dir |-> Nothing, file |-> Nothing, bytes |-> <<>>]

TypeOK ==
  /\ entry \in [Slots -> Inodes \cup {Nothing}]
  /\ \A s, t \in Slots : s # t /\ entry[s] # Nothing => entry[s] # entry[t]
  /\ content \in [Regular -> Contents]
  /\ call \in [step : {"root", "dir", "open", "type", "read", "ok", "failed"},
               dir : Directories \cup {Nothing}, file : Inodes \cup {Nothing},
               bytes : Seq({"a", "b"})]
  /\ call.step \in {"read", "ok"} => call.dir \in Directories /\ call.file \in Regular
  /\ Len(call.bytes) <= Limit + 1
  /\ renames \in Nat /\ writes \in Nat
  /\ Now(entry) \subseteq held /\ Texts(content) \subseteq texts

Init ==
  /\ entry = [s \in Slots |-> CASE s = <<"top">> -> "root"
                                [] s = <<"root", "dir">> -> "inner"
                                [] s = <<"inner", "name">> -> "file"
                                [] s = <<"outer", "name">> -> "other"
                                [] OTHER -> Nothing]
  /\ \E n \in 0..(Limit + 2) : \E text \in [1..n -> {"a"}] :
       content = [f \in Regular |-> IF f = "file" THEN text ELSE <<"b">>]
  /\ call = Fresh /\ renames = 0 /\ writes = 0
  /\ held = Now(entry) /\ texts = Texts(content)

-----------------------------------------------------------------------------
(***************************************************************************)
(* The other process.                                                      *)
(***************************************************************************)
Done == call.step \in {"ok", "failed"}

\* The directories that have d below them, and d.
Parents(D) == {p \in Directories : \E n \in {"dir", "name"} : entry[<<p, n>>] \in D}
Around(d) == {d} \cup Parents({d}) \cup Parents(Parents({d}))

\* An inode is renamed over an entry, from wherever it was; what the entry
\* named is unlinked.  A directory is not moved below itself.
Rename(slot, inode) ==
  /\ ~Done /\ renames < MaxRenames /\ renames' = renames + 1
  /\ inode # entry[slot] /\ (slot = <<"top">> \/ inode \notin Around(slot[1]))
  /\ entry' = [s \in Slots |-> CASE s = slot -> inode
                                 [] s # slot /\ entry[s] = inode -> Nothing
                                 [] OTHER -> entry[s]]
  /\ held' = held \cup Now(entry')
  /\ UNCHANGED <<content, call, writes, texts>>

\* A file is rewritten in place: longer, shorter or with other contents.
Rewrite(file) ==
  /\ ~Done /\ writes < MaxWrites /\ writes' = writes + 1
  /\ \E n \in 0..(Limit + 2) : \E text \in [1..n -> {"b"}] :
       content' = [content EXCEPT ![file] = text]
  /\ texts' = texts \cup Texts(content')
  /\ UNCHANGED <<entry, call, renames, held>>

-----------------------------------------------------------------------------
(***************************************************************************)
(* Opening one component without following it.                             *)
(***************************************************************************)
Step == UNCHANGED <<entry, content, renames, writes, held, texts>>
Fail == call' = [call EXCEPT !.step = "failed"]

\* openat with O_DIRECTORY and O_NOFOLLOW; NtCreateFile of a directory with
\* FILE_OPEN_REPARSE_POINT.  A link to a directory is opened on Windows.
OpensDirectory(inode) ==
  inode \in Directories \cup (IF Windows THEN {"linkToOuter"} ELSE {})

\* require_type, require_handle_type: of what is open, not of the path.
IsDirectory(inode) == inode \in Directories
IsRegular(inode) == inode \in Regular

\* Root::open.
OpenRoot ==
  /\ call.step = "root"
  /\ LET inode == entry[<<"top">>]
     IN IF OpensDirectory(inode) /\ IsDirectory(inode)
        THEN call' = [call EXCEPT !.step = "dir", !.dir = inode]
        ELSE Fail
  /\ Step

\* Mutant of OpenComponent: an intermediate link is followed.
OpenFollowed ==
  /\ call.step = "dir"
  /\ LET named == entry[<<call.dir, "dir">>]
         inode == IF named \in Links THEN Target[named] ELSE named
     IN IF IsDirectory(inode)
        THEN call' = [call EXCEPT !.step = "open", !.dir = inode]
        ELSE Fail
  /\ Step

\* open_file: every component but the last, each in the handle before it.
OpenComponent ==
  /\ call.step = "dir"
  /\ LET inode == entry[<<call.dir, "dir">>]
     IN IF OpensDirectory(inode) /\ IsDirectory(inode)
        THEN call' = [call EXCEPT !.step = "open", !.dir = inode]
        ELSE Fail
  /\ Step

\* What the last component's open answers: on Unix a link is refused, a
\* directory or a pipe is opened, the pipe because of O_NONBLOCK.
OpensLast(inode) ==
  IF Windows THEN inode \in Regular \cup {"linkToOther", "pipe"}
  ELSE inode \in Inodes \ Links

\* Mutant of OpenLast: without O_NONBLOCK a pipe is waited for.
OpenLastBlocking ==
  /\ call.step = "open"
  /\ LET inode == entry[<<call.dir, "name">>]
     IN /\ inode # "pipe"
        /\ IF OpensLast(inode)
           THEN call' = [call EXCEPT !.step = "type", !.file = inode]
           ELSE Fail
  /\ Step

\* open_file: the last component.
OpenLast ==
  /\ call.step = "open"
  /\ LET inode == entry[<<call.dir, "name">>]
     IN IF OpensLast(inode)
        THEN call' = [call EXCEPT !.step = "type", !.file = inode]
        ELSE Fail
  /\ Step

RequireType ==
  /\ call.step = "type"
  /\ IF IsRegular(call.file) THEN call' = [call EXCEPT !.step = "read"] ELSE Fail
  /\ Step

-----------------------------------------------------------------------------
(***************************************************************************)
(* read_bounded: read_to_end of at most Limit + 1.                         *)
(***************************************************************************)
Sentinel == Limit + 1
More == Len(call.bytes) < Sentinel /\ Len(call.bytes) < Len(content[call.file])

Chunk ==
  /\ call.step = "read" /\ More
  /\ call' = [call EXCEPT !.bytes = Append(@, content[call.file][Len(@) + 1])]
  /\ Step

\* Mutant of AtEnd: what exceeds the limit is left out.
AtEndTruncated ==
  /\ call.step = "read" /\ ~More
  /\ call' = [call EXCEPT !.step = "ok",
       !.bytes = IF Len(@) > Limit THEN SubSeq(@, 1, Limit) ELSE @]
  /\ Step

AtEnd ==
  /\ call.step = "read" /\ ~More
  /\ IF Len(call.bytes) > Limit THEN Fail ELSE call' = [call EXCEPT !.step = "ok"]
  /\ Step

Read ==
  \/ OpenRoot \/ OpenComponent \/ OpenLast \/ RequireType \/ Chunk \/ AtEnd

Next ==
  \/ Read
  \/ \E s \in Slots, i \in Inodes : Rename(s, i)
  \/ \E f \in Regular : Rewrite(f)

Spec == Init /\ [][Next]_vars

-----------------------------------------------------------------------------
(***************************************************************************)
(* Properties.                                                             *)
(***************************************************************************)
\* What is read is a regular file that was, at some time of the call, the entry
\* of a directory that was, at some time of the call, the entry of the
\* directory the root's path named: no link is followed whatever is renamed
\* meanwhile (Root::open, open_file, require_type).
NoLinkFollowed ==
  call.step = "ok" =>
    /\ <<<<call.dir, "name">>, call.file>> \in held /\ call.file \in Regular
    /\ \E top \in Directories :
         <<<<"top">>, top>> \in held /\ <<<<top, "dir">>, call.dir>> \in held

\* A call that succeeds has the whole contents that some one file had at some
\* time of the call, however often the path was given other files: only a
\* rewrite in place can tear it.  A longer file is refused, never cut
\* (read_bounded; write_exact_file replaces by rename).
WholeContents ==
  call.step = "ok" /\ writes = 0 => <<call.file, call.bytes>> \in texts

\* A call fails only when something was not what the path asked for: left
\* alone, a regular file within the limit is read (open_file, read_bounded).
ReadsWhatIsThere ==
  call.step = "failed" /\ renames = 0 => \E text \in texts : Len(text[2]) > Limit

\* The call returns, whatever is renamed onto its path, a pipe nobody writes
\* to included, and however the file grows (O_NONBLOCK, take).
Returns == <>(call.step \in {"ok", "failed"})
=============================================================================

-------------------------- MODULE TrustedRead_proofs --------------------------
(***************************************************************************)
(* Proofs about TrustedRead, on both platforms, for any limit and however  *)
(* much is renamed and rewritten.  An inode is opened at a time of the     *)
(* call, and is looked at only afterwards, through its handle: what the    *)
(* entry names by then does not matter.                                    *)
(***************************************************************************)
EXTENDS TrustedRead, TLAPS

\* Every handle is what its entry named when it was opened.
HandleInv ==
  /\ call.step \in {"dir", "open", "type", "read", "ok"} => call.dir \in Directories
  /\ call.step = "dir" => <<<<"top">>, call.dir>> \in held
  /\ call.step \in {"open", "type", "read", "ok"} =>
       \E top \in Directories :
         <<<<"top">>, top>> \in held /\ <<<<top, "dir">>, call.dir>> \in held
  /\ call.step \in {"type", "read", "ok"} => <<<<call.dir, "name">>, call.file>> \in held

\* What has been read, while nothing is rewritten, is the file's beginning, and
\* the file is read to its end before the call succeeds.
PrefixInv ==
  /\ call.step \in {"root", "dir", "open", "type"} => call.bytes = <<>>
  /\ writes = 0 /\ call.step \in {"read", "ok"} =>
       /\ Len(call.bytes) <= Len(content[call.file])
       /\ \A i \in 1..Len(call.bytes) : call.bytes[i] = content[call.file][i]
  /\ writes = 0 /\ call.step = "ok" => Len(call.bytes) = Len(content[call.file])

\* There was a text as long as what has been read.
LongInv == Len(call.bytes) > 0 => \E text \in texts : Len(text[2]) >= Len(call.bytes)

\* While nothing is renamed, the path leads to the file.
PathInv ==
  renames = 0 =>
    /\ entry[<<"top">>] = "root" /\ entry[<<"root", "dir">>] = "inner"
    /\ entry[<<"inner", "name">>] = "file"
    /\ call.step = "dir" => call.dir = "root"
    /\ call.step = "open" => call.dir = "inner"
    /\ call.step = "type" => call.file = "file"

IInv == TypeOK /\ HandleInv /\ PrefixInv /\ LongInv /\ PathInv /\ ReadsWhatIsThere

CallType == [step : {"root", "dir", "open", "type", "read", "ok", "failed"},
             dir : Directories \cup {Nothing}, file : Inodes \cup {Nothing},
             bytes : Seq({"a", "b"})]

USE PlatformAssumption, BoundAssumption

-----------------------------------------------------------------------------
(* The slots that the path goes through.                                   *)
LEMMA SlotsOfPath ==
  /\ <<"top">> \in Slots
  /\ \A d \in Directories : <<d, "dir">> \in Slots /\ <<d, "name">> \in Slots
  BY DEF Slots

(* Contents are sequences.                                                 *)
LEMMA ContentsAreSequences ==
  ASSUME NEW c \in Contents
  PROVE  c \in Seq({"a", "b"}) /\ Len(c) \in Nat
<1>1. PICK n \in 0..(Limit + 2) : c \in [1..n -> {"a", "b"}]
  BY DEF Contents
<1> QED
  BY <1>1

(* The invariant holds at first.                                           *)
LEMMA InitInv == Init => IInv
<1> SUFFICES ASSUME Init PROVE IInv
  OBVIOUS
<1>1. entry \in [Slots -> Inodes \cup {Nothing}]
  BY DEF Init, Inodes, Directories, Regular
<1>2. /\ entry[<<"top">>] = "root" /\ entry[<<"root", "dir">>] = "inner"
      /\ entry[<<"inner", "name">>] = "file"
  BY SlotsOfPath DEF Init, Directories
<1>3. \A s, t \in Slots : s # t /\ entry[s] # Nothing => entry[s] # entry[t]
  BY DEF Init, Nothing
<1>4. content \in [Regular -> Contents]
  <2>0. PICK n \in 0..(Limit + 2) : \E text \in [1..n -> {"a"}] :
          content = [f \in Regular |-> IF f = "file" THEN text ELSE <<"b">>]
    BY DEF Init
  <2>1. PICK text \in [1..n -> {"a"}] :
          content = [f \in Regular |-> IF f = "file" THEN text ELSE <<"b">>]
    BY <2>0
  <2>2. text \in Contents
    <3>1. text \in [1..n -> {"a", "b"}]
      OBVIOUS
    <3> QED
      BY <3>1 DEF Contents
  <2>3. <<"b">> \in [1..1 -> {"a", "b"}] /\ 1 \in 0..(Limit + 2)
    OBVIOUS
  <2>4. <<"b">> \in Contents
    BY <2>3 DEF Contents
  <2> QED
    BY <2>1, <2>2, <2>4
<1>5. call = Fresh /\ renames = 0 /\ writes = 0 /\ held = Now(entry) /\ texts = Texts(content)
  BY DEF Init
<1>6. TypeOK
  BY <1>1, <1>3, <1>4, <1>5 DEF TypeOK, Fresh
<1> QED
  BY <1>2, <1>5, <1>6
  DEF IInv, HandleInv, PrefixInv, LongInv, PathInv, ReadsWhatIsThere, Fresh

-----------------------------------------------------------------------------
(* A rename adds to what slots have named, and leaves no inode in two      *)
(* (Rename).                                                               *)
LEMMA RenameInv ==
  ASSUME IInv, NEW slot \in Slots, NEW inode \in Inodes, Rename(slot, inode)
  PROVE  IInv'
<1> USE DEF IInv, Rename
<1>1. /\ entry' \in [Slots -> Inodes \cup {Nothing}]
      /\ entry'[slot] = inode
      /\ \A s \in Slots : s # slot =>
           entry'[s] = IF entry[s] = inode THEN Nothing ELSE entry[s]
  BY DEF TypeOK
<1>2. \A s, t \in Slots : s # t /\ entry'[s] # Nothing => entry'[s] # entry'[t]
  <2> SUFFICES ASSUME NEW s \in Slots, NEW t \in Slots, s # t, entry'[s] # Nothing
               PROVE  entry'[s] # entry'[t]
    OBVIOUS
  <2>1. entry[s] # Nothing => entry[s] # entry[t]
    BY DEF TypeOK
  <2>2. inode # Nothing
    BY DEF Inodes, Directories, Regular, Links, Nothing
  <2> QED
    BY <1>1, <2>1, <2>2
<1>3. held \subseteq held' /\ Now(entry') \subseteq held'
      /\ UNCHANGED <<content, call, writes, texts>> /\ renames' \in Nat /\ renames' # 0
  BY DEF TypeOK
<1>4. TypeOK'
  BY <1>1, <1>2, <1>3 DEF TypeOK, Now, Texts
<1>5. HandleInv'
  BY <1>3 DEF HandleInv
<1> QED
  BY <1>3, <1>4, <1>5 DEF PrefixInv, LongInv, PathInv, ReadsWhatIsThere

(* A rewrite adds to what files have contained (Rewrite).                  *)
LEMMA RewriteInv == ASSUME IInv, NEW file \in Regular, Rewrite(file) PROVE IInv'
<1> USE DEF IInv, Rewrite
<1>0. PICK n \in 0..(Limit + 2) : \E text \in [1..n -> {"b"}] :
        content' = [content EXCEPT ![file] = text]
  OBVIOUS
<1>1. PICK text \in [1..n -> {"b"}] : content' = [content EXCEPT ![file] = text]
  BY <1>0
<1>2. text \in Contents
  <2>1. text \in [1..n -> {"a", "b"}]
    OBVIOUS
  <2> QED
    BY <2>1 DEF Contents
<1>3. content' \in [Regular -> Contents]
  BY <1>1, <1>2 DEF TypeOK
<1>4. texts \subseteq texts' /\ Texts(content') \subseteq texts'
      /\ UNCHANGED <<entry, call, renames, held>> /\ writes' \in Nat /\ writes' # 0
  BY DEF TypeOK
<1>5. TypeOK'
  BY <1>3, <1>4 DEF TypeOK, Now, Texts
<1>6. HandleInv' /\ PathInv'
  BY <1>4 DEF HandleInv, PathInv
<1>7. PrefixInv'
  BY <1>4 DEF PrefixInv
<1> QED
  BY <1>4, <1>5, <1>6, <1>7 DEF LongInv, ReadsWhatIsThere

-----------------------------------------------------------------------------
(* What a slot names now is among what it has named.                       *)
LEMMA NamedIsHeld ==
  ASSUME TypeOK, NEW s \in Slots
  PROVE  <<s, entry[s]>> \in held /\ entry[s] \in Inodes \cup {Nothing}
  BY DEF TypeOK, Now

(* A call that fails has been disturbed, or the file is too long.          *)
LEMMA FailInv ==
  ASSUME IInv, Step, Fail, renames # 0 \/ \E text \in texts : Len(text[2]) > Limit
  PROVE  IInv'
<1> USE DEF IInv, Step
<1>1. call' \in CallType /\ call'.step = "failed" /\ call'.bytes = call.bytes
  BY DEF Fail, TypeOK, CallType
<1>2. TypeOK'
  BY <1>1 DEF TypeOK, CallType, Now, Texts
<1> QED
  BY <1>1, <1>2 DEF HandleInv, PrefixInv, LongInv, PathInv, ReadsWhatIsThere

(* The root and the directory are opened through their entries.            *)
LEMMA OpenDirectoryInv == ASSUME IInv, OpenRoot \/ OpenComponent PROVE IInv'
<1> USE DEF IInv, Step
<1>1. CASE OpenRoot
  <2> DEFINE inode == entry[<<"top">>]
  <2>1. <<<<"top">>, inode>> \in held
    BY SlotsOfPath, NamedIsHeld
  <2>2. CASE OpensDirectory(inode) /\ IsDirectory(inode)
    <3>1. call' = [call EXCEPT !.step = "dir", !.dir = inode] /\ inode \in Directories
      BY <1>1, <2>2 DEF OpenRoot, IsDirectory
    <3>2. /\ call' \in CallType /\ call'.step = "dir" /\ call'.dir = inode
          /\ call'.bytes = call.bytes /\ call.step = "root"
      BY <1>1, <3>1 DEF TypeOK, CallType, OpenRoot
    <3>3. TypeOK'
      BY <1>1, <3>2 DEF OpenRoot, TypeOK, CallType, Now, Texts
    <3> QED
      BY <1>1, <2>1, <3>1, <3>2, <3>3
      DEF OpenRoot, HandleInv, PrefixInv, LongInv, PathInv, ReadsWhatIsThere
  <2>3. CASE ~(OpensDirectory(inode) /\ IsDirectory(inode))
    <3>1. Step /\ Fail /\ renames # 0
      BY <1>1, <2>3
      DEF OpenRoot, OpensDirectory, IsDirectory, PathInv, Directories
    <3> QED
      BY <3>1, FailInv
  <2> QED
    BY <2>2, <2>3
<1>2. CASE OpenComponent
  <2> DEFINE inode == entry[<<call.dir, "dir">>]
  <2>0. call.step = "dir" /\ call.dir \in Directories /\ <<<<"top">>, call.dir>> \in held
    BY <1>2 DEF OpenComponent, HandleInv
  <2>1. <<<<call.dir, "dir">>, inode>> \in held
    BY <2>0, SlotsOfPath, NamedIsHeld
  <2>2. CASE OpensDirectory(inode) /\ IsDirectory(inode)
    <3>1. call' = [call EXCEPT !.step = "open", !.dir = inode] /\ inode \in Directories
      BY <1>2, <2>2 DEF OpenComponent, IsDirectory
    <3>2. /\ call' \in CallType /\ call'.step = "open" /\ call'.dir = inode
          /\ call'.bytes = call.bytes
      BY <3>1 DEF TypeOK, CallType
    <3>3. TypeOK'
      BY <1>2, <3>2 DEF OpenComponent, TypeOK, CallType, Now, Texts
    <3> QED
      BY <1>2, <2>0, <2>1, <3>1, <3>2, <3>3
      DEF OpenComponent, HandleInv, PrefixInv, LongInv, PathInv, ReadsWhatIsThere
  <2>3. CASE ~(OpensDirectory(inode) /\ IsDirectory(inode))
    <3>1. Step /\ Fail /\ renames # 0
      BY <1>2, <2>0, <2>3
      DEF OpenComponent, OpensDirectory, IsDirectory, PathInv, Directories
    <3> QED
      BY <3>1, FailInv
  <2> QED
    BY <2>2, <2>3
<1> QED
  BY <1>1, <1>2

(* The last component is opened, whatever it is (OpenLast).                *)
LEMMA OpenLastInv == ASSUME IInv, OpenLast PROVE IInv'
<1> USE DEF IInv, Step
<1> DEFINE inode == entry[<<call.dir, "name">>]
<1>1. call.step = "open" /\ call.dir \in Directories
  BY DEF OpenLast, HandleInv
<1>2. <<<<call.dir, "name">>, inode>> \in held /\ inode \in Inodes \cup {Nothing}
  BY <1>1, SlotsOfPath, NamedIsHeld
<1>3. CASE OpensLast(inode)
  <2>1. call' = [call EXCEPT !.step = "type", !.file = inode]
    BY <1>3 DEF OpenLast
  <2>2. /\ call' \in CallType /\ call'.step = "type" /\ call'.file = inode
        /\ call'.dir = call.dir /\ call'.bytes = call.bytes
    BY <1>2, <2>1 DEF TypeOK, CallType
  <2>3. TypeOK'
    BY <1>3, <2>2 DEF OpenLast, TypeOK, CallType, Now, Texts
  <2>4. UNCHANGED <<entry, content, renames, writes, held, texts>>
    BY <1>3 DEF OpenLast
  <2>5. HandleInv'
    BY <1>1, <1>2, <2>2, <2>4 DEF HandleInv
  <2>6. PathInv'
    BY <1>1, <2>2, <2>4 DEF PathInv
  <2> QED
    BY <1>1, <2>2, <2>3, <2>4, <2>5, <2>6 DEF PrefixInv, LongInv, ReadsWhatIsThere
<1>4. CASE ~OpensLast(inode)
  <2>1. inode # "file"
    BY <1>4 DEF OpensLast, Inodes, Regular, Links
  <2>2. Step /\ Fail /\ renames # 0
    BY <1>1, <1>4, <2>1 DEF OpenLast, PathInv
  <2> QED
    BY <2>2, FailInv
<1> QED
  BY <1>3, <1>4

(* An open file keeps its handles.                                         *)
LEMMA SameHandles ==
  ASSUME IInv, Step, call.step \in {"type", "read"}, call'.step \in {"read", "ok"},
         call'.dir = call.dir, call'.file = call.file
  PROVE  HandleInv' /\ PathInv' /\ ReadsWhatIsThere'
<1> USE DEF IInv, Step
<1>1. /\ call.dir \in Directories /\ <<<<call.dir, "name">>, call.file>> \in held
      /\ \E top \in Directories :
           <<<<"top">>, top>> \in held /\ <<<<top, "dir">>, call.dir>> \in held
  BY DEF HandleInv
<1>2. HandleInv'
  BY <1>1 DEF HandleInv
<1>3. PathInv'
  BY DEF PathInv
<1> QED
  BY <1>2, <1>3 DEF ReadsWhatIsThere

(* Only a regular file is read (RequireType).                              *)
LEMMA RequireTypeInv == ASSUME IInv, RequireType PROVE IInv'
<1> USE DEF IInv, Step
<1>1. CASE IsRegular(call.file)
  <2>1. /\ call.step = "type" /\ call' = [call EXCEPT !.step = "read"]
        /\ UNCHANGED <<entry, content, renames, writes, held, texts>>
    BY <1>1 DEF RequireType
  <2>2. /\ call' \in CallType /\ call'.step = "read" /\ call'.file = call.file
        /\ call'.dir = call.dir /\ call'.bytes = call.bytes
    BY <2>1 DEF TypeOK, CallType
  <2>3. call.dir \in Directories /\ call.file \in Regular /\ call.bytes = <<>>
    BY <1>1, <2>1 DEF IsRegular, HandleInv, PrefixInv
  <2>4. TypeOK'
    BY <2>1, <2>2, <2>3 DEF TypeOK, CallType, Now, Texts
  <2>5. content[call.file] \in Contents
    BY <2>3 DEF TypeOK
  <2>6. PrefixInv'
    <3>1. Len(call.bytes) = 0 /\ 1..Len(call.bytes) = {}
      BY <2>3
    <3>2. Len(content[call.file]) \in Nat
      BY <2>5, ContentsAreSequences
    <3> QED
      BY <2>1, <2>2, <3>1, <3>2 DEF PrefixInv
  <2>7. HandleInv' /\ PathInv' /\ ReadsWhatIsThere'
    BY <2>1, <2>2, SameHandles
  <2> QED
    BY <2>1, <2>2, <2>4, <2>6, <2>7 DEF LongInv
<1>2. CASE ~IsRegular(call.file)
  <2>1. Step /\ Fail /\ renames # 0
    BY <1>2 DEF RequireType, IsRegular, Regular, PathInv
  <2> QED
    BY <2>1, FailInv
<1> QED
  BY <1>1, <1>2

(* Every chunk is of the file as it is then (Chunk).                       *)
LEMMA ChunkInv == ASSUME IInv, Chunk PROVE IInv'
<1> USE DEF IInv, Step
<1> DEFINE text == content[call.file]
           byte == text[Len(call.bytes) + 1]
<1>1. /\ call.step = "read" /\ call' = [call EXCEPT !.bytes = Append(call.bytes, byte)]
      /\ UNCHANGED <<entry, content, renames, writes, held, texts>>
      /\ Len(call.bytes) < Limit + 1 /\ Len(call.bytes) < Len(text)
  BY DEF Chunk, More, Sentinel
<1>2. call.file \in Regular /\ call.bytes \in Seq({"a", "b"}) /\ Len(call.bytes) \in Nat
  BY <1>1 DEF TypeOK
<1>3. text \in Seq({"a", "b"}) /\ Len(text) \in Nat
  BY <1>2, ContentsAreSequences DEF TypeOK
<1>4. byte \in {"a", "b"}
  BY <1>1, <1>2, <1>3
<1>5. <<call.file, text>> \in texts
  BY <1>2 DEF TypeOK, Texts
<1> HIDE DEF byte
<1>6. /\ Append(call.bytes, byte) \in Seq({"a", "b"})
      /\ Len(Append(call.bytes, byte)) = Len(call.bytes) + 1
      /\ \A i \in 1..Len(call.bytes) : Append(call.bytes, byte)[i] = call.bytes[i]
      /\ Append(call.bytes, byte)[Len(call.bytes) + 1] = byte
  BY <1>2, <1>4
<1>7. /\ call' \in CallType /\ call'.step = "read" /\ call'.file = call.file
      /\ call'.dir = call.dir /\ call'.bytes = Append(call.bytes, byte)
  BY <1>1, <1>6 DEF TypeOK, CallType
<1>8. TypeOK'
  BY <1>1, <1>2, <1>6, <1>7 DEF TypeOK, CallType, Now, Texts
<1>9. PrefixInv'
  <2>1. /\ writes = 0 => \A i \in 1..Len(call.bytes) : call.bytes[i] = text[i]
    BY <1>1 DEF PrefixInv
  <2>2. writes = 0 => \A i \in 1..(Len(call.bytes) + 1) : Append(call.bytes, byte)[i] = text[i]
    BY <1>2, <1>6, <2>1 DEF byte
  <2> QED
    BY <1>1, <1>2, <1>3, <1>6, <1>7, <2>2 DEF PrefixInv
<1>10. LongInv'
  <2>1. <<call.file, text>>[2] = text
    OBVIOUS
  <2>2. Len(text) >= Len(call.bytes) + 1
    BY <1>1, <1>2, <1>3
  <2> QED
    BY <1>1, <1>5, <1>6, <1>7, <2>1, <2>2 DEF LongInv
<1>11. HandleInv' /\ PathInv' /\ ReadsWhatIsThere'
  BY <1>1, <1>7, SameHandles
<1> QED
  BY <1>8, <1>9, <1>10, <1>11

(* A read that has reached the end succeeds within the limit (AtEnd).      *)
LEMMA AtEndInv == ASSUME IInv, AtEnd PROVE IInv'
<1> USE DEF IInv, Step
<1>1. call.step = "read" /\ call.file \in Regular /\ Len(call.bytes) \in Nat
  BY DEF AtEnd, TypeOK
<1>2. CASE Len(call.bytes) > Limit
  <2>1. \E text \in texts : Len(text[2]) >= Len(call.bytes)
    BY <1>1, <1>2 DEF LongInv
  <2>2. PICK text \in texts : Len(text[2]) >= Len(call.bytes)
    BY <2>1
  <2>3. Len(text[2]) > Limit
    BY <1>1, <1>2, <2>2
  <2>4. Step /\ Fail
    BY <1>2 DEF AtEnd
  <2> QED
    BY <2>3, <2>4, FailInv
<1>3. CASE ~(Len(call.bytes) > Limit)
  <2>1. /\ call' = [call EXCEPT !.step = "ok"]
        /\ UNCHANGED <<entry, content, renames, writes, held, texts>>
        /\ ~(Len(call.bytes) < Len(content[call.file]))
    BY <1>1, <1>3 DEF AtEnd, More, Sentinel
  <2>2. /\ call' \in CallType /\ call'.step = "ok" /\ call'.file = call.file
        /\ call'.dir = call.dir /\ call'.bytes = call.bytes
    BY <2>1 DEF TypeOK, CallType
  <2>3. TypeOK'
    BY <1>1, <2>1, <2>2 DEF TypeOK, CallType, Now, Texts
  <2>4. Len(content[call.file]) \in Nat
    BY <1>1, ContentsAreSequences DEF TypeOK
  <2>5. PrefixInv'
    <3>1. writes = 0 =>
            /\ Len(call.bytes) = Len(content[call.file])
            /\ \A i \in 1..Len(call.bytes) : call.bytes[i] = content[call.file][i]
      BY <1>1, <2>1, <2>4 DEF PrefixInv
    <3> QED
      BY <1>1, <2>1, <2>2, <2>4, <3>1 DEF PrefixInv
  <2>6. HandleInv' /\ PathInv' /\ ReadsWhatIsThere'
    BY <1>1, <2>1, <2>2, SameHandles
  <2> QED
    BY <2>1, <2>2, <2>3, <2>5, <2>6 DEF LongInv
<1> QED
  BY <1>2, <1>3

-----------------------------------------------------------------------------
(* Every step keeps the invariant.                                         *)
LEMMA NextInv == IInv /\ [Next]_vars => IInv'
<1> SUFFICES ASSUME IInv, [Next]_vars PROVE IInv'
  OBVIOUS
<1>1. CASE UNCHANGED vars
  <2> USE <1>1 DEF IInv, vars
  <2>1. TypeOK'
    BY DEF TypeOK, Now, Texts
  <2> QED
    BY <2>1 DEF HandleInv, PrefixInv, LongInv, PathInv, ReadsWhatIsThere
<1>2. CASE Next
  BY <1>2, RenameInv, RewriteInv, OpenDirectoryInv, OpenLastInv, RequireTypeInv, ChunkInv,
     AtEndInv
  DEF Next, Read
<1> QED
  BY <1>1, <1>2

(* The invariant holds in every state of every read.                       *)
LEMMA Invariance == Spec => []IInv
  BY InitInv, NextInv, PTL DEF Spec

(* The types of every variable.                                            *)
THEOREM TypeCorrect == Spec => []TypeOK
<1>1. IInv => TypeOK
  BY DEF IInv
<1> QED
  BY <1>1, Invariance, PTL

(* What is read is what the path named during the call, and no link is     *)
(* followed (Root::open, open_file).                                       *)
THEOREM LinksAreNotFollowed == Spec => []NoLinkFollowed
<1>1. IInv => NoLinkFollowed
  BY DEF IInv, TypeOK, HandleInv, NoLinkFollowed
<1> QED
  BY <1>1, Invariance, PTL

(* Files that are only replaced are read whole (read_bounded).             *)
THEOREM ReplacedFilesAreWhole == Spec => []WholeContents
<1>1. IInv => WholeContents
  <2> SUFFICES ASSUME IInv, call.step = "ok", writes = 0
               PROVE  <<call.file, call.bytes>> \in texts
    BY DEF WholeContents
  <2>1. call.file \in Regular /\ call.bytes \in Seq({"a", "b"})
    BY DEF IInv, TypeOK
  <2>2. content[call.file] \in Seq({"a", "b"})
    BY <2>1, ContentsAreSequences DEF IInv, TypeOK
  <2>3. /\ Len(call.bytes) = Len(content[call.file])
        /\ \A i \in 1..Len(call.bytes) : call.bytes[i] = content[call.file][i]
    BY DEF IInv, PrefixInv
  <2>4. call.bytes = content[call.file]
    BY <2>1, <2>2, <2>3
  <2>5. <<call.file, content[call.file]>> \in texts
    BY <2>1 DEF IInv, TypeOK, Texts
  <2> QED
    BY <2>4, <2>5
<1> QED
  BY <1>1, Invariance, PTL

(* Without a rename only a file over the limit fails (open_file,           *)
(* read_bounded).                                                          *)
THEOREM UndisturbedReadsSucceed == Spec => []ReadsWhatIsThere
<1>1. IInv => ReadsWhatIsThere
  BY DEF IInv
<1> QED
  BY <1>1, Invariance, PTL
=============================================================================

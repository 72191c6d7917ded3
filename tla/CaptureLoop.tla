---------------------------- MODULE CaptureLoop -----------------------------
(***************************************************************************)
(* The capture loop of xtask's bounded subprocess execution on Linux       *)
(* (src/xtask/src/bounded_process.rs, output_inner): one thread moves      *)
(* bytes between a process tree and bounded buffers through three          *)
(* non-blocking pipes, polls the direct child, and gives up on overflow,   *)
(* on an I/O or poll error, or when descendants keep an output pipe open   *)
(* for longer than PIPE_CLOSE_GRACE after the direct child has exited.     *)
(*                                                                         *)
(* Bytes are counted, never looked at.  The processes run freely: they     *)
(* write, close, fork, leave the group and exit between any two steps of   *)
(* the loop.  What becomes of the tree after the loop is the subject of    *)
(* ProcessContainment.                                                     *)
(***************************************************************************)
EXTENDS Naturals, FiniteSets

CONSTANTS
  Procs,       \* processes of the tree
  Direct,      \* the direct child
  Limit,       \* OutputLimits: bytes allowed, per stream
  InputLen,    \* bytes of input; 0 also stands for no input at all
  PipeCap,     \* capacity of a pipe
  MaxWritten,  \* bound: bytes the tree writes to one stream
  Echo         \* TRUE: the direct child is a filter that copies its input

Streams == {"stdout", "stderr"}

ASSUME DirectAssumption == Direct \in Procs
ASSUME LimitAssumption == Limit \in [Streams -> Nat]
ASSUME SizesAssumption ==
  InputLen \in Nat /\ PipeCap \in Nat \ {0} /\ MaxWritten \in Nat
ASSUME EchoAssumption == Echo \in BOOLEAN

VARIABLES
  alive,    \* running processes
  inGroup,  \* processes in the direct child's process group
  killed,   \* processes a SIGKILL was sent to
  holders,  \* who has the write end of each output pipe open
  pipe,     \* bytes in each output pipe
  written,  \* history: bytes ever written to each output pipe
  reader,   \* Capture::reader is Some
  got,      \* Capture::bytes.len()
  stdin,    \* the loop still has the write end of the input pipe
  offset,   \* bytes of input written
  inPipe,   \* bytes in the input pipe
  owed,     \* bytes a filter has read and not yet written
  status,   \* the direct child's exit status was collected
  grace,    \* time since then: "none", "running" or "over"
  failure,  \* the first failure, or "none"
  pc,       \* where the loop is
  result    \* "none", "ok" or "err"

procVars == <<alive, inGroup, killed, holders, written, owed>>
capVars  == <<reader, got>>
inVars   == <<stdin, offset>>
endVars  == <<status, grace, failure, result>>
vars == <<procVars, pipe, inPipe, capVars, inVars, endVars, pc>>

Steps == {"setup", "stdout", "stderr", "stdin", "limits", "poll", "decide",
          "terminate", "reap", "done"}
Failures == {"none", "setup", "read", "write", "overflow", "poll", "grace"}

TypeOK ==
  /\ alive \in SUBSET Procs /\ inGroup \in SUBSET Procs
  /\ killed \in SUBSET Procs
  /\ holders \in [Streams -> SUBSET Procs]
  /\ pipe \in [Streams -> 0..PipeCap]
  /\ written \in [Streams -> Nat]
  /\ reader \in [Streams -> BOOLEAN]
  /\ got \in [Streams -> Nat]
  /\ stdin \in BOOLEAN /\ offset \in 0..InputLen /\ inPipe \in 0..PipeCap
  /\ owed \in 0..1
  /\ status \in BOOLEAN /\ grace \in {"none", "running", "over"}
  /\ failure \in Failures /\ pc \in Steps
  /\ result \in {"none", "ok", "err"}

Init ==
  /\ alive = {Direct} /\ inGroup = {Direct} /\ killed = {}
  /\ holders = [s \in Streams |-> {Direct}]
  /\ pipe = [s \in Streams |-> 0]
  /\ written = [s \in Streams |-> 0]
  /\ reader = [s \in Streams |-> TRUE]
  /\ got = [s \in Streams |-> 0]
  /\ stdin = TRUE /\ offset = 0 /\ inPipe = 0 /\ owed = 0
  /\ status = FALSE /\ grace = "none" /\ failure = "none"
  /\ pc = "setup" /\ result = "none"

-----------------------------------------------------------------------------
(***************************************************************************)
(* The processes.  A filter reads a byte, writes it to stdout, and exits   *)
(* when its input has ended; any other process does what it likes.         *)
(***************************************************************************)
Runs(p) == p \in alive /\ p \notin killed
Filter(p) == Echo /\ p = Direct

Write(p, s) ==
  /\ Runs(p) /\ p \in holders[s] /\ reader[s]
  /\ pipe[s] < PipeCap /\ written[s] < MaxWritten
  /\ Filter(p) => s = "stdout" /\ owed = 1
  /\ pipe' = [pipe EXCEPT ![s] = @ + 1]
  /\ written' = [written EXCEPT ![s] = @ + 1]
  /\ owed' = IF Filter(p) THEN 0 ELSE owed
  /\ UNCHANGED <<alive, inGroup, killed, holders, inPipe, capVars, inVars,
                 endVars, pc>>

ReadInput(p) ==
  /\ Runs(p) /\ inPipe > 0
  /\ Filter(p) => owed = 0
  /\ inPipe' = inPipe - 1
  /\ owed' = IF Filter(p) THEN 1 ELSE owed
  /\ UNCHANGED <<alive, inGroup, killed, holders, written, pipe, capVars,
                 inVars, endVars, pc>>

CloseOutput(p, s) ==
  /\ Runs(p) /\ p \in holders[s] /\ ~Filter(p)
  /\ holders' = [holders EXCEPT ![s] = @ \ {p}]
  /\ UNCHANGED <<alive, inGroup, killed, written, owed, pipe, inPipe, capVars,
                 inVars, endVars, pc>>

\* q starts with p's open output pipes and in p's group.
Fork(p, q) ==
  /\ Runs(p) /\ ~Filter(p) /\ q \in Procs \ (alive \cup killed \cup {Direct})
  /\ alive' = alive \cup {q}
  /\ holders' = [s \in Streams |-> IF p \in holders[s] THEN holders[s] \cup {q}
                                                     ELSE holders[s] \ {q}]
  /\ inGroup' = IF p \in inGroup THEN inGroup \cup {q} ELSE inGroup \ {q}
  /\ UNCHANGED <<killed, written, owed, pipe, inPipe, capVars, inVars,
                 endVars, pc>>

Setsid(p) ==
  /\ Runs(p) /\ p \in inGroup /\ p # Direct
  /\ inGroup' = inGroup \ {p}
  /\ UNCHANGED <<alive, killed, holders, written, owed, pipe, inPipe, capVars,
                 inVars, endVars, pc>>

Exit(p) ==
  /\ p \in alive
  /\ Filter(p) /\ p \notin killed => ~stdin /\ inPipe = 0 /\ owed = 0
  /\ alive' = alive \ {p}
  /\ holders' = [s \in Streams |-> holders[s] \ {p}]
  /\ UNCHANGED <<inGroup, killed, written, owed, pipe, inPipe, capVars,
                 inVars, endVars, pc>>

-----------------------------------------------------------------------------
(***************************************************************************)
(* The loop.                                                               *)
(***************************************************************************)
Sentinel(s) == Limit[s] + 1
Complete(s) == ~reader[s]

\* Mutant of Exceeded: output of exactly the limit is refused.
ReachedLimit(s) == got[s] > 0 /\ got[s] >= Limit[s]

Exceeded(s) == got[s] > Limit[s]

SmallerOf(a, b) == IF a < b THEN a ELSE b

\* A failure is recorded and the loop is left.
Abort(why) ==
  /\ failure' = why
  /\ pc' = "terminate"
  /\ UNCHANGED <<status, grace, result>>

SetUp ==
  /\ pc = "setup"
  /\ pc' = "stdout"
  /\ stdin' = (InputLen > 0)
  /\ UNCHANGED <<procVars, pipe, inPipe, capVars, offset, endVars>>

SetUpFails ==
  /\ pc = "setup" /\ Abort("setup")
  /\ UNCHANGED <<procVars, pipe, inPipe, capVars, inVars>>

After(s) == IF s = "stdout" THEN "stderr" ELSE "stdin"

\* Capture::drain: read until the sentinel, the end of the stream, or until
\* nothing is there.
Drain(s) ==
  LET n == IF reader[s] /\ got[s] < Sentinel(s)
           THEN SmallerOf(pipe[s], Sentinel(s) - got[s]) ELSE 0
  IN /\ pc = s
     /\ got' = [got EXCEPT ![s] = @ + n]
     /\ pipe' = [pipe EXCEPT ![s] = @ - n]
     /\ reader' = [reader EXCEPT ![s] =
          @ /\ ~(got[s] + n < Sentinel(s) /\ holders[s] = {})]
     /\ pc' = After(s)
     /\ UNCHANGED <<procVars, inPipe, inVars, endVars>>

DrainFails(s) ==
  /\ pc = s /\ reader[s] /\ Abort("read")
  /\ UNCHANGED <<procVars, pipe, inPipe, capVars, inVars>>

\* Mutant of WriteInput: it waits until all of the input is written.
WriteInputBlocking ==
  LET n == IF stdin THEN SmallerOf(PipeCap - inPipe, InputLen - offset) ELSE 0
  IN /\ pc = "stdin"
     /\ stdin => alive # {}
     /\ offset' = offset + n
     /\ inPipe' = inPipe + n
     /\ stdin' = (stdin /\ offset + n < InputLen)
     /\ pc' = IF stdin' THEN "stdin" ELSE "limits"
     /\ UNCHANGED <<procVars, pipe, capVars, endVars>>

\* write_input: fill the pipe; the handle is closed after the last byte.
WriteInput ==
  LET n == IF stdin THEN SmallerOf(PipeCap - inPipe, InputLen - offset) ELSE 0
  IN /\ pc = "stdin"
     /\ stdin => alive # {}
     /\ offset' = offset + n
     /\ inPipe' = inPipe + n
     /\ stdin' = (stdin /\ offset + n < InputLen)
     /\ pc' = "limits"
     /\ UNCHANGED <<procVars, pipe, capVars, endVars>>

\* Nobody can read the input any more (BrokenPipe): stop writing it.
InputRefused ==
  /\ pc = "stdin" /\ stdin
  /\ \A p \in alive : ~Filter(p)
  /\ stdin' = FALSE
  /\ pc' = "limits"
  /\ UNCHANGED <<procVars, pipe, inPipe, capVars, offset, endVars>>

WriteInputFails ==
  /\ pc = "stdin" /\ stdin /\ Abort("write")
  /\ UNCHANGED <<procVars, pipe, inPipe, capVars, inVars>>

CheckLimits ==
  /\ pc = "limits"
  /\ IF \E s \in Streams : Exceeded(s) THEN Abort("overflow")
     ELSE /\ pc' = IF status THEN "decide" ELSE "poll"
          /\ UNCHANGED endVars
  /\ UNCHANGED <<procVars, pipe, inPipe, capVars, inVars>>

\* Mutant of Poll: the grace period is not started.
PollWithoutGrace ==
  /\ pc = "poll"
  /\ status' = (Direct \notin alive)
  /\ pc' = "decide"
  /\ UNCHANGED <<procVars, pipe, inPipe, capVars, inVars, grace, failure,
                 result>>

Poll ==
  /\ pc = "poll"
  /\ status' = (Direct \notin alive)
  /\ grace' = IF Direct \notin alive THEN "running" ELSE "none"
  /\ pc' = "decide"
  /\ UNCHANGED <<procVars, pipe, inPipe, capVars, inVars, failure, result>>

PollFails ==
  /\ pc = "poll" /\ Abort("poll")
  /\ UNCHANGED <<procVars, pipe, inPipe, capVars, inVars>>

\* Mutant of Finish: the child's exit alone ends the capture.
FinishOnExit ==
  /\ pc = "decide" /\ status
  /\ killed' = killed \cup (alive \cap inGroup)
  /\ stdin' = FALSE
  /\ pc' = "done" /\ result' = "ok"
  /\ UNCHANGED <<alive, inGroup, holders, written, owed, pipe, inPipe, capVars,
                 offset, status, grace, failure>>

\* Both streams have ended and so has the child: kill what is left of its
\* group and return the captured bytes.
Finish ==
  /\ pc = "decide" /\ status /\ \A s \in Streams : Complete(s)
  /\ killed' = killed \cup (alive \cap inGroup)
  /\ stdin' = FALSE
  /\ pc' = "done" /\ result' = "ok"
  /\ UNCHANGED <<alive, inGroup, holders, written, owed, pipe, inPipe, capVars,
                 offset, status, grace, failure>>

\* Descendants kept an output pipe for the whole grace period.
GiveUp ==
  /\ pc = "decide" /\ ~(status /\ \A s \in Streams : Complete(s))
  /\ grace = "over" /\ Abort("grace")
  /\ UNCHANGED <<procVars, pipe, inPipe, capVars, inVars>>

Again ==
  /\ pc = "decide" /\ ~(status /\ \A s \in Streams : Complete(s))
  /\ grace # "over"
  /\ pc' = "stdout"
  /\ UNCHANGED <<procVars, pipe, inPipe, capVars, inVars, endVars>>

\* terminate_tree, then the three pipe ends are dropped.
Terminate ==
  /\ pc = "terminate"
  /\ killed' = killed \cup (alive \cap inGroup)
                      \cup (IF status THEN {} ELSE alive \cap {Direct})
  /\ reader' = [s \in Streams |-> FALSE]
  /\ stdin' = FALSE
  /\ pc' = IF status THEN "done" ELSE "reap"
  /\ result' = IF status THEN "err" ELSE "none"
  /\ UNCHANGED <<alive, inGroup, holders, written, owed, pipe, inPipe, got,
                 offset, status, grace, failure>>

\* reap_until: the direct child is collected, or its deadline passes.
Reap ==
  /\ pc = "reap"
  /\ status' = (Direct \notin alive)
  /\ pc' = "done" /\ result' = "err"
  /\ UNCHANGED <<procVars, pipe, inPipe, capVars, inVars, grace, failure>>

GraceEnds ==
  /\ grace = "running" /\ pc # "done"
  /\ grace' = "over"
  /\ UNCHANGED <<procVars, pipe, inPipe, capVars, inVars, status, failure,
                 result, pc>>

-----------------------------------------------------------------------------
Faults ==
  SetUpFails \/ WriteInputFails \/ PollFails \/ \E s \in Streams : DrainFails(s)

Loop ==
  \/ SetUp \/ WriteInput \/ InputRefused \/ CheckLimits \/ Poll
  \/ Finish \/ GiveUp \/ Again \/ Terminate \/ Reap
  \/ \E s \in Streams : Drain(s)

Processes ==
  \/ \E p \in Procs : ReadInput(p) \/ Setsid(p) \/ Exit(p)
  \/ \E p \in Procs, s \in Streams : Write(p, s) \/ CloseOutput(p, s)
  \/ \E p, q \in Procs : Fork(p, q)

Next == Loop \/ Faults \/ GraceEnds \/ Processes

Spec == Init /\ [][Next]_vars

(***************************************************************************)
(* The loop's thread keeps running and the clock advances.  Nothing is     *)
(* assumed of the processes, except, in FilterSpec, that a filter that can *)
(* go on does so.                                                          *)
(***************************************************************************)
FairSpec == Spec /\ WF_vars(Loop) /\ WF_vars(GraceEnds)

FilterSpec ==
  /\ FairSpec
  /\ WF_vars(ReadInput(Direct))
  /\ WF_vars(Write(Direct, "stdout"))
  /\ WF_vars(Exit(Direct))

-----------------------------------------------------------------------------
(* An "ok" result carries everything the tree ever wrote, whichever process *)
(* wrote it and whenever it closed its pipe or exited, within the limits,   *)
(* and the direct child has exited (output_inner).                          *)
FaithfulOutput ==
  result = "ok" =>
    /\ \A s \in Streams : got[s] = written[s] /\ got[s] <= Limit[s]
    /\ Direct \notin alive

(* "retaining no more than each configured limit plus one sentinel byte",  *)
(* and an overflow is reported only of a tree that really wrote more than  *)
(* a limit: output of exactly the limit is accepted (Capture::exceeded).   *)
OverflowExact ==
  /\ \A s \in Streams : got[s] <= Limit[s] + 1
  /\ failure = "overflow" => \E s \in Streams : written[s] > Limit[s]

(* A loop that is left, however it is left, has asked every process that   *)
(* is still in the direct child's group to end, and either collected the   *)
(* direct child or failed (terminate_tree, terminate_remaining_group).     *)
GroupKilled ==
  pc = "done" =>
    /\ alive \cap inGroup \subseteq killed
    /\ result = "ok" => status

(* Once the direct child has exited the call ends, even if descendants     *)
(* keep its pipes open or keep writing for ever (PIPE_CLOSE_GRACE).        *)
ReturnsAfterExit == Direct \notin alive ~> pc = "done"

(* Feeding a filter more input than the pipes hold does not deadlock: the  *)
(* loop drains while it writes, and unless something fails the call        *)
(* returns every byte the filter copied (write_input, Capture::drain).     *)
FilterCompletes ==
  <>(pc = "done" /\ (failure = "none" =>
       result = "ok" /\ got["stdout"] = InputLen))
=============================================================================

--------------------------- MODULE MCBoundedOutput ---------------------------
(***************************************************************************)
(* Bounded execution that takes input, and on Windows also without, for    *)
(* TLC.  A behaviour is one call: of BoundedProcessWindows with any of     *)
(* WinRequests, or of CaptureLoop on Linux with a filter as its child.     *)
(* `subject' says which, from the start; the other platform's variables    *)
(* describe a call that is over.                                           *)
(***************************************************************************)
EXTENDS CaptureLoop, Sequences

CONSTANTS
  WinPids,     \* Windows: Pids
  WinChild,    \* Windows: Child
  WinRequests, \* Windows: Requests
  p1, p2       \* the processes of the instances

ASSUME WinAssumption ==
  /\ WinChild \in WinPids
  /\ \A r \in WinRequests :
       /\ r.input \in BOOLEAN /\ r.limit \in [Streams -> Nat]
       /\ r.tree \subseteq WinPids /\ r.excess \in Nat

ChildOnly   == {p1}
ChildAndOne == {p1, p2}

\* The filter's whole output is exactly at the limit.
FilterLimits == [s \in Streams |-> 5]

\* Two processes that may write a byte more than the one admitted on stdout and
\* the none admitted on stderr; a child that takes input and writes nothing.
InputOrOutput ==
  {[input |-> FALSE, tree |-> {p1, p2}, excess |-> 1,
    limit |-> [s \in Streams |-> IF s = "stdout" THEN 1 ELSE 0]],
   [input |-> TRUE, tree |-> {p1}, excess |-> 0,
    limit |-> [s \in Streams |-> 0]]}

VARIABLES
  subject, asked,
  life, job, handle, holds, wWritten, worker, wGot, queue, wPc, wStatus,
  wFailure, finished, kept, clock

Windows == INSTANCE BoundedProcessWindows WITH
  Pids <- WinPids, Child <- WinChild, Requests <- WinRequests,
  written <- wWritten, got <- wGot, pc <- wPc, status <- wStatus,
  failure <- wFailure

windowsVars ==
  <<asked, life, job, handle, holds, wWritten, worker, wGot, queue, wPc,
    wStatus, wFailure, finished, kept, clock>>
allVars == <<subject, vars, windowsVars>>

LinuxIsOver ==
  /\ alive = {} /\ inGroup = {} /\ killed = {}
  /\ holders = [s \in Streams |-> {}]
  /\ pipe = [s \in Streams |-> 0] /\ written = [s \in Streams |-> 0]
  /\ reader = [s \in Streams |-> FALSE] /\ got = [s \in Streams |-> 0]
  /\ stdin = FALSE /\ offset = 0 /\ inPipe = 0 /\ owed = 0
  /\ status = FALSE /\ grace = "over" /\ failure = "setup"
  /\ pc = "done" /\ result = "err"

WindowsIsOver ==
  /\ asked \in WinRequests /\ ~asked.input
  /\ life = [p \in WinPids |-> "dead"] /\ job = {} /\ handle = "closed"
  /\ holds = [s \in Streams |-> {}] /\ wWritten = [s \in Streams |-> 0]
  /\ worker = [s \in Streams |-> "ended"] /\ wGot = [s \in Streams |-> 0]
  /\ queue = <<>> /\ wPc = "err" /\ wStatus = FALSE /\ wFailure = TRUE
  /\ finished = {} /\ kept = [s \in Streams |-> 0] /\ clock = "off"

MCInit ==
  \/ subject = "filter"  /\ Init /\ WindowsIsOver
  \/ subject = "windows" /\ LinuxIsOver /\ Windows!Init

MCNext ==
  /\ UNCHANGED subject
  /\ \/ subject = "filter"  /\ Next /\ UNCHANGED windowsVars
     \/ subject = "windows" /\ Windows!Next /\ UNCHANGED vars

\* The fairness of each platform's specification; the other one's call is over.
MCSpec ==
  /\ MCInit /\ [][MCNext]_allVars
  /\ WF_vars(Loop) /\ WF_vars(GraceEnds)
  /\ WF_vars(ReadInput(Direct)) /\ WF_vars(Write(Direct, "stdout"))
  /\ WF_vars(Exit(Direct))
  /\ Windows!Fairness

\* When the call returns on Windows, by whichever of its paths, every process
\* of the command has been told to die: none came into being outside the job
\* and none survives its end (CREATE_SUSPENDED, KILL_ON_JOB_CLOSE).
NothingIsLeft == Windows!TypeOK /\ Windows!NothingIsLeft

\* A success on Windows carries all that was ever written to either output, no
\* more than the limit, and follows the child's exit (Captures::finished).
FaithfulCapture == Windows!FaithfulCapture

\* Once the child is dead or the call has failed it returns on Windows, though
\* killed processes may hold the pipes for ever and a cancellation may miss a
\* worker (PIPE_CLOSE_GRACE, POST_CANCEL_TIMEOUT).
CallReturns == Windows!CallReturns
=============================================================================

------------------------ MODULE BoundedProcessWindows -------------------------
(***************************************************************************)
(* Bounded execution of a command on Windows (src/xtask/src/               *)
(* bounded_process.rs, mod platform under cfg(windows)): the child is      *)
(* started suspended and put into a job object that kills what is in it    *)
(* when it is closed; worker threads read the outputs and write the input  *)
(* and report over a channel to the calling thread, which polls the child. *)
(*                                                                         *)
(* Killing is asynchronous: a process that was told to die may hold its    *)
(* pipes for any time.  Cancelling a worker's I/O reaches it only while it *)
(* is in a call.                                                           *)
(***************************************************************************)
EXTENDS Naturals, Sequences

CONSTANTS
  Pids,        \* processes: the child and what may descend from it
  Child,       \* the direct child, one of Pids
  Requests     \* what a call may ask: a set of records of
               \*   input: a Boolean, whether there is input for the child;
               \*   limit: OutputLimits, the bytes admitted on each output;
               \*   tree: bound: the processes there may be;
               \*   excess: bound: bytes written to an output past its limit

VARIABLES
  asked,     \* the request of this call, one of Requests
  life,      \* kernel: what each process does
  job,       \* kernel: the processes in the job object
  handle,    \* Job::handle
  holds,     \* kernel: who has the other end of each pipe open
  written,   \* kernel: bytes written to each output so far
  worker,    \* the worker threads
  got,       \* bytes read by each reader
  queue,     \* the channel
  pc,        \* the calling thread
  status,    \* the direct child's status has been reaped
  failure,   \* failure.is_some()
  finished,  \* Captures: workers that have reported
  kept,      \* Captures: bytes of each output that were reported
  clock      \* the grace period or the deadline: "off", "on", "over"

kernelVars == <<life, job, handle, holds, written>>
workerVars == <<worker, got, queue>>
callVars   == <<pc, status, failure, finished, kept, clock>>
vars == <<kernelVars, workerVars, callVars>>

Streams == {"stdout", "stderr"}
Ends    == Streams \cup (IF asked.input THEN {"stdin"} ELSE {})
Workers == Ends
Allowed   == asked.limit
MostWritten(s) == Allowed[s] + asked.excess

Results  == {"ok", "exceeded", "error"}
Messages == [from : Workers, result : Results, bytes : Nat]
Steps == {"create", "spawn", "assign", "waitKilled", "start", "resume",
          "notStarted", "receive", "poll", "decide", "terminate", "cancel",
          "close", "reap", "drain", "join", "closeOk", "joinAll", "ok", "err"}
Done == {"ok", "err"}

TypeOK ==
  /\ asked \in Requests
  /\ life \in [Pids -> {"none", "suspended", "running", "killed", "dead"}]
  /\ job \in SUBSET Pids
  /\ handle \in {"none", "open", "closed"}
  /\ holds \in [Ends -> SUBSET Pids]
  /\ written \in [Streams -> Nat] /\ got \in [Streams -> Nat]
  /\ kept \in [Streams -> Nat]
  /\ \A s \in Streams : /\ written[s] <= MostWritten(s)
                         /\ got[s] <= written[s] /\ kept[s] <= got[s]
  /\ worker \in [Workers -> {"none", "busy", "blocked", "sent", "ended"}]
  /\ queue \in Seq(Messages)
  /\ \A i, j \in DOMAIN queue : queue[i].from = queue[j].from => i = j
  /\ pc \in Steps
  /\ status \in BOOLEAN /\ failure \in BOOLEAN
  /\ finished \in SUBSET Workers
  /\ clock \in {"off", "on", "over"}

Init ==
  /\ asked \in Requests
  /\ life = [p \in Pids |-> "none"]
  /\ job = {} /\ handle = "none"
  /\ holds = [e \in Ends |-> {}]
  /\ written = [s \in Streams |-> 0]
  /\ worker = [w \in Workers |-> "none"]
  /\ got = [s \in Streams |-> 0]
  /\ queue = <<>>
  /\ pc = "create"
  /\ status = FALSE /\ failure = FALSE
  /\ finished = {} /\ kept = [s \in Streams |-> 0]
  /\ clock = "off"

Alive(p) == life[p] \in {"suspended", "running"}

-----------------------------------------------------------------------------
(***************************************************************************)
(* Processes.                                                              *)
(***************************************************************************)
Write(p, s) ==
  /\ life[p] = "running" /\ p \in holds[s] /\ written[s] < MostWritten(s)
  /\ written' = [written EXCEPT ![s] = @ + 1]
  /\ UNCHANGED <<life, job, handle, holds, workerVars, callVars>>

CloseEnd(p, e) ==
  /\ life[p] = "running" /\ p \in holds[e]
  /\ holds' = [holds EXCEPT ![e] = @ \ {p}]
  /\ UNCHANGED <<life, job, handle, written, workerVars, callVars>>

\* The job admits no breakaway: a descendant is where its parent is.
Fork(p, q) ==
  /\ life[p] = "running" /\ life[q] = "none" /\ q \in asked.tree \ {Child}
  /\ life' = [life EXCEPT ![q] = "running"]
  /\ job' = IF p \in job THEN job \cup {q} ELSE job
  /\ holds' = [e \in Ends |-> IF p \in holds[e] THEN holds[e] \cup {q}
                                                ELSE holds[e]]
  /\ UNCHANGED <<handle, written, workerVars, callVars>>

Die(p) ==
  /\ life' = [life EXCEPT ![p] = "dead"]
  /\ holds' = [e \in Ends |-> holds[e] \ {p}]
  /\ UNCHANGED <<job, handle, written, workerVars, callVars>>

Exit(p) == life[p] = "running" /\ Die(p)
KilledDies(p) == life[p] = "killed" /\ Die(p)

Condemn(S) == life' = [p \in Pids |-> IF p \in S /\ Alive(p)
                                      THEN "killed" ELSE life[p]]

\* TerminateJobObject, and closing the last handle of the job.
KillJob == Condemn(job)

-----------------------------------------------------------------------------
(***************************************************************************)
(* Worker threads: spawn_reader, spawn_writer, read_bounded_pipe.          *)
(***************************************************************************)
Report(w, result, bytes) ==
  /\ worker' = [worker EXCEPT ![w] = "sent"]
  /\ queue' = Append(queue, [from |-> w, result |-> result, bytes |-> bytes])

EnterCall(w) ==
  /\ worker[w] = "busy"
  /\ worker' = [worker EXCEPT ![w] = "blocked"]
  /\ UNCHANGED <<kernelVars, got, queue, callVars>>

\* A read returns what there is, at most one byte more than the limit.
ReadReturns(s) ==
  /\ worker[s] = "blocked" /\ got[s] < written[s]
  /\ LET n == IF written[s] > Allowed[s] THEN Allowed[s] + 1 ELSE written[s]
     IN /\ got' = [got EXCEPT ![s] = n]
        /\ IF n > Allowed[s]
           THEN Report(s, "exceeded", n)
           ELSE worker' = [worker EXCEPT ![s] = "busy"] /\ UNCHANGED queue
  /\ UNCHANGED <<kernelVars, callVars>>

ReadEnds(s) ==
  /\ worker[s] = "blocked" /\ got[s] = written[s] /\ holds[s] = {}
  /\ Report(s, "ok", got[s])
  /\ UNCHANGED <<kernelVars, got, callVars>>

\* The bytes are taken, which nobody has to do.
WriteTaken ==
  /\ asked.input /\ worker["stdin"] = "blocked"
  /\ \E p \in holds["stdin"] : life[p] = "running"
  /\ Report("stdin", "ok", 0)
  /\ UNCHANGED <<kernelVars, got, callVars>>

\* Nobody can take them: BrokenPipe, which record admits.
WriteRefused ==
  /\ asked.input /\ worker["stdin"] = "blocked" /\ holds["stdin"] = {}
  /\ Report("stdin", "ok", 0)
  /\ UNCHANGED <<kernelVars, got, callVars>>

\* Any other error of a read or a write.
IoFails(w) ==
  /\ worker[w] = "blocked" /\ Report(w, "error", 0)
  /\ UNCHANGED <<kernelVars, got, callVars>>

WorkerEnds(w) ==
  /\ w \in Workers /\ worker[w] = "sent"
  /\ worker' = [worker EXCEPT ![w] = "ended"]
  /\ UNCHANGED <<kernelVars, got, queue, callVars>>

\* CancelSynchronousIo: the call of a worker fails; it does nothing to one that
\* is between two calls.  The errors are reported in any order.
Cancelled(S) == {w \in S : worker[w] = "blocked"}
Orders(S) ==  \* of at most three workers
  {o \in UNION {[1..n -> S] : n \in 0..3} :
     /\ \A i, j \in DOMAIN o : o[i] = o[j] => i = j
     /\ \A w \in S : \E i \in DOMAIN o : o[i] = w}
Errors(order) ==
  [i \in DOMAIN order |-> [from |-> order[i], result |-> "error", bytes |-> 0]]

Cancel(S) ==
  /\ worker' = [w \in Workers |-> IF w \in Cancelled(S) THEN "sent" ELSE worker[w]]
  /\ \E order \in Orders(Cancelled(S)) : queue' = queue \o Errors(order)

-----------------------------------------------------------------------------
(***************************************************************************)
(* The calling thread.                                                     *)
(***************************************************************************)
Go(next) == pc' = next

CreateJob ==
  /\ pc = "create"
  /\ \/ handle' = "open" /\ Go("spawn")
     \/ handle' = handle /\ Go("err")
  /\ UNCHANGED <<life, job, holds, written, workerVars,
                 status, failure, finished, kept, clock>>

\* Mutant of Spawn: without CREATE_SUSPENDED.
SpawnRunning ==
  /\ pc = "spawn"
  /\ life' = [life EXCEPT ![Child] = "running"]
  /\ holds' = [e \in Ends |-> {Child}]
  /\ Go("assign")
  /\ UNCHANGED <<job, handle, written, workerVars,
                 status, failure, finished, kept, clock>>

Spawn ==
  /\ pc = "spawn"
  /\ \/ /\ life' = [life EXCEPT ![Child] = "suspended"]
        /\ holds' = [e \in Ends |-> {Child}]
        /\ Go("assign") /\ UNCHANGED handle
     \/ /\ Go("err") /\ handle' = "closed" /\ UNCHANGED <<life, holds>>
  /\ UNCHANGED <<job, written, workerVars,
                 status, failure, finished, kept, clock>>

\* A child that cannot be put into the job is killed and waited for.
Assign ==
  /\ pc = "assign"
  /\ \/ job' = {Child} /\ Go("start") /\ UNCHANGED life
     \/ Condemn({Child}) /\ Go("waitKilled") /\ UNCHANGED job
  /\ UNCHANGED <<handle, holds, written, workerVars,
                 status, failure, finished, kept, clock>>

WaitKilled ==
  /\ pc = "waitKilled" /\ life[Child] = "dead"
  /\ handle' = "closed" /\ Go("err")
  /\ UNCHANGED <<life, job, holds, written, workerVars,
                 status, failure, finished, kept, clock>>

StartWorkers ==
  /\ pc = "start"
  /\ worker' = [w \in Workers |-> "busy"]
  /\ Go("resume")
  /\ UNCHANGED <<kernelVars, got, queue,
                 status, failure, finished, kept, clock>>

\* A child that cannot be resumed: the job is terminated and closed, all I/O
\* is cancelled, and nothing is received or joined.
Resume ==
  /\ pc = "resume"
  /\ \/ /\ life' = [life EXCEPT ![Child] = "running"]
        /\ Go("receive") /\ UNCHANGED <<handle, failure, clock, worker, queue>>
     \/ /\ KillJob /\ Cancel(Workers) /\ handle' = "closed"
        /\ failure' = TRUE /\ clock' = "on" /\ Go("notStarted")
  /\ UNCHANGED <<job, holds, written, got, status, finished, kept>>

NotStarted ==
  /\ pc = "notStarted" /\ (life[Child] = "dead" \/ clock = "over")
  /\ Go("err")
  /\ UNCHANGED <<kernelVars, workerVars, status, failure, finished, kept, clock>>

\* Mutant of Record: an output beyond its limit is no failure.
RecordOverflow(m) ==
  /\ finished' = finished \cup {m.from}
  /\ kept' = IF m.from \in Streams /\ m.result # "error"
             THEN [kept EXCEPT ![m.from] = m.bytes] ELSE kept
  /\ failure' = (failure \/ m.result = "error")

Record(m) ==
  /\ finished' = finished \cup {m.from}
  /\ kept' = IF m.from \in Streams /\ m.result # "error"
             THEN [kept EXCEPT ![m.from] = m.bytes] ELSE kept
  /\ failure' = (failure \/ m.result # "ok")

Disconnected == queue = <<>> /\ \A w \in Workers : worker[w] = "ended"

\* recv_timeout: a message if there is one.
Receive ==
  /\ pc = "receive" /\ Go("poll")
  /\ IF queue # <<>>
     THEN Record(Head(queue)) /\ queue' = Tail(queue)
     ELSE /\ failure' = (failure \/ (Disconnected /\ finished # Workers))
          /\ UNCHANGED <<finished, kept, queue>>
  /\ UNCHANGED <<kernelVars, worker, got, status, clock>>

Poll ==
  /\ pc = "poll"
  /\ \/ /\ status' = (status \/ life[Child] = "dead")
        /\ clock' = IF status' /\ ~status THEN "on" ELSE clock
        /\ Go("decide") /\ UNCHANGED failure
     \/ /\ ~status /\ failure' = TRUE /\ Go("terminate")
        /\ UNCHANGED <<status, clock>>
  /\ UNCHANGED <<kernelVars, workerVars, finished, kept>>

Decide ==
  /\ pc = "decide"
  /\ Go(CASE failure -> "terminate"
          [] ~failure /\ status /\ finished = Workers -> "closeOk"
          [] ~failure /\ ~(status /\ finished = Workers) /\ clock = "over"
               -> "terminate"
          [] OTHER -> "receive")
  /\ failure' = (pc' = "terminate")
  /\ UNCHANGED <<kernelVars, workerVars, status, finished, kept, clock>>

\* job.terminate(), whose failure is ignored.
Terminate ==
  /\ pc = "terminate" /\ Go("cancel")
  /\ KillJob \/ UNCHANGED life
  /\ UNCHANGED <<job, handle, holds, written, workerVars,
                 status, failure, finished, kept, clock>>

CancelWorkers ==
  /\ pc = "cancel" /\ Go("close")
  /\ Cancel(Workers \ finished)
  /\ UNCHANGED <<kernelVars, got, status, failure, finished, kept, clock>>

\* drop(job), and kill if the child was not reaped; the deadline starts.
CloseJob ==
  /\ pc = "close" /\ Go("reap")
  /\ KillJob /\ handle' = "closed" /\ clock' = "on"
  /\ UNCHANGED <<job, holds, written, workerVars,
                 status, failure, finished, kept>>

Reap ==
  /\ pc = "reap"
  /\ \/ /\ ~status /\ life[Child] = "dead" /\ status' = TRUE
     \/ (status \/ clock = "over") /\ UNCHANGED status
  /\ Go("drain")
  /\ UNCHANGED <<kernelVars, workerVars, failure, finished, kept, clock>>

\* receive_until: what is received no longer changes the error.
Drain ==
  /\ pc = "drain"
  /\ \/ /\ finished # Workers /\ clock = "on" /\ queue # <<>>
        /\ Record(Head(queue)) /\ queue' = Tail(queue) /\ UNCHANGED pc
     \/ /\ (finished = Workers \/ clock = "over" \/ Disconnected)
        /\ Go("join") /\ UNCHANGED <<finished, kept, failure, queue>>
  /\ UNCHANGED <<kernelVars, worker, got, status, clock>>

\* Mutant of Join: every worker is joined.
JoinEveryWorker ==
  /\ pc = "join" /\ \A w \in Workers : worker[w] = "ended"
  /\ Go("err")
  /\ UNCHANGED <<kernelVars, workerVars, status, failure, finished, kept, clock>>

\* Only workers that have reported are joined.
Join ==
  /\ pc = "join" /\ \A w \in finished : worker[w] = "ended"
  /\ Go("err")
  /\ UNCHANGED <<kernelVars, workerVars, status, failure, finished, kept, clock>>

CloseJobOk ==
  /\ pc = "closeOk" /\ Go("joinAll")
  /\ KillJob /\ handle' = "closed"
  /\ UNCHANGED <<job, holds, written, workerVars,
                 status, failure, finished, kept, clock>>

JoinAll ==
  /\ pc = "joinAll" /\ \A w \in Workers : worker[w] = "ended"
  /\ Go("ok")
  /\ UNCHANGED <<kernelVars, workerVars, status, failure, finished, kept, clock>>

\* 250 ms after the exit, or two seconds after the cancellation.
TimePasses ==
  /\ clock = "on" /\ clock' = "over"
  /\ UNCHANGED <<kernelVars, workerVars, pc, status, failure, finished, kept>>

-----------------------------------------------------------------------------
CallStep ==
  \/ CreateJob \/ Spawn \/ Assign \/ WaitKilled \/ StartWorkers \/ Resume
  \/ NotStarted
  \/ Receive \/ Poll \/ Decide \/ Terminate \/ CancelWorkers \/ CloseJob
  \/ Reap \/ Drain \/ Join \/ CloseJobOk \/ JoinAll

WorkerStep(w) ==
  \/ EnterCall(w) \/ WorkerEnds(w)
  \/ w \in Streams /\ (ReadReturns(w) \/ ReadEnds(w))
  \/ w = "stdin" /\ WriteRefused

Next ==
  /\ UNCHANGED asked
  /\ \/ CallStep \/ TimePasses
     \/ \E w \in Workers : WorkerStep(w) \/ IoFails(w)
     \/ WriteTaken
     \/ \E p \in Pids, s \in Streams : Write(p, s)
     \/ \E p \in Pids, e \in Ends : CloseEnd(p, e)
     \/ \E p, q \in Pids : Fork(p, q)
     \/ \E p \in Pids : Exit(p)
     \/ \E p \in Pids : KilledDies(p)

Spec == Init /\ [][Next]_<<asked, vars>>

\* The calling thread runs, time passes, a worker that has reported ends.
Fairness ==
  /\ WF_vars(CallStep) /\ WF_vars(TimePasses)
  /\ \A w \in Streams \cup {"stdin"} : WF_vars(WorkerEnds(w))

-----------------------------------------------------------------------------
(***************************************************************************)
(* Properties.                                                             *)
(***************************************************************************)
\* When the call returns, by whichever of its paths, every process of the
\* command has been told to die: none came into being outside the job and none
\* survives its end (CREATE_SUSPENDED, assign, KILL_ON_JOB_CLOSE).
NothingIsLeft == pc \in Done => \A p \in Pids : ~Alive(p)

\* A success carries all that was ever written to either output, no more than
\* the limit, and follows the child's exit: no descendant can still write
\* (Captures::finished, the reports of read_bounded_pipe).
FaithfulCapture ==
  pc = "ok" =>
    /\ status /\ ~failure
    /\ \A s \in Streams : kept[s] = written[s] /\ kept[s] <= Allowed[s]

\* Once the child is dead or the call has failed it returns, though killed
\* processes may hold the pipes for ever and a cancellation may miss a worker
\* (PIPE_CLOSE_GRACE, POST_CANCEL_TIMEOUT, joining only what reported).
CallReturns ==
  (life[Child] = "dead" \/ pc = "terminate") ~> pc \in Done

-----------------------------------------------------------------------------
(***************************************************************************)
(* Why they hold: what is true between any two steps of a call.            *)
(***************************************************************************)
Nobody == \A p \in Pids : ~Alive(p)
OnlyTheChild ==
  \A p \in Pids : life[p] = IF p = Child THEN "suspended" ELSE "none"

\* Before the resume there is only the child and it does not run; from then on
\* whoever is alive is in the job; once the job has been killed nobody is.
JobInv ==
  /\ pc \in {"create", "spawn"} => \A p \in Pids : life[p] = "none"
  /\ pc = "assign" => OnlyTheChild
  /\ pc \in {"start", "resume"} => OnlyTheChild /\ job = {Child}
  /\ pc \in {"receive", "poll", "decide", "terminate", "cancel", "close",
            "closeOk"} => \A p \in Pids : Alive(p) => p \in job
  /\ pc \in {"waitKilled", "notStarted", "reap", "drain", "join", "joinAll"}
       \cup Done => Nobody

Reported(w) == worker[w] \in {"sent", "ended"}

\* An output whose reader has seen its end.
Complete(s) == holds[s] = {} /\ got[s] = written[s] /\ got[s] <= Allowed[s]

\* What a message of the channel says is still so when it is received.
MessageInv ==
  \A i \in DOMAIN queue :
    /\ Reported(queue[i].from)
    /\ \A s \in Streams : queue[i].from = s =>
         /\ queue[i].result # "error" => queue[i].bytes = got[s]
         /\ queue[i].result = "ok" => Complete(s)

\* A worker that has not reported is within its limit; what has been received
\* without a failure is complete.
CaptureInv ==
  /\ \A s \in Streams : ~Reported(s) => got[s] <= Allowed[s]
  /\ \A w \in finished : Reported(w)
  /\ \A s \in Streams : s \in finished /\ ~failure =>
       Complete(s) /\ kept[s] = got[s]

\* Nothing is received before the workers start; a success has received all.
CallInv ==
  /\ pc \in {"create", "spawn", "assign", "start"} =>
       /\ queue = <<>> /\ finished = {}
       /\ \A w \in Workers : worker[w] = "none"
  /\ pc \in {"closeOk", "joinAll", "ok"} =>
       status /\ ~failure /\ finished = Workers

IInv == TypeOK /\ JobInv /\ MessageInv /\ CaptureInv /\ CallInv
=============================================================================

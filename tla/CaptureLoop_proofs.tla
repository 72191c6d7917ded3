-------------------------- MODULE CaptureLoop_proofs --------------------------
(***************************************************************************)
(* Proofs about CaptureLoop, for any processes, limits, inputs and pipes.  *)
(* No byte is ever outside got and pipe, a stream that has ended has left  *)
(* nothing in its pipe, and what is left of the group when the loop is     *)
(* left has been killed, so that it starts nothing more in the group.      *)
(* Then about a call on Windows, BoundedProcessWindows, for any processes  *)
(* and requests, which MCBoundedOutput instantiates.                       *)
(***************************************************************************)
EXTENDS MCBoundedOutput, TLAPS, SequenceTheorems

\* Every byte written is in the buffer or in the pipe, and the buffer never
\* exceeds the sentinel.
CountInv ==
  \A s \in Streams : got[s] + pipe[s] = written[s] /\ got[s] <= Limit[s] + 1

\* Until the loop has failed, a stream without a reader has ended.
EndedInv ==
  \A s \in Streams : failure = "none" /\ ~reader[s] => pipe[s] = 0

\* Where the loop is, and what it has found out on the way there.
LoopInv ==
  /\ pc \in {"terminate", "reap"} => failure # "none"
  /\ failure # "none" => pc \in {"terminate", "reap", "done"}
  /\ status => Direct \notin alive
  /\ failure = "none" /\ pc \in {"poll", "decide", "done"} =>
       \A s \in Streams : got[s] <= Limit[s]
  /\ failure = "overflow" => \E s \in Streams : written[s] > Limit[s]
  /\ result = "ok" => failure = "none" /\ pc = "done" /\ status
                      /\ \A s \in Streams : ~reader[s]

\* Whoever is left in the group when the loop is left was told to end.
GroupInv == pc \in {"reap", "done"} => alive \cap inGroup \subseteq killed

IInv == TypeOK /\ CountInv /\ EndedInv /\ LoopInv /\ GroupInv

USE LimitAssumption, SizesAssumption

-----------------------------------------------------------------------------
(* The invariant holds at first.                                           *)
LEMMA InitInv == Init => IInv
<1> SUFFICES ASSUME Init PROVE IInv
  OBVIOUS
<1>1. TypeOK
  <2>1. /\ {Direct} \in SUBSET Procs /\ {} \in SUBSET Procs
        /\ 0 \in 0..PipeCap /\ 0 \in 0..InputLen /\ 0 \in 0..1
    BY DirectAssumption
  <2>2. /\ holders \in [Streams -> SUBSET Procs] /\ pipe \in [Streams -> 0..PipeCap]
        /\ written \in [Streams -> Nat] /\ reader \in [Streams -> BOOLEAN]
        /\ got \in [Streams -> Nat]
    BY <2>1 DEF Init
  <2> QED
    BY <2>1, <2>2 DEF Init, TypeOK, Steps, Failures
<1>2. CountInv /\ EndedInv
  BY DEF Init, CountInv, EndedInv
<1>3. LoopInv /\ GroupInv
  BY DEF Init, LoopInv, GroupInv
<1> QED
  BY <1>1, <1>2, <1>3 DEF IInv

(* What is written is in the pipe (Write).                                 *)
LEMMA WriteInv == ASSUME IInv, NEW p \in Procs, NEW s \in Streams, Write(p, s) PROVE IInv'
<1> USE DEF IInv, Write, capVars, inVars, endVars
<1>1. TypeOK'
  BY DEF TypeOK
<1>2. CountInv'
  BY DEF TypeOK, CountInv
<1>3. EndedInv'
  BY DEF TypeOK, EndedInv
<1>4. LoopInv'
  BY DEF TypeOK, LoopInv
<1> QED
  BY <1>1, <1>2, <1>3, <1>4 DEF GroupInv

(* The other steps of the processes: they move no output, and what is      *)
(* killed forks no more (Fork).                                            *)
LEMMA ProcessInv ==
  ASSUME IInv, NEW p \in Procs,
         \/ ReadInput(p) \/ Setsid(p) \/ Exit(p)
         \/ \E s \in Streams : CloseOutput(p, s)
         \/ \E q \in Procs : Fork(p, q)
  PROVE  IInv'
<1> USE DEF IInv
<1>1. /\ UNCHANGED <<killed, written, pipe, capVars, inVars, endVars, pc>>
      /\ alive' \in SUBSET Procs /\ inGroup' \in SUBSET Procs
      /\ holders' \in [Streams -> SUBSET Procs]
      /\ inPipe' \in 0..PipeCap /\ owed' \in 0..1
  BY DEF ReadInput, Setsid, Exit, CloseOutput, Fork, TypeOK, capVars, inVars, endVars
<1>2. Direct \notin alive => Direct \notin alive'
  BY DEF ReadInput, Setsid, Exit, CloseOutput, Fork
<1>3. alive \cap inGroup \subseteq killed => alive' \cap inGroup' \subseteq killed
  BY DEF ReadInput, Setsid, Exit, CloseOutput, Fork, Runs
<1>4. TypeOK'
  BY <1>1 DEF TypeOK, capVars, inVars, endVars
<1>5. CountInv' /\ EndedInv'
  BY <1>1 DEF CountInv, EndedInv, capVars, endVars
<1>6. LoopInv' /\ GroupInv'
  BY <1>1, <1>2, <1>3 DEF LoopInv, GroupInv, capVars, endVars
<1> QED
  BY <1>4, <1>5, <1>6

(* A failure leaves the loop with the buffers as they are (Abort).         *)
LEMMA AbortInv ==
  ASSUME IInv, NEW why \in Failures \ {"none"}, Abort(why),
         UNCHANGED <<procVars, pipe, inPipe, capVars, inVars>>, pc \notin {"reap", "done"},
         why = "overflow" => \E s \in Streams : Exceeded(s)
  PROVE  IInv'
<1> USE DEF IInv, Abort, procVars, capVars, inVars
<1>1. TypeOK'
  BY DEF TypeOK, Steps
<1>2. CountInv' /\ EndedInv'
  BY DEF CountInv, EndedInv
<1>3. why = "overflow" => \E s \in Streams : written[s] > Limit[s]
  BY DEF Exceeded, CountInv, TypeOK
<1>4. LoopInv'
  BY <1>3 DEF LoopInv, TypeOK
<1> QED
  BY <1>1, <1>2, <1>4 DEF GroupInv

-----------------------------------------------------------------------------
(* A drain moves bytes from the pipe to the buffer, and finds the end of a *)
(* stream only where the pipe is empty (Capture::drain).                   *)
LEMMA DrainInv == ASSUME IInv, NEW s \in Streams, Drain(s) PROVE IInv'
<1> USE DEF IInv, procVars, inVars, endVars
<1> DEFINE n == IF reader[s] /\ got[s] < Sentinel(s)
                THEN SmallerOf(pipe[s], Sentinel(s) - got[s]) ELSE 0
<1>1. /\ got' = [got EXCEPT ![s] = got[s] + n] /\ pipe' = [pipe EXCEPT ![s] = pipe[s] - n]
      /\ reader' = [reader EXCEPT ![s] =
           reader[s] /\ ~(got[s] + n < Sentinel(s) /\ holders[s] = {})]
      /\ pc = s /\ pc' = After(s) /\ UNCHANGED <<procVars, inPipe, inVars, endVars>>
  BY DEF Drain
<1>2. /\ got[s] \in Nat /\ pipe[s] \in 0..PipeCap /\ Limit[s] \in Nat
      /\ got[s] <= Sentinel(s) /\ reader[s] \in BOOLEAN
  BY DEF TypeOK, CountInv, Sentinel
<1>3. /\ n \in Nat /\ n <= pipe[s] /\ got[s] + n <= Sentinel(s)
      /\ reader[s] /\ got[s] + n < Sentinel(s) => n = pipe[s]
  BY <1>2 DEF SmallerOf, Sentinel
<1> HIDE DEF n
<1>4. pc \in {"stdout", "stderr"} /\ pc' \in {"stderr", "stdin"}
  BY <1>1 DEF Streams, After
<1>5. /\ got[s] + n \in Nat /\ pipe[s] - n \in 0..PipeCap
      /\ (reader[s] /\ ~(got[s] + n < Sentinel(s) /\ holders[s] = {})) \in BOOLEAN
  BY <1>2, <1>3
<1>6. /\ got' \in [Streams -> Nat] /\ pipe' \in [Streams -> 0..PipeCap]
      /\ reader' \in [Streams -> BOOLEAN]
  BY <1>1, <1>5 DEF TypeOK
<1>7. TypeOK'
  BY <1>1, <1>4, <1>6 DEF TypeOK, Steps
<1>8. CountInv'
  <2> SUFFICES ASSUME NEW t \in Streams
               PROVE  got'[t] + pipe'[t] = written[t] /\ got'[t] <= Limit[t] + 1
    BY <1>1 DEF CountInv
  <2>1. got[t] + pipe[t] = written[t] /\ got[t] <= Limit[t] + 1
    BY DEF CountInv
  <2>2. CASE t = s
    <3>1. got'[s] = got[s] + n /\ pipe'[s] = pipe[s] - n
      BY <1>1 DEF TypeOK
    <3> QED
      BY <1>2, <1>3, <2>1, <2>2, <3>1 DEF Sentinel
  <2>3. CASE t # s
    BY <1>1, <2>1, <2>3 DEF TypeOK
  <2> QED
    BY <2>2, <2>3
<1>9. EndedInv'
  <2> SUFFICES ASSUME NEW t \in Streams, failure = "none", ~reader'[t]
               PROVE  pipe'[t] = 0
    BY <1>1 DEF EndedInv
  <2>1. CASE t # s
    BY <1>1, <2>1 DEF TypeOK, EndedInv
  <2>2. CASE t = s
    <3>1. pipe'[s] = pipe[s] - n
      BY <1>1 DEF TypeOK
    <3>2. CASE ~reader[s]
      BY <1>2, <1>3, <2>2, <3>1, <3>2 DEF EndedInv
    <3>3. CASE reader[s]
      <4>1. got[s] + n < Sentinel(s)
        BY <1>1, <2>2, <3>3 DEF TypeOK
      <4> QED
        BY <1>2, <1>3, <2>2, <3>1, <3>3, <4>1
    <3> QED
      BY <3>2, <3>3
  <2> QED
    BY <2>1, <2>2
<1>10. LoopInv' /\ GroupInv'
  BY <1>1, <1>4 DEF LoopInv, GroupInv
<1> QED
  BY <1>7, <1>8, <1>9, <1>10

(* The steps that move no output and end nothing.                          *)
LEMMA PlainInv ==
  ASSUME IInv, SetUp \/ WriteInput \/ InputRefused \/ Again \/ GraceEnds \/ Poll
  PROVE  IInv'
<1> USE DEF IInv, procVars, capVars, inVars, endVars
<1>1. /\ UNCHANGED <<procVars, pipe, capVars, failure, result>>
      /\ offset' \in 0..InputLen /\ inPipe' \in 0..PipeCap /\ stdin' \in BOOLEAN
    <2>1. CASE WriteInput
      <3> DEFINE n == IF stdin THEN SmallerOf(PipeCap - inPipe, InputLen - offset) ELSE 0
      <3>1. offset' = offset + n /\ inPipe' = inPipe + n /\ stdin' \in BOOLEAN
            /\ UNCHANGED <<procVars, pipe, capVars, failure, result>>
        BY <2>1 DEF WriteInput, TypeOK
      <3>2. n \in Nat /\ n <= PipeCap - inPipe /\ n <= InputLen - offset
        BY DEF TypeOK, SmallerOf
      <3> HIDE DEF n
      <3> QED
        BY <3>1, <3>2 DEF TypeOK
    <2>2. CASE SetUp
      BY <2>2 DEF SetUp, TypeOK
    <2>3. CASE InputRefused
      BY <2>3 DEF InputRefused, TypeOK
    <2>4. CASE Again \/ GraceEnds \/ Poll
      BY <2>4 DEF Again, GraceEnds, Poll, TypeOK
    <2> QED
      BY <2>1, <2>2, <2>3, <2>4
<1> DEFINE Kept ==
      /\ status' \in BOOLEAN /\ grace' \in {"none", "running", "over"} /\ pc' \in Steps
      /\ pc' = pc \/ (pc # "done" /\ pc' \in {"stdout", "limits", "decide"})
      /\ pc' = "decide" => pc \in {"poll", "decide"}
      /\ pc' = "done" => pc = "done"
      /\ pc' # pc => pc \notin {"terminate", "reap"}
      /\ status' => Direct \notin alive
<1>2. Kept
  <2>1. CASE SetUp
    BY <2>1 DEF SetUp, TypeOK, Steps, LoopInv
  <2>2. CASE WriteInput \/ InputRefused
    BY <2>2 DEF WriteInput, InputRefused, TypeOK, Steps, LoopInv
  <2>3. CASE Again
    BY <2>3 DEF Again, TypeOK, Steps, LoopInv
  <2>4. CASE GraceEnds
    BY <2>4 DEF GraceEnds, TypeOK, LoopInv
  <2>5. CASE Poll
    BY <2>5 DEF Poll, TypeOK, Steps
  <2> QED
    BY <2>1, <2>2, <2>3, <2>4, <2>5
<1>3. TypeOK'
  BY <1>1, <1>2 DEF TypeOK
<1>4. CountInv' /\ EndedInv'
  BY <1>1 DEF CountInv, EndedInv
<1>5. LoopInv'
  <2>1. result # "ok"
    BY DEF LoopInv, SetUp, WriteInput, InputRefused, Again, GraceEnds, Poll
  <2> QED
    BY <1>1, <1>2, <2>1 DEF LoopInv
<1>6. GroupInv'
  BY <1>1, <1>2 DEF GroupInv
<1> QED
  BY <1>3, <1>4, <1>5, <1>6

(* Output over a limit is a failure, and what goes on is within the limits *)
(* (Capture::exceeded).                                                    *)
LEMMA LimitsInv == ASSUME IInv, CheckLimits PROVE IInv'
<1> USE DEF CheckLimits
<1>1. CASE \E s \in Streams : Exceeded(s)
  BY <1>1, AbortInv DEF Failures
<1>2. CASE ~\E s \in Streams : Exceeded(s)
  <2>1. /\ UNCHANGED <<procVars, pipe, inPipe, capVars, inVars, endVars>>
        /\ pc = "limits" /\ pc' \in {"poll", "decide"}
    BY <1>2
  <2>2. \A s \in Streams : got[s] <= Limit[s]
    BY <1>2 DEF Exceeded, IInv, TypeOK
  <2>3. TypeOK'
    BY <2>1 DEF IInv, TypeOK, Steps, procVars, capVars, inVars, endVars
  <2> QED
    BY <2>1, <2>2, <2>3
    DEF IInv, CountInv, EndedInv, LoopInv, GroupInv, procVars, capVars, endVars
<1> QED
  BY <1>1, <1>2

(* A loop that succeeds has read both streams to their end (Finish).       *)
LEMMA FinishInv == ASSUME IInv, Finish PROVE IInv'
<1> USE DEF IInv, Finish, capVars
<1>1. TypeOK'
  BY DEF TypeOK, Steps
<1>2. failure = "none"
  BY DEF LoopInv
<1>3. LoopInv'
  BY <1>2 DEF LoopInv, Complete
<1> QED
  BY <1>1, <1>3 DEF CountInv, EndedInv, GroupInv

(* A loop that fails kills the group, then waits for the child             *)
(* (terminate_tree, reap_until).                                           *)
LEMMA TerminateInv == ASSUME IInv, Terminate \/ Reap PROVE IInv'
<1> USE DEF IInv
<1>1. CASE Terminate
  <2> USE <1>1 DEF Terminate
  <2>1. failure # "none" /\ result' # "ok"
    BY DEF LoopInv
  <2>2. TypeOK'
    BY DEF TypeOK, Steps
  <2>3. CountInv' /\ EndedInv'
    BY <2>1 DEF CountInv, EndedInv
  <2>4. LoopInv'
    BY <2>1 DEF LoopInv
  <2>5. GroupInv'
    BY DEF GroupInv
  <2> QED
    BY <2>2, <2>3, <2>4, <2>5
<1>2. CASE Reap
  <2> USE <1>2 DEF Reap, procVars, capVars, inVars
  <2>1. failure # "none" /\ result' # "ok"
    BY DEF LoopInv
  <2>2. TypeOK'
    BY DEF TypeOK, Steps
  <2>3. CountInv' /\ EndedInv'
    BY <2>1 DEF CountInv, EndedInv
  <2>4. LoopInv'
    BY <2>1 DEF LoopInv
  <2> QED
    BY <2>2, <2>3, <2>4 DEF GroupInv
<1> QED
  BY <1>1, <1>2

(* The steps that abort the loop.                                          *)
LEMMA FaultInv == ASSUME IInv, Faults \/ GiveUp PROVE IInv'
<1>1. CASE SetUpFails
  BY <1>1, AbortInv DEF SetUpFails, Failures
<1>2. CASE WriteInputFails
  BY <1>2, AbortInv DEF WriteInputFails, Failures
<1>3. CASE PollFails
  BY <1>3, AbortInv DEF PollFails, Failures
<1>4. ASSUME NEW s \in Streams, DrainFails(s) PROVE IInv'
  <2>1. pc \in {"stdout", "stderr"}
    BY <1>4 DEF DrainFails, Streams
  <2> QED
    BY <1>4, <2>1, AbortInv DEF DrainFails, Failures
<1>5. CASE GiveUp
  BY <1>5, AbortInv DEF GiveUp, Failures
<1> QED
  BY <1>1, <1>2, <1>3, <1>4, <1>5 DEF Faults

-----------------------------------------------------------------------------
(* Every step keeps the invariant.                                         *)
LEMMA NextInv == IInv /\ [Next]_vars => IInv'
<1> SUFFICES ASSUME IInv, [Next]_vars PROVE IInv'
  OBVIOUS
<1>1. CASE UNCHANGED vars
  <2> USE <1>1 DEF IInv, vars, procVars, capVars, inVars, endVars
  <2>1. TypeOK'
    BY DEF TypeOK
  <2> QED
    BY <2>1 DEF CountInv, EndedInv, LoopInv, GroupInv
<1>2. CASE Loop
  BY <1>2, DrainInv, PlainInv, LimitsInv, FinishInv, TerminateInv, FaultInv DEF Loop
<1>3. CASE Faults \/ GraceEnds
  BY <1>3, FaultInv, PlainInv
<1>4. CASE Processes
  BY <1>4, WriteInv, ProcessInv DEF Processes
<1> QED
  BY <1>1, <1>2, <1>3, <1>4 DEF Next

(* The invariant holds in every state of every call.                       *)
LEMMA Invariance == Spec => []IInv
  BY InitInv, NextInv, PTL DEF Spec

(* The types of every variable (output_inner).                             *)
THEOREM TypeCorrect == Spec => []TypeOK
<1>1. IInv => TypeOK
  BY DEF IInv
<1> QED
  BY <1>1, Invariance, PTL

(* A success carries all that was ever written (output_inner).             *)
THEOREM SuccessIsFaithful == Spec => []FaithfulOutput
<1>1. IInv => FaithfulOutput
  <2> SUFFICES ASSUME IInv, result = "ok" PROVE FaithfulOutput
    BY DEF FaithfulOutput
  <2>1. failure = "none" /\ pc = "done" /\ status /\ \A s \in Streams : ~reader[s]
    BY DEF IInv, LoopInv
  <2>2. \A s \in Streams : got[s] = written[s] /\ got[s] <= Limit[s]
    BY <2>1 DEF IInv, TypeOK, CountInv, EndedInv, LoopInv
  <2> QED
    BY <2>1, <2>2 DEF FaithfulOutput, IInv, LoopInv
<1> QED
  BY <1>1, Invariance, PTL

(* No buffer exceeds its limit by more than the sentinel, and overflow is  *)
(* reported only of a tree that wrote too much (Capture::exceeded).        *)
THEOREM OverflowIsReal == Spec => []OverflowExact
<1>1. IInv => OverflowExact
  BY DEF IInv, CountInv, LoopInv, OverflowExact
<1> QED
  BY <1>1, Invariance, PTL

(* Whoever is in the group when the loop is left has been killed           *)
(* (terminate_tree, terminate_remaining_group).                            *)
THEOREM GroupIsKilled == Spec => []GroupKilled
<1>1. IInv => GroupKilled
  BY DEF IInv, LoopInv, GroupInv, GroupKilled
<1> QED
  BY <1>1, Invariance, PTL

-----------------------------------------------------------------------------
(***************************************************************************)
(* A call on Windows, for any processes and requests.  Windows!IInv is     *)
(* inductive: nobody is alive outside the job from the resume on, what a   *)
(* message of the channel says of an output is still so when it is         *)
(* received, and a success has received a message of every worker.         *)
(***************************************************************************)

(* The limits of a call are numbers, and its two readers are workers.       *)
LEMMA RequestFacts ==
  ASSUME Windows!TypeOK
  PROVE  /\ \A s \in Windows!Streams : Windows!Allowed[s] \in Nat /\ Windows!MostWritten(s) \in Nat
         /\ Windows!Streams \subseteq Windows!Workers
<1>1. asked.limit \in [Windows!Streams -> Nat] /\ asked.excess \in Nat
  BY WinAssumption DEF Windows!TypeOK, Windows!Streams, Streams
<1> QED
  BY <1>1 DEF Windows!Allowed, Windows!MostWritten, Windows!Workers, Windows!Ends

(* A call is asked for once.                                                *)
LEMMA AskedOnce ==
  ASSUME asked' = asked
  PROVE  /\ Windows!Ends' = Windows!Ends /\ Windows!Workers' = Windows!Workers
         /\ Windows!Messages' = Windows!Messages /\ Windows!Allowed' = Windows!Allowed
         /\ \A s \in Windows!Streams : Windows!MostWritten(s)' = Windows!MostWritten(s)
<1>1. Windows!Ends' = Windows!Ends /\ Windows!Allowed' = Windows!Allowed
  BY DEF Windows!Ends, Windows!Allowed
<1> QED
  BY <1>1 DEF Windows!Workers, Windows!Messages, Windows!MostWritten

(* Whoever sent a message is a worker of the call.                          *)
LEMMA Senders ==
  ASSUME Windows!TypeOK
  PROVE  \A i \in DOMAIN queue : queue[i] \in Windows!Messages /\ queue[i].from \in Windows!Workers
<1> SUFFICES ASSUME NEW i \in DOMAIN queue
             PROVE  queue[i] \in Windows!Messages /\ queue[i].from \in Windows!Workers
  OBVIOUS
<1>1. queue[i] \in Windows!Messages
  BY DEF Windows!TypeOK
<1> QED
  BY <1>1 DEF Windows!Messages

-----------------------------------------------------------------------------
(* The processes of the command move: they write, close, fork and end.      *)
WinProcesses ==
  \/ \E p \in WinPids, s \in Windows!Streams : Windows!Write(p, s)
  \/ \E p \in WinPids, e \in Windows!Ends : Windows!CloseEnd(p, e)
  \/ \E p, c \in WinPids : Windows!Fork(p, c)
  \/ \E p \in WinPids : Windows!Exit(p) \/ Windows!KilledDies(p)

(* What they may change: more is written, ends are closed, and a process    *)
(* that comes to be alive is in the job of a running one.                   *)
ProcessEffect ==
  /\ UNCHANGED <<handle, worker, wGot, queue, wPc, wStatus, wFailure, finished, kept, clock>>
  /\ life' \in [WinPids -> {"none", "suspended", "running", "killed", "dead"}]
  /\ job \subseteq job' /\ job' \subseteq WinPids
  /\ holds' \in [Windows!Ends -> SUBSET WinPids]
  /\ wWritten' \in [Windows!Streams -> Nat]
  /\ \A s \in Windows!Streams :
       /\ wWritten[s] <= wWritten'[s] /\ wWritten'[s] <= Windows!MostWritten(s)
       /\ holds[s] = {} => holds'[s] = {} /\ wWritten'[s] = wWritten[s]
  /\ \A p \in WinPids : Windows!Alive(p)' =>
       \/ Windows!Alive(p)
       \/ \E r \in WinPids : life[r] = "running" /\ (r \in job => p \in job')
  /\ (\A p \in WinPids : life[p] \in {"none", "suspended"}) => UNCHANGED <<life, job>>

(* That is all they do (Write, CloseEnd, Fork, Die).                        *)
LEMMA ProcessesEffect == ASSUME Windows!IInv, WinProcesses PROVE ProcessEffect
<1> USE DEF Windows!IInv, Windows!TypeOK, ProcessEffect, Windows!Ends
<1>1. ASSUME NEW p \in WinPids, NEW s \in Windows!Streams, Windows!Write(p, s)
      PROVE  ProcessEffect
  <2>1. /\ wWritten' = [wWritten EXCEPT ![s] = wWritten[s] + 1]
        /\ wWritten[s] < Windows!MostWritten(s) /\ holds[s] # {}
        /\ wWritten[s] \in Nat /\ Windows!MostWritten(s) \in Nat
    BY <1>1, RequestFacts DEF Windows!Write
  <2>2. wWritten' \in [Windows!Streams -> Nat]
    BY <2>1
  <2>3. \A t \in Windows!Streams :
          /\ wWritten[t] <= wWritten'[t] /\ wWritten'[t] <= Windows!MostWritten(t)
          /\ holds[t] = {} => wWritten'[t] = wWritten[t]
    BY <2>1
  <2> QED
    BY <1>1, <2>2, <2>3
       DEF Windows!Write, Windows!workerVars, Windows!callVars, Windows!Alive
<1>2. ASSUME NEW p \in WinPids, NEW e \in Windows!Ends, Windows!CloseEnd(p, e)
      PROVE  ProcessEffect
  BY <1>2, RequestFacts
     DEF Windows!CloseEnd, Windows!workerVars, Windows!callVars, Windows!Alive
<1>3. ASSUME NEW p \in WinPids, NEW c \in WinPids, Windows!Fork(p, c) PROVE ProcessEffect
  <2>1. /\ life[p] = "running" /\ life[c] = "none" /\ life' = [life EXCEPT ![c] = "running"]
        /\ job' = IF p \in job THEN job \cup {c} ELSE job
        /\ holds' = [e \in Windows!Ends |-> IF p \in holds[e] THEN holds[e] \cup {c} ELSE holds[e]]
        /\ UNCHANGED <<handle, wWritten, Windows!workerVars, Windows!callVars>>
    BY <1>3 DEF Windows!Fork
  <2>2. \A r \in WinPids : Windows!Alive(r)' => Windows!Alive(r) \/ (r = c /\ (p \in job => c \in job'))
    BY <2>1 DEF Windows!Alive
  <2>3. /\ life' \in [WinPids -> {"none", "suspended", "running", "killed", "dead"}]
        /\ holds' \in [Windows!Ends -> SUBSET WinPids]
        /\ \A s \in Windows!Streams : holds[s] = {} => holds'[s] = {}
        /\ job \subseteq job' /\ job' \subseteq WinPids
    BY <2>1
  <2>4. \A r \in WinPids : Windows!Alive(r)' =>
          \/ Windows!Alive(r)
          \/ \E x \in WinPids : life[x] = "running" /\ (x \in job => r \in job')
    BY <2>1, <2>2
  <2>5. ~\A x \in WinPids : life[x] \in {"none", "suspended"}
    BY <2>1
  <2>6. /\ UNCHANGED <<handle, worker, wGot, queue, wPc, wStatus, wFailure, finished, kept, clock>>
        /\ UNCHANGED wWritten /\ wWritten \in [Windows!Streams -> Nat]
        /\ \A s \in Windows!Streams : wWritten[s] <= Windows!MostWritten(s)
    BY <2>1 DEF Windows!workerVars, Windows!callVars
  <2> HIDE DEF Windows!TypeOK, Windows!IInv, Windows!Ends
  <2> QED
    BY <2>3, <2>4, <2>5, <2>6
<1>4. ASSUME NEW p \in WinPids, Windows!Exit(p) \/ Windows!KilledDies(p) PROVE ProcessEffect
  <2>1. /\ life[p] \in {"running", "killed"} /\ life' = [life EXCEPT ![p] = "dead"]
        /\ holds' = [e \in Windows!Ends |-> holds[e] \ {p}]
        /\ UNCHANGED <<job, handle, wWritten, Windows!workerVars, Windows!callVars>>
    BY <1>4 DEF Windows!Exit, Windows!KilledDies, Windows!Die
  <2>2. \A c \in WinPids : Windows!Alive(c)' => Windows!Alive(c)
    BY <2>1 DEF Windows!Alive
  <2>3. /\ life' \in [WinPids -> {"none", "suspended", "running", "killed", "dead"}]
        /\ holds' \in [Windows!Ends -> SUBSET WinPids]
        /\ \A s \in Windows!Streams : holds[s] = {} => holds'[s] = {}
    BY <2>1
  <2> QED
    BY <2>1, <2>2, <2>3, RequestFacts DEF Windows!workerVars, Windows!callVars
<1> QED
  BY <1>1, <1>2, <1>3, <1>4 DEF WinProcesses

(* No process gets out of the job, and none comes to life once the job was  *)
(* killed (Fork).                                                           *)
LEMMA WinProcessInv == ASSUME Windows!IInv, asked' = asked, WinProcesses PROVE Windows!IInv'
<1> USE ProcessesEffect DEF Windows!IInv, ProcessEffect
<1>1. Windows!TypeOK'
  BY AskedOnce, RequestFacts DEF Windows!TypeOK
<1>2. Windows!JobInv'
  <2>1. Windows!OnlyTheChild \/ (\A p \in WinPids : life[p] = "none") => UNCHANGED <<life, job>>
    BY DEF Windows!OnlyTheChild
  <2>2. Windows!Nobody => Windows!Nobody'
    BY DEF Windows!Nobody, Windows!Alive
  <2>3. (\A p \in WinPids : Windows!Alive(p) => p \in job) =>
          \A p \in WinPids : Windows!Alive(p)' => p \in job'
    BY DEF Windows!Alive
  <2> QED
    BY <2>1, <2>2, <2>3 DEF Windows!JobInv, Windows!Done, Windows!OnlyTheChild
<1>3. Windows!MessageInv' /\ Windows!CaptureInv' /\ Windows!CallInv'
  BY DEF Windows!MessageInv, Windows!CaptureInv, Windows!CallInv, Windows!Reported,
         Windows!Complete, Windows!Workers, Windows!Ends, Windows!Streams, Windows!Allowed
<1> QED
  BY <1>1, <1>2, <1>3

-----------------------------------------------------------------------------
(* What workers that had not reported put into the channel (Report, Cancel) *)
(* is true of them, and they report no more.                                *)
LEMMA SentInv ==
  ASSUME Windows!IInv, asked' = asked, UNCHANGED <<holds, wWritten, finished, kept>>,
         wFailure => wFailure',
         NEW hit \in SUBSET Windows!Workers, \A w \in hit : ~Windows!Reported(w),
         NEW extra \in Seq(Windows!Messages), queue' = queue \o extra,
         \A i \in DOMAIN extra : extra[i].from \in hit,
         \A i, j \in DOMAIN extra : extra[i].from = extra[j].from => i = j,
         worker' = [w \in Windows!Workers |-> IF w \in hit THEN "sent" ELSE worker[w]],
         wGot' \in [Windows!Streams -> Nat],
         \A s \in Windows!Streams :
           /\ wGot[s] <= wGot'[s] /\ wGot'[s] <= wWritten[s]
           /\ s \notin hit => wGot'[s] = wGot[s]
           /\ \A i \in DOMAIN extra : extra[i].from = s =>
                /\ extra[i].result # "error" => extra[i].bytes = wGot'[s]
                /\ extra[i].result = "ok" => Windows!Complete(s)'
  PROVE  /\ queue' \in Seq(Windows!Messages)
         /\ \A i, j \in DOMAIN queue' : queue'[i].from = queue'[j].from => i = j
         /\ worker' \in [Windows!Workers -> {"none", "busy", "blocked", "sent", "ended"}]
         /\ \A s \in Windows!Streams : kept[s] <= wGot'[s]
         /\ Windows!MessageInv' /\ Windows!CaptureInv'
<1> USE DEF Windows!IInv
<1>1. /\ queue \in Seq(Windows!Messages) /\ queue' \in Seq(Windows!Messages)
      /\ DOMAIN queue = 1..Len(queue) /\ DOMAIN extra = 1..Len(extra)
      /\ DOMAIN queue' = 1..(Len(queue) + Len(extra))
      /\ Len(queue) \in Nat /\ Len(extra) \in Nat
      /\ \A i \in DOMAIN queue' :
           queue'[i] = IF i <= Len(queue) THEN queue[i] ELSE extra[i - Len(queue)]
  <2>1. queue \in Seq(Windows!Messages)
    BY DEF Windows!TypeOK
  <2>2. /\ queue' \in Seq(Windows!Messages) /\ Len(queue') = Len(queue) + Len(extra)
        /\ \A i \in 1..(Len(queue) + Len(extra)) :
             queue'[i] = IF i <= Len(queue) THEN queue[i] ELSE extra[i - Len(queue)]
    BY <2>1, ConcatProperties
  <2>3. /\ DOMAIN queue = 1..Len(queue) /\ DOMAIN extra = 1..Len(extra)
        /\ DOMAIN queue' = 1..Len(queue') /\ Len(queue) \in Nat /\ Len(extra) \in Nat
    BY <2>1, <2>2
  <2> QED
    BY <2>1, <2>2, <2>3
<1>2. \A w \in Windows!Workers : /\ Windows!Reported(w) => Windows!Reported(w)' /\ w \notin hit
                                 /\ w \in hit => Windows!Reported(w)'
                                 /\ ~Windows!Reported(w)' => ~Windows!Reported(w)
  BY DEF Windows!Reported
<1>3. \A i \in DOMAIN queue : queue[i].from \in Windows!Workers \ hit
  BY <1>2, Senders DEF Windows!MessageInv
<1>4. \A i, j \in DOMAIN queue' : queue'[i].from = queue'[j].from => i = j
  <2> SUFFICES ASSUME NEW i \in DOMAIN queue', NEW j \in DOMAIN queue',
                      queue'[i].from = queue'[j].from
               PROVE  i = j
    OBVIOUS
  <2>1. CASE i <= Len(queue) /\ j <= Len(queue)
    BY <1>1, <2>1 DEF Windows!TypeOK
  <2>2. CASE i > Len(queue) /\ j > Len(queue)
    <3>1. i - Len(queue) \in DOMAIN extra /\ j - Len(queue) \in DOMAIN extra
      BY <1>1, <2>2
    <3>2. queue'[i] = extra[i - Len(queue)] /\ queue'[j] = extra[j - Len(queue)]
      BY <1>1, <2>2
    <3>3. i - Len(queue) = j - Len(queue)
      BY <3>1, <3>2
    <3> QED
      BY <1>1, <3>3
  <2>3. CASE i <= Len(queue) /\ j > Len(queue)
    <3>1. i \in DOMAIN queue /\ j - Len(queue) \in DOMAIN extra
      BY <1>1, <2>3
    <3> QED
      BY <1>1, <1>3, <2>3, <3>1
  <2>4. CASE i > Len(queue) /\ j <= Len(queue)
    <3>1. j \in DOMAIN queue /\ i - Len(queue) \in DOMAIN extra
      BY <1>1, <2>4
    <3> QED
      BY <1>1, <1>3, <2>4, <3>1
  <2> QED
    BY <1>1, <2>1, <2>2, <2>3, <2>4
<1>5. \A s \in Windows!Streams : Windows!Reported(s) => wGot'[s] = wGot[s]
  BY <1>2, RequestFacts
<1>6. \A s \in Windows!Streams : Windows!Reported(s) /\ Windows!Complete(s) => Windows!Complete(s)'
  BY <1>5, AskedOnce DEF Windows!Complete
<1>7. Windows!MessageInv'
  <2> SUFFICES ASSUME NEW i \in DOMAIN queue'
               PROVE /\ worker'[queue'[i].from] \in {"sent", "ended"}
                     /\ \A s \in Windows!Streams : queue'[i].from = s =>
                          /\ queue'[i].result # "error" => queue'[i].bytes = wGot'[s]
                          /\ queue'[i].result = "ok" => Windows!Complete(s)'
    BY DEF Windows!MessageInv, Windows!Reported
  <2>1. CASE i <= Len(queue)
    <3>1. i \in DOMAIN queue /\ queue'[i] = queue[i]
      BY <1>1, <2>1
    <3>2. Windows!Reported(queue[i].from) /\ queue[i].from \in Windows!Workers
      BY <1>3, <3>1 DEF Windows!MessageInv
    <3> QED
      BY <1>2, <1>5, <1>6, <3>1, <3>2 DEF Windows!MessageInv, Windows!Reported
  <2>2. CASE i > Len(queue)
    <3>1. i - Len(queue) \in DOMAIN extra /\ queue'[i] = extra[i - Len(queue)]
      BY <1>1, <2>2
    <3>2. worker'[queue'[i].from] = "sent"
      BY <3>1
    <3> QED
      BY <3>1, <3>2
  <2> QED
    BY <1>1, <2>1, <2>2
<1>8. Windows!CaptureInv'
  <2>1. \A s \in Windows!Streams : ~Windows!Reported(s)' => wGot'[s] <= Windows!Allowed'[s]
    BY <1>2, AskedOnce, RequestFacts DEF Windows!CaptureInv
  <2>2. \A w \in finished : Windows!Reported(w)'
    BY <1>2 DEF Windows!CaptureInv, Windows!TypeOK
  <2>3. \A s \in Windows!Streams :
          s \in finished /\ ~wFailure' => Windows!Complete(s)' /\ kept[s] = wGot'[s]
    BY <1>5, <1>6 DEF Windows!CaptureInv
  <2> QED
    BY <2>1, <2>2, <2>3, AskedOnce DEF Windows!CaptureInv
<1>9. \A s \in Windows!Streams : kept[s] <= wGot'[s]
  BY DEF Windows!TypeOK
<1> QED
  BY <1>1, <1>4, <1>7, <1>8, <1>9 DEF Windows!TypeOK

(* One worker reports, alone (Report).                                      *)
LEMMA ReportInv ==
  ASSUME Windows!IInv, asked' = asked, UNCHANGED <<Windows!kernelVars, Windows!callVars>>,
         NEW w \in Windows!Workers, worker[w] = "blocked",
         NEW r \in Windows!Results, NEW n \in Nat, Windows!Report(w, r, n),
         wGot' \in [Windows!Streams -> Nat],
         \A s \in Windows!Streams :
           /\ wGot[s] <= wGot'[s] /\ wGot'[s] <= wWritten[s]
           /\ s # w => wGot'[s] = wGot[s]
           /\ s = w => /\ r # "error" => n = wGot'[s]
                       /\ r = "ok" => Windows!Complete(s)'
  PROVE  Windows!IInv'
<1> USE DEF Windows!IInv
<1> DEFINE m == [from |-> w, result |-> r, bytes |-> n]
<1> DEFINE extra == <<m>>
<1>1. m \in Windows!Messages
  BY DEF Windows!Messages
<1>2. /\ extra \in Seq(Windows!Messages) /\ DOMAIN extra = {1} /\ extra[1] = m
      /\ queue' = queue \o extra
  BY <1>1, AppendIsConcat DEF Windows!Report, Windows!TypeOK
<1>3. worker' = [v \in Windows!Workers |-> IF v \in {w} THEN "sent" ELSE worker[v]]
  BY DEF Windows!Report, Windows!TypeOK
<1>4. ~Windows!Reported(w)
  BY DEF Windows!Reported
<1>5. UNCHANGED <<holds, wWritten, finished, kept, life, job, handle, wPc, wStatus, wFailure, clock>>
  BY DEF Windows!kernelVars, Windows!callVars
<1> HIDE DEF extra
<1>6. /\ queue' \in Seq(Windows!Messages)
      /\ \A i, j \in DOMAIN queue' : queue'[i].from = queue'[j].from => i = j
      /\ worker' \in [Windows!Workers -> {"none", "busy", "blocked", "sent", "ended"}]
      /\ \A s \in Windows!Streams : kept[s] <= wGot'[s]
      /\ Windows!MessageInv' /\ Windows!CaptureInv'
  <2>1. {w} \in SUBSET Windows!Workers /\ \A v \in {w} : ~Windows!Reported(v)
    BY <1>4
  <2>2. /\ \A i \in DOMAIN extra : extra[i].from = w /\ extra[i].result = r /\ extra[i].bytes = n
        /\ \A i, j \in DOMAIN extra : extra[i].from = extra[j].from => i = j
    BY <1>2
  <2>3. \A s \in Windows!Streams :
          /\ wGot[s] <= wGot'[s] /\ wGot'[s] <= wWritten[s]
          /\ s \notin {w} => wGot'[s] = wGot[s]
          /\ \A i \in DOMAIN extra : extra[i].from = s =>
               /\ extra[i].result # "error" => extra[i].bytes = wGot'[s]
               /\ extra[i].result = "ok" => Windows!Complete(s)'
    BY <2>2
  <2>4. \A i \in DOMAIN extra : extra[i].from \in {w}
    BY <2>2
  <2>5. wFailure => wFailure'
    BY <1>5
  <2> HIDE DEF m
  <2> QED
    BY <1>2, <1>3, <1>5, <2>1, <2>2, <2>3, <2>4, <2>5, SentInv
<1>7. Windows!TypeOK'
  BY <1>5, <1>6, AskedOnce DEF Windows!TypeOK
<1>8. Windows!JobInv'
  BY <1>5 DEF Windows!JobInv, Windows!OnlyTheChild, Windows!Nobody, Windows!Alive
<1>9. Windows!CallInv'
  BY <1>5, AskedOnce DEF Windows!CallInv
<1> QED
  BY <1>6, <1>7, <1>8, <1>9

(* A worker goes on: it enters a call, reads within its limit, or ends.     *)
LEMMA WorkerMoves ==
  ASSUME Windows!IInv, asked' = asked, UNCHANGED <<Windows!kernelVars, Windows!callVars, queue>>,
         NEW w \in Windows!Workers, NEW to \in {"busy", "blocked", "ended"},
         worker[w] # "none", Windows!Reported(w) <=> to = "ended",
         worker' = [worker EXCEPT ![w] = to],
         wGot' \in [Windows!Streams -> Nat],
         \A s \in Windows!Streams :
           /\ wGot[s] <= wGot'[s] /\ wGot'[s] <= wWritten[s]
           /\ wGot'[s] # wGot[s] => ~Windows!Reported(s) /\ wGot'[s] <= Windows!Allowed[s]
  PROVE  Windows!IInv'
<1> USE DEF Windows!IInv
<1>1. UNCHANGED <<holds, wWritten, finished, kept, life, job, handle, wPc, wStatus, wFailure,
                  clock, queue>>
  BY DEF Windows!kernelVars, Windows!callVars
<1>2. \A v \in Windows!Workers : Windows!Reported(v)' <=> Windows!Reported(v)
  BY DEF Windows!Reported, Windows!TypeOK
<1>3. \A s \in Windows!Streams : Windows!Reported(s) /\ Windows!Complete(s) =>
                                   wGot'[s] = wGot[s] /\ Windows!Complete(s)'
  BY <1>1, AskedOnce DEF Windows!Complete
<1>4. \A i \in DOMAIN queue : queue[i].from \in Windows!Workers
  BY Senders
<1>5. Windows!TypeOK'
  <2>1. worker' \in [Windows!Workers -> {"none", "busy", "blocked", "sent", "ended"}]
    BY DEF Windows!TypeOK
  <2>2. \A s \in Windows!Streams : kept[s] <= wGot'[s]
    BY DEF Windows!TypeOK
  <2> QED
    BY <1>1, <2>1, <2>2, AskedOnce DEF Windows!TypeOK
<1>6. Windows!MessageInv'
  <2>1. \A i \in DOMAIN queue : worker'[queue[i].from] \in {"sent", "ended"}
    BY <1>2, <1>4 DEF Windows!MessageInv, Windows!Reported
  <2>2. \A s \in Windows!Streams : Windows!Reported(s) => wGot'[s] = wGot[s]
    OBVIOUS
  <2> QED
    BY <1>1, <1>3, <2>1, <2>2 DEF Windows!MessageInv, Windows!Reported
<1>7. Windows!CaptureInv'
  BY <1>1, <1>2, <1>3, AskedOnce, RequestFacts DEF Windows!CaptureInv, Windows!TypeOK
<1>8. Windows!JobInv'
  BY <1>1 DEF Windows!JobInv, Windows!OnlyTheChild, Windows!Nobody, Windows!Alive
<1>9. Windows!CallInv'
  BY <1>1, AskedOnce DEF Windows!CallInv
<1> QED
  BY <1>5, <1>6, <1>7, <1>8, <1>9

(* The steps of the worker threads (spawn_reader, spawn_writer).            *)
WinWorkers ==
  \/ \E w \in Windows!Workers : Windows!WorkerStep(w) \/ Windows!IoFails(w)
  \/ Windows!WriteTaken

(* A worker reports its output complete only at the end of it, and an       *)
(* output beyond its limit as exceeded (read_bounded_pipe).                 *)
LEMMA WinWorkerInv == ASSUME Windows!IInv, asked' = asked, WinWorkers PROVE Windows!IInv'
<1> USE DEF Windows!IInv
<1>1. \A s \in Windows!Streams : wGot[s] \in Nat /\ wWritten[s] \in Nat /\ wGot[s] <= wWritten[s]
  BY DEF Windows!TypeOK
<1>2. wGot \in [Windows!Streams -> Nat]
  BY DEF Windows!TypeOK
<1>3. "stdin" \notin Windows!Streams /\ (asked.input => "stdin" \in Windows!Workers)
  BY DEF Windows!Streams, Windows!Workers, Windows!Ends
<1>4. Windows!Results = {"ok", "exceeded", "error"} /\ 0 \in Nat
  BY DEF Windows!Results
<1>5. ASSUME NEW w \in Windows!Workers, Windows!EnterCall(w) PROVE Windows!IInv'
  <2>1. /\ worker[w] = "busy" /\ worker' = [worker EXCEPT ![w] = "blocked"] /\ wGot' = wGot
        /\ UNCHANGED <<Windows!kernelVars, Windows!callVars, queue>>
    BY <1>5 DEF Windows!EnterCall
  <2>2. /\ (Windows!Reported(w) <=> "blocked" = "ended") /\ worker[w] # "none"
        /\ wGot' \in [Windows!Streams -> Nat]
        /\ \A s \in Windows!Streams :
             wGot[s] <= wGot'[s] /\ wGot'[s] <= wWritten[s] /\ wGot'[s] = wGot[s]
    BY <1>1, <1>2, <2>1 DEF Windows!Reported
  <2> QED
    BY <2>1, <2>2, WorkerMoves
<1>6. ASSUME NEW w \in Windows!Workers, Windows!WorkerEnds(w) PROVE Windows!IInv'
  <2>1. /\ worker[w] = "sent" /\ worker' = [worker EXCEPT ![w] = "ended"] /\ wGot' = wGot
        /\ UNCHANGED <<Windows!kernelVars, Windows!callVars, queue>>
    BY <1>6 DEF Windows!WorkerEnds
  <2>2. /\ Windows!Reported(w) /\ worker[w] # "none"
        /\ wGot' \in [Windows!Streams -> Nat]
        /\ \A s \in Windows!Streams :
             wGot[s] <= wGot'[s] /\ wGot'[s] <= wWritten[s] /\ wGot'[s] = wGot[s]
    BY <1>1, <1>2, <2>1 DEF Windows!Reported
  <2> QED
    BY <2>1, <2>2, WorkerMoves
<1>7. ASSUME NEW w \in Windows!Workers, Windows!IoFails(w) PROVE Windows!IInv'
  BY <1>1, <1>2, <1>4, <1>7, ReportInv DEF Windows!IoFails
<1>8. ASSUME Windows!WriteTaken \/ Windows!WriteRefused PROVE Windows!IInv'
  BY <1>1, <1>2, <1>3, <1>4, <1>8, ReportInv DEF Windows!WriteTaken, Windows!WriteRefused
<1>9. ASSUME NEW s \in Windows!Streams, Windows!ReadEnds(s) PROVE Windows!IInv'
  <2>1. s \in Windows!Workers /\ worker[s] = "blocked" /\ wGot' = wGot
        /\ UNCHANGED <<Windows!kernelVars, Windows!callVars>> /\ Windows!Report(s, "ok", wGot[s])
    BY <1>9, RequestFacts DEF Windows!ReadEnds
  <2>2. Windows!Complete(s)'
    <3>1. holds[s] = {} /\ wGot[s] = wWritten[s] /\ wGot[s] <= Windows!Allowed[s]
      BY <1>9, <2>1 DEF Windows!ReadEnds, Windows!CaptureInv, Windows!Reported
    <3> QED
      BY <2>1, <3>1, AskedOnce DEF Windows!Complete, Windows!kernelVars
  <2> QED
    BY <1>1, <1>2, <1>4, <2>1, <2>2, ReportInv
<1>10. ASSUME NEW s \in Windows!Streams, Windows!ReadReturns(s) PROVE Windows!IInv'
  <2> DEFINE n == IF wWritten[s] > Windows!Allowed[s] THEN Windows!Allowed[s] + 1 ELSE wWritten[s]
  <2>1. /\ s \in Windows!Workers /\ worker[s] = "blocked" /\ wGot' = [wGot EXCEPT ![s] = n]
        /\ UNCHANGED <<Windows!kernelVars, Windows!callVars>> /\ wGot[s] < wWritten[s]
        /\ IF n > Windows!Allowed[s] THEN Windows!Report(s, "exceeded", n)
           ELSE worker' = [worker EXCEPT ![s] = "busy"] /\ UNCHANGED queue
    BY <1>10, RequestFacts DEF Windows!ReadReturns
  <2>2. ~Windows!Reported(s) /\ wGot[s] <= Windows!Allowed[s]
    BY <2>1 DEF Windows!Reported, Windows!CaptureInv
  <2>3. n \in Nat /\ wGot[s] <= n /\ n <= wWritten[s]
    BY <1>1, <2>1, <2>2, RequestFacts
  <2> HIDE DEF n
  <2>4. /\ wGot' \in [Windows!Streams -> Nat] /\ wGot'[s] = n
        /\ \A t \in Windows!Streams : /\ wGot[t] <= wGot'[t] /\ wGot'[t] <= wWritten[t]
                                      /\ t # s => wGot'[t] = wGot[t]
    BY <1>1, <1>2, <2>1, <2>3
  <2>5. CASE n > Windows!Allowed[s]
    BY <1>4, <2>1, <2>3, <2>4, <2>5, ReportInv
  <2>6. CASE ~(n > Windows!Allowed[s])
    <3>1. wGot'[s] <= Windows!Allowed[s]
      BY <2>3, <2>4, <2>6, RequestFacts
    <3>2. \A t \in Windows!Streams :
            wGot'[t] # wGot[t] => ~Windows!Reported(t) /\ wGot'[t] <= Windows!Allowed[t]
      BY <2>2, <2>4, <3>1
    <3> QED
      BY <2>1, <2>2, <2>4, <2>6, <3>2, WorkerMoves
  <2> QED
    BY <2>5, <2>6
<1> QED
  BY <1>5, <1>6, <1>7, <1>8, <1>9, <1>10 DEF WinWorkers, Windows!WorkerStep

-----------------------------------------------------------------------------
(* A cancelled call is an error its worker reports (cancel_worker).         *)
LEMMA CancelInv ==
  ASSUME Windows!IInv, asked' = asked, UNCHANGED <<holds, wWritten, finished, kept, wGot>>,
         wFailure => wFailure', NEW S \in SUBSET Windows!Workers, Windows!Cancel(S)
  PROVE  /\ queue' \in Seq(Windows!Messages)
         /\ \A i, j \in DOMAIN queue' : queue'[i].from = queue'[j].from => i = j
         /\ worker' \in [Windows!Workers -> {"none", "busy", "blocked", "sent", "ended"}]
         /\ Windows!MessageInv' /\ Windows!CaptureInv'
<1> USE DEF Windows!IInv
<1> DEFINE hit == Windows!Cancelled(S)
<1>1. hit \in SUBSET Windows!Workers /\ \A w \in hit : ~Windows!Reported(w)
  BY DEF Windows!Reported, Windows!Cancelled
<1>2. PICK order \in Windows!Orders(hit) : queue' = queue \o Windows!Errors(order)
  BY DEF Windows!Cancel
<1>3. worker' = [w \in Windows!Workers |-> IF w \in hit THEN "sent" ELSE worker[w]]
  BY DEF Windows!Cancel
<1> HIDE DEF hit
<1> DEFINE extra == Windows!Errors(order)
<1>4. PICK n \in 0..3 : order \in [1..n -> hit]
  BY DEF Windows!Orders
<1>5. DOMAIN order = 1..n /\ \A i, j \in DOMAIN order : order[i] = order[j] => i = j
  BY <1>4 DEF Windows!Orders
<1>6. \A i \in DOMAIN order :
        [from |-> order[i], result |-> "error", bytes |-> 0] \in Windows!Messages
  BY <1>1, <1>4, <1>5 DEF Windows!Messages, Windows!Results
<1>7. extra \in Seq(Windows!Messages)
  <2>1. extra \in [1..n -> Windows!Messages] /\ n \in Nat
    BY <1>5, <1>6 DEF Windows!Errors
  <2> HIDE DEF extra
  <2> QED
    BY <2>1
<1>8. /\ \A i \in DOMAIN extra : extra[i].from \in hit /\ extra[i].result = "error"
      /\ \A i, j \in DOMAIN extra : extra[i].from = extra[j].from => i = j
      /\ queue' = queue \o extra
  BY <1>2, <1>4, <1>5 DEF Windows!Errors
<1> HIDE DEF extra
<1>9. /\ wGot' \in [Windows!Streams -> Nat]
      /\ \A s \in Windows!Streams :
           /\ wGot[s] <= wGot'[s] /\ wGot'[s] <= wWritten[s] /\ wGot'[s] = wGot[s]
           /\ \A i \in DOMAIN extra : extra[i].from = s =>
                /\ extra[i].result # "error" => extra[i].bytes = wGot'[s]
                /\ extra[i].result = "ok" => Windows!Complete(s)'
  BY <1>8 DEF Windows!TypeOK
<1> QED
  BY <1>1, <1>3, <1>7, <1>8, <1>9, SentInv

(* The calling thread takes the first message and records it (Receive,      *)
(* Drain): what is complete stays so, and an error is a failure.            *)
LEMMA RecordInv ==
  ASSUME Windows!IInv, asked' = asked, queue # <<>>, Windows!Record(Head(queue)),
         queue' = Tail(queue), UNCHANGED <<Windows!kernelVars, worker, wGot, wStatus, clock>>,
         wPc' \in Windows!Steps
  PROVE  /\ Windows!TypeOK' /\ Windows!MessageInv' /\ Windows!CaptureInv'
         /\ wFailure => wFailure'
<1> USE DEF Windows!IInv
<1> DEFINE m == Head(queue)
<1>1. UNCHANGED <<holds, wWritten, life, job, handle>>
  BY DEF Windows!kernelVars
<1>2. /\ queue \in Seq(Windows!Messages) /\ queue' \in Seq(Windows!Messages)
      /\ DOMAIN queue = 1..Len(queue) /\ Len(queue) \in Nat
      /\ DOMAIN queue' = 1..(Len(queue) - 1)
      /\ \A i \in DOMAIN queue' : queue'[i] = queue[i + 1]
      /\ m = queue[1] /\ 1 \in DOMAIN queue
  <2>1. queue \in Seq(Windows!Messages)
    BY DEF Windows!TypeOK
  <2> QED
    BY <2>1, HeadTailProperties
<1>3. m \in Windows!Messages /\ m.from \in Windows!Workers
  BY <1>2, Senders
<1>4. /\ Windows!Reported(m.from)
      /\ \A s \in Windows!Streams : m.from = s =>
           /\ m.result # "error" => m.bytes = wGot[s]
           /\ m.result = "ok" => Windows!Complete(s)
  BY <1>2 DEF Windows!MessageInv
<1>5. /\ finished' = finished \cup {m.from}
      /\ kept' = IF m.from \in Windows!Streams /\ m.result # "error"
                 THEN [kept EXCEPT ![m.from] = m.bytes] ELSE kept
      /\ wFailure' = (wFailure \/ m.result # "ok")
  BY DEF Windows!Record
<1> HIDE DEF m
<1>6. m.bytes \in Nat
  BY <1>3 DEF Windows!Messages
<1>7. kept' \in [Windows!Streams -> Nat] /\ \A s \in Windows!Streams : kept'[s] <= wGot[s]
  BY <1>4, <1>5, <1>6 DEF Windows!TypeOK
<1>8. \A i, j \in DOMAIN queue' : queue'[i].from = queue'[j].from => i = j
  <2> SUFFICES ASSUME NEW i \in DOMAIN queue', NEW j \in DOMAIN queue',
                      queue'[i].from = queue'[j].from
               PROVE  i = j
    OBVIOUS
  <2>1. i + 1 \in DOMAIN queue /\ j + 1 \in DOMAIN queue
    BY <1>2
  <2>2. queue[i + 1].from = queue[j + 1].from
    BY <1>2
  <2>3. i + 1 = j + 1
    BY <2>1, <2>2 DEF Windows!TypeOK
  <2> QED
    BY <1>2, <2>3
<1>9. Windows!TypeOK'
  <2>1. wFailure' \in BOOLEAN /\ finished' \in SUBSET Windows!Workers
    BY <1>3, <1>5 DEF Windows!TypeOK
  <2> QED
    BY <1>1, <1>2, <1>7, <1>8, <2>1, AskedOnce DEF Windows!TypeOK
<1>10. \A s \in Windows!Streams : Windows!Complete(s)' <=> Windows!Complete(s)
  BY <1>1, AskedOnce DEF Windows!Complete
<1>11. Windows!MessageInv'
  <2>1. \A i \in DOMAIN queue' : i + 1 \in DOMAIN queue /\ queue'[i] = queue[i + 1]
    BY <1>2
  <2> QED
    BY <1>10, <2>1 DEF Windows!MessageInv, Windows!Reported
<1>12. Windows!CaptureInv'
  <2>1. \A w \in finished' : worker[w] \in {"sent", "ended"}
    BY <1>4, <1>5 DEF Windows!CaptureInv, Windows!Reported
  <2>2. ASSUME NEW s \in Windows!Streams, s \in finished', ~wFailure'
        PROVE  Windows!Complete(s) /\ kept'[s] = wGot[s]
    <3>1. CASE m.from = s
      BY <1>4, <1>5, <2>2, <3>1 DEF Windows!TypeOK
    <3>2. CASE m.from # s
      BY <1>5, <2>2, <3>2 DEF Windows!CaptureInv, Windows!TypeOK
    <3> QED
      BY <3>1, <3>2
  <2>3. \A s \in Windows!Streams : ~Windows!Reported(s)' => wGot'[s] <= Windows!Allowed'[s]
    BY AskedOnce DEF Windows!CaptureInv, Windows!Reported
  <2> QED
    BY <1>10, <2>1, <2>2, <2>3 DEF Windows!CaptureInv, Windows!Reported
<1> QED
  BY <1>5, <1>9, <1>11, <1>12

-----------------------------------------------------------------------------
(* Steps of the calling thread that leave the channel and the captures      *)
(* alone keep what is known of them.                                        *)
LEMMA CallFrame ==
  ASSUME Windows!IInv, asked' = asked,
         UNCHANGED <<holds, wWritten, worker, queue, wGot, finished, kept>>,
         wFailure => wFailure', wFailure' \in BOOLEAN, wStatus' \in BOOLEAN,
         life' \in [WinPids -> {"none", "suspended", "running", "killed", "dead"}],
         job' \in SUBSET WinPids, handle' \in {"none", "open", "closed"},
         wPc' \in Windows!Steps, clock' \in {"off", "on", "over"}
  PROVE  Windows!TypeOK' /\ Windows!MessageInv' /\ Windows!CaptureInv'
<1> USE DEF Windows!IInv
<1>1. Windows!TypeOK'
  BY AskedOnce DEF Windows!TypeOK
<1>2. \A s \in Windows!Streams : Windows!Complete(s)' <=> Windows!Complete(s)
  BY AskedOnce DEF Windows!Complete
<1>3. Windows!MessageInv'
  BY <1>2 DEF Windows!MessageInv, Windows!Reported
<1>4. Windows!CaptureInv'
  BY <1>2, AskedOnce DEF Windows!CaptureInv, Windows!Reported
<1> QED
  BY <1>1, <1>3, <1>4

(* Who is told to die is not alive (TerminateProcess), and after the job is *)
(* killed nobody of it is (TerminateJobObject, KILL_ON_JOB_CLOSE).          *)
LEMMA Condemned ==
  ASSUME Windows!TypeOK, NEW S \in SUBSET WinPids, Windows!Condemn(S)
  PROVE  /\ life' \in [WinPids -> {"none", "suspended", "running", "killed", "dead"}]
         /\ \A p \in WinPids : Windows!Alive(p)' => Windows!Alive(p) /\ p \notin S
  BY DEF Windows!TypeOK, Windows!Condemn, Windows!Alive

(* Before the resume (Job::create, Job::assign, the workers' start).        *)
LEMMA SetUpInv ==
  ASSUME Windows!IInv, asked' = asked,
         \/ Windows!CreateJob \/ Windows!Assign \/ Windows!WaitKilled
  PROVE  Windows!IInv'
<1> USE WinAssumption DEF Windows!IInv
<1>1. /\ UNCHANGED <<holds, wWritten, worker, queue, wGot, finished, kept, wFailure, wStatus, clock>>
      /\ life' \in [WinPids -> {"none", "suspended", "running", "killed", "dead"}]
      /\ job' \in SUBSET WinPids /\ handle' \in {"none", "open", "closed"}
      /\ wPc' \in Windows!Steps
  BY DEF Windows!CreateJob, Windows!Assign, Windows!WaitKilled, Windows!Go, Windows!Condemn,
         Windows!TypeOK, Windows!Steps, Windows!workerVars
<1>2. Windows!TypeOK' /\ Windows!MessageInv' /\ Windows!CaptureInv'
  BY <1>1, CallFrame DEF Windows!TypeOK
<1>3. Windows!CallInv'
  BY <1>1, AskedOnce DEF Windows!CreateJob, Windows!Assign, Windows!WaitKilled, Windows!Go,
                         Windows!CallInv
<1>4. Windows!JobInv'
  <2>1. CASE Windows!CreateJob
    BY <2>1 DEF Windows!CreateJob, Windows!Go, Windows!JobInv, Windows!Done, Windows!Nobody, Windows!Alive
  <2>2. CASE Windows!WaitKilled
    BY <2>2 DEF Windows!WaitKilled, Windows!Go, Windows!JobInv, Windows!Done, Windows!Nobody, Windows!Alive
  <2>3. CASE Windows!Assign
    <3>1. Windows!OnlyTheChild /\ wPc = "assign"
      BY <2>3 DEF Windows!Assign, Windows!JobInv
    <3>2. CASE job' = {WinChild} /\ Windows!Go("start") /\ UNCHANGED life
      BY <3>1, <3>2 DEF Windows!Go, Windows!JobInv, Windows!Done, Windows!OnlyTheChild
    <3>3. CASE Windows!Condemn({WinChild}) /\ Windows!Go("waitKilled")
      <4>1. Windows!Nobody'
        BY <3>1, <3>3 DEF Windows!Condemn, Windows!OnlyTheChild, Windows!Nobody, Windows!Alive, Windows!TypeOK
      <4> QED
        BY <3>3, <4>1 DEF Windows!Go, Windows!JobInv, Windows!Done
    <3> QED
      BY <2>3, <3>2, <3>3 DEF Windows!Assign
  <2> QED
    BY <2>1, <2>2, <2>3
<1> QED
  BY <1>2, <1>3, <1>4

(* The child is started with the other ends of its pipes, and the workers   *)
(* with nothing yet reported (Command::spawn, spawn_reader, spawn_writer).  *)
LEMMA StartInv ==
  ASSUME Windows!IInv, asked' = asked, Windows!Spawn \/ Windows!StartWorkers
  PROVE  Windows!IInv'
<1> USE WinAssumption DEF Windows!IInv
<1>1. /\ wPc \in {"spawn", "start"} /\ wPc' \in {"assign", "err", "resume"}
      /\ UNCHANGED <<job, wWritten, queue, wGot, finished, kept, wFailure, wStatus, clock>>
      /\ queue = <<>> /\ finished = {} /\ \A w \in Windows!Workers : worker[w] = "none"
  BY DEF Windows!Spawn, Windows!StartWorkers, Windows!Go, Windows!CallInv, Windows!workerVars,
         Windows!kernelVars
<1>2. /\ life' \in [WinPids -> {"none", "suspended", "running", "killed", "dead"}]
      /\ holds' \in [Windows!Ends -> SUBSET WinPids]
      /\ handle' \in {"none", "open", "closed"}
      /\ worker' \in [Windows!Workers -> {"none", "busy", "blocked", "sent", "ended"}]
  BY DEF Windows!Spawn, Windows!StartWorkers, Windows!TypeOK, Windows!workerVars,
         Windows!kernelVars
<1>3. Windows!TypeOK'
  BY <1>1, <1>2, AskedOnce DEF Windows!TypeOK, Windows!Steps
<1>4. \A s \in Windows!Streams : wGot[s] <= Windows!Allowed[s]
  BY <1>1, RequestFacts DEF Windows!CaptureInv, Windows!Reported
<1>5. Windows!MessageInv' /\ Windows!CaptureInv'
  BY <1>1, <1>4, AskedOnce DEF Windows!MessageInv, Windows!CaptureInv
<1>6. Windows!CallInv'
  <2>1. wPc' = "assign" => worker' = worker
    BY DEF Windows!Spawn, Windows!StartWorkers, Windows!Go, Windows!workerVars
  <2> QED
    BY <1>1, <2>1, AskedOnce DEF Windows!CallInv
<1>7. Windows!JobInv'
  <2>1. CASE Windows!StartWorkers
    BY <2>1 DEF Windows!StartWorkers, Windows!Go, Windows!kernelVars, Windows!JobInv,
                Windows!OnlyTheChild, Windows!Done
  <2>2. CASE Windows!Spawn
    <3>1. \A p \in WinPids : life[p] = "none"
      BY <2>2 DEF Windows!Spawn, Windows!JobInv
    <3>2. wPc' = "assign" => Windows!OnlyTheChild'
      BY <2>2, <3>1 DEF Windows!Spawn, Windows!Go, Windows!OnlyTheChild, Windows!TypeOK
    <3>3. wPc' = "err" => Windows!Nobody'
      BY <2>2, <3>1 DEF Windows!Spawn, Windows!Go, Windows!Nobody, Windows!Alive
    <3> QED
      BY <1>1, <2>2, <3>2, <3>3 DEF Windows!Spawn, Windows!Go, Windows!JobInv, Windows!Done
  <2> QED
    BY <2>1, <2>2
<1> QED
  BY <1>3, <1>5, <1>6, <1>7

(* A child that cannot be resumed dies suspended (resume_primary_thread).   *)
LEMMA ResumeInv == ASSUME Windows!IInv, asked' = asked, Windows!Resume PROVE Windows!IInv'
<1> USE WinAssumption DEF Windows!IInv
<1>1. Windows!OnlyTheChild /\ job = {WinChild} /\ wPc = "resume"
  BY DEF Windows!Resume, Windows!JobInv
<1>2. UNCHANGED <<job, holds, wWritten, wGot, wStatus, finished, kept>>
  BY DEF Windows!Resume
<1>3. CASE /\ life' = [life EXCEPT ![WinChild] = "running"] /\ Windows!Go("receive")
           /\ UNCHANGED <<handle, wFailure, clock, worker, queue>>
  <2>1. life' \in [WinPids -> {"none", "suspended", "running", "killed", "dead"}]
    BY <1>3 DEF Windows!TypeOK
  <2>2. Windows!TypeOK' /\ Windows!MessageInv' /\ Windows!CaptureInv'
    BY <1>2, <1>3, <2>1, CallFrame DEF Windows!TypeOK, Windows!Go, Windows!Steps
  <2>3. \A p \in WinPids : Windows!Alive(p)' => p \in job
    BY <1>1, <1>3 DEF Windows!OnlyTheChild, Windows!Alive, Windows!TypeOK
  <2>4. Windows!JobInv' /\ Windows!CallInv'
    BY <1>2, <1>3, <2>3 DEF Windows!Go, Windows!JobInv, Windows!CallInv, Windows!Done
  <2> QED
    BY <2>2, <2>4
<1>4. CASE /\ Windows!KillJob /\ Windows!Cancel(Windows!Workers) /\ handle' = "closed"
           /\ wFailure' = TRUE /\ clock' = "on" /\ Windows!Go("notStarted")
  <2>1. /\ life' \in [WinPids -> {"none", "suspended", "running", "killed", "dead"}]
        /\ \A p \in WinPids : Windows!Alive(p)' => Windows!Alive(p) /\ p \notin job
    BY <1>4, Condemned DEF Windows!KillJob, Windows!TypeOK
  <2>2. Windows!Nobody'
    BY <1>1, <2>1 DEF Windows!Nobody, Windows!OnlyTheChild, Windows!Alive
  <2>3. /\ queue' \in Seq(Windows!Messages)
        /\ \A i, j \in DOMAIN queue' : queue'[i].from = queue'[j].from => i = j
        /\ worker' \in [Windows!Workers -> {"none", "busy", "blocked", "sent", "ended"}]
        /\ Windows!MessageInv' /\ Windows!CaptureInv'
    <3>1. Windows!Workers \in SUBSET Windows!Workers
      OBVIOUS
    <3> QED
      BY <1>2, <1>4, <3>1, CancelInv
  <2>4. Windows!TypeOK'
    BY <1>2, <1>4, <2>1, <2>3, AskedOnce DEF Windows!TypeOK, Windows!Go, Windows!Steps
  <2>5. Windows!JobInv' /\ Windows!CallInv'
    BY <1>4, <2>2 DEF Windows!Go, Windows!JobInv, Windows!CallInv, Windows!Done
  <2> QED
    BY <2>3, <2>4, <2>5
<1> QED
  BY <1>3, <1>4 DEF Windows!Resume

-----------------------------------------------------------------------------
(* The loop receives, polls and decides: a call succeeds when every worker  *)
(* has reported without a failure (Captures::finished).                     *)
LEMMA LoopStepInv ==
  ASSUME Windows!IInv, asked' = asked,
         \/ Windows!Receive \/ Windows!Poll \/ Windows!Decide \/ Windows!Terminate
  PROVE  Windows!IInv'
<1> USE DEF Windows!IInv
<1>1. \A p \in WinPids : Windows!Alive(p) => p \in job
  BY DEF Windows!Receive, Windows!Poll, Windows!Decide, Windows!Terminate, Windows!JobInv
<1>2. /\ UNCHANGED job /\ wPc' \in {"receive", "poll", "decide", "terminate", "closeOk", "cancel"}
      /\ \A p \in WinPids : Windows!Alive(p)' => Windows!Alive(p)
      /\ life' \in [WinPids -> {"none", "suspended", "running", "killed", "dead"}]
  <2>1. CASE Windows!Terminate
    BY <2>1, Condemned DEF Windows!Terminate, Windows!KillJob, Windows!Go, Windows!Alive, Windows!TypeOK
  <2>2. CASE Windows!Receive \/ Windows!Poll \/ Windows!Decide
    BY <2>2 DEF Windows!Receive, Windows!Poll, Windows!Decide, Windows!Go, Windows!kernelVars,
                Windows!Alive, Windows!TypeOK
  <2> QED
    BY <2>1, <2>2
<1>3. Windows!JobInv'
  BY <1>1, <1>2 DEF Windows!JobInv, Windows!Done
<1>4. Windows!CallInv'
  <2>1. wPc' = "closeOk" => wStatus' /\ ~wFailure' /\ finished' = Windows!Workers
    <3>1. CASE Windows!Receive \/ Windows!Poll \/ Windows!Terminate
      BY <3>1 DEF Windows!Receive, Windows!Poll, Windows!Terminate, Windows!Go
    <3>2. CASE Windows!Decide
      <4>1. wFailure \in BOOLEAN /\ wStatus \in BOOLEAN
        BY DEF Windows!TypeOK
      <4>2. /\ wFailure' = (wPc' = "terminate") /\ UNCHANGED <<wStatus, finished>>
            /\ wPc' = "closeOk" => wStatus /\ finished = Windows!Workers
        BY <3>2, <4>1 DEF Windows!Decide, Windows!Go
      <4> QED
        BY <4>2
    <3> QED
      BY <3>1, <3>2
  <2> QED
    BY <1>2, <2>1, AskedOnce DEF Windows!CallInv
<1>5. Windows!TypeOK' /\ Windows!MessageInv' /\ Windows!CaptureInv'
  <2>1. CASE Windows!Receive /\ queue # <<>>
    BY <2>1, RecordInv DEF Windows!Receive, Windows!Go, Windows!Steps
  <2>2. CASE (Windows!Receive /\ queue = <<>>) \/ Windows!Poll \/ Windows!Decide \/ Windows!Terminate
    <3>1. /\ UNCHANGED <<job, handle, holds, wWritten, worker, queue, wGot, finished, kept>>
          /\ wFailure => wFailure'
          /\ wFailure' \in BOOLEAN /\ wStatus' \in BOOLEAN /\ clock' \in {"off", "on", "over"}
      BY <2>2 DEF Windows!Receive, Windows!Poll, Windows!Decide, Windows!Terminate, Windows!Go,
                  Windows!kernelVars, Windows!workerVars, Windows!TypeOK
    <3>2. wPc' \in Windows!Steps /\ job' \in SUBSET WinPids /\ handle' \in {"none", "open", "closed"}
      BY <1>2, <3>1 DEF Windows!Steps, Windows!TypeOK
    <3> QED
      BY <1>2, <3>1, <3>2, CallFrame
  <2> QED
    BY <2>1, <2>2
<1> QED
  BY <1>3, <1>4, <1>5

(* A success closes the job, which kills what is left in it, and joins the  *)
(* workers; a failure cancels those that have not reported first (drop of   *)
(* Job, cancel_worker).                                                     *)
LEMMA EndingInv ==
  ASSUME Windows!IInv, asked' = asked,
         \/ Windows!CancelWorkers \/ Windows!CloseJob \/ Windows!CloseJobOk
  PROVE  Windows!IInv'
<1> USE DEF Windows!IInv
<1>1. \A p \in WinPids : Windows!Alive(p) => p \in job
  BY DEF Windows!CancelWorkers, Windows!CloseJob, Windows!CloseJobOk, Windows!JobInv
<1>2. CASE Windows!CancelWorkers
  <2>1. /\ UNCHANGED <<life, job, handle, holds, wWritten, wGot, wStatus, wFailure, finished, kept, clock>>
        /\ wPc' = "close" /\ Windows!Cancel(Windows!Workers \ finished)
    BY <1>2 DEF Windows!CancelWorkers, Windows!Go, Windows!kernelVars
  <2>2. Windows!Workers \ finished \in SUBSET Windows!Workers
    OBVIOUS
  <2>3. /\ queue' \in Seq(Windows!Messages)
        /\ \A i, j \in DOMAIN queue' : queue'[i].from = queue'[j].from => i = j
        /\ worker' \in [Windows!Workers -> {"none", "busy", "blocked", "sent", "ended"}]
        /\ Windows!MessageInv' /\ Windows!CaptureInv'
    BY <2>1, <2>2, CancelInv
  <2>4. Windows!TypeOK'
    BY <2>1, <2>3, AskedOnce DEF Windows!TypeOK, Windows!Steps
  <2>5. Windows!JobInv' /\ Windows!CallInv'
    BY <1>1, <2>1 DEF Windows!JobInv, Windows!CallInv, Windows!Done, Windows!Alive
  <2> QED
    BY <2>3, <2>4, <2>5
<1>3. CASE Windows!CloseJob \/ Windows!CloseJobOk
  <2>1. /\ UNCHANGED <<job, holds, wWritten, worker, queue, wGot, wStatus, wFailure, finished, kept>>
        /\ handle' = "closed" /\ clock' \in {"on", clock} /\ Windows!KillJob
        /\ wPc' = "reap" \/ (wPc' = "joinAll" /\ wPc = "closeOk")
    BY <1>3 DEF Windows!CloseJob, Windows!CloseJobOk, Windows!Go, Windows!workerVars
  <2>2. /\ life' \in [WinPids -> {"none", "suspended", "running", "killed", "dead"}]
        /\ \A p \in WinPids : Windows!Alive(p)' => Windows!Alive(p) /\ p \notin job
    BY <2>1, Condemned DEF Windows!KillJob, Windows!TypeOK
  <2>3. Windows!Nobody'
    BY <1>1, <2>2 DEF Windows!Nobody
  <2>4. Windows!TypeOK' /\ Windows!MessageInv' /\ Windows!CaptureInv'
    BY <2>1, <2>2, CallFrame DEF Windows!TypeOK, Windows!Steps
  <2>5. Windows!JobInv' /\ Windows!CallInv'
    BY <2>1, <2>3, AskedOnce DEF Windows!JobInv, Windows!CallInv, Windows!Done
  <2> QED
    BY <2>4, <2>5
<1> QED
  BY <1>2, <1>3

(* After the job was killed: reap, receive what is left, join, return       *)
(* (reap_until, receive_until).                                             *)
LEMMA ReturnInv ==
  ASSUME Windows!IInv, asked' = asked,
         \/ Windows!NotStarted \/ Windows!Reap \/ Windows!Drain \/ Windows!Join
         \/ Windows!JoinAll \/ Windows!TimePasses
  PROVE  Windows!IInv'
<1> USE DEF Windows!IInv
<1>1. /\ UNCHANGED <<life, job, handle, holds, wWritten, worker, wGot>>
      /\ wStatus' \in BOOLEAN /\ clock' \in {"off", "on", "over"}
      /\ \/ wPc' = wPc
         \/ wPc \in {"notStarted", "reap", "drain", "join"} /\ wPc' \in {"drain", "join", "err"}
         \/ wPc = "joinAll" /\ wPc' = "ok"
  BY DEF Windows!NotStarted, Windows!Reap, Windows!Drain, Windows!Join, Windows!JoinAll,
         Windows!TimePasses, Windows!Go, Windows!kernelVars, Windows!workerVars, Windows!TypeOK
<1>2. Windows!JobInv'
  BY <1>1 DEF Windows!JobInv, Windows!Done, Windows!OnlyTheChild, Windows!Nobody, Windows!Alive
<1>3. wPc' \in Windows!Steps
  BY <1>1 DEF Windows!TypeOK, Windows!Steps
<1>4. CASE Windows!Drain /\ finished # Windows!Workers /\ clock = "on" /\ queue # <<>>
           /\ Windows!Record(Head(queue)) /\ queue' = Tail(queue) /\ UNCHANGED wPc
  <2>1. UNCHANGED <<Windows!kernelVars, worker, wGot, wStatus, clock>>
    BY <1>4 DEF Windows!Drain
  <2>2. Windows!TypeOK' /\ Windows!MessageInv' /\ Windows!CaptureInv'
    BY <1>3, <1>4, <2>1, RecordInv
  <2>3. Windows!CallInv'
    BY <1>4 DEF Windows!Drain, Windows!CallInv
  <2> QED
    BY <1>2, <2>2, <2>3
<1>5. CASE UNCHANGED <<queue, wFailure, finished, kept>>
  <2>1. Windows!TypeOK' /\ Windows!MessageInv' /\ Windows!CaptureInv'
    BY <1>1, <1>3, <1>5, CallFrame DEF Windows!TypeOK
  <2>2. wPc' \in {"closeOk", "joinAll", "ok"} => UNCHANGED wStatus
    BY DEF Windows!NotStarted, Windows!Reap, Windows!Drain, Windows!Join, Windows!JoinAll,
           Windows!TimePasses, Windows!Go
  <2>3. Windows!CallInv'
    BY <1>1, <1>5, <2>2, AskedOnce DEF Windows!CallInv
  <2> QED
    BY <1>2, <2>1, <2>3
<1> QED
  BY <1>4, <1>5 DEF Windows!NotStarted, Windows!Reap, Windows!Drain, Windows!Join,
     Windows!JoinAll, Windows!TimePasses, Windows!workerVars

-----------------------------------------------------------------------------
(* The invariant holds at first, of a call that is asked for and of one     *)
(* that is over.                                                            *)
LEMMA WinInit == MCInit => Windows!IInv
<1> USE WinAssumption DEF Windows!IInv
<1>1. ASSUME Windows!Init PROVE Windows!IInv
  <2>1. asked.limit \in [Windows!Streams -> Nat] /\ asked.excess \in Nat
    BY <1>1 DEF Windows!Init, Windows!Streams, Streams
  <2>2. Windows!TypeOK
    <3>1. \A s \in Windows!Streams : 0 <= Windows!MostWritten(s)
      BY <2>1 DEF Windows!MostWritten, Windows!Allowed
    <3>2. /\ life \in [WinPids -> {"none", "suspended", "running", "killed", "dead"}]
          /\ holds \in [Windows!Ends -> SUBSET WinPids]
          /\ worker \in [Windows!Workers -> {"none", "busy", "blocked", "sent", "ended"}]
          /\ wWritten = [s \in Windows!Streams |-> 0] /\ wGot = [s \in Windows!Streams |-> 0]
          /\ kept = [s \in Windows!Streams |-> 0] /\ queue = <<>>
      BY <1>1 DEF Windows!Init
    <3>3. queue \in Seq(Windows!Messages) /\ DOMAIN queue = {}
      BY <3>2
    <3>4. /\ wWritten \in [Windows!Streams -> Nat] /\ wGot \in [Windows!Streams -> Nat]
          /\ kept \in [Windows!Streams -> Nat]
          /\ \A s \in Windows!Streams : /\ wWritten[s] <= Windows!MostWritten(s)
                                        /\ wGot[s] <= wWritten[s] /\ kept[s] <= wGot[s]
      BY <3>1, <3>2
    <3>5. /\ asked \in WinRequests /\ job \in SUBSET WinPids
          /\ handle \in {"none", "open", "closed"} /\ wPc \in Windows!Steps
          /\ wStatus \in BOOLEAN /\ wFailure \in BOOLEAN /\ clock \in {"off", "on", "over"}
          /\ finished \in SUBSET Windows!Workers
      BY <1>1 DEF Windows!Init, Windows!Steps
    <3> QED
      BY <3>2, <3>3, <3>4, <3>5 DEF Windows!TypeOK
  <2>3. Windows!JobInv /\ Windows!MessageInv /\ Windows!CaptureInv /\ Windows!CallInv
    BY <1>1, <2>1 DEF Windows!Init, Windows!JobInv, Windows!MessageInv, Windows!CaptureInv,
                      Windows!CallInv, Windows!Reported, Windows!Allowed, Windows!Done, Windows!Streams
  <2> QED
    BY <2>2, <2>3
<1>2. ASSUME WindowsIsOver PROVE Windows!IInv
  <2>1. asked.limit \in [Windows!Streams -> Nat] /\ asked.excess \in Nat
    BY <1>2 DEF WindowsIsOver, Windows!Streams, Streams
  <2>2. Windows!Ends = Streams /\ Windows!Workers = Streams /\ Windows!Streams = Streams
    BY <1>2 DEF WindowsIsOver, Windows!Ends, Windows!Workers, Windows!Streams, Streams
  <2>3. Windows!TypeOK
    <3>1. \A s \in Windows!Streams : 0 <= Windows!MostWritten(s)
      BY <2>1 DEF Windows!MostWritten, Windows!Allowed
    <3>2. /\ life \in [WinPids -> {"none", "suspended", "running", "killed", "dead"}]
          /\ holds \in [Windows!Ends -> SUBSET WinPids]
          /\ worker \in [Windows!Workers -> {"none", "busy", "blocked", "sent", "ended"}]
          /\ wWritten = [s \in Windows!Streams |-> 0] /\ wGot = [s \in Windows!Streams |-> 0]
          /\ kept = [s \in Windows!Streams |-> 0] /\ queue = <<>>
      BY <1>2, <2>2 DEF WindowsIsOver
    <3>3. queue \in Seq(Windows!Messages) /\ DOMAIN queue = {}
      BY <3>2
    <3>4. /\ wWritten \in [Windows!Streams -> Nat] /\ wGot \in [Windows!Streams -> Nat]
          /\ kept \in [Windows!Streams -> Nat]
          /\ \A s \in Windows!Streams : /\ wWritten[s] <= Windows!MostWritten(s)
                                        /\ wGot[s] <= wWritten[s] /\ kept[s] <= wGot[s]
      BY <3>1, <3>2
    <3>5. /\ asked \in WinRequests /\ job \in SUBSET WinPids
          /\ handle \in {"none", "open", "closed"} /\ wPc \in Windows!Steps
          /\ wStatus \in BOOLEAN /\ wFailure \in BOOLEAN /\ clock \in {"off", "on", "over"}
          /\ finished \in SUBSET Windows!Workers
      BY <1>2 DEF WindowsIsOver, Windows!Steps
    <3> QED
      BY <3>2, <3>3, <3>4, <3>5 DEF Windows!TypeOK
  <2>4. Windows!JobInv /\ Windows!MessageInv /\ Windows!CaptureInv /\ Windows!CallInv
    BY <1>2, <2>1, <2>2 DEF WindowsIsOver, Windows!JobInv, Windows!MessageInv, Windows!CaptureInv,
       Windows!CallInv, Windows!Reported, Windows!Done, Windows!Nobody, Windows!Alive
  <2> QED
    BY <2>3, <2>4
<1> QED
  BY <1>1, <1>2 DEF MCInit

(* Every step keeps it: of the call, its processes and its workers, and of  *)
(* the other platform.                                                      *)
LEMMA WinStep == Windows!IInv /\ [MCNext]_allVars => Windows!IInv'
<1> SUFFICES ASSUME Windows!IInv, [MCNext]_allVars PROVE Windows!IInv'
  OBVIOUS
<1>1. CASE UNCHANGED windowsVars
  <2>1. UNCHANGED <<asked, life, job, handle, holds, wWritten, worker, wGot, queue, wPc, wStatus,
                    wFailure, finished, kept, clock>>
    BY <1>1 DEF windowsVars
  <2>2. Windows!TypeOK' /\ Windows!MessageInv' /\ Windows!CaptureInv'
    BY <2>1, CallFrame DEF Windows!IInv, Windows!TypeOK
  <2>3. Windows!JobInv' /\ Windows!CallInv'
    BY <2>1, AskedOnce DEF Windows!IInv, Windows!JobInv, Windows!CallInv, Windows!OnlyTheChild,
                           Windows!Nobody, Windows!Alive
  <2> QED
    BY <2>2, <2>3 DEF Windows!IInv
<1>2. CASE Windows!Next
  <2>1. asked' = asked
    BY <1>2 DEF Windows!Next
  <2>2. Windows!CallStep \/ Windows!TimePasses \/ WinWorkers \/ WinProcesses
    BY <1>2 DEF Windows!Next, WinWorkers, WinProcesses
  <2>3. CASE Windows!CallStep \/ Windows!TimePasses
    BY <2>1, <2>3, SetUpInv, StartInv, ResumeInv, LoopStepInv, EndingInv, ReturnInv
       DEF Windows!CallStep
  <2> QED
    BY <2>1, <2>2, <2>3, WinWorkerInv, WinProcessInv
<1> QED
  BY <1>1, <1>2 DEF MCNext, allVars

LEMMA WinInvariance == MCSpec => []Windows!IInv
  BY WinInit, WinStep, PTL DEF MCSpec

(* When a call returns on Windows nobody of the command is left alive       *)
(* (CREATE_SUSPENDED, Job::assign, KILL_ON_JOB_CLOSE).                      *)
THEOREM WindowsLeavesNothing == MCSpec => []NothingIsLeft
<1>1. Windows!IInv => NothingIsLeft
  BY DEF Windows!IInv, Windows!JobInv, Windows!NothingIsLeft, Windows!Nobody, Windows!Done,
         NothingIsLeft
<1> QED
  BY <1>1, WinInvariance, PTL

(* A success on Windows carries all that was ever written to either output, *)
(* within the limit, and follows the child's exit (Captures::finished).     *)
THEOREM WindowsCaptureIsFaithful == MCSpec => []FaithfulCapture
<1>1. Windows!IInv => FaithfulCapture
  BY RequestFacts DEF Windows!IInv, Windows!CallInv, Windows!CaptureInv, Windows!Complete,
     Windows!FaithfulCapture, FaithfulCapture
<1> QED
  BY <1>1, WinInvariance, PTL
===============================================================================

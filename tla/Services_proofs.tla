---------------------------- MODULE Services_proofs ----------------------------
(***************************************************************************)
(* Proofs about what a command asks of the outside (MCServices).           *)
(*                                                                         *)
(* GitHubTransport, for any number of calls and of changes by others: a    *)
(* mutation is in one place only, not yet sent, on its way, or done with;  *)
(* the request that is served late is still the only one.                  *)
(*                                                                         *)
(* RegistryReads, for any budget, sizes of answers and number of polls.    *)
(*                                                                         *)
(* CrateArchive, for any blocks and any limits that 64 bits hold: whatever *)
(* reading a tar has, both passes follow it.                               *)
(***************************************************************************)
EXTENDS MCServices, WellFoundedInduction, FiniteSetTheorems, TLAPS

\* A request is of its call, and that of a mutation has not been served.
SentInv ==
  \A r \in requests :
    /\ r.call = calls => r.kind = call.kind /\ call.attempt > 0
    /\ r.kind = "mutate" => r.attempt = 1 /\ applied[r.call] = 0

\* A mutation that has yet to be sent has not been sent before.
UnsentInv ==
  /\ call.attempt = 0 => call.step = "send"
  /\ call.step = "send" => call.attempt < ReadAttempts
  /\ call.kind = "mutate" => call.attempt <= 1 /\ (call.step = "send" => call.attempt = 0)
  /\ \A c \in 1..MaxCalls :
       c > calls \/ (c = calls /\ call.attempt = 0) => applied[c] = 0

IInv == TypeOK /\ SentInv /\ UnsentInv /\ AppliedOnce /\ ReturnsWhatWas /\ AbsenceIsTrue

-----------------------------------------------------------------------------
(* What a failure makes of the call (AfterFailure): it never has a value,  *)
(* and says absent only for a read that takes 404 as an answer.            *)
LEMMA FailureOutcome ==
  ASSUME TypeOK, NEW detail, Failed(detail)
  PROVE  /\ call' \in [kind : Kinds, attempt : 0..ReadAttempts, value : Nat,
                       step : {"send", "wait", "value", "none", "failed"}]
         /\ call'.kind = call.kind /\ call'.attempt = call.attempt
         /\ call'.step \in {"send", "none", "failed"}
         /\ call'.step = "send" => call.kind # "mutate" /\ call.attempt < ReadAttempts
         /\ call'.step = "none" => call.kind = "optional" /\ detail = "404"
  BY DEF TypeOK, Failed, AfterFailure, Retries, IsRead, Attempts, AbsenceOf, ReadAttempts

(* Serving a request (Effect, Count) applies it if it is a mutation, and   *)
(* there is no other request of that mutation left.                        *)
LEMMA ServedOnce ==
  ASSUME IInv, NEW r \in requests, Effect(r), Count(r), requests' = requests \ {r},
         UNCHANGED calls, call'.kind = call.kind, call'.attempt = call.attempt,
         call'.step = "send" => call.kind # "mutate" /\ call.attempt < ReadAttempts,
         call.attempt = 0 => call'.step = "send"
  PROVE  /\ object' \in Nat
         /\ requests' \subseteq [call : 1..calls', attempt : 1..ReadAttempts, kind : Kinds]
         /\ applied' \in [1..MaxCalls -> Nat]
         /\ SentInv' /\ UnsentInv' /\ AppliedOnce'
<1> USE BoundAssumption DEF IInv, TypeOK
<1>1. r \in [call : 1..calls, attempt : 1..ReadAttempts, kind : Kinds]
  OBVIOUS
<1>2. object' \in Nat
  BY <1>1 DEF Effect
<1>3. requests' \subseteq [call : 1..calls', attempt : 1..ReadAttempts, kind : Kinds]
  OBVIOUS
<1>4. /\ applied' \in [1..MaxCalls -> Nat]
      /\ \A c \in 1..MaxCalls : c # r.call \/ r.kind # "mutate" => applied'[c] = applied[c]
      /\ r.kind = "mutate" => applied'[r.call] <= 1
  BY <1>1 DEF Count, SentInv
<1>5. SentInv'
  <2> SUFFICES ASSUME NEW s \in requests'
               PROVE  /\ s.call = calls => s.kind = call.kind /\ call.attempt > 0
                      /\ s.kind = "mutate" => s.attempt = 1 /\ applied'[s.call] = 0
    BY DEF SentInv
  <2>1. s \in requests /\ s # r /\ s \in [call : 1..calls, attempt : 1..ReadAttempts, kind : Kinds]
    OBVIOUS
  <2>2. s.kind = "mutate" /\ r.kind = "mutate" => s.call # r.call
    BY <1>1, <2>1 DEF SentInv
  <2> QED
    BY <1>4, <2>1, <2>2 DEF SentInv
<1>6. UnsentInv'
  BY <1>1, <1>4 DEF SentInv, UnsentInv
<1>7. AppliedOnce'
  BY <1>1, <1>4 DEF AppliedOnce
<1> QED
  BY <1>2, <1>3, <1>4, <1>5, <1>6, <1>7

-----------------------------------------------------------------------------
(* The invariant holds at first.                                           *)
LEMMA InitInv == Init => IInv
  BY BoundAssumption
  DEF Init, IInv, TypeOK, Start, Kinds, ReadAttempts, Absent, SentInv, UnsentInv,
      AppliedOnce, ReturnsWhatWas, AbsenceIsTrue

(* A new call keeps the invariant (Begin).                                 *)
LEMMA BeginInv == ASSUME IInv, NEW kind \in Kinds, Begin(kind) PROVE IInv'
<1> USE BoundAssumption DEF IInv, Begin
<1>1. TypeOK'
  BY DEF TypeOK, Start, ReadAttempts, Absent
<1>2. /\ call'.kind = kind /\ call'.attempt = 0 /\ call'.step = "send"
      /\ calls' = calls + 1 /\ \A r \in requests : r.call \in 1..calls
      /\ calls \in 1..MaxCalls /\ calls # calls'
  BY DEF TypeOK, Start
<1>3. SentInv'
  BY <1>2 DEF SentInv
<1>4. UnsentInv'
  BY <1>2 DEF UnsentInv, ReadAttempts
<1> QED
  BY <1>1, <1>3, <1>4 DEF AppliedOnce, ReturnsWhatWas, AbsenceIsTrue, Start

(* Sending keeps the invariant (Send): a mutation is sent for the first time. *)
LEMMA SendInv == ASSUME IInv, Send PROVE IInv'
<1> USE BoundAssumption DEF IInv, Send
<1> DEFINE sent == [call |-> calls, attempt |-> call.attempt + 1, kind |-> call.kind]
<1>0. call.attempt \in 0..3 /\ call.attempt + 1 \in 1..3 /\ call.attempt < 3
  BY DEF TypeOK, UnsentInv, ReadAttempts
<1>1. /\ call'.kind = call.kind /\ call'.step = "wait"
      /\ call'.attempt = call.attempt + 1 /\ call'.value = call.value
      /\ call' \in [kind : Kinds, attempt : 0..ReadAttempts, value : Nat,
                    step : {"send", "wait", "value", "none", "failed"}]
  <2>1. call' = [call EXCEPT !.step = "wait", !.attempt = call.attempt + 1]
    OBVIOUS
  <2>2. call.attempt + 1 \in 0..ReadAttempts
    BY <1>0 DEF ReadAttempts
  <2> QED
    BY <2>1, <2>2 DEF TypeOK
<1>2. sent \in [call : 1..calls, attempt : 1..ReadAttempts, kind : Kinds]
  BY <1>0 DEF TypeOK, ReadAttempts
<1>3. TypeOK'
  BY <1>1, <1>2 DEF TypeOK
<1>4. SentInv'
  <2>1. sent.kind = "mutate" => sent.attempt = 1 /\ applied[sent.call] = 0
    BY <1>2 DEF TypeOK, UnsentInv
  <2>2. call'.attempt > 0
    BY <1>1 DEF TypeOK
  <2> QED
    BY <1>1, <2>1, <2>2 DEF SentInv
<1>5. UnsentInv'
  BY <1>0, <1>1 DEF TypeOK, UnsentInv, ReadAttempts
<1> QED
  BY <1>1, <1>3, <1>4, <1>5 DEF AppliedOnce, ReturnsWhatWas, AbsenceIsTrue

(* A request served for the call that waits keeps the invariant            *)
(* (ServeAnswered): its answer is what the object is.                      *)
LEMMA AnsweredInv == ASSUME IInv, NEW r \in requests, ServeAnswered(r) PROVE IInv'
<1> USE BoundAssumption DEF IInv, ServeAnswered, Current
<1>1. r.kind = call.kind /\ call.attempt > 0 /\ r.call \in 1..calls
  BY DEF SentInv, TypeOK
<1>2. CASE Answer(r)
  <2>1. /\ call'.kind = call.kind /\ call'.attempt = call.attempt /\ call'.step = "value"
        /\ call'.value = IF r.kind = "mutate" THEN r.call + 1 ELSE object
        /\ call' \in [kind : Kinds, attempt : 0..ReadAttempts, value : Nat,
                      step : {"send", "wait", "value", "none", "failed"}]
    <3>1. (IF r.kind = "mutate" THEN r.call + 1 ELSE object) \in Nat
      BY <1>1 DEF TypeOK
    <3> QED
      BY <1>2, <3>1 DEF TypeOK
  <2>2. Effect(r) /\ Count(r)
    BY <1>2
  <2>3. /\ object' \in Nat /\ applied' \in [1..MaxCalls -> Nat]
        /\ requests' \subseteq [call : 1..calls', attempt : 1..ReadAttempts, kind : Kinds]
        /\ SentInv' /\ UnsentInv' /\ AppliedOnce'
    BY <1>1, <2>1, <2>2, ServedOnce
  <2>4. TypeOK'
    BY <2>1, <2>3 DEF TypeOK
  <2>5. r.kind # "graphql" => call'.value = object' /\ object' # Absent
    BY <1>1, <1>2, <2>1, <2>2 DEF Answer, Effect, Absent, TypeOK, Kinds
  <2> QED
    BY <1>1, <2>1, <2>3, <2>4, <2>5 DEF ReturnsWhatWas, AbsenceIsTrue
<1>3. CASE ~Answer(r)
  <2>1. Failed(IF r.kind = "mutate" THEN "403" ELSE "404") /\ UNCHANGED <<object, applied>>
    BY <1>3
  <2>2. /\ call' \in [kind : Kinds, attempt : 0..ReadAttempts, value : Nat,
                      step : {"send", "wait", "value", "none", "failed"}]
        /\ call'.kind = call.kind /\ call'.attempt = call.attempt
        /\ call'.step \in {"send", "none", "failed"}
        /\ call'.step = "send" => call.kind # "mutate" /\ call.attempt < ReadAttempts
        /\ call'.step = "none" => call.kind = "optional"
    BY <2>1, FailureOutcome
  <2>3. TypeOK'
    BY <2>1, <2>2 DEF TypeOK
  <2>4. SentInv' /\ UnsentInv' /\ AppliedOnce'
    BY <1>1, <2>1, <2>2 DEF TypeOK, SentInv, UnsentInv, AppliedOnce
  <2>5. call.kind = "optional" => object = Absent
    BY <1>1, <1>3 DEF Answer
  <2> QED
    BY <2>1, <2>2, <2>3, <2>4, <2>5 DEF ReturnsWhatWas, AbsenceIsTrue, TypeOK
<1> QED
  BY <1>2, <1>3

(* An answer that cannot be used keeps the invariant (ServeUnusable).      *)
LEMMA UnusableInv == ASSUME IInv, NEW r \in requests, ServeUnusable(r) PROVE IInv'
<1> USE BoundAssumption DEF IInv, ServeUnusable, Current, Decoded
<1>1. call.attempt > 0
  BY DEF SentInv
<1>2. /\ call'.kind = call.kind /\ call'.attempt = call.attempt /\ call'.step = "failed"
      /\ call' \in [kind : Kinds, attempt : 0..ReadAttempts, value : Nat,
                    step : {"send", "wait", "value", "none", "failed"}]
  BY DEF TypeOK
<1>3. /\ object' \in Nat /\ applied' \in [1..MaxCalls -> Nat]
      /\ requests' \subseteq [call : 1..calls', attempt : 1..ReadAttempts, kind : Kinds]
      /\ SentInv' /\ UnsentInv' /\ AppliedOnce'
  BY <1>1, <1>2, ServedOnce
<1>4. TypeOK'
  BY <1>2, <1>3 DEF TypeOK
<1> QED
  BY <1>2, <1>3, <1>4 DEF ReturnsWhatWas, AbsenceIsTrue

(* A request served after everybody has given it up (ServeLate).           *)
LEMMA LateInv == ASSUME IInv, NEW r \in requests, ServeLate(r) PROVE IInv'
<1> USE BoundAssumption DEF IInv, ServeLate
<1>1. r \in [call : 1..calls, attempt : 1..ReadAttempts, kind : Kinds]
  BY DEF TypeOK
<1>2. object' \in Nat
  BY <1>1 DEF TypeOK, Effect
<1>3. /\ applied' \in [1..MaxCalls -> Nat]
      /\ \A c \in 1..MaxCalls : c # r.call \/ r.kind # "mutate" => applied'[c] = applied[c]
      /\ r.kind = "mutate" => applied'[r.call] <= 1
  BY <1>1 DEF TypeOK, Count, SentInv
<1>4. TypeOK'
  BY <1>2, <1>3 DEF TypeOK
<1>5. SentInv'
  <2> SUFFICES ASSUME NEW s \in requests'
               PROVE  /\ s.call = calls => s.kind = call.kind /\ call.attempt > 0
                      /\ s.kind = "mutate" => s.attempt = 1 /\ applied'[s.call] = 0
    BY DEF SentInv
  <2>1. s \in requests /\ s # r /\ s \in [call : 1..calls, attempt : 1..ReadAttempts, kind : Kinds]
    BY DEF TypeOK
  <2>2. s.kind = "mutate" /\ r.kind = "mutate" => s.call # r.call
    BY <1>1, <2>1 DEF SentInv
  <2> QED
    BY <1>3, <2>1, <2>2 DEF SentInv, TypeOK
<1>6. UnsentInv'
  <2>1. ASSUME NEW c \in 1..MaxCalls, c > calls \/ (c = calls /\ call.attempt = 0)
        PROVE  applied'[c] = 0
    <3>1. calls \in Nat /\ r.call \in 1..calls
      BY <1>1 DEF TypeOK
    <3>2. ~(c = r.call)
      BY <2>1, <3>1 DEF SentInv
    <3> QED
      BY <1>3, <2>1, <3>2 DEF UnsentInv
  <2>2. UNCHANGED <<call, calls>>
    OBVIOUS
  <2> QED
    BY <2>1, <2>2 DEF UnsentInv
<1>7. AppliedOnce'
  BY <1>1, <1>3 DEF AppliedOnce
<1> QED
  BY <1>4, <1>5, <1>6, <1>7 DEF ReturnsWhatWas, AbsenceIsTrue

(* gh fails before its request is served (FailFirst): not with absence.    *)
LEMMA FailFirstInv == ASSUME IInv, NEW detail \in Details, FailFirst(detail) PROVE IInv'
<1> USE DEF IInv, FailFirst
<1>1. /\ call' \in [kind : Kinds, attempt : 0..ReadAttempts, value : Nat,
                    step : {"send", "wait", "value", "none", "failed"}]
      /\ call'.kind = call.kind /\ call'.attempt = call.attempt
      /\ call'.step \in {"send", "failed"}
      /\ call'.step = "send" => call.kind # "mutate" /\ call.attempt < ReadAttempts
  BY FailureOutcome
<1>2. requests' \subseteq requests /\ call.attempt # 0
  BY DEF UnsentInv
<1>3. TypeOK'
  BY <1>1, <1>2 DEF TypeOK
<1>4. SentInv' /\ UnsentInv' /\ AppliedOnce'
  BY <1>1, <1>2 DEF TypeOK, SentInv, UnsentInv, AppliedOnce
<1> QED
  BY <1>1, <1>3, <1>4 DEF ReturnsWhatWas, AbsenceIsTrue

(* Changes by others keep the invariant (Other).                           *)
LEMMA OtherInv == ASSUME IInv, Other PROVE IInv'
  BY BoundAssumption
  DEF IInv, Other, TypeOK, SentInv, UnsentInv, AppliedOnce, ReturnsWhatWas, AbsenceIsTrue, Absent

-----------------------------------------------------------------------------
(* Every step keeps the invariant.                                         *)
LEMMA NextInv == IInv /\ [Next]_vars => IInv'
<1> SUFFICES ASSUME IInv, [Next]_vars PROVE IInv'
  OBVIOUS
<1>1. CASE UNCHANGED vars
  BY <1>1
  DEF vars, IInv, TypeOK, SentInv, UnsentInv, AppliedOnce, ReturnsWhatWas, AbsenceIsTrue
<1>2. CASE Next
  BY <1>2, BeginInv, SendInv, OtherInv, AnsweredInv, UnusableInv, LateInv, FailFirstInv
  DEF Next, Serve
<1> QED
  BY <1>1, <1>2

(* The invariant holds in every state, of every behaviour of the transport. *)
LEMMA Invariance == Spec => []IInv
  BY InitInv, NextInv, PTL DEF Spec

(* The types of every variable (GhCli).                                    *)
THEOREM TypeCorrect == Spec => []TypeOK
<1>1. IInv => TypeOK
  BY DEF IInv
<1> QED
  BY <1>1, Invariance, PTL

(* A mutation is never applied twice, however its request and its answer   *)
(* are delayed or lost (request, mutate).                                  *)
THEOREM MutationsApplyOnce == Spec => []AppliedOnce
<1>1. IInv => AppliedOnce
  BY DEF IInv
<1> QED
  BY <1>1, Invariance, PTL

(* What a call returns was there while the call was made; what it reports   *)
(* absent was absent then, and only get_optional reports it (request,       *)
(* decode, is_not_found).                                                   *)
THEOREM AnswersOfEveryCall == Spec => []AnswersAreTrue
<1>1. IInv => AnswersAreTrue
  BY DEF IInv, AnswersAreTrue
<1> QED
  BY <1>1, Invariance, PTL

-----------------------------------------------------------------------------
(***************************************************************************)
(* RegistryReads, for any budget, sizes of answers and number of polls.    *)
(***************************************************************************)
(* The largest of three sizes is at least each of them.                    *)
LEMMA AnswerSize ==
  /\ Registry!LargestAnswer \in Nat /\ Registry!LargestAnswer >= MaxFault
  /\ Registry!LargestAnswer >= RecordBytes /\ Registry!LargestAnswer >= ArchiveBytes
  BY RegistryAssumption DEF Registry!LargestAnswer, Registry!Larger

(* An answer within the budget is accounted for (account_response).        *)
LEMMA AccountedFor ==
  ASSUME Registry!IInv, NEW n \in Nat,
         received' = received + n, taken' = taken + n, taken' <= MaxTotal
  PROVE  /\ taken' \in 0..MaxTotal /\ received' = taken' /\ received' \in Nat
         /\ taken' \in 0..MaxTotal + Registry!LargestAnswer
         /\ received' <= MaxTotal + Registry!LargestAnswer
<1>1. taken \in Nat /\ received = taken
  BY RegistryAssumption, AnswerSize DEF Registry!IInv, Registry!TypeOK, Registry!AskingInv
<1> QED
  BY <1>1, RegistryAssumption, AnswerSize

(* The invariant holds when a command begins.                              *)
LEMMA RegistryInit == Registry!Init \/ NoRegistry => Registry!IInv
<1> SUFFICES ASSUME Registry!Init \/ NoRegistry PROVE Registry!IInv
  OBVIOUS
<1>1. Registry!TypeOK
  <2>1. record \in Registry!Records /\ seen = {record} /\ seen \subseteq Registry!Records
    BY DEF Registry!Init, NoRegistry, Registry!Records
  <2>2. taken \in 0..MaxTotal + Registry!LargestAnswer
    BY RegistryAssumption, AnswerSize DEF Registry!Init, NoRegistry
  <2> QED
    <3>1. Registry!RegistryOK
      BY <2>1 DEF Registry!Init, NoRegistry, Registry!RegistryOK, Registry!Contents
    <3>2. stage \in Registry!Requests /\ result \in Registry!Results
      BY DEF Registry!Init, NoRegistry, Registry!Requests, Registry!Results
    <3>3. /\ command \in {"qualify", "await"} /\ refused \in BOOLEAN
          /\ attempt = 1 /\ poll = 1 /\ received = 0 /\ faults = 0
      BY DEF Registry!Init, NoRegistry
    <3> QED
      BY <2>1, <2>2, <3>1, <3>2, <3>3, RegistryAssumption
      DEF Registry!TypeOK, ReadAttempts
<1> QED
  BY <1>1, RegistryAssumption, AnswerSize
  DEF Registry!Init, NoRegistry, Registry!IInv, Registry!SeenInv,
      Registry!AskingInv, Registry!AcceptedIsPublished, Registry!AbsenceSeen,
      Registry!NoNeedlessFailure, Registry!BytesBounded

(* Whatever others do to the version, the client's facts stay: it is       *)
(* published once and its archive never changes.                           *)
LEMMA OthersInv == ASSUME Registry!IInv, Registry!Others PROVE Registry!IInv'
<1> USE DEF Registry!IInv, Registry!TypeOK, Registry!Others, Registry!Yank,
            Registry!Unyank, Registry!Publish, Registry!clientVars
<1>1. Registry!RegistryOK' /\ seen' \subseteq Registry!Records /\ record' \in seen'
  BY DEF Registry!RegistryOK, Registry!Records, Registry!Contents
<1>2. /\ UNCHANGED <<command, stage, attempt, poll, taken, result, received, faults, refused>>
      /\ seen \subseteq seen'
  OBVIOUS
<1>3. content = "release" /\ record # "absent" => content' = content /\ record' # "absent"
  OBVIOUS
<1> HIDE DEF Registry!Others
<1> QED
  BY <1>1, <1>2, <1>3
  DEF Registry!SeenInv, Registry!AskingInv, Registry!AcceptedIsPublished,
      Registry!AbsenceSeen, Registry!NoNeedlessFailure, Registry!BytesBounded

(* The client moves nothing in the registry, and a request begins with what *)
(* the record then is.                                                      *)
LEMMA RegistryKept ==
  ASSUME Registry!IInv, record' = record, content' = content,
         seen' = seen \/ seen' = {record}
  PROVE  /\ Registry!RegistryOK' /\ seen' \subseteq Registry!Records
         /\ Registry!SeenInv'
  BY DEF Registry!IInv, Registry!TypeOK, Registry!RegistryOK, Registry!SeenInv

(* A step of the client that accounts for its answer keeps the invariant   *)
(* if what it concludes is right.                                          *)
LEMMA ClientKeeps ==
  ASSUME Registry!IInv, NEW n \in Nat,
         received' = received + n, taken' = taken + n, taken' <= MaxTotal,
         record' = record, content' = content, command' = command,
         seen' = seen \/ seen' = {record},
         stage' \in Registry!Requests, result' \in Registry!Results,
         attempt' \in 1..ReadAttempts, poll' \in 1..MaxPolls,
         faults' \in 0..ReadAttempts, refused' \in BOOLEAN,
         result' = "none" => ~refused' /\ faults' = attempt' - 1,
         result' = "failed" => refused' \/ faults' = ReadAttempts,
         result' = "absent" => "absent" \in seen',
         result' = "accepted" => content = "release" /\ ~refused'
  PROVE  Registry!IInv'
<1>1. /\ taken' \in 0..MaxTotal /\ received' = taken' /\ received' \in Nat
      /\ taken' \in 0..MaxTotal + Registry!LargestAnswer
      /\ received' <= MaxTotal + Registry!LargestAnswer
  BY AccountedFor
<1>2. Registry!RegistryOK' /\ seen' \subseteq Registry!Records /\ Registry!SeenInv'
  BY RegistryKept
<1>3. Registry!TypeOK'
  BY <1>1, <1>2 DEF Registry!IInv, Registry!TypeOK
<1>4. content = "release" => record # "absent"
  BY DEF Registry!IInv, Registry!TypeOK, Registry!RegistryOK
<1> QED
  BY <1>1, <1>2, <1>3, <1>4
  DEF Registry!IInv, Registry!AskingInv, Registry!AcceptedIsPublished,
      Registry!AbsenceSeen, Registry!NoNeedlessFailure, Registry!BytesBounded

(* What a client that asks knows of itself.                                *)
LEMMA Asking ==
  ASSUME Registry!IInv, result = "none"
  PROVE  /\ command \in {"qualify", "await"} /\ stage \in Registry!Requests
         /\ attempt \in 1..ReadAttempts /\ poll \in 1..MaxPolls
         /\ faults = attempt - 1 /\ ~refused /\ refused \in BOOLEAN
         /\ record \in seen
  BY DEF Registry!IInv, Registry!TypeOK, Registry!AskingInv, Registry!SeenInv

(* Answers: the next request starts over, with every attempt before it.    *)
LEMMA RegistryAnswered == ASSUME Registry!IInv, Registry!Answered PROVE Registry!IInv'
<1> USE RegistryAssumption DEF Registry!Account, Registry!registryVars
<1>0. ReadAttempts = 3 /\ {"wait", "record", "download"} = Registry!Requests
      /\ {"none", "absent", "accepted", "failed"} = Registry!Results
  BY DEF ReadAttempts, Registry!Requests, Registry!Results
<1>1. CASE Registry!WaitAnswered
  <2>1. /\ result = "none" /\ record' = record /\ content' = content /\ command' = command
        /\ received' = received + RecordBytes /\ taken' = taken + RecordBytes
        /\ taken' <= MaxTotal
    BY <1>1 DEF Registry!WaitAnswered
  <2>2. CASE /\ poll < Registry!Polls /\ poll' = poll + 1
             /\ Registry!Request("wait") /\ UNCHANGED <<result, refused>>
    BY <1>0, <2>1, <2>2, Asking, ClientKeeps DEF Registry!Request, Registry!Polls
  <2>3. CASE /\ record = "absent" /\ result' = "absent"
             /\ UNCHANGED <<stage, attempt, poll, seen, faults, refused>>
    BY <1>0, <2>1, <2>3, Asking, ClientKeeps
  <2>4. CASE Registry!Fail /\ refused' = TRUE /\ UNCHANGED <<seen, faults>>
    BY <1>0, <2>1, <2>4, Asking, ClientKeeps DEF Registry!Fail
  <2>5. CASE Registry!Request("record") /\ UNCHANGED <<poll, result, refused>>
    BY <1>0, <2>1, <2>5, Asking, ClientKeeps DEF Registry!Request
  <2> QED
    BY <1>1, <2>2, <2>3, <2>4, <2>5 DEF Registry!WaitAnswered
<1>2. CASE Registry!RecordAnswered
  <2>1. /\ result = "none" /\ record' = record /\ content' = content /\ command' = command
        /\ received' = received + RecordBytes /\ taken' = taken + RecordBytes
        /\ taken' <= MaxTotal
    BY <1>2 DEF Registry!RecordAnswered
  <2>2. CASE Registry!Request("download") /\ UNCHANGED <<poll, result, refused>>
    BY <1>0, <2>1, <2>2, Asking, ClientKeeps DEF Registry!Request
  <2>3. CASE Registry!Fail /\ refused' = TRUE /\ UNCHANGED <<seen, faults>>
    BY <1>0, <2>1, <2>3, Asking, ClientKeeps DEF Registry!Fail
  <2> QED
    BY <1>2, <2>2, <2>3 DEF Registry!RecordAnswered
<1>3. CASE Registry!DownloadAnswered
  <2>1. /\ result = "none" /\ record' = record /\ content' = content /\ command' = command
        /\ received' = received + ArchiveBytes /\ taken' = taken + ArchiveBytes
        /\ taken' <= MaxTotal /\ UNCHANGED <<stage, attempt, poll, seen, faults>>
    BY <1>3 DEF Registry!DownloadAnswered
  <2>2. PICK served : /\ result' = IF Registry!Genuine(served) THEN "accepted" ELSE "failed"
                      /\ refused' = (refused \/ served # "release")
                      /\ served \in {content, "damaged"}
    BY <1>3 DEF Registry!DownloadAnswered
  <2>3. CASE Registry!Genuine(served)
    <3>1. result' = "accepted" /\ content = "release" /\ ~refused' /\ refused' \in BOOLEAN
      BY <2>1, <2>2, <2>3, Asking DEF Registry!Genuine
    <3> QED
      BY <1>0, <2>1, <3>1, Asking, ClientKeeps
  <2>4. CASE ~Registry!Genuine(served)
    <3>1. result' = "failed" /\ refused' /\ refused' \in BOOLEAN
      BY <2>1, <2>2, <2>4, Asking DEF Registry!Genuine
    <3> QED
      BY <1>0, <2>1, <3>1, Asking, ClientKeeps
  <2> QED
    BY <2>3, <2>4
<1> QED
  BY <1>1, <1>2, <1>3 DEF Registry!Answered

(* An answer that exceeds the budget ends the command.                     *)
LEMMA RegistryOver == ASSUME Registry!IInv, Registry!Over PROVE Registry!IInv'
<1> USE RegistryAssumption
<1>1. PICK n \in Nat : Registry!OverBudget(n) /\ n <= Registry!LargestAnswer
  BY DEF Registry!Over, Registry!LargestAnswer, Registry!Larger
<1>2. /\ Registry!RegistryOK' /\ seen' \subseteq Registry!Records
      /\ Registry!SeenInv'
  BY <1>1, RegistryKept DEF Registry!OverBudget, Registry!registryVars
<1> QED
  BY <1>1, <1>2, AnswerSize
  DEF Registry!OverBudget, Registry!Fail, Registry!registryVars, Registry!IInv,
      Registry!TypeOK, Registry!AskingInv, Registry!Results,
      Registry!AcceptedIsPublished, Registry!AbsenceSeen, Registry!NoNeedlessFailure,
      Registry!BytesBounded

(* Faults: the attempts run out, or a refusal ends the command.            *)
LEMMA RegistryFaulty == ASSUME Registry!IInv, Registry!Faulty PROVE Registry!IInv'
<1> USE RegistryAssumption DEF Registry!Account, Registry!registryVars, Registry!Fail
<1>0. ReadAttempts = 3 /\ "failed" \in Registry!Results /\ "none" \in Registry!Results
  BY DEF ReadAttempts, Registry!Results
<1>1. CASE Registry!RunFails
  <2>1. /\ Registry!RegistryOK' /\ seen' \subseteq Registry!Records
        /\ Registry!SeenInv'
    BY <1>1, RegistryKept DEF Registry!RunFails
  <2> QED
    BY <1>0, <1>1, <2>1
    DEF Registry!RunFails, Registry!IInv, Registry!TypeOK, Registry!AskingInv,
        Registry!AcceptedIsPublished, Registry!AbsenceSeen, Registry!NoNeedlessFailure,
        Registry!BytesBounded
<1>2. ASSUME NEW n \in 0..MaxFault, Registry!Permanent(n) PROVE Registry!IInv'
  BY <1>0, <1>2, Asking, ClientKeeps DEF Registry!Permanent
<1>3. ASSUME NEW n \in 0..MaxFault, Registry!Transient(n) PROVE Registry!IInv'
  BY <1>0, <1>3, Asking, ClientKeeps DEF Registry!Transient, Registry!Retry
<1> QED
  BY <1>1, <1>2, <1>3 DEF Registry!Faulty

(* Every step of the three clients keeps the registry's invariant.         *)
LEMMA RegistryNext ==
  Registry!IInv /\ [MCNext]_<<subject, vars, registryVars, archiveVars>> => Registry!IInv'
<1> SUFFICES ASSUME Registry!IInv, [MCNext]_<<subject, vars, registryVars, archiveVars>>
             PROVE  Registry!IInv'
  OBVIOUS
<1>1. CASE Registry!Next
  BY <1>1, RegistryAnswered, RegistryOver, RegistryFaulty, OthersInv
  DEF Registry!Next, Registry!Client
<1>2. CASE UNCHANGED registryVars
  BY <1>2
  DEF registryVars, Registry!IInv, Registry!TypeOK, Registry!RegistryOK, Registry!SeenInv,
      Registry!AskingInv, Registry!AcceptedIsPublished, Registry!AbsenceSeen,
      Registry!NoNeedlessFailure, Registry!BytesBounded
<1> QED
  BY <1>1, <1>2 DEF MCNext

(* What a command learns of crates.io is just (CratesIo, require_archive): *)
(* it accepts only the release's own archive, of a version that was live   *)
(* when its record was read; "absent" was true during the last poll; it    *)
(* fails only for a refusal, three faults, or a spent budget; and takes in *)
(* no more than the budget and one answer.                                 *)
THEOREM RegistryOutcomesAreJust == MCSpec => []OutcomesAreJust
<1>1. MCInit => Registry!IInv
  BY RegistryInit DEF MCInit
<1>2. Registry!IInv => OutcomesAreJust
  BY DEF Registry!IInv, OutcomesAreJust
<1> QED
  BY <1>1, <1>2, RegistryNext, PTL DEF MCSpec
-----------------------------------------------------------------------------
(***************************************************************************)
(* CrateArchive, for any blocks and any limits that 64 bits hold.          *)
(***************************************************************************)
(* A set of numbers that is not empty has a least one.                     *)
LEMMA Least ==
  ASSUME NEW S \in SUBSET Nat, S # {}
  PROVE  \E m \in S : \A x \in S : m <= x
<1> DEFINE R == OpToRel(<, Nat)
<1>1. PICK m \in S : \A x \in S : ~(<<x, m>> \in R)
  BY NatLessThanWellFounded, WFMin
<1>2. \A x \in S : ~(x < m)
  <2> TAKE x \in S
  <2>1. <<x, m>> \in Nat \X Nat /\ <<x, m>>[1] = x /\ <<x, m>>[2] = m
    OBVIOUS
  <2>2. <<x, m>> \notin {ss \in Nat \X Nat : ss[1] < ss[2]}
    BY <1>1 DEF OpToRel
  <2> QED
    BY <2>1, <2>2
<1> QED
  BY <1>2

(* CrateArchive counts as the library's module FiniteSets does.            *)
LEMMA SameCount ==
  ASSUME NEW S
  PROVE  /\ Archive!IsFiniteSet(S) <=> IsFiniteSet(S)
         /\ Archive!Cardinality(S) = Cardinality(S)
  BY DEF Archive!IsFiniteSet, IsFiniteSet, Archive!Cardinality, Cardinality

(* The stride of a pass is the extent of an entry whenever it is within    *)
(* 64 bits, which it is for any size within the limit (checked_add).       *)
LEMMA StrideIsExtent ==
  ASSUME NEW size \in Nat
  PROVE  /\ Archive!Extent(size) \in Nat \ {0}
         /\ Archive!Stride(size) \in Nat
         /\ Archive!Stride(size) <= MaxU64 => Archive!Stride(size) = Archive!Extent(size)
         /\ size <= MaxUnpacked => Archive!Stride(size) = Archive!Extent(size)
<1> DEFINE rounded == size + (BlockBytes - 1)
<1>1. rounded \in Nat /\ rounded \div BlockBytes \in Nat
  BY ArchiveAssumption
<1>2. Archive!Extent(size) = 1 + rounded \div BlockBytes
  <2>1. size + BlockBytes - 1 = rounded
    BY ArchiveAssumption
  <2> QED
    BY <2>1 DEF Archive!Extent
<1>3. Archive!Stride(size) = IF rounded > MaxU64 THEN MaxU64 + 1
                             ELSE 1 + rounded \div BlockBytes
  <2> HIDE DEF rounded
  <2>1. Archive!Sum(size, BlockBytes - 1) = IF rounded > MaxU64 THEN MaxU64 + 1 ELSE rounded
    BY DEF Archive!Sum, rounded
  <2> QED
    BY <1>1, <2>1, ArchiveAssumption DEF Archive!Stride
<1>4. size <= MaxUnpacked => rounded <= MaxU64
  BY ArchiveAssumption
<1> HIDE DEF rounded
<1> QED
  BY <1>1, <1>2, <1>3, <1>4, ArchiveAssumption

(* A block that parses as a header has a size, and an extent.              *)
LEMMA HeaderHasExtent ==
  ASSUME Archive!TypeOK, NEW i \in DOMAIN tar, tar[i].kind = "header"
  PROVE  /\ tar[i].size \in Nat /\ Archive!Extent(tar[i].size) \in Nat \ {0}
         /\ tar[i] # Archive!Zero
<1>1. tar[i] \in Blocks
  BY DEF Archive!TypeOK
<1>2. Archive!Zero.kind = "zero"
  BY DEF Archive!Zero
<1> QED
  BY <1>1, <1>2, ArchiveAssumption, StrideIsExtent

(* A reading ends in a block of zeros, after all of its headers, and each  *)
(* of these leads to the next one or to the end.                           *)
LEMMA ReadingFacts ==
  ASSUME Archive!TypeOK, NEW S \in SUBSET DOMAIN tar, NEW end \in DOMAIN tar,
         Archive!IsReading(S, end)
  PROVE  /\ tar[end] = Archive!Zero /\ end + 1 <= Len(tar)
         /\ 1 \in S \cup {end}
         /\ \A i \in S : /\ i \in Nat /\ tar[i].kind = "header" /\ i < end
                         /\ i + Archive!Extent(tar[i].size) \in S \cup {end}
                         /\ i + Archive!Extent(tar[i].size) <= end
         /\ \A j \in S \cup {end} :
              j = 1 \/ \E i \in S : j = i + Archive!Extent(tar[i].size)
<1> DEFINE next(i) == i + Archive!Extent(tar[i].size)
<1>1. /\ \A i \in S : tar[i].kind = "header"
      /\ {1} \cup {next(i) : i \in S} = S \cup {end}
      /\ end + 1 <= Len(tar) /\ \A j \in end..Len(tar) : tar[j] = Archive!Zero
  BY DEF Archive!IsReading, Archive!AllZeroFrom
<1>2. Len(tar) \in Nat /\ DOMAIN tar = 1..Len(tar)
  BY DEF Archive!TypeOK
<1>3. tar[end] = Archive!Zero
  BY <1>1, <1>2
<1>4. \A i \in S : i \in 1..Len(tar) /\ i < end
  <2> TAKE i \in S
  <2>1. tar[i] # Archive!Zero
    BY <1>1, HeaderHasExtent
  <2> QED
    BY <1>1, <1>2, <2>1
<1>5. \A i \in S : next(i) \in S \cup {end}
  BY <1>1
<1>6. \A j \in S \cup {end} : j = 1 \/ \E i \in S : j = next(i)
  BY <1>1
<1>7. \A i \in S : next(i) <= end
  <2> HIDE DEF next
  <2> QED BY <1>2, <1>4, <1>5
<1> QED
  BY <1>1, <1>2, <1>3, <1>4, <1>5, <1>6, <1>7

(* No header of a reading lies within an entry of it (no block is both     *)
(* contents and header).                                                   *)
LEMMA NoneBetween ==
  ASSUME Archive!TypeOK, NEW S \in SUBSET DOMAIN tar, NEW end \in DOMAIN tar,
         Archive!IsReading(S, end), NEW i0 \in S, NEW j0 \in S, i0 < j0
  PROVE  i0 + Archive!Extent(tar[i0].size) <= j0
<1> DEFINE next(i) == i + Archive!Extent(tar[i].size)
           Hidden == {j \in S : \E i \in S : i < j /\ j < next(i)}
<1>1. /\ S \subseteq Nat \ {0} /\ \A i \in S : next(i) \in Nat /\ next(i) > i
      /\ \A i \in S : i < end
      /\ \A j \in S : j = 1 \/ \E i \in S : j = next(i)
  <2>1. DOMAIN tar \subseteq Nat \ {0}
    BY DEF Archive!TypeOK
  <2>2. /\ \A i \in S : tar[i].kind = "header" /\ i < end
        /\ \A j \in S : j = 1 \/ \E i \in S : j = next(i)
    BY ReadingFacts
  <2>3. \A i \in S : Archive!Extent(tar[i].size) \in Nat \ {0}
    BY <2>2, HeaderHasExtent
  <2>4. \A i \in S : next(i) \in Nat /\ next(i) > i
    BY <2>1, <2>3
  <2> QED
    BY <2>1, <2>2, <2>4
<1> HIDE DEF next
<1>2. Hidden = {}
  <2> SUFFICES ASSUME Hidden # {} PROVE FALSE
    OBVIOUS
  <2>1. PICK j \in Hidden : \A x \in Hidden : j <= x
    <3>1. Hidden \in SUBSET Nat
      BY <1>1
    <3> QED BY <3>1, Least
  <2>2. PICK i \in S : i < j /\ j < next(i)
    OBVIOUS
  <2>3. j # 1 /\ j \in S
    BY <1>1, <2>2
  <2>4. PICK k \in S : j = next(k)
    BY <1>1, <2>3
  <2>5. k < j /\ k # i
    BY <1>1, <2>2, <2>4
  <2>6. CASE k < i
    <3>1. i \in Hidden
      BY <2>2, <2>4, <2>6
    <3> QED BY <1>1, <2>1, <2>2, <2>3, <3>1
  <2>7. CASE i < k
    <3>1. k \in Hidden
      BY <1>1, <2>2, <2>3, <2>5, <2>7
    <3> QED BY <1>1, <2>1, <2>3, <2>5, <3>1
  <2> QED
    BY <1>1, <2>5, <2>6, <2>7
<1>3. ~(j0 < next(i0))
  BY <1>2
<1> QED
  BY <1>1, <1>3 DEF next

(* The running totals of two sets agree as far as the sets do.             *)
LEMMA TotalsAgree ==
  ASSUME Archive!TypeOK, NEW S, NEW T, NEW f \in Archive!Totals, NEW g \in Archive!Totals,
         Archive!IsTotal(S, f), Archive!IsTotal(T, g), NEW n \in 1..Len(tar) + 1,
         \A i \in DOMAIN tar : i < n => (i \in S <=> i \in T)
  PROVE  f[n] = g[n]
<1> DEFINE Apart == {k \in 1..n : f[k] # g[k]}
<1>1. Len(tar) \in Nat /\ DOMAIN tar = 1..Len(tar)
  BY DEF Archive!TypeOK
<1>2. Apart = {}
  <2> SUFFICES ASSUME Apart # {} PROVE FALSE
    OBVIOUS
  <2>1. PICK m \in Apart : \A x \in Apart : m <= x
    <3>1. Apart \in SUBSET Nat
      BY <1>1
    <3> QED BY <3>1, Least
  <2>2. m \in 1..n /\ f[m] # g[m]
    OBVIOUS
  <2>3. m # 1
    BY <2>2 DEF Archive!IsTotal
  <2>4. /\ m - 1 \in DOMAIN tar /\ m - 1 \in 1..n /\ m - 1 < n /\ (m - 1) + 1 = m
        /\ ~(m <= m - 1)
    BY <1>1, <2>2, <2>3
  <2>5. f[m - 1] = g[m - 1]
    BY <2>1, <2>4
  <2>6. m - 1 \in S <=> m - 1 \in T
    BY <2>4
  <2>7. f[(m - 1) + 1] = g[(m - 1) + 1]
    BY <2>4, <2>5, <2>6 DEF Archive!IsTotal
  <2> QED
    BY <2>2, <2>4, <2>7
<1> QED
  BY <1>1, <1>2

(* What is said of the blocks alone stays, for no pass changes them.       *)
LEMMA SameBlocks ==
  ASSUME tar' = tar, NEW S, NEW end
  PROVE  /\ Archive!Chain(S, end)' <=> Archive!Chain(S, end)
         /\ Archive!IsReading(S, end)' <=> Archive!IsReading(S, end)
         /\ Archive!Totals' = Archive!Totals
         /\ \A f : Archive!IsTotal(S, f)' <=> Archive!IsTotal(S, f)
         /\ Archive!IsCanonical(S)' <=> Archive!IsCanonical(S)
         /\ Archive!IsBoundReading(S, end)' <=> Archive!IsBoundReading(S, end)
<1>1. /\ Archive!Totals' = Archive!Totals
      /\ \A f : Archive!IsTotal(S, f)' <=> Archive!IsTotal(S, f)
  BY DEF Archive!Totals, Archive!IsTotal
<1>2. Archive!IsReading(S, end)' <=> Archive!IsReading(S, end)
  BY DEF Archive!IsReading, Archive!AllZeroFrom, Archive!Zero, Archive!Extent
<1>3. Archive!IsCanonical(S)' <=> Archive!IsCanonical(S)
  BY <1>1 DEF Archive!IsCanonical, Archive!CargoMetadata, Archive!SafePath
<1>4. Archive!IsBoundReading(S, end)' <=> Archive!IsBoundReading(S, end)
  BY <1>2, <1>3 DEF Archive!IsBoundReading, Archive!Extent, Archive!Refused
<1>5. Archive!Chain(S, end)' <=> Archive!Chain(S, end)
  BY DEF Archive!Chain, Archive!Extent
<1> QED
  BY <1>1, <1>2, <1>3, <1>4, <1>5

(* A refusal keeps the invariant if nothing Cargo wrote is refused.        *)
LEMMA RejectKeeps ==
  ASSUME Archive!IInv, Archive!Reject,
         \A S \in SUBSET DOMAIN tar, end \in DOMAIN tar :
           ~(Archive!Decompressed /\ Archive!IsBoundReading(S, end))
  PROVE  Archive!IInv'
<1> USE DEF Archive!IInv, Archive!Reject
<1>1. /\ pc' = "rejected" /\ pc' \notin Archive!Passes /\ pc' # "accepted"
      /\ UNCHANGED <<single, tar, offset, files, count, total>>
  BY DEF Archive!Passes
<1>2. Archive!TypeOK'
  BY <1>1 DEF Archive!TypeOK, Archive!Passes
<1>3. Archive!PassInv' /\ Archive!TotalInv' /\ Archive!FollowsInv' /\ Archive!OneReading'
  BY <1>1
  DEF Archive!PassInv, Archive!TotalInv, Archive!FollowsInv, Archive!OneReading,
      Archive!Passes
<1>4. Archive!FilesInv'
  BY <1>1 DEF Archive!FilesInv, Archive!Starts
<1>5. Archive!CanonicalAccepted'
  <2>1. Archive!Decompressed' = Archive!Decompressed
    BY <1>1 DEF Archive!Decompressed
  <2>2. DOMAIN tar = 1..Len(tar)
    BY DEF Archive!TypeOK
  <2> SUFFICES ASSUME Archive!Decompressed,
                      NEW S \in SUBSET {i \in DOMAIN tar : tar[i].kind = "header"},
                      NEW end \in 1..Len(tar), Archive!IsBoundReading(S, end)'
               PROVE  FALSE
    BY <1>1, <2>1 DEF Archive!CanonicalAccepted
  <2>3. Archive!IsBoundReading(S, end)
    BY <1>1, SameBlocks
  <2> QED
    BY <2>2, <2>3
<1> QED
  BY <1>2, <1>3, <1>4, <1>5

(* Where a pass is, any reading of the tar has a header or ends; at a      *)
(* header, the next one or the end is as far as its extent.                *)
LEMMA AtHeader ==
  ASSUME Archive!IInv, pc \in Archive!Passes,
         NEW S \in SUBSET DOMAIN tar, NEW end \in DOMAIN tar, Archive!IsReading(S, end)
  PROVE  /\ offset \in Nat /\ Len(tar) \in Nat /\ offset < Len(tar)
         /\ tar[offset + 1] = Archive!Zero =>
              offset + 1 = end /\ Archive!Terminated(offset + 1)
         /\ tar[offset + 1] # Archive!Zero =>
              /\ offset + 1 \in S /\ tar[offset + 1].kind = "header"
              /\ tar[offset + 1].size \in Nat
              /\ Archive!Extent(tar[offset + 1].size) \in Nat \ {0}
              /\ offset + Archive!Extent(tar[offset + 1].size) + 1 \in S \cup {end}
              /\ offset + Archive!Extent(tar[offset + 1].size) < Len(tar)
<1> USE DEF Archive!IInv
<1>1. offset + 1 \in S \cup {end}
  BY DEF Archive!FollowsInv
<1>2. offset \in Nat /\ Len(tar) \in Nat /\ DOMAIN tar = 1..Len(tar)
  BY DEF Archive!TypeOK
<1>3. offset < Len(tar)
  BY <1>1, <1>2
<1>4. ASSUME tar[offset + 1] = Archive!Zero
      PROVE  offset + 1 = end /\ Archive!Terminated(offset + 1)
  <2>1. offset + 1 \notin S
    BY <1>4, ReadingFacts, HeaderHasExtent
  <2>2. offset + 1 = end
    BY <1>1, <2>1
  <2>3. /\ offset + 1 + 1 <= Len(tar)
        /\ \A j \in (offset + 1)..Len(tar) : tar[j] = Archive!Zero
    BY <2>2 DEF Archive!IsReading, Archive!AllZeroFrom
  <2>4. \A j \in (offset + 1 + 1)..Len(tar) : tar[j] = Archive!Zero
    BY <1>2, <2>3
  <2> QED
    BY <2>2, <2>3, <2>4 DEF Archive!Terminated, Archive!AllZeroFrom
<1>5. ASSUME tar[offset + 1] # Archive!Zero
      PROVE  /\ offset + 1 \in S /\ tar[offset + 1].kind = "header"
             /\ tar[offset + 1].size \in Nat
             /\ Archive!Extent(tar[offset + 1].size) \in Nat \ {0}
             /\ offset + Archive!Extent(tar[offset + 1].size) + 1 \in S \cup {end}
             /\ offset + Archive!Extent(tar[offset + 1].size) < Len(tar)
  <2> DEFINE extent == Archive!Extent(tar[offset + 1].size)
  <2>1. offset + 1 \in S
    BY <1>1, <1>5, ReadingFacts
  <2>2. /\ tar[offset + 1].kind = "header"
        /\ (offset + 1) + extent \in S \cup {end} /\ (offset + 1) + extent <= end
    BY <2>1, ReadingFacts
  <2>3. tar[offset + 1].size \in Nat /\ extent \in Nat \ {0}
    BY <2>1, <2>2, HeaderHasExtent
  <2> HIDE DEF extent
  <2>4. (offset + 1) + extent = offset + extent + 1
    BY <1>2, <2>3
  <2>5. offset + extent < Len(tar)
    BY <1>2, <2>2, <2>3
  <2> QED
    BY <2>1, <2>2, <2>3, <2>4, <2>5 DEF extent
<1> QED
  BY <1>2, <1>3, <1>4, <1>5

(* In a canonical reading the size of a header is within the limit, so its *)
(* stride is its extent and the pass is led to the next header.            *)
LEMMA CanonicalStride ==
  ASSUME Archive!TypeOK, NEW S \in SUBSET DOMAIN tar, NEW end \in DOMAIN tar,
         Archive!IsReading(S, end), Archive!IsCanonical(S), NEW i \in S
  PROVE  Archive!Stride(tar[i].size) = Archive!Extent(tar[i].size)
<1>1. tar[i].kind = "header" /\ tar[i].size \in Nat
  BY ReadingFacts, HeaderHasExtent
<1>2. PICK f \in Archive!Totals : Archive!IsTotal(S, f)
  BY DEF Archive!IsCanonical
<1>3. i \in 1..Len(tar) + 1 /\ i + 1 \in 1..Len(tar) + 1
  BY DEF Archive!TypeOK
<1>4. f[i] \in 0..MaxUnpacked /\ f[i + 1] \in 0..MaxUnpacked
  BY <1>2, <1>3 DEF Archive!Totals
<1>5. f[i + 1] = f[i] + tar[i].size
  BY <1>2 DEF Archive!IsTotal
<1>6. tar[i].size <= MaxUnpacked
  BY <1>1, <1>4, <1>5, ArchiveAssumption
<1> QED
  BY <1>1, <1>6, StrideIsExtent

-----------------------------------------------------------------------------
(* Before any entry is read, no header is a start and every total is zero. *)
LEMMA NothingRead ==
  ASSUME tar \in Seq(Blocks), files = <<>>
  PROVE  /\ Archive!Starts = {}
         /\ \E f \in Archive!Totals : /\ Archive!IsTotal(Archive!Starts, f)
                                      /\ \A i \in 1..Len(tar) + 1 : f[i] = 0
<1> DEFINE f == [i \in 1..Len(tar) + 1 |-> 0]
<1>1. Archive!Starts = {}
  BY DEF Archive!Starts
<1>2. f \in Archive!Totals
  BY ArchiveAssumption DEF Archive!Totals
<1>3. \A i \in 1..Len(tar) + 1 : f[i] = 0
  OBVIOUS
<1>4. Archive!IsTotal(Archive!Starts, f)
  BY <1>1 DEF Archive!IsTotal
<1> HIDE DEF f
<1> QED
  BY <1>1, <1>2, <1>3, <1>4

(* No file has been read when an inspection begins, and of an archive that *)
(* is not inspected nothing is ever read.                                  *)
LEMMA ArchiveInit == Archive!Init \/ NoArchive => Archive!IInv
<1> SUFFICES ASSUME Archive!Init \/ NoArchive PROVE Archive!IInv
  OBVIOUS
<1>1. /\ tar \in Seq(Blocks) /\ Len(tar) \in Nat /\ Len(tar) <= TarBlocks
      /\ DOMAIN tar = 1..Len(tar) /\ single \in BOOLEAN
  <2>1. CASE Archive!Init
    <3>1. PICK n \in 0..TarBlocks : tar \in [1..n -> Blocks]
      BY <2>1 DEF Archive!Init
    <3>2. n \in Nat /\ n <= TarBlocks
      BY ArchiveAssumption
    <3>3. /\ tar \in Seq(Blocks) /\ Len(tar) \in Nat /\ Len(tar) <= TarBlocks
          /\ DOMAIN tar = 1..Len(tar)
      <4>1. tar \in Seq(Blocks)
        BY <3>1, <3>2
      <4>2. DOMAIN tar = 1..n
        BY <3>1
      <4>3. Len(tar) = n
        BY <3>2, <4>1, <4>2
      <4> QED
        BY <3>2, <4>1, <4>2, <4>3
    <3> QED
      BY <2>1, <3>3 DEF Archive!Init
  <2>2. CASE NoArchive
    <3>1. tar = <<>> /\ single = FALSE
      BY <2>2 DEF NoArchive
    <3>2. <<>> \in Seq(Blocks) /\ Len(<<>>) = 0 /\ DOMAIN <<>> = 1..0
      OBVIOUS
    <3>3. TarBlocks \in Nat
      BY ArchiveAssumption
    <3>4. Len(tar) = 0 /\ tar \in Seq(Blocks) /\ DOMAIN tar = 1..0
      BY <3>1, <3>2
    <3>5. /\ tar \in Seq(Blocks) /\ Len(tar) \in Nat /\ Len(tar) <= TarBlocks
          /\ DOMAIN tar = 1..Len(tar)
      BY <3>3, <3>4
    <3> QED
      BY <3>1, <3>5
  <2> QED
    BY <2>1, <2>2
<1>2. /\ files = <<>> /\ DOMAIN files = {} /\ count = 0 /\ total = 0 /\ offset = 0
      /\ pc = "termination" \/ (pc = "rejected" /\ ~single)
  BY DEF Archive!Init, NoArchive
<1>3. Archive!TypeOK
  BY <1>1, <1>2, ArchiveAssumption DEF Archive!TypeOK, Archive!Passes
<1>4. /\ Archive!Starts = {}
      /\ \E f \in Archive!Totals : /\ Archive!IsTotal(Archive!Starts, f)
                                   /\ \A i \in 1..Len(tar) + 1 : f[i] = 0
  BY <1>1, <1>2, NothingRead
<1>5. Archive!PassInv
  <2>1. Archive!Chain({}, offset + 1)
    BY <1>2 DEF Archive!Chain
  <2> QED
    BY <1>2, <2>1 DEF Archive!PassInv, Archive!Passes
<1>6. Archive!FilesInv
  <2>1. Archive!IsFiniteSet({}) /\ Archive!Cardinality({}) = 0
    BY FS_EmptySet, SameCount
  <2>2. count <= MaxFiles /\ pc # "entries"
    BY <1>2, ArchiveAssumption
  <2>3. Archive!IsFiniteSet(Archive!Starts) /\ Archive!Cardinality(Archive!Starts) = count
    BY <1>2, <1>4, <2>1
  <2> QED
    BY <2>2, <2>3 DEF Archive!FilesInv
<1>7. Archive!TotalInv
  <2>1. offset + 1 = 1
    BY <1>2
  <2> QED
    BY <1>2, <1>4, <2>1 DEF Archive!TotalInv
<1>8. Archive!FollowsInv
  <2> SUFFICES ASSUME NEW S \in SUBSET DOMAIN tar, NEW end \in DOMAIN tar,
                      Archive!IsReading(S, end)
               PROVE  offset + 1 \in S \cup {end}
    BY <1>2 DEF Archive!FollowsInv
  <2> QED
    BY <1>2, <1>3, ReadingFacts
<1>9. Archive!OneReading /\ Archive!CanonicalAccepted
  BY <1>2 DEF Archive!OneReading, Archive!CanonicalAccepted, Archive!Decompressed
<1> QED
  BY <1>3, <1>5, <1>6, <1>7, <1>8, <1>9 DEF Archive!IInv

(* What does not decompress, or has no room for its end, is refused        *)
(* (validate_tar_termination).                                             *)
LEMMA TerminationStartsInv ==
  ASSUME Archive!IInv, Archive!TerminationStarts PROVE Archive!IInv'
<1>1. ASSUME NEW S \in SUBSET DOMAIN tar, NEW end \in DOMAIN tar,
             Archive!Decompressed, Archive!IsBoundReading(S, end)
      PROVE  FALSE
  <2>1. end + 1 <= Len(tar) /\ end >= 1 /\ end \in Nat /\ Len(tar) \in Nat
    BY <1>1 DEF Archive!IsBoundReading, Archive!IsReading, Archive!IInv, Archive!TypeOK
  <2> QED
    BY <1>1, <2>1 DEF Archive!TerminationStarts
<1> QED
  BY <1>1, RejectKeeps DEF Archive!TerminationStarts

(* Blocks that lead past the last one are those of no reading.             *)
LEMMA TerminationMissingInv ==
  ASSUME Archive!IInv, Archive!TerminationMissing PROVE Archive!IInv'
<1>1. ASSUME NEW S \in SUBSET DOMAIN tar, NEW end \in DOMAIN tar,
             Archive!Decompressed, Archive!IsBoundReading(S, end)
      PROVE  FALSE
  <2>1. pc \in Archive!Passes /\ offset = Len(tar)
    BY DEF Archive!TerminationMissing, Archive!Passes
  <2>2. Archive!IsReading(S, end)
    BY <1>1 DEF Archive!IsBoundReading
  <2>3. offset \in Nat /\ offset < Len(tar)
    BY <2>1, <2>2, AtHeader
  <2> QED
    BY <2>1, <2>3
<1> QED
  BY <1>1, RejectKeeps DEF Archive!TerminationMissing

(* The headers of a chain, with the one it leads to, are a chain.          *)
LEMMA ChainGrows ==
  ASSUME Archive!TypeOK, NEW S, NEW o \in Nat, Archive!Chain(S, o + 1),
         o < Len(tar), tar[o + 1].kind = "header"
  PROVE  Archive!Chain(S \cup {o + 1}, o + Archive!Extent(tar[o + 1].size) + 1)
<1> DEFINE next(i) == i + Archive!Extent(tar[i].size)
<1>1. o + 1 \in DOMAIN tar
  BY DEF Archive!TypeOK
<1>2. next(o + 1) = o + Archive!Extent(tar[o + 1].size) + 1
  BY <1>1, HeaderHasExtent
<1>3. {1} \cup {next(i) : i \in S} = S \cup {o + 1}
  BY DEF Archive!Chain
<1> HIDE DEF next
<1>4. {1} \cup {next(i) : i \in S \cup {o + 1}} = S \cup {o + 1} \cup {next(o + 1)}
  BY <1>3
<1>5. S \cup {o + 1} \subseteq DOMAIN tar /\ \A i \in S \cup {o + 1} : tar[i].kind = "header"
  BY <1>1 DEF Archive!Chain
<1> QED
  BY <1>2, <1>4, <1>5 DEF Archive!Chain, next

(* The first pass goes from a header to the next one of any reading.       *)
LEMMA TerminationStepInv ==
  ASSUME Archive!IInv, Archive!TerminationStep PROVE Archive!IInv'
<1> DEFINE h == tar[offset + 1]
<1>0. /\ pc \in Archive!Passes /\ offset \in Nat /\ Len(tar) \in Nat
      /\ DOMAIN tar = 1..Len(tar) /\ offset < Len(tar) /\ offset + 1 \in DOMAIN tar
      /\ Archive!TypeOK
  BY DEF Archive!TerminationStep, Archive!IInv, Archive!TypeOK, Archive!Passes
<1>1. CASE Archive!HasSize(h) /\ offset + Archive!Stride(h.size) <= Len(tar)
  <2>1. /\ offset' = offset + Archive!Stride(h.size)
        /\ UNCHANGED <<single, tar, pc, files, count, total>>
        /\ pc = "termination" /\ Archive!Decompressed
    BY <1>1 DEF Archive!TerminationStep
  <2>2. h.kind = "header" /\ h.size \in Nat
    BY <1>0, <1>1, HeaderHasExtent DEF Archive!HasSize
  <2>3. /\ Archive!Extent(h.size) \in Nat \ {0}
        /\ offset' = offset + Archive!Extent(h.size) /\ offset' <= Len(tar)
    <3> HIDE DEF h
    <3>0. Len(tar) <= MaxBlocks
      BY <2>1 DEF Archive!Decompressed
    <3>1. Archive!Stride(h.size) \in Nat /\ offset + Archive!Stride(h.size) <= Len(tar)
      BY <1>1, <2>2, StrideIsExtent
    <3>2. Archive!Stride(h.size) <= MaxU64
      BY <1>0, <3>0, <3>1, ArchiveAssumption
    <3> QED
      BY <2>1, <2>2, <3>1, <3>2, StrideIsExtent
  <2>4. Archive!TypeOK'
    <3>1. offset' \in 0..Len(tar)
      BY <1>0, <2>3
    <3> QED
      BY <1>0, <2>1, <3>1 DEF Archive!TypeOK
  <2>5. Archive!PassInv'
    <3>1. PICK S \in SUBSET (1..offset) : Archive!Chain(S, offset + 1)
      BY <2>1 DEF Archive!IInv, Archive!PassInv, Archive!Passes
    <3>2. Archive!Chain(S \cup {offset + 1}, offset + Archive!Extent(h.size) + 1)
      BY <1>0, <2>2, <3>1, ChainGrows
    <3>3. Archive!Chain(S \cup {offset + 1}, offset' + 1)
      BY <2>3, <3>2
    <3>4. S \cup {offset + 1} \in SUBSET (1..offset')
      BY <1>0, <2>3
    <3>5. \E T \in SUBSET (1..offset') : Archive!Chain(T, offset' + 1)
      BY <3>3, <3>4
    <3> HIDE DEF h
    <3> QED
      BY <2>1, <3>5
      DEF Archive!IInv, Archive!PassInv, Archive!Passes, Archive!Decompressed,
          Archive!Chain, Archive!Extent
  <2>6. Archive!FilesInv' /\ Archive!OneReading' /\ Archive!CanonicalAccepted'
    BY <2>1
    DEF Archive!IInv, Archive!FilesInv, Archive!OneReading, Archive!CanonicalAccepted,
        Archive!Starts
  <2>7. Archive!TotalInv'
    <3>1. PICK f \in Archive!Totals : /\ Archive!IsTotal(Archive!Starts, f)
                                      /\ \A i \in offset + 1..Len(tar) + 1 : f[i] = total
      BY <1>0 DEF Archive!IInv, Archive!TotalInv
    <3>2. \A i \in offset' + 1..Len(tar) + 1 : f[i] = total
      <4> HIDE DEF h
      <4> QED BY <1>0, <2>3, <3>1
    <3>3. f \in Archive!Totals' /\ Archive!IsTotal(Archive!Starts, f)'
      BY <2>1, <3>1 DEF Archive!Totals, Archive!IsTotal, Archive!Starts
    <3> QED
      BY <2>1, <3>2, <3>3 DEF Archive!TotalInv
  <2>8. Archive!FollowsInv'
    <3> SUFFICES ASSUME NEW S \in SUBSET DOMAIN tar, NEW end \in DOMAIN tar,
                        Archive!IsReading(S, end)'
                 PROVE  offset' + 1 \in S \cup {end}
      BY <2>1 DEF Archive!FollowsInv
    <3>1. Archive!IsReading(S, end)
      BY <2>1, SameBlocks
    <3>2. offset + Archive!Extent(tar[offset + 1].size) + 1 \in S \cup {end}
      BY <1>0, <3>1, AtHeader DEF Archive!TerminationStep
    <3> QED
      BY <2>3, <3>2
  <2> QED
    BY <2>4, <2>5, <2>6, <2>7, <2>8 DEF Archive!IInv
<1>2. CASE ~(Archive!HasSize(h) /\ offset + Archive!Stride(h.size) <= Len(tar))
  <2>1. ASSUME NEW S \in SUBSET DOMAIN tar, NEW end \in DOMAIN tar,
               Archive!Decompressed, Archive!IsBoundReading(S, end)
        PROVE  FALSE
    <3>1. Archive!IsReading(S, end) /\ Archive!IsCanonical(S) /\ h # Archive!Zero
      BY <2>1 DEF Archive!IsBoundReading, Archive!TerminationStep
    <3>2. /\ offset + 1 \in S /\ h.kind = "header"
          /\ offset + Archive!Extent(h.size) < Len(tar)
          /\ Archive!Extent(h.size) \in Nat
      BY <1>0, <3>1, AtHeader
    <3>3. Archive!Stride(h.size) = Archive!Extent(h.size)
      BY <1>0, <3>1, <3>2, CanonicalStride
    <3> HIDE DEF h
    <3> QED
      BY <1>0, <1>2, <3>2, <3>3 DEF Archive!HasSize
  <2>2. Archive!Reject
    BY <1>2 DEF Archive!TerminationStep
  <2> QED
    BY <2>1, <2>2, RejectKeeps
<1> QED
  BY <1>1, <1>2

(* A chain that ends in zeros and nothing else is a reading of the tar, and *)
(* the second pass begins where every reading does.                        *)
LEMMA TerminationFoundInv ==
  ASSUME Archive!IInv, Archive!TerminationFound PROVE Archive!IInv'
<1>0. /\ pc = "termination" /\ pc \in Archive!Passes /\ offset \in Nat /\ Len(tar) \in Nat
      /\ DOMAIN tar = 1..Len(tar) /\ offset < Len(tar) /\ offset + 1 \in DOMAIN tar
      /\ tar \in Seq(Blocks) /\ Archive!TypeOK /\ tar[offset + 1] = Archive!Zero
      /\ Archive!Decompressed
  BY DEF Archive!TerminationFound, Archive!IInv, Archive!TypeOK, Archive!Passes
<1>1. CASE Archive!Terminated(offset + 1)
  <2>1. /\ pc' = "entries" /\ offset' = 0
        /\ UNCHANGED <<single, tar, files, count, total>>
    BY <1>1 DEF Archive!TerminationFound
  <2>2. /\ files = <<>> /\ DOMAIN files = {} /\ count = 0 /\ total = 0
        /\ \E S \in SUBSET (1..offset) : Archive!Chain(S, offset + 1)
    BY <1>0 DEF Archive!IInv, Archive!PassInv
  <2>3. /\ Archive!Starts = {} /\ Archive!Starts' = {}
        /\ \E f \in Archive!Totals : /\ Archive!IsTotal(Archive!Starts, f)
                                     /\ \A i \in 1..Len(tar) + 1 : f[i] = 0
    BY <1>0, <2>1, <2>2, NothingRead DEF Archive!Starts
  <2>4. Archive!TypeOK'
    BY <1>0, <2>1 DEF Archive!TypeOK, Archive!Passes
  <2>5. Archive!PassInv'
    <3>1. PICK S \in SUBSET (1..offset) : Archive!Chain(S, offset + 1)
      BY <2>2
    <3>2. offset + 1 + 1 <= Len(tar) /\ Archive!AllZeroFrom(offset + 1)
      BY <1>0, <1>1 DEF Archive!Terminated, Archive!AllZeroFrom
    <3>3. Archive!IsReading(S, offset + 1)
      BY <3>1, <3>2 DEF Archive!IsReading, Archive!Chain
    <3>4. S \in SUBSET DOMAIN tar
      <4>1. 1..offset \subseteq DOMAIN tar
        BY <1>0
      <4> QED BY <4>1
    <3>5. \E T \in SUBSET DOMAIN tar, end \in DOMAIN tar : Archive!IsReading(T, end)
      BY <1>0, <3>3, <3>4
    <3>6. (\E T \in SUBSET DOMAIN tar, end \in DOMAIN tar : Archive!IsReading(T, end))'
      BY <2>1, <3>5, SameBlocks
    <3>7. Archive!Chain(Archive!Starts, offset + 1)'
      BY <2>1, <2>3 DEF Archive!Chain
    <3>8. Archive!Decompressed'
      BY <1>0, <2>1 DEF Archive!Decompressed
    <3> QED
      BY <2>1, <3>6, <3>7, <3>8 DEF Archive!PassInv
  <2>6. Archive!FilesInv'
    <3>1. /\ Archive!IsFiniteSet(Archive!Starts) /\ Archive!Cardinality(Archive!Starts) = count
          /\ count <= MaxFiles
      BY DEF Archive!IInv, Archive!FilesInv
    <3>2. Archive!IsFiniteSet(Archive!Starts') /\ Archive!Cardinality(Archive!Starts') = count'
      BY <2>1, <2>3, <3>1
    <3> QED
      BY <2>1, <2>2, <3>1, <3>2 DEF Archive!FilesInv, Archive!IsFiniteSet, Archive!Cardinality
  <2>7. Archive!TotalInv'
    <3>1. PICK f \in Archive!Totals : /\ Archive!IsTotal(Archive!Starts, f)
                                      /\ \A i \in 1..Len(tar) + 1 : f[i] = 0
      BY <2>3
    <3>2. f \in Archive!Totals' /\ Archive!IsTotal(Archive!Starts, f)'
      BY <2>1, <3>1 DEF Archive!Totals, Archive!IsTotal, Archive!Starts
    <3>3. offset' + 1 = 1 /\ total' = 0
      BY <2>1, <2>2
    <3>4. (\A i \in offset + 1..Len(tar) + 1 : f[i] = total)'
      BY <2>1, <3>1, <3>3
    <3> QED
      BY <3>2, <3>4 DEF Archive!TotalInv
  <2>8. Archive!FollowsInv'
    <3> SUFFICES ASSUME NEW S \in SUBSET DOMAIN tar, NEW end \in DOMAIN tar,
                        Archive!IsReading(S, end)'
                 PROVE  offset' + 1 \in S \cup {end} /\ Archive!Starts' = {i \in S : i <= offset'}
      BY <2>1 DEF Archive!FollowsInv
    <3>1. Archive!IsReading(S, end)
      BY <2>1, SameBlocks
    <3>2. 1 \in S \cup {end}
      BY <1>0, <3>1, ReadingFacts
    <3>3. \A i \in S : ~(i <= 0)
      BY <1>0
    <3> QED
      BY <2>1, <2>3, <3>2, <3>3
  <2>9. Archive!OneReading' /\ Archive!CanonicalAccepted'
    BY <2>1 DEF Archive!OneReading, Archive!CanonicalAccepted
  <2> QED
    BY <2>4, <2>5, <2>6, <2>7, <2>8, <2>9 DEF Archive!IInv
<1>2. CASE ~Archive!Terminated(offset + 1)
  <2>1. ASSUME NEW S \in SUBSET DOMAIN tar, NEW end \in DOMAIN tar,
               Archive!Decompressed, Archive!IsBoundReading(S, end)
        PROVE  FALSE
    <3>1. Archive!IsReading(S, end)
      BY <2>1 DEF Archive!IsBoundReading
    <3> QED
      BY <1>0, <1>2, <3>1, AtHeader
  <2>2. Archive!Reject
    BY <1>2 DEF Archive!TerminationFound
  <2> QED
    BY <2>1, <2>2, RejectKeeps
<1> QED
  BY <1>1, <1>2

-----------------------------------------------------------------------------
(* At the end of the second pass the entries it read are the reading that  *)
(* the first pass found (inspect_archive_entries).                         *)
LEMMA EntriesAreTheReading ==
  ASSUME Archive!IInv, pc = "entries", Archive!AtEnd(offset), count > 0
  PROVE  /\ Archive!Cardinality(Archive!Starts) = count
         /\ \E end \in 1..Len(tar) : Archive!IsReading(Archive!Starts, end)
         /\ Archive!IsCanonical(Archive!Starts)
         /\ \A p \in DOMAIN files : tar[files[p].at + 1].path = p
<1>0. /\ pc \in Archive!Passes /\ offset \in Nat /\ Len(tar) \in Nat
      /\ DOMAIN tar = 1..Len(tar) /\ Archive!TypeOK /\ count \in Nat
  BY ArchiveAssumption DEF Archive!IInv, Archive!TypeOK, Archive!Passes
<1>1. PICK S \in SUBSET DOMAIN tar, end \in DOMAIN tar : Archive!IsReading(S, end)
  BY <1>0 DEF Archive!IInv, Archive!PassInv
<1>2. offset + 1 = end
  <2>1. offset < Len(tar)
    BY <1>0, <1>1, AtHeader
  <2>2. tar[offset + 1] = Archive!Zero
    BY <1>0, <2>1 DEF Archive!AtEnd
  <2> QED
    BY <1>0, <1>1, <2>2, AtHeader
<1>3. Archive!Chain(Archive!Starts, end)
  BY <1>0, <1>2 DEF Archive!IInv, Archive!PassInv
<1>4. Archive!IsReading(Archive!Starts, end)
  BY <1>1, <1>3 DEF Archive!IsReading, Archive!Chain
<1>5. /\ Archive!IsFiniteSet(Archive!Starts) /\ Archive!Cardinality(Archive!Starts) = count
      /\ count <= MaxFiles
  BY DEF Archive!IInv, Archive!FilesInv
<1>6. \A p \in DOMAIN files :
        /\ tar[files[p].at + 1].path = p
        /\ Archive!CargoMetadata(tar[files[p].at + 1]) /\ Archive!SafePath(tar[files[p].at + 1])
  BY DEF Archive!IInv, Archive!FilesInv
<1>7. Archive!IsCanonical(Archive!Starts)
  <2>1. \A i \in Archive!Starts : Archive!CargoMetadata(tar[i]) /\ Archive!SafePath(tar[i])
    BY <1>6 DEF Archive!Starts
  <2>2. \A i, j \in Archive!Starts : tar[i].path = tar[j].path => i = j
    BY <1>6 DEF Archive!Starts
  <2>3. Archive!Starts # {}
    <3>1. Archive!Cardinality({}) = 0
      BY FS_EmptySet, SameCount
    <3>2. Archive!Cardinality(Archive!Starts) # 0
      BY <1>0, <1>5
    <3> QED
      BY <3>1, <3>2
  <2>4. \E f \in Archive!Totals : Archive!IsTotal(Archive!Starts, f)
    BY <1>0 DEF Archive!IInv, Archive!TotalInv
  <2> QED
    BY <1>5, <2>1, <2>2, <2>3, <2>4 DEF Archive!IsCanonical
<1> QED
  BY <1>0, <1>4, <1>5, <1>6, <1>7

(* The entries of a bound reading are found to be bound (parse_vcs_info).  *)
LEMMA BoundIsFound ==
  ASSUME Archive!IInv, pc = "entries", Archive!AtEnd(offset),
         NEW S \in SUBSET DOMAIN tar, NEW end \in DOMAIN tar,
         Archive!IsBoundReading(S, end)
  PROVE  count > 0 /\ Archive!Bound
<1>0. /\ pc \in Archive!Passes /\ offset \in Nat /\ Len(tar) \in Nat
      /\ DOMAIN tar = 1..Len(tar) /\ Archive!TypeOK /\ count \in Nat /\ tar \in Seq(Blocks)
  BY ArchiveAssumption DEF Archive!IInv, Archive!TypeOK, Archive!Passes
<1>1. Archive!IsReading(S, end) /\ Archive!IsCanonical(S)
  BY DEF Archive!IsBoundReading
<1>2. offset + 1 = end
  <2>1. offset < Len(tar)
    BY <1>0, <1>1, AtHeader
  <2>2. tar[offset + 1] = Archive!Zero
    BY <1>0, <2>1 DEF Archive!AtEnd
  <2> QED
    BY <1>0, <1>1, <2>2, AtHeader
<1>3. Archive!Starts = S
  <2>1. Archive!Starts = {i \in S : i <= offset}
    BY <1>0, <1>1 DEF Archive!IInv, Archive!FollowsInv
  <2>2. \A i \in S : i \in Nat /\ i < end
    BY <1>0, <1>1, ReadingFacts
  <2> QED
    BY <1>0, <1>2, <2>1, <2>2
<1>4. count > 0
  <2>1. /\ IsFiniteSet(Archive!Starts) /\ Cardinality(Archive!Starts) = count
        /\ Archive!Starts # {}
    BY <1>1, <1>3, SameCount DEF Archive!IInv, Archive!FilesInv, Archive!IsCanonical
  <2>2. count # 0
    BY <2>1, FS_EmptySet
  <2> QED
    BY <1>0, <2>2
<1>5. PICK i \in S : /\ tar[i].path = Vcs
                     /\ Archive!Extent(tar[i].size) = 2
                     /\ tar[i + 1].kind = "data"
                     /\ tar[i + 1].contents \notin Archive!Refused
                     /\ Commit \in {NoCommit, tar[i + 1].contents}
  BY DEF Archive!IsBoundReading
<1>6. /\ Vcs \in DOMAIN files /\ files[Vcs].body = Archive!Body(i, tar[i].size)
  <2>1. PICK p \in DOMAIN files : i = files[p].at + 1
    BY <1>3 DEF Archive!Starts
  <2>2. tar[i].path = p /\ files[p].body = Archive!Body(i, tar[i].size)
    BY <2>1 DEF Archive!IInv, Archive!FilesInv
  <2> QED
    BY <1>5, <2>1, <2>2
<1>7. files[Vcs].body = SubSeq(tar, i + 1, i + 1)
  <2>1. Archive!Stride(tar[i].size) = 2
    BY <1>0, <1>1, <1>5, CanonicalStride
  <2>2. i + 2 - 1 = i + 1
    BY <1>0
  <2> QED
    BY <1>6, <2>1, <2>2 DEF Archive!Body
<1>8. Len(files[Vcs].body) = 1 /\ files[Vcs].body[1] = tar[i + 1]
  <2>1. i \in Nat /\ i + Archive!Extent(tar[i].size) <= end
    BY <1>0, <1>1, ReadingFacts
  <2>2. i + 1 \in 1..Len(tar)
    BY <1>0, <1>5, <2>1
  <2>3. /\ Len(SubSeq(tar, i + 1, i + 1)) = 1
        /\ SubSeq(tar, i + 1, i + 1)[1] = tar[i + 1]
    BY <1>0, <2>1, <2>2
  <2> QED
    BY <1>7, <2>3
<1>9. Archive!VcsCommit = tar[i + 1].contents
  BY <1>5, <1>6, <1>8 DEF Archive!VcsCommit
<1> QED
  BY <1>4, <1>5, <1>9 DEF Archive!Bound

(* What the second pass accepts at its end is what it has read.            *)
LEMMA EntriesEndInv == ASSUME Archive!IInv, Archive!EntriesEnd PROVE Archive!IInv'
<1>0. pc = "entries" /\ Archive!AtEnd(offset)
  BY DEF Archive!EntriesEnd, Archive!NextHeader
<1>1. CASE count > 0 /\ Archive!Bound
  <2>1. pc' = "accepted" /\ UNCHANGED <<single, tar, offset, files, count, total>>
    BY <1>1 DEF Archive!EntriesEnd
  <2>2. Archive!TypeOK'
    BY <2>1 DEF Archive!IInv, Archive!TypeOK
  <2>3. /\ Archive!PassInv' /\ Archive!TotalInv' /\ Archive!FollowsInv'
        /\ Archive!CanonicalAccepted'
    BY <2>1
    DEF Archive!PassInv, Archive!TotalInv, Archive!FollowsInv, Archive!CanonicalAccepted,
        Archive!Passes
  <2>4. Archive!FilesInv'
    BY <2>1 DEF Archive!IInv, Archive!FilesInv, Archive!Starts
  <2>5. Archive!OneReading'
    <3>1. /\ Archive!Cardinality(Archive!Starts) = count
          /\ \E end \in 1..Len(tar) : Archive!IsReading(Archive!Starts, end)
          /\ Archive!IsCanonical(Archive!Starts)
          /\ \A p \in DOMAIN files : tar[files[p].at + 1].path = p
      BY <1>0, <1>1, EntriesAreTheReading
    <3>2. Archive!Decompressed
      BY <1>0 DEF Archive!IInv, Archive!PassInv, Archive!Passes
    <3>3. Archive!Starts' = Archive!Starts
      BY <2>1 DEF Archive!Starts
    <3>4. (Archive!Cardinality(Archive!Starts) = count)' /\ Archive!Decompressed'
      BY <2>1, <3>1, <3>2, <3>3 DEF Archive!Cardinality, Archive!Decompressed
    <3>5. (\E end \in 1..Len(tar) : Archive!IsReading(Archive!Starts, end))'
      BY <2>1, <3>1, <3>3
      DEF Archive!IsReading, Archive!AllZeroFrom, Archive!Zero, Archive!Extent
    <3>6. Archive!IsCanonical(Archive!Starts)'
      BY <2>1, <3>1, <3>3
      DEF Archive!IsCanonical, Archive!CargoMetadata, Archive!SafePath, Archive!Totals,
          Archive!IsTotal, Archive!Cardinality
    <3>7. (\A p \in DOMAIN files : tar[files[p].at + 1].path = p)'
      BY <2>1, <3>1
    <3> QED
      BY <3>4, <3>5, <3>6, <3>7 DEF Archive!OneReading
  <2> QED
    BY <2>2, <2>3, <2>4, <2>5 DEF Archive!IInv
<1>2. CASE ~(count > 0 /\ Archive!Bound)
  <2>1. Archive!Reject
    BY <1>2 DEF Archive!EntriesEnd
  <2>2. ASSUME NEW S \in SUBSET DOMAIN tar, NEW end \in DOMAIN tar,
               Archive!Decompressed, Archive!IsBoundReading(S, end)
        PROVE  FALSE
    BY <1>0, <1>2, <2>2, BoundIsFound
  <2> QED
    BY <2>1, <2>2, RejectKeeps
<1> QED
  BY <1>1, <1>2

-----------------------------------------------------------------------------
(* The running total of a reading bounds that of the entries read, with    *)
(* that of the next one (the limits of MAX_CRATE_UNPACKED_BYTES).          *)
LEMMA CanonicalTotal ==
  ASSUME Archive!IInv, pc = "entries",
         NEW S \in SUBSET DOMAIN tar, NEW end \in DOMAIN tar,
         Archive!IsReading(S, end), Archive!IsCanonical(S), offset + 1 \in S
  PROVE  total + tar[offset + 1].size <= MaxUnpacked
<1>0. /\ pc \in Archive!Passes /\ offset \in Nat /\ Len(tar) \in Nat
      /\ DOMAIN tar = 1..Len(tar) /\ Archive!TypeOK
      /\ offset < Len(tar)
  BY AtHeader DEF Archive!IInv, Archive!TypeOK, Archive!Passes
<1>1. PICK f \in Archive!Totals : /\ Archive!IsTotal(Archive!Starts, f)
                                  /\ \A i \in offset + 1..Len(tar) + 1 : f[i] = total
  BY <1>0 DEF Archive!IInv, Archive!TotalInv
<1>2. PICK g \in Archive!Totals : Archive!IsTotal(S, g)
  BY DEF Archive!IsCanonical
<1>3. offset + 1 \in 1..Len(tar) + 1 /\ offset + 2 \in 1..Len(tar) + 1
  BY <1>0
<1>4. \A i \in DOMAIN tar : i < offset + 1 => (i \in Archive!Starts <=> i \in S)
  <2>1. Archive!Starts = {i \in S : i <= offset}
    BY <1>0 DEF Archive!IInv, Archive!FollowsInv
  <2> QED
    BY <1>0, <2>1
<1>5. f[offset + 1] = g[offset + 1]
  <2>1. ASSUME NEW n \in 1..Len(tar) + 1, NEW T, Archive!IsTotal(T, f),
               \A i \in DOMAIN tar : i < n => (i \in T <=> i \in S)
        PROVE  f[n] = g[n]
    BY <1>0, <1>2, <2>1, TotalsAgree
  <2> QED
    BY <1>1, <1>3, <1>4, <2>1
<1>6. g[offset + 1] = total
  <2>1. offset + 1 \in offset + 1..Len(tar) + 1
    BY <1>0
  <2> QED
    BY <1>1, <1>5, <2>1
<1>7. g[offset + 1 + 1] = g[offset + 1] + tar[offset + 1].size
  BY <1>2 DEF Archive!IsTotal
<1>8. g[offset + 2] \in 0..MaxUnpacked /\ offset + 1 + 1 = offset + 2
  BY <1>0, <1>2, <1>3 DEF Archive!Totals
<1> QED
  BY <1>6, <1>7, <1>8, ArchiveAssumption

(* No entry of a canonical reading is inadmissible, however many there are. *)
LEMMA CanonicalAdmissible ==
  ASSUME Archive!IInv, pc = "entries", ~Archive!AtEnd(offset),
         NEW S \in SUBSET DOMAIN tar, NEW end \in DOMAIN tar,
         Archive!IsReading(S, end), Archive!IsCanonical(S)
  PROVE  /\ Archive!HasSize(tar[offset + 1])
         /\ Archive!Admissible(tar[offset + 1], offset + 1)
<1> DEFINE h == tar[offset + 1]
<1>0. /\ pc \in Archive!Passes /\ offset \in Nat /\ Len(tar) \in Nat /\ count \in Nat
      /\ total \in Nat /\ DOMAIN tar = 1..Len(tar) /\ Archive!TypeOK
  BY ArchiveAssumption DEF Archive!IInv, Archive!TypeOK, Archive!Passes
<1>1. h # Archive!Zero
  BY DEF Archive!AtEnd
<1>2. /\ offset + 1 \in S /\ h.kind = "header" /\ h.size \in Nat
      /\ Archive!Extent(h.size) \in Nat /\ offset + Archive!Extent(h.size) < Len(tar)
  BY <1>0, <1>1, AtHeader
<1>3. offset + 1 + Archive!Stride(h.size) - 1 <= Len(tar)
  <2>1. Archive!Stride(h.size) = Archive!Extent(h.size)
    BY <1>0, <1>2, CanonicalStride
  <2> HIDE DEF h
  <2> QED
    BY <1>0, <1>2, <2>1
<1>4. Archive!Sum(total, h.size) <= MaxUnpacked
  <2>1. total + h.size <= MaxUnpacked
    BY <1>2, CanonicalTotal
  <2> HIDE DEF h
  <2> QED
    BY <1>0, <1>2, <2>1, ArchiveAssumption DEF Archive!Sum
<1>5. Archive!SafePath(h) /\ Archive!CargoMetadata(h)
  BY <1>2 DEF Archive!IsCanonical
<1>6. Archive!Starts = {i \in S : i <= offset}
  BY <1>0 DEF Archive!IInv, Archive!FollowsInv
<1>7. count + 1 <= MaxFiles
  <2>1. IsFiniteSet(Archive!Starts) /\ Cardinality(Archive!Starts) = count
    BY SameCount DEF Archive!IInv, Archive!FilesInv
  <2>2. offset + 1 \notin Archive!Starts /\ Archive!Starts \cup {offset + 1} \in SUBSET S
    BY <1>0, <1>2, <1>6
  <2>3. Cardinality(Archive!Starts \cup {offset + 1}) = count + 1
    BY <2>1, <2>2, FS_AddElement
  <2>4. IsFiniteSet(S)
    <3>1. IsFiniteSet(1..Len(tar))
      BY <1>0, FS_Interval
    <3> QED
      BY <1>0, <3>1, FS_Subset
  <2>5. Cardinality(Archive!Starts \cup {offset + 1}) <= Cardinality(S)
    BY <2>2, <2>4, FS_Subset
  <2>6. Cardinality(S) <= MaxFiles /\ Cardinality(S) \in Nat
    BY <2>4, SameCount, FS_CardinalityType DEF Archive!IsCanonical
  <2> QED
    BY <1>0, <2>3, <2>5, <2>6, ArchiveAssumption
<1>8. h.path \notin DOMAIN files
  <2> SUFFICES ASSUME h.path \in DOMAIN files PROVE FALSE
    OBVIOUS
  <2> DEFINE i == files[h.path].at + 1
  <2>1. i \in Archive!Starts
    BY DEF Archive!Starts
  <2>2. tar[i].path = h.path
    BY DEF Archive!IInv, Archive!FilesInv
  <2>3. i \in S /\ i <= offset
    BY <1>6, <2>1
  <2>4. i = offset + 1
    BY <1>2, <2>2, <2>3 DEF Archive!IsCanonical
  <2> HIDE DEF i
  <2> QED
    BY <1>0, <2>3, <2>4
<1> HIDE DEF h
<1>9. Archive!HasSize(h) /\ Archive!Admissible(h, offset + 1)
  BY <1>2, <1>3, <1>4, <1>5, <1>7, <1>8 DEF Archive!HasSize, Archive!Admissible
<1> QED
  BY <1>9 DEF h

(* What an entry that is read adds to the map of files, and how far it     *)
(* leads (inspect_archive_entries).                                        *)
LEMMA EntryRead ==
  ASSUME Archive!IInv, Archive!Entry,
         Archive!HasSize(tar[offset + 1]), Archive!Admissible(tar[offset + 1], offset + 1)
  PROVE  LET h == tar[offset + 1]
         IN /\ h.kind = "header" /\ h.size \in Nat /\ h.path \notin DOMAIN files
            /\ DOMAIN files' = DOMAIN files \cup {h.path}
            /\ \A p \in DOMAIN files : files'[p] = files[p]
            /\ files'[h.path].at = offset
            /\ files'[h.path].body = Archive!Body(offset + 1, h.size)
            /\ count' = count + 1 /\ count' <= MaxFiles
            /\ total' = total + h.size /\ total' <= MaxUnpacked
            /\ Archive!Extent(h.size) \in Nat \ {0}
            /\ offset' = offset + Archive!Extent(h.size) /\ offset' <= Len(tar)
            /\ UNCHANGED <<single, tar, pc>>
<1> DEFINE h == tar[offset + 1]
<1>0. /\ pc = "entries" /\ pc \in Archive!Passes /\ offset \in Nat /\ Len(tar) \in Nat
      /\ total \in Nat /\ DOMAIN tar = 1..Len(tar) /\ Archive!TypeOK
      /\ ~Archive!AtEnd(offset)
  BY DEF Archive!Entry, Archive!IInv, Archive!TypeOK, Archive!Passes, Archive!NextHeader
<1>1. offset < Len(tar)
  BY <1>0 DEF Archive!AtEnd
<1>2. h.kind = "header" /\ h.size \in Nat
  <2>1. offset + 1 \in DOMAIN tar
    BY <1>0, <1>1
  <2> QED
    BY <1>0, <2>1, HeaderHasExtent DEF Archive!HasSize
<1>3. /\ files' = [p \in DOMAIN files \cup {h.path} |->
                    IF p = h.path
                    THEN [at |-> offset, size |-> h.size,
                          body |-> Archive!Body(offset + 1, h.size)]
                    ELSE files[p]]
      /\ count' = count + 1 /\ total' = total + h.size
      /\ offset' = offset + Archive!Stride(h.size)
      /\ UNCHANGED <<single, tar, pc>>
  BY DEF Archive!Entry, Archive!NextHeader
<1>4. /\ count + 1 <= MaxFiles /\ Archive!Sum(total, h.size) <= MaxUnpacked
      /\ offset + 1 + Archive!Stride(h.size) - 1 <= Len(tar) /\ h.path \notin DOMAIN files
  BY DEF Archive!Admissible
<1>5. Len(tar) <= MaxBlocks
  BY <1>0 DEF Archive!IInv, Archive!PassInv, Archive!Decompressed
<1> HIDE DEF h
<1>6. total + h.size <= MaxUnpacked
  BY <1>0, <1>2, <1>4, ArchiveAssumption DEF Archive!Sum
<1>7. Archive!Stride(h.size) \in Nat /\ offset + Archive!Stride(h.size) <= Len(tar)
  BY <1>0, <1>2, <1>4, StrideIsExtent
<1>8. Archive!Stride(h.size) <= MaxU64
  BY <1>0, <1>5, <1>7, ArchiveAssumption
<1>9. /\ Archive!Extent(h.size) \in Nat \ {0}
      /\ Archive!Stride(h.size) = Archive!Extent(h.size)
  BY <1>2, <1>8, StrideIsExtent
<1>10. /\ DOMAIN files' = DOMAIN files \cup {h.path}
       /\ \A p \in DOMAIN files : files'[p] = files[p]
       /\ files'[h.path].at = offset
       /\ files'[h.path].body = Archive!Body(offset + 1, h.size)
  BY <1>3, <1>4
<1>11. /\ h.kind = "header" /\ h.size \in Nat /\ h.path \notin DOMAIN files
       /\ count' = count + 1 /\ count' <= MaxFiles
       /\ total' = total + h.size /\ total' <= MaxUnpacked
       /\ Archive!Extent(h.size) \in Nat \ {0}
       /\ offset' = offset + Archive!Extent(h.size) /\ offset' <= Len(tar)
       /\ UNCHANGED <<single, tar, pc>>
  BY <1>2, <1>3, <1>4, <1>6, <1>7, <1>9
<1> QED
  BY <1>10, <1>11 DEF h

(* Reading an entry keeps the invariant: it is at the next header of every *)
(* reading, and no header lies within it.                                  *)
LEMMA EntryAccepted ==
  ASSUME Archive!IInv, Archive!Entry,
         Archive!HasSize(tar[offset + 1]), Archive!Admissible(tar[offset + 1], offset + 1)
  PROVE  Archive!IInv'
<1> DEFINE h == tar[offset + 1]
           extent == Archive!Extent(h.size)
<1>0. /\ pc = "entries" /\ pc \in Archive!Passes /\ offset \in Nat /\ Len(tar) \in Nat
      /\ DOMAIN tar = 1..Len(tar) /\ Archive!TypeOK /\ count \in Nat /\ total \in Nat
      /\ h # Archive!Zero
  BY ArchiveAssumption
  DEF Archive!Entry, Archive!IInv, Archive!TypeOK, Archive!Passes, Archive!NextHeader,
      Archive!AtEnd
<1>1. /\ h.kind = "header" /\ h.size \in Nat /\ h.path \notin DOMAIN files
      /\ DOMAIN files' = DOMAIN files \cup {h.path}
      /\ \A p \in DOMAIN files : files'[p] = files[p]
      /\ files'[h.path].at = offset
      /\ files'[h.path].body = Archive!Body(offset + 1, h.size)
      /\ count' = count + 1 /\ count' <= MaxFiles
      /\ total' = total + h.size /\ total' <= MaxUnpacked
      /\ extent \in Nat \ {0} /\ offset' = offset + extent /\ offset' <= Len(tar)
      /\ UNCHANGED <<single, tar, pc>>
  BY EntryRead
<1>2. /\ offset < Len(tar) /\ offset + 1 \in DOMAIN tar /\ offset < offset'
      /\ offset' + 1 = offset + extent + 1 /\ offset' \in Nat
  <2> HIDE DEF extent
  <2> QED BY <1>0, <1>1
<1>3. Archive!Starts' = Archive!Starts \cup {offset + 1}
  <2>1. Archive!Starts' = {files'[p].at + 1 : p \in DOMAIN files \cup {h.path}}
    BY <1>1 DEF Archive!Starts
  <2>2. \A p \in DOMAIN files : files'[p].at + 1 = files[p].at + 1
    BY <1>1
  <2> HIDE DEF h
  <2> QED
    BY <1>1, <2>1, <2>2 DEF Archive!Starts
<1>4. \A i \in Archive!Starts : i \in Nat /\ i <= offset
  BY <1>0 DEF Archive!IInv, Archive!FilesInv, Archive!Starts
<1> HIDE DEF extent
<1>5. Archive!TypeOK'
  <2>1. offset' \in 0..Len(tar) /\ count' \in 0..MaxFiles + 1 /\ total' \in 0..MaxUnpacked
    <3> HIDE DEF h
    <3> QED BY <1>0, <1>1, <1>2, ArchiveAssumption
  <2>2. DOMAIN files' \subseteq {tar[i].path : i \in {j \in DOMAIN tar : tar[j].kind = "header"}}
    BY <1>1, <1>2 DEF Archive!IInv, Archive!TypeOK
  <2>3. /\ single \in BOOLEAN /\ tar \in Seq(Blocks) /\ Len(tar) <= TarBlocks
        /\ pc \in Archive!Passes \cup {"accepted", "rejected"}
    BY DEF Archive!IInv, Archive!TypeOK
  <2> QED
    BY <1>1, <2>1, <2>2, <2>3 DEF Archive!TypeOK, Archive!Passes
<1>6. Archive!PassInv'
  <2>1. Archive!Decompressed /\ Archive!Chain(Archive!Starts, offset + 1)
    BY <1>0 DEF Archive!IInv, Archive!PassInv
  <2>2. Archive!Chain(Archive!Starts \cup {offset + 1}, offset + extent + 1)
    BY <1>0, <1>1, <1>2, <2>1, ChainGrows DEF extent
  <2>3. Archive!Chain(Archive!Starts', offset' + 1)
    BY <1>2, <1>3, <2>2
  <2>4. Archive!Chain(Archive!Starts, offset + 1)'
    BY <1>1, <2>3 DEF Archive!Chain, Archive!Extent
  <2>5. \E S \in SUBSET DOMAIN tar, end \in DOMAIN tar : Archive!IsReading(S, end)
    BY <1>0 DEF Archive!IInv, Archive!PassInv
  <2>6. (\E S \in SUBSET DOMAIN tar, end \in DOMAIN tar : Archive!IsReading(S, end))'
    BY <1>1, <2>5, SameBlocks
  <2>7. Archive!Decompressed' /\ pc' = "entries"
    BY <1>0, <1>1, <2>1 DEF Archive!Decompressed
  <2> QED
    BY <2>4, <2>6, <2>7 DEF Archive!PassInv
<1>7. Archive!FilesInv'
  <2>1. /\ IsFiniteSet(Archive!Starts) /\ Cardinality(Archive!Starts) = count
    BY SameCount DEF Archive!IInv, Archive!FilesInv
  <2>2. offset + 1 \notin Archive!Starts
    BY <1>0, <1>4
  <2>3. /\ IsFiniteSet(Archive!Starts \cup {offset + 1})
        /\ Cardinality(Archive!Starts \cup {offset + 1}) = count + 1
    BY <2>1, <2>2, FS_AddElement
  <2>4. IsFiniteSet(Archive!Starts') /\ Cardinality(Archive!Starts') = count'
    BY <1>1, <1>3, <2>3
  <2>5. Archive!IsFiniteSet(Archive!Starts)' /\ Archive!Cardinality(Archive!Starts)' = count'
    BY <2>4 DEF Archive!IsFiniteSet, Archive!Cardinality, IsFiniteSet, Cardinality
  <2>6. ASSUME NEW p \in DOMAIN files'
        PROVE  LET i == files'[p].at + 1
               IN /\ files'[p].at \in Nat /\ i \in DOMAIN tar /\ i <= offset'
                  /\ tar[i].kind = "header" /\ tar[i].path = p
                  /\ Archive!CargoMetadata(tar[i]) /\ Archive!SafePath(tar[i])
                  /\ files'[p].body = Archive!Body(i, tar[i].size)
    <3>1. CASE p = h.path
      <4>1. offset + 1 <= offset'
        BY <1>0, <1>2
      <4>2. Archive!CargoMetadata(h) /\ Archive!SafePath(h)
        BY DEF Archive!Admissible
      <4> QED
        BY <1>0, <1>1, <1>2, <3>1, <4>1, <4>2
    <3>2. CASE p # h.path
      <4>1. p \in DOMAIN files /\ files'[p] = files[p]
        BY <1>1, <3>2
      <4> DEFINE i == files[p].at + 1
      <4>2. /\ files[p].at \in Nat /\ i \in DOMAIN tar /\ i <= offset
            /\ tar[i].kind = "header" /\ tar[i].path = p
            /\ Archive!CargoMetadata(tar[i]) /\ Archive!SafePath(tar[i])
            /\ files[p].body = Archive!Body(i, tar[i].size)
        BY <1>0, <4>1 DEF Archive!IInv, Archive!FilesInv
      <4>3. i <= offset'
        BY <1>0, <1>2, <4>2
      <4> QED
        BY <4>1, <4>2, <4>3
    <3> QED
      BY <3>1, <3>2
  <2>7. (\A p \in DOMAIN files :
           LET i == files[p].at + 1
           IN /\ files[p].at \in Nat /\ i \in DOMAIN tar /\ i <= offset
              /\ tar[i].kind = "header" /\ tar[i].path = p
              /\ Archive!CargoMetadata(tar[i]) /\ Archive!SafePath(tar[i])
              /\ files[p].body = Archive!Body(i, tar[i].size))'
    BY <1>1, <2>6 DEF Archive!CargoMetadata, Archive!SafePath, Archive!Body, Archive!Stride
  <2> QED
    BY <1>1, <2>5, <2>7 DEF Archive!FilesInv
<1>8. Archive!TotalInv'
  <2>1. PICK f \in Archive!Totals : /\ Archive!IsTotal(Archive!Starts, f)
                                    /\ \A i \in offset + 1..Len(tar) + 1 : f[i] = total
    BY <1>0 DEF Archive!IInv, Archive!TotalInv
  <2> DEFINE g == [i \in 1..Len(tar) + 1 |-> IF i <= offset + 1 THEN f[i] ELSE total']
  <2>2. /\ \A i \in 1..offset + 1 : i \in 1..Len(tar) + 1 /\ g[i] = f[i]
        /\ \A i \in offset + 2..Len(tar) + 1 : g[i] = total'
        /\ f[offset + 1] = total
    BY <1>0, <1>2, <2>1
  <2>3. g \in Archive!Totals
    <3>1. \A i \in 1..Len(tar) + 1 : f[i] \in 0..MaxUnpacked
      BY <2>1 DEF Archive!Totals
    <3>2. total' \in 0..MaxUnpacked
      BY <1>5, <1>1 DEF Archive!TypeOK
    <3> QED
      BY <3>1, <3>2 DEF Archive!Totals
  <2>4. Archive!IsTotal(Archive!Starts \cup {offset + 1}, g)
    <3>1. g[1] = 0
      BY <1>0, <2>1, <2>2 DEF Archive!IsTotal
    <3> SUFFICES ASSUME NEW i \in DOMAIN tar
                 PROVE  g[i + 1] = g[i] + (IF i \in Archive!Starts \cup {offset + 1}
                                           THEN tar[i].size ELSE 0)
      BY <3>1 DEF Archive!IsTotal
    <3>2. CASE i <= offset
      <4>1. i \in 1..offset + 1 /\ i + 1 \in 1..offset + 1 /\ i # offset + 1
        BY <1>0, <3>2
      <4>2. f[i + 1] = f[i] + (IF i \in Archive!Starts THEN tar[i].size ELSE 0)
        BY <2>1 DEF Archive!IsTotal
      <4> HIDE DEF g, h
      <4> QED
        BY <2>2, <4>1, <4>2
    <3>3. CASE i = offset + 1
      <4>1. i \in 1..offset + 1 /\ i + 1 \in offset + 2..Len(tar) + 1
        BY <1>0, <1>2, <3>3
      <4>2. g[i + 1] = total + h.size /\ g[i] = total
        <5> HIDE DEF g, h
        <5> QED BY <1>1, <2>2, <3>3, <4>1
      <4> HIDE DEF g
      <4> QED
        BY <3>3, <4>2
    <3>4. CASE i > offset + 1
      <4>1. i \in offset + 2..Len(tar) + 1 /\ i + 1 \in offset + 2..Len(tar) + 1
        BY <1>0, <3>4
      <4>2. i \notin Archive!Starts \cup {offset + 1}
        BY <1>0, <1>4, <3>4
      <4>3. total' \in Nat
        <5> HIDE DEF h
        <5> QED BY <1>0, <1>1
      <4> HIDE DEF g, h
      <4> QED
        BY <2>2, <4>1, <4>2, <4>3
    <3> QED
      BY <1>0, <3>2, <3>3, <3>4
  <2>5. PICK k \in Archive!Totals :
          /\ Archive!IsTotal(Archive!Starts \cup {offset + 1}, k)
          /\ \A i \in offset + 2..Len(tar) + 1 : k[i] = total'
    <3> HIDE DEF g, h
    <3> QED BY <2>2, <2>3, <2>4
  <2> HIDE DEF g, h
  <2>6. k \in Archive!Totals' /\ Archive!IsTotal(Archive!Starts, k)'
    <3>1. Archive!IsTotal(Archive!Starts', k)
      BY <1>3, <2>5
    <3> QED
      BY <1>1, <2>5, <3>1 DEF Archive!Totals, Archive!IsTotal
  <2>7. (\A i \in offset + 1..Len(tar) + 1 : k[i] = total)'
    <3>0. offset \in Nat /\ offset' \in Nat /\ Len(tar) \in Nat /\ offset + 1 <= offset'
      BY <1>0, <1>2
    <3>1. \A i \in offset' + 1..Len(tar) + 1 : i \in offset + 2..Len(tar) + 1
      <4>1. ASSUME NEW a \in Nat, NEW b \in Nat, NEW n \in Nat, a + 1 <= b
            PROVE  \A i \in b + 1..n + 1 : i \in a + 2..n + 1
        BY <4>1
      <4> QED
        BY <3>0, <4>1
    <3>2. \A i \in offset' + 1..Len(tar) + 1 : k[i] = total'
      BY <2>5, <3>1
    <3> QED
      BY <1>1, <3>2
  <2> QED
    BY <2>6, <2>7 DEF Archive!TotalInv
<1>9. Archive!FollowsInv'
  <2> SUFFICES ASSUME NEW S \in SUBSET DOMAIN tar, NEW end \in DOMAIN tar,
                      Archive!IsReading(S, end)'
               PROVE  /\ offset' + 1 \in S \cup {end}
                      /\ Archive!Starts' = {i \in S : i <= offset'}
    BY <1>1 DEF Archive!FollowsInv
  <2>1. Archive!IsReading(S, end)
    BY <1>1, SameBlocks
  <2>2. offset + 1 \in S /\ offset + extent + 1 \in S \cup {end}
    BY <1>0, <2>1, AtHeader DEF extent
  <2>3. Archive!Starts = {i \in S : i <= offset}
    BY <1>0, <2>1 DEF Archive!IInv, Archive!FollowsInv
  <2>4. \A i \in S : i > offset + 1 => i > offset'
    <3> SUFFICES ASSUME NEW i \in S, offset + 1 < i PROVE offset' < i
      BY <1>0, <1>2
    <3>1. offset + 1 + extent <= i
      BY <1>0, <2>1, <2>2, NoneBetween DEF extent
    <3> HIDE DEF h
    <3> QED
      BY <1>0, <1>1, <3>1
  <2> HIDE DEF h
  <2> QED
    BY <1>0, <1>2, <1>3, <2>2, <2>3, <2>4
<1>10. Archive!OneReading' /\ Archive!CanonicalAccepted'
  BY <1>0, <1>1 DEF Archive!OneReading, Archive!CanonicalAccepted
<1> QED
  BY <1>5, <1>6, <1>7, <1>8, <1>9, <1>10 DEF Archive!IInv

(* An entry is read, or refused of an archive that Cargo did not write.    *)
LEMMA EntryInv == ASSUME Archive!IInv, Archive!Entry PROVE Archive!IInv'
<1>0. pc = "entries" /\ ~Archive!AtEnd(offset)
  BY DEF Archive!Entry, Archive!NextHeader
<1>1. CASE Archive!HasSize(tar[offset + 1]) /\ Archive!Admissible(tar[offset + 1], offset + 1)
  BY <1>1, EntryAccepted
<1>2. CASE ~(/\ Archive!HasSize(tar[offset + 1])
             /\ Archive!Admissible(tar[offset + 1], offset + 1))
  <2>1. Archive!Reject
    BY <1>2 DEF Archive!Entry, Archive!NextHeader
  <2>2. ASSUME NEW S \in SUBSET DOMAIN tar, NEW end \in DOMAIN tar,
               Archive!Decompressed, Archive!IsBoundReading(S, end)
        PROVE  FALSE
    BY <1>0, <1>2, <2>2, CanonicalAdmissible DEF Archive!IsBoundReading
  <2> QED
    BY <2>1, <2>2, RejectKeeps
<1> QED
  BY <1>1, <1>2

(* Every step of the three clients keeps the invariant of the inspection.  *)
LEMMA ArchiveNext ==
  Archive!IInv /\ [MCNext]_<<subject, vars, registryVars, archiveVars>> => Archive!IInv'
<1> SUFFICES ASSUME Archive!IInv, [MCNext]_<<subject, vars, registryVars, archiveVars>>
             PROVE  Archive!IInv'
  OBVIOUS
<1>1. CASE Archive!Next
  BY <1>1, TerminationStartsInv, TerminationFoundInv, TerminationStepInv,
     TerminationMissingInv, EntryInv, EntriesEndInv
  DEF Archive!Next
<1>2. CASE UNCHANGED archiveVars
  <2>1. UNCHANGED <<single, tar, pc, offset, files, count, total>>
    BY <1>2 DEF archiveVars
  <2>2. Archive!Starts' = Archive!Starts /\ Archive!Decompressed' = Archive!Decompressed
    BY <2>1 DEF Archive!Starts, Archive!Decompressed
  <2>3. Archive!TypeOK'
    BY <2>1 DEF Archive!IInv, Archive!TypeOK, Archive!Passes
  <2>4. Archive!PassInv'
    BY <2>1, <2>2
    DEF Archive!IInv, Archive!PassInv, Archive!Passes, Archive!Chain, Archive!IsReading,
        Archive!AllZeroFrom, Archive!Zero, Archive!Extent
  <2>5. Archive!FilesInv'
    BY <2>1, <2>2
    DEF Archive!IInv, Archive!FilesInv, Archive!CargoMetadata, Archive!SafePath,
        Archive!Body, Archive!Stride, Archive!IsFiniteSet, Archive!Cardinality
  <2>6. Archive!TotalInv'
    BY <2>1, <2>2
    DEF Archive!IInv, Archive!TotalInv, Archive!Passes, Archive!Totals, Archive!IsTotal
  <2>7. Archive!FollowsInv'
    BY <2>1, <2>2, SameBlocks
    DEF Archive!IInv, Archive!FollowsInv, Archive!Passes
  <2>8. Archive!OneReading'
    <3> SUFFICES ASSUME pc = "accepted" PROVE Archive!OneReading'
      BY <2>1 DEF Archive!OneReading
    <3>1. Archive!Decompressed' /\ (Archive!Cardinality(Archive!Starts) = count)'
      BY <2>1, <2>2 DEF Archive!IInv, Archive!OneReading, Archive!Cardinality
    <3>2. (\E end \in 1..Len(tar) : Archive!IsReading(Archive!Starts, end))'
      BY <2>1, <2>2
      DEF Archive!IInv, Archive!OneReading, Archive!IsReading, Archive!AllZeroFrom,
          Archive!Zero, Archive!Extent
    <3>3. Archive!IsCanonical(Archive!Starts)'
      BY <2>1, <2>2
      DEF Archive!IInv, Archive!OneReading, Archive!IsCanonical, Archive!CargoMetadata,
          Archive!SafePath, Archive!Totals, Archive!IsTotal, Archive!Cardinality
    <3>4. (\A p \in DOMAIN files : tar[files[p].at + 1].path = p)'
      BY <2>1 DEF Archive!IInv, Archive!OneReading
    <3> QED
      BY <3>1, <3>2, <3>3, <3>4 DEF Archive!OneReading
  <2>9. Archive!CanonicalAccepted'
    BY <2>1, <2>2, SameBlocks DEF Archive!IInv, Archive!CanonicalAccepted
  <2> QED
    BY <2>3, <2>4, <2>5, <2>6, <2>7, <2>8, <2>9 DEF Archive!IInv
<1> QED
  BY <1>1, <1>2 DEF MCNext

(* The two passes over an archive agree (validate_tar_termination,         *)
(* inspect_archive_entries): one that is accepted is nothing but the files *)
(* reported, and none that Cargo could have written, bound to the commit,  *)
(* is refused, whatever its blocks and however near it is to a limit.      *)
THEOREM InspectionExact == MCSpec => []InspectionIsExact
<1>1. MCInit => Archive!IInv
  BY ArchiveInit DEF MCInit
<1>2. Archive!IInv => InspectionIsExact
  BY DEF Archive!IInv, InspectionIsExact
<1> QED
  BY <1>1, <1>2, ArchiveNext, PTL DEF MCSpec
=============================================================================

---------------------------- MODULE GitHubTransport ----------------------------
(***************************************************************************)
(* Calls to GitHub through gh (GhCli in src/xtask/src/github/transport.rs) *)
(* over a network that loses requests and answers and holds requests back, *)
(* and a service that fails.  Reads are tried three times, a mutation is   *)
(* sent once.                                                              *)
(*                                                                         *)
(* One object of the repository is modelled: absent, or present in one of  *)
(* several versions, which others write and delete as well.                *)
(***************************************************************************)
EXTENDS Naturals, FiniteSets

CONSTANTS
  MaxCalls,  \* bound: calls
  MaxOthers  \* bound: changes by others

ASSUME BoundAssumption == MaxCalls \in Nat \ {0} /\ MaxOthers \in Nat

Kinds == {"get", "optional", "graphql", "mutate"}
Absent == 0
ReadAttempts == 3

\* What gh prints on its standard error, as the two classifiers tell it apart.
Transient == {"429", "502", "503", "504", "timeout"}
Details == Transient \cup {"404", "403", "500"}

VARIABLES
  object,   \* the object: its version, or Absent
  requests, \* what has been sent and not been served: [call, attempt, kind]
  call,     \* the current call
  calls,    \* how many calls have begun
  others,   \* counts towards MaxOthers
  applied,  \* history: how often the mutation of each call was applied
  during    \* history: what the object was during the call

vars == <<object, requests, call, calls, others, applied, during>>

TypeOK ==
  /\ object \in Nat /\ calls \in 1..MaxCalls /\ others \in 0..MaxOthers
  /\ call \in [kind : Kinds, attempt : 0..ReadAttempts, value : Nat,
               step : {"send", "wait", "value", "none", "failed"}]
  /\ requests \subseteq [call : 1..calls, attempt : 1..ReadAttempts, kind : Kinds]
  /\ applied \in [1..MaxCalls -> Nat]
  /\ object \in during

Start(kind) == [kind |-> kind, attempt |-> 0, step |-> "send", value |-> Absent]

Init ==
  /\ object \in {Absent, 1} /\ during = {object}
  /\ requests = {} /\ calls = 1 /\ others = 0
  /\ \E kind \in Kinds : call = Start(kind)
  /\ applied = [c \in 1..MaxCalls |-> 0]

Returned == call.step \in {"value", "none", "failed"}

\* Mutant of IsRead: every POST is sent as the one that reads.
IsReadAny(kind) == TRUE

\* The argument read of request.
IsRead(kind) == kind # "mutate"

-----------------------------------------------------------------------------
(***************************************************************************)
(* The client.                                                             *)
(***************************************************************************)
\* get, get_optional, graphql or mutate, after an earlier call returned.
Begin(kind) ==
  /\ Returned /\ calls < MaxCalls
  /\ calls' = calls + 1 /\ call' = Start(kind) /\ during' = {object}
  /\ UNCHANGED <<object, requests, others, applied>>

\* request: the number of attempts.
Attempts(kind) == IF IsRead(kind) THEN ReadAttempts ELSE 1

\* request: gh is started.
Send ==
  /\ call.step = "send"
  /\ call' = [call EXCEPT !.step = "wait", !.attempt = @ + 1]
  /\ requests' = requests \cup
       {[call |-> calls, attempt |-> call.attempt + 1, kind |-> call.kind]}
  /\ UNCHANGED <<object, calls, others, applied, during>>

Current(r) == r.call = calls /\ r.attempt = call.attempt /\ call.step = "wait"

\* is_transient; a mutation is never taken for transient.
Retries(kind, detail) == IsRead(kind) /\ detail \in Transient

\* is_not_found, which get_optional alone takes for an answer.
AbsenceOf(kind, detail) == kind = "optional" /\ detail = "404"

\* What the client makes of a failed gh: again, absence or failure.
AfterFailure(detail) ==
  IF Retries(call.kind, detail) /\ call.attempt < Attempts(call.kind)
  THEN [call EXCEPT !.step = "send"]
  ELSE IF AbsenceOf(call.kind, detail) THEN [call EXCEPT !.step = "none"]
  ELSE [call EXCEPT !.step = "failed"]

Failed(detail) == call' = AfterFailure(detail)

\* Mutant of Decoded: an answer that was cut is taken as it came.
DecodedPartly == call' = [call EXCEPT !.step = "value", !.value = Absent]

\* decode: a body over the limit or not of the type ends the call.
Decoded == call' = [call EXCEPT !.step = "failed"]

-----------------------------------------------------------------------------
(***************************************************************************)
(* GitHub.                                                                 *)
(***************************************************************************)
\* What serving a request does to the object: a creation, unless it exists.
Effect(r) ==
  IF r.kind = "mutate" /\ object = Absent THEN object' = r.call + 1
  ELSE UNCHANGED object

Count(r) ==
  applied' = IF r.kind = "mutate" /\ object = Absent
             THEN [applied EXCEPT ![r.call] = @ + 1] ELSE applied

Answer(r) ==
  CASE r.kind = "mutate" -> object = Absent
    [] r.kind \in {"get", "optional"} -> object # Absent
    [] OTHER -> TRUE

\* A request is served and its answer arrives.
ServeAnswered(r) ==
  /\ Current(r) /\ requests' = requests \ {r}
  /\ IF Answer(r)
     THEN /\ call' = [call EXCEPT !.step = "value",
                        !.value = IF r.kind = "mutate" THEN r.call + 1 ELSE object]
          /\ Effect(r) /\ Count(r)
     ELSE /\ Failed(IF r.kind = "mutate" THEN "403" ELSE "404")
          /\ UNCHANGED <<object, applied>>
  /\ during' = during \cup {object'}
  /\ UNCHANGED <<calls, others>>

\* It is served and what arrives cannot be used.
ServeUnusable(r) ==
  /\ Current(r) /\ requests' = requests \ {r}
  /\ Answer(r) /\ Effect(r) /\ Count(r) /\ Decoded
  /\ during' = during \cup {object'}
  /\ UNCHANGED <<calls, others>>

\* gh fails first; the request is lost, or stays on its way and is served later.
FailFirst(detail) ==
  /\ call.step = "wait" /\ detail \in Details \ {"404"}
  /\ Failed(detail)
  /\ requests' \in {requests, {r \in requests : ~Current(r)}}
  /\ UNCHANGED <<object, calls, others, applied, during>>

\* A request nobody waits for any more is served.
ServeLate(r) ==
  /\ ~Current(r) /\ requests' = requests \ {r}
  /\ Effect(r) /\ Count(r) /\ during' = during \cup {object'}
  /\ UNCHANGED <<call, calls, others>>

\* Somebody else creates, replaces or deletes the object.
Other ==
  /\ others < MaxOthers /\ others' = others + 1
  /\ object' \in {Absent, MaxCalls + 1 + others'} /\ object' # object
  /\ during' = during \cup {object'}
  /\ UNCHANGED <<requests, call, calls, applied>>

Serve(r) == ServeAnswered(r) \/ ServeUnusable(r) \/ ServeLate(r)

Next ==
  \/ \E kind \in Kinds : Begin(kind)
  \/ Send \/ Other
  \/ \E r \in requests : Serve(r)
  \/ \E detail \in Details : FailFirst(detail)

Spec == Init /\ [][Next]_vars

-----------------------------------------------------------------------------
(***************************************************************************)
(* Properties.                                                             *)
(***************************************************************************)
\* A mutation takes effect at most once, though its answer may be lost, it may
\* be served after the call failed and the object may be deleted meanwhile
\* (request: attempts, mutate).
AppliedOnce == \A c \in 1..MaxCalls : applied[c] <= 1

\* What a call returns was the object at some time of that call: never an answer
\* to an earlier call or attempt (request, decode).
ReturnsWhatWas ==
  call.step = "value" /\ call.kind # "graphql" => call.value \in during \ {Absent}

\* get_optional says absent only when the object was: no failure, however often
\* repeated, is absence, for the release is created on it (is_not_found).
AbsenceIsTrue == call.step = "none" => call.kind = "optional" /\ Absent \in during

\* Both, of every kind of call (request, get_optional).
AnswersAreTrue == ReturnsWhatWas /\ AbsenceIsTrue
=============================================================================

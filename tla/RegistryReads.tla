----------------------------- MODULE RegistryReads ----------------------------
(***************************************************************************)
(* What one command reads from crates.io (CratesIo and require_archive in  *)
(* src/xtask/src/crate_archive.rs, as qualify and await_publication in     *)
(* src/xtask/src/github.rs use them): polls until the version exists, then *)
(* reads its record and downloads its archive.  Each request is made up to *)
(* ReadAttempts times, and all answers, of failed attempts too, count      *)
(* against one budget of bytes.                                            *)
(*                                                                         *)
(* Meanwhile the version is published, yanked and restored by others.      *)
(***************************************************************************)
EXTENDS Naturals, FiniteSets

CONSTANTS
  ReadAttempts,  \* READ_ATTEMPTS, at least 1
  MaxPolls,      \* ATTEMPTS of wait_for_registry, at least 1
  MaxTotal,      \* MAX_TOTAL_RESPONSE_BYTES
  RecordBytes,   \* bytes of a record's JSON
  ArchiveBytes,  \* bytes of the published archive
  MaxFault       \* bound: bytes of a failed answer

VARIABLES
  record,    \* the registry: "absent", "live" or "yanked"
  content,   \* the registry: the archive of the version, once published
  command,   \* "qualify", which polls once, or "await"
  stage,     \* the request being made
  attempt,   \* its attempt
  poll,      \* polls made
  total,     \* CratesIo::total_response_bytes
  result,    \* what the command learns
  \* what happened, for the properties
  seen,      \* states of the record since the request began
  received,  \* bytes that came from the registry
  faults,    \* transient faults of the request
  refused    \* some answer justifies giving up

registryVars == <<record, content>>
clientVars   == <<command, stage, attempt, poll, total, result>>
historyVars  == <<seen, received, faults, refused>>
vars == <<registryVars, clientVars, historyVars>>

Records  == {"absent", "live", "yanked"}
Contents == {"none", "release", "foreign"}
Requests == {"wait", "record", "download"}
Results  == {"none", "absent", "accepted", "failed"}
Larger(x, y) == IF x >= y THEN x ELSE y
LargestAnswer == Larger(MaxFault, Larger(RecordBytes, ArchiveBytes))

RegistryOK ==
  /\ record \in Records /\ content \in Contents
  /\ (record = "absent") <=> (content = "none")

TypeOK ==
  /\ RegistryOK
  /\ command \in {"qualify", "await"} /\ stage \in Requests
  /\ attempt \in 1..ReadAttempts /\ poll \in 1..MaxPolls
  /\ total \in 0..MaxTotal + LargestAnswer
  /\ result \in Results
  /\ seen \subseteq Records
  /\ received \in Nat /\ faults \in 0..ReadAttempts /\ refused \in BOOLEAN

Init ==
  /\ \/ record = "absent" /\ content = "none"
     \/ record \in {"live", "yanked"} /\ content \in {"release", "foreign"}
  /\ command \in {"qualify", "await"}
  /\ stage = "wait" /\ attempt = 1 /\ poll = 1 /\ total = 0
  /\ result = "none"
  /\ seen = {record} /\ received = 0 /\ faults = 0 /\ refused = FALSE

-----------------------------------------------------------------------------
(***************************************************************************)
(* The registry: a version is published once, and its archive never        *)
(* changes.                                                                *)
(***************************************************************************)
Publish(c) ==
  /\ record = "absent" /\ record' = "live" /\ content' = c
  /\ seen' = seen \cup {record'}
  /\ UNCHANGED <<clientVars, received, faults, refused>>

Yank ==
  /\ record = "live" /\ record' = "yanked" /\ seen' = seen \cup {record'}
  /\ UNCHANGED <<content, clientVars, received, faults, refused>>

Unyank ==
  /\ record = "yanked" /\ record' = "live" /\ seen' = seen \cup {record'}
  /\ UNCHANGED <<content, clientVars, received, faults, refused>>

-----------------------------------------------------------------------------
(***************************************************************************)
(* The client.                                                             *)
(***************************************************************************)
\* account_response, within the budget.
Account(n, failed) ==
  /\ received' = received + n
  /\ total' = total + n
  /\ total' <= MaxTotal

Fail == result' = "failed" /\ UNCHANGED <<stage, attempt, poll>>

Request(next) ==
  /\ stage' = next /\ attempt' = 1
  /\ seen' = {record} /\ faults' = 0

\* The answer of this attempt does not fit into the budget.
OverBudget(n) ==
  /\ result = "none" /\ total + n > MaxTotal
  /\ total' = total + n /\ received' = received + n
  /\ Fail
  /\ UNCHANGED <<registryVars, command, seen, faults, refused>>

\* curl cannot be run, or its output does not fit one answer's limit.
RunFails ==
  /\ result = "none" /\ Fail /\ refused' = TRUE
  /\ UNCHANGED <<registryVars, command, total, seen, received, faults>>

\* An answer that is no answer and will not become one.
Permanent(n) ==
  /\ result = "none" /\ Account(n, TRUE) /\ Fail /\ refused' = TRUE
  /\ UNCHANGED <<registryVars, command, seen, faults>>

\* Mutant of Retry: the last attempt's failure is taken for absence.
RetryOrAbsent ==
  IF attempt < ReadAttempts
  THEN attempt' = attempt + 1 /\ UNCHANGED <<stage, poll, result>>
  ELSE result' = "absent" /\ UNCHANGED <<stage, attempt, poll>>

Retry ==
  IF attempt < ReadAttempts
  THEN attempt' = attempt + 1 /\ UNCHANGED <<stage, poll, result>>
  ELSE Fail

\* What is asked again: a connection that fails or times out, and a status of
\* 429, 502, 503 or 504; of a record also 500, which for a download is refused.
Transient(n) ==
  /\ result = "none" /\ Account(n, TRUE) /\ Retry
  /\ faults' = IF faults < ReadAttempts THEN faults + 1 ELSE faults
  /\ UNCHANGED <<registryVars, command, seen, refused>>

Polls == IF command = "await" THEN MaxPolls ELSE 1

\* wait_for_registry, or the first read of qualify: the version is there, or
\* the next poll is due, or it stays absent.  Only qualify looks at the record.
WaitAnswered ==
  /\ result = "none" /\ stage = "wait" /\ Account(RecordBytes, FALSE)
  /\ \/ /\ record = "absent" /\ poll < Polls
        /\ poll' = poll + 1 /\ Request("wait") /\ UNCHANGED <<result, refused>>
     \/ /\ record = "absent" /\ poll = Polls /\ result' = "absent"
        /\ UNCHANGED <<stage, attempt, poll, seen, faults, refused>>
     \/ /\ record = "yanked" /\ command = "qualify"
        /\ Fail /\ refused' = TRUE /\ UNCHANGED <<seen, faults>>
     \/ /\ (record = "live" \/ (record = "yanked" /\ command = "await"))
        /\ Request("record") /\ UNCHANGED <<poll, result, refused>>
  /\ UNCHANGED <<registryVars, command>>

\* require_archive: the record, not yanked.
RecordAnswered ==
  /\ result = "none" /\ stage = "record" /\ Account(RecordBytes, FALSE)
  /\ IF record = "live"
     THEN Request("download") /\ UNCHANGED <<poll, result, refused>>
     ELSE Fail /\ refused' = TRUE /\ UNCHANGED <<seen, faults>>
  /\ UNCHANGED <<registryVars, command>>

\* The digest is that of the record, and the archive is bound to the release
\* (inspect_archive_entries: module CrateArchive).
Genuine(served) == served = content /\ served = "release"

\* A download yields the archive or something else.
DownloadAnswered ==
  /\ result = "none" /\ stage = "download" /\ Account(ArchiveBytes, FALSE)
  /\ \E served \in {content, "damaged"} :
       /\ result' = IF Genuine(served) THEN "accepted" ELSE "failed"
       /\ refused' = (refused \/ served # "release")
  /\ UNCHANGED <<registryVars, command, stage, attempt, poll, seen, faults>>

-----------------------------------------------------------------------------
Answered == WaitAnswered \/ RecordAnswered \/ DownloadAnswered
Over ==
  \/ stage # "download" /\ OverBudget(RecordBytes)
  \/ stage = "download" /\ OverBudget(ArchiveBytes)
  \/ \E n \in 0..MaxFault : OverBudget(n)
Faulty == RunFails \/ \E n \in 0..MaxFault : Permanent(n) \/ Transient(n)
Client == Answered \/ Over \/ Faulty
Others == Yank \/ Unyank \/ \E c \in {"release", "foreign"} : Publish(c)

Next == Client \/ Others
Spec == Init /\ [][Next]_vars

-----------------------------------------------------------------------------
(***************************************************************************)
(* Properties.                                                             *)
(***************************************************************************)
\* Whatever is accepted is the release's own archive, as published, of a
\* version that was live when its record was read, whatever others do between
\* the two requests and whatever the download serves (require_archive).
AcceptedIsPublished ==
  result = "accepted" => content = "release" /\ record # "absent" /\ ~refused

\* "Absent" is a fact and never a failure to find out: the registry did lack
\* the version while the last poll was being answered.  On "absent" the
\* workflow goes on to publish (request_json returns None for 404 only).
AbsenceSeen == result = "absent" => "absent" \in seen

\* A command never takes in more than its budget and one answer, however many
\* polls and attempts it makes (account_response counts failed attempts).
BytesBounded == received <= MaxTotal + LargestAnswer

\* A command does not give up without a reason: some request failed in each of
\* its attempts, or met a refusal, or the budget was spent.
NoNeedlessFailure ==
  result = "failed" => \/ refused
                       \/ faults = ReadAttempts
                       \/ received > MaxTotal

-----------------------------------------------------------------------------
(***************************************************************************)
(* The invariant by which these are proved.                                *)
(***************************************************************************)
\* The state of the record is among those seen, whatever request is made.
SeenInv == record \in seen

\* Every byte that came is accounted for, and a command that still asks is
\* within its budget, met no refusal, and had a fault in every attempt but the
\* one it makes.
AskingInv ==
  /\ received = total
  /\ result = "none" =>
       total <= MaxTotal /\ ~refused /\ faults = attempt - 1

IInv == /\ TypeOK /\ SeenInv /\ AskingInv /\ AcceptedIsPublished /\ AbsenceSeen
        /\ NoNeedlessFailure /\ BytesBounded
=============================================================================

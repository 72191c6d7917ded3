-------------------------- MODULE ContainedCommand --------------------------
(***************************************************************************)
(* What xtask's bounded_process::output promises its callers: one command  *)
(* runs at a time, its processes stem from a single launch, and a call     *)
(* that returns "ok" or "err" returns only when none of them is left.  A   *)
(* call that could not finish its cleanup says so ("dirty").               *)
(***************************************************************************)
EXTENDS FiniteSets

CONSTANTS Callers, Pids

VARIABLES
  phase,     \* "idle", "running" or "returned", per caller
  live,      \* the processes of the caller's current command
  launched,  \* the current call has started its command
  result     \* "none", "ok", "err" or "dirty"

vars == <<phase, live, launched, result>>

Init ==
  /\ phase = [c \in Callers |-> "idle"]
  /\ live = [c \in Callers |-> {}]
  /\ launched = [c \in Callers |-> FALSE]
  /\ result = [c \in Callers |-> "none"]

Begin(c) ==
  /\ \A d \in Callers : phase[d] # "running"
  /\ phase' = [phase EXCEPT ![c] = "running"]
  /\ live' = [live EXCEPT ![c] = {}]
  /\ launched' = [launched EXCEPT ![c] = FALSE]
  /\ result' = [result EXCEPT ![c] = "none"]

Launch(c) ==
  /\ phase[c] = "running" /\ ~launched[c]
  /\ launched' = [launched EXCEPT ![c] = TRUE]
  /\ live' \in [Callers -> SUBSET Pids]
  /\ \A d \in Callers \ {c} : live'[d] = live[d]
  /\ UNCHANGED <<phase, result>>

\* Processes come and go, but a tree that is gone stays gone.
Evolve ==
  /\ live' \in [Callers -> SUBSET Pids]
  /\ \A c \in Callers : live'[c] # {} => live[c] # {}
  /\ UNCHANGED <<phase, launched, result>>

Decide(c, r) ==
  /\ phase[c] = "running"
  /\ result' = [result EXCEPT ![c] = r]
  /\ live' \in [Callers -> SUBSET Pids]
  /\ \A d \in Callers : live'[d] # {} => live[d] # {}
  /\ UNCHANGED <<phase, launched>>

Return(c, r) ==
  /\ phase[c] = "running"
  /\ r \in {"ok", "err"} => live[c] = {}
  /\ phase' = [phase EXCEPT ![c] = "returned"]
  /\ result' = [result EXCEPT ![c] = r]
  /\ UNCHANGED <<live, launched>>

Next ==
  \/ Evolve
  \/ \E c \in Callers : Begin(c) \/ Launch(c)
  \/ \E c \in Callers, r \in {"ok", "err", "dirty"} : Decide(c, r) \/ Return(c, r)

Spec == Init /\ [][Next]_vars
=============================================================================

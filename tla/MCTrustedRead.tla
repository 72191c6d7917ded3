---------------------------- MODULE MCTrustedRead ----------------------------
(***************************************************************************)
(* TrustedRead for TLC on both platforms: Windows is FALSE in the module   *)
(* and TRUE in OnWindows, which has the same state.                        *)
(***************************************************************************)
EXTENDS TrustedRead

VARIABLE platform

OnWindows == INSTANCE TrustedRead WITH Windows <- TRUE

MCInit == platform \in {"unix", "windows"} /\ Init

MCNext ==
  /\ UNCHANGED platform
  /\ \/ platform = "unix" /\ Next
     \/ platform = "windows" /\ OnWindows!Next

\* The calls of the operating system answer: a read of a regular file, and an
\* open that does not wait.
MCSpec ==
  /\ MCInit /\ [][MCNext]_<<platform, vars>>
  /\ WF_vars(platform = "unix" /\ Read)
  /\ WF_vars(platform = "windows" /\ OnWindows!Read)
=============================================================================

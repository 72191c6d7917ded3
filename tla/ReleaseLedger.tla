---------------------------- MODULE ReleaseLedger ----------------------------
(***************************************************************************)
(* What the release tooling promises about the public record of a version: *)
(* a crate is published once; the one annotated tag binds the crate's      *)
(* source; the immutable Release follows the tag; and Latest is the newest *)
(* stable Release of the main line.  Nothing is ever replaced or removed.  *)
(***************************************************************************)
EXTENDS Naturals

CONSTANTS
  Sources,   \* release sources: records with at least line and version
  Stable,    \* versions that are not prereleases
  None       \* nothing there yet

VARIABLES
  crate,     \* the source each version was published from
  tag,       \* the source each version's tag binds
  release,   \* the source of each version's Release
  latest     \* the version GitHub shows as Latest

Versions == {s.version : s \in Sources}
OnMain(s) == s.line = "main" /\ s.version \in Stable

Init ==
  /\ crate = [v \in Versions |-> None]
  /\ tag = [v \in Versions |-> None]
  /\ release = [v \in Versions |-> None]
  /\ latest = None

Publish(s) ==
  /\ crate[s.version] = None
  /\ crate' = [crate EXCEPT ![s.version] = s]
  /\ UNCHANGED <<tag, release, latest>>

Tag(s) ==
  /\ crate[s.version] = s /\ tag[s.version] = None
  /\ tag' = [tag EXCEPT ![s.version] = s]
  /\ UNCHANGED <<crate, release, latest>>

Release(s) ==
  /\ tag[s.version] = s /\ release[s.version] = None
  /\ release' = [release EXCEPT ![s.version] = s]
  /\ latest' = IF OnMain(s) /\ (latest = None \/ latest < s.version)
               THEN s.version ELSE latest
  /\ UNCHANGED <<crate, tag>>

Next == \E s \in Sources : Publish(s) \/ Tag(s) \/ Release(s)

Spec == Init /\ [][Next]_<<crate, tag, release, latest>>
=============================================================================

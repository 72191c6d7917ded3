------------------------- MODULE MCReleaseReconcile --------------------------
(* Small instances of ReleaseReconcile. *)
EXTENDS ReleaseReconcile

CONSTANTS r1, r2

OneRun  == {r1}
TwoRuns == {r1, r2}

Source(line, at, version) == [line |-> line, at |-> at, version |-> version]

\* Two rival sources of version 1, a support release 2 and a newer stable 3.
RivalSources == {Source("main", 1, 1), Source("main", 2, 1),
                 Source("support", 1, 2), Source("main", 2, 3)}
StableVersions == {1, 2, 3}

\* One version with rival sources.
OneVersion == {Source("main", 1, 1), Source("main", 2, 1)}
=============================================================================

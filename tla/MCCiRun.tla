--------------------------------- MODULE MCCiRun ---------------------------------
(***************************************************************************)
(* CI runs and builds, for TLC.                                            *)
(***************************************************************************)
EXTENDS MergeBuild, TLC

CONSTANTS p, q   \* git-forge processes

Two == {p, q}

Case(job, runs, stale, left, mishapsAllowed, output) ==
    [job |-> job, runs |-> runs, stale |-> stale, left |-> left,
     mishaps |-> mishapsAllowed, output |-> output]

\* A run in which much goes wrong; runs that would take one name, which is free, or locked
\* or holding a worktree since a run was killed; a run whose plan writes much; and builds that
\* go wrong, alone and next to each other.
MCCases ==
    {Case("ci", {p}, {}, {}, 3, 0), Case("ci", {p}, {0, 1}, {1}, 1, 0),
     Case("ci", {p, q}, {}, {}, 0, 0), Case("ci", {p, q}, {0}, {}, 0, 0),
     Case("ci", {p, q}, {}, {0}, 0, 0), Case("ci", {p}, {}, {}, 0, 7),
     Case("merge", {p}, {}, {}, 2, 0), Case("merge", {p, q}, {0}, {}, 0, 0),
     Case("prepare", {p, q}, {}, {}, 2, 0), Case("prepare", {p}, {0, 1}, {}, 1, 0)}

\* A merge by a strategy that can leave git in the middle of it, and one that cannot.
MCStrategies ==
    [job \in {"ci", "merge", "prepare"} |->
        IF job = "ci" THEN {"ff"} ELSE IF job = "merge" THEN {"merge", "ff"} ELSE {"rebase"}]

\* Reads of one byte, and of two: the parts of a character come in every division.
MCChunks == {<<0>>, <<1>>, <<3>>, <<4>>, <<2, 0>>, <<5, 0>>}
=============================================================================

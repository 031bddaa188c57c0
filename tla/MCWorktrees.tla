------------------------------ MODULE MCWorktrees ------------------------------
(***************************************************************************)
(* Two merges, one of which may recycle its source, and two base           *)
(* worktrees, for TLC.                                                     *)
(***************************************************************************)
EXTENDS Worktrees, TLC

CONSTANTS m1, m2   \* the merges

Two == {m1, m2}

How(strategy, recycle, force) == [strategy |-> strategy, recycle |-> recycle, force |-> force]
Plain == How("merge", FALSE, FALSE)

\* Two plain merges, or one of them recycles, forces it, or squashes.
TwoMerges ==
    {(m1 :> Plain) @@ (m2 :> second) :
        second \in {Plain, How("merge", TRUE, FALSE), How("merge", TRUE, TRUE),
                     How("squash", TRUE, FALSE)}}
=============================================================================

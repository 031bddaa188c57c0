----------------------------- MODULE MCPrLifecycle -----------------------------
(***************************************************************************)
(* Small instances of the pull-request lifecycle for TLC: three shells,    *)
(* the scripts they run, and how far the PR has come when they start.      *)
(***************************************************************************)
EXTENDS PrProperties, TLC

CONSTANTS merger, first, second   \* the shells

Three == {merger, first, second}
Roleless == [x \in Three \cup {Founder} |-> NoRole]

\* The creator and the first shell work in one role, the second in another.
TwoRoles == [x \in Three \cup {Founder} |->
                IF x \in {Founder, first} THEN "implementer" ELSE "reviewer"]

Approve == Cmd("review", "approve")
Reject == Cmd("review", "reject")
Check == Cmd("ci", "")
Comment == Cmd("comment", "")
Abandon == Cmd("abandon", "")
Update == Cmd("update", "")
Prepare(strategy) == Cmd("prepare", strategy)
Merge(strategy) == Cmd("merge", strategy)

\* From each state of froms, every plan in which the merger runs one of ms and the
\* other two one of fs and ss.
StartsOf(froms, ms, fs, ss) ==
    [from : froms,
     plan : {(merger :> m) @@ (first :> f) @@ (second :> s) : m \in ms, f \in fs, s \in ss}]

\* A merge racing everything that can take its authorisation away, another merge or a
\* prepare, and updates racing each other.
ReadyRace ==
    StartsOf({"ready"},
             {<<Merge("merge")>>, <<Merge("ff")>>},
             {<<Approve>>, <<Update, Check>>, <<Abandon>>},
             {<<Reject>>, <<Check>>, <<Approve>>, <<Approve, Merge("squash")>>})
    \cup StartsOf({"ready"}, {<<Merge("merge")>>},
                  {<<Merge("squash"), Check>>, <<Prepare("merge")>>},
                  {<<Comment>>, <<Reject>>, <<Abandon>>})
    \cup StartsOf({"created"}, {<<Update>>}, {<<Update>>}, {<<Comment>>, <<Update>>})

\* A prepared merge racing new candidates, new reviews and checks, and a second merge.
CandidateRace ==
    StartsOf({"prepared"},
             {<<Merge("merge")>>, <<Prepare("merge"), Check, Merge("merge")>>},
             {<<Prepare("squash")>>, <<Reject>>, <<Update>>},
             {<<Check>>, <<Approve, Merge("merge")>>, <<Approve, Merge("squash")>>})

\* A candidate prepared again by another strategy, which makes the same commit.
SameResultRace ==
    StartsOf({"created"},
             {<<Prepare("rebase"), Check, Approve, Merge("rebase")>>}, {<<Prepare("ff")>>}, {<<>>})

GateRace == ReadyRace \cup CandidateRace \cup SameResultRace

\* A review or check that began before the candidate was prepared, appended after it.
UnboundRace ==
    StartsOf({"ready"}, {<<Prepare("merge"), Check, Merge("merge")>>}, {<<Approve>>},
             {<<Check>>, <<Approve>>})

\* Two merges by different strategies, or a merge and a prepare; or a merge and a comment.
BranchRace ==
    StartsOf({"ready", "prepared"},
             {<<Merge("merge")>>, <<Merge("squash")>>, <<Merge("rebase")>>},
             {<<Merge("ff")>>, <<Prepare("rebase")>>}, {<<>>})
    \cup StartsOf({"ready", "prepared"}, {<<Merge("merge")>>}, {<<>>}, {<<Comment>>})

\* Appends, updates and prepares that fail, or that git reports as failed, while others move
\* the head: what is tried again.
RetryRace ==
    StartsOf({"created"}, {<<Approve>>}, {<<Check>>}, {<<>>})
    \cup StartsOf({"created"}, {<<Update>>}, {<<Update>>, <<Prepare("merge")>>}, {<<>>})
    \cup StartsOf({"created"}, {<<Prepare("merge")>>}, {<<Prepare("squash")>>}, {<<>>})

FaultRace == BranchRace \cup RetryRace

\* Merges whose worktree refresh may fail, or that are killed; and contended appends.
RollbackRace ==
    StartsOf({"ready", "prepared"},
             {<<Merge("merge")>>}, {<<Merge("merge")>>, <<Prepare("merge")>>, <<Comment>>}, {<<>>})
    \cup StartsOf({"created"}, {<<Approve>>}, {<<>>}, {<<Check, Abandon>>})

\* An abandon, between the fold of a review and its append.
AbandonRace ==
    StartsOf({"created"}, {<<Approve>>}, {<<Abandon>>}, {<<Comment>>, <<Reject>>})
=============================================================================

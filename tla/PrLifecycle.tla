------------------------------ MODULE PrLifecycle ------------------------------
(***************************************************************************)
(* One pull request under every command that touches it: the actors'       *)
(* scripts of git-forge invocations interleave with each other, with       *)
(* people who push to the two branches and write to the linked issue, and  *)
(* with processes being killed.                                            *)
(***************************************************************************)
EXTENDS PrAppend, PrUpdate, PrPrepare, PrMerge, FiniteSets

CONSTANTS
    Starts,       \* how far the PR may have come, and the scripts the actors then run
    Diverged,     \* whether base and source have both moved on from their root
    EnvOps,       \* what happens outside the scripts
    MaxCommits,   \* bound: nobody pushes past this many commits
    MaxIssue,     \* bound: nobody writes an issue chain longer than this
    Crashes       \* whether processes may be killed

\* The invocations: a review carries its decision, a prepare or a merge its strategy.
Decisions == {"approve", "reject"}
Commands == [op : {"comment", "ci", "abandon", "update"}, arg : {""}]
            \cup [op : {"review"}, arg : Decisions]
            \cup [op : {"prepare", "merge"}, arg : Strategies]

ASSUME LifecycleAssumption ==
    /\ Starts \subseteq [from : {"created", "ready", "prepared"},
                        plan : [Actors -> Seq(Commands)]]
    /\ EnvOps \subseteq {"push-base", "rewind-base", "push-source",
                         "issue.close", "issue.reopen", "issue.comment"}
    /\ Diverged \in BOOLEAN /\ Crashes \in BOOLEAN
    /\ MaxCommits \in Nat /\ MaxIssue \in Nat

vars == <<refs, objects, proc, todo, reported>>

----------------------------------------------------------------------------
(* The initial states: commit 1 is the common root, 2 the source tip and, when
   the branches have diverged, 3 the base tip. *)

Base0 == IF Diverged THEN 3 ELSE 1
Source0 == 2
Commits0 ==
    LET two == <<[anc |-> {1}, from |-> 1], [anc |-> {1, 2}, from |-> 2]>>
    IN  IF Diverged THEN Append(two, [anc |-> {1, 3}, from |-> 3]) ELSE two

\* An event recorded before the scripts start.
Past(kind, n, word, bind) ==
    [PrEvent(kind, <<Founder, n>>, NoRole) EXCEPT !.word = word, !.bind = bind]

\* create_pr: the pr.created event and its pending ci.check child.
Created ==
    Extend(Genesis([PrEvent("pr.created", <<Founder, 0>>, RoleOf[Founder]) EXCEPT
                        !.source = Source0, !.base = Base0]),
           Past("ci.check", 1, "pending", NoBind))

\* Approved and green, on the candidate of bind if there is one.
Vetted(c, bind) ==
    Extend(Extend(c, Past("pr.review", 2, "approve", bind)),
           Past("ci.check", 3, "success", bind))

\* A merge-commit candidate that took the next commit number.
Candidate0 == [strategy |-> "merge", result |-> Len(Commits0) + 1]
Prepared ==
    Extend(Created, [Past("pr.prepared", 4, "none", Candidate0) EXCEPT
                        !.source = Source0, !.base = Base0])

\* The PR, as it is when it was just created, when it is ready to merge, and when a
\* candidate was prepared and vetted.
Reached(from) ==
    \/ /\ from = "created"
       /\ chain = Created /\ result = NoCommit /\ objects = Commits0
    \/ /\ from = "ready"
       /\ chain = Vetted(Created, NoBind) /\ result = NoCommit /\ objects = Commits0
    \/ /\ from = "prepared"
       /\ chain = Vetted(Prepared, Candidate0) /\ result = Candidate0.result
       /\ objects = Append(Commits0, [anc |-> 1..Len(Commits0) + 1, from |-> Source0])

Init ==
    /\ \E s \in Starts : Reached(s.from) /\ todo = s.plan
    /\ base = Base0
    /\ source = Source0
    /\ pins = {Pin(0, Source0, Base0)}
    /\ issue = IF LinkedIssue
               THEN <<[kind |-> "issue.created", id |-> <<Founder, 0>>, open |-> TRUE]>>
               ELSE <<>>
    /\ proc = [a \in Actors |-> Idle]
    /\ reported = {}

----------------------------------------------------------------------------
(* Outside the scripts: git pushes, and the issue's own commands. *)

Outside == UNCHANGED <<proc, todo, reported>>

PushBase ==
    /\ "push-base" \in EnvOps
    /\ Len(objects) < MaxCommits
    /\ base' = NextCommit /\ NewCommit(Anc(base), NextCommit)
    /\ UNCHANGED <<chain, source, result, issue, pins>> /\ Outside

RewindBase ==
    /\ "rewind-base" \in EnvOps
    /\ base' \in Anc(base) \ {base}
    /\ UNCHANGED <<chain, source, result, issue, pins, objects>> /\ Outside

PushSource ==
    /\ "push-source" \in EnvOps
    /\ Len(objects) < MaxCommits
    /\ source' = NextCommit /\ NewCommit(Anc(source), NextCommit)
    /\ UNCHANGED <<chain, base, result, issue, pins>> /\ Outside

\* `issue close`, `reopen` and `comment` append unconditionally.
WriteIssue ==
    /\ LinkedIssue
    /\ Len(issue) < MaxIssue
    /\ \E kind \in EnvOps \cap {"issue.close", "issue.reopen", "issue.comment"} :
          issue' = IssueExtend(issue, kind, <<Founder, Len(issue)>>)
    /\ UNCHANGED <<chain, base, source, result, pins, objects>> /\ Outside

ProcessStep(a) == AppendStep(a) \/ UpdateStep(a) \/ PrepareStep(a) \/ MergeStep(a)

Next ==
    \/ \E a \in Actors : ProcessStep(a)
    \/ \E a \in Actors : Crashes /\ Crash(a)
    \/ PushBase \/ RewindBase \/ PushSource \/ WriteIssue

Spec == Init /\ [][Next]_vars

\* Every git command returns and `ci run` has a deadline: a process keeps running.
FairSpec == Spec /\ \A a \in Actors : WF_vars(ProcessStep(a))
=============================================================================

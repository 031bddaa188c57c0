-------------------------------- MODULE PrRefs --------------------------------
(***************************************************************************)
(* The shared state of one pull request -- the git refs its commands read  *)
(* and write -- and the private state of the git-forge processes that run  *)
(* those commands.                                                         *)
(*                                                                         *)
(* An actor is a shell that runs a script of git-forge invocations, one    *)
(* process after another; processes of different actors interleave at      *)
(* every ref read and every ref transaction.  A ref transaction            *)
(* (run_update_ref_stdin) is one atomic step: it applies every line or     *)
(* none.  Under Faults it may also apply every line and be reported as     *)
(* failed.                                                                 *)
(***************************************************************************)
EXTENDS PrChain

CONSTANTS
    Actors,             \* the shells that run git-forge
    Founder,            \* who created the PR; also names writers outside the scripts
    RoleOf,             \* the role each of them stamps on its events, or NoRole
    LinkedIssue,        \* whether the PR was created with --closes
    Faults,             \* whether a git operation may fail for a reason of its own
    MaxAppendRetries,   \* store.rs MAX_APPEND_RETRIES
    MaxFinalizeRetries  \* finalize.rs MAX_FINALIZE_RETRIES

ASSUME RefsAssumption ==
    /\ Founder \notin Actors
    /\ RoleOf \in [Actors \cup {Founder} -> STRING]
    /\ LinkedIssue \in BOOLEAN
    /\ Faults \in BOOLEAN
    /\ MaxAppendRetries \in Nat \ {0}
    /\ MaxFinalizeRetries \in Nat \ {0}

VARIABLES
    chain,     \* refs/forge/prs/<n>/head: the PR's event chain
    base,      \* refs/heads/<base>: the base branch tip
    source,    \* refs/heads/<source>: the source branch tip
    result,    \* refs/forge/prs/<n>/result: pending result or candidate pin
    issue,     \* refs/forge/issues/<n>: the linked issue's chain
    pins,      \* the generation refs source/g<k> and base/g<k>
    objects,   \* the commits: ancestors, and the source commit each was built from
    proc,      \* what each actor's running process holds in memory
    todo,      \* the invocations each actor has still to run, the current one first
    reported   \* what finished invocations reported, and whom git misinformed

refs == <<chain, base, source, result, issue, pins>>

----------------------------------------------------------------------------
(* Commits. *)

Anc(c) == objects[c].anc
NextCommit == Len(objects) + 1
NewCommit(ancestors, from) ==
    objects' = Append(objects, [anc |-> ancestors \cup {NextCommit}, from |-> from])

\* Commit c carries the work of source commit s, as history or as its rewrite.
CarriesWork(c, s) == s \in Anc(c) \/ objects[c].from = s

(***************************************************************************)
(* execute_strategy where git makes no new commit: a fast-forward, a       *)
(* rebase of commits that are already on the base tip, or a merge or       *)
(* rebase of work the base already contains.                               *)
(***************************************************************************)
Reused(strategy, s, b) ==
    (IF strategy = "ff" \/ (strategy = "rebase" /\ b \in Anc(s)) THEN {s} ELSE {})
    \cup (IF strategy \in {"merge", "rebase"} /\ s \in Anc(b) THEN {b} ELSE {})

\* Only a merge commit has the source among its ancestors.
Kept(strategy, s, b) == IF strategy = "merge" THEN Anc(s) \cup Anc(b) ELSE Anc(b)

\* Mutant: the new commit is named and never written.
Executes_Unwritten(strategy, s, b, r) ==
    /\ r \in Reused(strategy, s, b) \cup {NextCommit}
    /\ UNCHANGED objects

\* execute_strategy succeeds with commit r; a squash with nothing to commit fails.
Executes(strategy, s, b, r) ==
    \/ /\ r \in Reused(strategy, s, b)
       /\ UNCHANGED objects
    \/ /\ Reused(strategy, s, b) = {}
       /\ strategy = "squash" => s \notin Anc(b)
       /\ r = NextCommit
       /\ NewCommit(Kept(strategy, s, b), s)

\* A textual conflict needs work on both sides; anything else is a fault.
ExecutionMayFail(strategy, s, b) ==
    \/ Faults
    \/ strategy # "ff" /\ b \notin Anc(s) /\ s \notin Anc(b)
    \/ strategy = "squash" /\ s \in Anc(b)

----------------------------------------------------------------------------
(* The linked issue: a chain of its own, each node with the folded open state. *)

IssueOpen(i) == i[Len(i)].open
IssueExtend(i, kind, id) ==
    Append(i, [kind |-> kind, id |-> id,
               open |-> CASE kind = "issue.close" -> FALSE
                          [] kind = "issue.reopen" -> TRUE
                          [] OTHER -> IssueOpen(i)])

----------------------------------------------------------------------------
(* Processes.  tip is the chain the process read and expects at its CAS; gen,
   src, base, res, bind and word are what it captured; stage is the issue chain
   a staged close is parented on (<<>>: no close staged); seen is the chain a
   rollback read; tries counts the retries. *)

Idle == [pc |-> "idle", tip |-> <<>>, seen |-> <<>>, stage |-> <<>>,
         gen |-> 0, src |-> NoCommit, base |-> NoCommit, res |-> NoCommit,
         bind |-> NoBind, word |-> "none", tries |-> 0]

Cmd(op, arg) == [op |-> op, arg |-> arg]
Command(a) == Head(todo[a])
CommandId(a) == <<a, Len(todo[a])>>
Authored(a, kind) == PrEvent(kind, CommandId(a), RoleOf[a])

At(a, pc) == proc[a].pc = pc
Starting(a, op) == At(a, "idle") /\ todo[a] # <<>> /\ Command(a).op = op

Becomes(a, p) == /\ proc' = [proc EXCEPT ![a] = p]
                 /\ UNCHANGED <<todo, reported>>
Goes(a, pc) == Becomes(a, [proc[a] EXCEPT !.pc = pc])

(***************************************************************************)
(* The process exits: "ok" when it reported success (for `ci run`, that    *)
(* its check was recorded), "refused" when it reported that nothing was    *)
(* written, "partial" when it reported a failed rollback.                  *)
(***************************************************************************)
Reports(a, how) == reported' = reported \cup {[id |-> CommandId(a), how |-> how]}

Exits(a, how) ==
    /\ Reports(a, how)
    /\ todo' = [todo EXCEPT ![a] = Tail(@)]
    /\ proc' = [proc EXCEPT ![a] = Idle]

(***************************************************************************)
(* Git applied the transaction, and then died or exited nonzero            *)
(* (update_ref.rs run_update_ref_stdin): the process goes on at pc, as it  *)
(* does when nothing was applied.  No process can tell the two apart; that *)
(* the transaction counted is kept here as a report of its own, "unclear", *)
(* which nobody reads but the properties.                                  *)
(***************************************************************************)
Unclear(a, pc) ==
    /\ Faults
    /\ Reports(a, "unclear")
    /\ proc' = [proc EXCEPT ![a] = [@ EXCEPT !.pc = pc]]
    /\ UNCHANGED todo

\* Mutant: a failed transaction is tried again whatever failed, without a bound.
Retry_Unbounded(a, p) == Becomes(a, p)

(***************************************************************************)
(* After a failed append: the head moved, so the race is run again from p, *)
(* a bounded number of times; anything else is reported.                   *)
(***************************************************************************)
Retry(a, p) ==
    IF chain # proc[a].tip /\ proc[a].tries + 1 < MaxAppendRetries
    THEN Becomes(a, [p EXCEPT !.tries = @ + 1])
    ELSE Exits(a, "refused")

\* The process is killed: what it had written to the refs stays, it reports nothing.
Crash(a) ==
    /\ ~At(a, "idle")
    /\ todo' = [todo EXCEPT ![a] = Tail(@)]
    /\ proc' = [proc EXCEPT ![a] = Idle]
    /\ UNCHANGED <<refs, objects, reported>>
=============================================================================

-------------------------------- MODULE PrMerge --------------------------------
(***************************************************************************)
(* `pr merge` (pr_merge.rs cmd_pr_merge, merge_state.rs, finalize.rs): the *)
(* gate is evaluated at one exact head tip; a prepared candidate is taken  *)
(* as it is, otherwise the strategy runs and its result is kept alive by   *)
(* the pending result ref; one transaction then moves the base branch,     *)
(* appends pr.merge, closes the linked issue and deletes the result ref.   *)
(* When the base is checked out, its worktree is refreshed afterwards and  *)
(* a failed refresh rolls the transaction back.                            *)
(***************************************************************************)
EXTENDS PrRefs

CONSTANT BaseCheckedOut    \* whether a worktree has the base branch checked out
ASSUME MergeAssumption == BaseCheckedOut \in BOOLEAN

\* The program counters from the pending result ref on, when the gate has passed.
Finalizing == {"m_pending", "m_worktree", "m_stage", "m_fold", "m_txn", "m_head",
               "m_issue", "m_clean", "m_refresh", "m_seen", "m_rollback"}

MergeEvent(a) ==
    [Authored(a, "pr.merge") EXCEPT
        !.bind = [strategy |-> Command(a).arg, result |-> proc[a].res]]

(***************************************************************************)
(* read_merge_gate: the gate is evaluated on the tip read here, which is   *)
(* also the tip the final transaction compares with.                       *)
(***************************************************************************)
MergeGate(a) ==
    LET st == State(chain)
        admitted == /\ Gate(st)
                    /\ [gen |-> st.gen, source |-> st.source, base |-> st.base] \in pins
    IN
    /\ Starting(a, "merge")
    /\ \/ ~admitted /\ Exits(a, "refused")
       \/ admitted /\ Becomes(a, [proc[a] EXCEPT !.pc = "m_base", !.tip = chain,
                                                 !.gen = st.gen, !.src = st.source])
    /\ UNCHANGED <<refs, objects>>

(***************************************************************************)
(* Routing on the live base tip: a current candidate must pass its own     *)
(* gate; without one the base must not have moved, and a stale candidate   *)
(* refuses.  Either way a fast-forward needs the base under the source.    *)
(***************************************************************************)
Routed(a) ==
    LET st == State(proc[a].tip)
        strategy == Command(a).arg
    IN  /\ IF CandidateCurrent(st)
           THEN CandidateGate(st, base, strategy)
           ELSE base = st.base /\ st.prepared.result = NoCommit
        /\ strategy = "ff" => base \in Anc(proc[a].src)

MergeRefusedAtBase(a) ==
    /\ At(a, "m_base")
    /\ ~Routed(a) \/ BaseCheckedOut         \* a dirty base worktree refuses
    /\ Exits(a, "refused")
    /\ UNCHANGED <<refs, objects>>

\* The candidate path: nothing runs, the candidate's identity is taken over.
MergeTakesCandidate(a) ==
    LET st == State(proc[a].tip) IN
    /\ At(a, "m_base")
    /\ Routed(a)
    /\ CandidateCurrent(st)
    /\ Becomes(a, [proc[a] EXCEPT !.pc = "m_pin", !.base = st.prepared.base,
                                  !.src = st.prepared.source,
                                  !.res = st.prepared.result,
                                  !.bind = BindOf(st.prepared)])
    /\ UNCHANGED <<refs, objects>>

\* Its pin must still be there.
MergePin(a) ==
    /\ At(a, "m_pin")
    /\ \/ result # proc[a].res /\ Exits(a, "refused")
       \/ result = proc[a].res /\ Goes(a, "m_stage")
    /\ UNCHANGED <<refs, objects>>

\* The legacy path: the strategy runs in a temporary worktree ...
MergeExecutes(a) ==
    /\ At(a, "m_base")
    /\ Routed(a)
    /\ ~CandidateCurrent(State(proc[a].tip))
    /\ \E r \in 1..NextCommit :
          /\ Executes(Command(a).arg, proc[a].src, base, r)
          /\ Becomes(a, [proc[a] EXCEPT !.pc = "m_pending", !.base = base, !.res = r])
    /\ UNCHANGED refs

\* ... or fails; so does the result's CI (verify_result_ci), which runs only when
\* the result tree is not the source tree.
MergeExecutionFails(a) ==
    /\ At(a, "m_base")
    /\ Routed(a)
    /\ ~CandidateCurrent(State(proc[a].tip))
    /\ \/ ExecutionMayFail(Command(a).arg, proc[a].src, base)
       \/ base \notin Anc(proc[a].src)
    /\ Exits(a, "refused")
    /\ UNCHANGED <<refs, objects>>

\* create_pending_result_ref expects the ref to be absent; when git made it and reported a
\* failure, the merge ends and the ref stays.
MergeCreatesPending(a) ==
    /\ At(a, "m_pending")
    /\ result = NoCommit
    /\ result' = proc[a].res
    /\ Goes(a, "m_worktree") \/ (Faults /\ Exits(a, "refused"))
    /\ UNCHANGED <<chain, base, source, issue, pins, objects>>

MergePendingFails(a) ==
    /\ At(a, "m_pending")
    /\ Faults \/ result # NoCommit
    /\ Exits(a, "refused")
    /\ UNCHANGED <<refs, objects>>

\* The temporary worktree is removed and verified gone, or the merge stops.
MergeWorktreeGone(a) ==
    /\ At(a, "m_worktree")
    /\ Goes(a, "m_stage")
    /\ UNCHANGED <<refs, objects>>

MergeWorktreeStays(a) ==
    /\ At(a, "m_worktree")
    /\ Goes(a, "m_clean")
    /\ UNCHANGED <<refs, objects>>

----------------------------------------------------------------------------
(* run_finalize. *)

\* Mutants: the result ref is deleted without comparing its value; it is never deleted.
Owned_Any(a) == TRUE
Owned_Never(a) == FALSE

\* The expected value of delete_pending_result_ref.
Owned(a) == result = proc[a].res

(***************************************************************************)
(* cleanup_pending_result, then the error: the result ref is deleted if it *)
(* still holds this merge's result.  A deletion that git applied and       *)
(* reported as failed ends the same way: the ref is read again.            *)
(***************************************************************************)
MergeCleans(a) ==
    /\ At(a, "m_clean")
    /\ result' = IF Owned(a) THEN NoCommit ELSE result
    /\ Exits(a, "refused")
    /\ UNCHANGED <<chain, base, source, issue, pins, objects>>

MergeLeavesPending(a) ==
    /\ At(a, "m_clean")
    /\ Faults
    /\ Exits(a, "refused")
    /\ UNCHANGED <<refs, objects>>

\* stage_issue_close reads the issue tip the close is to be parented on,
MergeStages(a) ==
    /\ At(a, "m_stage")
    /\ Becomes(a, [proc[a] EXCEPT !.pc = IF LinkedIssue THEN "m_fold" ELSE "m_txn",
                                  !.stage = issue])
    /\ UNCHANGED <<refs, objects>>

\* and then folds the issue's chain: a closed issue needs no close.
MergeFoldsIssue(a) ==
    /\ At(a, "m_fold")
    /\ Becomes(a, [proc[a] EXCEPT !.pc = "m_txn",
                                  !.stage = IF IssueOpen(issue) THEN @ ELSE <<>>])
    /\ UNCHANGED <<refs, objects>>

\* Staging fails: the error returns at once, the pending result ref stays.
MergeStageFails(a) ==
    /\ At(a, "m_fold")
    /\ Faults
    /\ Exits(a, "refused")
    /\ UNCHANGED <<refs, objects>>

\* The issue chain with this merge's close on the staged tip.
Closed(a) == IssueExtend(proc[a].stage, "issue.close", CommandId(a))

\* Mutant: the base's expected value is read afresh.
FinalizeHolds_AnyBase(a) ==
    /\ result = proc[a].res
    /\ chain = proc[a].tip
    /\ proc[a].stage # <<>> => issue = proc[a].stage

\* finalize_pr_merge: the expected values of its update-ref lines.
FinalizeHolds(a) ==
    /\ result = proc[a].res
    /\ base = proc[a].base
    /\ chain = proc[a].tip
    /\ proc[a].stage # <<>> => issue = proc[a].stage

\* Mutant: the close is left out of the batch.
IssueAfter_Unclosed(a) == issue

\* The issue ref after the transaction.
IssueAfter(a) == IF proc[a].stage = <<>> THEN issue ELSE Closed(a)

MergeTxn(a) ==
    /\ At(a, "m_txn")
    /\ FinalizeHolds(a)
    /\ result' = NoCommit
    /\ base' = proc[a].res
    /\ chain' = Extend(proc[a].tip, MergeEvent(a))
    /\ issue' = IssueAfter(a)
    /\ \/ IF BaseCheckedOut THEN Goes(a, "m_refresh") ELSE Exits(a, "ok")
       \/ Unclear(a, "m_head")
    /\ UNCHANGED <<source, pins, objects>>

MergeTxnFails(a) ==
    /\ At(a, "m_txn")
    /\ Faults \/ ~FinalizeHolds(a)
    /\ Goes(a, "m_head")
    /\ UNCHANGED <<refs, objects>>

\* Another attempt, or the retries are exhausted.
Retries(a, p) ==
    IF proc[a].tries + 1 > MaxFinalizeRetries
    THEN Goes(a, "m_clean")
    ELSE Becomes(a, [p EXCEPT !.pc = "m_stage", !.stage = <<>>, !.tries = @ + 1])

\* Mutants: the moved tip is adopted without its gate or its snapshot test.
Adoptable_Ungated(a, now) ==
    /\ HeadExtends(proc[a].tip, now)
    /\ State(now).gen = proc[a].gen /\ State(now).source = proc[a].src
    /\ State(now).prepared.result = proc[a].bind.result
Adoptable_AnySnapshot(a, now) ==
    /\ HeadExtends(proc[a].tip, now)
    /\ Gate(State(now))
    /\ State(now).prepared.result = proc[a].bind.result

(***************************************************************************)
(* validate_adopted_finalize_tip: a moved tip is adopted when it extends   *)
(* the current one, still passes the gate, and still has the snapshot and  *)
(* the candidate (or none) the result was built from.                      *)
(***************************************************************************)
Adoptable(a, now) ==
    /\ HeadExtends(proc[a].tip, now)
    /\ Gate(State(now))
    /\ State(now).gen = proc[a].gen /\ State(now).source = proc[a].src
    /\ State(now).prepared.result = proc[a].bind.result

\* After a failed transaction the head is read once: unmoved, adoptable or refused.  A
\* head that this merge moved itself is refused: no gate passes on a merged PR.
MergeReadsHead(a) ==
    /\ At(a, "m_head")
    /\ \/ chain = proc[a].tip /\ proc[a].stage # <<>> /\ Goes(a, "m_issue")
       \/ chain = proc[a].tip /\ proc[a].stage = <<>> /\ Goes(a, "m_clean")
       \/ /\ chain # proc[a].tip /\ Adoptable(a, chain)
          /\ Retries(a, [proc[a] EXCEPT !.tip = chain])
       \/ chain # proc[a].tip /\ ~Adoptable(a, chain) /\ Goes(a, "m_clean")
    /\ UNCHANGED <<refs, objects>>

\* With the head unmoved, only a moved issue is worth another attempt.
MergeReadsIssue(a) ==
    /\ At(a, "m_issue")
    /\ \/ issue # proc[a].stage /\ Retries(a, proc[a])
       \/ issue = proc[a].stage /\ Goes(a, "m_clean")
    /\ UNCHANGED <<refs, objects>>

----------------------------------------------------------------------------
(* refresh_base_worktrees. *)

\* The worktree still has the merged tip checked out, and is reset to it.
MergeRefreshes(a) ==
    /\ At(a, "m_refresh")
    /\ base = proc[a].res
    /\ Exits(a, "ok")
    /\ UNCHANGED <<refs, objects>>

\* Its HEAD has moved, it became dirty, or the reset failed: roll back.
MergeRefreshFails(a) ==
    /\ At(a, "m_refresh")
    /\ Goes(a, "m_seen")
    /\ UNCHANGED <<refs, objects>>

\* The rollback reads the head afresh.
RollbackReadsHead(a) ==
    /\ At(a, "m_seen")
    /\ Becomes(a, [proc[a] EXCEPT !.pc = "m_rollback", !.seen = chain])
    /\ UNCHANGED <<refs, objects>>

\* Mutant: the base is not among the refs rolled back.
RolledBackBase_Kept(a) == base

\* The base ref after a rollback.
RolledBackBase(a) == proc[a].base

\* Mutant: the issue is not among the refs rolled back.
RolledBackIssue_Kept(a) == issue

\* The issue ref after a rollback.
RolledBackIssue(a) == IF proc[a].stage = <<>> THEN issue ELSE proc[a].stage

\* The expected values of the rollback batch.
RollbackHolds(a) ==
    /\ base = proc[a].res
    /\ chain = proc[a].seen
    /\ proc[a].stage # <<>> => issue = Closed(a)

Rollback(a) ==
    /\ At(a, "m_rollback")
    /\ RollbackHolds(a)
    /\ base' = RolledBackBase(a)
    /\ chain' = proc[a].tip
    /\ issue' = RolledBackIssue(a)
    /\ Exits(a, "refused") \/ (Faults /\ Exits(a, "partial"))
    /\ UNCHANGED <<source, result, pins, objects>>

\* ROLLBACK FAILED: reported as a partial state, as is one that git applied and reported
\* as failed.
RollbackFails(a) ==
    /\ At(a, "m_rollback")
    /\ Faults \/ ~RollbackHolds(a)
    /\ Exits(a, "partial")
    /\ UNCHANGED <<refs, objects>>

MergeStep(a) ==
    \/ MergeGate(a) \/ MergeRefusedAtBase(a)
    \/ MergeTakesCandidate(a) \/ MergePin(a)
    \/ MergeExecutes(a) \/ MergeExecutionFails(a)
    \/ MergeCreatesPending(a) \/ MergePendingFails(a)
    \/ MergeWorktreeGone(a) \/ MergeWorktreeStays(a)
    \/ MergeStages(a) \/ MergeFoldsIssue(a) \/ MergeStageFails(a)
    \/ MergeTxn(a) \/ MergeTxnFails(a)
    \/ MergeReadsHead(a) \/ MergeReadsIssue(a)
    \/ MergeCleans(a) \/ MergeLeavesPending(a)
    \/ MergeRefreshes(a) \/ MergeRefreshFails(a)
    \/ RollbackReadsHead(a) \/ Rollback(a) \/ RollbackFails(a)
=============================================================================

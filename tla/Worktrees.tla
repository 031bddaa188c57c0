-------------------------------- MODULE Worktrees --------------------------------
(***************************************************************************)
(* The checkouts a merge touches: the worktrees that have the base branch  *)
(* checked out, which are refreshed after the branch has moved and put     *)
(* back when one of them cannot be, and the source's worktree, which       *)
(* --recycle-worktree removes with its branch.  People edit and commit in  *)
(* all of them meanwhile.  The merges are of different pull requests with  *)
(* one base, so that only the base branch ties them together.              *)
(***************************************************************************)
EXTENDS Integers, Sequences, FiniteSets, SequencesExt

CONSTANTS
    Merges,      \* the merges
    Trees,       \* the worktrees that have the base branch checked out
    Plans,       \* how each merge is run
    User,        \* the author of commits that are no merge
    MaxUser,     \* bound: people edit, clean and commit at most this often
    Faults,      \* whether a git command may fail, or report a failure it did not have
    Crashes      \* whether a merge may be killed

ASSUME WorktreesAssumption ==
    /\ Plans \subseteq [Merges -> [strategy : {"merge", "squash"}, recycle : BOOLEAN,
                                   force : BOOLEAN]]
    /\ User \notin Merges /\ MaxUser \in Nat
    /\ IsFiniteSet(Trees)
    /\ Faults \in BOOLEAN /\ Crashes \in BOOLEAN

VARIABLES
    base,      \* the base branch, by the authors of its commits
    tree,      \* each base worktree: the commit its files are of, and whether they were edited
    source,    \* each merge's source: the commits of its branch, its worktree, whether that was edited
    plan,      \* how each merge is run
    merge,     \* each merge: where it is and what it remembers
    told,      \* the worktrees that a merge named as left behind, or a person made stale
    unsaid,    \* the worktrees that were left behind and not named (a history variable)
    lost,      \* the work that was discarded (a history variable)
    userOps    \* how often people have done something

vars == <<base, tree, source, plan, merge, told, unsaid, lost, userOps>>

\* What a merge remembers: the gate's base tip, the worktrees still to visit and already
\* refreshed, whether what it last looked at was edited (a history field), the worktree it
\* failed on, the source's tip, what it told its caller, and whether git had told it that a
\* transaction failed which was applied (a history field).
Fresh == [pc |-> "gate", gate |-> <<>>, left |-> {}, done |-> {}, dirty |-> FALSE,
          failed |-> {}, tip |-> 0, answer |-> "none", misled |-> FALSE]

\* A branch whose snapshot is its first commit.
SourceHead == 1

Init ==
    /\ base = <<>>
    /\ tree = [w \in Trees |-> [at |-> <<>>, edited |-> FALSE]]
    /\ source = [a \in Merges |-> [commits |-> SourceHead, there |-> TRUE, edited |-> FALSE]]
    /\ plan \in Plans
    /\ merge = [a \in Merges |-> Fresh]
    /\ told = {} /\ lost = {} /\ unsaid = {} /\ userOps = 0

At(a, pc) == merge[a].pc = pc
Becomes(a, m) == merge' = [merge EXCEPT ![a] = m]
Goes(a, pc) == Becomes(a, [merge[a] EXCEPT !.pc = pc])
Answers(a, answer) == Becomes(a, [merge[a] EXCEPT !.pc = "done", !.answer = answer])
Result(a) == Append(merge[a].gate, a)

\* The next of the worktrees a merge visits, one after the other.
Visits(a, w) == merge[a].left # {} /\ w = CHOOSE x \in merge[a].left : TRUE

Branches == UNCHANGED <<base, source, plan, userOps>>

----------------------------------------------------------------------------
(* Before the merge. *)

\* The gate's base tip, and then the worktrees that have the base checked out.
MergeGate(a) ==
    /\ At(a, "gate")
    /\ Becomes(a, [merge[a] EXCEPT !.pc = "clean", !.gate = base, !.left = Trees])
    /\ Branches /\ UNCHANGED <<tree, told, lost, unsaid>>

\* git status: the files differ from what HEAD names.
WorktreeDirty(w) == tree[w].edited \/ tree[w].at # base

CheckClean(a) ==
    /\ At(a, "clean")
    /\ \E w \in Trees :
          /\ Visits(a, w)
          /\ IF WorktreeDirty(w) THEN Answers(a, "refused")
             ELSE Becomes(a, [merge[a] EXCEPT !.left = @ \ {w}])
    /\ Branches /\ UNCHANGED <<tree, told, lost, unsaid>>

\* validate_recycle_target: the source's worktree must be there, and clean unless forced.
ValidateRecycle(a) ==
    /\ At(a, "clean") /\ merge[a].left = {}
    /\ IF plan[a].recycle /\ (~source[a].there \/ (source[a].edited /\ ~plan[a].force))
       THEN Answers(a, "refused")
       ELSE Goes(a, "txn")
    /\ Branches /\ UNCHANGED <<tree, told, lost, unsaid>>

TxnHolds_AnyBase(a) == TRUE

\* The expected value of the base line.
TxnHolds(a) == base = merge[a].gate

(***************************************************************************)
(* The final transaction moves the base branch from the gate's tip to the  *)
(* result.  When git then dies or exits nonzero (update_ref.rs             *)
(* run_update_ref_stdin), the head has moved to this very merge, whose     *)
(* gate no longer passes: a refusal, and no worktree is looked at.         *)
(***************************************************************************)
MergeTxn(a) ==
    /\ At(a, "txn")
    /\ TxnHolds(a)
    /\ base' = Result(a)
    /\ \/ Becomes(a, [merge[a] EXCEPT !.pc = "head", !.left = Trees]) /\ UNCHANGED unsaid
       \/ /\ Faults
          /\ Becomes(a, [merge[a] EXCEPT !.pc = "done", !.answer = "refused", !.misled = TRUE])
          /\ unsaid' = unsaid \cup Trees
    /\ UNCHANGED <<tree, source, plan, told, lost, userOps>>

MergeTxnFails(a) ==
    /\ At(a, "txn")
    /\ Faults \/ ~TxnHolds(a)
    /\ Answers(a, "refused")
    /\ Branches /\ UNCHANGED <<tree, told, lost, unsaid>>

----------------------------------------------------------------------------
(* refresh_base_worktrees, and refresh_base_worktree for each. *)

RefreshFails(a, w) == Becomes(a, [merge[a] EXCEPT !.pc = "rollback", !.failed = {w}])

\* rev-parse HEAD must still be the result.
RefreshHead(a) ==
    /\ At(a, "head")
    /\ \E w \in Trees :
          /\ Visits(a, w)
          /\ IF base = Result(a) THEN Goes(a, "diff") ELSE RefreshFails(a, w)
    /\ Branches /\ UNCHANGED <<tree, told, lost, unsaid>>

RefreshDirty_Unchecked(a, w) == FALSE

\* The files must still be those of the tip before the merge, with nothing added.
RefreshDirty(a, w) == tree[w].edited \/ tree[w].at # merge[a].gate

RefreshDiff(a) ==
    /\ At(a, "diff")
    /\ \E w \in Trees :
          /\ Visits(a, w)
          /\ IF RefreshDirty(a, w) THEN RefreshFails(a, w)
             ELSE Becomes(a, [merge[a] EXCEPT !.pc = "reset", !.dirty = tree[w].edited])
    /\ Branches /\ UNCHANGED <<tree, told, lost, unsaid>>

\* reset --hard: the files become those of HEAD, and edits are gone.
Resets(a, w, how) ==
    /\ tree' = [tree EXCEPT ![w] = [at |-> base, edited |-> FALSE]]
    /\ lost' = IF tree[w].edited
               THEN lost \cup {[what |-> "edit", by |-> how, seen |-> merge[a].dirty]}
               ELSE lost

RefreshReset(a) ==
    /\ At(a, "reset")
    /\ \E w \in Trees :
          /\ Visits(a, w)
          /\ Resets(a, w, "refresh")
          /\ Becomes(a, [merge[a] EXCEPT !.pc = "head", !.left = @ \ {w}, !.done = @ \cup {w}])
    /\ Branches /\ UNCHANGED <<told, unsaid>>

ResetFails(a) ==
    /\ Faults /\ At(a, "reset")
    /\ \E w \in Trees : Visits(a, w) /\ RefreshFails(a, w)
    /\ Branches /\ UNCHANGED <<tree, told, lost, unsaid>>

UndoneTrees_None(a) == {}
UndoneTrees_All(a) == Trees

\* Worktrees refreshed before the one that failed hold the result's files.
UndoneTrees(a) == merge[a].done

\* The expected value of the rollback's base line.
RollbackHolds(a) == base = Result(a)

(***************************************************************************)
(* The refs go back in one batch; then the refreshed worktrees do, one by  *)
(* one.  A batch that git applied and reported as failed ends the merge    *)
(* with a partial state reported, and those worktrees stay as they are.    *)
(***************************************************************************)
Rollback(a) ==
    /\ At(a, "rollback")
    /\ RollbackHolds(a)
    /\ base' = merge[a].gate
    /\ \/ /\ Becomes(a, [merge[a] EXCEPT !.pc = "undo", !.left = UndoneTrees(a)])
          /\ UNCHANGED told
       \/ Faults /\ Answers(a, "partial") /\ told' = told \cup Trees
    /\ lost' = IF Last(base) = User
               THEN lost \cup {[what |-> "commit", by |-> "rollback", seen |-> TRUE]}
               ELSE lost
    /\ UNCHANGED <<tree, source, plan, unsaid, userOps>>

\* ROLLBACK FAILED: the error says that a partial state exists.
RollbackFails(a) ==
    /\ At(a, "rollback")
    /\ Faults \/ ~RollbackHolds(a)
    /\ Answers(a, "partial")
    /\ told' = told \cup Trees
    /\ Branches /\ UNCHANGED <<tree, lost, unsaid>>

\* A worktree whose HEAD is not on the base tip is named as stale.
UndoHead(a) ==
    /\ At(a, "undo")
    /\ \E w \in Trees :
          /\ Visits(a, w)
          /\ IF base = merge[a].gate
             THEN Becomes(a, [merge[a] EXCEPT !.pc = "undo_reset", !.dirty = FALSE])
                  /\ UNCHANGED told
             ELSE Becomes(a, [merge[a] EXCEPT !.left = @ \ {w}]) /\ told' = told \cup {w}
    /\ Branches /\ UNCHANGED <<tree, lost, unsaid>>

\* The reset, whatever the worktree holds, and wherever its HEAD is, by now.
UndoReset(a) ==
    /\ At(a, "undo_reset")
    /\ \E w \in Trees :
          /\ Visits(a, w)
          /\ Resets(a, w, "undo")
          /\ Becomes(a, [merge[a] EXCEPT !.pc = "undo", !.left = @ \ {w}])
          /\ unsaid' = IF base = merge[a].gate THEN unsaid ELSE unsaid \cup {w}
    /\ Branches /\ UNCHANGED told

UndoFails(a) ==
    /\ Faults /\ At(a, "undo_reset")
    /\ \E w \in Trees :
          /\ Visits(a, w)
          /\ told' = told \cup {w}
          /\ Becomes(a, [merge[a] EXCEPT !.pc = "undo", !.left = @ \ {w}])
    /\ Branches /\ UNCHANGED <<tree, lost, unsaid>>

\* The merge reports that it failed, and the worktree on which.
ReportUnchanged(a) ==
    /\ At(a, "undo") /\ merge[a].left = {}
    /\ Answers(a, "unchanged")
    /\ told' = told \cup merge[a].failed
    /\ Branches /\ UNCHANGED <<tree, lost, unsaid>>

\* Every worktree has been refreshed.
ReportMerged(a) ==
    /\ At(a, "head") /\ merge[a].left = {}
    /\ IF plan[a].recycle THEN Goes(a, "recheck") ELSE Answers(a, "ok")
    /\ Branches /\ UNCHANGED <<tree, told, lost, unsaid>>

----------------------------------------------------------------------------
(* recycle_source_worktree. Whatever it comes to, the merge stands. *)

Kept == UNCHANGED <<base, tree, plan, told, unsaid, userOps>>

\* Edits that came since the validation refuse the removal, unless forced.
RecycleRecheck(a) ==
    /\ At(a, "recheck")
    /\ IF source[a].edited /\ ~plan[a].force
       THEN Answers(a, "ok")
       ELSE Becomes(a, [merge[a] EXCEPT !.pc = "capture", !.dirty = source[a].edited])
    /\ Kept /\ UNCHANGED <<source, lost>>

RecycleCapture(a) ==
    /\ At(a, "capture")
    /\ Becomes(a, [merge[a] EXCEPT !.pc = "remove", !.tip = source[a].commits])
    /\ Kept /\ UNCHANGED <<source, lost>>

RecycleRemove(a) ==
    /\ At(a, "remove")
    /\ source' = [source EXCEPT ![a].there = FALSE, ![a].edited = FALSE]
    /\ lost' = IF source[a].edited /\ ~plan[a].force
               THEN lost \cup {[what |-> "edit", by |-> "recycle", seen |-> merge[a].dirty]}
               ELSE lost
    /\ Goes(a, "branch")
    /\ Kept

\* A result that contains the source's commits, and a branch that was still at the snapshot.
MayDelete(a) == plan[a].strategy = "merge" /\ merge[a].tip = SourceHead

\* branch -D, whatever the branch points to by now.
RecycleBranch(a) ==
    /\ At(a, "branch")
    /\ IF MayDelete(a)
       THEN /\ source' = [source EXCEPT ![a].commits = 0]
            /\ lost' = IF source[a].commits > SourceHead
                       THEN lost \cup {[what |-> "commit", by |-> "recycle",
                                       seen |-> merge[a].tip > SourceHead]}
                       ELSE lost
       ELSE UNCHANGED <<source, lost>>
    /\ Answers(a, "ok")
    /\ Kept

\* Removing the worktree, or deleting the branch, fails: partial-leftover.
RecycleFails(a) ==
    /\ Faults /\ (At(a, "remove") \/ At(a, "branch"))
    /\ Answers(a, "ok")
    /\ Kept /\ UNCHANGED <<source, lost>>

----------------------------------------------------------------------------
(* Kills, and what people do in the worktrees. *)

InFlight(a) == merge[a].pc \in {"head", "diff", "reset", "rollback", "undo", "undo_reset"}

Crash(a) ==
    /\ Crashes /\ ~At(a, "done")
    /\ Answers(a, "killed")
    /\ unsaid' = IF InFlight(a) THEN unsaid \cup Trees ELSE unsaid
    /\ Branches /\ UNCHANGED <<tree, told, lost>>

UserOp == userOps < MaxUser /\ userOps' = userOps + 1 /\ UNCHANGED <<plan, merge, lost>>

EditTree(w) ==
    /\ UserOp
    /\ tree' = [tree EXCEPT ![w].edited = TRUE]
    /\ UNCHANGED <<base, source, told, unsaid>>

\* git restore: the files are again those of the index.
RestoreTree(w) ==
    /\ UserOp /\ tree[w].edited
    /\ tree' = [tree EXCEPT ![w].edited = FALSE]
    /\ UNCHANGED <<base, source, told, unsaid>>

\* git reset --hard, by hand, in a worktree that was left behind, while no merge is at work.
ResetTree(w) ==
    /\ UserOp /\ w \in told \cup unsaid
    /\ \A a \in Merges : ~InFlight(a)
    /\ tree' = [tree EXCEPT ![w] = [at |-> base, edited |-> FALSE]]
    /\ told' = told \ {w} /\ unsaid' = unsaid \ {w}
    /\ UNCHANGED <<base, source>>

CommitTree(w) ==
    /\ UserOp
    /\ tree[w].at = base
    /\ base' = Append(base, User)
    /\ tree' = [tree EXCEPT ![w] = [at |-> base', edited |-> FALSE]]
    /\ told' = told \cup (Trees \ {w})
    /\ UNCHANGED <<source, unsaid>>

EditSource(a) ==
    /\ UserOp /\ plan[a].recycle
    /\ source[a].there
    /\ source' = [source EXCEPT ![a].edited = TRUE]
    /\ UNCHANGED <<base, tree, told, unsaid>>

CommitSource(a) ==
    /\ UserOp /\ plan[a].recycle
    /\ source[a].commits > 0
    /\ source' = [source EXCEPT ![a].commits = @ + 1, ![a].edited = FALSE]
    /\ UNCHANGED <<base, tree, told, unsaid>>

MergeStep(a) ==
    \/ MergeGate(a) \/ CheckClean(a) \/ ValidateRecycle(a)
    \/ MergeTxn(a) \/ MergeTxnFails(a)
    \/ RefreshHead(a) \/ RefreshDiff(a) \/ RefreshReset(a) \/ ResetFails(a)
    \/ Rollback(a) \/ RollbackFails(a)
    \/ UndoHead(a) \/ UndoReset(a) \/ UndoFails(a) \/ ReportUnchanged(a) \/ ReportMerged(a)
    \/ RecycleRecheck(a) \/ RecycleCapture(a) \/ RecycleRemove(a)
    \/ RecycleBranch(a) \/ RecycleFails(a)

Next ==
    \/ \E a \in Merges : MergeStep(a) \/ Crash(a)
    \/ \E w \in Trees : EditTree(w) \/ RestoreTree(w) \/ ResetTree(w) \/ CommitTree(w)
    \/ \E a \in Merges : EditSource(a) \/ CommitSource(a)

Spec == Init /\ [][Next]_vars

----------------------------------------------------------------------------
(***************************************************************************)
(* Types of the branches, the worktrees and the merges' memory             *)
(* (merge_state.rs MergeFinalizeSpec, refresh_base_worktrees).             *)
(***************************************************************************)
WorktreeTypeOK ==
    /\ base \in Seq(Merges \cup {User})
    /\ \A w \in Trees : /\ tree[w].at \in Seq(Merges \cup {User})
                        /\ tree[w].edited \in BOOLEAN
    /\ source \in [Merges -> [commits : 0..SourceHead + MaxUser, there : BOOLEAN,
                              edited : BOOLEAN]]
    /\ \A a \in Merges :
          /\ merge[a].left \cup merge[a].done \cup merge[a].failed \subseteq Trees
          /\ At(a, "undo") \/ At(a, "undo_reset") => merge[a].left \subseteq merge[a].done
          /\ (merge[a].answer # "none") = At(a, "done")
          /\ merge[a].tip <= source[a].commits \/ source[a].commits = 0
    /\ told \cup unsaid \subseteq Trees

(***************************************************************************)
(* Never split: when no merge is between its transaction and its answer,   *)
(* the files of every worktree on the base are those of the base branch,   *)
(* however many merges, rollbacks, edits and commits there were, or a      *)
(* merge has named that worktree as left behind.  The exceptions are       *)
(* worktrees left behind by a merge that was killed after its transaction, *)
(* by one that was told its transaction failed when git had applied it,    *)
(* and by an undo that reset when another merge had moved the branch since *)
(* it looked (merge_state.rs refresh_base_worktrees).                      *)
(***************************************************************************)
TreesFollowTheBase ==
    (\A a \in Merges : ~InFlight(a)) =>
        \A w \in Trees \ (told \cup unsaid) : tree[w].at = base

(***************************************************************************)
(* The same without the exception: a worktree that does not follow the     *)
(* base is one that a merge reported.                                      *)
(***************************************************************************)
NoTreeIsLeftBehind ==
    (\A a \in Merges : ~InFlight(a)) => \A w \in Trees \ told : tree[w].at = base

(***************************************************************************)
(* No merge discards work that was there when it last looked, unless it    *)
(* was told to: the checks of a refresh and of a recycle see what came     *)
(* since the merge was validated, and a rollback takes nobody's commit     *)
(* with it (git.rs refresh_base_worktree, merge_state.rs                   *)
(* refresh_base_worktrees, recycle_source_worktree).                       *)
(***************************************************************************)
WorkSeenIsKept == \A l \in lost : ~l.seen

(***************************************************************************)
(* An answer is still true when others have merged and been rolled back: a *)
(* merge that reported success is in the base's history, one that reported *)
(* a refusal or a rollback is not, and a source's worktree or branch goes  *)
(* only when its merge has landed for good (merge_state.rs                 *)
(* refresh_base_worktrees, finish_merge_output).  The exception is a merge *)
(* whose transaction git applied and reported as failed: it reports a      *)
(* refusal, and has landed.                                                *)
(***************************************************************************)
OutcomesAreTrue ==
    \A a \in Merges :
        /\ merge[a].answer = "ok" => a \in Range(base)
        /\ merge[a].answer \in {"refused", "unchanged"} =>
              a \notin Range(base) \/ merge[a].misled
        /\ ~source[a].there => a \in Range(base)
        /\ source[a].commits = 0 => ~source[a].there

(***************************************************************************)
(* No merge discards anybody's work in a base worktree.                    *)
(***************************************************************************)
EditsAreKept == \A l \in lost : l.by # "undo"
=============================================================================

-------------------------------- MODULE MergeBuild --------------------------------
(***************************************************************************)
(* The temporary worktree in which `pr merge` and `pr prepare` build a     *)
(* result: reserved as a CI run's is, given to git for the strategy, and,  *)
(* by a merge, to the plan if the result's tree is not the one that was    *)
(* checked.  Every way out must take the worktree, the lock file and the   *)
(* pending result ref along, or say that it could not.  CiRun's runs are   *)
(* composed with these: one command at a time, as the names of two         *)
(* commands differ.                                                        *)
(***************************************************************************)
EXTENDS CiRun

CONSTANT
    Strategies     \* the strategies that each command is run with

Strategy == {"merge", "squash", "rebase", "ff"}

ASSUME BuildAssumption == Strategies \in [{"ci", "merge", "prepare"} -> SUBSET Strategy]

VARIABLES
    build,     \* each build: its strategy, what git is in the middle of, what it remembers
    result     \* the pending result ref: the run whose result it holds, or "none"

buildVars == <<build, result>>
allVars == <<vars, buildVars>>

\* For the properties: whether the plan had to run, the ref was made, and with a failure
\* reported, an abort failed, and what was said of the ref.
NewBuild(strategy) ==
    [strategy |-> strategy, busy |-> "no", unchecked |-> FALSE, pinned |-> FALSE,
     misled |-> FALSE, stuck |-> FALSE, said |-> FALSE]

BuildInit ==
    /\ Init
    /\ \E strategies \in [Runs -> Strategies[case.job]] :
          build = [r \in Runs |-> NewBuild(strategies[r])]
    /\ result = "none"

Builds(r, new) == build' = [build EXCEPT ![r] = new]
Merging == case.job = "merge"
TreeKept == UNCHANGED <<case, plan, tree, capture, check>>
Git(r) == OnlyRun /\ UNCHANGED result

----------------------------------------------------------------------------
(* The worktree, and the strategy in it. *)

\* Out of names, or without a worktree: the lock file goes, and nothing else, be there a part
\* of a worktree or not.
ReserveBuild(r) == Reserves(r, "unlock") /\ UNCHANGED buildVars
AddBuild(r) == Adds(r, "strategy", "unlock") /\ UNCHANGED buildVars

\* A result, whose tree may be the source's.
StrategySucceeds(r) ==
    /\ At(r, "strategy")
    /\ \E unchecked \in BOOLEAN :
          /\ unchecked => Merging /\ build[r].strategy # "ff"
          /\ Builds(r, [build[r] EXCEPT !.unchecked = unchecked])
          /\ Goes(r, IF ~Merging THEN "remove" ELSE IF unchecked THEN "select" ELSE "pin")
    /\ Calm /\ Git(r)

\* A conflict or a refusal: git may be in the middle of it.
StrategyFails(r) ==
    /\ At(r, "strategy")
    /\ \E busy \in {"no", build[r].strategy} :
          /\ busy # "ff"
          /\ Builds(r, [build[r] EXCEPT !.busy = busy])
    /\ Goes(r, "abort")
    /\ Calm /\ Git(r)

\* The plan of the result, which a refusal ends as a failure does.
SelectResultPlan(r) ==
    /\ At(r, "select")
    /\ \/ Goes(r, "start") /\ Calm
       \/ Fails(r, "plan_invalid", "abort") /\ Mishap
    /\ OnlyRun /\ UNCHANGED buildVars

\* create_pending_result_ref: the ref must be absent.  Git may make it and report a failure.
PinResult(r) ==
    /\ At(r, "pin")
    /\ \/ /\ result = "none" /\ result' = r
          /\ \/ /\ Builds(r, [build[r] EXCEPT !.pinned = TRUE])
                /\ Goes(r, "remove") /\ Calm
             \/ /\ Builds(r, [build[r] EXCEPT !.pinned = TRUE, !.misled = TRUE])
                /\ Goes(r, "abort") /\ Mishap
       \/ /\ result # "none" /\ Goes(r, "abort") /\ Calm /\ UNCHANGED buildVars
       \/ Goes(r, "abort") /\ Mishap /\ UNCHANGED buildVars
    /\ OnlyRun

----------------------------------------------------------------------------
(* cleanup_after_failure. *)

\* Abort by the kind of what failed, and clean; a failure of either is not looked at.
AbortStrategy(r) ==
    /\ At(r, "abort")
    /\ \/ Builds(r, [build[r] EXCEPT !.busy = "no"]) /\ Calm
       \/ Builds(r, [build[r] EXCEPT !.stuck = TRUE]) /\ Mishap
    /\ Goes(r, "discard")
    /\ Git(r)

DiscardTree(r) ==
    /\ At(r, "discard")
    /\ Removes(r, "discarded", "discarded")
    /\ UNCHANGED buildVars

Unlocks(r) == lock' = [lock EXCEPT ![Name(r)] = "free"]
Refuses(r) == Becomes(r, [run[r] EXCEPT !.pc = "done", !.answer = "err"])

\* The lock file goes with the worktree; a prepare then deletes it once more.
Discarded(r) ==
    /\ At(r, "discarded")
    /\ Unlocks(r)
    /\ IF Merging THEN Refuses(r) ELSE Goes(r, "unlock")
    /\ TreeKept /\ UNCHANGED buildVars /\ Calm

Unlock(r) ==
    /\ At(r, "unlock")
    /\ Unlocks(r) /\ Refuses(r)
    /\ TreeKept /\ UNCHANGED buildVars /\ Calm

----------------------------------------------------------------------------
(* The worktree goes before anything is published. *)

AfterLeftover_Unlocks == "unlock"

\* The way out when the worktree stays: a merge has a result ref to take back.
AfterLeftover == IF Merging THEN "unpin" ELSE "unlock"

RemoveBuild(r) ==
    /\ At(r, "remove")
    /\ Removes(r, "exists", AfterLeftover)
    /\ UNCHANGED buildVars

CheckDir(r) ==
    /\ At(r, "exists")
    /\ IF tree[Name(r)].dir THEN LeftOver(r, AfterLeftover)
       ELSE Goes(r, IF Merging THEN "list" ELSE "release")
    /\ Calm /\ OnlyRun /\ UNCHANGED buildVars

\* Only a merge looks at the registration.
CheckRegistration(r) ==
    /\ At(r, "list")
    /\ \/ /\ ~tree[Name(r)].registered
          /\ Goes(r, "release") /\ Calm
       \/ /\ tree[Name(r)].registered
          /\ LeftOver(r, "unpin") /\ Calm
       \/ LeftOver(r, "unpin") /\ Mishap
    /\ OnlyRun /\ UNCHANGED buildVars

ReleaseBuild(r) ==
    /\ At(r, "release")
    /\ Unlocks(r)
    /\ IF Merging THEN Goes(r, "finalize")
       ELSE Becomes(r, [run[r] EXCEPT !.pc = "done", !.answer = "built"])
    /\ TreeKept /\ UNCHANGED buildVars /\ Calm

\* run_finalize, of which PrMerge is a model: it lands, which consumes the ref, or cleans up,
\* which it also does when git reports a landing as a failure, or names the ref when the close
\* of the issue cannot be staged.
Finalize(r) ==
    /\ At(r, "finalize")
    /\ \/ /\ result = r /\ result' = "none" /\ UNCHANGED build
          /\ \/ Becomes(r, [run[r] EXCEPT !.pc = "done", !.answer = "built"]) /\ Calm
             \/ Goes(r, "unpin") /\ Mishap
       \/ Goes(r, "unpin") /\ UNCHANGED buildVars /\ Calm
       \/ Refuses(r) /\ Builds(r, [build[r] EXCEPT !.said = TRUE]) /\ UNCHANGED result /\ Calm
    /\ OnlyRun

\* cleanup_pending_result: the lock file, by then perhaps another's, and the ref.
Unpin(r) ==
    /\ At(r, "unpin")
    /\ Unlocks(r) /\ Goes(r, "delete")
    /\ TreeKept /\ UNCHANGED buildVars /\ Calm

DeleteResult(r) ==
    /\ At(r, "delete")
    /\ Refuses(r)
    /\ \/ result = r /\ result' = "none" /\ UNCHANGED build /\ Calm
       \/ result = "none" /\ UNCHANGED buildVars /\ Calm
       \/ /\ result \notin {r, "none"}
          /\ Builds(r, [build[r] EXCEPT !.said = TRUE]) /\ UNCHANGED result /\ Calm
       \/ Builds(r, [build[r] EXCEPT !.said = TRUE]) /\ UNCHANGED result /\ Mishap
    /\ OnlyRun

----------------------------------------------------------------------------
BuildStep(r) ==
    \/ ReserveBuild(r) \/ AddBuild(r) \/ StrategySucceeds(r) \/ StrategyFails(r)
    \/ SelectResultPlan(r) \/ (RunsPlan(r) /\ UNCHANGED buildVars) \/ PinResult(r)
    \/ AbortStrategy(r) \/ DiscardTree(r) \/ Discarded(r) \/ Unlock(r)
    \/ RemoveBuild(r) \/ CheckDir(r) \/ CheckRegistration(r) \/ ReleaseBuild(r)
    \/ Finalize(r) \/ Unpin(r) \/ DeleteResult(r)

Step(r) ==
    \/ case.job = "ci" /\ CiStep(r) /\ UNCHANGED buildVars
    \/ case.job # "ci" /\ BuildStep(r)

Next == \E r \in Runs : Step(r) \/ (Other(r) /\ UNCHANGED buildVars)

Spec == BuildInit /\ [][Next]_allVars

\* git-forge goes on, and its git commands end; the clock goes on; what was killed dies.
FairSpec ==
    /\ Spec
    /\ \A r \in Runs : /\ WF_allVars(Step(r))
                       /\ WF_allVars(Expire(r) /\ UNCHANGED buildVars)
                       /\ WF_allVars(Dies(r) /\ UNCHANGED buildVars)

----------------------------------------------------------------------------
(* What holds of both. *)

\* The shape of every variable (CiRunTypeOK), of a build and of the ref.
BuildTypeOK ==
    /\ CiRunTypeOK
    /\ \A r \in Runs : LET b == build[r] IN
          /\ b.strategy \in Strategies[case.job]
          /\ b.busy \in {"no", b.strategy} /\ b.busy # "ff"
          /\ b.unchecked \/ b.pinned => Merging
    /\ result \in Runs \cup {"none"}

Earned(r) ==
    plan[r].leader = "reaped" /\ plan[r].status = "zero" /\ Living(plan[r]) = {}

\* A process of r's plan may be at work after r has ended: it left the group, or the group was
\* killed and takes its time to die.
Outlived(r) == plan[r].escaped # "none" \/ run[r].failure \in {"timeout", "cleanup_failed"}

\* r found no free name, and tidies up under the last one, which may be another's.
Exhausted(r) == ~run[r].ok /\ ~run[r].reserved

\* A green verdict is earned: the plan's leader exited with 0 and was reaped, and nothing of its
\* group lives.  So it is with every green Check, whose worktree was gone, too, when its lock was
\* given up, but for what a process of any plan that outlived its run writes there, or a run that
\* tidies up a name that is not its own lets in (cli.rs, F-025; run_ci_plan's known limitation);
\* and with every result that a merge pins although its tree is not the one the Check was of
\* (verify_result_ci).
GreenIsEarned ==
    \A r \in Runs :
        /\ check[r] # <<>> /\ check[r][1].failure = Green =>
              /\ Earned(r)
              /\ run[r].clean \/ \E s \in Runs : Outlived(s) \/ Exhausted(s)
        /\ build[r].pinned /\ build[r].unchecked => Earned(r)

\* No run's worktree is taken from it: from its creation to its removal it is registered, and a
\* CI run also has its lock, unless a run that found no free name left tidied the last one up.
WorktreesAreOwn ==
    (case.job = "ci" => \A r \in Runs : ~Exhausted(r)) =>
        \A r \in Runs :
            run[r].pc \in {"strategy", "select", "start", "wait", "poll", "probe", "grace",
                           "last grace", "capture", "pin", "abort"} =>
                /\ tree[Name(r)].registered /\ tree[Name(r)].by = r
                /\ case.job = "ci" => lock[Name(r)] = r

\* r reserved a name, and its `git worktree add` failed.
NotAdded(r) == run[r].reserved /\ ~run[r].ok

\* Whatever goes wrong, a command that has ended has left behind no worktree, whole or in part,
\* and no result ref that its error does not name, and a worktree that it had to leave is in the
\* middle of nothing, unless the abort failed (cleanup_after_failure, cleanup_pending_result,
\* worktree_leftover).  There are two exceptions.  A merge and a prepare, other than `ci run`, say
\* nothing of what a failed `git worktree add` left (pr_merge.rs, pr_prepare.rs
\* materialize_candidate); and a merge says nothing of a ref that git made and reported as not
\* made (create_pending_result_ref).
NothingIsLeftUnsaid ==
    \A r \in case.runs : At(r, "done") =>
        /\ \A n \in Names : tree[n].by = r =>
              \/ run[r].leftover /\ (build[r].busy = "no" \/ build[r].stuck)
              \/ case.job # "ci" /\ NotAdded(r)
        /\ result = r => build[r].said \/ build[r].misled

\* A command that has ended has removed or named what a failed `git worktree add` left of its
\* worktree (cli.rs, which does; pr_prepare.rs materialize_candidate).
PartsAreNamed ==
    \A r \in case.runs : At(r, "done") /\ NotAdded(r) =>
        \A n \in Names : tree[n].by = r => run[r].leftover
=============================================================================

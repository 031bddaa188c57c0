---------------------------------- MODULE CiRun ----------------------------------
(***************************************************************************)
(* `git forge ci run`: it reserves a temporary worktree, runs the plan in  *)
(* it as a process group of its own, waits for the group under a deadline, *)
(* captures the end of its output, removes the worktree, and records one   *)
(* Check.  The plan and whatever it starts are external.  MergeBuild has   *)
(* the other processes that work in a temporary worktree.                  *)
(***************************************************************************)
EXTENDS OutputTail, FiniteSets

CONSTANTS
    Runs,           \* git-forge processes that would name their worktrees alike
    LastAttempt,    \* the last name that is tried (16 in the code)
    Cases,          \* the command and its runs, what killed runs left, and the bounds
    Chunks          \* what one read returns

ASSUME RunsAssumption ==
    /\ LastAttempt \in Nat
    /\ Cases \subseteq [job : {"ci", "merge", "prepare"}, runs : SUBSET Runs,
                   stale : SUBSET Nat, left : SUBSET Nat, mishaps : Nat, output : Nat]
    /\ Chunks \subseteq Seq(Bytes)
    /\ {"free", "stale", "none"} \cap Runs = {}

Names == 0..LastAttempt

VARIABLES
    case,      \* the command, and the bounds: how many mishaps, how many bytes are read
    run,       \* each run: where it is, its name's number, what it has found
    plan,      \* each run's plan: its leader, another process of the group, one that left it
    tree,      \* each name's worktree: its directory, its registration, its lock, whose it is
    lock,      \* each name's lock file: the run that made it, or "free", or "stale"
    capture,   \* each run's reader: what it read (a history variable) and kept, whether it ended
    check,     \* the Checks each run recorded
    mishaps    \* how many faults there were, and turns of a plan that few plans take

vars == <<case, run, plan, tree, lock, capture, check, mishaps>>

NoTree == [dir |-> FALSE, registered |-> FALSE, locked |-> FALSE, by |-> "none"]
NoPlan == [leader |-> "none", status |-> "none", member |-> "none", escaped |-> "none",
           stuck |-> FALSE, doomed |-> {}]
Green == "none"   \* no failure

\* What a run remembers.  For the properties only: whether the name is its own, the deadline
\* has passed, the group was not proven empty, a kill failed, the worktree was gone at the end.
Fresh == [pc |-> "plan", attempt |-> 0, failure |-> Green, ok |-> TRUE, listed |-> "none",
          leftover |-> FALSE, tail |-> <<>>, answer |-> "none",
          reserved |-> FALSE, expired |-> FALSE, unproven |-> FALSE, spared |-> FALSE,
          clean |-> FALSE]
Idle == [Fresh EXCEPT !.pc = "done"]

Init ==
    /\ case \in Cases
    /\ run = [r \in Runs |-> IF r \notin case.runs THEN Idle
                             ELSE [Fresh EXCEPT !.pc = IF case.job = "ci" THEN @ ELSE "reserve"]]
    /\ plan = [r \in Runs |-> NoPlan]
    /\ tree = [n \in Names |-> [NoTree EXCEPT !.dir = n \in case.left,
                                              !.registered = n \in case.left]]
    /\ lock = [n \in Names |-> IF n \in case.stale THEN "stale" ELSE "free"]
    /\ capture = [r \in Runs |-> [read |-> <<>>, kept |-> <<>>, ended |-> FALSE]]
    /\ check = [r \in Runs |-> <<>>]
    /\ mishaps = 0

At(r, pc) == run[r].pc = pc
Becomes(r, new) == run' = [run EXCEPT ![r] = new]
Goes(r, pc) == Becomes(r, [run[r] EXCEPT !.pc = pc])
Fails(r, reason, pc) == Becomes(r, [run[r] EXCEPT !.pc = pc, !.failure = reason])
Name(r) == run[r].attempt

Calm == UNCHANGED mishaps
Mishap == mishaps < case.mishaps /\ mishaps' = mishaps + 1

OnlyRun == UNCHANGED <<case, plan, tree, lock, capture, check>>
PlanKept == UNCHANGED <<case, plan, capture, check>>

----------------------------------------------------------------------------
(* cmd_ci_run: the plan, a name, a worktree. *)

\* snapshot_ci_plan: a refused plan is recorded, and no worktree is made.
SelectPlan(r) ==
    /\ At(r, "plan")
    /\ \/ Goes(r, "reserve") /\ Calm
       \/ Fails(r, "plan_invalid", "record") /\ Mishap
    /\ OnlyRun

\* The lock file is created, and must not exist.
LockIsFree_Ignored(n) == TRUE
LockIsFree(n) == lock[n] = "free"

MoreNames_OneTooMany(r) == run[r].attempt <= LastAttempt
MoreNames(r) == run[r].attempt < LastAttempt

Reserves(r, exhausted) ==
    /\ At(r, "reserve")
    /\ IF LockIsFree(Name(r))
       THEN /\ lock' = [lock EXCEPT ![Name(r)] = r]
            /\ Becomes(r, [run[r] EXCEPT !.pc = "add", !.reserved = TRUE])
       ELSE /\ IF MoreNames(r)
               THEN Becomes(r, [run[r] EXCEPT !.attempt = @ + 1])
               ELSE Becomes(r, [run[r] EXCEPT !.pc = exhausted, !.ok = FALSE])
            /\ UNCHANGED lock
    /\ PlanKept /\ UNCHANGED tree /\ Calm

\* A failed `git worktree add` may leave a part of the worktree behind, which is this run's
\* where nothing was before.
Adds(r, added, failed) ==
    /\ At(r, "add")
    /\ \/ /\ tree[Name(r)] = NoTree
          /\ tree' = [tree EXCEPT ![Name(r)] = [NoTree EXCEPT !.dir = TRUE, !.registered = TRUE,
                                                             !.by = r]]
          /\ Goes(r, added) /\ Calm
       \/ /\ tree[Name(r)] # NoTree
          /\ Becomes(r, [run[r] EXCEPT !.pc = failed, !.ok = FALSE])
          /\ UNCHANGED tree /\ Calm
       \/ /\ \E d, g \in BOOLEAN :
                tree' = [tree EXCEPT ![Name(r)].dir = d \/ @, ![Name(r)].registered = g \/ @,
                                     ![Name(r)].by =
                                         IF tree[Name(r)] = NoTree /\ (d \/ g) THEN r ELSE @]
          /\ Becomes(r, [run[r] EXCEPT !.pc = failed, !.ok = FALSE])
          /\ Mishap
    /\ PlanKept /\ UNCHANGED lock

\* A run that has no worktree still tidies up under the last name.
ReservePath(r) == Reserves(r, "remove")
WorktreeAdd(r) == Adds(r, "start", "remove")

----------------------------------------------------------------------------
(* run_ci_plan, which a merge calls as well. *)

\* verify_result_ci: a merge goes on only if the plan is green.
AfterPlan(failure) ==
    IF case.job = "ci" THEN "remove" ELSE IF failure = Green THEN "pin" ELSE "abort"

\* materialize_plan, the pipe, and the spawn.
StartPlan(r) ==
    /\ At(r, "start")
    /\ \/ /\ plan' = [plan EXCEPT ![r].leader = "running"]
          /\ Goes(r, "wait") /\ Calm
       \/ /\ \E reason \in {"plan_invalid", "spawn_failed"} : Fails(r, reason, AfterPlan(reason))
          /\ Mishap /\ UNCHANGED plan
    /\ UNCHANGED <<case, tree, lock, capture, check>>

Living(p) == {x \in {"leader", "member"} : p[x] = "running"}

\* SIGKILL to the group: whatever lives in it will die.
SignalPg_Leader(p) == [p EXCEPT !.doomed = {"leader"}]
SignalPg(p) == [p EXCEPT !.doomed = Living(p)]

\* The group is killed; that may fail, which nothing looks at.
Kills(r, reason, pc, sent) ==
    /\ plan' = [plan EXCEPT ![r] = IF sent THEN SignalPg(@) ELSE @]
    /\ Becomes(r, [run[r] EXCEPT !.pc = pc, !.failure = reason, !.spared = ~sent,
                                 !.unproven = reason = "cleanup_failed"])

KillsOrNot(r, reason, pc) ==
    \/ Kills(r, reason, pc, TRUE) /\ Calm
    \/ Kills(r, reason, pc, FALSE) /\ Mishap

Waiting == UNCHANGED <<case, tree, lock, capture, check>>

\* The head of wait_group's loop.
CheckDeadline(r) ==
    /\ At(r, "wait")
    /\ IF run[r].expired THEN KillsOrNot(r, "timeout", "grace")
       ELSE Goes(r, "poll") /\ Calm /\ UNCHANGED plan
    /\ Waiting

Reaped(r) == plan' = [plan EXCEPT ![r].leader = "reaped"]

TryWait(r) ==
    /\ At(r, "poll")
    /\ \/ plan[r].leader = "exited" /\ Reaped(r) /\ Goes(r, "probe")
       \/ plan[r].leader = "running" /\ Goes(r, "wait") /\ UNCHANGED plan
    /\ Calm /\ Waiting

\* Is the group of the reaped leader empty?
PgidAlive_Never(p) == FALSE
PgidAlive(p) == p.member = "running"

ExitResult(status) == IF status = "zero" THEN Green ELSE "nonzero_exit"

ProbeGroup(r) ==
    /\ At(r, "probe")
    /\ IF PgidAlive(plan[r]) THEN KillsOrNot(r, "cleanup_failed", "capture")
       ELSE /\ Fails(r, ExitResult(plan[r].status), "capture")
            /\ Calm /\ UNCHANGED plan
    /\ Waiting

\* The wait, or the probe, itself fails: the group is killed all the same.
WaitFails(r) ==
    /\ At(r, "poll") \/ At(r, "probe")
    /\ \E sent \in BOOLEAN : Kills(r, "cleanup_failed", "grace", sent)
    /\ Mishap /\ Waiting

\* reap_with_grace: 25 polls, a SIGKILL to the child, 25 polls, and no more.
ReapWithGrace(r) ==
    /\ At(r, "grace") \/ At(r, "last grace")
    /\ \/ plan[r].leader = "exited" /\ Reaped(r)
       \/ plan[r].leader = "reaped" /\ UNCHANGED plan
    /\ Goes(r, "capture")
    /\ Calm /\ Waiting

GraceEnds(r) ==
    /\ At(r, "grace") /\ plan[r].leader = "running"
    /\ plan' = [plan EXCEPT ![r].doomed = @ \cup {"leader"}]
    /\ Goes(r, "last grace")
    /\ Calm /\ Waiting

ReapGivesUp(r) ==
    /\ At(r, "last grace") /\ plan[r].leader = "running"
    /\ Goes(r, "capture")
    /\ Calm /\ OnlyRun

\* The reader thread.  What it reads before the run waits for it changes nothing else, so it
\* reads here; and outputs are enumerated for a plan that fails by itself in time.
ReadChunk(r) ==
    /\ At(r, "capture") /\ ~capture[r].ended
    /\ run[r].failure = "nonzero_exit" /\ ~run[r].expired
    /\ \E chunk \in Chunks :
          /\ Len(capture[r].read) + Len(chunk) <= case.output
          /\ capture' = [capture EXCEPT ![r].read = @ \o chunk, ![r].kept = Kept(@, chunk)]
    /\ UNCHANGED <<case, run, plan, tree, lock, check, mishaps>>

\* End of file: whoever had the pipe has gone.
ReaderEnds(r) ==
    /\ At(r, "capture") /\ ~capture[r].ended
    /\ Living(plan[r]) = {} /\ plan[r].escaped # "running"
    /\ capture' = [capture EXCEPT ![r].ended = TRUE]
    /\ UNCHANGED <<case, run, plan, tree, lock, check, mishaps>>

\* finish: the wait for the reader is bounded.
MayFinish_Ended(r) == capture[r].ended
MayFinish(r) == TRUE

FinishCapture(r) ==
    /\ At(r, "capture") /\ MayFinish(r)
    /\ Becomes(r, [run[r] EXCEPT !.pc = AfterPlan(run[r].failure),
                                 !.tail = BoundedTail[capture[r].kept]])
    /\ capture' = [capture EXCEPT ![r].read = <<>>, ![r].kept = <<>>]
    /\ UNCHANGED <<case, plan, tree, lock, check>> /\ Calm

----------------------------------------------------------------------------
(* worktree_leftover, and the Check. *)

LeftOver(r, pc) == Becomes(r, [run[r] EXCEPT !.pc = pc, !.leftover = TRUE])

\* git worktree remove --force: it refuses a locked worktree, and what is none.
Removes(r, gone, left) ==
    /\ \/ /\ tree[Name(r)].registered /\ ~tree[Name(r)].locked
          /\ tree' = [tree EXCEPT ![Name(r)] = NoTree]
          /\ Goes(r, gone) /\ Calm
       \/ /\ ~tree[Name(r)].registered \/ tree[Name(r)].locked
          /\ LeftOver(r, left) /\ Calm /\ UNCHANGED tree
       \/ /\ \E g \in BOOLEAN : tree' = [tree EXCEPT ![Name(r)].registered = g /\ @]
          /\ LeftOver(r, left) /\ Mishap
    /\ PlanKept /\ UNCHANGED lock

RemoveTree(r) == At(r, "remove") /\ Removes(r, "list", "release")

ListTrees(r) ==
    /\ At(r, "list")
    /\ \/ /\ Becomes(r, [run[r] EXCEPT !.pc = "verify",
                             !.listed = IF tree[Name(r)].registered THEN "there" ELSE "gone"])
          /\ Calm
       \/ Becomes(r, [run[r] EXCEPT !.pc = "verify", !.listed = "failed"]) /\ Mishap
    /\ OnlyRun

VerifyGone(r) ==
    /\ At(r, "verify")
    /\ Becomes(r, [run[r] EXCEPT !.pc = "release",
                                 !.leftover = tree[Name(r)].dir \/ run[r].listed # "gone"])
    /\ Calm /\ OnlyRun

\* The lock file is deleted, whoever made it.  A run without a worktree ends here.
ReleaseLock(r) ==
    /\ At(r, "release")
    /\ lock' = [lock EXCEPT ![Name(r)] = "free"]
    /\ Becomes(r, [run[r] EXCEPT !.pc = IF run[r].ok THEN "record" ELSE "done",
                                 !.answer = IF run[r].ok THEN @ ELSE "err",
                                 !.clean = tree[Name(r)] = NoTree])
    /\ PlanKept /\ UNCHANGED tree /\ Calm

\* record_and_report_ci_check: the run's own failure goes before the worktree's.
Failure_LeftoverFirst(r) == IF run[r].leftover THEN "cleanup_failed" ELSE run[r].failure
Failure(r) ==
    IF run[r].failure = Green /\ run[r].leftover THEN "cleanup_failed" ELSE run[r].failure

Records(r) ==
    check' = [check EXCEPT ![r] = Append(@,
        [failure |-> Failure(r), tail |-> IF Failure(r) = Green THEN <<>> ELSE run[r].tail])]

\* append_event: the Check is recorded; or git records it and reports a failure, and it is
\* recorded once more; or nothing is.
RecordCheck(r) ==
    /\ At(r, "record")
    /\ \/ /\ Records(r)
          /\ Becomes(r, [run[r] EXCEPT !.pc = "done",
                             !.answer = IF Failure(r) = Green THEN "passed" ELSE "failed"])
          /\ Calm
       \/ Records(r) /\ UNCHANGED run /\ Mishap
       \/ /\ Becomes(r, [run[r] EXCEPT !.pc = "done", !.answer = "err"])
          /\ Mishap /\ UNCHANGED check
    /\ UNCHANGED <<case, plan, tree, lock, capture>>

----------------------------------------------------------------------------
(* The plan, the clock, and kills. *)

Ends(r, x, status) ==
    plan' = [plan EXCEPT ![r][x] = IF x = "leader" THEN "exited" ELSE "gone",
                         ![r].status = IF x = "leader" THEN status ELSE @,
                         ![r].doomed = @ \ {x}]

OnlyPlan == UNCHANGED <<case, run, tree, lock, capture, check>>

Exits(r) ==
    /\ ~plan[r].stuck
    /\ \E x \in Living(plan[r]), status \in {"zero", "nonzero"} : Ends(r, x, status)
    /\ Calm /\ OnlyPlan

Dies(r) ==
    /\ ~plan[r].stuck
    /\ \E x \in Living(plan[r]) \cap plan[r].doomed : Ends(r, x, "killed")
    /\ Calm /\ OnlyPlan

\* It starts another process, in its group or out of it, or gets stuck in the kernel.
Forks(r) ==
    /\ Living(plan[r]) \ plan[r].doomed # {}
    /\ \E x \in {"member", "escaped"} :
          plan[r][x] = "none" /\ plan' = [plan EXCEPT ![r][x] = "running"]
    /\ Mishap /\ OnlyPlan

GetsStuck(r) ==
    /\ plan[r].leader = "running" /\ ~plan[r].stuck
    /\ plan' = [plan EXCEPT ![r].stuck = TRUE]
    /\ Mishap /\ OnlyPlan

EscapedExits(r) ==
    /\ plan[r].escaped = "running"
    /\ plan' = [plan EXCEPT ![r].escaped = "gone"]
    /\ Calm /\ OnlyPlan

\* What lives of it locks the worktree, or writes where the worktree was.
PlanWrites(r) ==
    /\ Living(plan[r]) # {} \/ plan[r].escaped = "running"
    /\ \/ /\ tree[Name(r)].registered
          /\ tree' = [tree EXCEPT ![Name(r)].locked = TRUE]
       \/ /\ tree' = [tree EXCEPT ![Name(r)].dir = TRUE]
    /\ Mishap
    /\ UNCHANGED <<case, run, plan, lock, capture, check>>

Expire(r) ==
    /\ At(r, "wait") \/ At(r, "poll") \/ At(r, "probe")
    /\ ~run[r].expired
    /\ Becomes(r, [run[r] EXCEPT !.expired = TRUE])
    /\ Calm /\ OnlyRun

\* git-forge is killed: its lock and its worktree stay, and the plan runs on.
Crash(r) ==
    /\ ~At(r, "done") /\ ~At(r, "killed")
    /\ Goes(r, "killed")
    /\ Mishap /\ OnlyRun

----------------------------------------------------------------------------
RunsPlan(r) ==
    \/ StartPlan(r) \/ CheckDeadline(r) \/ TryWait(r) \/ ProbeGroup(r) \/ WaitFails(r)
    \/ ReapWithGrace(r) \/ GraceEnds(r) \/ ReapGivesUp(r) \/ FinishCapture(r)

CiStep(r) ==
    \/ SelectPlan(r) \/ ReservePath(r) \/ WorktreeAdd(r) \/ RunsPlan(r)
    \/ RemoveTree(r) \/ ListTrees(r) \/ VerifyGone(r) \/ ReleaseLock(r) \/ RecordCheck(r)

Other(r) ==
    \/ ReadChunk(r) \/ ReaderEnds(r)
    \/ Exits(r) \/ Dies(r) \/ Forks(r) \/ GetsStuck(r) \/ EscapedExits(r) \/ PlanWrites(r)
    \/ Expire(r) \/ Crash(r)

----------------------------------------------------------------------------
(* The type, and the properties. *)

\* The shape of every variable; above all, no name past the last is tried, and a run that
\* reports a verdict has recorded a Check, and records it again only after a fault.
CiRunTypeOK ==
    /\ case \in Cases
    /\ \A r \in Runs : LET group == plan[r] IN
          /\ run[r].attempt \in Names
          /\ run[r].failure \in {Green, "plan_invalid", "spawn_failed", "timeout",
                                 "nonzero_exit", "cleanup_failed"}
          /\ group.leader \in {"none", "running", "exited", "reaped"}
          /\ {group.member, group.escaped} \subseteq {"none", "running", "gone"}
          /\ group.status = "none" <=> group.leader \in {"none", "running"}
          /\ group.doomed \subseteq Living(group)
          /\ Len(check[r]) <= 1 + mishaps
          /\ \A i \in DOMAIN check[r] : check[r][i] = check[r][1]
          /\ At(r, "done") /\ r \in case.runs /\ case.job = "ci"
                => (check[r] = <<>> => run[r].answer = "err")
    /\ DOMAIN tree = Names /\ DOMAIN lock = Names
    /\ \A n \in Names : lock[n] \in Runs \cup {"free", "stale"}
    /\ mishaps \in 0..case.mishaps

\* The reason of a failed Check names what happened, and a leftover worktree never hides the
\* plan's own failure: a timeout had a deadline that passed, a nonzero exit a plan that ended
\* so and left nothing running, a failed cleanup a plan that succeeded or a group that was not
\* proven empty, and the other two a plan that never ran.
ReasonsAreTrue ==
    \A r \in Runs : check[r] # <<>> =>
        LET reason == check[r][1].failure IN
        CASE reason = "timeout" -> run[r].expired
          [] reason = "nonzero_exit" -> plan[r].status \in {"nonzero", "killed"}
                                        /\ Living(plan[r]) = {}
          [] reason = "cleanup_failed" -> run[r].unproven \/ plan[r].status = "zero"
          [] reason \in {"plan_invalid", "spawn_failed"} -> plan[r].leader = "none"
          [] OTHER -> reason = Green

\* What the reader keeps is enough: however the reads divide the output, the tail is the end of
\* the whole output's text, as many whole characters as fit in TailBytes.
TailIsRight ==
    \A r \in Runs : BoundedTail[capture[r].kept] = Text[capture[r].read]

\* Every run ends, whatever the plan does: it may ignore the deadline's kill, or leave a process
\* that holds its output open.
EveryRunEnds == \A r \in Runs : <>(run[r].pc \in {"done", "killed"})

\* A run that ends leaves nothing of the plan's group running for good, unless the kill failed or
\* the kernel holds the plan.
GroupIsContained ==
    \A r \in Runs :
        At(r, "done") ~> (Living(plan[r]) = {} \/ run[r].spared \/ plan[r].stuck)
=============================================================================

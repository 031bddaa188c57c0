# A verification of git-forge

git-forge keeps a forge (issues, pull requests, reviews, checks, merges) inside a git
repository: every entity is a chain of event commits under `refs/forge/`, every change is a
compare-and-set of refs, and there is no server and no lock. Any number of processes run
commands at the same time, any of them may be killed, and git itself may refuse a transaction.
What makes the program right is that a decision taken on refs read earlier is still right when
the transaction that relies on it lands. That is what these modules are about.

## 1. The system

| Part | Source | State it keeps | Operations | What makes it correct |
| --- | --- | --- | --- | --- |
| PR event chain and fold | `event.rs`, `fold.rs` | the commits under `refs/forge/prs/<n>/head` | append; fold to generation, snapshot, review, check, candidate, terminal state; the two merge gates | the gate, which looks at folded state, says what the events say |
| Event store | `store.rs` | head refs, generation pins, the id counter | `append_event`, `cas_update_ref`, `update_pr`, creation, id allocation | an append lands once or is refused; a generation has one pin pair |
| Ref transactions | `store/update_ref.rs` | none (a dialogue with `git update-ref --stdin`) | start, prepare, test absent refs, commit or abort | all lines or none |
| `pr review`, `comment`, `abandon`, `ci run` | `pr_review.rs`, `cli.rs` | none | a read-only refusal, then an append | no event that the folded state forbids |
| `pr update` | `pr_merge.rs`, `store.rs` | generation pins | pins the two branches as the next generation | generations have no gaps, each is pinned to what the fold shows |
| `pr prepare` | `pr_prepare.rs` | the result ref | builds a candidate on the live base, pins and records it in one transaction | the pinned candidate is the recorded one |
| `pr merge` and its finalization | `pr_merge.rs`, `merge_state.rs`, `merge_state/finalize.rs` | pending result ref, base branch, linked issue, base worktree | gate, routing, strategy, pin, final transaction with retries, refresh, rollback, cleanup | only authorised, reviewed, checked content lands, with its issue closed, or nothing changes |
| Merge strategies | `git/strategy.rs` | commits, temporary worktrees | `ff`, `merge`, `squash`, `rebase` in a worktree of their own, with an abort and a cleanup | the result contains the base and the source's work; nothing is left behind unsaid |
| Worktrees | `git.rs`, `merge_state.rs` | checkouts of the base, the source's worktree | clean check, refresh and undo of the base's, recycling of the source's | the files follow the branch; nobody's work is discarded |
| Roles | `identity.rs` | configuration | stamps the role on an event | a creator's role does not approve its own PR |
| PR creation | `pr_create.rs` | as the store | allocate an id, pin generation 0, pending check | at most one PR per idempotency key |
| Idempotency | `idempotency.rs`, `store/idempotency.rs` | one record ref per command and key | look up and replay, claim with the mutation, look up again after a failure | at most one effect per key; every answer is about the first effect |
| Issue graph | `issue*.rs`, `store/issue_batch.rs` | issue chains, parent and blocking links | `new`, `comment`, `close`, `reopen`, `apply` of a plan as one batch | no cycle, no link to nowhere, one issue per plan key; a plan that was applied holds |
| CI runner | `ci.rs`, `ci/*.rs`, `cli.rs` | a worktree with a lock file, a child process group | reserve, run a plan under a deadline, keep a bounded tail, tidy up, record a Check | green is earned, one verdict, no surviving child |
| Command line | `main.rs`, `lib.rs`, `cli_error.rs`, `machine.rs` | none | parsing, wording, JSON | no protocol state |

**How they interact.** Commands share nothing but refs. A command reads refs (each read is one
git call), decides, builds commits (which nobody else sees until a ref names them), and then
asks for one transaction with the value it expects in each ref. A merge touches up to four refs
at once: the base branch, the PR head, the result ref and the linked issue's head. Pushes to the
two branches and the issue's own commands come from outside and use the same refs.

Underneath, one ref transaction is a conversation with `git update-ref --stdin` over three pipes.
Beside the refs there are files: people edit in checkouts of the very branch a merge moves, and CI
runs, merges and prepares each make a temporary worktree, which no other process may take.

**Where it is hard.** Between a command's first read and its transaction anything may happen:
the gate is read before the strategy runs, before the worktree is removed, before each retry; a
candidate may be replaced between its review and its merge; a `pr update` may land while the old
snapshot's result waits; a rollback after a failed refresh undoes a transaction others have
already built on. A plan is validated on a snapshot of all issues that is read ref by ref; a caller
that was killed repeats its command. A worktree is looked at by one git command and reset by
another. A plan may fork, hang, ignore its deadline, leave its process group or spoil its worktree.
A lost compare-and-set and a failing git are told apart only by a later read; and git may die, or
exit nonzero, after it has applied a transaction, which no read tells from either.
`PROJECT.json` lists each such place with its line and the property that covers it; those
without a property say why.

## 2. The modules

```
PrChain       events, folded state, gates            fold.rs, event.rs
  PrRefs      refs, commits, processes, transactions store.rs (CAS), strategy.rs
    PrAppend  review, comment, ci, abandon           pr_review.rs, cli.rs, store.rs
    PrUpdate  pr update                              pr_merge.rs, store.rs
    PrPrepare pr prepare                             pr_prepare.rs
    PrMerge   pr merge                               pr_merge.rs, merge_state.rs, finalize.rs
PrLifecycle   all of them, with pushes, issue commands and kills
PrProperties  types, invariants, action properties, liveness
MCPrLifecycle the scripts TLC runs
PrMergeProofs proofs: types, and merges are authorised
  PrLandingProofs  proofs: the snapshot that was reviewed lands, candidates were vetted
    PrRecordProofs   proofs: pins, reports, the result ref, the base, the issue; invocations end

IssueGraph    links, ids, plans (no state)           issue_apply.rs, issue_plan.rs EntityStore
counter, issues, PRs, records          issue_batch.rs, store.rs, idempotency.rs, pr_create.rs
EntityProperties  types, invariants, the refinement of KeyedCalls            the promise of an
idempotency key (abstract) EntityProofs      proofs: all of them, and that commands end
MCEntityStore the scripts TLC runs GraphSearch   validate_graph's search, step by step
issue_apply.rs GraphSearchProofs  proofs: it decides what IssueGraph says, and comes to an end

AtomicRefs       an atomic ref transaction (abstract)
RefTransaction   the dialogue that implements it     store/update_ref.rs
RefTransactionProofs  proofs: the dialogue is atomic, and leaves no lock
MCRefTransaction the transactions TLC runs

Worktrees     base and source worktrees of merges    merge_state.rs, git.rs
WorktreeProofs  proofs: its invariants
MCWorktrees   the merges TLC runs

OutputTail    the bounded tail (no state)            ci/output.rs
  CiRun       ci run, and run_ci_plan                cli.rs, ci.rs, ci/output.rs
    MergeBuild  the worktree a result is built in    strategy.rs, git.rs, pr_merge.rs, pr_prepare.rs
      CiProofs    proofs: its invariants, the tail among them
MCCiRun       the runs and builds TLC runs
```

There are five systems, cut where little passes between them.

* *PrLifecycle* is one pull request after its creation, with every command that reads or writes its
  refs.
* *EntityStore* is a repository of issues and pull requests, with every command that allocates an
  id, claims a key or writes an issue; of a pull request it keeps the creation only. It shares with
  PrLifecycle the issue's head, which others write there (`WriteIssue`).
* *RefTransaction* is what the first two take for one step. It refines *AtomicRefs*: a transaction
  takes effect in one step, as a whole or not at all, which is why they may. *AtomicRefs* says `ok`
  only of what took effect, but a failure of either, since git can die after its commit. So in the
  other modules a transaction has three outcomes, and not two: applied and said so, not applied,
  and applied and reported as failed.
* *Worktrees* is what a merge does to checkouts, for several worktrees and several merges (of
  different pull requests, which share only the base branch). PrLifecycle has one base worktree,
  whose refresh succeeds or fails as a whole; the chain and the issue, which Worktrees leaves out,
  roll back there.
* *CiRun* with *MergeBuild* is everything that works in a temporary worktree: `ci run`, whose
  verdict PrAppend takes as either word, and the building of a result, which PrPrepare and PrMerge
  take as one step. A merge of a result whose tree was not checked runs a plan of its own, so the
  two share `run_ci_plan` as modules as they do in the code.

*GraphSearch* is sequential: the search that EntityStore has in one step, as `ValidGraph`.

**PrLifecycle.**

| In the model | In the code |
| --- | --- |
| `Actors`, `todo[a]` | shells; the git-forge invocations each still has to run, in order |
| `proc[a]` | the memory of the invocation `a` is running: `pc` names the git call it makes next, the other fields what it has captured |
| `chain` | `refs/forge/prs/<n>/head`: the sequence of events, with the folded state of each prefix in its node. An object id stands for all its history, so a sequence is compared where the code compares object ids |
| `base`, `source`, `result` | the two branches and `refs/forge/prs/<n>/result` (`NoCommit` when absent) |
| `pins` | `refs/forge/prs/<n>/gen/<g>/{source,base}` as one record per generation, always created together |
| `issue` | the head of the issue the PR closes (`<<>>` when the PR closes none) |
| `objects` | the commits git-forge or a push made: `anc`, the history of each, and `from`, the commit whose work it carries |
| `reported` | what each invocation told its caller: `ok`, `refused` (an error saying nothing was recorded) or `partial`; and `unclear`, which is told to nobody: that git applied a transaction of this invocation and reported it as failed. A history variable |

**EntityStore.**

| In the model | In the code |
| --- | --- |
| `counter` | `refs/forge/counter`, by the id it allocates next; 0 when the ref is absent. The counter only grows, so equal values are equal tips |
| `issues[n]` | `refs/forge/issues/<n>`: the folded key, links and state, and `log`, the names of its events. A name holds the call that wrote the event, so equal logs are equal tips |
| `prs[n]` | `refs/forge/prs/<n>/head` and the refs created with it |
| `records[<<command, key>>]` | `refs/forge/idempotency/<command>/<key>`: the request (for the digest of its inputs) and the entity's id (for its output) |
| `branches` | whether the branches that `pr create` names exist |
| `proc[a]` | the memory of an invocation: the counter and the issues of its snapshot, the tip it appends to, its attempts, why its transaction failed |
| `answers` | what each invocation told its caller: `ok`, `conflict` or `refused`; and whether git had misinformed it (`misled`). A history variable |

A failed transaction is told apart as the code does it: `rejected` (an expected value), `locked`
(another transaction holds a lock) and `fault` (anything else), since the commands retry after
some and not after others. `KeyedCalls` is the abstract specification: a key is bound once, to one
request and one entity, and an answer is the bound entity, a conflict with the bound request, or a
refusal while the key is unbound. `EntityProperties` instantiates it with the records as the
bindings and the answers of keyed calls as the answers.

**RefTransaction.**

| In the model | In the code |
| --- | --- |
| `caller[c]` | the thread in `run_update_ref_transaction`: `pc`, the absent refs it has yet to test, whether one was present, whether it wrote `commit` |
| `git[c]` | the `git update-ref --stdin` child (external): reading, locking, running its hook, exited |
| `stdin`, `stdout`, `stderr` | the pipes. Of the first two the messages; of the third how much is unread, up to `PipeSize`. The thread that drains it is `DrainErrors` |
| `lock[r]`, `value[r]` | the lock file and the value of a ref: an object, `absent`, or `dangling` (a symbolic ref to nothing, which an expected-absent line accepts) |
| `applied`, `answer` | whose transaction took effect; what each caller was told. History variables, and what AtomicRefs is about |

**Worktrees.**

| In the model | In the code |
| --- | --- |
| `base` | `refs/heads/<base>`, by the authors of its commits |
| `tree[w]` | a worktree on the base: the tip its files and index are of, and whether they were edited. `HEAD` follows the branch by itself, so files whose tip is not `base` are what `git status` calls dirty |
| `source[a]` | the source's worktree and branch; commit `SourceHead` is the snapshot |
| `merge[a]` | the merge's place and memory: the gate's tip, the worktrees still to visit and those refreshed, the captured source tip |
| `told` | the worktrees that an error named as left behind, or that a person's own commit left behind |
| `lost` | the work that was discarded, and whether the merge had seen it. A history variable |
| `unsaid` | the worktrees that were left behind and not named: by a kill between transaction and answer, by a transaction that was applied and reported as failed, or by an undo that was overtaken (the base had moved again when the worktree was put back). A history variable |

**CiRun and MergeBuild.**

| In the model | In the code |
| --- | --- |
| `case.job` | the command that all the runs of a behaviour are: their names begin alike only then |
| `run[r]`, `build[r]` | the process: its place, the number in its worktree's name, its failure, what it found in the end; of a build also the strategy and what git is in the middle of |
| `tree[n]`, `lock[n]` | the worktree under the n-th name: directory, registration, `git worktree lock`; the sibling lock file |
| `plan[r]` | the plan's process group: the leader, one more member, one process that left it (external) |
| `capture[r]` | the reader thread: all it read (history), and the bytes it keeps |
| `check[r]`, `result` | the Checks a run recorded; the pending result ref |
| `mishaps` | faults, kills, and turns of a plan that few plans take, bounded by the case |

A byte is its UTF-8 class (one to four for a lead byte by the length it announces, 0 for a
continuation, 5 for a byte that begins nothing), which is all that the cut and the lossy decoding
look at.

**Grain.** One read of a ref is one action, and one ref transaction is one action: between any two
of them other processes move. What a process computes in between is part of the action it ends in,
since nobody can see it. A transaction compares every expected value and writes all or nothing
(RefTransaction takes it apart). With `Faults` it may fail for no reason of the refs' (a held
lock, an I/O error), and it may apply every line and be reported as failed
(`update_ref.rs:143-150`): the process then does what it does after any failure, which is to read
refs again, and finds them moved by itself. History fields (`unclear`, `misled`) keep that it was
misinformed; no action reads them. A killed process (`Crashes`) stops where it is: its memory and
the rest of its script are gone, the refs stay.

**What the data became.** Payloads, titles, bodies, paths and wording are gone. A review's
decision, a check's status and a strategy are words; a commit is a number; a bind is the pair of
strategy and result that a review or check carries when it was taken against a candidate. The
base head stamped on reviews and checks is left out: no gate reads it. A result is always a new
commit, so two results are never the same object. In git two identical commits built in the same
second are one object; for the compare-and-sets that would only identify results that have the
same content. A conflict, or a fast-forward that is not one, ends the command before it writes. Of
an issue its titles, descriptions, labels and comments' text are gone, since no check depends on
them.

## 3. The properties and the runs

| Run | Question | Distinct states |
| --- | --- | --- |
| `gate_race` | Merges of a ready PR race reviews, checks, updates, abandons and a prepare, with roles configured; re-prepares (also to the same commit), rejections and merges by another strategy race the merge of a candidate. `TypeOK`, `MergeAuthorised`, `LandsTheSnapshot`, `ResultRefIsOwned`, `ResultWasVetted`, `SnapshotsPinned` | 678,376 |
| `branch_race` | Merges by all four strategies while the base is pushed to and rewound and the linked issue is closed and commented on; reviews, checks, comments, updates and prepares that contend and are tried again. Every transaction may fail, or be applied and reported as failed. `ReportsAreTrue`, `MergeKeepsTheBase`, `MergeClosesTheIssue` | 1,214,424 |
| `rollback` | The base is checked out and every refresh may fail, with faults of both kinds and kills, and appends contend. `NeverSplit`, `ClosedOnlyByMerge`, `LeftoversAreNotTaken`, `EveryInvocationEnds` | 159,792 |
| `entities` | Keyed and unkeyed creations, comments, closes and plans race, with faults of both kinds, kills, retries, deleted branches and a counter at its limit. `EntityTypeOK`, `AllocationSound`, `OneEffectPerKey`, `AnswersAreTrue`, `GraphSound`, `PlanKeysUnique`, `AppliedPlanHolds`, `KeysKeepTheirPromise` | 1,239,220 |
| `graph_search` | The search of every graph of three issues that may also link to a missing one, from every sequence of up to two roots. `SearchTypeOK`, `SearchIsRight`, `SearchEnds` | 261,839 |
| `ref_dialogue` | Two transactions on shared refs, with a hook that fills the pipe, and a kill, a fault or a foreign write at every point. `TransactionTypeOK`, `LocksAreReturned`, `ImplementsAtomic`, `EveryCallReturns` | 290,537 |
| `worktrees` | Two merges onto one checked-out base, with refreshes, rollbacks and recycling, faults of both kinds and kills, while people edit, commit and reset in all the worktrees. `WorktreeTypeOK`, `TreesFollowTheBase`, `WorkSeenIsKept`, `OutcomesAreTrue` | 1,988,263 |
| `ci_run` | CI runs of plans that fork, hang, leave their group, write much or spoil their worktree; merges and prepares that build a result, and may run a plan of it; faults, worktrees added in part, refs made and reported as not made, kills, and races for one name. `BuildTypeOK`, `GreenIsEarned`, `ReasonsAreTrue`, `TailIsRight`, `WorktreesAreOwn`, `NothingIsLeftUnsaid`, `EveryRunEnds`, `GroupIsContained` | 254,338 |

What each property says is in the comment above it, in `PrProperties.tla`, `EntityProperties.tla`,
or at the end of the component's own module. Some of them hold in one setting and not in another,
and the pair of runs shows where the line is:

* `ReportsAreTrue` holds as long as no rollback happens (`branch_race`) and fails with one
  (`clobber`). An invocation that git misinformed may refuse what it recorded; the property holds
  it to the rest: that a success is true, and that no update and no merge is recorded twice.
* `WorkSeenIsKept` holds of refreshes and recycling (`worktrees`); `EditsAreKept`, which counts the
  undo as well, does not (`lost_edit`).
* `MergeClosesTheIssue` holds while others close and comment (`branch_race`). It fails when the
  close a merge saw is another merge's, and is rolled back (`unclosed`).
* `ResultWasVetted` says that the commit that lands was approved and checked as a candidate. That
  the tip the merge lands on has approve and check bound to it, `BoundAtLanding`, fails
  (`unbound_landing`).

More configurations are kept beside the runs, each for a property that is stronger than the
one the runs check. They mark where the line is. The code promises none of the first three; the
next section says of the others, `late_review.cfg`, `doubled.cfg` and `nameless_part.cfg`, which of
its words they contradict.

* `lost_pin.cfg`: `LeftoversAreNotTaken` is what holds of the result ref of a merge that was killed,
  or whose issue close could not be staged: no other command deletes or overwrites it.
  `CandidateIsPinned`, that the pin of a recorded candidate stays, fails once a merge of the
  candidate itself fails, since its cleanup deletes the ref it took the result from.
* `relabelled.cfg`: `LandsTheCandidate`, that a merge is of the candidate, commit and strategy, of
  the very tip it is recorded on, fails when the candidate is replaced, while the merge finalizes,
  by another with the same commit: the adoption of a new head compares the commit only.
* `stale_tree.cfg`: with three base worktrees, the rollback of one merge meets the undo of another,
  and a worktree is put back to a tip that the base has left meanwhile. `NoTreeIsLeftBehind` fails,
  and `TreesFollowTheBase` excepts a worktree that an undo leaves like that (`unsaid`).

`ImplementsAtomic` is the refinement of the dialogue: the transaction takes effect in one step, at
which every line holds and every ref that must be absent is, and never after its caller was
answered. The test of the absent refs is sound because it comes between `prepare` and `commit`,
under git's locks; a test that resolved symbolic refs would not see the dangling one.

`NothingIsLeftUnsaid` goes over every way out of a build and of a CI run: the worktree, whole or in
part, and the result ref, are gone or in the error. A part belongs to the command whose
`git worktree add` made it where nothing was before. There are two ways out that the code leaves
open, which the property names and the next section shows; everywhere else a part or a ref that
is not spoken of violates it. `GreenIsEarned` is of both verdicts that let content land, a
Check and the plan a merge runs.

`KeysKeepTheirPromise` is the refinement: every step of `EntityStore` is a step of `KeyedCalls` or
changes nothing it sees. It is where `recheck` shows its use: without the second look at the
record, a call whose branches were deleted after its twin had committed would report a refusal
for a key that is bound.

### What the code does otherwise than it says

| Run | What happens | What the repository says |
| --- | --- | --- |
| `clobber` | A comment appended between a merge's transaction and its rollback is dropped: the rollback expects whatever head it has just read, and sets the head back to the tip before the merge | `merge_state.rs:516`: the CAS refuses to clobber a concurrently moved chain |
| `lost_edit` | A base worktree is refreshed, a person edits it, the refresh of a later one fails: the undo resets the first without looking | `git.rs:521`: a bare `reset --hard` silently discards uncommitted work, so refuse instead |
| `unbound_landing` | The head moves during finalization; the new tip is adopted with an approve or check that is not bound to the candidate | `pr_prepare.rs:433`: every gate input is bound to this exact candidate |
| `unclosed` | A merge finds the linked issue closed by another merge and stages no close; the other merge is rolled back, which reopens the issue; the first one lands | `README.md:18`: a successful merge closes it in the same ref transaction as the branch advance |

`ResultWasVetted` states what is left of the third: the candidate that lands had, at some tip
before, both its approve and its check bound to it.

Other places where code and words part, which the models contain. No run isolates them; three have
a configuration to try by hand.

* A transaction that git applied and reported as failed (`update_ref.rs:143-150`) is taken for one
  that was not. The words at `cas_update_ref` (`store.rs:227-231`) have a moved ref for another
  writer's and an error for *the ref still holds `expected`*, and `append_event` says *another
  writer won* (`store.rs:648`). After such a failure
  - an append finds its own event at the head, and appends it again: `doubled.cfg` has
    `EventsAreRecordedOnce` fail like that. `ci run` records its Check twice, and `pr prepare`
    records a second candidate (`pr_prepare.rs:590-604`);
  - `pr update` finds its own generation refs and refuses what it recorded; `pr merge` finds its own
    `pr.merge`, whose gate no longer passes, and says that refs are unchanged. The base is at the
    result, and its worktrees are neither refreshed nor named;
  - `issue new` and `issue apply` without a key refuse what they made; `pr create` without one takes
    its own counter for another's and makes a second PR (`store.rs:887`). With a key all of them
    find their record and answer truly;
  - a merge whose pending result ref was made and reported as not made ends without a word of it
    (`merge_state.rs:278`). Later merges that expect the ref to be absent are refused.

  `ReportsAreTrue`, `AnswersAreTrue`, `TreesFollowTheBase`, `OutcomesAreTrue` and
  `NothingIsLeftUnsaid` except the misinformed command, each in what is listed here and no further.
* A failed `git worktree add` can leave a part of the worktree (`cli.rs:702` says so, and `ci run`
  removes or names it). `pr merge` says that *the path was never registered to us*
  (`pr_merge.rs:558`), `pr prepare` that errors come with the worktree already removed best-effort
  (`pr_prepare.rs:271-273`); both leave the part and say nothing of it. `nameless_part.cfg` has
  `PartsAreNamed` fail like that.
* `pr review` folds, the PR is abandoned, and the review is appended after the abandon, since the append
  looks at the tip and not at the state; `pr_review.rs:88` says that an abandoned PR never gains a
  review event. `late_review.cfg` has `AbandonedGainsNoReview` fail like that. What is left is
  `MergeAuthorised`: nothing lands by a late review, since the gate refuses what is abandoned whatever
  came after. `pr update`, `pr prepare` and `ci run` fold early in the same way.
* The issue is closed when its close is staged, so the transaction holds no line for it, and a
  reopen in between goes unnoticed (`merge_state.rs:472`); `README.md:18` says that a successful
  merge closes it in the same transaction. `branch_race` therefore does not reopen.
* A CI run that finds every name locked removes the worktree and the lock file of the last name,
  which another run owns (`cli.rs:690` to `712`); a merge or a prepare removes the lock file only.
  `WorktreesAreOwn` is about the time before a CI run has given up, and `GreenIsEarned` excepts it.
* The comment at `cli.rs:703` says that failing to remove what was never registered is no leftover;
  `worktree_leftover` reports it as one.
* `cleanup_after_failure` has a comment that says the directory is verified to be gone
  (`git.rs:683`); it is not, and the message says that it was cleaned up. `NothingIsLeftUnsaid`
  counts a worktree as gone when git has removed it, and what a surviving process of a plan writes
  there later as the plan's.

### Bounds, and why they are enough

* Three shells. Each hazard needs one command in flight and one or two writers that interfere:
  the merger, and two others with up to two commands each (the merger has three when it prepares
  its own candidate), which gives sequences such as update, check, and approve inside one merge.
* `MaxAppendRetries = MaxFinalizeRetries = 3`, as in the code (`MAX_APPEND_RETRIES`,
  `MAX_FINALIZE_RETRIES`), in `gate_race`. Where transactions also fail for no reason (`branch_race`,
  `rollback`) an append has two attempts, and in `entities` both bounds are 2: that takes every
  retry and every exhaustion.
* `MaxCommits` bounds pushes only: git-forge's own results are bounded by the scripts. The
  initial states hold two to four commits, so each run with pushes allows one to three.
* `MaxIssue` bounds what others write to the issue. Creation, and up to three more events, is
  enough for the close to be staged, lost and staged again.
* In `entities` two issues exist or none, and `MaxCounter = 5` stands for `i64::MAX`: three
  allocations after the two issues try one more than the counter has. `Faults`, `Crashes` and
  `BranchesGo` are on together. Plans have one or two entries; two plans that each link one of two
  issues to the other are the smallest that make a cycle together.
* In `graph_search` three issues and one missing id give every shape the search tells apart: a
  shared part, a cycle through one, two or three issues, a link to nowhere before or after either,
  and the starts in any order (`MaxRoots = 2`: up to two roots, then every issue).
* In `ref_dialogue` two callers share two refs, in each way two transactions can overlap: both
  claim a name, both move a head, one verifies what the other moves. `PipeSize = 1` and
  `HookOutput = 2` are the least that make a writer wait for a reader. `MaxMishaps = 1`: one fault,
  kill or foreign write, at any point.
* In `worktrees` two merges and two base worktrees are the least that lets a refresh succeed before
  another fails and a second merge build on what the first rolls back. `MaxUser = 3` turns by
  people: an edit, the commit or restore of it, and one more.
* In `ci_run` there are two names (17 in the code), which takes the retry and the exhaustion, and
  two runs. Each case bounds its mishaps: three for a run alone, two for builds, none where two CI
  runs race. `TailBytes = 3` (4 KiB in the code, `TAIL_BYTES`) with up to seven bytes cuts every
  character at every place, in reads of one or two bytes. The strategies are one that can leave
  git in the middle of something and one that cannot; a squash is as the former.
* `CHECK_DEADLOCK FALSE` in every run: a script ends, and then the system has stopped. That it
  stops only there is what `EveryInvocationEnds` checks.
* The shells are not symmetric (each plan gives each a part), so no symmetry is declared. The
  plans already leave out the permutations.

### Fairness

* *PrLifecycle*: `FairSpec` asks weak fairness of each process's steps and of nothing else: a git
  command returns, and `ci run` has a deadline, so a process that can take a step takes one. Nothing
  is assumed of pushes, faults or the outcome of a transaction: a transaction may fail every time,
  and `EveryInvocationEnds` holds because every loop counts its attempts.
* *RefTransaction*: weak fairness of the caller, of the thread that drains git's errors, and of git,
  which gives up on a lock that stays held (`core.filesRefLockTimeout`) and whose hook ends. Faults
  and foreign writes are not fair. Without the thread, or with a caller that waits for git before it
  has read git's output, `EveryCallReturns` fails.
* *CiRun, MergeBuild*: weak fairness of each process's steps (its git commands end), of the clock,
  and of the death of a process that was sent SIGKILL, unless the kernel holds it. The plan itself
  is not fair: it may run, write and fork for ever. `EveryRunEnds` is due to the deadline and to
  three bounded waits.
* *GraphSearch*: weak fairness of the next step: it is a loop in one thread.

## 4. The proofs

The prover's results hold for every value of the constants under the assumptions the modules
state. These say what the constants are, and nothing about how the system behaves:

| Assumption | What it says |
| --- | --- |
| `RefsAssumption`, `MergeAssumption`, `LifecycleAssumption` | the founder is no actor, every actor has a role, the retry bounds are positive, scripts are sequences of commands, switches are Booleans, the environment's moves are those the model has |
| `GraphAssumption`, `StoreAssumption` | no key is the word for having none, ids are bounded by something above 1, the retry bounds are positive, switches are Booleans |
| `ScriptsAssumption`, `BeginningsAssumption` | scripts are sequences of commands; a repository that is found holds typed, keyed and acyclic issues numbered from one (`MayBegin`) |
| `CasesAssumption` | a request has lines for refs, and asks for absence only where it has a line |
| `WorktreesAssumption` | the worktrees are finitely many, the person is no merge |
| `SearchAssumption` | the issues, and the ids that no issue has, are finite and disjoint sets of numbers |
| `TailAssumption` | the bound of the tail is a number of bytes |
| `RunsAssumption`, `BuildAssumption` | a case names a job, runs, and bounds; no run has the name of a lock's state; each job has strategies |

So the results are about any number of shells, any scripts, any retry bounds, any number of refs,
worktrees, issues, links and CI runs, any output and any bound of its tail, with and without
faults, kills, pushes and a checked-out base. Where a theorem needs more, it says so as a
hypothesis, and the run that violates the property shows why:

| Theorem | Hypothesis | Without it |
| --- | --- | --- |
| `ReportsAreTruthful` | `~BaseCheckedOut`: nothing is rolled back | `clobber` |
| `MergesCloseTheIssue` | `~BaseCheckedOut`, and nobody reopens the issue | `unclosed` |
| `ResultRefOwned` | no rollbacks, faults or kills | each of them ends a merge before its cleanup, which leaves the ref (what `LeftoversAreNotTaken` is about) |
| `BaseAndChainAgree` | nobody rewinds the base | who rewinds it takes the result out of it |

### PrLifecycle

**Types** (`PrMergeProofs`, `TypeCorrect`). `TypeOK` is inductive as it stands because it says more than
the types: every commit that a ref, a fold, or the part of a process's memory that is in use names
has been made, and the memory in use is named by `pc` (`HasSource`, `HasBase`, `HasResult`). The
proof goes up the modules: applying an event keeps the type of the fold (`ApplyTyped`), extending
keeps the type of a chain, a new commit keeps every older one (`NewCommitTyped`, `LegalGrows`), a
process step keeps the type of its memory (`BecomesTyped`); then one lemma per command module and
one for what happens outside.

**The gate** (`PrMergeProofs`, `MergesAreAuthorised`). `MergeAuthorised` speaks of events; the gate
in the code looks at folded state, of a tip read earlier. Nothing in it says that the fold is right
about the events, nor that a merge about to be committed expects a tip that passed the gate. The
invariant `GateInv` adds that

* at each position of a chain the folded review, check and terminal fields are those of the last
  such event before it, and the folded generation is the newest pinned (`Folded`, `SoundChain`);
* this is true of the tips processes hold as well, and every merge that has passed its gate
  holds as its expected tip one at which the gate is true (`SoundProcess`);
* every generation of a chain is covered by a pin (`Covered`). That is why a `pr.update` whose
  transaction expects its pins to be absent has a generation newer than any the chain shows.

`ExtendSound` is the step: appending an event to a sound chain gives a sound chain, and a
`pr.merge` appended where the gate holds is authorised. A rollback sets the chain back to a
tip the process holds, which is why the invariant is about held tips too.

**What lands** (`PrLandingProofs`: `SnapshotsLand`, `ResultsAreVetted`). `LandingInv` follows the
content: a merge past its gate has the generation and the source of the tip it expects, its result
carries that source's work, and if the tip records a candidate, the result is the candidate's and
was vetted at some position of that very chain (`LandingProcess`). The adoption of a new head is
where it could break, and where the generation and the candidate are compared again.

**What is recorded** (`PrRecordProofs`) adds one small invariant per question.

| Theorem | Invariant | Why it is needed |
| --- | --- | --- |
| `SnapshotsArePinned` | `NumberingInv` | no update in flight is more than one ahead of the chain, nor of the tip a rollback would restore |
| `ReportsAreTruthful` | `ReportInv`, `Straight` | see below |
| `ResultRefOwned` | `OwnerInv` | says where a merge stands that will delete the ref |
| `TheBaseIsKept` | `GroundInv` | a result stands on the base its transaction expects; sources are people's commits |
| `BaseAndChainAgree` | `MergeInv`, `SplitInv` | one merge at a time may be rolled back; the base to which it goes back holds no result |
| `ClosesComeWithMerges` | `IssueInv` | the issue chain that a rollback restores has no close by a merge |
| `MergesCloseTheIssue` | `StagedInv` | a merge that stages no close has seen the issue closed |
| `ResultsAreNotTaken` | none but the types | is about one step |
| `InvocationsShrink`, `StepsAreBounded` | `TriesInv` | an attempt beyond the last is not made |

**Reports** (`ReportsAreTruthful`). `ReportInv` says that what is recorded or reported is of
invocations that have begun (`Begun`), so that an id is never used again, and that they have ended
(`Over`) or were misinformed. The second is where a retry could go wrong: an invocation whose event
is in the chain and which has not ended stands at a place from which the kind of its event says what
it can still do (`Spent`, `Doubts`). An update finds the generation refs it claimed itself, and a
merge is on its way to its cleanup, since no gate passes on a chain that `GateInv` shows merged. A
review, comment, check, abandon or prepare may record its event once more, which is what the
property excepts. `Straight` keeps rollbacks out.

**Invocations end** (`InvocationsShrink`, `StepsAreBounded`). `StepsLeft` weighs the attempts an
invocation has left before the place it is at (`Place`, from 15 down to 1), so that going back for
one more attempt lessens it as well. Every step of an invocation is its last or lessens it, one
that git misinformed of its own transaction included; no step of another process, no push and no
failing transaction adds to it; and it starts at `16 * MaxTries + 15`. Weak fairness has only to
let a process take its steps. That is `EveryInvocationEnds` but for the fairness, which TLC
checks.

### RefTransaction

`DialogueInv` (`RefTransactionProofs`) says what each end of a dialogue may rely on: what can be in
the pipes, and where git can be, while the caller is at a given place (`PipesSound`, `GitSound`);
once the caller has read that git is prepared, git holds the locks of all lines and the lines hold,
or it is no more (`Waiting`); when a commit has been asked for and not been read, the refs that must
be absent are absent as well (`CallerSound`, `CommitSound`). `NoLockIsLeft` is part of it, and
`DialogueIsAtomic` the refinement of AtomicRefs, one lemma per step: the commit maps to the atomic
transaction, an answer to an answer, everything else to a stutter. A value under a lock stays,
since writers respect the locks, which is why the lines that held when they were locked hold when
they are written.

### Worktrees

`TreeInv` (`WorktreeProofs`) is about any number of merges and worktrees. `Followed` is the heart:
a worktree that nobody named as left behind is at the base, or some merge still has to bring it
there: to refresh it, while the base is its result and the worktree at the tip its gate saw, or to
undo it. A merge that is killed after its transaction, or misinformed of it, gives up that promise
for every worktree, and so they are `unsaid` from then on. `Landing` and `Remembered` say where in
the base's history a merge's result is, and `Unvisited` that worktrees a merge has yet to visit
are as its gate saw them. `WorktreesFollow`, `SeenWorkIsKept` and `OutcomesStayTrue` follow from
it.

### EntityStore

`EntityProofs` proves all that `EntityProperties` states, from two invariants.

`StoreInv` has the types; what the memory of a process is good for at each place (`Fits`); and
`Looked`: *while the counter is what a process read, its snapshot and what it has yet to read are
together all the issues there are*. This is how the counter's compare-and-set guards a snapshot that
was read ref by ref: creations move the counter, and what does not move it makes no issue. Allocation
follows, and so do the plan keys, whose absence a plan saw. The graph needs more, since a link may
be made without a creation: a batch expects the tip of every issue in its snapshot, so the graph it
validated is the one its transaction changes (`GraphSound`, `AppliedPlansHold`).

`EffectInv` counts effects. A *mark* is an event in some log that names its call. `KeysAreMarked`:
a record stands for one mark on the recorded entity; `NothingIsMarkedYet`: a call that has yet to
commit has no mark; `CommittedIsMarked`: one whose transaction was applied (`Applied`: it knows
it, or it was told the contrary), and whose caller has still to be told, has one, and no more
unless it was misinformed; `AnswersAreMarked`: a refused call has none, unless it has no key and
was misinformed. What makes the answer of a keyed call true is `MisledEnds`: such a call is about
to read its record, and `KeysAreMarked` has it there; a misinformed `issue new` or `issue apply`
is about to give up, and only `pr create` and appends repeat. The proof sorts the steps into three
kinds (a process goes on; it answers; it writes), each with what it leaves alone. The refinement
`KeysKeepTheirWord` uses the same three: a write that claims a key maps to `Bind`, an answer of a
keyed call to `Answer`, and the rest stutters.

`CommandsComeToAnEnd` and `CommandStepsAreBounded` are to EntityStore what `InvocationsShrink` and
`StepsAreBounded` are to PrLifecycle, and no run states them. A command counts two things here: its
attempts, and within an attempt the snapshots it had to read again (`RoundsLeft`); and a snapshot
reads as many issues as there are, which `AllocationSound` bounds by the limit of the counter
(`IssuesAreFew`). `StepsLeft` weighs the first above the second and that above the place.

### GraphSearch

`SearchInv` (`GraphSearchProofs`) is an invariant of a depth-first search on any finite graph,
from any roots. The stack holds, for each node of the path and in the path's order, the entry at
which it will be left (`Waits`, by the positions `at`); between two of those are the links of the
lower one that have yet to be visited (`Linked`); what a node on the path links to is finished or
above it on the stack (`Pending`); the path follows the links (`Chained`). So when a node is left
all it links to is finished, and what is finished is closed under links and does not reach itself
(`Closed`); that needs no induction over paths, because to reach is defined by closed sets. A link
back to the path is a cycle, the path from there on. `Covered` says that no issue is forgotten, so
that `ok` is about all. `SearchTyped` and `SearchRight` follow.

`SearchDecides` ties it to EntityStore: the verdict is what `Acyclic` of IssueGraph says of the same
links, *each set of issues has one that links to nothing in it*. For the one direction, take the
issue of the set that reaches the fewest (`LinkReachesLess`); for the other, the set is the cycle.
`SearchAlwaysShrinks` and `EffortBounded` give the search a variant: the entries on the stack, the
starts, and for each issue not yet visited more than the entries it can add.

### CiRun and MergeBuild

`CiInv` (`CiProofs`) has two halves. *Local* is what a run knows of itself and of its plan: where it
stands, a plan has not been started, or is being attended, or has been judged (`PlacedRun`); a
failure is what happened (`Reasoned`); and no failure means that the plan was green, at the places
where the run relies on that (`Verdicts`, `Says`). A run that has timed out or cannot prove its group
gone relies on nothing, which is why the plan may go on beside it. `ReasonsTrue`, `BuildsTyped` and
the first half of `GreenEarned` follow. A Check may be recorded once more, after each fault: it is the
same Check (`Alike`), and `Counted` bounds how often by the mishaps there were.

*Shared* is what runs have in common. Every worktree is accounted for by the run that made it,
which is at work there, is about to remove it, or says so (`Accounted`), and so is the result ref
(`RefAccounted`); `NothingUnsaid` follows. What a failed `git worktree add` left belongs to the
run that tried: `ci run` goes on to remove it or name it, a merge or a prepare ends with a failed
addition, and that is how the invariant tells it (`Answers`). A ref that is not spoken of was
reported as not made. And a name belongs to whom holds its lock (`OwnsTree`, `OwnsLock`), with two
exceptions that the statements name: a run that is out of names tidies up the last one, which may
be another's (`Exhausted`); and a process of a plan may write there after its run has let go
(`Guarded`, `Cleared`, `Outlived`). `WorktreesOwned` follows, and the rest of `GreenEarned`.

Each step is taken twice: what it does to the run itself (the `Known` lemmas, on values, with no
state), and what to the others (the `Shared` lemmas: a quiet step, a reservation, an addition, a
removal, a release, a plan that writes).

*The tail* (`TailRight`, from `CaptureInv`) is about every output, every bound and every way to divide
the output into reads. What the reader keeps is the end of what it read, and all of it or the bound and
three bytes more (`KeptEnough`). `TailOfKept` is the lemma that this is enough: from the bytes kept
comes the text that comes from the whole. A cut is clean when no character crosses it (`CleanCut`),
and what stands behind a clean cut decodes as it does in the whole (`ContinuesFromEnd`,
`WholeFromEnd`, `BeginsFromEnd`). `split_continuations` finds the first clean cut at or after the
bound, and the three bytes more show it the lead of any character that the bound splits
(`SplitIs`). What is dropped there begins no character, or one that would not have fitted:
a decoded character takes at least the room of the bytes it stands for (`RoomIsWide`). To have a proof,
OutputTail states what the code's loops compute and not how: a place begins a character or does not,
and the text is the characters at those places.

Proving `GreenIsEarned` is what gave it the wider of its exceptions. It had said that the worktree
of a green run was gone unless that run's own plan had left a process behind. With more mishaps in
one behaviour than `ci_run` allows, the killed group of *another* run, which takes its time to die,
writes into a name that it has lost and a green run has just vacated.

### What is only model-checked

* Liveness: `EveryInvocationEnds`, `EveryCallReturns`, `EveryRunEnds`, `GroupIsContained`,
  `SearchEnds`. Properties under fairness, and ENABLED, are out of the prover's reach. For the first
  and the last the safety half is proved, that there is a bound on the steps (and for the commands of
  EntityStore, of which no run checks that they return); that a process which is
  not done can take one is the half left to TLC.

All invariants, action properties and refinements that the passing runs check are theorems.

Every invariant above that TLC can evaluate was an invariant of a TLC run, on the small instances of
section 3, before it was proved.

## 5. Not modelled, and the plan

Not modelled, because it keeps no protocol state: argument parsing, wording, JSON, the rendering of
conflict paths, the scanner of justfiles (`ci/validate.rs`), the environment that git and plans are
given, the comparison of paths, and reading the configuration.

Not modelled, although it could be:

* In the chains: criss-cross merge bases, refs deleted by hand, forged anchors and chains, malformed
  or symbolic records, and event parsing.
* In PrLifecycle: more than one base worktree (Worktrees has two, without chain and issue), and
  `pr comment --idempotency-key`, which uses on a PR's head what EntityStore has for an issue's.
* In Worktrees: a checkout of the base made, or a reset by hand, in the middle of a merge; a commit
  between the capture of the branch's tip and `git branch -D` (it is lost: the command compares
  nothing); and a `git diff` or `git ls-files` that fails, which the refresh takes for clean
  (`git.rs:533`).
* In RefTransaction: what git does inside a commit of several refs when the machine fails. That git
  applies a prepared transaction as a whole is an assumption about git. A hook that leaves a process
  behind which holds the pipe would keep the drain, and so the call, waiting.
* In CiRun: the reuse of a process id after the group is gone, and the restricted second bytes of
  some UTF-8 characters. A plan that finishes between the check of the deadline and the poll may
  still be green: the model has that, and `GreenIsEarned` allows it.

What is open is a variant for the remaining loops: the dialogue of RefTransaction, and the three
bounded waits of a CI run.

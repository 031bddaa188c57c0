------------------------------ MODULE EntityStore ------------------------------
(***************************************************************************)
(* The refs that the commands creating entities share, and these commands: *)
(* `issue new`, `pr create` and `issue comment`, with or without an        *)
(* idempotency key, `issue close` and `reopen`, and `issue apply`.  Each   *)
(* read of a ref and each ref transaction is one step.                     *)
(***************************************************************************)
EXTENDS IssueGraph, FiniteSetsExt

CONSTANTS
    Actors,             \* the shells
    MaxAllocRetries,    \* attempts at an allocation, and at a snapshot
    MaxAppendRetries,   \* attempts at an append
    Faults,             \* whether git may fail for no reason of the refs', or lie of it
    Crashes,            \* whether processes may be killed
    BranchesGo,         \* whether the branches of a pull request may be deleted
    Plans,              \* the scripts the shells may set out to run
    Beginnings          \* what may be in the repository when they start

ASSUME StoreAssumption ==
    /\ MaxAllocRetries \in Nat \ {0} /\ MaxAppendRetries \in Nat \ {0}
    /\ Faults \in BOOLEAN /\ Crashes \in BOOLEAN /\ BranchesGo \in BOOLEAN
    /\ NoKey \notin Actors

----------------------------------------------------------------------------
(* What the shells may run, and what they may find. *)

\* The commands that take an idempotency key, and the commands.
KeyedOps == {"new", "pr", "comment"}
Commands ==
    {c \in [op : KeyedOps \cup {"close", "reopen", "apply"}, key : Keys \cup {NoKey}, id : Nat,
            parent : Nat, blocked : SUBSET (Nat \ {0}), plan : Seq(Entries)] :
        /\ c.key # NoKey => c.op \in KeyedOps
        /\ c.op = "apply" => WellFormed(c.plan)}

\* The events, each of a call of a shell's, or from before the shells started.
CallIds == [shell : Actors \cup {NoKey}, left : Nat,
            name : (KeyedOps \cup {"close", "reopen", "apply"}) \X (Keys \cup {NoKey})]
Events == [by : CallIds,
           kind : {"issue.created", "issue.updated", "issue.close", "issue.reopen",
                   "issue.comment", "pr.created"}]
OldEvents == {e \in Events : e.by.shell = NoKey /\ e.by.name[2] = NoKey}
IssuesWith(events) ==
    [key : Keys \cup {NoKey}, parent : Nat, blocked : SUBSET (Nat \ {0}), open : BOOLEAN,
     log : Seq(events) \ {<<>>}]

\* A repository in which these commands have run before, without idempotency keys.
MayBegin(b) ==
    /\ b.counter \in 0..MaxCounter
    /\ DOMAIN b.issues \cup DOMAIN b.prs = 1..NextId(b.counter)-1
    /\ DOMAIN b.issues \cap DOMAIN b.prs = {}
    /\ b.issues \in [DOMAIN b.issues -> IssuesWith(OldEvents)]
    /\ b.prs \in [DOMAIN b.prs -> Seq(OldEvents)]
    /\ ValidGraph(b.issues)
    /\ \A m, n \in DOMAIN b.issues :
          b.issues[m].key = b.issues[n].key /\ b.issues[m].key # NoKey => m = n

ASSUME ScriptsAssumption == Plans \subseteq [Actors -> Seq(Commands)]
ASSUME BeginningsAssumption == \A b \in Beginnings : MayBegin(b)

VARIABLES
    counter,     \* refs/forge/counter, by the next id it allocates; 0 when absent
    issues,      \* refs/forge/issues/<n>: the folded issues, by id
    prs,         \* refs/forge/prs/<n>/head: the event logs, by id
    records,     \* refs/forge/idempotency/<command>/<key>: the records, by command and key
    branches,    \* whether the branches that `pr create` names exist
    proc,        \* what each running process has in memory
    todo,        \* the commands each shell still has to run
    answers      \* history: what each process told its caller

refs == <<counter, issues, prs, records, branches>>
vars == <<counter, issues, prs, records, branches, proc, todo, answers>>

----------------------------------------------------------------------------
(* Commands, and the processes that run them. *)

\* A command with everything that defines "the same request".
Cmd(op, key) ==
    [op |-> op, key |-> key, id |-> 0, parent |-> 0, blocked |-> {}, plan |-> <<>>]

Idle == [pc |-> "idle", cnt |-> 0, left |-> {}, snap |-> <<>>, log |-> <<>>,
         tries |-> 0, rounds |-> 0, why |-> "", id |-> 0, misled |-> FALSE]

Call(a) == Head(todo[a])
At(a, pc) == proc[a].pc = pc
Runs(a, op) == proc[a].pc # "idle" /\ Call(a).op = op

Keyed(c) == c.key # NoKey
RecordName(c) == <<c.op, c.key>>
Recorded(c) == RecordName(c) \in DOMAIN records
CallId(a) == [shell |-> a, left |-> Len(todo[a]), name |-> RecordName(Call(a))]

\* The event a command adds to an entity's log.
EventOf(a, kind) == [by |-> CallId(a), kind |-> kind]

Becomes(a, p) == proc' = [proc EXCEPT ![a] = p] /\ UNCHANGED <<todo, answers>>
Goes(a, pc) == Becomes(a, [proc[a] EXCEPT !.pc = pc])

\* The process tells its caller about entity id, and the shell runs the next command.
Answers(a, how, id) ==
    /\ answers' = answers \cup {[by |-> CallId(a), call |-> Call(a), how |-> how, id |-> id,
                                 misled |-> proc[a].misled]}
    /\ proc' = [proc EXCEPT ![a] = Idle]
    /\ todo' = [todo EXCEPT ![a] = Tail(@)]

\* Whether a record is of the same request.
Matches(record, c) == record.request = c

\* resolve: the recorded result, or a conflict when the inputs differ.
Resolved(a) ==
    LET record == records[RecordName(Call(a))] IN
    Answers(a, IF Matches(record, Call(a)) THEN "ok" ELSE "conflict", record.id)

\* Mutant: a failing command says so at once.
Fails_AtOnce(a) == Answers(a, "refused", 0)

\* A failing command reads its record once more before it says so.
Fails(a) == IF Keyed(Call(a)) THEN Goes(a, "recheck") ELSE Answers(a, "refused", 0)

Reads(a) == UNCHANGED refs

----------------------------------------------------------------------------
(* The beginning and the end of a command. *)

FirstPc(c) ==
    CASE c.op \in {"new", "apply"} -> "counter"
      [] c.op = "pr" -> IF c.id = 0 THEN "branch" ELSE "exists"
      [] OTHER -> "exists"

\* replay: a recorded request is answered from its record.
Replays(c) == Keyed(c) /\ Recorded(c)

Begin(a) ==
    /\ At(a, "idle") /\ todo[a] # <<>>
    /\ IF Replays(Call(a)) THEN Resolved(a) ELSE Goes(a, FirstPc(Call(a)))
    /\ Reads(a)

Recheck(a) ==
    /\ At(a, "recheck")
    /\ IF Recorded(Call(a)) THEN Resolved(a) ELSE Answers(a, "refused", 0)
    /\ Reads(a)

Done(a) == At(a, "done") /\ Answers(a, "ok", proc[a].id) /\ Reads(a)

\* The issue that a comment, a close or `pr create --closes` names must exist.
Exists(a) ==
    /\ At(a, "exists")
    /\ IF Call(a).id \notin DOMAIN issues THEN Fails(a)
       ELSE Goes(a, IF Call(a).op = "pr" THEN "branch" ELSE "tip")
    /\ Reads(a)

----------------------------------------------------------------------------
(***************************************************************************)
(* issue_snapshot: the counter, the names of the issues' refs, each issue  *)
(* in turn, and the counter again.                                         *)
(***************************************************************************)
ReadCounter(a) ==
    /\ At(a, "counter")
    /\ Becomes(a, [proc[a] EXCEPT !.pc = "names", !.cnt = counter, !.snap = <<>>])
    /\ Reads(a)

ReadNames(a) ==
    /\ At(a, "names")
    /\ Becomes(a, [proc[a] EXCEPT !.pc = "issues", !.left = DOMAIN issues])
    /\ Reads(a)

ReadIssue(a) ==
    LET n == Min(proc[a].left) IN
    /\ At(a, "issues") /\ proc[a].left # {}
    /\ Becomes(a, [proc[a] EXCEPT !.left = @ \ {n}, !.snap = With(@, n, issues[n])])
    /\ Reads(a)

\* `issue new` tries again from the start, `issue apply` gives up.
Restarts(a) ==
    IF Runs(a, "new") /\ proc[a].tries + 1 < MaxAllocRetries
    THEN Becomes(a, [proc[a] EXCEPT !.pc = "counter", !.tries = @ + 1, !.rounds = 0])
    ELSE Fails(a)

\* What new_issue_keyed checks of its snapshot.
NewIssueOk(p, c) ==
    LET id == NextId(p.cnt) IN
    /\ id \notin DOMAIN p.snap
    /\ Allocates(p.cnt, 1)
    /\ ({c.parent} \ {0}) \cup c.blocked \subseteq DOMAIN p.snap \cup {id}
    /\ ValidGraph(With(p.snap, id, NewIssue(c.parent, c.blocked, <<>>)))

SnapshotOk(p, c) == IF c.op = "new" THEN NewIssueOk(p, c) ELSE Accepts(c.plan, p.snap, p.cnt)

\* Mutant: the counter is read once, after the issues.
Snapshot_LateCounter(a) ==
    LET p == [proc[a] EXCEPT !.cnt = counter, !.pc = "batch"] IN
    /\ At(a, "issues") /\ proc[a].left = {}
    /\ IF SnapshotOk(p, Call(a)) THEN Becomes(a, p) ELSE Fails(a)
    /\ Reads(a)

Snapshot(a) ==
    LET p == proc[a] IN
    /\ At(a, "issues") /\ p.left = {}
    /\ \/ /\ counter # p.cnt
          /\ IF p.rounds + 1 < MaxAllocRetries
             THEN Becomes(a, [p EXCEPT !.pc = "counter", !.rounds = @ + 1])
             ELSE Restarts(a)
       \/ /\ counter = p.cnt
          /\ IF SnapshotOk(p, Call(a)) THEN Goes(a, "batch") ELSE Fails(a)
    /\ Reads(a)

----------------------------------------------------------------------------
(* Ref transactions. *)

\* A claim creates its record, which must be absent.
ClaimHolds(a) == Keyed(Call(a)) => ~Recorded(Call(a))

\* Mutant: the record is written by a transaction of its own, later.
Claim_Later(a, id) == UNCHANGED records

Claim(a, id) ==
    IF ~Keyed(Call(a)) THEN UNCHANGED records
    ELSE records' = With(records, RecordName(Call(a)), [request |-> Call(a), id |-> id])

\* The transaction is reported as failed; applied says whether it was all the same, which
\* the process cannot tell and nothing but the properties reads.
ToldOfFailure(a, why, applied) ==
    Becomes(a, [proc[a] EXCEPT !.pc = IF Keyed(Call(a)) THEN "claim" ELSE "failed",
                               !.why = why, !.misled = @ \/ applied])

(***************************************************************************)
(* The transaction has been applied for entity id; git may still have died *)
(* or exited nonzero after that (update_ref.rs run_update_ref_stdin).      *)
(***************************************************************************)
Commits(a, id) ==
    \/ Becomes(a, [proc[a] EXCEPT !.pc = "done", !.id = id])
    \/ Faults /\ ToldOfFailure(a, "fault", TRUE)

\* The transaction fails: an expected value is wrong, a lock is held, or git fails.
FailsUnless(a, holds) ==
    /\ \E why \in (IF holds THEN {} ELSE {"rejected"})
                  \cup (IF Faults THEN {"locked", "fault"} ELSE {}) :
          ToldOfFailure(a, why, FALSE)
    /\ Reads(a)

\* existing_claim: the record of the same key explains the failure.
ReadClaim(a) ==
    /\ At(a, "claim")
    /\ IF Recorded(Call(a)) THEN Resolved(a) ELSE Goes(a, "failed")
    /\ Reads(a)

\* The issues as the batch leaves them, computed on the snapshot.
Batch(a) ==
    LET p == proc[a]
        c == Call(a)
    IN  IF c.op = "new"
        THEN With(p.snap, NextId(p.cnt),
                  NewIssue(c.parent, c.blocked, <<EventOf(a, "issue.created")>>))
        ELSE Planned(c.plan, p.snap, p.cnt, CallId(a))

\* The issues the batch writes, and those of them that it creates.
Written(a) == {n \in DOMAIN Batch(a) :
                  n \in DOMAIN proc[a].snap => Batch(a)[n] # proc[a].snap[n]}
Created(a) == DOMAIN Batch(a) \ DOMAIN proc[a].snap

\* Mutant: of the issues of the snapshot, only those the batch writes are compared.
SnapshotHolds_Written(a) ==
    \A n \in DOMAIN proc[a].snap \cap Written(a) : issues[n] = proc[a].snap[n]

\* Every issue of the snapshot is as it was read.
SnapshotHolds(a) == \A n \in DOMAIN proc[a].snap : issues[n] = proc[a].snap[n]

\* The expected values of the batch: also the counter, and that what it creates is absent.
BatchHolds(a) ==
    /\ counter = proc[a].cnt
    /\ Created(a) \cap DOMAIN issues = {}
    /\ SnapshotHolds(a)
    /\ ClaimHolds(a)

\* apply_issue_batch: the counter moves past the ids it allocates.
ApplyBatch(a) ==
    LET id == NextId(proc[a].cnt) IN
    /\ At(a, "batch")
    /\ BatchHolds(a)
    /\ counter' = IF Created(a) = {} THEN counter ELSE id + Cardinality(Created(a))
    /\ issues' = Over([n \in Written(a) |-> Batch(a)[n]], issues)
    /\ Claim(a, id)
    /\ Commits(a, IF Runs(a, "new") THEN id ELSE 0)
    /\ UNCHANGED <<prs, branches>>

BatchFails(a) == At(a, "batch") /\ FailsUnless(a, BatchHolds(a))

\* `issue new` retries a lost race, and with a key a held lock; `issue apply` nothing.
BatchFailed(a) ==
    /\ At(a, "failed") /\ Call(a).op \in {"new", "apply"}
    /\ IF proc[a].why \in {"rejected"} \cup (IF Keyed(Call(a)) THEN {"locked"} ELSE {})
       THEN Restarts(a) ELSE Fails(a)
    /\ Reads(a)

BatchStep(a) ==
    \/ ReadCounter(a) \/ ReadNames(a) \/ ReadIssue(a) \/ Snapshot(a)
    \/ ApplyBatch(a) \/ BatchFails(a) \/ BatchFailed(a)

----------------------------------------------------------------------------
(* create_pr. *)

\* resolve_local_branch: the branches must exist.
ReadBranches(a) ==
    /\ At(a, "branch")
    /\ IF branches THEN Goes(a, "alloc") ELSE Fails(a)
    /\ Reads(a)

Allocate(a) ==
    /\ At(a, "alloc")
    /\ IF Allocates(counter, 1)
       THEN Becomes(a, [proc[a] EXCEPT !.pc = "create", !.cnt = counter])
       ELSE Fails(a)
    /\ Reads(a)

CreateHolds(a) ==
    /\ counter = proc[a].cnt
    /\ NextId(counter) \notin DOMAIN prs
    /\ ClaimHolds(a)

CreatePr(a) ==
    LET id == NextId(proc[a].cnt) IN
    /\ At(a, "create")
    /\ CreateHolds(a)
    /\ counter' = id + 1
    /\ prs' = With(prs, id, <<EventOf(a, "pr.created")>>)
    /\ Claim(a, id)
    /\ Commits(a, id)
    /\ UNCHANGED <<issues, branches>>

CreateFails(a) == At(a, "create") /\ FailsUnless(a, CreateHolds(a))

\* Only a counter that has moved is retried, be it moved by the process itself.
CreateFailed(a) ==
    /\ At(a, "failed") /\ Call(a).op = "pr"
    /\ IF counter # proc[a].cnt /\ proc[a].tries + 1 < MaxAllocRetries
       THEN Becomes(a, [proc[a] EXCEPT !.pc = "alloc", !.tries = @ + 1])
       ELSE Fails(a)
    /\ Reads(a)

CreateStep(a) ==
    ReadBranches(a) \/ Allocate(a) \/ CreatePr(a) \/ CreateFails(a) \/ CreateFailed(a)

----------------------------------------------------------------------------
(* append_event and append_event_claimed. *)

Kind(op) ==
    CASE op = "close" -> "issue.close" [] op = "reopen" -> "issue.reopen" [] OTHER -> "issue.comment"

\* The fold of the event: whether the issue is open after it.
OpenAfter(op, open) == IF op = "comment" THEN open ELSE op = "reopen"

Tip(a) ==
    /\ At(a, "tip")
    /\ Becomes(a, [proc[a] EXCEPT !.pc = "append", !.log = issues[Call(a).id].log])
    /\ Reads(a)

\* Mutant: the tip is not compared.
AppendHolds_AnyTip(a) == ClaimHolds(a)

AppendHolds(a) == issues[Call(a).id].log = proc[a].log /\ ClaimHolds(a)

WriteEvent(a) ==
    LET c == Call(a) IN
    /\ At(a, "append")
    /\ AppendHolds(a)
    /\ issues' = [issues EXCEPT ![c.id].log = Append(proc[a].log, EventOf(a, Kind(c.op))),
                                ![c.id].open = OpenAfter(c.op, @)]
    /\ Claim(a, c.id)
    /\ Commits(a, c.id)
    /\ UNCHANGED <<counter, prs, branches>>

AppendFails(a) == At(a, "append") /\ FailsUnless(a, AppendHolds(a))

\* A tip that has moved, be it by the process itself, is retried on the fresh tip; with a
\* key a held lock is not.
AppendFailed(a) ==
    LET fresh == issues[Call(a).id].log IN
    /\ At(a, "failed") /\ Call(a).op \in {"comment", "close", "reopen"}
    /\ IF \/ fresh = proc[a].log
          \/ proc[a].tries + 1 >= MaxAppendRetries
          \/ (proc[a].why = "locked" /\ Keyed(Call(a)))
       THEN Fails(a)
       ELSE Becomes(a, [proc[a] EXCEPT !.tries = @ + 1, !.log = fresh,
                                       !.pc = IF Keyed(Call(a)) THEN "append" ELSE "tip"])
    /\ Reads(a)

AppendStep(a) == Tip(a) \/ WriteEvent(a) \/ AppendFails(a) \/ AppendFailed(a)

----------------------------------------------------------------------------
(* The system. *)

\* A process is killed, and its shell goes on with the next command.
Crash(a) ==
    /\ ~At(a, "idle")
    /\ proc' = [proc EXCEPT ![a] = Idle]
    /\ todo' = [todo EXCEPT ![a] = Tail(@)]
    /\ UNCHANGED <<answers, refs>>

\* Only `pr create` reads the branches: a deletion shows first while one is running.
DeleteBranches ==
    /\ BranchesGo /\ branches
    /\ \E a \in Actors : Runs(a, "pr")
    /\ branches' = FALSE
    /\ UNCHANGED <<counter, issues, prs, records, proc, todo, answers>>

Step(a) == Begin(a) \/ Exists(a) \/ BatchStep(a) \/ CreateStep(a) \/ AppendStep(a)
           \/ ReadClaim(a) \/ Recheck(a) \/ Done(a)

Init ==
    /\ \E b \in Beginnings : counter = b.counter /\ issues = b.issues /\ prs = b.prs
    /\ records = <<>> /\ branches = TRUE
    /\ proc = [a \in Actors |-> Idle]
    /\ todo \in Plans
    /\ answers = {}

Next == (\E a \in Actors : Step(a) \/ (Crashes /\ Crash(a))) \/ DeleteBranches

Spec == Init /\ [][Next]_vars
=============================================================================

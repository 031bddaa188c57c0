----------------------------- MODULE PrRecordProofs -----------------------------
(***************************************************************************)
(* What the commands leave behind: the generations they pin, the reports   *)
(* they print, the result ref they own, the base branch they move and the  *)
(* issue they close; for every set of actors, every plan and every bound.  *)
(*                                                                         *)
(* The chain changes in two ways only.  An invocation records its event on *)
(* the tip it compares with, and then ends, or goes on to refresh the base *)
(* worktree; and a merge whose refresh failed rolls the refs back.  Of the *)
(* merges at most one is recorded at a time, so at most one process is     *)
(* ever refreshing, and what it captured of the base and the issue is what *)
(* they were just before it.                                               *)
(*                                                                         *)
(* An invocation comes to an end: the loops of store.rs, pr_prepare.rs and *)
(* finalize.rs count their attempts, and each step that is not one more    *)
(* attempt is a place further on.                                          *)
(***************************************************************************)
EXTENDS PrLandingProofs

\* Where a merge is recorded and may still be rolled back.
Refreshing == {"m_refresh", "m_seen", "m_rollback"}

----------------------------------------------------------------------------
(* Generations and reports. *)

\* Every update in chain c takes the next number.
Numbered(c) ==
    \A i \in 1..Len(c) : c[i].ev.kind = "pr.update" => c[i].st.gen = c[i-1].st.gen + 1

\* Every process that updates has at most the number after that of chain c.
NoneAhead(c) == \A b \in Actors : proc[b].pc \in Updating => proc[b].gen <= State(c).gen + 1

\* Generations are numbered without gaps, also in the chain a rollback would restore.
NumberingInv ==
    /\ Numbered(chain) /\ NoneAhead(chain)
    /\ \A a \in Actors : proc[a].pc \in Refreshing =>
          Numbered(proc[a].tip) /\ NoneAhead(proc[a].tip)

\* The base is checked out nowhere: no process refreshes a worktree, or rolls back.
Straight == \A a \in Actors : proc[a].pc \notin Refreshing

\* The invocation of an actor that id names has ended.
Over(id) == id[1] \in Actors => Len(todo[id[1]]) < id[2]

\* The invocation of an actor that id names is the one to run, or has ended.
Begun(id) == id[1] \in Actors => Len(todo[id[1]]) <= id[2]

\* Where an invocation stands that was told that the event it recorded failed: an update finds
\* its generation claimed, a merge is before its cleanup, and anything else may try again.
Doubts(a, kind) ==
    CASE kind = "pr.update" -> proc[a].pc = "u_claimed" /\ Claimed(proc[a].gen)
      [] kind = "pr.merge"  -> proc[a].pc \in {"m_head", "m_clean"}
      [] OTHER              -> proc[a].pc \in {"tip", "cas", "lost"} \cup Preparing
Spent(a) == \A i \in 1..Len(chain) :
               chain[i].ev.id = CommandId(a) => Doubts(a, chain[i].ev.kind)

\* What is recorded, and what is reported, is of invocations that have ended, or were told
\* that what they recorded failed.
ReportInv ==
    /\ \A i \in 1..Len(chain) :
          LET id == chain[i].ev.id IN Begun(id) /\ (Over(id) \/ Misinformed(id))
    /\ \A r \in reported : Begun(r.id) /\ (Over(r.id) \/ r.how = "unclear")
    /\ \A a \in Actors : Spent(a)
    /\ ReportsAreTrue

\* Where a merge that goes on to end deletes the result ref it finds its result in.
Owning == {"m_worktree", "m_stage", "m_fold", "m_txn", "m_head", "m_issue", "m_clean"}
OwnerInv ==
    result # NoCommit =>
        \/ \E a \in Actors : proc[a].pc \in Owning /\ proc[a].res = result
        \/ \E i \in 1..Len(chain) : /\ chain[i].ev.kind = "pr.prepared"
                                    /\ chain[i].ev.bind.result = result

----------------------------------------------------------------------------
(* The base branch. *)

\* Commit x was built by git-forge; commit c has none such in its history.
Built(x) == objects[x].from # x
Pure(c) == \A x \in Anc(c) : ~Built(x)

\* Result r stands on base commit b, and is the only commit built on top of it.
Grounded(r, b) ==
    /\ r \in Made /\ b \in Made /\ b \in Anc(r)
    /\ \A x \in Anc(r) : Built(x) => x = r \/ x \in Anc(b)

GroundedTip(c) == LET k == State(c).prepared IN k.result # NoCommit => Grounded(k.result, k.base)

\* The merge in chain c, if there is one, is the one its state names.
OneMerge(c) ==
    LET merges == {j \in 1..Len(c) : c[j].ev.kind = "pr.merge"} IN
    /\ \A j \in merges : c[j].ev.bind.result = State(c).merged
    /\ State(c).merged # NoCommit => merges # {}

\* Sources are people's commits, and results stand on their base.
GroundInv ==
    /\ source \in Made /\ Pure(source)
    /\ \A p \in pins : p.source \in Made /\ Pure(p.source)
    /\ GroundedTip(chain)
    /\ \A a \in Actors :
          LET p == proc[a] IN
          /\ p.tip # <<>> => GroundedTip(p.tip)
          /\ p.pc \in Updating \ {"u_source"} => p.src \in Made /\ Pure(p.src)
          /\ p.pc \in Prepares \cup Landing => Grounded(p.res, p.base)

\* One merge at a time, by at most one process that may yet roll it back.
MergeInv ==
    /\ OneMerge(chain)
    /\ \A a \in Actors : proc[a].pc \in Refreshing =>
          /\ State(chain).merged # NoCommit
          /\ \A b \in Actors : proc[b].pc \in Refreshing => a = b

\* What git-forge built under the base is the merge recorded, and nothing else.
SplitInv ==
    /\ State(chain).merged # NoCommit => State(chain).merged \in Anc(base)
    /\ \A x \in Anc(base) : Built(x) => x = State(chain).merged
    /\ \A a \in Actors : proc[a].pc \in Refreshing => Pure(proc[a].base)

----------------------------------------------------------------------------
(* The linked issue. *)

\* No close in issue chain i is by a merge.
PeoplesOwn(i) == \A k \in 1..Len(i) : i[k].kind = "issue.close" => i[k].id[1] = Founder

IssueInv ==
    /\ ClosedOnlyByMerge
    /\ \A a \in Actors : proc[a].pc \in Refreshing =>
          IF proc[a].stage = <<>> THEN PeoplesOwn(issue) ELSE PeoplesOwn(proc[a].stage)

\* A merge that stages no close has seen the issue closed.
StagedInv ==
    LinkedIssue =>
        \A a \in Actors : proc[a].pc \in {"m_fold", "m_txn"} =>
            \/ proc[a].stage # <<>>
            \/ proc[a].pc = "m_txn" /\ ~IssueOpen(issue)

----------------------------------------------------------------------------
(* What a step does to the chain, the scripts and the reports. *)

\* An invocation ends without recording anything, or is killed.
Stops(a) ==
    /\ todo[a] # <<>> /\ UNCHANGED chain
    /\ \/ Exits(a, "refused") \/ Crash(a)
       \/ proc[a].pc \in Refreshing /\ \E how : Exits(a, how)

\* Where the transaction that records an event of a kind is sent, and where the process goes
\* on when git reports that it failed.
SentAt(kind) == CASE kind = "pr.update" -> {"u_txn"}
                  [] kind = "pr.merge"  -> {"m_txn"}
                  [] OTHER              -> {"cas", "p_txn"}
FailsTo(kind) == CASE kind = "pr.update" -> {"u_claimed"}
                   [] kind = "pr.merge"  -> {"m_head"}
                   [] OTHER              -> {"lost", "p_head"}

\* It records event e on the tip of the chain, and ends or goes on to refresh, or goes on as
\* if nothing were recorded.
Records(a, e) ==
    /\ todo[a] # <<>> /\ proc[a].pc \in SentAt(e.kind)
    /\ e \in Events /\ e.id = CommandId(a) /\ e.kind # "pr.created"
    /\ e.kind = "pr.update" =>
          UpdateTxn(a) /\ e.gen = proc[a].gen /\ ~Claimed(e.gen) /\ At(a, "u_txn")
    /\ e.kind = "pr.prepared" =>
          PrepareTxn(a) /\ e.bind.result = proc[a].res /\ e.base = proc[a].base
    /\ e.kind = "pr.merge" => MergeTxn(a) /\ e.bind.result = proc[a].res
    /\ chain' = Extend(chain, e)
    /\ \/ Exits(a, "ok")
       \/ BaseCheckedOut /\ e.kind = "pr.merge" /\ Goes(a, "m_refresh")
       \/ \E pc \in FailsTo(e.kind) : Unclear(a, pc)

\* A running process has an invocation to run.
LEMMA RunsAnInvocation ==
    ASSUME TypeOK, NEW a \in Actors, ProcessStep(a) \/ Crash(a)
    PROVE  todo[a] # <<>>
<1>1. CASE AppendStep(a)
  BY <1>1 DEF TypeOK, ProcessesTyped, AppendStep, ReviewRead, CiRead, Bind, AbandonRead,
     AppendTip, AppendCas, AppendCasFails, AppendLost, Starting, At
<1>2. CASE UpdateStep(a)
  BY <1>2 DEF TypeOK, ProcessesTyped, UpdateStep, UpdateRead, UpdateReadSource,
     UpdateReadBase, UpdateTip, UpdateTxn, UpdateTxnFails, UpdateClaimed, UpdateMoved,
     UpdateHead, Starting, At
<1>3. CASE PrepareStep(a)
  BY <1>3 DEF TypeOK, ProcessesTyped, PrepareStep, PrepareRead, PrepareBase,
     PrepareBaseFails, PrepareTip, PreparePin, PrepareTxn, PrepareTxnFails, PrepareHead,
     Starting, At
<1>4. CASE MergeStep(a)
  BY <1>4 DEF TypeOK, ProcessesTyped, MergeStep, MergeGate, MergeRefusedAtBase,
     MergeTakesCandidate, MergePin, MergeExecutes, MergeExecutionFails, MergeCreatesPending,
     MergePendingFails, MergeWorktreeGone, MergeWorktreeStays, MergeStages, MergeFoldsIssue,
     MergeStageFails, MergeTxn, MergeTxnFails, MergeReadsHead, MergeReadsIssue, MergeCleans,
     MergeLeavesPending, MergeRefreshes, MergeRefreshFails, RollbackReadsHead, Rollback,
     RollbackFails, Starting, At
<1>5. CASE Crash(a)
  BY <1>5 DEF TypeOK, ProcessesTyped, Crash, At
<1> QED
  BY <1>1, <1>2, <1>3, <1>4, <1>5 DEF ProcessStep

\* The events the four recording transactions write.
LEMMA AppendRecords ==
    ASSUME TypeOK, NEW a \in Actors, AppendCas(a)
    PROVE  Records(a, EventOf(a)) /\ EventOf(a).kind \notin {"pr.prepared", "pr.update", "pr.merge"}
<1>1. todo[a] # <<>>
  BY RunsAnInvocation DEF ProcessStep, AppendStep
<1>2. /\ EventOf(a) \in Events
      /\ EventOf(a).kind \in {"pr.comment", "pr.review", "ci.check", "pr.abandoned"}
  BY <1>1, EventOfTyped
<1>3. EventOf(a).id = CommandId(a)
  BY DEF EventOf, Authored, PrEvent
<1>4. /\ proc[a].pc = "cas" /\ chain' = Extend(chain, EventOf(a))
      /\ Exits(a, "ok") \/ Unclear(a, "lost")
  BY DEF AppendCas, CasHolds, At
<1>5. PICK e : e = EventOf(a)
  OBVIOUS
<1>6. "cas" \in SentAt(e.kind) /\ "lost" \in FailsTo(e.kind)
  BY <1>2, <1>5 DEF SentAt, FailsTo
<1> QED
  BY <1>1, <1>2, <1>3, <1>4, <1>5, <1>6 DEF Records

LEMMA UpdateRecords ==
    ASSUME TypeOK, NEW a \in Actors, UpdateTxn(a)
    PROVE  \E e : Records(a, e) /\ e.kind = "pr.update" /\ e.source = proc[a].src
<1> DEFINE p == proc[a]
<1>1. PICK e : e = [Authored(a, "pr.update") EXCEPT !.gen = p.gen, !.source = p.src,
                                                   !.base = p.base]
  OBVIOUS
<1>2. todo[a] # <<>> /\ p \in Processes /\ (Exits(a, "ok") \/ Unclear(a, "u_claimed"))
  BY RunsAnInvocation DEF ProcessStep, UpdateStep, UpdateTxn, TypeOK, ProcessesTyped
<1>3. p.gen \in Nat /\ p.src \in Nat /\ p.base \in Nat
  BY <1>2 DEF Processes
<1>4. /\ CommandId(a) \in Ids /\ RoleOf[a] \in Roles /\ NoBind \in Binds
  BY <1>2, CommandTyped DEF TypeOK, Roles, Binds, NoBind, NoCommit, Words
<1>5. /\ e \in Events /\ e.kind = "pr.update" /\ e.gen = p.gen /\ e.source = p.src
      /\ e.id = CommandId(a)
  BY <1>1, <1>3, <1>4 DEF Authored, PrEvent, Events, Kinds, Words
<1>6. SentAt(e.kind) = {"u_txn"} /\ FailsTo(e.kind) = {"u_claimed"}
  BY <1>5 DEF SentAt, FailsTo
<1> QED
  BY <1>1, <1>2, <1>5, <1>6 DEF Records, UpdateTxn, UpdateHolds, At

LEMMA PrepareRecords ==
    ASSUME TypeOK, NEW a \in Actors, PrepareTxn(a)
    PROVE  \E e : /\ Records(a, e) /\ e.kind = "pr.prepared"
                  /\ e.bind.result = proc[a].res /\ e.base = proc[a].base
<1> DEFINE p == proc[a]
<1>1. PICK bind : bind = [strategy |-> Command(a).arg, result |-> p.res]
  OBVIOUS
<1>2. PICK e : e = [Authored(a, "pr.prepared") EXCEPT
                      !.gen = p.gen, !.source = p.src, !.base = p.base, !.bind = bind]
  OBVIOUS
<1>3. todo[a] # <<>> /\ p \in Processes /\ (Exits(a, "ok") \/ Unclear(a, "p_head"))
  BY RunsAnInvocation DEF ProcessStep, PrepareStep, PrepareTxn, TypeOK, ProcessesTyped
<1>4. p.gen \in Nat /\ p.src \in Nat /\ p.base \in Nat /\ p.res \in Nat
  BY <1>3 DEF Processes
<1>5. Command(a).arg \in Words /\ CommandId(a) \in Ids /\ RoleOf[a] \in Roles
  BY <1>3, CommandTyped DEF TypeOK, Roles
<1>6. bind \in Binds /\ bind.result = p.res
  BY <1>1, <1>4, <1>5 DEF Binds
<1>7. /\ e \in Events /\ e.kind = "pr.prepared" /\ e.bind = bind /\ e.base = p.base
      /\ e.id = CommandId(a)
  BY <1>2, <1>4, <1>5, <1>6 DEF Authored, PrEvent, Events, Kinds, Words
<1>8. SentAt(e.kind) = {"cas", "p_txn"} /\ FailsTo(e.kind) = {"lost", "p_head"}
  BY <1>7 DEF SentAt, FailsTo
<1> QED
  BY <1>1, <1>2, <1>3, <1>6, <1>7, <1>8 DEF Records, PrepareTxn, PrepareHolds, At

LEMMA MergeRecords ==
    ASSUME TypeOK, NEW a \in Actors, MergeTxn(a)
    PROVE  \E e : Records(a, e) /\ e.kind = "pr.merge"
<1> DEFINE p == proc[a]
<1>1. PICK bind : bind = [strategy |-> Command(a).arg, result |-> p.res]
  OBVIOUS
<1>2. PICK e : e = [Authored(a, "pr.merge") EXCEPT !.bind = bind]
  OBVIOUS
<1>3. todo[a] # <<>> /\ p \in Processes
  BY RunsAnInvocation DEF ProcessStep, MergeStep, TypeOK, ProcessesTyped
<1>4. Command(a).arg \in Words /\ CommandId(a) \in Ids /\ RoleOf[a] \in Roles /\ p.res \in Nat
  BY <1>3, CommandTyped DEF TypeOK, Roles, Processes
<1>5. bind \in Binds /\ bind.result = p.res
  BY <1>1, <1>4 DEF Binds
<1>6. e \in Events /\ e.kind = "pr.merge" /\ e.bind = bind /\ e.id = CommandId(a)
  BY <1>2, <1>4, <1>5 DEF Authored, PrEvent, Events, Kinds, Words, NoCommit
<1>7. \/ Exits(a, "ok") \/ Unclear(a, "m_head")
      \/ BaseCheckedOut /\ Goes(a, "m_refresh")
  BY DEF MergeTxn
<1>8. SentAt(e.kind) = {"m_txn"} /\ FailsTo(e.kind) = {"m_head"}
  BY <1>6 DEF SentAt, FailsTo
<1> QED
  BY <1>1, <1>2, <1>3, <1>5, <1>6, <1>7, <1>8 DEF Records, MergeTxn, FinalizeHolds, MergeEvent, At

\* A step leaves chain, scripts and reports alone, stops an invocation, records an
\* event or rolls a merge back.
LEMMA KindsOfStep ==
    ASSUME TypeOK, [Next]_vars
    PROVE  \/ UNCHANGED <<chain, todo, reported>>
           \/ \E a \in Actors : \/ Stops(a) \/ \E e : Records(a, e)
                                \/ Rollback(a)
<1>1. ASSUME NEW a \in Actors, AppendStep(a)
      PROVE  UNCHANGED <<chain, todo, reported>> \/ Stops(a) \/ \E e : Records(a, e)
  <2>1. todo[a] # <<>>
    BY <1>1, RunsAnInvocation DEF ProcessStep
  <2>2. CASE AppendCas(a)
    BY <2>2, AppendRecords
  <2> QED
    BY <1>1, <2>1, <2>2 DEF AppendStep, ReviewRead, CiRead, Bind, AbandonRead, AppendTip,
       AppendCasFails, AppendLost, Captures, Retry, Goes, Becomes, Stops, refs
<1>2. ASSUME NEW a \in Actors, UpdateStep(a)
      PROVE  UNCHANGED <<chain, todo, reported>> \/ Stops(a) \/ \E e : Records(a, e)
  <2>1. todo[a] # <<>>
    BY <1>2, RunsAnInvocation DEF ProcessStep
  <2>2. CASE UpdateTxn(a)
    BY <2>2, UpdateRecords
  <2> QED
    BY <1>2, <2>1, <2>2 DEF UpdateStep, UpdateRead, UpdateReadSource, UpdateReadBase,
       UpdateTip, UpdateTxnFails, UpdateClaimed, UpdateMoved, UpdateHead, Retry, Goes,
       Becomes, Stops, refs
<1>3. ASSUME NEW a \in Actors, PrepareStep(a)
      PROVE  UNCHANGED <<chain, todo, reported>> \/ Stops(a) \/ \E e : Records(a, e)
  <2>1. todo[a] # <<>>
    BY <1>3, RunsAnInvocation DEF ProcessStep
  <2>2. CASE PrepareTxn(a)
    BY <2>2, PrepareRecords
  <2> QED
    BY <1>3, <2>1, <2>2 DEF PrepareStep, PrepareRead, PrepareBase, PrepareBaseFails,
       PrepareTip, PreparePin, PrepareTxnFails, PrepareHead, Retry, Goes, Becomes, Stops, refs
<1>4. ASSUME NEW a \in Actors, MergeStep(a), ~Rollback(a)
      PROVE  UNCHANGED <<chain, todo, reported>> \/ Stops(a) \/ \E e : Records(a, e)
  <2>1. todo[a] # <<>>
    BY <1>4, RunsAnInvocation DEF ProcessStep
  <2>2. CASE MergeTxn(a)
    BY <2>2, MergeRecords
  <2>3. CASE \/ MergeGate(a) \/ MergeRefusedAtBase(a) \/ MergeTakesCandidate(a)
             \/ MergePin(a) \/ MergeExecutes(a) \/ MergeExecutionFails(a)
             \/ MergeCreatesPending(a) \/ MergePendingFails(a)
             \/ MergeWorktreeGone(a) \/ MergeWorktreeStays(a)
    BY <2>1, <2>3 DEF MergeGate, MergeRefusedAtBase, MergeTakesCandidate, MergePin,
       MergeExecutes, MergeExecutionFails, MergeCreatesPending, MergePendingFails,
       MergeWorktreeGone, MergeWorktreeStays, Goes, Becomes, Stops, refs
  <2>4. CASE \/ MergeStages(a) \/ MergeFoldsIssue(a) \/ MergeStageFails(a)
             \/ MergeTxnFails(a) \/ MergeReadsHead(a) \/ MergeReadsIssue(a)
             \/ MergeCleans(a) \/ MergeLeavesPending(a)
    BY <2>1, <2>4 DEF MergeStages, MergeFoldsIssue, MergeStageFails, MergeTxnFails,
       MergeReadsHead, MergeReadsIssue, MergeCleans, MergeLeavesPending, Retries, Goes,
       Becomes, Stops, refs
  <2>5. CASE \/ MergeRefreshes(a) \/ MergeRefreshFails(a) \/ RollbackReadsHead(a)
             \/ RollbackFails(a)
    BY <2>1, <2>5 DEF MergeRefreshes, MergeRefreshFails, RollbackReadsHead, RollbackFails,
       Refreshing, At, Goes, Becomes, Stops, refs
  <2> QED
    BY <1>4, <2>2, <2>3, <2>4, <2>5 DEF MergeStep
<1>5. ASSUME NEW a \in Actors, Crash(a) PROVE Stops(a)
  BY <1>5, RunsAnInvocation DEF Crash, Stops, refs
<1>6. CASE PushBase \/ RewindBase \/ PushSource \/ WriteIssue \/ UNCHANGED vars
  BY <1>6 DEF PushBase, RewindBase, PushSource, WriteIssue, Outside, vars, refs
<1> QED
  BY <1>1, <1>2, <1>3, <1>4, <1>5, <1>6 DEF Next, ProcessStep

\* Who changes the branches, the issue, the pins and the commits.
LEMMA RefSteps ==
    ASSUME [Next]_vars
    PROVE  /\ UNCHANGED base \/ PushBase \/ RewindBase \/ \E a \in Actors : MergeTxn(a) \/ Rollback(a)
           /\ UNCHANGED source \/ PushSource
           /\ UNCHANGED issue \/ WriteIssue \/ \E a \in Actors : MergeTxn(a) \/ Rollback(a)
           /\ UNCHANGED pins \/ \E a \in Actors : UpdateTxn(a)
           /\ \/ UNCHANGED objects \/ PushBase \/ PushSource
              \/ \E a \in Actors : PrepareBase(a) \/ MergeExecutes(a)
<1>1. ASSUME NEW a \in Actors, AppendStep(a)
      PROVE  UNCHANGED <<base, source, issue, pins, objects>>
  BY <1>1 DEF AppendStep, ReviewRead, CiRead, Bind, AbandonRead, AppendTip, AppendCas,
     AppendCasFails, AppendLost, refs
<1>2. ASSUME NEW a \in Actors, UpdateStep(a)
      PROVE  UNCHANGED <<base, source, issue, objects>> /\ (UNCHANGED pins \/ UpdateTxn(a))
  BY <1>2 DEF UpdateStep, UpdateRead, UpdateReadSource, UpdateReadBase, UpdateTip,
     UpdateTxn, UpdateTxnFails, UpdateClaimed, UpdateMoved, UpdateHead, refs
<1>3. ASSUME NEW a \in Actors, PrepareStep(a)
      PROVE  UNCHANGED <<base, source, issue, pins>> /\ (UNCHANGED objects \/ PrepareBase(a))
  BY <1>3 DEF PrepareStep, PrepareRead, PrepareBase, PrepareBaseFails, PrepareTip,
     PreparePin, PrepareTxn, PrepareTxnFails, PrepareHead, refs
<1>4. ASSUME NEW a \in Actors, MergeStep(a)
      PROVE  /\ UNCHANGED <<source, pins>>
             /\ UNCHANGED <<base, issue>> \/ MergeTxn(a) \/ Rollback(a)
             /\ UNCHANGED objects \/ MergeExecutes(a)
  BY <1>4 DEF MergeStep, MergeGate, MergeRefusedAtBase, MergeTakesCandidate, MergePin,
     MergeExecutes, MergeExecutionFails, MergeCreatesPending, MergePendingFails,
     MergeWorktreeGone, MergeWorktreeStays, MergeStages, MergeFoldsIssue, MergeStageFails,
     MergeTxn, MergeTxnFails, MergeReadsHead, MergeReadsIssue, MergeCleans,
     MergeLeavesPending, MergeRefreshes, MergeRefreshFails, RollbackReadsHead, Rollback,
     RollbackFails, refs
<1>5. ASSUME NEW a \in Actors, Crash(a) PROVE UNCHANGED <<base, source, issue, pins, objects>>
  BY <1>5 DEF Crash, refs
<1>6. CASE UNCHANGED vars
  BY <1>6 DEF vars, refs
<1>7. CASE PushBase \/ RewindBase
  BY <1>7 DEF PushBase, RewindBase
<1>8. CASE PushSource \/ WriteIssue
  BY <1>8 DEF PushSource, WriteIssue
<1> QED
  BY <1>1, <1>2, <1>3, <1>4, <1>5, <1>6, <1>7, <1>8 DEF Next, ProcessStep

----------------------------------------------------------------------------
(* What a step does to the memory of the process that takes it. *)

\* Where a process of an appending command may stand.
Appending == {"bind", "tip", "cas", "lost"}

\* q is p but for its retry count.
SameBut(q, p) ==
    /\ q.pc = p.pc /\ q.tip = p.tip /\ q.stage = p.stage /\ q.gen = p.gen
    /\ q.src = p.src /\ q.base = p.base /\ q.res = p.res

\* What the process of a command may have become.
Moved(a) ==
    LET p == proc[a]
        q == proc'[a]
    IN
    /\ \A b \in Actors \ {a} : proc'[b] = proc[b]
    /\ q.tip \in {<<>>, p.tip, chain}
    /\ q.pc \in Updating =>
          \/ UpdateRead(a) /\ q.pc = "u_source" /\ q.gen = State(chain).gen + 1
          \/ /\ p.pc \in Updating /\ q.gen = p.gen /\ q.pc # "u_source"
             /\ q.src = IF p.pc = "u_source" THEN source ELSE p.src
    /\ q.pc \in Prepares =>
          PrepareBase(a) \/ (p.pc \in Prepares /\ q.res = p.res /\ q.base = p.base)
    /\ q.pc \in Landing =>
          \/ MergeTakesCandidate(a) \/ MergeExecutes(a)
          \/ p.pc \in Landing /\ q.res = p.res /\ q.base = p.base
    /\ q.pc = "m_fold" => LinkedIssue /\ q.stage = issue
    /\ q.pc = "m_txn" =>
          \/ ~LinkedIssue
          \/ p.pc = "m_fold" /\ q.stage = (IF IssueOpen(issue) THEN p.stage ELSE <<>>)
    /\ q.pc \in Refreshing =>
          /\ p.pc \in Refreshing \/ (BaseCheckedOut /\ MergeTxn(a))
          /\ q.stage = p.stage /\ q.base = p.base /\ q.res = p.res /\ q.tip = p.tip
    /\ p.pc \in Owning => q.pc \in Owning \cup Refreshing \cup {"idle"}
    /\ q.pc \in Owning => p.pc \in Owning \/ MergePin(a) \/ MergeCreatesPending(a)

LEMMA RetryMoves ==
    ASSUME TypeOK, NEW a \in Actors, NEW p \in Processes, Retry(a, p)
    PROVE  /\ \A b \in Actors \ {a} : proc'[b] = proc[b]
           /\ proc'[a] = Idle \/ SameBut(proc'[a], p)
BY SMTT(30) DEF Retry, Becomes, Exits, TypeOK, ProcessesTyped, Processes, SameBut

LEMMA RetriesMoves ==
    ASSUME TypeOK, NEW a \in Actors, NEW p \in Processes, Retries(a, p)
    PROVE  /\ \A b \in Actors \ {a} : proc'[b] = proc[b]
           /\ \/ SameBut(proc'[a], [proc[a] EXCEPT !.pc = "m_clean"])
              \/ SameBut(proc'[a], [p EXCEPT !.pc = "m_stage", !.stage = <<>>])
<1>1. proc \in [Actors -> Processes]
  BY DEF TypeOK, ProcessesTyped
<1>2. CASE Goes(a, "m_clean")
  BY <1>1, <1>2 DEF Goes, Becomes, Processes, SameBut
<1>3. CASE Becomes(a, [p EXCEPT !.pc = "m_stage", !.stage = <<>>, !.tries = @ + 1])
  <2> DEFINE q == [p EXCEPT !.pc = "m_stage", !.stage = <<>>, !.tries = @ + 1]
  <2>1. SameBut(q, [p EXCEPT !.pc = "m_stage", !.stage = <<>>])
    BY DEF Processes, SameBut
  <2> HIDE DEF q
  <2>2. proc'[a] = q /\ \A b \in Actors \ {a} : proc'[b] = proc[b]
    BY <1>1, <1>3 DEF Becomes, q
  <2> QED
    BY <2>1, <2>2
<1> QED
  BY <1>2, <1>3 DEF Retries

\* A process that ends, or has nothing to do with a merge, an update or a prepare.
LEMMA EndMoves ==
    ASSUME TypeOK, NEW a \in Actors,
           \A b \in Actors \ {a} : proc'[b] = proc[b],
           proc'[a] = Idle \/ (proc'[a].pc \in Appending /\ proc[a].pc \notin Owning),
           proc'[a].tip \in {<<>>, proc[a].tip, chain}
    PROVE  Moved(a)
<1>1. proc'[a].pc \in Appending \cup {"idle"} /\ (proc[a].pc \in Owning => proc'[a].pc = "idle")
  BY DEF Idle
<1> QED
  BY <1>1 DEF Moved, Appending, Updating, Prepares, Preparing, Landing, Finalizing, Refreshing,
     Owning

LEMMA ExitMoves ==
    ASSUME TypeOK, NEW a \in Actors, proc' = [proc EXCEPT ![a] = Idle]
    PROVE  Moved(a)
<1>1. proc'[a] = Idle /\ Idle.tip = <<>> /\ \A b \in Actors \ {a} : proc'[b] = proc[b]
  BY DEF TypeOK, ProcessesTyped, Idle
<1> QED
  BY <1>1, EndMoves

LEMMA AppendMoves ==
    ASSUME TypeOK, NEW a \in Actors, AppendStep(a)
    PROVE  Moved(a)
<1> DEFINE p == proc[a]
           others == \A b \in Actors \ {a} : proc'[b] = proc[b]
<1>1. p \in Processes /\ proc \in [Actors -> Processes]
  BY DEF TypeOK, ProcessesTyped
<1>2. CASE \E how : Exits(a, how)
  BY <1>2, ExitMoves DEF Exits
<1>3. p.pc \notin Owning
  BY DEF AppendStep, ReviewRead, CiRead, Bind, AbandonRead, AppendTip, AppendCas,
     AppendCasFails, AppendLost, Starting, At, Owning
<1>4. CASE Captures(a)
  <2> DEFINE pc == IF CandidateCurrent(State(chain)) THEN "bind" ELSE "tip"
  <2>1. others /\ proc'[a].pc = pc /\ proc'[a].tip = p.tip
    BY <1>1, <1>4 DEF Captures, Becomes, Processes
  <2> QED
    BY <1>3, <2>1, EndMoves DEF Appending
<1>5. CASE Bind(a)
  <2>1. others /\ proc'[a].pc = "tip" /\ proc'[a].tip = p.tip
    BY <1>1, <1>5 DEF Bind, Becomes, Processes
  <2> QED
    BY <1>3, <2>1, EndMoves DEF Appending
<1>6. CASE \E pc \in Appending : Goes(a, pc) \/ Unclear(a, pc)
  <2>1. PICK pc \in Appending : Goes(a, pc) \/ Unclear(a, pc)
    BY <1>6
  <2>2. others /\ proc'[a].pc = pc /\ proc'[a].tip = p.tip
    BY <1>1, <2>1 DEF Goes, Unclear, Becomes, Processes
  <2> QED
    BY <1>3, <2>2, EndMoves
<1>7. CASE AppendTip(a)
  <2>1. PICK word : proc' = [proc EXCEPT ![a] =
                       [p EXCEPT !.pc = "cas", !.tip = chain, !.word = word]]
    BY <1>7 DEF AppendTip, Becomes
  <2>2. others /\ proc'[a].pc = "cas" /\ proc'[a].tip = chain
    BY <1>1, <2>1 DEF Processes
  <2> QED
    BY <1>3, <2>2, EndMoves DEF Appending
<1>8. CASE AppendLost(a)
  <2> DEFINE next == [p EXCEPT !.pc = "tip"]
  <2>1. next \in Processes /\ next.pc = "tip" /\ next.tip = p.tip /\ Retry(a, next)
    BY <1>1, <1>8 DEF AppendLost, Processes, PcSet
  <2> HIDE DEF next
  <2>2. others /\ (proc'[a] = Idle \/ SameBut(proc'[a], next))
    BY <2>1, RetryMoves
  <2>3. proc'[a] = Idle \/ (proc'[a].pc = "tip" /\ proc'[a].tip = p.tip)
    BY <2>1, <2>2 DEF SameBut
  <2> QED
    BY <1>3, <2>2, <2>3, EndMoves DEF Appending, Idle
<1> QED
  BY <1>2, <1>4, <1>5, <1>6, <1>7, <1>8 DEF AppendStep, ReviewRead, CiRead, AbandonRead,
     AppendCas, AppendCasFails, Appending

LEMMA UpdateMoves ==
    ASSUME TypeOK, NEW a \in Actors, UpdateStep(a)
    PROVE  Moved(a)
<1> DEFINE p == proc[a]
           q == proc'[a]
           others == \A b \in Actors \ {a} : proc'[b] = proc[b]
<1>1. p \in Processes /\ proc \in [Actors -> Processes]
  BY DEF TypeOK, ProcessesTyped
<1>2. CASE \E how : Exits(a, how)
  BY <1>2, ExitMoves DEF Exits
<1>3. p.pc \notin Owning
  BY DEF UpdateStep, UpdateRead, UpdateReadSource, UpdateReadBase, UpdateTip, UpdateTxn,
     UpdateTxnFails, UpdateClaimed, UpdateMoved, UpdateHead, Starting, At, Owning
<1>4. ASSUME others, q.pc \in Updating, q.tip \in {p.tip, chain},
             \/ UpdateRead(a) /\ q.pc = "u_source" /\ q.gen = State(chain).gen + 1
             \/ /\ p.pc \in Updating /\ q.gen = p.gen /\ q.pc # "u_source"
                /\ q.src = IF p.pc = "u_source" THEN source ELSE p.src
      PROVE  Moved(a)
  <2>1. q.pc \notin Prepares \cup Landing \cup Refreshing \cup Owning \cup {"m_fold", "m_txn"}
    BY <1>4 DEF Updating, Prepares, Preparing, Landing, Finalizing, Refreshing, Owning
  <2> QED
    BY <1>3, <1>4, <2>1 DEF Moved
<1>5. CASE UpdateRead(a) /\ ~\E how : Exits(a, how)
  <2>1. proc' = [proc EXCEPT ![a] = [p EXCEPT !.pc = "u_source", !.tip = chain,
                                              !.gen = State(chain).gen + 1]]
    BY <1>5 DEF UpdateRead, Becomes
  <2>2. others /\ q.pc = "u_source" /\ q.tip = chain /\ q.gen = State(chain).gen + 1
    BY <1>1, <2>1 DEF Processes
  <2> QED
    BY <1>4, <1>5, <2>2 DEF Updating
<1>6. CASE UpdateReadSource(a)
  <2>1. others /\ q.pc = "u_base" /\ q.src = source /\ q.tip = p.tip /\ q.gen = p.gen
    BY <1>1, <1>6 DEF UpdateReadSource, Becomes, Processes
  <2>2. p.pc = "u_source"
    BY <1>6 DEF UpdateReadSource, At
  <2> QED
    BY <1>4, <2>1, <2>2 DEF Updating
<1>7. CASE UpdateReadBase(a) /\ ~\E how : Exits(a, how)
  <2>1. others /\ q.pc = "u_tip" /\ q.src = p.src /\ q.tip = p.tip /\ q.gen = p.gen
    BY <1>1, <1>7 DEF UpdateReadBase, Becomes, Processes
  <2>2. p.pc = "u_base"
    BY <1>7 DEF UpdateReadBase, At
  <2> QED
    BY <1>4, <2>1, <2>2 DEF Updating
<1>8. CASE UpdateTip(a)
  <2>1. others /\ q.pc = "u_txn" /\ q.src = p.src /\ q.tip = chain /\ q.gen = p.gen
    BY <1>1, <1>8 DEF UpdateTip, Becomes, Processes
  <2>2. p.pc = "u_tip"
    BY <1>8 DEF UpdateTip, At
  <2> QED
    BY <1>4, <2>1, <2>2 DEF Updating
<1>9. CASE UpdateTxn(a) \/ UpdateTxnFails(a) \/ UpdateClaimed(a) \/ UpdateMoved(a)
  <2>1. p.pc \in {"u_txn", "u_claimed", "u_moved"}
    BY <1>9 DEF UpdateTxn, UpdateTxnFails, UpdateClaimed, UpdateMoved, At
  <2>2. CASE \E pc \in {"u_claimed", "u_moved", "u_head"} : Goes(a, pc) \/ Unclear(a, pc)
    <3>1. PICK pc \in {"u_claimed", "u_moved", "u_head"} : Goes(a, pc) \/ Unclear(a, pc)
      BY <2>2
    <3>2. others /\ q.pc = pc /\ q.src = p.src /\ q.tip = p.tip /\ q.gen = p.gen
      BY <1>1, <3>1 DEF Goes, Unclear, Becomes, Processes
    <3> QED
      BY <1>4, <2>1, <3>1, <3>2 DEF Updating
  <2> QED
    BY <1>2, <1>9, <2>2 DEF UpdateTxn, UpdateTxnFails, UpdateClaimed, UpdateMoved
<1>10. CASE UpdateHead(a)
  <2> DEFINE next == [p EXCEPT !.pc = "u_txn", !.tip = chain]
  <2>1. /\ next \in Processes /\ next.pc = "u_txn" /\ next.tip = chain
        /\ next.gen = p.gen /\ next.src = p.src /\ Retry(a, next) /\ p.pc = "u_head"
    BY <1>1, <1>10 DEF UpdateHead, At, Processes, PcSet, TypeOK, RefsTyped
  <2> HIDE DEF next
  <2>2. others /\ (q = Idle \/ SameBut(q, next))
    BY <2>1, RetryMoves
  <2>3. CASE q = Idle
    <3>1. Idle.tip = <<>>
      BY DEF Idle
    <3> QED
      BY <2>2, <2>3, <3>1, EndMoves
  <2>4. CASE SameBut(q, next)
    BY <1>4, <2>1, <2>2, <2>4 DEF SameBut, Updating
  <2> QED
    BY <2>2, <2>3, <2>4
<1> QED
  BY <1>2, <1>5, <1>6, <1>7, <1>8, <1>9, <1>10 DEF UpdateStep

LEMMA PrepareMoves ==
    ASSUME TypeOK, NEW a \in Actors, PrepareStep(a)
    PROVE  Moved(a)
<1> DEFINE p == proc[a]
           q == proc'[a]
           others == \A b \in Actors \ {a} : proc'[b] = proc[b]
<1>1. p \in Processes /\ proc \in [Actors -> Processes]
  BY DEF TypeOK, ProcessesTyped
<1>2. CASE \E how : Exits(a, how)
  BY <1>2, ExitMoves DEF Exits
<1>3. p.pc \notin Owning
  BY DEF PrepareStep, PrepareRead, PrepareBase, PrepareBaseFails, PrepareTip, PreparePin,
     PrepareTxn, PrepareTxnFails, PrepareHead, Starting, At, Owning
<1>4. ASSUME others, q.pc \in Preparing, q.tip \in {p.tip, chain},
             \/ PrepareBase(a) \/ q.pc = "p_base"
             \/ p.pc \in Prepares /\ q.res = p.res /\ q.base = p.base
      PROVE  Moved(a)
  <2>1. /\ q.pc \notin Updating \cup Landing \cup Refreshing \cup Owning \cup {"m_fold", "m_txn"}
        /\ "p_base" \notin Prepares
    BY <1>4 DEF Updating, Prepares, Preparing, Landing, Finalizing, Refreshing, Owning
  <2> QED
    BY <1>3, <1>4, <2>1 DEF Moved
<1>5. CASE PrepareRead(a) /\ ~\E how : Exits(a, how)
  <2>1. proc' = [proc EXCEPT ![a] = [p EXCEPT !.pc = "p_base", !.gen = State(chain).gen,
                                              !.src = State(chain).source]]
    BY <1>5 DEF PrepareRead, Becomes
  <2>2. others /\ q.pc = "p_base" /\ q.tip = p.tip
    BY <1>1, <2>1 DEF Processes
  <2> QED
    BY <1>4, <2>2 DEF Preparing
<1>6. CASE PrepareBase(a)
  <2>1. PICK r : proc' = [proc EXCEPT ![a] = [p EXCEPT !.pc = "p_tip", !.base = base, !.res = r]]
    BY <1>6 DEF PrepareBase, Becomes
  <2>2. others /\ q.pc = "p_tip" /\ q.tip = p.tip
    BY <1>1, <2>1 DEF Processes
  <2> QED
    BY <1>4, <1>6, <2>2 DEF Preparing
<1>7. CASE PrepareTip(a)
  <2>1. others /\ q.pc = "p_pin" /\ q.tip = chain /\ q.res = p.res /\ q.base = p.base
    BY <1>1, <1>7 DEF PrepareTip, Becomes, Processes
  <2>2. p.pc = "p_tip"
    BY <1>7 DEF PrepareTip, At
  <2> QED
    BY <1>4, <2>1, <2>2 DEF Preparing, Prepares
<1>8. CASE PreparePin(a)
  <2> DEFINE bind == [strategy |-> Command(a).arg, result |-> result]
  <2>1. proc' = [proc EXCEPT ![a] = [p EXCEPT !.pc = "p_txn", !.bind = bind]]
    BY <1>8 DEF PreparePin, Becomes
  <2> HIDE DEF bind
  <2>2. others /\ q.pc = "p_txn" /\ q.tip = p.tip /\ q.res = p.res /\ q.base = p.base
    BY <1>1, <2>1 DEF Processes
  <2>3. p.pc = "p_pin"
    BY <1>8 DEF PreparePin, At
  <2> QED
    BY <1>4, <2>2, <2>3 DEF Preparing, Prepares
<1>9. CASE PrepareTxnFails(a) \/ (PrepareTxn(a) /\ Unclear(a, "p_head"))
  <2>1. others /\ q.pc = "p_head" /\ q.tip = p.tip /\ q.res = p.res /\ q.base = p.base
    BY <1>1, <1>9 DEF PrepareTxnFails, Goes, Unclear, Becomes, Processes
  <2>2. p.pc = "p_txn"
    BY <1>9 DEF PrepareTxn, PrepareTxnFails, At
  <2> QED
    BY <1>4, <2>1, <2>2 DEF Preparing, Prepares
<1>10. CASE PrepareHead(a)
  <2> DEFINE next == [p EXCEPT !.pc = "p_pin", !.tip = chain]
  <2>1. /\ next \in Processes /\ next.pc = "p_pin" /\ next.tip = chain
        /\ next.res = p.res /\ next.base = p.base /\ Retry(a, next) /\ p.pc = "p_head"
    BY <1>1, <1>10 DEF PrepareHead, At, Processes, PcSet, TypeOK, RefsTyped
  <2> HIDE DEF next
  <2>2. others /\ (q = Idle \/ SameBut(q, next))
    BY <2>1, RetryMoves
  <2>3. CASE q = Idle
    <3>1. Idle.tip = <<>>
      BY DEF Idle
    <3> QED
      BY <2>2, <2>3, <3>1, EndMoves
  <2>4. CASE SameBut(q, next)
    BY <1>4, <2>1, <2>2, <2>4 DEF SameBut, Preparing, Prepares
  <2> QED
    BY <2>2, <2>3, <2>4
<1> QED
  BY <1>2, <1>5, <1>6, <1>7, <1>8, <1>9, <1>10 DEF PrepareStep, PrepareBaseFails, PrepareTxn

LEMMA MergeMoves ==
    ASSUME TypeOK, NEW a \in Actors, MergeStep(a)
    PROVE  Moved(a)
<1> DEFINE p == proc[a]
           q == proc'[a]
           others == \A b \in Actors \ {a} : proc'[b] = proc[b]
           kept == q.res = p.res /\ q.base = p.base
<1>1. p \in Processes /\ proc \in [Actors -> Processes]
  BY DEF TypeOK, ProcessesTyped
<1>2. CASE \E how : Exits(a, how)
  BY <1>2, ExitMoves DEF Exits
\* Before the pending result ref, and once it is there.
<1>3. ASSUME others, q.tip \in {p.tip, chain}, q.pc \in {"m_base", "m_pin", "m_pending"},
             q.pc = "m_base" \/ MergeTakesCandidate(a) \/ MergeExecutes(a),
             p.pc \notin Owning
      PROVE  Moved(a)
  <2>1. /\ q.pc \notin Updating \cup Prepares \cup Refreshing \cup Owning
        /\ q.pc \notin {"m_fold", "m_txn"} /\ (q.pc = "m_base" => q.pc \notin Landing)
    BY <1>3 DEF Updating, Prepares, Preparing, Landing, Finalizing, Refreshing, Owning
  <2> QED
    BY <1>3, <2>1 DEF Moved
<1>4. ASSUME others, q.tip \in {p.tip, chain}, kept, q.pc \in Owning,
             p.pc \in Owning \/ (p.pc \in Landing /\ (MergePin(a) \/ MergeCreatesPending(a))),
             q.pc = "m_fold" => LinkedIssue /\ q.stage = issue,
             q.pc = "m_txn" =>
               \/ ~LinkedIssue
               \/ p.pc = "m_fold" /\ q.stage = (IF IssueOpen(issue) THEN p.stage ELSE <<>>)
      PROVE  Moved(a)
  <2>1. /\ q.pc \notin Updating \cup Prepares \cup Refreshing
        /\ Owning \subseteq Landing
    BY <1>4 DEF Updating, Prepares, Preparing, Landing, Finalizing, Refreshing, Owning
  <2> QED
    BY <1>4, <2>1 DEF Moved
<1>5. ASSUME others, q.tip = p.tip, kept, q.stage = p.stage, q.pc \in Refreshing,
             \/ p.pc \in Refreshing
             \/ p.pc = "m_txn" /\ BaseCheckedOut /\ MergeTxn(a)
      PROVE  Moved(a)
  <2>1. /\ q.pc \notin Updating \cup Prepares \cup Owning \cup {"m_fold", "m_txn"}
        /\ p.pc \in Landing
    BY <1>5 DEF Updating, Prepares, Preparing, Landing, Finalizing, Refreshing, Owning
  <2> QED
    BY <1>5, <2>1 DEF Moved
<1>6. ASSUME NEW pc, Goes(a, pc) \/ Unclear(a, pc)
      PROVE  others /\ q.pc = pc /\ q.tip = p.tip /\ q.stage = p.stage /\ kept
  BY <1>1, <1>6 DEF Goes, Unclear, Becomes, Processes
<1>7. CASE MergeGate(a) /\ ~\E how : Exits(a, how)
  <2>1. proc' = [proc EXCEPT ![a] = [p EXCEPT !.pc = "m_base", !.tip = chain,
                              !.gen = State(chain).gen, !.src = State(chain).source]]
    BY <1>7 DEF MergeGate, Becomes
  <2>2. others /\ q.pc = "m_base" /\ q.tip = chain
    BY <1>1, <2>1 DEF Processes
  <2>3. p.pc = "idle"
    BY <1>7 DEF MergeGate, Starting, At
  <2> QED
    BY <1>3, <2>2, <2>3 DEF Owning
<1>8. CASE MergeTakesCandidate(a)
  <2> DEFINE k == State(p.tip).prepared
  <2>1. proc' = [proc EXCEPT ![a] = [p EXCEPT !.pc = "m_pin", !.base = k.base,
                    !.src = k.source, !.res = k.result, !.bind = BindOf(k)]]
    BY <1>8 DEF MergeTakesCandidate, Becomes
  <2> HIDE DEF k
  <2>2. others /\ q.pc = "m_pin" /\ q.tip = p.tip
    BY <1>1, <2>1 DEF Processes
  <2>3. p.pc = "m_base"
    BY <1>8 DEF MergeTakesCandidate, At
  <2> QED
    BY <1>3, <1>8, <2>2, <2>3 DEF Owning
<1>9. CASE MergeExecutes(a)
  <2>1. PICK r : proc' = [proc EXCEPT ![a] =
                       [p EXCEPT !.pc = "m_pending", !.base = base, !.res = r]]
    BY <1>9 DEF MergeExecutes, Becomes
  <2>2. others /\ q.pc = "m_pending" /\ q.tip = p.tip
    BY <1>1, <2>1 DEF Processes
  <2>3. p.pc = "m_base"
    BY <1>9 DEF MergeExecutes, At
  <2> QED
    BY <1>3, <1>9, <2>2, <2>3 DEF Owning
<1>10. CASE (MergePin(a) \/ MergeCreatesPending(a)) /\ ~\E how : Exits(a, how)
  <2>1. p.pc \in Landing /\ \E pc \in {"m_stage", "m_worktree"} : Goes(a, pc)
    BY <1>10 DEF MergePin, MergeCreatesPending, At, Landing, Finalizing
  <2>2. others /\ q.pc \in {"m_stage", "m_worktree"} /\ q.tip = p.tip /\ kept
    BY <1>6, <2>1
  <2> QED
    BY <1>4, <1>10, <2>1, <2>2 DEF Owning
<1>11. CASE /\ \/ MergeWorktreeGone(a) \/ MergeWorktreeStays(a) \/ MergeTxn(a)
               \/ MergeTxnFails(a) \/ MergeReadsHead(a) \/ MergeReadsIssue(a)
            /\ \E pc \in {"m_stage", "m_clean", "m_head", "m_issue"} :
                  Goes(a, pc) \/ Unclear(a, pc)
  <2>1. p.pc \in {"m_worktree", "m_txn", "m_head", "m_issue"}
    BY <1>11 DEF MergeWorktreeGone, MergeWorktreeStays, MergeTxn, MergeTxnFails,
       MergeReadsHead, MergeReadsIssue, At
  <2>2. /\ others /\ q.pc \in {"m_stage", "m_clean", "m_head", "m_issue"} /\ q.tip = p.tip
        /\ kept
    BY <1>6, <1>11
  <2> QED
    BY <1>4, <2>1, <2>2 DEF Owning
<1>12. CASE MergeStages(a)
  <2> DEFINE pc == IF LinkedIssue THEN "m_fold" ELSE "m_txn"
  <2>1. proc' = [proc EXCEPT ![a] = [p EXCEPT !.pc = pc, !.stage = issue]]
    BY <1>12 DEF MergeStages, Becomes
  <2>2. others /\ q.pc = pc /\ q.stage = issue /\ q.tip = p.tip /\ kept
    BY <1>1, <2>1 DEF Processes
  <2>3. p.pc = "m_stage"
    BY <1>12 DEF MergeStages, At
  <2> QED
    BY <1>4, <2>2, <2>3 DEF Owning
<1>13. CASE MergeFoldsIssue(a)
  <2> DEFINE stage == IF IssueOpen(issue) THEN p.stage ELSE <<>>
  <2>1. proc' = [proc EXCEPT ![a] = [p EXCEPT !.pc = "m_txn", !.stage = stage]]
    BY <1>1, <1>13 DEF MergeFoldsIssue, Becomes
  <2>2. others /\ q.pc = "m_txn" /\ q.stage = stage /\ q.tip = p.tip /\ kept
    BY <1>1, <2>1 DEF Processes
  <2>3. p.pc = "m_fold"
    BY <1>13 DEF MergeFoldsIssue, At
  <2> QED
    BY <1>4, <2>2, <2>3 DEF Owning
<1>14. ASSUME NEW next \in Processes, Retries(a, next), next.tip \in {p.tip, chain},
              next.res = p.res, next.base = p.base, p.pc \in {"m_head", "m_issue"}
       PROVE  Moved(a)
  <2>1. CASE SameBut(q, [p EXCEPT !.pc = "m_clean"])
    <3>1. q.pc = "m_clean" /\ q.tip = p.tip /\ kept
      BY <1>1, <2>1 DEF SameBut, Processes
    <3> QED
      BY <1>4, <1>14, <3>1, RetriesMoves DEF Owning
  <2>2. CASE SameBut(q, [next EXCEPT !.pc = "m_stage", !.stage = <<>>])
    <3>1. q.pc = "m_stage" /\ q.tip = next.tip /\ kept
      BY <1>14, <2>2 DEF SameBut, Processes
    <3> QED
      BY <1>4, <1>14, <3>1, RetriesMoves DEF Owning
  <2> QED
    BY <1>14, <2>1, <2>2, RetriesMoves
<1>15. CASE MergeReadsHead(a) /\ Retries(a, [p EXCEPT !.tip = chain])
  <2> DEFINE next == [p EXCEPT !.tip = chain]
  <2>1. next \in Processes /\ next.tip = chain /\ next.res = p.res /\ next.base = p.base
    BY <1>1 DEF Processes, TypeOK, RefsTyped
  <2>2. p.pc = "m_head"
    BY <1>15 DEF MergeReadsHead, At
  <2> QED
    BY <1>14, <1>15, <2>1, <2>2
<1>16. CASE MergeReadsIssue(a) /\ Retries(a, p)
  <2>1. p.pc = "m_issue"
    BY <1>16 DEF MergeReadsIssue, At
  <2> QED
    BY <1>1, <1>14, <1>16, <2>1
<1>17. CASE MergeTxn(a) /\ BaseCheckedOut /\ Goes(a, "m_refresh")
  <2>1. p.pc = "m_txn" /\ Goes(a, "m_refresh")
    BY <1>17 DEF MergeTxn, At
  <2> QED
    BY <1>5, <1>6, <1>17, <2>1 DEF Refreshing
<1>18. CASE MergeRefreshFails(a)
  <2>1. p.pc = "m_refresh" /\ Goes(a, "m_seen")
    BY <1>18 DEF MergeRefreshFails, At
  <2> QED
    BY <1>5, <1>6, <2>1 DEF Refreshing
<1>19. CASE RollbackReadsHead(a)
  <2>1. /\ others /\ q.pc = "m_rollback" /\ q.tip = p.tip /\ kept /\ q.stage = p.stage
    BY <1>1, <1>19 DEF RollbackReadsHead, Becomes, Processes
  <2>2. p.pc = "m_seen"
    BY <1>19 DEF RollbackReadsHead, At
  <2> QED
    BY <1>5, <2>1, <2>2 DEF Refreshing
<1>20. CASE \/ MergeGate(a) \/ MergeRefusedAtBase(a) \/ MergeTakesCandidate(a) \/ MergePin(a)
            \/ MergeExecutes(a) \/ MergeExecutionFails(a) \/ MergeCreatesPending(a)
            \/ MergePendingFails(a) \/ MergeWorktreeGone(a) \/ MergeWorktreeStays(a)
  BY <1>2, <1>7, <1>8, <1>9, <1>10, <1>11, <1>20 DEF MergeRefusedAtBase, MergeExecutionFails,
     MergePendingFails, MergeWorktreeGone, MergeWorktreeStays
<1>21. CASE \/ MergeStages(a) \/ MergeFoldsIssue(a) \/ MergeStageFails(a) \/ MergeTxn(a)
            \/ MergeTxnFails(a) \/ MergeReadsHead(a) \/ MergeReadsIssue(a) \/ MergeCleans(a)
            \/ MergeLeavesPending(a)
  BY <1>2, <1>11, <1>12, <1>13, <1>15, <1>16, <1>17, <1>21 DEF MergeStageFails, MergeTxn,
     MergeTxnFails, MergeReadsHead, MergeReadsIssue, MergeCleans, MergeLeavesPending
<1>22. CASE \/ MergeRefreshes(a) \/ MergeRefreshFails(a) \/ RollbackReadsHead(a)
            \/ Rollback(a) \/ RollbackFails(a)
  BY <1>2, <1>18, <1>19, <1>22 DEF MergeRefreshes, Rollback, RollbackFails
<1> QED
  BY <1>20, <1>21, <1>22 DEF MergeStep

\* In every step one process moves or is killed, or it comes from outside.
LEMMA WhoMoves ==
    ASSUME TypeOK, [Next]_vars
    PROVE  UNCHANGED proc \/ \E a \in Actors : Moved(a)
<1>1. ASSUME NEW a \in Actors, ProcessStep(a) PROVE Moved(a)
  BY <1>1, AppendMoves, UpdateMoves, PrepareMoves, MergeMoves DEF ProcessStep
<1>2. ASSUME NEW a \in Actors, Crash(a) PROVE Moved(a)
  BY <1>2, ExitMoves DEF Crash
<1>3. CASE PushBase \/ RewindBase \/ PushSource \/ WriteIssue \/ UNCHANGED vars
  BY <1>3 DEF PushBase, RewindBase, PushSource, WriteIssue, Outside, vars
<1> QED
  BY <1>1, <1>2, <1>3 DEF Next

----------------------------------------------------------------------------
(* What the scripts start from. *)

\* A chain from before the scripts start: people's events, numbered in used, each recorded
\* once; none is an update or a merge, and the candidate is the one recorded.
Original(c, used) ==
    LET k == State(c).prepared IN
    /\ c \in Chains /\ c # <<>> /\ State(c).merged = NoCommit
    /\ \A i \in 1..Len(c) : /\ c[i].ev.kind \notin {"pr.update", "pr.merge"}
                            /\ \E n \in used : c[i].ev.id = <<Founder, n>>
    /\ \A i, j \in 1..Len(c) : c[i].ev.id = c[j].ev.id => i = j
    /\ k.result # NoCommit =>
          /\ k.result = Candidate0.result /\ k.base = Base0
          /\ \E i \in 1..Len(c) : c[i].ev.kind = "pr.prepared" /\ c[i].ev.bind.result = k.result

\* Appending one more such event.
LEMMA ExtendOriginal ==
    ASSUME NEW c, NEW used, Original(c, used), NEW e \in Events, NEW n \in Nat \ used,
           e.id = <<Founder, n>>,
           \/ e.kind \in {"pr.review", "ci.check"}
           \/ e.kind = "pr.prepared" /\ e.bind.result = Candidate0.result /\ e.base = Base0
    PROVE  Original(Extend(c, e), used \cup {n})
<1> DEFINE d == Extend(c, e)
           new == Apply(State(c), e)
<1>1. /\ d \in Chains /\ d # <<>> /\ Len(d) = Len(c) + 1
      /\ \A i \in 1..Len(c) : d[i] = c[i]
      /\ d[Len(c) + 1] = [ev |-> e, st |-> new] /\ State(d) = new
  BY ExtendTyped DEF Original
<1>2. State(c) \in States
  BY StateTyped DEF Original
<1>3. /\ new.merged = NoCommit
      /\ \/ new.prepared = State(c).prepared
         \/ /\ e.kind = "pr.prepared"
            /\ new.prepared.result = e.bind.result /\ new.prepared.base = e.base
  BY <1>2 DEF Apply, States, Original
<1> HIDE DEF new
<1>4. d[Len(c) + 1].ev = e /\ Len(c) \in Nat
  BY <1>1, LenProperties DEF Chains, Original
<1> HIDE DEF d
<1>5. \A i \in 1..Len(d) : i = Len(c) + 1 \/ i \in 1..Len(c)
  BY <1>1, <1>4
<1>6. \A i \in 1..Len(c) : c[i].ev.id # e.id
  BY DEF Original
<1>7. \A i, j \in 1..Len(d) : d[i].ev.id = d[j].ev.id => i = j
  BY <1>1, <1>4, <1>5, <1>6 DEF Original
<1>8. \A i \in 1..Len(d) : /\ d[i].ev.kind \notin {"pr.update", "pr.merge"}
                           /\ \E m \in used \cup {n} : d[i].ev.id = <<Founder, m>>
  BY <1>1, <1>4, <1>5 DEF Original
<1>9. new.prepared.result # NoCommit =>
        /\ new.prepared.result = Candidate0.result /\ new.prepared.base = Base0
        /\ \E i \in 1..Len(d) : /\ d[i].ev.kind = "pr.prepared"
                                /\ d[i].ev.bind.result = new.prepared.result
  <2>1. CASE new.prepared = State(c).prepared
    <3>1. \A i \in 1..Len(c) : i \in 1..Len(d)
      BY <1>1, <1>4
    <3> QED
      BY <1>1, <2>1, <3>1 DEF Original
  <2>2. CASE /\ e.kind = "pr.prepared"
             /\ new.prepared.result = e.bind.result /\ new.prepared.base = e.base
    <3>1. Len(c) + 1 \in 1..Len(d)
      BY <1>1, <1>4
    <3> QED
      BY <1>4, <2>2, <3>1
  <2> QED
    BY <1>3, <2>1, <2>2
<1> QED
  BY <1>1, <1>3, <1>7, <1>8, <1>9 DEF Original, d

\* Every chain the scripts may start from is one.
LEMMA InitialChainsOriginal ==
    ASSUME Init
    PROVE  Original(chain, 0..4)
<1>1. /\ NoCommit \in Nat /\ Source0 \in Nat /\ Base0 \in Nat /\ RoleOf[Founder] \in Roles
      /\ NoRole \in Roles /\ <<Founder, 0>> \in Ids /\ <<Founder, 1>> \in Ids
      /\ <<Founder, 2>> \in Ids /\ <<Founder, 3>> \in Ids /\ <<Founder, 4>> \in Ids
  BY DEF NoCommit, Source0, Base0, Roles, Ids
<1>2. NoBind \in Binds /\ Candidate0 \in Binds
  BY <1>1, PreparedTyped DEF Binds, NoBind, Words
<1>3. ASSUME NEW kind \in {"pr.review", "ci.check", "pr.prepared"}, NEW n \in 0..4,
             NEW word \in {"none", "pending", "success", "approve"}, NEW bind \in Binds
      PROVE  LET e == Past(kind, n, word, bind)
             IN  e \in Events /\ e.kind = kind /\ e.id = <<Founder, n>> /\ e.bind = bind
  <2>1. kind \in Kinds /\ n \in Nat /\ word \in Words
    <3>1. /\ {"pr.review", "ci.check", "pr.prepared"} \subseteq Kinds
          /\ {"none", "pending", "success", "approve"} \subseteq Words
      BY DEF Kinds, Words, Decisions
    <3> QED
      BY <3>1
  <2>2. Past(kind, n, word, bind) \in Events /\ Past(kind, n, word, bind).kind = kind
    BY <2>1, PastTyped
  <2> QED
    BY <2>2 DEF Past, PrEvent
<1>4. ASSUME NEW c, NEW used, 2 \notin used, 3 \notin used, Original(c, used), NEW bind \in Binds
      PROVE  Original(Vetted(c, bind), used \cup {2} \cup {3})
  <2> DEFINE e == Past("pr.review", 2, "approve", bind)
             f == Past("ci.check", 3, "success", bind)
  <2>1. /\ e \in Events /\ e.kind = "pr.review" /\ e.id = <<Founder, 2>>
        /\ f \in Events /\ f.kind = "ci.check" /\ f.id = <<Founder, 3>>
    BY <1>3
  <2>2. Vetted(c, bind) = Extend(Extend(c, e), f)
    BY DEF Vetted
  <2> HIDE DEF e, f
  <2>3. 2 \in Nat \ used /\ 3 \in Nat \ (used \cup {2})
    BY <1>4
  <2>4. Original(Extend(c, e), used \cup {2})
    BY <1>4, <2>1, <2>3, ExtendOriginal
  <2> QED
    BY <2>1, <2>2, <2>3, <2>4, ExtendOriginal
<1>5. Original(Created, {0} \cup {1})
  <2> DEFINE e == [PrEvent("pr.created", <<Founder, 0>>, RoleOf[Founder]) EXCEPT
                      !.source = Source0, !.base = Base0]
             f == Past("ci.check", 1, "pending", NoBind)
             st == Apply(EmptyPr, e)
             node == [ev |-> e, st |-> st]
  <2>1. e \in Events /\ e.kind = "pr.created" /\ e.id = <<Founder, 0>>
    BY <1>1, <1>2 DEF PrEvent, Events, Kinds, Words
  <2>2. f \in Events /\ f.kind = "ci.check" /\ f.id = <<Founder, 1>>
    BY <1>2, <1>3
  <2>3. Created = Extend(Genesis(e), f)
    BY DEF Created
  <2> HIDE DEF e, f
  <2>4. st.merged = NoCommit /\ st.prepared.result = NoCommit
    BY <2>1 DEF Apply, EmptyPr, NoCandidate
  <2>5. Genesis(e) \in Chains /\ Genesis(e) # <<>> /\ State(Genesis(e)) = st
    BY <2>1, GenesisTyped
  <2>6. Genesis(e) = <<node>> /\ node.ev = e
    BY DEF Genesis
  <2> HIDE DEF st, node
  <2>7. Len(<<node>>) = 1 /\ <<node>>[1] = node
    OBVIOUS
  <2>8. Original(Genesis(e), {0})
    BY <2>1, <2>4, <2>5, <2>6, <2>7 DEF Original
  <2>9. 1 \in Nat \ {0}
    OBVIOUS
  <2> QED
    BY <2>2, <2>3, <2>8, <2>9, ExtendOriginal
<1>6. Original(Prepared, {0} \cup {1} \cup {4})
  <2> DEFINE p == Past("pr.prepared", 4, "none", Candidate0)
             e == [p EXCEPT !.source = Source0, !.base = Base0]
  <2>1. p \in Events /\ p.kind = "pr.prepared" /\ p.id = <<Founder, 4>> /\ p.bind = Candidate0
    BY <1>2, <1>3
  <2>2. Prepared = Extend(Created, e)
    BY DEF Prepared
  <2> HIDE DEF p
  <2>3. /\ e \in Events /\ e.kind = "pr.prepared" /\ e.id = <<Founder, 4>>
        /\ e.bind = Candidate0 /\ e.base = Base0
    BY <1>1, <2>1 DEF Events
  <2> HIDE DEF e
  <2>4. 4 \in Nat \ ({0} \cup {1})
    OBVIOUS
  <2> QED
    BY <1>5, <2>2, <2>3, <2>4, ExtendOriginal
<1>7. ASSUME NEW c, NEW used \in SUBSET (0..4), Original(c, used) PROVE Original(c, 0..4)
  BY <1>7 DEF Original
<1>8. /\ Original(Created, 0..4)
      /\ Original(Vetted(Created, NoBind), 0..4)
      /\ Original(Vetted(Prepared, Candidate0), 0..4)
  <2>1. Original(Vetted(Created, NoBind), {0} \cup {1} \cup {2} \cup {3})
    BY <1>2, <1>4, <1>5
  <2>2. Original(Vetted(Prepared, Candidate0), {0} \cup {1} \cup {4} \cup {2} \cup {3})
    BY <1>2, <1>4, <1>6
  <2> QED
    BY <1>5, <1>7, <2>1, <2>2
<1> QED
  BY <1>8 DEF Init, Reached

----------------------------------------------------------------------------
(* The merge. *)

\* What an event does to a chain's one merge.
LEMMA ExtendOneMerge ==
    ASSUME NEW c \in Chains, c # <<>>, SoundChain(c), OneMerge(c), NEW e \in Events,
           e.kind # "pr.created",
           e.kind = "pr.merge" => State(c).merged = NoCommit
    PROVE  /\ OneMerge(Extend(c, e))
           /\ State(Extend(c, e)).merged =
                 IF e.kind = "pr.merge" THEN e.bind.result ELSE State(c).merged
<1> DEFINE d == Extend(c, e)
           n == Len(c)
           new == Apply(State(c), e)
<1>1. n \in Nat \ {0} /\ State(c) \in States /\ c[n].st = State(c)
  BY LastElement, StateTyped DEF Chains, State
<1>2. /\ Len(d) = n + 1 /\ \A j \in 1..n : d[j] = c[j]
      /\ d[n + 1] = [ev |-> e, st |-> new] /\ State(d) = new
  BY ExtendTyped
<1>3. new.merged = IF e.kind = "pr.merge" THEN e.bind.result ELSE State(c).merged
  BY <1>1, ApplyFields
<1> HIDE DEF new
<1>4. d[n + 1].ev = e
  BY <1>2
<1>5. State(c).merged = NoCommit => \A k \in 1..n : c[k].ev.kind # "pr.merge"
  BY <1>1 DEF SoundChain, Folded
<1> HIDE DEF d, n
<1>6. \A j \in 1..Len(d) : j = n + 1 \/ (j \in 1..n /\ d[j] = c[j])
  BY <1>1, <1>2
<1>7. ASSUME NEW j \in 1..Len(d), d[j].ev.kind = "pr.merge"
      PROVE  d[j].ev.bind.result = State(d).merged
  <2>1. CASE j = n + 1
    BY <1>2, <1>3, <1>4, <1>7, <2>1
  <2>2. CASE j \in 1..n /\ d[j] = c[j]
    <3>1. c[j].ev.bind.result = State(c).merged /\ c[j].ev.kind = "pr.merge"
      BY <1>7, <2>2 DEF OneMerge, n
    <3>2. e.kind # "pr.merge"
      BY <1>5, <2>2, <3>1
    <3> QED
      BY <1>2, <1>3, <2>2, <3>1, <3>2
  <2> QED
    BY <1>6, <1>7, <2>1, <2>2
<1>8. ASSUME State(d).merged # NoCommit
      PROVE  \E j \in 1..Len(d) : d[j].ev.kind = "pr.merge"
  <2>1. CASE e.kind = "pr.merge"
    <3>1. n + 1 \in 1..Len(d)
      BY <1>1, <1>2
    <3> QED
      BY <1>4, <2>1, <3>1
  <2>2. CASE e.kind # "pr.merge"
    <3>1. State(c).merged # NoCommit
      BY <1>2, <1>3, <1>8, <2>2
    <3>2. PICK j \in 1..n : c[j].ev.kind = "pr.merge"
      BY <3>1 DEF OneMerge, n
    <3>3. j \in 1..Len(d) /\ d[j] = c[j]
      BY <1>1, <1>2, <3>2
    <3> QED
      BY <3>2, <3>3
  <2> QED
    BY <2>1, <2>2
<1> QED
  BY <1>2, <1>3, <1>7, <1>8 DEF OneMerge, d

\* A merge is recorded on a chain without one; while one may be rolled back there is none
\* in the chain that would be restored.
LEMMA MergeFacts ==
    ASSUME TypeOK, GateInv, MergeInv, NEW a \in Actors
    PROVE  /\ MergeTxn(a) => /\ State(chain).merged = NoCommit /\ proc[a].res # NoCommit
                             /\ \A b \in Actors : proc[b].pc \notin Refreshing
           /\ proc[a].pc \in Refreshing =>
                 /\ State(proc[a].tip).merged = NoCommit /\ OneMerge(proc[a].tip)
<1>1. ASSUME proc[a].pc \in Gated
      PROVE  State(proc[a].tip).merged = NoCommit /\ proc[a].tip # <<>>
  <2>1. SoundProcess(proc[a], pins) /\ Legal(proc[a], Made)
    BY DEF GateInv, TypeOK, ProcessesTyped
  <2>2. proc[a].pc \notin HasNoTip
    BY <1>1 DEF Gated, Finalizing, HasNoTip
  <2> QED
    BY <1>1, <2>1, <2>2 DEF SoundProcess, Gate, Legal
<1>2. ASSUME MergeTxn(a)
      PROVE  /\ State(chain).merged = NoCommit /\ proc[a].res # NoCommit
             /\ \A b \in Actors : proc[b].pc \notin Refreshing
  <2>1. chain = proc[a].tip /\ proc[a].pc = "m_txn"
    BY <1>2 DEF MergeTxn, FinalizeHolds, At
  <2>2. State(chain).merged = NoCommit
    BY <1>1, <2>1 DEF Gated, Finalizing
  <2>3. proc[a].res \in Made
    BY <2>1 DEF TypeOK, ProcessesTyped, Legal, HasResult, Finalizing
  <2>4. NoCommit \notin Made
    BY LenProperties DEF TypeOK, ObjectsTyped, Made, NoCommit
  <2> QED
    BY <2>2, <2>3, <2>4 DEF MergeInv
<1>3. ASSUME proc[a].pc \in Refreshing
      PROVE  State(proc[a].tip).merged = NoCommit /\ OneMerge(proc[a].tip)
  <2> DEFINE c == proc[a].tip
  <2>1. State(c).merged = NoCommit /\ c # <<>>
    BY <1>1, <1>3 DEF Refreshing, Gated, Finalizing
  <2>2. SoundChain(c) /\ c \in Chains
    BY <2>1 DEF GateInv, SoundProcess, TypeOK, ProcessesTyped, Processes
  <2>3. Len(c) \in Nat \ {0} /\ c[Len(c)].st = State(c)
    BY <2>1, <2>2, LastElement DEF Chains, State
  <2>4. \A k \in 1..Len(c) : c[k].ev.kind # "pr.merge"
    BY <2>1, <2>2, <2>3 DEF SoundChain, Folded
  <2> QED
    BY <2>1, <2>4 DEF OneMerge
<1> QED
  BY <1>2, <1>3

\* Everything a step can do to the chain.
LEMMA ChainSteps ==
    ASSUME TypeOK, [Next]_vars
    PROVE  \/ UNCHANGED chain
           \/ \E a \in Actors : \E e : Records(a, e)
           \/ \E a \in Actors : Rollback(a)
BY KindsOfStep DEF Stops

\* The process that is about to refresh was so before, or has just merged.
LEMMA EntersRefreshing ==
    ASSUME TypeOK, [Next]_vars, NEW b \in Actors, proc'[b].pc \in Refreshing
    PROVE  \/ /\ proc[b].pc \in Refreshing
              /\ proc'[b].stage = proc[b].stage /\ proc'[b].base = proc[b].base
              /\ proc'[b].res = proc[b].res /\ proc'[b].tip = proc[b].tip
           \/ MergeTxn(b)
<1>1. proc'[b] = proc[b] \/ Moved(b)
  BY WhoMoves DEF Moved
<1> QED
  BY <1>1 DEF Moved

LEMMA MergeInvStep ==
    ASSUME TypeOK, GateInv, MergeInv, [Next]_vars
    PROVE  MergeInv'
<1> DEFINE alone == \A b \in Actors : proc'[b].pc \in Refreshing =>
                       /\ State(chain').merged # NoCommit
                       /\ \A c \in Actors : proc'[c].pc \in Refreshing => b = c
<1>1. chain \in Chains /\ chain # <<>> /\ SoundChain(chain) /\ OneMerge(chain)
  BY DEF TypeOK, RefsTyped, GateInv, MergeInv
<1>2. CASE \E a \in Actors : MergeTxn(a)
  <2>1. PICK a \in Actors : MergeTxn(a)
    BY <1>2
  <2>2. /\ State(chain).merged = NoCommit /\ proc[a].res # NoCommit
        /\ \A b \in Actors : proc[b].pc \notin Refreshing
    BY <2>1, MergeFacts
  <2>3. PICK e : Records(a, e) /\ e.kind = "pr.merge"
    BY <2>1, MergeRecords
  <2>4. OneMerge(chain') /\ State(chain').merged # NoCommit
    <3>1. e \in Events /\ e.bind.result = proc[a].res /\ chain' = Extend(chain, e)
      BY <2>3 DEF Records
    <3> QED
      BY <1>1, <2>2, <2>3, <3>1, ExtendOneMerge
  <2>5. Moved(a)
    BY <2>1, MergeMoves DEF MergeStep
  <2>6. \A b \in Actors : proc'[b].pc \in Refreshing => b = a
    BY <2>2, <2>5 DEF Moved
  <2> QED
    BY <2>4, <2>6 DEF MergeInv
<1>3. CASE \E a \in Actors : Rollback(a)
  <2>1. PICK a \in Actors : Rollback(a)
    BY <1>3
  <2>2. proc[a].pc \in Refreshing /\ chain' = proc[a].tip
    BY <2>1 DEF Rollback, At, Refreshing
  <2>3. OneMerge(chain')
    BY <2>2, MergeFacts
  <2>4. \A b \in Actors \ {a} : proc[b].pc \notin Refreshing
    BY <2>2 DEF MergeInv
  <2>5. Moved(a) /\ proc'[a] = Idle /\ Idle.pc \notin Refreshing
    BY <2>1, MergeMoves DEF MergeStep, Rollback, Exits, Idle, Refreshing, TypeOK, ProcessesTyped
  <2>6. \A b \in Actors : proc'[b].pc \notin Refreshing
    BY <2>4, <2>5 DEF Moved
  <2> QED
    BY <2>3, <2>6 DEF MergeInv
<1>4. ASSUME \A a \in Actors : ~MergeTxn(a) /\ ~Rollback(a)
      PROVE  MergeInv'
  <2>1. \A b \in Actors : proc'[b].pc \in Refreshing => proc[b].pc \in Refreshing
    BY <1>4, EntersRefreshing
  <2>2. OneMerge(chain') /\ State(chain').merged = State(chain).merged
    <3>1. CASE UNCHANGED chain
      BY <1>1, <3>1
    <3>2. ASSUME NEW a \in Actors, NEW e, Records(a, e)
          PROVE  OneMerge(chain') /\ State(chain').merged = State(chain).merged
      <4>1. e \in Events /\ e.kind \notin {"pr.created", "pr.merge"} /\ chain' = Extend(chain, e)
        BY <1>4, <3>2 DEF Records
      <4> QED
        BY <1>1, <4>1, ExtendOneMerge
    <3> QED
      BY <1>4, <3>1, <3>2, ChainSteps
  <2> QED
    BY <2>1, <2>2 DEF MergeInv
<1> QED
  BY <1>2, <1>3, <1>4

LEMMA InitMergeInv == Init => MergeInv
<1> SUFFICES ASSUME Init PROVE MergeInv
  OBVIOUS
<1>1. \A a \in Actors : proc[a].pc = "idle"
  BY DEF Init, Idle
<1> QED
  BY <1>1, InitialChainsOriginal DEF MergeInv, OneMerge, Refreshing, Original

LEMMA MergeHolds == Spec => [](TypeOK /\ GateInv /\ MergeInv)
<1>1. Init => TypeOK /\ GateInv /\ MergeInv
  BY InitTyped, InitGateInv, InitMergeInv
<1>2. TypeOK /\ GateInv /\ MergeInv /\ [Next]_vars => (TypeOK /\ GateInv /\ MergeInv)'
  BY StepTyped, StepGateInv, MergeInvStep
<1> QED
  BY <1>1, <1>2, PTL DEF Spec

----------------------------------------------------------------------------
(* Generations. *)

\* A recorded event takes the chain to the next generation, or leaves it in its own.
LEMMA RecordsNumber ==
    ASSUME TypeOK, GateInv, Numbered(chain), NoneAhead(chain),
           NEW a \in Actors, NEW e, Records(a, e)
    PROVE  State(chain').gen >= State(chain).gen /\ Numbered(chain')
<1> DEFINE n == Len(chain)
           st == State(chain)
           new == Apply(st, e)
<1>1. n \in Nat \ {0} /\ st \in States /\ chain[n].st = st
  BY LastElement, StateTyped DEF TypeOK, RefsTyped, Chains, State
<1>2. /\ Len(chain') = n + 1 /\ \A j \in 1..n : chain'[j] = chain[j]
      /\ chain'[n + 1] = [ev |-> e, st |-> new] /\ State(chain') = new
  BY ExtendTyped DEF TypeOK, RefsTyped, Records
<1>3. e \in Events /\ new.gen = IF e.kind = "pr.update" THEN e.gen ELSE st.gen
  BY <1>1, ApplyFields DEF Records
<1>4. chain'[n + 1].ev = e /\ chain'[n + 1].st = new
  <2> HIDE DEF new
  <2> QED
    BY <1>2
<1> HIDE DEF new
<1>5. st.gen \in Nat
  BY <1>1 DEF States
<1>6. ASSUME e.kind = "pr.update" PROVE e.gen = st.gen + 1
  <2>1. e.gen = proc[a].gen /\ e.gen \in Nat /\ ~Claimed(e.gen) /\ At(a, "u_txn")
    BY <1>3, <1>6 DEF Records, Events
  <2>2. e.gen <= st.gen + 1
    BY <2>1 DEF NoneAhead, At, Updating
  <2>3. \A k \in 0..st.gen : \E p \in pins : p.gen = k
    BY DEF GateInv, Covered
  <2>4. e.gen \notin 0..st.gen
    BY <2>1, <2>3 DEF Claimed
  <2> QED
    BY <1>5, <2>1, <2>2, <2>4
<1>7. ASSUME NEW i \in 1..Len(chain'), chain'[i].ev.kind = "pr.update"
      PROVE  chain'[i].st.gen = chain'[i-1].st.gen + 1
  <2>1. CASE i = n + 1
    <3>1. n + 1 - 1 = n /\ chain'[n] = chain[n]
      BY <1>1, <1>2
    <3> QED
      BY <1>1, <1>3, <1>4, <1>6, <1>7, <2>1, <3>1
  <2>2. CASE i \in 1..n
    <3>1. chain[i].ev.kind = "pr.update" /\ SoundChain(chain)
      BY <1>2, <1>7, <2>2 DEF GateInv
    <3>2. i # 1
      BY <2>2, <3>1 DEF SoundChain, Folded
    <3>3. i - 1 \in 1..n
      BY <1>1, <2>2, <3>2
    <3> QED
      BY <1>2, <2>2, <3>1, <3>3 DEF Numbered
  <2> QED
    BY <1>1, <1>2, <2>1, <2>2
<1>8. State(chain').gen >= State(chain).gen
  BY <1>2, <1>3, <1>5, <1>6
<1> QED
  BY <1>7, <1>8 DEF Numbered

\* While a merge may be rolled back no process starts to update: the PR is merged.
LEMMA NoneAheadStep ==
    ASSUME TypeOK, [Next]_vars, NEW c, NEW d, NoneAhead(c),
           State(c).gen \in Nat, State(d).gen \in Nat, State(d).gen >= State(c).gen,
           \A b \in Actors : UpdateRead(b) /\ proc'[b].pc = "u_source" =>
                                State(chain).gen <= State(d).gen
    PROVE  NoneAhead(d)'
<1> SUFFICES ASSUME NEW b \in Actors, proc'[b].pc \in Updating
             PROVE  proc'[b].gen <= State(d).gen + 1
  BY DEF NoneAhead, State
<1>1. proc'[b] = proc[b] \/ Moved(b)
  BY WhoMoves DEF Moved
<1>2. CASE proc[b].pc \in Updating /\ proc'[b].gen = proc[b].gen
  <2>1. proc[b].gen \in Nat /\ proc[b].gen <= State(c).gen + 1
    BY <1>2 DEF NoneAhead, TypeOK, ProcessesTyped, Processes
  <2> QED
    BY <1>2, <2>1
<1>3. CASE UpdateRead(b) /\ proc'[b].pc = "u_source" /\ proc'[b].gen = State(chain).gen + 1
  <2>1. State(chain).gen \in Nat
    BY StateTyped DEF TypeOK, RefsTyped, States
  <2> QED
    BY <1>3, <2>1
<1> QED
  BY <1>1, <1>2, <1>3 DEF Moved

\* An update starts on a PR that is not merged.
LEMMA UpdateStarts ==
    ASSUME TypeOK, MergeInv, NEW a \in Actors, NEW b \in Actors, proc[a].pc \in Refreshing,
           UpdateRead(b)
    PROVE  proc'[b].pc # "u_source"
<1>1. State(chain).merged # NoCommit
  BY DEF MergeInv
<1>2. Exits(b, "refused")
  BY <1>1 DEF UpdateRead
<1> QED
  BY <1>2 DEF Exits, Idle, TypeOK, ProcessesTyped

LEMMA NumberingStep ==
    ASSUME TypeOK, GateInv, MergeInv, NumberingInv, [Next]_vars
    PROVE  NumberingInv'
<1> DEFINE GenOf(c) == State(c).gen
<1>1. /\ \A a \in Actors : proc[a].tip # <<>> => GenOf(proc[a].tip) \in Nat
      /\ GenOf(chain) \in Nat /\ GenOf(chain') \in Nat
  <2>1. TypeOK'
    BY StepTyped
  <2> QED
    BY <2>1, StateTyped DEF TypeOK, RefsTyped, States, ProcessesTyped, Processes
<1>2. ASSUME NEW a \in Actors, proc[a].pc \in Refreshing, NEW c, c = proc[a].tip
      PROVE  Numbered(c) /\ NoneAhead(c)'
  <2>1. Numbered(c) /\ NoneAhead(c)
    BY <1>2 DEF NumberingInv
  <2>2. c # <<>>
    BY <1>2 DEF TypeOK, ProcessesTyped, Legal, HasNoTip, Refreshing
  <2> QED
    BY <1>1, <1>2, <2>1, <2>2, NoneAheadStep, UpdateStarts
<1>3. ASSUME NEW c, c = chain, NEW d, GenOf(d) \in Nat, GenOf(d) >= GenOf(c)
      PROVE  NoneAhead(d)'
  BY <1>1, <1>3, NoneAheadStep DEF NumberingInv
<1>4. ASSUME NEW d, d = chain' PROVE Numbered(d) /\ NoneAhead(d)'
  <2>1. CASE UNCHANGED chain
    BY <1>1, <1>3, <1>4, <2>1 DEF NumberingInv
  <2>2. CASE \E a \in Actors : \E e : Records(a, e)
    <3>1. GenOf(chain') >= GenOf(chain) /\ Numbered(chain')
      BY <2>2, RecordsNumber DEF NumberingInv
    <3> QED
      BY <1>1, <1>3, <1>4, <3>1
  <2>3. CASE \E a \in Actors : Rollback(a)
    <3>1. PICK a \in Actors : proc[a].pc \in Refreshing /\ d = proc[a].tip
      BY <1>4, <2>3 DEF Rollback, At, Refreshing
    <3> QED
      BY <1>2, <3>1
  <2> QED
    BY <2>1, <2>2, <2>3, ChainSteps
<1>5. ASSUME NEW b \in Actors, proc'[b].pc \in Refreshing, NEW c, c = proc'[b].tip
      PROVE  Numbered(c) /\ NoneAhead(c)'
  <2>1. CASE proc[b].pc \in Refreshing /\ proc'[b].tip = proc[b].tip
    BY <1>2, <1>5, <2>1
  <2>2. CASE MergeTxn(b)
    <3>1. Moved(b) /\ chain = proc[b].tip
      BY <2>2, MergeMoves DEF MergeStep, MergeTxn, FinalizeHolds
    <3>2. c = chain
      BY <1>5, <3>1 DEF Moved
    <3> QED
      BY <1>1, <1>3, <3>2 DEF NumberingInv
  <2> QED
    BY <1>5, <2>1, <2>2, EntersRefreshing
<1>6. Numbered(chain)' /\ NoneAhead(chain)'
  BY <1>4 DEF Numbered, NoneAhead
<1>7. \A b \in Actors : proc'[b].pc \in Refreshing =>
          (Numbered(proc[b].tip) /\ NoneAhead(proc[b].tip))'
  BY <1>5 DEF Numbered, NoneAhead
<1> QED
  BY <1>6, <1>7 DEF NumberingInv

LEMMA InitNumbering == Init => NumberingInv
<1> SUFFICES ASSUME Init PROVE NumberingInv
  OBVIOUS
<1>1. \A a \in Actors : proc[a].pc = "idle"
  BY DEF Init, Idle
<1> QED
  BY <1>1, InitialChainsOriginal DEF NumberingInv, Numbered, NoneAhead, Refreshing, Updating,
     Original

(***************************************************************************)
(* Every generation the chain ever shows is pinned, by one pair of refs,   *)
(* to the commits the fold shows, and generations are numbered without     *)
(* gaps, however updates race each other and whatever is rolled back       *)
(* (store.rs update_pr).                                                   *)
(***************************************************************************)
THEOREM SnapshotsArePinned == Spec => []SnapshotsPinned
<1> DEFINE Inv == TypeOK /\ GateInv /\ MergeInv /\ NumberingInv
<1>1. Init => Inv
  BY InitTyped, InitGateInv, InitMergeInv, InitNumbering
<1>2. Inv /\ [Next]_vars => Inv'
  BY StepTyped, StepGateInv, MergeInvStep, NumberingStep
<1>3. TypeOK /\ LandingInv /\ NumberingInv => SnapshotsPinned
  <2>1. TypeOK => DOMAIN chain = 1..Len(chain)
    BY LenProperties DEF TypeOK, RefsTyped, Chains
  <2> QED
    BY <2>1 DEF SnapshotsPinned, LandingInv, LandingChain, LandingAt, NumberingInv, Numbered
<1> QED
  BY <1>1, <1>2, <1>3, LandingHolds, PTL DEF Spec

----------------------------------------------------------------------------
(* Reports. *)

\* An invocation that ends is over, and was not over before; nothing starts again.
LEMMA EndsAreOver ==
    ASSUME TypeOK, NEW a \in Actors, todo[a] # <<>>, todo' = [todo EXCEPT ![a] = Tail(@)],
           NEW id, id = CommandId(a)
    PROVE  /\ \A other \in Ids : Over(other) => Over(other)'
           /\ ~Over(id) /\ Over(id)'
<1>1. todo[a] \in Seq(Commands) /\ todo'[a] = Tail(todo[a])
      /\ \A b \in Actors \ {a} : todo'[b] = todo[b]
  BY DEF TypeOK, ProcessesTyped
<1>2. Len(todo[a]) \in Nat \ {0} /\ Len(todo'[a]) = Len(todo[a]) - 1
  BY <1>1, LenProperties, HeadTailProperties, EmptySeq
<1>4. id = <<a, Len(todo[a])>> /\ id[1] = a /\ id[2] = Len(todo[a])
  BY DEF CommandId
<1>5. ~Over(id) /\ Over(id)'
  BY <1>2, <1>4 DEF Over
<1>6. ASSUME NEW other \in Ids, Over(other) PROVE Over(other)'
  <2>1. other[1] \in Actors \cup {Founder} /\ other[2] \in Nat
    BY DEF Ids
  <2>2. CASE other[1] = a
    BY <1>2, <1>6, <2>1, <2>2 DEF Over
  <2> QED
    BY <1>1, <1>6, <2>2 DEF Over
<1> QED
  BY <1>5, <1>6

\* The events of a chain are typed.
LEMMA NodeTyped ==
    ASSUME NEW c \in Chains, NEW i \in 1..Len(c)
    PROVE  c[i].ev \in Events /\ c[i].ev.id \in Ids /\ c[i].st \in States
<1> DEFINE Node == [ev : Events, st : States]
<1>1. c[i] \in Node
  <2>1. c \in Seq(Node)
    BY DEF Chains
  <2> HIDE DEF Node
  <2> QED
    BY <2>1, ElementOfSeq
<1>2. c[i].ev \in Events /\ c[i].st \in States
  BY <1>1
<1> QED
  BY <1>2 DEF Events

\* An invocation that ends has begun, and so has every one that had; the next has not.
LEMMA EndsBegin ==
    ASSUME TypeOK, NEW a \in Actors, todo[a] # <<>>, todo' = [todo EXCEPT ![a] = Tail(@)]
    PROVE  /\ \A other \in Ids : Begun(other) => Begun(other)'
           /\ Begun(CommandId(a)) /\ ~Begun(CommandId(a)') /\ CommandId(a) # CommandId(a)'
           /\ \A other \in Ids : Begun(other) /\ ~Over(other) /\ other[1] = a
                                    => other = CommandId(a)
<1>1. todo[a] \in Seq(Commands) /\ todo'[a] = Tail(todo[a])
      /\ \A b \in Actors \ {a} : todo'[b] = todo[b]
  BY DEF TypeOK, ProcessesTyped
<1>2. PICK n \in Nat \ {0} : Len(todo[a]) = n
  BY <1>1, LenProperties, EmptySeq
<1>3. Len(todo'[a]) = n - 1
  BY <1>1, <1>2, HeadTailProperties
<1>4. CommandId(a) = <<a, n>> /\ CommandId(a)' = <<a, n - 1>>
  BY <1>2, <1>3 DEF CommandId
<1>5. n <= n /\ ~(n <= n - 1) /\ n # n - 1
  BY <1>2
<1>6. Begun(<<a, n>>) /\ ~Begun(<<a, n - 1>>) /\ <<a, n>> # <<a, n - 1>>
  BY <1>2, <1>5 DEF Begun
<1>7. ASSUME NEW other \in Ids, Begun(other) PROVE Begun(other)'
  <2>1. other[1] \in Actors \cup {Founder} /\ other[2] \in Nat
    BY DEF Ids
  <2>2. CASE other[1] = a
    <3>1. n <= other[2]
      BY <1>2, <1>7, <2>2 DEF Begun
    <3>2. n - 1 <= other[2]
      BY <1>2, <2>1, <3>1
    <3> QED
      BY <1>3, <2>2, <3>2 DEF Begun
  <2> QED
    BY <1>1, <1>7, <2>2 DEF Begun
<1>8. ASSUME NEW other \in Ids, Begun(other), ~Over(other), other[1] = a
      PROVE  other = <<a, n>>
  <2>1. PICK x \in Actors \cup {Founder}, m \in Nat : other = <<x, m>>
    BY DEF Ids
  <2>2. n <= m /\ ~(n < m)
    BY <1>2, <1>8, <2>1 DEF Begun, Over
  <2>3. n = m
    BY <1>2, <2>1, <2>2
  <2> QED
    BY <1>8, <2>1, <2>3
<1> QED
  BY <1>4, <1>6, <1>7, <1>8

\* Nothing recorded bears the number of an invocation that has not begun.
LEMMA FreshSpent ==
    ASSUME TypeOK, ReportInv, NEW a \in Actors, ~Begun(CommandId(a)'),
           chain' = chain \/ \E e : /\ Len(chain') = Len(chain) + 1 /\ e # CommandId(a)'
                                    /\ chain'[Len(chain) + 1].ev.id = e
                                    /\ \A i \in 1..Len(chain) : chain'[i] = chain[i]
    PROVE  Spent(a)'
<1>1. Len(chain) \in Nat
  BY LenProperties DEF TypeOK, RefsTyped, Chains
<1>2. \A i \in 1..Len(chain) : chain[i].ev.id # CommandId(a)'
  BY DEF ReportInv
<1>3. ASSUME NEW i \in 1..Len(chain') PROVE chain'[i].ev.id # CommandId(a)'
  <2>1. CASE chain' = chain
    BY <1>2, <2>1
  <2>2. CASE chain' # chain
    <3>1. i \in 1..Len(chain) \/ i = Len(chain) + 1
      BY <1>1, <2>2
    <3> QED
      BY <1>2, <2>2, <3>1
  <2> QED
    BY <2>1, <2>2
<1> QED
  BY <1>3 DEF Spent

\* What Spent says of the next state, for kinds and numbers that are constants.
LEMMA SpentNext ==
    ASSUME NEW a \in Actors,
           \A i \in 1..Len(chain') : \A kind :
               chain'[i].ev.id = CommandId(a)' /\ kind = chain'[i].ev.kind => Doubts(a, kind)'
    PROVE  Spent(a)'
<1>1. ASSUME NEW i \in 1..Len(chain'), chain'[i].ev.id = CommandId(a)'
      PROVE  (Doubts(a, chain[i].ev.kind))'
  <2>1. PICK kind : kind = chain'[i].ev.kind
    OBVIOUS
  <2>2. Doubts(a, kind)'
    BY <1>1, <2>1
  <2> QED
    BY <2>1, <2>2 DEF Doubts
<1> QED
  BY <1>1 DEF Spent

\* Another process's invocation stays where it stands.
LEMMA OthersDoubt ==
    ASSUME NEW b \in Actors, NEW kind, Doubts(b, kind), proc'[b] = proc[b], pins \subseteq pins'
    PROVE  Doubts(b, kind)'
BY DEF Doubts, Claimed

\* An invocation that ends without recording anything.
LEMMA StopsReport ==
    ASSUME TypeOK, Straight, ReportInv, NEW a \in Actors, Stops(a), pins \subseteq pins'
    PROVE  ReportInv'
<1>1. PICK id : id = CommandId(a)
  OBVIOUS
<1>2. /\ todo[a] # <<>> /\ todo' = [todo EXCEPT ![a] = Tail(@)] /\ chain' = chain
      /\ proc' = [proc EXCEPT ![a] = Idle]
  BY DEF Stops, Exits, Crash
<1>3. ~Over(id) /\ Over(id)' /\ \A other \in Ids : Over(other) => Over(other)'
  BY <1>1, <1>2, EndsAreOver
<1>4. Begun(id) /\ \A other \in Ids : Begun(other) => Begun(other)'
  BY <1>1, <1>2, EndsBegin
<1>5. reported' = reported \/ reported' = reported \cup {[id |-> id, how |-> "refused"]}
  BY <1>1 DEF Stops, Exits, Reports, Crash, Straight
<1>6. DOMAIN chain = 1..Len(chain)
  BY LenProperties DEF TypeOK, RefsTyped, Chains
<1>7. \A i \in 1..Len(chain) : chain[i].ev.id \in Ids
  BY NodeTyped DEF TypeOK, RefsTyped
<1>8. id \in Ids /\ \A r \in reported : r.id \in Ids
  BY <1>1, <1>2, CommandTyped DEF TypeOK, ProcessesTyped
<1>9. ASSUME NEW other PROVE Misinformed(other) <=> Misinformed(other)'
  <2>1. PICK r : r = [id |-> other, how |-> "unclear"]
    OBVIOUS
  <2>2. r # [id |-> id, how |-> "refused"]
    BY <2>1
  <2>3. r \in reported <=> r \in reported'
    BY <1>5, <2>2
  <2> QED
    BY <2>1, <2>3 DEF Misinformed
<1>10. ASSUME NEW i \in 1..Len(chain), NEW other, other = chain[i].ev.id
       PROVE  Begun(other)' /\ (Over(other)' \/ Misinformed(other)')
  BY <1>3, <1>4, <1>7, <1>9, <1>10 DEF ReportInv
<1>11. \A r \in reported' : Begun(r.id)' /\ (Over(r.id)' \/ r.how = "unclear")
  BY <1>3, <1>4, <1>5, <1>8, EndsBegin DEF ReportInv
<1>12. \A i \in 1..Len(chain) : chain[i].ev.id = id => Misinformed(id)
  BY <1>3 DEF ReportInv
<1>13. ReportsAreTrue'
  BY <1>2, <1>5, <1>6, <1>9, <1>12 DEF ReportInv, ReportsAreTrue
<1>14. ASSUME NEW b \in Actors PROVE Spent(b)'
  <2>1. CASE b = a
    BY <1>2, <2>1, EndsBegin, FreshSpent
  <2>2. CASE b # a
    <3>1. proc'[b] = proc[b] /\ CommandId(b)' = CommandId(b)
      BY <1>2, <2>2 DEF CommandId, TypeOK, ProcessesTyped
    <3>2. Spent(b)
      BY DEF ReportInv
    <3>3. ASSUME NEW i \in 1..Len(chain), chain[i].ev.id = CommandId(b)
          PROVE  Doubts(b, chain[i].ev.kind)'
      <4>1. PICK kind : kind = chain[i].ev.kind
        OBVIOUS
      <4>2. Doubts(b, kind)'
        BY <3>1, <3>2, <3>3, <4>1, OthersDoubt DEF Spent
      <4> QED
        BY <1>2, <4>1, <4>2 DEF Doubts
    <3> QED
      BY <1>2, <3>1, <3>3 DEF Spent
  <2> QED
    BY <2>1, <2>2
<1>15. (\A i \in 1..Len(chain) : LET j == chain[i].ev.id IN Begun(j) /\ (Over(j) \/ Misinformed(j)))'
  BY <1>2, <1>10 DEF Begun, Over, Misinformed
<1>16. (\A r \in reported : Begun(r.id) /\ (Over(r.id) \/ r.how = "unclear"))'
  BY <1>11 DEF Begun, Over
<1> QED
  BY <1>13, <1>14, <1>15, <1>16 DEF ReportInv

\* The chain after an event is recorded.
LEMMA RecordsAt ==
    ASSUME TypeOK, NEW a \in Actors, NEW e, Records(a, e)
    PROVE  /\ Len(chain) \in Nat /\ DOMAIN chain = 1..Len(chain)
           /\ DOMAIN chain' = 1..Len(chain) + 1 /\ Len(chain') = Len(chain) + 1
           /\ \A i \in 1..Len(chain) : chain'[i] = chain[i] /\ chain[i].ev.id \in Ids
           /\ chain'[Len(chain) + 1].ev = e
<1> DEFINE n == Len(chain)
           new == Apply(State(chain), e)
<1>1. n \in Nat /\ DOMAIN chain = 1..n /\ \A i \in 1..n : chain[i].ev.id \in Ids
  BY LenProperties, NodeTyped DEF TypeOK, RefsTyped, Chains
<1>2. /\ chain' \in Chains /\ Len(chain') = n + 1
      /\ \A i \in 1..n : chain'[i] = chain[i]
      /\ chain'[n + 1] = [ev |-> e, st |-> new]
  BY ExtendTyped DEF TypeOK, RefsTyped, Records
<1> HIDE DEF new
<1>3. DOMAIN chain' = 1..Len(chain')
  BY <1>2, LenProperties DEF Chains
<1>4. chain'[n + 1].ev = e
  BY <1>2
<1> QED
  BY <1>1, <1>2, <1>3, <1>4

\* One that records its event for the second time was told that the first failed, and the
\* event is no update and no merge.
LEMMA OnlyDoubtsRecur ==
    ASSUME TypeOK, ReportInv, NEW a \in Actors, NEW e, Records(a, e),
           NEW i \in 1..Len(chain), chain[i].ev.id = e.id
    PROVE  /\ Misinformed(e.id)
           /\ e.kind \notin {"pr.update", "pr.merge"}
           /\ chain[i].ev.kind \notin {"pr.update", "pr.merge"}
<1>1. e.id = CommandId(a) /\ todo[a] # <<>> /\ proc[a].pc \in SentAt(e.kind)
  BY DEF Records
<1>2. PICK kind : kind = chain[i].ev.kind
  OBVIOUS
<1>3. Doubts(a, kind)
  BY <1>1, <1>2 DEF ReportInv, Spent
<1>4. ~Over(e.id)
  <2>1. Len(todo[a]) \in Nat
    BY LenProperties DEF TypeOK, ProcessesTyped
  <2> QED
    BY <1>1, <2>1 DEF Over, CommandId
<1>5. Misinformed(e.id)
  BY <1>4 DEF ReportInv
<1>6. kind \notin {"pr.update", "pr.merge"} /\ e.kind \notin {"pr.update", "pr.merge"}
  BY <1>1, <1>3 DEF Doubts, SentAt, Preparing
<1> QED
  BY <1>2, <1>5, <1>6

\* What an invocation that records its event reports, whether it ends or goes on.
LEMMA RecordsTruly ==
    ASSUME TypeOK, ReportInv, NEW a \in Actors, NEW e, Records(a, e), NEW how \in {"ok", "unclear"},
           reported' = reported \cup {[id |-> e.id, how |-> how]}
    PROVE  ReportsAreTrue'
<1> DEFINE n == Len(chain)
<1>1. PICK id : id = e.id
  OBVIOUS
<1>2. /\ n \in Nat /\ DOMAIN chain = 1..n /\ DOMAIN chain' = 1..n + 1
      /\ \A i \in 1..n : chain'[i] = chain[i]
      /\ chain'[n + 1].ev = e
  BY RecordsAt
<1>3. \A i \in 1..n + 1 : i = n + 1 \/ i \in 1..n
  BY <1>2
<1>4. \A other : Misinformed(other) => Misinformed(other)'
  BY DEF Misinformed
<1>5. \A i \in 1..n : chain[i].ev.id = id =>
         Misinformed(id) /\ {e.kind, chain[i].ev.kind} \cap {"pr.update", "pr.merge"} = {}
  BY <1>1, OnlyDoubtsRecur
<1>6. ASSUME NEW i \in 1..n + 1, NEW j \in 1..n + 1, i # j,
             NEW x, x = chain'[i].ev.id, x = chain'[j].ev.id
      PROVE  Misinformed(x) /\ chain'[i].ev.kind \notin {"pr.update", "pr.merge"}
  <2>1. CASE i \in 1..n /\ j \in 1..n
    <3>1. chain[i].ev.id = x /\ chain[j].ev.id = x /\ chain'[i] = chain[i]
      BY <1>2, <1>6, <2>1
    <3> QED
      BY <1>2, <1>6, <2>1, <3>1 DEF ReportInv, ReportsAreTrue
  <2>2. CASE i = n + 1 /\ j \in 1..n
    <3>1. chain'[i].ev = e /\ chain[j].ev.id = id /\ x = id
      BY <1>1, <1>2, <1>6, <2>2
    <3> QED
      BY <1>5, <2>2, <3>1
  <2>3. CASE i \in 1..n /\ j = n + 1
    <3>1. chain'[i] = chain[i] /\ chain[i].ev.id = id /\ x = id
      BY <1>1, <1>2, <1>6, <2>3
    <3> QED
      BY <1>5, <2>3, <3>1
  <2> QED
    BY <1>3, <1>6, <2>1, <2>2, <2>3
<1>7. ASSUME NEW r \in reported'
      PROVE  LET recorded == \E i \in 1..n + 1 : chain'[i].ev.id = r.id
             IN  /\ r.how = "ok" => recorded
                 /\ r.how = "refused" => ~recorded \/ Misinformed(r.id)'
  <2>1. CASE r = [id |-> id, how |-> how]
    <3>1. n + 1 \in 1..n + 1 /\ chain'[n + 1].ev.id = id /\ r.id = id /\ r.how # "refused"
      BY <1>1, <1>2, <2>1
    <3> QED
      BY <3>1
  <2>2. CASE r \in reported
    <3>1. CASE r.how = "ok"
      <4>1. PICK i \in 1..n : chain[i].ev.id = r.id
        BY <1>2, <2>2, <3>1 DEF ReportInv, ReportsAreTrue
      <4>2. i \in 1..n + 1 /\ chain'[i].ev.id = r.id
        BY <1>2, <4>1
      <4> QED
        BY <3>1, <4>2
    <3>2. CASE r.how = "refused"
      <4>1. (~\E i \in 1..n : chain[i].ev.id = r.id) \/ Misinformed(r.id)
        BY <1>2, <2>2, <3>2 DEF ReportInv, ReportsAreTrue
      <4>2. r.id # id
        <5>1. Over(r.id)
          BY <2>2, <3>2 DEF ReportInv
        <5>2. Len(todo[a]) \in Nat /\ id = CommandId(a)
          BY <1>1, LenProperties DEF TypeOK, ProcessesTyped, Records
        <5> QED
          BY <5>1, <5>2 DEF Over, CommandId
      <4> QED
        BY <1>1, <1>2, <1>3, <1>4, <3>2, <4>1, <4>2
    <3> QED
      BY <3>1, <3>2
  <2> QED
    BY <1>1, <2>1, <2>2
<1>8. ASSUME NEW i \in 1..n + 1, NEW j \in 1..n + 1, chain'[i].ev.id = chain'[j].ev.id
      PROVE  \/ i = j
             \/ /\ [id |-> chain'[i].ev.id, how |-> "unclear"] \in reported'
                /\ chain'[i].ev.kind \notin {"pr.update", "pr.merge"}
  <2>1. PICK x : x = chain'[i].ev.id
    OBVIOUS
  <2>2. i # j => Misinformed(x)' /\ chain'[i].ev.kind \notin {"pr.update", "pr.merge"}
    BY <1>4, <1>6, <1>8, <2>1
  <2> QED
    BY <2>1, <2>2 DEF Misinformed
<1>9. \A r \in reported' :
         LET recorded == \E i \in 1..n + 1 : chain'[i].ev.id = r.id
         IN  /\ r.how = "ok" => recorded
             /\ r.how = "refused" => ~recorded \/ [id |-> r.id, how |-> "unclear"] \in reported'
  BY <1>7 DEF Misinformed
<1> HIDE DEF n
<1> QED
  BY <1>2, <1>8, <1>9 DEF ReportsAreTrue, Misinformed

\* One that records its event and ends, or goes on.
LEMMA RecordsReport ==
    ASSUME TypeOK, ReportInv, NEW a \in Actors, NEW e, Records(a, e), ~BaseCheckedOut,
           pins \subseteq pins'
    PROVE  ReportInv'
<1> DEFINE n == Len(chain)
<1>1. /\ n \in Nat /\ Len(chain') = n + 1
      /\ \A i \in 1..n : chain'[i] = chain[i] /\ chain[i].ev.id \in Ids
      /\ chain'[n + 1].ev = e
  BY RecordsAt
<1>2. PICK id : id = CommandId(a) /\ e.id = id
  BY DEF Records
<1>3. todo[a] # <<>> /\ id \in Ids /\ \A r \in reported : r.id \in Ids
  BY <1>2, CommandTyped DEF Records, TypeOK, ProcessesTyped
<1>4. \A i \in 1..n + 1 : i = n + 1 \/ i \in 1..n
  BY <1>1
<1> HIDE DEF n
<1>5. PICK how \in {"ok", "unclear"} :
         /\ \A b \in Actors \ {a} : proc'[b] = proc[b]
         /\ reported' = reported \cup {[id |-> id, how |-> how]}
         /\ \/ how = "ok" /\ todo' = [todo EXCEPT ![a] = Tail(@)]
            \/ how = "unclear" /\ todo' = todo /\ \E pc \in FailsTo(e.kind) : Unclear(a, pc)
  <2>1. CASE Exits(a, "ok")
    BY <1>2, <2>1 DEF Exits, Reports, TypeOK, ProcessesTyped
  <2>2. ASSUME NEW pc \in FailsTo(e.kind), Unclear(a, pc)
        PROVE  /\ \A b \in Actors \ {a} : proc'[b] = proc[b]
               /\ reported' = reported \cup {[id |-> id, how |-> "unclear"]} /\ todo' = todo
    BY <1>2, <2>2 DEF Unclear, Reports, TypeOK, ProcessesTyped
  <2> QED
    BY <2>1, <2>2 DEF Records
<1>6. ReportsAreTrue'
  BY <1>2, <1>5, RecordsTruly
<1>7. \A other : Misinformed(other) => Misinformed(other)'
  BY <1>5 DEF Misinformed
<1>8. /\ \A other \in Ids : /\ Begun(other) => Begun(other)'
                            /\ Over(other) => Over(other)'
      /\ Begun(id)'
      /\ Over(id)' \/ (how = "unclear" /\ Misinformed(id)')
  <2>1. CASE how = "ok" /\ todo' = [todo EXCEPT ![a] = Tail(@)]
    <3>1. /\ \A other \in Ids : Over(other) => Over(other)'
          /\ ~Over(id) /\ Over(id)'
      BY <1>2, <1>3, <2>1, EndsAreOver
    <3>2. \A other \in Ids : Begun(other) => Begun(other)'
      BY <1>3, <2>1, EndsBegin
    <3>3. Begun(id)
      BY <1>2, <1>3, <2>1, EndsBegin
    <3> QED
      BY <1>3, <3>1, <3>2, <3>3
  <2>2. CASE how = "unclear" /\ todo' = todo
    <3>1. Len(todo[a]) \in Nat
      BY LenProperties DEF TypeOK, ProcessesTyped
    <3>2. Begun(id)
      BY <1>2, <3>1 DEF Begun, CommandId
    <3> QED
      BY <1>5, <2>2, <3>2 DEF Begun, Over, Misinformed
  <2> QED
    BY <1>5, <2>1, <2>2
<1>9. ASSUME NEW i \in 1..n + 1, NEW other, other = chain'[i].ev.id
      PROVE  Begun(other)' /\ (Over(other)' \/ Misinformed(other)')
  <2>1. CASE i = n + 1
    BY <1>1, <1>2, <1>8, <1>9, <2>1
  <2>2. CASE i \in 1..n
    <3>1. other = chain[i].ev.id /\ other \in Ids
      BY <1>1, <1>9, <2>2
    <3>2. Begun(other) /\ (Over(other) \/ Misinformed(other))
      BY <2>2, <3>1 DEF ReportInv, n
    <3> QED
      BY <1>7, <1>8, <3>1, <3>2
  <2> QED
    BY <1>4, <2>1, <2>2
<1>10. ASSUME NEW r \in reported' PROVE Begun(r.id)' /\ (Over(r.id)' \/ r.how = "unclear")
  <2>1. CASE r \in reported
    BY <1>3, <1>8, <2>1 DEF ReportInv
  <2>2. CASE r = [id |-> id, how |-> how]
    BY <1>8, <2>2
  <2> QED
    BY <1>5, <2>1, <2>2
<1>11. ASSUME NEW b \in Actors, b # a PROVE Spent(b)'
  <2>1. proc'[b] = proc[b] /\ CommandId(b)' = CommandId(b) /\ CommandId(b) # id
    BY <1>2, <1>5, <1>11 DEF CommandId, TypeOK, ProcessesTyped
  <2>2. Spent(b)
    BY DEF ReportInv
  <2>3. ASSUME NEW i \in 1..n + 1, chain'[i].ev.id = CommandId(b),
               NEW kind, kind = chain'[i].ev.kind
        PROVE  Doubts(b, kind)'
    <3>1. i \in 1..n
      BY <1>1, <1>2, <1>4, <2>1, <2>3
    <3>2. chain[i].ev.kind = kind /\ chain[i].ev.id = CommandId(b)
      BY <1>1, <2>3, <3>1
    <3>3. Doubts(b, kind)
      BY <2>2, <3>1, <3>2 DEF Spent, n
    <3> QED
      BY <2>1, <3>3, OthersDoubt
  <2> QED
    BY <1>1, <2>1, <2>3, SpentNext DEF n
<1>12. Spent(a)'
  <2>1. CASE how = "ok" /\ todo' = [todo EXCEPT ![a] = Tail(@)]
    <3>1. ~Begun(CommandId(a)') /\ id # CommandId(a)'
      BY <1>2, <1>3, <2>1, EndsBegin
    <3>2. chain'[Len(chain) + 1].ev.id = id
      BY <1>1, <1>2 DEF n
    <3> QED
      BY <1>1, <3>1, <3>2, FreshSpent DEF n
  <2>2. CASE how = "unclear"
    <3>1. PICK pc \in FailsTo(e.kind) : Unclear(a, pc)
      BY <1>5, <2>2
    <3>2. CommandId(a)' = id
      BY <1>2, <3>1 DEF Unclear, CommandId
    <3>3. proc'[a].pc = pc /\ proc'[a].gen = proc[a].gen
      BY <3>1 DEF Unclear, TypeOK, ProcessesTyped, Processes
    <3>4. Doubts(a, e.kind)'
      <4>1. CASE e.kind = "pr.update"
        <5>1. UpdateTxn(a)
          BY <4>1 DEF Records
        <5>2. Pin(proc[a].gen, proc[a].src, proc[a].base) \in pins'
          BY <5>1 DEF UpdateTxn
        <5>3. (Claimed(proc[a].gen))'
          BY <3>3, <5>2 DEF Claimed, Pin
        <5>4. pc = "u_claimed"
          BY <3>1, <4>1 DEF FailsTo
        <5> QED
          BY <3>3, <4>1, <5>3, <5>4 DEF Doubts
      <4>2. CASE e.kind = "pr.merge"
        BY <3>1, <3>3, <4>2 DEF Doubts, FailsTo
      <4>3. CASE e.kind \notin {"pr.update", "pr.merge"}
        BY <3>1, <3>3, <4>3 DEF Doubts, FailsTo, Preparing
      <4> QED
        BY <4>1, <4>2, <4>3
    <3>5. ASSUME NEW i \in 1..n + 1, chain'[i].ev.id = id, NEW kind, kind = chain'[i].ev.kind
          PROVE  Doubts(a, kind)'
      <4>1. CASE i = n + 1
        BY <1>1, <3>4, <3>5, <4>1
      <4>2. CASE i \in 1..n
        <5>1. chain[i].ev.id = e.id /\ chain[i].ev.kind = kind
          BY <1>1, <1>2, <3>5, <4>2
        <5>2. e.kind \notin {"pr.update", "pr.merge"} /\ kind \notin {"pr.update", "pr.merge"}
          BY <4>2, <5>1, OnlyDoubtsRecur DEF n
        <5>3. PICK other : other = e.kind
          OBVIOUS
        <5>4. Doubts(a, other)' /\ other \notin {"pr.update", "pr.merge"}
          BY <3>4, <5>2, <5>3
        <5> QED
          BY <5>2, <5>4 DEF Doubts
      <4> QED
        BY <1>4, <4>1, <4>2
    <3> QED
      BY <1>1, <3>2, <3>5, SpentNext DEF n
  <2> QED
    BY <1>5, <2>1, <2>2
<1>13. (\A i \in 1..Len(chain) : LET j == chain[i].ev.id IN Begun(j) /\ (Over(j) \/ Misinformed(j)))'
  BY <1>1, <1>9 DEF Begun, Over, Misinformed
<1>14. (\A r \in reported : Begun(r.id) /\ (Over(r.id) \/ r.how = "unclear"))'
  BY <1>10 DEF Begun, Over
<1> QED
  BY <1>6, <1>11, <1>12, <1>13, <1>14 DEF ReportInv

\* A step that records nothing leaves an invocation in doubt where it stands, or ends it.
LEMMA DoubtsLast ==
    ASSUME TypeOK, GateInv, NEW a \in Actors, ProcessStep(a), UNCHANGED <<chain, todo, reported>>,
           todo[a] # <<>>, NEW i \in 1..Len(chain), Doubts(a, chain[i].ev.kind),
           pins \subseteq pins'
    PROVE  Doubts(a, chain[i].ev.kind)'
<1>1. PICK kind : kind = chain[i].ev.kind
  OBVIOUS
<1>2. proc \in [Actors -> Processes] /\ proc[a] \in Processes
  BY DEF TypeOK, ProcessesTyped
<1>3. \A how : ~Exits(a, how)
  <2>1. ASSUME NEW how, Exits(a, how) PROVE FALSE
    <3>1. todo'[a] = Tail(todo[a]) /\ todo[a] \in Seq(Commands)
      BY <2>1 DEF Exits, TypeOK, ProcessesTyped
    <3>2. Len(Tail(todo[a])) = Len(todo[a]) - 1 /\ Len(todo[a]) \in Nat
      BY <3>1, HeadTailProperties, LenProperties
    <3>3. PICK m \in Nat : m = Len(todo[a])
      BY <3>2
    <3>4. m = m - 1
      BY <3>1, <3>2, <3>3
    <3> QED
      BY <3>3, <3>4
  <2> QED
    BY <2>1
<1>4. CASE kind = "pr.update"
  <2>1. proc[a].pc = "u_claimed" /\ Claimed(proc[a].gen)
    BY <1>1, <1>4 DEF Doubts
  <2>2. ~AppendStep(a) /\ ~PrepareStep(a)
    BY <2>1 DEF AppendStep, ReviewRead, CiRead, Bind, AbandonRead, AppendTip, AppendCas,
       AppendCasFails, AppendLost, PrepareStep, PrepareRead, PrepareBase, PrepareBaseFails,
       PrepareTip, PreparePin, PrepareTxn, PrepareTxnFails, PrepareHead, Starting, At
  <2>3. ~MergeStep(a)
    BY <2>1 DEF MergeStep, MergeGate, MergeRefusedAtBase, MergeTakesCandidate, MergePin,
       MergeExecutes, MergeExecutionFails, MergeCreatesPending, MergePendingFails,
       MergeWorktreeGone, MergeWorktreeStays, MergeStages, MergeFoldsIssue, MergeStageFails,
       MergeTxn, MergeTxnFails, MergeReadsHead, MergeReadsIssue, MergeCleans,
       MergeLeavesPending, MergeRefreshes, MergeRefreshFails, RollbackReadsHead, Rollback,
       RollbackFails, Starting, At
  <2>4. UpdateClaimed(a)
    BY <2>1, <2>2, <2>3 DEF ProcessStep, UpdateStep, UpdateRead, UpdateReadSource,
       UpdateReadBase, UpdateTip, UpdateTxn, UpdateTxnFails, UpdateMoved, UpdateHead,
       Starting, At
  <2> QED
    BY <1>3, <2>1, <2>4 DEF UpdateClaimed
<1>5. CASE kind = "pr.merge"
  <2>1. proc[a].pc \in {"m_head", "m_clean"}
    BY <1>1, <1>5 DEF Doubts
  <2>2. ~AppendStep(a) /\ ~PrepareStep(a) /\ ~UpdateStep(a)
    BY <2>1 DEF AppendStep, ReviewRead, CiRead, Bind, AbandonRead, AppendTip, AppendCas,
       AppendCasFails, AppendLost, PrepareStep, PrepareRead, PrepareBase, PrepareBaseFails,
       PrepareTip, PreparePin, PrepareTxn, PrepareTxnFails, PrepareHead, UpdateStep,
       UpdateRead, UpdateReadSource, UpdateReadBase, UpdateTip, UpdateTxn, UpdateTxnFails,
       UpdateClaimed, UpdateMoved, UpdateHead, Starting, At
  <2>3. MergeReadsHead(a) \/ MergeCleans(a) \/ MergeLeavesPending(a)
    BY <2>1, <2>2 DEF ProcessStep, MergeStep, MergeGate, MergeRefusedAtBase,
       MergeTakesCandidate, MergePin, MergeExecutes, MergeExecutionFails,
       MergeCreatesPending, MergePendingFails, MergeWorktreeGone, MergeWorktreeStays,
       MergeStages, MergeFoldsIssue, MergeStageFails, MergeTxn, MergeTxnFails,
       MergeReadsIssue, MergeRefreshes, MergeRefreshFails, RollbackReadsHead, Rollback,
       RollbackFails, Starting, At
  <2>4. MergeReadsHead(a) /\ proc[a].pc = "m_head"
    BY <1>3, <2>3 DEF MergeReadsHead, MergeCleans, MergeLeavesPending, At
  <2>5. State(chain).merged # NoCommit
    <3>1. chain \in Chains /\ chain # <<>> /\ SoundChain(chain)
      BY DEF TypeOK, RefsTyped, GateInv
    <3>2. PICK n : n = Len(chain)
      OBVIOUS
    <3>3. n \in 1..Len(chain) /\ chain[n].st = State(chain)
      BY <3>1, <3>2, LastElement DEF Chains, State
    <3>4. Folded(chain, n)
      BY <3>1, <3>3 DEF SoundChain
    <3> QED
      BY <1>1, <1>5, <3>2, <3>3, <3>4 DEF Folded
  <2>6. State(proc[a].tip).merged = NoCommit
    BY <2>4 DEF GateInv, SoundProcess, Gated, Finalizing, Gate
  <2>7. chain # proc[a].tip /\ ~Adoptable(a, chain)
    BY <2>5, <2>6 DEF Adoptable, Gate
  <2>8. Goes(a, "m_clean")
    BY <2>4, <2>7 DEF MergeReadsHead
  <2>9. proc'[a].pc = "m_clean"
    BY <1>2, <2>8 DEF Goes, Becomes, Processes
  <2> QED
    BY <1>1, <1>5, <2>9 DEF Doubts
<1>6. ASSUME kind \notin {"pr.update", "pr.merge"} PROVE Doubts(a, kind)'
  <2>1. proc[a].pc \in {"tip", "cas", "lost"} \cup Preparing
    BY <1>1, <1>6 DEF Doubts
  <2>2. ~UpdateStep(a)
    BY <2>1 DEF Preparing, UpdateStep, UpdateRead, UpdateReadSource, UpdateReadBase,
       UpdateTip, UpdateTxn, UpdateTxnFails, UpdateClaimed, UpdateMoved, UpdateHead,
       Starting, At
  <2>3. ~MergeStep(a)
    BY <2>1 DEF Preparing, MergeStep, MergeGate, MergeRefusedAtBase, MergeTakesCandidate,
       MergePin, MergeExecutes, MergeExecutionFails, MergeCreatesPending, MergePendingFails,
       MergeWorktreeGone, MergeWorktreeStays, MergeStages, MergeFoldsIssue, MergeStageFails,
       MergeTxn, MergeTxnFails, MergeReadsHead, MergeReadsIssue, MergeCleans,
       MergeLeavesPending, MergeRefreshes, MergeRefreshFails, RollbackReadsHead, Rollback,
       RollbackFails, Starting, At
  <2>4. proc'[a].pc \in {"tip", "cas", "lost"} \cup Preparing => Doubts(a, kind)'
    BY <1>6 DEF Doubts
  <2>5. CASE AppendStep(a)
    <3>1. CASE AppendTip(a)
      <4>1. PICK word : proc' = [proc EXCEPT ![a] =
                           [proc[a] EXCEPT !.pc = "cas", !.tip = chain, !.word = word]]
        BY <3>1 DEF AppendTip, Becomes
      <4>2. proc'[a].pc = "cas"
        BY <1>2, <4>1 DEF Processes
      <4> QED
        BY <2>4, <4>2
    <3>2. CASE AppendCas(a) \/ AppendCasFails(a)
      <4>1. proc'[a].pc = "lost"
        BY <1>2, <1>3, <3>2 DEF AppendCas, AppendCasFails, Unclear, Goes, Becomes, Processes
      <4> QED
        BY <2>4, <4>1
    <3>3. CASE AppendLost(a)
      <4>1. proc' = [proc EXCEPT ![a] = [[proc[a] EXCEPT !.pc = "tip"] EXCEPT !.tries = @ + 1]]
        BY <1>3, <3>3 DEF AppendLost, Retry, Becomes
      <4>2. proc'[a].pc = "tip"
        BY <1>2, <4>1 DEF Processes
      <4> QED
        BY <2>4, <4>2
    <3> QED
      BY <2>1, <2>5, <3>1, <3>2, <3>3 DEF AppendStep, ReviewRead, CiRead, Bind, AbandonRead,
         Starting, At, Preparing
  <2>6. CASE PrepareStep(a)
    <3>1. CASE PrepareBase(a)
      <4>1. PICK r : proc' = [proc EXCEPT ![a] =
                        [proc[a] EXCEPT !.pc = "p_tip", !.base = base, !.res = r]]
        BY <3>1 DEF PrepareBase, Becomes
      <4>2. proc'[a].pc = "p_tip"
        BY <1>2, <4>1 DEF Processes
      <4> QED
        BY <2>4, <4>2 DEF Preparing
    <3>2. CASE PrepareTip(a)
      <4>1. proc'[a].pc = "p_pin"
        BY <1>2, <3>2 DEF PrepareTip, Goes, Becomes, Processes
      <4> QED
        BY <2>4, <4>1 DEF Preparing
    <3>3. CASE PreparePin(a)
      <4>1. PICK bind : proc' = [proc EXCEPT ![a] = [proc[a] EXCEPT !.pc = "p_txn", !.bind = bind]]
        BY <3>3 DEF PreparePin, Becomes
      <4>2. proc'[a].pc = "p_txn"
        BY <1>2, <4>1 DEF Processes
      <4> QED
        BY <2>4, <4>2 DEF Preparing
    <3>4. CASE PrepareTxn(a) \/ PrepareTxnFails(a)
      <4>1. proc'[a].pc = "p_head"
        BY <1>2, <1>3, <3>4 DEF PrepareTxn, PrepareTxnFails, Unclear, Goes, Becomes, Processes
      <4> QED
        BY <2>4, <4>1 DEF Preparing
    <3>5. CASE PrepareHead(a)
      <4>1. proc' = [proc EXCEPT ![a] =
                [[proc[a] EXCEPT !.pc = "p_pin", !.tip = chain] EXCEPT !.tries = @ + 1]]
        BY <1>3, <3>5 DEF PrepareHead, Retry, Becomes
      <4>2. proc'[a].pc = "p_pin"
        BY <1>2, <4>1 DEF Processes
      <4> QED
        BY <2>4, <4>2 DEF Preparing
    <3> QED
      BY <1>3, <2>1, <2>6, <3>1, <3>2, <3>3, <3>4, <3>5 DEF PrepareStep, PrepareRead,
         PrepareBaseFails, Starting, At, Preparing
  <2> QED
    BY <2>2, <2>3, <2>5, <2>6 DEF ProcessStep
<1> QED
  BY <1>1, <1>4, <1>5, <1>6 DEF Doubts

\* Where the base is checked out nowhere no merge comes to refresh a worktree.
LEMMA StraightStep ==
    ASSUME ~BaseCheckedOut, TypeOK, Straight, [Next]_vars
    PROVE  Straight'
BY WhoMoves DEF Straight, Moved

\* A step that records and reports nothing, and ends nothing.
LEMMA QuietReport ==
    ASSUME ~BaseCheckedOut, TypeOK, GateInv, Straight, ReportInv, [Next]_vars,
           UNCHANGED <<chain, todo, reported>>, pins \subseteq pins'
    PROVE  ReportInv'
<1>1. ASSUME NEW b \in Actors, NEW i \in 1..Len(chain), chain[i].ev.id = CommandId(b)
      PROVE  Doubts(b, chain[i].ev.kind)'
  <2>1. PICK kind : kind = chain[i].ev.kind
    OBVIOUS
  <2>2. Doubts(b, kind)
    BY <1>1, <2>1 DEF ReportInv, Spent
  <2>3. Doubts(b, kind)' => Doubts(b, chain[i].ev.kind)'
    BY <2>1 DEF Doubts
  <2>4. CASE proc'[b] = proc[b]
    BY <2>2, <2>3, <2>4, OthersDoubt
  <2>5. CASE proc'[b] # proc[b]
    <3>1. PICK a \in Actors : ProcessStep(a) \/ Crash(a)
      BY <2>5 DEF Next, PushBase, RewindBase, PushSource, WriteIssue, Outside, vars
    <3>2. Moved(a)
      BY <3>1, AppendMoves, UpdateMoves, PrepareMoves, MergeMoves, ExitMoves
         DEF ProcessStep, Crash
    <3>3. b = a
      BY <2>5, <3>2 DEF Moved
    <3>4. todo[a] # <<>>
      BY <3>1, RunsAnInvocation
    <3>5. ~Crash(a)
      <4>1. todo[a] \in Seq(Commands)
        BY DEF TypeOK, ProcessesTyped
      <4>2. PICK m \in Nat : m = Len(todo[a])
        BY <4>1, LenProperties
      <4>3. Crash(a) => todo'[a] = Tail(todo[a])
        BY DEF Crash, TypeOK, ProcessesTyped
      <4>4. Crash(a) => m = m - 1
        BY <3>4, <4>1, <4>2, <4>3, HeadTailProperties
      <4> QED
        BY <4>2, <4>4
    <3> QED
      BY <1>1, <2>1, <2>2, <3>1, <3>3, <3>4, <3>5, DoubtsLast
  <2> QED
    BY <2>4, <2>5
<1>2. \A b \in Actors : CommandId(b)' = CommandId(b)
  BY DEF CommandId
<1>3. (\A b \in Actors : Spent(b))'
  BY <1>1, <1>2 DEF Spent
<1>4. ReportsAreTrue'
  BY DEF ReportInv, ReportsAreTrue, Misinformed
<1>5. (\A i \in 1..Len(chain) : LET j == chain[i].ev.id IN Begun(j) /\ (Over(j) \/ Misinformed(j)))'
  BY DEF ReportInv, Begun, Over, Misinformed
<1>6. (\A r \in reported : Begun(r.id) /\ (Over(r.id) \/ r.how = "unclear"))'
  BY DEF ReportInv, Begun, Over
<1> QED
  BY <1>3, <1>4, <1>5, <1>6 DEF ReportInv

LEMMA ReportStep ==
    ASSUME ~BaseCheckedOut, TypeOK, GateInv, Straight, ReportInv, [Next]_vars
    PROVE  ReportInv'
<1>1. pins \subseteq pins'
  BY RefSteps DEF UpdateTxn
<1>2. CASE UNCHANGED <<chain, todo, reported>>
  BY <1>1, <1>2, QuietReport
<1>3. CASE \E a \in Actors : Stops(a)
  BY <1>1, <1>3, StopsReport
<1>4. CASE \E a \in Actors : \E e : Records(a, e)
  BY <1>1, <1>4, RecordsReport
<1>5. CASE \E a \in Actors : Rollback(a)
  BY <1>5 DEF Rollback, At, Straight, Refreshing
<1> QED
  BY <1>2, <1>3, <1>4, <1>5, KindsOfStep

LEMMA InitReports == Init => Straight /\ ReportInv
<1> SUFFICES ASSUME Init PROVE Straight /\ ReportInv
  OBVIOUS
<1>1. Straight
  BY DEF Init, Idle, Straight, Refreshing
<1>2. \A i \in 1..Len(chain) : chain[i].ev.id[1] = Founder
  BY InitialChainsOriginal DEF Original
<1>3. DOMAIN chain = 1..Len(chain)
  BY InitTyped, LenProperties DEF TypeOK, RefsTyped, Chains
<1>4. ReportsAreTrue
  BY <1>3, InitialChainsOriginal DEF ReportsAreTrue, Original, Init
<1>5. \A a \in Actors : Spent(a)
  BY <1>2, RefsAssumption DEF Spent, CommandId
<1> QED
  BY <1>1, <1>2, <1>4, <1>5, RefsAssumption DEF ReportInv, Over, Begun, Init

(***************************************************************************)
(* Where the base is checked out in no worktree, an invocation that        *)
(* reported success has its event in the chain for good, one that reported *)
(* a refusal has left none unless git had reported its transaction as      *)
(* failed and applied it all the same, and no event is recorded twice but  *)
(* the append or the prepare of such an invocation; an update or a merge   *)
(* never is (store.rs append_event, update_pr; pr_prepare.rs prepare_pr;   *)
(* finalize.rs run_finalize).  The hypothesis is needed: a rollback takes  *)
(* the events recorded after the merge out of the chain again.             *)
(***************************************************************************)
THEOREM ReportsAreTruthful ==
    ASSUME ~BaseCheckedOut
    PROVE  Spec => []ReportsAreTrue
<1> DEFINE Inv == TypeOK /\ GateInv /\ Straight /\ ReportInv
<1>1. Init => Inv
  BY InitTyped, InitGateInv, InitReports
<1>2. Inv /\ [Next]_vars => Inv'
  BY StepTyped, StepGateInv, StraightStep, ReportStep
<1>3. Inv => ReportsAreTrue
  BY DEF ReportInv
<1> QED
  BY <1>1, <1>2, <1>3, PTL DEF Spec

----------------------------------------------------------------------------
(* The result ref. *)

\* Who changes the result ref.
LEMMA ResultSteps ==
    ASSUME [Next]_vars
    PROVE  \/ UNCHANGED result
           \/ \E a \in Actors : \/ MergeCreatesPending(a) \/ MergeTxn(a) \/ MergeCleans(a)
                                \/ PrepareTxn(a)
<1>1. ASSUME NEW a \in Actors, AppendStep(a) PROVE UNCHANGED result
  BY <1>1 DEF AppendStep, ReviewRead, CiRead, Bind, AbandonRead, AppendTip, AppendCas,
     AppendCasFails, AppendLost, refs
<1>2. ASSUME NEW a \in Actors, UpdateStep(a) PROVE UNCHANGED result
  BY <1>2 DEF UpdateStep, UpdateRead, UpdateReadSource, UpdateReadBase, UpdateTip,
     UpdateTxn, UpdateTxnFails, UpdateClaimed, UpdateMoved, UpdateHead, refs
<1>3. ASSUME NEW a \in Actors, PrepareStep(a) PROVE UNCHANGED result \/ PrepareTxn(a)
  BY <1>3 DEF PrepareStep, PrepareRead, PrepareBase, PrepareBaseFails, PrepareTip,
     PreparePin, PrepareTxnFails, PrepareHead, refs
<1>4. ASSUME NEW a \in Actors, MergeStep(a)
      PROVE  UNCHANGED result \/ MergeCreatesPending(a) \/ MergeTxn(a) \/ MergeCleans(a)
  BY <1>4 DEF MergeStep, MergeGate, MergeRefusedAtBase, MergeTakesCandidate, MergePin,
     MergeExecutes, MergeExecutionFails, MergePendingFails, MergeWorktreeGone,
     MergeWorktreeStays, MergeStages, MergeFoldsIssue, MergeStageFails, MergeTxnFails,
     MergeReadsHead, MergeReadsIssue, MergeLeavesPending, MergeRefreshes,
     MergeRefreshFails, RollbackReadsHead, Rollback, RollbackFails, refs
<1>5. ASSUME NEW a \in Actors, Crash(a) PROVE UNCHANGED result
  BY <1>5 DEF Crash, refs
<1>6. CASE PushBase \/ RewindBase \/ PushSource \/ WriteIssue \/ UNCHANGED vars
  BY <1>6 DEF PushBase, RewindBase, PushSource, WriteIssue, vars, refs
<1> QED
  BY <1>1, <1>2, <1>3, <1>4, <1>5, <1>6 DEF Next, ProcessStep

\* A merge that holds the result ref lets go of it in its transaction or its cleanup.
LEMMA OwnerEnds ==
    ASSUME TypeOK, NEW a \in Actors, ProcessStep(a), proc[a].pc \in Owning, ~Faults,
           proc'[a].pc \notin Owning
    PROVE  MergeTxn(a) \/ MergeCleans(a)
<1>1. proc \in [Actors -> Processes] /\ proc[a] \in Processes
  BY DEF TypeOK, ProcessesTyped
<1>2. ~AppendStep(a) /\ ~UpdateStep(a) /\ ~PrepareStep(a)
  BY DEF AppendStep, ReviewRead, CiRead, Bind, AbandonRead, AppendTip, AppendCas,
     AppendCasFails, AppendLost, UpdateStep, UpdateRead, UpdateReadSource, UpdateReadBase,
     UpdateTip, UpdateTxn, UpdateTxnFails, UpdateClaimed, UpdateMoved, UpdateHead,
     PrepareStep, PrepareRead, PrepareBase, PrepareBaseFails, PrepareTip, PreparePin,
     PrepareTxn, PrepareTxnFails, PrepareHead, Starting, At, Owning
<1>3. ~(\/ MergeGate(a) \/ MergeRefusedAtBase(a) \/ MergeTakesCandidate(a) \/ MergePin(a)
        \/ MergeExecutes(a) \/ MergeExecutionFails(a) \/ MergeCreatesPending(a)
        \/ MergePendingFails(a) \/ MergeRefreshes(a) \/ MergeRefreshFails(a)
        \/ RollbackReadsHead(a) \/ Rollback(a) \/ RollbackFails(a))
  BY DEF MergeGate, MergeRefusedAtBase, MergeTakesCandidate, MergePin, MergeExecutes,
     MergeExecutionFails, MergeCreatesPending, MergePendingFails, MergeRefreshes,
     MergeRefreshFails, RollbackReadsHead, Rollback, RollbackFails, Starting, At, Owning
<1>4. ASSUME NEW pc \in Owning PROVE ~Goes(a, pc)
  BY <1>1, <1>4 DEF Goes, Becomes, Processes
<1>5. ASSUME NEW next \in Processes PROVE ~Retries(a, next)
  <2>1. SUFFICES ASSUME Retries(a, next) PROVE FALSE
    OBVIOUS
  <2>2. proc'[a].pc \in {"m_clean", "m_stage"}
    <3>1. \/ SameBut(proc'[a], [proc[a] EXCEPT !.pc = "m_clean"])
          \/ SameBut(proc'[a], [next EXCEPT !.pc = "m_stage", !.stage = <<>>])
      BY <2>1, RetriesMoves
    <3> QED
      BY <1>1, <3>1 DEF SameBut, Processes
  <2> QED
    BY <2>2 DEF Owning
<1>6. [proc[a] EXCEPT !.tip = chain] \in Processes
  BY <1>1 DEF Processes, TypeOK, RefsTyped
<1>7. ~MergeReadsHead(a) /\ ~MergeReadsIssue(a)
  BY <1>1, <1>4, <1>5, <1>6 DEF MergeReadsHead, MergeReadsIssue, Owning
<1>8. ~MergeWorktreeGone(a) /\ ~MergeWorktreeStays(a) /\ ~MergeTxnFails(a)
  BY <1>4 DEF MergeWorktreeGone, MergeWorktreeStays, MergeTxnFails, Owning
<1>9. ~MergeStages(a) /\ ~MergeFoldsIssue(a)
  BY ZenonT(60), <1>1 DEF MergeStages, MergeFoldsIssue, Becomes, Processes, Owning
<1>10. ~MergeStageFails(a) /\ ~MergeLeavesPending(a)
  BY DEF MergeStageFails, MergeLeavesPending
<1> QED
  BY <1>2, <1>3, <1>7, <1>8, <1>9, <1>10 DEF ProcessStep, MergeStep

\* A recorded event adds a node to the chain and keeps the others.
LEMMA RecordsAppends ==
    ASSUME TypeOK, NEW a \in Actors, NEW e, Records(a, e)
    PROVE  /\ Len(chain) \in Nat /\ Len(chain') = Len(chain) + 1
           /\ \A i \in 1..Len(chain) : i \in 1..Len(chain') /\ chain'[i] = chain[i]
           /\ Len(chain') \in 1..Len(chain') /\ chain'[Len(chain')].ev = e
           /\ chain'[Len(chain')].st = State(chain') /\ State(chain') = Apply(State(chain), e)
           /\ e \in Events /\ chain' \in Chains /\ chain' # <<>>
<1> DEFINE n == Len(chain)
           new == Apply(State(chain), e)
<1>1. /\ chain' \in Chains /\ chain' # <<>> /\ Len(chain') = n + 1
      /\ \A i \in 1..n : chain'[i] = chain[i]
      /\ chain'[n + 1] = [ev |-> e, st |-> new] /\ State(chain') = new
  BY ExtendTyped DEF TypeOK, RefsTyped, Records
<1> HIDE DEF new
<1>2. chain'[n + 1].ev = e /\ chain'[n + 1].st = new
  BY <1>1
<1>3. n \in Nat
  BY LenProperties DEF TypeOK, RefsTyped, Chains
<1>4. e \in Events
  BY DEF Records
<1> QED
  BY <1>1, <1>2, <1>3, <1>4 DEF new

LEMMA OwnerStep ==
    ASSUME ~BaseCheckedOut, ~Faults, ~Crashes, TypeOK, Straight, OwnerInv, [Next]_vars
    PROVE  OwnerInv'
<1> DEFINE owns(a) == proc[a].pc \in Owning /\ proc[a].res = result
           pinned == \E i \in 1..Len(chain) : /\ chain[i].ev.kind = "pr.prepared"
                                              /\ chain[i].ev.bind.result = result
<1>1. SUFFICES ASSUME result' # NoCommit
               PROVE  (\E a \in Actors : owns(a))' \/ pinned'
  BY DEF OwnerInv
<1>2. CASE \E a \in Actors : PrepareTxn(a)
  <2>1. PICK a \in Actors : PrepareTxn(a)
    BY <1>2
  <2>2. PICK e : Records(a, e) /\ e.kind = "pr.prepared" /\ e.bind.result = proc[a].res
    BY <2>1, PrepareRecords
  <2>3. result' = proc[a].res
    BY <2>1 DEF PrepareTxn
  <2> QED
    BY <2>2, <2>3, RecordsAppends
<1>3. CASE \E a \in Actors : MergeCreatesPending(a)
  <2>1. PICK a \in Actors : MergeCreatesPending(a)
    BY <1>3
  <2>2. proc'[a].pc = "m_worktree" /\ proc'[a].res = proc[a].res
    BY <2>1 DEF MergeCreatesPending, Goes, Becomes, TypeOK, ProcessesTyped, Processes
  <2> QED
    BY <2>1, <2>2 DEF MergeCreatesPending, Owning
<1>4. CASE UNCHANGED result
  <2>1. CASE pinned
    <3>1. PICK i \in 1..Len(chain) : /\ chain[i].ev.kind = "pr.prepared"
                                     /\ chain[i].ev.bind.result = result
      BY <2>1
    <3>2. CASE UNCHANGED chain
      BY <1>4, <3>1, <3>2
    <3>3. CASE \E a \in Actors : \E e : Records(a, e)
      BY <1>4, <3>1, <3>3, RecordsAppends
    <3> QED
      BY <3>2, <3>3, ChainSteps DEF Straight, Rollback, At, Refreshing
  <2>2. ASSUME NEW a \in Actors, owns(a) PROVE owns(a)'
    <3>1. CASE proc'[a] = proc[a]
      BY <1>4, <2>2, <3>1
    <3>2. ASSUME ProcessStep(a) PROVE owns(a)'
      <4>1. Moved(a)
        BY <3>2, AppendMoves, UpdateMoves, PrepareMoves, MergeMoves DEF ProcessStep
      <4>2. ~MergeTxn(a) /\ ~MergeCleans(a)
        BY <1>1, <1>4, <2>2 DEF MergeTxn, MergeCleans, Owned
      <4>3. proc'[a].pc \in Owning
        BY <2>2, <3>2, <4>2, OwnerEnds
      <4>4. ~MergeTakesCandidate(a) /\ ~MergeExecutes(a) /\ Owning \subseteq Landing
        BY <2>2 DEF MergeTakesCandidate, MergeExecutes, At, Owning, Landing, Finalizing
      <4> QED
        BY <1>4, <2>2, <4>1, <4>3, <4>4 DEF Moved
    <3>3. ASSUME NEW b \in Actors, ProcessStep(b), b # a PROVE proc'[a] = proc[a]
      BY <3>3, AppendMoves, UpdateMoves, PrepareMoves, MergeMoves DEF ProcessStep, Moved
    <3>4. CASE PushBase \/ RewindBase \/ PushSource \/ WriteIssue \/ UNCHANGED vars
      BY <3>1, <3>4 DEF PushBase, RewindBase, PushSource, WriteIssue, Outside, vars
    <3> QED
      BY <3>1, <3>2, <3>3, <3>4 DEF Next
  <2>3. (\E a \in Actors : owns(a)) \/ pinned
    BY <1>1, <1>4 DEF OwnerInv
  <2> QED
    BY <2>1, <2>2, <2>3
<1>5. CASE \E a \in Actors : MergeTxn(a) \/ MergeCleans(a)
  BY <1>1, <1>4, <1>5 DEF MergeTxn, MergeCleans
<1> QED
  BY <1>2, <1>3, <1>4, <1>5, ResultSteps

LEMMA InitOwner == Init => OwnerInv
<1> SUFFICES ASSUME Init, result # NoCommit PROVE OwnerInv
  BY DEF OwnerInv
<1>1. result = Candidate0.result /\ chain = Vetted(Prepared, Candidate0)
  BY DEF Init, Reached
<1>2. StartsAt(chain, Candidate0.result)
  BY <1>1, PreparedTyped, VettedTyped
<1> QED
  BY <1>1, <1>2, InitialChainsOriginal DEF StartsAt, Original, OwnerInv

(***************************************************************************)
(* Where no git operation fails for a reason of its own, no process is     *)
(* killed and the base is checked out in no worktree, the result ref is    *)
(* never left behind: it holds the result of a merge that is under way, or *)
(* of a candidate the chain records (merge_state.rs                        *)
(* cleanup_pending_result).  The hypotheses are needed: each of a kill, a  *)
(* failed deletion and a rolled-back prepare leaves the ref behind, and    *)
(* then LeftoversAreTheirOwn says what may happen to it.                   *)
(***************************************************************************)
THEOREM ResultRefOwned ==
    ASSUME ~BaseCheckedOut, ~Faults, ~Crashes
    PROVE  Spec => []ResultRefIsOwned
<1> DEFINE Inv == TypeOK /\ Straight /\ OwnerInv
<1>1. Init => Inv
  BY InitTyped, InitReports, InitOwner
<1>2. Inv /\ [Next]_vars => Inv'
  BY StepTyped, StraightStep, OwnerStep
<1>3. Inv => ResultRefIsOwned
  <2>1. TypeOK => DOMAIN chain = 1..Len(chain)
    BY LenProperties DEF TypeOK, RefsTyped, Chains
  <2>2. Owning \subseteq Finalizing
    BY DEF Owning, Finalizing
  <2> QED
    BY <2>1, <2>2 DEF OwnerInv, ResultRefIsOwned
<1> QED
  BY <1>1, <1>2, <1>3, PTL DEF Spec

----------------------------------------------------------------------------
(* The base branch. *)

\* A new commit is added to those that were made.
LEMMA NewCommitFields ==
    ASSUME ObjectsTyped, NEW anc \in SUBSET Made, NEW from \in Nat, NewCommit(anc, from)
    PROVE  /\ Made' = Made \cup {NextCommit} /\ Made \subseteq Nat /\ NextCommit \in Nat
           /\ NextCommit \notin Made
           /\ \A c \in Made : objects'[c] = objects[c]
           /\ objects'[NextCommit].anc = anc \cup {NextCommit}
           /\ objects'[NextCommit].from = from
<1> DEFINE Obj == [anc : SUBSET Nat, from : Nat]
           o == [anc |-> anc \cup {NextCommit}, from |-> from]
<1>1. Made' = Made \cup {NextCommit} /\ Made \subseteq Nat /\ NextCommit \in Nat
  BY NewCommitTyped
<1>2. Made = 1..Len(objects) /\ Len(objects) \in Nat
  BY LenProperties DEF ObjectsTyped, Made
<1>3. o \in Obj /\ objects \in Seq(Obj)
  BY <1>1 DEF ObjectsTyped
<1>4. objects' = Append(objects, o) /\ NextCommit = Len(objects) + 1
  BY DEF NewCommit, NextCommit
<1>5. o.anc = anc \cup {NextCommit} /\ o.from = from
  OBVIOUS
<1> HIDE DEF o, Obj
<1>6. objects'[NextCommit] = o /\ \A c \in Made : objects'[c] = objects[c]
  BY <1>2, <1>3, <1>4, AppendProperties
<1> QED
  BY <1>1, <1>2, <1>4, <1>5, <1>6

\* What is known of a commit stays known.
LEMMA GroundedGrows ==
    ASSUME ObjectsTyped, Grown, \A c \in Made : c \in Anc(c), NEW r
    PROVE  /\ r \in Made /\ Pure(r) => r \in Made' /\ Pure(r)'
           /\ \A b : Grounded(r, b) => Grounded(r, b)'
<1>1. \A c \in Made : /\ c \in Made' /\ (Anc(c))' = Anc(c) /\ Anc(c) \subseteq Made
                      /\ (Built(c))' <=> Built(c)
  BY DEF ObjectsTyped, Grown, Anc, Built
<1>2. ASSUME r \in Made, Pure(r) PROVE r \in Made' /\ Pure(r)'
  BY <1>1, <1>2 DEF Pure
<1>3. ASSUME NEW b, Grounded(r, b) PROVE Grounded(r, b)'
  BY <1>1, <1>3 DEF Grounded
<1> QED
  BY <1>2, <1>3

\* People's commits are not built, and a strategy run on one builds at most its result.
LEMMA ExecutesGrounds ==
    ASSUME ObjectsTyped, NEW strategy, NEW s \in Made, NEW b \in Made, NEW r,
           Executes(strategy, s, b, r), strategy = "ff" => b \in Anc(s), Pure(s),
           \A c \in Made : c \in Anc(c)
    PROVE  Grounded(r, b)'
<1>1. Anc(s) \subseteq Made /\ Anc(b) \subseteq Made
  BY DEF ObjectsTyped
<1>2. CASE UNCHANGED objects /\ r \in Reused(strategy, s, b)
  <2>1. (r = s /\ b \in Anc(s)) \/ r = b
    BY <1>2 DEF Reused
  <2>2. Grounded(r, b)
    BY <1>1, <2>1 DEF Grounded, Pure
  <2> QED
    BY <1>2, <2>2 DEF Grounded, Built, Anc, Made
<1>3. CASE r = NextCommit /\ NewCommit(Kept(strategy, s, b), s)
  <2>1. Kept(strategy, s, b) \in SUBSET Made /\ b \in Kept(strategy, s, b)
    BY <1>1 DEF Kept
  <2>2. s \in Nat
    BY LenProperties DEF ObjectsTyped, Made
  <2>3. /\ Made' = Made \cup {NextCommit} /\ NextCommit \notin Made
        /\ \A c \in Made : objects'[c] = objects[c]
        /\ objects'[NextCommit].anc = Kept(strategy, s, b) \cup {NextCommit}
    BY <1>3, <2>1, <2>2, NewCommitFields
  <2>4. (Anc(r))' = Kept(strategy, s, b) \cup {r} /\ (Anc(b))' = Anc(b)
    BY <1>3, <2>3 DEF Anc
  <2>5. \A x \in Made : Built(x)' <=> Built(x)
    BY <2>3 DEF Built
  <2>6. \A x \in Kept(strategy, s, b) : x \in Anc(b) \/ ~Built(x)
    BY DEF Kept, Pure
  <2>7. \A x \in (Anc(r))' : Built(x)' => x = r \/ x \in (Anc(b))'
    BY <2>1, <2>4, <2>5, <2>6
  <2> QED
    BY <1>3, <2>1, <2>3, <2>4, <2>7 DEF Grounded
<1> QED
  BY <1>2, <1>3 DEF Executes

\* Commits and pins are only ever added; a strategy's new commit stands on the base it ran on.
LEMMA CommitsGrow ==
    ASSUME TypeOK, LandingInv, [Next]_vars
    PROVE  Grown
<1>1. /\ ObjectsTyped /\ base \in Made /\ source \in Made /\ \A c \in Made : c \in Anc(c)
      /\ NextCommit \in Nat
  BY LenProperties DEF TypeOK, RefsTyped, LandingInv, ObjectsTyped, NextCommit
<1>2. pins \subseteq pins'
  BY RefSteps DEF UpdateTxn
<1>3. CASE UNCHANGED objects
  BY <1>2, <1>3 DEF Grown, Made
<1>4. ASSUME NEW c \in Made, NewCommit(Anc(c), NextCommit) PROVE Grown
  <2>1. Anc(c) \in SUBSET Made
    BY <1>1 DEF ObjectsTyped
  <2> QED
    BY <1>1, <1>2, <1>4, <2>1, NewCommitGrows DEF Grown
<1>5. ASSUME NEW strategy, NEW s \in Made, NEW r, Executes(strategy, s, base, r) PROVE Grown
  BY <1>1, <1>2, <1>5, ExecutesCarries DEF Grown
<1>6. ASSUME NEW a \in Actors, PrepareBase(a) \/ MergeExecutes(a) PROVE Grown
  <2>1. proc[a].src \in Made
    BY <1>6 DEF TypeOK, ProcessesTyped, Legal, HasSource, PrepareBase, MergeExecutes, At
  <2>2. \E strategy, r : Executes(strategy, proc[a].src, base, r)
    BY <1>6 DEF PrepareBase, MergeExecutes
  <2> QED
    BY <1>5, <2>1, <2>2
<1> QED
  BY <1>1, <1>3, <1>4, <1>6, RefSteps DEF PushBase, PushSource

\* The source branch and the pins keep naming people's commits.
LEMMA SourcesStep ==
    ASSUME TypeOK, LandingInv, GroundInv, [Next]_vars
    PROVE  /\ (source \in Made /\ Pure(source))'
           /\ (\A p \in pins : p.source \in Made /\ Pure(p.source))'
<1>1. /\ ObjectsTyped /\ source \in Made /\ \A c \in Made : c \in Anc(c) /\ Grown
  BY CommitsGrow DEF TypeOK, RefsTyped, LandingInv
<1>2. ASSUME NEW c \in Made, Pure(c) PROVE c \in Made' /\ Pure(c)'
  BY <1>1, <1>2, GroundedGrows
<1>3. (source \in Made /\ Pure(source))'
  <2>1. CASE UNCHANGED source
    <3>1. PICK s : s = source
      OBVIOUS
    <3>2. s \in Made' /\ Pure(s)'
      BY <1>2, <3>1 DEF GroundInv
    <3> QED
      BY <2>1, <3>1, <3>2 DEF Pure, Built, Anc
  <2>2. CASE PushSource
    <3>1. Anc(source) \in SUBSET Made /\ NextCommit \in Nat
      BY <1>1, LenProperties DEF ObjectsTyped, NextCommit
    <3>2. PICK s : s = NextCommit
      OBVIOUS
    <3>3. /\ Made' = Made \cup {s} /\ objects'[s].anc = Anc(source) \cup {s}
          /\ objects'[s].from = s /\ \A c \in Made : objects'[c] = objects[c]
      BY <1>1, <2>2, <3>1, <3>2, NewCommitFields DEF PushSource
    <3>4. Pure(source)
      BY DEF GroundInv
    <3>5. s \in Made' /\ Pure(s)'
      BY <3>1, <3>3, <3>4 DEF Pure, Built, Anc
    <3> QED
      BY <2>2, <3>2, <3>5 DEF PushSource, Pure, Built, Anc
  <2> QED
    BY <2>1, <2>2, RefSteps
<1>4. ASSUME NEW p \in pins' PROVE (p.source \in Made /\ Pure(p.source))'
  <2>1. p.source \in Made /\ Pure(p.source)
    <3>1. CASE p \in pins
      BY <3>1 DEF GroundInv
    <3>2. CASE p \notin pins
      <4>1. PICK a \in Actors : UpdateTxn(a)
        BY <1>4, <3>2, RefSteps
      <4>2. p = Pin(proc[a].gen, proc[a].src, proc[a].base) /\ proc[a].pc = "u_txn"
        BY <1>4, <3>2, <4>1 DEF UpdateTxn, At
      <4>3. p.source = proc[a].src
        BY <4>2 DEF Pin
      <4> QED
        BY <4>2, <4>3 DEF GroundInv, Updating
    <3> QED
      BY <3>1, <3>2
  <2> QED
    BY <1>2, <2>1
<1> QED
  BY <1>3, <1>4

\* The chain's candidate stands on its base.
LEMMA GroundedTipStep ==
    ASSUME TypeOK, LandingInv, GroundInv, [Next]_vars
    PROVE  GroundedTip(chain)'
<1>1. Grown /\ ObjectsTyped /\ \A c \in Made : c \in Anc(c)
  BY CommitsGrow DEF TypeOK, LandingInv
<1>2. \A r, b : Grounded(r, b) => Grounded(r, b)'
  BY <1>1, GroundedGrows
<1>6. ASSUME NEW c, GroundedTip(c), chain' = c PROVE GroundedTip(chain)'
  <2>1. GroundedTip(c)'
    BY <1>2, <1>6 DEF GroundedTip
  <2> QED
    BY <1>6, <2>1 DEF GroundedTip, Grounded, Anc, Built
<1>3. CASE UNCHANGED chain
  BY <1>3, <1>6 DEF GroundInv
<1>4. ASSUME NEW a \in Actors, NEW e, Records(a, e) PROVE GroundedTip(chain)'
  <2>1. PICK st, new : st = State(chain) /\ new = Apply(st, e)
    OBVIOUS
  <2>2. (State(chain))' = new /\ e \in Events /\ e.kind # "pr.created"
    BY <1>4, <2>1, RecordsAppends DEF Records
  <2>3. st \in States
    BY <2>1, StateTyped DEF TypeOK, RefsTyped
  <2>4. CASE e.kind = "pr.prepared"
    <3>1. new.prepared.result = e.bind.result /\ new.prepared.base = e.base
      BY <2>1, <2>2, <2>3, <2>4 DEF Apply, States
    <3>2. proc[a].pc = "p_txn" /\ e.bind.result = proc[a].res /\ e.base = proc[a].base
      BY <1>4, <2>4 DEF Records, PrepareTxn, At
    <3>3. Grounded(proc[a].res, proc[a].base)
      BY <3>2 DEF GroundInv, Prepares, Preparing
    <3> QED
      BY <1>2, <2>2, <3>1, <3>2, <3>3 DEF GroundedTip, Grounded, Anc, Built
  <2>5. CASE e.kind # "pr.prepared"
    <3>1. new.prepared = st.prepared
      BY <2>1, <2>2, <2>3, <2>5, ApplySnapshot
    <3>2. PICK k : k = st.prepared
      OBVIOUS
    <3>3. k.result # NoCommit => Grounded(k.result, k.base)'
      BY <1>2, <2>1, <3>2 DEF GroundInv, GroundedTip
    <3> QED
      BY <2>2, <3>1, <3>2, <3>3 DEF GroundedTip, Grounded, Anc, Built
  <2> QED
    BY <2>4, <2>5
<1>5. ASSUME NEW a \in Actors, Rollback(a) PROVE GroundedTip(chain)'
  <2>1. chain' = proc[a].tip /\ proc[a].tip # <<>>
    BY <1>5 DEF Rollback, At, TypeOK, ProcessesTyped, Legal, HasNoTip
  <2> QED
    BY <1>6, <2>1 DEF GroundInv
<1> QED
  BY <1>3, <1>4, <1>5, ChainSteps

\* What a running process builds, or takes over, stands on the base it captured.
LEMMA ResultStep ==
    ASSUME TypeOK, GateInv, LandingInv, GroundInv, NEW a \in Actors,
           PrepareBase(a) \/ MergeExecutes(a) \/ MergeTakesCandidate(a), Grown,
           NEW res, NEW under, proc'[a].res = res, proc'[a].base = under
    PROVE  Grounded(res, under)'
<1> DEFINE p == proc[a]
<1>1. /\ ObjectsTyped /\ base \in Made /\ \A c \in Made : c \in Anc(c)
      /\ p \in Processes /\ Legal(p, Made) /\ LandingProcess(p, Command(a).arg)
      /\ SoundProcess(p, pins) /\ proc \in [Actors -> Processes]
  BY DEF TypeOK, RefsTyped, LandingInv, ProcessesTyped, GateInv
<1>2. \A g, s : PinnedAt(g, s) => Pure(s)
  BY DEF PinnedAt, GroundInv
<1>3. CASE PrepareBase(a)
  <2>1. p.pc = "p_base" /\ p.src \in Made /\ Pure(p.src)
    BY <1>1, <1>2, <1>3 DEF PrepareBase, At, LandingProcess, Preparing, Legal, HasSource
  <2>2. PICK r : /\ Executes(Command(a).arg, p.src, base, r)
                 /\ Becomes(a, [p EXCEPT !.pc = "p_tip", !.base = base, !.res = r])
    BY <1>3 DEF PrepareBase
  <2>3. Command(a).arg = "ff" => base \in Anc(p.src)
    BY <1>3 DEF PrepareBase
  <2>4. PICK b : b = base
    OBVIOUS
  <2>5. Grounded(r, b)'
    BY <1>1, <2>1, <2>2, <2>3, <2>4, ExecutesGrounds
  <2>6. proc'[a].res = r /\ proc'[a].base = b
    BY <1>1, <2>2, <2>4 DEF Becomes, Processes
  <2> QED
    BY <2>5, <2>6
<1>4. CASE MergeExecutes(a)
  <2>1. p.pc = "m_base" /\ p.src \in Made
    BY <1>1, <1>4 DEF MergeExecutes, At, Legal, HasSource
  <2>2. Pure(p.src)
    <3>1. /\ LandingChain(p.tip) /\ p.src = State(p.tip).source /\ p.tip # <<>>
          /\ p.tip \in Chains
      BY <1>1, <2>1 DEF LandingProcess, Gated, Legal, HasNoTip, Processes
    <3>2. Len(p.tip) \in 1..Len(p.tip)
      BY <3>1, LastElement DEF Chains
    <3>3. LandingAt(p.tip, Len(p.tip))
      BY <3>1, <3>2 DEF LandingChain
    <3>4. Pin(State(p.tip).gen, State(p.tip).source, State(p.tip).base) \in pins
      BY <3>3 DEF LandingAt, State
    <3> QED
      BY <3>1, <3>4 DEF GroundInv, Pin
  <2>3. PICK r : /\ Executes(Command(a).arg, p.src, base, r)
                 /\ Becomes(a, [p EXCEPT !.pc = "m_pending", !.base = base, !.res = r])
    BY <1>4 DEF MergeExecutes
  <2>4. Command(a).arg = "ff" => base \in Anc(p.src)
    BY <1>4 DEF MergeExecutes, Routed
  <2>5. PICK b : b = base
    OBVIOUS
  <2>6. Grounded(r, b)'
    BY <1>1, <2>1, <2>2, <2>3, <2>4, <2>5, ExecutesGrounds
  <2>7. proc'[a].res = r /\ proc'[a].base = b
    BY <1>1, <2>3, <2>5 DEF Becomes, Processes
  <2> QED
    BY <2>6, <2>7
<1>5. CASE MergeTakesCandidate(a)
  <2>1. PICK k : k = State(p.tip).prepared
    OBVIOUS
  <2>2. k.result # NoCommit /\ p.pc = "m_base"
    BY <1>5, <2>1 DEF MergeTakesCandidate, CandidateCurrent, At
  <2>3. Grounded(k.result, k.base)
    BY <1>1, <2>1, <2>2 DEF Legal, HasNoTip, GroundInv, GroundedTip
  <2>4. proc'[a].res = k.result /\ proc'[a].base = k.base
    BY <1>1, <1>5, <2>1 DEF MergeTakesCandidate, Becomes, Processes
  <2> QED
    BY <1>1, <2>3, <2>4, GroundedGrows
<1> QED
  BY <1>3, <1>4, <1>5

LEMMA GroundStep ==
    ASSUME TypeOK, GateInv, LandingInv, GroundInv, [Next]_vars
    PROVE  GroundInv'
<1>1. Grown /\ ObjectsTyped /\ \A c \in Made : c \in Anc(c)
  BY CommitsGrow DEF TypeOK, LandingInv
<1>2. \A r, b : Grounded(r, b) => Grounded(r, b)'
  BY <1>1, GroundedGrows
<1>3. \A r : r \in Made /\ Pure(r) => r \in Made' /\ Pure(r)'
  BY <1>1, GroundedGrows
<1>4. ASSUME NEW c, GroundedTip(c) PROVE GroundedTip(c)'
  BY <1>2, <1>4 DEF GroundedTip
<1>5. ASSUME NEW b \in Actors, NEW q, proc'[b] = q
      PROVE  /\ q.tip # <<>> => GroundedTip(q.tip)'
             /\ q.pc \in Updating \ {"u_source"} => q.src \in Made' /\ Pure(q.src)'
             /\ q.pc \in Prepares \cup Landing => Grounded(q.res, q.base)'
  <2>1. PICK p : p = proc[b] /\ q = proc'[b]
    BY <1>5
  <2>2. /\ p.tip # <<>> => GroundedTip(p.tip)
        /\ p.pc \in Updating \ {"u_source"} => p.src \in Made /\ Pure(p.src)
        /\ p.pc \in Prepares \cup Landing => Grounded(p.res, p.base)
    BY <2>1 DEF GroundInv
  <2>3. CASE q = p
    BY <1>2, <1>3, <1>4, <2>1, <2>2, <2>3
  <2>4. CASE Moved(b)
    <3>1. q.tip # <<>> => GroundedTip(q.tip)'
      <4>1. q.tip \in {<<>>, p.tip, chain} /\ GroundedTip(chain)
        BY <2>1, <2>4 DEF Moved, GroundInv
      <4> QED
        BY <1>4, <2>2, <4>1
    <3>2. ASSUME q.pc \in Updating \ {"u_source"} PROVE q.src \in Made' /\ Pure(q.src)'
      <4>1. p.pc \in Updating /\ q.src = IF p.pc = "u_source" THEN source ELSE p.src
        BY <2>1, <2>4, <3>2 DEF Moved
      <4>2. q.src \in Made /\ Pure(q.src)
        BY <2>2, <4>1 DEF GroundInv
      <4> QED
        BY <1>3, <4>2
    <3>3. ASSUME q.pc \in Prepares \cup Landing PROVE Grounded(q.res, q.base)'
      <4>1. \/ PrepareBase(b) \/ MergeTakesCandidate(b) \/ MergeExecutes(b)
            \/ p.pc \in Prepares \cup Landing /\ q.res = p.res /\ q.base = p.base
        BY <2>1, <2>4, <3>3 DEF Moved
      <4>2. CASE PrepareBase(b) \/ MergeTakesCandidate(b) \/ MergeExecutes(b)
        BY <1>1, <2>1, <4>2, ResultStep
      <4> QED
        BY <1>2, <2>2, <4>1, <4>2
    <3> QED
      BY <2>1, <3>1, <3>2, <3>3
  <2> QED
    BY <2>1, <2>3, <2>4, WhoMoves DEF Moved
<1>6. (\A b \in Actors : LET p == proc[b] IN
          /\ p.tip # <<>> => GroundedTip(p.tip)
          /\ p.pc \in Updating \ {"u_source"} => p.src \in Made /\ Pure(p.src)
          /\ p.pc \in Prepares \cup Landing => Grounded(p.res, p.base))'
  <2> SUFFICES ASSUME NEW b \in Actors
      PROVE  (LET p == proc[b] IN
              /\ p.tip # <<>> => GroundedTip(p.tip)
              /\ p.pc \in Updating \ {"u_source"} => p.src \in Made /\ Pure(p.src)
              /\ p.pc \in Prepares \cup Landing => Grounded(p.res, p.base))'
    OBVIOUS
  <2>1. PICK q : proc'[b] = q
    OBVIOUS
  <2>2. /\ q.tip # <<>> => GroundedTip(q.tip)'
        /\ q.pc \in Updating \ {"u_source"} => q.src \in Made' /\ Pure(q.src)'
        /\ q.pc \in Prepares \cup Landing => Grounded(q.res, q.base)'
    BY <1>5, <2>1
  <2> QED
    BY <2>1, <2>2 DEF GroundedTip, Grounded, Pure, Anc, Built
<1> QED
  BY <1>6, SourcesStep, GroundedTipStep DEF GroundInv

\* The commits from before the scripts are people's.
LEMMA Commits0Fields ==
    /\ Len(Commits0) \in Nat /\ Source0 \in 1..Len(Commits0) /\ Base0 \in 1..Len(Commits0)
    /\ \A c \in 1..Len(Commits0) :
          Commits0[c].from = c /\ Commits0[c].anc \subseteq 1..Len(Commits0)
<1> DEFINE Obj == [anc : SUBSET Nat, from : Nat]
           two == <<[anc |-> {1}, from |-> 1], [anc |-> {1, 2}, from |-> 2]>>
           third == [anc |-> {1, 3}, from |-> 3]
           n == Len(Commits0)
<1>1. /\ two \in Seq(Obj) /\ Len(two) = 2 /\ two[1].anc = {1} /\ two[2].anc = {1, 2}
      /\ two[1].from = 1 /\ two[2].from = 2
      /\ third \in Obj /\ third.anc = {1, 3} /\ third.from = 3
  OBVIOUS
<1>2. Commits0 = IF Diverged THEN Append(two, third) ELSE two
  BY DEF Commits0
<1> HIDE DEF two, third, Obj
<1>3. CASE Diverged
  <2>1. /\ Len(Append(two, third)) = Len(two) + 1
        /\ \A c \in 1..Len(two) : Append(two, third)[c] = two[c]
        /\ Append(two, third)[Len(two) + 1] = third
    <3>1. two \in Seq(Obj) /\ third \in Obj
      BY <1>1
    <3> QED
      BY ONLY <3>1, AppendProperties
  <2>2. Len(two) + 1 = 3 /\ 1 \in 1..Len(two) /\ 2 \in 1..Len(two)
    BY <1>1
  <2>3. n = 3 /\ Commits0[1] = two[1] /\ Commits0[2] = two[2] /\ Commits0[3] = third
    BY <1>2, <1>3, <2>1, <2>2
  <2> QED
    BY <1>1, <1>3, <2>3 DEF Source0, Base0
<1>4. CASE ~Diverged
  <2>1. n = 2 /\ Commits0 = two
    BY <1>1, <1>2, <1>4
  <2> QED
    BY <1>1, <1>4, <2>1 DEF Source0, Base0
<1> QED
  BY <1>3, <1>4

\* Both branches start as people's, and a candidate that was prepared stands on the base.
LEMMA InitialGround ==
    ASSUME Init
    PROVE  /\ Source0 \in Made /\ Pure(Source0) /\ Base0 \in Made /\ Pure(Base0)
           /\ chain = Vetted(Prepared, Candidate0) => Grounded(Candidate0.result, Base0)
           /\ chain # Vetted(Prepared, Candidate0) => State(chain).prepared.result = NoCommit
<1> DEFINE Obj == [anc : SUBSET Nat, from : Nat]
           n == Len(Commits0)
           o == [anc |-> 1..n + 1, from |-> Source0]
<1>1. /\ n \in Nat /\ Source0 \in 1..n /\ Base0 \in 1..n
      /\ \A c \in 1..n : Commits0[c].from = c /\ Commits0[c].anc \subseteq 1..n
  BY Commits0Fields
<1>2. ASSUME \A c \in 1..n : c \in Made /\ objects[c] = Commits0[c]
      PROVE  /\ \A c \in 1..n : ~Built(c) /\ Pure(c)
             /\ Source0 \in Made /\ Pure(Source0) /\ Base0 \in Made /\ Pure(Base0)
  <2>1. \A c \in 1..n : ~Built(c) /\ Anc(c) \subseteq 1..n
    BY <1>1, <1>2 DEF Built, Anc
  <2> QED
    BY <1>1, <1>2, <2>1 DEF Pure
<1>3. CASE objects = Commits0 /\ chain \in {Created, Vetted(Created, NoBind)}
  <2>1. \A c \in 1..n : c \in Made /\ objects[c] = Commits0[c]
    BY <1>3, Commits0Typed, LenProperties DEF Made
  <2>2. State(chain).prepared.result = NoCommit
    <3>1. NoBind \in Binds
      BY DEF Binds, NoBind, Words, NoCommit
    <3> QED
      BY <1>3, <3>1, CreatedTyped, VettedTyped DEF StartsAt
  <2>3. chain # Vetted(Prepared, Candidate0)
    <3>1. Candidate0.result # NoCommit
      BY <1>1 DEF Candidate0, NoCommit
    <3> QED
      BY <2>2, <3>1, PreparedTyped, VettedTyped DEF StartsAt
  <2> QED
    BY <1>2, <2>1, <2>2, <2>3
<1>4. CASE objects = Append(Commits0, o) /\ chain = Vetted(Prepared, Candidate0)
  <2>1. Commits0 \in Seq(Obj) /\ o \in Obj
    BY <1>1, Commits0Typed
  <2>2. o.anc = 1..n + 1 /\ o.from = Source0
    OBVIOUS
  <2> HIDE DEF o, Obj
  <2>3. /\ objects \in Seq(Obj) /\ Len(objects) = n + 1 /\ objects[n + 1] = o
        /\ \A c \in 1..n : objects[c] = Commits0[c]
    BY <1>1, <1>4, <2>1, AppendProperties
  <2>4. Made = 1..n + 1
    BY <1>1, <2>3, LenProperties DEF Made
  <2>5. \A c \in 1..n : ~Built(c) /\ Pure(c)
    BY <1>1, <1>2, <2>3, <2>4
  <2>6. Candidate0.result = n + 1 /\ Anc(n + 1) = 1..n + 1
    BY <2>2, <2>3 DEF Candidate0, Anc
  <2>7. Grounded(n + 1, Base0)
    <3>1. n + 1 \in Made /\ Base0 \in Made /\ Base0 \in Anc(n + 1)
      BY <1>1, <2>4, <2>6
    <3>2. \A x \in Anc(n + 1) : x = n + 1 \/ x \in 1..n
      BY <1>1, <2>6
    <3> QED
      BY <2>5, <3>1, <3>2 DEF Grounded
  <2> QED
    BY <1>1, <1>2, <1>4, <2>3, <2>4, <2>6, <2>7
<1> QED
  BY <1>3, <1>4 DEF Init, Reached

LEMMA InitGround == Init => GroundInv
<1> SUFFICES ASSUME Init PROVE GroundInv
  OBVIOUS
<1>1. /\ source = Source0 /\ pins = {Pin(0, Source0, Base0)}
      /\ Pin(0, Source0, Base0).source = Source0
  BY DEF Init, Pin
<1>2. GroundedTip(chain)
  BY InitialGround, InitialChainsOriginal DEF GroundedTip, Original
<1>3. \A a \in Actors : proc[a].pc = "idle" /\ proc[a].tip = <<>>
  BY DEF Init, Idle
<1> QED
  BY <1>1, <1>2, <1>3, InitialGround DEF GroundInv, Updating, Prepares, Preparing, Landing,
     Finalizing

\* Commits, chain and processes, as the theorems on the base branch need them.
LEMMA GroundHolds == Spec => [](TypeOK /\ GateInv /\ LandingInv /\ MergeInv /\ GroundInv)
<1> DEFINE Inv == TypeOK /\ GateInv /\ LandingInv /\ MergeInv /\ GroundInv
<1>1. Init => Inv
  BY InitTyped, InitGateInv, InitLanding, InitMergeInv, InitGround
<1>2. Inv /\ [Next]_vars => Inv'
  BY StepTyped, StepGateInv, StepLanding, MergeInvStep, GroundStep
<1> QED
  BY <1>1, <1>2, PTL DEF Spec

\* A merge's transaction records its result in a chain that had no merge.
LEMMA MergeLands ==
    ASSUME TypeOK, GateInv, MergeInv, NEW a \in Actors, MergeTxn(a)
    PROVE  State(chain').merged = proc[a].res /\ State(chain).merged = NoCommit
<1>1. PICK e : Records(a, e) /\ e.kind = "pr.merge"
  BY MergeRecords
<1>2. e \in Events /\ e.bind.result = proc[a].res /\ chain' = Extend(chain, e)
  BY <1>1 DEF Records
<1>3. State(chain).merged = NoCommit
  BY MergeFacts
<1>4. chain \in Chains /\ chain # <<>> /\ SoundChain(chain) /\ OneMerge(chain)
  BY DEF TypeOK, RefsTyped, GateInv, MergeInv
<1>5. State(chain').merged = e.bind.result
  BY <1>1, <1>2, <1>3, <1>4, ExtendOneMerge DEF Records
<1> QED
  BY <1>2, <1>3, <1>5

\* Only a merge's transaction records a merge, and the one it records is of its result.
LEMMA LandsByMerge ==
    ASSUME TypeOK, GateInv, MergeInv, [Next]_vars, Lands
    PROVE  \E a \in Actors : MergeTxn(a) /\ State(chain').merged = proc[a].res
<1>1. chain' # chain
  BY DEF Lands
<1>2. ASSUME NEW a \in Actors, Rollback(a) PROVE FALSE
  <2>1. chain' = proc[a].tip /\ proc[a].pc \in Refreshing
    BY <1>2 DEF Rollback, At, Refreshing
  <2>2. State(proc[a].tip).merged = NoCommit
    BY <2>1, MergeFacts
  <2> QED
    BY <2>1, <2>2 DEF Lands
<1>3. PICK a \in Actors : \E e : Records(a, e)
  BY <1>1, <1>2, ChainSteps
<1>4. PICK e : Records(a, e)
  BY <1>3
<1>5. e \in Events /\ e.kind # "pr.created" /\ chain' = Extend(chain, e)
  BY <1>4 DEF Records
<1>6. /\ chain \in Chains /\ chain # <<>> /\ SoundChain(chain) /\ OneMerge(chain)
      /\ State(chain).merged = NoCommit
  BY DEF TypeOK, RefsTyped, GateInv, MergeInv, Lands
<1>7. State(chain').merged = IF e.kind = "pr.merge" THEN e.bind.result ELSE State(chain).merged
  BY <1>5, <1>6, ExtendOneMerge
<1>8. e.kind = "pr.merge" => MergeTxn(a) /\ e.bind.result = proc[a].res
  BY <1>4 DEF Records
<1> QED
  BY <1>7, <1>8 DEF Lands

(***************************************************************************)
(* A merge moves the base branch to its recorded result, and everything    *)
(* that was on the base at that moment is still under it, whatever pushes  *)
(* and rewinds came between the gate and the transaction (merge_state.rs   *)
(* finalize_pr_merge).                                                     *)
(***************************************************************************)
THEOREM TheBaseIsKept == Spec => MergeKeepsTheBase
<1>1. ASSUME TypeOK, GateInv, LandingInv, MergeInv, GroundInv, [Next]_vars, Lands
      PROVE  base' = State(chain').merged /\ base \in objects'[base'].anc
  <2>1. PICK a \in Actors : MergeTxn(a) /\ State(chain').merged = proc[a].res
    BY <1>1, LandsByMerge
  <2>2. base' = proc[a].res /\ base = proc[a].base /\ UNCHANGED objects /\ proc[a].pc = "m_txn"
    BY <2>1 DEF MergeTxn, FinalizeHolds, At
  <2>3. Grounded(proc[a].res, proc[a].base)
    BY <1>1, <2>2 DEF GroundInv, Landing, Finalizing
  <2> QED
    BY <2>1, <2>2, <2>3 DEF Grounded, Anc
<1>2. ASSUME TypeOK, GateInv, LandingInv, MergeInv, GroundInv, [Next]_vars
      PROVE  [Lands => base' = State(chain').merged /\ base \in objects'[base'].anc]_vars
  BY <1>1, <1>2
<1> QED
  BY <1>2, GroundHolds, PTL DEF Spec, MergeKeepsTheBase

\* A merge is recorded, rolled back, or stays as it is.
LEMMA MergedSteps ==
    ASSUME TypeOK, GateInv, MergeInv, [Next]_vars
    PROVE  \/ \E a \in Actors : /\ MergeTxn(a) /\ State(chain').merged = proc[a].res
                                /\ State(chain).merged = NoCommit
           \/ \E a \in Actors : Rollback(a) /\ State(chain').merged = NoCommit
           \/ /\ State(chain').merged = State(chain).merged
              /\ \A a \in Actors : ~MergeTxn(a) /\ ~Rollback(a)
<1>1. ASSUME NEW a \in Actors, MergeTxn(a)
      PROVE  State(chain').merged = proc[a].res /\ State(chain).merged = NoCommit
  BY <1>1, MergeLands
<1>2. ASSUME NEW a \in Actors, Rollback(a) PROVE State(chain').merged = NoCommit
  <2>1. chain' = proc[a].tip /\ proc[a].pc \in Refreshing
    BY <1>2 DEF Rollback, At, Refreshing
  <2> QED
    BY <2>1, MergeFacts
<1>3. ASSUME \A a \in Actors : ~MergeTxn(a) /\ ~Rollback(a)
      PROVE  State(chain').merged = State(chain).merged
  <2>1. CASE UNCHANGED chain
    BY <2>1
  <2>2. ASSUME NEW a \in Actors, NEW e, Records(a, e)
        PROVE  State(chain').merged = State(chain).merged
    <3>1. e \in Events /\ e.kind \notin {"pr.created", "pr.merge"} /\ chain' = Extend(chain, e)
      BY <1>3, <2>2 DEF Records
    <3>2. chain \in Chains /\ chain # <<>> /\ SoundChain(chain) /\ OneMerge(chain)
      BY DEF TypeOK, RefsTyped, GateInv, MergeInv
    <3> QED
      BY <3>1, <3>2, ExtendOneMerge
  <2> QED
    BY <1>3, <2>1, <2>2, ChainSteps
<1> QED
  BY <1>1, <1>2, <1>3

\* What git-forge built under the base stays the merge recorded, and nothing else.
LEMMA SplitStep ==
    ASSUME "rewind-base" \notin EnvOps,
           TypeOK, GateInv, LandingInv, MergeInv, GroundInv, SplitInv, [Next]_vars
    PROVE  SplitInv'
<1> DEFINE m == State(chain).merged
           new == State(chain').merged
<1>1. /\ Grown /\ ObjectsTyped /\ base \in Made /\ NoCommit \notin Made
      /\ \A c \in Made : c \in Anc(c)
  <2>1. NoCommit \notin Made
    BY LenProperties DEF TypeOK, ObjectsTyped, Made, NoCommit
  <2> QED
    BY <2>1, CommitsGrow DEF TypeOK, RefsTyped, LandingInv
<1>2. \A c \in Made : /\ c \in Made' /\ (Anc(c))' = Anc(c) /\ Anc(c) \subseteq Made
                      /\ (Built(c))' <=> Built(c)
  BY <1>1 DEF ObjectsTyped, Grown, Anc, Built
<1>3. ASSUME NEW a \in Actors, MergeTxn(a), m = NoCommit PROVE Pure(proc[a].base)
  <2>1. base = proc[a].base
    BY <1>3 DEF MergeTxn, FinalizeHolds
  <2>2. \A x \in Anc(base) : x # NoCommit
    BY <1>1, <1>2
  <2> QED
    BY <1>3, <2>1, <2>2 DEF SplitInv, Pure
<1>4. ASSUME NEW a \in Actors, MergeTxn(a), m = NoCommit, new = proc[a].res
      PROVE  /\ new # NoCommit => new \in (Anc(base))'
             /\ \A x \in (Anc(base))' : (Built(x))' => x = new
  <2>1. base' = proc[a].res /\ UNCHANGED objects /\ proc[a].pc = "m_txn"
    BY <1>4 DEF MergeTxn, At
  <2>2. Grounded(proc[a].res, proc[a].base)
    BY <2>1 DEF GroundInv, Landing, Finalizing
  <2>3. (Anc(base))' = Anc(proc[a].res) /\ \A x : (Built(x))' <=> Built(x)
    BY <2>1 DEF Anc, Built
  <2> QED
    BY <1>1, <1>3, <1>4, <2>2, <2>3 DEF Grounded, Pure
<1>5. ASSUME NEW a \in Actors, Rollback(a), new = NoCommit
      PROVE  /\ new # NoCommit => new \in (Anc(base))'
             /\ \A x \in (Anc(base))' : (Built(x))' => x = new
  <2>1. base' = proc[a].base /\ UNCHANGED objects /\ proc[a].pc \in Refreshing
    BY <1>5 DEF Rollback, RolledBackBase, At, Refreshing
  <2>2. Pure(proc[a].base)
    BY <2>1 DEF SplitInv
  <2>3. (Anc(base))' = Anc(proc[a].base) /\ \A x : (Built(x))' <=> Built(x)
    BY <2>1 DEF Anc, Built
  <2> QED
    BY <1>5, <2>2, <2>3 DEF Pure
<1>6. ASSUME new = m, \A a \in Actors : ~MergeTxn(a) /\ ~Rollback(a)
      PROVE  /\ new # NoCommit => new \in (Anc(base))'
             /\ \A x \in (Anc(base))' : (Built(x))' => x = new
  <2>1. CASE UNCHANGED base
    <3>1. (Anc(base))' = Anc(base)
      BY <1>1, <1>2, <2>1 DEF Anc
    <3> QED
      BY <1>1, <1>2, <1>6, <3>1 DEF SplitInv
  <2>2. CASE PushBase
    <3>1. Anc(base) \in SUBSET Made /\ NextCommit \in Nat
      BY <1>1, LenProperties DEF ObjectsTyped, NextCommit
    <3>2. PICK s : s = NextCommit
      OBVIOUS
    <3>3. objects'[s].anc = Anc(base) \cup {s} /\ objects'[s].from = s
      BY <1>1, <2>2, <3>1, <3>2, NewCommitFields DEF PushBase
    <3>4. (Anc(base))' = Anc(base) \cup {s} /\ ~(Built(s))'
      BY <2>2, <3>2, <3>3 DEF PushBase, Anc, Built
    <3> QED
      BY <1>1, <1>2, <1>6, <3>1, <3>4 DEF SplitInv
  <2>3. ~RewindBase
    BY DEF RewindBase
  <2> QED
    BY <1>6, <2>1, <2>2, <2>3, RefSteps
<1>7. ASSUME NEW a \in Actors, (proc[a].pc \in Refreshing)' PROVE (Pure(proc[a].base))'
  <2>1. PICK b : b = proc'[a].base
    OBVIOUS
  <2>2. b = proc[a].base /\ b \in Made /\ Pure(b)
    <3>1. CASE proc[a].pc \in Refreshing /\ proc'[a].base = proc[a].base
      <4>1. proc[a].base \in Made
        BY <3>1 DEF TypeOK, ProcessesTyped, Legal, HasBase, Refreshing, Finalizing
      <4> QED
        BY <2>1, <3>1, <4>1 DEF SplitInv
    <3>2. CASE MergeTxn(a)
      <4>1. m = NoCommit
        BY <3>2, MergeFacts
      <4>2. proc[a].base = base
        BY <3>2 DEF MergeTxn, FinalizeHolds
      <4>3. proc'[a].base = proc[a].base
        BY <1>7, <3>2, MergeMoves DEF MergeStep, Moved
      <4> QED
        BY <1>1, <1>3, <2>1, <3>2, <4>1, <4>2, <4>3
    <3> QED
      BY <1>7, <3>1, <3>2, EntersRefreshing
  <2>3. Pure(b)'
    BY <1>1, <2>2, GroundedGrows
  <2> QED
    BY <2>1, <2>3 DEF Pure, Anc, Built
<1> HIDE DEF m, new
<1>8. /\ new # NoCommit => new \in (Anc(base))'
      /\ \A x \in (Anc(base))' : (Built(x))' => x = new
  BY <1>4, <1>5, <1>6, MergedSteps DEF m, new
<1> QED
  BY <1>7, <1>8 DEF SplitInv, new

LEMMA InitSplit == Init => SplitInv
<1> SUFFICES ASSUME Init PROVE SplitInv
  OBVIOUS
<1>1. State(chain).merged = NoCommit /\ base = Base0
  BY InitialChainsOriginal DEF Original, Init
<1>2. \A a \in Actors : proc[a].pc \notin Refreshing
  BY DEF Init, Idle, Refreshing
<1> QED
  BY <1>1, <1>2, InitialGround DEF SplitInv, Pure

(***************************************************************************)
(* Never split: the base branch holds a commit that git-forge built        *)
(* exactly when the chain records the merge of that commit, also after a   *)
(* failed worktree refresh and its rollback (merge_state.rs                *)
(* refresh_base_worktrees).  Somebody who rewinds the base branch takes    *)
(* the merge off it by hand; nothing else may.                             *)
(***************************************************************************)
THEOREM BaseAndChainAgree ==
    ASSUME "rewind-base" \notin EnvOps
    PROVE  Spec => []NeverSplit
<1> DEFINE Inv == TypeOK /\ GateInv /\ LandingInv /\ MergeInv /\ GroundInv /\ SplitInv
<1>1. Init => Inv
  BY InitTyped, InitGateInv, InitLanding, InitMergeInv, InitGround, InitSplit
<1>2. Inv /\ [Next]_vars => Inv'
  BY StepTyped, StepGateInv, StepLanding, MergeInvStep, GroundStep, SplitStep
<1>3. Inv => NeverSplit
  <2> SUFFICES ASSUME Inv PROVE NeverSplit
    OBVIOUS
  <2> DEFINE merges == {j \in DOMAIN chain : chain[j].ev.kind = "pr.merge"}
             landed == {chain[i].ev.bind.result : i \in merges}
             m == State(chain).merged
  <2>1. DOMAIN chain = 1..Len(chain) /\ Len(chain) \in Nat \ {0} /\ chain[Len(chain)].st = State(chain)
    BY LenProperties, LastElement DEF TypeOK, RefsTyped, Chains, State
  <2>2. \A j \in merges : chain[j].ev.bind.result = m
    BY <2>1 DEF MergeInv, OneMerge
  <2>3. m = NoCommit <=> merges = {}
    <3>1. m # NoCommit => merges # {}
      BY <2>1 DEF MergeInv, OneMerge
    <3>2. m = NoCommit => \A k \in 1..Len(chain) : chain[k].ev.kind # "pr.merge"
      BY <2>1 DEF GateInv, SoundChain, Folded
    <3> QED
      BY <2>1, <3>1, <3>2
  <2>4. landed \subseteq Anc(base)
    BY <2>2, <2>3 DEF SplitInv
  <2>5. ASSUME NEW c \in Anc(base), objects[c].from # c PROVE c \in landed
    <3>1. c = m
      BY <2>5 DEF SplitInv, Built
    <3>2. c # NoCommit
      <4>1. Anc(base) \subseteq Made /\ NoCommit \notin Made
        BY LenProperties DEF TypeOK, RefsTyped, ObjectsTyped, Made, NoCommit
      <4> QED
        BY <2>5, <4>1
    <3>3. PICK j \in merges : TRUE
      BY <2>3, <3>1, <3>2
    <3> QED
      BY <2>2, <3>1, <3>3
  <2> QED
    BY <2>4, <2>5 DEF NeverSplit
<1> QED
  BY <1>1, <1>2, <1>3, PTL DEF Spec

----------------------------------------------------------------------------
(* The linked issue. *)

\* An event added to an issue chain keeps the others.
LEMMA IssueExtendFields ==
    ASSUME NEW i \in IssueChains, i # <<>>, NEW kind \in IssueKinds, NEW id \in Ids,
           NEW j, j = IssueExtend(i, kind, id)
    PROVE  /\ Len(i) \in Nat \ {0} /\ Len(j) = Len(i) + 1
           /\ \A k \in 1..Len(i) : j[k] = i[k]
           /\ j[Len(j)].kind = kind /\ j[Len(j)].id = id
           /\ kind = "issue.close" => ~IssueOpen(j)
           /\ kind = "issue.comment" => (IssueOpen(j) <=> IssueOpen(i))
<1> DEFINE Node == [kind : IssueKinds, id : Ids, open : BOOLEAN]
           n == [kind |-> kind, id |-> id,
                 open |-> CASE kind = "issue.close" -> FALSE
                            [] kind = "issue.reopen" -> TRUE
                            [] OTHER -> IssueOpen(i)]
<1>1. i \in Seq(Node) /\ Len(i) \in Nat \ {0} /\ i[Len(i)] \in Node
  BY LastElement DEF IssueChains
<1>2. /\ n \in Node /\ n.kind = kind /\ n.id = id
      /\ kind = "issue.close" => n.open = FALSE
      /\ kind = "issue.comment" => n.open = IssueOpen(i)
  BY <1>1 DEF IssueOpen
<1>3. j = Append(i, n)
  BY DEF IssueExtend
<1> HIDE DEF n, Node
<1>4. Len(j) = Len(i) + 1 /\ j[Len(i) + 1] = n /\ \A k \in 1..Len(i) : j[k] = i[k]
  BY <1>1, <1>2, <1>3, AppendProperties
<1> QED
  BY <1>1, <1>2, <1>4 DEF IssueOpen

\* Who writes to the issue, and what: a person's event, a merge's close, or what it was.
LEMMA IssueSteps ==
    ASSUME TypeOK, [Next]_vars
    PROVE  \/ UNCHANGED issue
           \/ /\ issue # <<>> /\ UNCHANGED <<chain, proc>>
              /\ \E kind \in EnvOps \cap {"issue.close", "issue.reopen", "issue.comment"} :
                    issue' = IssueExtend(issue, kind, <<Founder, Len(issue)>>)
           \/ \E a \in Actors : /\ MergeTxn(a) /\ proc[a].stage # <<>> /\ issue # <<>>
                                /\ issue' = IssueExtend(issue, "issue.close", CommandId(a))
           \/ \E a \in Actors : /\ Rollback(a) /\ proc[a].stage # <<>>
                                /\ issue' = proc[a].stage
<1>1. ASSUME WriteIssue
      PROVE  /\ issue # <<>> /\ UNCHANGED <<chain, proc>>
             /\ \E kind \in EnvOps \cap {"issue.close", "issue.reopen", "issue.comment"} :
                   issue' = IssueExtend(issue, kind, <<Founder, Len(issue)>>)
  BY <1>1 DEF WriteIssue, Outside, TypeOK, RefsTyped
<1>2. ASSUME NEW a \in Actors, MergeTxn(a)
      PROVE  \/ UNCHANGED issue
             \/ /\ proc[a].stage # <<>> /\ issue # <<>>
                /\ issue' = IssueExtend(issue, "issue.close", CommandId(a))
  BY <1>2 DEF MergeTxn, FinalizeHolds, IssueAfter, Closed
<1>3. ASSUME NEW a \in Actors, Rollback(a)
      PROVE  UNCHANGED issue \/ (proc[a].stage # <<>> /\ issue' = proc[a].stage)
  BY <1>3 DEF Rollback, RolledBackIssue
<1> QED
  BY <1>1, <1>2, <1>3, RefSteps

\* A running merge's identity is its own, and not the founder's.
LEMMA MergersAreActors ==
    ASSUME TypeOK, NEW a \in Actors, MergeTxn(a)
    PROVE  CommandId(a) \in Ids /\ CommandId(a)[1] = a /\ a # Founder
<1>1. todo[a] # <<>>
  BY RunsAnInvocation DEF ProcessStep, MergeStep
<1> QED
  BY <1>1, CommandTyped, RefsAssumption DEF TypeOK, CommandId

LEMMA IssueStep ==
    ASSUME TypeOK, GateInv, MergeInv, IssueInv, [Next]_vars
    PROVE  IssueInv'
<1> DEFINE closed(i, c) == \A k \in DOMAIN i :
                              i[k].kind = "issue.close" /\ i[k].id[1] # Founder =>
                                 \E j \in DOMAIN c : /\ c[j].ev.kind = "pr.merge"
                                                     /\ c[j].ev.id = i[k].id
           staged(s, i) == IF s = <<>> THEN PeoplesOwn(i) ELSE PeoplesOwn(s)
<1>1. issue \in IssueChains /\ chain \in Chains /\ chain # <<>>
  BY DEF TypeOK, RefsTyped
<1>2. \A i \in IssueChains : DOMAIN i = 1..Len(i) /\ Len(i) \in Nat
  BY LenProperties DEF IssueChains
<1>3. \A c \in Chains : DOMAIN c = 1..Len(c) /\ Len(c) \in Nat
  BY LenProperties DEF Chains
<1>4. ASSUME State(chain).merged = NoCommit PROVE PeoplesOwn(issue)
  <2>1. \A j \in 1..Len(chain) : chain[j].ev.kind # "pr.merge"
    <3>1. Len(chain) \in Nat \ {0} /\ chain[Len(chain)].st = State(chain)
      BY <1>1, LastElement DEF Chains, State
    <3> QED
      BY <1>4, <3>1 DEF GateInv, SoundChain, Folded
  <2> QED
    BY <1>1, <1>2, <1>3, <2>1 DEF IssueInv, ClosedOnlyByMerge, PeoplesOwn
<1>5. PICK d, i : d = chain' /\ i = issue'
  OBVIOUS
<1>6. closed(i, d) /\ \A a \in Actors : proc'[a].pc \in Refreshing => staged(proc'[a].stage, i)
  <2>1. ASSUME NEW a \in Actors, MergeTxn(a)
        PROVE  closed(i, d) /\ \A b \in Actors : proc'[b].pc \in Refreshing => staged(proc'[b].stage, i)
    <3>1. /\ State(chain).merged = NoCommit /\ \A b \in Actors : proc[b].pc \notin Refreshing
      BY <2>1, MergeFacts
    <3>2. PeoplesOwn(issue)
      BY <1>4, <3>1
    <3>3. i = issue \/ (/\ proc[a].stage = issue /\ issue # <<>>
                        /\ i = IssueExtend(issue, "issue.close", CommandId(a)))
      BY <1>5, <2>1 DEF MergeTxn, FinalizeHolds, IssueAfter, Closed
    <3>4. PICK e : Records(a, e) /\ e.kind = "pr.merge"
      BY <2>1, MergeRecords
    <3>5. /\ Len(d) \in DOMAIN d /\ d[Len(d)].ev.kind = "pr.merge"
          /\ d[Len(d)].ev.id = CommandId(a)
      BY <1>3, <1>5, <3>4, RecordsAppends DEF Records
    <3>6. closed(i, d)
      <4>1. CASE i = issue
        BY <1>1, <1>2, <3>2, <4>1 DEF PeoplesOwn
      <4>2. CASE issue # <<>> /\ i = IssueExtend(issue, "issue.close", CommandId(a))
        <5>1. "issue.close" \in IssueKinds
          BY DEF IssueKinds
        <5>2. /\ Len(issue) \in Nat /\ Len(i) = Len(issue) + 1
              /\ \A k \in 1..Len(issue) : i[k] = issue[k]
              /\ i[Len(i)].id = CommandId(a)
          BY <1>1, <2>1, <4>2, <5>1, IssueExtendFields, MergersAreActors
        <5>3. i \in IssueChains
          BY <1>1, <2>1, <4>2, <5>1, IssueExtendTyped, MergersAreActors
        <5>4. \A k \in DOMAIN i : (k \in 1..Len(issue) /\ i[k] = issue[k]) \/ k = Len(i)
          BY <1>2, <5>2, <5>3
        <5> QED
          BY <3>2, <3>5, <5>2, <5>4 DEF PeoplesOwn
      <4> QED
        BY <3>3, <4>1, <4>2
    <3>7. ASSUME NEW b \in Actors, proc'[b].pc \in Refreshing PROVE staged(proc'[b].stage, i)
      <4>1. Moved(a)
        BY <2>1, MergeMoves DEF MergeStep
      <4>2. b = a /\ proc'[a].stage = proc[a].stage
        BY <3>1, <3>7, <4>1 DEF Moved
      <4>3. proc[a].stage = <<>> => i = issue
        BY <1>5, <2>1 DEF MergeTxn, IssueAfter
      <4>4. proc[a].stage # <<>> => proc[a].stage = issue
        BY <2>1 DEF MergeTxn, FinalizeHolds
      <4> QED
        BY <3>2, <4>2, <4>3, <4>4
    <3> QED
      BY <3>6, <3>7
  <2>2. ASSUME NEW a \in Actors, Rollback(a)
        PROVE  closed(i, d) /\ \A b \in Actors : proc'[b].pc \in Refreshing => staged(proc'[b].stage, i)
    <3>1. proc[a].pc \in Refreshing /\ staged(proc[a].stage, issue) /\ proc[a] \in Processes
      BY <2>2 DEF Rollback, At, Refreshing, IssueInv, TypeOK, ProcessesTyped
    <3>2. PeoplesOwn(i) /\ i \in IssueChains
      BY <1>1, <1>5, <2>2, <3>1 DEF Rollback, RolledBackIssue, Processes
    <3>3. \A b \in Actors : proc'[b].pc \notin Refreshing
      <4>1. Moved(a) /\ proc'[a] = Idle /\ Idle.pc \notin Refreshing
        BY <2>2, MergeMoves DEF MergeStep, Rollback, Exits, Idle, Refreshing, TypeOK,
           ProcessesTyped
      <4> QED
        BY <3>1, <4>1 DEF Moved, MergeInv
    <3> QED
      BY <1>2, <3>2, <3>3 DEF PeoplesOwn
  <2>3. ASSUME \A a \in Actors : ~MergeTxn(a) /\ ~Rollback(a)
        PROVE  closed(i, d) /\ \A b \in Actors : proc'[b].pc \in Refreshing => staged(proc'[b].stage, i)
    <3>1. \A j \in DOMAIN chain : j \in DOMAIN d /\ d[j] = chain[j]
      <4>1. CASE UNCHANGED chain
        BY <1>5, <4>1
      <4>2. ASSUME NEW a \in Actors, NEW e, Records(a, e)
            PROVE  \A j \in DOMAIN chain : j \in DOMAIN d /\ d[j] = chain[j]
        BY <1>1, <1>3, <1>5, <4>2, RecordsAppends
      <4> QED
        BY <2>3, <4>1, <4>2, ChainSteps
    <3>2. closed(issue, d)
      BY <3>1 DEF IssueInv, ClosedOnlyByMerge
    <3>3. i = issue \/ \E kind \in IssueKinds : issue # <<>> /\ i = IssueExtend(issue, kind, <<Founder, Len(issue)>>)
      BY <1>5, <2>3, IssueSteps DEF IssueKinds
    <3>4. /\ i \in IssueChains
          /\ \A k \in DOMAIN i : (k \in DOMAIN issue /\ i[k] = issue[k]) \/ i[k].id[1] = Founder
      <4>1. CASE i = issue
        BY <1>1, <4>1
      <4>2. ASSUME NEW kind \in IssueKinds, issue # <<>>,
                   i = IssueExtend(issue, kind, <<Founder, Len(issue)>>)
            PROVE  /\ i \in IssueChains
                   /\ \A k \in DOMAIN i : (k \in DOMAIN issue /\ i[k] = issue[k]) \/ i[k].id[1] = Founder
        <5>1. <<Founder, Len(issue)>> \in Ids
          BY <1>1, <1>2 DEF Ids
        <5>2. /\ Len(i) = Len(issue) + 1 /\ \A k \in 1..Len(issue) : i[k] = issue[k]
              /\ i[Len(i)].id = <<Founder, Len(issue)>>
          BY <1>1, <4>2, <5>1, IssueExtendFields
        <5>3. i \in IssueChains
          BY <1>1, <4>2, <5>1, IssueExtendTyped
        <5> QED
          BY <1>1, <1>2, <5>2, <5>3
      <4> QED
        BY <3>3, <4>1, <4>2
    <3>5. closed(i, d)
      BY <3>2, <3>4
    <3>6. PeoplesOwn(issue) => PeoplesOwn(i)
      BY <1>1, <1>2, <3>4 DEF PeoplesOwn
    <3>7. \A b \in Actors : proc'[b].pc \in Refreshing =>
             proc[b].pc \in Refreshing /\ proc'[b].stage = proc[b].stage
      BY <2>3, EntersRefreshing
    <3> QED
      BY <3>5, <3>6, <3>7 DEF IssueInv
  <2> QED
    BY <2>1, <2>2, <2>3
<1> QED
  BY <1>5, <1>6 DEF IssueInv, ClosedOnlyByMerge, PeoplesOwn

LEMMA InitIssue == Init => IssueInv
<1> SUFFICES ASSUME Init PROVE IssueInv
  OBVIOUS
<1>1. \A a \in Actors : proc[a].pc \notin Refreshing
  BY DEF Init, Idle, Refreshing
<1>2. \A i \in DOMAIN issue : issue[i].kind # "issue.close"
  <2> DEFINE n == [kind |-> "issue.created", id |-> <<Founder, 0>>, open |-> TRUE]
  <2>1. n.kind = "issue.created"
    OBVIOUS
  <2> HIDE DEF n
  <2>2. issue = <<n>> \/ issue = <<>>
    BY DEF Init, n
  <2> QED
    BY <2>1, <2>2
<1> QED
  BY <1>1, <1>2 DEF IssueInv, ClosedOnlyByMerge

(***************************************************************************)
(* The linked issue is closed by a merge only together with that merge:    *)
(* neither a refused nor a rolled-back merge leaves its close behind       *)
(* (merge_state.rs finalize_pr_merge, refresh_base_worktrees).             *)
(***************************************************************************)
THEOREM ClosesComeWithMerges == Spec => []ClosedOnlyByMerge
<1> DEFINE Inv == TypeOK /\ GateInv /\ MergeInv /\ IssueInv
<1>1. Init => Inv
  BY InitTyped, InitGateInv, InitMergeInv, InitIssue
<1>2. Inv /\ [Next]_vars => Inv'
  BY StepTyped, StepGateInv, MergeInvStep, IssueStep
<1>3. Inv => ClosedOnlyByMerge
  BY DEF IssueInv
<1> QED
  BY <1>1, <1>2, <1>3, PTL DEF Spec

LEMMA StagedStep ==
    ASSUME ~BaseCheckedOut, "issue.reopen" \notin EnvOps,
           TypeOK, Straight, StagedInv, [Next]_vars
    PROVE  StagedInv'
<1> SUFFICES ASSUME LinkedIssue, NEW a \in Actors, proc'[a].pc \in {"m_fold", "m_txn"}
             PROVE  \/ proc'[a].stage # <<>>
                    \/ proc'[a].pc = "m_txn" /\ ~IssueOpen(issue')
  BY DEF StagedInv
<1>1. issue \in IssueChains /\ issue # <<>>
  BY DEF TypeOK, RefsTyped
<1>2. ASSUME ~IssueOpen(issue) PROVE ~IssueOpen(issue')
  <2>1. CASE UNCHANGED issue
    BY <1>2, <2>1
  <2>2. ASSUME NEW kind \in EnvOps \cap {"issue.close", "issue.reopen", "issue.comment"},
               issue' = IssueExtend(issue, kind, <<Founder, Len(issue)>>)
        PROVE  ~IssueOpen(issue')
    <3>1. kind \in {"issue.close", "issue.comment"} /\ kind \in IssueKinds
      BY <2>2 DEF IssueKinds
    <3>2. <<Founder, Len(issue)>> \in Ids
      BY <1>1, LenProperties DEF Ids, IssueChains
    <3> QED
      BY <1>1, <1>2, <2>2, <3>1, <3>2, IssueExtendFields
  <2>3. ASSUME NEW b \in Actors, MergeTxn(b),
               issue' = IssueExtend(issue, "issue.close", CommandId(b))
        PROVE  ~IssueOpen(issue')
    <3>1. "issue.close" \in IssueKinds
      BY DEF IssueKinds
    <3> QED
      BY <1>1, <2>3, <3>1, IssueExtendFields, MergersAreActors
  <2>4. ASSUME NEW b \in Actors PROVE ~Rollback(b)
    BY DEF Rollback, At, Straight, Refreshing
  <2> QED
    BY <2>1, <2>2, <2>3, <2>4, IssueSteps
<1>3. CASE proc'[a] = proc[a]
  BY <1>2, <1>3 DEF StagedInv
<1>4. CASE Moved(a)
  <2>1. CASE proc'[a].pc = "m_fold"
    BY <1>1, <1>4, <2>1 DEF Moved
  <2>2. CASE proc'[a].pc = "m_txn"
    <3>1. /\ proc[a].pc = "m_fold"
          /\ proc'[a].stage = IF IssueOpen(issue) THEN proc[a].stage ELSE <<>>
      BY <1>4, <2>2 DEF Moved
    <3>2. proc[a].stage # <<>>
      BY <3>1 DEF StagedInv
    <3> QED
      BY <1>2, <2>2, <3>1, <3>2
  <2> QED
    BY <2>1, <2>2
<1> QED
  BY <1>3, <1>4, WhoMoves DEF Moved

(***************************************************************************)
(* A successful merge leaves its linked issue closed, in the same step     *)
(* (merge_state.rs stage_issue_close, finalize_pr_merge),                 *)
(* where nobody reopens the issue and no rollback of another merge of the  *)
(* PR does: a merge that has seen the issue closed stages no close, and    *)
(* its transaction does not look at the issue again.                       *)
(***************************************************************************)
THEOREM MergesCloseTheIssue ==
    ASSUME ~BaseCheckedOut, "issue.reopen" \notin EnvOps
    PROVE  Spec => MergeClosesTheIssue
<1> DEFINE Inv == TypeOK /\ GateInv /\ MergeInv /\ Straight /\ StagedInv
<1>1. Init => Inv
  <2>1. Init => StagedInv
    BY DEF Init, Idle, StagedInv
  <2> QED
    BY <2>1, InitTyped, InitGateInv, InitMergeInv, InitReports
<1>2. Inv /\ [Next]_vars => Inv'
  BY StepTyped, StepGateInv, MergeInvStep, StraightStep, StagedStep
<1>3. ASSUME Inv, [Next]_vars, Lands, LinkedIssue PROVE ~IssueOpen(issue')
  <2>1. PICK a \in Actors : MergeTxn(a)
    BY <1>3, LandsByMerge
  <2>2. CASE proc[a].stage = <<>>
    BY <1>3, <2>1, <2>2 DEF MergeTxn, At, IssueAfter, StagedInv
  <2>3. CASE proc[a].stage # <<>>
    <3>1. issue' = IssueExtend(issue, "issue.close", CommandId(a)) /\ "issue.close" \in IssueKinds
      BY <2>1, <2>3 DEF MergeTxn, FinalizeHolds, IssueAfter, Closed, IssueKinds
    <3>2. issue \in IssueChains /\ issue # <<>> /\ CommandId(a) \in Ids
      BY <1>3, <2>1, MergersAreActors DEF TypeOK, RefsTyped
    <3> QED
      BY <3>1, <3>2, IssueExtendFields
  <2> QED
    BY <2>2, <2>3
<1>4. Inv /\ [Next]_vars => [Lands /\ LinkedIssue => ~IssueOpen(issue')]_vars
  BY <1>3
<1> QED
  BY <1>1, <1>2, <1>4, PTL DEF Spec, MergeClosesTheIssue

----------------------------------------------------------------------------
(* The result ref, when it is left behind. *)

(***************************************************************************)
(* A result ref that a merge left behind is never taken for another's: it  *)
(* goes away only in the cleanup of the merge that holds it, in a merge of *)
(* that very result, or in a prepare that appends the candidate it pins    *)
(* instead; with every fault, kill and rollback (merge_state.rs            *)
(* delete_pending_result_ref, finalize_pr_merge; pr_prepare.rs).           *)
(***************************************************************************)
THEOREM ResultsAreNotTaken == Spec => LeftoversAreNotTaken
<1> DEFINE cleaned == /\ result' = NoCommit
                      /\ \E a \in Actors : At(a, "m_clean") /\ proc[a].res = result
                                           /\ proc'[a] # proc[a]
           merged == result' = NoCommit /\ State(chain').merged = result
           prepared == /\ result' # NoCommit
                       /\ \E i \in DOMAIN chain' \ DOMAIN chain :
                             /\ chain'[i].ev.kind = "pr.prepared"
                             /\ chain'[i].ev.bind.result = result'
<1>1. ASSUME TypeOK, GateInv, MergeInv, [Next]_vars, result # NoCommit, result' # result
      PROVE  cleaned \/ merged \/ prepared
  <2>1. ASSUME NEW a \in Actors, MergeTxn(a) PROVE merged
    <3>1. result' = NoCommit /\ result = proc[a].res
      BY <2>1 DEF MergeTxn, FinalizeHolds
    <3> QED
      BY <1>1, <2>1, <3>1, MergeLands
  <2>2. ASSUME NEW a \in Actors, MergeCleans(a) PROVE cleaned
    <3>1. At(a, "m_clean") /\ Owned(a) /\ result' = NoCommit
      BY <1>1, <2>2 DEF MergeCleans
    <3>2. proc'[a].pc = "idle" /\ proc[a].pc = "m_clean"
      BY <1>1, <2>2 DEF MergeCleans, Exits, Idle, At, TypeOK, ProcessesTyped
    <3> QED
      BY <3>1, <3>2 DEF Owned
  <2>3. ASSUME NEW a \in Actors, PrepareTxn(a) PROVE prepared
    <3>1. PICK e : /\ Records(a, e) /\ e.kind = "pr.prepared" /\ e.bind.result = proc[a].res
      BY <1>1, <2>3, PrepareRecords
    <3>2. /\ Len(chain) \in Nat /\ Len(chain') = Len(chain) + 1
          /\ chain'[Len(chain')].ev = e /\ chain' \in Chains /\ chain \in Chains
      BY <1>1, <3>1, RecordsAppends DEF TypeOK, RefsTyped
    <3>3. DOMAIN chain = 1..Len(chain) /\ DOMAIN chain' = 1..Len(chain')
      BY <3>2, LenProperties DEF Chains
    <3>4. result' = proc[a].res /\ proc[a].res \in Made
      BY <1>1, <2>3 DEF PrepareTxn, At, TypeOK, ProcessesTyped, Legal, HasResult
    <3>5. NoCommit \notin Made
      BY <1>1, LenProperties DEF TypeOK, ObjectsTyped, Made, NoCommit
    <3> QED
      BY <3>1, <3>2, <3>3, <3>4, <3>5
  <2>4. ASSUME NEW a \in Actors PROVE ~MergeCreatesPending(a)
    BY <1>1 DEF MergeCreatesPending
  <2> QED
    BY <1>1, <2>1, <2>2, <2>3, <2>4, ResultSteps
<1>2. ASSUME TypeOK, GateInv, MergeInv, [Next]_vars
      PROVE  [result # NoCommit /\ result' # result => cleaned \/ merged \/ prepared]_vars
  BY <1>1, <1>2
<1> QED
  BY <1>2, MergeHolds, PTL DEF Spec, LeftoversAreNotTaken

----------------------------------------------------------------------------
(* Invocations come to an end. *)

\* How far each place is from the end of its invocation, if nothing is tried again.
Place(pc) ==
    CASE pc = "idle" -> 15
      [] pc = "m_base" -> 14
      [] pc \in {"m_pin", "m_pending"} -> 13
      [] pc = "m_worktree" -> 12
      [] pc = "m_stage" -> 11
      [] pc \in {"m_fold", "u_source", "p_base"} -> 10
      [] pc \in {"m_txn", "u_base", "p_tip"} -> 9
      [] pc \in {"m_head", "m_refresh", "u_tip", "p_pin"} -> 8
      [] pc \in {"m_issue", "m_seen", "u_txn", "p_txn"} -> 7
      [] pc = "m_rollback" -> 6
      [] pc = "bind" -> 5
      [] pc = "tip" -> 4
      [] pc \in {"cas", "u_claimed"} -> 3
      [] pc \in {"lost", "u_moved"} -> 2
      [] OTHER -> 1

MaxTries == MaxAppendRetries + MaxFinalizeRetries

\* The steps an invocation may still take.
StepsLeft(p) == 16 * (MaxTries - p.tries) + Place(p.pc)

(***************************************************************************)
(* An invocation takes at most 16 * MaxTries + 15 steps: each is its last  *)
(* or leaves it fewer, and nobody else's step makes them more, whatever    *)
(* transactions fail and whatever others write (store.rs append_event,     *)
(* update_pr; pr_prepare.rs prepare_pr; finalize.rs run_finalize).         *)
(***************************************************************************)
CallsShrink ==
    [][\A a \in Actors :
          \/ UNCHANGED <<proc[a], todo[a]>>
          \/ Len(todo'[a]) < Len(todo[a])
          \/ todo'[a] = todo[a] /\ StepsLeft(proc'[a]) < StepsLeft(proc[a])]_vars

TriesInv == \A a \in Actors : proc[a].tries <= MaxTries

LEMMA Places ==
    ASSUME NEW pc
    PROVE  Place(pc) \in 1..15
BY DEF Place

LEMMA TriesAre ==
    ASSUME TypeOK, TriesInv, NEW a \in Actors
    PROVE  /\ MaxTries \in Nat /\ MaxAppendRetries <= MaxTries /\ MaxFinalizeRetries <= MaxTries
           /\ proc[a].tries \in Nat /\ proc[a].tries <= MaxTries
<1>1. proc[a].tries \in Nat
  BY DEF TypeOK, ProcessesTyped, Legal, Processes
<1>2. MaxAppendRetries \in Nat /\ MaxFinalizeRetries \in Nat
  BY RefsAssumption
<1> QED
  BY <1>1, <1>2 DEF MaxTries, TriesInv

\* From p to q, a process comes nearer to the end, or tries again.
Nearer(p, q) ==
    \/ q.tries = p.tries /\ Place(q.pc) < Place(p.pc)
    \/ q.tries = p.tries + 1 /\ q.tries <= MaxTries

LEMMA NearerShrinks ==
    ASSUME TypeOK, TriesInv, NEW a \in Actors, NEW q, Nearer(proc[a], q)
    PROVE  q.tries <= MaxTries /\ StepsLeft(q) < StepsLeft(proc[a])
<1>1. PICK t, m, x, y : /\ t = proc[a].tries /\ m = MaxTries
                        /\ x = Place(proc[a].pc) /\ y = Place(q.pc)
  OBVIOUS
<1>2. t \in Nat /\ m \in Nat /\ t <= m
  BY <1>1, TriesAre
<1>3. x \in 1..15 /\ y \in 1..15
  BY <1>1, Places
<1>4. CASE q.tries = t /\ y < x
  <2>1. 16 * (m - t) + y < 16 * (m - t) + x
    BY <1>2, <1>3, <1>4
  <2> QED
    BY <1>1, <1>2, <1>4, <2>1 DEF StepsLeft
<1>5. CASE q.tries = t + 1 /\ t + 1 <= m
  <2>1. 16 * (m - (t + 1)) + y < 16 * (m - t) + x
    BY <1>2, <1>3
  <2> QED
    BY <1>1, <1>2, <1>5, <2>1 DEF StepsLeft
<1> QED
  BY <1>1, <1>4, <1>5 DEF Nearer

\* A process goes on, and may have been told that what it recorded failed.
GoesOn(a, q) == proc' = [proc EXCEPT ![a] = q] /\ UNCHANGED todo

\* A step ends the invocation or takes it nearer to its end.
Shrinks(a) == (\E how : Exits(a, how)) \/ (\E q : GoesOn(a, q) /\ Nearer(proc[a], q))

LEMMA PassingShrinks ==
    ASSUME NEW a \in Actors, NEW q, Becomes(a, q), q.tries = proc[a].tries,
           Place(q.pc) < Place(proc[a].pc)
    PROVE  Shrinks(a)
BY DEF Shrinks, Nearer, Becomes, GoesOn

LEMMA UnclearShrinks ==
    ASSUME TypeOK, NEW a \in Actors, NEW pc, Unclear(a, pc), Place(pc) < Place(proc[a].pc)
    PROVE  Shrinks(a)
<1>1. PICK q : q = [proc[a] EXCEPT !.pc = pc]
  OBVIOUS
<1>2. GoesOn(a, q) /\ q.tries = proc[a].tries /\ q.pc = pc
  BY <1>1 DEF Unclear, GoesOn, TypeOK, ProcessesTyped, Processes
<1> QED
  BY <1>2 DEF Shrinks, Nearer

LEMMA RetryShrinks ==
    ASSUME TypeOK, TriesInv, NEW a \in Actors, NEW p \in Processes, p.tries = proc[a].tries,
           Retry(a, p)
    PROVE  Shrinks(a)
<1>1. CASE chain # proc[a].tip /\ proc[a].tries + 1 < MaxAppendRetries
  <2>1. PICK q : q = [p EXCEPT !.tries = @ + 1]
    OBVIOUS
  <2>2. GoesOn(a, q)
    BY <1>1, <2>1 DEF Retry, Becomes, GoesOn
  <2>3. q.tries = proc[a].tries + 1
    BY <2>1 DEF Processes
  <2>4. MaxAppendRetries \in Nat
    BY RefsAssumption
  <2>5. proc[a].tries + 1 <= MaxTries
    BY <1>1, <2>4, TriesAre
  <2> QED
    BY <2>2, <2>3, <2>5 DEF Shrinks, Nearer
<1>2. CASE ~(chain # proc[a].tip /\ proc[a].tries + 1 < MaxAppendRetries)
  BY <1>2 DEF Retry, Shrinks
<1> QED
  BY <1>1, <1>2

LEMMA RetriesShrink ==
    ASSUME TypeOK, TriesInv, NEW a \in Actors, proc[a].pc \in {"m_head", "m_issue"},
           NEW p \in Processes, p.tries = proc[a].tries, Retries(a, p)
    PROVE  Shrinks(a)
<1>1. proc[a] \in Processes
  BY DEF TypeOK, ProcessesTyped
<1>2. CASE proc[a].tries + 1 > MaxFinalizeRetries
  <2>1. PICK q : q = [proc[a] EXCEPT !.pc = "m_clean"]
    OBVIOUS
  <2>2. GoesOn(a, q)
    BY <1>2, <2>1 DEF Retries, Goes, Becomes, GoesOn
  <2>3. q.tries = proc[a].tries /\ q.pc = "m_clean"
    BY <1>1, <2>1 DEF Processes
  <2>4. Place(q.pc) < Place(proc[a].pc)
    BY <2>3 DEF Place
  <2> QED
    BY <2>2, <2>3, <2>4 DEF Shrinks, Nearer
<1>3. CASE ~(proc[a].tries + 1 > MaxFinalizeRetries)
  <2>1. PICK q : q = [p EXCEPT !.pc = "m_stage", !.stage = <<>>, !.tries = @ + 1]
    OBVIOUS
  <2>2. GoesOn(a, q)
    BY <1>3, <2>1 DEF Retries, Becomes, GoesOn
  <2>3. q.tries = proc[a].tries + 1
    BY <2>1 DEF Processes
  <2>4. MaxFinalizeRetries \in Nat
    BY RefsAssumption
  <2>5. proc[a].tries + 1 <= MaxTries
    BY <1>3, <2>4, TriesAre
  <2> QED
    BY <2>2, <2>3, <2>5 DEF Shrinks, Nearer
<1> QED
  BY <1>2, <1>3

LEMMA AppendShrinks ==
    ASSUME TypeOK, TriesInv, NEW a \in Actors, AppendStep(a)
    PROVE  Shrinks(a)
<1> DEFINE p == proc[a]
<1>1. p \in Processes
  BY DEF TypeOK, ProcessesTyped
<1>2. CASE \E how : Exits(a, how)
  BY <1>2 DEF Shrinks
<1>3. CASE p.pc = "idle" /\ Captures(a)
  <2>1. \E pc \in {"bind", "tip"} : \E gen, bind, word :
            Becomes(a, [p EXCEPT !.pc = pc, !.gen = gen, !.bind = bind, !.word = word])
    BY <1>3 DEF Captures
  <2>2. PICK pc \in {"bind", "tip"} : \E gen, bind, word :
            Becomes(a, [p EXCEPT !.pc = pc, !.gen = gen, !.bind = bind, !.word = word])
    BY <2>1
  <2>3. PICK gen, bind, word :
            Becomes(a, [p EXCEPT !.pc = pc, !.gen = gen, !.bind = bind, !.word = word])
    BY <2>2
  <2>4. PICK q : q = [p EXCEPT !.pc = pc, !.gen = gen, !.bind = bind, !.word = word]
    OBVIOUS
  <2>5. q.tries = p.tries /\ q.pc = pc
    BY <1>1, <2>4 DEF Processes
  <2>6. Place(pc) < Place(p.pc)
    BY <1>3 DEF Place
  <2> QED
    BY <2>3, <2>4, <2>5, <2>6, PassingShrinks
<1>4. CASE Bind(a)
  <2>1. PICK q : q = [p EXCEPT !.pc = "tip", !.bind = Corroborated(@)]
    OBVIOUS
  <2>2. Becomes(a, q) /\ p.pc = "bind" /\ q.tries = p.tries /\ q.pc = "tip"
    BY <1>1, <1>4, <2>1 DEF Bind, At, Processes
  <2>3. Place(q.pc) < Place(p.pc)
    BY <2>2 DEF Place
  <2> QED
    BY <2>2, <2>3, PassingShrinks
<1>5. CASE p.pc = "idle" /\ Goes(a, "tip")
  <2>1. PICK q : q = [p EXCEPT !.pc = "tip"]
    OBVIOUS
  <2>2. Becomes(a, q) /\ q.tries = p.tries /\ q.pc = "tip"
    BY <1>1, <1>5, <2>1 DEF Goes, Processes
  <2>3. Place(q.pc) < Place(p.pc)
    BY <1>5, <2>2 DEF Place
  <2> QED
    BY <2>2, <2>3, PassingShrinks
<1>6. CASE AppendTip(a)
  <2>1. PICK word : Becomes(a, [p EXCEPT !.pc = "cas", !.tip = chain, !.word = word])
    BY <1>6 DEF AppendTip
  <2>2. PICK q : q = [p EXCEPT !.pc = "cas", !.tip = chain, !.word = word]
    OBVIOUS
  <2>3. q.tries = p.tries /\ q.pc = "cas" /\ p.pc \in {"tip", "idle"}
    BY <1>1, <1>6, <2>2 DEF Processes, AppendTip, At, Starting
  <2>4. Place(q.pc) < Place(p.pc)
    BY <2>3 DEF Place
  <2> QED
    BY <2>1, <2>2, <2>3, <2>4, PassingShrinks
<1>7. CASE AppendCasFails(a)
  <2>1. PICK q : q = [p EXCEPT !.pc = "lost"]
    OBVIOUS
  <2>2. Becomes(a, q) /\ p.pc = "cas" /\ q.tries = p.tries /\ q.pc = "lost"
    BY <1>1, <1>7, <2>1 DEF AppendCasFails, At, Goes, Processes
  <2>3. Place(q.pc) < Place(p.pc)
    BY <2>2 DEF Place
  <2> QED
    BY <2>2, <2>3, PassingShrinks
<1>8. CASE AppendLost(a)
  <2>1. PICK q : q = [p EXCEPT !.pc = "tip"]
    OBVIOUS
  <2>2. q \in Processes /\ q.tries = p.tries /\ Retry(a, q)
    BY <1>1, <1>8, <2>1 DEF AppendLost, Processes, PcSet
  <2> QED
    BY <2>2, RetryShrinks
<1>9. CASE AppendCas(a)
  <2>1. Place("lost") < Place(p.pc)
    BY <1>9 DEF AppendCas, At, Place
  <2> QED
    BY <1>2, <1>9, <2>1, UnclearShrinks DEF AppendCas
<1> QED
  BY <1>2, <1>3, <1>4, <1>5, <1>6, <1>7, <1>8, <1>9 DEF AppendStep, ReviewRead, CiRead,
     AbandonRead, Starting, At

LEMMA UpdateShrinks ==
    ASSUME TypeOK, TriesInv, NEW a \in Actors, UpdateStep(a)
    PROVE  Shrinks(a)
<1> DEFINE p == proc[a]
<1>1. p \in Processes
  BY DEF TypeOK, ProcessesTyped
<1>2. CASE UpdateRead(a)
  <2>1. PICK q : q = [p EXCEPT !.pc = "u_source", !.tip = chain, !.gen = State(chain).gen + 1]
    OBVIOUS
  <2>2. (\E how : Exits(a, how)) \/ (Becomes(a, q) /\ p.pc = "idle")
    BY <1>2, <2>1 DEF UpdateRead, At, Starting
  <2>3. q.tries = p.tries /\ q.pc = "u_source"
    BY <1>1, <2>1 DEF Processes
  <2>4. CASE Becomes(a, q) /\ p.pc = "idle"
    <3>1. Place(q.pc) < Place(p.pc)
      BY <2>3, <2>4 DEF Place
    <3> QED
      BY <2>3, <2>4, <3>1, PassingShrinks
  <2> QED
    BY <2>2, <2>4 DEF Shrinks
<1>3. CASE UpdateReadSource(a)
  <2>1. PICK q : q = [p EXCEPT !.pc = "u_base", !.src = source]
    OBVIOUS
  <2>2. Becomes(a, q) /\ p.pc = "u_source" /\ q.tries = p.tries /\ q.pc = "u_base"
    BY <1>1, <1>3, <2>1 DEF UpdateReadSource, At, Processes
  <2>3. Place(q.pc) < Place(p.pc)
    BY <2>2 DEF Place
  <2> QED
    BY <2>2, <2>3, PassingShrinks
<1>4. CASE UpdateReadBase(a)
  <2>1. PICK q : q = [p EXCEPT !.pc = "u_tip", !.base = base]
    OBVIOUS
  <2>2. (\E how : Exits(a, how)) \/ (Becomes(a, q) /\ p.pc = "u_base")
    BY <1>4, <2>1 DEF UpdateReadBase, At
  <2>3. q.tries = p.tries /\ q.pc = "u_tip"
    BY <1>1, <2>1 DEF Processes
  <2>4. CASE Becomes(a, q) /\ p.pc = "u_base"
    <3>1. Place(q.pc) < Place(p.pc)
      BY <2>3, <2>4 DEF Place
    <3> QED
      BY <2>3, <2>4, <3>1, PassingShrinks
  <2> QED
    BY <2>2, <2>4 DEF Shrinks
<1>5. CASE UpdateTip(a)
  <2>1. PICK q : q = [p EXCEPT !.pc = "u_txn", !.tip = chain]
    OBVIOUS
  <2>2. Becomes(a, q) /\ p.pc = "u_tip" /\ q.tries = p.tries /\ q.pc = "u_txn"
    BY <1>1, <1>5, <2>1 DEF UpdateTip, At, Processes
  <2>3. Place(q.pc) < Place(p.pc)
    BY <2>2 DEF Place
  <2> QED
    BY <2>2, <2>3, PassingShrinks
<1>6. CASE UpdateTxnFails(a)
  <2>1. PICK q : q = [p EXCEPT !.pc = "u_claimed"]
    OBVIOUS
  <2>2. Becomes(a, q) /\ p.pc = "u_txn" /\ q.tries = p.tries /\ q.pc = "u_claimed"
    BY <1>1, <1>6, <2>1 DEF UpdateTxnFails, At, Goes, Processes
  <2>3. Place(q.pc) < Place(p.pc)
    BY <2>2 DEF Place
  <2> QED
    BY <2>2, <2>3, PassingShrinks
<1>7. CASE UpdateClaimed(a)
  <2>1. PICK q : q = [p EXCEPT !.pc = "u_moved"]
    OBVIOUS
  <2>2. (\E how : Exits(a, how)) \/ (Becomes(a, q) /\ p.pc = "u_claimed")
    BY <1>7, <2>1 DEF UpdateClaimed, At, Goes
  <2>3. q.tries = p.tries /\ q.pc = "u_moved"
    BY <1>1, <2>1 DEF Processes
  <2>4. CASE Becomes(a, q) /\ p.pc = "u_claimed"
    <3>1. Place(q.pc) < Place(p.pc)
      BY <2>3, <2>4 DEF Place
    <3> QED
      BY <2>3, <2>4, <3>1, PassingShrinks
  <2> QED
    BY <2>2, <2>4 DEF Shrinks
<1>8. CASE UpdateMoved(a)
  <2>1. PICK q : q = [p EXCEPT !.pc = "u_head"]
    OBVIOUS
  <2>2. (\E how : Exits(a, how)) \/ (Becomes(a, q) /\ p.pc = "u_moved")
    BY <1>8, <2>1 DEF UpdateMoved, At, Goes
  <2>3. q.tries = p.tries /\ q.pc = "u_head"
    BY <1>1, <2>1 DEF Processes
  <2>4. CASE Becomes(a, q) /\ p.pc = "u_moved"
    <3>1. Place(q.pc) < Place(p.pc)
      BY <2>3, <2>4 DEF Place
    <3> QED
      BY <2>3, <2>4, <3>1, PassingShrinks
  <2> QED
    BY <2>2, <2>4 DEF Shrinks
<1>9. CASE UpdateHead(a)
  <2>1. PICK q : q = [p EXCEPT !.pc = "u_txn", !.tip = chain]
    OBVIOUS
  <2>2. q \in Processes /\ q.tries = p.tries /\ Retry(a, q)
    BY <1>1, <1>9, <2>1 DEF UpdateHead, Processes, PcSet, Finalizing, TypeOK, RefsTyped
  <2> QED
    BY <2>2, RetryShrinks
<1>10. CASE \E how : Exits(a, how)
  BY <1>10 DEF Shrinks
<1>11. CASE UpdateTxn(a)
  <2>1. Place("u_claimed") < Place(p.pc)
    BY <1>11 DEF UpdateTxn, At, Place
  <2> QED
    BY <1>10, <1>11, <2>1, UnclearShrinks DEF UpdateTxn
<1> QED
  BY <1>2, <1>3, <1>4, <1>5, <1>6, <1>7, <1>8, <1>9, <1>10, <1>11 DEF UpdateStep

LEMMA PrepareShrinks ==
    ASSUME TypeOK, TriesInv, NEW a \in Actors, PrepareStep(a)
    PROVE  Shrinks(a)
<1> DEFINE p == proc[a]
<1>1. p \in Processes
  BY DEF TypeOK, ProcessesTyped
<1>2. CASE PrepareRead(a)
  <2>1. PICK q : q = [p EXCEPT !.pc = "p_base", !.gen = State(chain).gen, !.src = State(chain).source]
    OBVIOUS
  <2>2. (\E how : Exits(a, how)) \/ (Becomes(a, q) /\ p.pc = "idle")
    BY <1>2, <2>1 DEF PrepareRead, At, Starting
  <2>3. q.tries = p.tries /\ q.pc = "p_base"
    BY <1>1, <2>1 DEF Processes
  <2>4. CASE Becomes(a, q) /\ p.pc = "idle"
    <3>1. Place(q.pc) < Place(p.pc)
      BY <2>3, <2>4 DEF Place
    <3> QED
      BY <2>3, <2>4, <3>1, PassingShrinks
  <2> QED
    BY <2>2, <2>4 DEF Shrinks
<1>3. CASE PrepareBase(a)
  <2>1. PICK r \in 1..NextCommit : Becomes(a, [p EXCEPT !.pc = "p_tip", !.base = base, !.res = r])
    BY <1>3 DEF PrepareBase
  <2>2. PICK q : q = [p EXCEPT !.pc = "p_tip", !.base = base, !.res = r]
    OBVIOUS
  <2>3. Becomes(a, q) /\ p.pc = "p_base" /\ q.tries = p.tries /\ q.pc = "p_tip"
    BY <1>1, <1>3, <2>1, <2>2 DEF PrepareBase, At, Processes
  <2>4. Place(q.pc) < Place(p.pc)
    BY <2>3 DEF Place
  <2> QED
    BY <2>3, <2>4, PassingShrinks
<1>4. CASE PrepareTip(a)
  <2>1. PICK q : q = [p EXCEPT !.pc = "p_pin", !.tip = chain]
    OBVIOUS
  <2>2. Becomes(a, q) /\ p.pc = "p_tip" /\ q.tries = p.tries /\ q.pc = "p_pin"
    BY <1>1, <1>4, <2>1 DEF PrepareTip, At, Processes
  <2>3. Place(q.pc) < Place(p.pc)
    BY <2>2 DEF Place
  <2> QED
    BY <2>2, <2>3, PassingShrinks
<1>5. CASE PreparePin(a)
  <2>1. PICK q : q = [p EXCEPT !.pc = "p_txn", !.bind = [strategy |-> Command(a).arg, result |-> result]]
    OBVIOUS
  <2>2. Becomes(a, q) /\ p.pc = "p_pin" /\ q.tries = p.tries /\ q.pc = "p_txn"
    BY <1>1, <1>5, <2>1 DEF PreparePin, At, Processes
  <2>3. Place(q.pc) < Place(p.pc)
    BY <2>2 DEF Place
  <2> QED
    BY <2>2, <2>3, PassingShrinks
<1>6. CASE PrepareTxnFails(a)
  <2>1. PICK q : q = [p EXCEPT !.pc = "p_head"]
    OBVIOUS
  <2>2. Becomes(a, q) /\ p.pc = "p_txn" /\ q.tries = p.tries /\ q.pc = "p_head"
    BY <1>1, <1>6, <2>1 DEF PrepareTxnFails, At, Goes, Processes
  <2>3. Place(q.pc) < Place(p.pc)
    BY <2>2 DEF Place
  <2> QED
    BY <2>2, <2>3, PassingShrinks
<1>7. CASE PrepareHead(a)
  <2>1. PICK q : q = [p EXCEPT !.pc = "p_pin", !.tip = chain]
    OBVIOUS
  <2>2. q \in Processes /\ q.tries = p.tries /\ Retry(a, q)
    BY <1>1, <1>7, <2>1 DEF PrepareHead, Processes, PcSet, Finalizing, TypeOK, RefsTyped
  <2> QED
    BY <2>2, RetryShrinks
<1>8. CASE \E how : Exits(a, how)
  BY <1>8 DEF Shrinks
<1>9. CASE PrepareTxn(a)
  <2>1. Place("p_head") < Place(p.pc)
    BY <1>9 DEF PrepareTxn, At, Place
  <2> QED
    BY <1>8, <1>9, <2>1, UnclearShrinks DEF PrepareTxn
<1> QED
  BY <1>2, <1>3, <1>4, <1>5, <1>6, <1>7, <1>8, <1>9 DEF PrepareStep, PrepareBaseFails

LEMMA MergeShrinks ==
    ASSUME TypeOK, TriesInv, NEW a \in Actors, MergeStep(a)
    PROVE  Shrinks(a)
<1> DEFINE p == proc[a]
<1>1. p \in Processes
  BY DEF TypeOK, ProcessesTyped
<1>2. CASE MergeGate(a)
  <2>1. PICK q : q = [p EXCEPT !.pc = "m_base", !.tip = chain, !.gen = State(chain).gen, !.src = State(chain).source]
    OBVIOUS
  <2>2. (\E how : Exits(a, how)) \/ (Becomes(a, q) /\ p.pc = "idle")
    BY <1>2, <2>1 DEF MergeGate, At, Starting
  <2>3. q.tries = p.tries /\ q.pc = "m_base"
    BY <1>1, <2>1 DEF Processes
  <2>4. CASE Becomes(a, q) /\ p.pc = "idle"
    <3>1. Place(q.pc) < Place(p.pc)
      BY <2>3, <2>4 DEF Place
    <3> QED
      BY <2>3, <2>4, <3>1, PassingShrinks
  <2> QED
    BY <2>2, <2>4 DEF Shrinks
<1>3. CASE MergeTakesCandidate(a)
  <2>1. PICK b, x, r, bind :
            Becomes(a, [p EXCEPT !.pc = "m_pin", !.base = b, !.src = x, !.res = r, !.bind = bind])
    BY <1>3 DEF MergeTakesCandidate
  <2>2. PICK q : q = [p EXCEPT !.pc = "m_pin", !.base = b, !.src = x, !.res = r, !.bind = bind]
    OBVIOUS
  <2>3. Becomes(a, q) /\ p.pc = "m_base" /\ q.tries = p.tries /\ q.pc = "m_pin"
    BY <1>1, <1>3, <2>1, <2>2 DEF MergeTakesCandidate, At, Processes
  <2>4. Place(q.pc) < Place(p.pc)
    BY <2>3 DEF Place
  <2> QED
    BY <2>3, <2>4, PassingShrinks
<1>4. CASE MergeExecutes(a)
  <2>1. PICK r \in 1..NextCommit : Becomes(a, [p EXCEPT !.pc = "m_pending", !.base = base, !.res = r])
    BY <1>4 DEF MergeExecutes
  <2>2. PICK q : q = [p EXCEPT !.pc = "m_pending", !.base = base, !.res = r]
    OBVIOUS
  <2>3. Becomes(a, q) /\ p.pc = "m_base" /\ q.tries = p.tries /\ q.pc = "m_pending"
    BY <1>1, <1>4, <2>1, <2>2 DEF MergeExecutes, At, Processes
  <2>4. Place(q.pc) < Place(p.pc)
    BY <2>3 DEF Place
  <2> QED
    BY <2>3, <2>4, PassingShrinks
<1>5. CASE MergeStages(a)
  <2>1. PICK pc : pc = IF LinkedIssue THEN "m_fold" ELSE "m_txn"
    OBVIOUS
  <2>2. PICK q : q = [p EXCEPT !.pc = pc, !.stage = issue]
    OBVIOUS
  <2>3. Becomes(a, q) /\ p.pc = "m_stage" /\ q.tries = p.tries /\ q.pc = pc
    BY <1>1, <1>5, <2>1, <2>2 DEF MergeStages, At, Processes
  <2>4. Place(q.pc) < Place(p.pc)
    BY <2>1, <2>3 DEF Place
  <2> QED
    BY <2>3, <2>4, PassingShrinks
<1>6. CASE MergeFoldsIssue(a)
  <2>1. PICK x : Becomes(a, [p EXCEPT !.pc = "m_txn", !.stage = x])
    BY <1>6 DEF MergeFoldsIssue
  <2>2. PICK q : q = [p EXCEPT !.pc = "m_txn", !.stage = x]
    OBVIOUS
  <2>3. Becomes(a, q) /\ p.pc = "m_fold" /\ q.tries = p.tries /\ q.pc = "m_txn"
    BY <1>1, <1>6, <2>1, <2>2 DEF MergeFoldsIssue, At, Processes
  <2>4. Place(q.pc) < Place(p.pc)
    BY <2>3 DEF Place
  <2> QED
    BY <2>3, <2>4, PassingShrinks
<1>7. CASE MergeReadsHead(a) \/ MergeReadsIssue(a)
  <2>1. ASSUME NEW to \in {"m_issue", "m_clean"}, Goes(a, to), p.pc = "m_head" \/ to = "m_clean",
               p.pc \in {"m_head", "m_issue"}
        PROVE  Shrinks(a)
    <3>1. PICK q : q = [p EXCEPT !.pc = to]
      OBVIOUS
    <3>2. Becomes(a, q) /\ q.tries = p.tries /\ q.pc = to
      BY <1>1, <2>1, <3>1 DEF Goes, Processes
    <3>3. Place(q.pc) < Place(p.pc)
      BY <2>1, <3>2 DEF Place
    <3> QED
      BY <3>2, <3>3, PassingShrinks
  <2>2. ASSUME p.pc = "m_head", Retries(a, [p EXCEPT !.tip = chain]) PROVE Shrinks(a)
    <3>1. PICK q : q = [p EXCEPT !.tip = chain]
      OBVIOUS
    <3>2. q \in Processes /\ q.tries = p.tries
      BY <1>1, <3>1 DEF Processes, TypeOK, RefsTyped
    <3> QED
      BY <2>2, <3>1, <3>2, RetriesShrink
  <2>3. ASSUME p.pc = "m_issue", Retries(a, p) PROVE Shrinks(a)
    BY <1>1, <2>3, RetriesShrink
  <2> QED
    BY <1>7, <2>1, <2>2, <2>3 DEF MergeReadsHead, MergeReadsIssue, At
<1>8. CASE MergePin(a)
  <2>1. PICK q : q = [p EXCEPT !.pc = "m_stage"]
    OBVIOUS
  <2>2. (\E how : Exits(a, how)) \/ (Becomes(a, q) /\ p.pc = "m_pin")
    BY <1>8, <2>1 DEF MergePin, At, Goes
  <2>3. q.tries = p.tries /\ q.pc = "m_stage"
    BY <1>1, <2>1 DEF Processes
  <2>4. CASE Becomes(a, q) /\ p.pc = "m_pin"
    <3>1. Place(q.pc) < Place(p.pc)
      BY <2>3, <2>4 DEF Place
    <3> QED
      BY <2>3, <2>4, <3>1, PassingShrinks
  <2> QED
    BY <2>2, <2>4 DEF Shrinks
<1>9. CASE MergeCreatesPending(a)
  <2>1. PICK q : q = [p EXCEPT !.pc = "m_worktree"]
    OBVIOUS
  <2>2. (\E how : Exits(a, how)) \/ (Becomes(a, q) /\ p.pc = "m_pending")
    BY <1>9, <2>1 DEF MergeCreatesPending, At, Goes
  <2>3. q.tries = p.tries /\ q.pc = "m_worktree"
    BY <1>1, <2>1 DEF Processes
  <2>4. CASE Becomes(a, q) /\ p.pc = "m_pending"
    <3>1. Place(q.pc) < Place(p.pc)
      BY <2>3, <2>4 DEF Place
    <3> QED
      BY <2>3, <2>4, <3>1, PassingShrinks
  <2> QED
    BY <2>2, <2>4 DEF Shrinks
<1>10. CASE MergeWorktreeGone(a)
  <2>1. PICK q : q = [p EXCEPT !.pc = "m_stage"]
    OBVIOUS
  <2>2. Becomes(a, q) /\ p.pc = "m_worktree" /\ q.tries = p.tries /\ q.pc = "m_stage"
    BY <1>1, <1>10, <2>1 DEF MergeWorktreeGone, At, Goes, Processes
  <2>3. Place(q.pc) < Place(p.pc)
    BY <2>2 DEF Place
  <2> QED
    BY <2>2, <2>3, PassingShrinks
<1>11. CASE MergeWorktreeStays(a)
  <2>1. PICK q : q = [p EXCEPT !.pc = "m_clean"]
    OBVIOUS
  <2>2. Becomes(a, q) /\ p.pc = "m_worktree" /\ q.tries = p.tries /\ q.pc = "m_clean"
    BY <1>1, <1>11, <2>1 DEF MergeWorktreeStays, At, Goes, Processes
  <2>3. Place(q.pc) < Place(p.pc)
    BY <2>2 DEF Place
  <2> QED
    BY <2>2, <2>3, PassingShrinks
<1>12. CASE MergeTxn(a)
  <2>1. PICK q : q = [p EXCEPT !.pc = "m_refresh"]
    OBVIOUS
  <2>2. \/ (\E how : Exits(a, how)) \/ (Becomes(a, q) /\ p.pc = "m_txn")
        \/ Unclear(a, "m_head") /\ p.pc = "m_txn"
    BY <1>12, <2>1 DEF MergeTxn, At, Goes
  <2>3. q.tries = p.tries /\ q.pc = "m_refresh"
    BY <1>1, <2>1 DEF Processes
  <2>4. CASE Becomes(a, q) /\ p.pc = "m_txn"
    <3>1. Place(q.pc) < Place(p.pc)
      BY <2>3, <2>4 DEF Place
    <3> QED
      BY <2>3, <2>4, <3>1, PassingShrinks
  <2>5. CASE Unclear(a, "m_head") /\ p.pc = "m_txn"
    <3>1. Place("m_head") < Place(p.pc)
      BY <2>5 DEF Place
    <3> QED
      BY <2>5, <3>1, UnclearShrinks
  <2> QED
    BY <2>2, <2>4, <2>5 DEF Shrinks
<1>13. CASE MergeTxnFails(a)
  <2>1. PICK q : q = [p EXCEPT !.pc = "m_head"]
    OBVIOUS
  <2>2. Becomes(a, q) /\ p.pc = "m_txn" /\ q.tries = p.tries /\ q.pc = "m_head"
    BY <1>1, <1>13, <2>1 DEF MergeTxnFails, At, Goes, Processes
  <2>3. Place(q.pc) < Place(p.pc)
    BY <2>2 DEF Place
  <2> QED
    BY <2>2, <2>3, PassingShrinks
<1>14. CASE MergeRefreshFails(a)
  <2>1. PICK q : q = [p EXCEPT !.pc = "m_seen"]
    OBVIOUS
  <2>2. Becomes(a, q) /\ p.pc = "m_refresh" /\ q.tries = p.tries /\ q.pc = "m_seen"
    BY <1>1, <1>14, <2>1 DEF MergeRefreshFails, At, Goes, Processes
  <2>3. Place(q.pc) < Place(p.pc)
    BY <2>2 DEF Place
  <2> QED
    BY <2>2, <2>3, PassingShrinks
<1>15. CASE RollbackReadsHead(a)
  <2>1. PICK q : q = [p EXCEPT !.pc = "m_rollback", !.seen = chain]
    OBVIOUS
  <2>2. Becomes(a, q) /\ p.pc = "m_seen" /\ q.tries = p.tries /\ q.pc = "m_rollback"
    BY <1>1, <1>15, <2>1 DEF RollbackReadsHead, At, Processes
  <2>3. Place(q.pc) < Place(p.pc)
    BY <2>2 DEF Place
  <2> QED
    BY <2>2, <2>3, PassingShrinks
<1>16. CASE \E how : Exits(a, how)
  BY <1>16 DEF Shrinks
<1> QED
  BY <1>2, <1>3, <1>4, <1>5, <1>6, <1>7, <1>8, <1>9, <1>10, <1>11, <1>12, <1>13, <1>14, <1>15, <1>16 DEF MergeStep, MergeRefusedAtBase, MergeExecutionFails, MergePendingFails, MergeStageFails, MergeCleans,
     MergeLeavesPending, MergeRefreshes, Rollback, RollbackFails

\* A process that takes a step is at an invocation.
LEMMA StepHasCall ==
    ASSUME TypeOK, NEW a \in Actors, ProcessStep(a)
    PROVE  todo[a] # <<>>
<1>1. CASE AppendStep(a)
  BY <1>1 DEF TypeOK, ProcessesTyped, AppendStep, ReviewRead, CiRead, Bind, AbandonRead, AppendTip,
     AppendCas, AppendCasFails, AppendLost, Starting, At
<1>2. CASE UpdateStep(a)
  BY <1>2 DEF TypeOK, ProcessesTyped, UpdateStep, UpdateRead, UpdateReadSource, UpdateReadBase,
     UpdateTip, UpdateTxn, UpdateTxnFails, UpdateClaimed, UpdateMoved, UpdateHead, Starting, At
<1>3. CASE PrepareStep(a)
  BY <1>3 DEF TypeOK, ProcessesTyped, PrepareStep, PrepareRead, PrepareBase, PrepareBaseFails,
     PrepareTip, PreparePin, PrepareTxn, PrepareTxnFails, PrepareHead, Starting, At
<1>4. CASE MergeStep(a)
  BY <1>4 DEF TypeOK, ProcessesTyped, MergeStep, MergeGate, MergeRefusedAtBase,
     MergeTakesCandidate, MergePin, MergeExecutes, MergeExecutionFails, MergeCreatesPending,
     MergePendingFails, MergeWorktreeGone, MergeWorktreeStays, MergeStages, MergeFoldsIssue,
     MergeStageFails, MergeTxn, MergeTxnFails, MergeReadsHead, MergeReadsIssue, MergeCleans,
     MergeLeavesPending, MergeRefreshes, MergeRefreshFails, RollbackReadsHead, Rollback,
     RollbackFails, Starting, At
<1> QED
  BY <1>1, <1>2, <1>3, <1>4 DEF ProcessStep

\* What an actor's step does to its own invocation.
Shrunk(a) ==
    \/ UNCHANGED <<proc[a], todo[a]>>
    \/ Len(todo'[a]) < Len(todo[a])
    \/ todo'[a] = todo[a] /\ StepsLeft(proc'[a]) < StepsLeft(proc[a])

LEMMA EndShrinks ==
    ASSUME TypeOK, TriesInv, NEW a \in Actors, todo[a] # <<>>,
           todo' = [todo EXCEPT ![a] = Tail(@)], proc' = [proc EXCEPT ![a] = Idle]
    PROVE  TriesInv' /\ \A b \in Actors : Shrunk(b)
<1>1. proc \in [Actors -> Processes] /\ todo \in [Actors -> Seq(Commands)]
  BY DEF TypeOK, ProcessesTyped
<1>2. \A b \in Actors : b # a => proc'[b] = proc[b] /\ todo'[b] = todo[b]
  BY <1>1
<1>3. proc'[a].tries = 0 /\ todo'[a] = Tail(todo[a])
  BY <1>1 DEF Idle
<1>4. Len(Tail(todo[a])) = Len(todo[a]) - 1 /\ Len(todo[a]) \in Nat
  BY <1>1, HeadTailProperties, LenProperties
<1>5. Len(todo'[a]) < Len(todo[a])
  <2>1. PICK n \in Nat : n = Len(todo[a])
    BY <1>4
  <2>2. PICK rest : rest = Len(Tail(todo[a]))
    OBVIOUS
  <2>3. rest = n - 1
    BY <1>4, <2>1, <2>2
  <2>4. rest < n
    BY <2>1, <2>3
  <2>5. Len(todo'[a]) = rest
    BY <1>3, <2>2
  <2> QED
    BY <2>1, <2>4, <2>5
<1>6. 0 <= MaxTries
  BY TriesAre
<1>7. TriesInv'
  BY <1>2, <1>3, <1>6 DEF TriesInv, MaxTries
<1> QED
  BY <1>2, <1>5, <1>7 DEF Shrunk

LEMMA CallsShrinkStep ==
    ASSUME TypeOK, TriesInv, [Next]_vars
    PROVE  TriesInv' /\ \A b \in Actors : Shrunk(b)
<1>1. ASSUME NEW a \in Actors, ProcessStep(a) PROVE TriesInv' /\ \A b \in Actors : Shrunk(b)
  <2>1. Shrinks(a) /\ todo[a] # <<>>
    BY <1>1, StepHasCall, AppendShrinks, UpdateShrinks, PrepareShrinks, MergeShrinks DEF ProcessStep
  <2>2. CASE \E how : Exits(a, how)
    BY <2>1, <2>2, EndShrinks DEF Exits
  <2>3. ASSUME NEW q, GoesOn(a, q), Nearer(proc[a], q)
        PROVE  TriesInv' /\ \A b \in Actors : Shrunk(b)
    <3>1. proc \in [Actors -> Processes] /\ proc' = [proc EXCEPT ![a] = q] /\ todo' = todo
      BY <2>3 DEF TypeOK, ProcessesTyped, GoesOn
    <3>2. proc'[a] = q /\ \A b \in Actors : b # a => proc'[b] = proc[b]
      BY <3>1
    <3>3. q.tries <= MaxTries /\ StepsLeft(q) < StepsLeft(proc[a])
      BY <2>3, NearerShrinks
    <3>4. TriesInv'
      BY <3>2, <3>3 DEF TriesInv, MaxTries
    <3> QED
      BY <3>1, <3>2, <3>3, <3>4 DEF Shrunk
  <2> QED
    BY <2>1, <2>2, <2>3 DEF Shrinks
<1>2. ASSUME NEW a \in Actors, Crash(a) PROVE TriesInv' /\ \A b \in Actors : Shrunk(b)
  <2>1. todo[a] # <<>>
    BY <1>2 DEF Crash, At, TypeOK, ProcessesTyped
  <2> QED
    BY <1>2, <2>1, EndShrinks DEF Crash
<1>3. CASE UNCHANGED <<proc, todo>>
  BY <1>3 DEF TriesInv, MaxTries, Shrunk
<1> QED
  BY <1>1, <1>2, <1>3 DEF Next, PushBase, RewindBase, PushSource, WriteIssue, Outside, vars

LEMMA CallsStart == Init => TriesInv
<1> SUFFICES ASSUME Init PROVE TriesInv
  OBVIOUS
<1>1. \A a \in Actors : proc[a].tries = 0
  BY DEF Init, Idle
<1>2. MaxTries \in Nat
  BY RefsAssumption DEF MaxTries
<1> QED
  BY <1>1, <1>2 DEF TriesInv

(***************************************************************************)
(* An invocation takes at most 16 * MaxTries + 15 steps: each is its last  *)
(* or leaves it fewer, and nobody else's step makes them more, whatever    *)
(* transactions fail and whatever others write (store.rs append_event,     *)
(* update_pr; pr_prepare.rs prepare_pr; finalize.rs run_finalize).         *)
(***************************************************************************)
THEOREM InvocationsShrink == Spec => CallsShrink
<1>1. TypeOK /\ TriesInv /\ [Next]_vars => TriesInv'
  BY CallsShrinkStep
<1>2. TypeOK /\ TriesInv /\ [Next]_vars
      => [\A a \in Actors :
             \/ UNCHANGED <<proc[a], todo[a]>>
             \/ Len(todo'[a]) < Len(todo[a])
             \/ todo'[a] = todo[a] /\ StepsLeft(proc'[a]) < StepsLeft(proc[a])]_vars
  BY CallsShrinkStep DEF Shrunk
<1> QED
  BY <1>1, <1>2, CallsStart, TypeCorrect, PTL DEF Spec, CallsShrink

(***************************************************************************)
(* The steps an invocation may still take are a natural number, and never  *)
(* more than all of them (store.rs MAX_APPEND_RETRIES, merge_state.rs      *)
(* MAX_FINALIZE_RETRIES).                                                  *)
(***************************************************************************)
THEOREM StepsAreBounded == Spec => [](\A a \in Actors : StepsLeft(proc[a]) \in 1..16 * MaxTries + 15)
<1>1. TypeOK /\ TriesInv => \A a \in Actors : StepsLeft(proc[a]) \in 1..16 * MaxTries + 15
  <2> SUFFICES ASSUME TypeOK, TriesInv, NEW a \in Actors
               PROVE  StepsLeft(proc[a]) \in 1..16 * MaxTries + 15
    OBVIOUS
  <2>1. PICK t, m, x : t = proc[a].tries /\ m = MaxTries /\ x = Place(proc[a].pc)
    OBVIOUS
  <2>2. t \in Nat /\ m \in Nat /\ t <= m /\ x \in 1..15
    BY <2>1, TriesAre, Places
  <2>3. 16 * (m - t) + x \in 1..16 * m + 15
    BY <2>2
  <2> QED
    BY <2>1, <2>3 DEF StepsLeft
<1>2. TypeOK /\ TriesInv /\ [Next]_vars => TriesInv'
  BY CallsShrinkStep
<1> QED
  BY <1>1, <1>2, CallsStart, TypeCorrect, PTL DEF Spec
=============================================================================

------------------------------ MODULE PrProperties ------------------------------
(***************************************************************************)
(* What a pull request's commands promise, whatever order their reads and  *)
(* transactions interleave in.                                             *)
(***************************************************************************)
EXTENDS PrLifecycle

(***************************************************************************)
(* The types.                                                              *)
(***************************************************************************)
Ids == (Actors \cup {Founder}) \X Nat
Roles == {NoRole} \cup {RoleOf[x] : x \in Actors \cup {Founder}}
Kinds == {"pr.created", "pr.comment", "pr.review", "ci.check", "pr.update", "pr.prepared",
          "pr.merge", "pr.abandoned"}
IssueKinds == {"issue.created", "issue.comment", "issue.close", "issue.reopen"}

\* Decisions, check statuses and strategies, and what stands for none of them.
Words == {"", "none", "pending", "success", "failed"} \cup Decisions \cup Strategies

Binds == [strategy : Words, result : Nat]
Candidates == [gen : Nat, source : Nat, base : Nat, strategy : Words, result : Nat]
Events == [kind : Kinds, id : Ids, role : Roles, word : Words, gen : Nat,
           source : Nat, base : Nat, bind : Binds]
States == [gen : Nat, source : Nat, base : Nat, creator : Roles,
           decision : Words, decGen : Nat, decBind : Binds, decRole : Roles,
           ci : Words, ciGen : Nat, ciBind : Binds,
           prepared : Candidates, merged : Nat, abandoned : BOOLEAN]
Chains == Seq([ev : Events, st : States])
IssueChains == Seq([kind : IssueKinds, id : Ids, open : BOOLEAN])
PcSet == {"idle", "bind", "tip", "cas", "lost",
          "u_source", "u_base", "u_tip", "u_txn", "u_claimed", "u_moved", "u_head",
          "p_base", "p_tip", "p_pin", "p_txn", "p_head", "m_base", "m_pin"} \cup Finalizing
Processes == [pc : PcSet, tip : Chains, seen : Chains, stage : IssueChains,
              gen : Nat, src : Nat, base : Nat, res : Nat,
              bind : Binds, word : Words, tries : Nat]

\* The commits that have been made.
Made == DOMAIN objects

\* The commits a chain's snapshot and candidate name are among made.
SnapshotIn(c, made) ==
    c # <<>> =>
        /\ State(c).source \in made
        /\ State(c).prepared.result # NoCommit => State(c).prepared.result \in made

\* Where a process has no expected tip yet, and where what it captured is in use.
HasNoTip == {"idle", "bind", "tip", "p_base", "p_tip"}
HasSource == {"u_base", "u_tip", "u_txn", "u_claimed", "u_moved", "u_head", "p_base", "m_base"}
HasBase == {"m_pin"} \cup Finalizing
HasResult == {"p_tip", "p_pin", "p_txn", "p_head", "m_pin"} \cup Finalizing

\* What a process may hold in memory when the commits in made exist.
Legal(p, made) ==
    /\ p \in Processes
    /\ p.pc \notin HasNoTip => p.tip # <<>>
    /\ SnapshotIn(p.tip, made)
    /\ p.pc \in HasSource => p.src \in made
    /\ p.pc \in HasBase => p.base \in made
    /\ p.pc \in HasResult => p.res \in made

RefsTyped ==
    /\ chain \in Chains /\ chain # <<>> /\ SnapshotIn(chain, Made)
    /\ base \in Made /\ source \in Made
    /\ result \in Made \cup {NoCommit}
    /\ issue \in IssueChains /\ (LinkedIssue => issue # <<>>)
    /\ pins \subseteq [gen : Nat, source : Nat, base : Nat]

ObjectsTyped ==
    /\ objects \in Seq([anc : SUBSET Nat, from : Nat])
    /\ \A c \in Made : Anc(c) \subseteq Made

ProcessesTyped ==
    /\ proc \in [Actors -> Processes]
    /\ todo \in [Actors -> Seq(Commands)]
    /\ reported \subseteq [id : Ids, how : {"ok", "refused", "partial", "unclear"}]
    /\ \A a \in Actors : /\ Legal(proc[a], Made)
                         /\ proc[a].pc # "idle" => todo[a] # <<>>

(***************************************************************************)
(* The type invariant: the variables hold values of their types, and no    *)
(* ref, snapshot or process names a commit that was never made.            *)
(***************************************************************************)
TypeOK == RefsTyped /\ ObjectsTyped /\ ProcessesTyped

----------------------------------------------------------------------------
(* The merge gate. *)

\* r is the last event of its kind before position i of chain c.
LastBefore(c, r, i, kind) ==
    /\ r \in 1..i-1 /\ c[r].ev.kind = kind
    /\ \A k \in r+1..i-1 : c[k].ev.kind # kind

\* The generation event r is bound to is the newest one pinned before position i.
OfNewestGeneration(c, r, i) ==
    \A u \in 1..i-1 : c[u].ev.kind = "pr.update" => c[u].ev.gen <= c[r].ev.gen

\* Position i of chain c may hold a pr.merge.
AuthorisedAt(c, i) ==
    /\ \A k \in 1..i-1 : c[k].ev.kind \notin {"pr.abandoned", "pr.merge"}
    /\ \E r \in 1..i-1 :
          /\ LastBefore(c, r, i, "pr.review") /\ OfNewestGeneration(c, r, i)
          /\ c[r].ev.word = "approve"
          /\ c[1].ev.role = NoRole \/ c[r].ev.role # c[1].ev.role
    /\ \E r \in 1..i-1 :
          /\ LastBefore(c, r, i, "ci.check") /\ OfNewestGeneration(c, r, i)
          /\ c[r].ev.word = "success"

(***************************************************************************)
(* However reviews, checks, updates and abandons race the merge's gate     *)
(* read, its strategy run and its retries, a pr.merge is only ever         *)
(* recorded after events that authorise it: no abandon and no other merge  *)
(* precede it, the last review before it approves the newest generation    *)
(* and is not by the role that created the PR, and the last check before   *)
(* it is green on the newest generation (merge_state.rs                    *)
(* validate_merge_gate_at, finalize.rs run_finalize).                      *)
(***************************************************************************)
MergeAuthorised ==
    \A i \in DOMAIN chain : chain[i].ev.kind = "pr.merge" => AuthorisedAt(chain, i)

(***************************************************************************)
(* What lands is the snapshot that was reviewed: the merged commit carries *)
(* the work of the source commit of the generation current where the merge *)
(* is recorded, so an update racing a merge never has its new content      *)
(* marked as merged (finalize.rs validate_adopted_finalize_tip, F-003).    *)
(***************************************************************************)
LandsTheSnapshot ==
    \A i \in DOMAIN chain : chain[i].ev.kind = "pr.merge" =>
        CarriesWork(chain[i].ev.bind.result, chain[i-1].st.source)

\* bind is what both the effective approve and the green latest check were taken against.
VettedAt(st, bind) ==
    /\ st.decision = "approve" /\ st.decBind = bind
    /\ st.ci = "success" /\ st.ciBind = bind

(***************************************************************************)
(* A prepared result is never merged unvetted: with a candidate in the     *)
(* fold, the merge records exactly its commit, and at some tip before it   *)
(* both the approve and the green check were bound to that commit and to   *)
(* the strategy of the merge (pr_prepare.rs validate_prepared_candidate,   *)
(* F-002).                                                                 *)
(***************************************************************************)
ResultWasVetted ==
    \A i \in DOMAIN chain : chain[i].ev.kind = "pr.merge" =>
        LET st == chain[i-1].st IN
        st.prepared.result # NoCommit =>
            /\ chain[i].ev.bind.result = st.prepared.result
            /\ \E k \in 1..i-1 : VettedAt(chain[k].st, chain[i].ev.bind)

\* A merge finalizes the candidate of the very head it is recorded on, never under a head
\* that holds another one (finalize.rs, F-002).
LandsTheCandidate ==
    \A i \in DOMAIN chain : chain[i].ev.kind = "pr.merge" =>
        LET st == chain[i-1].st IN
        st.prepared.result # NoCommit => chain[i].ev.bind = BindOf(st.prepared)

\* The same, at the very tip the merge is recorded on.
BoundAtLanding ==
    \A i \in DOMAIN chain : chain[i].ev.kind = "pr.merge" =>
        LET st == chain[i-1].st IN
        st.prepared.result # NoCommit => VettedAt(st, BindOf(st.prepared))

\* An abandoned PR never gains a review (pr_review.rs cmd_pr_review).
AbandonedGainsNoReview ==
    \A i \in DOMAIN chain : chain[i].ev.kind = "pr.review" => ~chain[i-1].st.abandoned

----------------------------------------------------------------------------
(* The chain. *)

(***************************************************************************)
(* Invocations are at most once, and their reports are true: an invocation *)
(* that reported success has its event in the chain for good, one that     *)
(* reported a refusal has left none, and no event is in the chain twice    *)
(* however often its append was retried (store.rs append_event, update_pr; *)
(* pr_prepare.rs prepare_pr; finalize.rs run_finalize).                    *)
(*                                                                         *)
(* The exception is the invocation whose transaction git applied and       *)
(* reported as failed.  It may report a refusal of what it recorded, and   *)
(* an append or a prepare takes its own event for a lost race and records  *)
(* it again.  An update, whose generation refs can be claimed once, and a  *)
(* merge, whose gate a merged PR never passes, are not repeated even then, *)
(* and a success is true even then.                                        *)
(***************************************************************************)
Misinformed(id) == [id |-> id, how |-> "unclear"] \in reported

ReportsAreTrue ==
    /\ \A i, j \in DOMAIN chain : chain[i].ev.id = chain[j].ev.id =>
          \/ i = j
          \/ Misinformed(chain[i].ev.id) /\ chain[i].ev.kind \notin {"pr.update", "pr.merge"}
    /\ \A r \in reported :
          LET recorded == \E i \in DOMAIN chain : chain[i].ev.id = r.id
          IN  /\ r.how = "ok" => recorded
              /\ r.how = "refused" => ~recorded \/ Misinformed(r.id)

\* An append is repeated only when another writer won the race for the ref, so that no event is
\* in the chain twice (store.rs cas_update_ref, append_event).
EventsAreRecordedOnce ==
    \A i, j \in DOMAIN chain : chain[i].ev.id = chain[j].ev.id => i = j

(***************************************************************************)
(* Every generation the chain ever shows is pinned, by one pair of refs,   *)
(* to exactly the commits the fold shows, and generations are numbered     *)
(* without gaps, however updates race each other (store.rs update_pr).     *)
(***************************************************************************)
SnapshotsPinned ==
    /\ \A i \in DOMAIN chain :
          Pin(chain[i].st.gen, chain[i].st.source, chain[i].st.base) \in pins
    /\ \A p, q \in pins : p.gen = q.gen => p = q
    /\ \A i \in DOMAIN chain : chain[i].ev.kind = "pr.update" =>
          chain[i].st.gen = chain[i-1].st.gen + 1

----------------------------------------------------------------------------
(* The branch, the issue and the result ref. *)

Lands == State(chain').merged # NoCommit /\ State(chain).merged = NoCommit

(***************************************************************************)
(* A merge moves the base branch to its recorded result, and everything    *)
(* that was on the base at that moment is still under it: a push or a      *)
(* rewind between the gate and the transaction is never overwritten        *)
(* (merge_state.rs finalize_pr_merge).                                     *)
(***************************************************************************)
MergeKeepsTheBase ==
    [][Lands => /\ base' = State(chain').merged
                /\ base \in objects'[base'].anc]_vars

(***************************************************************************)
(* Never split: the base branch holds a commit that git-forge built        *)
(* exactly when the chain records the merge of that commit, also after a   *)
(* failed worktree refresh and its rollback (merge_state.rs                *)
(* refresh_base_worktrees).                                                *)
(***************************************************************************)
NeverSplit ==
    LET landed == {chain[i].ev.bind.result :
                      i \in {j \in DOMAIN chain : chain[j].ev.kind = "pr.merge"}}
    IN  /\ landed \subseteq Anc(base)
        /\ \A c \in Anc(base) : objects[c].from # c => c \in landed

(***************************************************************************)
(* The linked issue is closed by a merge only together with that merge:    *)
(* neither a refused nor a rolled-back merge leaves its close behind       *)
(* (merge_state.rs finalize_pr_merge, refresh_base_worktrees).             *)
(***************************************************************************)
ClosedOnlyByMerge ==
    \A i \in DOMAIN issue :
        issue[i].kind = "issue.close" /\ issue[i].id[1] # Founder =>
            \E j \in DOMAIN chain : /\ chain[j].ev.kind = "pr.merge"
                                    /\ chain[j].ev.id = issue[i].id

\* A successful merge leaves its linked issue closed, in the same step (README.md).
MergeClosesTheIssue == [][Lands /\ LinkedIssue => ~IssueOpen(issue')]_vars

(***************************************************************************)
(* The result ref is never left behind: it holds the result of a merge     *)
(* that is under way, or of a candidate the chain records (merge_state.rs  *)
(* cleanup_pending_result).                                                *)
(***************************************************************************)
ResultRefIsOwned ==
    result # NoCommit =>
        \/ \E a \in Actors : proc[a].pc \in Finalizing /\ proc[a].res = result
        \/ \E i \in DOMAIN chain : /\ chain[i].ev.kind = "pr.prepared"
                                   /\ chain[i].ev.bind.result = result

(***************************************************************************)
(* A result ref that an earlier merge left behind -- killed, or failed     *)
(* while it staged the issue's close or while it cleaned up -- is never    *)
(* taken for another's: it goes away only in the cleanup of the merge that *)
(* holds it, in a merge of that very result, or in a prepare that appends  *)
(* the candidate it pins instead (merge_state.rs                           *)
(* delete_pending_result_ref, finalize_pr_merge; pr_prepare.rs).           *)
(***************************************************************************)
LeftoversAreNotTaken ==
    [][result # NoCommit /\ result' # result =>
          \/ result' = NoCommit /\ \E a \in Actors : At(a, "m_clean") /\ proc[a].res = result
                                                  /\ proc'[a] # proc[a]
          \/ result' = NoCommit /\ State(chain').merged = result
          \/ /\ result' # NoCommit
             /\ \E i \in DOMAIN chain' \ DOMAIN chain :
                   /\ chain'[i].ev.kind = "pr.prepared"
                   /\ chain'[i].ev.bind.result = result']_vars

\* The PR pins its current candidate until a merge consumes it (event.rs).
CandidateIsPinned ==
    LET st == State(chain) IN
    CandidateCurrent(st) /\ st.merged = NoCommit => result = st.prepared.result

----------------------------------------------------------------------------
(***************************************************************************)
(* Every invocation of every script comes to an end: retries are bounded,  *)
(* and no failure of a transaction is retried for ever (append_event,      *)
(* update_pr, prepare_pr, run_finalize).                                   *)
(***************************************************************************)
EveryInvocationEnds == <>(\A a \in Actors : todo[a] = <<>>)
=============================================================================

------------------------------- MODULE PrChain -------------------------------
(***************************************************************************)
(* The event chain of one pull request and the state folded from it        *)
(* (src/src/event.rs, src/src/store.rs), and the merge gates that are pure *)
(* functions of that state (src/src/merge_state.rs,                        *)
(* src/src/pr_prepare.rs).                                                 *)
(*                                                                         *)
(* A chain is a sequence of nodes, oldest first.  A node is one event      *)
(* commit: the event it carries and the state folded up to it.  A commit   *)
(* OID covers the event, which holds a fresh UUID, and the parent OID, so  *)
(* two tips are the same OID exactly when the two chains are equal: a CAS  *)
(* on the ref compares chains.                                             *)
(*                                                                         *)
(* Commits of the code repository are numbers; a tree OID is a function of *)
(* its commit and is not kept apart from it.  What no property tells apart *)
(* (titles, comment bodies, timestamps, plan names, CI tails and the       *)
(* base_head that reviews and checks record but no gate reads) is left     *)
(* out.                                                                    *)
(***************************************************************************)
EXTENDS Naturals, Sequences

NoCommit == 0
NoRole == "no-role"
Strategies == {"merge", "squash", "rebase", "ff"}

(***************************************************************************)
(* The identity a review or a check is bound to: the candidate it was      *)
(* taken against, or NoBind for an unbound (legacy) one.                   *)
(***************************************************************************)
NoBind == [strategy |-> "none", result |-> NoCommit]
NoCandidate == [gen |-> 0, source |-> NoCommit, base |-> NoCommit,
                strategy |-> "none", result |-> NoCommit]
BindOf(c) == [strategy |-> c.strategy, result |-> c.result]

(***************************************************************************)
(* Events.  id stands for the UUID, role for the `role` body field; word   *)
(* is a decision or a check status; gen, source, base and bind are the     *)
(* captured body fields that the kind carries.                             *)
(***************************************************************************)
PrEvent(kind, id, role) ==
    [kind |-> kind, id |-> id, role |-> role, word |-> "none", gen |-> 0,
     source |-> NoCommit, base |-> NoCommit, bind |-> NoBind]

\* What the fold holds before the first event (PrState::default).
EmptyPr ==
    [gen |-> 0, source |-> NoCommit, base |-> NoCommit, creator |-> NoRole,
     decision |-> "none", decGen |-> 0, decBind |-> NoBind, decRole |-> NoRole,
     ci |-> "none", ciGen |-> 0, ciBind |-> NoBind,
     prepared |-> NoCandidate, merged |-> NoCommit, abandoned |-> FALSE]

----------------------------------------------------------------------------
\* PrState::apply: what each event does to the folded state.
Apply(st, e) ==
    CASE e.kind = "pr.created" ->
            [st EXCEPT !.source = e.source, !.base = e.base, !.creator = e.role]
      [] e.kind = "pr.review" ->
            [st EXCEPT !.decision = e.word, !.decGen = e.gen,
                       !.decBind = e.bind, !.decRole = e.role]
      [] e.kind = "ci.check" ->
            [st EXCEPT !.ci = e.word, !.ciGen = e.gen, !.ciBind = e.bind]
      [] e.kind = "pr.update" ->
            [st EXCEPT !.source = e.source, !.base = e.base, !.gen = e.gen]
      [] e.kind = "pr.prepared" ->
            [st EXCEPT !.prepared = [gen |-> e.gen, source |-> e.source, base |-> e.base,
                          strategy |-> e.bind.strategy, result |-> e.bind.result]]
      [] e.kind = "pr.merge" -> [st EXCEPT !.merged = e.bind.result]
      [] e.kind = "pr.abandoned" -> [st EXCEPT !.abandoned = TRUE]
      [] OTHER -> st

\* The folded state at the tip of a chain.
State(c) == c[Len(c)].st

\* An event commit whose sole parent is the tip of c.
Extend(c, e) == Append(c, [ev |-> e, st |-> Apply(State(c), e)])

\* The chain of one event on a genesis root.
Genesis(e) == <<[ev |-> e, st |-> Apply(EmptyPr, e)]>>

(***************************************************************************)
(* head_extends_pr_chain: new is reached from old by appends only.  Every  *)
(* chain here is this PR's own, so the anchor check always holds.          *)
(***************************************************************************)
HeadExtends(old, new) ==
    /\ Len(old) < Len(new)
    /\ SubSeq(new, 1, Len(old)) = old

----------------------------------------------------------------------------
(* An approve recorded by the role that created the PR, when both record one. *)
SelfApproved(st) ==
    /\ st.creator # NoRole /\ st.decRole # NoRole
    /\ st.creator = st.decRole

\* The effective decision approves the current snapshot generation.
Approved(st) == /\ st.decision = "approve"
                /\ st.decGen = st.gen
                /\ ~SelfApproved(st)

\* The latest check is green and ran on the current snapshot generation.
Green(st) == st.ci = "success" /\ st.ciGen = st.gen

(***************************************************************************)
(* validate_merge_gate_at: the gate every merge must pass, evaluated on    *)
(* the state folded at one exact tip.                                      *)
(***************************************************************************)
Gate(st) ==
    /\ ~st.abandoned
    /\ Approved(st)
    /\ st.merged = NoCommit
    /\ Green(st)

\* The fold holds a candidate prepared from the current snapshot generation.
CandidateCurrent(st) == st.prepared.result # NoCommit /\ st.prepared.gen = st.gen

\* Mutant: the approve need not be bound to the candidate.
CandidateGate_UnboundApprove(st, base, strategy) ==
    /\ CandidateCurrent(st)
    /\ st.prepared.base = base
    /\ st.prepared.strategy = strategy
    /\ st.ci = "success" /\ st.ciBind = BindOf(st.prepared)

(***************************************************************************)
(* validate_prepared_candidate: the candidate is current, was built on the *)
(* base tip and by the strategy asked for, and both gate inputs are bound  *)
(* to it.                                                                  *)
(***************************************************************************)
CandidateGate(st, base, strategy) ==
    /\ CandidateCurrent(st)
    /\ st.prepared.base = base
    /\ st.prepared.strategy = strategy
    /\ st.decBind = BindOf(st.prepared)
    /\ st.ci = "success" /\ st.ciBind = BindOf(st.prepared)
=============================================================================

------------------------------ MODULE PrPrepare ------------------------------
(***************************************************************************)
(* `pr prepare`: materialise the merge result ahead of the merge, pin it   *)
(* at the result ref and record it as the PR's candidate                   *)
(* (pr_prepare.rs).                                                        *)
(***************************************************************************)
EXTENDS PrRefs

\* The anchored read: a terminal PR and a retargeted snapshot refuse.
PrepareRead(a) ==
    LET st == State(chain)
        refused == \/ st.abandoned \/ st.merged # NoCommit
                   \/ [gen |-> st.gen, source |-> st.source, base |-> st.base] \notin pins
    IN
    /\ Starting(a, "prepare")
    /\ \/ refused /\ Exits(a, "refused")
       \/ ~refused /\ Becomes(a, [proc[a] EXCEPT !.pc = "p_base", !.gen = st.gen,
                                                 !.src = st.source])
    /\ UNCHANGED <<refs, objects>>

(***************************************************************************)
(* The live base tip is read and the strategy runs on it in a temporary    *)
(* worktree.  The new commit is in no ref until the transaction below.     *)
(***************************************************************************)
PrepareBase(a) ==
    LET strategy == Command(a).arg IN
    /\ At(a, "p_base")
    /\ strategy = "ff" => base \in Anc(proc[a].src)
    /\ \E r \in 1..NextCommit :
          /\ Executes(strategy, proc[a].src, base, r)
          /\ Becomes(a, [proc[a] EXCEPT !.pc = "p_tip", !.base = base, !.res = r])
    /\ UNCHANGED refs

\* The fast-forward precondition or the strategy itself fails.
PrepareBaseFails(a) ==
    LET strategy == Command(a).arg IN
    /\ At(a, "p_base")
    /\ \/ strategy = "ff" /\ base \notin Anc(proc[a].src)
       \/ ExecutionMayFail(strategy, proc[a].src, base)
    /\ Exits(a, "refused")
    /\ UNCHANGED <<refs, objects>>

\* prepare_pr reads the tip to append to,
PrepareTip(a) ==
    /\ At(a, "p_tip")
    /\ Becomes(a, [proc[a] EXCEPT !.pc = "p_pin", !.tip = chain])
    /\ UNCHANGED <<refs, objects>>

\* and, each time round, the pin it is about to replace.
PreparePin(a) ==
    /\ At(a, "p_pin")
    /\ Becomes(a, [proc[a] EXCEPT !.pc = "p_txn",
                                  !.bind = [strategy |-> Command(a).arg, result |-> result]])
    /\ UNCHANGED <<refs, objects>>

\* The expected values of the transaction.
PrepareHolds(a) == result = proc[a].bind.result /\ chain = proc[a].tip

PrepareTxn(a) ==
    LET p == proc[a]
        e == [Authored(a, "pr.prepared") EXCEPT
                !.gen = p.gen, !.source = p.src, !.base = p.base,
                !.bind = [strategy |-> Command(a).arg, result |-> p.res]]
    IN
    /\ At(a, "p_txn")
    /\ PrepareHolds(a)
    /\ result' = p.res
    /\ chain' = Extend(p.tip, e)
    /\ Exits(a, "ok") \/ Unclear(a, "p_head")
    /\ UNCHANGED <<base, source, issue, pins, objects>>

PrepareTxnFails(a) ==
    /\ At(a, "p_txn")
    /\ Faults \/ ~PrepareHolds(a)
    /\ Goes(a, "p_head")
    /\ UNCHANGED <<refs, objects>>

\* Only a moved head is retried, be it moved by the process itself.
PrepareHead(a) ==
    /\ At(a, "p_head")
    /\ Retry(a, [proc[a] EXCEPT !.pc = "p_pin", !.tip = chain])
    /\ UNCHANGED <<refs, objects>>

PrepareStep(a) ==
    \/ PrepareRead(a) \/ PrepareBase(a) \/ PrepareBaseFails(a)
    \/ PrepareTip(a) \/ PreparePin(a)
    \/ PrepareTxn(a) \/ PrepareTxnFails(a) \/ PrepareHead(a)
=============================================================================

------------------------------- MODULE PrUpdate -------------------------------
(***************************************************************************)
(* `pr update`: pin the source branch tip as the PR's next snapshot        *)
(* generation (pr_merge.rs cmd_pr_update, store.rs update_pr).  Later      *)
(* commands look the snapshot up by its generation.                        *)
(***************************************************************************)
EXTENDS PrRefs

Pin(gen, s, b) == [gen |-> gen, source |-> s, base |-> b]
Claimed(gen) == \E p \in pins : p.gen = gen

\* The fold: a terminal PR refuses; the next generation number is taken from here.
UpdateRead(a) ==
    LET st == State(chain)
        terminal == st.abandoned \/ st.merged # NoCommit
    IN
    /\ Starting(a, "update")
    /\ \/ terminal /\ Exits(a, "refused")
       \/ ~terminal /\ Becomes(a, [proc[a] EXCEPT !.pc = "u_source", !.tip = chain,
                                                  !.gen = st.gen + 1])
    /\ UNCHANGED <<refs, objects>>

UpdateReadSource(a) ==
    /\ At(a, "u_source")
    /\ Becomes(a, [proc[a] EXCEPT !.pc = "u_base", !.src = source])
    /\ UNCHANGED <<refs, objects>>

\* A moved base refuses, and so does a source tip that is already the snapshot.
UpdateReadBase(a) ==
    LET st == State(proc[a].tip)
        refused == base # st.base \/ proc[a].src = st.source
    IN
    /\ At(a, "u_base")
    /\ \/ refused /\ Exits(a, "refused")
       \/ ~refused /\ Becomes(a, [proc[a] EXCEPT !.pc = "u_tip", !.base = base])
    /\ UNCHANGED <<refs, objects>>

\* update_pr reads the tip to append to.
UpdateTip(a) ==
    /\ At(a, "u_tip")
    /\ Becomes(a, [proc[a] EXCEPT !.pc = "u_txn", !.tip = chain])
    /\ UNCHANGED <<refs, objects>>

\* Mutant: the generation refs are not expected to be absent.
UpdateHolds_Reclaims(a) == base = proc[a].base /\ chain = proc[a].tip

\* The expected values of the transaction.
UpdateHolds(a) ==
    /\ base = proc[a].base
    /\ ~Claimed(proc[a].gen)
    /\ chain = proc[a].tip

UpdateTxn(a) ==
    LET p == proc[a]
        e == [Authored(a, "pr.update") EXCEPT !.gen = p.gen, !.source = p.src,
                                              !.base = p.base]
    IN
    /\ At(a, "u_txn")
    /\ UpdateHolds(a)
    /\ chain' = Extend(p.tip, e)
    /\ pins' = pins \cup {Pin(p.gen, p.src, p.base)}
    /\ Exits(a, "ok") \/ Unclear(a, "u_claimed")
    /\ UNCHANGED <<base, source, result, issue, objects>>

UpdateTxnFails(a) ==
    /\ At(a, "u_txn")
    /\ Faults \/ ~UpdateHolds(a)
    /\ Goes(a, "u_claimed")
    /\ UNCHANGED <<refs, objects>>

\* The failure is classified by three reads: a claimed generation number is final, be it
\* the process's own claim,
UpdateClaimed(a) ==
    /\ At(a, "u_claimed")
    /\ \/ Claimed(proc[a].gen) /\ Exits(a, "refused")
       \/ ~Claimed(proc[a].gen) /\ Goes(a, "u_moved")
    /\ UNCHANGED <<refs, objects>>

\* a moved base is final,
UpdateMoved(a) ==
    /\ At(a, "u_moved")
    /\ \/ base # proc[a].base /\ Exits(a, "refused")
       \/ base = proc[a].base /\ Goes(a, "u_head")
    /\ UNCHANGED <<refs, objects>>

\* and only a moved head is retried, on the tip read here.
UpdateHead(a) ==
    /\ At(a, "u_head")
    /\ Retry(a, [proc[a] EXCEPT !.pc = "u_txn", !.tip = chain])
    /\ UNCHANGED <<refs, objects>>

UpdateStep(a) ==
    \/ UpdateRead(a) \/ UpdateReadSource(a) \/ UpdateReadBase(a) \/ UpdateTip(a)
    \/ UpdateTxn(a) \/ UpdateTxnFails(a)
    \/ UpdateClaimed(a) \/ UpdateMoved(a) \/ UpdateHead(a)
=============================================================================

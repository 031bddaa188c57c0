------------------------------- MODULE PrAppend -------------------------------
(***************************************************************************)
(* The commands that append one event to the PR's chain: `pr comment`,     *)
(* `pr review`, `ci run` and `pr abandon`.  Each folds the chain once to   *)
(* decide whether it is admitted and to capture what its event is bound    *)
(* to; append_event then reads the tip afresh and retries its CAS.         *)
(***************************************************************************)
EXTENDS PrRefs

\* The event the process appends, built once: a retry keeps its id and its body.
EventOf(a) ==
    LET bound(kind, word) ==
            [Authored(a, kind) EXCEPT !.word = word, !.gen = proc[a].gen,
                                      !.bind = proc[a].bind]
    IN  CASE Command(a).op = "comment" -> Authored(a, "pr.comment")
          [] Command(a).op = "review" -> bound("pr.review", Command(a).arg)
          [] Command(a).op = "ci" -> bound("ci.check", proc[a].word)
          [] OTHER -> Authored(a, "pr.abandoned")

(***************************************************************************)
(* The fold read at command start: the generation is captured, and the     *)
(* identity of a current candidate, still to be corroborated by its pin.   *)
(***************************************************************************)
Captures(a) ==
    LET st == State(chain) IN
    Becomes(a, [proc[a] EXCEPT
        !.pc = IF CandidateCurrent(st) THEN "bind" ELSE "tip",
        !.gen = st.gen,
        !.bind = IF CandidateCurrent(st) THEN BindOf(st.prepared) ELSE NoBind,
        !.word = IF Command(a).op = "ci" THEN "pending" ELSE "none"])

\* cmd_pr_review up to the candidate: an abandoned PR refuses.
ReviewRead(a) ==
    /\ Starting(a, "review")
    /\ \/ State(chain).abandoned /\ Exits(a, "refused")
       \/ ~State(chain).abandoned /\ Captures(a)
    /\ UNCHANGED <<refs, objects>>

\* ci_run_read_only_check and the snapshot check: the run is fixed here.
CiRead(a) ==
    LET st == State(chain) IN
    /\ Starting(a, "ci")
    /\ \/ /\ st.abandoned \/ [gen |-> st.gen, source |-> st.source, base |-> st.base] \notin pins
          /\ Exits(a, "refused")
       \/ /\ ~st.abandoned
          /\ [gen |-> st.gen, source |-> st.source, base |-> st.base] \in pins
          /\ Captures(a)
    /\ UNCHANGED <<refs, objects>>

\* A folded candidate counts only while the result ref points at it.
Corroborated(bind) == IF result = bind.result THEN bind ELSE NoBind

\* The result ref is read; an uncorroborated candidate leaves the event unbound.
Bind(a) ==
    /\ At(a, "bind")
    /\ Becomes(a, [proc[a] EXCEPT !.pc = "tip", !.bind = Corroborated(@)])
    /\ UNCHANGED <<refs, objects>>

\* cmd_pr_abandon: only an open PR is abandoned.
AbandonRead(a) ==
    LET terminal == State(chain).merged # NoCommit \/ State(chain).abandoned IN
    /\ Starting(a, "abandon")
    /\ \/ terminal /\ Exits(a, "refused")
       \/ ~terminal /\ Goes(a, "tip")
    /\ UNCHANGED <<refs, objects>>

(***************************************************************************)
(* append_event reads the tip.  A comment reads nothing before.  For       *)
(* `ci run` the plan has run by now, with either result.                   *)
(***************************************************************************)
AppendTip(a) ==
    /\ At(a, "tip") \/ Starting(a, "comment")
    /\ \E word \in IF proc[a].word = "pending" THEN {"success", "failed"}
                                              ELSE {proc[a].word} :
          Becomes(a, [proc[a] EXCEPT !.pc = "cas", !.tip = chain, !.word = word])
    /\ UNCHANGED <<refs, objects>>

\* Mutant: the event is written without comparing the ref with the tip read.
CasHolds_Unchecked(a) == TRUE

\* The compare of the CAS.
CasHolds(a) == chain = proc[a].tip

\* The CAS of cas_update_ref applies, whatever git then says of it ...
AppendCas(a) ==
    /\ At(a, "cas")
    /\ CasHolds(a)
    /\ chain' = Extend(proc[a].tip, EventOf(a))
    /\ Exits(a, "ok") \/ Unclear(a, "lost")
    /\ UNCHANGED <<base, source, result, issue, pins, objects>>

\* ... or the transaction fails,
AppendCasFails(a) ==
    /\ At(a, "cas")
    /\ Faults \/ ~CasHolds(a)
    /\ Goes(a, "lost")
    /\ UNCHANGED <<refs, objects>>

\* and the ref tells a lost race, retried a bounded number of times, from an error:
\* an append of its own that git reported as failed looks like a lost race, too.
AppendLost(a) ==
    /\ At(a, "lost")
    /\ Retry(a, [proc[a] EXCEPT !.pc = "tip"])
    /\ UNCHANGED <<refs, objects>>

AppendStep(a) ==
    \/ ReviewRead(a) \/ CiRead(a) \/ Bind(a) \/ AbandonRead(a)
    \/ AppendTip(a) \/ AppendCas(a) \/ AppendCasFails(a) \/ AppendLost(a)
=============================================================================

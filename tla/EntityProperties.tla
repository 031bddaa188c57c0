---------------------------- MODULE EntityProperties ----------------------------
(***************************************************************************)
(* What the commands that create entities promise, whatever order their    *)
(* reads and transactions interleave in, and wherever they are killed.     *)
(***************************************************************************)
EXTENDS EntityStore

Event(e) == e.kind \in {"issue.created", "issue.updated", "issue.close", "issue.reopen",
                       "issue.comment", "pr.created"}

(***************************************************************************)
(* Types of the refs and of the processes (store/issue_batch.rs            *)
(* IssueSnapshot, store/idempotency.rs IdempotencyRecord).                 *)
(***************************************************************************)
EntityTypeOK ==
    /\ counter \in Nat
    /\ DOMAIN issues \cup DOMAIN prs \subseteq Nat \ {0}
    /\ \A n \in DOMAIN issues :
          /\ DOMAIN issues[n] = {"key", "parent", "blocked", "open", "log"}
          /\ issues[n].key \in Keys \cup {NoKey} /\ issues[n].open \in BOOLEAN
          /\ issues[n].parent \in Nat /\ issues[n].blocked \subseteq Nat \ {0}
          /\ issues[n].log # <<>> /\ \A i \in DOMAIN issues[n].log : Event(issues[n].log[i])
    /\ \A n \in DOMAIN prs : \A i \in DOMAIN prs[n] : Event(prs[n][i])
    /\ DOMAIN records \subseteq {"new", "pr", "comment"} \X Keys
    /\ \A name \in DOMAIN records : records[name].id \in Nat \ {0}
    /\ branches \in BOOLEAN
    /\ \A a \in Actors :
          /\ DOMAIN proc[a] = DOMAIN Idle
          /\ proc[a].cnt \in Nat /\ proc[a].left \subseteq DOMAIN issues
          /\ (At(a, "idle") \/ todo[a] # <<>>)

\* The ids of an issue or a pull request, and the log of one.
Entities == ({"issue"} \X DOMAIN issues) \cup ({"pr"} \X DOMAIN prs)
LogOf(e) == IF e[1] = "issue" THEN issues[e[2]].log ELSE prs[e[2]]

\* The events in the repository that satisfy P.
EventsSuchThat(P(_)) ==
    UNION {{<<e, i>> : i \in {j \in DOMAIN LogOf(e) : P(LogOf(e)[j])}} : e \in Entities}

Effects(name) == EventsSuchThat(LAMBDA ev : ev.by.name = name)
EffectsOfCall(by) == EventsSuchThat(LAMBDA ev : ev.by = by)

(***************************************************************************)
(* Two allocations never yield one id, in either kind of entity, no id is  *)
(* skipped, and the counter never holds a value past its limit, which      *)
(* nobody could read back (store.rs create_pr_claimed, parse_counter_next, *)
(* issue_batch.rs apply_issue_batch_claimed).                              *)
(***************************************************************************)
AllocationSound ==
    /\ DOMAIN issues \cap DOMAIN prs = {}
    /\ DOMAIN issues \cup DOMAIN prs = 1..NextId(counter)-1
    /\ counter <= MaxCounter

(***************************************************************************)
(* A key has one effect exactly when it has a record, and it is on the     *)
(* recorded entity: neither a retry after a kill nor a race of two equal   *)
(* requests makes a second one (store.rs create_pr_claimed, issue_batch.rs *)
(* apply_issue_batch_claimed, idempotency.rs append_event_claimed).        *)
(***************************************************************************)
OneEffectPerKey ==
    \A name \in {"new", "pr", "comment"} \X Keys :
        LET effects == Effects(name) IN
        IF name \notin DOMAIN records THEN effects = {}
        ELSE /\ Cardinality(effects) = 1
             /\ \A x \in effects : x[1][2] = records[name].id

(***************************************************************************)
(* A command that reports a refusal or a conflict has changed nothing, and *)
(* an unkeyed one that reports success has done so once (issue_apply.rs    *)
(* new_issue_keyed, store.rs append_event, idempotency.rs recheck).        *)
(*                                                                         *)
(* The exception is an unkeyed command whose transaction git applied and   *)
(* reported as failed: it may report a refusal of what it did, and `pr     *)
(* create` and the appends take their own write for a lost race and repeat *)
(* it; `issue new` and `issue apply` repeat nothing even then.  A key      *)
(* removes the exception: its record tells the command what it did.        *)
(***************************************************************************)
AnswersAreTrue ==
    \A r \in answers :
        LET excused == r.misled /\ ~Keyed(r.call) IN
        /\ r.how # "ok" => EffectsOfCall(r.by) = {} \/ excused
        /\ r.how = "ok" /\ ~Keyed(r.call) /\ r.call.op # "apply" =>
              /\ EffectsOfCall(r.by) # {}
              /\ Cardinality(EffectsOfCall(r.by)) = 1 \/ (excused /\ r.call.op # "new")

(***************************************************************************)
(* The keyed commands implement the promise of their key.                  *)
(***************************************************************************)
Promise ==
    INSTANCE KeyedCalls WITH
        Names <- {"new", "pr", "comment"} \X Keys,
        bound <- records,
        answers <- {[by |-> r.by, name |-> RecordName(r.call), request |-> r.call,
                     how |-> r.how, id |-> r.id] : r \in {x \in answers : Keyed(x.call)}}

(***************************************************************************)
(* Every key keeps its promise: it is bound once, its callers are told the *)
(* entity it is bound to, and a failure is reported only while the key is  *)
(* unbound, even when the failure was caused by the call that bound it     *)
(* (idempotency.rs replay, recheck, resolve).                              *)
(***************************************************************************)
KeysKeepTheirPromise == Promise!Spec

(***************************************************************************)
(* The issue graph never has a cycle or a link to nowhere, though every    *)
(* command validates it on a snapshot that is read ref by ref, and two     *)
(* plans that are each valid may close a cycle together                    *)
(* (issue_apply.rs validate_graph, issue_batch.rs issue_snapshot).         *)
(***************************************************************************)
GraphSound == ValidGraph(issues)

(***************************************************************************)
(* A plan's key names one issue: plans applied at the same time do not     *)
(* both create it (issue_apply.rs prepare).                                *)
(***************************************************************************)
PlanKeysUnique ==
    \A m, n \in DOMAIN issues :
        issues[m].key = issues[n].key /\ issues[m].key # NoKey => m = n

\* What entry e asks is so in the given issues.
Satisfied(e, is) ==
    LET NameIs(n, ref) == IF ref.key = NoKey THEN n = ref.id
                          ELSE n \in DOMAIN is /\ is[n].key = ref.key
    IN  \E n \in DOMAIN is :
           /\ is[n].key = e.key
           /\ NameIs(is[n].parent, e.parent)
           /\ \A ref \in e.blocked : \E m \in is[n].blocked : NameIs(m, ref)
           /\ Cardinality(is[n].blocked) = Cardinality(e.blocked)
           /\ e.state # "" => is[n].open = (e.state = "open")

(***************************************************************************)
(* When a plan has been applied, every entry is as the plan asks, the ones *)
(* that were found unchanged included: nothing that was read has moved by  *)
(* the time the batch is committed, whatever git then says of the commit   *)
(* (issue_batch.rs verify lines).                                          *)
(***************************************************************************)
AppliedPlanHolds ==
    [][\A a \in Actors :
          LET applied == proc'[a].pc = "done" \/ (proc'[a].misled /\ ~proc[a].misled) IN
          At(a, "batch") /\ applied /\ Call(a).op = "apply" =>
              \A i \in DOMAIN Call(a).plan : Satisfied(Call(a).plan[i], issues')]_vars
=============================================================================

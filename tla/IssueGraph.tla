------------------------------ MODULE IssueGraph ------------------------------
(***************************************************************************)
(* The issues of a repository, each folded from its event chain, the graph *)
(* their links make, and what a plan makes of them.  An issue keeps its    *)
(* chain as the sequence of its events' names, which tells apart any two   *)
(* tips of its ref.  Titles, descriptions, labels and comments are left    *)
(* out: no check depends on them.                                          *)
(***************************************************************************)
EXTENDS Integers, Sequences, FiniteSets

CONSTANTS
    Keys,        \* the stable keys of plan entries
    NoKey,       \* the key of an issue no plan made, and of an unkeyed command
    MaxCounter   \* the largest value of the id counter: i64::MAX

ASSUME GraphAssumption == NoKey \notin Keys /\ MaxCounter \in Nat \ {0, 1}

\* f with e at x, and f with the values that g has.
With(f, x, e) == [y \in DOMAIN f \cup {x} |-> IF y = x THEN e ELSE f[y]]
Over(g, f) == [y \in DOMAIN g \cup DOMAIN f |-> IF y \in DOMAIN g THEN g[y] ELSE f[y]]

\* The two kinds of links, and the issues that issue s links to by one kind.
Fields == {"parent", "blocked_by"}
Targets(s, field) ==
    IF field = "blocked_by" THEN s.blocked ELSE {s.parent} \ {0}

\* No link leads nowhere, and no link leads, by more links, back to where it starts.
Acyclic(states, field) ==
    /\ \A n \in DOMAIN states : Targets(states[n], field) \subseteq DOMAIN states
    /\ \A S \in (SUBSET DOMAIN states) \ {{}} : \E n \in S : Targets(states[n], field) \cap S = {}

\* validate_graph.
ValidGraph(states) == \A field \in Fields : Acyclic(states, field)

----------------------------------------------------------------------------
(* Allocation of ids. *)

\* Mutant: an absent counter allocates its own value.
NextId_Absent(counter) == counter

\* The id that a counter value allocates; an absent counter allocates the first.
NextId(counter) == IF counter = 0 THEN 1 ELSE counter

\* Mutant: the id is allocated also when the counter has no value to follow.
Allocates_Overrun(counter, n) == TRUE

\* n ids can be allocated from a counter, which moves to a value it can hold.
Allocates(counter, n) == n > 0 => NextId(counter) + n <= MaxCounter

----------------------------------------------------------------------------
(* Creation of one issue. *)

NewIssue(parent, blocked, log) ==
    [key |-> NoKey, parent |-> parent, blocked |-> blocked, open |-> TRUE, log |-> log]

----------------------------------------------------------------------------
(***************************************************************************)
(* A plan is a sequence of entries, each with the key, the links and the   *)
(* state it asks for.  A link names an entry's key or an existing issue's  *)
(* number; the state is "" when the plan leaves it alone.                  *)
(***************************************************************************)
Links == [key : Keys, id : {0}] \cup [key : {NoKey}, id : Nat \ {0}]
Entries == [key : Keys, parent : Links \cup {[key |-> NoKey, id |-> 0]},
            blocked : SUBSET Links, state : {"", "open", "closed"}]

\* load accepts the plan.
WellFormed(plan) ==
    /\ plan \in Seq(Entries) /\ plan # <<>>
    /\ \A i, j \in DOMAIN plan : plan[i].key = plan[j].key => i = j

HasKey(states, key) == \E n \in DOMAIN states : states[n].key = key
Holder(states, key) == CHOOSE n \in DOMAIN states : states[n].key = key

\* The entries of plan that name an issue that is not there yet.
FreshIn(plan, states) == {i \in DOMAIN plan : ~HasKey(states, plan[i].key)}

\* Entry i's issue: the one with its key, or the next id in the order of the entries.
IdAt(plan, states, counter, i) ==
    IF i \in FreshIn(plan, states)
    THEN NextId(counter) + Cardinality({j \in FreshIn(plan, states) : j < i})
    ELSE Holder(states, plan[i].key)

\* The issue a link of the plan leads to.
Resolve(plan, states, counter, ref) ==
    IF ref.key = NoKey THEN ref.id
    ELSE IdAt(plan, states, counter, CHOOSE i \in DOMAIN plan : plan[i].key = ref.key)

ResolveAll(plan, states, counter, links) ==
    {Resolve(plan, states, counter, ref) : ref \in links}

\* An issue number must exist before the plan, a key must be in the plan.
Resolves(plan, states, ref) ==
    IF ref.key = NoKey THEN ref.id \in {0} \cup DOMAIN states
    ELSE \E i \in DOMAIN plan : plan[i].key = ref.key

\* What entry i asks of its issue.
Desired(plan, states, counter, i) ==
    LET e == plan[i] IN
    [key |-> e.key,
     parent |-> Resolve(plan, states, counter, e.parent),
     blocked |-> ResolveAll(plan, states, counter, e.blocked),
     open |-> IF e.state # "" THEN e.state = "open"
              ELSE IF i \in FreshIn(plan, states) THEN TRUE
              ELSE states[Holder(states, e.key)].open]

\* record: the events that take an issue to what is asked of it, named by their call.
EventsFor(plan, states, i, want, by) ==
    LET fresh == i \in FreshIn(plan, states)
        old == states[Holder(states, plan[i].key)]
        Ev(kind) == <<[by |-> by, kind |-> kind]>>
        open == IF fresh THEN TRUE ELSE old.open
    IN  (IF fresh THEN Ev("issue.created")
         ELSE IF old.parent # want.parent \/ old.blocked # want.blocked
         THEN Ev("issue.updated") ELSE <<>>)
        \o IF want.open = open THEN <<>>
           ELSE Ev(IF want.open THEN "issue.reopen" ELSE "issue.close")

\* The issues as the plan leaves them.
Planned(plan, states, counter, by) ==
    LET Want(i) == Desired(plan, states, counter, i)
        at == [n \in {IdAt(plan, states, counter, i) : i \in DOMAIN plan} |->
                  CHOOSE i \in DOMAIN plan : IdAt(plan, states, counter, i) = n]
        Log(n) == (IF n \in DOMAIN states THEN states[n].log ELSE <<>>)
                  \o EventsFor(plan, states, at[n], Want(at[n]), by)
        Made(n) == LET want == Want(at[n]) IN
            [key |-> want.key, parent |-> want.parent, blocked |-> want.blocked,
             open |-> want.open, log |-> Log(n)]
    IN  Over([n \in DOMAIN at |-> Made(n)], states)

\* prepare accepts the plan: no stored key is ambiguous, every link resolves and no
\* two blockers of an entry are the same issue, the ids exist and are free, and the
\* resulting graph is valid.
Accepts(plan, states, counter) ==
    LET fresh == FreshIn(plan, states) IN
    /\ \A m, n \in DOMAIN states : states[m].key = states[n].key /\ m # n => states[m].key = NoKey
    /\ Allocates(counter, Cardinality(fresh))
    /\ \A i \in fresh : IdAt(plan, states, counter, i) \notin DOMAIN states
    /\ \A i \in DOMAIN plan :
          LET links == plan[i].blocked IN
          /\ \A ref \in links \cup {plan[i].parent} : Resolves(plan, states, ref)
          /\ Cardinality(ResolveAll(plan, states, counter, links)) = Cardinality(links)
    /\ ValidGraph(Planned(plan, states, counter, <<>>))
=============================================================================

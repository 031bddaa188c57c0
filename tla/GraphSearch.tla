------------------------------ MODULE GraphSearch ------------------------------
(***************************************************************************)
(* The depth-first search by which validate_graph finds cycles and links   *)
(* that lead nowhere, one turn of its inner loop a step, against what it   *)
(* is to decide.  The search starts at every root and then at every issue, *)
(* and keeps what it has done from one start to the next.                  *)
(***************************************************************************)
EXTENDS Integers, Sequences, FiniteSets, SequencesExt

CONSTANTS
    Nodes,    \* the issues there are
    Ghosts,   \* ids that links may name and no issue has
    MaxRoots  \* the most roots a search is given

ASSUME SearchAssumption ==
    /\ Nodes \subseteq Nat /\ Ghosts \subseteq Nat
    /\ Nodes \cap Ghosts = {} /\ IsFiniteSet(Nodes) /\ IsFiniteSet(Ghosts)
    /\ MaxRoots \in Nat

VARIABLES
    links,    \* what each issue links to, by the field that is searched
    starts,   \* where the search has still to start
    stack,    \* what it has still to visit, and whether it then leaves it
    active,   \* what is being visited
    path,     \* the same, in the order of the visit
    done,     \* what has been left
    verdict   \* what has been found: "" while searching, "ok", "cycle" or "missing"

vars == <<links, starts, stack, active, path, done, verdict>>

\* The members of a set of ids in ascending order, as its map or set in the code iterates.
Ascending(S) ==
    {seq \in [1..Cardinality(S) -> S] : \A i, j \in DOMAIN seq : i < j => seq[i] < seq[j]}

Visit(n) == [node |-> n, leaving |-> FALSE]
Leave(n) == [node |-> n, leaving |-> TRUE]

Init ==
    /\ links \in [Nodes -> SUBSET (Nodes \cup Ghosts)]
    /\ \E roots \in SeqOf(Nodes, MaxRoots), issues \in Ascending(Nodes) :
          starts = roots \o issues
    /\ stack = <<>> /\ active = {} /\ path = <<>> /\ done = {} /\ verdict = ""

\* The next start, when the last one has been searched; none is left: the graph is valid.
Start ==
    /\ verdict = "" /\ stack = <<>>
    /\ IF starts = <<>>
       THEN /\ verdict' = "ok"
            /\ UNCHANGED <<starts, stack>>
       ELSE /\ stack' = IF Head(starts) \in done THEN <<>> ELSE <<Visit(Head(starts))>>
            /\ starts' = Tail(starts)
            /\ UNCHANGED verdict
    /\ active' = {} /\ path' = <<>>
    /\ UNCHANGED <<links, done>>

Pops(entry) == verdict = "" /\ stack # <<>> /\ entry = Last(stack)

\* Mutant: a node that is left stays active.
Left_Active(n) == active

\* What is still being visited when n is left.
Left(n) == active \ {n}

Finished(n) == done \cup {n}

\* Mutant: what is left stays on the path.
Shorter_Kept == path

\* The path when its last node is left.
Shorter == Front(path)

LeaveNode ==
    \E n \in Nodes :
       /\ Pops(Leave(n))
       /\ active' = Left(n)
       /\ path' = Shorter
       /\ done' = Finished(n)
       /\ stack' = Front(stack)
       /\ UNCHANGED <<links, starts, verdict>>

\* Where n is first on the path.
FirstAt(n) ==
    CHOOSE i \in DOMAIN path : path[i] = n /\ \A j \in 1..i - 1 : path[j] # n

\* A visit of what is being visited closes a cycle.
FindCycle ==
    \E n \in Nodes :
       /\ Pops(Visit(n))
       /\ n \in active
       /\ path' = IF Contains(path, n) THEN SubSeq(path, FirstAt(n), Len(path)) ELSE <<n>>
       /\ verdict' = "cycle"
       /\ UNCHANGED <<links, starts, stack, active, done>>

\* Mutant: the entry of a node that has been left is not taken off the stack.
Skipped_Kept == stack

Skipped == Front(stack)

\* What has been left needs no second visit.
SkipDone ==
    \E n \in Nodes :
       /\ Pops(Visit(n))
       /\ n \notin active /\ n \in done
       /\ stack' = Skipped
       /\ UNCHANGED <<links, starts, active, path, done, verdict>>

FindMissing ==
    \E n \in Ghosts :
       /\ Pops(Visit(n))
       /\ verdict' = "missing"
       /\ UNCHANGED <<links, starts, stack, active, path, done>>

\* A node's links are pushed in descending order, to be visited in ascending order.
VisitNode ==
    \E n \in Nodes :
       /\ Pops(Visit(n))
       /\ n \notin active /\ n \notin done
       /\ active' = active \cup {n}
       /\ path' = Append(path, n)
       /\ \E next \in Ascending(links[n]) :
             stack' = Front(stack) \o <<Leave(n)>>
                      \o [i \in 1..Len(next) |-> Visit(next[Len(next) + 1 - i])]
       /\ UNCHANGED <<links, starts, done, verdict>>

Next == Start \/ LeaveNode \/ FindCycle \/ SkipDone \/ FindMissing \/ VisitNode

Spec == Init /\ [][Next]_vars /\ WF_vars(Next)

----------------------------------------------------------------------------
(***************************************************************************)
(* Types; while the search goes on, what is active is what is on the path  *)
(* from the last start, once each (issue_apply.rs validate_graph).         *)
(***************************************************************************)
SearchTypeOK ==
    /\ links \in [Nodes -> SUBSET (Nodes \cup Ghosts)]
    /\ starts \in Seq(Nodes) /\ path \in Seq(Nodes)
    /\ stack \in Seq([node : Nodes \cup Ghosts, leaving : BOOLEAN])
    /\ done \subseteq Nodes
    /\ verdict \in {"", "ok", "cycle", "missing"}
    /\ verdict # "cycle" => active = ToSet(path) /\ Cardinality(active) = Len(path)

\* n's links lead, by one link or more, to m.
Reaches(n, m) ==
    \A S \in SUBSET Nodes :
        \/ m \in S
        \/ ~(links[n] \cap Nodes \subseteq S)
        \/ \E s \in S : ~(links[s] \cap Nodes \subseteq S)

(***************************************************************************)
(* The search is right: it accepts a graph exactly when no link leads      *)
(* nowhere and no issue reaches itself, and what it reports as a cycle is  *)
(* one: each issue on it links to the next and the last to the first       *)
(* (issue_apply.rs validate_graph).                                        *)
(***************************************************************************)
SearchIsRight ==
    /\ verdict = "ok" => \A n \in Nodes : links[n] \subseteq Nodes /\ ~Reaches(n, n)
    /\ verdict = "missing" => \E n \in Nodes : links[n] \cap Ghosts # {}
    /\ verdict = "cycle" =>
          /\ path # <<>>
          /\ \A i \in DOMAIN path : path[IF i = Len(path) THEN 1 ELSE i + 1] \in links[path[i]]

\* The search comes to an end on every graph (issue_apply.rs validate_graph).
SearchEnds == <>(verdict # "")
=============================================================================

----------------------------- MODULE MCEntityStore -----------------------------
(***************************************************************************)
(* Small instances of the entity store for TLC: three shells and their     *)
(* scripts, in an empty repository or in one with two issues.              *)
(***************************************************************************)
EXTENDS EntityProperties, TLC

CONSTANTS x, y, z   \* the shells

Three == {x, y, z}
PlanKeys == {"a", "b", "k"}

PlansOf(xs, ys, zs) == {(x :> s) @@ (y :> t) @@ (z :> u) : s \in xs, t \in ys, u \in zs}

New == Cmd("new", NoKey)
NewUnder(parent) == [New EXCEPT !.parent = parent]
KeyedNew == [New EXCEPT !.key = "k"]
Pr == Cmd("pr", NoKey)
KeyedPr == [Pr EXCEPT !.key = "k"]
KeyedPrClosing(n) == [KeyedPr EXCEPT !.id = n]
CommentOn(n) == [Cmd("comment", NoKey) EXCEPT !.id = n]
KeyedCommentOn(n) == [CommentOn(n) EXCEPT !.key = "k"]
Close(n) == [Cmd("close", NoKey) EXCEPT !.id = n]
Reopen(n) == [Cmd("reopen", NoKey) EXCEPT !.id = n]
Apply(plan) == [Cmd("apply", NoKey) EXCEPT !.plan = plan]

\* Links and entries of plans.
Issue(n) == [key |-> NoKey, id |-> n]
Named(key) == [key |-> key, id |-> 0]
Entry(key, parent, blocked, state) ==
    [key |-> key, parent |-> parent, blocked |-> blocked, state |-> state]

\* Issue 1 under issue 2, and the reverse: each is valid, both are not.
AUnderB == Apply(<<Entry("a", Issue(2), {}, "closed")>>)
BUnderA == Apply(<<Entry("b", Named("a"), {}, ""), Entry("a", Issue(0), {}, "")>>)
\* A new issue blocked by an old one, which it reopens.
Blocked == Apply(<<Entry("k", Issue(0), {Named("a"), Issue(2)}, ""), Entry("a", Issue(0), {}, "open")>>)

Nothing == [counter |-> 0, issues |-> <<>>, prs |-> <<>>]
Two == [counter |-> 3, prs |-> <<>>,
        issues |-> [n \in 1..2 |->
            [key |-> IF n = 1 THEN "a" ELSE "b", parent |-> 0, blocked |-> {}, open |-> TRUE,
             log |-> <<[by |-> [shell |-> NoKey, left |-> n, name |-> <<"new", NoKey>>],
                        kind |-> "issue.created"]>>]]]
Fresh == {Nothing}
Grown == {Two}
Either == {Nothing, Two}

\* Calls of one key, retried after a kill or a fault, and other allocations.
KeyRace ==
    PlansOf({<<KeyedPr, KeyedPr>>}, {<<KeyedPr>>, <<KeyedPrClosing(1)>>}, {<<>>})
    \cup PlansOf({<<KeyedNew, KeyedNew>>}, {<<KeyedNew>>, <<Pr>>}, {<<>>})
    \cup PlansOf({<<KeyedCommentOn(1), KeyedCommentOn(1)>>},
                 {<<KeyedCommentOn(1)>>, <<KeyedCommentOn(2)>>}, {<<Close(1)>>})

\* As many allocations as the counter has left after two issues, and one more.
LastId == PlansOf({<<KeyedNew>>}, {<<New>>}, {<<Pr>>}) \cup PlansOf({<<KeyedPr>>}, {<<>>}, {<<Pr, Pr>>})

\* Plans and single commands on one graph.
GraphRace ==
    PlansOf({<<AUnderB>>, <<Blocked>>}, {<<BUnderA>>, <<Blocked>>},
            {<<NewUnder(1)>>, <<NewUnder(3)>>, <<Reopen(1)>>, <<CommentOn(2)>>})
Everything == KeyRace \cup LastId \cup GraphRace
=============================================================================

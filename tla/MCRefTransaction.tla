---------------------------- MODULE MCRefTransaction ----------------------------
(***************************************************************************)
(* Two git-forge processes whose transactions share refs, with other       *)
(* writers, for TLC.                                                       *)
(***************************************************************************)
EXTENDS RefTransaction, TLC

CONSTANTS p, q   \* the processes

Two == {p, q}

Line(old, new) == [old |-> old, new |-> new]
Both(head, key) == ("head" :> head) @@ ("key" :> key)

\* A creation that claims both refs; an append that claims a key; a plain append; and a
\* deletion that verifies the other ref.
Create == [lines |-> Both(Line("absent", "one"), Line("absent", "one")), absent |-> {"head", "key"}]
Keyed == [lines |-> Both(Line("one", "two"), Line("absent", "two")), absent |-> {"key"}]
Plain == [lines |-> ("head" :> Line("one", "two")), absent |-> {}]
Delete == [lines |-> Both(Line("one", "absent"), Line("one", "one")), absent |-> {}]

\* The refs as the first transaction expects them, or with a symbolic ref where it expects
\* none, and another transaction that overlaps it.
Races ==
    {[value |-> v, asked |-> (p :> Create) @@ (q :> t)] :
        v \in {Both("absent", "absent"), Both("absent", "dangling")},
        t \in {Create, Keyed}}
    \cup
    {[value |-> Both("one", "absent"), asked |-> (p :> Keyed) @@ (q :> t)] : t \in {Keyed, Plain}}
    \cup
    {[value |-> Both("one", "one"), asked |-> (p :> Delete) @@ (q :> Plain)]}
=============================================================================

--------------------------- MODULE GraphSearchProofs ---------------------------
(***************************************************************************)
(* Proofs about GraphSearch: the search of validate_graph decides, of any  *)
(* graph and from any roots, what IssueGraph takes it to decide.           *)
(***************************************************************************)
EXTENDS GraphSearch, SequenceTheorems, FiniteSetTheorems, WellFoundedInduction, TLAPS

Entries == [node : Nodes \cup Ghosts, leaving : BOOLEAN]

Types ==
    /\ links \in [Nodes -> SUBSET (Nodes \cup Ghosts)]
    /\ starts \in Seq(Nodes) /\ path \in Seq(Nodes)
    /\ stack \in Seq(Entries)
    /\ done \subseteq Nodes /\ active \subseteq Nodes
    /\ verdict \in {"", "ok", "cycle", "missing"}

\* What is being visited is what is on the path, once each.
OnPath ==
    /\ active = {path[k] : k \in DOMAIN path}
    /\ \A k, l \in DOMAIN path : path[k] = path[l] => k = l

\* at says where on the stack the nodes of the path wait to be left, in their order.
Waits(at) ==
    /\ \A k \in DOMAIN path : stack[at[k]] = Leave(path[k])
    /\ \A j \in DOMAIN stack : stack[j].leaving => \E k \in DOMAIN path : at[k] = j
    /\ \A k, l \in DOMAIN path : k < l => at[k] < at[l]

\* A visit on the stack is of what the node that is waiting below it links to; the first is of
\* a start.
Linked(at) ==
    \A j \in DOMAIN stack : ~stack[j].leaving =>
        \/ path = <<>> /\ j = 1 /\ Len(stack) = 1 /\ stack[j].node \in Nodes
        \/ \E k \in DOMAIN path :
              /\ at[k] < j /\ \A l \in DOMAIN path : k < l => j < at[l]
              /\ stack[j].node \in links[path[k]]

\* What a node on the path links to has been left, or is on the stack above it.
Pending(at) ==
    \A k \in DOMAIN path : \A m \in links[path[k]] :
        m \in done \/ \E j \in DOMAIN stack : at[k] < j /\ stack[j].node = m

Chained == \A k \in DOMAIN path : k + 1 \in DOMAIN path => path[k + 1] \in links[path[k]]

\* What has been left links to nothing else, and does not reach itself.
Closed == \A n \in done : links[n] \subseteq done /\ ~Reaches(n, n)

\* No issue is forgotten.
Covered ==
    \A n \in Nodes :
        \/ n \in done
        \/ \E i \in DOMAIN starts : starts[i] = n
        \/ \E j \in DOMAIN stack : stack[j].node = n

Searching ==
    /\ active \cap done = {}
    /\ \E at \in [DOMAIN path -> DOMAIN stack] : Waits(at) /\ Linked(at) /\ Pending(at)
    /\ Chained /\ Covered

SearchInv ==
    /\ Types /\ Closed
    /\ verdict # "cycle" => OnPath
    /\ verdict = "" => Searching
    /\ verdict = "ok" => Nodes \subseteq done
    /\ verdict = "missing" => \E n \in Nodes : links[n] \cap Ghosts # {}
    /\ verdict = "cycle" =>
          /\ path # <<>>
          /\ \A i \in DOMAIN path : path[IF i = Len(path) THEN 1 ELSE i + 1] \in links[path[i]]

-----------------------------------------------------------------------------
(* Sequences that are taken from sets, and the top of the stack. *)

\* An ascending sequence has each member of its set.
LEMMA AscendingIsAll ==
    ASSUME NEW S, S \subseteq Nat, IsFiniteSet(S), NEW seq \in Ascending(S)
    PROVE  /\ seq \in Seq(S) /\ Len(seq) = Cardinality(S) /\ Len(seq) \in Nat
           /\ DOMAIN seq = 1..Len(seq)
           /\ \A x \in S : \E i \in DOMAIN seq : seq[i] = x
<1> DEFINE n == Cardinality(S)
<1>1. n \in Nat
  BY FS_CardinalityType
<1>2. /\ seq \in [1..n -> S]
      /\ \A i, j \in 1..n : i < j => seq[i] < seq[j]
  BY DEF Ascending
<1>3. seq \in Seq(S) /\ Len(seq) = n /\ DOMAIN seq = 1..n
  BY <1>1, <1>2
<1>4. seq \in Injection(1..n, S)
  <2>1. ASSUME NEW i \in 1..n, NEW j \in 1..n, seq[i] = seq[j] PROVE i = j
    <3>1. seq[i] \in Nat /\ seq[j] \in Nat
      BY <1>2
    <3>2. ~(i < j) /\ ~(j < i)
      BY <1>2, <2>1, <3>1
    <3> QED
      BY <1>1, <3>2
  <2> QED
    BY <1>2, <2>1 DEF Injection, IsInjective
<1>5. Cardinality(1..n) = n /\ IsFiniteSet(1..n)
  BY <1>1, FS_Interval
<1>6. seq \in Surjection(1..n, S)
  BY <1>4, <1>5, FS_Injection
<1> QED
  BY <1>1, <1>3, <1>6 DEF Surjection

LEMMA GraphIsFinite ==
    ASSUME Types, NEW n \in Nodes
    PROVE  /\ links[n] \subseteq Nodes \cup Ghosts
           /\ links[n] \subseteq Nat /\ IsFiniteSet(links[n])
<1>1. links[n] \subseteq Nodes \cup Ghosts
  BY DEF Types
<1>2. IsFiniteSet(Nodes \cup Ghosts)
  BY SearchAssumption, FS_Union
<1> QED
  BY <1>1, <1>2, FS_Subset, SearchAssumption

\* The empty sequence.
LEMMA NothingIn == DOMAIN <<>> = {}
<1>1. DOMAIN <<>> = 1..0
  BY EmptySeq, LenProperties
<1>2. 1..0 = {}
  OBVIOUS
<1> QED
  BY <1>1, <1>2

\* The last place, and those before it.
LEMMA LastPlace ==
    ASSUME NEW n \in Nat \ {0}
    PROVE  /\ n \in 1..n /\ \A k \in 1..n : k # n => k \in 1..(n - 1)
           /\ \A k \in 1..(n - 1) : k \in 1..n /\ k # n /\ k < n
OBVIOUS

\* What is put on a stack.
LEMMA Stacked ==
    ASSUME NEW S, NEW low \in Seq(S), NEW high \in Seq(S)
    PROVE  /\ low \o high \in Seq(S) /\ Len(low \o high) = Len(low) + Len(high)
           /\ \A j \in 1..Len(low) : (low \o high)[j] = low[j]
           /\ \A i \in 1..Len(high) : (low \o high)[Len(low) + i] = high[i]
<1>1. Len(low) \in Nat /\ Len(high) \in Nat
  OBVIOUS
<1>2. low \o high \in Seq(S) /\ Len(low \o high) = Len(low) + Len(high)
  OBVIOUS
<1>3. \A j \in 1..(Len(low) + Len(high)) :
         (low \o high)[j] = IF j <= Len(low) THEN low[j] ELSE high[j - Len(low)]
  BY ConcatProperties
<1>4. \A j \in 1..Len(low) : (low \o high)[j] = low[j]
  <2> TAKE j \in 1..Len(low)
  <2>1. j \in 1..(Len(low) + Len(high)) /\ j <= Len(low)
    BY <1>1
  <2> QED
    BY <1>3, <2>1
<1>5. \A i \in 1..Len(high) : (low \o high)[Len(low) + i] = high[i]
  <2> TAKE i \in 1..Len(high)
  <2>1. /\ Len(low) + i \in 1..(Len(low) + Len(high))
        /\ ~(Len(low) + i <= Len(low)) /\ Len(low) + i - Len(low) = i
    BY <1>1
  <2> QED
    BY <1>3, <2>1
<1> QED
  BY <1>2, <1>4, <1>5

\* The stack without its top.
LEMMA TopOf ==
    ASSUME NEW S, NEW s \in Seq(S), s # <<>>
    PROVE  /\ Len(s) \in Nat \ {0} /\ Last(s) = s[Len(s)] /\ Last(s) \in S
           /\ Front(s) \in Seq(S) /\ Len(Front(s)) = Len(s) - 1
           /\ DOMAIN s = 1..Len(s) /\ DOMAIN Front(s) = 1..(Len(s) - 1)
           /\ \A i \in 1..(Len(s) - 1) : Front(s)[i] = s[i]
<1>1. Len(s) \in Nat \ {0} /\ DOMAIN s = 1..Len(s) /\ s \in [1..Len(s) -> S]
  OBVIOUS
<1>2. Front(s) = [i \in 1..(Len(s) - 1) |-> s[i]] /\ Len(Front(s)) = Len(s) - 1
  BY <1>1 DEF Front
<1> QED
  BY <1>1, <1>2 DEF Last

\* What is popped, and where.
LEMMA PopIs ==
    ASSUME Types, NEW e, Pops(e)
    PROVE  /\ stack # <<>> /\ verdict = "" /\ stack[Len(stack)] = e /\ e \in Entries
           /\ Len(stack) \in Nat \ {0} /\ DOMAIN stack = 1..Len(stack)
           /\ Len(stack) \in DOMAIN stack
           /\ Front(stack) \in Seq(Entries) /\ Len(Front(stack)) = Len(stack) - 1
           /\ DOMAIN Front(stack) = 1..(Len(stack) - 1)
           /\ \A i \in 1..(Len(stack) - 1) : Front(stack)[i] = stack[i]
<1>1. stack \in Seq(Entries) /\ stack # <<>> /\ verdict = "" /\ e = Last(stack)
  BY DEF Pops, Types
<1>2. Len(stack) \in Nat \ {0} /\ DOMAIN stack = 1..Len(stack)
  BY <1>1, TopOf
<1>3. Len(stack) \in 1..Len(stack)
  BY <1>2
<1> QED
  BY <1>1, <1>2, <1>3, TopOf

LEMMA EntryIs ==
    ASSUME NEW n
    PROVE  /\ Visit(n).node = n /\ ~Visit(n).leaving /\ Leave(n).node = n /\ Leave(n).leaving
           /\ \A m : (Visit(n) = Visit(m) => n = m) /\ (Leave(n) = Leave(m) => n = m)
           /\ \A m : Visit(n) # Leave(m)
           /\ n \in Nodes \cup Ghosts => Visit(n) \in Entries /\ Leave(n) \in Entries
<1>1. /\ Visit(n).node = n /\ ~Visit(n).leaving /\ Leave(n).node = n /\ Leave(n).leaving
  BY DEF Visit, Leave
<1>2. \A m : /\ Visit(m).node = m /\ ~Visit(m).leaving /\ Leave(m).node = m /\ Leave(m).leaving
  BY DEF Visit, Leave
<1>3. n \in Nodes \cup Ghosts => Visit(n) \in Entries /\ Leave(n) \in Entries
  BY DEF Visit, Leave, Entries
<1> QED
  BY <1>1, <1>2, <1>3

LEMMA PathIs ==
    ASSUME Types
    PROVE  /\ Len(path) \in Nat /\ DOMAIN path = 1..Len(path) /\ path \in [1..Len(path) -> Nodes]
           /\ Len(stack) \in Nat /\ DOMAIN stack = 1..Len(stack)
           /\ stack \in [1..Len(stack) -> Entries]
           /\ Len(starts) \in Nat /\ DOMAIN starts = 1..Len(starts)
           /\ starts \in [1..Len(starts) -> Nodes]
BY LenProperties DEF Types

-----------------------------------------------------------------------------
(* The invariant. *)

LEMMA InitSearch == Init => SearchInv
<1> SUFFICES ASSUME Init PROVE SearchInv
  OBVIOUS
<1>1. PICK roots \in SeqOf(Nodes, MaxRoots), issues \in Ascending(Nodes) : starts = roots \o issues
  BY DEF Init
<1>2. roots \in Seq(Nodes)
  BY SearchAssumption DEF SeqOf
<1>3. /\ issues \in Seq(Nodes) /\ Len(issues) \in Nat /\ DOMAIN issues = 1..Len(issues)
      /\ \A n \in Nodes : \E i \in DOMAIN issues : issues[i] = n
  BY ZenonT(60), SearchAssumption, AscendingIsAll
<1>4. starts \in Seq(Nodes)
  BY <1>1, <1>2, <1>3
<1>5. \A n \in Nodes : \E i \in DOMAIN starts : starts[i] = n
  <2> TAKE n \in Nodes
  <2>1. PICK i \in DOMAIN issues : issues[i] = n
    BY <1>3
  <2>2. Len(roots) + i \in DOMAIN starts /\ starts[Len(roots) + i] = n
    BY <1>1, <1>2, <1>3, <2>1
  <2> QED
    BY <2>2
<1>6. /\ DOMAIN path = {} /\ DOMAIN stack = {} /\ <<>> \in Seq(Nodes) /\ <<>> \in Seq(Entries)
      /\ path = <<>> /\ stack = <<>> /\ done = {} /\ active = {} /\ verdict = ""
  <2>1. path = <<>> /\ stack = <<>> /\ done = {} /\ active = {} /\ verdict = ""
    BY DEF Init
  <2>2. <<>> \in Seq(Nodes) /\ <<>> \in Seq(Entries) /\ Len(<<>>) = 0
    BY EmptySeq
  <2> QED
    BY <2>1, <2>2, NothingIn
<1>9. Types
  BY <1>4, <1>6 DEF Types, Init
<1>7. Closed /\ OnPath /\ Chained /\ Covered /\ active \cap done = {}
  BY <1>5, <1>6 DEF Closed, OnPath, Chained, Covered
<1>8. \E at \in [DOMAIN path -> DOMAIN stack] : Waits(at) /\ Linked(at) /\ Pending(at)
  <2> DEFINE none == [k \in DOMAIN path |-> k]
  <2>1. none \in [DOMAIN path -> DOMAIN stack]
    BY <1>6
  <2>2. Waits(none) /\ Linked(none) /\ Pending(none)
    BY <1>6 DEF Waits, Linked, Pending
  <2> QED
    BY <2>1, <2>2
<1> QED
  BY <1>6, <1>7, <1>8, <1>9 DEF SearchInv, Searching

LEMMA ClosedStays ==
    ASSUME Closed, links' = links, done' = done
    PROVE  Closed'
BY DEF Closed, Reaches

\* The end of the search: nothing is asked of the stack any more.
LEMMA MissingFound ==
    ASSUME SearchInv, FindMissing
    PROVE  SearchInv'
<1>1. PICK n \in Ghosts : /\ Pops(Visit(n)) /\ verdict' = "missing"
                          /\ UNCHANGED <<links, starts, stack, active, path, done>>
  BY DEF FindMissing
<1>2. Types /\ Searching /\ OnPath /\ Closed
  BY <1>1 DEF SearchInv, Pops
<1>3. PICK at \in [DOMAIN path -> DOMAIN stack] : Waits(at) /\ Linked(at) /\ Pending(at)
  BY <1>2 DEF Searching
<1>4. /\ Len(stack) \in DOMAIN stack /\ stack[Len(stack)] = Visit(n)
      /\ ~stack[Len(stack)].leaving /\ stack[Len(stack)].node = n /\ n \notin Nodes
  <2>1. stack[Len(stack)] = Visit(n) /\ Len(stack) \in DOMAIN stack
    BY <1>1, <1>2, PopIs
  <2> QED
    BY <2>1, EntryIs, SearchAssumption
<1>5. \E m \in Nodes : links[m] \cap Ghosts # {}
  BY <1>2, <1>3, <1>4, PathIs DEF Linked
<1>6. Types' /\ OnPath' /\ Closed'
  BY <1>1, <1>2, ClosedStays DEF Types, OnPath
<1> QED
  BY <1>1, <1>5, <1>6 DEF SearchInv

LEMMA CycleFound ==
    ASSUME SearchInv, FindCycle
    PROVE  SearchInv'
<1>1. PICK n \in Nodes :
         /\ Pops(Visit(n)) /\ n \in active
         /\ path' = IF Contains(path, n) THEN SubSeq(path, FirstAt(n), Len(path)) ELSE <<n>>
         /\ verdict' = "cycle"
         /\ UNCHANGED <<links, starts, stack, active, done>>
  BY DEF FindCycle
<1>2. Types /\ Searching /\ OnPath /\ Closed
  BY <1>1 DEF SearchInv, Pops
<1>3. PICK at \in [DOMAIN path -> DOMAIN stack] : Waits(at) /\ Linked(at) /\ Pending(at)
  BY <1>2 DEF Searching
<1>4. /\ Len(stack) \in DOMAIN stack /\ DOMAIN stack = 1..Len(stack) /\ Len(stack) \in Nat
      /\ ~stack[Len(stack)].leaving /\ stack[Len(stack)].node = n
  <2>1. /\ stack[Len(stack)] = Visit(n) /\ Len(stack) \in DOMAIN stack
        /\ DOMAIN stack = 1..Len(stack) /\ Len(stack) \in Nat
    BY <1>1, <1>2, PopIs
  <2> QED
    BY <2>1, EntryIs
<1>5. PICK i \in DOMAIN path : path[i] = n
  BY <1>1, <1>2 DEF OnPath
<1>6. /\ Len(path) \in Nat /\ DOMAIN path = 1..Len(path) /\ path \in [1..Len(path) -> Nodes]
  BY <1>2, PathIs
<1>7. FirstAt(n) = i
  <2>1. \A j \in 1..i - 1 : path[j] # n
    BY <1>2, <1>5, <1>6 DEF OnPath
  <2>2. \A j \in DOMAIN path : path[j] = n => j = i
    BY <1>2, <1>5 DEF OnPath
  <2> QED
    BY <1>5, <2>1, <2>2 DEF FirstAt
<1>8. path' = SubSeq(path, i, Len(path))
  BY <1>1, <1>5, <1>6, <1>7 DEF Contains
<1>9. /\ path' \in Seq(Nodes) /\ Len(path') = Len(path) - i + 1 /\ DOMAIN path' = 1..Len(path')
      /\ \A k \in 1..Len(path') : path'[k] = path[i + k - 1]
  <2>1. /\ i \in Int /\ Len(path) \in Int /\ i <= Len(path)
        /\ \A k \in i..Len(path) : path[k] \in Nodes
    BY <1>5, <1>6
  <2>2. /\ SubSeq(path, i, Len(path)) \in Seq(Nodes)
        /\ Len(SubSeq(path, i, Len(path))) = Len(path) - i + 1
        /\ \A k \in 1..Len(path) - i + 1 : SubSeq(path, i, Len(path))[k] = path[i + k - 1]
    BY <2>1, SubSeqProperties
  <2> QED
    BY <1>8, <2>2, LenProperties
<1>10. n \in links[path[Len(path)]]
  <2>1. PICK k \in DOMAIN path :
           /\ \A l \in DOMAIN path : k < l => Len(stack) < at[l]
           /\ stack[Len(stack)].node \in links[path[k]]
    BY <1>3, <1>4, <1>5, <1>6 DEF Linked
  <2>2. k = Len(path)
    <3>1. Len(path) \in DOMAIN path /\ at[Len(path)] \in 1..Len(stack)
      BY SMTT(30), <1>3, <1>4, <1>5, <1>6
    <3>2. ~(Len(stack) < at[Len(path)])
      BY <1>4, <3>1
    <3> QED
      BY <1>6, <2>1, <3>1, <3>2
  <2> QED
    BY <1>4, <2>1, <2>2
<1>11. ASSUME NEW k \in DOMAIN path'
       PROVE  path'[IF k = Len(path') THEN 1 ELSE k + 1] \in links'[path'[k]]
  <2>1. CASE k = Len(path')
    <3>1. path'[k] = path[Len(path)] /\ path'[1] = n
      BY <1>5, <1>6, <1>9, <2>1
    <3> QED
      BY <1>1, <1>10, <2>1, <3>1
  <2>2. CASE k # Len(path')
    <3>1. path'[k] = path[i + k - 1] /\ path'[k + 1] = path[i + k - 1 + 1]
      <4>1. /\ k \in 1..Len(path') /\ k + 1 \in 1..Len(path')
            /\ i + (k + 1) - 1 = i + k - 1 + 1
        BY <1>5, <1>6, <1>9, <2>2
      <4> QED
        BY <1>9, <4>1
    <3>2. i + k - 1 \in DOMAIN path /\ i + k - 1 + 1 \in DOMAIN path
      BY <1>5, <1>6, <1>9, <2>2
    <3> QED
      BY <1>1, <1>2, <2>2, <3>1, <3>2 DEF Searching, Chained
  <2> QED
    BY <2>1, <2>2
<1>12. Types' /\ Closed'
  BY <1>1, <1>2, <1>9, ClosedStays DEF Types
<1>13. path' # <<>>
  <2>1. Len(path') # 0
    BY <1>5, <1>6, <1>9
  <2> QED
    BY <2>1, EmptySeq
<1> QED
  BY <1>1, <1>11, <1>12, <1>13 DEF SearchInv

\* The next start is pushed, or the search has come to its end.
LEMMA StartNext ==
    ASSUME SearchInv, Start
    PROVE  SearchInv'
<1>1. /\ verdict = "" /\ stack = <<>> /\ active' = {} /\ path' = <<>>
      /\ UNCHANGED <<links, done>>
  BY DEF Start
<1>2. Types /\ Searching /\ Closed
  BY <1>1 DEF SearchInv
<1>3. DOMAIN stack = {} /\ DOMAIN path' = {}
  BY <1>1, NothingIn
<1>4. Closed' /\ OnPath'
  BY <1>1, <1>2, <1>3, ClosedStays DEF OnPath
<1>5. \A n \in Nodes : n \in done \/ \E i \in DOMAIN starts : starts[i] = n
  BY <1>2, <1>3 DEF Searching, Covered
<1>6. CASE starts = <<>>
  <2>1. DOMAIN starts = {}
    BY <1>6, NothingIn
  <2>2. verdict' = "ok" /\ UNCHANGED <<starts, stack>>
    BY <1>6 DEF Start
  <2>3. Types'
    BY <1>1, <1>2, <2>2, EmptySeq DEF Types
  <2> QED
    BY <1>1, <1>4, <1>5, <2>1, <2>2, <2>3 DEF SearchInv
<1>7. CASE starts # <<>>
  <2> DEFINE s == Head(starts)
  <2>1. /\ stack' = IF s \in done THEN <<>> ELSE <<Visit(s)>>
        /\ starts' = Tail(starts) /\ verdict' = ""
    BY <1>1, <1>7 DEF Start
  <2>2. /\ starts \in Seq(Nodes) /\ s \in Nodes /\ Tail(starts) \in Seq(Nodes) /\ s = starts[1]
        /\ Len(starts) \in Nat \ {0} /\ Len(Tail(starts)) = Len(starts) - 1
        /\ \A i \in 1..Len(Tail(starts)) : Tail(starts)[i] = starts[i + 1]
    <3>1. starts \in Seq(Nodes) /\ Len(starts) \in Nat
      BY <1>2, PathIs DEF Types
    <3>2. /\ s \in Nodes /\ Tail(starts) \in Seq(Nodes) /\ Len(Tail(starts)) = Len(starts) - 1
          /\ \A i \in 1..Len(Tail(starts)) : Tail(starts)[i] = starts[i + 1]
      BY <1>7, <3>1, HeadTailProperties
    <3>3. Len(starts) # 0 /\ s = starts[1]
      BY <1>7, <3>1
    <3> QED
      BY <3>1, <3>2, <3>3
  <2>3. stack' \in Seq(Entries)
    <3>1. Visit(s) \in Entries
      BY <2>2, EntryIs
    <3>2. <<>> \in Seq(Entries) /\ <<Visit(s)>> \in Seq(Entries)
      BY <3>1, EmptySeq
    <3> QED
      BY <2>1, <3>2
  <2>4. Types'
    BY <1>1, <1>2, <2>1, <2>2, <2>3, EmptySeq DEF Types
  <2>5. Covered'
    <3> SUFFICES ASSUME NEW n \in Nodes, n \notin done
                 PROVE  \/ \E i \in DOMAIN starts' : starts'[i] = n
                        \/ \E j \in DOMAIN stack' : stack'[j].node = n
      BY <1>1 DEF Covered
    <3>1. PICK i \in DOMAIN starts : starts[i] = n
      BY <1>5
    <3>2. CASE i = 1
      <4>1. stack' = <<Visit(n)>>
        BY <2>1, <2>2, <3>1, <3>2
      <4>2. 1 \in DOMAIN stack' /\ stack'[1].node = n
        BY <4>1, EntryIs
      <4> QED
        BY <4>2
    <3>3. CASE i # 1
      <4>1. i \in 1..Len(starts) /\ DOMAIN Tail(starts) = 1..Len(Tail(starts))
        BY <2>2, LenProperties
      <4>2. i - 1 \in 1..Len(Tail(starts)) /\ i - 1 + 1 = i
        BY <2>2, <3>3, <4>1
      <4>3. Tail(starts)[i - 1] = n
        BY <2>2, <3>1, <4>2
      <4> QED
        BY <2>1, <4>1, <4>2, <4>3
    <3> QED
      BY <3>2, <3>3
  <2>6. Chained'
    BY <1>3 DEF Chained
  <2>7. \E at \in [DOMAIN path' -> DOMAIN stack'] : Waits(at)' /\ Linked(at)' /\ Pending(at)'
    <3> DEFINE none == [k \in {} |-> k]
    <3>1. none \in [DOMAIN path' -> DOMAIN stack']
      BY <1>3
    <3>2. \A j \in DOMAIN stack' :
             j = 1 /\ Len(stack') = 1 /\ stack'[j].node \in Nodes /\ ~stack'[j].leaving
      <4>1. CASE s \in done
        <5>1. stack' = <<>> /\ DOMAIN <<>> = {}
          BY <2>1, <4>1, NothingIn
        <5> QED
          BY <5>1
      <4>2. CASE s \notin done
        <5>1. stack' = <<Visit(s)>>
          BY <2>1, <4>2
        <5>2. Len(stack') = 1 /\ DOMAIN stack' = 1..1 /\ stack'[1] = Visit(s)
          BY <5>1
        <5> QED
          BY <2>2, <5>2, EntryIs
      <4> QED
        BY <4>1, <4>2
    <3>3. Waits(none)' /\ Linked(none)' /\ Pending(none)'
      BY <1>1, <1>3, <3>2 DEF Waits, Linked, Pending
    <3> QED
      BY <3>1, <3>3
  <2>8. (active \cap done = {})'
    BY <1>1
  <2> QED
    BY <1>4, <2>1, <2>4, <2>5, <2>6, <2>7, <2>8 DEF SearchInv, Searching
<1> QED
  BY <1>6, <1>7

\* Taking a visit of what has been left off the stack.
LEMMA DoneSkipped ==
    ASSUME SearchInv, SkipDone
    PROVE  SearchInv'
<1>1. PICK n \in Nodes :
         /\ Pops(Visit(n)) /\ n \notin active /\ n \in done /\ stack' = Front(stack)
         /\ UNCHANGED <<links, starts, active, path, done, verdict>>
  BY DEF SkipDone, Skipped
<1>2. Types /\ Searching /\ OnPath /\ Closed /\ verdict = ""
  BY <1>1 DEF SearchInv, Pops
<1>3. PICK at \in [DOMAIN path -> DOMAIN stack] : Waits(at) /\ Linked(at) /\ Pending(at)
  BY <1>2 DEF Searching
<1> DEFINE top == Len(stack)
<1>4. /\ stack[top] = Visit(n) /\ top \in Nat \ {0} /\ DOMAIN stack = 1..top
      /\ stack' \in Seq(Entries) /\ Len(stack') = top - 1 /\ DOMAIN stack' = 1..(top - 1)
      /\ \A i \in 1..(top - 1) : stack'[i] = stack[i]
  BY <1>1, <1>2, PopIs
<1>5. ~stack[top].leaving /\ stack[top].node = n
  BY <1>4, EntryIs
<1>6. Types' /\ Closed' /\ OnPath' /\ Chained' /\ (active \cap done = {})'
  BY ZenonT(60), <1>1, <1>2, <1>4, ClosedStays DEF Types, OnPath, Searching, Chained
<1>7. Covered'
  <2> SUFFICES ASSUME NEW m \in Nodes, m \notin done, \A i \in DOMAIN starts : starts[i] # m
               PROVE  \E j \in DOMAIN stack' : stack'[j].node = m
    BY <1>1 DEF Covered
  <2>1. PICK j \in DOMAIN stack : stack[j].node = m
    BY <1>2 DEF Searching, Covered
  <2>2. j # top
    BY <1>1, <1>5, <2>1
  <2>3. j \in 1..(top - 1)
    BY <1>4, <2>2
  <2> QED
    BY <1>4, <2>1, <2>3
<1>8. \A k \in DOMAIN path : at[k] # top /\ at[k] \in 1..(top - 1)
  <2> TAKE k \in DOMAIN path
  <2>1. stack[at[k]].leaving /\ at[k] \in 1..top
    BY <1>3, <1>4, EntryIs DEF Waits
  <2> QED
    BY <1>4, <1>5, <2>1
<1>9. at \in [DOMAIN path' -> DOMAIN stack']
  BY <1>1, <1>3, <1>4, <1>8
<1>10. Waits(at)'
  BY <1>1, <1>3, <1>4, <1>8 DEF Waits
<1>11. Linked(at)'
  <2> SUFFICES ASSUME NEW j \in DOMAIN stack', ~stack'[j].leaving
               PROVE  \E k \in DOMAIN path :
                         /\ at[k] < j /\ \A l \in DOMAIN path : k < l => j < at[l]
                         /\ stack'[j].node \in links[path[k]]
    BY <1>1 DEF Linked
  <2>1. j \in DOMAIN stack /\ stack'[j] = stack[j] /\ ~(j = 1 /\ top = 1)
    BY <1>4
  <2> QED
    BY <1>3, <2>1 DEF Linked
<1>12. Pending(at)'
  BY SMTT(30), <1>1, <1>3, <1>4, <1>5 DEF Pending
<1> QED
  BY <1>1, <1>2, <1>6, <1>7, <1>9, <1>10, <1>11, <1>12 DEF SearchInv, Searching

\* What a node links to has been left when the node is: it joins what has been left, and what had
\* been left before shows that it does not reach itself.
LEMMA NodeLeft ==
    ASSUME SearchInv, LeaveNode
    PROVE  SearchInv'
<1>1. PICK n \in Nodes :
         /\ Pops(Leave(n)) /\ active' = active \ {n} /\ path' = Front(path)
         /\ done' = done \cup {n} /\ stack' = Front(stack)
         /\ UNCHANGED <<links, starts, verdict>>
  BY DEF LeaveNode, Left, Finished, Shorter
<1>2. Types /\ Searching /\ OnPath /\ Closed /\ verdict = ""
  BY <1>1 DEF SearchInv, Pops
<1>3. PICK at \in [DOMAIN path -> DOMAIN stack] : Waits(at) /\ Linked(at) /\ Pending(at)
  BY <1>2 DEF Searching
<1> DEFINE top == Len(stack)
           last == Len(path)
<1>4. /\ stack[top] = Leave(n) /\ top \in Nat \ {0} /\ DOMAIN stack = 1..top /\ top \in DOMAIN stack
      /\ stack' \in Seq(Entries) /\ Len(stack') = top - 1 /\ DOMAIN stack' = 1..(top - 1)
      /\ \A i \in 1..(top - 1) : stack'[i] = stack[i]
  BY <1>1, <1>2, PopIs
<1>5. stack[top].leaving /\ stack[top].node = n
  BY <1>4, EntryIs
<1>6. last \in Nat /\ DOMAIN path = 1..last /\ path \in [1..last -> Nodes] /\ path \in Seq(Nodes)
  BY <1>2, PathIs DEF Types
<1>7. last # 0 /\ at[last] = top /\ path[last] = n
  <2>1. PICK k \in DOMAIN path : at[k] = top
    BY <1>3, <1>4, <1>5 DEF Waits
  <2>2. last \in DOMAIN path /\ at[last] \in 1..top
    BY <1>3, <1>4, <1>6, <2>1
  <2>3. ~(k < last)
    BY <1>3, <1>4, <2>1, <2>2 DEF Waits
  <2>4. k = last
    BY <1>6, <2>1, <2>3
  <2>5. stack[at[last]] = Leave(path[last])
    BY <1>3, <2>2 DEF Waits
  <2> QED
    BY <1>4, <1>6, <2>1, <2>4, <2>5, EntryIs
<1>22. /\ last \in 1..last /\ \A k \in 1..last : k # last => k \in 1..(last - 1)
       /\ \A k \in 1..(last - 1) : k \in 1..last /\ k # last /\ k < last
       /\ \A j \in 1..top : j # top => j \in 1..(top - 1)
       /\ \A j \in 1..(top - 1) : j \in 1..top /\ j < top
  BY <1>4, <1>6, <1>7, LastPlace
<1>8. /\ path' \in Seq(Nodes) /\ Len(path') = last - 1 /\ DOMAIN path' = 1..(last - 1)
      /\ \A k \in 1..(last - 1) : path'[k] = path[k]
  <2>1. path # <<>>
    BY <1>6, <1>7
  <2> QED
    BY <1>1, <1>6, <2>1, TopOf
<1>9. links[n] \subseteq done
  <2> SUFFICES ASSUME NEW m \in links[n], m \notin done PROVE FALSE
    OBVIOUS
  <2>1. PICK j \in DOMAIN stack : at[last] < j
    BY <1>3, <1>6, <1>7 DEF Pending
  <2> QED
    BY <1>4, <1>7, <2>1
<1>10. n \in active /\ n \notin done
  BY <1>2, <1>6, <1>7, <1>22 DEF OnPath, Searching
<1>11. Closed'
  <2>1. ~Reaches(n, n)
    <3>1. \A s \in done : links[s] \cap Nodes \subseteq done
      BY <1>2 DEF Closed
    <3> QED
      BY <1>2, <1>9, <1>10, <3>1 DEF Reaches, Types
  <2>2. \A m : Reaches(m, m)' <=> Reaches(m, m)
    BY <1>1 DEF Reaches
  <2> QED
    BY <1>1, <1>2, <1>9, <2>1, <2>2 DEF Closed
<1>12. Types'
  BY <1>1, <1>2, <1>4, <1>8 DEF Types
<1>13. OnPath'
  <2>1. \A k \in 1..(last - 1) : path[k] # n
    BY <1>2, <1>6, <1>7, <1>22 DEF OnPath
  <2>2. \A m \in active \ {n} : \E k \in 1..(last - 1) : path[k] = m
    <3> TAKE m \in active \ {n}
    <3>1. PICK k \in 1..last : path[k] = m
      BY <1>2, <1>6 DEF OnPath
    <3>2. k # last
      BY <1>7, <3>1
    <3> QED
      BY <1>22, <3>1, <3>2
  <2>3. \A k \in 1..(last - 1) : path'[k] = path[k] /\ path[k] \in active \ {n}
    BY <1>2, <1>6, <1>8, <1>22, <2>1 DEF OnPath
  <2>4. active' = {path'[k] : k \in DOMAIN path'}
    <3>1. \A m \in active' : \E k \in DOMAIN path' : path'[k] = m
      BY <1>1, <1>8, <2>2, <2>3
    <3>2. \A k \in DOMAIN path' : path'[k] \in active'
      BY <1>1, <1>8, <2>3
    <3> QED
      BY <3>1, <3>2
  <2>5. \A k, l \in DOMAIN path' : path'[k] = path'[l] => k = l
    BY <1>2, <1>6, <1>8, <1>22 DEF OnPath
  <2> QED
    BY <2>4, <2>5 DEF OnPath
<1>14. Chained'
  <2>1. \A k \in DOMAIN path' : k + 1 \in DOMAIN path' =>
           k \in DOMAIN path /\ k + 1 \in DOMAIN path
    BY <1>6, <1>8, <1>22
  <2>2. Chained
    BY <1>2 DEF Searching
  <2> QED
    BY <1>1, <1>8, <2>1, <2>2 DEF Chained
<1>15. Covered'
  <2> SUFFICES ASSUME NEW m \in Nodes, m \notin done', \A i \in DOMAIN starts : starts[i] # m
               PROVE  \E j \in DOMAIN stack' : stack'[j].node = m
    BY <1>1 DEF Covered
  <2>1. PICK j \in DOMAIN stack : stack[j].node = m
    BY <1>1, <1>2 DEF Searching, Covered
  <2>2. j # top
    BY <1>1, <1>5, <2>1
  <2>3. j \in 1..(top - 1)
    BY <1>4, <1>22, <2>1, <2>2
  <2> QED
    BY <1>4, <2>1, <2>3
<1>23. PICK now : now = [k \in 1..(last - 1) |-> at[k]]
  OBVIOUS
<1>16. \A k \in 1..(last - 1) : now[k] = at[k] /\ at[k] \in 1..(top - 1)
  <2> TAKE k \in 1..(last - 1)
  <2>1. k \in 1..last /\ k < last /\ last \in 1..last
    BY <1>6, <1>7
  <2>2. at[k] < at[last] /\ at[k] \in 1..top
    BY <1>3, <1>4, <1>6, <2>1 DEF Waits
  <2> QED
    BY <1>4, <1>7, <1>23, <2>2
<1>17. now \in [DOMAIN path' -> DOMAIN stack']
  BY <1>4, <1>8, <1>16, <1>23
<1>18. Waits(now)'
  <2>1. \A k \in DOMAIN path' : stack'[now[k]] = Leave(path'[k])
    <3> TAKE k \in DOMAIN path'
    <3>1. k \in 1..(last - 1) /\ k \in DOMAIN path /\ path'[k] = path[k]
      BY <1>6, <1>8, <1>22
    <3>2. now[k] = at[k] /\ stack'[at[k]] = stack[at[k]]
      BY <1>4, <1>16, <3>1
    <3> QED
      BY <1>3, <3>1, <3>2 DEF Waits
  <2>2. \A j \in DOMAIN stack' : stack'[j].leaving => \E k \in DOMAIN path' : now[k] = j
    <3> SUFFICES ASSUME NEW j \in 1..(top - 1), stack[j].leaving
                 PROVE  \E k \in 1..(last - 1) : now[k] = j
      BY <1>4, <1>8
    <3>1. PICK k \in 1..last : at[k] = j
      BY <1>3, <1>4, <1>6, <1>22 DEF Waits
    <3>2. k # last
      BY <1>4, <1>7, <3>1
    <3>3. k \in 1..(last - 1)
      BY <1>22, <3>1, <3>2
    <3> QED
      BY <1>16, <3>1, <3>3
  <2>3. \A k, l \in DOMAIN path' : k < l => now[k] < now[l]
    BY <1>3, <1>6, <1>8, <1>16, <1>22 DEF Waits
  <2> QED
    BY <2>1, <2>2, <2>3 DEF Waits
<1>19. Linked(now)'
  <2> SUFFICES ASSUME NEW j \in 1..(top - 1), ~stack[j].leaving
               PROVE  \E k \in 1..(last - 1) :
                         /\ now[k] < j /\ \A l \in 1..(last - 1) : k < l => j < now[l]
                         /\ stack[j].node \in links[path'[k]]
    BY <1>1, <1>4, <1>8, <1>22 DEF Linked
  <2>1. j \in DOMAIN stack /\ path # <<>>
    BY <1>4, <1>6, <1>7
  <2>2. PICK k \in 1..last :
           /\ at[k] < j /\ \A l \in 1..last : k < l => j < at[l]
           /\ stack[j].node \in links[path[k]]
    BY <1>3, <1>6, <2>1 DEF Linked
  <2>3. k # last
    BY <1>4, <1>7, <2>2
  <2>4. k \in 1..(last - 1)
    BY <1>22, <2>2, <2>3
  <2> QED
    BY <1>6, <1>8, <1>16, <1>22, <2>2, <2>4
<1>20. Pending(now)'
  <2> SUFFICES ASSUME NEW k \in DOMAIN path', NEW m \in links'[path'[k]], m \notin done'
               PROVE  \E j \in DOMAIN stack' : now[k] < j /\ stack'[j].node = m
    BY DEF Pending
  <2>4. k \in 1..(last - 1) /\ k \in DOMAIN path /\ m \in links[path[k]] /\ m \notin done /\ m # n
    BY <1>1, <1>6, <1>8, <1>22
  <2>1. PICK j \in 1..top : at[k] < j /\ stack[j].node = m
    BY <1>3, <1>4, <2>4 DEF Pending
  <2>2. j # top
    BY <1>5, <2>1, <2>4
  <2>3. j \in 1..(top - 1)
    BY <1>4, <1>22, <2>1, <2>2
  <2> QED
    BY <1>4, <1>16, <2>1, <2>3, <2>4
<1>21. (active \cap done = {})'
  BY <1>1, <1>2 DEF Searching
<1> QED
  BY <1>1, <1>2, <1>11, <1>12, <1>13, <1>14, <1>15, <1>17, <1>18, <1>19, <1>20, <1>21
     DEF SearchInv, Searching

\* A visited node joins the path, waits where its visit was, and what it links to goes above it.
LEMMA NodeVisited ==
    ASSUME SearchInv, VisitNode
    PROVE  SearchInv'
<1>1. PICK n \in Nodes :
         /\ Pops(Visit(n)) /\ n \notin active /\ n \notin done
         /\ active' = active \cup {n} /\ path' = Append(path, n)
         /\ \E next \in Ascending(links[n]) :
               stack' = Front(stack) \o <<Leave(n)>>
                        \o [i \in 1..Len(next) |-> Visit(next[Len(next) + 1 - i])]
         /\ UNCHANGED <<links, starts, done, verdict>>
  BY DEF VisitNode
<1>2. Types /\ Searching /\ OnPath /\ Closed /\ verdict = ""
  BY <1>1 DEF SearchInv, Pops
<1>3. PICK at \in [DOMAIN path -> DOMAIN stack] : Waits(at) /\ Linked(at) /\ Pending(at)
  BY <1>2 DEF Searching
<1>4. PICK next \in Ascending(links[n]) :
         stack' = Front(stack) \o <<Leave(n)>>
                  \o [i \in 1..Len(next) |-> Visit(next[Len(next) + 1 - i])]
  BY <1>1
<1>5. /\ next \in Seq(links[n]) /\ Len(next) \in Nat /\ DOMAIN next = 1..Len(next)
      /\ \A m \in links[n] : \E i \in DOMAIN next : next[i] = m
  BY <1>2, AscendingIsAll, GraphIsFinite
<1>6. PICK top, last : top = Len(stack) /\ last = Len(path)
  OBVIOUS
<1>7. /\ stack[top] = Visit(n) /\ top \in Nat \ {0} /\ DOMAIN stack = 1..top /\ top \in DOMAIN stack
      /\ Front(stack) \in Seq(Entries) /\ Len(Front(stack)) = top - 1
      /\ \A i \in 1..(top - 1) : Front(stack)[i] = stack[i]
  BY <1>1, <1>2, <1>6, PopIs
<1>8. ~stack[top].leaving /\ stack[top].node = n
  BY <1>7, EntryIs
<1>9. last \in Nat /\ DOMAIN path = 1..last /\ path \in [1..last -> Nodes] /\ path \in Seq(Nodes)
  BY <1>2, <1>6, PathIs DEF Types
<1>10. /\ path' \in Seq(Nodes) /\ Len(path') = last + 1 /\ DOMAIN path' = 1..(last + 1)
       /\ \A k \in 1..last : path'[k] = path[k]
       /\ path'[last + 1] = n
  BY <1>1, <1>6, <1>9, AppendProperties
<1>11. PICK links_n : links_n = [i \in 1..Len(next) |-> Visit(next[Len(next) + 1 - i])]
  OBVIOUS
<1>12. /\ links_n \in Seq(Entries) /\ Len(links_n) = Len(next)
       /\ \A i \in 1..Len(next) : links_n[i] = Visit(next[Len(next) + 1 - i])
  <2>1. \A i \in 1..Len(next) : Visit(next[Len(next) + 1 - i]) \in Entries
    <3> TAKE i \in 1..Len(next)
    <3>1. Len(next) + 1 - i \in 1..Len(next)
      BY <1>5
    <3>2. next[Len(next) + 1 - i] \in links[n]
      BY <1>5, <3>1
    <3> QED
      BY <1>2, <3>2, EntryIs, GraphIsFinite
  <2> QED
    BY <1>5, <1>11, <2>1
<1>13. /\ stack' \in Seq(Entries) /\ Len(stack') = top + Len(next)
       /\ DOMAIN stack' = 1..(top + Len(next))
       /\ \A j \in 1..(top - 1) : stack'[j] = stack[j]
       /\ stack'[top] = Leave(n)
       /\ \A i \in 1..Len(next) : stack'[top + i] = Visit(next[Len(next) + 1 - i])
  <2>1. Leave(n) \in Entries
    BY EntryIs
  <2>2. stack' = Front(stack) \o <<Leave(n)>> \o links_n
    BY <1>4, <1>11
  <2>3. /\ Front(stack) \o <<Leave(n)>> \in Seq(Entries)
        /\ Len(Front(stack) \o <<Leave(n)>>) = top
        /\ \A j \in 1..(top - 1) : (Front(stack) \o <<Leave(n)>>)[j] = stack[j]
        /\ (Front(stack) \o <<Leave(n)>>)[top] = Leave(n)
    BY <1>7, <2>1
  <2>4. PICK low \in Seq(Entries) : low = Front(stack) \o <<Leave(n)>>
    BY <2>3
  <2>6. Len(low) = top /\ stack' = low \o links_n
    BY <2>2, <2>3, <2>4
  <2>5. /\ stack' \in Seq(Entries) /\ Len(stack') = top + Len(next)
        /\ \A j \in 1..top : stack'[j] = low[j]
        /\ \A i \in 1..Len(next) : stack'[top + i] = links_n[i]
    <3>1. links_n \in Seq(Entries)
      BY <1>12
    <3>2. /\ low \o links_n \in Seq(Entries)
          /\ Len(low \o links_n) = Len(low) + Len(links_n)
          /\ \A j \in 1..Len(low) : (low \o links_n)[j] = low[j]
          /\ \A i \in 1..Len(links_n) : (low \o links_n)[Len(low) + i] = links_n[i]
      BY <3>1, Stacked
    <3> QED
      BY <1>12, <2>6, <3>2
  <2> QED
    BY <1>7, <1>12, <2>3, <2>4, <2>5, LenProperties
<1> HIDE DEF Types, Searching
<1>14. Types'
  BY <1>1, <1>2, <1>10, <1>13 DEF Types
<1>15. Closed'
  BY <1>1, <1>2, ClosedStays
<1>16. \A k \in 1..last : k \in 1..(last + 1) /\ k < last + 1
  BY <1>9
<1>17. \A k \in 1..(last + 1) : k = last + 1 \/ k \in 1..last
  BY <1>9
<1>18. OnPath'
  <2>1. \A m \in active' : \E k \in DOMAIN path' : path'[k] = m
    <3> TAKE m \in active'
    <3>1. CASE m = n
      <4>1. last + 1 \in DOMAIN path'
        BY <1>9, <1>10
      <4> QED
        BY <1>10, <3>1, <4>1
    <3>2. CASE m \in active
      BY <1>2, <1>9, <1>10, <1>16, <3>2 DEF OnPath
    <3> QED
      BY <1>1, <3>1, <3>2
  <2>2. \A k \in DOMAIN path' : path'[k] \in active'
    BY <1>1, <1>2, <1>9, <1>10, <1>17 DEF OnPath
  <2>3. \A k \in 1..last : path[k] # n
    <3>1. \A k \in 1..last : path[k] \in active
      BY <1>2, <1>9 DEF OnPath
    <3> QED
      BY <1>1, <3>1
  <2>4. \A k, l \in DOMAIN path' : path'[k] = path'[l] => k = l
    <3> SUFFICES ASSUME NEW k \in 1..(last + 1), NEW l \in 1..(last + 1), path'[k] = path'[l]
                 PROVE  k = l
      BY <1>10
    <3>1. CASE k \in 1..last /\ l \in 1..last
      BY <1>2, <1>9, <1>10, <3>1 DEF OnPath
    <3> QED
      BY <1>10, <1>17, <2>3, <3>1
  <2> QED
    BY <2>1, <2>2, <2>4 DEF OnPath
<1>19. \A j \in 1..top : j = top \/ (j \in 1..(top - 1) /\ j < top)
  BY <1>7
<1>20. \A j \in 1..(top + Len(next)) :
          j \in 1..(top - 1) \/ j = top \/ \E i \in 1..Len(next) : j = top + i
  <2> TAKE j \in 1..(top + Len(next))
  <2>1. CASE j > top
    <3>1. j - top \in 1..Len(next) /\ j = top + (j - top)
      BY <1>5, <1>7, <2>1
    <3> QED
      BY <3>1
  <2>2. CASE j <= top
    BY <1>7, <2>2
  <2> QED
    BY <1>5, <1>7, <2>1, <2>2
<1>21. \A j \in 1..top : j \in 1..(top + Len(next))
  BY <1>5, <1>7
<1>22. Covered'
  <2> SUFFICES ASSUME NEW m \in Nodes, m \notin done, \A i \in DOMAIN starts : starts[i] # m
               PROVE  \E j \in DOMAIN stack' : stack'[j].node = m
    BY <1>1 DEF Covered
  <2>1. PICK j \in 1..top : stack[j].node = m
    BY <1>2, <1>7 DEF Searching, Covered
  <2>2. stack'[top].node = n
    BY <1>13, EntryIs
  <2>3. stack'[j].node = m
    BY <1>8, <1>13, <1>19, <2>1, <2>2
  <2> QED
    BY <1>13, <1>21, <2>1, <2>3
\* Nothing of the path waits at the top or above.
<1>23. \A k \in 1..last : at[k] \in 1..(top - 1) /\ at[k] < top
  <2> TAKE k \in 1..last
  <2>1. at[k] \in 1..top
    BY <1>3, <1>7, <1>9
  <2>2. stack[at[k]] = Leave(path[k])
    BY <1>3, <1>9 DEF Waits
  <2>3. stack[at[k]].leaving
    BY <2>2, EntryIs
  <2> QED
    BY <1>8, <1>19, <2>1, <2>3
<1>24. Chained'
  <2>1. last # 0 => n \in links[path[last]]
    <3> SUFFICES ASSUME last # 0 PROVE n \in links[path[last]]
      OBVIOUS
    <3>1. path # <<>> /\ last \in 1..last
      BY <1>6, <1>9, EmptySeq
    <3>2. PICK k \in 1..last :
             (\A l \in 1..last : k < l => top < at[l]) /\ stack[top].node \in links[path[k]]
      BY <1>3, <1>7, <1>8, <1>9, <3>1 DEF Linked
    <3>3. ~(top < at[last])
      BY <1>7, <1>23, <3>1
    <3>4. k = last
      BY <1>9, <3>1, <3>2, <3>3
    <3> QED
      BY <1>8, <3>2, <3>4
  <2>2. ASSUME NEW k \in DOMAIN path', k + 1 \in DOMAIN path'
        PROVE  path'[k + 1] \in links'[path'[k]]
    <3>1. CASE k = last
      <4>1. last # 0 /\ path'[k] = path[last] /\ path'[k + 1] = n
        BY <1>9, <1>10, <2>2, <3>1
      <4> QED
        BY <1>1, <2>1, <3>1, <4>1
    <3>2. CASE k # last
      <4>1. k \in 1..last /\ k + 1 \in 1..last
        BY <1>9, <1>10, <2>2, <3>2
      <4>2. Chained
        BY <1>2 DEF Searching
      <4> QED
        BY <1>1, <1>9, <1>10, <4>1, <4>2 DEF Chained
    <3> QED
      BY <3>1, <3>2
  <2> QED
    BY <2>2 DEF Chained
<1>25. PICK now : now = [k \in 1..(last + 1) |-> IF k = last + 1 THEN top ELSE at[k]]
  OBVIOUS
<1>26. /\ \A k \in 1..last : now[k] = at[k]
       /\ now[last + 1] = top /\ last + 1 \in 1..(last + 1)
  BY <1>9, <1>16, <1>25
<1>27. now \in [DOMAIN path' -> DOMAIN stack']
  <2>1. \A k \in 1..(last + 1) : now[k] \in 1..(top + Len(next))
    <3> TAKE k \in 1..(last + 1)
    <3>1. CASE k \in 1..last
      <4>1. now[k] = at[k] /\ at[k] \in 1..(top - 1)
        BY <1>23, <1>26, <3>1
      <4>2. at[k] \in 1..top
        BY <1>7, <4>1
      <4> QED
        BY <1>21, <4>1, <4>2
    <3>2. CASE k = last + 1
      <4>1. top \in 1..top
        BY <1>7
      <4> QED
        BY <1>21, <1>26, <3>2, <4>1
    <3> QED
      BY <1>9, <3>1, <3>2
  <2> QED
    BY <1>10, <1>13, <1>25, <2>1
<1>28. Waits(now)'
  <2>1. \A k \in DOMAIN path' : stack'[now[k]] = Leave(path'[k])
    <3> TAKE k \in DOMAIN path'
    <3>1. CASE k = last + 1
      BY <1>10, <1>13, <1>26, <3>1
    <3>2. CASE k \in 1..last
      <4>1. stack'[now[k]] = stack[at[k]] /\ path'[k] = path[k]
        BY <1>10, <1>13, <1>23, <1>26, <3>2
      <4> QED
        BY <1>3, <1>9, <3>2, <4>1 DEF Waits
    <3> QED
      BY <1>10, <1>17, <3>1, <3>2
  <2>2. ASSUME NEW j \in DOMAIN stack', stack'[j].leaving
        PROVE  \E k \in DOMAIN path' : now[k] = j
    <3>1. CASE j \in 1..(top - 1)
      <4>1. j \in DOMAIN stack /\ stack[j].leaving
        BY <1>7, <1>13, <2>2, <3>1
      <4>2. PICK k \in 1..last : at[k] = j
        BY <1>3, <1>9, <4>1 DEF Waits
      <4> QED
        BY <1>10, <1>16, <1>26, <4>2
    <3>2. CASE j = top
      BY <1>10, <1>26, <3>2
    <3>3. ASSUME NEW i \in 1..Len(next), j = top + i PROVE FALSE
      BY <1>13, <2>2, <3>3, EntryIs
    <3> QED
      BY <1>13, <1>20, <3>1, <3>2, <3>3
  <2>3. ASSUME NEW k \in DOMAIN path', NEW l \in DOMAIN path', k < l PROVE now[k] < now[l]
    <3>1. k \in 1..last
      BY <1>9, <1>10, <1>17, <2>3
    <3>2. CASE l = last + 1
      BY <1>23, <1>26, <3>1, <3>2
    <3>3. CASE l \in 1..last
      BY <1>3, <1>9, <1>26, <2>3, <3>1, <3>3 DEF Waits
    <3> QED
      BY <1>10, <1>17, <3>2, <3>3
  <2> QED
    BY <2>1, <2>2, <2>3 DEF Waits
<1>29. Linked(now)'
  <2> SUFFICES ASSUME NEW j \in DOMAIN stack', ~stack'[j].leaving
               PROVE  \E k \in DOMAIN path' :
                         /\ now[k] < j /\ \A l \in DOMAIN path' : k < l => j < now[l]
                         /\ stack'[j].node \in links'[path'[k]]
    BY DEF Linked
  <2>1. CASE j \in 1..(top - 1)
    <3>1. j \in DOMAIN stack /\ stack'[j] = stack[j] /\ j < top /\ ~(j = 1 /\ Len(stack) = 1)
      <4>1. j \in Int /\ 1 <= j /\ j <= top - 1
        BY <1>7, <2>1
      <4>2. stack'[j] = stack[j]
        BY <1>13, <2>1
      <4>3. top \in Nat /\ Len(stack) = top /\ j \in DOMAIN stack
        BY <1>7, <4>1
      <4>4. j < top /\ ~(j = 1 /\ top = 1)
        BY <4>1, <4>3
      <4> QED
        BY <4>2, <4>3, <4>4
    <3>2. PICK k \in 1..last :
             /\ at[k] < j /\ \A l \in 1..last : k < l => j < at[l]
             /\ stack[j].node \in links[path[k]]
      BY <1>3, <1>9, <3>1 DEF Linked
    <3>3. \A l \in DOMAIN path' : k < l => j < now[l]
      BY <1>10, <1>17, <1>26, <3>1, <3>2
    <3> QED
      BY <1>1, <1>10, <1>16, <1>26, <3>1, <3>2, <3>3
  <2>2. CASE j = top
    BY <1>13, <2>2, EntryIs
  <2>3. ASSUME NEW i \in 1..Len(next), j = top + i
        PROVE  \E k \in DOMAIN path' :
                  /\ now[k] < j /\ \A l \in DOMAIN path' : k < l => j < now[l]
                  /\ stack'[j].node \in links'[path'[k]]
    <3>1. Len(next) + 1 - i \in DOMAIN next
      BY <1>5
    <3>2. next[Len(next) + 1 - i] \in links[n]
      BY <1>5, <3>1
    <3>3. stack'[j].node \in links[n]
      BY <1>13, <2>3, <3>2, EntryIs
    <3>4. now[last + 1] < j /\ \A l \in DOMAIN path' : ~(last + 1 < l)
      BY <1>7, <1>9, <1>10, <1>26, <2>3
    <3> QED
      BY <1>1, <1>10, <1>26, <3>3, <3>4
  <2> QED
    BY <1>13, <1>20, <2>1, <2>2, <2>3
<1>30. Pending(now)'
  <2> SUFFICES ASSUME NEW k \in DOMAIN path', NEW m \in links'[path'[k]], m \notin done'
               PROVE  \E j \in DOMAIN stack' : now[k] < j /\ stack'[j].node = m
    BY DEF Pending
  <2>1. CASE k \in 1..last
    <3>1. m \in links[path[k]] /\ m \notin done
      BY <1>1, <1>10, <2>1
    <3>2. PICK j \in 1..top : at[k] < j /\ stack[j].node = m
      BY <1>3, <1>7, <1>9, <2>1, <3>1 DEF Pending
    <3>3. stack'[j].node = m
      BY <1>8, <1>13, <1>19, <3>2, EntryIs
    <3> QED
      BY <1>13, <1>21, <1>26, <2>1, <3>2, <3>3
  <2>2. CASE k = last + 1
    <3>1. m \in links[n]
      BY <1>1, <1>10, <2>2
    <3>2. PICK i \in 1..Len(next) : next[i] = m
      BY <1>5, <3>1
    <3>3. Len(next) + 1 - i \in 1..Len(next) /\ Len(next) + 1 - (Len(next) + 1 - i) = i
      BY <1>5
    <3>4. stack'[top + (Len(next) + 1 - i)] = Visit(m)
      BY <1>13, <3>2, <3>3
    <3>5. /\ top + (Len(next) + 1 - i) \in 1..(top + Len(next))
          /\ top < top + (Len(next) + 1 - i)
      BY <1>5, <1>7, <3>3
    <3> QED
      BY <1>13, <1>26, <2>2, <3>4, <3>5, EntryIs
  <2> QED
    BY <1>10, <1>17, <2>1, <2>2
<1>31. (active \cap done = {})'
  BY <1>1, <1>2 DEF Searching
<1> QED
  BY <1>1, <1>2, <1>14, <1>15, <1>18, <1>22, <1>24, <1>27, <1>28, <1>29, <1>30, <1>31
     DEF SearchInv, Searching

LEMMA SearchStep ==
    ASSUME SearchInv, [Next]_vars
    PROVE  SearchInv'
<1>1. CASE UNCHANGED vars
  <2>1. /\ links' = links /\ starts' = starts /\ stack' = stack /\ active' = active
        /\ path' = path /\ done' = done /\ verdict' = verdict
    BY <1>1 DEF vars
  <2>2. Types' <=> Types
    BY <2>1 DEF Types
  <2>3. Closed' <=> Closed
    BY <2>1 DEF Closed, Reaches
  <2>4. (OnPath' <=> OnPath) /\ (Chained' <=> Chained) /\ (Covered' <=> Covered)
    BY <2>1 DEF OnPath, Chained, Covered
  <2>5. \A at : (Waits(at)' <=> Waits(at)) /\ (Linked(at)' <=> Linked(at))
                /\ (Pending(at)' <=> Pending(at))
    BY <2>1 DEF Waits, Linked, Pending
  <2>6. Searching => Searching'
    BY <2>1, <2>4, <2>5 DEF Searching
  <2> QED
    BY <2>1, <2>2, <2>3, <2>4, <2>6 DEF SearchInv
<1> QED
  BY <1>1, StartNext, NodeLeft, CycleFound, DoneSkipped, MissingFound, NodeVisited DEF Next

\* What the search knows at each point of its way, on any graph and from any roots.
THEOREM SearchInvariant == Spec => []SearchInv
BY InitSearch, SearchStep, PTL DEF Spec

-----------------------------------------------------------------------------
(* What the search types, and what it decides. *)

LEMMA TypedFromInv ==
    ASSUME SearchInv
    PROVE  SearchTypeOK
<1>1. Types
  BY DEF SearchInv
<1>2. ASSUME OnPath PROVE active = ToSet(path) /\ Cardinality(active) = Len(path)
  <2>1. Len(path) \in Nat /\ DOMAIN path = 1..Len(path) /\ path \in [1..Len(path) -> Nodes]
    BY <1>1, PathIs
  <2>2. active = ToSet(path)
    BY <1>2 DEF OnPath, ToSet
  <2>3. path \in Bijection(1..Len(path), active)
    BY <1>2, <2>1 DEF OnPath, Bijection, Injection, Surjection, IsInjective
  <2>4. IsFiniteSet(1..Len(path)) /\ Cardinality(1..Len(path)) = Len(path)
    BY SMTT(30), <2>1, FS_Interval
  <2> QED
    BY <2>2, <2>3, <2>4, FS_Bijection DEF ExistsBijection
<1> QED
  BY <1>1, <1>2 DEF SearchInv, SearchTypeOK, Types, Entries

LEMMA RightFromInv ==
    ASSUME SearchInv
    PROVE  SearchIsRight
BY DEF SearchInv, Closed, Types, SearchIsRight

(***************************************************************************)
(* The search keeps its types, and the path holds what is being visited    *)
(* once each (issue_apply.rs validate_graph).                              *)
(***************************************************************************)
THEOREM SearchTyped == Spec => []SearchTypeOK
BY SearchInvariant, TypedFromInv, PTL

(***************************************************************************)
(* On every graph and from any roots, the search accepts when no link      *)
(* leads nowhere and no issue reaches itself, and a link or cycle it       *)
(* reports is there (issue_apply.rs validate_graph).                       *)
(***************************************************************************)
THEOREM SearchRight == Spec => []SearchIsRight
BY SearchInvariant, RightFromInv, PTL

-----------------------------------------------------------------------------
(* The verdict is that of IssueGraph. *)

Graph == INSTANCE IssueGraph WITH Keys <- {}, NoKey <- 0, MaxCounter <- 2

\* The issues that n reaches.
Reached(n) == {m \in Nodes : Reaches(n, m)}

\* What a link leads to reaches no more, and not itself.
LEMMA LinkReachesLess ==
    ASSUME Types, NEW n \in Nodes, NEW m \in links[n], m \in Nodes, ~Reaches(m, m)
    PROVE  /\ Cardinality(Reached(n)) \in Nat /\ Cardinality(Reached(m)) \in Nat
           /\ Cardinality(Reached(m)) < Cardinality(Reached(n))
<1>1. Reached(m) \subseteq Reached(n)
  <2> SUFFICES ASSUME NEW p \in Nodes, Reaches(m, p), NEW S \in SUBSET Nodes,
                      links[n] \cap Nodes \subseteq S,
                      \A s \in S : links[s] \cap Nodes \subseteq S
               PROVE  p \in S
    BY DEF Reached, Reaches
  <2>1. m \in S
    OBVIOUS
  <2>2. links[m] \cap Nodes \subseteq S
    BY <2>1
  <2> QED
    BY <2>2 DEF Reaches
<1>2. m \in Reached(n) /\ m \notin Reached(m)
  BY DEF Reached, Reaches
<1>3. IsFiniteSet(Reached(n))
  BY SearchAssumption, FS_Subset DEF Reached
<1>4. Reached(m) # Reached(n)
  BY <1>2
<1> QED
  BY <1>1, <1>3, <1>4, FS_Subset, FS_CardinalityType

\* Of natural numbers there is a least.
LEMMA LeastOf ==
    ASSUME NEW T, T \subseteq Nat, T # {}
    PROVE  \E x \in T : \A y \in T : x <= y
<1>1. PICK x \in T : \A y \in T : <<y, x>> \notin OpToRel(<, Nat)
  BY NatLessThanWellFounded, WFMin
<1>2. \A y \in T : ~(y < x)
  BY <1>1 DEF OpToRel
<1> QED
  BY <1>2

\* What the search decides is what IssueGraph, and so every command on issues, takes it to
\* decide, of any issues whose links by one field are those that are searched.
Decides ==
    \A states, field :
        /\ DOMAIN states = Nodes
        /\ \A n \in Nodes : Graph!Targets(states[n], field) = links[n]
        => /\ verdict = "ok" => Graph!Acyclic(states, field)
           /\ verdict \in {"cycle", "missing"} => ~Graph!Acyclic(states, field)

LEMMA DecidesFromInv ==
    ASSUME SearchInv
    PROVE  Decides
<1> SUFFICES ASSUME NEW states, NEW field, DOMAIN states = Nodes,
                    \A n \in Nodes : Graph!Targets(states[n], field) = links[n]
             PROVE  /\ verdict = "ok" => Graph!Acyclic(states, field)
                    /\ verdict \in {"cycle", "missing"} => ~Graph!Acyclic(states, field)
  BY DEF Decides
<1>1. Types /\ SearchIsRight
  BY RightFromInv DEF SearchInv
<1>2. CASE verdict = "ok"
  <2>1. \A n \in Nodes : links[n] \subseteq Nodes /\ ~Reaches(n, n)
    BY <1>1, <1>2 DEF SearchIsRight
  <2>2. ASSUME NEW S \in SUBSET Nodes, S # {} PROVE \E n \in S : links[n] \cap S = {}
    <3>1. PICK T : T = {Cardinality(Reached(n)) : n \in S}
      OBVIOUS
    <3>2. \A n \in S : Cardinality(Reached(n)) \in Nat
      BY SearchAssumption, FS_Subset, FS_CardinalityType DEF Reached
    <3>3. PICK c \in T : \A d \in T : c <= d
      BY <2>2, <3>1, <3>2, LeastOf
    <3>4. PICK n \in S : c = Cardinality(Reached(n))
      BY <3>1
    <3>5. ASSUME NEW m \in links[n] \cap S PROVE FALSE
      <4>1. Cardinality(Reached(m)) < c /\ c \in Nat /\ Cardinality(Reached(m)) \in Nat
        BY <1>1, <2>1, <3>4, <3>5, LinkReachesLess
      <4>2. c <= Cardinality(Reached(m))
        BY <3>1, <3>3, <3>5
      <4> QED
        BY <4>1, <4>2
    <3> QED
      BY <3>5
  <2> QED
    BY <1>2, <2>1, <2>2 DEF Graph!Acyclic
<1>3. CASE verdict = "missing"
  <2>1. PICK n \in Nodes : links[n] \cap Ghosts # {}
    BY <1>1, <1>3 DEF SearchIsRight
  <2>2. ~(links[n] \subseteq Nodes)
    BY <2>1, SearchAssumption
  <2> QED
    BY <1>3, <2>2 DEF Graph!Acyclic
<1>4. CASE verdict = "cycle"
  <2>1. PICK len : len = Len(path)
    OBVIOUS
  <2>2. len \in Nat /\ DOMAIN path = 1..len /\ path \in [1..len -> Nodes] /\ path # <<>>
    BY <1>1, <1>4, <2>1, PathIs DEF SearchIsRight
  <2>3. len # 0
    BY <1>1, <2>1, <2>2, EmptySeq DEF Types
  <2>4. PICK S : S = {path[i] : i \in 1..len}
    OBVIOUS
  <2>5. S \in (SUBSET Nodes) \ {{}}
    BY <2>2, <2>3, <2>4
  <2>6. ASSUME NEW n \in S PROVE links[n] \cap S # {}
    <3>1. PICK i \in 1..len : path[i] = n
      BY <2>4, <2>6
    <3>2. PICK j \in 1..len : path[j] \in links[n]
      BY <1>1, <1>4, <2>1, <2>2, <2>3, <3>1 DEF SearchIsRight
    <3> QED
      BY <2>4, <3>2
  <2> QED
    BY <1>4, <2>5, <2>6 DEF Graph!Acyclic
<1> QED
  BY <1>2, <1>3, <1>4

(***************************************************************************)
(* The search decides whether the links by a field are acyclic: validation *)
(* in one step, as the other modules have it, is what the search comes to. *)
(* (issue_apply.rs validate_graph)                                         *)
(***************************************************************************)
THEOREM SearchDecides == Spec => []Decides
BY SearchInvariant, DecidesFromInv, PTL

-----------------------------------------------------------------------------
(* The search comes nearer to its end. *)

Unvisited == Nodes \ (done \cup active)
Weight == Cardinality(Nodes \cup Ghosts) + 2

Open == IF verdict = "" THEN 1 ELSE 0
Rest == Len(stack) + 2 * Len(starts) + Open

\* What is left to do: the entries of the stack, the starts with the entry each may make, and
\* for each issue not yet visited, its own entry and those of its links.
Effort == Rest + Weight * Cardinality(Unvisited)

(***************************************************************************)
(* Every step brings the end nearer: from any start, no issue's links are  *)
(* followed a second time (issue_apply.rs validate_graph).                 *)
(***************************************************************************)
SearchShrinks == [][Effort' < Effort]_vars

LEMMA WeightIsNatural == Weight \in Nat
<1>1. IsFiniteSet(Nodes \cup Ghosts)
  BY SearchAssumption, FS_Union
<1>2. Cardinality(Nodes \cup Ghosts) \in Nat
  BY <1>1, FS_CardinalityType
<1> QED
  BY <1>2 DEF Weight

LEMMA RestIs ==
    ASSUME Types
    PROVE  /\ stack \in Seq(Entries) /\ starts \in Seq(Nodes) /\ Open \in Nat
           /\ Rest = Len(stack) + 2 * Len(starts) + Open /\ Rest \in Nat
<1>1. stack \in Seq(Entries) /\ starts \in Seq(Nodes)
  BY DEF Types
<1>2. Open \in Nat
  BY DEF Open
<1> QED
  BY <1>1, <1>2 DEF Rest

LEMMA RestNextIs ==
    ASSUME Types'
    PROVE  /\ stack' \in Seq(Entries) /\ starts' \in Seq(Nodes) /\ Open' \in Nat
           /\ Rest' = Len(stack') + 2 * Len(starts') + Open' /\ Rest' \in Nat
<1>1. stack' \in Seq(Entries) /\ starts' \in Seq(Nodes)
  BY DEF Types
<1>2. Open' \in Nat
  BY DEF Open
<1> QED
  BY <1>1, <1>2 DEF Rest

\* Less is left when the rest shrinks, or grows by less than the weight of what was visited.
LEMMA EffortLess ==
    ASSUME Types, Types', Unvisited' \subseteq Unvisited,
           \/ Rest' < Rest
           \/ Unvisited' # Unvisited /\ Rest' < Rest + Weight
    PROVE  Effort' < Effort
<1>1. Rest \in Nat /\ Rest' \in Nat
  BY RestIs, RestNextIs
<1>2. Weight \in Nat
  BY WeightIsNatural
<1>3. PICK x, y, w : x = Cardinality(Unvisited) /\ y = Cardinality(Unvisited') /\ w = Weight
  OBVIOUS
<1>4. IsFiniteSet(Unvisited)
  BY SearchAssumption, FS_Subset DEF Unvisited
<1>5. x \in Nat /\ y \in Nat /\ y <= x /\ (Unvisited' # Unvisited => y < x)
  BY <1>3, <1>4, FS_Subset, FS_CardinalityType
<1>6. w * x \in Nat /\ w * y \in Nat /\ w * y <= w * x /\ (y < x => w * y + w <= w * x)
  <2>1. PICK d \in Nat : x = y + d
    <3>1. x - y \in Nat /\ x = y + (x - y)
      BY <1>5
    <3> QED
      BY <3>1
  <2>2. w \in Nat /\ y \in Nat
    BY <1>2, <1>3, <1>5
  <2>3. w * x = w * y + w * d /\ w * y \in Nat /\ w * d \in Nat
    BY <2>1, <2>2
  <2>4. d # 0 => w <= w * d
    BY <2>1, <2>2
  <2>5. y < x => d # 0
    BY <2>1, <2>2
  <2> QED
    BY <2>2, <2>3, <2>4, <2>5
<1>7. Effort = Rest + w * x
  BY <1>3 DEF Effort, Rest, Open, Weight, Unvisited
<1>8. Effort' = Rest' + w * y
  BY <1>3 DEF Effort, Rest, Open, Weight, Unvisited
<1>9. PICK u, v : u = w * y /\ v = w * x
  OBVIOUS
<1> QED
  BY <1>1, <1>2, <1>3, <1>5, <1>6, <1>7, <1>8, <1>9

LEMMA StepShrinks ==
    ASSUME SearchInv, Next
    PROVE  Effort' < Effort
<1>1. Types /\ Types'
  BY SearchStep DEF SearchInv
<1>2. verdict = "" /\ Searching /\ OnPath
  BY DEF SearchInv, Next, Start, LeaveNode, Shorter, FindCycle, SkipDone, FindMissing, VisitNode, Pops
<1>3. \A e : Pops(e) => Len(Front(stack)) = Len(stack) - 1 /\ Len(stack) \in Nat
  BY <1>1, PopIs
<1>4. /\ stack \in Seq(Entries) /\ starts \in Seq(Nodes)
      /\ stack' \in Seq(Entries) /\ starts' \in Seq(Nodes)
      /\ Rest = Len(stack) + 2 * Len(starts) + Open
      /\ Rest' = Len(stack') + 2 * Len(starts') + Open'
      /\ Weight \in Nat
  BY <1>1, RestIs, RestNextIs, WeightIsNatural
<1>5. Open = 1
  BY <1>2 DEF Open
<1>6. (verdict' = verdict => Open' = Open) /\ (verdict' # "" => Open' = 0)
  BY <1>2 DEF Open
<1>7. ASSUME Unvisited' \subseteq Unvisited, starts' = starts, Open' = Open,
             Len(stack') = Len(stack) - 1
      PROVE  Effort' < Effort
  <2>1. Rest' < Rest
    BY <1>4, <1>5, <1>7
  <2> QED
    BY <1>1, <1>7, <2>1, EffortLess
<1>8. ASSUME Unvisited' = Unvisited, starts' = starts, stack' = stack, Open' = 0
      PROVE  Effort' < Effort
  <2>1. Rest' < Rest
    BY <1>4, <1>5, <1>8
  <2> QED
    BY <1>1, <1>8, <2>1, EffortLess
<1>9. CASE Start
  <2>1. active = {}
    <3>1. stack = <<>>
      BY <1>9 DEF Start
    <3>2. DOMAIN stack = {}
      BY <3>1, NothingIn
    <3>3. DOMAIN path = {}
      BY <1>2, <3>2 DEF Searching
    <3> QED
      BY <1>2, <3>3 DEF OnPath
  <2>2. Unvisited' = Unvisited
    BY <1>9, <2>1 DEF Start, Unvisited
  <2>3. CASE starts = <<>>
    BY <1>8, <1>9, <1>6, <2>2, <2>3 DEF Start
  <2>4. CASE starts # <<>>
    <3>1. /\ starts' = Tail(starts) /\ Open' = Open
          /\ stack' = <<>> \/ stack' = <<Visit(Head(starts))>>
      BY <1>9, <1>6, <2>4 DEF Start
    <3>2. Len(starts') = Len(starts) - 1 /\ Len(starts) \in Nat
      BY <1>4, <2>4, <3>1, HeadTailProperties
    <3>3. Len(stack) = 0
      BY <1>9, EmptySeq DEF Start
    <3>4. Len(stack') \in {0, 1}
      BY <3>1
    <3>5. Rest' < Rest
      <4>1. Open' = 1
        BY <1>5, <3>1
      <4>2. Len(stack') <= 1 /\ Len(stack') \in Nat
        BY <3>4
      <4> QED
        BY <1>4, <1>5, <3>2, <3>3, <4>1, <4>2
    <3> QED
      BY <1>1, <2>2, <3>5, EffortLess
  <2> QED
    BY <2>3, <2>4
<1>10. CASE LeaveNode
  <2>1. /\ Unvisited' \subseteq Unvisited /\ starts' = starts /\ verdict' = verdict
        /\ Len(stack') = Len(stack) - 1
    BY <1>3, <1>10 DEF LeaveNode, Left, Finished, Shorter, Unvisited
  <2> QED
    BY <1>7, <1>6, <2>1
<1>11. CASE FindCycle
  <2>1. Unvisited' = Unvisited /\ starts' = starts /\ stack' = stack /\ verdict' = "cycle"
    BY <1>11 DEF FindCycle, Unvisited
  <2> QED
    BY <1>8, <1>6, <2>1
<1>12. CASE SkipDone
  <2>1. /\ Unvisited' = Unvisited /\ starts' = starts /\ verdict' = verdict
        /\ Len(stack') = Len(stack) - 1
    BY <1>3, <1>12 DEF SkipDone, Skipped, Unvisited
  <2> QED
    BY <1>7, <1>6, <2>1
<1>13. CASE FindMissing
  <2>1. Unvisited' = Unvisited /\ starts' = starts /\ stack' = stack /\ verdict' = "missing"
    BY <1>13 DEF FindMissing, Unvisited
  <2> QED
    BY <1>8, <1>6, <2>1
<1>14. CASE VisitNode
  <2>1. PICK n \in Nodes :
           /\ Pops(Visit(n)) /\ n \notin active /\ n \notin done
           /\ active' = active \cup {n} /\ UNCHANGED <<starts, done, verdict>>
           /\ \E next \in Ascending(links[n]) :
                 stack' = Front(stack) \o <<Leave(n)>>
                          \o [i \in 1..Len(next) |-> Visit(next[Len(next) + 1 - i])]
    BY <1>14 DEF VisitNode
  <2>2. PICK next \in Ascending(links[n]) :
           stack' = Front(stack) \o <<Leave(n)>>
                    \o [i \in 1..Len(next) |-> Visit(next[Len(next) + 1 - i])]
    BY <2>1
  <2>3. Unvisited' \subseteq Unvisited /\ Unvisited' # Unvisited
    <3>1. Unvisited' \subseteq Unvisited /\ n \in Unvisited /\ n \notin Unvisited'
      BY <2>1 DEF Unvisited
    <3> QED
      BY <3>1
  <2>4. Len(next) = Cardinality(links[n]) /\ Len(next) \in Nat /\ next \in Seq(links[n])
    BY <1>1, <2>2, AscendingIsAll, GraphIsFinite
  <2>5. Len(next) + 2 <= Weight
    <3>1. links[n] \subseteq Nodes \cup Ghosts /\ IsFiniteSet(Nodes \cup Ghosts)
      BY <1>1, SearchAssumption, GraphIsFinite, FS_Union
    <3>2. Cardinality(links[n]) <= Cardinality(Nodes \cup Ghosts)
      BY <3>1, FS_Subset
    <3>3. Cardinality(Nodes \cup Ghosts) \in Nat
      BY <3>1, FS_CardinalityType
    <3> QED
      BY <2>4, <3>2, <3>3 DEF Weight
  <2>6. Len(stack') = Len(stack) + Len(next)
    <3>1. /\ Front(stack) \in Seq(Entries) /\ Len(Front(stack)) = Len(stack) - 1
          /\ Len(stack) \in Nat
      BY <1>1, <2>1, PopIs
    <3>2. PICK front \in Seq(Entries) : front = Front(stack)
      BY <3>1
    <3>3. <<Leave(n)>> \in Seq(Entries) /\ Len(<<Leave(n)>>) = 1
      <4>1. Leave(n) \in Entries
        BY EntryIs
      <4> QED
        BY <4>1
    <3>4. PICK low \in Seq(Entries) : low = front \o <<Leave(n)>>
      BY <3>3, Stacked
    <3>5. Len(low) = Len(stack)
      <4>1. Len(front \o <<Leave(n)>>) = Len(front) + Len(<<Leave(n)>>)
        BY <3>3, Stacked
      <4> QED
        BY <3>1, <3>2, <3>3, <3>4, <4>1
    <3>6. PICK high : high = [i \in 1..Len(next) |-> Visit(next[Len(next) + 1 - i])]
      OBVIOUS
    <3>7. high \in Seq(Entries) /\ Len(high) = Len(next)
      <4>1. \A i \in 1..Len(next) : Visit(next[Len(next) + 1 - i]) \in Entries
        <5> TAKE i \in 1..Len(next)
        <5>1. Len(next) + 1 - i \in 1..Len(next)
          BY <2>4
        <5>2. next[Len(next) + 1 - i] \in links[n]
          BY <2>4, <5>1
        <5> QED
          BY <1>1, <5>2, EntryIs, GraphIsFinite
      <4> QED
        BY <2>4, <3>6, <4>1
    <3>8. stack' = low \o high
      BY <2>2, <3>2, <3>4, <3>6
    <3>9. Len(low \o high) = Len(low) + Len(high)
      BY <3>7, Stacked
    <3> QED
      BY <3>5, <3>7, <3>8, <3>9
  <2>7. Rest' < Rest + Weight
    <3>1. starts' = starts /\ Open' = Open
      BY <1>6, <2>1
    <3> QED
      BY SMTT(30), <1>4, <1>5, <2>4, <2>5, <2>6, <3>1
  <2> QED
    BY <1>1, <2>3, <2>7, EffortLess
<1> QED
  BY <1>9, <1>10, <1>11, <1>12, <1>13, <1>14 DEF Next

LEMMA EffortIsNatural ==
    ASSUME SearchInv
    PROVE  Effort \in Nat
<1>1. Rest \in Nat
  BY RestIs DEF SearchInv
<1>2. IsFiniteSet(Unvisited)
  BY SearchAssumption, FS_Subset DEF Unvisited
<1>3. Weight * Cardinality(Unvisited) \in Nat
  BY <1>2, WeightIsNatural, FS_CardinalityType
<1>4. Effort = Rest + Weight * Cardinality(Unvisited)
  BY DEF Effort, Rest, Open, Weight, Unvisited
<1> QED
  BY <1>1, <1>3, <1>4

(***************************************************************************)
(* Every step of the search lessens what is left to do, on every graph and *)
(* from any roots: no issue's links are followed twice.                    *)
(* (issue_apply.rs validate_graph)                                         *)
(***************************************************************************)
THEOREM SearchAlwaysShrinks == Spec => SearchShrinks
<1>1. SearchInv /\ [Next]_vars => [Effort' < Effort]_vars
  BY StepShrinks
<1> QED
  BY <1>1, SearchInvariant, PTL DEF Spec, SearchShrinks

(***************************************************************************)
(* What is left to do is a natural number: with the last theorem, a search *)
(* takes no more steps than its first effort.                              *)
(* (issue_apply.rs validate_graph)                                         *)
(***************************************************************************)
THEOREM EffortBounded == Spec => [](Effort \in Nat)
BY SearchInvariant, EffortIsNatural, PTL
=============================================================================

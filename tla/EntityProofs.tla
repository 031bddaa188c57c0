------------------------------ MODULE EntityProofs ------------------------------
(***************************************************************************)
(* Proofs that the commands that create entities keep their promises, for  *)
(* any number of shells, scripts and keys, any limit of the counter, and   *)
(* any repository such commands have left behind; and that each of them    *)
(* comes to an end.                                                        *)
(***************************************************************************)
EXTENDS EntityProperties, FiniteSetTheorems, SequenceTheorems, TLAPS

----------------------------------------------------------------------------
(* The helpers of the model. *)

\* Every nonempty set of natural numbers has a least element, and Min is one.
LEMMA MinOf ==
    ASSUME NEW S \in SUBSET Nat, S # {}
    PROVE  Min(S) \in S /\ \A n \in S : Min(S) <= n
<1> DEFINE R == StrictSubsetOrdering(Nat)
           F == FiniteSubsetsOf(Nat)
           T == {0..n : n \in S}
<1>1. IsWellFoundedOn(R, F)
  BY FS_StrictSubsetOrderingWellFounded
<1>2. T \subseteq F
  <2>1. \A n \in S : IsFiniteSet(0..n) /\ 0..n \in SUBSET Nat
    BY FS_Interval
  <2> QED
    BY <2>1 DEF FiniteSubsetsOf
<1>3. T # {}
  OBVIOUS
<1>4. \E x \in T : \A y \in T : <<y, x>> \notin R
  <2> HIDE DEF R, F, T
  <2> QED
    BY ONLY <1>1, <1>2, <1>3, WFMin
<1>5. PICK x \in S : \A y \in S : <<0..y, 0..x>> \notin R
  BY <1>4
<1>6. ASSUME NEW y \in S
      PROVE  x <= y
  <2>1. CASE x <= y
    BY <2>1
  <2>2. CASE ~(x <= y)
    <3>1. 0..y \subseteq 0..x /\ x \in 0..x /\ x \notin 0..y
      BY <2>2
    <3>2. 0..y \in SUBSET Nat /\ 0..x \in SUBSET Nat
      OBVIOUS
    <3> DEFINE below == 0..y
               upto == 0..x
    <3> HIDE DEF below, upto
    <3>3. below \subseteq upto /\ below # upto /\ below \in SUBSET Nat /\ upto \in SUBSET Nat
      BY <3>1, <3>2 DEF below, upto
    <3>4. <<below, upto>> \in R
      BY <3>3 DEF StrictSubsetOrdering
    <3> QED
      BY <3>4, <1>5 DEF below, upto
  <2> QED
    BY <2>1, <2>2
<1> QED
  BY <1>6 DEF Min

\* The ids of n members of F below member i, counted, are those of an interval.
LEMMA RanksFill ==
    ASSUME NEW F \in SUBSET Nat, IsFiniteSet(F),
           NEW rank \in [F -> Nat],
           \A i \in F : rank[i] = Cardinality({j \in F : j < i})
    PROVE  /\ \A i, j \in F : rank[i] = rank[j] => i = j
           /\ {rank[i] : i \in F} = 0..Cardinality(F) - 1
<1> DEFINE Below(i) == {j \in F : j < i}
           m == Cardinality(F)
<1>1. m \in Nat
  BY FS_CardinalityType
<1>2. \A i \in F : IsFiniteSet(Below(i)) /\ Cardinality(Below(i)) \in Nat
  BY FS_Subset, FS_CardinalityType
<1>3. ASSUME NEW i \in F, NEW S \in SUBSET F, Below(i) \subseteq S, i \in S
      PROVE  rank[i] < Cardinality(S)
  <2>1. IsFiniteSet(S) /\ Cardinality(S) \in Nat
    BY FS_Subset, FS_CardinalityType
  <2>2. Below(i) \cup {i} \in SUBSET S
    BY <1>3
  <2>3. Cardinality(Below(i) \cup {i}) = Cardinality(Below(i)) + 1
    <3>1. i \notin Below(i)
      BY F \in SUBSET Nat
    <3> HIDE DEF Below
    <3> QED
      BY <1>2, <3>1, FS_AddElement
  <2>4. Cardinality(Below(i) \cup {i}) <= Cardinality(S)
    BY <2>1, <2>2, FS_Subset
  <2> QED
    BY <1>2, <2>1, <2>3, <2>4
<1>4. \A i, j \in F : i < j => rank[i] < rank[j]
  <2> SUFFICES ASSUME NEW i \in F, NEW j \in F, i < j
               PROVE  rank[i] < Cardinality(Below(j))
    OBVIOUS
  <2>1. \A k \in Below(i) : k < j
    BY \A k \in F : k \in Nat
  <2>2. Below(j) \in SUBSET F /\ Below(i) \subseteq Below(j) /\ i \in Below(j)
    BY <2>1
  <2> QED
    BY <1>3, <2>2
<1>5. \A i \in F : rank[i] < m
  BY <1>3
<1>6. \A i, j \in F : rank[i] = rank[j] => i = j
  BY <1>4
<1>7. rank \in Injection(F, 0..m-1)
  BY <1>1, <1>5, <1>6 DEF Injection, IsInjective
<1>8. IsFiniteSet(0..m-1) /\ Cardinality(0..m-1) = m
  BY SMTT(30), <1>1, FS_Interval
<1>9. rank \in Surjection(F, 0..m-1)
  BY <1>7, <1>8, FS_Injection
<1> QED
  BY <1>6, <1>9 DEF Surjection

----------------------------------------------------------------------------
(* Maps from ids, and the graph of the issues. *)

Issues == IssuesWith(Events)
IsMap(f, S) == f \in [DOMAIN f -> S] /\ DOMAIN f \subseteq Nat \ {0}

LEMMA OverIs ==
    ASSUME NEW S, NEW f, NEW g, IsMap(f, S), IsMap(g, S)
    PROVE  /\ IsMap(Over(g, f), S)
           /\ DOMAIN Over(g, f) = DOMAIN g \cup DOMAIN f
           /\ \A y \in DOMAIN g : Over(g, f)[y] = g[y]
           /\ \A y \in DOMAIN f \ DOMAIN g : Over(g, f)[y] = f[y]
BY DEF Over, IsMap

\* Whether a graph is valid depends on the links alone.
LEMMA LinksDecideTheGraph ==
    ASSUME NEW f, NEW g, DOMAIN f = DOMAIN g, ValidGraph(f),
           \A n \in DOMAIN f : f[n].parent = g[n].parent /\ f[n].blocked = g[n].blocked
    PROVE  ValidGraph(g)
<1>1. \A field \in Fields : \A n \in DOMAIN f : Targets(f[n], field) = Targets(g[n], field)
  BY DEF Fields, Targets
<1> QED
  BY <1>1 DEF ValidGraph, Acyclic

----------------------------------------------------------------------------
(* Plans. *)

KeysAreUnique(states) ==
    \A m, n \in DOMAIN states : states[m].key = states[n].key /\ states[m].key # NoKey => m = n

\* A plan that has been loaded and that prepare has accepted.
Prepared(plan, states, cnt) ==
    /\ WellFormed(plan) /\ IsMap(states, Issues) /\ cnt \in Nat
    /\ Accepts(plan, states, cnt)

\* An entry, and the entries: an entry that is not fresh has one holder of its key.
LEMMA EntriesAre ==
    ASSUME NEW plan, NEW states, NEW cnt, Prepared(plan, states, cnt)
    PROVE  /\ \A i \in DOMAIN plan : plan[i] \in Entries /\ plan[i].key \in Keys
           /\ DOMAIN plan \subseteq Nat /\ IsFiniteSet(DOMAIN plan)
           /\ KeysAreUnique(states)
           /\ \A i \in DOMAIN plan \ FreshIn(plan, states) :
                 LET n == Holder(states, plan[i].key) IN
                 n \in DOMAIN states /\ states[n].key = plan[i].key
<1>1. plan \in Seq(Entries)
  BY DEF Prepared, WellFormed
<1>2. \A i \in DOMAIN plan : plan[i] \in Entries /\ plan[i].key \in Keys
  <2>1. \A i \in DOMAIN plan : plan[i] \in Entries
    BY <1>1
  <2>2. \A e \in Entries : e.key \in Keys
    BY DEF Entries
  <2> QED
    BY <2>1, <2>2
<1>3. DOMAIN plan = 1..Len(plan) /\ Len(plan) \in Nat
  BY <1>1
<1>4. IsFiniteSet(DOMAIN plan)
  BY <1>3, FS_Interval
<1>5. KeysAreUnique(states)
  BY DEF Prepared, Accepts, KeysAreUnique
<1>6. \A i \in DOMAIN plan \ FreshIn(plan, states) :
         LET n == Holder(states, plan[i].key) IN
         n \in DOMAIN states /\ states[n].key = plan[i].key
  BY DEF FreshIn, HasKey, Holder
<1> QED
  BY <1>2, <1>3, <1>4, <1>5, <1>6

\* The fresh entries get the ids that follow the counter, one each.
LEMMA FreshIdsFollow ==
    ASSUME NEW plan, NEW states, NEW cnt, Prepared(plan, states, cnt)
    PROVE  LET fresh == FreshIn(plan, states)
               Id(i) == IdAt(plan, states, cnt, i)
           IN  /\ IsFiniteSet(fresh) /\ Cardinality(fresh) \in Nat
               /\ \A i, j \in fresh : Id(i) = Id(j) => i = j
               /\ \A i \in fresh : Id(i) \in Nat \ {0} /\ Id(i) \notin DOMAIN states
               /\ {Id(i) : i \in fresh} = NextId(cnt)..NextId(cnt) + Cardinality(fresh) - 1
<1> DEFINE fresh == FreshIn(plan, states)
           rank == [i \in fresh |-> Cardinality({j \in fresh : j < i})]
           id == NextId(cnt)
           m == Cardinality(fresh)
<1>1. fresh \in SUBSET DOMAIN plan /\ fresh \in SUBSET Nat
  BY EntriesAre DEF FreshIn
<1>2. IsFiniteSet(fresh) /\ m \in Nat
  BY <1>1, EntriesAre, FS_Subset, FS_CardinalityType
<1>3. rank \in [fresh -> Nat]
  <2>1. \A i \in fresh : {j \in fresh : j < i} \in SUBSET fresh
    OBVIOUS
  <2> HIDE DEF fresh
  <2>2. \A i \in fresh : Cardinality({j \in fresh : j < i}) \in Nat
    BY <1>2, <2>1, FS_Subset, FS_CardinalityType
  <2> QED
    BY <2>2
<1>4. id \in Nat \ {0}
  BY DEF NextId, Prepared
<1>5. \A i \in fresh : IdAt(plan, states, cnt, i) = id + rank[i]
  BY DEF IdAt
<1>6. \A i \in fresh : IdAt(plan, states, cnt, i) \notin DOMAIN states
  BY DEF Prepared, Accepts
<1> HIDE DEF fresh, id, m
<1>7. /\ \A i, j \in fresh : rank[i] = rank[j] => i = j
      /\ {rank[i] : i \in fresh} = 0..m - 1
  <2>1. \A i \in fresh : rank[i] = Cardinality({j \in fresh : j < i})
    OBVIOUS
  <2> HIDE DEF rank
  <2> QED
    BY <1>1, <1>2, <1>3, <2>1, RanksFill DEF m
<1> HIDE DEF rank
<1>8. {id + rank[i] : i \in fresh} = id..id + m - 1
  <2>1. \A i \in fresh : rank[i] \in 0..m-1
    BY <1>7
  <2>2. ASSUME NEW n \in id..id + m - 1
        PROVE  \E i \in fresh : n = id + rank[i]
    <3>1. n - id \in 0..m-1
      BY <1>2, <1>4
    <3>2. PICK i \in fresh : rank[i] = n - id
      BY <1>7, <3>1
    <3> QED
      BY <3>2, <1>4
  <2> QED
    BY <1>2, <1>3, <1>4, <2>1, <2>2
<1>9. {IdAt(plan, states, cnt, i) : i \in fresh} = id..id + m - 1
  BY <1>5, <1>8
<1>10. \A i, j \in fresh : IdAt(plan, states, cnt, i) = IdAt(plan, states, cnt, j) => i = j
  BY <1>3, <1>4, <1>5, <1>7
<1>11. \A i \in fresh : IdAt(plan, states, cnt, i) \in Nat \ {0}
  BY <1>3, <1>4, <1>5
<1> QED
  BY <1>2, <1>6, <1>9, <1>10, <1>11 DEF fresh, id, m

\* Every entry has an issue of its own.
LEMMA IdsAreTheirOwn ==
    ASSUME NEW plan, NEW states, NEW cnt, Prepared(plan, states, cnt)
    PROVE  /\ \A i \in DOMAIN plan : IdAt(plan, states, cnt, i) \in Nat \ {0}
           /\ \A i \in DOMAIN plan \ FreshIn(plan, states) :
                 /\ IdAt(plan, states, cnt, i) = Holder(states, plan[i].key)
                 /\ IdAt(plan, states, cnt, i) \in DOMAIN states
                 /\ states[IdAt(plan, states, cnt, i)].key = plan[i].key
           /\ \A i, j \in DOMAIN plan :
                 IdAt(plan, states, cnt, i) = IdAt(plan, states, cnt, j) => i = j
<1> DEFINE fresh == FreshIn(plan, states)
           Id(i) == IdAt(plan, states, cnt, i)
<1>1. \A i \in DOMAIN plan \ fresh :
         /\ Id(i) = Holder(states, plan[i].key)
         /\ Id(i) \in DOMAIN states /\ states[Id(i)].key = plan[i].key
  BY EntriesAre DEF IdAt
<1>2. fresh \subseteq DOMAIN plan
  BY DEF FreshIn
<1>3. /\ \A i, j \in fresh : Id(i) = Id(j) => i = j
      /\ \A i \in fresh : Id(i) \in Nat \ {0} /\ Id(i) \notin DOMAIN states
  BY FreshIdsFollow
<1>4. \A i, j \in DOMAIN plan : plan[i].key = plan[j].key => i = j
  BY DEF Prepared, WellFormed
<1>5. DOMAIN states \subseteq Nat \ {0}
  BY DEF Prepared, IsMap
<1> HIDE DEF fresh, Id
<1> QED
  <2>1. \A i \in DOMAIN plan : Id(i) \in Nat \ {0}
    BY <1>1, <1>3, <1>5
  <2>2. \A i, j \in DOMAIN plan : Id(i) = Id(j) => i = j
    BY <1>1, <1>3, <1>4
  <2> QED
    BY <1>1, <2>1, <2>2 DEF fresh, Id

\* What a link of an accepted plan leads to: the issue of its number, which is there, or
\* the issue of the entry of its key.
LEMMA LinksLeadSomewhere ==
    ASSUME NEW plan, NEW states, NEW cnt, Prepared(plan, states, cnt),
           NEW i \in DOMAIN plan, NEW ref \in plan[i].blocked \cup {plan[i].parent}
    PROVE  /\ ref.key = NoKey => Resolve(plan, states, cnt, ref) = ref.id
           /\ ref.key # NoKey => \E j \in DOMAIN plan :
                 /\ plan[j].key = ref.key
                 /\ Resolve(plan, states, cnt, ref) = IdAt(plan, states, cnt, j)
           /\ Resolve(plan, states, cnt, ref) \in Nat
           /\ ref \in plan[i].blocked => Resolve(plan, states, cnt, ref) \in Nat \ {0}
<1>1. ref \in Links \cup {[key |-> NoKey, id |-> 0]} /\ plan[i].blocked \subseteq Links
  <2>1. plan[i] \in Entries
    BY EntriesAre
  <2>2. plan[i].blocked \subseteq Links /\ plan[i].parent \in Links \cup {[key |-> NoKey, id |-> 0]}
    BY <2>1 DEF Entries
  <2> QED
    BY <2>2
<1>2. Resolves(plan, states, ref)
  BY DEF Prepared, Accepts
<1>3. ref.id \in Nat
  BY <1>1 DEF Links
<1>4. ref \in Links /\ ref.key = NoKey => ref.id \in Nat \ {0}
  BY GraphAssumption DEF Links
<1>5. ref.key # NoKey => \E j \in DOMAIN plan :
         plan[j].key = ref.key /\ Resolve(plan, states, cnt, ref) = IdAt(plan, states, cnt, j)
  BY <1>2 DEF Resolve, Resolves
<1>6. ref.key = NoKey => Resolve(plan, states, cnt, ref) = ref.id
  BY DEF Resolve
<1>7. \A j \in DOMAIN plan : IdAt(plan, states, cnt, j) \in Nat \ {0}
  BY IdsAreTheirOwn
<1> QED
  BY <1>1, <1>3, <1>4, <1>5, <1>6, <1>7

\* What an entry asks for has the shape of an issue.
LEMMA DesiredIs ==
    ASSUME NEW plan, NEW states, NEW cnt, Prepared(plan, states, cnt), NEW i \in DOMAIN plan
    PROVE  LET want == Desired(plan, states, cnt, i) IN
           /\ want.key = plan[i].key /\ want.key \in Keys
           /\ want.parent = Resolve(plan, states, cnt, plan[i].parent)
           /\ want.blocked = ResolveAll(plan, states, cnt, plan[i].blocked)
           /\ want.parent \in Nat /\ want.blocked \subseteq Nat \ {0} /\ want.open \in BOOLEAN
           /\ plan[i].state # "" => want.open = (plan[i].state = "open")
<1> DEFINE want == Desired(plan, states, cnt, i)
<1>1. /\ want.key = plan[i].key
      /\ want.parent = Resolve(plan, states, cnt, plan[i].parent)
      /\ want.blocked = ResolveAll(plan, states, cnt, plan[i].blocked)
      /\ want.open = IF plan[i].state # "" THEN plan[i].state = "open"
                     ELSE IF i \in FreshIn(plan, states) THEN TRUE
                     ELSE states[Holder(states, plan[i].key)].open
  BY DEF Desired
<1> DEFINE links == plan[i].blocked \cup {plan[i].parent}
<1> HIDE DEF want
<1>2. \A ref \in links :
         /\ Resolve(plan, states, cnt, ref) \in Nat
         /\ ref \in plan[i].blocked => Resolve(plan, states, cnt, ref) \in Nat \ {0}
  BY LinksLeadSomewhere
<1>3. want.parent \in Nat
  BY <1>1, <1>2
<1>4. want.blocked \subseteq Nat \ {0}
  <2>1. \A ref \in plan[i].blocked : Resolve(plan, states, cnt, ref) \in Nat \ {0}
    BY <1>2
  <2> HIDE DEF links
  <2> QED
    BY <1>1, <2>1 DEF ResolveAll
<1>5. ASSUME i \notin FreshIn(plan, states)
      PROVE  states[Holder(states, plan[i].key)].open \in BOOLEAN
  <2>1. Holder(states, plan[i].key) \in DOMAIN states
    BY <1>5, EntriesAre
  <2>2. states[Holder(states, plan[i].key)] \in Issues
    BY <2>1 DEF Prepared, IsMap
  <2> QED
    BY <2>2 DEF Issues, IssuesWith
<1>6. want.open \in BOOLEAN
  <2>1. CASE plan[i].state # ""
    BY <2>1, <1>1
  <2>2. CASE plan[i].state = "" /\ i \in FreshIn(plan, states)
    BY <2>2, <1>1
  <2>3. CASE plan[i].state = "" /\ i \notin FreshIn(plan, states)
    <3>1. want.open = states[Holder(states, plan[i].key)].open
      BY <2>3, <1>1
    <3> QED
      BY <2>3, <3>1, <1>5
  <2> QED
    BY <2>1, <2>2, <2>3
<1>7. want.key \in Keys
  BY <1>1, EntriesAre
<1>8. plan[i].state # "" => want.open = (plan[i].state = "open")
  BY <1>1
<1> QED
  BY <1>1, <1>3, <1>4, <1>6, <1>7, <1>8 DEF want

\* The events of an entry are its call's, and a fresh entry has one.
LEMMA EventsAre ==
    ASSUME NEW plan, NEW states, NEW want, NEW by \in CallIds, NEW i
    PROVE  LET events == EventsFor(plan, states, i, want, by) IN
           /\ events \in Seq(Events)
           /\ \A j \in DOMAIN events : events[j].by = by
           /\ i \in FreshIn(plan, states) => events # <<>>
<1> DEFINE old == states[Holder(states, plan[i].key)]
           Ev(kind) == <<[by |-> by, kind |-> kind]>>
           kinds == {"issue.created", "issue.updated", "issue.close", "issue.reopen"}
           one == IF i \in FreshIn(plan, states) THEN Ev("issue.created")
                  ELSE IF old.parent # want.parent \/ old.blocked # want.blocked
                  THEN Ev("issue.updated") ELSE <<>>
           two == IF want.open = (IF i \in FreshIn(plan, states) THEN TRUE ELSE old.open)
                  THEN <<>> ELSE Ev(IF want.open THEN "issue.reopen" ELSE "issue.close")
           Ours == {e \in Events : e.by = by}
<1>1. EventsFor(plan, states, i, want, by) = one \o two
  BY DEF EventsFor
<1>2. \A kind \in kinds : Ev(kind) \in Seq(Ours) /\ Len(Ev(kind)) = 1
  <2>1. \A kind \in kinds : [by |-> by, kind |-> kind] \in Ours
    BY DEF Events
  <2> HIDE DEF Ours
  <2> QED
    BY <2>1
<1>3. <<>> \in Seq(Ours)
  OBVIOUS
<1> HIDE DEF Ev, Ours
<1>4. one \in Seq(Ours) /\ (i \in FreshIn(plan, states) => Len(one) = 1)
  BY <1>2, <1>3
<1>5. two \in Seq(Ours)
  BY <1>2, <1>3
<1> HIDE DEF one, two
<1>6. /\ one \o two \in Seq(Ours)
      /\ Len(one \o two) = Len(one) + Len(two)
  BY <1>4, <1>5
<1>7. Len(one) \in Nat /\ Len(two) \in Nat
  BY <1>4, <1>5
<1>8. i \in FreshIn(plan, states) => one \o two # <<>>
  BY <1>4, <1>6, <1>7
<1> DEFINE events == one \o two
<1> HIDE DEF events
<1>9. events \in Seq(Events) /\ \A j \in DOMAIN events : events[j].by = by
  <2>1. events \in Seq(Ours)
    BY <1>6 DEF events
  <2>2. \A j \in DOMAIN events : events[j] \in Ours
    BY <2>1
  <2>3. Ours \subseteq Events
    BY DEF Ours
  <2>4. events \in Seq(Events)
    BY <2>1, <2>3
  <2> QED
    BY <2>2, <2>4 DEF Ours
<1> QED
  BY <1>1, <1>8, <1>9 DEF events

\* A log that only call by has added to.
Grown(old, new, by) ==
    /\ new \in Seq(Events)
    /\ DOMAIN old \subseteq DOMAIN new
    /\ \A j \in DOMAIN old : new[j] = old[j]
    /\ \A j \in DOMAIN new \ DOMAIN old : new[j].by = by

LEMMA AppendingGrows ==
    ASSUME NEW old \in Seq(Events), NEW by, NEW events \in Seq(Events),
           \A j \in DOMAIN events : events[j].by = by
    PROVE  /\ Grown(old, old \o events, by)
           /\ old # <<>> \/ events # <<>> => old \o events # <<>>
<1>1. old \o events \in Seq(Events) /\ Len(old \o events) = Len(old) + Len(events)
  OBVIOUS
<1>2. \A j \in 1..Len(old) : (old \o events)[j] = old[j]
  OBVIOUS
<1>3. ASSUME NEW j \in 1..Len(old) + Len(events), j \notin 1..Len(old)
      PROVE  (old \o events)[j].by = by
  <2>1. (old \o events)[j] = events[j - Len(old)] /\ j - Len(old) \in DOMAIN events
    BY <1>3
  <2> QED
    BY <2>1
<1>4. DOMAIN old = 1..Len(old) /\ DOMAIN (old \o events) = 1..Len(old \o events)
      /\ Len(old) \in Nat /\ Len(events) \in Nat
  BY <1>1
<1> DEFINE new == old \o events
<1> HIDE DEF new
<1>5. DOMAIN old \subseteq DOMAIN new
  BY <1>1, <1>4 DEF new
<1>6. Grown(old, new, by)
  BY <1>1, <1>2, <1>3, <1>4, <1>5 DEF Grown, new
<1>7. old # <<>> \/ events # <<>> => Len(old) + Len(events) # 0
  BY <1>4
<1>8. old # <<>> \/ events # <<>> => new # <<>>
  BY <1>1, <1>7 DEF new
<1> QED
  BY <1>6, <1>8 DEF new

\* What a plan makes of the issues: an entry's issue is as its entry asks, with the events
\* of the call on its log, and every other issue is as it was.
IdsOf(plan, states, cnt) == {IdAt(plan, states, cnt, i) : i \in DOMAIN plan}
LogBefore(states, n) == IF n \in DOMAIN states THEN states[n].log ELSE <<>>
MadeBy(plan, states, cnt, by, made) ==
    /\ IsMap(made, Issues)
    /\ DOMAIN made = DOMAIN states \cup IdsOf(plan, states, cnt)
    /\ \A i \in DOMAIN plan :
          LET n == IdAt(plan, states, cnt, i)
              want == Desired(plan, states, cnt, i)
          IN  /\ made[n].key = plan[i].key /\ made[n].parent = want.parent
              /\ made[n].blocked = want.blocked /\ made[n].open = want.open
    /\ \A n \in DOMAIN states \ IdsOf(plan, states, cnt) : made[n] = states[n]
    /\ \A n \in DOMAIN made : Grown(LogBefore(states, n), made[n].log, by)

LEMMA PlannedIs ==
    ASSUME NEW plan, NEW states, NEW cnt, Prepared(plan, states, cnt), NEW by \in CallIds
    PROVE  MadeBy(plan, states, cnt, by, Planned(plan, states, cnt, by))
<1> DEFINE Id(i) == IdAt(plan, states, cnt, i)
           Want(i) == Desired(plan, states, cnt, i)
           ids == {Id(i) : i \in DOMAIN plan}
           at == [n \in ids |-> CHOOSE i \in DOMAIN plan : Id(i) = n]
           Evs(i) == EventsFor(plan, states, i, Want(i), by)
           old(n) == IF n \in DOMAIN states THEN states[n].log ELSE <<>>
           made == Planned(plan, states, cnt, by)
           new == [n \in ids |->
                     [key |-> Want(at[n]).key, parent |-> Want(at[n]).parent,
                      blocked |-> Want(at[n]).blocked, open |-> Want(at[n]).open,
                      log |-> old(n) \o Evs(at[n])]]
<1>1. made = Over(new, states)
  BY DEF Planned
<1> HIDE DEF made
<1>2. /\ \A i \in DOMAIN plan : Id(i) \in Nat \ {0}
      /\ \A i, j \in DOMAIN plan : Id(i) = Id(j) => i = j
      /\ \A i \in DOMAIN plan \ FreshIn(plan, states) : Id(i) \in DOMAIN states
  BY IdsAreTheirOwn
<1>3. \A i \in DOMAIN plan : Id(i) \in ids /\ at[Id(i)] = i
  <2> HIDE DEF Id
  <2> QED
    BY <1>2
<1>4. \A i \in DOMAIN plan :
         /\ Want(i).key = plan[i].key /\ Want(i).key \in Keys
         /\ Want(i).parent \in Nat /\ Want(i).blocked \subseteq Nat \ {0}
         /\ Want(i).open \in BOOLEAN
  <2> SUFFICES ASSUME NEW i \in DOMAIN plan
               PROVE  /\ Want(i).key = plan[i].key /\ Want(i).key \in Keys
                      /\ Want(i).parent \in Nat /\ Want(i).blocked \subseteq Nat \ {0}
                      /\ Want(i).open \in BOOLEAN
    OBVIOUS
  <2> HIDE DEF Evs, old, new, at, ids, Id
  <2>1. Want(i).key = plan[i].key
    BY DEF Desired
  <2>2. Want(i).key \in Keys
    BY DesiredIs
  <2>3. Want(i).parent \in Nat
    BY DesiredIs
  <2>4. Want(i).blocked \subseteq Nat \ {0}
    BY DesiredIs
  <2>5. Want(i).open \in BOOLEAN
    BY DesiredIs
  <2> QED
    BY <2>1, <2>2, <2>3, <2>4, <2>5
<1>5. \A i \in DOMAIN plan :
         /\ Evs(i) \in Seq(Events) /\ \A j \in DOMAIN Evs(i) : Evs(i)[j].by = by
         /\ i \in FreshIn(plan, states) => Evs(i) # <<>>
  BY EventsAre
<1>6. \A n \in DOMAIN states : states[n] \in Issues
  BY DEF Prepared, IsMap
<1>7. \A n \in DOMAIN states : states[n].log \in Seq(Events) /\ states[n].log # <<>>
  BY <1>6 DEF Issues, IssuesWith
<1>8. \A n : old(n) \in Seq(Events)
  BY <1>7
<1>9. \A n \in DOMAIN states : old(n) = states[n].log /\ old(n) # <<>>
  BY <1>7
<1> HIDE DEF Evs, old, Id, Want
<1>10. \A i \in DOMAIN plan :
          /\ Grown(old(Id(i)), old(Id(i)) \o Evs(i), by)
          /\ old(Id(i)) \o Evs(i) # <<>>
  <2> SUFFICES ASSUME NEW i \in DOMAIN plan
               PROVE  /\ Grown(old(Id(i)), old(Id(i)) \o Evs(i), by)
                      /\ old(Id(i)) \o Evs(i) # <<>>
    OBVIOUS
  <2>1. old(Id(i)) \in Seq(Events) /\ Evs(i) \in Seq(Events)
        /\ \A j \in DOMAIN Evs(i) : Evs(i)[j].by = by
    BY <1>5, <1>8
  <2>2. old(Id(i)) # <<>> \/ Evs(i) # <<>>
    BY <1>2, <1>5, <1>9
  <2> QED
    BY <2>1, <2>2, AppendingGrows
<1>11. \A i \in DOMAIN plan :
          new[Id(i)] = [key |-> Want(i).key, parent |-> Want(i).parent,
                        blocked |-> Want(i).blocked, open |-> Want(i).open,
                        log |-> old(Id(i)) \o Evs(i)]
  <2> HIDE DEF ids, at
  <2> QED
    BY <1>3
<1>12. DOMAIN new = ids
  OBVIOUS
<1> HIDE DEF new, at
<1>13. \A i \in DOMAIN plan : new[Id(i)] \in Issues
  <2> SUFFICES ASSUME NEW i \in DOMAIN plan
               PROVE  new[Id(i)] \in Issues
    OBVIOUS
  <2> DEFINE log == old(Id(i)) \o Evs(i)
  <2>1. log \in Seq(Events) \ {<<>>}
    BY <1>10 DEF Grown
  <2>2. new[Id(i)] = [key |-> Want(i).key, parent |-> Want(i).parent,
                      blocked |-> Want(i).blocked, open |-> Want(i).open, log |-> log]
    BY <1>11
  <2> HIDE DEF log
  <2> QED
    BY <1>4, <2>1, <2>2 DEF Issues, IssuesWith
<1>14. ids \subseteq Nat \ {0}
  BY <1>2
<1>15. new = [n \in ids |-> new[n]]
  BY DEF new
<1>16. IsMap(new, Issues) /\ IsMap(states, Issues)
  BY <1>12, <1>13, <1>14, <1>15 DEF IsMap, Prepared, ids
<1>17. /\ IsMap(made, Issues)
       /\ DOMAIN made = ids \cup DOMAIN states
       /\ \A n \in ids : made[n] = new[n]
       /\ \A n \in DOMAIN states \ ids : made[n] = states[n]
  <2> HIDE DEF ids
  <2>1. DOMAIN Over(new, states) = DOMAIN new \cup DOMAIN states
    BY <1>16, OverIs
  <2>2. IsMap(Over(new, states), Issues)
    BY <1>16, OverIs
  <2>3. \A n \in DOMAIN new : Over(new, states)[n] = new[n]
    BY DEF Over
  <2>4. \A n \in DOMAIN states \ DOMAIN new : Over(new, states)[n] = states[n]
    BY DEF Over
  <2> QED
    BY <1>1, <1>12, <2>1, <2>2, <2>3, <2>4
<1>18. \A i \in DOMAIN plan :
          /\ made[Id(i)].key = plan[i].key
          /\ made[Id(i)].parent = Want(i).parent
          /\ made[Id(i)].blocked = Want(i).blocked
          /\ made[Id(i)].open = Want(i).open
          /\ made[Id(i)].log = old(Id(i)) \o Evs(i)
  <2> SUFFICES ASSUME NEW i \in DOMAIN plan
               PROVE  /\ made[Id(i)].key = plan[i].key
                      /\ made[Id(i)].parent = Want(i).parent
                      /\ made[Id(i)].blocked = Want(i).blocked
                      /\ made[Id(i)].open = Want(i).open
                      /\ made[Id(i)].log = old(Id(i)) \o Evs(i)
    OBVIOUS
  <2>1. made[Id(i)] = new[Id(i)]
    BY <1>17
  <2>2. Want(i).key = plan[i].key
    BY <1>4
  <2> DEFINE log == old(Id(i)) \o Evs(i)
  <2>3. new[Id(i)] = [key |-> Want(i).key, parent |-> Want(i).parent,
                      blocked |-> Want(i).blocked, open |-> Want(i).open, log |-> log]
    BY <1>11
  <2> HIDE DEF log
  <2>4. /\ made[Id(i)].key = plan[i].key
        /\ made[Id(i)].parent = Want(i).parent
        /\ made[Id(i)].blocked = Want(i).blocked
        /\ made[Id(i)].open = Want(i).open
        /\ made[Id(i)].log = log
    BY <2>1, <2>2, <2>3
  <2> QED
    BY <2>4 DEF log
<1>19. \A n \in DOMAIN made : Grown(old(n), made[n].log, by)
  <2> SUFFICES ASSUME NEW n \in DOMAIN made
               PROVE  Grown(old(n), made[n].log, by)
    OBVIOUS
  <2>1. CASE n \in ids
    BY <2>1, <1>10, <1>18 DEF ids
  <2>2. CASE n \notin ids
    <3>1. n \in DOMAIN states /\ made[n] = states[n]
      BY <2>2, <1>17
    <3> QED
      BY <3>1, <1>7, <1>9 DEF Grown
  <2> QED
    BY <2>1, <2>2
<1>20. DOMAIN made = DOMAIN states \cup ids
  BY <1>17
<1>21. /\ ids = IdsOf(plan, states, cnt)
       /\ \A i \in DOMAIN plan :
             Id(i) = IdAt(plan, states, cnt, i) /\ Want(i) = Desired(plan, states, cnt, i)
       /\ \A n : old(n) = LogBefore(states, n)
  BY DEF ids, Id, Want, old, IdsOf, LogBefore
<1> HIDE DEF ids
<1>22. MadeBy(plan, states, cnt, by, made)
  BY <1>17, <1>18, <1>19, <1>20, <1>21 DEF MadeBy
<1> QED
  BY <1>22 DEF made

\* A plan leaves every key to one issue.
LEMMA PlannedKeysAreUnique ==
    ASSUME NEW plan, NEW states, NEW cnt, Prepared(plan, states, cnt), NEW by \in CallIds
    PROVE  KeysAreUnique(Planned(plan, states, cnt, by))
<1> DEFINE Id(i) == IdAt(plan, states, cnt, i)
           ids == {Id(i) : i \in DOMAIN plan}
           made == Planned(plan, states, cnt, by)
<1>1. /\ DOMAIN made = DOMAIN states \cup ids
      /\ \A i \in DOMAIN plan : made[Id(i)].key = plan[i].key
      /\ \A n \in DOMAIN states \ ids : made[n] = states[n]
  <2>1. MadeBy(plan, states, cnt, by, made)
    BY PlannedIs
  <2> HIDE DEF made
  <2> QED
    BY <2>1 DEF MadeBy, IdsOf
<1>2. \A i \in DOMAIN plan \ FreshIn(plan, states) :
         Id(i) \in DOMAIN states /\ states[Id(i)].key = plan[i].key
  BY IdsAreTheirOwn
<1>3. \A i, j \in DOMAIN plan : plan[i].key = plan[j].key => i = j
  BY DEF Prepared, WellFormed
<1>4. \A m, n \in DOMAIN states : states[m].key = states[n].key /\ states[m].key # NoKey => m = n
  BY EntriesAre DEF KeysAreUnique
<1>5. \A i \in DOMAIN plan : \A n \in DOMAIN states :
         states[n].key = plan[i].key => i \notin FreshIn(plan, states)
  BY DEF FreshIn, HasKey
<1>6. \A i \in DOMAIN plan : plan[i].key # NoKey
  BY EntriesAre, GraphAssumption
<1> HIDE DEF Id, made
<1>7. \A i \in DOMAIN plan : \A n \in DOMAIN states \ ids : states[n].key # plan[i].key
  <2> SUFFICES ASSUME NEW i \in DOMAIN plan, NEW n \in DOMAIN states, states[n].key = plan[i].key
               PROVE  n \in ids
    OBVIOUS
  <2>1. Id(i) \in DOMAIN states /\ states[Id(i)].key = states[n].key
    BY <1>2, <1>5
  <2>2. n = Id(i)
    BY <1>4, <1>6, <2>1
  <2> QED
    BY <2>2
<1>8. ASSUME NEW m \in DOMAIN made, NEW n \in DOMAIN made,
             made[m].key = made[n].key, made[m].key # NoKey
      PROVE  m = n
  <2>1. CASE m \in ids /\ n \in ids
    <3>1. PICK i \in DOMAIN plan : m = Id(i)
      BY <2>1
    <3>2. PICK j \in DOMAIN plan : n = Id(j)
      BY <2>1
    <3> QED
      BY <1>1, <1>3, <1>8, <3>1, <3>2
  <2>2. CASE m \notin ids /\ n \notin ids
    BY <1>1, <1>4, <1>8, <2>2
  <2>3. CASE m \in ids /\ n \notin ids
    <3>1. PICK i \in DOMAIN plan : m = Id(i)
      BY <2>3
    <3>2. n \in DOMAIN states \ ids /\ made[n] = states[n]
      BY <1>1, <2>3
    <3> QED
      BY <1>1, <1>7, <1>8, <3>1, <3>2
  <2>4. CASE m \notin ids /\ n \in ids
    <3>1. PICK i \in DOMAIN plan : n = Id(i)
      BY <2>4
    <3>2. m \in DOMAIN states \ ids /\ made[m] = states[m]
      BY <1>1, <2>4
    <3> QED
      BY <1>1, <1>7, <1>8, <3>1, <3>2
  <2> QED
    BY <2>1, <2>2, <2>3, <2>4
<1>9. KeysAreUnique(made)
  BY <1>8 DEF KeysAreUnique
<1> QED
  BY <1>9 DEF made

\* The graph that prepare validated is that of the issues that are written.
LEMMA PlannedGraphIsValid ==
    ASSUME NEW plan, NEW states, NEW cnt, Prepared(plan, states, cnt), NEW by
    PROVE  ValidGraph(Planned(plan, states, cnt, by))
<1> DEFINE one == Planned(plan, states, cnt, <<>>)
           two == Planned(plan, states, cnt, by)
<1>1. ValidGraph(one)
  BY DEF Prepared, Accepts
<1>2. DOMAIN one = DOMAIN two
  BY DEF Planned, Over
<1>3. \A n \in DOMAIN one : one[n].parent = two[n].parent /\ one[n].blocked = two[n].blocked
  BY ZenonT(60) DEF Planned, Over
<1> HIDE DEF one, two
<1>4. ValidGraph(two)
  BY ONLY <1>1, <1>2, <1>3, LinksDecideTheGraph
<1> QED
  BY <1>4 DEF two

\* Every entry of a plan is satisfied by the issues that the plan makes.
LEMMA PlannedSatisfies ==
    ASSUME NEW plan, NEW states, NEW cnt, Prepared(plan, states, cnt), NEW by \in CallIds,
           NEW i \in DOMAIN plan
    PROVE  Satisfied(plan[i], Planned(plan, states, cnt, by))
<1> DEFINE Id(j) == IdAt(plan, states, cnt, j)
           made == Planned(plan, states, cnt, by)
           n == Id(i)
           Target(ref) == Resolve(plan, states, cnt, ref)
           NameIs(m, ref) == IF ref.key = NoKey THEN m = ref.id
                             ELSE m \in DOMAIN made /\ made[m].key = ref.key
<1>0. MadeBy(plan, states, cnt, by, made)
  BY PlannedIs
<1>1. \A j \in DOMAIN plan : Id(j) \in DOMAIN made /\ made[Id(j)].key = plan[j].key
  <2> HIDE DEF made
  <2> QED
    BY <1>0 DEF MadeBy, IdsOf
<1>2. /\ made[n].parent = Desired(plan, states, cnt, i).parent
      /\ made[n].blocked = Desired(plan, states, cnt, i).blocked
      /\ made[n].open = Desired(plan, states, cnt, i).open
  <2> HIDE DEF made
  <2> QED
    BY <1>0 DEF MadeBy
<1>3. /\ made[n].parent = Target(plan[i].parent)
      /\ made[n].blocked = {Target(ref) : ref \in plan[i].blocked}
  <2> HIDE DEF made, n
  <2> QED
    BY <1>2 DEF Desired, ResolveAll
<1>4. plan[i].state # "" => made[n].open = (plan[i].state = "open")
  <2> HIDE DEF made, n
  <2> QED
    BY <1>2 DEF Desired
<1>5. \A ref \in plan[i].blocked \cup {plan[i].parent} :
         /\ ref.key = NoKey => Target(ref) = ref.id
         /\ ref.key # NoKey => \E j \in DOMAIN plan : plan[j].key = ref.key /\ Target(ref) = Id(j)
  <2> HIDE DEF made, n
  <2> QED
    BY LinksLeadSomewhere
<1>6. Cardinality({Target(ref) : ref \in plan[i].blocked}) = Cardinality(plan[i].blocked)
  BY DEF Prepared, Accepts, ResolveAll
<1> HIDE DEF Target, Id, made
<1>7. \A ref \in plan[i].blocked \cup {plan[i].parent} : NameIs(Target(ref), ref)
  BY <1>1, <1>5
<1>8. n \in DOMAIN made /\ made[n].key = plan[i].key
  BY <1>1
<1>9. NameIs(made[n].parent, plan[i].parent)
  BY <1>3, <1>7
<1>10. \A ref \in plan[i].blocked : \E m \in made[n].blocked : NameIs(m, ref)
  <2> SUFFICES ASSUME NEW ref \in plan[i].blocked
               PROVE  \E m \in made[n].blocked : NameIs(m, ref)
    OBVIOUS
  <2>1. Target(ref) \in made[n].blocked
    BY <1>3
  <2>2. NameIs(Target(ref), ref)
    BY <1>7
  <2> QED
    BY <2>1, <2>2
<1>11. Cardinality(made[n].blocked) = Cardinality(plan[i].blocked)
  BY <1>3, <1>6
<1> HIDE DEF n
<1>12. Satisfied(plan[i], made)
  BY <1>4, <1>8, <1>9, <1>10, <1>11 DEF Satisfied
<1> QED
  BY <1>12 DEF made

----------------------------------------------------------------------------
(***************************************************************************)
(* The invariant of the store: the types, what each process knows at each  *)
(* step, and what the refs always satisfy.  A process that has read the    *)
(* counter knows the ids in use for as long as the counter stays where it  *)
(* was, because every allocation moves it.                                 *)
(***************************************************************************)
KeyNames == KeyedOps \X Keys
Bindings == [request : Commands, id : Nat \ {0}]
Snapshots == UNION {[D -> Issues] : D \in SUBSET (Nat \ {0})}
Pcs == {"idle", "recheck", "done", "exists", "counter", "names", "issues", "batch", "claim",
        "failed", "branch", "alloc", "create", "tip", "append"}
Process == [pc : Pcs, cnt : Nat, left : SUBSET (Nat \ {0}), snap : Snapshots,
            log : Seq(Events), tries : Nat, rounds : Nat,
            why : {"", "rejected", "locked", "fault"}, id : Nat, misled : BOOLEAN]
Replies == [by : CallIds, call : Commands, how : {"ok", "conflict", "refused"}, id : Nat,
            misled : BOOLEAN]

Typed ==
    /\ counter \in Nat
    /\ IsMap(issues, Issues) /\ IsMap(prs, Seq(Events))
    /\ records \in [DOMAIN records -> Bindings] /\ DOMAIN records \subseteq KeyNames
    /\ branches \in BOOLEAN
    /\ proc \in [Actors -> Process] /\ todo \in [Actors -> Seq(Commands)]
    /\ answers \subseteq Replies

\* Each process is at a step of its own command, on an issue that exists.
Appending == {"comment", "close", "reopen"}
Fits(a) ==
    /\ ~At(a, "idle") => todo[a] # <<>>
    /\ proc[a].pc \in {"counter", "names", "issues", "batch"} => Call(a).op \in {"new", "apply"}
    /\ proc[a].pc \in {"branch", "alloc", "create"} => Call(a).op = "pr"
    /\ At(a, "exists") => Call(a).op \in Appending \cup {"pr"}
    /\ proc[a].pc \in {"tip", "append"} => Call(a).op \in Appending
    /\ proc[a].pc \in {"tip", "append", "claim", "failed"} /\ Call(a).op \in Appending =>
          Call(a).id \in DOMAIN issues
    /\ proc[a].pc \in {"claim", "recheck"} => Keyed(Call(a))

\* What a process has read is still so unless the counter or an issue has changed.
Looked(a) ==
    LET p == proc[a]
        still == counter = p.cnt
    IN  /\ p.cnt <= counter
        /\ p.left \subseteq DOMAIN issues
        /\ At(a, "names") => DOMAIN p.snap = {}
        /\ At(a, "issues") /\ still => p.left \cup DOMAIN p.snap = DOMAIN issues
        /\ At(a, "batch") /\ still => DOMAIN p.snap = DOMAIN issues
        /\ At(a, "batch") => SnapshotOk(p, Call(a))
        /\ At(a, "create") => Allocates(p.cnt, 1)

StoreInv ==
    /\ Typed
    /\ \A a \in Actors : Fits(a) /\ Looked(a)
    /\ AllocationSound /\ GraphSound /\ KeysAreUnique(issues)

LEMMA SnapshotsAre ==
    ASSUME NEW f
    PROVE  f \in Snapshots <=> IsMap(f, Issues)
BY DEF Snapshots, IsMap

\* The command that a process runs, and its name.
LEMMA CallIs ==
    ASSUME NEW a \in Actors, todo \in [Actors -> Seq(Commands)], todo[a] # <<>>
    PROVE  /\ Call(a) \in Commands /\ Len(todo[a]) \in Nat \ {0}
           /\ Tail(todo[a]) \in Seq(Commands) /\ Len(Tail(todo[a])) = Len(todo[a]) - 1
           /\ Call(a).op \in KeyedOps \cup {"close", "reopen", "apply"}
           /\ Call(a).key \in Keys \cup {NoKey} /\ Call(a).id \in Nat
           /\ Call(a).parent \in Nat /\ Call(a).blocked \subseteq Nat \ {0}
           /\ Keyed(Call(a)) => Call(a).op \in KeyedOps /\ RecordName(Call(a)) \in KeyNames
           /\ Call(a).op = "apply" => WellFormed(Call(a).plan)
           /\ CallId(a) \in CallIds
           /\ CallId(a) = [shell |-> a, left |-> Len(todo[a]), name |-> RecordName(Call(a))]
<1>1. todo[a] \in Seq(Commands)
  OBVIOUS
<1>2. /\ Head(todo[a]) \in Commands /\ Len(todo[a]) \in Nat \ {0}
      /\ Tail(todo[a]) \in Seq(Commands) /\ Len(Tail(todo[a])) = Len(todo[a]) - 1
  <2> DEFINE s == todo[a]
  <2>1. s \in Seq(Commands) /\ s # <<>>
    OBVIOUS
  <2> HIDE DEF s
  <2>2. /\ Head(s) \in Commands /\ Len(s) \in Nat \ {0}
        /\ Tail(s) \in Seq(Commands) /\ Len(Tail(s)) = Len(s) - 1
    BY <2>1
  <2> QED
    BY <2>2 DEF s
<1> DEFINE c == Call(a)
<1>3. c \in Commands
  BY <1>2 DEF Call
<1> HIDE DEF c
<1>4. /\ c.op \in KeyedOps \cup {"close", "reopen", "apply"}
      /\ c.key \in Keys \cup {NoKey} /\ c.id \in Nat
      /\ c.parent \in Nat /\ c.blocked \subseteq Nat \ {0}
      /\ c.key # NoKey => c.op \in KeyedOps
      /\ c.op = "apply" => WellFormed(c.plan)
  BY <1>3 DEF Commands
<1>5. Keyed(c) => c.op \in KeyedOps /\ RecordName(c) \in KeyNames
  BY <1>4 DEF Keyed, RecordName, KeyNames
<1>6. RecordName(c) \in (KeyedOps \cup {"close", "reopen", "apply"}) \X (Keys \cup {NoKey})
  BY <1>4 DEF RecordName
<1>7. CallId(a) = [shell |-> a, left |-> Len(todo[a]), name |-> RecordName(c)]
  BY DEF CallId, c
<1>8. CallId(a) \in CallIds
  BY <1>2, <1>6, <1>7 DEF CallIds
<1> QED
  BY <1>2, <1>3, <1>4, <1>5, <1>7, <1>8 DEF c

\* An event of the process's is an event.
LEMMA EventsOf ==
    ASSUME NEW a \in Actors, todo \in [Actors -> Seq(Commands)], todo[a] # <<>>,
           NEW kind \in {"issue.created", "issue.close", "issue.reopen", "issue.comment",
                         "pr.created"}
    PROVE  EventOf(a, kind) \in Events /\ EventOf(a, kind).by = CallId(a)
BY CallIs DEF EventOf, Events

----------------------------------------------------------------------------
(* The steps that change no ref. *)

\* A process changes its memory, and nothing else changes.
Thinks(a, p) == refs' = refs /\ Becomes(a, p)

LEMMA OtherProcesses ==
    ASSUME Typed, NEW a \in Actors, NEW p, proc' = [proc EXCEPT ![a] = p]
    PROVE  proc'[a] = p /\ \A b \in Actors \ {a} : proc'[b] = proc[b]
BY DEF Typed

\* A process that only thinks keeps the invariant if what it then has in memory is right.
LEMMA ThinkingKeeps ==
    ASSUME StoreInv, NEW a \in Actors, NEW p \in Process, Thinks(a, p), Fits(a)', Looked(a)'
    PROVE  StoreInv'
<1>1. /\ counter' = counter /\ issues' = issues /\ prs' = prs /\ records' = records
      /\ branches' = branches /\ todo' = todo /\ answers' = answers
      /\ proc' = [proc EXCEPT ![a] = p]
  BY DEF Thinks, Becomes, refs
<1>2. Typed
  BY DEF StoreInv
<1>3. proc' \in [Actors -> Process]
  BY <1>1, <1>2 DEF Typed
<1>4. Typed'
  BY <1>1, <1>2, <1>3 DEF Typed
<1>5. ASSUME NEW b \in Actors \ {a}
      PROVE  Fits(b)' /\ Looked(b)'
  <2>1. proc'[b] = proc[b] /\ Call(b)' = Call(b)
    BY <1>1, <1>2, OtherProcesses DEF Call
  <2>2. \A pc : At(b, pc)' = At(b, pc)
    BY <2>1 DEF At
  <2>3. Fits(b) /\ Looked(b)
    BY DEF StoreInv
  <2>4. Fits(b)'
    BY <1>1, <2>1, <2>2, <2>3 DEF Fits
  <2>5. Looked(b)'
    BY <1>1, <2>1, <2>2, <2>3 DEF Looked
  <2> QED
    BY <2>4, <2>5
<1>6. AllocationSound' /\ GraphSound' /\ KeysAreUnique(issues)'
  BY <1>1 DEF StoreInv, AllocationSound, GraphSound, KeysAreUnique
<1> QED
  BY <1>4, <1>5, <1>6 DEF StoreInv

\* A process that goes to a step at which it knows nothing, where its command may be.
Free == {"recheck", "done", "exists", "counter", "claim", "failed", "branch", "alloc", "tip",
         "append"}
LEMMA MovingKeeps ==
    ASSUME StoreInv, NEW a \in Actors, todo[a] # <<>>, NEW p \in Process, Thinks(a, p),
           p.pc \in Free, p.cnt = proc[a].cnt, p.left = proc[a].left,
           p.pc = "counter" => Call(a).op \in {"new", "apply"},
           p.pc \in {"branch", "alloc"} => Call(a).op = "pr",
           p.pc = "exists" => Call(a).op \in Appending \cup {"pr"},
           p.pc \in {"tip", "append"} => Call(a).op \in Appending,
           p.pc \in {"tip", "append", "claim", "failed"} /\ Call(a).op \in Appending =>
              Call(a).id \in DOMAIN issues,
           p.pc \in {"claim", "recheck"} => Keyed(Call(a))
    PROVE  StoreInv'
<1>1. /\ counter' = counter /\ issues' = issues /\ todo' = todo
      /\ proc' = [proc EXCEPT ![a] = p]
  BY DEF Thinks, Becomes, refs
<1>2. Typed /\ Looked(a)
  BY DEF StoreInv
<1>3. proc'[a] = p /\ Call(a)' = Call(a)
  BY <1>1, <1>2, OtherProcesses DEF Call
<1>4. Fits(a)'
  BY <1>1, <1>3 DEF Fits, At, Free
<1>5. Looked(a)'
  BY <1>1, <1>2, <1>3 DEF Looked, At, Free
<1> QED
  BY <1>4, <1>5, ThinkingKeeps

\* An idle process.
LEMMA NothingIsAMap == ASSUME NEW S PROVE IsMap(<<>>, S) /\ DOMAIN <<>> = {}
<1>1. DOMAIN <<>> = {}
  OBVIOUS
<1>2. <<>> \in [DOMAIN <<>> -> S]
  OBVIOUS
<1> DEFINE nothing == <<>>
<1> HIDE DEF nothing
<1>3. IsMap(nothing, S) /\ DOMAIN nothing = {}
  BY <1>1, <1>2 DEF IsMap, nothing
<1> QED
  BY <1>3 DEF nothing

LEMMA IdleIs ==
    /\ Idle \in Process
    /\ Idle.pc = "idle" /\ Idle.cnt = 0 /\ Idle.left = {} /\ Idle.misled = FALSE
<1> DEFINE nothing == <<>>
<1>1. nothing \in Seq(Events)
  OBVIOUS
<1>2. nothing \in Snapshots
  BY NothingIsAMap, SnapshotsAre
<1>3. Idle = [pc |-> "idle", cnt |-> 0, left |-> {}, snap |-> nothing, log |-> nothing,
              tries |-> 0, rounds |-> 0, why |-> "", id |-> 0, misled |-> FALSE]
  BY DEF Idle
<1> HIDE DEF nothing
<1> QED
  BY <1>1, <1>2, <1>3 DEF Process, Pcs

\* A process that answers, or is killed, keeps the invariant.
LEMMA LeavingKeeps ==
    ASSUME StoreInv, NEW a \in Actors, todo[a] # <<>>, refs' = refs,
           proc' = [proc EXCEPT ![a] = Idle], todo' = [todo EXCEPT ![a] = Tail(@)],
           answers' \subseteq Replies
    PROVE  StoreInv'
<1>1. /\ counter' = counter /\ issues' = issues /\ prs' = prs /\ records' = records
      /\ branches' = branches
  BY DEF refs
<1>2. Typed
  BY DEF StoreInv
<1>3. Idle \in Process
  BY IdleIs
<1>4. Tail(todo[a]) \in Seq(Commands)
  BY <1>2, CallIs DEF Typed
<1>5. Typed'
  BY <1>1, <1>2, <1>3, <1>4 DEF Typed
<1>6. proc'[a] = Idle /\ \A b \in Actors \ {a} : proc'[b] = proc[b] /\ todo'[b] = todo[b]
  BY <1>2 DEF Typed
<1>7. Fits(a)' /\ Looked(a)'
  <2>1. proc'[a].pc = "idle" /\ proc'[a].cnt = 0 /\ proc'[a].left = {}
    BY <1>6, IdleIs
  <2>2. \A pc : At(a, pc)' <=> pc = "idle"
    BY <2>1 DEF At
  <2>3. counter' \in Nat
    BY <1>5 DEF Typed
  <2>4. Fits(a)'
    BY <2>1, <2>2 DEF Fits
  <2> QED
    BY <2>1, <2>2, <2>3, <2>4 DEF Looked
<1>8. ASSUME NEW b \in Actors \ {a}
      PROVE  Fits(b)' /\ Looked(b)'
  <2>1. proc'[b] = proc[b] /\ Call(b)' = Call(b) /\ todo'[b] = todo[b]
    BY <1>6 DEF Call
  <2>2. \A pc : At(b, pc)' = At(b, pc)
    BY <2>1 DEF At
  <2>3. Fits(b) /\ Looked(b)
    BY DEF StoreInv
  <2>4. Fits(b)'
    BY <1>1, <2>1, <2>2, <2>3 DEF Fits
  <2>5. Looked(b)'
    BY <1>1, <2>1, <2>2, <2>3 DEF Looked
  <2> QED
    BY <2>4, <2>5
<1>9. AllocationSound' /\ GraphSound' /\ KeysAreUnique(issues)'
  BY <1>1 DEF StoreInv, AllocationSound, GraphSound, KeysAreUnique
<1> QED
  BY <1>5, <1>7, <1>8, <1>9 DEF StoreInv

\* What a process has in memory after it moves.
LEMMA MemoryIs ==
    ASSUME NEW p \in Process, NEW pc \in Pcs
    PROVE  LET q == [p EXCEPT !.pc = pc] IN
           /\ q \in Process /\ q.pc = pc
           /\ q.cnt = p.cnt /\ q.left = p.left /\ q.snap = p.snap /\ q.log = p.log /\ q.id = p.id
           /\ q.misled = p.misled
BY DEF Process

LEMMA ProcessIs ==
    ASSUME Typed, NEW a \in Actors
    PROVE  /\ proc[a] \in Process
           /\ proc[a].pc \in Pcs /\ proc[a].cnt \in Nat /\ proc[a].left \in SUBSET (Nat \ {0})
           /\ proc[a].snap \in Snapshots /\ IsMap(proc[a].snap, Issues)
           /\ proc[a].log \in Seq(Events) /\ proc[a].tries \in Nat /\ proc[a].rounds \in Nat
           /\ proc[a].id \in Nat /\ proc[a].misled \in BOOLEAN
<1>1. proc[a] \in Process
  BY DEF Typed
<1>2. /\ proc[a].pc \in Pcs /\ proc[a].cnt \in Nat /\ proc[a].left \in SUBSET (Nat \ {0})
      /\ proc[a].snap \in Snapshots
      /\ proc[a].log \in Seq(Events) /\ proc[a].tries \in Nat /\ proc[a].rounds \in Nat
      /\ proc[a].id \in Nat /\ proc[a].misled \in BOOLEAN
  BY <1>1 DEF Process
<1> QED
  BY <1>1, <1>2, SnapshotsAre

LEMMA AnswersKeeps ==
    ASSUME StoreInv, NEW a \in Actors, todo[a] # <<>>, refs' = refs,
           NEW how \in {"ok", "conflict", "refused"}, NEW id \in Nat, Answers(a, how, id)
    PROVE  StoreInv'
<1>1. Typed
  BY DEF StoreInv
<1>2. CallId(a) \in CallIds /\ Call(a) \in Commands
  BY <1>1, CallIs DEF Typed
<1>3. [by |-> CallId(a), call |-> Call(a), how |-> how, id |-> id, misled |-> proc[a].misled]
         \in Replies
  <2>1. proc[a].misled \in BOOLEAN
    BY <1>1, ProcessIs
  <2> DEFINE m == proc[a].misled
  <2> HIDE DEF m
  <2> QED
    BY <1>2, <2>1 DEF Replies, m
<1>4. answers' \subseteq Replies
  BY <1>1, <1>3 DEF Answers, Typed
<1> QED
  BY <1>4, LeavingKeeps DEF Answers

LEMMA ResolvedKeeps ==
    ASSUME StoreInv, NEW a \in Actors, todo[a] # <<>>, refs' = refs, Recorded(Call(a)),
           Resolved(a)
    PROVE  StoreInv'
<1> DEFINE record == records[RecordName(Call(a))]
           how == IF Matches(record, Call(a)) THEN "ok" ELSE "conflict"
<1>1. record \in Bindings
  BY DEF Recorded, StoreInv, Typed
<1>2. record.id \in Nat
  BY <1>1 DEF Bindings
<1>3. Answers(a, how, record.id)
  BY DEF Resolved
<1>4. how \in {"ok", "conflict", "refused"}
  OBVIOUS
<1> HIDE DEF record, how
<1> QED
  BY <1>2, <1>3, <1>4, AnswersKeeps

LEMMA GoesKeeps ==
    ASSUME StoreInv, NEW a \in Actors, todo[a] # <<>>, refs' = refs,
           NEW pc \in Free, Goes(a, pc),
           pc = "counter" => Call(a).op \in {"new", "apply"},
           pc \in {"branch", "alloc"} => Call(a).op = "pr",
           pc = "exists" => Call(a).op \in Appending \cup {"pr"},
           pc \in {"tip", "append"} => Call(a).op \in Appending,
           pc \in {"tip", "append", "claim", "failed"} /\ Call(a).op \in Appending =>
              Call(a).id \in DOMAIN issues,
           pc \in {"claim", "recheck"} => Keyed(Call(a))
    PROVE  StoreInv'
<1> DEFINE p == [proc[a] EXCEPT !.pc = pc]
<1>1. proc[a] \in Process /\ pc \in Pcs
  BY ProcessIs DEF StoreInv, Free, Pcs
<1>2. p \in Process /\ p.pc = pc /\ p.cnt = proc[a].cnt /\ p.left = proc[a].left
  BY <1>1, MemoryIs
<1>3. Thinks(a, p)
  BY DEF Goes, Thinks
<1> HIDE DEF p
<1> QED
  BY <1>2, <1>3, MovingKeeps

LEMMA FailsKeeps ==
    ASSUME StoreInv, NEW a \in Actors, todo[a] # <<>>, refs' = refs, Fails(a)
    PROVE  StoreInv'
<1>1. CASE Keyed(Call(a))
  <2>1. Goes(a, "recheck")
    BY <1>1 DEF Fails
  <2> QED
    BY <1>1, <2>1, GoesKeeps DEF Free
<1>2. CASE ~Keyed(Call(a))
  <2>1. Answers(a, "refused", 0)
    BY <1>2 DEF Fails
  <2> QED
    BY <2>1, AnswersKeeps
<1> QED
  BY <1>1, <1>2

\* A process that is told of a failure, and one whose transaction has been applied.
NextOfFailure(a) == IF Keyed(Call(a)) THEN "claim" ELSE "failed"
TakesForFailed(a, q, why, applied) ==
    /\ q \in Process /\ Becomes(a, q)
    /\ q.pc = NextOfFailure(a) /\ q.why = why /\ (q.misled <=> proc[a].misled \/ applied)
    /\ q.cnt = proc[a].cnt /\ q.left = proc[a].left
    /\ q.tries = proc[a].tries /\ q.rounds = proc[a].rounds
LEMMA FailuresAre ==
    ASSUME Typed, NEW a \in Actors, NEW why \in {"rejected", "locked", "fault"},
           NEW applied \in BOOLEAN, ToldOfFailure(a, why, applied)
    PROVE  \E q : TakesForFailed(a, q, why, applied)
<1> DEFINE p == proc[a]
           pc == NextOfFailure(a)
           m == p.misled \/ applied
           q == [p EXCEPT !.pc = pc, !.why = why, !.misled = m]
<1>1. p \in Process /\ pc \in Pcs /\ m \in BOOLEAN
  BY DEF Typed, Pcs, NextOfFailure
<1>2. Becomes(a, q)
  BY DEF ToldOfFailure, NextOfFailure
<1>3. (m <=> p.misled \/ applied) /\ pc = NextOfFailure(a)
  OBVIOUS
<1> HIDE DEF m, pc
<1>4. /\ q \in Process /\ q.pc = pc /\ q.why = why /\ q.misled = m
      /\ q.cnt = p.cnt /\ q.left = p.left /\ q.tries = p.tries /\ q.rounds = p.rounds
  <2> HIDE DEF p
  <2> QED
    BY <1>1 DEF Process
<1> HIDE DEF q
<1>5. TakesForFailed(a, q, why, applied)
  BY <1>2, <1>3, <1>4 DEF TakesForFailed
<1> QED
  BY <1>5

LEMMA FailedTransactions ==
    ASSUME Typed, NEW a \in Actors, NEW holds, FailsUnless(a, holds)
    PROVE  /\ refs' = refs
           /\ \E q, why : TakesForFailed(a, q, why, FALSE)
<1>1. PICK why \in {"rejected", "locked", "fault"} : ToldOfFailure(a, why, FALSE)
  BY DEF FailsUnless
<1>2. \E q : TakesForFailed(a, q, why, FALSE)
  BY <1>1, FailuresAre
<1> QED
  BY <1>2 DEF FailsUnless, Reads

\* The transaction has been applied: the process knows it, or is told of a failure.
Succeeds(a, q, id) ==
    /\ (id \in Nat => q \in Process) /\ Becomes(a, q)
    /\ q.pc = "done" /\ q.id = id /\ q.misled = proc[a].misled
    /\ q.cnt = proc[a].cnt /\ q.left = proc[a].left
    /\ q.tries = proc[a].tries /\ q.rounds = proc[a].rounds
LEMMA CommitsAre ==
    ASSUME Typed, NEW a \in Actors, NEW id, Commits(a, id)
    PROVE  \E q : Succeeds(a, q, id) \/ TakesForFailed(a, q, "fault", TRUE)
<1> DEFINE p == proc[a]
           q == [p EXCEPT !.pc = "done", !.id = id]
<1>1. p \in Process
  BY DEF Typed
<1>2. CASE Becomes(a, q)
  <2>1. /\ (id \in Nat => q \in Process) /\ q.pc = "done" /\ q.id = id /\ q.misled = p.misled
        /\ q.cnt = p.cnt /\ q.left = p.left /\ q.tries = p.tries /\ q.rounds = p.rounds
    <3> HIDE DEF p
    <3> QED
      BY <1>1 DEF Process, Pcs
  <2> HIDE DEF q
  <2>2. Succeeds(a, q, id)
    BY <1>2, <2>1 DEF Succeeds
  <2> QED
    BY <2>2
<1>3. CASE ToldOfFailure(a, "fault", TRUE)
  BY <1>3, FailuresAre
<1> QED
  BY <1>2, <1>3 DEF Commits

\* A transaction that fails.
LEMMA FailureKeeps ==
    ASSUME StoreInv, NEW a \in Actors, todo[a] # <<>>, NEW holds \in BOOLEAN,
           FailsUnless(a, holds), Call(a).op \in Appending => Call(a).id \in DOMAIN issues
    PROVE  StoreInv'
<1>1. Typed
  BY DEF StoreInv
<1>2. PICK q, why : refs' = refs /\ TakesForFailed(a, q, why, FALSE)
  BY <1>1, FailedTransactions
<1>3. /\ q \in Process /\ Thinks(a, q) /\ q.cnt = proc[a].cnt /\ q.left = proc[a].left
      /\ q.pc \in {"claim", "failed"} /\ (q.pc = "claim" => Keyed(Call(a)))
  BY <1>2 DEF TakesForFailed, NextOfFailure, Thinks
<1> QED
  BY <1>3, MovingKeeps DEF Free

\* An allocation that starts again, or gives up.
LEMMA RestartsKeeps ==
    ASSUME StoreInv, NEW a \in Actors, todo[a] # <<>>, refs' = refs, Restarts(a)
    PROVE  StoreInv'
<1> DEFINE p == [proc[a] EXCEPT !.pc = "counter", !.tries = @ + 1, !.rounds = 0]
<1>1. CASE Runs(a, "new") /\ Becomes(a, p)
  <2>1. proc[a] \in Process /\ proc[a].tries + 1 \in Nat
    BY ProcessIs DEF StoreInv
  <2>2. p \in Process /\ p.pc = "counter" /\ p.cnt = proc[a].cnt /\ p.left = proc[a].left
    BY <2>1 DEF Process, Pcs
  <2>3. Thinks(a, p) /\ Call(a).op = "new"
    BY <1>1 DEF Thinks, Runs
  <2> HIDE DEF p
  <2> QED
    BY <2>2, <2>3, MovingKeeps DEF Free, Appending
<1>2. CASE Fails(a)
  BY <1>2, FailsKeeps
<1> QED
  BY <1>1, <1>2 DEF Restarts

\* The steps that every command takes.
LEMMA CommandKeeps ==
    ASSUME StoreInv, NEW a \in Actors,
           Begin(a) \/ Recheck(a) \/ Done(a) \/ Exists(a) \/ ReadClaim(a)
    PROVE  StoreInv'
<1> USE DEF Reads
<1>1. Typed /\ Fits(a) /\ proc[a].id \in Nat
  BY ProcessIs DEF StoreInv
<1>2. CASE Begin(a)
  <2>1. refs' = refs /\ todo[a] # <<>>
    BY <1>2 DEF Begin
  <2>2. CASE Replays(Call(a))
    BY <1>2, <2>1, <2>2, ResolvedKeeps DEF Begin, Replays
  <2>3. CASE ~Replays(Call(a))
    <3>1. Goes(a, FirstPc(Call(a)))
      BY <1>2, <2>3 DEF Begin
    <3>2. Call(a).op \in KeyedOps \cup {"close", "reopen", "apply"}
      BY <1>1, <2>1, CallIs DEF Typed
    <3>3. \/ Call(a).op \in {"new", "apply"} /\ FirstPc(Call(a)) = "counter"
          \/ Call(a).op = "pr" /\ FirstPc(Call(a)) \in {"branch", "exists"}
          \/ Call(a).op \in Appending /\ FirstPc(Call(a)) = "exists"
      BY <3>2 DEF FirstPc, KeyedOps, Appending
    <3> DEFINE pc == FirstPc(Call(a))
    <3> HIDE DEF pc
    <3>4. Goes(a, pc)
      BY <3>1 DEF pc
    <3>5. \/ Call(a).op \in {"new", "apply"} /\ pc = "counter"
          \/ Call(a).op = "pr" /\ pc \in {"branch", "exists"}
          \/ Call(a).op \in Appending /\ pc = "exists"
      BY <3>3 DEF pc
    <3> QED
      BY <2>1, <3>4, <3>5, GoesKeeps DEF Free, Appending
  <2> QED
    BY <2>2, <2>3
<1>3. CASE Recheck(a)
  <2>1. refs' = refs /\ todo[a] # <<>>
    BY <1>1, <1>3 DEF Recheck, Fits, At
  <2> QED
    BY <1>3, <2>1, ResolvedKeeps, AnswersKeeps DEF Recheck
<1>4. CASE Done(a)
  <2>1. refs' = refs /\ todo[a] # <<>>
    BY <1>1, <1>4 DEF Done, Fits, At
  <2> QED
    BY <1>1, <1>4, <2>1, AnswersKeeps DEF Done
<1>5. CASE Exists(a)
  <2>1. refs' = refs /\ todo[a] # <<>> /\ Call(a).op \in Appending \cup {"pr"}
    BY <1>1, <1>5 DEF Exists, Fits, At
  <2>2. CASE Call(a).id \notin DOMAIN issues
    BY <1>5, <2>1, <2>2, FailsKeeps DEF Exists
  <2>3. CASE Call(a).id \in DOMAIN issues
    <3>1. CASE Call(a).op = "pr"
      BY <1>5, <2>1, <2>3, <3>1, GoesKeeps DEF Exists, Free, Appending
    <3>2. CASE Call(a).op # "pr"
      BY <1>5, <2>1, <2>3, <3>2, GoesKeeps DEF Exists, Free, Appending
    <3> QED
      BY <3>1, <3>2
  <2> QED
    BY <2>2, <2>3
<1>6. CASE ReadClaim(a)
  <2>1. refs' = refs /\ todo[a] # <<>>
    BY <1>1, <1>6 DEF ReadClaim, Fits, At
  <2>2. Call(a).op \in Appending => Call(a).id \in DOMAIN issues
    BY <1>1, <1>6 DEF ReadClaim, Fits, At
  <2>3. CASE Recorded(Call(a))
    BY <1>6, <2>1, <2>3, ResolvedKeeps DEF ReadClaim
  <2>4. CASE ~Recorded(Call(a))
    BY <1>6, <2>1, <2>2, <2>4, GoesKeeps DEF ReadClaim, Free
  <2> QED
    BY <2>3, <2>4
<1> QED
  BY <1>2, <1>3, <1>4, <1>5, <1>6

\* The reading of a snapshot.
LEMMA SnapshotOkIs ==
    ASSUME NEW p, NEW q, NEW c, q.cnt = p.cnt, q.snap = p.snap, SnapshotOk(p, c)
    PROVE  SnapshotOk(q, c)
BY DEF SnapshotOk, NewIssueOk

LEMMA ReadingKeeps ==
    ASSUME StoreInv, NEW a \in Actors, ReadCounter(a) \/ ReadNames(a) \/ ReadIssue(a)
    PROVE  StoreInv'
<1> USE DEF Reads
<1> DEFINE p == proc'[a]
<1>1. /\ Typed /\ Fits(a) /\ Looked(a)
      /\ counter \in Nat /\ DOMAIN issues \in SUBSET (Nat \ {0})
  BY DEF StoreInv, Typed, IsMap
<1>2. proc[a] \in Process /\ proc[a].left \in SUBSET (Nat \ {0}) /\ IsMap(proc[a].snap, Issues)
  BY <1>1, ProcessIs
<1>3. \A q : Becomes(a, q) => proc'[a] = q
  BY <1>1, OtherProcesses DEF Becomes
<1>4. /\ At(a, "counter") \/ At(a, "names") \/ At(a, "issues")
      /\ todo[a] # <<>> /\ Call(a).op \in {"new", "apply"}
  BY <1>1 DEF ReadCounter, ReadNames, ReadIssue, Fits, At
<1>5. UNCHANGED <<counter, issues, todo>> /\ refs' = refs
  BY DEF ReadCounter, ReadNames, ReadIssue, Becomes, refs
<1>6. Call(a)' = Call(a)
  BY <1>5 DEF Call
<1>7. CASE ReadCounter(a)
  <2>1. <<>> \in Snapshots /\ DOMAIN <<>> = {}
    BY NothingIsAMap, SnapshotsAre
  <2> DEFINE nothing == <<>>
             q == [proc[a] EXCEPT !.pc = "names", !.cnt = counter, !.snap = nothing]
  <2>2. Becomes(a, q)
    BY <1>7 DEF ReadCounter
  <2>3. nothing \in Snapshots /\ DOMAIN nothing = {}
    BY <2>1
  <2> HIDE DEF nothing
  <2>4. /\ q \in Process /\ q.pc = "names" /\ q.cnt = counter /\ q.snap = nothing
        /\ q.left = proc[a].left
    BY <1>1, <1>2, <2>3 DEF Process, Pcs
  <2> HIDE DEF q
  <2>5. proc'[a] = q
    BY <1>3, <2>2
  <2>6. Fits(a)'
    BY <1>4, <1>5, <1>6, <2>4, <2>5 DEF Fits, At
  <2>7. Looked(a)'
    BY <1>1, <1>5, <2>3, <2>4, <2>5 DEF Looked, At
  <2> QED
    BY <1>5, <2>2, <2>4, <2>6, <2>7, ThinkingKeeps DEF Thinks
<1>8. CASE ReadNames(a)
  <2> DEFINE q == [proc[a] EXCEPT !.pc = "issues", !.left = DOMAIN issues]
  <2>1. Becomes(a, q) /\ At(a, "names")
    BY <1>8 DEF ReadNames
  <2>2. /\ q \in Process /\ q.pc = "issues" /\ q.cnt = proc[a].cnt /\ q.snap = proc[a].snap
        /\ q.left = DOMAIN issues
    BY <1>1, <1>2 DEF Process, Pcs
  <2> HIDE DEF q
  <2>3. proc'[a] = q
    BY <1>3, <2>1
  <2>4. Fits(a)'
    BY <1>4, <1>5, <1>6, <2>2, <2>3 DEF Fits, At
  <2>5. Looked(a)'
    BY <1>1, <1>5, <2>1, <2>2, <2>3 DEF Looked, At
  <2> QED
    BY <1>5, <2>1, <2>2, <2>4, <2>5, ThinkingKeeps DEF Thinks
<1>9. CASE ReadIssue(a)
  <2> DEFINE n == Min(proc[a].left)
             snap == With(proc[a].snap, n, issues[n])
             q == [proc[a] EXCEPT !.left = @ \ {n}, !.snap = snap]
  <2>1. Becomes(a, q) /\ At(a, "issues") /\ proc[a].left # {}
    BY <1>9 DEF ReadIssue
  <2>2. n \in proc[a].left
    BY <1>2, <2>1, MinOf
  <2> HIDE DEF n
  <2>3. n \in DOMAIN issues /\ n \in Nat \ {0} /\ issues[n] \in Issues
    BY <1>1, <2>2 DEF Looked, Typed, IsMap
  <2>4. IsMap(snap, Issues) /\ DOMAIN snap = DOMAIN proc[a].snap \cup {n}
    <3> DEFINE old == proc[a].snap
               issue == issues[n]
    <3>1. IsMap(old, Issues) /\ issue \in Issues
      BY <1>2, <2>3
    <3> HIDE DEF old, issue
    <3>2. IsMap(With(old, n, issue), Issues) /\ DOMAIN With(old, n, issue) = DOMAIN old \cup {n}
      BY <2>3, <3>1 DEF With, IsMap
    <3> QED
      BY <3>2 DEF old, issue
  <2>5. snap \in Snapshots
    BY <2>4, SnapshotsAre
  <2> HIDE DEF snap
  <2>6. /\ q \in Process /\ q.pc = proc[a].pc /\ q.cnt = proc[a].cnt /\ q.snap = snap
        /\ q.left = proc[a].left \ {n}
    BY <1>2, <2>5 DEF Process
  <2> HIDE DEF q
  <2>7. proc'[a] = q
    BY <1>3, <2>1
  <2>8. Fits(a)'
    BY <1>4, <1>5, <1>6, <2>1, <2>6, <2>7 DEF Fits, At
  <2>9. Looked(a)'
    <3>1. (proc[a].left \ {n}) \cup (DOMAIN proc[a].snap \cup {n})
             = proc[a].left \cup DOMAIN proc[a].snap
      BY <2>2
    <3> QED
      BY <1>1, <1>5, <2>1, <2>4, <2>6, <2>7, <3>1 DEF Looked, At
  <2> QED
    BY <1>5, <2>1, <2>6, <2>8, <2>9, ThinkingKeeps DEF Thinks
<1> QED
  BY <1>7, <1>8, <1>9

\* The end of a snapshot: what was read is checked, or read again.
LEMMA SnapshotKeeps ==
    ASSUME StoreInv, NEW a \in Actors, Snapshot(a)
    PROVE  StoreInv'
<1> DEFINE p == proc[a]
<1>1. /\ Typed /\ Fits(a) /\ Looked(a) /\ p \in Process /\ p.rounds + 1 \in Nat
  BY ProcessIs DEF StoreInv
<1>2. /\ At(a, "issues") /\ p.left = {} /\ refs' = refs /\ todo[a] # <<>>
      /\ Call(a).op \in {"new", "apply"}
  BY <1>1 DEF Snapshot, Reads, Fits, At
<1>3. CASE counter # p.cnt /\ Restarts(a)
  BY <1>2, <1>3, RestartsKeeps
<1>4. CASE Becomes(a, [p EXCEPT !.pc = "counter", !.rounds = @ + 1])
  <2> DEFINE q == [p EXCEPT !.pc = "counter", !.rounds = @ + 1]
  <2>1. q \in Process /\ q.pc = "counter" /\ q.cnt = p.cnt /\ q.left = p.left
    <3> HIDE DEF p
    <3> QED
      BY <1>1 DEF Process, Pcs
  <2>2. Thinks(a, q)
    BY <1>2, <1>4 DEF Thinks
  <2> HIDE DEF q
  <2> QED
    BY <1>2, <2>1, <2>2, MovingKeeps DEF Free, Appending
<1>5. CASE counter = p.cnt /\ SnapshotOk(p, Call(a)) /\ Goes(a, "batch")
  <2> DEFINE q == [p EXCEPT !.pc = "batch"]
  <2>1. q \in Process /\ q.pc = "batch" /\ q.cnt = p.cnt /\ q.left = p.left /\ q.snap = p.snap
    <3> HIDE DEF p
    <3> QED
      BY ZenonT(60), <1>1, MemoryIs DEF Pcs
  <2>2. Thinks(a, q)
    BY <1>2, <1>5 DEF Thinks, Goes
  <2> HIDE DEF q
  <2>3. counter' = counter /\ issues' = issues /\ todo' = todo /\ proc' = [proc EXCEPT ![a] = q]
    BY <2>2 DEF Thinks, Becomes, refs
  <2>4. proc'[a] = q /\ Call(a)' = Call(a)
    BY <1>1, <2>3, OtherProcesses DEF Call
  <2>5. Fits(a)'
    BY <1>2, <2>1, <2>3, <2>4 DEF Fits, At
  <2>6. SnapshotOk(q, Call(a))
    BY <1>5, <2>1, SnapshotOkIs
  <2>7. DOMAIN p.snap = DOMAIN issues
    BY <1>1, <1>2, <1>5 DEF Looked
  <2>8. Looked(a)'
    BY <1>1, <2>1, <2>3, <2>4, <2>6, <2>7 DEF Looked, At
  <2> QED
    BY <2>1, <2>2, <2>5, <2>8, ThinkingKeeps
<1>6. CASE Fails(a)
  BY <1>2, <1>6, FailsKeeps
<1> QED
  BY <1>3, <1>4, <1>5, <1>6 DEF Snapshot

\* A transaction of an allocation that fails, and what its command does then.
LEMMA BatchFailingKeeps ==
    ASSUME StoreInv, NEW a \in Actors, BatchFails(a) \/ BatchFailed(a)
    PROVE  StoreInv'
<1>1. /\ todo[a] # <<>> /\ Fits(a)
      /\ Call(a).op \in {"new", "apply"}
  BY DEF StoreInv, BatchFails, BatchFailed, Fits, At
<1>2. CASE BatchFails(a)
  <2>1. PICK holds \in BOOLEAN : FailsUnless(a, holds)
    <3>1. FailsUnless(a, BatchHolds(a)) /\ BatchHolds(a) \in BOOLEAN
      BY <1>2 DEF BatchFails, BatchHolds
    <3> QED
      BY <3>1
  <2> QED
    BY <1>1, <2>1, FailureKeeps DEF Appending
<1>3. CASE BatchFailed(a)
  <2>1. refs' = refs /\ (Restarts(a) \/ Fails(a))
    BY <1>3 DEF BatchFailed, Reads
  <2> QED
    BY <1>1, <2>1, RestartsKeeps, FailsKeeps
<1> QED
  BY <1>2, <1>3

\* The steps of `pr create` that change no ref.
LEMMA CreatingKeeps ==
    ASSUME StoreInv, NEW a \in Actors,
           ReadBranches(a) \/ Allocate(a) \/ CreateFails(a) \/ CreateFailed(a)
    PROVE  StoreInv'
<1> USE DEF Reads
<1> DEFINE p == proc[a]
<1>1. /\ Typed /\ Fits(a) /\ Looked(a) /\ p \in Process /\ p.tries + 1 \in Nat
      /\ todo[a] # <<>> /\ Call(a).op = "pr" /\ counter \in Nat
  BY ProcessIs DEF StoreInv, Typed, ReadBranches, Allocate, CreateFails, CreateFailed, Fits, At
<1>2. CASE ReadBranches(a)
  BY <1>1, <1>2, GoesKeeps, FailsKeeps DEF ReadBranches, Free, Appending
<1>3. CASE Allocate(a)
  <2>1. CASE Allocates(counter, 1) /\ Becomes(a, [p EXCEPT !.pc = "create", !.cnt = counter])
    <3> DEFINE q == [p EXCEPT !.pc = "create", !.cnt = counter]
    <3>1. q \in Process /\ q.pc = "create" /\ q.cnt = counter /\ q.left = p.left
      <4> HIDE DEF p
      <4> QED
        BY <1>1 DEF Process, Pcs
    <3>2. Thinks(a, q)
      BY <1>3, <2>1 DEF Thinks, Allocate
    <3> HIDE DEF q
    <3>3. counter' = counter /\ issues' = issues /\ todo' = todo /\ proc' = [proc EXCEPT ![a] = q]
      BY <3>2 DEF Thinks, Becomes, refs
    <3>4. proc'[a] = q /\ Call(a)' = Call(a)
      BY <1>1, <3>3, OtherProcesses DEF Call
    <3>5. Fits(a)'
      BY <1>1, <3>1, <3>3, <3>4 DEF Fits, At
    <3>6. Looked(a)'
      BY <1>1, <2>1, <3>1, <3>3, <3>4 DEF Looked, At
    <3> QED
      BY <3>1, <3>2, <3>5, <3>6, ThinkingKeeps
  <2>2. CASE Fails(a)
    BY <1>1, <1>3, <2>2, FailsKeeps DEF Allocate
  <2> QED
    BY <1>3, <2>1, <2>2 DEF Allocate
<1>4. CASE CreateFails(a)
  <2>1. FailsUnless(a, CreateHolds(a)) /\ CreateHolds(a) \in BOOLEAN
    BY <1>4 DEF CreateFails, CreateHolds
  <2>2. PICK holds \in BOOLEAN : FailsUnless(a, holds)
    BY <2>1
  <2> QED
    BY <1>1, <2>2, FailureKeeps DEF Appending
<1>5. CASE CreateFailed(a)
  <2>1. CASE Becomes(a, [p EXCEPT !.pc = "alloc", !.tries = @ + 1])
    <3> DEFINE q == [p EXCEPT !.pc = "alloc", !.tries = @ + 1]
    <3>1. q \in Process /\ q.pc = "alloc" /\ q.cnt = p.cnt /\ q.left = p.left
      <4> HIDE DEF p
      <4> QED
        BY <1>1 DEF Process, Pcs
    <3>2. Thinks(a, q)
      BY <1>5, <2>1 DEF Thinks, CreateFailed
    <3> HIDE DEF q
    <3> QED
      BY <1>1, <3>1, <3>2, MovingKeeps DEF Free, Appending
  <2>2. CASE Fails(a)
    BY <1>1, <1>5, <2>2, FailsKeeps DEF CreateFailed
  <2> QED
    BY <1>5, <2>1, <2>2 DEF CreateFailed
<1> QED
  BY <1>2, <1>3, <1>4, <1>5

\* The steps of an append that change no ref.
LEMMA AppendingKeeps ==
    ASSUME StoreInv, NEW a \in Actors, Tip(a) \/ AppendFails(a) \/ AppendFailed(a)
    PROVE  StoreInv'
<1> USE DEF Reads
<1> DEFINE p == proc[a]
           fresh == issues[Call(a).id].log
<1>1. /\ Typed /\ p \in Process /\ p.tries + 1 \in Nat
      /\ todo[a] # <<>> /\ Call(a).op \in Appending /\ Call(a).id \in DOMAIN issues
  BY ProcessIs DEF StoreInv, Tip, AppendFails, AppendFailed, Fits, At, Appending
<1>2. fresh \in Seq(Events)
  <2>1. issues[Call(a).id] \in Issues
    BY <1>1 DEF Typed, IsMap
  <2> QED
    BY <2>1 DEF Issues, IssuesWith
<1> HIDE DEF fresh
<1>3. CASE Tip(a)
  <2> DEFINE q == [p EXCEPT !.pc = "append", !.log = fresh]
  <2>1. q \in Process /\ q.pc = "append" /\ q.cnt = p.cnt /\ q.left = p.left
    <3> HIDE DEF p
    <3> QED
      BY <1>1, <1>2 DEF Process, Pcs
  <2>2. Thinks(a, q)
    BY <1>3 DEF Thinks, Tip, fresh
  <2> HIDE DEF q
  <2> QED
    BY <1>1, <2>1, <2>2, MovingKeeps DEF Free
<1>4. CASE AppendFails(a)
  <2>1. FailsUnless(a, AppendHolds(a)) /\ AppendHolds(a) \in BOOLEAN
    BY <1>4 DEF AppendFails, AppendHolds
  <2>2. PICK holds \in BOOLEAN : FailsUnless(a, holds)
    BY <2>1
  <2> QED
    BY <1>1, <2>2, FailureKeeps
<1>5. CASE AppendFailed(a)
  <2> DEFINE pc == IF Keyed(Call(a)) THEN "append" ELSE "tip"
             q == [p EXCEPT !.tries = @ + 1, !.log = fresh, !.pc = pc]
  <2>1. CASE Becomes(a, q)
    <3>1. pc \in {"append", "tip"}
      OBVIOUS
    <3> HIDE DEF pc
    <3>2. q \in Process /\ q.pc = pc /\ q.cnt = p.cnt /\ q.left = p.left
      <4> HIDE DEF p
      <4> QED
        BY <1>1, <1>2, <3>1 DEF Process, Pcs
    <3>3. Thinks(a, q)
      BY <1>5, <2>1 DEF Thinks, AppendFailed
    <3> HIDE DEF q
    <3> QED
      BY <1>1, <3>1, <3>2, <3>3, MovingKeeps DEF Free
  <2>2. CASE Fails(a)
    BY <1>1, <1>5, <2>2, FailsKeeps DEF AppendFailed
  <2> QED
    BY <1>5, <2>1, <2>2 DEF AppendFailed, fresh
<1> QED
  BY <1>3, <1>4, <1>5

\* Kills, and the deletion of branches.
LEMMA CrashKeeps ==
    ASSUME StoreInv, (\E a \in Actors : Crash(a)) \/ DeleteBranches
    PROVE  StoreInv'
<1>1. Typed
  BY DEF StoreInv
<1>2. ASSUME NEW a \in Actors, Crash(a)
      PROVE  StoreInv'
  <2>1. todo[a] # <<>> /\ refs' = refs /\ answers' \subseteq Replies
    BY <1>1, <1>2 DEF StoreInv, Fits, Crash, Typed
  <2> QED
    BY <1>2, <2>1, LeavingKeeps DEF Crash
<1>3. CASE DeleteBranches
  <2>1. UNCHANGED <<counter, issues, prs, records, proc, todo, answers>> /\ branches' \in BOOLEAN
    BY <1>3 DEF DeleteBranches
  <2>2. \A a \in Actors : Call(a)' = Call(a) /\ \A pc : At(a, pc)' = At(a, pc)
    BY <2>1 DEF Call, At
  <2>3. Typed'
    BY <1>1, <2>1 DEF Typed
  <2>4. \A a \in Actors : Fits(a)' /\ Looked(a)'
    BY <2>1, <2>2 DEF StoreInv, Fits, Looked
  <2>5. AllocationSound' /\ GraphSound' /\ KeysAreUnique(issues)'
    BY <2>1 DEF StoreInv, AllocationSound, GraphSound, KeysAreUnique
  <2> QED
    BY <2>3, <2>4, <2>5 DEF StoreInv
<1> QED
  BY <1>2, <1>3

----------------------------------------------------------------------------
(* The steps that change refs. *)

\* A process whose transaction has been applied keeps the invariant if the refs are right, and
\* no id is allocated unless the counter moves.
LEMMA CommittingKeeps ==
    ASSUME StoreInv, NEW a \in Actors, todo[a] # <<>>, NEW id \in Nat, Commits(a, id),
           counter' \in Nat, counter <= counter',
           DOMAIN issues \subseteq DOMAIN issues',
           counter' = counter => DOMAIN issues' = DOMAIN issues,
           IsMap(issues', Issues), IsMap(prs', Seq(Events)),
           records' \in [DOMAIN records' -> Bindings], DOMAIN records' \subseteq KeyNames,
           branches' = branches,
           AllocationSound', GraphSound', KeysAreUnique(issues)',
           Call(a).op \in Appending => Call(a).id \in DOMAIN issues
    PROVE  StoreInv'
<1> DEFINE p == proc[a]
<1>1. Typed /\ p \in Process /\ counter \in Nat
  BY ProcessIs DEF StoreInv, Typed
<1>2. PICK q : Succeeds(a, q, id) \/ TakesForFailed(a, q, "fault", TRUE)
  BY <1>1, CommitsAre
<1>3. /\ Becomes(a, q) /\ q \in Process /\ q.cnt = p.cnt /\ q.left = p.left
      /\ q.pc \in {"done", "claim", "failed"} /\ (q.pc = "claim" => Keyed(Call(a)))
  BY <1>2 DEF Succeeds, TakesForFailed, NextOfFailure
<1>4. todo' = todo /\ answers' = answers /\ proc' = [proc EXCEPT ![a] = q]
  BY <1>3 DEF Becomes
<1>5. proc'[a] = q /\ \A b \in Actors \ {a} : proc'[b] = proc[b]
  BY <1>1, <1>4, OtherProcesses
<1>6. \A b \in Actors : Call(b)' = Call(b)
  BY <1>4 DEF Call
<1>7. Typed'
  <2>1. proc' \in [Actors -> Process]
    BY <1>1, <1>3, <1>4 DEF Typed
  <2> QED
    BY <1>1, <1>4, <2>1 DEF Typed
<1>8. \A b \in Actors : proc[b].cnt \in Nat /\ proc[b].cnt <= counter
                        /\ proc[b].left \subseteq DOMAIN issues
  BY <1>1, ProcessIs DEF StoreInv, Looked
<1>9. Fits(a)' /\ Looked(a)'
  <2>1. Fits(a)'
    BY <1>3, <1>4, <1>5, <1>6 DEF Fits, At
  <2>2. proc'[a].cnt <= counter' /\ proc'[a].left \subseteq DOMAIN issues'
    BY <1>1, <1>3, <1>5, <1>8
  <2> QED
    BY <1>3, <1>5, <2>1, <2>2 DEF Looked, At
<1>10. ASSUME NEW b \in Actors \ {a}
       PROVE  Fits(b)' /\ Looked(b)'
  <2>1. proc'[b] = proc[b] /\ Call(b)' = Call(b) /\ todo'[b] = todo[b]
    BY <1>4, <1>5, <1>6
  <2>2. \A pc : At(b, pc)' = At(b, pc)
    BY <2>1 DEF At
  <2>3. Fits(b) /\ Looked(b)
    BY DEF StoreInv
  <2>4. Fits(b)'
    BY <2>1, <2>2, <2>3 DEF Fits
  <2>5. counter' = proc[b].cnt => counter = proc[b].cnt /\ DOMAIN issues' = DOMAIN issues
    BY <1>1, <1>8
  <2>6. proc'[b].cnt <= counter' /\ proc'[b].left \subseteq DOMAIN issues'
    BY <1>1, <1>8, <2>1
  <2>7. Looked(b)'
    BY <2>1, <2>2, <2>3, <2>5, <2>6 DEF Looked
  <2> QED
    BY <2>4, <2>7
<1> QED
  BY <1>7, <1>9, <1>10 DEF StoreInv

\* A claim binds its name, and no other.
LEMMA ClaimBinds ==
    ASSUME Typed, NEW a \in Actors, todo[a] # <<>>, NEW id \in Nat \ {0}, Claim(a, id)
    PROVE  /\ records' \in [DOMAIN records' -> Bindings] /\ DOMAIN records' \subseteq KeyNames
           /\ ~Keyed(Call(a)) => records' = records
           /\ Keyed(Call(a)) =>
                 /\ DOMAIN records' = DOMAIN records \cup {RecordName(Call(a))}
                 /\ records'[RecordName(Call(a))] = [request |-> Call(a), id |-> id]
                 /\ \A name \in DOMAIN records \ {RecordName(Call(a))} :
                       records'[name] = records[name]
<1> DEFINE name == RecordName(Call(a))
           record == [request |-> Call(a), id |-> id]
<1>1. /\ records \in [DOMAIN records -> Bindings] /\ DOMAIN records \subseteq KeyNames
      /\ Call(a) \in Commands
      /\ Keyed(Call(a)) => name \in KeyNames
  BY CallIs DEF Typed
<1>2. record \in Bindings
  BY <1>1 DEF Bindings
<1>3. CASE ~Keyed(Call(a))
  BY <1>1, <1>3 DEF Claim
<1>4. CASE Keyed(Call(a))
  <2>1. records' = With(records, name, record)
    BY <1>4 DEF Claim
  <2> HIDE DEF name, record
  <2>2. /\ records' \in [DOMAIN records \cup {name} -> Bindings]
        /\ DOMAIN records' = DOMAIN records \cup {name}
        /\ records'[name] = record
        /\ \A other \in DOMAIN records \ {name} : records'[other] = records[other]
    BY <1>1, <1>2, <2>1 DEF With
  <2>3. DOMAIN records' \subseteq KeyNames
    BY <1>1, <1>4, <2>2
  <2> QED
    BY <1>4, <2>2, <2>3 DEF name, record
<1> QED
  BY <1>3, <1>4

\* `pr create` commits.
LEMMA CreatePrKeeps ==
    ASSUME StoreInv, NEW a \in Actors, CreatePr(a)
    PROVE  StoreInv'
<1> DEFINE id == NextId(proc[a].cnt)
           log == <<EventOf(a, "pr.created")>>
<1>1. /\ Typed /\ Fits(a) /\ Looked(a) /\ todo[a] # <<>> /\ counter \in Nat
  BY DEF StoreInv, Typed, Fits, At, CreatePr
<1>2. /\ counter = proc[a].cnt /\ counter' = id + 1 /\ prs' = With(prs, id, log)
      /\ Claim(a, id) /\ Commits(a, id) /\ UNCHANGED <<issues, branches>>
      /\ Allocates(counter, 1) /\ id \notin DOMAIN prs
  BY <1>1 DEF CreatePr, CreateHolds, Looked, At
<1>3. id \in Nat \ {0} /\ counter <= id /\ id + 1 <= MaxCounter
  BY <1>1, <1>2 DEF NextId, Allocates
<1>4. log \in Seq(Events)
  <2>1. EventOf(a, "pr.created") \in Events
    BY <1>1, EventsOf DEF Typed
  <2> QED
    BY <2>1
<1>5. IsMap(prs', Seq(Events)) /\ DOMAIN prs' = DOMAIN prs \cup {id}
  <2> HIDE DEF log, id
  <2> QED
    BY <1>1, <1>2, <1>3, <1>4 DEF With, IsMap, Typed
<1>6. records' \in [DOMAIN records' -> Bindings] /\ DOMAIN records' \subseteq KeyNames
  BY <1>1, <1>2, <1>3, ClaimBinds
<1>7. AllocationSound'
  <2>1. /\ DOMAIN issues \cap DOMAIN prs = {}
        /\ DOMAIN issues \cup DOMAIN prs = 1..id - 1
    BY <1>2 DEF StoreInv, AllocationSound
  <2>2. NextId(counter') = id + 1
    BY <1>2, <1>3 DEF NextId
  <2> HIDE DEF id
  <2>3. id \notin DOMAIN issues
    <3>1. id \notin 1..id - 1
      BY <1>3
    <3> QED
      BY <2>1, <3>1
  <2>4. 1..id + 1 - 1 = (1..id - 1) \cup {id}
    BY <1>3
  <2>5. /\ DOMAIN issues' \cap DOMAIN prs' = {}
        /\ DOMAIN issues' \cup DOMAIN prs' = 1..NextId(counter') - 1
        /\ counter' <= MaxCounter
    BY <1>2, <1>3, <1>5, <2>1, <2>2, <2>3, <2>4
  <2> QED
    BY <2>5 DEF AllocationSound
<1>8. GraphSound' /\ KeysAreUnique(issues)'
  BY <1>2 DEF StoreInv, GraphSound, KeysAreUnique
<1>9. counter' \in Nat /\ counter <= counter' /\ counter' # counter
  BY <1>1, <1>2, <1>3
<1>10. IsMap(issues', Issues) /\ DOMAIN issues' = DOMAIN issues
  BY <1>1, <1>2 DEF Typed
<1>11. Call(a).op \notin Appending
  BY <1>1 DEF Fits, At, CreatePr, Appending
<1> HIDE DEF id
<1> QED
  BY <1>1, <1>2, <1>3, <1>5, <1>6, <1>7, <1>8, <1>9, <1>10, <1>11, CommittingKeeps

\* An event is appended to the log of an issue.
LEMMA WriteEventKeeps ==
    ASSUME StoreInv, NEW a \in Actors, WriteEvent(a)
    PROVE  /\ StoreInv'
           /\ DOMAIN issues' = DOMAIN issues
           /\ Grown(issues[Call(a).id].log, issues'[Call(a).id].log, CallId(a))
           /\ DOMAIN issues'[Call(a).id].log \ DOMAIN issues[Call(a).id].log
                 = {Len(issues[Call(a).id].log) + 1}
           /\ \A n \in DOMAIN issues \ {Call(a).id} : issues'[n] = issues[n]
<1> DEFINE c == Call(a)
           n == c.id
           old == issues[n]
           event == EventOf(a, Kind(c.op))
           log == Append(old.log, event)
           open == OpenAfter(c.op, old.open)
<1>1. /\ Typed /\ Fits(a) /\ todo[a] # <<>> /\ counter \in Nat
      /\ c.op \in Appending /\ n \in DOMAIN issues /\ n \in Nat \ {0}
  BY DEF StoreInv, Typed, Fits, At, WriteEvent, IsMap
<1>2. /\ proc[a].log = old.log /\ Claim(a, n) /\ Commits(a, n)
      /\ UNCHANGED <<counter, prs, branches>>
      /\ issues' = [issues EXCEPT ![n].log = log, ![n].open = open]
  BY DEF WriteEvent, AppendHolds
<1>3. old \in Issues /\ old.log \in Seq(Events) /\ old.open \in BOOLEAN
  <2>1. old \in Issues
    BY <1>1 DEF Typed, IsMap
  <2> HIDE DEF old
  <2> QED
    BY <2>1 DEF Issues, IssuesWith
<1>4. event \in Events /\ event.by = CallId(a)
  <2>1. Kind(c.op) \in {"issue.close", "issue.reopen", "issue.comment"}
    BY DEF Kind
  <2> QED
    BY <1>1, <2>1, EventsOf DEF Typed
<1>5. open \in BOOLEAN
  <2> HIDE DEF old
  <2> QED
    BY <1>3 DEF OpenAfter
<1>6. /\ log \in Seq(Events) /\ log # <<>> /\ Len(log) = Len(old.log) + 1
      /\ DOMAIN log = 1..Len(old.log) + 1 /\ DOMAIN old.log = 1..Len(old.log)
      /\ Len(old.log) \in Nat
      /\ \A j \in DOMAIN old.log : log[j] = old.log[j]
      /\ log[Len(old.log) + 1] = event
  <2> DEFINE s == old.log
  <2> HIDE DEF old, event
  <2>1. s \in Seq(Events) /\ event \in Events
    BY <1>3, <1>4
  <2> HIDE DEF s
  <2>2. /\ Append(s, event) \in Seq(Events) /\ Append(s, event) # <<>>
        /\ Len(Append(s, event)) = Len(s) + 1
        /\ DOMAIN Append(s, event) = 1..Len(s) + 1 /\ DOMAIN s = 1..Len(s) /\ Len(s) \in Nat
        /\ \A j \in 1..Len(s) : Append(s, event)[j] = s[j]
        /\ Append(s, event)[Len(s) + 1] = event
    BY <2>1
  <2> QED
    BY <2>2 DEF s
<1> HIDE DEF log, open, event
<1>7. /\ issues' \in [DOMAIN issues -> Issues] /\ DOMAIN issues' = DOMAIN issues
      /\ issues'[n] = [old EXCEPT !.log = log, !.open = open]
      /\ \A m \in DOMAIN issues \ {n} : issues'[m] = issues[m]
  <2>1. [old EXCEPT !.log = log, !.open = open] \in Issues
    <3> HIDE DEF old
    <3> QED
      BY <1>3, <1>5, <1>6 DEF Issues, IssuesWith
  <2>2. issues \in [DOMAIN issues -> Issues]
    BY <1>1 DEF Typed, IsMap
  <2>3. issues' = [issues EXCEPT ![n] = [old EXCEPT !.log = log, !.open = open]]
    BY <1>2
  <2> DEFINE new == [old EXCEPT !.log = log, !.open = open]
  <2> HIDE DEF new, old, n
  <2>4. issues' = [issues EXCEPT ![n] = new] /\ new \in Issues /\ n \in DOMAIN issues
    BY <1>1, <2>1, <2>3 DEF new
  <2>5. /\ issues' \in [DOMAIN issues -> Issues] /\ DOMAIN issues' = DOMAIN issues
        /\ issues'[n] = new
        /\ \A m \in DOMAIN issues \ {n} : issues'[m] = issues[m]
    BY <2>2, <2>4
  <2> QED
    BY <2>5 DEF new
<1>8. /\ issues'[n].log = log /\ issues'[n].parent = issues[n].parent
      /\ issues'[n].blocked = issues[n].blocked /\ issues'[n].key = issues[n].key
  <2> HIDE DEF n
  <2>1. /\ issues'[n].log = log /\ issues'[n].parent = old.parent
        /\ issues'[n].blocked = old.blocked /\ issues'[n].key = old.key
    <3> HIDE DEF old
    <3> QED
      BY <1>3, <1>7 DEF Issues, IssuesWith
  <2> QED
    BY <2>1
<1>9. Grown(old.log, log, CallId(a)) /\ DOMAIN log \ DOMAIN old.log = {Len(old.log) + 1}
  <2> HIDE DEF old
  <2>1. DOMAIN log \ DOMAIN old.log = {Len(old.log) + 1}
    BY <1>6
  <2> QED
    BY <1>4, <1>6, <2>1 DEF Grown
<1>10. IsMap(issues', Issues)
  BY <1>1, <1>7 DEF IsMap, Typed
<1>11. AllocationSound'
  BY <1>2, <1>7 DEF StoreInv, AllocationSound
<1>12. \A m \in DOMAIN issues : /\ issues'[m].parent = issues[m].parent
                                /\ issues'[m].blocked = issues[m].blocked
                                /\ issues'[m].key = issues[m].key
  BY <1>7, <1>8
<1>13. GraphSound'
  <2>1. ValidGraph(issues)
    BY DEF StoreInv, GraphSound
  <2>2. ValidGraph(issues')
    BY <1>7, <1>12, <2>1, LinksDecideTheGraph
  <2> QED
    BY <2>2 DEF GraphSound
<1>14. KeysAreUnique(issues)'
  BY <1>7, <1>12 DEF StoreInv, KeysAreUnique
<1>15. records' \in [DOMAIN records' -> Bindings] /\ DOMAIN records' \subseteq KeyNames
  BY <1>1, <1>2, ClaimBinds
<1>16. IsMap(prs', Seq(Events)) /\ counter' \in Nat /\ counter <= counter'
  BY <1>1, <1>2 DEF Typed
<1>17. StoreInv'
  BY <1>1, <1>2, <1>7, <1>10, <1>11, <1>13, <1>14, <1>15, <1>16, CommittingKeeps
<1> QED
  BY <1>7, <1>8, <1>9, <1>17

\* A batch that holds was computed on the issues as they are, and leaves them as it says.
LEMMA BatchIsFresh ==
    ASSUME StoreInv, NEW a \in Actors, ApplyBatch(a)
    PROVE  /\ proc[a].snap = issues /\ proc[a].cnt = counter
           /\ SnapshotOk(proc[a], Call(a))
           /\ todo[a] # <<>> /\ Call(a).op \in {"new", "apply"}
<1>1. Typed /\ Fits(a) /\ Looked(a) /\ At(a, "batch") /\ BatchHolds(a)
  BY DEF StoreInv, ApplyBatch
<1>2. /\ proc[a].cnt = counter /\ SnapshotOk(proc[a], Call(a))
      /\ DOMAIN proc[a].snap = DOMAIN issues
      /\ \A n \in DOMAIN issues : proc[a].snap[n] = issues[n]
  BY <1>1 DEF BatchHolds, SnapshotHolds, Looked
<1>3. todo[a] # <<>> /\ Call(a).op \in {"new", "apply"}
  BY <1>1 DEF Fits, At
<1>4. IsMap(proc[a].snap, Issues) /\ IsMap(issues, Issues)
  BY <1>1, ProcessIs DEF Typed
<1> DEFINE snap == proc[a].snap
<1> HIDE DEF snap
<1>5. snap = [n \in DOMAIN snap |-> snap[n]] /\ issues = [n \in DOMAIN issues |-> issues[n]]
  BY <1>4 DEF IsMap, snap
<1>6. DOMAIN snap = DOMAIN issues /\ \A n \in DOMAIN issues : snap[n] = issues[n]
  BY <1>2 DEF snap
<1>7. snap = issues
  BY <1>5, <1>6
<1> QED
  BY <1>2, <1>3, <1>7 DEF snap

LEMMA BatchIsWritten ==
    ASSUME StoreInv, NEW a \in Actors, ApplyBatch(a),
           IsMap(Batch(a), Issues), DOMAIN issues \subseteq DOMAIN Batch(a)
    PROVE  issues' = Batch(a) /\ Created(a) = DOMAIN Batch(a) \ DOMAIN issues
<1> DEFINE made == Batch(a)
           written == Written(a)
<1>1. proc[a].snap = issues
  BY BatchIsFresh
<1>2. issues' = Over([n \in written |-> made[n]], issues)
  BY DEF ApplyBatch
<1>3. written = {n \in DOMAIN made : n \in DOMAIN issues => made[n] # issues[n]}
  BY <1>1 DEF Written
<1>4. Created(a) = DOMAIN made \ DOMAIN issues
  BY <1>1 DEF Created
<1>5. made = [n \in DOMAIN made |-> made[n]]
  BY DEF IsMap
<1> HIDE DEF made, written
<1>6. DOMAIN issues' = DOMAIN made /\ issues' = [n \in DOMAIN issues' |-> issues'[n]]
  BY <1>2, <1>3 DEF Over, made
<1>7. \A n \in DOMAIN made : issues'[n] = made[n]
  BY <1>2, <1>3 DEF Over, made
<1>8. issues' = made
  BY <1>5, <1>6, <1>7
<1> QED
  BY <1>4, <1>8 DEF made

\* What `issue new` writes.
LEMMA NewIssueIsWritten ==
    ASSUME StoreInv, NEW a \in Actors, ApplyBatch(a), Call(a).op = "new"
    PROVE  LET id == NextId(counter) IN
           /\ issues' = Batch(a) /\ Created(a) = {id} /\ id \notin DOMAIN issues
           /\ id \in Nat \ {0} /\ id + 1 <= MaxCounter
           /\ DOMAIN issues' = DOMAIN issues \cup {id}
           /\ IsMap(issues', Issues) /\ GraphSound' /\ KeysAreUnique(issues)'
           /\ issues'[id].log = <<EventOf(a, "issue.created")>>
           /\ EventOf(a, "issue.created") \in Events
           /\ EventOf(a, "issue.created").by = CallId(a)
           /\ \A n \in DOMAIN issues : issues'[n] = issues[n]
<1> DEFINE id == NextId(counter)
           c == Call(a)
           event == EventOf(a, "issue.created")
           issue == NewIssue(c.parent, c.blocked, <<event>>)
           checked == With(issues, id, NewIssue(c.parent, c.blocked, <<>>))
<1>1. /\ Typed /\ counter \in Nat /\ DOMAIN issues \subseteq Nat \ {0} /\ IsMap(issues, Issues)
      /\ KeysAreUnique(issues)
  BY DEF StoreInv, Typed, IsMap
<1>2. /\ proc[a].snap = issues /\ proc[a].cnt = counter /\ todo[a] # <<>>
      /\ NewIssueOk(proc[a], c)
  BY BatchIsFresh DEF SnapshotOk
<1>3. id \notin DOMAIN issues /\ id + 1 <= MaxCounter /\ ValidGraph(checked)
  BY <1>2 DEF NewIssueOk, Allocates
<1>4. id \in Nat \ {0}
  BY <1>1 DEF NextId
<1>5. event \in Events /\ event.by = CallId(a)
  BY <1>1, <1>2, EventsOf DEF Typed
<1>6. c.parent \in Nat /\ c.blocked \subseteq Nat \ {0}
  BY <1>1, <1>2, CallIs DEF Typed
<1>7. Batch(a) = With(issues, id, issue)
  BY <1>2 DEF Batch
<1> HIDE DEF event, checked
<1>8. /\ issue \in Issues /\ issue.log = <<event>> /\ issue.key = NoKey
      /\ issue.parent = c.parent /\ issue.blocked = c.blocked
  <2> DEFINE log == <<event>>
             parent == c.parent
             blocked == c.blocked
  <2>1. log \in Seq(Events) \ {<<>>} /\ parent \in Nat /\ blocked \in SUBSET (Nat \ {0})
    BY <1>5, <1>6
  <2>2. issue = [key |-> NoKey, parent |-> parent, blocked |-> blocked, open |-> TRUE, log |-> log]
    BY DEF NewIssue
  <2> HIDE DEF issue, log, parent, blocked
  <2>3. /\ issue \in Issues /\ issue.log = log /\ issue.key = NoKey
        /\ issue.parent = parent /\ issue.blocked = blocked
    BY <2>1, <2>2 DEF Issues, IssuesWith
  <2> QED
    BY <2>3 DEF log, parent, blocked
<1>9. NewIssue(c.parent, c.blocked, <<>>).parent = c.parent
      /\ NewIssue(c.parent, c.blocked, <<>>).blocked = c.blocked
  BY DEF NewIssue
<1> HIDE DEF id, issue, c
<1>10. /\ IsMap(Batch(a), Issues) /\ DOMAIN Batch(a) = DOMAIN issues \cup {id}
       /\ Batch(a)[id] = issue /\ \A n \in DOMAIN issues : Batch(a)[n] = issues[n]
  BY <1>1, <1>3, <1>4, <1>7, <1>8 DEF With, IsMap
<1>11. issues' = Batch(a) /\ Created(a) = DOMAIN Batch(a) \ DOMAIN issues
  BY <1>10, BatchIsWritten
<1>12. /\ DOMAIN issues' = DOMAIN issues \cup {id} /\ issues'[id] = issue
       /\ \A n \in DOMAIN issues : issues'[n] = issues[n]
       /\ IsMap(issues', Issues)
  BY <1>10, <1>11
<1>13. Created(a) = {id}
  BY <1>3, <1>10, <1>11
<1>14. ValidGraph(issues')
  <2>1. /\ DOMAIN checked = DOMAIN issues'
        /\ checked[id] = NewIssue(c.parent, c.blocked, <<>>)
        /\ \A n \in DOMAIN issues : n # id => checked[n] = issues[n]
    BY <1>12 DEF checked, With
  <2>2. checked[id].parent = issue.parent /\ checked[id].blocked = issue.blocked
    BY <1>8, <1>9, <2>1 DEF c
  <2>3. \A n \in DOMAIN checked : /\ checked[n].parent = issues'[n].parent
                                  /\ checked[n].blocked = issues'[n].blocked
    BY <1>3, <1>12, <2>1, <2>2
  <2> DEFINE new == issues'
  <2>4. /\ DOMAIN checked = DOMAIN new /\ ValidGraph(checked)
        /\ \A n \in DOMAIN checked : /\ checked[n].parent = new[n].parent
                                     /\ checked[n].blocked = new[n].blocked
    BY <1>3, <2>1, <2>3
  <2> HIDE DEF new
  <2>5. ValidGraph(new)
    BY ONLY <2>4, LinksDecideTheGraph
  <2> QED
    BY <2>5 DEF new
<1>15. KeysAreUnique(issues)'
  BY <1>1, <1>3, <1>8, <1>12 DEF KeysAreUnique
<1> QED
  BY <1>3, <1>4, <1>5, <1>8, <1>11, <1>12, <1>13, <1>14, <1>15 DEF GraphSound, id, event

\* What `issue apply` writes.
LEMMA PlanIsWritten ==
    ASSUME StoreInv, NEW a \in Actors, ApplyBatch(a), Call(a).op = "apply"
    PROVE  LET id == NextId(counter)
               plan == Call(a).plan
               n == Cardinality(FreshIn(plan, issues))
           IN  /\ Prepared(plan, issues, counter)
               /\ issues' = Planned(plan, issues, counter, CallId(a))
               /\ CallId(a) \in CallIds
               /\ id \in Nat \ {0} /\ n \in Nat /\ (n # 0 => id + n <= MaxCounter)
               /\ Created(a) = id..id + n - 1 /\ Cardinality(Created(a)) = n
               /\ DOMAIN issues' = DOMAIN issues \cup Created(a)
               /\ IsMap(issues', Issues) /\ GraphSound' /\ KeysAreUnique(issues)'
               /\ \A m \in DOMAIN issues' :
                     Grown(LogBefore(issues, m), issues'[m].log, CallId(a))
<1> DEFINE id == NextId(counter)
           plan == Call(a).plan
           fresh == FreshIn(plan, issues)
           n == Cardinality(fresh)
           by == CallId(a)
           made == Planned(plan, issues, counter, by)
           Id(i) == IdAt(plan, issues, counter, i)
<1>1. Typed /\ counter \in Nat /\ IsMap(issues, Issues)
  BY DEF StoreInv, Typed
<1>2. /\ proc[a].snap = issues /\ proc[a].cnt = counter /\ todo[a] # <<>>
      /\ Accepts(plan, issues, counter)
  BY BatchIsFresh DEF SnapshotOk
<1>3. WellFormed(plan) /\ by \in CallIds
  BY <1>1, <1>2, CallIs DEF Typed
<1>4. Prepared(plan, issues, counter)
  BY <1>1, <1>2, <1>3 DEF Prepared
<1>5. Batch(a) = made
  BY <1>2 DEF Batch
<1>6. id \in Nat \ {0}
  BY <1>1 DEF NextId
<1>7. /\ n \in Nat /\ IsFiniteSet(fresh)
      /\ \A i \in fresh : Id(i) \notin DOMAIN issues
      /\ {Id(i) : i \in fresh} = id..id + n - 1
  BY <1>4, FreshIdsFollow
<1>8. \A i \in DOMAIN plan \ fresh : Id(i) \in DOMAIN issues
  BY <1>4, IdsAreTheirOwn
<1>9. Allocates(counter, n)
  BY <1>2 DEF Accepts
<1>10. n # 0 => id + n <= MaxCounter
  BY <1>6, <1>7, <1>9 DEF Allocates
<1>11. MadeBy(plan, issues, counter, by, made)
  BY <1>3, <1>4, PlannedIs
<1>12. ValidGraph(made)
  BY <1>4, PlannedGraphIsValid
<1>13. KeysAreUnique(made)
  BY <1>3, <1>4, PlannedKeysAreUnique
<1> HIDE DEF made, by, plan
<1>14. /\ IsMap(made, Issues) /\ DOMAIN made = DOMAIN issues \cup {Id(i) : i \in DOMAIN plan}
       /\ \A m \in DOMAIN made : Grown(LogBefore(issues, m), made[m].log, by)
  BY <1>11 DEF MadeBy, IdsOf
<1>15. issues' = made /\ Created(a) = DOMAIN made \ DOMAIN issues
  BY <1>5, <1>14, BatchIsWritten
<1>16. fresh \subseteq DOMAIN plan
  BY DEF FreshIn
<1> HIDE DEF fresh, Id
<1>17. DOMAIN made = DOMAIN issues \cup {Id(i) : i \in fresh}
  BY <1>8, <1>14, <1>16
<1>18. Created(a) = {Id(i) : i \in fresh}
  BY <1>7, <1>15, <1>17
<1> HIDE DEF id, n
<1>19. Created(a) = id..id + n - 1
  BY <1>7, <1>18
<1>20. Cardinality(Created(a)) = n
  <2> DEFINE last == id + n - 1
  <2>1. id \in Int /\ last \in Int
    BY <1>6, <1>7
  <2> HIDE DEF last
  <2>2. Cardinality(id..last) = IF id > last THEN 0 ELSE last - id + 1
    BY <2>1, FS_Interval
  <2>3. last = id + n - 1
    BY DEF last
  <2>4. Created(a) = id..last
    BY <1>19, <2>3
  <2> QED
    BY <1>6, <1>7, <2>2, <2>3, <2>4
<1>21. DOMAIN issues' = DOMAIN issues \cup Created(a)
  BY <1>15, <1>17, <1>18
<1>22. GraphSound'
  BY <1>12, <1>15 DEF GraphSound
<1>23. KeysAreUnique(issues)'
  BY <1>13, <1>15 DEF KeysAreUnique
<1>24. \A m \in DOMAIN issues' : Grown(LogBefore(issues, m), issues'[m].log, by)
  BY <1>14, <1>15
<1>25. IsMap(issues', Issues)
  BY <1>14, <1>15
<1>26. issues' = Planned(plan, issues, counter, by)
  BY <1>15 DEF made
<1> QED
  BY <1>3, <1>4, <1>6, <1>7, <1>10, <1>19, <1>20, <1>21, <1>22, <1>23, <1>24, <1>25, <1>26
     DEF id, n, plan, fresh, by

\* An allocation commits: the ids that it creates are those that the counter moves past.
LEMMA ApplyBatchKeeps ==
    ASSUME StoreInv, NEW a \in Actors, ApplyBatch(a)
    PROVE  StoreInv'
<1> DEFINE id == NextId(counter)
           n == Cardinality(Created(a))
<1>1. /\ Typed /\ counter \in Nat /\ proc[a].cnt = counter
      /\ todo[a] # <<>> /\ Call(a).op \in {"new", "apply"}
  BY BatchIsFresh DEF StoreInv, Typed
<1>2. /\ counter' = IF Created(a) = {} THEN counter ELSE id + n
      /\ Claim(a, id) /\ UNCHANGED <<prs, branches>>
      /\ Commits(a, IF Runs(a, "new") THEN id ELSE 0)
      /\ Created(a) \cap DOMAIN issues = {}
  BY <1>1 DEF ApplyBatch, BatchHolds
<1>3. id \in Nat \ {0} /\ counter <= id /\ (counter = 0 \/ counter = id)
  BY <1>1 DEF NextId
<1>4. /\ n \in Nat /\ Created(a) = id..id + n - 1 /\ (n # 0 => id + n <= MaxCounter)
      /\ DOMAIN issues' = DOMAIN issues \cup Created(a)
      /\ IsMap(issues', Issues) /\ GraphSound' /\ KeysAreUnique(issues)'
  <2>1. CASE Call(a).op = "new"
    <3>1. Created(a) = {id} /\ id + 1 <= MaxCounter
      BY <2>1, NewIssueIsWritten
    <3>2. n = 1
      BY <3>1, FS_Singleton
    <3>3. /\ DOMAIN issues' = DOMAIN issues \cup Created(a)
          /\ IsMap(issues', Issues) /\ GraphSound' /\ KeysAreUnique(issues)'
      BY <2>1, <3>1, NewIssueIsWritten
    <3> HIDE DEF n, id
    <3>4. n \in Nat /\ (n # 0 => id + n <= MaxCounter)
      BY <3>1, <3>2
    <3>5. id..id + n - 1 = {id}
      BY <1>3, <3>2
    <3> QED
      BY <3>1, <3>3, <3>4, <3>5
  <2>2. CASE Call(a).op = "apply"
    <3> DEFINE m == Cardinality(FreshIn(Call(a).plan, issues))
    <3>1. /\ m \in Nat /\ (m # 0 => id + m <= MaxCounter)
          /\ Created(a) = id..id + m - 1 /\ Cardinality(Created(a)) = m
          /\ DOMAIN issues' = DOMAIN issues \cup Created(a)
          /\ IsMap(issues', Issues) /\ GraphSound' /\ KeysAreUnique(issues)'
      BY <2>2, PlanIsWritten
    <3> HIDE DEF m
    <3>2. n = m
      BY <3>1
    <3> QED
      BY <3>1, <3>2
  <2> QED
    BY <1>1, <2>1, <2>2
<1> HIDE DEF n
<1>5. Created(a) = {} <=> n = 0
  BY <1>3, <1>4
<1>6. /\ counter' \in Nat /\ counter <= counter' /\ NextId(counter') = id + n
      /\ n # 0 => counter' # counter
  <2>1. CASE n = 0
    BY <1>1, <1>2, <1>3, <1>5, <2>1
  <2>2. CASE n # 0
    <3>1. counter' = id + n
      BY <1>2, <1>5, <2>2
    <3> QED
      BY <1>1, <1>3, <1>4, <2>2, <3>1 DEF NextId
  <2> QED
    BY <2>1, <2>2
<1>7. counter' <= MaxCounter
  <2>1. counter <= MaxCounter
    BY DEF StoreInv, AllocationSound
  <2> QED
    BY <1>2, <1>4, <1>5, <2>1
<1>8. AllocationSound'
  <2>1. /\ DOMAIN issues \cap DOMAIN prs = {}
        /\ DOMAIN issues \cup DOMAIN prs = 1..id - 1
    BY DEF StoreInv, AllocationSound
  <2> HIDE DEF id
  <2>2. Created(a) \cap DOMAIN prs = {}
    <3>1. \A i \in id..id + n - 1 : i \notin 1..id - 1
      BY <1>3, <1>4
    <3> QED
      BY <1>4, <2>1, <3>1
  <2>3. 1..id + n - 1 = (1..id - 1) \cup (id..id + n - 1)
    BY <1>3, <1>4
  <2>4. prs' = prs
    BY <1>2
  <2>5. DOMAIN issues' \cap DOMAIN prs' = {}
    BY <1>4, <2>1, <2>2, <2>4
  <2>6. DOMAIN issues' \cup DOMAIN prs' = 1..id + n - 1
    BY <1>4, <2>1, <2>3, <2>4
  <2>7. NextId(counter') - 1 = id + n - 1
    BY <1>3, <1>4, <1>6
  <2> QED
    BY <1>7, <2>5, <2>6, <2>7 DEF AllocationSound
<1>9. records' \in [DOMAIN records' -> Bindings] /\ DOMAIN records' \subseteq KeyNames
  BY <1>1, <1>2, <1>3, ClaimBinds
<1>10. PICK told \in Nat : Commits(a, told)
  BY <1>2, <1>3
<1>11. DOMAIN issues \subseteq DOMAIN issues' /\ IsMap(prs', Seq(Events))
       /\ (counter' = counter => DOMAIN issues' = DOMAIN issues)
  BY <1>1, <1>2, <1>4, <1>5, <1>6 DEF Typed
<1> HIDE DEF id
<1> QED
  BY <1>1, <1>2, <1>4, <1>6, <1>8, <1>9, <1>10, <1>11, CommittingKeeps DEF Appending

----------------------------------------------------------------------------
(* The invariant holds. *)

LEMMA InitStore == Init => StoreInv
<1> SUFFICES ASSUME Init
             PROVE  StoreInv
  OBVIOUS
<1>1. PICK b \in Beginnings : counter = b.counter /\ issues = b.issues /\ prs = b.prs
  BY DEF Init
<1>2. MayBegin(b)
  BY BeginningsAssumption
<1>3. /\ records = <<>> /\ branches = TRUE /\ proc = [a \in Actors |-> Idle]
      /\ todo \in Plans /\ answers = {}
  BY DEF Init
<1>4. OldEvents \subseteq Events
  BY DEF OldEvents
<1>5. Seq(OldEvents) \subseteq Seq(Events)
  BY <1>4
<1>6. IssuesWith(OldEvents) \subseteq Issues
  BY <1>5 DEF IssuesWith, Issues
<1>7. /\ counter \in Nat /\ counter <= MaxCounter
      /\ DOMAIN issues \cup DOMAIN prs = 1..NextId(counter) - 1
      /\ DOMAIN issues \cap DOMAIN prs = {}
      /\ issues \in [DOMAIN issues -> IssuesWith(OldEvents)]
      /\ prs \in [DOMAIN prs -> Seq(OldEvents)]
      /\ ValidGraph(issues) /\ KeysAreUnique(issues)
  BY <1>1, <1>2, GraphAssumption DEF MayBegin, KeysAreUnique
<1>8. DOMAIN issues \subseteq Nat \ {0} /\ DOMAIN prs \subseteq Nat \ {0}
  <2>1. 1..NextId(counter) - 1 \subseteq Nat \ {0}
    BY <1>7 DEF NextId
  <2> QED
    BY <1>7, <2>1
<1>9. issues \in [DOMAIN issues -> Issues] /\ prs \in [DOMAIN prs -> Seq(Events)]
  BY <1>5, <1>6, <1>7
<1>10. IsMap(issues, Issues) /\ IsMap(prs, Seq(Events))
  BY <1>8, <1>9 DEF IsMap
<1>11. records \in [DOMAIN records -> Bindings] /\ DOMAIN records \subseteq KeyNames
  <2>1. IsMap(<<>>, Bindings) /\ DOMAIN <<>> = {}
    BY NothingIsAMap
  <2> DEFINE nothing == <<>>
  <2>2. records = nothing /\ IsMap(nothing, Bindings) /\ DOMAIN nothing = {}
    BY <1>3, <2>1
  <2> HIDE DEF nothing
  <2> QED
    BY <2>2 DEF IsMap
<1>12. todo \in [Actors -> Seq(Commands)]
  BY <1>3, ScriptsAssumption
<1>13. proc \in [Actors -> Process] /\ branches \in BOOLEAN /\ answers \subseteq Replies
  BY <1>3, IdleIs
<1>14. Typed
  BY <1>7, <1>10, <1>11, <1>12, <1>13 DEF Typed
<1>15. ASSUME NEW a \in Actors
       PROVE  Fits(a) /\ Looked(a)
  <2>1. proc[a].pc = "idle" /\ proc[a].cnt = 0 /\ proc[a].left = {}
    BY <1>3, IdleIs
  <2> QED
    BY <1>7, <2>1 DEF Fits, Looked, At
<1> QED
  BY <1>7, <1>14, <1>15 DEF StoreInv, AllocationSound, GraphSound

LEMMA NextStore ==
    ASSUME StoreInv, [Next]_vars
    PROVE  StoreInv'
<1>1. ASSUME NEW a \in Actors, Step(a)
      PROVE  StoreInv'
  <2>1. CASE Begin(a) \/ Recheck(a) \/ Done(a) \/ Exists(a) \/ ReadClaim(a)
    BY <2>1, CommandKeeps
  <2>2. CASE BatchStep(a)
    <3>1. CASE ReadCounter(a) \/ ReadNames(a) \/ ReadIssue(a)
      BY <3>1, ReadingKeeps
    <3>2. CASE Snapshot(a)
      BY <3>2, SnapshotKeeps
    <3>3. CASE ApplyBatch(a)
      BY <3>3, ApplyBatchKeeps
    <3>4. CASE BatchFails(a) \/ BatchFailed(a)
      BY <3>4, BatchFailingKeeps
    <3> QED
      BY <2>2, <3>1, <3>2, <3>3, <3>4 DEF BatchStep
  <2>3. CASE CreateStep(a)
    <3>1. CASE CreatePr(a)
      BY <3>1, CreatePrKeeps
    <3>2. CASE ReadBranches(a) \/ Allocate(a) \/ CreateFails(a) \/ CreateFailed(a)
      BY <3>2, CreatingKeeps
    <3> QED
      BY <2>3, <3>1, <3>2 DEF CreateStep
  <2>4. CASE AppendStep(a)
    <3>1. CASE WriteEvent(a)
      BY <3>1, WriteEventKeeps
    <3>2. CASE Tip(a) \/ AppendFails(a) \/ AppendFailed(a)
      BY <3>2, AppendingKeeps
    <3> QED
      BY <2>4, <3>1, <3>2 DEF AppendStep
  <2> QED
    BY <1>1, <2>1, <2>2, <2>3, <2>4 DEF Step
<1>2. CASE (\E a \in Actors : Crash(a)) \/ DeleteBranches
  BY <1>2, CrashKeeps
<1>3. CASE UNCHANGED vars
  <2>1. /\ UNCHANGED <<counter, issues, prs, records, branches, proc, todo, answers>>
    BY <1>3 DEF vars
  <2>2. \A a \in Actors : Call(a)' = Call(a) /\ \A pc : At(a, pc)' = At(a, pc)
    BY <2>1 DEF Call, At
  <2>3. \A a \in Actors : Fits(a)' /\ Looked(a)'
    BY <2>1, <2>2 DEF StoreInv, Fits, Looked
  <2> QED
    BY <2>1, <2>3 DEF StoreInv, Typed, AllocationSound, GraphSound, KeysAreUnique
<1> QED
  BY <1>1, <1>2, <1>3 DEF Next

LEMMA StoreHolds == Spec => []StoreInv
<1>1. Init => StoreInv
  BY InitStore
<1>2. StoreInv /\ [Next]_vars => StoreInv'
  BY NextStore
<1> QED
  BY <1>1, <1>2, PTL DEF Spec

----------------------------------------------------------------------------
(* The theorems that follow from it. *)

LEMMA TypesFollow == StoreInv => EntityTypeOK
<1> SUFFICES ASSUME StoreInv
             PROVE  EntityTypeOK
  OBVIOUS
<1>1. /\ counter \in Nat /\ IsMap(issues, Issues) /\ IsMap(prs, Seq(Events))
      /\ records \in [DOMAIN records -> Bindings] /\ DOMAIN records \subseteq KeyNames
      /\ branches \in BOOLEAN /\ proc \in [Actors -> Process]
  BY DEF StoreInv, Typed
<1>2. \A e \in Events : Event(e)
  BY DEF Events, Event
<1>3. ASSUME NEW n \in DOMAIN issues
      PROVE  /\ DOMAIN issues[n] = {"key", "parent", "blocked", "open", "log"}
             /\ issues[n].key \in Keys \cup {NoKey} /\ issues[n].open \in BOOLEAN
             /\ issues[n].parent \in Nat /\ issues[n].blocked \subseteq Nat \ {0}
             /\ issues[n].log # <<>> /\ \A i \in DOMAIN issues[n].log : Event(issues[n].log[i])
  <2> DEFINE s == issues[n]
             log == s.log
  <2>1. s \in Issues
    BY <1>1 DEF IsMap
  <2> HIDE DEF s
  <2>2. /\ DOMAIN s = {"key", "parent", "blocked", "open", "log"}
        /\ s.key \in Keys \cup {NoKey} /\ s.open \in BOOLEAN
        /\ s.parent \in Nat /\ s.blocked \subseteq Nat \ {0}
        /\ log \in Seq(Events) /\ log # <<>>
    BY <2>1 DEF Issues, IssuesWith
  <2> HIDE DEF log
  <2>3. \A i \in DOMAIN log : Event(log[i])
    BY <1>2, <2>2
  <2> QED
    BY <2>2, <2>3 DEF s, log
<1>4. \A n \in DOMAIN prs : \A i \in DOMAIN prs[n] : Event(prs[n][i])
  <2> SUFFICES ASSUME NEW n \in DOMAIN prs
               PROVE  \A i \in DOMAIN prs[n] : Event(prs[n][i])
    OBVIOUS
  <2> DEFINE log == prs[n]
  <2>1. log \in Seq(Events)
    BY <1>1 DEF IsMap
  <2> HIDE DEF log
  <2>2. \A i \in DOMAIN log : Event(log[i])
    BY <1>2, <2>1
  <2> QED
    BY <2>2 DEF log
<1>5. \A name \in DOMAIN records : records[name].id \in Nat \ {0}
  BY <1>1 DEF Bindings
<1>6. ASSUME NEW a \in Actors
      PROVE  /\ DOMAIN proc[a] = DOMAIN Idle
             /\ proc[a].cnt \in Nat /\ proc[a].left \subseteq DOMAIN issues
             /\ (At(a, "idle") \/ todo[a] # <<>>)
  <2> DEFINE p == proc[a]
  <2>1. p \in Process /\ p.left \subseteq DOMAIN issues /\ (At(a, "idle") \/ todo[a] # <<>>)
    BY <1>1 DEF StoreInv, Fits, Looked
  <2> HIDE DEF p
  <2>2. /\ DOMAIN p = {"pc", "cnt", "left", "snap", "log", "tries", "rounds", "why", "id",
                "misled"}
        /\ p.cnt \in Nat
    BY <2>1 DEF Process
  <2>3. DOMAIN Idle = {"pc", "cnt", "left", "snap", "log", "tries", "rounds", "why", "id",
                "misled"}
    <3> DEFINE nothing == <<>>
    <3>1. Idle = [pc |-> "idle", cnt |-> 0, left |-> {}, snap |-> nothing, log |-> nothing,
                  tries |-> 0, rounds |-> 0, why |-> "", id |-> 0, misled |-> FALSE]
      BY DEF Idle
    <3> HIDE DEF nothing
    <3> QED
      BY <3>1
  <2> QED
    BY <2>1, <2>2, <2>3 DEF p
<1>7. DOMAIN issues \cup DOMAIN prs \subseteq Nat \ {0}
  BY <1>1 DEF IsMap
<1>8. DOMAIN records \subseteq {"new", "pr", "comment"} \X Keys
  BY <1>1 DEF KeyNames, KeyedOps
<1> QED
  BY <1>1, <1>3, <1>4, <1>5, <1>6, <1>7, <1>8 DEF EntityTypeOK

(***************************************************************************)
(* The refs and the processes keep their types, and what a process has yet *)
(* to read is still there (store/issue_batch.rs IssueSnapshot).            *)
(***************************************************************************)
THEOREM EntityTypes == Spec => []EntityTypeOK
<1> QED
  BY StoreHolds, TypesFollow, PTL

(***************************************************************************)
(* However many shells allocate, whichever of them are killed, and however *)
(* often each tries, no id is given twice, none is skipped, and the        *)
(* counter stays readable (store.rs create_pr_claimed, issue_batch.rs      *)
(* apply_issue_batch_claimed).                                             *)
(***************************************************************************)
THEOREM Allocation == Spec => []AllocationSound
<1>1. StoreInv => AllocationSound
  BY DEF StoreInv
<1> QED
  BY <1>1, StoreHolds, PTL

(***************************************************************************)
(* The issue graph stays free of cycles and of links to nowhere, for any   *)
(* plans of any shells: a snapshot that is still true when it is committed *)
(* covers every issue there is (issue_apply.rs validate_graph).            *)
(***************************************************************************)
THEOREM TheGraphIsSound == Spec => []GraphSound
<1>1. StoreInv => GraphSound
  BY DEF StoreInv
<1> QED
  BY <1>1, StoreHolds, PTL

(***************************************************************************)
(* No two issues have the key of one plan entry (issue_apply.rs prepare).  *)
(***************************************************************************)
THEOREM PlanKeysAreUnique == Spec => []PlanKeysUnique
<1>1. StoreInv => PlanKeysUnique
  BY DEF StoreInv, KeysAreUnique, PlanKeysUnique
<1> QED
  BY <1>1, StoreHolds, PTL

----------------------------------------------------------------------------
(***************************************************************************)
(* Effects.  An event is a mark that a call leaves on an entity's log.  A  *)
(* call leaves its marks in the step that commits it, which also binds its *)
(* key; what it tells its caller it tells later, when the shell has        *)
(* already gone on to its next call or stays where the commit left it.  A  *)
(* call that is told of a failure, though it was committed, either repeats *)
(* itself, or finds its record, or gives up.                               *)
(***************************************************************************)
LogIn(is, ps, e) == IF e[1] = "issue" THEN is[e[2]].log ELSE ps[e[2]]
EntitiesIn(is, ps) == ({"issue"} \X DOMAIN is) \cup ({"pr"} \X DOMAIN ps)
MarksIn(is, ps) == UNION {{<<e, i>> : i \in DOMAIN LogIn(is, ps, e)} : e \in EntitiesIn(is, ps)}
ByIn(is, ps, x) == LogIn(is, ps, x[1])[x[2]].by

Marks == MarksIn(issues, prs)
By(x) == ByIn(issues, prs, x)

\* A key has the one mark its record is about, or none.
KeysAreMarked ==
    \A name \in KeyNames :
        IF name \notin DOMAIN records THEN \A x \in Marks : By(x).name # name
        ELSE \E x \in Marks :
                /\ By(x).name = name /\ x[1][2] = records[name].id
                /\ \A y \in Marks : By(y).name = name => y = x

\* The process's transaction has been applied, whether it knows it or was told otherwise.
Applied(a) == At(a, "done") \/ proc[a].misled

\* No call marks anything before it commits, and no call is told of before it is over.
NothingIsMarkedYet ==
    /\ \A x \in Marks : \A a \in Actors :
          By(x).shell = a =>
             /\ By(x).left >= Len(todo[a])
             /\ (By(x).left = Len(todo[a]) => Applied(a))
    /\ \A r \in answers : r.by.shell \in Actors /\ r.by.left > Len(todo[r.by.shell])

\* A call that has committed has its mark, and its key; one mark, unless it was told that it
\* had failed.
Marked(by) == \E x \in Marks : By(x) = by
MarkedOnce(by) == \E x \in Marks : By(x) = by /\ \A y \in Marks : By(y) = by => y = x
Repeats(c) == ~Keyed(c) /\ c.op \notin {"new", "apply"}
CommittedIsMarked(a) ==
    Applied(a) =>
        /\ Call(a).op # "apply" => Marked(CallId(a)) /\ (proc[a].misled \/ MarkedOnce(CallId(a)))
        /\ Keyed(Call(a)) =>
              /\ Recorded(Call(a)) /\ records[RecordName(Call(a))].request = Call(a)
              /\ At(a, "done") => records[RecordName(Call(a))].id = proc[a].id

\* A process that was told that its transaction had failed, when it had not, and that will not
\* repeat it: it is about to read its record, or to give up.
MisledEnds(a) ==
    proc[a].misled =>
        \/ Repeats(Call(a))
        \/ Keyed(Call(a)) /\ At(a, "claim")
        \/ ~Keyed(Call(a)) /\ At(a, "failed") /\ proc[a].why = "fault"

\* The answers are true.
Excused(r) == r.misled /\ ~Keyed(r.call)
IsMarked(r) ==
    /\ r.how # "ok" => (\A x \in Marks : By(x) # r.by) \/ Excused(r)
    /\ r.how = "ok" /\ ~Keyed(r.call) /\ r.call.op # "apply" =>
          Marked(r.by) /\ (MarkedOnce(r.by) \/ (Excused(r) /\ r.call.op # "new"))
AnswersAreMarked == \A r \in answers : IsMarked(r)

EffectInv ==
    /\ KeysAreMarked /\ NothingIsMarkedYet /\ AnswersAreMarked
    /\ \A a \in Actors : CommittedIsMarked(a) /\ MisledEnds(a)

----------------------------------------------------------------------------
(* What a step of a process is, as the callers and the logs see it. *)

\* The process goes on, without a commit or an answer.
Ponders(a) ==
    /\ todo[a] # <<>> /\ refs' = refs /\ ~At(a, "done")
    /\ \E p : p.pc \notin {"idle", "done"} /\ p.misled = proc[a].misled /\ Becomes(a, p)

\* The process answers: after its commit, from a record, or because nothing was done.
Tells(a) ==
    /\ todo[a] # <<>> /\ refs' = refs
    /\ \/ At(a, "done") /\ Answers(a, "ok", proc[a].id)
       \/ ~At(a, "done") /\ Keyed(Call(a)) /\ Recorded(Call(a)) /\ Resolved(a)
       \/ ~At(a, "done") /\ (Keyed(Call(a)) => ~Recorded(Call(a))) /\ Answers(a, "refused", 0)

LEMMA GoingPonders ==
    ASSUME StoreInv, NEW a \in Actors, todo[a] # <<>>, refs' = refs, ~At(a, "done"),
           NEW pc, pc \notin {"idle", "done"}, Goes(a, pc)
    PROVE  Ponders(a)
<1> DEFINE p == proc[a]
<1>1. p \in Process
  BY DEF StoreInv, Typed
<1> HIDE DEF p
<1>2. [p EXCEPT !.pc = pc].pc = pc /\ [p EXCEPT !.pc = pc].misled = p.misled
  BY <1>1 DEF Process
<1>3. Becomes(a, [p EXCEPT !.pc = pc])
  BY DEF Goes, p
<1> QED
  BY <1>2, <1>3 DEF Ponders, p

\* A failing call goes on to read its record, or answers at once when it has no key.
LEMMA FailingPonders ==
    ASSUME StoreInv, NEW a \in Actors, todo[a] # <<>>, refs' = refs, ~At(a, "done"), Fails(a)
    PROVE  Ponders(a) \/ Tells(a)
<1>1. CASE Keyed(Call(a))
  <2>1. Goes(a, "recheck")
    BY <1>1 DEF Fails
  <2> QED
    BY <2>1, GoingPonders
<1>2. CASE ~Keyed(Call(a))
  BY <1>2 DEF Fails, Tells
<1> QED
  BY <1>1, <1>2

LEMMA RestartingPonders ==
    ASSUME StoreInv, NEW a \in Actors, todo[a] # <<>>, refs' = refs, ~At(a, "done"), Restarts(a)
    PROVE  Ponders(a) \/ Tells(a)
<1> DEFINE p == proc[a]
<1>1. p \in Process
  BY DEF StoreInv, Typed
<1>2. CASE Runs(a, "new") /\ proc[a].tries + 1 < MaxAllocRetries
  <2> DEFINE q == [p EXCEPT !.pc = "counter", !.tries = @ + 1, !.rounds = 0]
  <2>1. Becomes(a, q)
    BY <1>2 DEF Restarts
  <2> HIDE DEF p
  <2>2. q.pc = "counter" /\ q.misled = p.misled
    BY <1>1 DEF Process
  <2> QED
    BY <2>1, <2>2 DEF Ponders, p
<1>3. CASE ~(Runs(a, "new") /\ proc[a].tries + 1 < MaxAllocRetries)
  <2>1. Fails(a)
    BY <1>3 DEF Restarts
  <2> QED
    BY <2>1, FailingPonders
<1> QED
  BY <1>2, <1>3

LEMMA FailedTransactionPonders ==
    ASSUME StoreInv, NEW a \in Actors, todo[a] # <<>>, ~At(a, "done"),
           NEW holds, FailsUnless(a, holds)
    PROVE  Ponders(a)
<1>1. Typed
  BY DEF StoreInv
<1>2. PICK q, why : refs' = refs /\ TakesForFailed(a, q, why, FALSE)
  BY <1>1, FailedTransactions
<1>3. Becomes(a, q) /\ q.pc \notin {"idle", "done"} /\ (q.misled <=> proc[a].misled)
  BY <1>2 DEF TakesForFailed, NextOfFailure
<1>4. q.misled = proc[a].misled
  <2>1. q.misled \in BOOLEAN /\ proc[a].misled \in BOOLEAN
    BY <1>1, <1>2, ProcessIs DEF TakesForFailed, Process
  <2> QED
    BY <1>3, <2>1
<1> QED
  BY <1>2, <1>3, <1>4 DEF Ponders

LEMMA CommandsPonder ==
    ASSUME StoreInv, NEW a \in Actors,
           Begin(a) \/ Recheck(a) \/ Done(a) \/ Exists(a) \/ ReadClaim(a)
    PROVE  Ponders(a) \/ Tells(a)
<1>1. refs' = refs
  BY DEF Begin, Recheck, Done, Exists, ReadClaim, Reads
<1>2. todo[a] # <<>>
  BY DEF StoreInv, Fits, At, Begin, Recheck, Done, Exists, ReadClaim
<1>3. CASE Begin(a)
  <2>1. ~At(a, "done")
    BY <1>3 DEF Begin, At
  <2>2. CASE Replays(Call(a))
    BY <1>1, <1>2, <1>3, <2>1, <2>2 DEF Begin, Replays, Tells
  <2>3. CASE ~Replays(Call(a))
    <3> DEFINE pc == FirstPc(Call(a))
    <3>1. Goes(a, pc)
      BY <1>3, <2>3 DEF Begin
    <3>2. pc \notin {"idle", "done"}
      BY DEF FirstPc
    <3> HIDE DEF pc
    <3> QED
      BY <1>1, <1>2, <2>1, <3>1, <3>2, GoingPonders
  <2> QED
    BY <2>2, <2>3
<1>4. CASE Recheck(a)
  <2>1. ~At(a, "done")
    BY <1>4 DEF Recheck, At
  <2>2. Keyed(Call(a))
    BY <1>4 DEF Recheck, StoreInv, Fits, At
  <2> QED
    BY <1>1, <1>2, <1>4, <2>1, <2>2 DEF Recheck, Tells
<1>5. CASE Done(a)
  BY <1>1, <1>2, <1>5 DEF Done, Tells
<1>6. CASE Exists(a)
  <2>1. ~At(a, "done")
    BY <1>6 DEF Exists, At
  <2>2. CASE Fails(a)
    BY <1>1, <1>2, <2>1, <2>2, FailingPonders
  <2>3. CASE Goes(a, "branch")
    BY <1>1, <1>2, <2>1, <2>3, GoingPonders
  <2>4. CASE Goes(a, "tip")
    BY <1>1, <1>2, <2>1, <2>4, GoingPonders
  <2> QED
    BY <1>6, <2>2, <2>3, <2>4 DEF Exists
<1>7. CASE ReadClaim(a)
  <2>1. ~At(a, "done")
    BY <1>7 DEF ReadClaim, At
  <2>2. Keyed(Call(a))
    BY <1>7 DEF ReadClaim, StoreInv, Fits, At
  <2>3. CASE Recorded(Call(a))
    BY <1>1, <1>2, <1>7, <2>1, <2>2, <2>3 DEF ReadClaim, Tells
  <2>4. CASE ~Recorded(Call(a))
    <3>1. Goes(a, "failed")
      BY <1>7, <2>4 DEF ReadClaim
    <3> QED
      BY <1>1, <1>2, <2>1, <3>1, GoingPonders
  <2> QED
    BY <2>3, <2>4
<1> QED
  BY <1>3, <1>4, <1>5, <1>6, <1>7

LEMMA BatchesPonder ==
    ASSUME StoreInv, NEW a \in Actors,
           ReadCounter(a) \/ ReadNames(a) \/ ReadIssue(a) \/ Snapshot(a)
           \/ BatchFails(a) \/ BatchFailed(a)
    PROVE  Ponders(a) \/ Tells(a)
<1> DEFINE p == proc[a]
<1>1. /\ refs' = refs /\ ~At(a, "done") /\ todo[a] # <<>>
  BY DEF StoreInv, Fits, At, ReadCounter, ReadNames, ReadIssue, Snapshot, BatchFails,
         BatchFailed, FailsUnless, Reads
<1>2. p \in Process
  BY DEF StoreInv, Typed
<1>3. CASE ReadCounter(a)
  <2> DEFINE nothing == <<>>
             q == [p EXCEPT !.pc = "names", !.cnt = counter, !.snap = nothing]
  <2>1. Becomes(a, q)
    BY <1>3 DEF ReadCounter
  <2> HIDE DEF p, nothing
  <2>2. q.pc = "names" /\ q.misled = p.misled
    BY <1>2 DEF Process
  <2> QED
    BY <1>1, <2>1, <2>2 DEF Ponders, p
<1>4. CASE ReadNames(a)
  <2> DEFINE q == [p EXCEPT !.pc = "issues", !.left = DOMAIN issues]
  <2>1. Becomes(a, q)
    BY <1>4 DEF ReadNames
  <2> HIDE DEF p
  <2>2. q.pc = "issues" /\ q.misled = p.misled
    BY <1>2 DEF Process
  <2> QED
    BY <1>1, <2>1, <2>2 DEF Ponders, p
<1>5. CASE ReadIssue(a)
  <2> DEFINE n == Min(p.left)
             left == p.left \ {n}
             snap == With(p.snap, n, issues[n])
             q == [p EXCEPT !.left = left, !.snap = snap]
  <2>1. Becomes(a, q)
    BY <1>5 DEF ReadIssue
  <2>2. p.pc = "issues"
    BY <1>5 DEF ReadIssue, At
  <2> HIDE DEF p, n, left, snap
  <2>3. q.pc = "issues" /\ q.misled = p.misled
    BY <1>2, <2>2 DEF Process
  <2> QED
    BY <1>1, <2>1, <2>3 DEF Ponders, p
<1>6. CASE Snapshot(a)
  <2> DEFINE q == [p EXCEPT !.pc = "counter", !.rounds = @ + 1]
  <2>1. Becomes(a, q) \/ Restarts(a) \/ Goes(a, "batch") \/ Fails(a)
    BY <1>6 DEF Snapshot
  <2>2. CASE Becomes(a, q)
    <3> HIDE DEF p
    <3>1. q.pc = "counter" /\ q.misled = p.misled
      BY <1>2 DEF Process
    <3> QED
      BY <1>1, <2>2, <3>1 DEF Ponders, p
  <2> QED
    BY <1>1, <2>1, <2>2, GoingPonders, FailingPonders, RestartingPonders
<1>7. CASE BatchFails(a)
  BY <1>1, <1>7, FailedTransactionPonders DEF BatchFails
<1>8. CASE BatchFailed(a)
  <2>1. Restarts(a) \/ Fails(a)
    BY <1>8 DEF BatchFailed
  <2> QED
    BY <1>1, <2>1, FailingPonders, RestartingPonders
<1> QED
  BY <1>3, <1>4, <1>5, <1>6, <1>7, <1>8

LEMMA CreatingPonders ==
    ASSUME StoreInv, NEW a \in Actors,
           ReadBranches(a) \/ Allocate(a) \/ CreateFails(a) \/ CreateFailed(a)
    PROVE  Ponders(a) \/ Tells(a)
<1> DEFINE p == proc[a]
           taken == [p EXCEPT !.pc = "create", !.cnt = counter]
           again == [p EXCEPT !.pc = "alloc", !.tries = @ + 1]
<1>1. /\ refs' = refs /\ ~At(a, "done") /\ todo[a] # <<>>
  BY DEF StoreInv, Fits, At, ReadBranches, Allocate, CreateFails, CreateFailed, FailsUnless, Reads
<1>2. p \in Process
  BY DEF StoreInv, Typed
<1>3. \/ Goes(a, "alloc") \/ Fails(a) \/ Becomes(a, taken) \/ Becomes(a, again)
      \/ FailsUnless(a, CreateHolds(a))
  BY DEF ReadBranches, Allocate, CreateFails, CreateFailed
<1>4. /\ taken.pc = "create" /\ again.pc = "alloc"
      /\ taken.misled = p.misled /\ again.misled = p.misled
  <2> HIDE DEF p
  <2> QED
    BY <1>2 DEF Process
<1>5. CASE Becomes(a, taken) \/ Becomes(a, again)
  <2> HIDE DEF taken, again
  <2> QED
    BY <1>1, <1>4, <1>5 DEF Ponders, p
<1>6. CASE FailsUnless(a, CreateHolds(a))
  <2> DEFINE holds == CreateHolds(a)
  <2>1. FailsUnless(a, holds)
    BY <1>6
  <2> HIDE DEF holds
  <2> QED
    BY <1>1, <2>1, FailedTransactionPonders
<1> QED
  BY <1>1, <1>3, <1>5, <1>6, GoingPonders, FailingPonders

LEMMA AppendingPonders ==
    ASSUME StoreInv, NEW a \in Actors, Tip(a) \/ AppendFails(a) \/ AppendFailed(a)
    PROVE  Ponders(a) \/ Tells(a)
<1> DEFINE p == proc[a]
           log == issues[Call(a).id].log
           next == IF Keyed(Call(a)) THEN "append" ELSE "tip"
           taken == [p EXCEPT !.pc = "append", !.log = log]
           again == [p EXCEPT !.tries = @ + 1, !.log = log, !.pc = next]
<1>1. /\ refs' = refs /\ ~At(a, "done") /\ todo[a] # <<>>
  BY DEF StoreInv, Fits, At, Tip, AppendFails, AppendFailed, FailsUnless, Reads
<1>2. p \in Process
  BY DEF StoreInv, Typed
<1>3. \/ Fails(a) \/ Becomes(a, taken) \/ Becomes(a, again) \/ FailsUnless(a, AppendHolds(a))
  BY DEF Tip, AppendFails, AppendFailed
<1>4. /\ taken.pc \notin {"idle", "done"} /\ again.pc \notin {"idle", "done"}
      /\ taken.misled = p.misled /\ again.misled = p.misled
  <2> HIDE DEF p, log
  <2> QED
    BY <1>2 DEF Process
<1>5. CASE Becomes(a, taken) \/ Becomes(a, again)
  <2> HIDE DEF taken, again
  <2> QED
    BY <1>1, <1>4, <1>5 DEF Ponders, p
<1>6. CASE FailsUnless(a, AppendHolds(a))
  <2> DEFINE holds == AppendHolds(a)
  <2>1. FailsUnless(a, holds)
    BY <1>6
  <2> HIDE DEF holds
  <2> QED
    BY <1>1, <2>1, FailedTransactionPonders
<1> QED
  BY <1>1, <1>3, <1>5, <1>6, FailingPonders

\* A step of a process commits, answers, or does neither.
LEMMA StepsAre ==
    ASSUME StoreInv, NEW a \in Actors, Step(a)
    PROVE  Ponders(a) \/ Tells(a) \/ ApplyBatch(a) \/ CreatePr(a) \/ WriteEvent(a)
BY CommandsPonder, BatchesPonder, CreatingPonders, AppendingPonders
   DEF Step, BatchStep, CreateStep, AppendStep

\* What a step does to a process: b's step moves b alone, and only a transaction that is
\* applied makes it "done" or misled.
LEMMA OnlyCommitsApply ==
    ASSUME StoreInv, [Next]_vars, NEW a \in Actors,
           \/ ~At(a, "done") /\ proc'[a].pc = "done"
           \/ ~proc[a].misled /\ proc'[a].misled
    PROVE  ApplyBatch(a) \/ CreatePr(a) \/ WriteEvent(a)
<1>1. Typed
  BY DEF StoreInv
<1>2. proc' # proc
  BY DEF At
<1>3. PICK b \in Actors : Step(b) \/ Crash(b)
  BY <1>2 DEF Next, vars, DeleteBranches
<1>4. PICK p : /\ proc' = [proc EXCEPT ![b] = p]
               /\ p.pc = "done" \/ (p.misled /\ ~proc[b].misled) =>
                     ApplyBatch(b) \/ CreatePr(b) \/ WriteEvent(b)
  <2>1. CASE Ponders(b)
    <3>1. PICK p : p.pc # "done" /\ p.misled = proc[b].misled /\ Becomes(b, p)
      BY <2>1 DEF Ponders
    <3> QED
      BY <3>1 DEF Becomes
  <2>2. CASE Tells(b) \/ Crash(b)
    <3>1. proc' = [proc EXCEPT ![b] = Idle]
      BY <2>2 DEF Tells, Crash, Answers, Resolved
    <3> QED
      BY <3>1, IdleIs
  <2>3. CASE ApplyBatch(b) \/ CreatePr(b) \/ WriteEvent(b)
    <3>1. \E p : proc' = [proc EXCEPT ![b] = p]
      BY <2>3 DEF ApplyBatch, CreatePr, WriteEvent, Commits, ToldOfFailure, Becomes
    <3> QED
      BY <2>3, <3>1
  <2> QED
    BY <1>3, <2>1, <2>2, <2>3, StepsAre
<1>5. proc'[b] = p /\ \A c \in Actors \ {b} : proc'[c] = proc[c]
  BY <1>1, <1>4, OtherProcesses
<1>6. b = a
  BY <1>5 DEF At
<1> QED
  BY <1>4, <1>5, <1>6

(***************************************************************************)
(* When a plan's batch is committed, every entry of the plan is as it asks *)
(* in the issues that the step leaves, the entries found unchanged         *)
(* included, also when git reports the commit as a failure                 *)
(* (issue_batch.rs apply_issue_batch_claimed, verify lines).               *)
(***************************************************************************)
THEOREM AppliedPlansHold == Spec => AppliedPlanHolds
<1>1. ASSUME StoreInv, [Next]_vars, NEW a \in Actors,
             At(a, "batch"), proc'[a].pc = "done" \/ (proc'[a].misled /\ ~proc[a].misled),
             Call(a).op = "apply"
      PROVE  \A i \in DOMAIN Call(a).plan : Satisfied(Call(a).plan[i], issues')
  <2>1. ~At(a, "done")
    BY <1>1 DEF At
  <2>2. ApplyBatch(a)
    <3>1. ApplyBatch(a) \/ CreatePr(a) \/ WriteEvent(a)
      BY <1>1, <2>1, OnlyCommitsApply
    <3> QED
      BY <1>1, <3>1 DEF CreatePr, WriteEvent, At
  <2> DEFINE plan == Call(a).plan
             by == CallId(a)
             made == Planned(plan, issues, counter, by)
  <2>3. Prepared(plan, issues, counter) /\ issues' = made /\ by \in CallIds
    BY <1>1, <2>2, PlanIsWritten
  <2> HIDE DEF plan, by
  <2>4. \A i \in DOMAIN plan : Satisfied(plan[i], made)
    BY <2>3, PlannedSatisfies
  <2> QED
    BY <2>3, <2>4 DEF plan
<1>2. StoreInv /\ [Next]_vars =>
         [\A a \in Actors :
             LET applied == proc'[a].pc = "done" \/ (proc'[a].misled /\ ~proc[a].misled) IN
             At(a, "batch") /\ applied /\ Call(a).op = "apply" =>
                 \A i \in DOMAIN Call(a).plan : Satisfied(Call(a).plan[i], issues')]_vars
  BY <1>1
<1> QED
  BY <1>2, StoreHolds, PTL DEF Spec, AppliedPlanHolds

----------------------------------------------------------------------------
(* How the marks grow. *)

IssueMark(n, i) == <<<<"issue", n>>, i>>
PrMark(n, i) == <<<<"pr", n>>, i>>

LEMMA MarksAre ==
    ASSUME NEW is, NEW ps
    PROVE  /\ \A n, i : IssueMark(n, i) \in MarksIn(is, ps) <=> n \in DOMAIN is /\ i \in DOMAIN is[n].log
           /\ \A n, i : PrMark(n, i) \in MarksIn(is, ps) <=> n \in DOMAIN ps /\ i \in DOMAIN ps[n]
           /\ \A n, i : ByIn(is, ps, IssueMark(n, i)) = is[n].log[i].by
           /\ \A n, i : ByIn(is, ps, PrMark(n, i)) = ps[n][i].by
           /\ \A x \in MarksIn(is, ps) :
                 \/ \E n \in DOMAIN is : \E i \in DOMAIN is[n].log : x = IssueMark(n, i)
                 \/ \E n \in DOMAIN ps : \E i \in DOMAIN ps[n] : x = PrMark(n, i)
           /\ \A n, i : IssueMark(n, i)[1][2] = n /\ PrMark(n, i)[1][2] = n
<1>1. \A e, i : <<e, i>> \in MarksIn(is, ps) <=> e \in EntitiesIn(is, ps) /\ i \in DOMAIN LogIn(is, ps, e)
  BY DEF MarksIn
<1>2. \A x \in MarksIn(is, ps) : \E e \in EntitiesIn(is, ps) : \E i \in DOMAIN LogIn(is, ps, e) : x = <<e, i>>
  BY DEF MarksIn
<1>3. \A n : /\ <<"issue", n>> \in EntitiesIn(is, ps) <=> n \in DOMAIN is
             /\ <<"pr", n>> \in EntitiesIn(is, ps) <=> n \in DOMAIN ps
             /\ LogIn(is, ps, <<"issue", n>>) = is[n].log
             /\ LogIn(is, ps, <<"pr", n>>) = ps[n]
  BY DEF EntitiesIn, LogIn
<1>4. \A e \in EntitiesIn(is, ps) : (\E n \in DOMAIN is : e = <<"issue", n>>)
                                   \/ (\E n \in DOMAIN ps : e = <<"pr", n>>)
  BY DEF EntitiesIn
<1>5. \A x \in MarksIn(is, ps) :
         \/ \E n \in DOMAIN is : \E i \in DOMAIN is[n].log : x = IssueMark(n, i)
         \/ \E n \in DOMAIN ps : \E i \in DOMAIN ps[n] : x = PrMark(n, i)
  <2> SUFFICES ASSUME NEW x \in MarksIn(is, ps)
               PROVE  \/ \E n \in DOMAIN is : \E i \in DOMAIN is[n].log : x = IssueMark(n, i)
                      \/ \E n \in DOMAIN ps : \E i \in DOMAIN ps[n] : x = PrMark(n, i)
    OBVIOUS
  <2>1. PICK e \in EntitiesIn(is, ps) : \E i \in DOMAIN LogIn(is, ps, e) : x = <<e, i>>
    BY <1>2
  <2>2. PICK i \in DOMAIN LogIn(is, ps, e) : x = <<e, i>>
    BY <2>1
  <2> QED
    BY <1>3, <1>4, <2>2 DEF IssueMark, PrMark
<1>6. \A n, i : ByIn(is, ps, IssueMark(n, i)) = is[n].log[i].by
                /\ ByIn(is, ps, PrMark(n, i)) = ps[n][i].by
  BY DEF ByIn, LogIn, IssueMark, PrMark
<1>7. \A n, i : IssueMark(n, i)[1][2] = n /\ PrMark(n, i)[1][2] = n
  BY DEF IssueMark, PrMark
<1> QED
  BY <1>1, <1>3, <1>5, <1>6, <1>7 DEF IssueMark, PrMark

\* What the marks are after every log has been left alone or added to by call by.
PrLogBefore(ps, n) == IF n \in DOMAIN ps THEN ps[n] ELSE <<>>
MarksOf(is, ps, is2, ps2, by) ==
    /\ MarksIn(is, ps) \subseteq MarksIn(is2, ps2)
    /\ \A x \in MarksIn(is, ps) : ByIn(is2, ps2, x) = ByIn(is, ps, x)
    /\ \A x \in MarksIn(is2, ps2) \ MarksIn(is, ps) : ByIn(is2, ps2, x) = by
LEMMA MarksGrow ==
    ASSUME NEW is, NEW ps, NEW is2, NEW ps2, NEW by,
           DOMAIN is \subseteq DOMAIN is2, DOMAIN ps \subseteq DOMAIN ps2,
           \A n \in DOMAIN is2 : Grown(LogBefore(is, n), is2[n].log, by),
           \A n \in DOMAIN ps2 : Grown(PrLogBefore(ps, n), ps2[n], by)
    PROVE  MarksOf(is, ps, is2, ps2, by)
<1>1. \A n \in DOMAIN is :
         /\ DOMAIN is[n].log \subseteq DOMAIN is2[n].log
         /\ \A i \in DOMAIN is[n].log : is2[n].log[i] = is[n].log[i]
         /\ \A i \in DOMAIN is2[n].log \ DOMAIN is[n].log : is2[n].log[i].by = by
  BY DEF Grown, LogBefore
<1>2. \A n \in DOMAIN ps :
         /\ DOMAIN ps[n] \subseteq DOMAIN ps2[n]
         /\ \A i \in DOMAIN ps[n] : ps2[n][i] = ps[n][i]
         /\ \A i \in DOMAIN ps2[n] \ DOMAIN ps[n] : ps2[n][i].by = by
  BY DEF Grown, PrLogBefore
<1>3. DOMAIN <<>> = {}
  OBVIOUS
<1>4. \A n \in DOMAIN is2 \ DOMAIN is : \A i \in DOMAIN is2[n].log : is2[n].log[i].by = by
  <2> SUFFICES ASSUME NEW n \in DOMAIN is2 \ DOMAIN is, NEW i \in DOMAIN is2[n].log
               PROVE  is2[n].log[i].by = by
    OBVIOUS
  <2>1. Grown(LogBefore(is, n), is2[n].log, by)
    OBVIOUS
  <2>2. DOMAIN LogBefore(is, n) = {}
    BY <1>3 DEF LogBefore
  <2> QED
    BY <2>1, <2>2 DEF Grown
<1>5. \A n \in DOMAIN ps2 \ DOMAIN ps : \A i \in DOMAIN ps2[n] : ps2[n][i].by = by
  <2> SUFFICES ASSUME NEW n \in DOMAIN ps2 \ DOMAIN ps, NEW i \in DOMAIN ps2[n]
               PROVE  ps2[n][i].by = by
    OBVIOUS
  <2>1. Grown(PrLogBefore(ps, n), ps2[n], by)
    OBVIOUS
  <2>2. DOMAIN PrLogBefore(ps, n) = {}
    BY <1>3 DEF PrLogBefore
  <2> QED
    BY <2>1, <2>2 DEF Grown
<1>6. ASSUME NEW x \in MarksIn(is, ps)
      PROVE  x \in MarksIn(is2, ps2) /\ ByIn(is2, ps2, x) = ByIn(is, ps, x)
  <2>1. CASE \E n \in DOMAIN is : \E i \in DOMAIN is[n].log : x = IssueMark(n, i)
    BY SMTT(30), <1>1, <2>1, MarksAre
  <2>2. CASE \E n \in DOMAIN ps : \E i \in DOMAIN ps[n] : x = PrMark(n, i)
    BY SMTT(30), <1>2, <2>2, MarksAre
  <2> QED
    BY <2>1, <2>2, MarksAre
<1>7. ASSUME NEW x \in MarksIn(is2, ps2), x \notin MarksIn(is, ps)
      PROVE  ByIn(is2, ps2, x) = by
  <2>1. CASE \E n \in DOMAIN is2 : \E i \in DOMAIN is2[n].log : x = IssueMark(n, i)
    <3>1. PICK n \in DOMAIN is2 : \E i \in DOMAIN is2[n].log : x = IssueMark(n, i)
      BY <2>1
    <3>2. PICK i \in DOMAIN is2[n].log : x = IssueMark(n, i)
      BY <3>1
    <3>3. ~(n \in DOMAIN is /\ i \in DOMAIN is[n].log)
      BY <1>7, <3>2, MarksAre
    <3>4. is2[n].log[i].by = by
      BY <1>1, <1>4, <3>3
    <3> QED
      BY <3>2, <3>4, MarksAre
  <2>2. CASE \E n \in DOMAIN ps2 : \E i \in DOMAIN ps2[n] : x = PrMark(n, i)
    <3>1. PICK n \in DOMAIN ps2 : \E i \in DOMAIN ps2[n] : x = PrMark(n, i)
      BY <2>2
    <3>2. PICK i \in DOMAIN ps2[n] : x = PrMark(n, i)
      BY <3>1
    <3>3. ~(n \in DOMAIN ps /\ i \in DOMAIN ps[n])
      BY <1>7, <3>2, MarksAre
    <3>4. ps2[n][i].by = by
      BY <1>2, <1>5, <3>3
    <3> QED
      BY <3>2, <3>4, MarksAre
  <2> QED
    BY <2>1, <2>2, MarksAre
<1> QED
  BY <1>6, <1>7 DEF MarksOf

\* A commit of call a for entity id: its marks are the call's, and a command that is not a
\* plan leaves one, on that entity.
MarkedBy(by) ==
    /\ Marks \subseteq Marks'
    /\ \A x \in Marks : By(x)' = By(x)
    /\ \A x \in Marks' \ Marks : By(x)' = by
OneMark(id) == \E x : Marks' \ Marks = {x} /\ x[1][2] = id
Writes(a, id) ==
    /\ todo[a] # <<>> /\ proc[a].pc \notin {"done", "claim", "failed"} /\ ClaimHolds(a)
    /\ MarkedBy(CallId(a))
    /\ Call(a).op # "apply" => id \in Nat \ {0} /\ OneMark(id)
    /\ Claim(a, id) /\ Commits(a, id)

LEMMA LogsAre ==
    ASSUME Typed
    PROVE  /\ \A by : \A n \in DOMAIN issues : Grown(LogBefore(issues, n), issues[n].log, by)
           /\ \A by : \A n \in DOMAIN prs : Grown(PrLogBefore(prs, n), prs[n], by)
           /\ \A n \in DOMAIN issues : issues[n].log \in Seq(Events)
<1>1. ASSUME NEW n \in DOMAIN issues
      PROVE  issues[n].log \in Seq(Events)
  <2> DEFINE s == issues[n]
  <2>1. s \in Issues
    BY DEF Typed, IsMap
  <2> HIDE DEF s
  <2>2. s.log \in Seq(Events)
    BY <2>1 DEF Issues, IssuesWith
  <2> QED
    BY <2>2 DEF s
<1>2. \A n \in DOMAIN prs : prs[n] \in Seq(Events)
  BY DEF Typed, IsMap
<1> QED
  BY <1>1, <1>2 DEF Grown, LogBefore, PrLogBefore

LEMMA GrowthMarks ==
    ASSUME NEW by, DOMAIN issues \subseteq DOMAIN issues', DOMAIN prs \subseteq DOMAIN prs',
           \A n \in DOMAIN issues' : Grown(LogBefore(issues, n), issues'[n].log, by),
           \A n \in DOMAIN prs' : Grown(PrLogBefore(prs, n), prs'[n], by)
    PROVE  MarkedBy(by)
<1> DEFINE is == issues
           is2 == issues'
           ps == prs
           ps2 == prs'
<1>1. /\ DOMAIN is \subseteq DOMAIN is2 /\ DOMAIN ps \subseteq DOMAIN ps2
      /\ \A n \in DOMAIN is2 : Grown(LogBefore(is, n), is2[n].log, by)
      /\ \A n \in DOMAIN ps2 : Grown(PrLogBefore(ps, n), ps2[n], by)
  OBVIOUS
<1> HIDE DEF is, is2, ps, ps2
<1>2. MarksOf(is, ps, is2, ps2, by)
  BY <1>1, MarksGrow
<1>3. /\ Marks = MarksIn(is, ps) /\ Marks' = MarksIn(is2, ps2)
      /\ \A x : By(x) = ByIn(is, ps, x) /\ By(x)' = ByIn(is2, ps2, x)
  BY DEF Marks, By, is, is2, ps, ps2
<1> QED
  BY <1>2, <1>3 DEF MarkedBy, MarksOf

LEMMA NewIssueWrites ==
    ASSUME StoreInv, NEW a \in Actors, ApplyBatch(a), Call(a).op = "new"
    PROVE  MarkedBy(CallId(a)) /\ OneMark(NextId(counter))
<1> DEFINE id == NextId(counter)
           by == CallId(a)
           event == EventOf(a, "issue.created")
           log == <<event>>
<1>1. Typed /\ prs' = prs
  BY DEF StoreInv, ApplyBatch
<1>2. /\ id \notin DOMAIN issues /\ DOMAIN issues' = DOMAIN issues \cup {id}
      /\ issues'[id].log = log /\ event \in Events /\ event.by = by
      /\ \A n \in DOMAIN issues : issues'[n] = issues[n]
  BY NewIssueIsWritten
<1>3. DOMAIN LogBefore(issues, id) = {}
  BY <1>2 DEF LogBefore
<1> HIDE DEF id, by, event
<1>4. log \in Seq(Events) /\ DOMAIN log = {1} /\ log[1].by = by
  BY <1>2
<1> HIDE DEF log
<1>5. Grown(LogBefore(issues, id), log, by)
  BY <1>3, <1>4 DEF Grown
<1>6. \A n \in DOMAIN issues' : Grown(LogBefore(issues, n), issues'[n].log, by)
  BY <1>1, <1>2, <1>5, LogsAre
<1>7. \A n \in DOMAIN prs' : Grown(PrLogBefore(prs, n), prs'[n], by)
  BY <1>1, LogsAre
<1>8. MarkedBy(by)
  BY <1>1, <1>2, <1>6, <1>7, GrowthMarks
<1>9. Marks' \ Marks = {IssueMark(id, 1)}
  <2>1. IssueMark(id, 1) \in Marks' /\ IssueMark(id, 1) \notin Marks
    BY <1>2, <1>4, MarksAre DEF Marks
  <2>2. ASSUME NEW x \in Marks', x # IssueMark(id, 1)
        PROVE  x \in Marks
    <3>1. CASE \E n \in DOMAIN issues' : \E i \in DOMAIN issues'[n].log : x = IssueMark(n, i)
      BY <1>2, <1>4, <2>2, <3>1, MarksAre DEF Marks
    <3>2. CASE \E n \in DOMAIN prs' : \E i \in DOMAIN prs'[n] : x = PrMark(n, i)
      BY <1>1, <3>2, MarksAre DEF Marks
    <3> QED
      BY <2>2, <3>1, <3>2, MarksAre DEF Marks
  <2> QED
    BY <2>1, <2>2
<1>10. OneMark(id)
  BY ZenonT(60), <1>9, MarksAre DEF OneMark
<1> QED
  BY <1>8, <1>10 DEF id, by

LEMMA CreatePrWrites ==
    ASSUME StoreInv, NEW a \in Actors, CreatePr(a)
    PROVE  MarkedBy(CallId(a)) /\ OneMark(NextId(counter)) /\ NextId(counter) \in Nat \ {0}
<1> DEFINE id == NextId(counter)
           by == CallId(a)
           event == EventOf(a, "pr.created")
           log == <<event>>
<1>1. Typed /\ issues' = issues /\ todo[a] # <<>> /\ id \in Nat \ {0}
  BY DEF StoreInv, Typed, Fits, At, CreatePr, NextId
<1>2. /\ id \notin DOMAIN prs /\ prs' = With(prs, id, log)
      /\ event \in Events /\ event.by = by
  BY <1>1, EventsOf DEF CreatePr, CreateHolds, Typed
<1>3. DOMAIN PrLogBefore(prs, id) = {}
  BY <1>2 DEF PrLogBefore
<1> HIDE DEF id, by, event
<1>4. log \in Seq(Events) /\ DOMAIN log = {1} /\ log[1].by = by
  BY <1>2
<1> HIDE DEF log
<1>5. Grown(PrLogBefore(prs, id), log, by)
  BY <1>3, <1>4 DEF Grown
<1>6. /\ DOMAIN prs' = DOMAIN prs \cup {id} /\ prs'[id] = log
      /\ \A n \in DOMAIN prs : prs'[n] = prs[n]
  BY <1>2 DEF With
<1>7. \A n \in DOMAIN prs' : Grown(PrLogBefore(prs, n), prs'[n], by)
  BY <1>1, <1>5, <1>6, LogsAre
<1>8. \A n \in DOMAIN issues' : Grown(LogBefore(issues, n), issues'[n].log, by)
  BY <1>1, LogsAre
<1>9. MarkedBy(by)
  BY <1>1, <1>6, <1>7, <1>8, GrowthMarks
<1>10. Marks' \ Marks = {PrMark(id, 1)}
  <2>1. PrMark(id, 1) \in Marks' /\ PrMark(id, 1) \notin Marks
    BY <1>2, <1>4, <1>6, MarksAre DEF Marks
  <2>2. ASSUME NEW x \in Marks', x # PrMark(id, 1)
        PROVE  x \in Marks
    <3>1. CASE \E n \in DOMAIN issues' : \E i \in DOMAIN issues'[n].log : x = IssueMark(n, i)
      BY <1>1, <3>1, MarksAre DEF Marks
    <3>2. CASE \E n \in DOMAIN prs' : \E i \in DOMAIN prs'[n] : x = PrMark(n, i)
      BY <1>4, <1>6, <2>2, <3>2, MarksAre DEF Marks
    <3> QED
      BY <2>2, <3>1, <3>2, MarksAre DEF Marks
  <2> QED
    BY <2>1, <2>2
<1>11. OneMark(id)
  BY <1>10, MarksAre DEF OneMark
<1> QED
  BY <1>1, <1>9, <1>11 DEF id, by

LEMMA WriteEventWrites ==
    ASSUME StoreInv, NEW a \in Actors, WriteEvent(a)
    PROVE  MarkedBy(CallId(a)) /\ OneMark(Call(a).id) /\ Call(a).id \in Nat \ {0}
<1> DEFINE id == Call(a).id
           by == CallId(a)
           last == Len(issues[id].log) + 1
<1>1. Typed /\ prs' = prs /\ id \in DOMAIN issues
  BY DEF StoreInv, Fits, At, WriteEvent
<1>2. id \in Nat \ {0}
  BY <1>1 DEF Typed, IsMap
<1>3. /\ DOMAIN issues' = DOMAIN issues
      /\ Grown(issues[id].log, issues'[id].log, by)
      /\ DOMAIN issues'[id].log \ DOMAIN issues[id].log = {last}
      /\ \A n \in DOMAIN issues \ {id} : issues'[n] = issues[n]
  BY WriteEventKeeps
<1> HIDE DEF id, by, last
<1>4. \A n \in DOMAIN issues' : Grown(LogBefore(issues, n), issues'[n].log, by)
  <2>1. Grown(LogBefore(issues, id), issues'[id].log, by)
    BY <1>1, <1>3 DEF LogBefore
  <2> QED
    BY <1>1, <1>3, <2>1, LogsAre
<1>5. \A n \in DOMAIN prs' : Grown(PrLogBefore(prs, n), prs'[n], by)
  BY <1>1, LogsAre
<1>6. MarkedBy(by)
  BY <1>1, <1>3, <1>4, <1>5, GrowthMarks
<1>7. Marks' \ Marks = {IssueMark(id, last)}
  <2>1. IssueMark(id, last) \in Marks' /\ IssueMark(id, last) \notin Marks
    BY <1>1, <1>3, MarksAre DEF Marks
  <2>2. ASSUME NEW x \in Marks', x # IssueMark(id, last)
        PROVE  x \in Marks
    <3>1. CASE \E n \in DOMAIN issues' : \E i \in DOMAIN issues'[n].log : x = IssueMark(n, i)
      BY <1>3, <2>2, <3>1, MarksAre DEF Marks
    <3>2. CASE \E n \in DOMAIN prs' : \E i \in DOMAIN prs'[n] : x = PrMark(n, i)
      BY <1>1, <3>2, MarksAre DEF Marks
    <3> QED
      BY <2>2, <3>1, <3>2, MarksAre DEF Marks
  <2> QED
    BY <2>1, <2>2
<1>8. OneMark(id)
  BY <1>7, MarksAre DEF OneMark
<1> QED
  BY <1>2, <1>6, <1>8 DEF id, by

LEMMA PlanWrites ==
    ASSUME StoreInv, NEW a \in Actors, ApplyBatch(a), Call(a).op = "apply"
    PROVE  MarkedBy(CallId(a))
<1> DEFINE by == CallId(a)
<1>1. Typed /\ prs' = prs
  BY DEF StoreInv, ApplyBatch
<1>2. /\ DOMAIN issues \subseteq DOMAIN issues'
      /\ \A n \in DOMAIN issues' : Grown(LogBefore(issues, n), issues'[n].log, by)
  BY PlanIsWritten
<1> HIDE DEF by
<1>3. \A n \in DOMAIN prs' : Grown(PrLogBefore(prs, n), prs'[n], by)
  BY <1>1, LogsAre
<1>4. MarkedBy(by)
  BY <1>1, <1>2, <1>3, GrowthMarks
<1> QED
  BY <1>4 DEF by

\* Every commit is one of a call for an entity.
LEMMA CommitsWrite ==
    ASSUME StoreInv, NEW a \in Actors, ApplyBatch(a) \/ CreatePr(a) \/ WriteEvent(a)
    PROVE  \E id \in Nat : Writes(a, id)
<1>1. /\ proc[a].pc \notin {"done", "claim", "failed"}
      /\ ClaimHolds(a) /\ todo[a] # <<>> /\ Typed
  BY DEF StoreInv, Fits, At, ApplyBatch, BatchHolds, CreatePr, CreateHolds, WriteEvent, AppendHolds
<1>2. CASE ApplyBatch(a) /\ Call(a).op = "new"
  <2> DEFINE id == NextId(counter)
  <2>1. proc[a].cnt = counter /\ id \in Nat \ {0}
    BY <1>2, BatchIsFresh, NewIssueIsWritten
  <2>2. Claim(a, id) /\ Commits(a, id)
    BY <1>2, <2>1 DEF ApplyBatch, Runs, At
  <2>3. MarkedBy(CallId(a)) /\ OneMark(id)
    BY <1>2, NewIssueWrites
  <2> HIDE DEF id
  <2>4. Writes(a, id)
    BY <1>1, <2>1, <2>2, <2>3 DEF Writes
  <2> QED
    BY <2>1, <2>4
<1>3. CASE ApplyBatch(a) /\ Call(a).op = "apply"
  <2>1. MarkedBy(CallId(a))
    BY <1>3, PlanWrites
  <2>2. ~Keyed(Call(a))
    BY <1>1, <1>3, CallIs DEF Typed, KeyedOps
  <2>3. Claim(a, 0) /\ Commits(a, 0)
    BY <1>3, <2>2 DEF ApplyBatch, Runs, Claim
  <2>4. Writes(a, 0)
    BY <1>1, <1>3, <2>1, <2>3 DEF Writes
  <2> QED
    BY <2>4
<1>4. CASE CreatePr(a)
  <2> DEFINE id == NextId(counter)
  <2>1. Claim(a, id) /\ Commits(a, id)
    BY <1>4 DEF CreatePr, CreateHolds
  <2>2. MarkedBy(CallId(a)) /\ OneMark(id) /\ id \in Nat \ {0}
    BY <1>4, CreatePrWrites
  <2> HIDE DEF id
  <2>3. Writes(a, id)
    BY <1>1, <2>1, <2>2 DEF Writes
  <2> QED
    BY <2>2, <2>3
<1>5. CASE WriteEvent(a)
  <2> DEFINE id == Call(a).id
  <2>1. Claim(a, id) /\ Commits(a, id)
    BY <1>5 DEF WriteEvent
  <2>2. MarkedBy(CallId(a)) /\ OneMark(id) /\ id \in Nat \ {0}
    BY <1>5, WriteEventWrites
  <2> HIDE DEF id
  <2>3. Writes(a, id)
    BY <1>1, <2>1, <2>2 DEF Writes
  <2> QED
    BY <2>2, <2>3
<1> QED
  BY <1>2, <1>3, <1>4, <1>5, BatchIsFresh

\* What holds of every event's call holds of every mark's.
LEMMA EveryMark ==
    ASSUME NEW is, NEW ps, NEW S,
           \A n \in DOMAIN is : \A i \in DOMAIN is[n].log : is[n].log[i].by \in S,
           \A n \in DOMAIN ps : \A i \in DOMAIN ps[n] : ps[n][i].by \in S
    PROVE  \A x \in MarksIn(is, ps) : ByIn(is, ps, x) \in S
<1> SUFFICES ASSUME NEW x \in MarksIn(is, ps)
             PROVE  ByIn(is, ps, x) \in S
  OBVIOUS
<1>1. CASE \E n \in DOMAIN is : \E i \in DOMAIN is[n].log : x = IssueMark(n, i)
  BY <1>1, MarksAre
<1>2. CASE \E n \in DOMAIN ps : \E i \in DOMAIN ps[n] : x = PrMark(n, i)
  BY <1>2, MarksAre
<1> QED
  BY <1>1, <1>2, MarksAre

LEMMA EveryEvent ==
    ASSUME NEW E, NEW log \in Seq(E)
    PROVE  \A i \in DOMAIN log : log[i] \in E
OBVIOUS

LEMMA MarksAreOfCalls ==
    ASSUME Typed
    PROVE  \A x \in Marks : By(x) \in CallIds /\ By(x).left \in Nat
<1>1. \A e \in Events : e.by \in CallIds
  BY DEF Events
<1>2. \A n \in DOMAIN issues : \A i \in DOMAIN issues[n].log : issues[n].log[i].by \in CallIds
  BY <1>1, LogsAre, EveryEvent
<1>3. \A n \in DOMAIN prs : \A i \in DOMAIN prs[n] : prs[n][i].by \in CallIds
  <2>1. \A n \in DOMAIN prs : prs[n] \in Seq(Events)
    BY DEF Typed, IsMap
  <2> QED
    BY <1>1, <2>1, EveryEvent
<1>4. \A x \in Marks : By(x) \in CallIds
  BY <1>2, <1>3, EveryMark DEF Marks, By
<1>5. \A by \in CallIds : by.left \in Nat
  BY DEF CallIds
<1> QED
  BY <1>4, <1>5

\* The marks that were there before the shells started are no shell's, and no key's.
LEMMA InitEffects == Init => EffectInv
<1> SUFFICES ASSUME Init
             PROVE  EffectInv
  OBVIOUS
<1>1. PICK b \in Beginnings : issues = b.issues /\ prs = b.prs
  BY DEF Init
<1>2. /\ issues \in [DOMAIN issues -> IssuesWith(OldEvents)]
      /\ prs \in [DOMAIN prs -> Seq(OldEvents)]
  BY <1>1, BeginningsAssumption DEF MayBegin
<1> DEFINE Old == {by \in CallIds : by.shell = NoKey /\ by.name[2] = NoKey}
<1>3. \A e \in OldEvents : e.by \in Old
  BY DEF OldEvents, Events
<1>4. ASSUME NEW n \in DOMAIN issues
      PROVE  issues[n].log \in Seq(OldEvents)
  <2> DEFINE s == issues[n]
  <2>1. s \in IssuesWith(OldEvents)
    BY <1>2
  <2> HIDE DEF s
  <2>2. s.log \in Seq(OldEvents)
    BY <2>1 DEF IssuesWith
  <2> QED
    BY <2>2 DEF s
<1>5. \A x \in Marks : By(x).shell = NoKey /\ By(x).name[2] = NoKey
  <2> HIDE DEF Old
  <2>1. \A n \in DOMAIN issues : \A i \in DOMAIN issues[n].log : issues[n].log[i].by \in Old
    BY <1>3, <1>4, EveryEvent
  <2>2. \A n \in DOMAIN prs : \A i \in DOMAIN prs[n] : prs[n][i].by \in Old
    BY <1>2, <1>3, EveryEvent
  <2>3. \A x \in Marks : By(x) \in Old
    BY <2>1, <2>2, EveryMark DEF Marks, By
  <2> QED
    BY <2>3 DEF Old
<1>6. DOMAIN records = {}
  BY NothingIsAMap DEF Init
<1>7. answers = {}
  BY DEF Init
<1>8. \A a \in Actors : ~Applied(a)
  BY IdleIs DEF Init, At, Applied
<1>9. KeysAreMarked
  <2>1. \A name \in KeyNames : name[2] # NoKey
    BY GraphAssumption DEF KeyNames
  <2> QED
    BY <1>5, <1>6, <2>1 DEF KeysAreMarked
<1>10. NothingIsMarkedYet
  BY <1>5, <1>7, StoreAssumption DEF NothingIsMarkedYet
<1> QED
  BY <1>7, <1>8, <1>9, <1>10
     DEF EffectInv, AnswersAreMarked, CommittedIsMarked, MisledEnds, Applied

\* A step that changes no ref leaves the marks alone.
LEMMA QuietMarks ==
    ASSUME issues' = issues, prs' = prs
    PROVE  /\ Marks' = Marks /\ \A x : By(x)' = By(x)
           /\ \A by : MarkedOnce(by) => MarkedOnce(by)'
           /\ \A by : Marked(by) => Marked(by)'
           /\ \A r : IsMarked(r) => IsMarked(r)'
<1>1. Marks' = Marks /\ \A x : By(x)' = By(x)
  BY DEF Marks, By
<1>2. \A by : (MarkedOnce(by) => MarkedOnce(by)') /\ (Marked(by) => Marked(by)')
  BY <1>1 DEF MarkedOnce, Marked
<1>3. ASSUME NEW r, IsMarked(r)
      PROVE  IsMarked(r)'
  <2>1. /\ r.how # "ok" => (\A x \in Marks' : By(x)' # r.by) \/ Excused(r)
        /\ r.how = "ok" /\ ~Keyed(r.call) /\ r.call.op # "apply" =>
              /\ Marked(r.by) /\ Marked(r.by)'
              /\ MarkedOnce(r.by)' \/ (Excused(r) /\ r.call.op # "new")
    BY <1>1, <1>2, <1>3 DEF IsMarked
  <2> QED
    BY <2>1 DEF IsMarked, Excused, Keyed
<1> QED
  BY <1>1, <1>2, <1>3

\* A process that changes no ref keeps the invariant if it does not stay at its commit, and
\* what it has told is true.
LEMMA QuietEffects ==
    ASSUME StoreInv, EffectInv, refs' = refs, NEW a \in Actors,
           \A b \in Actors \ {a} : proc'[b] = proc[b] /\ todo'[b] = todo[b],
           \/ /\ todo'[a] = todo[a] /\ ~At(a, "done") /\ ~At(a, "done")'
              /\ proc'[a].misled = proc[a].misled
              /\ proc[a].misled => Repeats(Call(a))
           \/ todo[a] # <<>> /\ todo'[a] = Tail(todo[a]) /\ ~Applied(a)',
           \A r \in answers' : /\ r.by.shell \in Actors /\ r.by.left > Len(todo'[r.by.shell])
                               /\ IsMarked(r)
    PROVE  EffectInv'
<1>1. Typed /\ issues' = issues /\ prs' = prs /\ records' = records
  BY DEF StoreInv, refs
<1>2. /\ Marks' = Marks /\ \A x : By(x)' = By(x)
      /\ \A by : MarkedOnce(by) => MarkedOnce(by)'
      /\ \A by : Marked(by) => Marked(by)'
      /\ \A r : IsMarked(r) => IsMarked(r)'
  BY <1>1, QuietMarks
<1>3. KeysAreMarked'
  BY <1>1, <1>2 DEF EffectInv, KeysAreMarked
<1>4. \/ todo'[a] = todo[a] /\ (Applied(a) => Applied(a)')
      \/ /\ Len(todo[a]) \in Nat \ {0} /\ Len(todo'[a]) = Len(todo[a]) - 1
  BY <1>1, CallIs DEF Typed, Applied
<1>5. ASSUME NEW x \in Marks, NEW b \in Actors, By(x).shell = b
      PROVE  /\ By(x).left >= Len(todo'[b])
             /\ By(x).left = Len(todo'[b]) => Applied(b)'
  <2>1. /\ By(x).left >= Len(todo[b]) /\ By(x).left \in Nat
        /\ By(x).left = Len(todo[b]) => Applied(b)
    BY <1>1, <1>5, MarksAreOfCalls DEF EffectInv, NothingIsMarkedYet
  <2>2. CASE b # a
    <3>1. todo'[b] = todo[b] /\ (Applied(b)' <=> Applied(b))
      BY <2>2 DEF At, Applied
    <3> QED
      BY <2>1, <3>1
  <2>3. CASE b = a
    BY <1>4, <2>1, <2>3
  <2> QED
    BY <2>2, <2>3
<1>6. NothingIsMarkedYet'
  <2>1. \A x \in Marks' : \A b \in Actors :
           By(x)'.shell = b => /\ By(x)'.left >= Len(todo'[b])
                               /\ (By(x)'.left = Len(todo'[b]) => Applied(b)')
    BY <1>2, <1>5
  <2> QED
    BY <2>1 DEF NothingIsMarkedYet
<1>7. AnswersAreMarked'
  <2>1. \A r \in answers' : IsMarked(r)'
    BY <1>2
  <2> QED
    BY <2>1 DEF AnswersAreMarked
<1>8. ASSUME NEW b \in Actors, Call(b)' = Call(b), CallId(b)' = CallId(b), CommittedIsMarked(b),
             Applied(b)' => Applied(b) /\ proc'[b].misled = proc[b].misled,
             At(b, "done")' => At(b, "done") /\ proc'[b].id = proc[b].id
      PROVE  CommittedIsMarked(b)'
  <2>1. /\ MarkedOnce(CallId(b)) => MarkedOnce(CallId(b))'
        /\ Marked(CallId(b)) => Marked(CallId(b))'
    BY <1>2, <1>8 DEF MarkedOnce, Marked
  <2>2. /\ Recorded(Call(b))' = Recorded(Call(b))
        /\ records[RecordName(Call(b))]' = records[RecordName(Call(b))]
    BY <1>1, <1>8 DEF Recorded, RecordName
  <2> QED
    BY <1>8, <2>1, <2>2 DEF CommittedIsMarked
<1>9. ASSUME NEW b \in Actors
      PROVE  CommittedIsMarked(b)' /\ MisledEnds(b)'
  <2>1. CommittedIsMarked(b) /\ MisledEnds(b)
    BY DEF EffectInv
  <2>2. CASE b # a
    <3>1. /\ Call(b)' = Call(b) /\ CallId(b)' = CallId(b) /\ proc'[b] = proc[b]
          /\ \A pc : At(b, pc)' = At(b, pc)
      BY <2>2 DEF At, Call, CallId
    <3>2. Applied(b)' <=> Applied(b)
      BY <3>1 DEF Applied
    <3> QED
      BY <1>8, <2>1, <3>1, <3>2 DEF MisledEnds
  <2>3. CASE b = a /\ todo'[a] = todo[a] /\ ~At(a, "done") /\ ~At(a, "done")'
             /\ proc'[a].misled = proc[a].misled /\ (proc[a].misled => Repeats(Call(a)))
    <3>1. Call(b)' = Call(b) /\ CallId(b)' = CallId(b)
      BY <2>3 DEF Call, CallId
    <3>2. Applied(b)' => Applied(b)
      BY <2>3 DEF Applied
    <3>3. Repeats(Call(b))' <=> Repeats(Call(b))
      BY <3>1 DEF Repeats, Keyed
    <3> QED
      BY <1>8, <2>1, <2>3, <3>1, <3>2, <3>3 DEF MisledEnds
  <2>4. CASE b = a /\ ~Applied(a)'
    BY <2>4 DEF CommittedIsMarked, MisledEnds, Applied
  <2> QED
    BY <2>2, <2>3, <2>4
<1> QED
  BY <1>3, <1>6, <1>7, <1>9 DEF EffectInv

\* A process that was told of a failure that was none, and goes on, will repeat what it did: with
\* a key it would find its record, and the others give up.
LEMMA MisledPonders ==
    ASSUME StoreInv, EffectInv, NEW a \in Actors, Step(a), Ponders(a), proc[a].misled
    PROVE  Repeats(Call(a))
<1>1. Typed /\ proc'[a].pc # "idle"
  BY OtherProcesses DEF StoreInv, Ponders, Becomes
<1>2. \A how, id : ~Answers(a, how, id)
  <2> SUFFICES ASSUME NEW how, NEW id, Answers(a, how, id)
               PROVE  FALSE
    OBVIOUS
  <2>1. proc'[a] = Idle
    BY <1>1, OtherProcesses DEF Answers
  <2> QED
    BY <1>1, <2>1, IdleIs
<1>3. ~(Keyed(Call(a)) /\ At(a, "claim"))
  <2> SUFFICES ASSUME Keyed(Call(a)), At(a, "claim")
               PROVE  FALSE
    OBVIOUS
  <2>1. ReadClaim(a)
    BY DEF Step, BatchStep, CreateStep, AppendStep, Begin, Exists, Recheck, Done, ReadCounter,
           ReadNames, ReadIssue, Snapshot, ApplyBatch, BatchFails, BatchFailed, ReadBranches,
           Allocate, CreatePr, CreateFails, CreateFailed, Tip, WriteEvent, AppendFails,
           AppendFailed, At
  <2>2. Recorded(Call(a))
    BY DEF EffectInv, CommittedIsMarked, Applied
  <2> QED
    BY <1>2, <2>1, <2>2 DEF ReadClaim, Resolved
<1>4. ~(~Keyed(Call(a)) /\ ~Repeats(Call(a)) /\ At(a, "failed") /\ proc[a].why = "fault")
  <2> SUFFICES ASSUME ~Keyed(Call(a)), ~Repeats(Call(a)), At(a, "failed"), proc[a].why = "fault"
               PROVE  FALSE
    OBVIOUS
  <2>1. Call(a).op \in {"new", "apply"}
    BY DEF Repeats
  <2>2. BatchFailed(a)
    BY <2>1
       DEF Step, BatchStep, CreateStep, AppendStep, Begin, Exists, Recheck, Done, ReadCounter,
           ReadNames, ReadIssue, Snapshot, ApplyBatch, BatchFails, ReadClaim, ReadBranches,
           Allocate, CreatePr, CreateFails, CreateFailed, Tip, WriteEvent, AppendFails,
           AppendFailed, At
  <2>3. Fails(a)
    BY <2>2 DEF BatchFailed
  <2> QED
    BY <1>2, <2>3 DEF Fails
<1> QED
  BY <1>3, <1>4 DEF EffectInv, MisledEnds

LEMMA PonderingEffects ==
    ASSUME StoreInv, EffectInv, NEW a \in Actors, Step(a), Ponders(a)
    PROVE  EffectInv'
<1>1. Typed
  BY DEF StoreInv
<1>2. PICK p : /\ p.pc # "done" /\ p.misled = proc[a].misled
               /\ proc' = [proc EXCEPT ![a] = p] /\ UNCHANGED <<todo, answers>>
  BY DEF Ponders, Becomes
<1>3. proc'[a] = p /\ \A b \in Actors \ {a} : proc'[b] = proc[b]
  BY <1>1, <1>2, OtherProcesses
<1>4. ~At(a, "done")' /\ ~At(a, "done") /\ refs' = refs
  BY <1>2, <1>3 DEF At, Ponders
<1>5. \A r \in answers' : /\ r.by.shell \in Actors /\ r.by.left > Len(todo'[r.by.shell])
                          /\ IsMarked(r)
  BY <1>2 DEF EffectInv, NothingIsMarkedYet, AnswersAreMarked
<1>6. proc[a].misled => Repeats(Call(a))
  BY MisledPonders
<1> QED
  BY <1>2, <1>3, <1>4, <1>5, <1>6, QuietEffects

\* A shell whose process ends goes on: what it was told of its earlier calls stays told.
LEMMA LeavingIs ==
    ASSUME StoreInv, EffectInv, NEW a \in Actors, todo[a] # <<>>,
           proc' = [proc EXCEPT ![a] = Idle], todo' = [todo EXCEPT ![a] = Tail(@)]
    PROVE  /\ ~Applied(a)' /\ todo'[a] = Tail(todo[a])
           /\ \A b \in Actors \ {a} : proc'[b] = proc[b] /\ todo'[b] = todo[b]
           /\ Len(todo[a]) > Len(todo'[a])
           /\ \A r \in answers : /\ r.by.shell \in Actors /\ r.by.left > Len(todo'[r.by.shell])
<1>1. Typed
  BY DEF StoreInv
<1>2. /\ proc'[a] = Idle /\ todo'[a] = Tail(todo[a])
      /\ \A b \in Actors \ {a} : proc'[b] = proc[b] /\ todo'[b] = todo[b]
  BY <1>1 DEF Typed
<1>3. ~Applied(a)'
  BY <1>2, IdleIs DEF At, Applied
<1>4. Len(todo[a]) \in Nat \ {0} /\ Len(todo'[a]) = Len(todo[a]) - 1
  BY <1>1, <1>2, CallIs DEF Typed
<1>5. ASSUME NEW r \in answers
      PROVE  r.by.shell \in Actors /\ r.by.left > Len(todo'[r.by.shell])
  <2>1. r.by.shell \in Actors /\ r.by.left > Len(todo[r.by.shell])
    BY DEF EffectInv, NothingIsMarkedYet
  <2>2. r.by.left \in Nat
    <3> DEFINE by == r.by
    <3>1. by \in CallIds
      BY <1>1 DEF Typed, Replies
    <3> HIDE DEF by
    <3>2. by.left \in Nat
      BY <3>1 DEF CallIds
    <3> QED
      BY <3>2 DEF by
  <2>3. CASE r.by.shell = a
    BY <1>4, <2>1, <2>2, <2>3
  <2>4. CASE r.by.shell # a
    BY <1>2, <2>1, <2>4
  <2> QED
    BY <2>3, <2>4
<1> QED
  BY <1>2, <1>3, <1>4, <1>5

LEMMA CrashingEffects ==
    ASSUME StoreInv, EffectInv, NEW a \in Actors, Crash(a)
    PROVE  EffectInv'
<1>1. /\ todo[a] # <<>> /\ refs' = refs /\ answers' = answers
      /\ proc' = [proc EXCEPT ![a] = Idle] /\ todo' = [todo EXCEPT ![a] = Tail(@)]
  BY DEF Crash, StoreInv, Fits
<1>2. \A r \in answers' : IsMarked(r)
  BY <1>1 DEF EffectInv, AnswersAreMarked
<1>3. /\ ~Applied(a)' /\ todo'[a] = Tail(todo[a])
      /\ \A b \in Actors \ {a} : proc'[b] = proc[b] /\ todo'[b] = todo[b]
      /\ \A r \in answers' : r.by.shell \in Actors /\ r.by.left > Len(todo'[r.by.shell])
  BY <1>1, LeavingIs
<1> QED
  BY <1>1, <1>2, <1>3, QuietEffects

\* A process that answers tells the truth: what a key's record says when it has been misled, and
\* otherwise a success only of what it did.
LEMMA TellingIsTrue ==
    ASSUME StoreInv, EffectInv, NEW a \in Actors, Tells(a)
    PROVE  \E how, id :
              /\ Answers(a, how, id)
              /\ how # "ok" => \/ \A x \in Marks : By(x) # CallId(a)
                               \/ proc[a].misled /\ ~Keyed(Call(a))
              /\ how = "ok" /\ ~Keyed(Call(a)) /\ Call(a).op # "apply" =>
                    /\ Marked(CallId(a))
                    /\ \/ MarkedOnce(CallId(a))
                       \/ proc[a].misled /\ Call(a).op # "new"
<1>1. ~Applied(a) => \A x \in Marks : By(x) # CallId(a)
  BY DEF EffectInv, NothingIsMarkedYet, CallId
<1>2. CommittedIsMarked(a) /\ MisledEnds(a)
  BY DEF EffectInv
<1>3. CASE At(a, "done") /\ Answers(a, "ok", proc[a].id)
  <2>1. proc[a].misled => Repeats(Call(a))
    BY <1>2, <1>3 DEF MisledEnds, At
  <2>2. Call(a).op # "apply" =>
           /\ Marked(CallId(a)) /\ (MarkedOnce(CallId(a)) \/ proc[a].misled)
    BY <1>2, <1>3 DEF CommittedIsMarked, Applied
  <2>3. proc[a].misled => Call(a).op # "new"
    BY <2>1 DEF Repeats
  <2> DEFINE id == proc[a].id
  <2>4. Answers(a, "ok", id)
    BY <1>3
  <2> HIDE DEF id
  <2> QED
    BY <2>2, <2>3, <2>4
<1>4. CASE ~At(a, "done") /\ Keyed(Call(a)) /\ Recorded(Call(a)) /\ Resolved(a)
  <2> DEFINE record == records[RecordName(Call(a))]
             how == IF Matches(record, Call(a)) THEN "ok" ELSE "conflict"
             id == record.id
  <2>1. Answers(a, how, id)
    BY <1>4 DEF Resolved
  <2>2. Applied(a) => how = "ok"
    BY <1>2, <1>4 DEF CommittedIsMarked, Matches
  <2> HIDE DEF how, id
  <2> QED
    BY <1>1, <1>4, <2>1, <2>2
<1>5. CASE /\ ~At(a, "done") /\ (Keyed(Call(a)) => ~Recorded(Call(a)))
           /\ Answers(a, "refused", 0)
  <2>1. Applied(a) => proc[a].misled /\ ~Keyed(Call(a))
    BY <1>2, <1>5 DEF CommittedIsMarked, Applied
  <2> QED
    BY <1>1, <1>5, <2>1
<1> QED
  BY <1>3, <1>4, <1>5 DEF Tells

LEMMA TellingEffects ==
    ASSUME StoreInv, EffectInv, NEW a \in Actors, Tells(a)
    PROVE  EffectInv'
<1>1. PICK how, id :
         /\ Answers(a, how, id)
         /\ how # "ok" => \/ \A x \in Marks : By(x) # CallId(a)
                          \/ proc[a].misled /\ ~Keyed(Call(a))
         /\ how = "ok" /\ ~Keyed(Call(a)) /\ Call(a).op # "apply" =>
               /\ Marked(CallId(a))
               /\ MarkedOnce(CallId(a)) \/ (proc[a].misled /\ Call(a).op # "new")
  BY TellingIsTrue
<1>2. todo[a] # <<>> /\ refs' = refs
  BY DEF Tells
<1> DEFINE m == proc[a].misled
           r0 == [by |-> CallId(a), call |-> Call(a), how |-> how, id |-> id, misled |-> m]
<1>3. /\ answers' = answers \cup {r0}
      /\ proc' = [proc EXCEPT ![a] = Idle] /\ todo' = [todo EXCEPT ![a] = Tail(@)]
  BY <1>1 DEF Answers
<1>4. CallId(a).shell = a /\ CallId(a).left = Len(todo[a])
  BY DEF CallId
<1>5. /\ ~Applied(a)' /\ todo'[a] = Tail(todo[a])
      /\ \A b \in Actors \ {a} : proc'[b] = proc[b] /\ todo'[b] = todo[b]
      /\ Len(todo[a]) > Len(todo'[a])
      /\ \A r \in answers : r.by.shell \in Actors /\ r.by.left > Len(todo'[r.by.shell])
  BY <1>2, <1>3, LeavingIs
<1>6. r0.by = CallId(a) /\ r0.call = Call(a) /\ r0.how = how /\ r0.misled = m
  OBVIOUS
<1>7. m <=> proc[a].misled
  OBVIOUS
<1> HIDE DEF r0, m
<1>8. IsMarked(r0)
  BY <1>1, <1>6, <1>7 DEF IsMarked, Excused
<1>9. \A r \in answers' : /\ r.by.shell \in Actors /\ r.by.left > Len(todo'[r.by.shell])
                          /\ IsMarked(r)
  <2> SUFFICES ASSUME NEW r \in answers'
               PROVE  /\ r.by.shell \in Actors /\ r.by.left > Len(todo'[r.by.shell])
                      /\ IsMarked(r)
    OBVIOUS
  <2>1. CASE r \in answers
    BY <1>5, <2>1 DEF EffectInv, AnswersAreMarked
  <2>2. CASE r = r0
    BY <1>4, <1>5, <1>6, <1>8, <2>2
  <2> QED
    BY <1>3, <2>1, <2>2
<1> QED
  BY <1>2, <1>5, <1>9, QuietEffects

\* A commit leaves its marks and binds its key, for the first time unless the call repeats what
\* it was told had failed.
LEMMA WritingEffects ==
    ASSUME StoreInv, EffectInv, NEW a \in Actors, NEW id \in Nat, Writes(a, id)
    PROVE  EffectInv'
<1> DEFINE c == Call(a)
           by == CallId(a)
           name == RecordName(c)
<1>1. /\ Typed /\ todo[a] # <<>> /\ proc[a].pc \notin {"done", "claim", "failed"} /\ MarkedBy(by)
      /\ c.op # "apply" => id \in Nat \ {0} /\ OneMark(id)
      /\ Claim(a, id) /\ Commits(a, id) /\ ClaimHolds(a)
  BY DEF StoreInv, Writes
<1>2. /\ c \in Commands /\ by \in CallIds
      /\ by = [shell |-> a, left |-> Len(todo[a]), name |-> name]
      /\ c.op = "apply" => ~Keyed(c)
      /\ Keyed(c) => name \in KeyNames
      /\ Len(todo[a]) \in Nat
  BY <1>1, CallIs DEF Typed, KeyedOps
<1>3. PICK q : /\ Becomes(a, q) /\ (q.pc = "done" => q.id = id)
               /\ \/ q.pc = "done" /\ q.misled = proc[a].misled
                  \/ q.pc # "done" /\ q.misled /\ q.pc = NextOfFailure(a) /\ q.why = "fault"
  <2>1. PICK q : Succeeds(a, q, id) \/ TakesForFailed(a, q, "fault", TRUE)
    BY <1>1, CommitsAre
  <2> QED
    BY <2>1 DEF Succeeds, TakesForFailed, NextOfFailure
<1>4. /\ UNCHANGED <<todo, answers>> /\ proc'[a] = q /\ Applied(a)'
      /\ \A b \in Actors \ {a} : proc'[b] = proc[b]
  <2>1. UNCHANGED <<todo, answers>> /\ proc' = [proc EXCEPT ![a] = q]
    BY <1>3 DEF Becomes
  <2>2. proc'[a] = q /\ \A b \in Actors \ {a} : proc'[b] = proc[b]
    BY <1>1, <2>1, OtherProcesses
  <2> QED
    BY <1>3, <2>1, <2>2 DEF At, Applied
<1>5. /\ Call(a)' = c /\ CallId(a)' = by
      /\ \A b \in Actors : Call(b)' = Call(b) /\ CallId(b)' = CallId(b)
  BY <1>4 DEF Call, CallId
<1>6. by.shell = a /\ by.left = Len(todo[a]) /\ by.name = name
  BY <1>2
<1>7. Keyed(c) => name \notin DOMAIN records
  BY <1>1 DEF ClaimHolds, Recorded
<1>8. /\ ~Keyed(c) => records' = records
      /\ Keyed(c) => /\ DOMAIN records' = DOMAIN records \cup {name}
                     /\ records'[name] = [request |-> c, id |-> id]
                     /\ \A other \in DOMAIN records \ {name} : records'[other] = records[other]
  <2>1. CASE ~Keyed(c)
    BY <1>1, <2>1 DEF Claim
  <2>2. CASE Keyed(c)
    BY <1>1, <1>2, <2>2, ClaimBinds
  <2> QED
    BY <2>1, <2>2
<1>9. ~Keyed(c) => name \notin KeyNames
  BY GraphAssumption DEF Keyed, RecordName, KeyNames
<1>10. /\ ~proc[a].misled => \A x \in Marks : By(x) # by
       /\ proc[a].misled => Repeats(c)
  BY <1>1, <1>6 DEF EffectInv, NothingIsMarkedYet, MisledEnds, Applied, At
<1> HIDE DEF c, by, name
<1>11. /\ Marks \subseteq Marks' /\ \A x \in Marks : By(x)' = By(x)
       /\ \A x \in Marks' \ Marks : By(x)' = by
  BY <1>1 DEF MarkedBy
<1>12. KeysAreMarked'
  <2> SUFFICES ASSUME NEW other \in KeyNames
               PROVE  IF other \notin DOMAIN records' THEN \A x \in Marks' : By(x)'.name # other
                      ELSE \E x \in Marks' :
                              /\ By(x)'.name = other /\ x[1][2] = records'[other].id
                              /\ \A y \in Marks' : By(y)'.name = other => y = x
    BY DEF KeysAreMarked
  <2>1. IF other \notin DOMAIN records THEN \A x \in Marks : By(x).name # other
        ELSE \E x \in Marks :
                /\ By(x).name = other /\ x[1][2] = records[other].id
                /\ \A y \in Marks : By(y).name = other => y = x
    BY DEF EffectInv, KeysAreMarked
  <2>2. CASE Keyed(c) /\ other = name
    <3>1. other \notin DOMAIN records
      BY <1>7, <2>2
    <3>2. c.op # "apply"
      BY <1>2, <2>2
    <3>3. PICK x : Marks' \ Marks = {x} /\ x[1][2] = id
      BY <1>1, <3>2 DEF OneMark
    <3>4. records'[other].id = id /\ other \in DOMAIN records'
      BY <1>8, <2>2
    <3>5. x \in Marks' /\ By(x)'.name = other
      BY <1>6, <1>11, <2>2, <3>3
    <3>6. \A y \in Marks' : By(y)'.name = other => y = x
      BY <1>11, <2>1, <3>1, <3>3
    <3> QED
      BY <3>3, <3>4, <3>5, <3>6
  <2>3. CASE ~(Keyed(c) /\ other = name)
    <3>1. other # name
      BY <1>9, <2>3
    <3>2. (other \in DOMAIN records' <=> other \in DOMAIN records)
          /\ (other \in DOMAIN records => records'[other] = records[other])
      BY <1>8, <3>1
    <3>3. \A x \in Marks' : By(x)'.name = other => x \in Marks /\ By(x).name = other
      BY <1>6, <1>11, <3>1
    <3>4. CASE other \notin DOMAIN records
      BY <2>1, <3>2, <3>3, <3>4
    <3>5. CASE other \in DOMAIN records
      <4>1. PICK x \in Marks : /\ By(x).name = other /\ x[1][2] = records[other].id
                               /\ \A y \in Marks : By(y).name = other => y = x
        BY <2>1, <3>5
      <4>2. x \in Marks' /\ By(x)'.name = other /\ x[1][2] = records'[other].id
        BY <1>11, <3>2, <3>5, <4>1
      <4>3. \A y \in Marks' : By(y)'.name = other => y = x
        BY <3>3, <4>1
      <4> QED
        BY <3>2, <3>5, <4>2, <4>3
    <3> QED
      BY <3>4, <3>5
  <2> QED
    BY <2>2, <2>3
<1>13. NothingIsMarkedYet'
  <2>1. \A x \in Marks' : \A b \in Actors :
           By(x)'.shell = b => /\ By(x)'.left >= Len(todo'[b])
                               /\ (By(x)'.left = Len(todo'[b]) => Applied(b)')
    <3> SUFFICES ASSUME NEW x \in Marks', NEW b \in Actors, By(x)'.shell = b
                 PROVE  /\ By(x)'.left >= Len(todo'[b])
                        /\ (By(x)'.left = Len(todo'[b]) => Applied(b)')
      OBVIOUS
    <3>1. todo' = todo
      BY <1>4
    <3>2. CASE x \in Marks
      <4>1. /\ By(x).left >= Len(todo[b])
            /\ (By(x).left = Len(todo[b]) => Applied(b))
        BY <1>11, <3>2 DEF EffectInv, NothingIsMarkedYet
      <4>2. Applied(b) => Applied(b)'
        BY <1>4 DEF Applied, At
      <4> QED
        BY <1>11, <3>1, <3>2, <4>1, <4>2
    <3>3. CASE x \notin Marks
      <4>1. By(x)' = by /\ b = a
        BY <1>6, <1>11, <3>3
      <4> QED
        BY <1>2, <1>4, <1>6, <3>1, <4>1
    <3> QED
      BY <3>2, <3>3
  <2>2. \A r \in answers' : r.by.shell \in Actors /\ r.by.left > Len(todo'[r.by.shell])
    BY <1>4 DEF EffectInv, NothingIsMarkedYet
  <2> QED
    BY <2>1, <2>2 DEF NothingIsMarkedYet
\* The marks of another call are those it had.
<1>14. ASSUME NEW other, other # by
       PROVE  /\ \A x \in Marks' : By(x)' = other <=> x \in Marks /\ By(x) = other
              /\ MarkedOnce(other) => MarkedOnce(other)'
              /\ Marked(other) => Marked(other)'
  <2>1. \A x \in Marks' : By(x)' = other <=> x \in Marks /\ By(x) = other
    BY <1>11, <1>14
  <2>2. ASSUME MarkedOnce(other)
        PROVE  \E x \in Marks' : By(x)' = other /\ \A y \in Marks' : By(y)' = other => y = x
    <3>1. PICK x \in Marks : By(x) = other /\ \A y \in Marks : By(y) = other => y = x
      BY <2>2 DEF MarkedOnce
    <3> QED
      BY <1>11, <2>1, <3>1
  <2>3. Marked(other) => \E x \in Marks' : By(x)' = other
    BY <1>11 DEF Marked
  <2> QED
    BY <2>1, <2>2, <2>3 DEF MarkedOnce, Marked
<1>15. AnswersAreMarked'
  <2> SUFFICES ASSUME NEW r \in answers
               PROVE  IsMarked(r)'
    BY <1>4 DEF AnswersAreMarked
  <2>1. r.by # by
    <3>1. r.by.left > Len(todo[r.by.shell])
      BY DEF EffectInv, NothingIsMarkedYet
    <3> QED
      BY <1>2, <1>6, <3>1
  <2> DEFINE other == r.by
  <2>2. /\ r.how # "ok" => (\A x \in Marks : By(x) # other) \/ Excused(r)
        /\ r.how = "ok" /\ ~Keyed(r.call) /\ r.call.op # "apply" =>
              Marked(other) /\ (MarkedOnce(other) \/ (Excused(r) /\ r.call.op # "new"))
    BY DEF EffectInv, AnswersAreMarked, IsMarked
  <2>3. other # by
    BY <2>1
  <2>4. Excused(r)' <=> Excused(r)
    BY DEF Excused, Keyed
  <2>5. Keyed(r.call)' <=> Keyed(r.call)
    BY DEF Keyed
  <2> HIDE DEF other
  <2>6. /\ (\A x \in Marks : By(x) # other) => \A x \in Marks' : By(x)' # other
        /\ MarkedOnce(other) => \E x \in Marks' :
              By(x)' = other /\ \A y \in Marks' : By(y)' = other => y = x
        /\ Marked(other) => \E x \in Marks' : By(x)' = other
    BY <1>14, <2>3 DEF MarkedOnce, Marked
  <2> QED
    BY <2>2, <2>4, <2>5, <2>6 DEF IsMarked, MarkedOnce, Marked, other
<1>16. CommittedIsMarked(a)' /\ MisledEnds(a)'
  <2>1. ASSUME c.op # "apply"
        PROVE  /\ \E x \in Marks' : By(x)' = by
               /\ \/ q.misled
                  \/ \E x \in Marks' : By(x)' = by /\ \A y \in Marks' : By(y)' = by => y = x
    <3>1. PICK x : Marks' \ Marks = {x} /\ x[1][2] = id
      BY <1>1, <2>1 DEF OneMark
    <3>2. x \in Marks' /\ By(x)' = by
      BY <1>11, <3>1
    <3>3. ASSUME ~q.misled
          PROVE  \A y \in Marks' : By(y)' = by => y = x
      <4>1. \A y \in Marks : By(y) # by
        BY <1>3, <1>10, <3>3
      <4> QED
        BY <1>11, <3>1, <4>1
    <3> QED
      BY <3>2, <3>3
  <2>2. Keyed(c) => /\ RecordName(c) \in DOMAIN records'
                    /\ records'[RecordName(c)] = [request |-> c, id |-> id]
    BY <1>8 DEF name
  <2>3. Keyed(c) => /\ RecordName(c) \in DOMAIN records'
                    /\ records'[RecordName(c)].request = c /\ records'[RecordName(c)].id = id
    BY <2>2
  <2>4. CommittedIsMarked(a)'
    <3>1. At(a, "done")' => q.id = id
      BY <1>3, <1>4 DEF At
    <3> QED
      BY <1>4, <1>5, <2>1, <2>3, <3>1
         DEF CommittedIsMarked, Recorded, Marked, MarkedOnce, Keyed, RecordName
  <2>5. MisledEnds(a)'
    <3>1. Repeats(Call(a))' <=> Repeats(c)
      BY <1>5 DEF Repeats, Keyed
    <3>2. Keyed(Call(a))' <=> Keyed(c)
      BY <1>5 DEF Keyed
    <3>3. NextOfFailure(a) = IF Keyed(c) THEN "claim" ELSE "failed"
      BY DEF NextOfFailure, c
    <3> QED
      BY <1>3, <1>4, <1>10, <3>1, <3>2, <3>3 DEF MisledEnds, At
  <2> QED
    BY <2>4, <2>5
<1>17. ASSUME NEW b \in Actors, b # a
       PROVE  CommittedIsMarked(b)' /\ MisledEnds(b)'
  <2>1. /\ CommittedIsMarked(b) /\ MisledEnds(b) /\ proc'[b] = proc[b]
        /\ \A pc : At(b, pc)' <=> At(b, pc)
        /\ Call(b)' = Call(b) /\ CallId(b)' = CallId(b)
    BY <1>4, <1>5, <1>17 DEF EffectInv, At
  <2>2. CallId(b) # by
    BY <1>6, <1>17 DEF CallId
  <2>3. /\ MarkedOnce(CallId(b)) => MarkedOnce(CallId(b))'
        /\ Marked(CallId(b)) => Marked(CallId(b))'
    <3> DEFINE other == CallId(b)
    <3>1. other # by /\ other' = other
      BY <2>1, <2>2
    <3> HIDE DEF other
    <3>2. /\ MarkedOnce(other) => \E x \in Marks' :
                By(x)' = other /\ \A y \in Marks' : By(y)' = other => y = x
          /\ Marked(other) => \E x \in Marks' : By(x)' = other
      BY <1>14, <3>1 DEF MarkedOnce, Marked
    <3> QED
      BY <3>1, <3>2 DEF MarkedOnce, Marked, other
  <2>4. Recorded(Call(b)) => /\ Recorded(Call(b))'
                             /\ records'[RecordName(Call(b))] = records[RecordName(Call(b))]
    <3> DEFINE other == RecordName(Call(b))
    <3> HIDE DEF other
    <3>1. other \in DOMAIN records => other \in DOMAIN records' /\ records'[other] = records[other]
      BY <1>7, <1>8
    <3> QED
      BY <2>1, <3>1 DEF Recorded, other
  <2>5. Applied(b)' <=> Applied(b)
    BY <2>1 DEF Applied
  <2> QED
    BY <2>1, <2>3, <2>4, <2>5 DEF CommittedIsMarked, MisledEnds
<1> QED
  BY <1>12, <1>13, <1>15, <1>16, <1>17 DEF EffectInv

----------------------------------------------------------------------------
(* The invariant holds, and what follows from it. *)

LEMMA NextEffects ==
    ASSUME StoreInv, EffectInv, [Next]_vars
    PROVE  EffectInv'
<1>1. ASSUME NEW a \in Actors, Step(a)
      PROVE  EffectInv'
  <2>1. CASE Ponders(a)
    BY <1>1, <2>1, PonderingEffects
  <2>2. CASE Tells(a)
    BY <2>2, TellingEffects
  <2>3. CASE ApplyBatch(a) \/ CreatePr(a) \/ WriteEvent(a)
    <3>1. PICK id \in Nat : Writes(a, id)
      BY <2>3, CommitsWrite
    <3> QED
      BY <3>1, WritingEffects
  <2> QED
    BY <1>1, <2>1, <2>2, <2>3, StepsAre
<1>2. ASSUME NEW a \in Actors, Crash(a)
      PROVE  EffectInv'
  BY <1>2, CrashingEffects
<1>3. CASE DeleteBranches \/ UNCHANGED vars
  <2>1. UNCHANGED <<issues, prs, records, proc, todo, answers>>
    BY <1>3 DEF DeleteBranches, vars
  <2>2. Marks' = Marks /\ \A x : By(x)' = By(x)
    BY <2>1, QuietMarks
  <2>3. \A a \in Actors : /\ \A pc : At(a, pc)' = At(a, pc)
                          /\ Call(a)' = Call(a) /\ Applied(a)' = Applied(a)
                          /\ CallId(a)' = CallId(a) /\ Recorded(Call(a))' = Recorded(Call(a))
    BY <2>1 DEF At, Call, CallId, Recorded, Applied
  <2>4. /\ \A by : MarkedOnce(by) => MarkedOnce(by)'
        /\ \A by : Marked(by) => Marked(by)'
        /\ \A r : IsMarked(r) => IsMarked(r)'
    BY <2>1, QuietMarks
  <2>5. KeysAreMarked'
    BY <2>1, <2>2 DEF EffectInv, KeysAreMarked
  <2>6. NothingIsMarkedYet'
    <3>1. \A x \in Marks' : \A a \in Actors :
             By(x)'.shell = a => /\ By(x)'.left >= Len(todo'[a])
                                 /\ (By(x)'.left = Len(todo'[a]) => Applied(a)')
      BY <2>1, <2>2, <2>3 DEF EffectInv, NothingIsMarkedYet
    <3>2. \A r \in answers' : r.by.shell \in Actors /\ r.by.left > Len(todo'[r.by.shell])
      BY <2>1 DEF EffectInv, NothingIsMarkedYet
    <3> QED
      BY <3>1, <3>2 DEF NothingIsMarkedYet
  <2>7. AnswersAreMarked'
    BY <2>1, <2>4 DEF EffectInv, AnswersAreMarked
  <2>8. ASSUME NEW a \in Actors
        PROVE  CommittedIsMarked(a)' /\ MisledEnds(a)'
    <3>1. /\ MarkedOnce(CallId(a)) => MarkedOnce(CallId(a))'
          /\ Marked(CallId(a)) => Marked(CallId(a))'
      BY <2>2, <2>3 DEF MarkedOnce, Marked
    <3>2. CommittedIsMarked(a) /\ MisledEnds(a)
      BY DEF EffectInv
    <3> QED
      BY <2>1, <2>3, <3>1, <3>2 DEF CommittedIsMarked, MisledEnds
  <2> QED
    BY <2>5, <2>6, <2>7, <2>8 DEF EffectInv
<1> QED
  BY <1>1, <1>2, <1>3 DEF Next

LEMMA EffectsHold == Spec => [](StoreInv /\ EffectInv)
<1>1. Init => StoreInv /\ EffectInv
  BY InitStore, InitEffects
<1>2. StoreInv /\ EffectInv /\ [Next]_vars => (StoreInv /\ EffectInv)'
  BY NextStore, NextEffects
<1> QED
  BY <1>1, <1>2, PTL DEF Spec

\* The effects of a name and of a call are the marks of that name and of that call.
LEMMA EffectsAreMarks ==
    /\ \A name : Effects(name) = {x \in Marks : By(x).name = name}
    /\ \A by : EffectsOfCall(by) = {x \in Marks : By(x) = by}
<1>1. Entities = EntitiesIn(issues, prs) /\ \A e : LogOf(e) = LogIn(issues, prs, e)
  BY DEF Entities, EntitiesIn, LogOf, LogIn
<1>2. Marks = UNION {{<<e, i>> : i \in DOMAIN LogOf(e)} : e \in Entities}
  BY <1>1 DEF Marks, MarksIn
<1>3. \A e, i : By(<<e, i>>) = LogOf(e)[i].by
  BY <1>1 DEF By, ByIn
<1>4. ASSUME NEW name
      PROVE  Effects(name) = {x \in Marks : By(x).name = name}
  <2>1. Effects(name) = UNION {{<<e, i>> : i \in {j \in DOMAIN LogOf(e) : LogOf(e)[j].by.name = name}}
                               : e \in Entities}
    BY DEF Effects, EventsSuchThat
  <2> QED
    BY <1>2, <1>3, <2>1
<1>5. ASSUME NEW by
      PROVE  EffectsOfCall(by) = {x \in Marks : By(x) = by}
  <2>1. EffectsOfCall(by) = UNION {{<<e, i>> : i \in {j \in DOMAIN LogOf(e) : LogOf(e)[j].by = by}}
                                   : e \in Entities}
    BY DEF EffectsOfCall, EventsSuchThat
  <2> QED
    BY <1>2, <1>3, <2>1
<1> QED
  BY <1>4, <1>5

(***************************************************************************)
(* However often a request with a key is sent, and wherever its processes  *)
(* are killed, it has one effect, on the entity that its record names, and *)
(* none before it has a record (idempotency.rs append_event_claimed,       *)
(* store.rs create_pr_claimed, issue_batch.rs                              *)
(* apply_issue_batch_claimed).                                             *)
(***************************************************************************)
THEOREM EffectsAreUnique == Spec => []OneEffectPerKey
<1>1. StoreInv /\ EffectInv => OneEffectPerKey
  <2> SUFFICES ASSUME EffectInv, NEW name \in KeyNames
               PROVE  IF name \notin DOMAIN records THEN Effects(name) = {}
                      ELSE /\ Cardinality(Effects(name)) = 1
                           /\ \A x \in Effects(name) : x[1][2] = records[name].id
    BY DEF OneEffectPerKey, KeyNames, KeyedOps
  <2> DEFINE effects == Effects(name)
  <2>1. effects = {x \in Marks : By(x).name = name}
    BY EffectsAreMarks
  <2> HIDE DEF effects
  <2>2. CASE name \notin DOMAIN records
    <3>1. effects = {}
      BY <2>1, <2>2 DEF EffectInv, KeysAreMarked
    <3> QED
      BY <2>2, <3>1 DEF effects
  <2>3. CASE name \in DOMAIN records
    <3>1. PICK x \in Marks : /\ By(x).name = name /\ x[1][2] = records[name].id
                             /\ \A y \in Marks : By(y).name = name => y = x
      BY <2>3 DEF EffectInv, KeysAreMarked
    <3>2. effects = {x}
      BY <2>1, <3>1
    <3>3. Cardinality(effects) = 1
      BY <3>2, FS_Singleton
    <3> QED
      BY <2>3, <3>1, <3>2, <3>3 DEF effects
  <2> QED
    BY <2>2, <2>3
<1> QED
  BY <1>1, EffectsHold, PTL

(***************************************************************************)
(* What callers are told is so, also where git reports a transaction as    *)
(* failed that it has applied: a command that reports a refusal or a       *)
(* conflict has changed nothing, unless it is such a command without a     *)
(* key; a success has happened, and once, unless it is of such a `pr       *)
(* create` or append, which repeats itself; and a key rules both out       *)
(* (update_ref.rs run_update_ref_stdin, issue_apply.rs new_issue_keyed,    *)
(* store.rs append_event and create_pr_claimed, idempotency.rs recheck).   *)
(***************************************************************************)
THEOREM CallersAreToldTheTruth == Spec => []AnswersAreTrue
<1>1. StoreInv /\ EffectInv => AnswersAreTrue
  <2> SUFFICES ASSUME EffectInv, NEW r \in answers
               PROVE  LET excused == r.misled /\ ~Keyed(r.call) IN
                      /\ r.how # "ok" => EffectsOfCall(r.by) = {} \/ excused
                      /\ r.how = "ok" /\ ~Keyed(r.call) /\ r.call.op # "apply" =>
                            /\ EffectsOfCall(r.by) # {}
                            /\ \/ Cardinality(EffectsOfCall(r.by)) = 1
                               \/ excused /\ r.call.op # "new"
    BY DEF AnswersAreTrue
  <2> DEFINE effects == EffectsOfCall(r.by)
  <2>1. effects = {x \in Marks : By(x) = r.by}
    BY EffectsAreMarks
  <2>2. IsMarked(r)
    BY DEF EffectInv, AnswersAreMarked
  <2> HIDE DEF effects
  <2>3. r.how # "ok" => effects = {} \/ Excused(r)
    BY <2>1, <2>2 DEF IsMarked
  <2>4. MarkedOnce(r.by) => Cardinality(effects) = 1
    <3> SUFFICES ASSUME MarkedOnce(r.by)
                 PROVE  Cardinality(effects) = 1
      OBVIOUS
    <3>1. PICK x \in Marks : By(x) = r.by /\ \A y \in Marks : By(y) = r.by => y = x
      BY DEF MarkedOnce
    <3>2. effects = {x}
      BY <2>1, <3>1
    <3> QED
      BY <3>2, FS_Singleton
  <2>5. Marked(r.by) => effects # {}
    BY <2>1 DEF Marked
  <2> QED
    BY <2>2, <2>3, <2>4, <2>5 DEF IsMarked, Excused, effects
<1> QED
  BY <1>1, EffectsHold, PTL

----------------------------------------------------------------------------
(* The keyed commands implement the promise of their key. *)

Told(r) == [by |-> r.by, name |-> RecordName(r.call), request |-> r.call,
            how |-> r.how, id |-> r.id]
ToldOf(as) == {Told(r) : r \in {x \in as : Keyed(x.call)}}

LEMMA InitPromise == Init => Promise!Init
<1> SUFFICES ASSUME Init
             PROVE  Promise!Init
  OBVIOUS
<1>1. records = <<>> /\ answers = {}
  BY DEF Init
<1>2. ToldOf(answers) = {}
  BY <1>1 DEF ToldOf
<1> QED
  BY <1>1, <1>2 DEF Promise!Init, ToldOf, Told

\* A commit binds its key, if it has one.
LEMMA WritingBinds ==
    ASSUME StoreInv, NEW a \in Actors, NEW id \in Nat, Writes(a, id)
    PROVE  \/ Promise!Bind
           \/ records' = records /\ ToldOf(answers') = ToldOf(answers)
<1>1. /\ Typed /\ todo[a] # <<>> /\ answers' = answers /\ Claim(a, id) /\ ClaimHolds(a)
      /\ Call(a).op # "apply" => id \in Nat \ {0}
  BY DEF StoreInv, Writes, Commits, ToldOfFailure, Becomes
<1>2. CASE ~Keyed(Call(a))
  BY <1>1, <1>2 DEF Claim
<1>3. CASE Keyed(Call(a))
  <2> DEFINE name == RecordName(Call(a))
  <2>1. name \in KeyNames /\ Call(a).op # "apply" /\ name \notin DOMAIN records
    BY <1>1, <1>3, CallIs DEF Typed, KeyedOps, ClaimHolds, Recorded
  <2>2. /\ DOMAIN records' = DOMAIN records \cup {name}
        /\ \A other \in DOMAIN records \ {name} : records'[other] = records[other]
    BY <1>1, <1>3, <2>1, ClaimBinds
  <2>3. name \in ({"new", "pr", "comment"} \X Keys) \ DOMAIN records
    BY <2>1 DEF KeyNames, KeyedOps
  <2>4. ToldOf(answers') = ToldOf(answers)
    BY <1>1
  <2> HIDE DEF name
  <2> QED
    BY <2>1, <2>2, <2>3, <2>4 DEF Promise!Bind, ToldOf, Told
<1> QED
  BY <1>2, <1>3

\* An answer is about the binding of its key, or is given while there is none.
LEMMA TellingAnswers ==
    ASSUME StoreInv, EffectInv, NEW a \in Actors, Tells(a)
    PROVE  \/ Promise!Answer
           \/ records' = records /\ ToldOf(answers') = ToldOf(answers)
<1> DEFINE c == Call(a)
           name == RecordName(c)
<1>1. PICK how, id :
         /\ Answers(a, how, id)
         /\ Keyed(c) =>
               \/ /\ name \in DOMAIN records /\ id = records[name].id
                  /\ how = IF c = records[name].request THEN "ok" ELSE "conflict"
               \/ name \notin DOMAIN records /\ how = "refused"
  <2>1. CASE At(a, "done") /\ Answers(a, "ok", proc[a].id)
    <3>1. Keyed(c) => /\ name \in DOMAIN records
                      /\ records[name].request = c /\ records[name].id = proc[a].id
      BY <2>1 DEF EffectInv, CommittedIsMarked, Recorded, Applied
    <3> DEFINE id == proc[a].id
    <3> HIDE DEF c, name, id
    <3>2. Keyed(c) => name \in DOMAIN records /\ id = records[name].id /\ c = records[name].request
      BY <3>1 DEF id
    <3>3. Answers(a, "ok", id)
      BY <2>1 DEF id
    <3> QED
      BY <3>2, <3>3
  <2>2. CASE Keyed(c) /\ Recorded(c) /\ Resolved(a)
    <3> DEFINE record == records[name]
               how == IF Matches(record, c) THEN "ok" ELSE "conflict"
    <3>1. Answers(a, how, record.id)
      BY <2>2 DEF Resolved
    <3>2. how = IF c = record.request THEN "ok" ELSE "conflict"
      BY DEF Matches
    <3>3. name \in DOMAIN records
      BY <2>2 DEF Recorded
    <3> HIDE DEF how
    <3> QED
      BY <3>1, <3>2, <3>3
  <2>3. CASE (Keyed(c) => ~Recorded(c)) /\ Answers(a, "refused", 0)
    BY <2>3 DEF Recorded
  <2> QED
    BY <2>1, <2>2, <2>3 DEF Tells
<1> DEFINE r0 == [by |-> CallId(a), call |-> c, how |-> how, id |-> id, misled |-> proc[a].misled]
<1>2. records' = records /\ answers' = answers \cup {r0}
  BY <1>1 DEF Tells, Answers, refs
<1>3. CASE ~Keyed(c)
  <2>1. ToldOf(answers') = ToldOf(answers)
    BY <1>2, <1>3 DEF ToldOf
  <2> QED
    BY <1>2, <2>1
<1>4. CASE Keyed(c)
  <2>1. ToldOf(answers') = ToldOf(answers) \cup {Told(r0)}
    BY <1>2, <1>4 DEF ToldOf
  <2> DEFINE t == Told(r0)
  <2>2. t.name = name /\ t.id = id /\ t.how = how /\ t.request = c
    BY DEF Told
  <2> HIDE DEF t, r0, name, c
  <2>3. \/ /\ t.name \in DOMAIN records /\ t.id = records[t.name].id
           /\ t.how = IF t.request = records[t.name].request THEN "ok" ELSE "conflict"
        \/ t.name \notin DOMAIN records /\ t.how = "refused"
    BY <1>1, <1>4, <2>2
  <2>4. Promise!Truthful(t)
    BY <2>3 DEF Promise!Truthful
  <2>5. CASE t \in ToldOf(answers)
    BY <1>2, <2>1, <2>5 DEF t
  <2>6. CASE t \notin ToldOf(answers)
    <3>1. t \in ToldOf(answers') \ ToldOf(answers) /\ ToldOf(answers') = ToldOf(answers) \cup {t}
      BY <2>1, <2>6 DEF t
    <3> QED
      BY <1>2, <2>4, <3>1 DEF Promise!Answer, ToldOf, Told
  <2> QED
    BY <2>5, <2>6
<1> QED
  BY <1>3, <1>4

LEMMA NextPromise ==
    ASSUME StoreInv, EffectInv, [Next]_vars
    PROVE  \/ Promise!Next
           \/ records' = records /\ ToldOf(answers') = ToldOf(answers)
<1>1. ASSUME NEW a \in Actors, Step(a)
      PROVE  \/ Promise!Next
             \/ records' = records /\ ToldOf(answers') = ToldOf(answers)
  <2>1. CASE Ponders(a)
    BY <2>1 DEF Ponders, Becomes, refs
  <2>2. CASE Tells(a)
    BY <2>2, TellingAnswers DEF Promise!Next
  <2>3. CASE ApplyBatch(a) \/ CreatePr(a) \/ WriteEvent(a)
    <3>1. PICK id \in Nat : Writes(a, id)
      BY <2>3, CommitsWrite
    <3> QED
      BY <3>1, WritingBinds DEF Promise!Next
  <2> QED
    BY <1>1, <2>1, <2>2, <2>3, StepsAre
<1>2. CASE (\E a \in Actors : Crash(a)) \/ DeleteBranches \/ UNCHANGED vars
  BY <1>2 DEF Crash, DeleteBranches, vars, refs
<1> QED
  BY <1>1, <1>2 DEF Next

(***************************************************************************)
(* The commands implement what an idempotency key promises: a commit binds *)
(* its key, an answer is about the binding, and every other step leaves    *)
(* the key alone (idempotency.rs replay, recheck, resolve).                *)
(***************************************************************************)
THEOREM KeysKeepTheirWord == Spec => KeysKeepTheirPromise
<1>1. Init => Promise!Init
  BY InitPromise
<1>2. StoreInv /\ EffectInv /\ [Next]_vars => 
         [Promise!Next]_<<records,
             {[by |-> r.by, name |-> RecordName(r.call), request |-> r.call,
               how |-> r.how, id |-> r.id] : r \in {x \in answers : Keyed(x.call)}}>>
  BY NextPromise DEF ToldOf, Told
<1> QED
  BY <1>1, <1>2, EffectsHold, PTL DEF Spec, Promise!Spec, KeysKeepTheirPromise

----------------------------------------------------------------------------
(* Commands come to an end. *)

\* How far each place is from the end of its command, if nothing is read or tried again.
Place(pc) ==
    CASE pc = "idle" -> MaxCounter + 12
      [] pc = "exists" -> MaxCounter + 11
      [] pc = "branch" -> MaxCounter + 10
      [] pc = "counter" -> MaxCounter + 9
      [] pc = "names" -> MaxCounter + 8
      [] pc \in {"batch", "alloc", "tip"} -> 6
      [] pc \in {"create", "append"} -> 5
      [] pc = "claim" -> 4
      [] pc = "failed" -> 3
      [] pc = "recheck" -> 2
      [] OTHER -> 1

Ahead(p) == IF p.pc = "issues" THEN Cardinality(p.left) + 7 ELSE Place(p.pc)

MaxTries == MaxAllocRetries + MaxAppendRetries
RoundsLeft(p) == (MaxTries - p.tries) * (MaxAllocRetries + 1) + (MaxAllocRetries - p.rounds)

\* The steps a command may still take.
StepsLeft(p) == RoundsLeft(p) * (MaxCounter + 12) + Ahead(p)

\* What a step does to the command that a shell runs.
Shrunk(a) ==
    \/ UNCHANGED <<proc[a], todo[a]>>
    \/ Len(todo'[a]) < Len(todo[a])
    \/ todo'[a] = todo[a] /\ StepsLeft(proc'[a]) < StepsLeft(proc[a])
CommandsShrink == [][\A a \in Actors : Shrunk(a)]_vars

TriesInv == \A a \in Actors : proc[a].tries <= MaxTries /\ proc[a].rounds <= MaxAllocRetries

LEMMA PlacesAre ==
    /\ Place("idle") = MaxCounter + 12 /\ Place("exists") = MaxCounter + 11
    /\ Place("branch") = MaxCounter + 10 /\ Place("counter") = MaxCounter + 9
    /\ Place("names") = MaxCounter + 8 /\ Place("batch") = 6 /\ Place("alloc") = 6
    /\ Place("tip") = 6 /\ Place("create") = 5 /\ Place("append") = 5 /\ Place("claim") = 4
    /\ Place("failed") = 3 /\ Place("recheck") = 2 /\ Place("done") = 1
BY DEF Place

\* The limits, and a process that keeps to them.
LEMMA LimitsAre ==
    /\ MaxCounter \in Nat /\ MaxAllocRetries \in Nat /\ MaxAppendRetries \in Nat
    /\ MaxTries \in Nat /\ MaxAllocRetries <= MaxTries /\ MaxAppendRetries <= MaxTries
<1>1. MaxCounter \in Nat /\ MaxAllocRetries \in Nat /\ MaxAppendRetries \in Nat
  BY GraphAssumption, StoreAssumption
<1> QED
  BY <1>1 DEF MaxTries

LEMMA PlacesEnd ==
    ASSUME NEW pc \in Pcs \ {"issues"}
    PROVE  Place(pc) \in 1..MaxCounter + 12
BY PlacesAre, LimitsAre DEF Pcs

\* There are no more issues than ids.
LEMMA IssuesAreFew ==
    ASSUME StoreInv, NEW S \in SUBSET DOMAIN issues
    PROVE  IsFiniteSet(S) /\ Cardinality(S) \in Nat /\ Cardinality(S) <= MaxCounter
<1>1. counter \in Nat /\ counter <= MaxCounter /\ MaxCounter \in Nat /\ MaxCounter > 1
  BY GraphAssumption DEF StoreInv, Typed, AllocationSound
<1>2. NextId(counter) - 1 <= MaxCounter
  BY <1>1 DEF NextId
<1>3. DOMAIN issues \subseteq 1..NextId(counter) - 1
  BY DEF StoreInv, AllocationSound
<1>4. NextId(counter) \in Nat
  BY <1>1 DEF NextId
<1>5. S \subseteq 1..MaxCounter
  BY <1>1, <1>2, <1>3, <1>4
<1>6. IsFiniteSet(1..MaxCounter) /\ Cardinality(1..MaxCounter) = MaxCounter
  <2>1. 1 \in Int /\ MaxCounter \in Int /\ MaxCounter - 1 + 1 = MaxCounter /\ ~(1 > MaxCounter)
    BY <1>1
  <2> QED
    BY <2>1, FS_Interval
<1> QED
  BY <1>5, <1>6, FS_Subset, FS_CardinalityType

LEMMA AheadIs ==
    ASSUME StoreInv, NEW a \in Actors
    PROVE  Ahead(proc[a]) \in 1..MaxCounter + 12
<1>1. proc[a].pc \in Pcs /\ proc[a].left \in SUBSET DOMAIN issues
  BY ProcessIs DEF StoreInv, Looked
<1>2. CASE proc[a].pc = "issues"
  <2>1. PICK x : x = Cardinality(proc[a].left)
    OBVIOUS
  <2>2. x \in Nat /\ x <= MaxCounter /\ MaxCounter \in Nat
    BY <1>1, <2>1, IssuesAreFew, LimitsAre
  <2>3. Ahead(proc[a]) = x + 7
    BY <1>2, <2>1 DEF Ahead
  <2> QED
    BY <2>2, <2>3
<1>3. CASE proc[a].pc # "issues"
  BY <1>1, <1>3, PlacesEnd DEF Ahead
<1> QED
  BY <1>2, <1>3

LEMMA ProductIs ==
    ASSUME NEW x \in Nat, NEW y \in Nat
    PROVE  x * y \in Nat
OBVIOUS

LEMMA ProductGrows ==
    ASSUME NEW x \in Nat, NEW y \in Nat, NEW w \in Nat, x <= y
    PROVE  x * w <= y * w /\ x * w \in Nat /\ y * w \in Nat
<1>1. PICK d \in Nat : d = y - x
  OBVIOUS
<1>2. d * w \in Nat /\ x * w \in Nat /\ y * w \in Nat
  BY ProductIs
<1>3. y * w = x * w + d * w
  BY <1>1
<1> QED
  BY <1>2, <1>3

\* From p to q, a process comes nearer to the end, or reads or tries again.
Nearer(p, q) ==
    /\ Ahead(q) \in 1..MaxCounter + 12
    /\ \/ q.tries = p.tries /\ q.rounds = p.rounds /\ Ahead(q) < Ahead(p)
       \/ q.tries = p.tries /\ q.rounds = p.rounds + 1 /\ q.rounds <= MaxAllocRetries
       \/ q.tries = p.tries + 1 /\ q.tries <= MaxTries /\ q.rounds \in 0..MaxAllocRetries

LEMMA RoundsAre ==
    ASSUME StoreInv, TriesInv, NEW a \in Actors
    PROVE  /\ proc[a].tries \in Nat /\ proc[a].tries <= MaxTries
           /\ proc[a].rounds \in Nat /\ proc[a].rounds <= MaxAllocRetries
           /\ RoundsLeft(proc[a]) \in Nat
           /\ RoundsLeft(proc[a]) <= MaxTries * (MaxAllocRetries + 1) + MaxAllocRetries
<1>1. PICK t, r, m, n : t = proc[a].tries /\ r = proc[a].rounds /\ m = MaxTries /\ n = MaxAllocRetries
  OBVIOUS
<1>2. t \in Nat /\ r \in Nat /\ m \in Nat /\ n \in Nat /\ t <= m /\ r <= n
  BY <1>1, ProcessIs, LimitsAre DEF StoreInv, TriesInv
<1>3. /\ m - t \in Nat /\ m - t <= m /\ n + 1 \in Nat
  BY <1>2
<1>4. (m - t) * (n + 1) <= m * (n + 1) /\ (m - t) * (n + 1) \in Nat /\ m * (n + 1) \in Nat
  BY <1>2, <1>3, ProductGrows
<1>5. PICK x, y : x = (m - t) * (n + 1) /\ y = m * (n + 1)
  OBVIOUS
<1>6. x + (n - r) \in Nat /\ x + (n - r) <= y + n
  BY <1>2, <1>4, <1>5
<1>7. RoundsLeft(proc[a]) = (m - t) * (n + 1) + (n - r)
  BY <1>1 DEF RoundsLeft
<1> QED
  BY <1>1, <1>2, <1>5, <1>6, <1>7

LEMMA NearerShrinks ==
    ASSUME StoreInv, TriesInv, NEW a \in Actors, NEW q, Nearer(proc[a], q)
    PROVE  /\ q.tries <= MaxTries /\ q.rounds <= MaxAllocRetries
           /\ StepsLeft(q) < StepsLeft(proc[a])
<1>1. PICK t, r, m, n, x, y, w, l, k :
         /\ t = proc[a].tries /\ r = proc[a].rounds /\ m = MaxTries /\ n = MaxAllocRetries
         /\ x = Ahead(proc[a]) /\ y = Ahead(q) /\ w = MaxCounter + 12
         /\ l = RoundsLeft(proc[a]) /\ k = RoundsLeft(q)
  OBVIOUS
<1>2. /\ t \in Nat /\ r \in Nat /\ m \in Nat /\ n \in Nat /\ t <= m /\ r <= n
      /\ w \in Nat /\ x \in 1..w /\ y \in 1..w /\ l \in Nat
  BY <1>1, RoundsAre, LimitsAre, AheadIs DEF Nearer
<1>3. l = (m - t) * (n + 1) + (n - r)
  BY <1>1 DEF RoundsLeft
<1>4. /\ StepsLeft(proc[a]) = l * w + x /\ StepsLeft(q) = k * w + y
  BY <1>1 DEF StepsLeft
<1>5. k = (m - q.tries) * (n + 1) + (n - q.rounds)
  BY <1>1 DEF RoundsLeft
<1>6. CASE q.tries = t /\ q.rounds = r /\ y < x
  <2>1. k = l
    BY <1>3, <1>5, <1>6
  <2>2. l * w \in Nat
    BY <1>2, ProductIs
  <2>3. l * w + y < l * w + x
    BY <1>2, <1>6, <2>2
  <2> QED
    BY <1>1, <1>2, <1>4, <1>6, <2>1, <2>3
<1>7. ASSUME k \in Nat, k + 1 <= l PROVE k * w + y < l * w + x
  <2>1. (k + 1) * w <= l * w /\ (k + 1) * w \in Nat /\ l * w \in Nat
    BY <1>2, <1>7, ProductGrows
  <2>2. (k + 1) * w = k * w + w /\ k * w \in Nat
    BY <1>2, <1>7, ProductIs
  <2> QED
    BY <1>2, <2>1, <2>2
<1>8. (m - t) * (n + 1) \in Nat
  <2>1. m - t \in Nat /\ n + 1 \in Nat
    BY <1>2
  <2> QED
    BY <2>1, ProductIs
<1>9. CASE q.tries = t /\ q.rounds = r + 1 /\ r + 1 <= n
  <2>1. k = (m - t) * (n + 1) + (n - (r + 1))
    BY <1>5, <1>9
  <2>2. k \in Nat /\ k + 1 <= l
    BY <1>2, <1>3, <1>8, <1>9, <2>1
  <2> QED
    BY <1>1, <1>2, <1>4, <1>7, <1>9, <2>2
<1>10. CASE q.tries = t + 1 /\ t + 1 <= m /\ q.rounds \in 0..n
  <2>1. PICK s : s = q.rounds
    OBVIOUS
  <2>2. s \in Nat /\ s <= n
    BY <1>2, <1>10, <2>1
  <2>3. k = (m - (t + 1)) * (n + 1) + (n - s)
    BY <1>5, <1>10, <2>1
  <2>4. (m - (t + 1)) * (n + 1) = (m - t) * (n + 1) - (n + 1)
    BY <1>2
  <2>5. (m - (t + 1)) * (n + 1) \in Nat
    <3>1. m - (t + 1) \in Nat /\ n + 1 \in Nat
      BY <1>2, <1>10
    <3> QED
      BY <3>1, ProductIs
  <2>6. k \in Nat /\ k + 1 <= l
    BY <1>2, <1>3, <1>8, <2>2, <2>3, <2>4, <2>5
  <2> QED
    BY <1>1, <1>4, <1>7, <1>10, <2>1, <2>2, <2>6
<1> QED
  BY <1>1, <1>6, <1>9, <1>10 DEF Nearer

----------------------------------------------------------------------------
(* Every step ends its command or takes it nearer to its end. *)

Ends(a) == proc' = [proc EXCEPT ![a] = Idle] /\ todo' = [todo EXCEPT ![a] = Tail(@)]
Shrinks(a) == Ends(a) \/ \E q : Becomes(a, q) /\ Nearer(proc[a], q)

\* A process that goes on without another attempt.
LEMMA PassingShrinks ==
    ASSUME StoreInv, TriesInv, NEW a \in Actors, NEW q, Becomes(a, q), q.tries = proc[a].tries,
           q.rounds = proc[a].rounds, q.pc \in Pcs \ {"issues"}, Place(q.pc) < Ahead(proc[a])
    PROVE  Shrinks(a)
<1>1. Ahead(q) = Place(q.pc)
  BY DEF Ahead
<1>2. Ahead(q) \in 1..MaxCounter + 12 /\ Ahead(q) < Ahead(proc[a])
  BY <1>1, PlacesEnd
<1>3. Nearer(proc[a], q)
  BY <1>2 DEF Nearer
<1> QED
  BY <1>3 DEF Shrinks

\* A process that starts another attempt.
LEMMA TryingShrinks ==
    ASSUME StoreInv, TriesInv, NEW a \in Actors, NEW q, Becomes(a, q),
           q.tries = proc[a].tries + 1,
           q.tries < MaxAllocRetries \/ q.tries < MaxAppendRetries,
           q.rounds = proc[a].rounds \/ q.rounds = 0, q.pc \in Pcs \ {"issues"}
    PROVE  Shrinks(a)
<1>1. PICK t, r, m, n, k : /\ t = proc[a].tries /\ r = proc[a].rounds
                           /\ m = MaxTries /\ n = MaxAllocRetries /\ k = MaxAppendRetries
  OBVIOUS
<1>2. /\ t \in Nat /\ r \in Nat /\ r <= n /\ m \in Nat /\ n \in Nat /\ k \in Nat
      /\ n <= m /\ k <= m
  BY <1>1, RoundsAre, LimitsAre
<1>3. t + 1 < n \/ t + 1 < k
  BY <1>1
<1>4. t + 1 <= m
  BY <1>2, <1>3
<1>5. r \in 0..n /\ 0 \in 0..n
  BY <1>2
<1>6. q.tries <= MaxTries /\ q.rounds \in 0..MaxAllocRetries
  BY <1>1, <1>4, <1>5
<1>7. Ahead(q) \in 1..MaxCounter + 12
  BY PlacesEnd DEF Ahead
<1>8. Nearer(proc[a], q)
  BY <1>6, <1>7 DEF Nearer
<1> QED
  BY <1>8 DEF Shrinks

LEMMA GoingShrinks ==
    ASSUME StoreInv, TriesInv, NEW a \in Actors, NEW pc \in Pcs \ {"issues"}, Goes(a, pc),
           Place(pc) < Ahead(proc[a])
    PROVE  Shrinks(a)
<1>1. PICK p \in Process : p = proc[a]
  BY ProcessIs DEF StoreInv
<1>2. PICK q : q = [p EXCEPT !.pc = pc]
  OBVIOUS
<1>3. q.tries = p.tries /\ q.rounds = p.rounds /\ q.pc = pc
  BY <1>2 DEF Process
<1>4. Becomes(a, q)
  BY <1>1, <1>2 DEF Goes
<1> QED
  BY <1>1, <1>3, <1>4, PassingShrinks

LEMMA AnsweringEnds ==
    ASSUME NEW a \in Actors, NEW how, NEW id, Answers(a, how, id)
    PROVE  Shrinks(a)
BY DEF Answers, Shrinks, Ends

LEMMA FailingShrinks ==
    ASSUME StoreInv, TriesInv, NEW a \in Actors, Fails(a), 2 < Ahead(proc[a])
    PROVE  Shrinks(a)
<1>1. CASE Keyed(Call(a))
  <2>1. Goes(a, "recheck")
    BY <1>1 DEF Fails
  <2>2. Place("recheck") < Ahead(proc[a])
    BY PlacesAre
  <2>3. "recheck" \in Pcs \ {"issues"}
    BY DEF Pcs
  <2> QED
    BY <2>1, <2>2, <2>3, GoingShrinks
<1>2. CASE ~Keyed(Call(a))
  BY <1>2, AnsweringEnds DEF Fails
<1> QED
  BY <1>1, <1>2

LEMMA RestartingShrinks ==
    ASSUME StoreInv, TriesInv, NEW a \in Actors, Restarts(a), 2 < Ahead(proc[a])
    PROVE  Shrinks(a)
<1>1. CASE Runs(a, "new") /\ proc[a].tries + 1 < MaxAllocRetries
  <2>1. PICK p \in Process : p = proc[a]
    BY ProcessIs DEF StoreInv
  <2>2. PICK q : q = [p EXCEPT !.pc = "counter", !.tries = @ + 1, !.rounds = 0]
    OBVIOUS
  <2>3. q.tries = p.tries + 1 /\ q.rounds = 0 /\ q.pc = "counter"
    BY <2>2 DEF Process
  <2>4. Becomes(a, q)
    BY <1>1, <2>1, <2>2 DEF Restarts
  <2>5. q.pc \in Pcs \ {"issues"}
    BY <2>3 DEF Pcs
  <2> QED
    BY <1>1, <2>1, <2>3, <2>4, <2>5, TryingShrinks
<1>2. CASE ~(Runs(a, "new") /\ proc[a].tries + 1 < MaxAllocRetries)
  BY <1>2, FailingShrinks DEF Restarts
<1> QED
  BY <1>1, <1>2

LEMMA TakingForFailedShrinks ==
    ASSUME StoreInv, TriesInv, NEW a \in Actors, NEW q, NEW why, NEW applied,
           TakesForFailed(a, q, why, applied), 4 < Ahead(proc[a])
    PROVE  Shrinks(a)
<1>1. /\ Becomes(a, q) /\ q.tries = proc[a].tries /\ q.rounds = proc[a].rounds
      /\ q.pc \in {"claim", "failed"}
  BY DEF TakesForFailed, NextOfFailure
<1>2. Place(q.pc) < Ahead(proc[a])
  <2>1. Place(q.pc) \in {3, 4}
    BY <1>1, PlacesAre
  <2>2. Ahead(proc[a]) \in Nat
    BY AheadIs, LimitsAre
  <2> QED
    BY <2>1, <2>2
<1>3. q.pc \in Pcs \ {"issues"}
  BY <1>1 DEF Pcs
<1> QED
  BY <1>1, <1>2, <1>3, PassingShrinks

LEMMA FailedTransactionShrinks ==
    ASSUME StoreInv, TriesInv, NEW a \in Actors, NEW holds, FailsUnless(a, holds),
           4 < Ahead(proc[a])
    PROVE  Shrinks(a)
<1>1. Typed
  BY DEF StoreInv
<1>2. PICK q, why : TakesForFailed(a, q, why, FALSE)
  BY <1>1, FailedTransactions
<1> QED
  BY <1>2, TakingForFailedShrinks

\* A transaction that goes through.
LEMMA CommittingShrinks ==
    ASSUME StoreInv, TriesInv, NEW a \in Actors, NEW id, Commits(a, id), 4 < Ahead(proc[a])
    PROVE  Shrinks(a)
<1>1. Typed
  BY DEF StoreInv
<1>2. PICK q : Succeeds(a, q, id) \/ TakesForFailed(a, q, "fault", TRUE)
  BY <1>1, CommitsAre
<1>3. CASE Succeeds(a, q, id)
  <2>1. Becomes(a, q) /\ q.tries = proc[a].tries /\ q.rounds = proc[a].rounds /\ q.pc = "done"
    BY <1>3 DEF Succeeds
  <2>2. q.pc \in Pcs \ {"issues"} /\ Place(q.pc) = 1
    BY <2>1, PlacesAre DEF Pcs
  <2>3. Ahead(proc[a]) \in Nat
    BY AheadIs, LimitsAre
  <2> QED
    BY <2>1, <2>2, <2>3, PassingShrinks
<1>4. CASE TakesForFailed(a, q, "fault", TRUE)
  BY <1>4, TakingForFailedShrinks
<1> QED
  BY <1>2, <1>3, <1>4

\* Where a process is says how far it has to go.
LEMMA AheadOf ==
    ASSUME NEW a \in Actors, NEW pc, At(a, pc), pc # "issues"
    PROVE  Ahead(proc[a]) = Place(pc)
BY DEF At, Ahead

LEMMA CommandsShrinking ==
    ASSUME StoreInv, TriesInv, NEW a \in Actors,
           Begin(a) \/ Recheck(a) \/ Done(a) \/ Exists(a) \/ ReadClaim(a)
    PROVE  Shrinks(a)
<1>1. CASE Begin(a)
  <2>1. PICK pc : pc = FirstPc(Call(a))
    OBVIOUS
  <2>2. pc \in {"counter", "branch", "exists"} /\ pc \in Pcs \ {"issues"}
    BY <2>1 DEF FirstPc, Pcs
  <2>3. Ahead(proc[a]) = MaxCounter + 12
    BY <1>1, AheadOf, PlacesAre DEF Begin
  <2>4. Place(pc) < Ahead(proc[a])
    <3>1. Place(pc) \in {MaxCounter + 9, MaxCounter + 10, MaxCounter + 11}
      BY <2>2, PlacesAre
    <3> QED
      BY <2>3, <3>1, LimitsAre
  <2>5. CASE Replays(Call(a))
    BY <1>1, <2>5, AnsweringEnds DEF Begin, Resolved
  <2>6. CASE ~Replays(Call(a))
    <3>1. Goes(a, pc)
      BY <1>1, <2>1, <2>6 DEF Begin
    <3> QED
      BY <2>2, <2>4, <3>1, GoingShrinks
  <2> QED
    BY <2>5, <2>6
<1>2. CASE Recheck(a) \/ Done(a)
  BY <1>2, AnsweringEnds DEF Recheck, Done, Resolved
<1>3. CASE Exists(a)
  <2>1. Ahead(proc[a]) = MaxCounter + 11
    BY <1>3, AheadOf, PlacesAre DEF Exists
  <2>2. /\ Place("branch") < Ahead(proc[a]) /\ Place("tip") < Ahead(proc[a])
        /\ 2 < Ahead(proc[a])
    BY <2>1, PlacesAre, LimitsAre
  <2>3. Fails(a) \/ Goes(a, "branch") \/ Goes(a, "tip")
    BY <1>3 DEF Exists
  <2>4. "branch" \in Pcs \ {"issues"} /\ "tip" \in Pcs \ {"issues"}
    BY DEF Pcs
  <2> QED
    BY <2>2, <2>3, <2>4, FailingShrinks, GoingShrinks
<1>4. CASE ReadClaim(a)
  <2>1. Ahead(proc[a]) = 4
    BY <1>4, AheadOf, PlacesAre DEF ReadClaim
  <2>2. Place("failed") < Ahead(proc[a]) /\ "failed" \in Pcs \ {"issues"}
    BY <2>1, PlacesAre DEF Pcs
  <2>3. CASE Recorded(Call(a))
    BY <1>4, <2>3, AnsweringEnds DEF ReadClaim, Resolved
  <2>4. CASE ~Recorded(Call(a))
    <3>1. Goes(a, "failed")
      BY <1>4, <2>4 DEF ReadClaim
    <3> QED
      BY <2>2, <3>1, GoingShrinks
  <2> QED
    BY <2>3, <2>4
<1> QED
  BY <1>1, <1>2, <1>3, <1>4

\* The reads of a snapshot: each takes one issue from those still to be read.
LEMMA ReadingShrinks ==
    ASSUME StoreInv, TriesInv, NEW a \in Actors, ReadCounter(a) \/ ReadNames(a) \/ ReadIssue(a)
    PROVE  Shrinks(a)
<1>1. PICK p \in Process : p = proc[a]
  BY ProcessIs DEF StoreInv
<1>2. CASE ReadCounter(a)
  <2>1. PICK nothing : nothing = <<>>
    OBVIOUS
  <2>2. PICK q : q = [p EXCEPT !.pc = "names", !.cnt = counter, !.snap = nothing]
    OBVIOUS
  <2>3. q.tries = p.tries /\ q.rounds = p.rounds /\ q.pc = "names"
    BY <2>2 DEF Process
  <2>4. Becomes(a, q)
    BY <1>1, <1>2, <2>1, <2>2 DEF ReadCounter
  <2>5. Ahead(proc[a]) = MaxCounter + 9
    BY <1>2, AheadOf, PlacesAre DEF ReadCounter
  <2>6. Place("names") < Ahead(proc[a])
    BY <2>5, PlacesAre, LimitsAre
  <2>7. q.pc \in Pcs \ {"issues"}
    BY <2>3 DEF Pcs
  <2> QED
    BY <1>1, <2>3, <2>4, <2>6, <2>7, PassingShrinks
<1>3. CASE ReadNames(a)
  <2>1. PICK is : is = DOMAIN issues
    OBVIOUS
  <2>2. PICK q : q = [p EXCEPT !.pc = "issues", !.left = is]
    OBVIOUS
  <2>3. q.tries = p.tries /\ q.rounds = p.rounds /\ q.pc = "issues" /\ q.left = is
    BY <2>2 DEF Process
  <2>4. Becomes(a, q)
    BY <1>1, <1>3, <2>1, <2>2 DEF ReadNames
  <2>5. PICK x : x = Cardinality(is)
    OBVIOUS
  <2>6. x \in Nat /\ x <= MaxCounter /\ MaxCounter \in Nat
    BY <2>1, <2>5, IssuesAreFew, LimitsAre
  <2>7. Ahead(q) = x + 7
    BY <2>3, <2>5 DEF Ahead
  <2>8. Ahead(proc[a]) = MaxCounter + 8
    BY <1>3, AheadOf, PlacesAre DEF ReadNames
  <2>9. Ahead(q) \in 1..MaxCounter + 12 /\ Ahead(q) < Ahead(proc[a])
    BY <2>6, <2>7, <2>8
  <2> QED
    BY <1>1, <2>3, <2>4, <2>9 DEF Shrinks, Nearer
<1>4. CASE ReadIssue(a)
  <2>1. /\ p.pc = "issues" /\ p.left # {} /\ p.left \in SUBSET DOMAIN issues
        /\ p.left \in SUBSET Nat
    BY <1>1, <1>4, ProcessIs DEF ReadIssue, At, StoreInv, Looked
  <2>2. PICK n \in p.left : n = Min(p.left)
    BY <2>1, MinOf
  <2>3. PICK rest, snap : rest = p.left \ {n} /\ snap = With(p.snap, n, issues[n])
    OBVIOUS
  <2>4. PICK q : q = [p EXCEPT !.left = rest, !.snap = snap]
    OBVIOUS
  <2>5. q.tries = p.tries /\ q.rounds = p.rounds /\ q.pc = "issues" /\ q.left = rest
    BY <2>1, <2>4 DEF Process
  <2>6. [p EXCEPT !.left = @ \ {n}, !.snap = With(@, n, issues[n])] = q
    BY <2>3, <2>4 DEF Process
  <2>7. Becomes(a, q)
    BY <1>1, <1>4, <2>2, <2>6 DEF ReadIssue
  <2>8. PICK x, y : x = Cardinality(p.left) /\ y = Cardinality(rest)
    OBVIOUS
  <2>9. IsFiniteSet(p.left) /\ x \in Nat /\ x <= MaxCounter /\ MaxCounter \in Nat
    BY <2>1, <2>8, IssuesAreFew, LimitsAre
  <2>10. y \in Nat /\ y = x - 1
    <3>1. IsFiniteSet(rest)
      BY <2>3, <2>9, FS_Subset
    <3>2. y = x - 1
      BY <2>2, <2>3, <2>8, <2>9, FS_RemoveElement
    <3> QED
      BY <2>8, <3>1, <3>2, FS_CardinalityType
  <2>11. Ahead(proc[a]) = x + 7 /\ Ahead(q) = y + 7
    BY <1>1, <2>1, <2>5, <2>8 DEF Ahead
  <2>12. Ahead(q) \in 1..MaxCounter + 12 /\ Ahead(q) < Ahead(proc[a])
    BY <2>9, <2>10, <2>11
  <2> QED
    BY <1>1, <2>5, <2>7, <2>12 DEF Shrinks, Nearer
<1> QED
  BY <1>2, <1>3, <1>4

LEMMA SnapshotShrinks ==
    ASSUME StoreInv, TriesInv, NEW a \in Actors, Snapshot(a)
    PROVE  Shrinks(a)
<1>1. PICK p \in Process : p = proc[a]
  BY ProcessIs DEF StoreInv
<1>2. Ahead(proc[a]) = 7
  <2>1. p.pc = "issues" /\ p.left = {}
    BY <1>1 DEF Snapshot, At
  <2>2. Cardinality(p.left) = 0
    BY <2>1, FS_EmptySet
  <2> QED
    BY <1>1, <2>1, <2>2 DEF Ahead
<1>3. CASE p.rounds + 1 < MaxAllocRetries
           /\ Becomes(a, [p EXCEPT !.pc = "counter", !.rounds = @ + 1])
  <2>1. PICK q : q = [p EXCEPT !.pc = "counter", !.rounds = @ + 1]
    OBVIOUS
  <2>2. q.tries = p.tries /\ q.rounds = p.rounds + 1 /\ q.pc = "counter"
    BY <2>1 DEF Process
  <2>3. "counter" \in Pcs \ {"issues"}
    BY DEF Pcs
  <2>4. Ahead(q) \in 1..MaxCounter + 12
    BY <2>2, <2>3, PlacesEnd DEF Ahead
  <2>5. q.rounds <= MaxAllocRetries
    <3>1. PICK r, n : r = p.rounds /\ n = MaxAllocRetries
      OBVIOUS
    <3>2. r \in Nat /\ n \in Nat /\ r + 1 < n
      BY <1>1, <1>3, <3>1, RoundsAre, LimitsAre
    <3>3. r + 1 <= n
      BY <3>2
    <3> QED
      BY <2>2, <3>1, <3>3
  <2> QED
    BY <1>1, <1>3, <2>1, <2>2, <2>4, <2>5 DEF Shrinks, Nearer
<1>4. CASE Restarts(a) \/ Fails(a)
  <2>1. 2 < Ahead(proc[a])
    BY <1>2
  <2> QED
    BY <1>4, <2>1, FailingShrinks, RestartingShrinks
<1>5. CASE Goes(a, "batch")
  <2>1. Place("batch") < Ahead(proc[a]) /\ "batch" \in Pcs \ {"issues"}
    BY <1>2, PlacesAre DEF Pcs
  <2> QED
    BY <1>5, <2>1, GoingShrinks
<1> QED
  BY <1>1, <1>3, <1>4, <1>5 DEF Snapshot

LEMMA BatchesShrink ==
    ASSUME StoreInv, TriesInv, NEW a \in Actors, ApplyBatch(a) \/ BatchFails(a) \/ BatchFailed(a)
    PROVE  Shrinks(a)
<1>1. CASE ApplyBatch(a)
  <2>1. Ahead(proc[a]) = 6
    BY <1>1, AheadOf, PlacesAre DEF ApplyBatch
  <2>2. PICK id : Commits(a, id)
    BY <1>1 DEF ApplyBatch
  <2> QED
    BY <2>1, <2>2, CommittingShrinks
<1>2. CASE BatchFails(a)
  <2>1. Ahead(proc[a]) = 6
    BY <1>2, AheadOf, PlacesAre DEF BatchFails
  <2>2. PICK holds : FailsUnless(a, holds)
    BY <1>2 DEF BatchFails
  <2> QED
    BY <2>1, <2>2, FailedTransactionShrinks
<1>3. CASE BatchFailed(a)
  <2>1. Ahead(proc[a]) = 3
    BY <1>3, AheadOf, PlacesAre DEF BatchFailed
  <2>2. Restarts(a) \/ Fails(a)
    BY <1>3 DEF BatchFailed
  <2> QED
    BY <2>1, <2>2, FailingShrinks, RestartingShrinks
<1> QED
  BY <1>1, <1>2, <1>3

LEMMA CreatingShrinks ==
    ASSUME StoreInv, TriesInv, NEW a \in Actors, CreateStep(a)
    PROVE  Shrinks(a)
<1>1. PICK p \in Process : p = proc[a]
  BY ProcessIs DEF StoreInv
<1>2. CASE ReadBranches(a)
  <2>1. Ahead(proc[a]) = MaxCounter + 10
    BY <1>2, AheadOf, PlacesAre DEF ReadBranches
  <2>2. 2 < Ahead(proc[a]) /\ Place("alloc") < Ahead(proc[a])
    BY <2>1, PlacesAre, LimitsAre
  <2>3. (Goes(a, "alloc") \/ Fails(a)) /\ "alloc" \in Pcs \ {"issues"}
    BY <1>2 DEF ReadBranches, Pcs
  <2> QED
    BY <2>2, <2>3, GoingShrinks, FailingShrinks
<1>3. CASE Allocate(a)
  <2>1. Ahead(proc[a]) = 6
    BY <1>3, AheadOf, PlacesAre DEF Allocate
  <2>2. PICK q : q = [p EXCEPT !.pc = "create", !.cnt = counter]
    OBVIOUS
  <2>3. Becomes(a, q) \/ Fails(a)
    BY <1>1, <1>3, <2>2 DEF Allocate
  <2>4. q.tries = p.tries /\ q.rounds = p.rounds /\ q.pc = "create"
    BY <2>2 DEF Process
  <2>5. Place("create") < Ahead(proc[a]) /\ 2 < Ahead(proc[a]) /\ "create" \in Pcs \ {"issues"}
    BY <2>1, PlacesAre DEF Pcs
  <2> QED
    BY <1>1, <2>3, <2>4, <2>5, PassingShrinks, FailingShrinks
<1>4. CASE CreatePr(a)
  <2>1. Ahead(proc[a]) = 5
    BY <1>4, AheadOf, PlacesAre DEF CreatePr
  <2>2. PICK id : Commits(a, id)
    BY <1>4 DEF CreatePr
  <2> QED
    BY <2>1, <2>2, CommittingShrinks
<1>5. CASE CreateFails(a)
  <2>1. Ahead(proc[a]) = 5
    BY <1>5, AheadOf, PlacesAre DEF CreateFails
  <2>2. PICK holds : FailsUnless(a, holds)
    BY <1>5 DEF CreateFails
  <2> QED
    BY <2>1, <2>2, FailedTransactionShrinks
<1>6. CASE CreateFailed(a)
  <2>1. Ahead(proc[a]) = 3
    BY <1>6, AheadOf, PlacesAre DEF CreateFailed
  <2>2. PICK q : q = [p EXCEPT !.pc = "alloc", !.tries = @ + 1]
    OBVIOUS
  <2>3. (Becomes(a, q) /\ p.tries + 1 < MaxAllocRetries) \/ Fails(a)
    BY <1>1, <1>6, <2>2 DEF CreateFailed
  <2>4. q.tries = p.tries + 1 /\ q.rounds = p.rounds /\ q.pc = "alloc"
    BY <2>2 DEF Process
  <2>5. 2 < Ahead(proc[a]) /\ "alloc" \in Pcs \ {"issues"}
    BY <2>1 DEF Pcs
  <2>6. CASE Becomes(a, q) /\ p.tries + 1 < MaxAllocRetries
    <3>1. q.tries < MaxAllocRetries
      BY <2>4, <2>6
    <3> QED
      BY <1>1, <2>4, <2>5, <2>6, <3>1, TryingShrinks
  <2> QED
    BY <2>3, <2>5, <2>6, FailingShrinks
<1> QED
  BY <1>2, <1>3, <1>4, <1>5, <1>6 DEF CreateStep

LEMMA AppendingShrinks ==
    ASSUME StoreInv, TriesInv, NEW a \in Actors, AppendStep(a)
    PROVE  Shrinks(a)
<1>1. PICK p \in Process : p = proc[a]
  BY ProcessIs DEF StoreInv
<1>2. PICK log : log = issues[Call(a).id].log
  OBVIOUS
<1>3. CASE Tip(a)
  <2>1. Ahead(proc[a]) = 6
    BY <1>3, AheadOf, PlacesAre DEF Tip
  <2>2. PICK q : q = [p EXCEPT !.pc = "append", !.log = log]
    OBVIOUS
  <2>3. Becomes(a, q)
    BY <1>1, <1>2, <1>3, <2>2 DEF Tip
  <2>4. q.tries = p.tries /\ q.rounds = p.rounds /\ q.pc = "append"
    BY <2>2 DEF Process
  <2>5. Place("append") < Ahead(proc[a]) /\ "append" \in Pcs \ {"issues"}
    BY <2>1, PlacesAre DEF Pcs
  <2> QED
    BY <1>1, <2>3, <2>4, <2>5, PassingShrinks
<1>4. CASE WriteEvent(a)
  <2>1. Ahead(proc[a]) = 5
    BY <1>4, AheadOf, PlacesAre DEF WriteEvent
  <2>2. PICK id : Commits(a, id)
    BY <1>4 DEF WriteEvent
  <2> QED
    BY <2>1, <2>2, CommittingShrinks
<1>5. CASE AppendFails(a)
  <2>1. Ahead(proc[a]) = 5
    BY <1>5, AheadOf, PlacesAre DEF AppendFails
  <2>2. PICK holds : FailsUnless(a, holds)
    BY <1>5 DEF AppendFails
  <2> QED
    BY <2>1, <2>2, FailedTransactionShrinks
<1>6. CASE AppendFailed(a)
  <2>1. Ahead(proc[a]) = 3
    BY <1>6, AheadOf, PlacesAre DEF AppendFailed
  <2>2. PICK next \in {"append", "tip"} : next = IF Keyed(Call(a)) THEN "append" ELSE "tip"
    OBVIOUS
  <2>3. PICK q : q = [p EXCEPT !.tries = @ + 1, !.log = log, !.pc = next]
    OBVIOUS
  <2>4. (Becomes(a, q) /\ ~(p.tries + 1 >= MaxAppendRetries)) \/ Fails(a)
    BY <1>1, <1>2, <1>6, <2>2, <2>3 DEF AppendFailed
  <2>5. q.tries = p.tries + 1 /\ q.rounds = p.rounds /\ q.pc = next
    BY <2>3 DEF Process
  <2>6. 2 < Ahead(proc[a]) /\ next \in Pcs \ {"issues"}
    BY <2>1 DEF Pcs
  <2>7. CASE Becomes(a, q) /\ ~(p.tries + 1 >= MaxAppendRetries)
    <3>1. PICK t, k : t = p.tries /\ k = MaxAppendRetries
      OBVIOUS
    <3>2. t \in Nat /\ k \in Nat /\ ~(t + 1 >= k)
      BY <1>1, <2>7, <3>1, RoundsAre, LimitsAre
    <3>3. t + 1 < k
      BY <3>2
    <3>4. q.tries < MaxAppendRetries
      BY <2>5, <3>1, <3>3
    <3> QED
      BY <1>1, <2>5, <2>6, <2>7, <3>4, TryingShrinks
  <2> QED
    BY <2>4, <2>6, <2>7, FailingShrinks
<1> QED
  BY <1>3, <1>4, <1>5, <1>6 DEF AppendStep

LEMMA StepsShrink ==
    ASSUME StoreInv, TriesInv, NEW a \in Actors, Step(a)
    PROVE  Shrinks(a)
<1>1. CASE BatchStep(a)
  BY <1>1, ReadingShrinks, SnapshotShrinks, BatchesShrink DEF BatchStep
<1> QED
  BY <1>1, CommandsShrinking, CreatingShrinks, AppendingShrinks DEF Step

----------------------------------------------------------------------------
(* What that means for every shell. *)

LEMMA EndingShrinks ==
    ASSUME StoreInv, TriesInv, NEW a \in Actors, todo[a] # <<>>, Ends(a)
    PROVE  TriesInv' /\ \A b \in Actors : Shrunk(b)
<1>1. Typed
  BY DEF StoreInv
<1>2. \A b \in Actors \ {a} : proc'[b] = proc[b] /\ todo'[b] = todo[b]
  BY <1>1 DEF Typed, Ends
<1>3. proc'[a] = Idle /\ todo'[a] = Tail(todo[a])
  BY <1>1 DEF Typed, Ends
<1>4. proc'[a].tries = 0 /\ proc'[a].rounds = 0
  <2>1. Idle.tries = 0 /\ Idle.rounds = 0
    BY DEF Idle
  <2> QED
    BY <1>3, <2>1
<1>5. PICK n \in Nat \ {0} : n = Len(todo[a])
  BY <1>1, CallIs DEF Typed
<1>6. PICK rest : rest = Len(Tail(todo[a]))
  OBVIOUS
<1>7. rest = n - 1
  BY <1>1, <1>5, <1>6, CallIs DEF Typed
<1>8. rest < n
  BY <1>5, <1>7
<1>9. Len(todo'[a]) < Len(todo[a])
  BY <1>3, <1>5, <1>6, <1>8
<1>10. 0 <= MaxTries /\ 0 <= MaxAllocRetries
  BY LimitsAre
<1>11. TriesInv'
  BY <1>2, <1>4, <1>10 DEF TriesInv, MaxTries
<1> QED
  BY <1>2, <1>9, <1>11 DEF Shrunk

LEMMA ShrinkStep ==
    ASSUME StoreInv, TriesInv, [Next]_vars
    PROVE  TriesInv' /\ \A b \in Actors : Shrunk(b)
<1>1. Typed
  BY DEF StoreInv
<1>2. ASSUME NEW a \in Actors, Step(a) PROVE TriesInv' /\ \A b \in Actors : Shrunk(b)
  <2>1. Shrinks(a)
    BY <1>2, StepsShrink
  <2>2. todo[a] # <<>>
    <3>1. Ponders(a) \/ Tells(a) \/ ApplyBatch(a) \/ CreatePr(a) \/ WriteEvent(a)
      BY <1>2, StepsAre
    <3> QED
      BY <3>1 DEF Ponders, Tells, ApplyBatch, CreatePr, WriteEvent, StoreInv, Fits, At
  <2>3. ASSUME NEW q, Becomes(a, q), Nearer(proc[a], q)
        PROVE  TriesInv' /\ \A b \in Actors : Shrunk(b)
    <3>1. proc' = [proc EXCEPT ![a] = q] /\ todo' = todo
      BY <2>3 DEF Becomes
    <3>2. proc'[a] = q /\ \A b \in Actors \ {a} : proc'[b] = proc[b]
      BY <1>1, <3>1, OtherProcesses
    <3>3. /\ q.tries <= MaxTries /\ q.rounds <= MaxAllocRetries
          /\ StepsLeft(q) < StepsLeft(proc[a])
      BY <2>3, NearerShrinks
    <3>4. TriesInv'
      BY <3>2, <3>3 DEF TriesInv, MaxTries
    <3>5. Shrunk(a)
      BY <3>1, <3>2, <3>3 DEF Shrunk
    <3>6. \A b \in Actors \ {a} : Shrunk(b)
      BY <3>1, <3>2 DEF Shrunk
    <3> QED
      BY <3>4, <3>5, <3>6
  <2> QED
    BY <2>1, <2>2, <2>3, EndingShrinks DEF Shrinks
<1>3. ASSUME NEW a \in Actors, Crash(a) PROVE TriesInv' /\ \A b \in Actors : Shrunk(b)
  <2>1. todo[a] # <<>> /\ Ends(a)
    BY <1>3 DEF Crash, Ends, StoreInv, Fits
  <2> QED
    BY <2>1, EndingShrinks
<1>4. CASE DeleteBranches \/ UNCHANGED vars
  <2>1. proc' = proc /\ todo' = todo
    BY <1>4 DEF DeleteBranches, vars
  <2> QED
    BY <2>1 DEF TriesInv, Shrunk, MaxTries
<1> QED
  BY <1>2, <1>3, <1>4 DEF Next

LEMMA TriesStart ==
    ASSUME Init
    PROVE  TriesInv
<1>1. \A a \in Actors : proc[a].tries = 0 /\ proc[a].rounds = 0
  BY DEF Init, Idle
<1>2. 0 <= MaxTries /\ 0 <= MaxAllocRetries
  BY LimitsAre
<1> QED
  BY <1>1, <1>2 DEF TriesInv

(***************************************************************************)
(* No command retries for ever: each step of a shell's command is its last *)
(* or leaves it fewer steps to take, and no other shell's step adds to     *)
(* them, whatever is created meanwhile and whatever fails (issue_batch.rs  *)
(* issue_snapshot, issue_apply.rs new_issue_keyed, store.rs append_event). *)
(***************************************************************************)
THEOREM CommandsComeToAnEnd == Spec => CommandsShrink
<1>1. StoreInv /\ TriesInv /\ [Next]_vars => TriesInv'
  BY ShrinkStep
<1>2. StoreInv /\ TriesInv /\ [Next]_vars => [\A a \in Actors : Shrunk(a)]_vars
  BY ShrinkStep
<1> QED
  BY <1>1, <1>2, TriesStart, StoreHolds, PTL DEF Spec, CommandsShrink

(***************************************************************************)
(* The steps a command may still take are a natural number, and no more    *)
(* than before its first (issue_batch.rs issue_snapshot, store.rs          *)
(* create_pr_claimed, append_event).                                       *)
(***************************************************************************)
THEOREM CommandStepsAreBounded ==
    Spec => [](\A a \in Actors : StepsLeft(proc[a]) \in 1..StepsLeft(Idle))
<1>1. StoreInv /\ TriesInv => \A a \in Actors : StepsLeft(proc[a]) \in 1..StepsLeft(Idle)
  <2> SUFFICES ASSUME StoreInv, TriesInv, NEW a \in Actors
               PROVE  StepsLeft(proc[a]) \in 1..StepsLeft(Idle)
    OBVIOUS
  <2>1. PICK l, k, x, w, m, n :
           /\ l = RoundsLeft(proc[a]) /\ x = Ahead(proc[a]) /\ w = MaxCounter + 12
           /\ m = MaxTries /\ n = MaxAllocRetries /\ k = m * (n + 1) + n
    OBVIOUS
  <2>2. l \in Nat /\ l <= k /\ x \in 1..w /\ w \in Nat /\ m \in Nat /\ n \in Nat
    BY <2>1, RoundsAre, AheadIs, LimitsAre
  <2>3. k \in Nat
    <3>1. n + 1 \in Nat
      BY <2>2
    <3>2. m * (n + 1) \in Nat
      BY <2>2, <3>1, ProductIs
    <3> QED
      BY <2>1, <2>2, <3>2
  <2>4. l * w <= k * w /\ l * w \in Nat /\ k * w \in Nat
    BY <2>2, <2>3, ProductGrows
  <2>5. l * w + x \in 1..k * w + w
    BY <2>2, <2>4
  <2>6. StepsLeft(proc[a]) = l * w + x
    BY <2>1 DEF StepsLeft
  <2>7. StepsLeft(Idle) = k * w + w
    <3>1. Ahead(Idle) = MaxCounter + 12
      BY PlacesAre DEF Ahead, Idle
    <3>2. RoundsLeft(Idle) = (MaxTries - 0) * (MaxAllocRetries + 1) + (MaxAllocRetries - 0)
      BY DEF RoundsLeft, Idle
    <3>3. (m - 0) * (n + 1) + (n - 0) = k
      BY <2>1, <2>2
    <3>4. RoundsLeft(Idle) = k
      BY <2>1, <3>2, <3>3
    <3> QED
      BY <2>1, <3>1, <3>4 DEF StepsLeft
  <2> QED
    BY <2>5, <2>6, <2>7
<1>2. StoreInv /\ TriesInv /\ [Next]_vars => TriesInv'
  BY ShrinkStep
<1> QED
  BY <1>1, <1>2, TriesStart, StoreHolds, PTL DEF Spec
=============================================================================

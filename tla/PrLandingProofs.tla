---------------------------- MODULE PrLandingProofs ----------------------------
(***************************************************************************)
(* What a merge lands is what was reviewed and checked: the work of the    *)
(* snapshot it is recorded on and, once a result was prepared, that very   *)
(* result; for every set of actors, every plan and every bound, with and   *)
(* without rollbacks, faults and kills.                                    *)
(*                                                                         *)
(* The argument follows a generation's number.  Its source commit is       *)
(* written once, in the pin that claims the number, and a chain, a         *)
(* candidate and a running process name a source only as the one their     *)
(* generation pins.  So a candidate whose generation is the chain's is     *)
(* built from the chain's source, and a tip adopted while a merge          *)
(* finalizes, which has the merge's generation, has its source as well.    *)
(***************************************************************************)
EXTENDS PrMergeProofs

----------------------------------------------------------------------------
(* The inductive invariant. *)

\* Commit c was made, and carries the work of s.
Carried(c, s) == c \in Made /\ CarriesWork(c, s)

\* Generation gen is pinned, at source commit s.
PinnedAt(gen, s) == \E p \in pins : p.gen = gen /\ p.source = s

\* The merge at position i of chain c lands the snapshot and the vetted result.
Landed(c, i) ==
    LET st == c[i-1].st
        bind == c[i].ev.bind
    IN  /\ Carried(bind.result, st.source)
        /\ st.prepared.result # NoCommit =>
              /\ bind.result = st.prepared.result
              /\ \E k \in 1..i-1 : VettedAt(c[k].st, bind)

\* Position i of chain c: its snapshot is pinned, its candidate made from a pinned one.
LandingAt(c, i) ==
    LET st == c[i].st IN
    /\ Pin(st.gen, st.source, st.base) \in pins
    /\ st.prepared.result # NoCommit =>
          /\ PinnedAt(st.prepared.gen, st.prepared.source)
          /\ Carried(st.prepared.result, st.prepared.source)
    /\ c[i].ev.kind = "pr.merge" => Landed(c, i)

LandingChain(c) == \A i \in 1..Len(c) : LandingAt(c, i)

\* Where a prepare holds a snapshot, and its result; and where a merge holds its result.
Preparing == {"p_base", "p_tip", "p_pin", "p_txn", "p_head"}
Prepares == Preparing \ {"p_base"}
Landing == {"m_pin"} \cup Finalizing

\* What process p, running a command with argument arg, may rely on.
LandingProcess(p, arg) ==
    /\ p.tip # <<>> => LandingChain(p.tip)
    /\ p.pc \in Preparing => PinnedAt(p.gen, p.src)
    /\ p.pc \in Prepares => Carried(p.res, p.src)
    /\ p.pc \in {"idle", "m_base"} => p.bind.result = NoCommit
    /\ p.pc \in Gated => p.gen = State(p.tip).gen /\ p.src = State(p.tip).source
    /\ p.pc \in Landing =>
          /\ Carried(p.res, p.src)
          /\ State(p.tip).prepared.result = p.bind.result
          /\ p.bind.result # NoCommit =>
                /\ p.bind.strategy = arg /\ p.bind.result = p.res
                /\ \E k \in 1..Len(p.tip) : VettedAt(p.tip[k].st, p.bind)

LandingInv ==
    /\ \A c \in Made : c \in Anc(c)
    /\ \A p, q \in pins : p.gen = q.gen => p = q
    /\ LandingChain(chain)
    /\ \A a \in Actors : LandingProcess(proc[a], Command(a).arg)

----------------------------------------------------------------------------
(* Commits and pins are only ever added. *)

Grown ==
    /\ pins \subseteq pins'
    /\ \A c \in Made : c \in Made' /\ objects'[c] = objects[c]

\* What is known of a chain stays known.
LEMMA LandingGrows ==
    ASSUME Grown, NEW c, LandingChain(c)
    PROVE  LandingChain(c)'
<1>1. \A r, s : Carried(r, s) => Carried(r, s)'
  BY DEF Grown, Carried, CarriesWork, Anc
<1>2. \A g, s : PinnedAt(g, s) => PinnedAt(g, s)'
  BY DEF Grown, PinnedAt
<1>3. ASSUME NEW i \in 1..Len(c) PROVE LandingAt(c, i)'
  <2>1. LandingAt(c, i)
    BY <1>3 DEF LandingChain
  <2>2. c[i].ev.kind = "pr.merge" => Landed(c, i)'
    BY <1>1, <2>1 DEF LandingAt, Landed
  <2> QED
    BY <1>1, <1>2, <2>1, <2>2 DEF LandingAt, Grown
<1> QED
  BY <1>3 DEF LandingChain

\* And so does what a process relies on.
LEMMA ProcessGrows ==
    ASSUME Grown, NEW p, NEW arg, LandingProcess(p, arg)
    PROVE  LandingProcess(p, arg)'
<1>1. \A r, s : Carried(r, s) => Carried(r, s)'
  BY DEF Grown, Carried, CarriesWork, Anc
<1>2. \A g, s : PinnedAt(g, s) => PinnedAt(g, s)'
  BY DEF Grown, PinnedAt
<1>3. p.tip # <<>> => LandingChain(p.tip)'
  BY LandingGrows DEF LandingProcess
<1> QED
  BY <1>1, <1>2, <1>3 DEF LandingProcess

\* A new commit is its own ancestor, and leaves the others as they are.
LEMMA NewCommitGrows ==
    ASSUME ObjectsTyped, NEW anc \in SUBSET Made, NEW from \in Nat, NewCommit(anc, from),
           \A c \in Made : c \in Anc(c)
    PROVE  /\ \A c \in Made : c \in Made' /\ objects'[c] = objects[c]
           /\ \A c \in Made' : c \in Anc(c)'
           /\ NextCommit \in Made' /\ objects'[NextCommit].from = from
<1> DEFINE Obj == [anc : SUBSET Nat, from : Nat]
           o == [anc |-> anc \cup {NextCommit}, from |-> from]
<1>1. objects \in Seq(Obj) /\ Len(objects) \in Nat /\ Made = 1..Len(objects)
  BY LenProperties DEF ObjectsTyped, Made
<1>2. Made' = Made \cup {NextCommit} /\ Made \subseteq Nat /\ NextCommit \in Nat
  BY NewCommitTyped
<1>3. o \in Obj
  BY <1>2
<1>4. objects' = Append(objects, o)
  BY DEF NewCommit
<1> HIDE DEF o
<1>5. /\ \A c \in 1..Len(objects) : objects'[c] = objects[c]
      /\ objects'[NextCommit] = o
  BY <1>1, <1>3, <1>4, AppendProperties DEF NextCommit
<1>6. o.from = from /\ NextCommit \in o.anc
  BY DEF o
<1> QED
  BY <1>1, <1>2, <1>5, <1>6 DEF Anc

\* A strategy that succeeds on source s makes a commit that carries the work of s
\* (merge_state.rs execute_strategy).
LEMMA ExecutesCarries ==
    ASSUME ObjectsTyped, NEW strategy, NEW s \in Made, NEW b \in Made, NEW r,
           Executes(strategy, s, b, r), \A c \in Made : c \in Anc(c)
    PROVE  /\ Carried(r, s)'
           /\ \A c \in Made : c \in Made' /\ objects'[c] = objects[c]
           /\ \A c \in Made' : c \in Anc(c)'
<1>1. CASE UNCHANGED objects /\ r \in Reused(strategy, s, b)
  <2>1. (r = s \/ (r = b /\ s \in Anc(b))) /\ s \in Anc(s)
    BY <1>1 DEF Reused
  <2> QED
    BY <1>1, <2>1 DEF Carried, CarriesWork, Anc, Made
<1>2. CASE r = NextCommit /\ NewCommit(Kept(strategy, s, b), s)
  <2>1. Kept(strategy, s, b) \in SUBSET Made
    BY DEF Kept, ObjectsTyped
  <2>2. s \in Nat
    BY LenProperties DEF ObjectsTyped, Made
  <2>3. /\ \A c \in Made : c \in Made' /\ objects'[c] = objects[c]
        /\ \A c \in Made' : c \in Anc(c)'
        /\ NextCommit \in Made' /\ objects'[NextCommit].from = s
    BY <1>2, <2>1, <2>2, NewCommitGrows
  <2> QED
    BY <1>2, <2>3 DEF Carried, CarriesWork
<1> QED
  BY <1>1, <1>2 DEF Executes

----------------------------------------------------------------------------
(* One event appended. *)

\* The snapshot and the candidate are set by one kind of event each (event.rs
\* PrState::apply).
LEMMA ApplySnapshot ==
    ASSUME NEW st \in States, NEW e \in Events, e.kind # "pr.created",
           NEW new, new = Apply(st, e)
    PROVE  /\ IF e.kind = "pr.update"
              THEN new.gen = e.gen /\ new.source = e.source /\ new.base = e.base
              ELSE new.gen = st.gen /\ new.source = st.source /\ new.base = st.base
           /\ IF e.kind = "pr.prepared"
              THEN /\ new.prepared.gen = e.gen /\ new.prepared.source = e.source
                   /\ new.prepared.result = e.bind.result
              ELSE new.prepared = st.prepared
<1>1. CASE e.kind = "pr.update"
  BY <1>1 DEF Apply, States
<1>2. CASE e.kind = "pr.prepared"
  BY <1>2 DEF Apply, States
<1>3. CASE e.kind \in {"pr.review", "ci.check", "pr.merge", "pr.abandoned", "pr.comment"}
  BY <1>3 DEF Apply, States
<1> QED
  BY <1>1, <1>2, <1>3 DEF Events, Kinds

\* Event e may follow chain c: an update pins its snapshot, a prepare records a
\* candidate made from a pinned one, and a merge lands them.
LandingEvent(c, e) ==
    LET st == State(c) IN
    /\ e.kind = "pr.update" => Pin(e.gen, e.source, e.base) \in pins
    /\ e.kind = "pr.prepared" =>
          PinnedAt(e.gen, e.source) /\ Carried(e.bind.result, e.source)
    /\ e.kind = "pr.merge" =>
          /\ Carried(e.bind.result, st.source)
          /\ st.prepared.result # NoCommit =>
                /\ e.bind.result = st.prepared.result
                /\ \E k \in 1..Len(c) : VettedAt(c[k].st, e.bind)

\* Appending such an event keeps what is known of a chain.
LEMMA ExtendLanding ==
    ASSUME NEW c \in Chains, c # <<>>, SoundChain(c), NEW e \in Events,
           e.kind # "pr.created", LandingChain(c), LandingEvent(c, e)
    PROVE  LandingChain(Extend(c, e))
<1> DEFINE d == Extend(c, e)
           n == Len(c)
           st == State(c)
           new == Apply(st, e)
<1>1. n \in Nat \ {0} /\ st \in States
  BY LastElement, StateTyped DEF Chains
<1>2. /\ Len(d) = n + 1 /\ \A j \in 1..n : d[j] = c[j]
      /\ d[n + 1].ev = e /\ d[n + 1].st = new
  <2>1. /\ Len(d) = n + 1 /\ \A j \in 1..n : d[j] = c[j]
        /\ d[n + 1] = [ev |-> e, st |-> new]
    BY ExtendTyped
  <2> HIDE DEF d, new
  <2> QED
    BY <2>1
<1>3. c[n].st = st /\ LandingAt(c, n)
  BY <1>1 DEF State, LandingChain
<1>4. /\ IF e.kind = "pr.update"
         THEN new.gen = e.gen /\ new.source = e.source /\ new.base = e.base
         ELSE new.gen = st.gen /\ new.source = st.source /\ new.base = st.base
      /\ IF e.kind = "pr.prepared"
         THEN /\ new.prepared.gen = e.gen /\ new.prepared.source = e.source
              /\ new.prepared.result = e.bind.result
         ELSE new.prepared = st.prepared
  BY <1>1, ApplySnapshot
<1> HIDE DEF d, n, st, new
<1>5. ASSUME NEW i \in 1..n PROVE LandingAt(d, i)
  <2>1. LandingAt(c, i) /\ d[i] = c[i] /\ Folded(c, i)
    BY <1>2 DEF LandingChain, SoundChain, n
  <2>2. ASSUME c[i].ev.kind = "pr.merge" PROVE Landed(d, i)
    <3>1. i # 1
      BY <2>1, <2>2 DEF Folded
    <3>2. i - 1 \in 1..n /\ d[i-1] = c[i-1] /\ \A k \in 1..i-1 : d[k] = c[k]
      BY <1>1, <1>2, <3>1
    <3> QED
      BY <2>1, <2>2, <3>2 DEF LandingAt, Landed
  <2> QED
    BY <2>1, <2>2 DEF LandingAt
<1>6. LandingAt(d, n + 1)
  <2>1. Pin(new.gen, new.source, new.base) \in pins
    BY <1>3, <1>4 DEF LandingAt, LandingEvent
  <2>2. new.prepared.result # NoCommit =>
            /\ PinnedAt(new.prepared.gen, new.prepared.source)
            /\ Carried(new.prepared.result, new.prepared.source)
    BY <1>3, <1>4 DEF LandingAt, LandingEvent
  <2>3. e.kind = "pr.merge" => Landed(d, n + 1)
    <3>1. n + 1 - 1 = n /\ d[n] = c[n] /\ \A k \in 1..n : d[k] = c[k]
      BY <1>1, <1>2
    <3> QED
      BY <1>2, <1>3, <3>1 DEF Landed, LandingEvent, st, n
  <2> QED
    BY <1>2, <2>1, <2>2, <2>3 DEF LandingAt
<1> QED
  BY <1>1, <1>2, <1>5, <1>6 DEF LandingChain, d

\* The same of the next state.
ExtendsToLanding ==
    \A c \in Chains, e \in Events :
        /\ c # <<>> /\ SoundChain(c) /\ LandingChain(c)
        /\ e.kind # "pr.created" /\ LandingEvent(c, e)
        => LandingChain(Extend(c, e))
LEMMA ExtendLandingNext == ExtendsToLanding'
<1>1. ExtendsToLanding
  BY ExtendLanding DEF ExtendsToLanding
<1> QED
  BY <1>1, PTL

----------------------------------------------------------------------------
(* The initial states. *)

\* A chain of one created event on a pinned snapshot.
LEMMA GenesisLanding ==
    ASSUME NEW e \in Events, e.kind = "pr.created", Pin(0, e.source, e.base) \in pins
    PROVE  LandingChain(Genesis(e))
<1> DEFINE st == Apply(EmptyPr, e)
           node == [ev |-> e, st |-> st]
<1>1. /\ st.gen = 0 /\ st.source = e.source /\ st.base = e.base
      /\ st.prepared.result = NoCommit
  BY DEF Apply, EmptyPr, NoCandidate
<1>2. Genesis(e) = <<node>> /\ node.ev = e /\ node.st = st
  BY DEF Genesis
<1> HIDE DEF st, node
<1>3. Len(<<node>>) = 1 /\ <<node>>[1] = node
  OBVIOUS
<1>4. LandingAt(<<node>>, 1)
  BY <1>1, <1>2, <1>3 DEF LandingAt
<1> QED
  BY <1>2, <1>3, <1>4 DEF LandingChain

\* Every commit made before the scripts is its own ancestor, and a candidate carries
\* the work of the source branch.
LEMMA InitialCommits ==
    ASSUME Init
    PROVE  /\ \A c \in Made : c \in Anc(c)
           /\ result # NoCommit => Carried(Candidate0.result, Source0)
<1> DEFINE Obj == [anc : SUBSET Nat, from : Nat]
           two == <<[anc |-> {1}, from |-> 1], [anc |-> {1, 2}, from |-> 2]>>
           third == [anc |-> {1, 3}, from |-> 3]
           n == Len(Commits0)
           o == [anc |-> 1..n + 1, from |-> Source0]
<1>1. Commits0 \in Seq(Obj) /\ n \in {2, 3}
  BY Commits0Typed
<1>2. \A c \in 1..n : c \in Commits0[c].anc
  <2>1. /\ two \in Seq(Obj) /\ Len(two) = 2 /\ two[1].anc = {1} /\ two[2].anc = {1, 2}
        /\ third \in Obj /\ third.anc = {1, 3}
    OBVIOUS
  <2>2. Commits0 = IF Diverged THEN Append(two, third) ELSE two
    BY DEF Commits0
  <2> HIDE DEF two, third, Obj
  <2>3. CASE Diverged
    <3>1. /\ Len(Append(two, third)) = Len(two) + 1
          /\ \A c \in 1..Len(two) : Append(two, third)[c] = two[c]
          /\ Append(two, third)[Len(two) + 1] = third
      <4>1. two \in Seq(Obj) /\ third \in Obj
        BY <2>1
      <4> QED
        BY ONLY <4>1, AppendProperties
    <3>2. Len(two) + 1 = 3 /\ 1 \in 1..Len(two) /\ 2 \in 1..Len(two)
      BY <2>1
    <3>3. n = 3 /\ Commits0[1] = two[1] /\ Commits0[2] = two[2] /\ Commits0[3] = third
      BY <2>2, <2>3, <3>1, <3>2
    <3> QED
      BY <2>1, <3>3
  <2>4. CASE ~Diverged
    <3>1. n = 2 /\ Commits0 = two
      BY <2>1, <2>2, <2>4
    <3> QED
      BY <2>1, <3>1
  <2> QED
    BY <2>3, <2>4
<1>3. CASE objects = Commits0 /\ result = NoCommit
  BY <1>1, <1>2, <1>3, LenProperties DEF Made, Anc
<1>4. CASE objects = Append(Commits0, o)
  <2>1. o \in Obj /\ n \in Nat
    BY <1>1 DEF Source0
  <2>2. /\ objects \in Seq(Obj) /\ Len(objects) = n + 1 /\ objects[n + 1] = o
        /\ \A c \in 1..n : objects[c] = Commits0[c]
    BY <1>1, <1>4, <2>1, AppendProperties
  <2>3. Made = 1..n + 1
    BY <2>1, <2>2, LenProperties DEF Made
  <2>4. o.anc = 1..n + 1 /\ o.from = Source0
    OBVIOUS
  <2> HIDE DEF o
  <2>5. Anc(n + 1) = 1..n + 1
    BY <2>2, <2>4 DEF Anc
  <2>6. ASSUME NEW c \in Made PROVE c \in Anc(c)
    <3>1. CASE c \in 1..n
      BY <1>2, <2>2, <3>1 DEF Anc
    <3>2. CASE c = n + 1
      BY <2>1, <2>5, <3>2
    <3> QED
      BY <2>1, <2>3, <3>1, <3>2
  <2>7. Candidate0.result = n + 1 /\ n + 1 \in Made /\ objects[n + 1].from = Source0
    BY <2>1, <2>2, <2>3, <2>4 DEF Candidate0
  <2> QED
    BY <2>6, <2>7 DEF Carried, CarriesWork
<1> QED
  BY <1>3, <1>4 DEF Init, Reached

\* The chain of a PR that was just created, prepared, or vetted lands what it may.
LEMMA InitialChainsLanding ==
    ASSUME Init
    PROVE  LandingChain(chain)
<1>1. /\ NoCommit \in Nat /\ Source0 \in Nat /\ Base0 \in Nat /\ RoleOf[Founder] \in Roles
      /\ NoRole \in Roles /\ <<Founder, 0>> \in Ids
  BY DEF NoCommit, Source0, Base0, Roles, Ids
<1>2. NoBind \in Binds /\ Candidate0 \in Binds
  BY <1>1, PreparedTyped DEF Binds, NoBind, Words
<1>3. /\ {"pr.review", "ci.check", "pr.prepared"} \subseteq Kinds
      /\ {"none", "pending", "success", "approve"} \subseteq Words
  BY DEF Kinds, Words, Decisions
<1>4. Pin(0, Source0, Base0) \in pins
  BY DEF Init
<1>5. /\ SoundChain(Created) /\ SoundChain(Prepared)
      /\ Created \in Chains /\ Created # <<>> /\ Prepared \in Chains /\ Prepared # <<>>
  BY InitialChainsSound, CreatedTyped, PreparedTyped DEF StartsAt
<1>6. ASSUME NEW c \in Chains, c # <<>>, SoundChain(c), LandingChain(c), NEW bind \in Binds
      PROVE  LandingChain(Vetted(c, bind))
  <2> DEFINE e == Past("pr.review", 2, "approve", bind)
             f == Past("ci.check", 3, "success", bind)
  <2>1. e \in Events /\ e.kind = "pr.review" /\ f \in Events /\ f.kind = "ci.check"
    BY <1>3, PastTyped
  <2>2. Vetted(c, bind) = Extend(Extend(c, e), f)
    BY DEF Vetted
  <2> HIDE DEF e, f
  <2>3. /\ Extend(c, e) \in Chains /\ Extend(c, e) # <<>> /\ SoundChain(Extend(c, e))
        /\ LandingChain(Extend(c, e))
    BY <1>6, <2>1, ExtendTyped, ExtendSound, ExtendLanding DEF LandingEvent
  <2> QED
    BY <2>1, <2>2, <2>3, ExtendLanding DEF LandingEvent
<1>7. LandingChain(Created)
  <2> DEFINE e == [PrEvent("pr.created", <<Founder, 0>>, RoleOf[Founder]) EXCEPT
                      !.source = Source0, !.base = Base0]
             f == Past("ci.check", 1, "pending", NoBind)
  <2>1. e \in Events /\ e.kind = "pr.created" /\ e.source = Source0 /\ e.base = Base0
    BY <1>1, <1>2 DEF PrEvent, Events, Kinds, Words
  <2>2. f \in Events /\ f.kind = "ci.check"
    BY <1>2, <1>3, PastTyped
  <2>3. Created = Extend(Genesis(e), f)
    BY DEF Created
  <2> HIDE DEF e, f
  <2>4. Genesis(e) \in Chains /\ Genesis(e) # <<>> /\ SoundChain(Genesis(e))
        /\ LandingChain(Genesis(e))
    BY <1>4, <2>1, GenesisTyped, GenesisSound, GenesisLanding
  <2> QED
    BY <2>2, <2>3, <2>4, ExtendLanding DEF LandingEvent
<1>8. ASSUME Carried(Candidate0.result, Source0) PROVE LandingChain(Prepared)
  <2> DEFINE p == Past("pr.prepared", 4, "none", Candidate0)
             e == [p EXCEPT !.source = Source0, !.base = Base0]
  <2>1. p \in Events /\ p.kind = "pr.prepared" /\ p.gen = 0 /\ p.bind = Candidate0
    <3>1. p \in Events /\ p.kind = "pr.prepared"
      BY <1>2, <1>3, PastTyped
    <3> QED
      BY <3>1 DEF Past, PrEvent
  <2>2. Prepared = Extend(Created, e)
    BY DEF Prepared
  <2> HIDE DEF p
  <2>3. /\ e \in Events /\ e.kind = "pr.prepared" /\ e.gen = 0 /\ e.source = Source0
        /\ e.bind = Candidate0
    BY <1>1, <2>1 DEF Events
  <2> HIDE DEF e
  <2>4. PinnedAt(e.gen, e.source) /\ Carried(e.bind.result, e.source)
    BY <1>4, <1>8, <2>3 DEF PinnedAt, Pin
  <2> QED
    BY <1>5, <1>7, <2>2, <2>3, <2>4, ExtendLanding DEF LandingEvent
<1>9. CASE chain = Created \/ chain = Vetted(Created, NoBind)
  BY <1>2, <1>5, <1>6, <1>7, <1>9
<1>10. CASE chain = Vetted(Prepared, Candidate0) /\ result = Candidate0.result
  <2>1. result # NoCommit
    BY <1>10, Commits0Typed DEF Candidate0, NoCommit
  <2>2. LandingChain(Prepared)
    BY <1>8, <2>1, InitialCommits
  <2> QED
    BY <1>2, <1>5, <1>6, <1>10, <2>2
<1> QED
  BY <1>9, <1>10 DEF Init, Reached

\* The invariant holds initially.
LEMMA InitLanding == Init => LandingInv
<1> SUFFICES ASSUME Init PROVE LandingInv
  OBVIOUS
<1>1. \A p, q \in pins : p.gen = q.gen => p = q
  BY DEF Init
<1>2. ASSUME NEW a \in Actors PROVE LandingProcess(proc[a], Command(a).arg)
  <2>1. proc[a] = Idle /\ Idle.pc = "idle" /\ Idle.tip = <<>> /\ Idle.bind.result = NoCommit
    BY DEF Init, Idle, NoBind
  <2> QED
    BY <2>1 DEF LandingProcess, Preparing, Prepares, Gated, Landing, Finalizing
<1> QED
  BY <1>1, <1>2, InitialCommits, InitialChainsLanding DEF LandingInv

----------------------------------------------------------------------------
(* Steps. *)

\* A step of one process that leaves commits, pins, the chain and itself in order.
LEMMA LandingStep ==
    ASSUME TypeOK, LandingInv, NEW a \in Actors, NEW q, proc' = [proc EXCEPT ![a] = q],
           \A b \in Actors \ {a} : todo'[b] = todo[b], Grown,
           (\A c \in Made : c \in Anc(c))', (\A p, r \in pins : p.gen = r.gen => p = r)',
           LandingChain(chain)', LandingProcess(q, Command(a).arg)'
    PROVE  LandingInv'
<1>1. ASSUME NEW b \in Actors PROVE LandingProcess(proc[b], Command(b).arg)'
  <2>1. CASE b = a
    <3>1. proc'[b] = q
      BY <2>1 DEF TypeOK, ProcessesTyped
    <3> QED
      BY <2>1, <3>1 DEF LandingProcess
  <2>2. CASE b # a
    <3>1. proc'[b] = proc[b] /\ todo'[b] = todo[b]
      BY <2>2 DEF TypeOK, ProcessesTyped
    <3>2. PICK p, arg : p = proc[b] /\ arg = Command(b).arg
      OBVIOUS
    <3>3. LandingProcess(p, arg)'
      BY <3>2, ProcessGrows DEF LandingInv
    <3> QED
      BY <3>1, <3>2, <3>3 DEF LandingProcess, Command
  <2> QED
    BY <2>1, <2>2
<1> QED
  BY <1>1 DEF LandingInv

\* A process ends, whatever it wrote.
LEMMA LandingEnds ==
    ASSUME TypeOK, LandingInv, NEW a \in Actors, proc' = [proc EXCEPT ![a] = Idle],
           todo' = [todo EXCEPT ![a] = Tail(@)], UNCHANGED objects, pins \subseteq pins',
           (\A p, r \in pins : p.gen = r.gen => p = r)', LandingChain(chain)'
    PROVE  LandingInv'
<1>1. Grown /\ (\A c \in Made : c \in Anc(c))'
  BY DEF Grown, Made, Anc, LandingInv
<1>2. LandingProcess(Idle, Command(a).arg)'
  <2>1. Idle.pc = "idle" /\ Idle.tip = <<>> /\ Idle.bind.result = NoCommit
    BY DEF Idle, NoBind
  <2> QED
    BY <2>1 DEF LandingProcess, Preparing, Prepares, Gated, Landing, Finalizing, Idle
<1>3. \A b \in Actors \ {a} : todo'[b] = todo[b]
  BY DEF TypeOK, ProcessesTyped
<1> QED
  BY <1>1, <1>2, <1>3, LandingStep

\* A process moves on, and neither the chain nor the pins nor the commits change.
LEMMA LandingMoves ==
    ASSUME TypeOK, LandingInv, NEW a \in Actors, NEW q, Becomes(a, q),
           UNCHANGED <<chain, pins, objects>>, LandingProcess(q, Command(a).arg)
    PROVE  LandingInv'
<1>1. Grown /\ (\A c \in Made : c \in Anc(c))'
  BY DEF Grown, Made, Anc, LandingInv
<1>2. PICK arg : arg = Command(a).arg
  OBVIOUS
<1>3. LandingProcess(q, arg)' /\ Command(a)' = Command(a)
  BY <1>1, <1>2, ProcessGrows DEF Becomes, Command
<1>4. LandingChain(chain)'
  <2>1. PICK c : c = chain
    OBVIOUS
  <2>2. LandingChain(c)'
    BY <1>1, <2>1, LandingGrows DEF LandingInv
  <2> QED
    BY <2>1, <2>2 DEF LandingChain
<1> QED
  BY ZenonT(60), <1>1, <1>2, <1>3, <1>4, LandingStep DEF Becomes, LandingInv, LandingProcess

\* Where a process neither prepares nor merges, only its tip matters; and one that keeps
\* what it captured keeps what it relies on.
Free(a, q) ==
    /\ q.tip \in {proc[a].tip, chain}
    /\ q.pc \notin {"idle"} \cup Preparing \cup Gated
Retains(a, q) ==
    /\ q.tip \in {proc[a].tip, chain}
    /\ q.gen = proc[a].gen /\ q.src = proc[a].src /\ q.res = proc[a].res
    /\ q.pc \notin {"idle", "m_base"}
    /\ q.pc \in Preparing => proc[a].pc \in Preparing
    /\ q.pc \in Prepares => proc[a].pc \in Prepares
    /\ q.pc \in Gated => /\ proc[a].pc \in Landing
                         /\ q.tip = proc[a].tip /\ q.bind = proc[a].bind
LEMMA FreeOrKept ==
    ASSUME LandingInv, NEW a \in Actors, NEW q, Free(a, q) \/ Retains(a, q)
    PROVE  LandingProcess(q, Command(a).arg)
<1>1. LandingProcess(proc[a], Command(a).arg)
  BY DEF LandingInv
<1>2. Landing \subseteq Gated /\ Prepares \subseteq Preparing
  BY DEF Landing, Gated, Prepares
<1>3. q.tip # <<>> => LandingChain(q.tip)
  BY <1>1 DEF LandingInv, LandingProcess, Free, Retains
<1>4. CASE Free(a, q)
  BY <1>2, <1>3, <1>4 DEF LandingProcess, Free, Gated
<1>5. CASE Retains(a, q)
  BY <1>1, <1>2, <1>3, <1>5 DEF LandingProcess, Retains
<1> QED
  BY <1>4, <1>5

\* A process goes on from pc after its transaction, whatever it was told.
LEMMA LandingGoesOn ==
    ASSUME TypeOK, LandingInv, NEW a \in Actors, NEW pc,
           proc' = [proc EXCEPT ![a] = [proc[a] EXCEPT !.pc = pc]], todo' = todo,
           Free(a, [proc[a] EXCEPT !.pc = pc]) \/ Retains(a, [proc[a] EXCEPT !.pc = pc]),
           UNCHANGED objects, pins \subseteq pins',
           (\A p, r \in pins : p.gen = r.gen => p = r)', LandingChain(chain)'
    PROVE  LandingInv'
<1>1. PICK q, arg : q = [proc[a] EXCEPT !.pc = pc] /\ arg = Command(a).arg
  OBVIOUS
<1>2. LandingProcess(q, arg)
  BY <1>1, FreeOrKept
<1>3. Grown /\ (\A c \in Made : c \in Anc(c))'
  BY DEF Grown, Made, Anc, LandingInv
<1>4. LandingProcess(q, Command(a).arg)' /\ \A b \in Actors \ {a} : todo'[b] = todo[b]
  <2>1. LandingProcess(q, arg)'
    BY <1>2, <1>3, ProcessGrows
  <2> QED
    BY <1>1, <2>1 DEF Command, LandingProcess
<1> QED
  BY <1>1, <1>3, <1>4, LandingStep

\* A step that writes no ref and makes no commit: the process moves, or it exits.
LEMMA LandingQuiet ==
    ASSUME TypeOK, LandingInv, NEW a \in Actors, UNCHANGED <<refs, objects>>,
           \/ \E how : Exits(a, how)
           \/ \E q : /\ Becomes(a, q)
                     /\ Free(a, q) \/ Retains(a, q) \/ LandingProcess(q, Command(a).arg)
    PROVE  LandingInv'
<1>1. UNCHANGED <<chain, pins, objects>>
  BY DEF refs
<1>2. CASE \E how : Exits(a, how)
  <2>1. LandingChain(chain)'
    <3>1. PICK c : c = chain
      OBVIOUS
    <3>2. Grown
      BY <1>1 DEF Grown, Made
    <3>3. LandingChain(c)'
      BY <3>1, <3>2, LandingGrows DEF LandingInv
    <3> QED
      BY <1>1, <3>1, <3>3 DEF LandingChain
  <2> QED
    BY <1>1, <1>2, <2>1, LandingEnds DEF Exits, LandingInv
<1>3. CASE \E q : /\ Becomes(a, q)
                  /\ Free(a, q) \/ Retains(a, q) \/ LandingProcess(q, Command(a).arg)
  BY <1>1, <1>3, LandingMoves, FreeOrKept
<1> QED
  BY <1>2, <1>3

\* An event is appended to the chain.
LEMMA LandingAppends ==
    ASSUME TypeOK, GateInv, LandingInv, NEW c, c = chain, NEW e \in Events,
           e.kind # "pr.created", chain' = Extend(c, e), LandingEvent(c, e)',
           UNCHANGED objects, pins \subseteq pins'
    PROVE  LandingChain(chain)'
<1>1. c \in Chains /\ c # <<>> /\ SoundChain(c)
  BY DEF TypeOK, RefsTyped, GateInv
<1>2. Grown
  BY DEF Grown, Made
<1>3. LandingChain(c)'
  BY <1>2, LandingGrows DEF LandingInv
<1>4. LandingChain(Extend(c, e))'
  BY <1>1, <1>3, ExtendLandingNext DEF ExtendsToLanding
<1> QED
  BY <1>4 DEF LandingChain

\* The commands that append one event: none of them writes a snapshot or a candidate.
LEMMA AppendLanding ==
    ASSUME TypeOK, GateInv, LandingInv, NEW a \in Actors, AppendStep(a)
    PROVE  LandingInv'
<1> USE DEF Free, Preparing, Gated, Finalizing
<1> DEFINE p == proc[a]
<1>1. p \in Processes
  BY DEF TypeOK, ProcessesTyped
<1>2. ASSUME Captures(a)
      PROVE  \E q : Becomes(a, q) /\ Free(a, q)
  <2> DEFINE pc == IF CandidateCurrent(State(chain)) THEN "bind" ELSE "tip"
             bind == IF CandidateCurrent(State(chain)) THEN BindOf(State(chain).prepared)
                                                       ELSE NoBind
             word == IF Command(a).op = "ci" THEN "pending" ELSE "none"
             q == [p EXCEPT !.pc = pc, !.gen = State(chain).gen, !.bind = bind, !.word = word]
  <2>1. Becomes(a, q)
    BY <1>2 DEF Captures
  <2>2. pc \in {"bind", "tip"}
    OBVIOUS
  <2> HIDE DEF pc, bind, word
  <2>3. q.pc = pc /\ q.tip = p.tip
    BY <1>1 DEF Processes
  <2> HIDE DEF q
  <2> QED
    BY <2>1, <2>2, <2>3
<1>3. CASE ReviewRead(a)
  BY <1>2, <1>3, LandingQuiet DEF ReviewRead
<1>4. CASE CiRead(a)
  BY <1>2, <1>4, LandingQuiet DEF CiRead
<1>5. CASE Bind(a)
  <2>1. Free(a, [p EXCEPT !.pc = "tip", !.bind = Corroborated(@)])
    BY <1>1 DEF Processes
  <2> QED
    BY <1>5, <2>1, LandingQuiet DEF Bind
<1>6. CASE AbandonRead(a)
  <2>1. Free(a, [p EXCEPT !.pc = "tip"])
    BY <1>1 DEF Processes
  <2> QED
    BY <1>6, <2>1, LandingQuiet DEF AbandonRead, Goes
<1>7. CASE AppendTip(a)
  <2>1. PICK word : Becomes(a, [p EXCEPT !.pc = "cas", !.tip = chain, !.word = word])
    BY <1>7 DEF AppendTip
  <2>2. Free(a, [p EXCEPT !.pc = "cas", !.tip = chain, !.word = word])
    BY <1>1 DEF Processes
  <2> QED
    BY <1>7, <2>1, <2>2, LandingQuiet DEF AppendTip
<1>8. CASE AppendCas(a)
  <2>1. PICK e : e = EventOf(a)
    OBVIOUS
  <2>2. PICK c : c = chain
    OBVIOUS
  <2>3. /\ chain' = Extend(c, e) /\ UNCHANGED <<pins, objects>>
        /\ Exits(a, "ok") \/ Unclear(a, "lost")
    BY <1>8, <2>1, <2>2 DEF AppendCas, CasHolds
  <2>4. todo[a] # <<>>
    BY <1>8 DEF AppendCas, At, TypeOK, ProcessesTyped
  <2>5. e \in Events /\ e.kind \in {"pr.comment", "pr.review", "ci.check", "pr.abandoned"}
    BY <2>1, <2>4, EventOfTyped
  <2>6. LandingEvent(c, e)'
    BY <2>5 DEF LandingEvent
  <2>7. LandingChain(chain)'
    BY <2>2, <2>3, <2>5, <2>6, LandingAppends
  <2>8. Free(a, [p EXCEPT !.pc = "lost"])
    BY <1>1 DEF Processes
  <2> QED
    BY <2>3, <2>7, <2>8, LandingEnds, LandingGoesOn DEF Exits, Unclear, LandingInv
<1>9. CASE AppendCasFails(a)
  <2>1. Free(a, [p EXCEPT !.pc = "lost"])
    BY <1>1 DEF Processes
  <2> QED
    BY <1>9, <2>1, LandingQuiet DEF AppendCasFails, Goes
<1>10. CASE AppendLost(a)
  <2>1. Free(a, [[p EXCEPT !.pc = "tip"] EXCEPT !.tries = @ + 1])
    BY <1>1 DEF Processes
  <2> QED
    BY <1>10, <2>1, LandingQuiet DEF AppendLost, Retry
<1> QED
  BY <1>3, <1>4, <1>5, <1>6, <1>7, <1>8, <1>9, <1>10 DEF AppendStep

\* pr update: the number it pins was free, so it names no other source.
LEMMA UpdateLanding ==
    ASSUME TypeOK, GateInv, LandingInv, NEW a \in Actors, UpdateStep(a)
    PROVE  LandingInv'
<1> USE DEF Free, Preparing, Gated, Finalizing
<1> DEFINE p == proc[a]
<1>1. p \in Processes
  BY DEF TypeOK, ProcessesTyped
<1>2. CASE UpdateRead(a)
  <2>1. Free(a, [p EXCEPT !.pc = "u_source", !.tip = chain,
                       !.gen = State(chain).gen + 1])
    BY <1>1 DEF Processes
  <2> QED
    BY <1>2, <2>1, LandingQuiet DEF UpdateRead
<1>3. CASE UpdateReadSource(a)
  <2>1. Free(a, [p EXCEPT !.pc = "u_base", !.src = source])
    BY <1>1 DEF Processes
  <2> QED
    BY <1>3, <2>1, LandingQuiet DEF UpdateReadSource
<1>4. CASE UpdateReadBase(a)
  <2>1. Free(a, [p EXCEPT !.pc = "u_tip", !.base = base])
    BY <1>1 DEF Processes
  <2> QED
    BY <1>4, <2>1, LandingQuiet DEF UpdateReadBase
<1>5. CASE UpdateTip(a)
  <2>1. Free(a, [p EXCEPT !.pc = "u_txn", !.tip = chain])
    BY <1>1 DEF Processes
  <2> QED
    BY <1>5, <2>1, LandingQuiet DEF UpdateTip
<1>6. CASE UpdateTxn(a)
  <2>1. PICK e : e = [Authored(a, "pr.update") EXCEPT !.gen = p.gen, !.source = p.src,
                                                      !.base = p.base]
    OBVIOUS
  <2>2. PICK c : c = chain
    OBVIOUS
  <2>3. /\ chain' = Extend(c, e) /\ ~Claimed(p.gen) /\ UNCHANGED objects
        /\ Exits(a, "ok") \/ Unclear(a, "u_claimed")
        /\ pins' = pins \cup {Pin(p.gen, p.src, p.base)}
    BY <1>6, <2>1, <2>2 DEF UpdateTxn, UpdateHolds
  <2>4. todo[a] # <<>>
    BY <1>6 DEF UpdateTxn, At, TypeOK, ProcessesTyped
  <2>5. /\ e \in Events /\ e.kind = "pr.update" /\ e.gen = p.gen /\ e.source = p.src
        /\ e.base = p.base
    <3>1. /\ p.gen \in Nat /\ p.src \in Nat /\ p.base \in Nat
      BY <1>1 DEF Processes
    <3>2. /\ CommandId(a) \in Ids /\ RoleOf[a] \in Roles /\ NoBind \in Binds
      BY <2>4, CommandTyped DEF TypeOK, Roles, Binds, NoBind, NoCommit, Words
    <3> QED
      BY <2>1, <3>1, <3>2 DEF Authored, PrEvent, Events, Kinds, Words
  <2>6. LandingEvent(c, e)'
    BY <2>3, <2>5 DEF LandingEvent
  <2>7. LandingChain(chain)'
    BY <2>2, <2>3, <2>5, <2>6, LandingAppends
  <2>8. (\A r, s \in pins : r.gen = s.gen => r = s)'
    BY <2>3 DEF Claimed, Pin, LandingInv
  <2>9. Free(a, [p EXCEPT !.pc = "u_claimed"])
    BY <1>1 DEF Processes
  <2> QED
    BY <2>3, <2>7, <2>8, <2>9, LandingEnds, LandingGoesOn DEF Exits, Unclear
<1>7. CASE UpdateTxnFails(a)
  <2>1. Free(a, [p EXCEPT !.pc = "u_claimed"])
    BY <1>1 DEF Processes
  <2> QED
    BY <1>7, <2>1, LandingQuiet DEF UpdateTxnFails, Goes
<1>8. CASE UpdateClaimed(a)
  <2>1. Free(a, [p EXCEPT !.pc = "u_moved"])
    BY <1>1 DEF Processes
  <2> QED
    BY <1>8, <2>1, LandingQuiet DEF UpdateClaimed, Goes
<1>9. CASE UpdateMoved(a)
  <2>1. Free(a, [p EXCEPT !.pc = "u_head"])
    BY <1>1 DEF Processes
  <2> QED
    BY <1>9, <2>1, LandingQuiet DEF UpdateMoved, Goes
<1>10. CASE UpdateHead(a)
  <2>1. Free(a, [[p EXCEPT !.pc = "u_txn", !.tip = chain] EXCEPT !.tries = @ + 1])
    BY <1>1 DEF Processes
  <2> QED
    BY <1>10, <2>1, LandingQuiet DEF UpdateHead, Retry
<1> QED
  BY <1>2, <1>3, <1>4, <1>5, <1>6, <1>7, <1>8, <1>9, <1>10 DEF UpdateStep

\* A strategy runs, and its process takes the result; the refs stay as they are.
LEMMA LandingBuilds ==
    ASSUME TypeOK, LandingInv, NEW a \in Actors, NEW q, Becomes(a, q), UNCHANGED refs,
           NEW strategy, NEW s \in Made, NEW r, Executes(strategy, s, base, r),
           NEW arg, arg = Command(a).arg,
           Grown /\ Carried(r, s)' => LandingProcess(q, arg)'
    PROVE  LandingInv'
<1>1. /\ Grown /\ Carried(r, s)' /\ (\A c \in Made : c \in Anc(c))'
  <2>1. base \in Made /\ ObjectsTyped /\ \A c \in Made : c \in Anc(c)
    BY DEF TypeOK, RefsTyped, LandingInv
  <2>2. /\ Carried(r, s)'
        /\ \A c \in Made : c \in Made' /\ objects'[c] = objects[c]
        /\ \A c \in Made' : c \in Anc(c)'
    BY <2>1, ExecutesCarries
  <2> QED
    BY <2>2 DEF Grown, refs
<1>2. LandingChain(chain)'
  <2>1. PICK c : c = chain
    OBVIOUS
  <2>2. LandingChain(c)'
    BY <1>1, <2>1, LandingGrows DEF LandingInv
  <2> QED
    BY <2>1, <2>2 DEF LandingChain, refs
<1>3. (\A p, t \in pins : p.gen = t.gen => p = t)'
  BY DEF LandingInv, refs
<1>4. LandingProcess(q, Command(a).arg)' /\ \A b \in Actors \ {a} : todo'[b] = todo[b]
  BY <1>1 DEF Becomes, Command, LandingProcess
<1> QED
  BY <1>1, <1>2, <1>3, <1>4, LandingStep DEF Becomes

\* pr prepare: its candidate is built from the source its generation pins.
LEMMA PrepareLanding ==
    ASSUME TypeOK, GateInv, LandingInv, NEW a \in Actors, PrepareStep(a)
    PROVE  LandingInv'
<1> USE DEF Retains, Preparing, Prepares, Gated, Finalizing
<1> DEFINE p == proc[a]
<1>1. p \in Processes /\ Legal(p, Made) /\ LandingProcess(p, Command(a).arg)
  BY DEF TypeOK, ProcessesTyped, LandingInv
<1>2. CASE PrepareRead(a)
  <2> DEFINE st == State(chain)
             q == [p EXCEPT !.pc = "p_base", !.gen = st.gen, !.src = st.source]
  <2>1. CASE [gen |-> st.gen, source |-> st.source, base |-> st.base] \in pins
             /\ Becomes(a, q)
    <3>1. PinnedAt(st.gen, st.source)
      BY <2>1 DEF PinnedAt
    <3>2. q.pc = "p_base" /\ q.gen = st.gen /\ q.src = st.source /\ q.tip = p.tip
      BY <1>1 DEF Processes
    <3> HIDE DEF st, q
    <3>3. LandingProcess(q, Command(a).arg)
      BY <1>1, <3>1, <3>2 DEF LandingProcess, Landing
    <3> QED
      BY <1>2, <2>1, <3>3, LandingQuiet DEF PrepareRead
  <2>2. CASE Exits(a, "refused")
    BY <1>2, <2>2, LandingQuiet DEF PrepareRead
  <2> QED
    BY <1>2, <2>1, <2>2 DEF PrepareRead
<1>3. CASE PrepareBase(a)
  <2>1. PICK r : /\ Executes(Command(a).arg, p.src, base, r)
                 /\ Becomes(a, [p EXCEPT !.pc = "p_tip", !.base = base, !.res = r])
    BY <1>3 DEF PrepareBase
  <2>2. PICK q, s, arg : /\ q = [p EXCEPT !.pc = "p_tip", !.base = base, !.res = r]
                         /\ s = p.src /\ arg = Command(a).arg
    OBVIOUS
  <2>3. q.pc = "p_tip" /\ q.gen = p.gen /\ q.src = s /\ q.res = r /\ q.tip = p.tip
    BY <1>1, <2>2 DEF Processes
  <2>4. s \in Made /\ LandingProcess(p, arg) /\ PinnedAt(q.gen, q.src)
    BY <1>1, <1>3, <2>2, <2>3 DEF PrepareBase, At, Legal, HasSource, LandingProcess
  <2>5. ASSUME Grown, Carried(r, s)' PROVE LandingProcess(q, arg)'
    <3>1. q.tip # <<>> => LandingChain(q.tip)'
      <4>1. q.tip # <<>> => LandingChain(q.tip)
        BY <2>3, <2>4 DEF LandingProcess
      <4> QED
        BY <2>5, <4>1, LandingGrows
    <3>2. PinnedAt(q.gen, q.src)'
      BY <2>4, <2>5 DEF PinnedAt, Grown
    <3> QED
      BY <2>3, <2>5, <3>1, <3>2 DEF LandingProcess, Landing
  <2> QED
    BY <1>3, <2>1, <2>2, <2>4, <2>5, LandingBuilds DEF PrepareBase
<1>4. CASE PrepareBaseFails(a)
  BY <1>4, LandingQuiet DEF PrepareBaseFails
<1>5. CASE PrepareTip(a)
  <2>1. Retains(a, [p EXCEPT !.pc = "p_pin", !.tip = chain])
    BY <1>1, <1>5 DEF Processes, PrepareTip, At
  <2> QED
    BY <1>5, <2>1, LandingQuiet DEF PrepareTip
<1>6. CASE PreparePin(a)
  <2> DEFINE bind == [strategy |-> Command(a).arg, result |-> result]
  <2>1. Becomes(a, [p EXCEPT !.pc = "p_txn", !.bind = bind])
    BY <1>6 DEF PreparePin
  <2> HIDE DEF bind
  <2>2. Retains(a, [p EXCEPT !.pc = "p_txn", !.bind = bind])
    BY <1>1, <1>6 DEF Processes, PreparePin, At
  <2> QED
    BY <1>6, <2>1, <2>2, LandingQuiet DEF PreparePin
<1>7. CASE PrepareTxn(a)
  <2>1. PICK bind : bind = [strategy |-> Command(a).arg, result |-> p.res]
    OBVIOUS
  <2>2. PICK e : e = [Authored(a, "pr.prepared") EXCEPT
                        !.gen = p.gen, !.source = p.src, !.base = p.base, !.bind = bind]
    OBVIOUS
  <2>3. PICK c : c = chain
    OBVIOUS
  <2>4. /\ chain' = Extend(c, e) /\ UNCHANGED <<pins, objects>>
        /\ Exits(a, "ok") \/ Unclear(a, "p_head")
    BY <1>7, <2>1, <2>2, <2>3 DEF PrepareTxn, PrepareHolds
  <2>5. todo[a] # <<>> /\ p.pc = "p_txn"
    BY <1>7 DEF PrepareTxn, At, TypeOK, ProcessesTyped
  <2>6. /\ Command(a).arg \in Words /\ CommandId(a) \in Ids /\ RoleOf[a] \in Roles
    BY <2>5, CommandTyped DEF TypeOK, Roles
  <2>7. /\ p.gen \in Nat /\ p.src \in Nat /\ p.base \in Nat /\ p.res \in Nat
    BY <1>1 DEF Processes
  <2>8. bind \in Binds /\ bind.result = p.res
    BY <2>1, <2>6, <2>7 DEF Binds
  <2>9. /\ e \in Events /\ e.kind = "pr.prepared" /\ e.gen = p.gen /\ e.source = p.src
        /\ e.bind = bind
    BY <2>2, <2>6, <2>7, <2>8 DEF Authored, PrEvent, Events, Kinds, Words
  <2>10. PinnedAt(e.gen, e.source) /\ Carried(e.bind.result, e.source)
    BY <1>1, <2>5, <2>8, <2>9 DEF LandingProcess
  <2>11. LandingEvent(c, e)'
    BY <2>4, <2>9, <2>10 DEF LandingEvent, PinnedAt, Carried, CarriesWork, Anc, Made
  <2>12. LandingChain(chain)'
    BY <2>3, <2>4, <2>9, <2>11, LandingAppends
  <2>13. Retains(a, [p EXCEPT !.pc = "p_head"])
    BY <1>1, <2>5 DEF Processes
  <2> QED
    BY <2>4, <2>12, <2>13, LandingEnds, LandingGoesOn DEF Exits, Unclear, LandingInv
<1>8. CASE PrepareTxnFails(a)
  <2>1. Retains(a, [p EXCEPT !.pc = "p_head"])
    BY <1>1, <1>8 DEF Processes, PrepareTxnFails, At
  <2> QED
    BY <1>8, <2>1, LandingQuiet DEF PrepareTxnFails, Goes
<1>9. CASE PrepareHead(a)
  <2>1. Retains(a, [[p EXCEPT !.pc = "p_pin", !.tip = chain] EXCEPT !.tries = @ + 1])
    BY <1>1, <1>9 DEF Processes, PrepareHead, At
  <2> QED
    BY <1>9, <2>1, LandingQuiet DEF PrepareHead, Retry
<1> QED
  BY <1>2, <1>3, <1>4, <1>5, <1>6, <1>7, <1>8, <1>9 DEF PrepareStep

\* What validate_prepared_candidate passes: a candidate built from the tip's own snapshot,
\* which the tip's approve and check are bound to.
LEMMA CandidateIsVetted ==
    ASSUME LandingInv, NEW c \in Chains, c # <<>>, LandingChain(c), Gate(State(c)),
           NEW b, NEW strategy, CandidateGate(State(c), b, strategy)
    PROVE  LET st == State(c) IN
           /\ st.prepared.source = st.source
           /\ Carried(st.prepared.result, st.source)
           /\ st.prepared.strategy = strategy
           /\ \E k \in 1..Len(c) : VettedAt(c[k].st, BindOf(st.prepared))
<1> DEFINE st == State(c)
<1>1. Len(c) \in 1..Len(c) /\ c[Len(c)].st = st
  BY LastElement DEF Chains, State
<1>2. LandingAt(c, Len(c))
  BY <1>1 DEF LandingChain
<1>3. /\ st.prepared.result # NoCommit /\ st.prepared.gen = st.gen
      /\ st.prepared.strategy = strategy
      /\ st.decision = "approve" /\ st.decBind = BindOf(st.prepared)
      /\ st.ci = "success" /\ st.ciBind = BindOf(st.prepared)
  BY DEF CandidateGate, CandidateCurrent, Gate, Approved
<1> HIDE DEF st
<1>4. /\ Pin(st.gen, st.source, st.base) \in pins
      /\ PinnedAt(st.prepared.gen, st.prepared.source)
      /\ Carried(st.prepared.result, st.prepared.source)
  BY <1>1, <1>2, <1>3 DEF LandingAt
<1>5. st.prepared.source = st.source
  <2>1. PICK r \in pins : r.gen = st.gen /\ r.source = st.prepared.source
    BY <1>3, <1>4 DEF PinnedAt
  <2>2. r = Pin(st.gen, st.source, st.base)
    BY <1>4, <2>1 DEF LandingInv, Pin
  <2> QED
    BY <2>1, <2>2 DEF Pin
<1>6. VettedAt(c[Len(c)].st, BindOf(st.prepared))
  BY <1>1, <1>3 DEF VettedAt
<1> QED
  BY <1>1, <1>3, <1>4, <1>5, <1>6 DEF st

\* pr merge up to the transaction: a result is vetted or newly built.
LEMMA MergeStartLanding ==
    ASSUME TypeOK, GateInv, LandingInv, NEW a \in Actors,
           \/ MergeGate(a) \/ MergeRefusedAtBase(a) \/ MergeTakesCandidate(a) \/ MergePin(a)
           \/ MergeExecutes(a) \/ MergeExecutionFails(a)
    PROVE  LandingInv'
<1> USE DEF Retains, Preparing, Prepares, Gated, Landing, Finalizing
<1> DEFINE p == proc[a]
<1>1. p \in Processes /\ Legal(p, Made) /\ LandingProcess(p, Command(a).arg)
      /\ SoundProcess(p, pins)
  BY DEF TypeOK, ProcessesTyped, LandingInv, GateInv
<1>2. CASE MergeGate(a)
  <2> DEFINE st == State(chain)
             q == [p EXCEPT !.pc = "m_base", !.tip = chain, !.gen = st.gen,
                            !.src = st.source]
  <2>1. CASE Becomes(a, q)
    <3>1. /\ q.pc = "m_base" /\ q.gen = st.gen /\ q.src = st.source /\ q.tip = chain
          /\ q.bind = p.bind
      BY <1>1 DEF Processes
    <3>2. p.bind.result = NoCommit
      BY <1>1, <1>2 DEF MergeGate, Starting, At, LandingProcess
    <3>3. LandingChain(chain)
      BY DEF LandingInv
    <3> HIDE DEF q
    <3>4. LandingProcess(q, Command(a).arg)
      BY <3>1, <3>2, <3>3 DEF LandingProcess
    <3> QED
      BY <1>2, <2>1, <3>4, LandingQuiet DEF MergeGate
  <2>2. CASE Exits(a, "refused")
    BY <1>2, <2>2, LandingQuiet DEF MergeGate
  <2> QED
    BY <1>2, <2>1, <2>2 DEF MergeGate
<1>3. CASE MergeRefusedAtBase(a)
  BY <1>3, LandingQuiet DEF MergeRefusedAtBase
<1>4. CASE MergeTakesCandidate(a)
  <2> DEFINE st == State(p.tip)
             c == st.prepared
             q == [p EXCEPT !.pc = "m_pin", !.base = c.base, !.src = c.source,
                            !.res = c.result, !.bind = BindOf(c)]
  <2>1. /\ Becomes(a, q) /\ p.pc = "m_base" /\ UNCHANGED <<refs, objects>>
        /\ CandidateGate(st, base, Command(a).arg)
    BY <1>4 DEF MergeTakesCandidate, Routed, At
  <2>2. /\ p.tip \in Chains /\ p.tip # <<>> /\ LandingChain(p.tip) /\ Gate(st)
        /\ p.gen = st.gen
    BY <1>1, <2>1 DEF Legal, HasNoTip, Processes, LandingProcess, SoundProcess
  <2>3. /\ q.pc = "m_pin" /\ q.gen = p.gen /\ q.src = c.source /\ q.tip = p.tip
        /\ q.res = c.result /\ q.bind = BindOf(c)
    BY <1>1 DEF Processes
  <2>4. /\ c.source = st.source /\ Carried(c.result, st.source)
        /\ c.strategy = Command(a).arg
        /\ \E k \in 1..Len(p.tip) : VettedAt(p.tip[k].st, BindOf(c))
    BY <2>1, <2>2, CandidateIsVetted
  <2>5. BindOf(c).result = c.result /\ BindOf(c).strategy = c.strategy
    BY DEF BindOf
  <2>6. q.tip = p.tip /\ q.gen = State(q.tip).gen /\ q.src = State(q.tip).source
        /\ State(q.tip).prepared.result = q.bind.result
    BY <2>2, <2>3, <2>4, <2>5
  <2> HIDE DEF q, c, st
  <2>7. LandingProcess(q, Command(a).arg)
    BY <2>2, <2>3, <2>4, <2>5, <2>6 DEF LandingProcess
  <2> QED
    BY <2>1, <2>7, LandingQuiet
<1>5. CASE MergePin(a)
  <2>1. Retains(a, [p EXCEPT !.pc = "m_stage"])
    BY <1>1, <1>5 DEF Processes, MergePin, At
  <2> QED
    BY <1>5, <2>1, LandingQuiet DEF MergePin, Goes
<1>6. CASE MergeExecutes(a)
  <2>1. PICK r : /\ Executes(Command(a).arg, p.src, base, r)
                 /\ Becomes(a, [p EXCEPT !.pc = "m_pending", !.base = base, !.res = r])
    BY <1>6 DEF MergeExecutes
  <2>2. PICK q, s, arg : /\ q = [p EXCEPT !.pc = "m_pending", !.base = base, !.res = r]
                         /\ s = p.src /\ arg = Command(a).arg
    OBVIOUS
  <2>3. /\ q.pc = "m_pending" /\ q.gen = p.gen /\ q.src = s /\ q.res = r /\ q.tip = p.tip
        /\ q.bind = p.bind
    BY <1>1, <2>2 DEF Processes
  <2>4. p.pc = "m_base" /\ s \in Made /\ State(p.tip).prepared.result = NoCommit
    BY <1>1, <1>6, <2>2 DEF MergeExecutes, At, Legal, HasSource, Routed
  <2>5. /\ q.tip # <<>> => LandingChain(q.tip)
        /\ q.gen = State(q.tip).gen /\ s = State(q.tip).source
        /\ q.bind.result = NoCommit /\ State(q.tip).prepared.result = NoCommit
    BY <1>1, <2>2, <2>3, <2>4 DEF LandingProcess
  <2>6. ASSUME Grown, Carried(r, s)' PROVE LandingProcess(q, arg)'
    <3>1. q.tip # <<>> => LandingChain(q.tip)'
      BY <2>5, <2>6, LandingGrows
    <3> QED
      BY <2>3, <2>5, <2>6, <3>1 DEF LandingProcess
  <2> QED
    BY <1>6, <2>1, <2>2, <2>4, <2>6, LandingBuilds DEF MergeExecutes
<1>7. CASE MergeExecutionFails(a)
  BY <1>7, LandingQuiet DEF MergeExecutionFails
<1> QED
  BY <1>2, <1>3, <1>4, <1>5, <1>6, <1>7

\* An extension keeps every earlier position (store.rs head_extends_pr_chain).
LEMMA ExtensionKeeps ==
    ASSUME NEW old \in Chains, NEW new \in Chains, HeadExtends(old, new),
           NEW k \in 1..Len(old)
    PROVE  k \in 1..Len(new) /\ new[k] = old[k]
<1>1. Len(old) \in Nat /\ Len(new) \in Nat /\ Len(old) < Len(new)
  BY LenProperties DEF Chains, HeadExtends
<1>2. k \in 1..Len(new)
  BY <1>1
<1> DEFINE S == [ev : Events, st : States]
<1>3. \A i \in 1..Len(old) : new[i] \in S
  <2>1. new \in Seq(S) /\ \A i \in 1..Len(old) : i \in 1..Len(new)
    BY <1>1 DEF Chains
  <2> HIDE DEF S
  <2> QED
    BY <2>1, ElementOfSeq
<1> HIDE DEF S
<1>4. SubSeq(new, 1, Len(old))[k] = new[1 + k - 1]
  BY <1>1, <1>3, SubSeqProperties
<1> QED
  BY <1>1, <1>2, <1>4 DEF HeadExtends

\* Another attempt keeps the result, also on a tip that was adopted: it has the snapshot
\* and the candidate's commit the result was built from (finalize.rs
\* validate_adopted_finalize_tip).
LEMMA RetriesLanding ==
    ASSUME TypeOK, LandingInv, NEW a \in Actors, proc[a].pc \in Finalizing,
           NEW p \in Processes, p.gen = proc[a].gen, p.src = proc[a].src,
           p.res = proc[a].res, p.bind = proc[a].bind,
           p.tip = proc[a].tip \/ (p.tip = chain /\ Adoptable(a, chain)),
           Retries(a, p), UNCHANGED <<refs, objects>>
    PROVE  LandingInv'
<1> DEFINE none == <<>>
           q == [p EXCEPT !.pc = "m_stage", !.stage = none, !.tries = @ + 1]
<1>1. CASE Goes(a, "m_clean")
  <2>1. proc[a] \in Processes
    BY DEF TypeOK, ProcessesTyped
  <2>2. Retains(a, [proc[a] EXCEPT !.pc = "m_clean"])
    BY <2>1 DEF Processes, Retains, Preparing, Prepares, Gated, Landing, Finalizing
  <2> QED
    BY <1>1, <2>2, LandingQuiet DEF Goes
<1>2. CASE Becomes(a, q)
  <2> HIDE DEF none
  <2>1. /\ q.tip = p.tip /\ q.pc = "m_stage" /\ q.gen = proc[a].gen /\ q.src = proc[a].src
        /\ q.res = proc[a].res /\ q.bind = proc[a].bind
    BY DEF Processes
  <2> HIDE DEF q
  <2>2. CASE p.tip = proc[a].tip
    <3>1. Retains(a, q)
      BY <2>1, <2>2 DEF Retains, Preparing, Prepares, Gated, Landing, Finalizing
    <3> QED
      BY <1>2, <3>1, LandingQuiet
  <2>3. CASE p.tip = chain /\ Adoptable(a, chain)
    <3> DEFINE old == proc[a].tip
    <3>1. /\ LandingProcess(proc[a], Command(a).arg) /\ LandingChain(chain)
          /\ chain \in Chains /\ old \in Chains
      BY DEF LandingInv, TypeOK, RefsTyped, ProcessesTyped, Processes
    <3>2. /\ HeadExtends(old, chain) /\ q.gen = State(chain).gen
          /\ q.src = State(chain).source /\ State(chain).prepared.result = q.bind.result
      BY <2>1, <2>3 DEF Adoptable
    <3>3. /\ Carried(q.res, q.src)
          /\ q.bind.result # NoCommit =>
                /\ q.bind.strategy = Command(a).arg /\ q.bind.result = q.res
                /\ \E k \in 1..Len(old) : VettedAt(old[k].st, q.bind)
      BY <2>1, <3>1 DEF LandingProcess, Landing
    <3>4. \A k \in 1..Len(old) : k \in 1..Len(chain) /\ chain[k] = old[k]
      BY <3>1, <3>2, ExtensionKeeps
    <3>5. q.tip = chain
      BY <2>1, <2>3
    <3> HIDE DEF old
    <3>6. q.bind.result # NoCommit =>
              \E k \in 1..Len(chain) : VettedAt(chain[k].st, q.bind)
      BY <3>3, <3>4
    <3>7. LandingProcess(q, Command(a).arg)
      BY <2>1, <3>1, <3>2, <3>3, <3>5, <3>6 DEF LandingProcess, Preparing, Prepares
    <3> QED
      BY <1>2, <3>7, LandingQuiet
  <2> QED
    BY <2>2, <2>3
<1> QED
  BY <1>1, <1>2 DEF Retries

\* The merge transaction records the result on the tip it was built for.
LEMMA MergeTxnLanding ==
    ASSUME TypeOK, GateInv, LandingInv, NEW a \in Actors, MergeTxn(a)
    PROVE  LandingInv'
<1> USE DEF Preparing, Prepares, Gated, Landing, Finalizing
<1> DEFINE p == proc[a]
<1>1. /\ p \in Processes /\ LandingProcess(p, Command(a).arg) /\ Legal(p, Made)
      /\ p.pc = "m_txn" /\ todo[a] # <<>>
  BY DEF TypeOK, ProcessesTyped, LandingInv, MergeTxn, At
<1>2. PICK bind : bind = [strategy |-> Command(a).arg, result |-> p.res]
  OBVIOUS
<1>3. PICK e : e = [Authored(a, "pr.merge") EXCEPT !.bind = bind]
  OBVIOUS
<1>4. PICK c : c = chain
  OBVIOUS
<1>5. p.tip = c /\ chain' = Extend(c, e) /\ UNCHANGED <<pins, objects>>
  BY <1>2, <1>3, <1>4 DEF MergeTxn, FinalizeHolds, MergeEvent
<1>6. /\ Command(a).arg \in Words /\ CommandId(a) \in Ids /\ RoleOf[a] \in Roles
      /\ p.res \in Nat /\ p.bind \in Binds
  BY <1>1, CommandTyped DEF TypeOK, Roles, Processes
<1>7. bind \in Binds /\ bind.result = p.res
  BY <1>2, <1>6 DEF Binds
<1>8. e \in Events /\ e.kind = "pr.merge" /\ e.bind = bind
  BY <1>3, <1>6, <1>7 DEF Authored, PrEvent, Events, Kinds, Words, NoCommit
<1>9. /\ Carried(p.res, State(c).source)
      /\ State(c).prepared.result # NoCommit =>
            /\ bind.result = State(c).prepared.result
            /\ \E k \in 1..Len(c) : VettedAt(c[k].st, bind)
  <2>1. /\ Carried(p.res, State(c).source) /\ State(c).prepared.result = p.bind.result
        /\ p.bind.result # NoCommit =>
              /\ p.bind.strategy = Command(a).arg /\ p.bind.result = p.res
              /\ \E k \in 1..Len(c) : VettedAt(c[k].st, p.bind)
    BY <1>1, <1>5 DEF LandingProcess
  <2>2. CASE p.bind.result # NoCommit
    <3>1. p.bind = bind
      BY <1>2, <1>6, <2>1, <2>2 DEF Binds
    <3> QED
      BY <1>7, <2>1, <2>2, <3>1
  <2> QED
    BY <2>1, <2>2
<1>10. LandingEvent(c, e)'
  BY <1>5, <1>7, <1>8, <1>9 DEF LandingEvent, Carried, CarriesWork, Anc, Made
<1>11. LandingChain(chain)'
  BY <1>4, <1>5, <1>8, <1>10, LandingAppends
<1>12. CASE Exits(a, "ok")
  BY <1>5, <1>11, <1>12, LandingEnds DEF Exits, LandingInv
<1>13. ASSUME NEW pc \in {"m_refresh", "m_head"}, Goes(a, pc) \/ Unclear(a, pc)
       PROVE  LandingInv'
  <2>1. Retains(a, [p EXCEPT !.pc = pc])
    BY <1>1, <1>13 DEF Retains, Processes
  <2> QED
    BY <1>5, <1>11, <1>13, <2>1, LandingGoesOn DEF Goes, Becomes, Unclear, LandingInv
<1> QED
  BY <1>12, <1>13 DEF MergeTxn

\* The rest of run_finalize; a rollback goes back to the tip the merge was recorded on.
LEMMA MergeEndLanding ==
    ASSUME TypeOK, GateInv, LandingInv, NEW a \in Actors,
           \/ MergeCreatesPending(a) \/ MergePendingFails(a)
           \/ MergeWorktreeGone(a) \/ MergeWorktreeStays(a)
           \/ MergeStages(a) \/ MergeFoldsIssue(a) \/ MergeStageFails(a) \/ MergeTxnFails(a)
           \/ MergeReadsHead(a) \/ MergeReadsIssue(a) \/ MergeCleans(a) \/ MergeLeavesPending(a)
           \/ MergeRefreshes(a) \/ MergeRefreshFails(a) \/ RollbackReadsHead(a)
           \/ Rollback(a) \/ RollbackFails(a)
    PROVE  LandingInv'
<1> DEFINE p == proc[a]
<1>1. p \in Processes /\ Legal(p, Made) /\ LandingProcess(p, Command(a).arg)
  BY DEF TypeOK, ProcessesTyped, LandingInv
<1>2. ASSUME NEW pc \in Finalizing, Goes(a, pc), p.pc \in Finalizing,
             UNCHANGED <<chain, pins, objects>>
      PROVE  LandingInv'
  <2>1. Retains(a, [p EXCEPT !.pc = pc])
    BY <1>1, <1>2 DEF Processes, Retains, Preparing, Prepares, Gated, Landing, Finalizing
  <2> QED
    BY <1>2, <2>1, FreeOrKept, LandingMoves DEF Goes
<1> USE DEF Finalizing
<1>3. ASSUME Exits(a, "refused") \/ Exits(a, "partial") \/ Exits(a, "ok"),
             UNCHANGED <<chain, pins, objects>>
      PROVE  LandingInv'
  <2>1. LandingChain(chain)'
    <3>1. PICK c : c = chain
      OBVIOUS
    <3>2. Grown
      BY <1>3 DEF Grown, Made
    <3>3. LandingChain(c)'
      BY <3>1, <3>2, LandingGrows DEF LandingInv
    <3> QED
      BY <1>3, <3>1, <3>3 DEF LandingChain
  <2> QED
    BY <1>3, <2>1, LandingEnds DEF Exits, LandingInv
<1>4. CASE MergeCreatesPending(a)
  BY <1>2, <1>3, <1>4 DEF MergeCreatesPending, At
<1>5. CASE MergePendingFails(a)
  BY <1>3, <1>5 DEF MergePendingFails, refs
<1>6. CASE MergeWorktreeGone(a)
  BY <1>2, <1>6 DEF MergeWorktreeGone, At, refs
<1>7. CASE MergeWorktreeStays(a)
  BY <1>2, <1>7 DEF MergeWorktreeStays, At, refs
<1>8. CASE MergeStages(a)
  <2> DEFINE pc == IF LinkedIssue THEN "m_fold" ELSE "m_txn"
  <2>1. Becomes(a, [p EXCEPT !.pc = pc, !.stage = issue])
    BY <1>8 DEF MergeStages
  <2>2. pc \in {"m_fold", "m_txn"}
    OBVIOUS
  <2> HIDE DEF pc
  <2>3. Retains(a, [p EXCEPT !.pc = pc, !.stage = issue])
    BY <1>1, <1>8, <2>2 DEF Processes, MergeStages, At, Retains, Preparing, Prepares, Gated,
       Landing
  <2> QED
    BY <1>8, <2>1, <2>3, LandingQuiet DEF MergeStages
<1>9. CASE MergeFoldsIssue(a)
  <2> DEFINE stage == IF IssueOpen(issue) THEN p.stage ELSE <<>>
  <2>1. Becomes(a, [p EXCEPT !.pc = "m_txn", !.stage = stage])
    BY <1>9 DEF MergeFoldsIssue
  <2> HIDE DEF stage
  <2>2. Retains(a, [p EXCEPT !.pc = "m_txn", !.stage = stage])
    BY <1>1, <1>9 DEF Processes, MergeFoldsIssue, At, Retains, Preparing, Prepares, Gated, Landing
  <2> QED
    BY <1>9, <2>1, <2>2, LandingQuiet DEF MergeFoldsIssue
<1>10. CASE MergeStageFails(a)
  BY <1>3, <1>10 DEF MergeStageFails, refs
<1>11. CASE MergeTxnFails(a)
  BY <1>2, <1>11 DEF MergeTxnFails, At, refs
<1>12. CASE MergeReadsHead(a)
  <2> DEFINE q == [p EXCEPT !.tip = chain]
  <2>1. /\ q \in Processes /\ q.tip = chain /\ q.gen = p.gen /\ q.src = p.src
        /\ q.res = p.res /\ q.bind = p.bind
    BY <1>1 DEF TypeOK, RefsTyped, Processes
  <2>2. /\ p.pc = "m_head" /\ UNCHANGED <<refs, objects>>
        /\ Goes(a, "m_issue") \/ Goes(a, "m_clean") \/ (Retries(a, q) /\ Adoptable(a, chain))
    BY <1>12 DEF MergeReadsHead, At
  <2> HIDE DEF q
  <2>3. CASE Retries(a, q) /\ Adoptable(a, chain)
    BY <2>1, <2>2, <2>3, RetriesLanding
  <2> QED
    BY <1>2, <2>2, <2>3 DEF refs
<1>13. CASE MergeReadsIssue(a)
  <2>1. CASE Retries(a, p)
    BY <1>1, <1>13, <2>1, RetriesLanding DEF MergeReadsIssue, At
  <2>2. CASE Goes(a, "m_clean")
    BY <1>2, <1>13, <2>2 DEF MergeReadsIssue, At, refs
  <2> QED
    BY <1>13, <2>1, <2>2 DEF MergeReadsIssue
<1>14. CASE MergeCleans(a)
  BY <1>3, <1>14 DEF MergeCleans
<1>15. CASE MergeLeavesPending(a)
  BY <1>3, <1>15 DEF MergeLeavesPending, refs
<1>16. CASE MergeRefreshes(a)
  BY <1>3, <1>16 DEF MergeRefreshes, refs
<1>17. CASE MergeRefreshFails(a)
  BY <1>2, <1>17 DEF MergeRefreshFails, At, refs
<1>18. CASE RollbackReadsHead(a)
  <2>1. Retains(a, [p EXCEPT !.pc = "m_rollback", !.seen = chain])
    BY <1>1, <1>18 DEF Processes, RollbackReadsHead, At, Retains, Preparing, Prepares, Gated,
       Landing
  <2> QED
    BY <1>18, <2>1, LandingQuiet DEF RollbackReadsHead
<1>19. CASE Rollback(a)
  <2>1. PICK c : c = p.tip
    OBVIOUS
  <2>2. LandingChain(c)
    BY <1>1, <1>19, <2>1 DEF Rollback, At, Legal, HasNoTip, LandingProcess
  <2>3. Grown /\ chain' = c /\ UNCHANGED <<pins, objects>>
    BY <1>19, <2>1 DEF Rollback, Grown, Made
  <2>4. LandingChain(chain)'
    <3>1. LandingChain(c)'
      BY <2>2, <2>3, LandingGrows
    <3> QED
      BY <2>3, <3>1 DEF LandingChain
  <2> QED
    BY <1>19, <2>3, <2>4, LandingEnds DEF Rollback, Exits, LandingInv
<1>20. CASE RollbackFails(a)
  BY <1>3, <1>20 DEF RollbackFails, refs
<1> QED
  BY <1>4, <1>5, <1>6, <1>7, <1>8, <1>9, <1>10, <1>11, <1>12, <1>13, <1>14, <1>15, <1>16,
     <1>17, <1>18, <1>19, <1>20

\* Pushes, rewinds and writes to the issue leave what lands alone.
LEMMA OutsideLanding ==
    ASSUME TypeOK, LandingInv, PushBase \/ RewindBase \/ PushSource \/ WriteIssue
    PROVE  LandingInv'
<1>1. UNCHANGED <<chain, pins, proc, todo>>
  BY DEF PushBase, RewindBase, PushSource, WriteIssue, Outside
<1>2. Grown /\ (\A c \in Made : c \in Anc(c))'
  <2>1. CASE UNCHANGED objects
    BY <1>1, <2>1 DEF Grown, Made, Anc, LandingInv
  <2>2. ASSUME NEW b \in Made, NewCommit(Anc(b), NextCommit)
        PROVE  Grown /\ (\A c \in Made : c \in Anc(c))'
    <3>1. Anc(b) \in SUBSET Made /\ NextCommit \in Nat /\ ObjectsTyped
      BY LenProperties DEF TypeOK, ObjectsTyped, NextCommit
    <3> QED
      BY <1>1, <2>2, <3>1, NewCommitGrows DEF LandingInv, Grown
  <2>3. base \in Made /\ source \in Made
    BY DEF TypeOK, RefsTyped
  <2> QED
    BY <2>1, <2>2, <2>3 DEF PushBase, RewindBase, PushSource, WriteIssue
<1>3. \A c : LandingChain(c) => LandingChain(c)'
  BY <1>2, LandingGrows
<1>4. LandingChain(chain)'
  BY <1>1, <1>3 DEF LandingInv, LandingChain
<1>5. ASSUME NEW a \in Actors PROVE LandingProcess(proc[a], Command(a).arg)'
  <2>1. PICK p, arg : p = proc[a] /\ arg = Command(a).arg
    OBVIOUS
  <2>2. LandingProcess(p, arg)'
    BY <1>2, <2>1, ProcessGrows DEF LandingInv
  <2> QED
    BY <1>1, <2>1, <2>2 DEF LandingProcess, Command
<1> QED
  BY <1>1, <1>2, <1>4, <1>5 DEF LandingInv

\* Every step keeps the invariant: of the commands, of people outside them, of a kill.
LEMMA StepLanding == TypeOK /\ GateInv /\ LandingInv /\ [Next]_vars => LandingInv'
<1> SUFFICES ASSUME TypeOK, GateInv, LandingInv, [Next]_vars PROVE LandingInv'
  OBVIOUS
<1>1. ASSUME NEW a \in Actors, ProcessStep(a) PROVE LandingInv'
  <2>1. CASE MergeStep(a)
    BY <2>1, MergeStartLanding, MergeTxnLanding, MergeEndLanding DEF MergeStep
  <2> QED
    BY <1>1, <2>1, AppendLanding, UpdateLanding, PrepareLanding DEF ProcessStep
<1>2. ASSUME UNCHANGED <<chain, pins, objects>> PROVE LandingChain(chain)' /\ Grown
  <2>1. Grown
    BY <1>2 DEF Grown, Made
  <2>2. \A c : LandingChain(c) => LandingChain(c)'
    BY <2>1, LandingGrows
  <2> QED
    BY <1>2, <2>1, <2>2 DEF LandingInv, LandingChain
<1>3. ASSUME NEW a \in Actors, Crash(a) PROVE LandingInv'
  BY <1>2, <1>3, LandingEnds DEF Crash, refs, LandingInv
<1>4. CASE PushBase \/ RewindBase \/ PushSource \/ WriteIssue
  BY <1>4, OutsideLanding
<1>5. CASE UNCHANGED vars
  <2>1. UNCHANGED <<chain, pins, objects, proc, todo>>
    BY <1>5 DEF vars, refs
  <2>2. ASSUME NEW a \in Actors PROVE LandingProcess(proc[a], Command(a).arg)'
    <3>1. PICK p, arg : p = proc[a] /\ arg = Command(a).arg
      OBVIOUS
    <3>2. LandingProcess(p, arg)'
      BY <1>2, <2>1, <3>1, ProcessGrows DEF LandingInv
    <3> QED
      BY <2>1, <3>1, <3>2 DEF LandingProcess, Command
  <2> QED
    BY <1>2, <2>1, <2>2 DEF LandingInv, Made, Anc
<1> QED
  BY <1>1, <1>3, <1>4, <1>5 DEF Next

\* The invariant holds throughout.
THEOREM LandingHolds == Spec => [](TypeOK /\ GateInv /\ LandingInv)
<1>1. Init => TypeOK /\ GateInv /\ LandingInv
  BY InitTyped, InitGateInv, InitLanding
<1>2. TypeOK /\ GateInv /\ LandingInv /\ [Next]_vars => (TypeOK /\ GateInv /\ LandingInv)'
  BY StepTyped, StepGateInv, StepLanding
<1> QED
  BY <1>1, <1>2, PTL DEF Spec

(***************************************************************************)
(* For every set of actors, plans and bounds, with or without rollbacks:   *)
(* the commit a pr.merge records carries the work of the source commit of  *)
(* the generation that is current where it is recorded.                    *)
(***************************************************************************)
THEOREM SnapshotsLand == Spec => []LandsTheSnapshot
<1>1. TypeOK /\ GateInv /\ LandingInv => LandsTheSnapshot
  <2> SUFFICES ASSUME TypeOK, LandingInv PROVE LandsTheSnapshot
    OBVIOUS
  <2>1. DOMAIN chain = 1..Len(chain)
    BY LenProperties DEF TypeOK, RefsTyped, Chains
  <2> QED
    BY <2>1 DEF LandsTheSnapshot, LandingInv, LandingChain, LandingAt, Landed, Carried
<1> QED
  BY <1>1, LandingHolds, PTL

(***************************************************************************)
(* A prepared result is never merged unvetted: with a candidate in the     *)
(* fold, the pr.merge records its very commit, and at some tip before it   *)
(* the approve and the green check were both bound to that commit and to   *)
(* the merge's strategy.                                                   *)
(***************************************************************************)
THEOREM ResultsAreVetted == Spec => []ResultWasVetted
<1>1. TypeOK /\ GateInv /\ LandingInv => ResultWasVetted
  <2> SUFFICES ASSUME TypeOK, LandingInv PROVE ResultWasVetted
    OBVIOUS
  <2>1. DOMAIN chain = 1..Len(chain)
    BY LenProperties DEF TypeOK, RefsTyped, Chains
  <2> QED
    BY <2>1 DEF ResultWasVetted, LandingInv, LandingChain, LandingAt, Landed
<1> QED
  BY <1>1, LandingHolds, PTL
=============================================================================

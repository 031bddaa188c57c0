----------------------------- MODULE PrMergeProofs -----------------------------
(***************************************************************************)
(* Type correctness of the pull-request lifecycle, and that a merge is     *)
(* only ever recorded on a chain that authorises it, for every set of      *)
(* actors, every plan and every bound.                                     *)
(*                                                                         *)
(* The lemmas about types follow the layers of the specification: events   *)
(* and the fold, chains, commits, what a process becomes when it moves or  *)
(* exits, and then one lemma for each command.                             *)
(*                                                                         *)
(* MergeAuthorised speaks of the events of the chain; the gate speaks of   *)
(* the state folded from them.  The inductive invariant ties the two       *)
(* together at every position (Folded), and carries what the gate leaves   *)
(* behind to the transaction: the tip a merge expects has passed the gate, *)
(* whatever tips it adopted on the way, and an update cannot take the      *)
(* generation back, because every generation up to the current one has its *)
(* refs and the transaction expects the refs of its own to be absent.      *)
(***************************************************************************)
EXTENDS PrProperties, SequenceTheorems, TLAPS

----------------------------------------------------------------------------
(* Events, the fold and chains. *)

\* A nonempty sequence has a last element, in the set its elements come from.
LEMMA LastElement ==
    ASSUME NEW S, NEW s \in Seq(S), s # <<>>
    PROVE  Len(s) \in Nat \ {0} /\ s[Len(s)] \in S
<1>1. Len(s) \in Nat \ {0}
  BY EmptySeq
<1>2. Len(s) \in 1..Len(s)
  BY <1>1
<1> QED
  BY <1>1, <1>2, ElementOfSeq

\* The fold of a typed event into a typed state is typed (event.rs PrState::apply).
LEMMA ApplyTyped ==
    ASSUME NEW st \in States, NEW e \in Events
    PROVE  Apply(st, e) \in States
BY ZenonT(60) DEF Apply, States, Events, Binds, Candidates

\* The state at the tip of a chain is typed.
LEMMA StateTyped ==
    ASSUME NEW c \in Chains, c # <<>>
    PROVE  State(c) \in States
<1>1. c[Len(c)] \in [ev : Events, st : States]
  BY LastElement DEF Chains
<1> QED
  BY <1>1 DEF State

\* Appending keeps every earlier node and folds the event into the tip's state.
LEMMA ExtendTyped ==
    ASSUME NEW c \in Chains, c # <<>>, NEW e \in Events
    PROVE  /\ Extend(c, e) \in Chains
           /\ Extend(c, e) # <<>>
           /\ Len(Extend(c, e)) = Len(c) + 1
           /\ \A i \in 1..Len(c) : Extend(c, e)[i] = c[i]
           /\ Extend(c, e)[Len(c) + 1] = [ev |-> e, st |-> Apply(State(c), e)]
           /\ State(Extend(c, e)) = Apply(State(c), e)
<1> DEFINE n == [ev |-> e, st |-> Apply(State(c), e)]
<1>1. n \in [ev : Events, st : States] /\ n.st = Apply(State(c), e)
  BY StateTyped, ApplyTyped
<1>2. Len(c) \in Nat \ {0}
  BY LastElement DEF Chains
<1>3. n = [ev |-> e, st |-> Apply(State(c), e)]
  OBVIOUS
<1> HIDE DEF n
<1>4. /\ Append(c, n) \in Chains /\ Len(Append(c, n)) = Len(c) + 1
      /\ \A i \in 1..Len(c) : Append(c, n)[i] = c[i]
      /\ Append(c, n)[Len(c) + 1] = n
  BY <1>1, <1>2, AppendProperties DEF Chains
<1>5. Extend(c, e) = Append(c, n)
  BY <1>3 DEF Extend
<1>6. Append(c, n) # <<>>
  BY <1>4, <1>2, EmptySeq DEF Chains
<1>7. State(Append(c, n)) = n.st
  BY <1>4 DEF State
<1> QED
  BY <1>1, <1>3, <1>4, <1>5, <1>6, <1>7

\* The chain of one event.
LEMMA GenesisTyped ==
    ASSUME NEW e \in Events
    PROVE  /\ Genesis(e) \in Chains /\ Genesis(e) # <<>>
           /\ State(Genesis(e)) = Apply(EmptyPr, e)
<1> DEFINE g == Apply(EmptyPr, e)
<1>1. NoBind \in Binds /\ NoCommit \in Nat /\ NoRole \in Roles
  BY DEF Binds, NoBind, NoCommit, Words, Roles
<1>2. EmptyPr \in States
  BY <1>1 DEF EmptyPr, States, Candidates, NoCandidate, Words
<1>3. g \in States
  BY <1>2, ApplyTyped
<1>4. Genesis(e) = <<[ev |-> e, st |-> g]>>
  BY DEF Genesis
<1> HIDE DEF g
<1>5. <<[ev |-> e, st |-> g]>> \in Chains /\ <<[ev |-> e, st |-> g]>> # <<>>
  BY <1>3 DEF Chains
<1>6. State(Genesis(e)) = g
  BY <1>4 DEF State
<1> QED
  BY <1>4, <1>5, <1>6 DEF g

\* An issue chain grows by one typed node (event.rs IssueState::apply).
LEMMA IssueExtendTyped ==
    ASSUME NEW i \in IssueChains, i # <<>>, NEW kind \in IssueKinds, NEW id \in Ids
    PROVE  /\ IssueExtend(i, kind, id) \in IssueChains
           /\ IssueExtend(i, kind, id) # <<>>
<1>1. i[Len(i)] \in [kind : IssueKinds, id : Ids, open : BOOLEAN]
  BY LastElement DEF IssueChains
<1>2. Len(i) \in Nat
  BY LastElement DEF IssueChains
<1> DEFINE n == [kind |-> kind, id |-> id,
                 open |-> CASE kind = "issue.close" -> FALSE
                            [] kind = "issue.reopen" -> TRUE
                            [] OTHER -> IssueOpen(i)]
<1>3. n \in [kind : IssueKinds, id : Ids, open : BOOLEAN]
  BY <1>1 DEF IssueOpen
<1>4. IssueExtend(i, kind, id) = Append(i, n)
  BY DEF IssueExtend
<1> HIDE DEF n
<1>5. Append(i, n) \in IssueChains /\ Len(Append(i, n)) = Len(i) + 1
  BY <1>3, AppendProperties DEF IssueChains
<1>6. Append(i, n) # <<>>
  BY <1>5, <1>2, EmptySeq DEF IssueChains
<1> QED
  BY <1>4, <1>5, <1>6

----------------------------------------------------------------------------
(* Commits. *)

\* A new commit whose ancestors exist leaves the commits well formed.
LEMMA NewCommitTyped ==
    ASSUME ObjectsTyped, NEW anc \in SUBSET Made, NEW from \in Nat,
           NewCommit(anc, from)
    PROVE  /\ ObjectsTyped'
           /\ Made' = Made \cup {NextCommit}
           /\ Made \subseteq Nat
           /\ NextCommit \in Nat \ {NoCommit}
<1> DEFINE Obj == [anc : SUBSET Nat, from : Nat]
           o == [anc |-> anc \cup {NextCommit}, from |-> from]
<1>1. objects \in Seq(Obj) /\ Len(objects) \in Nat /\ Made = 1..Len(objects)
  BY LenProperties DEF ObjectsTyped, Made
<1>2. NextCommit \in Nat \ {NoCommit} /\ Made \subseteq Nat
  BY <1>1 DEF NextCommit, NoCommit
<1>3. o \in Obj
  BY <1>1, <1>2
<1>4. objects' = Append(objects, o)
  BY DEF NewCommit
<1>5. /\ objects' \in Seq(Obj) /\ Len(objects') = Len(objects) + 1
      /\ \A c \in 1..Len(objects) : objects'[c] = objects[c]
      /\ objects'[Len(objects) + 1] = o
  BY <1>1, <1>3, <1>4, AppendProperties
<1>6. Made' = Made \cup {NextCommit}
  BY <1>1, <1>5, LenProperties DEF Made, NextCommit
<1>7. \A c \in Made' : Anc(c)' \subseteq Made'
  <2> SUFFICES ASSUME NEW c \in Made'
               PROVE  Anc(c)' \subseteq Made'
    OBVIOUS
  <2>1. CASE c \in Made
    BY <2>1, <1>1, <1>5, <1>6 DEF Anc, ObjectsTyped
  <2>2. CASE c = NextCommit
    <3>1. Anc(c)' = anc \cup {NextCommit}
      BY <2>2, <1>5 DEF Anc, NextCommit
    <3> QED
      BY <3>1, <1>6
  <2> QED
    BY <2>1, <2>2, <1>6
<1> QED
  BY <1>2, <1>5, <1>6, <1>7 DEF ObjectsTyped

\* A strategy that succeeds ends at a commit that exists (merge_state.rs execute_strategy).
LEMMA ExecutesTyped ==
    ASSUME ObjectsTyped, NEW strategy, NEW s \in Made, NEW b \in Made, NEW r,
           Executes(strategy, s, b, r)
    PROVE  ObjectsTyped' /\ Made \subseteq Made' /\ r \in Made'
<1>1. CASE UNCHANGED objects /\ r \in Reused(strategy, s, b)
  BY <1>1 DEF ObjectsTyped, Made, Anc, Reused
<1>2. CASE r = NextCommit /\ NewCommit(Kept(strategy, s, b), s)
  <2>1. Kept(strategy, s, b) \in SUBSET Made
    BY DEF Kept, ObjectsTyped
  <2>2. s \in Nat
    BY LenProperties DEF ObjectsTyped, Made
  <2> QED
    BY <1>2, <2>1, <2>2, NewCommitTyped
<1> QED
  BY <1>1, <1>2 DEF Executes

----------------------------------------------------------------------------
(* Processes. *)

\* What a process may hold stays legal when commits are made.
LEMMA LegalGrows ==
    ASSUME NEW p, NEW made, NEW more, made \subseteq more, Legal(p, made)
    PROVE  Legal(p, more)
BY DEF Legal, SnapshotIn

\* A running process moves to a legal one.
LEMMA BecomesTyped ==
    ASSUME ProcessesTyped, NEW a \in Actors, NEW p, Becomes(a, p),
           todo[a] # <<>>, Made \subseteq Made', Legal(p, Made')
    PROVE  ProcessesTyped'
<1>1. proc' = [proc EXCEPT ![a] = p] /\ todo' = todo /\ reported' = reported
  BY DEF Becomes
<1>2. proc' \in [Actors -> Processes]
  BY <1>1 DEF ProcessesTyped, Legal
<1>3. ASSUME NEW b \in Actors
      PROVE  Legal(proc'[b], Made') /\ (proc'[b].pc # "idle" => todo'[b] # <<>>)
  BY <1>1, LegalGrows DEF ProcessesTyped
<1> QED
  BY <1>1, <1>2, <1>3 DEF ProcessesTyped

\* The idle process is legal.
LEMMA IdleLegal == ASSUME NEW made PROVE Legal(Idle, made)
<1>1. <<>> \in Chains /\ <<>> \in IssueChains
  BY EmptySeq DEF Chains, IssueChains
<1>2. Idle \in Processes
  BY <1>1 DEF Idle, Processes, PcSet, Words, Binds, NoBind, NoCommit
<1>3. Idle.pc = "idle" /\ Idle.tip = <<>>
  BY DEF Idle
<1>4. /\ "idle" \in HasNoTip /\ "idle" \notin HasSource /\ "idle" \notin HasBase
      /\ "idle" \notin HasResult
  BY DEF HasNoTip, HasSource, HasBase, HasResult, Finalizing
<1> QED
  BY <1>2, <1>3, <1>4 DEF Legal, SnapshotIn

\* A process that ends leaves its actor idle with the rest of the script.
LEMMA EndsTyped ==
    ASSUME ProcessesTyped, NEW a \in Actors, todo[a] # <<>>, Made \subseteq Made',
           proc' = [proc EXCEPT ![a] = Idle], todo' = [todo EXCEPT ![a] = Tail(@)],
           reported' \subseteq [id : Ids, how : {"ok", "refused", "partial", "unclear"}]
    PROVE  ProcessesTyped'
<1>1. proc' \in [Actors -> Processes]
  BY IdleLegal DEF ProcessesTyped, Legal
<1>2. Tail(todo[a]) \in Seq(Commands)
  BY HeadTailProperties DEF ProcessesTyped
<1>3. todo' \in [Actors -> Seq(Commands)]
  BY <1>2 DEF ProcessesTyped
<1>4. ASSUME NEW b \in Actors
      PROVE  Legal(proc'[b], Made') /\ (proc'[b].pc # "idle" => todo'[b] # <<>>)
  <2>1. CASE b = a
    BY <2>1, IdleLegal DEF ProcessesTyped, Idle
  <2>2. CASE b # a
    BY <2>2, LegalGrows DEF ProcessesTyped
  <2> QED
    BY <2>1, <2>2
<1> QED
  BY <1>1, <1>3, <1>4 DEF ProcessesTyped

\* A process that exits, whatever it reports, leaves typed processes.
LEMMA ExitsTyped ==
    ASSUME ProcessesTyped, NEW a \in Actors, todo[a] # <<>>, Made \subseteq Made',
           NEW how \in {"ok", "refused", "partial"}, Exits(a, how)
    PROVE  ProcessesTyped'
<1>1. CommandId(a) \in Ids
  BY LenProperties DEF CommandId, Ids, ProcessesTyped
<1>2. reported' \subseteq [id : Ids, how : {"ok", "refused", "partial", "unclear"}]
  BY <1>1 DEF Exits, Reports, ProcessesTyped
<1> QED
  BY <1>2, EndsTyped DEF Exits

\* A process whose transaction was applied, and reported as failed, leaves typed processes.
LEMMA UnclearTyped ==
    ASSUME ProcessesTyped, NEW a \in Actors, todo[a] # <<>>, Made \subseteq Made',
           NEW pc, Unclear(a, pc), Legal([proc[a] EXCEPT !.pc = pc], Made')
    PROVE  ProcessesTyped'
<1> DEFINE q == [proc[a] EXCEPT !.pc = pc]
<1>1. CommandId(a) \in Ids
  BY LenProperties DEF CommandId, Ids, ProcessesTyped
<1>2. reported' \subseteq [id : Ids, how : {"ok", "refused", "partial", "unclear"}]
  BY <1>1 DEF Unclear, Reports, ProcessesTyped
<1>3. proc' = [proc EXCEPT ![a] = q] /\ todo' = todo
  BY DEF Unclear
<1> HIDE DEF q
<1>4. proc' \in [Actors -> Processes]
  BY <1>3 DEF q, ProcessesTyped, Legal
<1>5. ASSUME NEW b \in Actors
      PROVE  Legal(proc'[b], Made') /\ (proc'[b].pc # "idle" => todo'[b] # <<>>)
  BY <1>3, LegalGrows DEF q, ProcessesTyped
<1> QED
  BY <1>2, <1>3, <1>4, <1>5 DEF ProcessesTyped

\* A running process has an invocation, of the kinds and with the arguments of the CLI.
LEMMA CommandTyped ==
    ASSUME ProcessesTyped, NEW a \in Actors, todo[a] # <<>>
    PROVE  /\ todo[a] \in Seq(Commands) /\ Command(a).arg \in Words
           /\ CommandId(a) \in Ids
<1>1. todo[a] \in Seq(Commands)
  BY DEF ProcessesTyped
<1>2. Command(a) \in Commands
  BY <1>1, HeadTailProperties DEF Command
<1>3. CommandId(a) \in Ids
  BY <1>1, LenProperties DEF CommandId, Ids
<1> QED
  BY <1>1, <1>2, <1>3 DEF Commands, Words

\* A step that writes no ref and makes no commit: the process moves, or it exits.
LEMMA QuietMove ==
    ASSUME TypeOK, NEW a \in Actors, todo[a] # <<>>, NEW p, Becomes(a, p),
           Legal(p, Made), UNCHANGED <<refs, objects>>
    PROVE  TypeOK'
<1>1. Made' = Made
  BY DEF Made
<1>2. ProcessesTyped'
  BY <1>1, BecomesTyped DEF TypeOK
<1> QED
  BY <1>1, <1>2 DEF TypeOK, RefsTyped, ObjectsTyped, refs, Anc

\* ... and the same when it exits.
LEMMA QuietExit ==
    ASSUME TypeOK, NEW a \in Actors, todo[a] # <<>>,
           NEW how \in {"ok", "refused", "partial"}, Exits(a, how), UNCHANGED <<refs, objects>>
    PROVE  TypeOK'
<1>1. Made' = Made
  BY DEF Made
<1>2. ProcessesTyped'
  BY <1>1, ExitsTyped DEF TypeOK
<1> QED
  BY <1>1, <1>2 DEF TypeOK, RefsTyped, ObjectsTyped, refs, Anc

\* A step that makes no commit and appends to the chain, and exits or goes on misinformed.
LEMMA AppendAndExit ==
    ASSUME TypeOK, NEW a \in Actors, todo[a] # <<>>, NEW e \in Events,
           proc[a].tip # <<>>, chain' = Extend(proc[a].tip, e),
           SnapshotIn(Extend(proc[a].tip, e), Made),
           NEW pc, Exits(a, "ok") \/ Unclear(a, pc), Legal([proc[a] EXCEPT !.pc = pc], Made),
           UNCHANGED <<base, source, issue, objects>>,
           result' \in Made \cup {NoCommit},
           pins' \subseteq [gen : Nat, source : Nat, base : Nat]
    PROVE  TypeOK'
<1>1. Made' = Made
  BY DEF Made
<1>2. ProcessesTyped'
  BY <1>1, ExitsTyped, UnclearTyped DEF TypeOK
<1>3. proc[a].tip \in Chains
  BY DEF TypeOK, ProcessesTyped, Processes
<1>4. chain' \in Chains /\ chain' # <<>>
  BY <1>3, ExtendTyped
<1> QED
  BY <1>1, <1>2, <1>4 DEF TypeOK, RefsTyped, ObjectsTyped, Anc

\* Retry moves to p with one try more, or exits.
LEMMA QuietRetry ==
    ASSUME TypeOK, NEW a \in Actors, todo[a] # <<>>, NEW p, Legal(p, Made), Retry(a, p),
           UNCHANGED <<refs, objects>>
    PROVE  TypeOK'
<1>1. Legal([p EXCEPT !.tries = @ + 1], Made)
  BY DEF Legal, Processes
<1> QED
  BY <1>1, QuietMove, QuietExit DEF Retry

----------------------------------------------------------------------------
(* The commands that append one event (PrAppend). *)

\* The event of an appending command is typed and names no candidate of its own.
LEMMA EventOfTyped ==
    ASSUME TypeOK, NEW a \in Actors, todo[a] # <<>>
    PROVE  /\ EventOf(a) \in Events
           /\ EventOf(a).kind \in {"pr.comment", "pr.review", "ci.check", "pr.abandoned"}
<1>1. /\ proc[a].gen \in Nat /\ proc[a].bind \in Binds /\ proc[a].word \in Words
      /\ "none" \in Words
  BY DEF TypeOK, ProcessesTyped, Processes, Words
<1>2. Command(a).arg \in Words /\ CommandId(a) \in Ids /\ RoleOf[a] \in Roles
  BY CommandTyped DEF TypeOK, Roles
<1>3. NoBind \in Binds /\ NoCommit \in Nat
  BY DEF Binds, NoBind, NoCommit, Words
<1> QED
  BY <1>1, <1>2, <1>3 DEF EventOf, Authored, PrEvent, Events, Kinds

\* An event that sets neither the snapshot nor the candidate leaves them legal.
LEMMA SnapshotKept ==
    ASSUME NEW c \in Chains, c # <<>>, NEW e \in Events, NEW made, SnapshotIn(c, made),
           e.kind \notin {"pr.created", "pr.update", "pr.prepared"}
    PROVE  SnapshotIn(Extend(c, e), made)
<1>1. State(c) \in States /\ State(Extend(c, e)) = Apply(State(c), e)
  BY StateTyped, ExtendTyped
<1>2. /\ Apply(State(c), e).source = State(c).source
      /\ Apply(State(c), e).prepared = State(c).prepared
  BY <1>1 DEF Apply, States
<1> QED
  BY <1>1, <1>2 DEF SnapshotIn

\* pr comment, pr review, ci run and pr abandon keep everything typed.
LEMMA AppendTyped ==
    ASSUME TypeOK, NEW a \in Actors, AppendStep(a)
    PROVE  TypeOK'
<1> DEFINE p == proc[a]
<1>1. /\ p \in Processes /\ Legal(p, Made)
      /\ todo[a] # <<>>
  BY DEF TypeOK, ProcessesTyped, AppendStep, ReviewRead, CiRead, Bind, AbandonRead, AppendTip,
         AppendCas, AppendCasFails, AppendLost, Starting, At
<1>2. chain \in Chains /\ chain # <<>> /\ SnapshotIn(chain, Made) /\ State(chain) \in States
  BY StateTyped DEF TypeOK, RefsTyped
<1>3. ASSUME Captures(a)
      PROVE  \E q : Becomes(a, q) /\ Legal(q, Made)
  <2> DEFINE bind == IF CandidateCurrent(State(chain)) THEN BindOf(State(chain).prepared)
                                                       ELSE NoBind
  <2>1. bind \in Binds /\ State(chain).gen \in Nat
    BY <1>2 DEF States, Candidates, BindOf, Binds, NoBind, NoCommit, Words
  <2> DEFINE pc == IF CandidateCurrent(State(chain)) THEN "bind" ELSE "tip"
             word == IF Command(a).op = "ci" THEN "pending" ELSE "none"
             q == [p EXCEPT !.pc = pc, !.gen = State(chain).gen, !.bind = bind, !.word = word]
  <2>2. Becomes(a, q)
    BY <1>3 DEF Captures
  <2>3. pc \in {"bind", "tip"} /\ pc \in PcSet /\ word \in Words
    BY DEF PcSet, Words
  <2> HIDE DEF pc, word, bind
  <2>4. q \in Processes /\ q.pc = pc /\ q.tip = p.tip
    BY <1>1, <2>1, <2>3 DEF Processes
  <2>5. Legal(q, Made)
    BY <1>1, <2>3, <2>4 DEF Legal, HasNoTip, HasSource, HasBase, HasResult, Finalizing
  <2> QED
    BY <2>2, <2>5
<1>4. CASE ReviewRead(a)
  BY <1>1, <1>3, <1>4, QuietMove, QuietExit DEF ReviewRead
<1>5. CASE CiRead(a)
  BY <1>1, <1>3, <1>5, QuietMove, QuietExit DEF CiRead
<1>6. CASE Bind(a)
  <2>1. Corroborated(p.bind) \in Binds
    BY <1>1 DEF Corroborated, Processes, Binds, NoBind, NoCommit, Words
  <2>2. Legal([p EXCEPT !.pc = "tip", !.bind = Corroborated(@)], Made)
    BY ZenonT(60), <1>1, <2>1
       DEF Legal, Processes, PcSet, HasNoTip, HasSource, HasBase, HasResult, Finalizing
  <2> QED
    BY <1>1, <1>6, <2>2, QuietMove DEF Bind
<1>7. CASE AbandonRead(a)
  <2>1. Legal([p EXCEPT !.pc = "tip"], Made)
    BY <1>1 DEF Legal, Processes, PcSet, HasNoTip, HasSource, HasBase, HasResult, Finalizing
  <2> QED
    BY <1>1, <1>7, <2>1, QuietMove, QuietExit DEF AbandonRead, Goes
<1>8. CASE AppendTip(a)
  <2>1. PICK word \in Words :
              Becomes(a, [p EXCEPT !.pc = "cas", !.tip = chain, !.word = word])
    BY <1>1, <1>8 DEF AppendTip, Processes, Words
  <2>2. Legal([p EXCEPT !.pc = "cas", !.tip = chain, !.word = word], Made)
    BY ZenonT(60), <1>1, <1>2
       DEF Legal, Processes, PcSet, HasNoTip, HasSource, HasBase, HasResult, Finalizing
  <2> QED
    BY <1>1, <1>8, <2>1, <2>2, QuietMove DEF AppendTip
<1>9. CASE AppendCas(a)
  <2>1. p.tip \in Chains /\ p.tip # <<>> /\ SnapshotIn(p.tip, Made)
    BY <1>1, <1>9 DEF AppendCas, At, Legal, Processes, HasNoTip
  <2>2. SnapshotIn(Extend(p.tip, EventOf(a)), Made)
    BY <1>1, <2>1, EventOfTyped, SnapshotKept
  <2>3. Legal([p EXCEPT !.pc = "lost"], Made)
    BY <1>1, <1>9 DEF AppendCas, At, Legal, Processes, PcSet, HasNoTip, HasSource,
       HasBase, HasResult, Finalizing
  <2> QED
    BY <1>1, <1>9, <2>1, <2>2, <2>3, EventOfTyped, AppendAndExit DEF AppendCas, TypeOK, RefsTyped
<1>10. CASE AppendCasFails(a)
  <2>1. Legal([p EXCEPT !.pc = "lost"], Made)
    BY <1>1, <1>10 DEF AppendCasFails, At, Legal, Processes, PcSet, HasNoTip, HasSource,
       HasBase, HasResult, Finalizing
  <2> QED
    BY <1>1, <1>10, <2>1, QuietMove DEF AppendCasFails, Goes
<1>11. CASE AppendLost(a)
  <2>1. Legal([p EXCEPT !.pc = "tip"], Made)
    BY <1>1 DEF Legal, Processes, PcSet, HasNoTip, HasSource, HasBase, HasResult, Finalizing
  <2> QED
    BY <1>1, <1>11, <2>1, QuietRetry DEF AppendLost
<1> QED
  BY <1>4, <1>5, <1>6, <1>7, <1>8, <1>9, <1>10, <1>11 DEF AppendStep

----------------------------------------------------------------------------
(* pr update (PrUpdate). *)

\* pr update keeps everything typed: the source it pins is a commit it read from a branch.
LEMMA UpdateTyped ==
    ASSUME TypeOK, NEW a \in Actors, UpdateStep(a)
    PROVE  TypeOK'
<1> USE DEF PcSet, HasNoTip, HasSource, HasBase, HasResult, Finalizing
<1> DEFINE p == proc[a]
<1>1. /\ p \in Processes /\ Legal(p, Made)
      /\ todo[a] # <<>>
  BY DEF TypeOK, ProcessesTyped, UpdateStep, UpdateRead, UpdateReadSource, UpdateReadBase,
         UpdateTip, UpdateTxn, UpdateTxnFails, UpdateClaimed, UpdateMoved, UpdateHead,
         Starting, At
<1>2. /\ chain \in Chains /\ chain # <<>> /\ SnapshotIn(chain, Made) /\ State(chain) \in States
      /\ source \in Made /\ base \in Made /\ result \in Made \cup {NoCommit}
      /\ Made \subseteq Nat
  BY StateTyped, LenProperties DEF TypeOK, RefsTyped, ObjectsTyped, Made
<1>3. ASSUME UpdateRead(a) PROVE TypeOK'
  <2>1. State(chain).gen + 1 \in Nat
    BY <1>2 DEF States
  <2>2. Legal([p EXCEPT !.pc = "u_source", !.tip = chain, !.gen = State(chain).gen + 1], Made)
    BY ZenonT(60), <1>1, <1>2, <2>1 DEF Legal, Processes
  <2> QED
    BY <1>1, <1>3, <2>2, QuietMove, QuietExit DEF UpdateRead
<1>4. ASSUME UpdateReadSource(a) PROVE TypeOK'
  <2>1. Legal([p EXCEPT !.pc = "u_base", !.src = source], Made)
    BY <1>1, <1>2, <1>4 DEF UpdateReadSource, At, Legal, Processes
  <2> QED
    BY <1>1, <1>4, <2>1, QuietMove DEF UpdateReadSource
<1>5. ASSUME UpdateReadBase(a) PROVE TypeOK'
  <2>1. Legal([p EXCEPT !.pc = "u_tip", !.base = base], Made)
    BY <1>1, <1>2, <1>5 DEF UpdateReadBase, At, Legal, Processes
  <2> QED
    BY <1>1, <1>5, <2>1, QuietMove, QuietExit DEF UpdateReadBase
<1>6. ASSUME UpdateTip(a) PROVE TypeOK'
  <2>1. Legal([p EXCEPT !.pc = "u_txn", !.tip = chain], Made)
    BY <1>1, <1>2, <1>6 DEF UpdateTip, At, Legal, Processes
  <2> QED
    BY <1>1, <1>6, <2>1, QuietMove DEF UpdateTip
<1>7. ASSUME UpdateTxn(a) PROVE TypeOK'
  <2> DEFINE e == [Authored(a, "pr.update") EXCEPT !.gen = p.gen, !.source = p.src,
                                                   !.base = p.base]
  <2>1. /\ p.tip \in Chains /\ p.tip # <<>> /\ SnapshotIn(p.tip, Made) /\ p.src \in Made
        /\ p.gen \in Nat /\ p.src \in Nat /\ p.base \in Nat
    BY <1>1, <1>7 DEF UpdateTxn, At, Legal, Processes
  <2>2. /\ CommandId(a) \in Ids /\ RoleOf[a] \in Roles /\ NoBind \in Binds
    BY <1>1, CommandTyped DEF TypeOK, Roles, Binds, NoBind, NoCommit, Words
  <2>3. e \in Events /\ e.kind = "pr.update" /\ e.source = p.src
    BY <2>1, <2>2 DEF Authored, PrEvent, Events, Kinds, Words
  <2> HIDE DEF e
  <2>4. State(p.tip) \in States /\ State(Extend(p.tip, e)) = Apply(State(p.tip), e)
    BY <2>1, <2>3, StateTyped, ExtendTyped
  <2>5. /\ Apply(State(p.tip), e).source = p.src
        /\ Apply(State(p.tip), e).prepared = State(p.tip).prepared
    BY <2>3, <2>4 DEF Apply, States
  <2>6. SnapshotIn(Extend(p.tip, e), Made)
    BY <2>1, <2>4, <2>5 DEF SnapshotIn
  <2>7. pins' \subseteq [gen : Nat, source : Nat, base : Nat]
    BY <1>7, <2>1 DEF UpdateTxn, Pin, TypeOK, RefsTyped
  <2>8. /\ chain' = Extend(p.tip, e) /\ (Exits(a, "ok") \/ Unclear(a, "u_claimed"))
        /\ UNCHANGED <<base, source, result, issue, objects>>
    BY <1>7 DEF UpdateTxn, e
  <2>9. Legal([p EXCEPT !.pc = "u_claimed"], Made)
    BY <1>1, <1>7 DEF UpdateTxn, At, Legal, Processes
  <2> QED
    BY <1>1, <1>2, <2>1, <2>3, <2>6, <2>7, <2>8, <2>9, AppendAndExit
<1>8. ASSUME UpdateTxnFails(a) PROVE TypeOK'
  <2>1. Legal([p EXCEPT !.pc = "u_claimed"], Made)
    BY <1>1, <1>8 DEF UpdateTxnFails, At, Legal, Processes
  <2> QED
    BY <1>1, <1>8, <2>1, QuietMove DEF UpdateTxnFails, Goes
<1>9. ASSUME UpdateClaimed(a) PROVE TypeOK'
  <2>1. Legal([p EXCEPT !.pc = "u_moved"], Made)
    BY <1>1, <1>9 DEF UpdateClaimed, At, Legal, Processes
  <2> QED
    BY <1>1, <1>9, <2>1, QuietMove, QuietExit DEF UpdateClaimed, Goes
<1>10. ASSUME UpdateMoved(a) PROVE TypeOK'
  <2>1. Legal([p EXCEPT !.pc = "u_head"], Made)
    BY <1>1, <1>10 DEF UpdateMoved, At, Legal, Processes
  <2> QED
    BY <1>1, <1>10, <2>1, QuietMove, QuietExit DEF UpdateMoved, Goes
<1>11. ASSUME UpdateHead(a) PROVE TypeOK'
  <2>1. Legal([p EXCEPT !.pc = "u_txn", !.tip = chain], Made)
    BY <1>1, <1>2, <1>11 DEF UpdateHead, At, Legal, Processes
  <2> QED
    BY <1>1, <1>11, <2>1, QuietRetry DEF UpdateHead
<1> QED
  BY <1>3, <1>4, <1>5, <1>6, <1>7, <1>8, <1>9, <1>10, <1>11 DEF UpdateStep

----------------------------------------------------------------------------
(* pr prepare (PrPrepare). *)

\* pr prepare keeps everything typed: the candidate it records was made by its strategy.
LEMMA PrepareTyped ==
    ASSUME TypeOK, NEW a \in Actors, PrepareStep(a)
    PROVE  TypeOK'
<1> USE DEF PcSet, HasNoTip, HasSource, HasBase, HasResult, Finalizing
<1> DEFINE p == proc[a]
<1>1. /\ p \in Processes /\ Legal(p, Made)
      /\ todo[a] # <<>>
  BY DEF TypeOK, ProcessesTyped, PrepareStep, PrepareRead, PrepareBase, PrepareBaseFails,
         PrepareTip, PreparePin, PrepareTxn, PrepareTxnFails, PrepareHead, Starting, At
<1>2. /\ chain \in Chains /\ chain # <<>> /\ SnapshotIn(chain, Made) /\ State(chain) \in States
      /\ base \in Made /\ result \in Made \cup {NoCommit} /\ result \in Nat
      /\ Made \subseteq Nat
  BY StateTyped, LenProperties DEF TypeOK, RefsTyped, ObjectsTyped, Made, NoCommit
<1>3. Command(a).arg \in Words /\ CommandId(a) \in Ids
  BY <1>1, CommandTyped DEF TypeOK
<1>4. ASSUME PrepareRead(a) PROVE TypeOK'
  <2>1. State(chain).gen \in Nat /\ State(chain).source \in Made
    BY <1>2 DEF States, SnapshotIn
  <2>2. Legal([p EXCEPT !.pc = "p_base", !.gen = State(chain).gen,
                        !.src = State(chain).source], Made)
    BY ZenonT(60), <1>1, <1>2, <2>1 DEF Legal, Processes
  <2> QED
    BY <1>1, <1>4, <2>2, QuietMove, QuietExit DEF PrepareRead
<1>5. ASSUME PrepareBase(a) PROVE TypeOK'
  <2>1. PICK r : /\ Executes(Command(a).arg, p.src, base, r)
                 /\ Becomes(a, [p EXCEPT !.pc = "p_tip", !.base = base, !.res = r])
    BY <1>5 DEF PrepareBase
  <2>2. ObjectsTyped' /\ Made \subseteq Made' /\ r \in Made' /\ r \in Nat
    <3>1. p.src \in Made
      BY <1>1, <1>5 DEF PrepareBase, At, Legal
    <3>2. ObjectsTyped' /\ Made \subseteq Made' /\ r \in Made'
      BY <1>2, <2>1, <3>1, ExecutesTyped DEF TypeOK
    <3> QED
      BY <3>2, LenProperties DEF ObjectsTyped, Made
  <2>3. Legal([p EXCEPT !.pc = "p_tip", !.base = base, !.res = r], Made')
    BY ZenonT(60), <1>1, <1>2, <2>2, LegalGrows DEF Legal, Processes
  <2>4. ProcessesTyped'
    BY <1>1, <2>1, <2>2, <2>3, BecomesTyped DEF TypeOK
  <2>5. RefsTyped'
    BY <1>2, <1>5, <2>2 DEF PrepareBase, TypeOK, RefsTyped, refs, SnapshotIn
  <2> QED
    BY <2>2, <2>4, <2>5 DEF TypeOK
<1>6. ASSUME PrepareBaseFails(a) PROVE TypeOK'
  BY <1>1, <1>6, QuietExit DEF PrepareBaseFails
<1>7. ASSUME PrepareTip(a) PROVE TypeOK'
  <2>1. Legal([p EXCEPT !.pc = "p_pin", !.tip = chain], Made)
    BY <1>1, <1>2, <1>7 DEF PrepareTip, At, Legal, Processes
  <2> QED
    BY <1>1, <1>7, <2>1, QuietMove DEF PrepareTip
<1>8. ASSUME PreparePin(a) PROVE TypeOK'
  <2> DEFINE bind == [strategy |-> Command(a).arg, result |-> result]
  <2>1. bind \in Binds
    BY <1>2, <1>3 DEF Binds
  <2>2. Becomes(a, [p EXCEPT !.pc = "p_txn", !.bind = bind])
    BY <1>8 DEF PreparePin
  <2> HIDE DEF bind
  <2>3. Legal([p EXCEPT !.pc = "p_txn", !.bind = bind], Made)
    BY <1>1, <1>8, <2>1 DEF PreparePin, At, Legal, Processes
  <2> QED
    BY <1>1, <1>8, <2>2, <2>3, QuietMove DEF PreparePin
<1>9. ASSUME PrepareTxn(a) PROVE TypeOK'
  <2> DEFINE bind == [strategy |-> Command(a).arg, result |-> p.res]
             e == [Authored(a, "pr.prepared") EXCEPT
                     !.gen = p.gen, !.source = p.src, !.base = p.base, !.bind = bind]
  <2>1. /\ p.tip \in Chains /\ p.tip # <<>> /\ SnapshotIn(p.tip, Made) /\ p.res \in Made
        /\ p.gen \in Nat /\ p.src \in Nat /\ p.base \in Nat /\ p.res \in Nat
    BY <1>1, <1>9 DEF PrepareTxn, At, Legal, Processes
  <2>2. bind \in Binds /\ bind.result = p.res /\ RoleOf[a] \in Roles
    BY <1>3, <2>1 DEF Binds, Roles
  <2>3. /\ chain' = Extend(p.tip, e) /\ (Exits(a, "ok") \/ Unclear(a, "p_head"))
        /\ result' = p.res
        /\ UNCHANGED <<base, source, issue, pins, objects>>
    BY <1>9 DEF PrepareTxn
  <2> HIDE DEF bind
  <2>4. e \in Events /\ e.kind = "pr.prepared" /\ e.bind.result = p.res
    BY <1>3, <2>1, <2>2 DEF Authored, PrEvent, Events, Kinds, Words
  <2> HIDE DEF e
  <2>5. State(p.tip) \in States /\ State(Extend(p.tip, e)) = Apply(State(p.tip), e)
    BY <2>1, <2>4, StateTyped, ExtendTyped
  <2>6. /\ Apply(State(p.tip), e).source = State(p.tip).source
        /\ Apply(State(p.tip), e).prepared.result = p.res
    BY <2>4, <2>5 DEF Apply, States, Candidates, Events
  <2>7. SnapshotIn(Extend(p.tip, e), Made)
    BY <2>1, <2>5, <2>6 DEF SnapshotIn
  <2>8. pins' \subseteq [gen : Nat, source : Nat, base : Nat]
    BY <2>3 DEF TypeOK, RefsTyped
  <2>9. Legal([p EXCEPT !.pc = "p_head"], Made)
    BY <1>1, <1>9 DEF PrepareTxn, At, Legal, Processes
  <2> QED
    BY <1>1, <2>1, <2>3, <2>4, <2>7, <2>8, <2>9, AppendAndExit
<1>10. ASSUME PrepareTxnFails(a) PROVE TypeOK'
  <2>1. Legal([p EXCEPT !.pc = "p_head"], Made)
    BY <1>1, <1>10 DEF PrepareTxnFails, At, Legal, Processes
  <2> QED
    BY <1>1, <1>10, <2>1, QuietMove DEF PrepareTxnFails, Goes
<1>11. ASSUME PrepareHead(a) PROVE TypeOK'
  <2>1. Legal([p EXCEPT !.pc = "p_pin", !.tip = chain], Made)
    BY <1>1, <1>2, <1>11 DEF PrepareHead, At, Legal, Processes
  <2> QED
    BY <1>1, <1>11, <2>1, QuietRetry DEF PrepareHead
<1> QED
  BY <1>4, <1>5, <1>6, <1>7, <1>8, <1>9, <1>10, <1>11 DEF PrepareStep

----------------------------------------------------------------------------
(* pr merge (PrMerge). *)

\* From the pending result ref on, a process keeps the base and the result it captured.
LEMMA FinalizingLegal ==
    ASSUME NEW p, NEW made, Legal(p, made), p.pc \in Finalizing \cup {"m_pin"},
           NEW q \in Processes, q.pc \in Finalizing, q.base = p.base, q.res = p.res,
           q.tip # <<>>, SnapshotIn(q.tip, made)
    PROVE  Legal(q, made)
<1>1. q.pc \notin HasNoTip /\ q.pc \notin HasSource
  BY DEF Finalizing, HasNoTip, HasSource
<1> QED
  BY <1>1 DEF Legal, HasBase, HasResult

\* A step of run_finalize that only moves on.
LEMMA FinalizingGoes ==
    ASSUME TypeOK, NEW a \in Actors, todo[a] # <<>>, NEW pc \in Finalizing, Goes(a, pc),
           proc[a].pc \in Finalizing \cup {"m_pin"}, UNCHANGED <<refs, objects>>
    PROVE  TypeOK'
<1> DEFINE q == [proc[a] EXCEPT !.pc = pc]
<1>1. proc[a] \in Processes /\ Legal(proc[a], Made)
  BY DEF TypeOK, ProcessesTyped
<1>2. q \in Processes /\ q.pc = pc
  BY <1>1 DEF Processes, PcSet
<1>3. proc[a].tip # <<>> /\ SnapshotIn(proc[a].tip, Made)
  BY <1>1 DEF Legal, HasNoTip, Finalizing
<1>4. q.base = proc[a].base /\ q.res = proc[a].res /\ q.tip = proc[a].tip
  BY <1>1 DEF Processes
<1>5. Becomes(a, q)
  BY DEF Goes
<1> HIDE DEF q
<1>6. Legal(q, Made)
  BY <1>1, <1>2, <1>3, <1>4, FinalizingLegal
<1> QED
  BY <1>5, <1>6, QuietMove

\* Another attempt at the transaction, on the tip of p.
LEMMA RetriesTyped ==
    ASSUME TypeOK, NEW a \in Actors, todo[a] # <<>>, proc[a].pc \in Finalizing,
           NEW p \in Processes, p.base = proc[a].base, p.res = proc[a].res,
           p.tip # <<>>, SnapshotIn(p.tip, Made), Retries(a, p), UNCHANGED <<refs, objects>>
    PROVE  TypeOK'
<1> DEFINE none == <<>>
           q == [p EXCEPT !.pc = "m_stage", !.stage = none, !.tries = @ + 1]
<1>1. CASE Goes(a, "m_clean")
  BY <1>1, FinalizingGoes DEF Finalizing
<1>2. CASE Becomes(a, q)
  <2>1. none \in IssueChains
    BY EmptySeq DEF IssueChains
  <2> HIDE DEF none
  <2>2. "m_stage" \in Finalizing /\ "m_stage" \in PcSet
    BY DEF PcSet, Finalizing
  <2>3. q \in Processes
    <3>1. p.tries + 1 \in Nat
      BY DEF Processes
    <3>2. q = [p EXCEPT !.pc = "m_stage", !.stage = none, !.tries = p.tries + 1]
      BY DEF Processes
    <3> HIDE DEF q
    <3> QED
      BY <2>1, <2>2, <3>1, <3>2 DEF Processes
  <2>4. /\ q.pc \in Finalizing /\ q.base = proc[a].base /\ q.res = proc[a].res
        /\ q.tip = p.tip
    BY <2>2 DEF Processes
  <2> HIDE DEF q
  <2>5. Legal(q, Made)
    BY <2>3, <2>4, FinalizingLegal DEF TypeOK, ProcessesTyped
  <2> QED
    BY <1>2, <2>5, QuietMove
<1> QED
  BY <1>1, <1>2 DEF Retries

\* Up to the start of run_finalize.
LEMMA MergeStartTyped ==
    ASSUME TypeOK, NEW a \in Actors,
           \/ MergeGate(a) \/ MergeRefusedAtBase(a) \/ MergeTakesCandidate(a) \/ MergePin(a)
           \/ MergeExecutes(a) \/ MergeExecutionFails(a)
    PROVE  TypeOK'
<1> USE DEF PcSet, HasNoTip, HasSource, HasBase, HasResult, Finalizing
<1> DEFINE p == proc[a]
<1>1. /\ p \in Processes /\ Legal(p, Made)
      /\ todo[a] # <<>>
  BY DEF TypeOK, ProcessesTyped, MergeGate, MergeRefusedAtBase, MergeTakesCandidate, MergePin,
         MergeExecutes, MergeExecutionFails, Starting, At
<1>2. /\ chain \in Chains /\ chain # <<>> /\ SnapshotIn(chain, Made) /\ State(chain) \in States
      /\ base \in Made /\ Made \subseteq Nat
  BY StateTyped, LenProperties DEF TypeOK, RefsTyped, ObjectsTyped, Made
<1>3. ASSUME MergeGate(a) PROVE TypeOK'
  <2>1. State(chain).gen \in Nat /\ State(chain).source \in Made
    BY <1>2 DEF States, SnapshotIn
  <2>2. Legal([p EXCEPT !.pc = "m_base", !.tip = chain, !.gen = State(chain).gen,
                        !.src = State(chain).source], Made)
    BY ZenonT(60), <1>1, <1>2, <2>1 DEF Legal, Processes
  <2> QED
    BY <1>1, <1>3, <2>2, QuietMove, QuietExit DEF MergeGate
<1>4. CASE MergeRefusedAtBase(a)
  BY <1>1, <1>4, QuietExit DEF MergeRefusedAtBase
<1>5. ASSUME MergeTakesCandidate(a) PROVE TypeOK'
  <2> DEFINE c == State(p.tip).prepared
  <2>1. p.tip \in Chains /\ p.tip # <<>> /\ SnapshotIn(p.tip, Made) /\ State(p.tip) \in States
    BY <1>1, <1>5, StateTyped DEF MergeTakesCandidate, At, Legal, Processes
  <2>2. c.base = base /\ c.result \in Made
    BY <1>5, <2>1 DEF MergeTakesCandidate, Routed, CandidateGate, CandidateCurrent, SnapshotIn
  <2>3. c.source \in Nat /\ c.base \in Nat /\ c.result \in Nat /\ BindOf(c) \in Binds
    BY <2>1 DEF States, Candidates, BindOf, Binds
  <2>4. Becomes(a, [p EXCEPT !.pc = "m_pin", !.base = c.base, !.src = c.source,
                             !.res = c.result, !.bind = BindOf(c)])
    BY <1>5 DEF MergeTakesCandidate
  <2> HIDE DEF c
  <2>5. Legal([p EXCEPT !.pc = "m_pin", !.base = c.base, !.src = c.source,
                        !.res = c.result, !.bind = BindOf(c)], Made)
    BY <1>1, <1>2, <2>1, <2>2, <2>3 DEF Legal, Processes
  <2> QED
    BY <1>1, <1>5, <2>4, <2>5, QuietMove DEF MergeTakesCandidate
<1>6. CASE MergePin(a)
  BY <1>1, <1>6, QuietExit, FinalizingGoes DEF MergePin, At
<1>7. ASSUME MergeExecutes(a) PROVE TypeOK'
  <2>1. PICK r : /\ Executes(Command(a).arg, p.src, base, r)
                 /\ Becomes(a, [p EXCEPT !.pc = "m_pending", !.base = base, !.res = r])
    BY <1>7 DEF MergeExecutes
  <2>2. ObjectsTyped' /\ Made \subseteq Made' /\ r \in Made' /\ r \in Nat
    <3>1. p.src \in Made
      BY <1>1, <1>7 DEF MergeExecutes, At, Legal
    <3>2. ObjectsTyped' /\ Made \subseteq Made' /\ r \in Made'
      BY <1>2, <2>1, <3>1, ExecutesTyped DEF TypeOK
    <3> QED
      BY <3>2, LenProperties DEF ObjectsTyped, Made
  <2>3. p.pc = "m_base"
    BY <1>7 DEF MergeExecutes, At
  <2>4. Legal([p EXCEPT !.pc = "m_pending", !.base = base, !.res = r], Made')
    BY ZenonT(60), <1>1, <1>2, <2>2, <2>3, LegalGrows DEF Legal, Processes
  <2>5. ProcessesTyped'
    BY <1>1, <2>1, <2>2, <2>4, BecomesTyped DEF TypeOK
  <2>6. RefsTyped'
    BY <1>2, <1>7, <2>2 DEF MergeExecutes, TypeOK, RefsTyped, refs, SnapshotIn
  <2> QED
    BY <2>2, <2>5, <2>6 DEF TypeOK
<1>8. CASE MergeExecutionFails(a)
  BY <1>1, <1>8, QuietExit DEF MergeExecutionFails
<1> QED
  BY <1>3, <1>4, <1>5, <1>6, <1>7, <1>8

\* run_finalize and the worktree refresh, but for the steps that write the chain.
LEMMA MergeFinalizeTyped ==
    ASSUME TypeOK, NEW a \in Actors,
           \/ MergeCreatesPending(a) \/ MergePendingFails(a)
           \/ MergeWorktreeGone(a) \/ MergeWorktreeStays(a)
           \/ MergeStages(a) \/ MergeFoldsIssue(a) \/ MergeStageFails(a) \/ MergeTxnFails(a)
           \/ MergeReadsHead(a) \/ MergeReadsIssue(a) \/ MergeCleans(a) \/ MergeLeavesPending(a)
           \/ MergeRefreshes(a) \/ MergeRefreshFails(a) \/ RollbackReadsHead(a)
           \/ RollbackFails(a)
    PROVE  TypeOK'
<1> DEFINE p == proc[a]
<1>1. /\ p \in Processes /\ Legal(p, Made) /\ todo[a] # <<>> /\ p.pc \in Finalizing
  BY DEF TypeOK, ProcessesTyped, MergeCreatesPending, MergePendingFails, MergeWorktreeGone,
         MergeWorktreeStays, MergeStages, MergeFoldsIssue, MergeStageFails, MergeTxnFails,
         MergeReadsHead, MergeReadsIssue, MergeCleans, MergeLeavesPending, MergeRefreshes,
         MergeRefreshFails, RollbackReadsHead, RollbackFails, Finalizing, At
<1>2. /\ chain \in Chains /\ chain # <<>> /\ SnapshotIn(chain, Made)
      /\ issue \in IssueChains
  BY DEF TypeOK, RefsTyped
<1>3. p.tip # <<>> /\ SnapshotIn(p.tip, Made) /\ p.res \in Made
  BY <1>1 DEF Legal, HasNoTip, HasResult, Finalizing
<1>4. ASSUME NEW q \in Processes, q.pc \in Finalizing, q.base = p.base, q.res = p.res,
             q.tip = p.tip, Becomes(a, q), UNCHANGED <<refs, objects>>
      PROVE  TypeOK'
  <2>1. Legal(q, Made)
    BY <1>1, <1>3, <1>4, FinalizingLegal
  <2> QED
    BY <1>1, <1>4, <2>1, QuietMove
<1>5. ASSUME result' \in Made \cup {NoCommit}, ProcessesTyped',
             UNCHANGED <<chain, base, source, issue, pins, objects>>
      PROVE  TypeOK'
  BY <1>5 DEF TypeOK, RefsTyped, ObjectsTyped, Made, Anc
<1>6. ASSUME MergeCreatesPending(a) PROVE TypeOK'
  <2> DEFINE q == [p EXCEPT !.pc = "m_worktree"]
  <2>1. /\ q \in Processes /\ q.pc \in Finalizing /\ q.base = p.base /\ q.res = p.res
        /\ q.tip = p.tip
    BY <1>1 DEF Processes, PcSet, Finalizing
  <2>2. (Becomes(a, q) \/ Exits(a, "refused")) /\ Made' = Made
    BY <1>6 DEF MergeCreatesPending, Goes, Made
  <2> HIDE DEF q
  <2>3. Legal(q, Made)
    BY <1>1, <1>3, <2>1, FinalizingLegal
  <2>4. ProcessesTyped'
    BY <1>1, <2>2, <2>3, BecomesTyped, ExitsTyped DEF TypeOK
  <2> QED
    BY <1>3, <1>5, <1>6, <2>4 DEF MergeCreatesPending
<1>7. CASE MergePendingFails(a)
  BY <1>1, <1>7, QuietExit DEF MergePendingFails
<1>8. CASE MergeWorktreeGone(a)
  BY <1>1, <1>8, FinalizingGoes DEF MergeWorktreeGone, Finalizing
<1>9. CASE MergeWorktreeStays(a)
  BY <1>1, <1>9, FinalizingGoes DEF MergeWorktreeStays, Finalizing
<1>10. ASSUME MergeStages(a) PROVE TypeOK'
  <2> DEFINE pc == IF LinkedIssue THEN "m_fold" ELSE "m_txn"
             q == [p EXCEPT !.pc = pc, !.stage = issue]
  <2>1. pc \in Finalizing /\ pc \in PcSet
    BY DEF PcSet, Finalizing
  <2>2. Becomes(a, q)
    BY <1>10 DEF MergeStages
  <2> HIDE DEF pc
  <2>3. q \in Processes /\ q.pc = pc /\ q.base = p.base /\ q.res = p.res /\ q.tip = p.tip
    BY <1>1, <1>2, <2>1 DEF Processes
  <2> HIDE DEF q
  <2> QED
    BY <1>4, <1>10, <2>1, <2>2, <2>3 DEF MergeStages
<1>11. ASSUME MergeFoldsIssue(a) PROVE TypeOK'
  <2> DEFINE stage == IF IssueOpen(issue) THEN p.stage ELSE <<>>
             q == [p EXCEPT !.pc = "m_txn", !.stage = stage]
  <2>1. stage \in IssueChains
    BY <1>1, EmptySeq DEF Processes, IssueChains
  <2>2. Becomes(a, q)
    BY <1>11 DEF MergeFoldsIssue
  <2> HIDE DEF stage
  <2>3. /\ q \in Processes /\ q.pc \in Finalizing /\ q.base = p.base /\ q.res = p.res
        /\ q.tip = p.tip
    BY <1>1, <2>1 DEF Processes, PcSet, Finalizing
  <2> HIDE DEF q
  <2> QED
    BY <1>4, <1>11, <2>2, <2>3 DEF MergeFoldsIssue
<1>12. CASE MergeStageFails(a)
  BY <1>1, <1>12, QuietExit DEF MergeStageFails
<1>13. CASE MergeTxnFails(a)
  BY <1>1, <1>13, FinalizingGoes DEF MergeTxnFails, Finalizing
<1>14. ASSUME MergeReadsHead(a) PROVE TypeOK'
  <2> DEFINE q == [p EXCEPT !.tip = chain]
  <2>1. q \in Processes /\ q.base = p.base /\ q.res = p.res /\ q.tip = chain
    BY <1>1, <1>2 DEF Processes
  <2>2. \/ Goes(a, "m_issue") \/ Goes(a, "m_clean") \/ Retries(a, q)
    BY <1>14 DEF MergeReadsHead
  <2> HIDE DEF q
  <2> QED
    BY <1>1, <1>2, <1>14, <2>1, <2>2, FinalizingGoes, RetriesTyped
       DEF MergeReadsHead, Finalizing
<1>15. CASE MergeReadsIssue(a)
  BY <1>1, <1>3, <1>15, FinalizingGoes, RetriesTyped DEF MergeReadsIssue, Finalizing
<1>16. ASSUME MergeCleans(a) PROVE TypeOK'
  <2>1. ProcessesTyped'
    BY <1>1, <1>16, ExitsTyped DEF MergeCleans, TypeOK, Made
  <2> QED
    BY <1>5, <1>16, <2>1 DEF MergeCleans, TypeOK, RefsTyped
<1>17. CASE MergeLeavesPending(a)
  BY <1>1, <1>17, QuietExit DEF MergeLeavesPending
<1>18. CASE MergeRefreshes(a)
  BY <1>1, <1>18, QuietExit DEF MergeRefreshes
<1>19. CASE MergeRefreshFails(a)
  BY <1>1, <1>19, FinalizingGoes DEF MergeRefreshFails, Finalizing
<1>20. ASSUME RollbackReadsHead(a) PROVE TypeOK'
  <2> DEFINE q == [p EXCEPT !.pc = "m_rollback", !.seen = chain]
  <2>1. /\ q \in Processes /\ q.pc \in Finalizing /\ q.base = p.base /\ q.res = p.res
        /\ q.tip = p.tip
    BY <1>1, <1>2 DEF Processes, PcSet, Finalizing
  <2>2. Becomes(a, q)
    BY <1>20 DEF RollbackReadsHead
  <2> HIDE DEF q
  <2> QED
    BY <1>4, <1>20, <2>1, <2>2 DEF RollbackReadsHead
<1>21. CASE RollbackFails(a)
  BY <1>1, <1>21, QuietExit DEF RollbackFails
<1> QED
  BY <1>6, <1>7, <1>8, <1>9, <1>10, <1>11, <1>12, <1>13, <1>14, <1>15, <1>16, <1>17, <1>18,
     <1>19, <1>20, <1>21

\* The merge transaction and its rollback.
LEMMA MergeWritesTyped ==
    ASSUME TypeOK, NEW a \in Actors, MergeTxn(a) \/ Rollback(a)
    PROVE  TypeOK'
<1> DEFINE p == proc[a]
<1>1. /\ p \in Processes /\ Legal(p, Made) /\ todo[a] # <<>> /\ p.pc \in Finalizing
  BY DEF TypeOK, ProcessesTyped, MergeTxn, Rollback, Finalizing, At
<1>2. /\ p.tip \in Chains /\ p.tip # <<>> /\ SnapshotIn(p.tip, Made)
      /\ p.res \in Made /\ p.base \in Made /\ p.res \in Nat /\ p.stage \in IssueChains
  BY <1>1 DEF Legal, HasNoTip, HasBase, HasResult, Finalizing, Processes
<1>3. Made' = Made
  BY DEF MergeTxn, Rollback, Made
<1>4. Command(a).arg \in Words /\ CommandId(a) \in Ids
  BY <1>1, CommandTyped DEF TypeOK
<1>5. ObjectsTyped' /\ UNCHANGED <<source, pins>>
  BY <1>3 DEF MergeTxn, Rollback, TypeOK, ObjectsTyped, Anc
<1>6. ASSUME MergeTxn(a) PROVE TypeOK'
  <2> DEFINE bind == [strategy |-> Command(a).arg, result |-> p.res]
             e == [Authored(a, "pr.merge") EXCEPT !.bind = bind]
  <2>1. bind \in Binds /\ RoleOf[a] \in Roles
    BY <1>2, <1>4 DEF Binds, Roles
  <2>2. MergeEvent(a) = e
    BY DEF MergeEvent
  <2> HIDE DEF bind
  <2>3. e \in Events /\ e.kind = "pr.merge"
    BY <1>4, <2>1 DEF Authored, PrEvent, Events, Kinds, Words, NoCommit
  <2> HIDE DEF e
  <2>4. /\ Extend(p.tip, e) \in Chains /\ Extend(p.tip, e) # <<>>
        /\ SnapshotIn(Extend(p.tip, e), Made)
    BY <1>2, <2>3, ExtendTyped, SnapshotKept
  <2>5. issue' \in IssueChains /\ (LinkedIssue => issue' # <<>>)
    BY <1>2, <1>4, <1>6, IssueExtendTyped
       DEF MergeTxn, IssueAfter, Closed, TypeOK, RefsTyped, IssueKinds
  <2>6. RefsTyped'
    BY <1>2, <1>3, <1>5, <1>6, <2>2, <2>4, <2>5 DEF MergeTxn, TypeOK, RefsTyped
  <2>7. CASE Goes(a, "m_refresh")
    <3> DEFINE q == [p EXCEPT !.pc = "m_refresh"]
    <3>1. /\ q \in Processes /\ q.pc \in Finalizing /\ q.base = p.base /\ q.res = p.res
          /\ q.tip = p.tip
      BY <1>1 DEF Processes, PcSet, Finalizing
    <3>2. Becomes(a, q)
      BY <2>7 DEF Goes
    <3> HIDE DEF q
    <3>3. Legal(q, Made)
      BY <1>1, <1>2, <3>1, FinalizingLegal
    <3> QED
      BY <1>1, <1>3, <1>5, <2>6, <3>2, <3>3, BecomesTyped DEF TypeOK
  <2>8. CASE Exits(a, "ok")
    BY <1>1, <1>3, <1>5, <2>6, <2>8, ExitsTyped DEF TypeOK
  <2>9. CASE Unclear(a, "m_head")
    <3> DEFINE q == [p EXCEPT !.pc = "m_head"]
    <3>1. /\ q \in Processes /\ q.pc \in Finalizing /\ q.base = p.base /\ q.res = p.res
          /\ q.tip = p.tip
      BY <1>1 DEF Processes, PcSet, Finalizing
    <3>2. Legal(q, Made)
      BY <1>1, <1>2, <3>1, FinalizingLegal
    <3> QED
      BY <1>1, <1>3, <1>5, <2>6, <2>9, <3>2, UnclearTyped DEF TypeOK
  <2> QED
    BY <1>6, <2>7, <2>8, <2>9 DEF MergeTxn
<1>7. ASSUME Rollback(a) PROVE TypeOK'
  <2>1. issue' \in IssueChains /\ (LinkedIssue => issue' # <<>>)
    BY <1>2, <1>7 DEF Rollback, RolledBackIssue, TypeOK, RefsTyped
  <2>2. RefsTyped'
    BY <1>2, <1>3, <1>5, <1>7, <2>1 DEF Rollback, RolledBackBase, TypeOK, RefsTyped
  <2> QED
    BY <1>1, <1>3, <1>5, <1>7, <2>2, ExitsTyped DEF Rollback, TypeOK
<1> QED
  BY <1>6, <1>7

\* pr merge keeps everything typed.
LEMMA MergeTyped ==
    ASSUME TypeOK, NEW a \in Actors, MergeStep(a)
    PROVE  TypeOK'
BY MergeStartTyped, MergeFinalizeTyped, MergeWritesTyped DEF MergeStep

----------------------------------------------------------------------------
(* The initial states. *)

\* The commits that exist before the scripts start.
LEMMA Commits0Typed ==
    /\ Commits0 \in Seq([anc : SUBSET Nat, from : Nat])
    /\ Len(Commits0) = IF Diverged THEN 3 ELSE 2
    /\ \A c \in 1..Len(Commits0) : Commits0[c].anc \subseteq 1..Len(Commits0)
<1> DEFINE Obj == [anc : SUBSET Nat, from : Nat]
           two == <<[anc |-> {1}, from |-> 1], [anc |-> {1, 2}, from |-> 2]>>
           third == [anc |-> {1, 3}, from |-> 3]
<1>1. two \in Seq(Obj) /\ Len(two) = 2 /\ two[1].anc = {1} /\ two[2].anc = {1, 2}
  OBVIOUS
<1>2. third \in Obj /\ third.anc = {1, 3}
  OBVIOUS
<1>3. Commits0 = IF Diverged THEN Append(two, third) ELSE two
  BY DEF Commits0
<1> HIDE DEF two, third
<1>4. CASE Diverged
  <2>1. /\ Append(two, third) \in Seq(Obj) /\ Len(Append(two, third)) = 3
        /\ Append(two, third)[1] = two[1] /\ Append(two, third)[2] = two[2]
        /\ Append(two, third)[3] = third
    <3>1. two \in Seq(Obj) /\ Len(two) = 2 /\ third \in Obj
      BY <1>1, <1>2
    <3> HIDE DEF Obj
    <3>2. Append(two, third) \in Seq(Obj)
      BY <3>1, AppendProperties
    <3>3. Len(Append(two, third)) = 3 /\ Append(two, third)[3] = third
      <4>1. Len(Append(two, third)) = Len(two) + 1
        BY ZenonT(60), <3>1, AppendProperties
      <4>2. Append(two, third)[Len(two) + 1] = third
        BY <3>1, AppendProperties
      <4>3. Len(two) + 1 = 3
        BY <3>1
      <4> QED
        BY <4>1, <4>2, <4>3
    <3>4. Append(two, third)[1] = two[1] /\ Append(two, third)[2] = two[2]
      BY SMTT(30), <3>1, AppendProperties
    <3> QED
      BY <3>2, <3>3, <3>4
  <2> QED
    BY <1>1, <1>2, <1>3, <1>4, <2>1
<1>5. CASE ~Diverged
  <2>1. \A c \in 1..2 : two[c].anc \subseteq 1..2
    BY <1>1
  <2> QED
    BY <1>1, <1>3, <1>5, <2>1
<1> QED
  BY <1>4, <1>5

\* A chain that starts from the snapshot of the source and base branches.
StartsAt(c, candidate) ==
    /\ c \in Chains /\ c # <<>>
    /\ State(c).gen = 0 /\ State(c).source = Source0
    /\ State(c).prepared.result = candidate

\* An event from before the scripts is typed.
LEMMA PastTyped ==
    ASSUME NEW kind \in Kinds, NEW n \in Nat, NEW word \in Words, NEW bind \in Binds
    PROVE  Past(kind, n, word, bind) \in Events /\ Past(kind, n, word, bind).kind = kind
<1>1. NoCommit \in Nat /\ NoRole \in Roles /\ <<Founder, n>> \in Ids
  BY DEF NoCommit, Roles, Ids
<1>2. NoBind \in Binds /\ "none" \in Words
  BY <1>1 DEF NoBind, Binds, Words
<1> QED
  BY <1>1, <1>2 DEF Past, PrEvent, Events

\* The chain of a PR just created.
LEMMA CreatedTyped == StartsAt(Created, NoCommit)
<1> DEFINE e == [PrEvent("pr.created", <<Founder, 0>>, RoleOf[Founder]) EXCEPT
                    !.source = Source0, !.base = Base0]
           f == Past("ci.check", 1, "pending", NoBind)
<1>1. /\ NoBind \in Binds /\ NoCommit \in Nat /\ Source0 \in Nat /\ Base0 \in Nat
      /\ RoleOf[Founder] \in Roles /\ NoRole \in Roles
      /\ <<Founder, 0>> \in Ids /\ <<Founder, 1>> \in Ids
  BY DEF Binds, NoBind, NoCommit, Words, Source0, Base0, Roles, Ids
<1>2. e \in Events /\ e.kind = "pr.created" /\ e.source = Source0
  BY <1>1 DEF PrEvent, Events, Kinds, Words
<1>3. f \in Events /\ f.kind = "ci.check"
  BY <1>1 DEF Past, PrEvent, Events, Kinds, Words
<1>4. EmptyPr \in States /\ EmptyPr.prepared.result = NoCommit /\ EmptyPr.gen = 0
  BY <1>1 DEF EmptyPr, States, Candidates, NoCandidate, Words
<1>5. Created = Extend(Genesis(e), f)
  BY DEF Created
<1> HIDE DEF e, f
<1> DEFINE g == Apply(EmptyPr, e)
<1>6. g \in States
  BY <1>2, <1>4, ApplyTyped
<1>7. g.source = Source0 /\ g.prepared.result = NoCommit /\ g.gen = 0
  BY <1>2, <1>4 DEF Apply, States
<1> HIDE DEF g
<1>10. Genesis(e) \in Chains /\ Genesis(e) # <<>> /\ State(Genesis(e)) = g
  BY <1>2, GenesisTyped DEF g
<1>11. /\ Extend(Genesis(e), f) \in Chains /\ Extend(Genesis(e), f) # <<>>
       /\ State(Extend(Genesis(e), f)) = Apply(g, f)
  BY <1>3, <1>10, ExtendTyped
<1>12. /\ Apply(g, f).source = g.source /\ Apply(g, f).prepared = g.prepared
       /\ Apply(g, f).gen = g.gen
  BY <1>3, <1>6 DEF Apply, States
<1> QED
  BY <1>5, <1>7, <1>11, <1>12 DEF StartsAt

\* The chain of a PR with a candidate, which is the commit made last.
LEMMA PreparedTyped == Candidate0 \in Binds /\ StartsAt(Prepared, Candidate0.result)
<1> DEFINE e == [Past("pr.prepared", 4, "none", Candidate0) EXCEPT
                    !.source = Source0, !.base = Base0]
<1>1. Candidate0 \in Binds
  BY Commits0Typed DEF Candidate0, Binds, Words, Strategies
<1>2. /\ NoCommit \in Nat /\ Source0 \in Nat /\ Base0 \in Nat
      /\ NoRole \in Roles /\ <<Founder, 4>> \in Ids
  BY DEF NoCommit, Source0, Base0, Roles, Ids
<1>3. e \in Events /\ e.kind = "pr.prepared" /\ e.bind.result = Candidate0.result
  BY <1>1, <1>2 DEF Past, PrEvent, Events, Kinds, Words
<1>4. Prepared = Extend(Created, e)
  BY DEF Prepared
<1> HIDE DEF e
<1>5. /\ Created \in Chains /\ Created # <<>> /\ State(Created) \in States
      /\ State(Created).source = Source0 /\ State(Created).gen = 0
  BY CreatedTyped, StateTyped DEF StartsAt
<1>6. /\ Extend(Created, e) \in Chains /\ Extend(Created, e) # <<>>
      /\ State(Extend(Created, e)) = Apply(State(Created), e)
  BY <1>3, <1>5, ExtendTyped
<1>7. /\ Apply(State(Created), e).source = State(Created).source
      /\ Apply(State(Created), e).prepared.result = e.bind.result
      /\ Apply(State(Created), e).gen = State(Created).gen
  BY <1>3, <1>5 DEF Apply, States, Events
<1> QED
  BY <1>1, <1>3, <1>4, <1>5, <1>6, <1>7 DEF StartsAt

\* A review and a check leave the snapshot and the candidate as they are.
LEMMA VettedTyped ==
    ASSUME NEW c, NEW candidate, StartsAt(c, candidate), NEW bind \in Binds
    PROVE  StartsAt(Vetted(c, bind), candidate)
<1> DEFINE e == Past("pr.review", 2, "approve", bind)
           f == Past("ci.check", 3, "success", bind)
<1>1. /\ NoCommit \in Nat /\ NoRole \in Roles
      /\ <<Founder, 2>> \in Ids /\ <<Founder, 3>> \in Ids
  BY DEF NoCommit, Roles, Ids
<1>2. e \in Events /\ e.kind = "pr.review" /\ f \in Events /\ f.kind = "ci.check"
  BY <1>1 DEF Past, PrEvent, Events, Kinds, Words, Decisions
<1>3. Vetted(c, bind) = Extend(Extend(c, e), f)
  BY DEF Vetted
<1> HIDE DEF e, f
<1>4. ASSUME NEW d, StartsAt(d, candidate), NEW x \in Events,
             x.kind \in {"pr.review", "ci.check"}
      PROVE  StartsAt(Extend(d, x), candidate)
  <2>1. /\ State(d) \in States /\ Extend(d, x) \in Chains /\ Extend(d, x) # <<>>
        /\ State(Extend(d, x)) = Apply(State(d), x)
    BY <1>4, StateTyped, ExtendTyped DEF StartsAt
  <2>2. /\ Apply(State(d), x).source = State(d).source
        /\ Apply(State(d), x).prepared = State(d).prepared
        /\ Apply(State(d), x).gen = State(d).gen
    BY <1>4, <2>1 DEF Apply, States
  <2> QED
    BY <1>4, <2>1, <2>2 DEF StartsAt
<1> QED
  BY <1>2, <1>3, <1>4

\* The initial states are typed.
LEMMA InitTyped == Init => TypeOK
<1> SUFFICES ASSUME Init PROVE TypeOK
  OBVIOUS
<1>1. ObjectsTyped /\ Made = 1..Len(objects) /\ Len(objects) \in Nat
      /\ Len(Commits0) <= Len(objects)
      /\ (result # NoCommit => result = Len(Commits0) + 1 /\ Len(objects) = Len(Commits0) + 1)
  <2> DEFINE Obj == [anc : SUBSET Nat, from : Nat]
             n == Len(Commits0)
             o == [anc |-> 1..n + 1, from |-> Source0]
  <2>1. Commits0 \in Seq(Obj) /\ n \in Nat /\ \A c \in 1..n : Commits0[c].anc \subseteq 1..n
    BY Commits0Typed
  <2>2. CASE objects = Commits0 /\ result = NoCommit
    <3>1. Made = 1..n
      BY <2>1, <2>2, LenProperties DEF Made
    <3> QED
      BY <2>1, <2>2, <3>1 DEF ObjectsTyped, Anc
  <2>3. CASE objects = Append(Commits0, o) /\ result = Candidate0.result
    <3>1. o \in Obj
      BY <2>1 DEF Source0
    <3>2. /\ objects \in Seq(Obj) /\ Len(objects) = n + 1 /\ objects[n + 1] = o
          /\ \A c \in 1..n : objects[c] = Commits0[c]
      BY <2>1, <2>3, <3>1, AppendProperties
    <3>3. Made = 1..n + 1
      BY <2>1, <3>2, LenProperties DEF Made
    <3>4. ASSUME NEW c \in Made PROVE Anc(c) \subseteq Made
      <4>1. CASE c \in 1..n
        <5>1. Anc(c) = Commits0[c].anc
          BY <3>2, <4>1 DEF Anc
        <5>2. Commits0[c].anc \subseteq 1..n /\ 1..n \subseteq 1..n + 1
          BY <2>1, <4>1
        <5> QED
          BY <3>3, <5>1, <5>2
      <4>2. CASE c = n + 1
        <5>1. o.anc = 1..n + 1
          OBVIOUS
        <5> HIDE DEF o
        <5>2. Anc(c) = o.anc
          BY <3>2, <4>2 DEF Anc
        <5> QED
          BY <3>3, <5>1, <5>2
      <4> QED
        BY <2>1, <3>3, <4>1, <4>2
    <3> QED
      BY <2>1, <2>3, <3>2, <3>3, <3>4 DEF ObjectsTyped, Candidate0
  <2> QED
    BY <2>2, <2>3 DEF Init, Reached
<1>2. Base0 \in Made /\ Source0 \in Made /\ Base0 \in Nat /\ Source0 \in Nat
  BY <1>1, Commits0Typed DEF Base0, Source0
<1>3. StartsAt(chain, result)
  BY CreatedTyped, PreparedTyped, VettedTyped
     DEF Init, Reached, Binds, NoBind, NoCommit, Words
<1>4. result \in Made \cup {NoCommit}
  BY <1>1, Commits0Typed
<1>5. issue \in IssueChains /\ (LinkedIssue => issue # <<>>)
  <2> DEFINE Node == [kind : IssueKinds, id : Ids, open : BOOLEAN]
             node == [kind |-> "issue.created", id |-> <<Founder, 0>>, open |-> TRUE]
  <2>1. node \in Node
    BY DEF IssueKinds, Ids
  <2>2. issue = IF LinkedIssue THEN <<node>> ELSE <<>>
    BY DEF Init
  <2>3. IssueChains = Seq(Node)
    BY DEF IssueChains
  <2> HIDE DEF node, Node
  <2> QED
    BY <2>1, <2>2, <2>3, EmptySeq
<1>6. pins \subseteq [gen : Nat, source : Nat, base : Nat]
  BY <1>2 DEF Init, Pin
<1>7. RefsTyped
  BY <1>2, <1>3, <1>4, <1>5, <1>6 DEF Init, RefsTyped, StartsAt, SnapshotIn
<1>8. proc = [a \in Actors |-> Idle] /\ todo \in [Actors -> Seq(Commands)] /\ reported = {}
  BY LifecycleAssumption DEF Init
<1>9. ProcessesTyped
  <2>1. Idle \in Processes /\ Idle.pc = "idle"
    BY IdleLegal DEF Legal, Idle
  <2> QED
    BY <1>8, <2>1, IdleLegal DEF ProcessesTyped
<1> QED
  BY <1>1, <1>7, <1>9 DEF TypeOK

----------------------------------------------------------------------------
(* Outside the scripts, and killed processes. *)

\* A push makes one commit on top of a branch.
LEMMA PushTyped ==
    ASSUME TypeOK, NEW c \in Made, NewCommit(Anc(c), NextCommit),
           UNCHANGED <<chain, result, issue, pins, proc, todo, reported>>,
           base' \in {base, NextCommit}, source' \in {source, NextCommit}
    PROVE  TypeOK'
<1>1. ObjectsTyped /\ Anc(c) \in SUBSET Made /\ NextCommit \in Nat
  BY LenProperties DEF TypeOK, ObjectsTyped, NextCommit
<1>2. ObjectsTyped' /\ Made' = Made \cup {NextCommit}
  BY <1>1, NewCommitTyped
<1>3. RefsTyped'
  BY <1>2 DEF TypeOK, RefsTyped, SnapshotIn
<1>4. ProcessesTyped'
  BY <1>2, LegalGrows DEF TypeOK, ProcessesTyped
<1> QED
  BY <1>2, <1>3, <1>4 DEF TypeOK

\* Pushes, rewinds and writes to the issue keep everything typed.
LEMMA OutsideTyped ==
    ASSUME TypeOK, PushBase \/ RewindBase \/ PushSource \/ WriteIssue
    PROVE  TypeOK'
<1>1. base \in Made /\ source \in Made
  BY DEF TypeOK, RefsTyped
<1>2. CASE PushBase
  BY <1>1, <1>2, PushTyped DEF PushBase, Outside
<1>3. CASE PushSource
  BY <1>1, <1>3, PushTyped DEF PushSource, Outside
<1>4. CASE RewindBase
  <2>1. base' \in Made
    BY <1>1, <1>4 DEF RewindBase, TypeOK, ObjectsTyped
  <2> QED
    BY <1>4, <2>1 DEF RewindBase, Outside, TypeOK, RefsTyped, ObjectsTyped, ProcessesTyped,
       Made, Anc
<1>5. CASE WriteIssue
  <2>1. issue \in IssueChains /\ issue # <<>> /\ Len(issue) \in Nat
    BY <1>5, LenProperties DEF WriteIssue, TypeOK, RefsTyped, IssueChains
  <2>2. <<Founder, Len(issue)>> \in Ids
    BY <2>1 DEF Ids
  <2>3. issue' \in IssueChains /\ issue' # <<>>
    BY <1>5, <2>1, <2>2, IssueExtendTyped DEF WriteIssue, IssueKinds
  <2> QED
    BY <1>5, <2>3 DEF WriteIssue, Outside, TypeOK, RefsTyped, ObjectsTyped, ProcessesTyped,
       Made, Anc
<1> QED
  BY <1>2, <1>3, <1>4, <1>5

\* Killing a process keeps everything typed.
LEMMA CrashTyped ==
    ASSUME TypeOK, NEW a \in Actors, Crash(a)
    PROVE  TypeOK'
<1>1. Made' = Made
  BY DEF Crash, Made
<1>2. todo[a] # <<>>
  BY DEF Crash, At, TypeOK, ProcessesTyped
<1>3. ProcessesTyped'
  BY <1>1, <1>2, EndsTyped DEF Crash, TypeOK, ProcessesTyped
<1> QED
  BY <1>1, <1>3 DEF Crash, refs, TypeOK, RefsTyped, ObjectsTyped, Anc

----------------------------------------------------------------------------
\* Every step of the system keeps everything typed.
LEMMA StepTyped == TypeOK /\ [Next]_vars => TypeOK'
<1> SUFFICES ASSUME TypeOK, [Next]_vars PROVE TypeOK'
  OBVIOUS
<1>1. ASSUME NEW a \in Actors, ProcessStep(a) PROVE TypeOK'
  BY <1>1, AppendTyped, UpdateTyped, PrepareTyped, MergeTyped DEF ProcessStep
<1>2. ASSUME NEW a \in Actors, Crash(a) PROVE TypeOK'
  BY <1>2, CrashTyped
<1>3. CASE PushBase \/ RewindBase \/ PushSource \/ WriteIssue
  BY <1>3, OutsideTyped
<1>4. CASE UNCHANGED vars
  BY <1>4 DEF vars, refs, TypeOK, RefsTyped, ObjectsTyped, ProcessesTyped, Made, Anc
<1> QED
  BY <1>1, <1>2, <1>3, <1>4 DEF Next

(***************************************************************************)
(* Type correctness, for every set of actors, every plan and every bound:  *)
(* whatever order the commands' reads and transactions interleave in, and  *)
(* whoever pushes or is killed, the refs hold chains of well-formed events *)
(* and no ref, snapshot, candidate or running command names a commit that  *)
(* git never made.                                                         *)
(***************************************************************************)
THEOREM TypeCorrect == Spec => []TypeOK
<1>1. Init => TypeOK
  BY InitTyped
<1>2. TypeOK /\ [Next]_vars => TypeOK'
  BY StepTyped
<1> QED
  BY <1>1, <1>2, PTL DEF Spec

----------------------------------------------------------------------------
(* The inductive invariant. *)

\* Position i of chain c: its state is what the events up to it say it is.
Folded(c, i) ==
    LET st == c[i].st IN
    /\ c[i].ev.kind = "pr.created" <=> i = 1
    /\ st.creator = c[1].ev.role
    /\ st.decision = "approve" =>
          \E r \in 1..i : /\ LastBefore(c, r, i + 1, "pr.review")
                          /\ c[r].ev.word = "approve" /\ c[r].ev.gen = st.decGen
                          /\ c[r].ev.role = st.decRole
    /\ st.ci = "success" =>
          \E r \in 1..i : /\ LastBefore(c, r, i + 1, "ci.check")
                          /\ c[r].ev.word = "success" /\ c[r].ev.gen = st.ciGen
    /\ \A u \in 1..i : c[u].ev.kind = "pr.update" => c[u].ev.gen <= st.gen
    /\ ~st.abandoned => \A k \in 1..i : c[k].ev.kind # "pr.abandoned"
    /\ st.merged = NoCommit => \A k \in 1..i : c[k].ev.kind # "pr.merge"

\* Every position is folded, and every merge in the chain is authorised.
SoundChain(c) ==
    \A i \in 1..Len(c) :
        /\ Folded(c, i)
        /\ c[i].ev.kind = "pr.merge" => AuthorisedAt(c, i)

\* Every generation number up to gen has its refs in ps.
Covered(gen, ps) == \A k \in 0..gen : \E p \in ps : p.gen = k

\* Where a merge has passed the gate, and where an update has chosen its generation.
Gated == {"m_base", "m_pin"} \cup Finalizing
Updating == {"u_source", "u_base", "u_tip", "u_txn", "u_claimed", "u_moved", "u_head"}

\* What a process may rely on when the generation refs are ps.
SoundProcess(p, ps) ==
    /\ p.tip # <<>> => SoundChain(p.tip) /\ Covered(State(p.tip).gen, ps)
    /\ p.pc \in Gated => Gate(State(p.tip))
    /\ p.pc \in Updating => \A k \in 0..p.gen : k < p.gen => \E q \in ps : q.gen = k

GateInv ==
    /\ SoundChain(chain)
    /\ Covered(State(chain).gen, pins)
    /\ \A a \in Actors : SoundProcess(proc[a], pins)

----------------------------------------------------------------------------
(* What one event does to the state folded up to it (event.rs PrState::apply). *)

\* Every field the gate reads is set by the events of one kind and kept by all others.
LEMMA ApplyFields ==
    ASSUME NEW st \in States, NEW e \in Events, e.kind # "pr.created",
           NEW new, new = Apply(st, e)
    PROVE  /\ new.creator = st.creator
           /\ IF e.kind = "pr.review"
              THEN new.decision = e.word /\ new.decGen = e.gen /\ new.decRole = e.role
              ELSE /\ new.decision = st.decision /\ new.decGen = st.decGen
                   /\ new.decRole = st.decRole
           /\ IF e.kind = "ci.check" THEN new.ci = e.word /\ new.ciGen = e.gen
                                     ELSE new.ci = st.ci /\ new.ciGen = st.ciGen
           /\ new.gen = IF e.kind = "pr.update" THEN e.gen ELSE st.gen
           /\ new.abandoned = IF e.kind = "pr.abandoned" THEN TRUE ELSE st.abandoned
           /\ new.merged = IF e.kind = "pr.merge" THEN e.bind.result ELSE st.merged
<1>1. CASE e.kind = "pr.review"
  BY <1>1 DEF Apply, States
<1>2. CASE e.kind = "ci.check"
  BY <1>2 DEF Apply, States
<1>3. CASE e.kind = "pr.update"
  BY <1>3 DEF Apply, States
<1>4. CASE e.kind = "pr.prepared"
  BY <1>4 DEF Apply, States
<1>5. CASE e.kind = "pr.merge"
  BY <1>5 DEF Apply, States
<1>6. CASE e.kind = "pr.abandoned"
  BY <1>6 DEF Apply, States
<1>7. CASE e.kind = "pr.comment"
  BY <1>7 DEF Apply, States
<1> QED
  BY <1>1, <1>2, <1>3, <1>4, <1>5, <1>6, <1>7 DEF Events, Kinds

\* What is known of a position depends only on the chain up to it.
LEMMA PrefixKept ==
    ASSUME NEW c, NEW d, NEW n \in Nat, \A j \in 1..n : d[j] = c[j], NEW i \in 1..n
    PROVE  /\ Folded(c, i) => Folded(d, i)
           /\ AuthorisedAt(c, i) => AuthorisedAt(d, i)
<1>1. \A j \in 1..i : d[j] = c[j]
  OBVIOUS
<1>2. ASSUME NEW kind, NEW r \in 1..i, NEW k \in {i, i + 1}, LastBefore(c, r, k, kind)
      PROVE  LastBefore(d, r, k, kind)
  BY <1>1, <1>2 DEF LastBefore
<1>3. ASSUME Folded(c, i) PROVE Folded(d, i)
  <2>1. d[i] = c[i] /\ d[1] = c[1]
    BY <1>1
  <2>2. c[i].st.decision = "approve" =>
          \E r \in 1..i : /\ LastBefore(d, r, i + 1, "pr.review")
                          /\ d[r].ev.word = "approve" /\ d[r].ev.gen = c[i].st.decGen
                          /\ d[r].ev.role = c[i].st.decRole
    BY <1>1, <1>2, <1>3 DEF Folded
  <2>3. c[i].st.ci = "success" =>
          \E r \in 1..i : /\ LastBefore(d, r, i + 1, "ci.check")
                          /\ d[r].ev.word = "success" /\ d[r].ev.gen = c[i].st.ciGen
    BY <1>1, <1>2, <1>3 DEF Folded
  <2> QED
    BY <1>1, <1>3, <2>1, <2>2, <2>3 DEF Folded
<1>4. ASSUME AuthorisedAt(c, i) PROVE AuthorisedAt(d, i)
  <2>1. \A k \in 1..i-1 : d[k] = c[k] /\ k \in 1..i
    BY <1>1
  <2>2. d[1] = c[1]
    BY <1>1
  <2>3. \A r \in 1..i-1 : OfNewestGeneration(c, r, i) => OfNewestGeneration(d, r, i)
    BY <2>1 DEF OfNewestGeneration
  <2>4. \E r \in 1..i-1 :
          /\ LastBefore(d, r, i, "pr.review") /\ OfNewestGeneration(d, r, i)
          /\ d[r].ev.word = "approve"
          /\ d[1].ev.role = NoRole \/ d[r].ev.role # d[1].ev.role
    BY <1>2, <1>4, <2>1, <2>2, <2>3 DEF AuthorisedAt
  <2>5. \E r \in 1..i-1 :
          /\ LastBefore(d, r, i, "ci.check") /\ OfNewestGeneration(d, r, i)
          /\ d[r].ev.word = "success"
    BY <1>2, <1>4, <2>1, <2>3 DEF AuthorisedAt
  <2> QED
    BY <1>4, <2>1, <2>4, <2>5 DEF AuthorisedAt
<1> QED
  BY <1>3, <1>4

(***************************************************************************)
(* Appending keeps a chain sound, when an update does not go back a        *)
(* generation and a merge passes the gate at the tip it is appended to.    *)
(***************************************************************************)
LEMMA ExtendSound ==
    ASSUME NEW c \in Chains, c # <<>>, SoundChain(c), NEW e \in Events,
           e.kind # "pr.created",
           e.kind = "pr.update" => State(c).gen <= e.gen,
           e.kind = "pr.merge" => Gate(State(c)) /\ e.bind.result # NoCommit
    PROVE  SoundChain(Extend(c, e))
<1> DEFINE d == Extend(c, e)
           n == Len(c)
           st == State(c)
           new == Apply(st, e)
<1>1. n \in Nat \ {0} /\ st \in States /\ new \in States
  BY LastElement, StateTyped, ApplyTyped DEF Chains
<1>2. /\ Len(d) = n + 1 /\ \A j \in 1..n : d[j] = c[j]
      /\ d[n + 1].ev = e /\ d[n + 1].st = new
  <2>1. /\ Len(d) = n + 1 /\ \A j \in 1..n : d[j] = c[j]
        /\ d[n + 1] = [ev |-> e, st |-> new]
    BY ExtendTyped
  <2> HIDE DEF d, new
  <2> QED
    BY <2>1
<1>3. c[n].st = st /\ Folded(c, n)
  BY <1>1 DEF State, SoundChain
<1>4. e.gen \in Nat /\ st.gen \in Nat /\ new.gen \in Nat /\ st.abandoned \in BOOLEAN
  BY <1>1 DEF States, Events
<1>5. \A i \in 1..n : c[i] \in [ev : Events, st : States]
  BY ElementOfSeq DEF Chains
<1>6. \A i \in 1..n : c[i].ev.gen \in Nat
  BY <1>5 DEF Events
<1>7. /\ new.creator = st.creator
      /\ IF e.kind = "pr.review"
         THEN new.decision = e.word /\ new.decGen = e.gen /\ new.decRole = e.role
         ELSE new.decision = st.decision /\ new.decGen = st.decGen /\ new.decRole = st.decRole
      /\ IF e.kind = "ci.check" THEN new.ci = e.word /\ new.ciGen = e.gen
                                ELSE new.ci = st.ci /\ new.ciGen = st.ciGen
      /\ new.gen = IF e.kind = "pr.update" THEN e.gen ELSE st.gen
      /\ new.abandoned = IF e.kind = "pr.abandoned" THEN TRUE ELSE st.abandoned
      /\ new.merged = IF e.kind = "pr.merge" THEN e.bind.result ELSE st.merged
  BY <1>1, ApplyFields
<1> HIDE DEF d, n, st, new
\* The last event of a kind stays the last unless e is of that kind.
<1>8. ASSUME NEW r \in 1..n, NEW kind, LastBefore(c, r, n + 1, kind)
      PROVE  /\ LastBefore(d, r, n + 1, kind)
             /\ e.kind # kind => LastBefore(d, r, n + 2, kind)
  BY <1>1, <1>2, <1>8 DEF LastBefore
<1>9. LastBefore(d, n + 1, n + 2, e.kind)
  BY <1>1, <1>2 DEF LastBefore
<1>10. Folded(d, n + 1)
  <2>1. d[n + 1].ev.kind = "pr.created" <=> n + 1 = 1
    BY <1>1, <1>2
  <2>2. new.creator = d[1].ev.role
    BY <1>1, <1>2, <1>3, <1>7 DEF Folded
  <2>3. new.decision = "approve" =>
          \E r \in 1..n + 1 : /\ LastBefore(d, r, n + 2, "pr.review")
                              /\ d[r].ev.word = "approve" /\ d[r].ev.gen = new.decGen
                              /\ d[r].ev.role = new.decRole
    <3>1. CASE e.kind = "pr.review"
      BY <1>1, <1>2, <1>7, <1>9, <3>1
    <3>2. CASE e.kind # "pr.review"
      BY <1>1, <1>2, <1>3, <1>7, <1>8, <3>2 DEF Folded
    <3> QED
      BY <3>1, <3>2
  <2>4. new.ci = "success" =>
          \E r \in 1..n + 1 : /\ LastBefore(d, r, n + 2, "ci.check")
                              /\ d[r].ev.word = "success" /\ d[r].ev.gen = new.ciGen
    <3>1. CASE e.kind = "ci.check"
      BY <1>1, <1>2, <1>7, <1>9, <3>1
    <3>2. CASE e.kind # "ci.check"
      BY <1>1, <1>2, <1>3, <1>7, <1>8, <3>2 DEF Folded
    <3> QED
      BY <3>1, <3>2
  <2>5. \A u \in 1..n + 1 : d[u].ev.kind = "pr.update" => d[u].ev.gen <= new.gen
    <3>1. \A u \in 1..n : c[u].ev.kind = "pr.update" => c[u].ev.gen <= st.gen
      BY <1>3 DEF Folded
    <3>2. st.gen <= new.gen
      BY <1>4, <1>7 DEF st
    <3> QED
      BY <1>1, <1>2, <1>4, <1>6, <1>7, <3>1, <3>2
  <2>6. ~new.abandoned => \A k \in 1..n + 1 : d[k].ev.kind # "pr.abandoned"
    BY <1>1, <1>2, <1>3, <1>7 DEF Folded
  <2>7. new.merged = NoCommit => \A k \in 1..n + 1 : d[k].ev.kind # "pr.merge"
    BY <1>1, <1>2, <1>3, <1>7 DEF Folded
  <2>8. n + 1 + 1 = n + 2
    BY <1>1
  <2> QED
    BY <1>2, <2>1, <2>2, <2>3, <2>4, <2>5, <2>6, <2>7, <2>8 DEF Folded
<1>11. ASSUME e.kind = "pr.merge" PROVE AuthorisedAt(d, n + 1)
  <2>1. /\ ~st.abandoned /\ st.decision = "approve" /\ st.decGen = st.gen
        /\ ~SelfApproved(st) /\ st.merged = NoCommit /\ st.ci = "success" /\ st.ciGen = st.gen
    BY <1>11 DEF Gate, Approved, Green, st
  <2>2. 1..(n + 1) - 1 = 1..n
    BY <1>1
  <2>3. \A k \in 1..n : d[k].ev.kind \notin {"pr.abandoned", "pr.merge"}
    BY <1>2, <1>3, <2>1 DEF Folded
  <2>4. ASSUME NEW r \in 1..n, c[r].ev.gen = st.gen
        PROVE  OfNewestGeneration(d, r, n + 1)
    <3>1. \A u \in 1..n : c[u].ev.kind = "pr.update" => c[u].ev.gen <= st.gen
      BY <1>3 DEF Folded
    <3>2. \A u \in 1..n : d[u] = c[u]
      BY <1>2
    <3> QED
      BY <2>2, <2>4, <3>1, <3>2 DEF OfNewestGeneration
  <2>5. \E r \in 1..n :
          /\ LastBefore(d, r, n + 1, "pr.review") /\ OfNewestGeneration(d, r, n + 1)
          /\ d[r].ev.word = "approve"
          /\ d[1].ev.role = NoRole \/ d[r].ev.role # d[1].ev.role
    <3>1. PICK r \in 1..n : /\ LastBefore(c, r, n + 1, "pr.review")
                            /\ c[r].ev.word = "approve" /\ c[r].ev.gen = st.decGen
                            /\ c[r].ev.role = st.decRole
      BY <1>3, <2>1 DEF Folded
    <3>2. st.creator = c[1].ev.role /\ d[1] = c[1] /\ d[r] = c[r]
      BY <1>1, <1>2, <1>3 DEF Folded
    <3> QED
      BY <1>8, <2>1, <2>4, <3>1, <3>2 DEF SelfApproved
  <2>6. \E r \in 1..n :
          /\ LastBefore(d, r, n + 1, "ci.check") /\ OfNewestGeneration(d, r, n + 1)
          /\ d[r].ev.word = "success"
    <3>1. PICK r \in 1..n : /\ LastBefore(c, r, n + 1, "ci.check")
                            /\ c[r].ev.word = "success" /\ c[r].ev.gen = st.ciGen
      BY <1>3, <2>1 DEF Folded
    <3> QED
      BY <1>2, <1>8, <2>1, <2>4, <3>1
  <2> QED
    BY <2>2, <2>3, <2>5, <2>6 DEF AuthorisedAt
<1>12. ASSUME NEW i \in 1..n
       PROVE  Folded(d, i) /\ (d[i].ev.kind = "pr.merge" => AuthorisedAt(d, i))
  BY <1>1, <1>2, <1>12, PrefixKept DEF SoundChain, n
<1> QED
  BY <1>1, <1>2, <1>10, <1>11, <1>12 DEF SoundChain, d

----------------------------------------------------------------------------
(* The initial states. *)

\* The chain of one created event is sound.
LEMMA GenesisSound ==
    ASSUME NEW e \in Events, e.kind = "pr.created"
    PROVE  SoundChain(Genesis(e))
<1> DEFINE st == Apply(EmptyPr, e)
           node == [ev |-> e, st |-> st]
<1>1. /\ st.creator = e.role /\ st.decision = "none" /\ st.ci = "none"
      /\ st.gen = 0
  BY DEF Apply, EmptyPr
<1>2. Genesis(e) = <<node>> /\ node.ev = e /\ node.st = st
  BY DEF Genesis
<1> HIDE DEF st, node
<1>3. Len(<<node>>) = 1 /\ <<node>>[1] = node
  OBVIOUS
<1>4. Folded(<<node>>, 1)
  BY <1>1, <1>2, <1>3 DEF Folded
<1> QED
  BY <1>2, <1>3, <1>4 DEF SoundChain

\* Every chain the scripts may start from is sound.
LEMMA InitialChainsSound ==
    /\ SoundChain(Created)
    /\ SoundChain(Prepared)
    /\ SoundChain(Vetted(Created, NoBind))
    /\ SoundChain(Vetted(Prepared, Candidate0))
<1>1. /\ NoCommit \in Nat /\ Source0 \in Nat /\ Base0 \in Nat
      /\ NoRole \in Roles /\ RoleOf[Founder] \in Roles
      /\ <<Founder, 0>> \in Ids /\ <<Founder, 1>> \in Ids /\ <<Founder, 2>> \in Ids
      /\ <<Founder, 3>> \in Ids /\ <<Founder, 4>> \in Ids
  BY DEF NoCommit, Source0, Base0, Roles, Ids
<1>2. NoBind \in Binds /\ Candidate0 \in Binds
  BY <1>1, PreparedTyped DEF Binds, NoBind, Words
<1>3. /\ {"pr.review", "ci.check", "pr.prepared"} \subseteq Kinds
      /\ {"none", "pending", "success", "approve"} \subseteq Words
  BY DEF Kinds, Words, Decisions
<1>4. ASSUME NEW c \in Chains, c # <<>>, SoundChain(c), NEW bind \in Binds
      PROVE  SoundChain(Vetted(c, bind))
  <2> DEFINE e == Past("pr.review", 2, "approve", bind)
             f == Past("ci.check", 3, "success", bind)
  <2>1. e \in Events /\ e.kind = "pr.review" /\ f \in Events /\ f.kind = "ci.check"
    BY <1>3, PastTyped
  <2>2. Vetted(c, bind) = Extend(Extend(c, e), f)
    BY DEF Vetted
  <2> HIDE DEF e, f
  <2>3. Extend(c, e) \in Chains /\ Extend(c, e) # <<>> /\ SoundChain(Extend(c, e))
    BY <1>4, <2>1, ExtendTyped, ExtendSound
  <2> QED
    BY <2>1, <2>2, <2>3, ExtendSound
<1>5. SoundChain(Created)
  <2> DEFINE e == [PrEvent("pr.created", <<Founder, 0>>, RoleOf[Founder]) EXCEPT
                      !.source = Source0, !.base = Base0]
             f == Past("ci.check", 1, "pending", NoBind)
  <2>1. e \in Events /\ e.kind = "pr.created"
    BY <1>1, <1>2 DEF PrEvent, Events, Kinds, Words
  <2>2. f \in Events /\ f.kind = "ci.check"
    BY <1>2, <1>3, PastTyped
  <2>3. Created = Extend(Genesis(e), f)
    BY DEF Created
  <2> HIDE DEF e, f
  <2>4. Genesis(e) \in Chains /\ Genesis(e) # <<>>
    BY <2>1, GenesisTyped
  <2> QED
    BY <2>1, <2>2, <2>3, <2>4, GenesisSound, ExtendSound
<1>6. SoundChain(Prepared)
  <2> DEFINE p == Past("pr.prepared", 4, "none", Candidate0)
             e == [p EXCEPT !.source = Source0, !.base = Base0]
  <2>1. p \in Events /\ p.kind = "pr.prepared"
    BY <1>2, <1>3, PastTyped
  <2>2. Prepared = Extend(Created, e)
    BY DEF Prepared
  <2> HIDE DEF p
  <2>3. e \in Events /\ e.kind = "pr.prepared"
    BY <1>1, <2>1 DEF Events
  <2> HIDE DEF e
  <2> QED
    BY <1>5, <2>2, <2>3, CreatedTyped, ExtendSound DEF StartsAt
<1> QED
  BY <1>2, <1>4, <1>5, <1>6, CreatedTyped, PreparedTyped DEF StartsAt

\* The invariant holds initially.
LEMMA InitGateInv == Init => GateInv
<1> SUFFICES ASSUME Init PROVE GateInv
  OBVIOUS
<1>1. SoundChain(chain)
  BY InitialChainsSound DEF Init, Reached
<1>2. StartsAt(chain, result)
  BY CreatedTyped, PreparedTyped, VettedTyped
     DEF Init, Reached, Binds, NoBind, NoCommit, Words
<1>3. Covered(State(chain).gen, pins)
  BY <1>2 DEF Init, StartsAt, Covered, Pin
<1>4. ASSUME NEW a \in Actors PROVE SoundProcess(proc[a], pins)
  BY <1>4 DEF Init, SoundProcess, Idle, Gated, Updating, Finalizing
<1> QED
  BY <1>1, <1>3, <1>4 DEF GateInv

----------------------------------------------------------------------------
(* Steps. *)

\* What is sound stays so when generations are pinned.
LEMMA SoundGrows ==
    ASSUME NEW p, NEW ps, NEW more, ps \subseteq more, SoundProcess(p, ps)
    PROVE  SoundProcess(p, more)
BY DEF SoundProcess, Covered

\* A step of one process from sound to sound.
LEMMA SoundStep ==
    ASSUME TypeOK, GateInv, NEW a \in Actors, NEW q, proc' = [proc EXCEPT ![a] = q],
           pins \subseteq pins', SoundProcess(q, pins'),
           SoundChain(chain'), Covered(State(chain').gen, pins')
    PROVE  GateInv'
<1>1. ASSUME NEW b \in Actors PROVE SoundProcess(proc'[b], pins')
  <2>1. CASE b = a
    BY <2>1 DEF TypeOK, ProcessesTyped
  <2>2. CASE b # a
    BY <2>2, SoundGrows DEF TypeOK, ProcessesTyped, GateInv
  <2> QED
    BY <2>1, <2>2
<1> QED
  BY <1>1 DEF GateInv

\* A process that goes on misinformed still relies on the tip it had.
LEMMA UnclearStep ==
    ASSUME TypeOK, GateInv, NEW a \in Actors, NEW pc, Unclear(a, pc),
           pc \in Gated => proc[a].pc \in Gated, pc \in Updating => proc[a].pc \in Updating,
           pins \subseteq pins', SoundChain(chain'), Covered(State(chain').gen, pins')
    PROVE  GateInv'
<1> DEFINE q == [proc[a] EXCEPT !.pc = pc]
<1>1. proc' = [proc EXCEPT ![a] = q] /\ SoundProcess(proc[a], pins')
  BY SoundGrows DEF Unclear, GateInv
<1>2. q.pc = pc /\ q.tip = proc[a].tip /\ q.gen = proc[a].gen
  BY DEF TypeOK, ProcessesTyped, Processes
<1> HIDE DEF q
<1>3. SoundProcess(q, pins')
  BY <1>1, <1>2 DEF SoundProcess
<1> QED
  BY <1>1, <1>3, SoundStep

\* What a step may do with its process while it writes neither the chain nor the pins.
Admissible(a, q) ==
    /\ q.tip \in {<<>>, proc[a].tip, chain}
    /\ q.pc \in Gated => \/ proc[a].pc \in Gated /\ q.tip = proc[a].tip
                         \/ Gate(State(q.tip))
    /\ q.pc \in Updating => \/ proc[a].pc \in Updating /\ q.gen = proc[a].gen
                            \/ q.gen = State(chain).gen + 1

\* An admissible step keeps the invariant.
LEMMA AdmissibleStep ==
    ASSUME TypeOK, GateInv, NEW a \in Actors, NEW q, proc' = [proc EXCEPT ![a] = q],
           Admissible(a, q), UNCHANGED <<chain, pins>>
    PROVE  GateInv'
<1>1. SoundProcess(proc[a], pins) /\ SoundChain(chain) /\ Covered(State(chain).gen, pins)
  BY DEF GateInv
<1>2. State(chain).gen \in Nat
  BY StateTyped DEF TypeOK, RefsTyped, States
<1>3. q.tip # <<>> => SoundChain(q.tip) /\ Covered(State(q.tip).gen, pins)
  BY <1>1 DEF Admissible, SoundProcess
<1>4. q.pc \in Gated => Gate(State(q.tip))
  BY <1>1 DEF Admissible, SoundProcess
<1>5. ASSUME q.pc \in Updating, NEW k \in 0..q.gen, k < q.gen
      PROVE  \E p \in pins : p.gen = k
  BY <1>1, <1>2, <1>5 DEF Admissible, SoundProcess, Covered
<1>6. SoundProcess(q, pins)
  BY <1>3, <1>4, <1>5 DEF SoundProcess
<1> QED
  BY <1>1, <1>6, SoundStep

\* A process that exits without writing the chain or the pins keeps the invariant.
LEMMA ExitStep ==
    ASSUME TypeOK, GateInv, NEW a \in Actors, NEW how, Exits(a, how),
           UNCHANGED <<chain, pins>>
    PROVE  GateInv'
<1>1. Admissible(a, Idle)
  BY DEF Admissible, Idle, Gated, Updating, Finalizing
<1> QED
  BY <1>1, AdmissibleStep DEF Exits

\* A step that moves to an admissible process or exits.
LEMMA QuietStep ==
    ASSUME TypeOK, GateInv, NEW a \in Actors, UNCHANGED <<refs, objects>>,
           \/ \E how : Exits(a, how)
           \/ \E q : Becomes(a, q) /\ Admissible(a, q)
    PROVE  GateInv'
BY ExitStep, AdmissibleStep DEF Becomes, refs

\* An event that pins no generation is appended to the chain; a merge passes the gate.
LEMMA ChainGrows ==
    ASSUME TypeOK, GateInv, NEW e \in Events, e.kind \notin {"pr.created", "pr.update"},
           e.kind = "pr.merge" => Gate(State(chain)) /\ e.bind.result # NoCommit,
           chain' = Extend(chain, e)
    PROVE  SoundChain(chain') /\ Covered(State(chain').gen, pins)
<1>1. chain \in Chains /\ chain # <<>> /\ SoundChain(chain) /\ Covered(State(chain).gen, pins)
  BY DEF TypeOK, RefsTyped, GateInv
<1>2. SoundChain(chain')
  BY <1>1, ExtendSound
<1>3. State(chain) \in States /\ State(chain') = Apply(State(chain), e)
  BY <1>1, StateTyped, ExtendTyped
<1>4. State(chain').gen = State(chain).gen
  BY <1>3, ApplyFields
<1> QED
  BY <1>1, <1>2, <1>4

\* The commands that append one event: none of them writes a merge or an update.
LEMMA AppendGateInv ==
    ASSUME TypeOK, GateInv, NEW a \in Actors, AppendStep(a)
    PROVE  GateInv'
<1> USE DEF Admissible, Gated, Updating, Finalizing
<1> DEFINE p == proc[a]
<1>1. p \in Processes /\ Legal(p, Made) /\ SoundProcess(p, pins)
  BY DEF TypeOK, ProcessesTyped, GateInv
<1>2. ASSUME Captures(a) PROVE \E q : Becomes(a, q) /\ Admissible(a, q)
  <2> DEFINE pc == IF CandidateCurrent(State(chain)) THEN "bind" ELSE "tip"
             bind == IF CandidateCurrent(State(chain)) THEN BindOf(State(chain).prepared)
                                                       ELSE NoBind
             word == IF Command(a).op = "ci" THEN "pending" ELSE "none"
             q == [p EXCEPT !.pc = pc, !.gen = State(chain).gen, !.bind = bind, !.word = word]
  <2>1. Becomes(a, q)
    BY <1>2 DEF Captures
  <2>2. pc \in {"bind", "tip"}
    OBVIOUS
  <2> HIDE DEF pc, bind, word
  <2>3. q.pc = pc /\ q.tip = p.tip
    BY <1>1 DEF Processes
  <2> QED
    BY <2>1, <2>2, <2>3
<1>3. CASE ReviewRead(a)
  BY <1>2, <1>3, QuietStep DEF ReviewRead
<1>4. CASE CiRead(a)
  BY <1>2, <1>4, QuietStep DEF CiRead
<1>5. CASE Bind(a)
  <2>1. Admissible(a, [p EXCEPT !.pc = "tip", !.bind = Corroborated(@)])
    BY <1>1 DEF Processes
  <2> QED
    BY <1>5, <2>1, QuietStep DEF Bind
<1>6. CASE AbandonRead(a)
  <2>1. Admissible(a, [p EXCEPT !.pc = "tip"])
    BY <1>1 DEF Processes
  <2> QED
    BY <1>6, <2>1, QuietStep DEF AbandonRead, Goes
<1>7. CASE AppendTip(a)
  <2>1. PICK word : Becomes(a, [p EXCEPT !.pc = "cas", !.tip = chain, !.word = word])
    BY <1>7 DEF AppendTip
  <2>2. Admissible(a, [p EXCEPT !.pc = "cas", !.tip = chain, !.word = word])
    BY <1>1 DEF Processes
  <2> QED
    BY <1>7, <2>1, <2>2, QuietStep DEF AppendTip
<1>8. CASE AppendCas(a)
  <2>1. p.tip = chain /\ chain' = Extend(chain, EventOf(a)) /\ UNCHANGED pins
    BY <1>8 DEF AppendCas, CasHolds
  <2>2. todo[a] # <<>>
    BY <1>8 DEF AppendCas, At, TypeOK, ProcessesTyped
  <2>3. /\ EventOf(a) \in Events
        /\ EventOf(a).kind \in {"pr.comment", "pr.review", "ci.check", "pr.abandoned"}
    BY <2>2, EventOfTyped
  <2>4. SoundChain(chain') /\ Covered(State(chain').gen, pins)
    BY <2>1, <2>3, ChainGrows
  <2>5. SoundProcess(Idle, pins')
    BY DEF SoundProcess, Idle
  <2> QED
    BY <1>8, <2>1, <2>4, <2>5, SoundStep, UnclearStep DEF AppendCas, Exits
<1>9. CASE AppendCasFails(a)
  <2>1. Admissible(a, [p EXCEPT !.pc = "lost"])
    BY <1>1 DEF Processes
  <2> QED
    BY <1>9, <2>1, QuietStep DEF AppendCasFails, Goes
<1>10. CASE AppendLost(a)
  <2>1. Admissible(a, [[p EXCEPT !.pc = "tip"] EXCEPT !.tries = @ + 1])
    BY <1>1 DEF Processes
  <2> QED
    BY <1>10, <2>1, QuietStep DEF AppendLost, Retry
<1> QED
  BY <1>3, <1>4, <1>5, <1>6, <1>7, <1>8, <1>9, <1>10 DEF AppendStep

\* pr update: the generation it appends is above every generation the chain has.
LEMMA UpdateGateInv ==
    ASSUME TypeOK, GateInv, NEW a \in Actors, UpdateStep(a)
    PROVE  GateInv'
<1> USE DEF Admissible, Gated, Updating, Finalizing
<1> DEFINE p == proc[a]
<1>1. p \in Processes /\ Legal(p, Made) /\ SoundProcess(p, pins)
  BY DEF TypeOK, ProcessesTyped, GateInv
<1>2. CASE UpdateRead(a)
  <2>1. Admissible(a, [p EXCEPT !.pc = "u_source", !.tip = chain,
                                !.gen = State(chain).gen + 1])
    BY <1>1 DEF Processes
  <2> QED
    BY <1>2, <2>1, QuietStep DEF UpdateRead
<1>3. CASE UpdateReadSource(a)
  <2>1. Admissible(a, [p EXCEPT !.pc = "u_base", !.src = source])
    BY <1>1, <1>3 DEF Processes, UpdateReadSource, At
  <2> QED
    BY <1>3, <2>1, QuietStep DEF UpdateReadSource
<1>4. CASE UpdateReadBase(a)
  <2>1. Admissible(a, [p EXCEPT !.pc = "u_tip", !.base = base])
    BY <1>1, <1>4 DEF Processes, UpdateReadBase, At
  <2> QED
    BY <1>4, <2>1, QuietStep DEF UpdateReadBase
<1>5. CASE UpdateTip(a)
  <2>1. Admissible(a, [p EXCEPT !.pc = "u_txn", !.tip = chain])
    BY <1>1, <1>5 DEF Processes, UpdateTip, At
  <2> QED
    BY <1>5, <2>1, QuietStep DEF UpdateTip
<1>6. CASE UpdateTxn(a)
  <2> DEFINE e == [Authored(a, "pr.update") EXCEPT !.gen = p.gen, !.source = p.src,
                                                   !.base = p.base]
  <2>1. /\ p.tip = chain /\ chain' = Extend(chain, e) /\ ~Claimed(p.gen)
        /\ pins' = pins \cup {Pin(p.gen, p.src, p.base)}
    BY <1>6 DEF UpdateTxn, UpdateHolds
  <2>2. chain \in Chains /\ chain # <<>> /\ SoundChain(chain) /\ Covered(State(chain).gen, pins)
    BY DEF TypeOK, RefsTyped, GateInv
  <2>3. todo[a] # <<>> /\ p.pc = "u_txn"
    BY <1>6 DEF UpdateTxn, At, TypeOK, ProcessesTyped
  <2>4. e \in Events /\ e.kind = "pr.update" /\ e.gen = p.gen
    <3>1. /\ p.gen \in Nat /\ p.src \in Nat /\ p.base \in Nat
      BY <1>1 DEF Processes
    <3>2. /\ CommandId(a) \in Ids /\ RoleOf[a] \in Roles /\ NoBind \in Binds
      BY <2>3, CommandTyped DEF TypeOK, Roles, Binds, NoBind, NoCommit, Words
    <3> QED
      BY <3>1, <3>2 DEF Authored, PrEvent, Events, Kinds, Words
  <2> HIDE DEF e
  <2>5. State(chain) \in States /\ State(chain') = Apply(State(chain), e)
    BY <2>1, <2>2, <2>4, StateTyped, ExtendTyped
  <2>6. State(chain).gen \in Nat /\ p.gen \in Nat
    BY <1>1, <2>5 DEF States, Processes
  <2>7. State(chain).gen < p.gen
    BY <2>1, <2>2, <2>6 DEF Covered, Claimed
  <2>8. SoundChain(chain')
    BY <2>1, <2>2, <2>4, <2>6, <2>7, ExtendSound
  <2>9. State(chain').gen = p.gen
    BY <2>4, <2>5, ApplyFields
  <2>10. Covered(p.gen, pins')
    <3>1. \A k \in 0..p.gen : k < p.gen => \E q \in pins : q.gen = k
      BY <1>1, <2>3 DEF SoundProcess
    <3>2. Pin(p.gen, p.src, p.base).gen = p.gen
      BY DEF Pin
    <3>3. \A k \in 0..p.gen : k < p.gen \/ k = p.gen
      BY <2>6
    <3> QED
      BY <2>1, <3>1, <3>2, <3>3 DEF Covered
  <2>11. SoundProcess(Idle, pins')
    BY DEF SoundProcess, Idle
  <2> QED
    BY <1>6, <2>1, <2>3, <2>8, <2>9, <2>10, <2>11, SoundStep, UnclearStep DEF UpdateTxn, Exits
<1>7. CASE UpdateTxnFails(a)
  <2>1. Admissible(a, [p EXCEPT !.pc = "u_claimed"])
    BY <1>1, <1>7 DEF Processes, UpdateTxnFails, At
  <2> QED
    BY <1>7, <2>1, QuietStep DEF UpdateTxnFails, Goes
<1>8. CASE UpdateClaimed(a)
  <2>1. Admissible(a, [p EXCEPT !.pc = "u_moved"])
    BY <1>1, <1>8 DEF Processes, UpdateClaimed, At
  <2> QED
    BY <1>8, <2>1, QuietStep DEF UpdateClaimed, Goes
<1>9. CASE UpdateMoved(a)
  <2>1. Admissible(a, [p EXCEPT !.pc = "u_head"])
    BY <1>1, <1>9 DEF Processes, UpdateMoved, At
  <2> QED
    BY <1>9, <2>1, QuietStep DEF UpdateMoved, Goes
<1>10. CASE UpdateHead(a)
  <2>1. Admissible(a, [[p EXCEPT !.pc = "u_txn", !.tip = chain] EXCEPT !.tries = @ + 1])
    BY <1>1, <1>10 DEF Processes, UpdateHead, At
  <2> QED
    BY <1>10, <2>1, QuietStep DEF UpdateHead, Retry
<1> QED
  BY <1>2, <1>3, <1>4, <1>5, <1>6, <1>7, <1>8, <1>9, <1>10 DEF UpdateStep

\* pr prepare: its candidate does not touch what the gate reads.
LEMMA PrepareGateInv ==
    ASSUME TypeOK, GateInv, NEW a \in Actors, PrepareStep(a)
    PROVE  GateInv'
<1> USE DEF Admissible, Gated, Updating, Finalizing
<1> DEFINE p == proc[a]
<1>1. p \in Processes /\ Legal(p, Made) /\ SoundProcess(p, pins)
  BY DEF TypeOK, ProcessesTyped, GateInv
<1>2. CASE PrepareRead(a)
  <2>1. Admissible(a, [p EXCEPT !.pc = "p_base", !.gen = State(chain).gen,
                                !.src = State(chain).source])
    BY <1>1 DEF Processes
  <2> QED
    BY <1>2, <2>1, QuietStep DEF PrepareRead
<1>3. CASE PrepareBase(a)
  <2>1. PICK r : Becomes(a, [p EXCEPT !.pc = "p_tip", !.base = base, !.res = r])
    BY <1>3 DEF PrepareBase
  <2>2. Admissible(a, [p EXCEPT !.pc = "p_tip", !.base = base, !.res = r])
    BY <1>1 DEF Processes
  <2> QED
    BY <1>3, <2>1, <2>2, AdmissibleStep DEF PrepareBase, Becomes, refs
<1>4. CASE PrepareBaseFails(a)
  BY <1>4, QuietStep DEF PrepareBaseFails
<1>5. CASE PrepareTip(a)
  <2>1. Admissible(a, [p EXCEPT !.pc = "p_pin", !.tip = chain])
    BY <1>1 DEF Processes
  <2> QED
    BY <1>5, <2>1, QuietStep DEF PrepareTip
<1>6. CASE PreparePin(a)
  <2> DEFINE bind == [strategy |-> Command(a).arg, result |-> result]
  <2>1. Becomes(a, [p EXCEPT !.pc = "p_txn", !.bind = bind])
    BY <1>6 DEF PreparePin
  <2> HIDE DEF bind
  <2>2. Admissible(a, [p EXCEPT !.pc = "p_txn", !.bind = bind])
    BY <1>1 DEF Processes
  <2> QED
    BY <1>6, <2>1, <2>2, QuietStep DEF PreparePin
<1>7. CASE PrepareTxn(a)
  <2> DEFINE bind == [strategy |-> Command(a).arg, result |-> p.res]
             e == [Authored(a, "pr.prepared") EXCEPT
                     !.gen = p.gen, !.source = p.src, !.base = p.base, !.bind = bind]
  <2>1. /\ chain' = Extend(chain, e) /\ UNCHANGED pins
        /\ Exits(a, "ok") \/ Unclear(a, "p_head")
    BY <1>7 DEF PrepareTxn, PrepareHolds
  <2>2. todo[a] # <<>>
    BY <1>7 DEF PrepareTxn, At, TypeOK, ProcessesTyped
  <2>3. /\ Command(a).arg \in Words /\ CommandId(a) \in Ids /\ RoleOf[a] \in Roles
    BY <2>2, CommandTyped DEF TypeOK, Roles
  <2>4. /\ p.gen \in Nat /\ p.src \in Nat /\ p.base \in Nat /\ p.res \in Nat
    BY <1>1 DEF Processes
  <2>5. bind \in Binds
    BY <2>3, <2>4 DEF Binds
  <2> HIDE DEF bind
  <2>6. e \in Events /\ e.kind = "pr.prepared"
    BY <2>3, <2>4, <2>5 DEF Authored, PrEvent, Events, Kinds, Words
  <2> HIDE DEF e
  <2>7. SoundChain(chain') /\ Covered(State(chain').gen, pins)
    BY <2>1, <2>6, ChainGrows
  <2>8. SoundProcess(Idle, pins')
    BY DEF SoundProcess, Idle
  <2> QED
    BY <2>1, <2>7, <2>8, SoundStep, UnclearStep DEF Exits
<1>8. CASE PrepareTxnFails(a)
  <2>1. Admissible(a, [p EXCEPT !.pc = "p_head"])
    BY <1>1 DEF Processes
  <2> QED
    BY <1>8, <2>1, QuietStep DEF PrepareTxnFails, Goes
<1>9. CASE PrepareHead(a)
  <2>1. Admissible(a, [[p EXCEPT !.pc = "p_pin", !.tip = chain] EXCEPT !.tries = @ + 1])
    BY <1>1 DEF Processes
  <2> QED
    BY <1>9, <2>1, QuietStep DEF PrepareHead, Retry
<1> QED
  BY <1>2, <1>3, <1>4, <1>5, <1>6, <1>7, <1>8, <1>9 DEF PrepareStep

\* A step of a merge that keeps its tip and stays past the gate.
LEMMA GatedGoes ==
    ASSUME TypeOK, GateInv, NEW a \in Actors, proc[a].pc \in Gated, NEW pc \in Gated,
           Goes(a, pc), UNCHANGED <<chain, pins>>
    PROVE  GateInv'
<1> DEFINE q == [proc[a] EXCEPT !.pc = pc]
<1>1. proc[a] \in Processes /\ Becomes(a, q)
  BY DEF Goes, TypeOK, ProcessesTyped
<1>2. q.pc = pc /\ q.tip = proc[a].tip
  BY <1>1 DEF Processes
<1>3. pc \notin Updating
  BY DEF Gated, Updating, Finalizing
<1> HIDE DEF q
<1>4. Admissible(a, q)
  BY <1>2, <1>3 DEF Admissible
<1> QED
  BY <1>1, <1>4, AdmissibleStep DEF Becomes

\* pr merge up to the transaction: the gate is passed on the tip it will compare with.
LEMMA MergeStartGateInv ==
    ASSUME TypeOK, GateInv, NEW a \in Actors,
           \/ MergeGate(a) \/ MergeRefusedAtBase(a) \/ MergeTakesCandidate(a) \/ MergePin(a)
           \/ MergeExecutes(a) \/ MergeExecutionFails(a)
           \/ MergeCreatesPending(a) \/ MergePendingFails(a)
           \/ MergeWorktreeGone(a) \/ MergeWorktreeStays(a)
           \/ MergeStages(a) \/ MergeFoldsIssue(a) \/ MergeStageFails(a) \/ MergeTxnFails(a)
    PROVE  GateInv'
<1> USE DEF Admissible, Gated, Updating, Finalizing
<1> DEFINE p == proc[a]
<1>1. p \in Processes /\ Legal(p, Made) /\ SoundProcess(p, pins)
  BY DEF TypeOK, ProcessesTyped, GateInv
<1>2. CASE MergeGate(a)
  <2>1. CASE Gate(State(chain)) /\
             Becomes(a, [p EXCEPT !.pc = "m_base", !.tip = chain, !.gen = State(chain).gen,
                                  !.src = State(chain).source])
    <3>1. Admissible(a, [p EXCEPT !.pc = "m_base", !.tip = chain, !.gen = State(chain).gen,
                                  !.src = State(chain).source])
      BY <1>1, <2>1 DEF Processes
    <3> QED
      BY <1>2, <2>1, <3>1, QuietStep DEF MergeGate
  <2>2. CASE Exits(a, "refused")
    BY <1>2, <2>2, QuietStep DEF MergeGate
  <2> QED
    BY <1>2, <2>1, <2>2 DEF MergeGate
<1>3. CASE MergeRefusedAtBase(a)
  BY <1>3, QuietStep DEF MergeRefusedAtBase
<1>4. CASE MergeTakesCandidate(a)
  <2> DEFINE c == State(p.tip).prepared
  <2>1. Becomes(a, [p EXCEPT !.pc = "m_pin", !.base = c.base, !.src = c.source,
                             !.res = c.result, !.bind = BindOf(c)])
    BY <1>4 DEF MergeTakesCandidate
  <2> HIDE DEF c
  <2>2. Admissible(a, [p EXCEPT !.pc = "m_pin", !.base = c.base, !.src = c.source,
                                !.res = c.result, !.bind = BindOf(c)])
    BY <1>1, <1>4 DEF Processes, MergeTakesCandidate, At
  <2> QED
    BY <1>4, <2>1, <2>2, QuietStep DEF MergeTakesCandidate
<1>5. CASE MergePin(a)
  BY <1>5, QuietStep, GatedGoes DEF MergePin, At, refs
<1>6. CASE MergeExecutes(a)
  <2>1. PICK r : Becomes(a, [p EXCEPT !.pc = "m_pending", !.base = base, !.res = r])
    BY <1>6 DEF MergeExecutes
  <2>2. Admissible(a, [p EXCEPT !.pc = "m_pending", !.base = base, !.res = r])
    BY <1>1, <1>6 DEF Processes, MergeExecutes, At
  <2> QED
    BY <1>6, <2>1, <2>2, AdmissibleStep DEF MergeExecutes, Becomes, refs
<1>7. CASE MergeExecutionFails(a)
  BY <1>7, QuietStep DEF MergeExecutionFails
<1>8. CASE MergeCreatesPending(a)
  BY <1>8, GatedGoes, ExitStep DEF MergeCreatesPending, At
<1>9. CASE MergePendingFails(a)
  BY <1>9, QuietStep DEF MergePendingFails
<1>10. CASE MergeWorktreeGone(a)
  BY <1>10, GatedGoes DEF MergeWorktreeGone, At, refs
<1>11. CASE MergeWorktreeStays(a)
  BY <1>11, GatedGoes DEF MergeWorktreeStays, At, refs
<1>12. CASE MergeStages(a)
  <2> DEFINE pc == IF LinkedIssue THEN "m_fold" ELSE "m_txn"
  <2>1. Becomes(a, [p EXCEPT !.pc = pc, !.stage = issue])
    BY <1>12 DEF MergeStages
  <2>2. pc \in {"m_fold", "m_txn"}
    OBVIOUS
  <2> HIDE DEF pc
  <2>3. Admissible(a, [p EXCEPT !.pc = pc, !.stage = issue])
    BY <1>1, <1>12, <2>2 DEF Processes, MergeStages, At
  <2> QED
    BY <1>12, <2>1, <2>3, QuietStep DEF MergeStages
<1>13. CASE MergeFoldsIssue(a)
  <2> DEFINE stage == IF IssueOpen(issue) THEN p.stage ELSE <<>>
  <2>1. Becomes(a, [p EXCEPT !.pc = "m_txn", !.stage = stage])
    BY <1>13 DEF MergeFoldsIssue
  <2> HIDE DEF stage
  <2>2. Admissible(a, [p EXCEPT !.pc = "m_txn", !.stage = stage])
    BY <1>1, <1>13 DEF Processes, MergeFoldsIssue, At
  <2> QED
    BY <1>13, <2>1, <2>2, QuietStep DEF MergeFoldsIssue
<1>14. CASE MergeStageFails(a)
  BY <1>14, QuietStep DEF MergeStageFails
<1>15. CASE MergeTxnFails(a)
  BY <1>15, GatedGoes DEF MergeTxnFails, At, refs
<1> QED
  BY <1>2, <1>3, <1>4, <1>5, <1>6, <1>7, <1>8, <1>9, <1>10, <1>11, <1>12, <1>13, <1>14, <1>15

\* Retries keep the gate, also on a tip that was adopted.
LEMMA RetriesGateInv ==
    ASSUME TypeOK, GateInv, NEW a \in Actors, proc[a].pc \in Gated,
           NEW p \in Processes,
           p.tip = proc[a].tip \/ (p.tip = chain /\ Gate(State(chain))),
           Retries(a, p), UNCHANGED <<chain, pins>>
    PROVE  GateInv'
<1> DEFINE none == <<>>
           q == [p EXCEPT !.pc = "m_stage", !.stage = none, !.tries = @ + 1]
<1>1. CASE Goes(a, "m_clean")
  BY <1>1, GatedGoes DEF Gated, Finalizing
<1>2. CASE Becomes(a, q)
  <2> HIDE DEF none
  <2>1. q.tip = p.tip /\ q.pc = "m_stage"
    BY DEF Processes
  <2> HIDE DEF q
  <2>2. Admissible(a, q)
    BY <2>1 DEF Admissible, Gated, Updating, Finalizing
  <2> QED
    BY <1>2, <2>2, AdmissibleStep DEF Becomes
<1> QED
  BY <1>1, <1>2 DEF Retries

\* The merge transaction appends to the very tip that passed the gate.
LEMMA MergeTxnGateInv ==
    ASSUME TypeOK, GateInv, NEW a \in Actors, MergeTxn(a)
    PROVE  GateInv'
<1> DEFINE p == proc[a]
           bind == [strategy |-> Command(a).arg, result |-> p.res]
           e == [Authored(a, "pr.merge") EXCEPT !.bind = bind]
<1>1. /\ p \in Processes /\ Legal(p, Made) /\ SoundProcess(p, pins) /\ p.pc = "m_txn"
      /\ todo[a] # <<>>
  BY DEF TypeOK, ProcessesTyped, GateInv, MergeTxn, At
<1>2. p.tip = chain /\ chain' = Extend(chain, e) /\ UNCHANGED pins
  BY DEF MergeTxn, FinalizeHolds, MergeEvent
<1>3. Gate(State(chain))
  BY <1>1, <1>2 DEF SoundProcess, Gated, Finalizing
<1>4. p.res \in Nat /\ p.res # NoCommit
  <2>1. p.res \in Made
    BY <1>1 DEF Legal, HasResult, Finalizing
  <2>2. Made = 1..Len(objects) /\ Len(objects) \in Nat
    BY LenProperties DEF TypeOK, ObjectsTyped, Made
  <2> QED
    BY <2>1, <2>2 DEF NoCommit
<1>5. Command(a).arg \in Words /\ CommandId(a) \in Ids /\ RoleOf[a] \in Roles
  BY <1>1, CommandTyped DEF TypeOK, Roles
<1>6. bind \in Binds /\ bind.result = p.res
  BY <1>4, <1>5 DEF Binds
<1> HIDE DEF bind
<1>7. e \in Events /\ e.kind = "pr.merge" /\ e.bind.result # NoCommit
  BY <1>4, <1>5, <1>6 DEF Authored, PrEvent, Events, Kinds, Words, NoCommit
<1> HIDE DEF e
<1>8. SoundChain(chain') /\ Covered(State(chain').gen, pins')
  BY <1>2, <1>3, <1>7, ChainGrows
<1>9. CASE Exits(a, "ok")
  <2>1. SoundProcess(Idle, pins')
    BY DEF SoundProcess, Idle, Gated, Updating, Finalizing
  <2> QED
    BY <1>2, <1>8, <1>9, <2>1, SoundStep DEF Exits
<1>10. CASE Goes(a, "m_refresh")
  <2> DEFINE q == [p EXCEPT !.pc = "m_refresh"]
  <2>1. proc' = [proc EXCEPT ![a] = q]
    BY <1>10 DEF Goes, Becomes
  <2>2. q.pc = "m_refresh" /\ q.tip = p.tip
    BY <1>1 DEF Processes
  <2> HIDE DEF q
  <2>3. SoundProcess(q, pins')
    BY <1>1, <1>2, <2>2 DEF SoundProcess, Gated, Updating, Finalizing
  <2> QED
    BY <1>2, <1>8, <2>1, <2>3, SoundStep
<1>11. CASE Unclear(a, "m_head")
  BY <1>1, <1>2, <1>8, <1>11, UnclearStep DEF Gated, Updating, Finalizing
<1> QED
  BY <1>9, <1>10, <1>11 DEF MergeTxn

\* The rest of run_finalize; a rollback goes back to a chain that is sound as well.
LEMMA MergeEndGateInv ==
    ASSUME TypeOK, GateInv, NEW a \in Actors,
           \/ MergeReadsHead(a) \/ MergeReadsIssue(a) \/ MergeCleans(a) \/ MergeLeavesPending(a)
           \/ MergeRefreshes(a) \/ MergeRefreshFails(a) \/ RollbackReadsHead(a)
           \/ Rollback(a) \/ RollbackFails(a)
    PROVE  GateInv'
<1> USE DEF Gated, Finalizing
<1> DEFINE p == proc[a]
<1>1. p \in Processes /\ Legal(p, Made) /\ SoundProcess(p, pins)
  BY DEF TypeOK, ProcessesTyped, GateInv
<1>2. CASE MergeReadsHead(a)
  <2> DEFINE q == [p EXCEPT !.tip = chain]
  <2>1. q \in Processes /\ q.tip = chain
    BY <1>1 DEF TypeOK, RefsTyped, Processes
  <2>2. \/ Goes(a, "m_issue") \/ Goes(a, "m_clean")
        \/ Retries(a, q) /\ Gate(State(chain))
    BY <1>2 DEF MergeReadsHead, Adoptable
  <2> HIDE DEF q
  <2> QED
    BY <1>2, <2>1, <2>2, GatedGoes, RetriesGateInv DEF MergeReadsHead, At, refs
<1>3. CASE MergeReadsIssue(a)
  <2>1. p.pc \in Gated /\ p.tip = proc[a].tip
    BY <1>3 DEF MergeReadsIssue, At
  <2>2. CASE Retries(a, p)
    BY <1>1, <1>3, <2>1, <2>2, RetriesGateInv DEF MergeReadsIssue, refs
  <2>3. CASE Goes(a, "m_clean")
    BY <1>3, <2>1, <2>3, GatedGoes DEF MergeReadsIssue, refs
  <2> QED
    BY <1>3, <2>2, <2>3 DEF MergeReadsIssue
<1>4. CASE MergeCleans(a)
  BY <1>4, ExitStep DEF MergeCleans
<1>5. CASE MergeLeavesPending(a)
  BY <1>5, QuietStep DEF MergeLeavesPending
<1>6. CASE MergeRefreshes(a)
  BY <1>6, QuietStep DEF MergeRefreshes
<1>7. CASE MergeRefreshFails(a)
  BY <1>7, GatedGoes DEF MergeRefreshFails, At, refs
<1>8. CASE RollbackReadsHead(a)
  <2>1. Admissible(a, [p EXCEPT !.pc = "m_rollback", !.seen = chain])
    BY <1>1, <1>8 DEF Admissible, Updating, Processes, RollbackReadsHead, At
  <2> QED
    BY <1>8, <2>1, QuietStep DEF RollbackReadsHead
<1>9. CASE Rollback(a)
  <2>1. p.tip # <<>>
    BY <1>1, <1>9 DEF Rollback, At, Legal, HasNoTip
  <2>2. SoundChain(chain') /\ Covered(State(chain').gen, pins')
    BY <1>1, <1>9, <2>1 DEF Rollback, SoundProcess
  <2>3. SoundProcess(Idle, pins')
    BY DEF SoundProcess, Idle, Updating
  <2> QED
    BY <1>9, <2>2, <2>3, SoundStep DEF Rollback, Exits
<1>10. CASE RollbackFails(a)
  BY <1>10, QuietStep DEF RollbackFails
<1> QED
  BY <1>2, <1>3, <1>4, <1>5, <1>6, <1>7, <1>8, <1>9, <1>10

\* Every step keeps the invariant: of the commands, of people outside them, of a kill.
LEMMA StepGateInv == TypeOK /\ GateInv /\ [Next]_vars => GateInv'
<1> SUFFICES ASSUME TypeOK, GateInv, [Next]_vars PROVE GateInv'
  OBVIOUS
<1>1. ASSUME NEW a \in Actors, ProcessStep(a) PROVE GateInv'
  <2>1. CASE MergeStep(a)
    BY <2>1, MergeStartGateInv, MergeTxnGateInv, MergeEndGateInv DEF MergeStep
  <2> QED
    BY <1>1, <2>1, AppendGateInv, UpdateGateInv, PrepareGateInv DEF ProcessStep
<1>2. ASSUME NEW a \in Actors, Crash(a) PROVE GateInv'
  <2>1. Admissible(a, Idle)
    BY DEF Admissible, Idle, Gated, Updating, Finalizing
  <2> QED
    BY <1>2, <2>1, AdmissibleStep DEF Crash, refs
<1>3. ASSUME UNCHANGED <<chain, pins, proc>> PROVE GateInv'
  <2>1. SoundChain(chain)' /\ Covered(State(chain).gen, pins)'
    BY <1>3 DEF GateInv
  <2>2. \A a \in Actors : SoundProcess(proc[a], pins)'
    BY <1>3 DEF GateInv
  <2> QED
    BY <2>1, <2>2 DEF GateInv
<1>4. CASE PushBase \/ RewindBase \/ PushSource \/ WriteIssue \/ UNCHANGED vars
  BY <1>3, <1>4 DEF PushBase, RewindBase, PushSource, WriteIssue, Outside, vars, refs
<1> QED
  BY <1>1, <1>2, <1>4 DEF Next

----------------------------------------------------------------------------
(***************************************************************************)
(* For every set of actors, roles, plans and bounds: a pr.merge event is   *)
(* only ever recorded after an approve of the newest generation that is    *)
(* the last review and not by the creating role, and after a green last    *)
(* check of the newest generation, with no abandon and no other merge      *)
(* before it.                                                              *)
(***************************************************************************)
THEOREM MergesAreAuthorised == Spec => []MergeAuthorised
<1>1. Init => TypeOK /\ GateInv
  BY InitTyped, InitGateInv
<1>2. TypeOK /\ GateInv /\ [Next]_vars => (TypeOK /\ GateInv)'
  BY StepTyped, StepGateInv
<1>3. TypeOK /\ GateInv => MergeAuthorised
  <2> SUFFICES ASSUME TypeOK, GateInv PROVE MergeAuthorised
    OBVIOUS
  <2>1. DOMAIN chain = 1..Len(chain)
    BY LenProperties DEF TypeOK, RefsTyped, Chains
  <2> QED
    BY <2>1 DEF MergeAuthorised, GateInv, SoundChain
<1> QED
  BY <1>1, <1>2, <1>3, PTL DEF Spec
=============================================================================

------------------------- MODULE RefTransactionProofs -------------------------
(***************************************************************************)
(* The dialogue with `git update-ref --stdin` is an atomic transaction,    *)
(* for any number of callers, any transactions on any refs, any size of    *)
(* the pipes and any number of faults, kills and foreign writes.           *)
(*                                                                         *)
(* What carries the argument is the lock: from the moment git says that it *)
(* has prepared until it is told to commit, it holds the locks of all its  *)
(* lines, so that what git compared and what the caller tested under them  *)
(* is still so when the lines are written.                                 *)
(***************************************************************************)
EXTENDS RefTransaction, SequenceTheorems, TLAPS

----------------------------------------------------------------------------
(* The inductive invariant. *)

Messages == {"start", "prepare", "commit", "abort", "torn"}

\* What git has not read yet of a request; and of one that was given up.
Request == {<<>>, <<"prepare">>, <<"start", "prepare">>}
GivenUp == {<<"abort">>, <<"prepare", "abort">>, <<"start", "prepare", "abort">>}
Inputs == Request \cup GivenUp \cup {<<"commit">>}

\* git has said that it is prepared, and the caller has not read that yet.
SaysPrepared(c) == \E i \in 1..Len(stdout[c]) : stdout[c][i] = "prepare"

\* The lines of S are locked for c, and hold.
Secured(c, S) ==
    \A r \in S : lock[r] = c /\ Atomic!Matches(asked[c].lines[r].old, value[r])

\* git is prepared and waits for the word, or it is no more.
Waiting(c) ==
    \/ GitAt(c, "exited")
    \/ GitAt(c, "reading") /\ stdin[c] = <<>> /\ Secured(c, Lines(c))

CallerStates == [pc : {"spawning", "sending", "awaiting", "testing", "ending", "closed",
                       "returned", "killed"},
                 untested : SUBSET Refs, present : BOOLEAN, committing : BOOLEAN]
GitStates == [pc : {"none", "reading", "locking", "hook", "exited"},
              left : SUBSET Refs, noise : 0..HookOutput, ok : BOOLEAN]

AskedTyped ==
    \A c \in Callers : /\ Lines(c) \subseteq Refs /\ asked[c].absent \subseteq Lines(c)
                       /\ \A r \in Lines(c) : asked[c].lines[r].new \in Forms

PipesTyped ==
    stdin \in [Callers -> Inputs] /\ stdout \in [Callers -> Seq(Messages)]

\* What is in the pipes, by where the caller is.
PipesSound(c) ==
    /\ caller[c].pc \in {"spawning", "sending"} => stdin[c] = <<>> /\ ~SaysPrepared(c)
    /\ caller[c].pc \in {"awaiting", "testing", "ending"} => stdin[c] \in Request
    /\ stdin[c] = <<"commit">> => caller[c].committing /\ c \notin applied

\* Where git may be, by where the caller is.
GitSound(c) ==
    /\ GitAt(c, "none") => /\ caller[c].pc \in {"spawning", "returned", "killed"}
                           /\ stdin[c] = <<>> /\ \A r \in Refs : lock[r] # c
    /\ At(c, "spawning") => GitAt(c, "none")
    /\ At(c, "sending") => git[c].pc \in {"reading", "exited"}
    /\ At(c, "returned") => git[c].pc \in {"none", "exited"}
    /\ git[c].pc \in {"locking", "hook"} =>
          /\ At(c, "awaiting") => stdin[c] = <<>> /\ ~SaysPrepared(c)
          /\ git[c].left \subseteq Lines(c) /\ Secured(c, Lines(c) \ git[c].left)
          /\ GitAt(c, "hook") => git[c].left = {}
    /\ GitAt(c, "exited") /\ git[c].ok => Gone(c) \/ At(c, "closed")
    /\ \A r \in Refs : lock[r] = c => ~(GitAt(c, "exited") /\ git[c].ok)

\* What the caller may rely on, and what it has done.
CallerSound(c) ==
    /\ At(c, "awaiting") => (SaysPrepared(c) => Waiting(c)) /\ caller[c].untested = {}
    /\ At(c, "testing") => /\ Waiting(c) /\ ~caller[c].committing
                           /\ ~GitAt(c, "exited") =>
                                 \A r \in asked[c].absent \ caller[c].untested : value[r] = "absent"
    /\ caller[c].pc \in {"spawning", "sending", "awaiting"} => ~caller[c].committing
    /\ At(c, "ending") /\ caller[c].committing => Waiting(c)
    /\ At(c, "spawning") \/ At(c, "sending") => caller[c].untested = {}
    /\ c \in applied => caller[c].committing /\ (Gone(c) \/ At(c, "closed"))

\* A commit that was asked for and has not been read: everything still holds.
CommitSound(c) ==
    /\ caller[c].committing =>
          /\ git[c].pc \in {"reading", "exited"}
          /\ GitAt(c, "reading") /\ c \notin applied =>
                /\ Secured(c, Lines(c)) /\ \A r \in asked[c].absent : value[r] = "absent"
                /\ At(c, "closed") => stdin[c] = <<"commit">>
                /\ stdin[c] \in {<<>>, <<"commit">>}
          /\ GitAt(c, "exited") /\ git[c].ok /\ At(c, "closed") => c \in applied
          /\ c \in applied => stdin[c] = <<>>

Sound(c) ==
    PipesSound(c) /\ GitSound(c) /\ CallerSound(c) /\ CommitSound(c)

AnswersSound ==
    /\ answer \in [Callers -> {"none", "ok", "err"}]
    /\ applied \subseteq Callers
    /\ \A c \in Callers : answer[c] = "ok" => c \in applied

DialogueInv ==
    /\ TransactionTypeOK /\ AskedTyped /\ PipesTyped /\ AnswersSound
    /\ \A c \in Callers : Sound(c)

----------------------------------------------------------------------------
(* The pipes. *)

\* A sequence with the elements of s and then those of t is their concatenation.
LEMMA ConcatIs ==
    ASSUME NEW S, NEW s \in Seq(S), NEW t \in Seq(S), NEW u \in Seq(S),
           Len(u) = Len(s) + Len(t),
           \A i \in 1..Len(u) : u[i] = IF i <= Len(s) THEN s[i] ELSE t[i - Len(s)]
    PROVE  s \o t = u
<1> DEFINE v == s \o t
<1>1. /\ v \in Seq(S) /\ Len(v) = Len(s) + Len(t)
      /\ \A i \in 1..Len(s) + Len(t) : v[i] = IF i <= Len(s) THEN s[i] ELSE t[i - Len(s)]
  BY ConcatProperties
<1> HIDE DEF v
<1>2. Len(v) = Len(u) /\ \A i \in 1..Len(v) : v[i] = u[i]
  BY <1>1
<1>3. v = u
  BY <1>1, <1>2, SeqEqual
<1> QED
  BY <1>3 DEF v

\* A message written behind two others, or behind one.
LEMMA Behind ==
    ASSUME NEW x, NEW y, NEW z
    PROVE  <<x, y>> \o <<z>> = <<x, y, z>> /\ <<x>> \o <<y>> = <<x, y>>
<1> DEFINE S == {x, y, z}
           p == <<x>>
           q == <<y>>
           r == <<z>>
           pq == <<x, y>>
           pqr == <<x, y, z>>
<1>1. /\ p \in Seq(S) /\ Len(p) = 1 /\ p[1] = x
      /\ q \in Seq(S) /\ Len(q) = 1 /\ q[1] = y
      /\ r \in Seq(S) /\ Len(r) = 1 /\ r[1] = z
      /\ pq \in Seq(S) /\ Len(pq) = 2 /\ pq[1] = x /\ pq[2] = y
      /\ pqr \in Seq(S) /\ Len(pqr) = 3 /\ pqr[1] = x /\ pqr[2] = y /\ pqr[3] = z
  OBVIOUS
<1> HIDE DEF S, p, q, r, pq, pqr
<1>2. pq \o r = pqr
  <2>1. Len(pqr) = Len(pq) + Len(r)
    BY <1>1
  <2>2. \A i \in 1..Len(pqr) : pqr[i] = IF i <= Len(pq) THEN pq[i] ELSE r[i - Len(pq)]
    BY <1>1
  <2> QED
    BY <1>1, <2>1, <2>2, ConcatIs, Zenon
<1>3. p \o q = pq
  <2>1. Len(pq) = Len(p) + Len(q)
    BY <1>1
  <2>2. \A i \in 1..Len(pq) : pq[i] = IF i <= Len(p) THEN p[i] ELSE q[i - Len(p)]
    BY <1>1
  <2> QED
    BY <1>1, <2>1, <2>2, ConcatIs, Zenon
<1> QED
  BY <1>2, <1>3 DEF p, q, r, pq, pqr

\* What becomes of the input when a message is written to it.
LEMMA InputGrows ==
    /\ <<>> \in Request /\ <<>> \o <<"start", "prepare">> \in Request
    /\ <<>> \o <<"commit">> = <<"commit">>
    /\ \A s \in Request : s \o <<"abort">> \in GivenUp
    /\ <<"commit">> \notin Request \cup GivenUp /\ GivenUp \cap Request = {}
<1>1. <<>> \o <<"start", "prepare">> = <<"start", "prepare">>
  OBVIOUS
<1>2. \A m : <<>> \o <<m>> = <<m>>
  OBVIOUS
<1>3. \A s \in Request : s \o <<"abort">> \in GivenUp
  BY <1>2, Behind DEF Request, GivenUp
<1>4. <<"commit">> \notin Request \cup GivenUp /\ GivenUp \cap Request = {}
  BY DEF Request, GivenUp
<1> QED
  BY <1>1, <1>2, <1>3, <1>4 DEF Request

\* What becomes of it when git reads one.
LEMMA InputShrinks ==
    ASSUME NEW s \in Inputs, s # <<>>
    PROVE  /\ Tail(s) \in Request \cup GivenUp
           /\ s \in Request => Tail(s) \in Request /\ Head(s) \in {"start", "prepare"}
           /\ s \in Request /\ Head(s) = "prepare" => Tail(s) = <<>>
           /\ Head(s) = "commit" <=> s = <<"commit">>
           /\ s = <<"commit">> => Tail(s) = <<>>
<1>1. CASE s = <<"prepare">>
  BY <1>1 DEF Request, GivenUp
<1>2. CASE s = <<"start", "prepare">>
  BY <1>2 DEF Request, GivenUp
<1>3. CASE s = <<"abort">>
  BY <1>3 DEF Request, GivenUp
<1>4. CASE s = <<"prepare", "abort">>
  BY <1>4 DEF Request, GivenUp
<1>5. CASE s = <<"start", "prepare", "abort">>
  BY <1>5 DEF Request, GivenUp
<1>6. CASE s = <<"commit">>
  BY <1>6 DEF Inputs, Request, GivenUp
<1> QED
  BY <1>1, <1>2, <1>3, <1>4, <1>5, <1>6 DEF Inputs, Request, GivenUp

\* A reply adds itself to the output and nothing else.
LEMMA OutputGrows ==
    ASSUME NEW s \in Seq(Messages), NEW m \in Messages
    PROVE  /\ Append(s, m) \in Seq(Messages)
           /\ m # "prepare" /\ (\E i \in 1..Len(Append(s, m)) : Append(s, m)[i] = "prepare")
                 => \E i \in 1..Len(s) : s[i] = "prepare"
<1>1. /\ Append(s, m) \in Seq(Messages) /\ Len(Append(s, m)) = Len(s) + 1
      /\ \A i \in 1..Len(s) : Append(s, m)[i] = s[i]
      /\ Append(s, m)[Len(s) + 1] = m
  BY AppendProperties
<1>2. Len(s) \in Nat
  BY LenProperties
<1> QED
  BY <1>1, <1>2

\* What the caller has not read was there before it read.
LEMMA OutputShrinks ==
    ASSUME NEW s \in Seq(Messages), s # <<>>
    PROVE  /\ Tail(s) \in Seq(Messages)
           /\ (\E i \in 1..Len(Tail(s)) : Tail(s)[i] = "prepare")
                 => \E i \in 1..Len(s) : s[i] = "prepare"
           /\ Head(s) = "prepare" => \E i \in 1..Len(s) : s[i] = "prepare"
<1>1. /\ Tail(s) \in Seq(Messages) /\ Len(Tail(s)) = Len(s) - 1
      /\ \A i \in 1..Len(Tail(s)) : Tail(s)[i] = s[i + 1]
      /\ Head(s) = s[1] /\ Len(s) \in Nat \ {0}
  BY HeadTailProperties, EmptySeq, LenProperties
<1> QED
  BY <1>1

----------------------------------------------------------------------------
(* What one dialogue does leaves the others as they are. *)

\* Nothing of d's has changed, and its locks still keep the refs they guard.
Undisturbed(d) ==
    /\ caller'[d] = caller[d] /\ git'[d] = git[d] /\ asked' = asked
    /\ stdin'[d] = stdin[d] /\ stdout'[d] = stdout[d]
    /\ d \in applied' <=> d \in applied
    /\ \A r \in Refs : /\ lock'[r] = d <=> lock[r] = d
                       /\ lock[r] = d => value'[r] = value[r]

\* A dialogue that is left alone stays sound.
LEMMA UndisturbedSound ==
    ASSUME AskedTyped, NEW d \in Callers, Sound(d), Undisturbed(d)
    PROVE  Sound(d)'
<1>1. Lines(d)' = Lines(d) /\ Lines(d) \subseteq Refs /\ asked[d].absent \subseteq Lines(d)
  BY DEF AskedTyped, Undisturbed, Lines
<1>2. ASSUME NEW S, S \subseteq Lines(d), Secured(d, S) PROVE Secured(d, S)'
  BY <1>1, <1>2 DEF Secured, Undisturbed
<1>3. SaysPrepared(d)' <=> SaysPrepared(d)
  BY DEF SaysPrepared, Undisturbed
<1>4. Waiting(d) => Waiting(d)'
  BY <1>1, <1>2 DEF Waiting, GitAt, Undisturbed
<1>5. PipesSound(d)'
  BY <1>3 DEF Sound, PipesSound, Undisturbed
<1>6. GitSound(d)'
  <2>1. git[d].pc \in {"locking", "hook"} =>
            Secured(d, Lines(d) \ git[d].left)'
    BY <1>1 DEF Sound, GitSound, Secured, Undisturbed
  <2> QED
    BY <1>1, <1>3, <2>1 DEF Sound, GitSound, At, GitAt, Gone, Undisturbed
<1>7. CallerSound(d)'
  <2>1. At(d, "testing") /\ ~GitAt(d, "exited") =>
            \A r \in asked[d].absent \ caller[d].untested : value'[r] = "absent"
    <3> SUFFICES ASSUME At(d, "testing"), ~GitAt(d, "exited"),
                        NEW r \in asked[d].absent \ caller[d].untested
                 PROVE  value'[r] = "absent"
      OBVIOUS
    <3>1. r \in Refs /\ lock[r] = d /\ value[r] = "absent"
      BY <1>1 DEF Sound, CallerSound, Waiting, Secured
    <3> QED
      BY <3>1 DEF Undisturbed
  <2> QED
    BY <1>1, <1>3, <1>4, <2>1 DEF Sound, CallerSound, At, GitAt, Gone, Undisturbed
<1>8. CommitSound(d)'
  <2>1. ASSUME caller[d].committing, GitAt(d, "reading"), d \notin applied
        PROVE  Secured(d, Lines(d))' /\ \A r \in asked[d].absent : value'[r] = "absent"
    <3>1. Secured(d, Lines(d)) /\ \A r \in asked[d].absent : value[r] = "absent"
      BY <2>1 DEF Sound, CommitSound
    <3> QED
      BY <1>1, <1>2, <3>1 DEF Undisturbed, Secured
  <2> QED
    BY <1>1, <2>1 DEF Sound, CommitSound, At, GitAt, Undisturbed
<1> QED
  BY <1>5, <1>6, <1>7, <1>8 DEF Sound

\* A step of c's changes nothing but c's.
Only(c) ==
    /\ asked' = asked
    /\ \A d \in Callers \ {c} :
          /\ caller'[d] = caller[d] /\ git'[d] = git[d] /\ answer'[d] = answer[d]
          /\ stdin'[d] = stdin[d] /\ stdout'[d] = stdout[d]
          /\ d \in applied' <=> d \in applied
    /\ \A r \in Refs : lock[r] # c => \/ lock'[r] = lock[r] /\ value'[r] = value[r]
                                      \/ lock[r] = "free" /\ lock'[r] = c /\ value'[r] = value[r]
    /\ \A r \in Refs : lock[r] = c => lock'[r] \in {c, "free"}

\* The invariant is kept by a step of c's that keeps the types and c's own part of it.
LEMMA OnlyKeeps ==
    ASSUME DialogueInv, NEW c \in Callers, Only(c), TransactionTypeOK', PipesTyped',
           answer' \in [Callers -> {"none", "ok", "err"}], applied' \subseteq Callers,
           Sound(c)', answer'[c] = "ok" => c \in applied'
    PROVE  DialogueInv'
<1>1. ASSUME NEW d \in Callers \ {c} PROVE Undisturbed(d)
  <2>1. "free" \notin Callers
    BY CasesAssumption
  <2> QED
    BY <2>1 DEF Only, Undisturbed
<1>2. \A d \in Callers : Sound(d)'
  BY <1>1, UndisturbedSound DEF DialogueInv
<1>3. AskedTyped'
  BY DEF DialogueInv, AskedTyped, Only, Lines
<1>4. AnswersSound'
  BY DEF DialogueInv, AnswersSound, Only
<1> QED
  BY <1>2, <1>3, <1>4 DEF DialogueInv

----------------------------------------------------------------------------
(* The caller. *)

\* A step of the git-forge process keeps the invariant, whether it succeeds, fails or is
\* killed (update_ref.rs run_update_ref_transaction).
LEMMA CallerKeeps ==
    ASSUME DialogueInv, NEW c \in Callers,
           CallerStep(c) \/ DrainErrors(c) \/ SpawnFails(c) \/ NotPrepared(c) \/ Crash(c)
    PROVE  DialogueInv'
<1>1. /\ TransactionTypeOK /\ AskedTyped /\ PipesTyped /\ AnswersSound
      /\ PipesSound(c) /\ GitSound(c) /\ CallerSound(c) /\ CommitSound(c)
  BY DEF DialogueInv, Sound
<1>0. caller \in [Callers -> CallerStates] /\ git \in [Callers -> GitStates]
  BY <1>1 DEF TransactionTypeOK, CallerStates, GitStates
<1>2. ASSUME UpdateRefSpawn(c) PROVE DialogueInv'
  <2>1. TransactionTypeOK'
    <3>1. value' \in [Refs -> Forms] /\ lock' \in [Refs -> Callers \cup {"free"}]
      BY <1>1, <1>2 DEF UpdateRefSpawn, RefsKept, TransactionTypeOK
    <3>2. caller' \in [Callers -> CallerStates]
      BY <1>0, <1>1, <1>2 DEF UpdateRefSpawn, At, CallerStates, AskedTyped, Lines
    <3>5. git' \in [Callers -> GitStates]
      BY <1>0, <1>2 DEF UpdateRefSpawn, GitStates
    <3>3. stderr' \in [Callers -> 0..PipeSize]
      BY <1>1, <1>2, CasesAssumption DEF UpdateRefSpawn, RefsKept, pipes, TransactionTypeOK
    <3>4. \A d \in Callers :
             /\ (answer'[d] # "none") = (caller'[d].pc = "returned")
             /\ caller'[d].untested # {} =>
                   caller'[d].pc \in {"testing", "killed"} \/ caller'[d].present
      BY <1>1, <1>2 DEF UpdateRefSpawn, RefsKept, pipes, At, TransactionTypeOK, AnswersSound, CallerSound
    <3> QED
      BY <3>1, <3>2, <3>3, <3>4, <3>5 DEF TransactionTypeOK, At, CallerStates, GitStates
  <2>7. PipesTyped'
    BY <1>1, <1>2, InputGrows, OutputShrinks
       DEF UpdateRefSpawn, RefsKept, pipes, At, PipesTyped, PipesSound, CallerSound, Inputs, Waiting
  <2>2. PipesSound(c)'
    BY <1>1, <1>2, InputGrows, OutputShrinks
       DEF UpdateRefSpawn, RefsKept, pipes, At, GitAt, TransactionTypeOK, PipesTyped, PipesSound, CallerSound, GitSound, SaysPrepared, Waiting
  <2>3. GitSound(c)'
    BY <1>1, <1>2, OutputShrinks
       DEF UpdateRefSpawn, RefsKept, pipes, At, GitAt, Lines, Secured, TransactionTypeOK, PipesTyped, PipesSound, GitSound, CallerSound, Waiting, SaysPrepared, Gone
  <2>4. CallerSound(c)'
    BY <1>1, <1>2, OutputShrinks
       DEF UpdateRefSpawn, RefsKept, pipes, At, GitAt, Lines, Secured, TransactionTypeOK, PipesTyped, PipesSound, GitSound, CallerSound, Waiting, SaysPrepared, Gone
  <2>5. CommitSound(c)'
    BY <1>1, <1>2, InputGrows
       DEF UpdateRefSpawn, RefsKept, pipes, At, GitAt, Lines, Secured, TransactionTypeOK, PipesTyped, PipesSound, GitSound, CallerSound, CommitSound, Waiting, SaysPrepared, Gone
  <2>6. Only(c) /\ AnswersSound'
    BY <1>1, <1>2 DEF UpdateRefSpawn, RefsKept, pipes, Only, AnswersSound, At, CommitSound, GitAt, TransactionTypeOK
  <2> QED
    BY <2>1, <2>2, <2>3, <2>4, <2>5, <2>6, <2>7, OnlyKeeps DEF Sound, AnswersSound
<1>3. ASSUME SpawnFails(c) PROVE DialogueInv'
  <2>1. TransactionTypeOK'
    <3>1. value' \in [Refs -> Forms] /\ lock' \in [Refs -> Callers \cup {"free"}]
      BY <1>1, <1>3 DEF SpawnFails, RefsKept, TransactionTypeOK
    <3>2. caller' \in [Callers -> CallerStates]
      BY <1>0, <1>1, <1>3 DEF SpawnFails, At, CallerStates, AskedTyped, Lines
    <3>5. git' \in [Callers -> GitStates]
      BY <1>0, <1>3 DEF SpawnFails, GitStates
    <3>3. stderr' \in [Callers -> 0..PipeSize]
      BY <1>1, <1>3, CasesAssumption DEF SpawnFails, RefsKept, pipes, TransactionTypeOK
    <3>4. \A d \in Callers :
             /\ (answer'[d] # "none") = (caller'[d].pc = "returned")
             /\ caller'[d].untested # {} =>
                   caller'[d].pc \in {"testing", "killed"} \/ caller'[d].present
      BY <1>1, <1>3 DEF SpawnFails, RefsKept, pipes, At, TransactionTypeOK, AnswersSound, CallerSound
    <3> QED
      BY <3>1, <3>2, <3>3, <3>4, <3>5 DEF TransactionTypeOK, At, CallerStates, GitStates
  <2>7. PipesTyped'
    BY <1>1, <1>3, InputGrows, OutputShrinks
       DEF SpawnFails, RefsKept, pipes, At, PipesTyped, PipesSound, CallerSound, Inputs, Waiting
  <2>2. PipesSound(c)'
    BY <1>1, <1>3, InputGrows, OutputShrinks
       DEF SpawnFails, RefsKept, pipes, At, GitAt, TransactionTypeOK, PipesTyped, PipesSound, CallerSound, GitSound, SaysPrepared, Waiting
  <2>3. GitSound(c)'
    BY <1>1, <1>3, OutputShrinks
       DEF SpawnFails, RefsKept, pipes, At, GitAt, Lines, Secured, TransactionTypeOK, PipesTyped, PipesSound, GitSound, CallerSound, Waiting, SaysPrepared, Gone
  <2>4. CallerSound(c)'
    BY <1>1, <1>3, OutputShrinks
       DEF SpawnFails, RefsKept, pipes, At, GitAt, Lines, Secured, TransactionTypeOK, PipesTyped, PipesSound, GitSound, CallerSound, Waiting, SaysPrepared, Gone
  <2>5. CommitSound(c)'
    BY <1>1, <1>3, InputGrows
       DEF SpawnFails, RefsKept, pipes, At, GitAt, Lines, Secured, TransactionTypeOK, PipesTyped, PipesSound, GitSound, CallerSound, CommitSound, Waiting, SaysPrepared, Gone
  <2>6. Only(c) /\ AnswersSound'
    BY <1>1, <1>3 DEF SpawnFails, RefsKept, pipes, Only, AnswersSound, At, CommitSound, GitAt, TransactionTypeOK
  <2> QED
    BY <2>1, <2>2, <2>3, <2>4, <2>5, <2>6, <2>7, OnlyKeeps DEF Sound, AnswersSound
<1>4. ASSUME SendRequest(c) PROVE DialogueInv'
  <2>1. TransactionTypeOK'
    <3>1. value' \in [Refs -> Forms] /\ lock' \in [Refs -> Callers \cup {"free"}]
      BY <1>1, <1>4 DEF SendRequest, RefsKept, TransactionTypeOK
    <3>2. caller' \in [Callers -> CallerStates]
      BY <1>0, <1>1, <1>4 DEF SendRequest, At, CallerStates, AskedTyped, Lines, Sends
    <3>5. git' \in [Callers -> GitStates]
      BY <1>0, <1>4 DEF SendRequest, GitStates, Sends
    <3>3. stderr' \in [Callers -> 0..PipeSize]
      BY <1>1, <1>4, CasesAssumption DEF SendRequest, RefsKept, pipes, TransactionTypeOK, Sends
    <3>4. \A d \in Callers :
             /\ (answer'[d] # "none") = (caller'[d].pc = "returned")
             /\ caller'[d].untested # {} =>
                   caller'[d].pc \in {"testing", "killed"} \/ caller'[d].present
      BY <1>1, <1>4 DEF SendRequest, RefsKept, pipes, At, TransactionTypeOK, AnswersSound, CallerSound, Sends
    <3> QED
      BY <3>1, <3>2, <3>3, <3>4, <3>5 DEF TransactionTypeOK, At, CallerStates, GitStates
  <2>7. PipesTyped'
    BY <1>1, <1>4, InputGrows, OutputShrinks
       DEF SendRequest, RefsKept, pipes, At, PipesTyped, PipesSound, CallerSound, Inputs, Waiting, Sends
  <2>8. stdin'[c] \in Request
    BY <1>1, <1>4, InputGrows DEF SendRequest, Sends, At, PipesTyped, PipesSound
  <2>2. PipesSound(c)'
    BY <1>0, <1>4, <2>8, InputGrows DEF SendRequest, RefsKept, At, PipesSound
  <2>3. GitSound(c)'
    BY <1>1, <1>4, OutputShrinks
       DEF SendRequest, RefsKept, pipes, At, GitAt, Lines, Secured, TransactionTypeOK, PipesTyped, PipesSound, GitSound, CallerSound, Waiting, SaysPrepared, Gone, Sends
  <2>4. CallerSound(c)'
    BY <1>1, <1>4, OutputShrinks
       DEF SendRequest, RefsKept, pipes, At, GitAt, Lines, Secured, TransactionTypeOK, PipesTyped, PipesSound, GitSound, CallerSound, Waiting, SaysPrepared, Gone, Sends
  <2>5. CommitSound(c)'
    BY <1>1, <1>4, InputGrows
       DEF SendRequest, RefsKept, pipes, At, GitAt, Lines, Secured, TransactionTypeOK, PipesTyped, PipesSound, GitSound, CallerSound, CommitSound, Waiting, SaysPrepared, Gone, Sends
  <2>6. Only(c) /\ AnswersSound'
    BY <1>1, <1>4 DEF SendRequest, RefsKept, pipes, Only, AnswersSound, At, CommitSound, GitAt, TransactionTypeOK, Sends
  <2> QED
    BY <2>1, <2>2, <2>3, <2>4, <2>5, <2>6, <2>7, OnlyKeeps DEF Sound, AnswersSound
<1>5. ASSUME ReadReply(c) PROVE DialogueInv'
  <2>1. TransactionTypeOK'
    <3>1. value' \in [Refs -> Forms] /\ lock' \in [Refs -> Callers \cup {"free"}]
      BY <1>1, <1>5 DEF ReadReply, RefsKept, TransactionTypeOK
    <3>2. caller' \in [Callers -> CallerStates]
      <4>1. asked[c].absent \subseteq Refs
        BY <1>1 DEF AskedTyped
      <4>2. PICK pc \in {"awaiting", "testing", "ending"},
                 untested \in {asked[c].absent, caller[c].untested} :
               caller' = [caller EXCEPT ![c].pc = pc, ![c].untested = untested]
        BY <1>5 DEF ReadReply, At
      <4> QED
        BY ZenonT(60), <1>0, <4>1, <4>2 DEF CallerStates
    <3>5. git' \in [Callers -> GitStates]
      BY <1>0, <1>5 DEF ReadReply, GitStates, Prepared
    <3>3. stderr' \in [Callers -> 0..PipeSize]
      BY <1>1, <1>5, CasesAssumption DEF ReadReply, RefsKept, pipes, TransactionTypeOK, Prepared
    <3>4. \A d \in Callers :
             /\ (answer'[d] # "none") = (caller'[d].pc = "returned")
             /\ caller'[d].untested # {} =>
                   caller'[d].pc \in {"testing", "killed"} \/ caller'[d].present
      <4>1. answer' = answer /\ \A d \in Callers \ {c} : caller'[d] = caller[d]
        BY <1>0, <1>5 DEF ReadReply
      <4>2. /\ caller[c].pc = "awaiting" /\ caller'[c].pc # "returned"
            /\ caller'[c].untested # {} => caller'[c].pc = "testing"
        BY <1>0, <1>1, <1>5 DEF ReadReply, At, Prepared, CallerSound
      <4> QED
        BY <1>1, <4>1, <4>2 DEF TransactionTypeOK, At
    <3> QED
      BY <3>1, <3>2, <3>3, <3>4, <3>5 DEF TransactionTypeOK, At, CallerStates, GitStates
  <2>7. PipesTyped'
    BY <1>1, <1>5, InputGrows, OutputShrinks
       DEF ReadReply, RefsKept, pipes, At, PipesTyped, PipesSound, CallerSound, Inputs, Waiting, Prepared
  <2>2. PipesSound(c)'
    BY <1>1, <1>5, InputGrows, OutputShrinks
       DEF ReadReply, RefsKept, pipes, At, GitAt, TransactionTypeOK, PipesTyped, PipesSound, CallerSound, GitSound, SaysPrepared, Waiting, Prepared
  <2>3. GitSound(c)'
    <3>1. SaysPrepared(c)' => SaysPrepared(c)
      BY <1>1, <1>5, OutputShrinks DEF ReadReply, PipesTyped, SaysPrepared
    <3>2. /\ At(c, "awaiting") /\ caller'[c].pc \in {"awaiting", "testing", "ending"}
          /\ git' = git /\ stdin' = stdin /\ lock' = lock /\ value' = value /\ asked' = asked
      BY <1>0, <1>5 DEF ReadReply, RefsKept, At
    <3>3. caller'[c].pc = "testing" => SaysPrepared(c)
      BY <1>0, <1>1, <1>5, OutputShrinks
         DEF ReadReply, At, Prepared, PipesTyped, SaysPrepared
    <3> QED
      BY <1>1, <3>1, <3>2, <3>3 DEF GitSound, CallerSound, Waiting, Secured, Lines, At, GitAt, Gone
  <2>4. CallerSound(c)'
    BY <1>1, <1>5, OutputShrinks
       DEF ReadReply, RefsKept, pipes, At, GitAt, Lines, Secured, TransactionTypeOK, PipesTyped, PipesSound, GitSound, CallerSound, Waiting, SaysPrepared, Gone, Prepared
  <2>5. CommitSound(c)'
    BY <1>1, <1>5, InputGrows
       DEF ReadReply, RefsKept, pipes, At, GitAt, Lines, Secured, TransactionTypeOK, PipesTyped, PipesSound, GitSound, CallerSound, CommitSound, Waiting, SaysPrepared, Gone, Prepared
  <2>6. Only(c) /\ AnswersSound'
    BY <1>1, <1>5 DEF ReadReply, RefsKept, pipes, Only, AnswersSound, At, CommitSound, GitAt, TransactionTypeOK, Prepared
  <2> QED
    BY <2>1, <2>2, <2>3, <2>4, <2>5, <2>6, <2>7, OnlyKeeps DEF Sound, AnswersSound
<1>6. ASSUME NotPrepared(c) PROVE DialogueInv'
  <2>1. TransactionTypeOK'
    <3>1. value' \in [Refs -> Forms] /\ lock' \in [Refs -> Callers \cup {"free"}]
      BY <1>1, <1>6 DEF NotPrepared, RefsKept, TransactionTypeOK
    <3>2. caller' \in [Callers -> CallerStates]
      BY <1>0, <1>1, <1>6 DEF NotPrepared, At, CallerStates, AskedTyped, Lines
    <3>5. git' \in [Callers -> GitStates]
      BY <1>0, <1>6 DEF NotPrepared, GitStates
    <3>3. stderr' \in [Callers -> 0..PipeSize]
      BY <1>1, <1>6, CasesAssumption DEF NotPrepared, RefsKept, pipes, TransactionTypeOK
    <3>4. \A d \in Callers :
             /\ (answer'[d] # "none") = (caller'[d].pc = "returned")
             /\ caller'[d].untested # {} =>
                   caller'[d].pc \in {"testing", "killed"} \/ caller'[d].present
      BY <1>1, <1>6 DEF NotPrepared, RefsKept, pipes, At, TransactionTypeOK, AnswersSound, CallerSound
    <3> QED
      BY <3>1, <3>2, <3>3, <3>4, <3>5 DEF TransactionTypeOK, At, CallerStates, GitStates
  <2>7. PipesTyped'
    BY <1>1, <1>6, InputGrows, OutputShrinks
       DEF NotPrepared, RefsKept, pipes, At, PipesTyped, PipesSound, CallerSound, Inputs, Waiting
  <2>2. PipesSound(c)'
    BY <1>1, <1>6, InputGrows, OutputShrinks
       DEF NotPrepared, RefsKept, pipes, At, GitAt, TransactionTypeOK, PipesTyped, PipesSound, CallerSound, GitSound, SaysPrepared, Waiting
  <2>3. GitSound(c)'
    BY <1>1, <1>6, OutputShrinks
       DEF NotPrepared, RefsKept, pipes, At, GitAt, Lines, Secured, TransactionTypeOK, PipesTyped, PipesSound, GitSound, CallerSound, Waiting, SaysPrepared, Gone
  <2>4. CallerSound(c)'
    BY <1>1, <1>6, OutputShrinks
       DEF NotPrepared, RefsKept, pipes, At, GitAt, Lines, Secured, TransactionTypeOK, PipesTyped, PipesSound, GitSound, CallerSound, Waiting, SaysPrepared, Gone
  <2>5. CommitSound(c)'
    BY <1>1, <1>6, InputGrows
       DEF NotPrepared, RefsKept, pipes, At, GitAt, Lines, Secured, TransactionTypeOK, PipesTyped, PipesSound, GitSound, CallerSound, CommitSound, Waiting, SaysPrepared, Gone
  <2>6. Only(c) /\ AnswersSound'
    BY <1>1, <1>6 DEF NotPrepared, RefsKept, pipes, Only, AnswersSound, At, CommitSound, GitAt, TransactionTypeOK
  <2> QED
    BY <2>1, <2>2, <2>3, <2>4, <2>5, <2>6, <2>7, OnlyKeeps DEF Sound, AnswersSound
<1>7. ASSUME TestAbsent(c) PROVE DialogueInv'
  <2>1. TransactionTypeOK'
    <3>1. value' \in [Refs -> Forms] /\ lock' \in [Refs -> Callers \cup {"free"}]
      BY <1>1, <1>7 DEF TestAbsent, RefsKept, TransactionTypeOK
    <3>2. caller' \in [Callers -> CallerStates]
      <4>1. PICK r \in caller[c].untested, pc \in {"testing", "ending"}, present \in BOOLEAN :
               caller' = [caller EXCEPT ![c].untested = @ \ {r}, ![c].present = present,
                                        ![c].pc = pc]
        BY <1>7 DEF TestAbsent, At, RefPresent
      <4> QED
        BY ZenonT(60), <1>0, <4>1 DEF CallerStates
    <3>5. git' \in [Callers -> GitStates]
      BY <1>0, <1>7 DEF TestAbsent, GitStates, RefPresent
    <3>3. stderr' \in [Callers -> 0..PipeSize]
      BY <1>1, <1>7, CasesAssumption DEF TestAbsent, RefsKept, pipes, TransactionTypeOK, RefPresent
    <3>4. \A d \in Callers :
             /\ (answer'[d] # "none") = (caller'[d].pc = "returned")
             /\ caller'[d].untested # {} =>
                   caller'[d].pc \in {"testing", "killed"} \/ caller'[d].present
      BY <1>1, <1>7 DEF TestAbsent, RefsKept, pipes, At, TransactionTypeOK, AnswersSound, CallerSound, RefPresent
    <3> QED
      BY <3>1, <3>2, <3>3, <3>4, <3>5 DEF TransactionTypeOK, At, CallerStates, GitStates
  <2>7. PipesTyped'
    BY <1>1, <1>7, InputGrows, OutputShrinks
       DEF TestAbsent, RefsKept, pipes, At, PipesTyped, PipesSound, CallerSound, Inputs, Waiting, RefPresent
  <2>2. PipesSound(c)'
    BY <1>1, <1>7, InputGrows, OutputShrinks
       DEF TestAbsent, RefsKept, pipes, At, GitAt, TransactionTypeOK, PipesTyped, PipesSound, CallerSound, GitSound, SaysPrepared, Waiting, RefPresent
  <2>3. GitSound(c)'
    BY <1>1, <1>7, OutputShrinks
       DEF TestAbsent, RefsKept, pipes, At, GitAt, Lines, Secured, TransactionTypeOK, PipesTyped, PipesSound, GitSound, CallerSound, Waiting, SaysPrepared, Gone, RefPresent
  <2>4. CallerSound(c)'
    BY <1>1, <1>7, OutputShrinks
       DEF TestAbsent, RefsKept, pipes, At, GitAt, Lines, Secured, TransactionTypeOK, PipesTyped, PipesSound, GitSound, CallerSound, Waiting, SaysPrepared, Gone, RefPresent
  <2>5. CommitSound(c)'
    BY <1>1, <1>7, InputGrows
       DEF TestAbsent, RefsKept, pipes, At, GitAt, Lines, Secured, TransactionTypeOK, PipesTyped, PipesSound, GitSound, CallerSound, CommitSound, Waiting, SaysPrepared, Gone, RefPresent
  <2>6. Only(c) /\ AnswersSound'
    BY <1>1, <1>7 DEF TestAbsent, RefsKept, pipes, Only, AnswersSound, At, CommitSound, GitAt, TransactionTypeOK, RefPresent
  <2> QED
    BY <2>1, <2>2, <2>3, <2>4, <2>5, <2>6, <2>7, OnlyKeeps DEF Sound, AnswersSound
<1>8. ASSUME Decide(c) PROVE DialogueInv'
  <2>1. TransactionTypeOK'
    <3>1. value' \in [Refs -> Forms] /\ lock' \in [Refs -> Callers \cup {"free"}]
      BY <1>1, <1>8 DEF Decide, RefsKept, TransactionTypeOK
    <3>2. caller' \in [Callers -> CallerStates]
      BY <1>0, <1>1, <1>8 DEF Decide, At, CallerStates, AskedTyped, Lines
    <3>5. git' \in [Callers -> GitStates]
      BY <1>0, <1>8 DEF Decide, GitStates
    <3>3. stderr' \in [Callers -> 0..PipeSize]
      BY <1>1, <1>8, CasesAssumption DEF Decide, RefsKept, pipes, TransactionTypeOK
    <3>4. \A d \in Callers :
             /\ (answer'[d] # "none") = (caller'[d].pc = "returned")
             /\ caller'[d].untested # {} =>
                   caller'[d].pc \in {"testing", "killed"} \/ caller'[d].present
      BY <1>1, <1>8 DEF Decide, RefsKept, pipes, At, TransactionTypeOK, AnswersSound, CallerSound
    <3> QED
      BY <3>1, <3>2, <3>3, <3>4, <3>5 DEF TransactionTypeOK, At, CallerStates, GitStates
  <2>7. PipesTyped'
    BY <1>1, <1>8, InputGrows, OutputShrinks
       DEF Decide, RefsKept, pipes, At, PipesTyped, PipesSound, CallerSound, Inputs, Waiting
  <2>2. PipesSound(c)'
    BY <1>1, <1>8, InputGrows, OutputShrinks
       DEF Decide, RefsKept, pipes, At, GitAt, TransactionTypeOK, PipesTyped, PipesSound, CallerSound, GitSound, SaysPrepared, Waiting
  <2>3. GitSound(c)'
    BY <1>1, <1>8, OutputShrinks
       DEF Decide, RefsKept, pipes, At, GitAt, Lines, Secured, TransactionTypeOK, PipesTyped, PipesSound, GitSound, CallerSound, Waiting, SaysPrepared, Gone
  <2>4. CallerSound(c)'
    BY <1>1, <1>8, OutputShrinks
       DEF Decide, RefsKept, pipes, At, GitAt, Lines, Secured, TransactionTypeOK, PipesTyped, PipesSound, GitSound, CallerSound, Waiting, SaysPrepared, Gone
  <2>5. CommitSound(c)'
    BY <1>1, <1>8, InputGrows
       DEF Decide, RefsKept, pipes, At, GitAt, Lines, Secured, TransactionTypeOK, PipesTyped, PipesSound, GitSound, CallerSound, CommitSound, Waiting, SaysPrepared, Gone
  <2>6. Only(c) /\ AnswersSound'
    BY <1>1, <1>8 DEF Decide, RefsKept, pipes, Only, AnswersSound, At, CommitSound, GitAt, TransactionTypeOK
  <2> QED
    BY <2>1, <2>2, <2>3, <2>4, <2>5, <2>6, <2>7, OnlyKeeps DEF Sound, AnswersSound
<1>9. ASSUME SendEnd(c) PROVE DialogueInv'
  <2>1. TransactionTypeOK'
    <3>1. value' \in [Refs -> Forms] /\ lock' \in [Refs -> Callers \cup {"free"}]
      BY <1>1, <1>9 DEF SendEnd, RefsKept, TransactionTypeOK
    <3>2. caller' \in [Callers -> CallerStates]
      BY <1>0, <1>1, <1>9 DEF SendEnd, At, CallerStates, AskedTyped, Lines, Sends
    <3>5. git' \in [Callers -> GitStates]
      BY <1>0, <1>9 DEF SendEnd, GitStates, Sends
    <3>3. stderr' \in [Callers -> 0..PipeSize]
      BY <1>1, <1>9, CasesAssumption DEF SendEnd, RefsKept, pipes, TransactionTypeOK, Sends
    <3>4. \A d \in Callers :
             /\ (answer'[d] # "none") = (caller'[d].pc = "returned")
             /\ caller'[d].untested # {} =>
                   caller'[d].pc \in {"testing", "killed"} \/ caller'[d].present
      BY <1>1, <1>9 DEF SendEnd, RefsKept, pipes, At, TransactionTypeOK, AnswersSound, CallerSound, Sends
    <3> QED
      BY <3>1, <3>2, <3>3, <3>4, <3>5 DEF TransactionTypeOK, At, CallerStates, GitStates
  <2>7. PipesTyped'
    BY <1>1, <1>9, InputGrows, OutputShrinks
       DEF SendEnd, RefsKept, pipes, At, PipesTyped, PipesSound, CallerSound, Inputs, Waiting, Sends
  <2>8. /\ GitAt(c, "exited") => stdin'[c] \in Request
        /\ ~GitAt(c, "exited") /\ caller[c].committing => stdin'[c] = <<"commit">>
        /\ ~GitAt(c, "exited") /\ ~caller[c].committing => stdin'[c] \in GivenUp
    <3>1. CASE GitAt(c, "exited")
      BY <1>1, <1>9, <3>1 DEF SendEnd, Sends, At, PipesSound
    <3>2. CASE ~GitAt(c, "exited") /\ caller[c].committing
      BY <1>1, <1>9, <3>2, InputGrows
         DEF SendEnd, Sends, At, PipesTyped, CallerSound, Waiting
    <3>3. CASE ~GitAt(c, "exited") /\ ~caller[c].committing
      BY <1>1, <1>9, <3>3, InputGrows DEF SendEnd, Sends, At, PipesTyped, PipesSound
    <3> QED
      BY <3>1, <3>2, <3>3
  <2>2. PipesSound(c)'
    BY <1>0, <1>1, <1>9, <2>8, InputGrows
       DEF SendEnd, RefsKept, At, PipesSound, CallerSound, Gone
  <2>3. GitSound(c)'
    BY <1>1, <1>9, OutputShrinks
       DEF SendEnd, RefsKept, pipes, At, GitAt, Lines, Secured, TransactionTypeOK, PipesTyped, PipesSound, GitSound, CallerSound, Waiting, SaysPrepared, Gone, Sends
  <2>4. CallerSound(c)'
    BY <1>1, <1>9, OutputShrinks
       DEF SendEnd, RefsKept, pipes, At, GitAt, Lines, Secured, TransactionTypeOK, PipesTyped, PipesSound, GitSound, CallerSound, Waiting, SaysPrepared, Gone, Sends
  <2>5. CommitSound(c)'
    BY <1>1, <1>9, <2>8, InputGrows
       DEF SendEnd, RefsKept, pipes, At, GitAt, Lines, Secured, TransactionTypeOK, PipesTyped, PipesSound, GitSound, CallerSound, CommitSound, Waiting, SaysPrepared, Gone, Sends
  <2>6. Only(c) /\ AnswersSound'
    BY <1>1, <1>9 DEF SendEnd, RefsKept, pipes, Only, AnswersSound, At, CommitSound, GitAt, TransactionTypeOK, Sends
  <2> QED
    BY <2>1, <2>2, <2>3, <2>4, <2>5, <2>6, <2>7, OnlyKeeps DEF Sound, AnswersSound
<1>10. ASSUME DrainOutput(c) PROVE DialogueInv'
  <2>1. TransactionTypeOK'
    <3>1. value' \in [Refs -> Forms] /\ lock' \in [Refs -> Callers \cup {"free"}]
      BY <1>1, <1>10 DEF DrainOutput, RefsKept, TransactionTypeOK
    <3>2. caller' \in [Callers -> CallerStates]
      BY <1>0, <1>1, <1>10 DEF DrainOutput, At, CallerStates, AskedTyped, Lines
    <3>5. git' \in [Callers -> GitStates]
      BY <1>0, <1>10 DEF DrainOutput, GitStates
    <3>3. stderr' \in [Callers -> 0..PipeSize]
      BY <1>1, <1>10, CasesAssumption DEF DrainOutput, RefsKept, pipes, TransactionTypeOK
    <3>4. \A d \in Callers :
             /\ (answer'[d] # "none") = (caller'[d].pc = "returned")
             /\ caller'[d].untested # {} =>
                   caller'[d].pc \in {"testing", "killed"} \/ caller'[d].present
      BY <1>1, <1>10 DEF DrainOutput, RefsKept, pipes, At, TransactionTypeOK, AnswersSound, CallerSound
    <3> QED
      BY <3>1, <3>2, <3>3, <3>4, <3>5 DEF TransactionTypeOK, At, CallerStates, GitStates
  <2>7. PipesTyped'
    BY <1>1, <1>10, InputGrows, OutputShrinks
       DEF DrainOutput, RefsKept, pipes, At, PipesTyped, PipesSound, CallerSound, Inputs, Waiting
  <2>2. PipesSound(c)'
    BY <1>1, <1>10, InputGrows, OutputShrinks
       DEF DrainOutput, RefsKept, pipes, At, GitAt, TransactionTypeOK, PipesTyped, PipesSound, CallerSound, GitSound, SaysPrepared, Waiting
  <2>3. GitSound(c)'
    BY <1>1, <1>10, OutputShrinks
       DEF DrainOutput, RefsKept, pipes, At, GitAt, Lines, Secured, TransactionTypeOK, PipesTyped, PipesSound, GitSound, CallerSound, Waiting, SaysPrepared, Gone
  <2>4. CallerSound(c)'
    BY <1>1, <1>10, OutputShrinks
       DEF DrainOutput, RefsKept, pipes, At, GitAt, Lines, Secured, TransactionTypeOK, PipesTyped, PipesSound, GitSound, CallerSound, Waiting, SaysPrepared, Gone
  <2>5. CommitSound(c)'
    BY <1>1, <1>10, InputGrows
       DEF DrainOutput, RefsKept, pipes, At, GitAt, Lines, Secured, TransactionTypeOK, PipesTyped, PipesSound, GitSound, CallerSound, CommitSound, Waiting, SaysPrepared, Gone
  <2>6. Only(c) /\ AnswersSound'
    BY <1>1, <1>10 DEF DrainOutput, RefsKept, pipes, Only, AnswersSound, At, CommitSound, GitAt, TransactionTypeOK
  <2> QED
    BY <2>1, <2>2, <2>3, <2>4, <2>5, <2>6, <2>7, OnlyKeeps DEF Sound, AnswersSound
<1>11. ASSUME Finish(c) PROVE DialogueInv'
  <2>1. TransactionTypeOK'
    <3>1. value' \in [Refs -> Forms] /\ lock' \in [Refs -> Callers \cup {"free"}]
      BY <1>1, <1>11 DEF Finish, RefsKept, TransactionTypeOK
    <3>2. caller' \in [Callers -> CallerStates]
      BY <1>0, <1>1, <1>11 DEF Finish, At, CallerStates, AskedTyped, Lines, Committed, Reaped
    <3>5. git' \in [Callers -> GitStates]
      BY <1>0, <1>11 DEF Finish, GitStates, Committed, Reaped
    <3>3. stderr' \in [Callers -> 0..PipeSize]
      BY <1>1, <1>11, CasesAssumption DEF Finish, RefsKept, pipes, TransactionTypeOK, Committed, Reaped
    <3>4. \A d \in Callers :
             /\ (answer'[d] # "none") = (caller'[d].pc = "returned")
             /\ caller'[d].untested # {} =>
                   caller'[d].pc \in {"testing", "killed"} \/ caller'[d].present
      BY <1>1, <1>11 DEF Finish, RefsKept, pipes, At, TransactionTypeOK, AnswersSound, CallerSound, Committed, Reaped
    <3> QED
      BY <3>1, <3>2, <3>3, <3>4, <3>5 DEF TransactionTypeOK, At, CallerStates, GitStates
  <2>7. PipesTyped'
    BY <1>1, <1>11, InputGrows, OutputShrinks
       DEF Finish, RefsKept, pipes, At, PipesTyped, PipesSound, CallerSound, Inputs, Waiting, Committed, Reaped
  <2>2. PipesSound(c)'
    BY <1>1, <1>11, InputGrows, OutputShrinks
       DEF Finish, RefsKept, pipes, At, GitAt, TransactionTypeOK, PipesTyped, PipesSound, CallerSound, GitSound, SaysPrepared, Waiting, Committed, Reaped
  <2>3. GitSound(c)'
    BY <1>1, <1>11, OutputShrinks
       DEF Finish, RefsKept, pipes, At, GitAt, Lines, Secured, TransactionTypeOK, PipesTyped, PipesSound, GitSound, CallerSound, Waiting, SaysPrepared, Gone, Committed, Reaped
  <2>4. CallerSound(c)'
    BY <1>1, <1>11, OutputShrinks
       DEF Finish, RefsKept, pipes, At, GitAt, Lines, Secured, TransactionTypeOK, PipesTyped, PipesSound, GitSound, CallerSound, Waiting, SaysPrepared, Gone, Committed, Reaped
  <2>5. CommitSound(c)'
    BY <1>1, <1>11, InputGrows
       DEF Finish, RefsKept, pipes, At, GitAt, Lines, Secured, TransactionTypeOK, PipesTyped, PipesSound, GitSound, CallerSound, CommitSound, Waiting, SaysPrepared, Gone, Committed, Reaped
  <2>6. Only(c) /\ AnswersSound'
    BY <1>1, <1>11 DEF Finish, RefsKept, pipes, Only, AnswersSound, At, CommitSound, GitAt, TransactionTypeOK, Committed, Reaped
  <2> QED
    BY <2>1, <2>2, <2>3, <2>4, <2>5, <2>6, <2>7, OnlyKeeps DEF Sound, AnswersSound
<1>12. ASSUME DrainErrors(c) PROVE DialogueInv'
  <2>1. TransactionTypeOK'
    <3>1. value' \in [Refs -> Forms] /\ lock' \in [Refs -> Callers \cup {"free"}]
      BY <1>1, <1>12 DEF DrainErrors, RefsKept, TransactionTypeOK
    <3>2. caller' \in [Callers -> CallerStates]
      BY <1>0, <1>1, <1>12 DEF DrainErrors, At, CallerStates, AskedTyped, Lines, Drained, Gone
    <3>5. git' \in [Callers -> GitStates]
      BY <1>0, <1>12 DEF DrainErrors, GitStates, Drained, Gone
    <3>3. stderr' \in [Callers -> 0..PipeSize]
      BY <1>1, <1>12, CasesAssumption DEF DrainErrors, RefsKept, pipes, TransactionTypeOK, Drained, Gone
    <3>4. \A d \in Callers :
             /\ (answer'[d] # "none") = (caller'[d].pc = "returned")
             /\ caller'[d].untested # {} =>
                   caller'[d].pc \in {"testing", "killed"} \/ caller'[d].present
      BY <1>1, <1>12 DEF DrainErrors, RefsKept, pipes, At, TransactionTypeOK, AnswersSound, CallerSound, Drained, Gone
    <3> QED
      BY <3>1, <3>2, <3>3, <3>4, <3>5 DEF TransactionTypeOK, At, CallerStates, GitStates
  <2>7. PipesTyped'
    BY <1>1, <1>12, InputGrows, OutputShrinks
       DEF DrainErrors, RefsKept, pipes, At, PipesTyped, PipesSound, CallerSound, Inputs, Waiting, Drained, Gone
  <2>2. PipesSound(c)'
    BY <1>1, <1>12, InputGrows, OutputShrinks
       DEF DrainErrors, RefsKept, pipes, At, GitAt, TransactionTypeOK, PipesTyped, PipesSound, CallerSound, GitSound, SaysPrepared, Waiting, Drained, Gone
  <2>3. GitSound(c)'
    BY <1>1, <1>12, OutputShrinks
       DEF DrainErrors, RefsKept, pipes, At, GitAt, Lines, Secured, TransactionTypeOK, PipesTyped, PipesSound, GitSound, CallerSound, Waiting, SaysPrepared, Gone, Drained, Gone
  <2>4. CallerSound(c)'
    BY <1>1, <1>12, OutputShrinks
       DEF DrainErrors, RefsKept, pipes, At, GitAt, Lines, Secured, TransactionTypeOK, PipesTyped, PipesSound, GitSound, CallerSound, Waiting, SaysPrepared, Gone, Drained, Gone
  <2>5. CommitSound(c)'
    BY <1>1, <1>12, InputGrows
       DEF DrainErrors, RefsKept, pipes, At, GitAt, Lines, Secured, TransactionTypeOK, PipesTyped, PipesSound, GitSound, CallerSound, CommitSound, Waiting, SaysPrepared, Gone, Drained, Gone
  <2>6. Only(c) /\ AnswersSound'
    BY <1>1, <1>12 DEF DrainErrors, RefsKept, pipes, Only, AnswersSound, At, CommitSound, GitAt, TransactionTypeOK, Drained, Gone
  <2> QED
    BY <2>1, <2>2, <2>3, <2>4, <2>5, <2>6, <2>7, OnlyKeeps DEF Sound, AnswersSound
<1>13. ASSUME Crash(c) PROVE DialogueInv'
  <2>1. TransactionTypeOK'
    <3>1. value' \in [Refs -> Forms] /\ lock' \in [Refs -> Callers \cup {"free"}]
      BY <1>1, <1>13 DEF Crash, RefsKept, TransactionTypeOK
    <3>2. caller' \in [Callers -> CallerStates]
      BY <1>0, <1>1, <1>13 DEF Crash, At, CallerStates, AskedTyped, Lines, Gone
    <3>5. git' \in [Callers -> GitStates]
      BY <1>0, <1>13 DEF Crash, GitStates, Gone
    <3>3. stderr' \in [Callers -> 0..PipeSize]
      BY <1>1, <1>13, CasesAssumption DEF Crash, RefsKept, pipes, TransactionTypeOK, Gone
    <3>4. \A d \in Callers :
             /\ (answer'[d] # "none") = (caller'[d].pc = "returned")
             /\ caller'[d].untested # {} =>
                   caller'[d].pc \in {"testing", "killed"} \/ caller'[d].present
      BY <1>1, <1>13 DEF Crash, RefsKept, pipes, At, TransactionTypeOK, AnswersSound, CallerSound, Gone
    <3> QED
      BY <3>1, <3>2, <3>3, <3>4, <3>5 DEF TransactionTypeOK, At, CallerStates, GitStates
  <2>7. PipesTyped'
    BY <1>1, <1>13, InputGrows, OutputShrinks
       DEF Crash, RefsKept, pipes, At, PipesTyped, PipesSound, CallerSound, Inputs, Waiting, Gone
  <2>2. PipesSound(c)'
    BY <1>1, <1>13, InputGrows, OutputShrinks
       DEF Crash, RefsKept, pipes, At, GitAt, TransactionTypeOK, PipesTyped, PipesSound, CallerSound, GitSound, SaysPrepared, Waiting, Gone
  <2>3. GitSound(c)'
    BY <1>1, <1>13, OutputShrinks
       DEF Crash, RefsKept, pipes, At, GitAt, Lines, Secured, TransactionTypeOK, PipesTyped, PipesSound, GitSound, CallerSound, Waiting, SaysPrepared, Gone, Gone
  <2>4. CallerSound(c)'
    BY <1>1, <1>13, OutputShrinks
       DEF Crash, RefsKept, pipes, At, GitAt, Lines, Secured, TransactionTypeOK, PipesTyped, PipesSound, GitSound, CallerSound, Waiting, SaysPrepared, Gone, Gone
  <2>5. CommitSound(c)'
    BY <1>1, <1>13, InputGrows
       DEF Crash, RefsKept, pipes, At, GitAt, Lines, Secured, TransactionTypeOK, PipesTyped, PipesSound, GitSound, CallerSound, CommitSound, Waiting, SaysPrepared, Gone, Gone
  <2>6. Only(c) /\ AnswersSound'
    BY <1>1, <1>13 DEF Crash, RefsKept, pipes, Only, AnswersSound, At, CommitSound, GitAt, TransactionTypeOK, Gone
  <2> QED
    BY <2>1, <2>2, <2>3, <2>4, <2>5, <2>6, <2>7, OnlyKeeps DEF Sound, AnswersSound
<1> QED
  BY <1>2, <1>3, <1>4, <1>5, <1>6, <1>7, <1>8, <1>9, <1>10, <1>11, <1>12, <1>13 DEF CallerStep

----------------------------------------------------------------------------
(* git. *)

\* A git that exits keeps the invariant: it leaves no lock behind when it exits with
\* success, and it does that only at the end of its input.
LEMMA ExitKeeps ==
    ASSUME DialogueInv, NEW c \in Callers, NEW status \in BOOLEAN, GitExits(c, status),
           git[c].pc \in {"reading", "locking", "hook"},
           lock' \in {lock, Free(c)},
           stdout' \in {stdout, [stdout EXCEPT ![c] = Append(@, "torn")]},
           stderr' \in [Callers -> 0..PipeSize],
           status => /\ lock' = Free(c) /\ GitAt(c, "reading") /\ stdin[c] = <<>>
                     /\ caller[c].pc \in {"closed", "killed"}
    PROVE  DialogueInv'
<1>1. /\ TransactionTypeOK /\ AskedTyped /\ PipesTyped /\ AnswersSound
      /\ PipesSound(c) /\ GitSound(c) /\ CallerSound(c) /\ CommitSound(c)
  BY DEF DialogueInv, Sound
<1>2. /\ git' = [git EXCEPT ![c].pc = "exited", ![c].ok = status]
      /\ value' = value /\ applied' = applied /\ stdin' = stdin
      /\ asked' = asked /\ caller' = caller /\ answer' = answer
  BY DEF GitExits, CallersKept
<1>3. git'[c].pc = "exited" /\ git'[c].ok = status /\ git' \in [Callers -> GitStates]
  <2>1. git \in [Callers -> GitStates]
    BY <1>1 DEF TransactionTypeOK, GitStates
  <2> QED
    BY ZenonT(60), <1>2, <2>1 DEF GitStates
<1>4. \A r \in Refs : lock'[r] = lock[r] \/ (lock[r] = c /\ lock'[r] = "free")
  BY DEF Free
<1>5. lock' = Free(c) => \A r \in Refs : lock'[r] # c
  BY CasesAssumption DEF Free
<1>6. TransactionTypeOK'
  <2>1. lock' \in [Refs -> Callers \cup {"free"}]
    BY <1>1 DEF Free, TransactionTypeOK
  <2> QED
    BY <1>1, <1>2, <1>3, <2>1 DEF TransactionTypeOK, GitStates, At
<1>7. PipesTyped' /\ (SaysPrepared(c)' => SaysPrepared(c))
  <2>1. stdout[c] \in Seq(Messages) /\ "torn" \in Messages
    BY <1>1 DEF PipesTyped, Messages
  <2>2. CASE stdout' = stdout
    BY <1>1, <1>2, <2>2 DEF PipesTyped, SaysPrepared
  <2>3. CASE stdout' = [stdout EXCEPT ![c] = Append(@, "torn")]
    BY <1>1, <1>2, <2>1, <2>3, OutputGrows DEF PipesTyped, SaysPrepared
  <2> QED
    BY <2>2, <2>3
<1>8. PipesSound(c)'
  BY <1>1, <1>2, <1>7 DEF PipesSound
<1>9. GitSound(c)'
  BY <1>1, <1>2, <1>3, <1>5 DEF GitSound, At, GitAt, Gone
<1>10. CallerSound(c)'
  BY <1>1, <1>2, <1>3 DEF CallerSound, Waiting, At, GitAt, Gone
<1>11. CommitSound(c)'
  <2>1. status /\ At(c, "closed") /\ caller[c].committing => c \in applied
    <3>1. <<>> # <<"commit">>
      OBVIOUS
    <3> QED
      BY <1>1, <3>1 DEF CommitSound
  <2> QED
    BY <1>1, <1>2, <1>3, <2>1 DEF CommitSound, At, GitAt
<1>12. Only(c)
  BY <1>1, <1>2, <1>4, CasesAssumption DEF Only, TransactionTypeOK, PipesTyped
<1> QED
  BY <1>1, <1>2, <1>6, <1>7, <1>8, <1>9, <1>10, <1>11, <1>12, OnlyKeeps DEF Sound, AnswersSound

\* What is so when git reads anything but a commit: its caller has not been told that it is
\* prepared, and has not decided to commit.
LEMMA ReadsAnother ==
    ASSUME NEW c \in Callers, PipesTyped, Sound(c), caller \in [Callers -> CallerStates],
           GitAt(c, "reading"), stdin[c] # <<>>, Head(stdin[c]) # "commit"
    PROVE  /\ caller[c].pc \in {"awaiting", "ending", "closed", "killed"}
           /\ ~caller[c].committing /\ c \notin applied
           /\ At(c, "awaiting") => ~SaysPrepared(c)
           /\ Tail(stdin[c]) \in Inputs /\ Tail(stdin[c]) # <<"commit">>
           /\ stdin[c] \in Request => Tail(stdin[c]) \in Request
           /\ At(c, "awaiting") /\ Head(stdin[c]) = "prepare" => Tail(stdin[c]) = <<>>
<1>1. stdin[c] \in Inputs
  BY DEF PipesTyped
<1>2. stdin[c] # <<"commit">>
  BY <1>1, InputShrinks
<1>3. /\ Tail(stdin[c]) \in Request \cup GivenUp
      /\ stdin[c] \in Request => Tail(stdin[c]) \in Request
      /\ stdin[c] \in Request /\ Head(stdin[c]) = "prepare" => Tail(stdin[c]) = <<>>
  BY <1>1, InputShrinks
<1>4. Tail(stdin[c]) \in Inputs /\ Tail(stdin[c]) # <<"commit">>
  BY <1>3, InputGrows DEF Inputs
<1>5. ~Waiting(c)
  BY DEF Waiting, GitAt
<1>6. c \notin applied /\ ~caller[c].committing
  BY <1>2 DEF Sound, CommitSound, CallerSound
<1>7. caller[c].pc \in {"awaiting", "ending", "closed", "killed"}
  BY <1>5 DEF CallerStates, Sound, PipesSound, GitSound, CallerSound, At, GitAt
<1>8. At(c, "awaiting") => ~SaysPrepared(c) /\ stdin[c] \in Request
  BY <1>5 DEF Sound, CallerSound, PipesSound, At
<1> QED
  BY <1>3, <1>4, <1>6, <1>7, <1>8

\* What is so while git locks its lines and runs its hook.
LEMMA WhilePreparing ==
    ASSUME NEW c \in Callers, Sound(c), caller \in [Callers -> CallerStates],
           git[c].pc \in {"locking", "hook"}
    PROVE  /\ caller[c].pc \in {"awaiting", "ending", "closed", "killed"}
           /\ ~caller[c].committing /\ c \notin applied
           /\ At(c, "awaiting") => stdin[c] = <<>> /\ ~SaysPrepared(c)
           /\ git[c].left \subseteq Lines(c) /\ Secured(c, Lines(c) \ git[c].left)
           /\ GitAt(c, "hook") => git[c].left = {}
<1>1. ~Waiting(c)
  BY DEF Waiting, GitAt
<1>2. c \notin applied /\ ~caller[c].committing
  BY DEF Sound, CommitSound, CallerSound
<1>3. caller[c].pc \in {"awaiting", "ending", "closed", "killed"}
  BY <1>1 DEF CallerStates, Sound, GitSound, CallerSound, At, GitAt
<1> QED
  BY <1>2, <1>3 DEF Sound, GitSound

\* A step of git's that decides nothing, for a caller that has not decided to commit: it
\* keeps the invariant if what git has by then is sound.
LEMMA GitWorks ==
    ASSUME DialogueInv, NEW c \in Callers, CallersKept, applied' = applied,
           value' = value, lock' \in [Refs -> Callers \cup {"free"}],
           git' \in [Callers -> GitStates], PipesTyped',
           stderr' \in [Callers -> 0..PipeSize],
           \A d \in Callers \ {c} :
              git'[d] = git[d] /\ stdin'[d] = stdin[d] /\ stdout'[d] = stdout[d],
           \A r \in Refs : \/ lock'[r] = lock[r]
                           \/ lock[r] = "free" /\ lock'[r] = c
                           \/ lock[r] = c /\ lock'[r] = "free",
           caller[c].pc \in {"awaiting", "ending", "closed", "killed"},
           ~caller[c].committing, c \notin applied,
           stdin'[c] # <<"commit">>, stdin[c] \in Request => stdin'[c] \in Request,
           At(c, "awaiting") => (SaysPrepared(c)' => Waiting(c)'),
           git'[c].pc \in {"reading", "locking", "hook"},
           git'[c].pc \in {"locking", "hook"} =>
              /\ At(c, "awaiting") => stdin'[c] = <<>> /\ ~SaysPrepared(c)'
              /\ git'[c].left \subseteq Lines(c) /\ Secured(c, Lines(c) \ git[c].left)'
              /\ git'[c].pc = "hook" => git'[c].left = {}
    PROVE  DialogueInv'
<1>1. /\ TransactionTypeOK /\ AskedTyped /\ PipesTyped /\ AnswersSound
      /\ PipesSound(c) /\ GitSound(c) /\ CallerSound(c) /\ CommitSound(c)
  BY DEF DialogueInv, Sound
<1>2. asked' = asked /\ caller' = caller /\ answer' = answer /\ Lines(c)' = Lines(c)
  BY DEF CallersKept, Lines
<1>3. TransactionTypeOK'
  BY <1>1, <1>2 DEF TransactionTypeOK, At, GitStates
<1>4. PipesSound(c)'
  BY <1>1, <1>2 DEF PipesSound
<1>5. GitSound(c)'
  BY <1>2 DEF GitSound, At, GitAt
<1>6. CallerSound(c)'
  BY <1>1, <1>2 DEF CallerSound, At, GitAt
<1>7. CommitSound(c)'
  BY <1>2 DEF CommitSound
<1>8. Only(c)
  <2>1. "free" \notin Callers
    BY CasesAssumption
  <2> QED
    BY <1>2, <2>1 DEF Only
<1> QED
  BY <1>1, <1>2, <1>3, <1>4, <1>5, <1>6, <1>7, <1>8, OnlyKeeps DEF Sound, AnswersSound

\* A step of git's that locks, compares, runs the hook or says that all is prepared keeps
\* the invariant, and so does an abort.
LEMMA WorkKeeps ==
    ASSUME DialogueInv, NEW c \in Callers,
           \/ GitStarts(c) \/ GitPrepares(c) \/ GitLocks(c) \/ GitCallsHook(c)
           \/ HookWrites(c) \/ GitPrepared(c) \/ GitAborts(c)
    PROVE  DialogueInv'
<1>1. /\ TransactionTypeOK /\ AskedTyped /\ PipesTyped /\ AnswersSound /\ Sound(c)
  BY DEF DialogueInv
<1>2. /\ caller \in [Callers -> CallerStates] /\ git \in [Callers -> GitStates]
      /\ lock \in [Refs -> Callers \cup {"free"}] /\ stderr \in [Callers -> 0..PipeSize]
      /\ stdin \in [Callers -> Inputs] /\ stdout \in [Callers -> Seq(Messages)]
      /\ Lines(c) \subseteq Refs
  BY <1>1 DEF TransactionTypeOK, CallerStates, GitStates, PipesTyped, AskedTyped
<1>3. {"start", "prepare", "abort"} \subseteq Messages
  BY DEF Messages
<1>4. ASSUME GitStarts(c) PROVE DialogueInv'
  <2>1. /\ GitAt(c, "reading") /\ stdin[c] # <<>> /\ Head(stdin[c]) = "start"
        /\ stdin' = [stdin EXCEPT ![c] = Tail(@)] /\ CallersKept
        /\ stderr' = stderr /\ applied' = applied /\ value' = value
    BY <1>4 DEF GitStarts, GitReads
  <2>2. /\ caller[c].pc \in {"awaiting", "ending", "closed", "killed"}
        /\ ~caller[c].committing /\ c \notin applied
        /\ At(c, "awaiting") => ~SaysPrepared(c)
        /\ Tail(stdin[c]) \in Inputs /\ Tail(stdin[c]) # <<"commit">>
        /\ stdin[c] \in Request => Tail(stdin[c]) \in Request
        /\ At(c, "awaiting") /\ Head(stdin[c]) = "prepare" => Tail(stdin[c]) = <<>>
    BY <1>1, <1>2, <2>1, ReadsAnother
  <2>3. /\ stdin' \in [Callers -> Inputs] /\ stdin'[c] = Tail(stdin[c])
        /\ \A d \in Callers \ {c} : stdin'[d] = stdin[d]
    BY <1>2, <2>1, <2>2
  <2>4. stdout' = [stdout EXCEPT ![c] = Append(@, "start")] /\ git' = git /\ lock' = lock
    BY <1>4 DEF GitStarts, Replies
  <2>5. /\ stdout' \in [Callers -> Seq(Messages)] /\ (SaysPrepared(c)' => SaysPrepared(c))
        /\ \A d \in Callers \ {c} : stdout'[d] = stdout[d]
    BY <1>2, <1>3, <2>4, OutputGrows DEF SaysPrepared
  <2> QED
    BY <1>2, <2>1, <2>2, <2>3, <2>4, <2>5, GitWorks DEF PipesTyped, GitAt
<1>5. ASSUME GitPrepares(c) PROVE DialogueInv'
  <2>1. /\ GitAt(c, "reading") /\ stdin[c] # <<>> /\ Head(stdin[c]) = "prepare"
        /\ stdin' = [stdin EXCEPT ![c] = Tail(@)] /\ CallersKept
        /\ stderr' = stderr /\ applied' = applied /\ value' = value
    BY <1>5 DEF GitPrepares, GitReads
  <2>2. /\ caller[c].pc \in {"awaiting", "ending", "closed", "killed"}
        /\ ~caller[c].committing /\ c \notin applied
        /\ At(c, "awaiting") => ~SaysPrepared(c)
        /\ Tail(stdin[c]) \in Inputs /\ Tail(stdin[c]) # <<"commit">>
        /\ stdin[c] \in Request => Tail(stdin[c]) \in Request
        /\ At(c, "awaiting") /\ Head(stdin[c]) = "prepare" => Tail(stdin[c]) = <<>>
    BY <1>1, <1>2, <2>1, ReadsAnother
  <2>3. /\ stdin' \in [Callers -> Inputs] /\ stdin'[c] = Tail(stdin[c])
        /\ \A d \in Callers \ {c} : stdin'[d] = stdin[d]
    BY <1>2, <2>1, <2>2
  <2>4. /\ git' = [git EXCEPT ![c].pc = "locking", ![c].left = Lines(c)]
        /\ stdout' = stdout /\ lock' = lock
    BY <1>5 DEF GitPrepares
  <2>5. /\ git' \in [Callers -> GitStates] /\ git'[c].pc = "locking" /\ git'[c].left = Lines(c)
        /\ \A d \in Callers \ {c} : git'[d] = git[d]
    BY <1>2, <2>4 DEF GitStates
  <2>6. Secured(c, Lines(c) \ git[c].left)'
    <3>1. Lines(c)' = Lines(c)
      BY <2>1 DEF CallersKept, Lines
    <3> QED
      BY <2>5, <3>1 DEF Secured
  <2>7. SaysPrepared(c)' = SaysPrepared(c)
    BY <2>4 DEF SaysPrepared
  <2> QED
    BY <1>2, <2>1, <2>2, <2>3, <2>4, <2>5, <2>6, <2>7, GitWorks DEF PipesTyped
<1>6. ASSUME GitLocks(c) PROVE DialogueInv'
  <2>1. /\ git[c].pc \in {"locking", "hook"} /\ CallersKept
        /\ stdin' = stdin /\ stdout' = stdout /\ stderr' = stderr
        /\ applied' = applied /\ value' = value
    BY <1>6 DEF GitLocks, GitAt, pipes
  <2>2. /\ caller[c].pc \in {"awaiting", "ending", "closed", "killed"}
        /\ ~caller[c].committing /\ c \notin applied
        /\ At(c, "awaiting") => stdin[c] = <<>> /\ ~SaysPrepared(c)
        /\ git[c].left \subseteq Lines(c) /\ Secured(c, Lines(c) \ git[c].left)
        /\ GitAt(c, "hook") => git[c].left = {}
    BY <1>1, <1>2, <2>1, WhilePreparing
  <2>3. stdin[c] # <<"commit">>
    BY <1>1, <2>2 DEF Sound, PipesSound
  <2>4. Lines(c)' = Lines(c) /\ asked' = asked
    BY <2>1 DEF CallersKept, Lines
  <2>5. PICK r \in git[c].left :
            /\ lock[r] = "free" /\ Atomic!Matches(asked[c].lines[r].old, value[r])
            /\ lock' = [lock EXCEPT ![r] = c] /\ git' = [git EXCEPT ![c].left = @ \ {r}]
    BY <1>6 DEF GitLocks
  <2>6. /\ git' \in [Callers -> GitStates] /\ git'[c].pc = "locking"
        /\ git'[c].left = git[c].left \ {r} /\ \A d \in Callers \ {c} : git'[d] = git[d]
    <3>1. git[c].pc = "locking"
      BY <1>6 DEF GitLocks, GitAt
    <3>2. git' = [git EXCEPT ![c].left = git[c].left \ {r}]
      BY <2>5
    <3>3. git[c].left \ {r} \in SUBSET Refs
      BY <1>2, <2>2
    <3> QED
      BY <1>2, <3>1, <3>2, <3>3 DEF GitStates
  <2>7. /\ lock' \in [Refs -> Callers \cup {"free"}] /\ lock'[r] = c
        /\ \A s \in Refs \ {r} : lock'[s] = lock[s]
    BY <1>2, <2>2, <2>5
  <2>8. Secured(c, Lines(c) \ git[c].left)'
    <3> SUFFICES ASSUME NEW s \in Lines(c) \ git'[c].left
                 PROVE  lock'[s] = c /\ Atomic!Matches(asked[c].lines[s].old, value[s])
      BY <2>1, <2>4 DEF Secured, Atomic!Matches
    <3>1. CASE s = r
      BY <2>5, <2>7, <3>1
    <3>2. CASE s # r
      BY <1>2, <2>2, <2>6, <2>7, <3>2 DEF Secured
    <3> QED
      BY <3>1, <3>2
  <2>9. SaysPrepared(c)' = SaysPrepared(c)
    BY <2>1 DEF SaysPrepared
  <2>10. \A s \in Refs : lock'[s] = lock[s] \/ (lock[s] = "free" /\ lock'[s] = c)
    BY <2>5, <2>7
  <2> QED
    BY <1>1, <1>2, <2>1, <2>2, <2>3, <2>4, <2>6, <2>7, <2>8, <2>9, <2>10, GitWorks DEF PipesTyped
<1>7. ASSUME GitCallsHook(c) PROVE DialogueInv'
  <2>1. /\ git[c].pc \in {"locking", "hook"} /\ CallersKept
        /\ stdin' = stdin /\ stdout' = stdout /\ stderr' = stderr
        /\ applied' = applied /\ value' = value /\ lock' = lock
    BY <1>7 DEF GitCallsHook, GitAt, pipes
  <2>2. /\ caller[c].pc \in {"awaiting", "ending", "closed", "killed"}
        /\ ~caller[c].committing /\ c \notin applied
        /\ At(c, "awaiting") => stdin[c] = <<>> /\ ~SaysPrepared(c)
        /\ git[c].left \subseteq Lines(c) /\ Secured(c, Lines(c) \ git[c].left)
        /\ GitAt(c, "hook") => git[c].left = {}
    BY <1>1, <1>2, <2>1, WhilePreparing
  <2>3. stdin[c] # <<"commit">>
    BY <1>1, <2>2 DEF Sound, PipesSound
  <2>4. Lines(c)' = Lines(c) /\ asked' = asked
    BY <2>1 DEF CallersKept, Lines
  <2>5. /\ git[c].left = {}
        /\ git' = [git EXCEPT ![c].pc = "hook", ![c].noise = HookOutput]
    BY <1>7 DEF GitCallsHook
  <2>6. HookOutput \in 0..HookOutput
    BY CasesAssumption
  <2>7. /\ git' \in [Callers -> GitStates] /\ git'[c].pc = "hook" /\ git'[c].left = {}
        /\ \A d \in Callers \ {c} : git'[d] = git[d]
    BY ZenonT(60), <1>2, <2>5, <2>6 DEF GitStates
  <2>8. SaysPrepared(c)' = SaysPrepared(c) /\ Secured(c, Lines(c) \ git[c].left)'
    BY <2>1, <2>2, <2>4, <2>5, <2>7 DEF SaysPrepared, Secured, Atomic!Matches
  <2> QED
    BY <1>1, <1>2, <2>1, <2>2, <2>3, <2>7, <2>8, GitWorks DEF PipesTyped
<1>8. ASSUME HookWrites(c) PROVE DialogueInv'
  <2>1. /\ git[c].pc \in {"locking", "hook"} /\ CallersKept
        /\ stdin' = stdin /\ stdout' = stdout
        /\ applied' = applied /\ value' = value /\ lock' = lock
    BY <1>8 DEF HookWrites, GitAt, pipes
  <2>2. /\ caller[c].pc \in {"awaiting", "ending", "closed", "killed"}
        /\ ~caller[c].committing /\ c \notin applied
        /\ At(c, "awaiting") => stdin[c] = <<>> /\ ~SaysPrepared(c)
        /\ git[c].left \subseteq Lines(c) /\ Secured(c, Lines(c) \ git[c].left)
        /\ GitAt(c, "hook") => git[c].left = {}
    BY <1>1, <1>2, <2>1, WhilePreparing
  <2>3. stdin[c] # <<"commit">>
    BY <1>1, <2>2 DEF Sound, PipesSound
  <2>4. Lines(c)' = Lines(c) /\ asked' = asked
    BY <2>1 DEF CallersKept, Lines
  <2>5. /\ GitAt(c, "hook") /\ git[c].noise > 0 /\ stderr[c] < PipeSize
        /\ stderr' = [stderr EXCEPT ![c] = @ + 1] /\ git' = [git EXCEPT ![c].noise = @ - 1]
    BY <1>8 DEF HookWrites
  <2>6. git[c].noise - 1 \in 0..HookOutput /\ stderr[c] + 1 \in 0..PipeSize
    BY <1>2, <2>5, CasesAssumption DEF GitStates
  <2>7. /\ git' \in [Callers -> GitStates] /\ git'[c].pc = "hook" /\ git'[c].left = {}
        /\ \A d \in Callers \ {c} : git'[d] = git[d]
    BY <1>2, <2>2, <2>5, <2>6 DEF GitStates, GitAt
  <2>8. stderr' \in [Callers -> 0..PipeSize]
    BY <1>2, <2>5, <2>6
  <2>9. SaysPrepared(c)' = SaysPrepared(c) /\ Secured(c, Lines(c) \ git[c].left)'
    BY <2>1, <2>2, <2>4, <2>5, <2>7 DEF SaysPrepared, Secured, Atomic!Matches
  <2> QED
    BY <1>1, <1>2, <2>1, <2>2, <2>3, <2>7, <2>8, <2>9, GitWorks DEF PipesTyped
<1>9. ASSUME GitPrepared(c) PROVE DialogueInv'
  <2>1. /\ git[c].pc \in {"locking", "hook"} /\ CallersKept
        /\ stdin' = stdin /\ stderr' = stderr
        /\ applied' = applied /\ value' = value /\ lock' = lock
    BY <1>9 DEF GitPrepared, GitAt, pipes
  <2>2. /\ caller[c].pc \in {"awaiting", "ending", "closed", "killed"}
        /\ ~caller[c].committing /\ c \notin applied
        /\ At(c, "awaiting") => stdin[c] = <<>> /\ ~SaysPrepared(c)
        /\ git[c].left \subseteq Lines(c) /\ Secured(c, Lines(c) \ git[c].left)
        /\ GitAt(c, "hook") => git[c].left = {}
    BY <1>1, <1>2, <2>1, WhilePreparing
  <2>3. stdin[c] # <<"commit">>
    BY <1>1, <2>2 DEF Sound, PipesSound
  <2>4. Lines(c)' = Lines(c) /\ asked' = asked
    BY <2>1 DEF CallersKept, Lines
  <2>5. /\ GitAt(c, "hook") /\ git' = [git EXCEPT ![c].pc = "reading"]
        /\ stdout' = [stdout EXCEPT ![c] = Append(@, "prepare")]
    BY <1>9 DEF GitPrepared, Replies
  <2>6. /\ git' \in [Callers -> GitStates] /\ git'[c].pc = "reading"
        /\ \A d \in Callers \ {c} : git'[d] = git[d]
    BY <1>2, <2>5 DEF GitStates
  <2>7. /\ stdout' \in [Callers -> Seq(Messages)]
        /\ \A d \in Callers \ {c} : stdout'[d] = stdout[d]
    BY <1>2, <1>3, <2>5, OutputGrows
  <2>8. At(c, "awaiting") => Waiting(c)'
    BY <2>1, <2>2, <2>4, <2>5, <2>6 DEF Waiting, Secured, GitAt, Atomic!Matches
  <2> QED
    BY <1>1, <1>2, <2>1, <2>2, <2>3, <2>6, <2>7, <2>8, GitWorks DEF PipesTyped
<1>10. ASSUME GitAborts(c) PROVE DialogueInv'
  <2>1. /\ GitAt(c, "reading") /\ stdin[c] # <<>> /\ Head(stdin[c]) = "abort"
        /\ stdin' = [stdin EXCEPT ![c] = Tail(@)] /\ CallersKept
        /\ stderr' = stderr /\ applied' = applied /\ value' = value
    BY <1>10 DEF GitAborts, GitReads
  <2>2. /\ caller[c].pc \in {"awaiting", "ending", "closed", "killed"}
        /\ ~caller[c].committing /\ c \notin applied
        /\ At(c, "awaiting") => ~SaysPrepared(c)
        /\ Tail(stdin[c]) \in Inputs /\ Tail(stdin[c]) # <<"commit">>
        /\ stdin[c] \in Request => Tail(stdin[c]) \in Request
        /\ At(c, "awaiting") /\ Head(stdin[c]) = "prepare" => Tail(stdin[c]) = <<>>
    BY <1>1, <1>2, <2>1, ReadsAnother
  <2>3. /\ stdin' \in [Callers -> Inputs] /\ stdin'[c] = Tail(stdin[c])
        /\ \A d \in Callers \ {c} : stdin'[d] = stdin[d]
    BY <1>2, <2>1, <2>2
  <2>4. /\ stdout' = [stdout EXCEPT ![c] = Append(@, "abort")] /\ git' = git
        /\ lock' = Free(c)
    BY <1>10 DEF GitAborts, Replies
  <2>5. /\ stdout' \in [Callers -> Seq(Messages)] /\ (SaysPrepared(c)' => SaysPrepared(c))
        /\ \A d \in Callers \ {c} : stdout'[d] = stdout[d]
    BY <1>2, <1>3, <2>4, OutputGrows DEF SaysPrepared
  <2>6. /\ lock' \in [Refs -> Callers \cup {"free"}]
        /\ \A r \in Refs : lock'[r] = lock[r] \/ (lock[r] = c /\ lock'[r] = "free")
    BY <1>2, <2>4 DEF Free
  <2> QED
    BY <1>2, <2>1, <2>2, <2>3, <2>4, <2>5, <2>6, GitWorks DEF PipesTyped, GitAt
<1> QED
  BY <1>4, <1>5, <1>6, <1>7, <1>8, <1>9, <1>10

\* When git is told to commit everything still holds: it holds the locks, so that nobody has
\* written a line since it was compared, nor a ref that the caller found absent.
LEMMA CommitIsDue ==
    ASSUME DialogueInv, NEW c \in Callers, GitReads(c, "commit")
    PROVE  /\ stdin[c] = <<"commit">> /\ Tail(stdin[c]) = <<>>
           /\ caller[c].committing /\ c \notin applied /\ caller[c].pc \in {"closed", "killed"}
           /\ Secured(c, Lines(c)) /\ Atomic!Holds(asked[c])
<1>1. PipesTyped /\ AskedTyped /\ Sound(c) /\ caller \in [Callers -> CallerStates]
  BY DEF DialogueInv, TransactionTypeOK, CallerStates
<1>2. /\ GitAt(c, "reading") /\ stdin[c] # <<>> /\ Head(stdin[c]) = "commit"
      /\ stdin[c] \in Inputs
  BY <1>1 DEF GitReads, PipesTyped
<1>3. stdin[c] = <<"commit">> /\ Tail(stdin[c]) = <<>>
  BY <1>2, InputShrinks
<1>4. caller[c].committing /\ c \notin applied
  BY <1>1, <1>3 DEF Sound, PipesSound
<1>5. Secured(c, Lines(c)) /\ \A r \in asked[c].absent : value[r] = "absent"
  BY <1>1, <1>2, <1>4 DEF Sound, CommitSound
<1>6. caller[c].pc \in {"closed", "killed"}
  <2>1. stdin[c] \notin Request
    BY <1>3, InputGrows
  <2> QED
    BY <1>1, <1>2, <2>1 DEF CallerStates, Sound, PipesSound, GitSound, At, GitAt
<1> QED
  BY <1>3, <1>4, <1>5, <1>6 DEF Atomic!Holds, Atomic!Lines, Lines, Secured

\* The commit keeps the invariant.
LEMMA CommitKeeps ==
    ASSUME DialogueInv, NEW c \in Callers, GitCommits(c)
    PROVE  DialogueInv'
<1>1. /\ TransactionTypeOK /\ AskedTyped /\ PipesTyped /\ AnswersSound /\ Sound(c)
  BY DEF DialogueInv
<1>2. /\ caller \in [Callers -> CallerStates] /\ git \in [Callers -> GitStates]
      /\ lock \in [Refs -> Callers \cup {"free"}] /\ stderr \in [Callers -> 0..PipeSize]
      /\ stdin \in [Callers -> Inputs] /\ stdout \in [Callers -> Seq(Messages)]
      /\ value \in [Refs -> Forms] /\ Lines(c) \subseteq Refs
      /\ \A r \in Lines(c) : asked[c].lines[r].new \in Forms
  BY <1>1 DEF TransactionTypeOK, CallerStates, GitStates, PipesTyped, AskedTyped
<1>3. /\ GitAt(c, "reading") /\ GitReads(c, "commit") /\ CallersKept
      /\ stdin' = [stdin EXCEPT ![c] = Tail(@)] /\ stderr' = stderr /\ git' = git
      /\ stdout' = [stdout EXCEPT ![c] = Append(@, "commit")]
      /\ value' = Atomic!Written(asked[c]) /\ lock' = Free(c) /\ applied' = applied \cup {c}
  BY DEF GitCommits, GitReads, Replies
<1>4. /\ stdin[c] = <<"commit">> /\ Tail(stdin[c]) = <<>>
      /\ caller[c].committing /\ c \notin applied /\ caller[c].pc \in {"closed", "killed"}
      /\ Secured(c, Lines(c))
  BY <1>3, CommitIsDue
<1>5. asked' = asked /\ caller' = caller /\ answer' = answer
  BY <1>3 DEF CallersKept
<1>6. value' \in [Refs -> Forms] /\ \A r \in Refs : value'[r] # value[r] => lock[r] = c
  BY <1>2, <1>3, <1>4 DEF Atomic!Written, Atomic!Lines, Lines, Secured
<1>7. /\ lock' \in [Refs -> Callers \cup {"free"}]
      /\ \A r \in Refs : IF lock[r] = c THEN lock'[r] = "free" ELSE lock'[r] = lock[r]
  BY <1>2, <1>3 DEF Free
<1>8. TransactionTypeOK'
  BY <1>1, <1>3, <1>5, <1>6, <1>7 DEF TransactionTypeOK, At
<1>9. stdin' \in [Callers -> Inputs] /\ stdin'[c] = <<>> /\ <<>> # <<"commit">>
  <2>1. <<>> \in Inputs
    BY InputGrows DEF Inputs
  <2> QED
    BY <1>2, <1>3, <1>4, <2>1
<1>10. stdout' \in [Callers -> Seq(Messages)]
  <2>1. "commit" \in Messages
    BY DEF Messages
  <2> QED
    BY <1>2, <1>3, <2>1, OutputGrows
<1>11. PipesSound(c)'
  BY <1>4, <1>5, <1>9 DEF PipesSound
<1>12. GitSound(c)'
  BY <1>1, <1>3, <1>4, <1>5 DEF Sound, GitSound, At, GitAt
<1>13. CallerSound(c)'
  BY <1>3, <1>4, <1>5 DEF CallerSound, At, GitAt, Gone
<1>14. CommitSound(c)'
  BY <1>3, <1>4, <1>5, <1>9 DEF CommitSound, At, GitAt
<1>15. Only(c)
  <2>1. \A d \in Callers \ {c} : /\ stdin'[d] = stdin[d] /\ stdout'[d] = stdout[d]
                                 /\ d \in applied' <=> d \in applied
    BY <1>2, <1>3
  <2>2. \A r \in Refs : lock[r] # c => lock'[r] = lock[r] /\ value'[r] = value[r]
    BY <1>6, <1>7
  <2>3. \A r \in Refs : lock[r] = c => lock'[r] \in {c, "free"}
    BY <1>7
  <2> QED
    BY <1>3, <1>5, <2>1, <2>2, <2>3 DEF Only
<1>16. applied' \subseteq Callers /\ c \in applied'
  BY <1>1, <1>3 DEF AnswersSound
<1> QED
  BY <1>1, <1>5, <1>8, <1>9, <1>10, <1>11, <1>12, <1>13, <1>14, <1>15, <1>16, OnlyKeeps
     DEF Sound, AnswersSound, PipesTyped

\* A step of git keeps the invariant, whether it does what it is told, refuses, or dies.
LEMMA GitKeeps ==
    ASSUME DialogueInv, NEW c \in Callers,
           GitStep(c) \/ HookRefuses(c) \/ GitDies(c)
    PROVE  DialogueInv'
<1>1. stderr \in [Callers -> 0..PipeSize]
  BY DEF DialogueInv, TransactionTypeOK
<1>2. ASSUME GitEnds(c) PROVE DialogueInv'
  <2>1. GitExits(c, TRUE) /\ stderr' \in [Callers -> 0..PipeSize]
    BY <1>1, <1>2 DEF GitEnds
  <2> QED
    BY <1>2, <2>1, ExitKeeps DEF GitEnds, GitAt
<1>3. ASSUME GitRefuses(c) \/ HookRefuses(c) PROVE DialogueInv'
  <2>1. GitFails(c) /\ git[c].pc \in {"locking", "hook"}
    BY <1>3 DEF GitRefuses, HookRefuses, GitAt
  <2>2. stderr' \in [Callers -> 0..PipeSize]
    BY <1>1, <2>1, CasesAssumption DEF GitFails
  <2> QED
    BY <2>1, <2>2, ExitKeeps DEF GitFails
<1>4. ASSUME GitDies(c) PROVE DialogueInv'
  <2>1. stderr' \in [Callers -> 0..PipeSize]
    BY <1>1, <1>4 DEF GitDies
  <2> QED
    BY <1>4, <2>1, ExitKeeps DEF GitDies
<1> QED
  BY <1>2, <1>3, <1>4, WorkKeeps, CommitKeeps DEF GitStep

----------------------------------------------------------------------------
(* The whole. *)

\* Another git command writes a ref that nobody has locked, which no caller relies on.
LEMMA OthersKeep ==
    ASSUME DialogueInv, OtherWrites
    PROVE  DialogueInv'
<1>1. /\ TransactionTypeOK /\ AskedTyped /\ PipesTyped /\ AnswersSound
      /\ \A c \in Callers : Sound(c)
  BY DEF DialogueInv
<1>2. /\ lock' = lock /\ asked' = asked /\ caller' = caller /\ git' = git
      /\ stdin' = stdin /\ stdout' = stdout /\ stderr' = stderr
      /\ applied' = applied /\ answer' = answer
  BY DEF OtherWrites, pipes
<1>3. value' \in [Refs -> Forms] /\ \A r \in Refs : lock[r] # "free" => value'[r] = value[r]
  BY <1>1 DEF OtherWrites, TransactionTypeOK
<1>4. ASSUME NEW d \in Callers PROVE Sound(d)'
  BY <1>1, <1>2, <1>3, CasesAssumption, UndisturbedSound DEF Undisturbed
<1>5. TransactionTypeOK' /\ AskedTyped' /\ PipesTyped' /\ AnswersSound'
  BY <1>1, <1>2, <1>3 DEF TransactionTypeOK, AskedTyped, PipesTyped, AnswersSound, Lines, At
<1> QED
  BY <1>4, <1>5 DEF DialogueInv

\* Every step of the system keeps it.
LEMMA StepKeeps ==
    ASSUME DialogueInv, [Next]_vars
    PROVE  DialogueInv'
<1>1. CASE UNCHANGED vars
  <2>1. /\ value' = value /\ lock' = lock /\ asked' = asked /\ caller' = caller /\ git' = git
        /\ stdin' = stdin /\ stdout' = stdout /\ stderr' = stderr
        /\ applied' = applied /\ answer' = answer
    BY <1>1 DEF vars, pipes
  <2>2. ASSUME NEW d \in Callers PROVE Sound(d)'
    BY <2>1, UndisturbedSound DEF Undisturbed, DialogueInv
  <2>3. TransactionTypeOK' /\ AskedTyped' /\ PipesTyped' /\ AnswersSound'
    BY <2>1 DEF DialogueInv, TransactionTypeOK, AskedTyped, PipesTyped, AnswersSound, Lines, At
  <2> QED
    BY <2>2, <2>3 DEF DialogueInv
<1>2. CASE Next
  BY <1>2, CallerKeeps, GitKeeps, OthersKeep DEF Next, Mishap, Fault
<1> QED
  BY <1>1, <1>2

\* It holds at the beginning.
LEMMA InitDialogue == Init => DialogueInv
<1> SUFFICES ASSUME Init PROVE DialogueInv
  OBVIOUS
<1>1. PICK case \in Cases : value = case.value /\ asked = case.asked
  BY DEF Init
<1>2. /\ lock = [r \in Refs |-> "free"] /\ applied = {}
      /\ stdin = [c \in Callers |-> <<>>] /\ stdout = [c \in Callers |-> <<>>]
      /\ stderr = [c \in Callers |-> 0] /\ answer = [c \in Callers |-> "none"]
      /\ \A c \in Callers : /\ caller[c].pc = "spawning" /\ caller[c].untested = {}
                             /\ ~caller[c].committing /\ git[c].pc = "none"
  BY DEF Init
<1>3. /\ value \in [Refs -> Forms]
      /\ \A c \in Callers : LET t == asked[c] IN
            /\ DOMAIN t.lines \subseteq Refs /\ t.absent \subseteq DOMAIN t.lines
            /\ \A r \in DOMAIN t.lines : {t.lines[r].old, t.lines[r].new} \subseteq Forms
  BY <1>1, CasesAssumption
<1>4. TransactionTypeOK
  <2>1. caller \in [Callers -> CallerStates]
    BY DEF Init, CallerStates
  <2>2. git \in [Callers -> GitStates] /\ stderr \in [Callers -> 0..PipeSize]
    BY CasesAssumption DEF Init, GitStates
  <2> QED
    BY <1>2, <1>3, <2>1, <2>2 DEF TransactionTypeOK, CallerStates, GitStates, At
<1>5. AskedTyped
  BY <1>3 DEF AskedTyped, Lines
<1>6. PipesTyped /\ AnswersSound
  <2>1. <<>> \in Inputs /\ <<>> \in Seq(Messages)
    BY InputGrows DEF Inputs
  <2> QED
    BY <1>2, <2>1 DEF PipesTyped, AnswersSound
<1>7. ASSUME NEW c \in Callers PROVE Sound(c)
  <2>1. stdin[c] = <<>> /\ <<>> # <<"commit">> /\ ~SaysPrepared(c)
    BY <1>2 DEF SaysPrepared
  <2>2. \A r \in Refs : lock[r] # c
    BY <1>2, CasesAssumption
  <2> QED
    BY <1>2, <2>1, <2>2 DEF Sound, PipesSound, GitSound, CallerSound, CommitSound, At, GitAt
<1> QED
  BY <1>4, <1>5, <1>6, <1>7 DEF DialogueInv

\* The invariant holds in every state of every behaviour.
THEOREM DialogueIsSound == Spec => []DialogueInv
BY InitDialogue, StepKeeps, PTL DEF Spec

\* The types of the two processes, and that refs wait to be tested only while they are
\* tested (update_ref.rs UpdateRef).
THEOREM DialogueTyped == Spec => []TransactionTypeOK
<1>1. DialogueInv => TransactionTypeOK
  BY DEF DialogueInv
<1> QED
  BY <1>1, DialogueIsSound, PTL

\* No call leaves refs nobody can write, unless its git was killed (update_ref.rs finish).
THEOREM NoLockIsLeft == Spec => []LocksAreReturned
<1>1. DialogueInv => LocksAreReturned
  <2> SUFFICES ASSUME DialogueInv, NEW r \in Refs, lock[r] # "free"
               PROVE  IF GitAt(lock[r], "exited") THEN ~git[lock[r]].ok
                                                  ELSE ~At(lock[r], "returned")
    BY DEF LocksAreReturned
  <2>1. lock[r] \in Callers
    BY DEF DialogueInv, TransactionTypeOK
  <2>2. GitSound(lock[r])
    BY <2>1 DEF DialogueInv, Sound
  <2> QED
    BY <2>2 DEF GitSound, At, GitAt
<1> QED
  BY <1>1, DialogueIsSound, PTL

----------------------------------------------------------------------------
(* The refinement. *)

\* What a caller is told is true: "ok" only of a transaction that took effect.
LEMMA AnswerIsAtomic ==
    ASSUME DialogueInv, NEW c \in Callers, Finish(c) \/ SpawnFails(c)
    PROVE  Atomic!Answer(c)
<1>1. AnswersSound /\ TransactionTypeOK /\ CommitSound(c)
  BY DEF DialogueInv, Sound
<1>2. caller[c].pc \in {"closed", "spawning"} /\ UNCHANGED <<value, asked, applied>>
  BY DEF Finish, SpawnFails, At, RefsKept
<1>3. answer[c] = "none"
  BY <1>1, <1>2 DEF TransactionTypeOK, At
<1>4. PICK how \in {"ok", "err"} :
          answer' = [answer EXCEPT ![c] = how] /\ (how = "ok" => Committed(c) /\ Finish(c))
  BY DEF Finish, SpawnFails
<1>5. answer'[c] = "ok" => c \in applied
  BY <1>1, <1>4 DEF AnswersSound, Finish, Reaped, Committed, CommitSound
<1> QED
  BY <1>2, <1>3, <1>4, <1>5 DEF Atomic!Answer

\* What git does on "commit" is the whole transaction at one moment, at which it holds, for
\* a caller that has not been answered.
LEMMA CommitIsAtomic ==
    ASSUME DialogueInv, NEW c \in Callers, GitCommits(c)
    PROVE  Atomic!Apply(c)
<1>1. /\ GitReads(c, "commit") /\ value' = Atomic!Written(asked[c])
      /\ applied' = applied \cup {c} /\ UNCHANGED <<asked, answer>>
  BY DEF GitCommits, GitReads, CallersKept
<1>2. c \notin applied /\ caller[c].pc \in {"closed", "killed"} /\ Atomic!Holds(asked[c])
  BY <1>1, CommitIsDue
<1>3. answer[c] = "none"
  BY <1>2 DEF DialogueInv, TransactionTypeOK, At
<1> QED
  BY <1>1, <1>2, <1>3 DEF Atomic!Apply

\* Every step of the dialogue is a step of the atomic transaction or leaves it as it is.
LEMMA StepIsAtomic ==
    ASSUME DialogueInv, [Next]_vars
    PROVE  [Atomic!Next]_<<value, asked, applied, answer>>
<1>1. ASSUME NEW c \in Callers, Finish(c) \/ SpawnFails(c) \/ GitCommits(c) PROVE Atomic!Next
  BY <1>1, AnswerIsAtomic, CommitIsAtomic DEF Atomic!Next
<1>2. ASSUME OtherWrites PROVE Atomic!Next
  BY <1>2 DEF OtherWrites, Atomic!Next, Atomic!Write
<1>3. ASSUME NEW c \in Callers,
             \/ UpdateRefSpawn(c) \/ SendRequest(c) \/ ReadReply(c) \/ NotPrepared(c)
             \/ TestAbsent(c) \/ Decide(c) \/ SendEnd(c) \/ DrainOutput(c)
             \/ DrainErrors(c) \/ Crash(c)
      PROVE  UNCHANGED <<value, asked, applied, answer>>
  BY <1>3 DEF UpdateRefSpawn, SendRequest, ReadReply, NotPrepared, TestAbsent, Decide, SendEnd,
              DrainOutput, DrainErrors, Crash, RefsKept
<1>4. ASSUME NEW c \in Callers,
             \/ GitStarts(c) \/ GitPrepares(c) \/ GitLocks(c) \/ GitCallsHook(c)
             \/ HookWrites(c) \/ GitPrepared(c) \/ GitAborts(c) \/ GitEnds(c)
             \/ GitRefuses(c) \/ HookRefuses(c) \/ GitDies(c)
      PROVE  UNCHANGED <<value, asked, applied, answer>>
  <2>1. CASE GitEnds(c) \/ GitRefuses(c) \/ HookRefuses(c) \/ GitDies(c)
    BY <2>1 DEF GitEnds, GitRefuses, HookRefuses, GitDies, GitFails, GitExits, CallersKept
  <2>2. CASE \/ GitStarts(c) \/ GitPrepares(c) \/ GitLocks(c) \/ GitCallsHook(c)
             \/ HookWrites(c) \/ GitPrepared(c) \/ GitAborts(c)
    BY <2>2 DEF GitStarts, GitPrepares, GitLocks, GitCallsHook, HookWrites, GitPrepared,
                GitAborts, GitReads, CallersKept
  <2> QED
    BY <1>4, <2>1, <2>2
<1>5. CASE UNCHANGED vars
  BY <1>5 DEF vars
<1>6. CASE Next
  BY <1>1, <1>2, <1>3, <1>4, <1>6 DEF Next, CallerStep, GitStep, Mishap, Fault
<1> QED
  BY <1>5, <1>6

\* The dialogue with git is an atomic transaction: all lines or none, at a moment at which
\* they hold and no ref that must be absent exists, "ok" only for one that took effect, and
\* nothing after the answer (update_ref.rs run_update_ref_transaction).
THEOREM DialogueIsAtomic == Spec => ImplementsAtomic
<1>1. Init => Atomic!Init
  <2> SUFFICES ASSUME Init PROVE Atomic!Init
    OBVIOUS
  <2>1. value \in [Refs -> Forms]
    BY CasesAssumption DEF Init
  <2> QED
    BY <2>1 DEF Init, Atomic!Init
<1>2. DialogueInv /\ [Next]_vars => [Atomic!Next]_<<value, asked, applied, answer>>
  BY StepIsAtomic
<1> QED
  BY <1>1, <1>2, DialogueIsSound, PTL DEF Spec, ImplementsAtomic, Atomic!Spec
=============================================================================

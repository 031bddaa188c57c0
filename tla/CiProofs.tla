-------------------------------- MODULE CiProofs --------------------------------
(***************************************************************************)
(* Proofs about CiRun and MergeBuild: types, what a verdict is worth, what *)
(* is left behind, and the tail of the output.                             *)
(*                                                                         *)
(* What a run knows of itself and of its plan is Local; what runs have in  *)
(* common, the worktrees, the lock files and the result ref, is Shared.    *)
(***************************************************************************)
EXTENDS MergeBuild, SequenceTheorems, FiniteSetTheorems, TLAPS

(***************************************************************************)
(* The invariant.                                                          *)
(***************************************************************************)

RunFields == {"pc", "attempt", "failure", "ok", "listed", "leftover", "tail", "answer",
              "reserved", "expired", "unproven", "spared", "clean"}
Failures == {Green, "plan_invalid", "spawn_failed", "timeout", "nonzero_exit", "cleanup_failed"}

RunTyped(x) ==
    /\ DOMAIN x = RunFields
    /\ x.attempt \in Names /\ x.failure \in Failures
    /\ {x.ok, x.leftover, x.reserved, x.expired, x.unproven, x.clean} \subseteq BOOLEAN

PlanTyped(p) ==
    /\ p \in [leader : {"none", "running", "exited", "reaped"},
              status : {"none", "zero", "nonzero", "killed"},
              member : {"none", "running", "gone"}, escaped : {"none", "running", "gone"},
              stuck : BOOLEAN, doomed : SUBSET {"leader", "member"}]
    /\ p.status = "none" <=> p.leader \in {"none", "running"}
    /\ p.doomed \subseteq Living(p)
    /\ p.leader = "none" => p.member = "none" /\ p.escaped = "none"

BuildTyped(j, b) ==
    /\ b \in [strategy : Strategies[j], busy : {"no", "merge", "squash", "rebase"},
              unchecked : BOOLEAN, pinned : BOOLEAN, misled : BOOLEAN, stuck : BOOLEAN,
              said : BOOLEAN]
    /\ b.busy \in {"no", b.strategy}
    /\ b.unchecked \/ b.pinned => j = "merge"

\* Where a run is before its plan, and with it.
BeforePlan == {"plan", "reserve", "add", "strategy", "select", "start"}
Attending == {"wait", "poll", "probe", "grace", "last grace", "capture"}

\* What is true of a run at each place.
PlacedRun(x, p) ==
    /\ x.pc \in BeforePlan => p.leader = "none" /\ x.failure = Green
    /\ x.pc \in {"wait", "poll"} => p.leader \in {"running", "exited"} /\ x.failure = Green
    /\ x.pc = "probe" => p.leader = "reaped" /\ x.failure = Green
    /\ x.pc = "pin" => x.failure = Green
    /\ x.pc \in {"grace", "last grace"} => x.failure \in {"timeout", "cleanup_failed"}
    /\ x.pc \in {"plan", "reserve"} => x.ok /\ ~x.reserved
    /\ x.pc = "add" => x.reserved
    /\ x.pc \in BeforePlan \cup Attending \cup {"record"} => x.ok
    /\ ~x.ok => p.leader = "none" /\ x.failure = Green

\* Where a run may have recorded its Check.
Recording == {"record", "done", "killed"}

PlacedBuild(j, x, b, c) ==
    /\ x.pc \in Attending \cup {"select", "start"} => j # "prepare"
    /\ x.pc = "pin" => j = "merge"
    /\ x.pc \in BeforePlan => ~b.pinned
    /\ b.busy = "no" \/ b.stuck \/ x.pc \in {"abort", "killed"}
    /\ c = <<>> \/ (j = "ci" /\ x.pc \in Recording)

\* A run's failure is what happened.
Reasoned(x, p) ==
    /\ x.failure = "timeout" => x.expired
    /\ x.failure = "nonzero_exit" => p.status \in {"nonzero", "killed"} /\ Living(p) = {}
    /\ x.failure = "cleanup_failed" => x.unproven
    /\ x.failure \in {"plan_invalid", "spawn_failed"} => p.leader = "none"

\* No failure means that the plan was green, where the run relies on it.
Relies(j, x, b) ==
    \/ x.pc = "capture"
    \/ j = "ci" /\ x.ok /\ x.pc \in {"remove", "list", "verify", "release", "record"}
    \/ x.pc = "pin" /\ b.unchecked

EarnedBy(p) == p.leader = "reaped" /\ p.status = "zero" /\ Living(p) = {}

Verdicts(j, x, p, b) ==
    /\ Relies(j, x, b) /\ x.failure = Green => EarnedBy(p)
    /\ b.pinned /\ b.unchecked => EarnedBy(p)

\* What a Check says is so.
Says(x, p, c) ==
    c # <<>> =>
        LET reason == c[1].failure IN
        /\ reason = Green => EarnedBy(p) /\ x.failure = Green
        /\ reason = "timeout" => x.expired
        /\ reason = "nonzero_exit" => p.status \in {"nonzero", "killed"} /\ Living(p) = {}
        /\ reason = "cleanup_failed" => x.unproven \/ p.status = "zero"
        /\ reason \in {"plan_invalid", "spawn_failed"} => p.leader = "none"
        /\ reason \in Failures

\* A run that records its Check once more records the same.
EntryOf(x) ==
    LET failure == IF x.failure = Green /\ x.leftover THEN "cleanup_failed" ELSE x.failure
    IN  [failure |-> failure, tail |-> IF failure = Green THEN <<>> ELSE x.tail]
Alike(x, c) ==
    /\ c \in Seq({c[1]})
    /\ x.pc = "record" /\ c # <<>> => c[1] = EntryOf(x)

\* What a run told its caller, and what it recorded.
Told(j, ours, x, c) ==
    x.pc = "done" /\ ours /\ j = "ci" => (c = <<>> => x.answer = "err")

\* For a run that is one of those of the case if ours, and has job j.
Known(j, ours, x, p, b, c) ==
    /\ RunTyped(x) /\ PlanTyped(p) /\ BuildTyped(j, b)
    /\ PlacedRun(x, p) /\ PlacedBuild(j, x, b, c)
    /\ Reasoned(x, p) /\ Verdicts(j, x, p, b)
    /\ Says(x, p, c) /\ Alike(x, c) /\ Told(j, ours, x, c)

Local(r) == Known(case.job, r \in case.runs, run[r], plan[r], build[r], check[r])

\* The places at which a run has a worktree to work in, and its lock, if nobody tidies it up.
Working == {"strategy", "select", "start", "wait", "poll", "probe", "grace", "last grace",
            "capture", "pin", "abort"}
Holding == Working \cup {"add", "remove", "list", "verify", "release"}
Own(j) == Working \cup (IF j = "ci" THEN {} ELSE {"discard", "remove"})

NoneExhausted == \A s \in Runs : ~Exhausted(s)
Apart == case.job = "ci" => NoneExhausted

OwnsTree(r) ==
    run[r].pc \in Own(case.job) => tree[Name(r)].registered /\ tree[Name(r)].by = r

OwnsLock(r) == case.job = "ci" /\ run[r].pc \in Holding => lock[Name(r)] = r

\* A group that a run of a CI plan has not seen the end of has its name to itself.
Guarded(r) ==
    case.job = "ci" /\ Living(plan[r]) # {} => lock[Name(r)] = r \/ Outlived(r)

\* From the removal on the worktree is gone, or somebody else's process is there.
Gone(r) == tree[Name(r)] = NoTree \/ \E s \in Runs : Outlived(s)
Cleared(r) ==
    case.job = "ci" =>
        /\ run[r].pc \in {"list", "verify"} => Gone(r)
        /\ At(r, "release") /\ ~run[r].leftover => Gone(r)
        /\ At(r, "record") /\ ~run[r].leftover /\ run[r].failure = Green =>
              run[r].clean \/ \E s \in Runs : Outlived(s)
        /\ check[r] # <<>> /\ check[r][1].failure = Green =>
              run[r].clean \/ \E s \in Runs : Outlived(s)

\* Who made a worktree is at work in it, is about to remove it, or could not and says so; but
\* who builds says nothing of what a failed `git worktree add` made.
Answers(j, x) ==
    \/ x.pc \in Working \cup {"discard", "remove", "killed"}
    \/ x.leftover /\ x.pc \notin {"plan", "reserve", "add", "list", "verify", "exists"}
    \/ j # "ci" /\ x.reserved /\ ~x.ok /\ x.pc \in {"unlock", "done"}
Accounted(n) ==
    tree[n].by # "none" => LET r == tree[n].by IN n = Name(r) /\ Answers(case.job, run[r])

\* Whose result the pending ref holds has still to delete or to land it, or says so, or was told
\* that there is none.
Published == {"remove", "exists", "list", "release", "finalize", "unpin", "delete", "killed"}
RefAccounted ==
    \A r \in Runs : result = r =>
        Merging /\ (run[r].pc \in Published \/ build[r].said \/ build[r].misled)

Trees == [dir : BOOLEAN, registered : BOOLEAN, locked : BOOLEAN, by : Runs \cup {"none"}]

Typed ==
    /\ case \in Cases /\ mishaps \in 0..case.mishaps
    /\ DOMAIN run = Runs /\ DOMAIN plan = Runs /\ DOMAIN build = Runs /\ DOMAIN check = Runs
    /\ tree \in [Names -> Trees] /\ lock \in [Names -> Runs \cup {"free", "stale"}]
    /\ result \in Runs \cup {"none"}

Shared ==
    /\ \A n \in Names : Accounted(n)
    /\ RefAccounted
    /\ Apart => \A r \in Runs : OwnsTree(r) /\ OwnsLock(r) /\ Guarded(r) /\ Cleared(r)

CiInv ==
    /\ Typed
    /\ \A r \in Runs : Local(r)
    /\ Shared

-----------------------------------------------------------------------------
(* What a step changes, and of whom. *)

\* Only r moves.
Only(r) ==
    /\ case' = case /\ mishaps' \in 0..case.mishaps
    /\ DOMAIN run' = Runs /\ DOMAIN plan' = Runs /\ DOMAIN build' = Runs /\ DOMAIN check' = Runs
    /\ \A s \in Runs \ {r} :
          run'[s] = run[s] /\ plan'[s] = plan[s] /\ build'[s] = build[s] /\ check'[s] = check[s]

LEMMA BecomesIs ==
    ASSUME Typed, NEW r \in Runs, NEW new, Becomes(r, new)
    PROVE  /\ run'[r] = new /\ DOMAIN run' = Runs
           /\ \A s \in Runs \ {r} : run'[s] = run[s]
BY DEF Becomes, Typed

LEMMA MishapsAre ==
    ASSUME Typed, case' = case, Calm \/ Mishap
    PROVE  mishaps' \in 0..case.mishaps
<1>1. case.mishaps \in Nat
  BY RunsAssumption DEF Typed
<1> QED
  BY <1>1 DEF Typed, Calm, Mishap

\* y is x but for what changed.
Like(x, y, changed) == DOMAIN y = RunFields /\ \A f \in RunFields \ changed : y[f] = x[f]

\* The fields that nothing is said about but their type, and what a run tells in the end.
Loose == {"pc", "listed", "leftover", "tail", "answer", "spared", "clean"}

\* A run that goes on by itself: its plan, build and Check are as they were.
LEMMA RunGoesOn ==
    ASSUME NEW j, NEW ours, NEW x, NEW y, NEW p, NEW b, NEW c,
           Known(j, ours, x, p, b, c),
           Like(x, y, Loose), y.leftover \in BOOLEAN, y.clean \in BOOLEAN,
           PlacedRun(y, p), PlacedBuild(j, y, b, c), Told(j, ours, y, c),
           Relies(j, y, b) /\ y.failure = Green => Relies(j, x, b) \/ EarnedBy(p),
           y.pc # "record" \/ c = <<>>
    PROVE  Known(j, ours, y, p, b, c)
<1>1. RunTyped(y)
  BY DEF Known, Like, Loose, RunTyped, RunFields
<1>2. Reasoned(y, p)
  BY DEF Known, Like, Loose, Reasoned, RunFields
<1>3. Verdicts(j, y, p, b)
  BY DEF Known, Like, Loose, Verdicts, RunFields
<1>4. Says(y, p, c)
  BY DEF Known, Like, Loose, Says, RunFields
<1>5. Alike(y, c)
  BY DEF Known, Alike
<1> QED
  BY <1>1, <1>2, <1>3, <1>4, <1>5 DEF Known

\* Nothing is said of a run at these places that is not said of it everywhere.
Easy(j) == {"exists", "finalize", "unpin", "delete", "unlock", "discarded", "discard", "abort"}
           \cup (IF j = "ci" THEN {} ELSE {"remove", "list", "release", "done"})
Tidying == {"remove", "list", "verify", "release", "record"}

LEMMA RunGoesEasily ==
    ASSUME NEW j, NEW ours, NEW x, NEW y, NEW p, NEW b, NEW c,
           Known(j, ours, x, p, b, c),
           Like(x, y, Loose), y.leftover \in BOOLEAN, y.clean \in BOOLEAN,
           x.pc \notin Recording \cup {"abort"},
           y.pc \in Easy(j) \cup {"killed"} \/ (j = "ci" /\ x.pc \in Tidying /\ y.pc \in Tidying),
           y.pc = "record" => x.ok
    PROVE  Known(j, ours, y, p, b, c)
<1>1. y.failure = x.failure /\ y.ok = x.ok /\ y.reserved = x.reserved
  BY DEF Like, Loose, RunFields
<1>2. PlacedRun(y, p)
  BY <1>1 DEF Known, PlacedRun, BeforePlan, Attending, Easy, Tidying
<1>3. PlacedBuild(j, y, b, c)
  BY DEF Known, PlacedBuild, Recording, BeforePlan, Attending, Easy, Tidying
<1>4. Told(j, ours, y, c)
  BY DEF Told, Easy, Tidying
<1>5. Relies(j, y, b) => Relies(j, x, b)
  BY <1>1 DEF Relies, Easy, Tidying
<1>6. c = <<>>
  BY DEF Known, PlacedBuild, Recording
<1> QED
  BY <1>2, <1>3, <1>4, <1>5, <1>6, RunGoesOn

\* And these steps are of a run that has not run its plan, or is running it.
Early == {<<"plan", "reserve">>, <<"add", "start">>, <<"add", "strategy">>,
          <<"wait", "poll">>, <<"poll", "wait">>, <<"grace", "last grace">>,
          <<"grace", "capture">>, <<"last grace", "capture">>}

LEMMA RunGoesEarly ==
    ASSUME NEW j, NEW ours, NEW x, NEW y, NEW p, NEW b, NEW c,
           Known(j, ours, x, p, b, c), Like(x, y, {"pc"}),
           <<x.pc, y.pc>> \in Early, x.pc = "add" /\ j = "prepare" => y.pc = "strategy"
    PROVE  Known(j, ours, y, p, b, c)
<1>1. /\ y.failure = x.failure /\ y.ok = x.ok /\ y.reserved = x.reserved
      /\ y.leftover = x.leftover /\ y.clean = x.clean
  BY DEF Like, RunFields
<1>2. /\ x.pc \in {"plan", "add", "wait", "poll", "grace", "last grace"}
      /\ y.pc \in {"reserve", "start", "strategy", "wait", "poll", "last grace", "capture"}
  BY DEF Early
<1>3. PlacedRun(y, p)
  BY <1>1 DEF Known, PlacedRun, BeforePlan, Attending, Early
<1>4. PlacedBuild(j, y, b, c)
  BY <1>2 DEF Known, PlacedBuild, Recording, BeforePlan, Attending, Early
<1>5. Told(j, ours, y, c)
  BY <1>2 DEF Told
<1>6. ~(Relies(j, y, b) /\ y.failure = Green)
  BY <1>1, <1>2 DEF Relies, Known, PlacedRun, Early, Green
<1>7. Like(x, y, Loose) /\ y.leftover \in BOOLEAN /\ y.clean \in BOOLEAN
  BY <1>1 DEF Known, Like, Loose, RunTyped
<1> QED
  BY <1>2, <1>3, <1>4, <1>5, <1>6, <1>7, RunGoesOn

-----------------------------------------------------------------------------
(* The steps of a run, as itself and its plan see them. *)

LEMMA RunMoves ==
    ASSUME CiInv, NEW r \in Runs, NEW y, Becomes(r, y),
           UNCHANGED <<case, plan, check, build>>, Calm \/ Mishap,
           Known(case.job, r \in case.runs, y, plan[r], build[r], check[r])
    PROVE  Only(r) /\ Local(r)'
<1>1. /\ run'[r] = y /\ DOMAIN run' = Runs
      /\ \A s \in Runs \ {r} : run'[s] = run[s]
  BY BecomesIs DEF CiInv
<1>2. mishaps' \in 0..case.mishaps
  BY MishapsAre DEF CiInv
<1>3. Only(r)
  BY <1>1, <1>2 DEF Only, CiInv, Typed
<1>4. Local(r)'
  BY <1>1 DEF Local
<1> QED
  BY <1>3, <1>4

LEMMA RunIs ==
    ASSUME CiInv, NEW r \in Runs
    PROVE  /\ Known(case.job, r \in case.runs, run[r], plan[r], build[r], check[r])
           /\ RunTyped(run[r]) /\ DOMAIN run[r] = RunFields
           /\ run[r].leftover \in BOOLEAN /\ run[r].clean \in BOOLEAN
           /\ case.job \in {"ci", "merge", "prepare"}
BY RunsAssumption DEF CiInv, Local, Known, RunTyped, Typed

LEMMA NoneAlike ==
    ASSUME NEW x
    PROVE  Alike(x, <<>>)
BY DEF Alike

\* A run that ends later has no Check yet.
LEMMA NotYet ==
    ASSUME NEW j, NEW ours, NEW x, NEW y, NEW p, NEW q, NEW b, NEW d, NEW c,
           Known(j, ours, x, p, b, c), x.pc \notin Recording, y.pc # "done",
           RunTyped(y), PlanTyped(q), BuildTyped(j, d), PlacedRun(y, q), PlacedBuild(j, y, d, c),
           Reasoned(y, q), Verdicts(j, y, q, d)
    PROVE  Known(j, ours, y, q, d, c)
<1>1. c = <<>>
  BY DEF Known, PlacedBuild, Recording
<1>2. Alike(y, c)
  BY <1>1, NoneAlike
<1> QED
  BY <1>1, <1>2 DEF Known, Says, Told

\* A run that finds how its plan went.
Judged(x, y) == Like(x, y, {"pc", "failure", "spared", "unproven"})

LEMMA RunIsJudged ==
    ASSUME NEW j, NEW ours, NEW x, NEW y, NEW p, NEW q, NEW b, NEW c,
           Known(j, ours, x, p, b, c), Judged(x, y), PlanTyped(q),
           x.pc \in {"plan", "start", "select", "wait", "poll", "probe"},
           y.pc \in {"record", "remove", "abort", "grace", "capture"},
           y.pc \in {"grace", "capture"} => j # "prepare",
           y.pc = "grace" => y.failure \in {"timeout", "cleanup_failed"},
           y.failure \in Failures, y.unproven \in BOOLEAN, Reasoned(y, q),
           y.failure = Green => EarnedBy(q),
           b.pinned /\ b.unchecked => EarnedBy(q)
    PROVE  Known(j, ours, y, q, b, c)
<1>1. /\ y.attempt = x.attempt /\ y.ok = x.ok /\ y.leftover = x.leftover
      /\ y.reserved = x.reserved /\ y.expired = x.expired
      /\ y.clean = x.clean /\ DOMAIN y = RunFields
  BY DEF Judged, Like, RunFields
<1>2. RunTyped(y)
  BY <1>1 DEF Known, RunTyped
<1>3. PlacedRun(y, q)
  BY <1>1 DEF Known, PlacedRun, BeforePlan, Attending
<1>4. PlacedBuild(j, y, b, c)
  BY DEF Known, PlacedBuild, Recording, BeforePlan, Attending
<1>5. Verdicts(j, y, q, b)
  BY DEF Verdicts
<1>6. BuildTyped(j, b) /\ x.pc \notin Recording /\ y.pc # "done"
  BY DEF Known, Recording
<1> QED
  BY <1>2, <1>3, <1>4, <1>5, <1>6, NotYet DEF Recording

\* A run that gets no worktree.
LEMMA RunGivesUp ==
    ASSUME NEW j, NEW ours, NEW x, NEW y, NEW p, NEW b, NEW c,
           Known(j, ours, x, p, b, c), Like(x, y, {"pc", "ok"}), y.ok = FALSE,
           x.pc \in {"reserve", "add"}, y.pc \in {"remove", "unlock"}
    PROVE  Known(j, ours, y, p, b, c)
<1>1. /\ y.attempt = x.attempt /\ y.leftover = x.leftover /\ y.reserved = x.reserved
      /\ y.expired = x.expired /\ y.unproven = x.unproven /\ y.failure = x.failure
      /\ y.clean = x.clean /\ DOMAIN y = RunFields
  BY DEF Like, RunFields
<1>2. RunTyped(y) /\ Reasoned(y, p)
  BY <1>1 DEF Known, RunTyped, Reasoned
<1>3. PlacedRun(y, p)
  BY <1>1 DEF Known, PlacedRun, BeforePlan, Attending
<1>4. PlacedBuild(j, y, b, c)
  BY DEF Known, PlacedBuild, Recording, BeforePlan, Attending
<1>5. Verdicts(j, y, p, b)
  BY DEF Known, Verdicts, Relies
<1> QED
  BY <1>2, <1>3, <1>4, <1>5, NotYet DEF Known, Recording

LEMMA SelectPlanKnown ==
    ASSUME CiInv, NEW r \in Runs, SelectPlan(r), UNCHANGED buildVars, case.job = "ci"
    PROVE  Only(r) /\ Local(r)'
<1> DEFINE x == run[r]
           y == [x EXCEPT !.pc = "reserve"]
           z == [x EXCEPT !.pc = "record", !.failure = "plan_invalid"]
<1>1. Known(case.job, r \in case.runs, x, plan[r], build[r], check[r]) /\ x.pc = "plan"
  BY RunIs DEF SelectPlan, At
<1>2. Known(case.job, r \in case.runs, y, plan[r], build[r], check[r])
  <2>1. Like(x, y, {"pc"}) /\ y.pc = "reserve"
    BY RunIs DEF Like, RunFields
  <2> QED
    BY <1>1, <2>1, RunGoesEarly DEF Early
<1>3. Known(case.job, r \in case.runs, z, plan[r], build[r], check[r])
  <2>1. Judged(x, z) /\ z.pc = "record" /\ z.failure = "plan_invalid" /\ z.unproven = x.unproven
    BY RunIs DEF Judged, Like, RunFields
  <2> HIDE DEF z
  <2>2. Reasoned(z, plan[r])
    BY <1>1, <2>1 DEF Known, PlacedRun, Reasoned, BeforePlan, Green
  <2> QED
    BY <1>1, <2>1, <2>2, RunIsJudged DEF Known, RunTyped, Failures, Green, Verdicts, BuildTyped
<1>4. Becomes(r, y) \/ Becomes(r, z)
  BY DEF SelectPlan, Goes, Fails
<1> HIDE DEF y, z
<1> QED
  BY <1>2, <1>3, <1>4, RunMoves DEF SelectPlan, OnlyRun, buildVars

\* After a try for a name.
LEMMA ReservesKnown ==
    ASSUME CiInv, NEW r \in Runs, NEW exhausted \in {"remove", "unlock"},
           Reserves(r, exhausted), UNCHANGED buildVars
    PROVE  Only(r) /\ Local(r)'
<1> DEFINE x == run[r]
           y == [x EXCEPT !.pc = "add", !.reserved = TRUE]
           z == [x EXCEPT !.attempt = @ + 1]
           w == [x EXCEPT !.pc = exhausted, !.ok = FALSE]
<1>1. Known(case.job, r \in case.runs, x, plan[r], build[r], check[r]) /\ x.pc = "reserve"
  BY RunIs DEF Reserves, At
<1>2. Known(case.job, r \in case.runs, y, plan[r], build[r], check[r])
  <2>1. Like(x, y, {"pc", "reserved"}) /\ y.pc = "add" /\ y.reserved = TRUE
    BY RunIs DEF Like, RunFields
  <2> HIDE DEF y
  <2>2. /\ y.attempt = x.attempt /\ y.ok = x.ok /\ y.leftover = x.leftover
        /\ y.expired = x.expired /\ y.unproven = x.unproven /\ y.failure = x.failure
        /\ y.clean = x.clean /\ DOMAIN y = RunFields
    BY <2>1 DEF Like, RunFields
  <2>3. RunTyped(y) /\ Reasoned(y, plan[r])
    BY ZenonT(60), <1>1, <2>1, <2>2 DEF Known, RunTyped, Reasoned
  <2>4. PlacedRun(y, plan[r])
    BY <1>1, <2>1, <2>2 DEF Known, PlacedRun, BeforePlan, Attending
  <2>5. PlacedBuild(case.job, y, build[r], check[r])
    BY <1>1, <2>1, <2>2 DEF Known, PlacedBuild, Recording, BeforePlan, Attending
  <2>6. Verdicts(case.job, y, plan[r], build[r])
    BY <1>1, <2>1 DEF Known, Verdicts, Relies
  <2> QED
    BY <1>1, <2>1, <2>3, <2>4, <2>5, <2>6, NotYet DEF Known, Recording
<1>3. MoreNames(r) => Known(case.job, r \in case.runs, z, plan[r], build[r], check[r])
  <2> SUFFICES ASSUME MoreNames(r)
               PROVE  Known(case.job, r \in case.runs, z, plan[r], build[r], check[r])
    OBVIOUS
  <2>1. Like(x, z, {"attempt"}) /\ z.attempt = x.attempt + 1
    BY RunIs DEF Like, RunFields
  <2>2. z.attempt \in Names
    BY <1>1, <2>1, RunsAssumption DEF Known, RunTyped, Names, MoreNames
  <2> HIDE DEF z
  <2>3. /\ z.pc = x.pc /\ z.ok = x.ok /\ z.leftover = x.leftover /\ z.reserved = x.reserved
        /\ z.expired = x.expired /\ z.unproven = x.unproven /\ z.failure = x.failure
        /\ z.clean = x.clean /\ DOMAIN z = RunFields
    BY <2>1 DEF Like, RunFields
  <2>4. RunTyped(z) /\ Reasoned(z, plan[r])
    BY <1>1, <2>2, <2>3 DEF Known, RunTyped, Reasoned
  <2>5. PlacedRun(z, plan[r])
    BY <1>1, <2>3 DEF Known, PlacedRun
  <2>6. PlacedBuild(case.job, z, build[r], check[r])
    BY <1>1, <2>3 DEF Known, PlacedBuild, Recording
  <2>7. Verdicts(case.job, z, plan[r], build[r])
    BY <1>1, <2>3 DEF Known, Verdicts, Relies
  <2> QED
    BY <1>1, <2>3, <2>4, <2>5, <2>6, <2>7, NotYet DEF Known, Recording
<1>4. Known(case.job, r \in case.runs, w, plan[r], build[r], check[r])
  <2>1. Like(x, w, {"pc", "ok"}) /\ w.pc = exhausted /\ w.ok = FALSE
    BY RunIs DEF Like, RunFields
  <2> HIDE DEF w
  <2> QED
    BY <1>1, <2>1, RunGivesUp
<1>5. Becomes(r, y) \/ (MoreNames(r) /\ Becomes(r, z)) \/ Becomes(r, w)
  BY DEF Reserves
<1> HIDE DEF y, z, w
<1> QED
  BY <1>2, <1>3, <1>4, <1>5, RunMoves DEF Reserves, PlanKept, buildVars

\* The plan of r becomes q, those of the others stay.
PlanIs(r, q) ==
    /\ DOMAIN plan' = Runs /\ plan'[r] = q
    /\ \A s \in Runs \ {r} : plan'[s] = plan[s]

LEMMA RunAndPlanMove ==
    ASSUME CiInv, NEW r \in Runs, NEW y, Becomes(r, y), NEW q, PlanIs(r, q),
           UNCHANGED <<case, check, build>>, Calm \/ Mishap,
           Known(case.job, r \in case.runs, y, q, build[r], check[r])
    PROVE  Only(r) /\ Local(r)'
<1>1. /\ run'[r] = y /\ DOMAIN run' = Runs
      /\ \A s \in Runs \ {r} : run'[s] = run[s]
  BY BecomesIs DEF CiInv
<1>2. mishaps' \in 0..case.mishaps
  BY MishapsAre DEF CiInv
<1>3. Only(r)
  BY <1>1, <1>2 DEF Only, CiInv, Typed, PlanIs
<1>4. Local(r)'
  BY <1>1 DEF Local, PlanIs
<1> QED
  BY <1>3, <1>4

LEMMA PlanStays ==
    ASSUME CiInv, NEW r \in Runs, UNCHANGED plan
    PROVE  PlanIs(r, plan[r])
BY DEF PlanIs, CiInv, Typed

LEMMA AddsKnown ==
    ASSUME CiInv, NEW r \in Runs, NEW added, NEW failed \in {"remove", "unlock"},
           added = (IF case.job = "ci" THEN "start" ELSE "strategy"),
           Adds(r, added, failed), UNCHANGED buildVars
    PROVE  Only(r) /\ Local(r)'
<1> DEFINE x == run[r]
           y == [x EXCEPT !.pc = added]
           z == [x EXCEPT !.pc = failed, !.ok = FALSE]
<1>1. Known(case.job, r \in case.runs, x, plan[r], build[r], check[r]) /\ x.pc = "add"
  BY RunIs DEF Adds, At
<1>2. Known(case.job, r \in case.runs, y, plan[r], build[r], check[r])
  <2>1. Like(x, y, {"pc"}) /\ y.pc = added
    BY RunIs DEF Like, RunFields
  <2> HIDE DEF y
  <2> QED
    BY <1>1, <2>1, RunGoesEarly DEF Early
<1>3. Known(case.job, r \in case.runs, z, plan[r], build[r], check[r])
  <2>1. Like(x, z, {"pc", "ok"}) /\ z.pc = failed /\ z.ok = FALSE
    BY RunIs DEF Like, RunFields
  <2> HIDE DEF z
  <2> QED
    BY <1>1, <2>1, RunGivesUp
<1>4. (Becomes(r, y) \/ Becomes(r, z)) /\ (Calm \/ Mishap)
  BY DEF Adds, Goes
<1> HIDE DEF y, z
<1> QED
  BY <1>2, <1>3, <1>4, RunMoves DEF Adds, PlanKept, buildVars

\* A fact about the fields of plan q, when it is p but for one field.
LEMMA PlanFields ==
    ASSUME NEW p, PlanTyped(p)
    PROVE  /\ \A v \in {"none", "running", "exited", "reaped"} :
                 LET q == [p EXCEPT !.leader = v] IN
                 /\ q.leader = v /\ q.status = p.status /\ q.member = p.member
                 /\ q.escaped = p.escaped /\ q.stuck = p.stuck /\ q.doomed = p.doomed
                 /\ q \in [leader : {"none", "running", "exited", "reaped"},
                           status : {"none", "zero", "nonzero", "killed"},
                           member : {"none", "running", "gone"},
                           escaped : {"none", "running", "gone"},
                           stuck : BOOLEAN, doomed : SUBSET {"leader", "member"}]
           /\ \A d \in SUBSET {"leader", "member"} :
                 LET q == [p EXCEPT !.doomed = d] IN
                 /\ q.leader = p.leader /\ q.status = p.status /\ q.member = p.member
                 /\ q.escaped = p.escaped /\ q.stuck = p.stuck /\ q.doomed = d
                 /\ q \in [leader : {"none", "running", "exited", "reaped"},
                           status : {"none", "zero", "nonzero", "killed"},
                           member : {"none", "running", "gone"},
                           escaped : {"none", "running", "gone"},
                           stuck : BOOLEAN, doomed : SUBSET {"leader", "member"}]
BY DEF PlanTyped

\* Who lives in a group.
LEMMA LivingIs ==
    ASSUME NEW p, PlanTyped(p)
    PROVE  /\ "leader" \in Living(p) <=> p.leader = "running"
           /\ "member" \in Living(p) <=> p.member = "running"
           /\ Living(p) \subseteq {"leader", "member"}
BY DEF Living, PlanTyped

\* A leader that is reaped has exited.
LEMMA ReapedTyped ==
    ASSUME NEW p, PlanTyped(p), p.leader = "exited"
    PROVE  LET q == [p EXCEPT !.leader = "reaped"] IN
           /\ PlanTyped(q) /\ q.leader = "reaped" /\ q.status = p.status
           /\ q.escaped = p.escaped /\ q.member = p.member /\ Living(q) = Living(p)
<1> DEFINE q == [p EXCEPT !.leader = "reaped"]
<1>1. /\ q.leader = "reaped" /\ q.status = p.status /\ q.member = p.member
      /\ q.escaped = p.escaped /\ q.stuck = p.stuck /\ q.doomed = p.doomed
      /\ q \in [leader : {"none", "running", "exited", "reaped"},
                status : {"none", "zero", "nonzero", "killed"},
                member : {"none", "running", "gone"},
                escaped : {"none", "running", "gone"},
                stuck : BOOLEAN, doomed : SUBSET {"leader", "member"}]
  BY ZenonT(60), PlanFields
<1> HIDE DEF q
<1>2. q["leader"] = "reaped" /\ q["member"] = p["member"] /\ p["leader"] = "exited"
  BY <1>1
<1>3. Living(q) = Living(p)
  BY <1>2 DEF Living
<1>4. PlanTyped(q)
  BY <1>1, <1>3 DEF PlanTyped
<1> QED
  BY <1>1, <1>3, <1>4 DEF q

LEMMA DoomedTyped ==
    ASSUME NEW p, PlanTyped(p), NEW d, d \subseteq Living(p)
    PROVE  LET q == [p EXCEPT !.doomed = d] IN
           /\ PlanTyped(q) /\ q.leader = p.leader /\ q.status = p.status
           /\ q.escaped = p.escaped /\ q.member = p.member /\ Living(q) = Living(p)
<1> DEFINE q == [p EXCEPT !.doomed = d]
<1>1. /\ q.leader = p.leader /\ q.status = p.status /\ q.member = p.member
      /\ q.escaped = p.escaped /\ q.stuck = p.stuck /\ q.doomed = d
      /\ q \in [leader : {"none", "running", "exited", "reaped"},
                status : {"none", "zero", "nonzero", "killed"},
                member : {"none", "running", "gone"},
                escaped : {"none", "running", "gone"},
                stuck : BOOLEAN, doomed : SUBSET {"leader", "member"}]
  BY ZenonT(60), PlanFields, LivingIs
<1> HIDE DEF q
<1>2. q["leader"] = p["leader"] /\ q["member"] = p["member"]
  BY <1>1
<1>3. Living(q) = Living(p)
  BY <1>2 DEF Living
<1>4. PlanTyped(q)
  BY <1>1, <1>3 DEF PlanTyped
<1> QED
  BY <1>1, <1>3, <1>4 DEF q

\* The plan is started.
LEMMA StartedTyped ==
    ASSUME NEW p, PlanTyped(p), p.leader = "none"
    PROVE  LET q == [p EXCEPT !.leader = "running"] IN
           /\ PlanTyped(q) /\ q.leader = "running" /\ q.escaped = p.escaped
<1> DEFINE q == [p EXCEPT !.leader = "running"]
<1>1. /\ q.leader = "running" /\ q.status = p.status /\ q.member = p.member
      /\ q.escaped = p.escaped /\ q.stuck = p.stuck /\ q.doomed = p.doomed
      /\ q \in [leader : {"none", "running", "exited", "reaped"},
                status : {"none", "zero", "nonzero", "killed"},
                member : {"none", "running", "gone"},
                escaped : {"none", "running", "gone"},
                stuck : BOOLEAN, doomed : SUBSET {"leader", "member"}]
  BY ZenonT(60), PlanFields
<1> HIDE DEF q
<1>2. q["leader"] = "running" /\ q["member"] = p["member"]
  BY <1>1
<1>3. Living(p) \subseteq Living(q)
  BY <1>2 DEF Living
<1>4. PlanTyped(q)
  BY <1>1, <1>3 DEF PlanTyped
<1> QED
  BY <1>1, <1>4 DEF q

LEMMA StartPlanKnown ==
    ASSUME CiInv, NEW r \in Runs, StartPlan(r), UNCHANGED buildVars
    PROVE  Only(r) /\ Local(r)'
<1> DEFINE x == run[r]
           p == plan[r]
           q == [p EXCEPT !.leader = "running"]
           y == [x EXCEPT !.pc = "wait"]
           z(reason) == [x EXCEPT !.pc = AfterPlan(reason), !.failure = reason]
<1>1. /\ Known(case.job, r \in case.runs, x, p, build[r], check[r]) /\ x.pc = "start"
      /\ x.failure = Green /\ p.leader = "none" /\ x.ok /\ ~build[r].pinned /\ PlanTyped(p)
      /\ case.job \in {"ci", "merge"}
  BY RunIs DEF StartPlan, At, Known, PlacedRun, PlacedBuild, Recording, BeforePlan, Attending
<1>2. Known(case.job, r \in case.runs, y, q, build[r], check[r])
  <2>1. Like(x, y, {"pc"}) /\ y.pc = "wait"
    BY RunIs DEF Like, RunFields
  <2>2. PlanTyped(q) /\ q.leader = "running"
    BY <1>1, StartedTyped
  <2> HIDE DEF y, q, x, p
  <2>3. /\ y.attempt = x.attempt /\ y.ok = x.ok /\ y.leftover = x.leftover
        /\ y.expired = x.expired /\ y.unproven = x.unproven /\ y.failure = x.failure
        /\ y.clean = x.clean /\ y.reserved = x.reserved /\ DOMAIN y = RunFields
    BY <2>1 DEF Like, RunFields
  <2>4. RunTyped(y)
    BY <1>1, <2>3 DEF Known, RunTyped
  <2>5. Reasoned(y, q)
    BY <1>1, <2>3 DEF Reasoned, Green
  <2>6. PlacedRun(y, q)
    BY <1>1, <2>1, <2>2, <2>3 DEF Known, PlacedRun, BeforePlan, Attending
  <2>7. PlacedBuild(case.job, y, build[r], check[r])
    BY <1>1, <2>1 DEF Known, PlacedBuild, Recording, BeforePlan, Attending
  <2>8. Verdicts(case.job, y, q, build[r])
    BY <1>1, <2>1 DEF Verdicts, Relies
  <2> QED
    BY <1>1, <2>1, <2>2, <2>4, <2>5, <2>6, <2>7, <2>8, NotYet DEF Known, Recording
<1>3. ASSUME NEW reason \in {"plan_invalid", "spawn_failed"}
      PROVE  Known(case.job, r \in case.runs, z(reason), p, build[r], check[r])
  <2> DEFINE w == z(reason)
  <2>1. /\ Judged(x, w) /\ w.pc = AfterPlan(reason) /\ w.failure = reason
        /\ w.unproven = x.unproven
    BY RunIs DEF Judged, Like, RunFields
  <2>2. w.pc \in {"remove", "abort"}
    BY <2>1 DEF AfterPlan, Green
  <2> HIDE DEF w, x, p
  <2>3. Reasoned(w, p)
    BY <1>1, <2>1 DEF Reasoned
  <2>4. w.unproven \in BOOLEAN /\ w.failure \in Failures /\ w.failure # Green
    BY <1>1, <2>1 DEF Known, RunTyped, Failures, Green
  <2>5. Known(case.job, r \in case.runs, w, p, build[r], check[r])
    BY <1>1, <2>1, <2>2, <2>3, <2>4, RunIsJudged
  <2> QED
    BY <2>5 DEF w
<1>4. \/ Becomes(r, y) /\ PlanIs(r, q) /\ Calm
      \/ /\ \E reason \in {"plan_invalid", "spawn_failed"} : Becomes(r, z(reason))
         /\ PlanIs(r, p) /\ Mishap
  BY PlanStays DEF StartPlan, Goes, Fails, PlanIs, CiInv, Typed
<1> HIDE DEF y, z, q
<1> QED
  BY <1>2, <1>3, <1>4, RunAndPlanMove DEF StartPlan, buildVars, p

\* The group is killed, or not.
LEMMA KillsKnown ==
    ASSUME CiInv, NEW r \in Runs, NEW reason \in {"timeout", "cleanup_failed"},
           NEW pc \in {"grace", "capture"}, NEW sent \in BOOLEAN,
           Kills(r, reason, pc, sent), UNCHANGED buildVars, Waiting, Calm \/ Mishap,
           run[r].pc \in {"wait", "poll", "probe"}, reason = "timeout" => run[r].expired
    PROVE  Only(r) /\ Local(r)'
<1> DEFINE x == run[r]
           p == plan[r]
           q == IF sent THEN SignalPg(p) ELSE p
           y == [x EXCEPT !.pc = pc, !.failure = reason, !.spared = ~sent,
                          !.unproven = reason = "cleanup_failed"]
<1>1. /\ Known(case.job, r \in case.runs, x, p, build[r], check[r]) /\ PlanTyped(p)
      /\ case.job # "prepare"
  BY RunIs DEF Known, PlacedBuild, Recording, Attending
<1>2. PlanTyped(q) /\ Living(q) = Living(p) /\ q.leader = p.leader /\ q.status = p.status
  BY <1>1, DoomedTyped DEF SignalPg
<1>3. /\ Judged(x, y) /\ y.pc = pc /\ y.failure = reason
      /\ y.unproven = (reason = "cleanup_failed") /\ y.expired = x.expired
  BY RunIs DEF Judged, Like, RunFields
<1>4. Becomes(r, y) /\ PlanIs(r, q)
  BY DEF Kills, PlanIs, CiInv, Typed
<1> HIDE DEF x, p, q, y
<1>5. Reasoned(y, q)
  BY <1>3 DEF Reasoned, x
<1>6. build[r].pinned /\ build[r].unchecked => EarnedBy(q)
  BY <1>1, <1>2 DEF Known, Verdicts, EarnedBy
<1>7. y.failure \in Failures /\ y.failure # Green /\ y.unproven \in BOOLEAN
  BY <1>3 DEF Failures, Green
<1>8. Known(case.job, r \in case.runs, y, q, build[r], check[r])
  BY <1>1, <1>2, <1>3, <1>5, <1>6, <1>7, RunIsJudged DEF x
<1> QED
  BY <1>4, <1>8, RunAndPlanMove DEF Waiting, buildVars

\* A step that only changes the place, or what nothing is said about.
LEMMA GoesKnown ==
    ASSUME CiInv, NEW r \in Runs, NEW pc, Goes(r, pc),
           UNCHANGED <<case, plan, check, build>>, Calm \/ Mishap,
           \/ <<run[r].pc, pc>> \in Early /\ run[r].pc # "add"
           \/ /\ run[r].pc \notin Recording \cup {"abort"}
              /\ pc \in Easy(case.job) \cup {"killed"}
    PROVE  Only(r) /\ Local(r)'
<1> DEFINE x == run[r]
           y == [x EXCEPT !.pc = pc]
<1>1. Like(x, y, {"pc"}) /\ y.pc = pc
  BY RunIs DEF Like, RunFields
<1>2. y.leftover = x.leftover /\ y.clean = x.clean
  BY RunIs DEF RunFields
<1>3. Becomes(r, y)
  BY DEF Goes
<1> HIDE DEF y
<1>4. Like(x, y, Loose) /\ y.leftover \in BOOLEAN /\ y.clean \in BOOLEAN
  BY <1>1, <1>2, RunIs DEF Like, Loose
<1>5. Known(case.job, r \in case.runs, y, plan[r], build[r], check[r])
  <2>1. CASE <<x.pc, pc>> \in Early /\ x.pc # "add"
    BY <2>1, <1>1, RunIs, RunGoesEarly
  <2>2. CASE /\ run[r].pc \notin Recording \cup {"abort"}
             /\ pc \in Easy(case.job) \cup {"killed"}
    BY <2>2, <1>1, <1>4, RunIs, RunGoesEasily DEF Easy, Recording
  <2> QED
    BY <2>1, <2>2
<1> QED
  BY <1>3, <1>5, RunMoves

LEMMA LooseKnown ==
    ASSUME CiInv, NEW r \in Runs, NEW y, Becomes(r, y), Like(run[r], y, Loose),
           y.leftover \in BOOLEAN, y.clean \in BOOLEAN,
           UNCHANGED <<case, plan, check, build>>, Calm \/ Mishap,
           run[r].pc \notin Recording \cup {"abort"},
           \/ y.pc \in Easy(case.job) \cup {"killed"}
           \/ case.job = "ci" /\ run[r].pc \in Tidying /\ y.pc \in Tidying,
           y.pc = "record" => run[r].ok
    PROVE  Only(r) /\ Local(r)'
<1>1. Known(case.job, r \in case.runs, y, plan[r], build[r], check[r])
  BY RunIs, RunGoesEasily DEF Recording
<1> QED
  BY <1>1, RunMoves

LEMMA CheckDeadlineKnown ==
    ASSUME CiInv, NEW r \in Runs, CheckDeadline(r), UNCHANGED buildVars
    PROVE  Only(r) /\ Local(r)'
<1>1. CASE run[r].expired
  BY <1>1, KillsKnown DEF CheckDeadline, KillsOrNot, At
<1>2. CASE ~run[r].expired
  BY <1>2, GoesKnown DEF CheckDeadline, At, Early, Waiting, buildVars, Recording
<1> QED
  BY <1>1, <1>2

LEMMA WaitFailsKnown ==
    ASSUME CiInv, NEW r \in Runs, WaitFails(r), UNCHANGED buildVars
    PROVE  Only(r) /\ Local(r)'
BY KillsKnown DEF WaitFails, At

LEMMA TryWaitKnown ==
    ASSUME CiInv, NEW r \in Runs, TryWait(r), UNCHANGED buildVars
    PROVE  Only(r) /\ Local(r)'
<1>1. CASE plan[r].leader = "running" /\ Goes(r, "wait") /\ UNCHANGED plan
  BY <1>1, GoesKnown DEF TryWait, At, Early, Waiting, buildVars, Recording
<1>2. CASE plan[r].leader = "exited" /\ Reaped(r) /\ Goes(r, "probe")
  <2> DEFINE x == run[r]
             p == plan[r]
             q == [p EXCEPT !.leader = "reaped"]
             y == [x EXCEPT !.pc = "probe"]
  <2>1. /\ Known(case.job, r \in case.runs, x, p, build[r], check[r]) /\ PlanTyped(p)
        /\ x.pc = "poll"
    BY RunIs DEF Known, TryWait, At
  <2>2. PlanTyped(q) /\ q.leader = "reaped" /\ q.status = p.status /\ Living(q) = Living(p)
    BY <1>2, <2>1, ReapedTyped
  <2>3. Like(x, y, {"pc"}) /\ y.pc = "probe"
    BY RunIs DEF Like, RunFields
  <2>4. Becomes(r, y) /\ PlanIs(r, q)
    BY <1>2 DEF Goes, Reaped, PlanIs, CiInv, Typed
  <2>5. p.leader = "exited"
    BY <1>2
  <2> HIDE DEF x, p, q, y
  <2>6. /\ y.attempt = x.attempt /\ y.ok = x.ok /\ y.leftover = x.leftover
        /\ y.expired = x.expired /\ y.unproven = x.unproven /\ y.failure = x.failure
        /\ y.clean = x.clean /\ y.reserved = x.reserved /\ DOMAIN y = RunFields
    BY <2>3 DEF Like, RunFields
  <2>7. RunTyped(y)
    BY <2>1, <2>6 DEF Known, RunTyped
  <2>8. PlacedRun(y, q) /\ Reasoned(y, q)
    BY <2>1, <2>2, <2>3, <2>6 DEF Known, PlacedRun, BeforePlan, Attending, Reasoned, Green
  <2>9. PlacedBuild(case.job, y, build[r], check[r])
    BY <2>1, <2>3 DEF Known, PlacedBuild, Recording, BeforePlan, Attending
  <2>10. Verdicts(case.job, y, q, build[r])
    BY <2>1, <2>3, <2>5 DEF Known, Verdicts, Relies, EarnedBy
  <2>11. Known(case.job, r \in case.runs, y, q, build[r], check[r])
    BY <2>1, <2>2, <2>3, <2>7, <2>8, <2>9, <2>10, NotYet DEF Known, Recording
  <2> QED
    BY <2>4, <2>11, RunAndPlanMove DEF TryWait, Waiting, buildVars
<1> QED
  BY <1>1, <1>2 DEF TryWait

LEMMA ProbeGroupKnown ==
    ASSUME CiInv, NEW r \in Runs, ProbeGroup(r), UNCHANGED buildVars
    PROVE  Only(r) /\ Local(r)'
<1>1. CASE PgidAlive(plan[r])
  BY <1>1, KillsKnown DEF ProbeGroup, KillsOrNot, At
<1>2. CASE ~PgidAlive(plan[r])
  <2> DEFINE x == run[r]
             p == plan[r]
             reason == ExitResult(p.status)
             y == [x EXCEPT !.pc = "capture", !.failure = reason]
  <2>1. /\ Known(case.job, r \in case.runs, x, p, build[r], check[r]) /\ PlanTyped(p)
        /\ x.pc = "probe" /\ p.leader = "reaped" /\ case.job # "prepare"
    BY RunIs DEF Known, ProbeGroup, At, PlacedRun, PlacedBuild, Recording, Attending
  <2>2. p.member # "running"
    BY <1>2 DEF PgidAlive
  <2>3. Becomes(r, y)
    BY <1>2 DEF ProbeGroup, Fails
  <2>4. Judged(x, y) /\ y.pc = "capture" /\ y.failure = reason /\ y.unproven = x.unproven
    BY RunIs DEF Judged, Like, RunFields
  <2> HIDE DEF x, p, y
  <2>5. Living(p) = {}
    BY <2>1, <2>2, LivingIs
  <2>6. p.status \in {"zero", "nonzero", "killed"}
    BY <2>1 DEF PlanTyped
  <2>7. reason \in Failures /\ (reason = Green => EarnedBy(p))
        /\ (reason = "nonzero_exit" => p.status \in {"nonzero", "killed"})
        /\ reason \in {Green, "nonzero_exit"}
    BY <2>1, <2>5, <2>6 DEF ExitResult, Failures, Green, EarnedBy
  <2> HIDE DEF reason
  <2>8. Reasoned(y, p)
    BY <2>4, <2>5, <2>7 DEF Reasoned, Green
  <2>9. y.unproven \in BOOLEAN
    BY <2>1, <2>4 DEF Known, RunTyped
  <2>10. build[r].pinned /\ build[r].unchecked => EarnedBy(p)
    BY <2>1 DEF Known, Verdicts
  <2>11. Known(case.job, r \in case.runs, y, p, build[r], check[r])
    BY <2>1, <2>4, <2>7, <2>8, <2>9, <2>10, RunIsJudged
  <2> QED
    BY <1>2, <2>3, <2>11, RunMoves DEF ProbeGroup, Waiting, buildVars, p
<1> QED
  BY <1>1, <1>2

\* The plan's leader or what dies of it is settled, and the run goes on to the capture.
LEMMA ReapWithGraceKnown ==
    ASSUME CiInv, NEW r \in Runs, ReapWithGrace(r), UNCHANGED buildVars
    PROVE  Only(r) /\ Local(r)'
<1>1. CASE UNCHANGED plan
  BY <1>1, GoesKnown DEF ReapWithGrace, At, Early, Waiting, buildVars, Recording
<1>2. CASE plan[r].leader = "exited" /\ Reaped(r)
  <2> DEFINE x == run[r]
             p == plan[r]
             q == [p EXCEPT !.leader = "reaped"]
             y == [x EXCEPT !.pc = "capture"]
  <2>1. /\ Known(case.job, r \in case.runs, x, p, build[r], check[r]) /\ PlanTyped(p)
        /\ x.pc \in {"grace", "last grace"} /\ x.failure \in {"timeout", "cleanup_failed"}
        /\ BuildTyped(case.job, build[r])
    BY RunIs DEF Known, ReapWithGrace, At, PlacedRun
  <2>2. PlanTyped(q) /\ q.leader = "reaped" /\ q.status = p.status /\ Living(q) = Living(p)
    BY <1>2, <2>1, ReapedTyped
  <2>3. Like(x, y, {"pc"}) /\ y.pc = "capture"
    BY RunIs DEF Like, RunFields
  <2>4. Becomes(r, y) /\ PlanIs(r, q)
    BY <1>2 DEF ReapWithGrace, Goes, Reaped, PlanIs, CiInv, Typed
  <2>5. p.leader = "exited"
    BY <1>2
  <2> HIDE DEF x, p, q, y
  <2>6. /\ y.attempt = x.attempt /\ y.ok = x.ok /\ y.leftover = x.leftover
        /\ y.expired = x.expired /\ y.unproven = x.unproven /\ y.failure = x.failure
        /\ y.clean = x.clean /\ y.reserved = x.reserved /\ DOMAIN y = RunFields
    BY <2>3 DEF Like, RunFields
  <2>7. RunTyped(y)
    BY <2>1, <2>6 DEF Known, RunTyped
  <2>8. PlacedRun(y, q) /\ Reasoned(y, q)
    BY <2>1, <2>2, <2>3, <2>6 DEF Known, PlacedRun, BeforePlan, Attending, Reasoned, Green
  <2>9. PlacedBuild(case.job, y, build[r], check[r])
    BY <2>1, <2>3 DEF Known, PlacedBuild, Recording, BeforePlan, Attending
  <2>10. Verdicts(case.job, y, q, build[r])
    BY <2>1, <2>3, <2>5, <2>6 DEF Known, Verdicts, Relies, EarnedBy, Green
  <2>11. Known(case.job, r \in case.runs, y, q, build[r], check[r])
    BY <2>1, <2>2, <2>3, <2>7, <2>8, <2>9, <2>10, NotYet DEF Recording
  <2> QED
    BY <2>4, <2>11, RunAndPlanMove DEF ReapWithGrace, Waiting, buildVars
<1> QED
  BY <1>1, <1>2 DEF ReapWithGrace

LEMMA ReapGivesUpKnown ==
    ASSUME CiInv, NEW r \in Runs, ReapGivesUp(r), UNCHANGED buildVars
    PROVE  Only(r) /\ Local(r)'
BY GoesKnown DEF ReapGivesUp, At, Early, OnlyRun, buildVars, Recording

LEMMA GraceEndsKnown ==
    ASSUME CiInv, NEW r \in Runs, GraceEnds(r), UNCHANGED buildVars
    PROVE  Only(r) /\ Local(r)'
<1> DEFINE x == run[r]
           p == plan[r]
           q == [p EXCEPT !.doomed = @ \cup {"leader"}]
           y == [x EXCEPT !.pc = "last grace"]
<1>1. /\ Known(case.job, r \in case.runs, x, p, build[r], check[r]) /\ PlanTyped(p)
      /\ x.pc = "grace" /\ x.failure \in {"timeout", "cleanup_failed"} /\ p.leader = "running"
      /\ BuildTyped(case.job, build[r])
  BY RunIs DEF Known, GraceEnds, At, PlacedRun
<1>2. p.doomed \cup {"leader"} \subseteq Living(p)
  BY <1>1, LivingIs DEF PlanTyped
<1>3. PlanTyped(q) /\ q.leader = p.leader /\ q.status = p.status /\ Living(q) = Living(p)
  BY <1>1, <1>2, DoomedTyped
<1>4. Like(x, y, {"pc"}) /\ y.pc = "last grace"
  BY RunIs DEF Like, RunFields
<1>5. Becomes(r, y) /\ PlanIs(r, q)
  BY DEF GraceEnds, Goes, PlanIs, CiInv, Typed
<1> HIDE DEF x, p, q, y
<1>6. /\ y.attempt = x.attempt /\ y.ok = x.ok /\ y.leftover = x.leftover
      /\ y.expired = x.expired /\ y.unproven = x.unproven /\ y.failure = x.failure
      /\ y.clean = x.clean /\ y.reserved = x.reserved /\ DOMAIN y = RunFields
  BY <1>4 DEF Like, RunFields
<1>7. RunTyped(y)
  BY <1>1, <1>6 DEF Known, RunTyped
<1>8. PlacedRun(y, q) /\ Reasoned(y, q)
  BY <1>1, <1>3, <1>4, <1>6 DEF Known, PlacedRun, BeforePlan, Attending, Reasoned, Green
<1>9. PlacedBuild(case.job, y, build[r], check[r])
  BY <1>1, <1>4 DEF Known, PlacedBuild, Recording, BeforePlan, Attending
<1>10. Verdicts(case.job, y, q, build[r])
  BY <1>1, <1>3, <1>4 DEF Known, Verdicts, Relies, EarnedBy
<1>11. Known(case.job, r \in case.runs, y, q, build[r], check[r])
  BY <1>1, <1>3, <1>4, <1>7, <1>8, <1>9, <1>10, NotYet DEF Recording
<1> QED
  BY <1>5, <1>11, RunAndPlanMove DEF GraceEnds, Waiting, buildVars

LEMMA FinishCaptureKnown ==
    ASSUME CiInv, NEW r \in Runs, FinishCapture(r), UNCHANGED buildVars
    PROVE  Only(r) /\ Local(r)'
<1> DEFINE x == run[r]
           tail == BoundedTail[capture[r].kept]
           y == [x EXCEPT !.pc = AfterPlan(x.failure), !.tail = tail]
<1>1. /\ Known(case.job, r \in case.runs, x, plan[r], build[r], check[r])
      /\ x.pc = "capture" /\ case.job \in {"ci", "merge"}
  BY RunIs DEF FinishCapture, At, Known, PlacedBuild, Recording, Attending
<1> HIDE DEF tail
<1>2. Like(x, y, {"pc", "tail"}) /\ y.pc = AfterPlan(x.failure)
  BY RunIs DEF Like, RunFields
<1>3. Becomes(r, y)
  BY DEF FinishCapture, tail
<1> HIDE DEF y
<1>4. \/ y.pc = "remove" /\ case.job = "ci"
      \/ y.pc \in {"pin", "abort"} /\ case.job = "merge" /\ (y.pc = "pin" => x.failure = Green)
  BY <1>1, <1>2 DEF AfterPlan, Green
<1>5. /\ y.failure = x.failure /\ y.ok = x.ok /\ y.reserved = x.reserved
      /\ y.leftover = x.leftover /\ y.clean = x.clean
  BY <1>2 DEF Like, RunFields
<1>6. Like(x, y, Loose) /\ y.leftover \in BOOLEAN /\ y.clean \in BOOLEAN
  BY <1>2, <1>5, RunIs DEF Like, Loose
<1>7. PlacedRun(y, plan[r])
  BY <1>1, <1>4, <1>5 DEF Known, PlacedRun, BeforePlan, Attending
<1>8. PlacedBuild(case.job, y, build[r], check[r])
  BY <1>1, <1>4 DEF Known, PlacedBuild, Recording, BeforePlan, Attending
<1>9. Told(case.job, r \in case.runs, y, check[r])
  BY <1>4 DEF Told
<1>10. Relies(case.job, x, build[r])
  BY <1>1 DEF Relies
<1>11. Known(case.job, r \in case.runs, y, plan[r], build[r], check[r])
  BY <1>1, <1>4, <1>6, <1>7, <1>8, <1>9, <1>10, RunGoesOn
<1> QED
  BY <1>3, <1>11, RunMoves DEF FinishCapture, buildVars

\* A removal, with what it makes of the run.
LEMMA RemovesKnown ==
    ASSUME CiInv, NEW r \in Runs, NEW gone, NEW left, Removes(r, gone, left), UNCHANGED buildVars,
           run[r].pc \in {"remove", "discard"},
           \/ {gone, left} \subseteq Easy(case.job)
           \/ case.job = "ci" /\ run[r].pc = "remove" /\ {gone, left} \subseteq {"list", "release"}
    PROVE  Only(r) /\ Local(r)'
<1> DEFINE y == [run[r] EXCEPT !.pc = gone]
           z == [run[r] EXCEPT !.pc = left, !.leftover = TRUE]
<1>1. Like(run[r], y, Loose) /\ y.pc = gone /\ y.leftover \in BOOLEAN /\ y.clean \in BOOLEAN
  BY RunIs DEF Like, Loose, RunFields
<1>2. Like(run[r], z, Loose) /\ z.pc = left /\ z.leftover \in BOOLEAN /\ z.clean \in BOOLEAN
  BY RunIs DEF Like, Loose, RunFields
<1>3. (Becomes(r, y) \/ Becomes(r, z)) /\ (Calm \/ Mishap)
  BY DEF Removes, Goes, LeftOver
<1> HIDE DEF y, z
<1> QED
  BY <1>1, <1>2, <1>3, LooseKnown DEF Removes, PlanKept, buildVars, Tidying, Easy, Recording

LEMMA TidiesKnown ==
    ASSUME CiInv, NEW r \in Runs, case.job = "ci", UNCHANGED buildVars,
           RemoveTree(r) \/ ListTrees(r) \/ VerifyGone(r)
    PROVE  Only(r) /\ Local(r)'
<1>1. CASE RemoveTree(r)
  BY <1>1, RemovesKnown DEF RemoveTree, At, Tidying, Recording
<1>2. CASE ListTrees(r)
  <2>1. PICK answer : Becomes(r, [run[r] EXCEPT !.pc = "verify", !.listed = answer])
                      /\ (Calm \/ Mishap)
    BY <1>2 DEF ListTrees
  <2> DEFINE y == [run[r] EXCEPT !.pc = "verify", !.listed = answer]
  <2>2. Like(run[r], y, Loose) /\ y.pc = "verify" /\ y.leftover \in BOOLEAN /\ y.clean \in BOOLEAN
    BY RunIs DEF Like, Loose, RunFields
  <2> HIDE DEF y
  <2> QED
    BY <1>2, <2>1, <2>2, LooseKnown DEF y, ListTrees, At, Tidying, OnlyRun, buildVars, Recording
<1>3. CASE VerifyGone(r)
  <2> DEFINE y == [run[r] EXCEPT !.pc = "release",
                                 !.leftover = tree[Name(r)].dir \/ run[r].listed # "gone"]
  <2>1. Like(run[r], y, Loose) /\ y.pc = "release"
    BY RunIs DEF Like, Loose, RunFields
  <2>2. y.leftover \in BOOLEAN /\ y.clean \in BOOLEAN
    BY RunIs DEF RunFields
  <2>3. Becomes(r, y)
    BY <1>3 DEF VerifyGone
  <2> HIDE DEF y
  <2> QED
    BY <1>3, <2>1, <2>2, <2>3, LooseKnown DEF VerifyGone, At, Tidying, OnlyRun, buildVars, Recording
<1> QED
  BY <1>1, <1>2, <1>3

LEMMA ReleaseLockKnown ==
    ASSUME CiInv, NEW r \in Runs, case.job = "ci", ReleaseLock(r), UNCHANGED buildVars
    PROVE  Only(r) /\ Local(r)'
<1> DEFINE x == run[r]
           clean == tree[Name(r)] = NoTree
           y == [x EXCEPT !.pc = "record", !.answer = x.answer, !.clean = clean]
           z == [x EXCEPT !.pc = "done", !.answer = "err", !.clean = clean]
<1>1. /\ Known(case.job, r \in case.runs, x, plan[r], build[r], check[r])
      /\ x.pc = "release" /\ x.ok \in BOOLEAN
  BY RunIs DEF ReleaseLock, At, RunTyped
<1>2. clean \in BOOLEAN
  OBVIOUS
<1>3. IF x.ok THEN Becomes(r, y) ELSE Becomes(r, z)
  BY <1>1 DEF ReleaseLock
<1> HIDE DEF clean
<1>4. Like(x, y, Loose) /\ y.pc = "record" /\ y.leftover \in BOOLEAN /\ y.clean \in BOOLEAN
  BY <1>2, RunIs DEF Like, Loose, RunFields
<1>5. Like(x, z, Loose) /\ z.pc = "done" /\ z.leftover \in BOOLEAN /\ z.clean \in BOOLEAN
      /\ z.answer = "err"
  BY <1>2, RunIs DEF Like, Loose, RunFields
<1> HIDE DEF y, z
<1>6. CASE x.ok
  BY <1>1, <1>3, <1>4, <1>6, LooseKnown DEF ReleaseLock, PlanKept, buildVars, Tidying, Recording
<1>7. CASE ~x.ok
  <2>1. z.failure = x.failure /\ z.ok = x.ok /\ z.reserved = x.reserved
    BY <1>5 DEF Like, Loose, RunFields
  <2>2. check[r] = <<>>
    BY <1>1 DEF Known, PlacedBuild, Recording
  <2>3. PlacedRun(z, plan[r])
    BY <1>1, <1>5, <2>1 DEF Known, PlacedRun, BeforePlan, Attending
  <2>4. PlacedBuild(case.job, z, build[r], check[r])
    BY <1>1, <1>5, <2>2 DEF Known, PlacedBuild, Recording, BeforePlan, Attending
  <2>5. Told(case.job, r \in case.runs, z, check[r])
    BY <1>5, <2>2 DEF Told
  <2>6. ~Relies(case.job, z, build[r])
    BY <1>5 DEF Relies
  <2>7. Known(case.job, r \in case.runs, z, plan[r], build[r], check[r])
    BY <1>1, <1>5, <2>3, <2>4, <2>5, <2>6, RunGoesOn
  <2> QED
    BY <1>3, <1>7, <2>7, RunMoves DEF ReleaseLock, PlanKept, buildVars
<1> QED
  BY <1>1, <1>6, <1>7

LEMMA RecordsIs ==
    ASSUME NEW r \in Runs, Records(r)
    PROVE  check' = [check EXCEPT ![r] = Append(check[r], EntryOf(run[r]))]
BY DEF Records, Failure, EntryOf

\* A Check that is recorded after others is as they are.
LEMMA AnotherAlike ==
    ASSUME NEW x, NEW c, Alike(x, c), x.pc = "record", NEW e, e = EntryOf(x)
    PROVE  LET d == Append(c, e) IN d # <<>> /\ d[1] = e /\ d \in Seq({e})
<1>1. CASE c = <<>>
  BY <1>1
<1>2. CASE c # <<>>
  <2>1. c \in Seq({e}) /\ c[1] = e
    BY <1>2 DEF Alike
  <2> QED
    BY <1>2, <2>1
<1> QED
  BY <1>1, <1>2

LEMMA RecordCheckKnown ==
    ASSUME CiInv, NEW r \in Runs, case.job = "ci", RecordCheck(r), UNCHANGED buildVars
    PROVE  Only(r) /\ Local(r)'
<1> DEFINE x == run[r]
           p == plan[r]
           b == build[r]
           failure == Failure(r)
           y == [x EXCEPT !.pc = "done",
                          !.answer = IF failure = Green THEN "passed" ELSE "failed"]
           z == [x EXCEPT !.pc = "done", !.answer = "err"]
           entry == EntryOf(x)
           again == Append(check[r], entry)
<1>1. /\ Known("ci", r \in case.runs, x, p, b, check[r]) /\ PlanTyped(p)
      /\ x.pc = "record" /\ x.failure \in Failures
      /\ Alike(x, check[r]) /\ x.leftover \in BOOLEAN /\ x.clean \in BOOLEAN
  BY RunIs DEF RecordCheck, At, Known, RunTyped
<1>2. Like(x, y, Loose) /\ y.pc = "done" /\ y.leftover \in BOOLEAN /\ y.clean \in BOOLEAN
  BY RunIs DEF Like, Loose, RunFields
<1>3. Like(x, z, Loose) /\ z.pc = "done" /\ z.leftover \in BOOLEAN /\ z.clean \in BOOLEAN
      /\ z.answer = "err"
  BY RunIs DEF Like, Loose, RunFields
<1>4. entry.failure = failure
  BY DEF EntryOf, Failure
<1>5. \/ Becomes(r, y) /\ check' = [check EXCEPT ![r] = again] /\ Calm
      \/ UNCHANGED run /\ check' = [check EXCEPT ![r] = again] /\ Mishap
      \/ Becomes(r, z) /\ UNCHANGED check /\ Mishap
  BY RecordsIs DEF RecordCheck
<1>6. x.failure = Green /\ x.ok => EarnedBy(p)
  BY <1>1 DEF Known, Verdicts, Relies
<1>7. x.ok
  BY <1>1 DEF Known, PlacedRun
<1>8. /\ failure \in Failures
      /\ failure = Green => x.failure = Green
      /\ failure # Green => failure = x.failure \/ (failure = "cleanup_failed" /\ x.failure = Green)
  BY <1>1 DEF Failure, Failures, Green
<1>9. again # <<>> /\ again[1] = entry /\ again \in Seq({again[1]})
  <2>1. again # <<>> /\ again[1] = entry /\ again \in Seq({entry})
    BY <1>1, AnotherAlike DEF again
  <2> HIDE DEF again, entry
  <2> QED
    BY <2>1
<1>10. check[r] \in Seq({check[r][1]}) /\ (check[r] # <<>> => check[r][1] = entry)
  BY <1>1 DEF Alike
<1>11. Like(x, x, Loose) /\ PlanTyped(p) /\ BuildTyped("ci", b)
  BY <1>1, RunIs DEF Like, Known
<1> HIDE DEF x, y, z, entry, failure, again
<1>12. ASSUME NEW w, NEW c, Like(x, w, Loose), w.pc \in {"record", "done"},
              w.leftover \in BOOLEAN, w.clean \in BOOLEAN, c \in Seq({c[1]}),
              c # <<>> => c[1] = entry, w.pc = "record" => w = x,
              c = <<>> => w.answer = "err"
       PROVE  Known("ci", r \in case.runs, w, p, b, c)
  <2>1. /\ w.failure = x.failure /\ w.ok = x.ok /\ w.reserved = x.reserved
        /\ w.expired = x.expired /\ w.unproven = x.unproven /\ w.attempt = x.attempt
        /\ DOMAIN w = RunFields
    BY <1>12 DEF Like, Loose, RunFields
  <2>2. RunTyped(w) /\ Reasoned(w, p)
    BY <1>1, <1>12, <2>1 DEF Known, RunTyped, Reasoned
  <2>3. PlacedRun(w, p)
    BY <1>1, <1>12, <2>1 DEF Known, PlacedRun, BeforePlan, Attending
  <2>4. PlacedBuild("ci", w, b, c)
    BY <1>1, <1>12 DEF Known, PlacedBuild, Recording, BeforePlan, Attending
  <2>5. Verdicts("ci", w, p, b)
    BY <1>1, <1>12, <2>1 DEF Known, Verdicts, Relies
  <2>6. Says(w, p, c)
    <3> SUFFICES ASSUME c # <<>> PROVE Says(w, p, c)
      BY DEF Says
    <3>1. c[1].failure = failure
      BY <1>4, <1>12
    <3>2. failure = Green => EarnedBy(p) /\ w.failure = Green
      BY <1>6, <1>7, <1>8, <2>1
    <3>3. failure = "timeout" => w.expired
      BY <1>8, <2>1, <2>2 DEF Reasoned, Green
    <3>4. failure = "nonzero_exit" => p.status \in {"nonzero", "killed"} /\ Living(p) = {}
      BY <1>8, <2>1, <2>2 DEF Reasoned, Green
    <3>5. failure = "cleanup_failed" => w.unproven \/ p.status = "zero"
      BY <1>6, <1>7, <1>8, <2>1, <2>2 DEF Reasoned, Green, EarnedBy
    <3>6. failure \in {"plan_invalid", "spawn_failed"} => p.leader = "none"
      BY <1>8, <2>1, <2>2 DEF Reasoned, Green
    <3> QED
      BY <1>8, <3>1, <3>2, <3>3, <3>4, <3>5, <3>6 DEF Says
  <2>7. Alike(w, c)
    BY <1>12 DEF Alike, entry
  <2>8. Told("ci", r \in case.runs, w, c)
    BY <1>12 DEF Told
  <2> QED
    BY <1>11, <2>2, <2>3, <2>4, <2>5, <2>6, <2>7, <2>8 DEF Known
<1>13. UNCHANGED <<case, plan, build>>
  BY DEF RecordCheck, buildVars
<1>14. CASE Becomes(r, z) /\ UNCHANGED check /\ Mishap
  <2>1. Known("ci", r \in case.runs, z, p, b, check[r])
    BY <1>3, <1>10, <1>12
  <2> QED
    BY <1>13, <1>14, <2>1, RunMoves
<1>15. CASE (Becomes(r, y) \/ UNCHANGED run) /\ check' = [check EXCEPT ![r] = again]
            /\ (Calm \/ Mishap)
  <2>1. /\ check'[r] = again /\ DOMAIN check' = Runs
        /\ \A s \in Runs \ {r} : check'[s] = check[s]
    BY <1>15 DEF CiInv, Typed
  <2>2. PICK w : /\ w = y \/ w = x
                 /\ run'[r] = w /\ DOMAIN run' = Runs
                 /\ \A s \in Runs \ {r} : run'[s] = run[s]
    <3>1. CASE Becomes(r, y)
      BY <3>1, BecomesIs DEF CiInv
    <3>2. CASE UNCHANGED run
      BY <3>2 DEF CiInv, Typed, x
    <3> QED
      BY <1>15, <3>1, <3>2
  <2>3. Known("ci", r \in case.runs, w, p, b, check'[r])
    BY <1>1, <1>2, <1>9, <1>11, <1>12, <2>1, <2>2
  <2>4. mishaps' \in 0..case.mishaps
    BY <1>13, <1>15, MishapsAre DEF CiInv
  <2>5. Only(r)
    BY <1>13, <2>1, <2>2, <2>4 DEF Only, CiInv, Typed
  <2>6. Local(r)'
    BY <1>13, <2>2, <2>3 DEF Local
  <2> QED
    BY <2>5, <2>6
<1> QED
  BY <1>5, <1>14, <1>15

-----------------------------------------------------------------------------
(* The steps of a build. *)

LEMMA BuildGoesEasily ==
    ASSUME NEW j, NEW ours, NEW x, NEW y, NEW p, NEW b, NEW d, NEW c,
           Known(j, ours, x, p, b, c), j # "ci",
           Like(x, y, Loose), y.leftover \in BOOLEAN, y.clean \in BOOLEAN,
           x.pc \notin {"done", "killed"}, y.pc \in Easy(j),
           BuildTyped(j, d), d.busy = "no" \/ d.stuck \/ y.pc = "abort",
           d.pinned /\ d.unchecked => EarnedBy(p)
    PROVE  Known(j, ours, y, p, d, c)
<1>1. /\ y.failure = x.failure /\ y.ok = x.ok /\ y.reserved = x.reserved
      /\ y.expired = x.expired /\ y.unproven = x.unproven /\ y.attempt = x.attempt
      /\ DOMAIN y = RunFields
  BY DEF Like, Loose, RunFields
<1>2. RunTyped(y) /\ Reasoned(y, p)
  BY <1>1 DEF Known, RunTyped, Reasoned
<1>3. PlacedRun(y, p)
  BY <1>1 DEF Known, PlacedRun, BeforePlan, Attending, Easy
<1>4. c = <<>>
  BY DEF Known, PlacedBuild, Recording
<1>5. PlacedBuild(j, y, d, c)
  BY <1>4 DEF PlacedBuild, Recording, BeforePlan, Attending, Easy
<1>6. Verdicts(j, y, p, d)
  BY DEF Verdicts, Relies, Easy
<1>7. Says(y, p, c) /\ Alike(y, c) /\ Told(j, ours, y, c) /\ PlanTyped(p)
  BY <1>4, NoneAlike DEF Says, Told, Known
<1> QED
  BY <1>2, <1>3, <1>5, <1>6, <1>7 DEF Known

LEMMA BuildMoves ==
    ASSUME CiInv, NEW r \in Runs, NEW y, NEW d, Becomes(r, y), Builds(r, d),
           UNCHANGED <<case, plan, check>>, Calm \/ Mishap,
           Known(case.job, r \in case.runs, y, plan[r], d, check[r])
    PROVE  Only(r) /\ Local(r)'
<1>1. /\ run'[r] = y /\ DOMAIN run' = Runs
      /\ \A s \in Runs \ {r} : run'[s] = run[s]
  BY BecomesIs DEF CiInv
<1>2. /\ build'[r] = d /\ DOMAIN build' = Runs
      /\ \A s \in Runs \ {r} : build'[s] = build[s]
  BY DEF Builds, CiInv, Typed
<1>3. mishaps' \in 0..case.mishaps
  BY MishapsAre DEF CiInv
<1>4. Only(r)
  BY <1>1, <1>2, <1>3 DEF Only, CiInv, Typed
<1>5. Local(r)'
  BY <1>1, <1>2 DEF Local
<1> QED
  BY <1>4, <1>5

\* Any easy step of a build, with or without a change of what the build remembers.
LEMMA BuildKnown ==
    ASSUME CiInv, NEW r \in Runs, case.job # "ci", NEW y, NEW d,
           Becomes(r, y), Builds(r, d) \/ (UNCHANGED build /\ d = build[r]),
           Like(run[r], y, Loose), y.leftover \in BOOLEAN, y.clean \in BOOLEAN,
           run[r].pc \notin {"done", "killed"}, y.pc \in Easy(case.job),
           BuildTyped(case.job, d), d.busy = "no" \/ d.stuck \/ y.pc = "abort",
           d.pinned /\ d.unchecked => EarnedBy(plan[r]),
           UNCHANGED <<case, plan, check>>, Calm \/ Mishap
    PROVE  Only(r) /\ Local(r)'
<1>1. Known(case.job, r \in case.runs, y, plan[r], d, check[r])
  BY RunIs, BuildGoesEasily
<1>2. CASE Builds(r, d)
  BY <1>1, <1>2, BuildMoves
<1>3. CASE UNCHANGED build /\ d = build[r]
  BY <1>1, <1>3, RunMoves
<1> QED
  BY <1>2, <1>3

LEMMA BuildIs ==
    ASSUME CiInv, NEW r \in Runs
    PROVE  /\ BuildTyped(case.job, build[r])
           /\ run[r].pc \notin {"abort", "killed"} => build[r].busy = "no" \/ build[r].stuck
           /\ build[r].pinned /\ build[r].unchecked => EarnedBy(plan[r])
           /\ run[r].pc \in BeforePlan => ~build[r].pinned
BY RunIs DEF Known, PlacedBuild, Recording, Verdicts

\* What changes in the record of a build.
LEMMA UncheckedTyped ==
    ASSUME NEW j, NEW b, BuildTyped(j, b), NEW v \in BOOLEAN, v => j = "merge"
    PROVE  LET d == [b EXCEPT !.unchecked = v] IN
           /\ BuildTyped(j, d) /\ d.unchecked = v /\ d.pinned = b.pinned
           /\ d.busy = b.busy /\ d.stuck = b.stuck
BY DEF BuildTyped

LEMMA PinnedTyped ==
    ASSUME NEW j, NEW b, BuildTyped(j, b), j = "merge"
    PROVE  LET d == [b EXCEPT !.pinned = TRUE]
               e == [b EXCEPT !.pinned = TRUE, !.misled = TRUE]
           IN  /\ BuildTyped(j, d) /\ d.unchecked = b.unchecked
               /\ d.busy = b.busy /\ d.stuck = b.stuck
               /\ BuildTyped(j, e) /\ e.unchecked = b.unchecked
               /\ e.busy = b.busy /\ e.stuck = b.stuck
BY DEF BuildTyped

LEMMA SaidTyped ==
    ASSUME NEW j, NEW b, BuildTyped(j, b)
    PROVE  LET d == [b EXCEPT !.said = TRUE] IN
           /\ BuildTyped(j, d) /\ d.unchecked = b.unchecked /\ d.pinned = b.pinned
           /\ d.busy = b.busy /\ d.stuck = b.stuck
BY DEF BuildTyped

LEMMA StuckTyped ==
    ASSUME NEW j, NEW b, BuildTyped(j, b)
    PROVE  LET d == [b EXCEPT !.stuck = TRUE] IN
           /\ BuildTyped(j, d) /\ d.unchecked = b.unchecked /\ d.pinned = b.pinned /\ d.stuck
BY DEF BuildTyped

LEMMA BusyTyped ==
    ASSUME NEW j \in {"ci", "merge", "prepare"}, NEW b, BuildTyped(j, b),
           NEW v \in {"no", b.strategy} \ {"ff"}
    PROVE  LET d == [b EXCEPT !.busy = v] IN
           /\ BuildTyped(j, d) /\ d.unchecked = b.unchecked /\ d.pinned = b.pinned
           /\ d.busy = v
<1>1. b.strategy \in Strategy
  BY BuildAssumption DEF BuildTyped
<1> QED
  BY <1>1 DEF BuildTyped, Strategy

\* What a build's steps do to the run itself.
LEMMA BuildGoesKnown ==
    ASSUME CiInv, NEW r \in Runs, case.job # "ci", NEW pc \in Easy(case.job), NEW d,
           \/ Goes(r, pc) \/ LeftOver(r, pc)
           \/ \E said : Becomes(r, [run[r] EXCEPT !.pc = pc, !.answer = said]),
           Builds(r, d) \/ (UNCHANGED build /\ d = build[r]),
           run[r].pc \notin {"done", "killed"},
           BuildTyped(case.job, d), d.busy = "no" \/ d.stuck \/ pc = "abort",
           d.pinned /\ d.unchecked => EarnedBy(plan[r]),
           UNCHANGED <<case, plan, check>>, Calm \/ Mishap
    PROVE  Only(r) /\ Local(r)'
<1>1. CASE Goes(r, pc)
  <2> DEFINE y == [run[r] EXCEPT !.pc = pc]
  <2>1. Like(run[r], y, Loose) /\ y.pc = pc /\ y.leftover \in BOOLEAN /\ y.clean \in BOOLEAN
    BY RunIs DEF Like, Loose, RunFields
  <2>2. Becomes(r, y)
    BY <1>1 DEF Goes
  <2> HIDE DEF y
  <2> QED
    BY <2>1, <2>2, BuildKnown
<1>2. CASE LeftOver(r, pc)
  <2> DEFINE y == [run[r] EXCEPT !.pc = pc, !.leftover = TRUE]
  <2>1. Like(run[r], y, Loose) /\ y.pc = pc /\ y.leftover \in BOOLEAN /\ y.clean \in BOOLEAN
    BY RunIs DEF Like, Loose, RunFields
  <2>2. Becomes(r, y)
    BY <1>2 DEF LeftOver
  <2> HIDE DEF y
  <2> QED
    BY <2>1, <2>2, BuildKnown
<1>3. ASSUME NEW said, Becomes(r, [run[r] EXCEPT !.pc = pc, !.answer = said])
      PROVE  Only(r) /\ Local(r)'
  <2> DEFINE y == [run[r] EXCEPT !.pc = pc, !.answer = said]
  <2>1. Like(run[r], y, Loose) /\ y.pc = pc /\ y.leftover \in BOOLEAN /\ y.clean \in BOOLEAN
    BY RunIs DEF Like, Loose, RunFields
  <2>2. Becomes(r, y)
    BY <1>3
  <2> HIDE DEF y
  <2> QED
    BY <2>1, <2>2, BuildKnown
<1> QED
  BY <1>1, <1>2, <1>3

\* The strategy, and the plan of its result.
LEMMA StrategySucceedsKnown ==
    ASSUME CiInv, NEW r \in Runs, case.job # "ci", StrategySucceeds(r)
    PROVE  Only(r) /\ Local(r)'
<1>1. PICK unchecked \in BOOLEAN :
         /\ unchecked => Merging /\ build[r].strategy # "ff"
         /\ Builds(r, [build[r] EXCEPT !.unchecked = unchecked])
         /\ Goes(r, IF ~Merging THEN "remove" ELSE IF unchecked THEN "select" ELSE "pin")
  BY DEF StrategySucceeds
<1> DEFINE x == run[r]
           pc == IF ~Merging THEN "remove" ELSE IF unchecked THEN "select" ELSE "pin"
           d == [build[r] EXCEPT !.unchecked = unchecked]
           y == [x EXCEPT !.pc = pc]
<1>2. /\ Known(case.job, r \in case.runs, x, plan[r], build[r], check[r])
      /\ x.pc = "strategy" /\ ~build[r].pinned
      /\ (build[r].busy = "no" \/ build[r].stuck)
  BY RunIs, BuildIs DEF StrategySucceeds, At, BeforePlan
<1>3. /\ BuildTyped(case.job, d) /\ d.unchecked = unchecked /\ d.pinned = build[r].pinned
      /\ d.busy = build[r].busy /\ d.stuck = build[r].stuck
  <2>1. BuildTyped(case.job, build[r]) /\ (unchecked => case.job = "merge")
    BY <1>1, BuildIs DEF Merging
  <2> QED
    BY <2>1, UncheckedTyped
<1>4. Builds(r, d) /\ Becomes(r, y)
  BY <1>1 DEF Goes
<1>5. Like(x, y, {"pc"}) /\ y.pc = pc
  BY RunIs DEF Like, RunFields
<1>6. /\ pc \in {"remove", "select", "pin"} /\ (pc # "remove" => case.job = "merge")
      /\ (pc = "pin" => ~unchecked)
  BY DEF Merging
<1> HIDE DEF x, pc, d, y
<1>7. /\ y.failure = x.failure /\ y.ok = x.ok /\ y.reserved = x.reserved
      /\ y.leftover = x.leftover /\ y.clean = x.clean /\ y.expired = x.expired
      /\ y.unproven = x.unproven /\ y.attempt = x.attempt /\ DOMAIN y = RunFields
  BY <1>5 DEF Like, RunFields
<1>8. RunTyped(y) /\ Reasoned(y, plan[r])
  BY <1>2, <1>7 DEF Known, RunTyped, Reasoned
<1>9. PlacedRun(y, plan[r])
  BY <1>2, <1>5, <1>6, <1>7 DEF Known, PlacedRun, BeforePlan, Attending
<1>10. PlacedBuild(case.job, y, d, check[r])
  BY <1>2, <1>3, <1>5, <1>6 DEF Known, PlacedBuild, Recording, BeforePlan, Attending
<1>11. Verdicts(case.job, y, plan[r], d)
  BY <1>2, <1>3, <1>5, <1>6 DEF Verdicts, Relies
<1>12. PlanTyped(plan[r]) /\ x.pc # "done" /\ y.pc # "done"
  BY <1>2, <1>5, <1>6 DEF Known
<1>13. Known(case.job, r \in case.runs, y, plan[r], d, check[r])
  BY <1>2, <1>3, <1>8, <1>9, <1>10, <1>11, <1>12, NotYet DEF Recording
<1> QED
  BY <1>4, <1>13, BuildMoves DEF StrategySucceeds, Git, OnlyRun

LEMMA StrategyFailsKnown ==
    ASSUME CiInv, NEW r \in Runs, case.job # "ci", StrategyFails(r)
    PROVE  Only(r) /\ Local(r)'
<1>1. PICK busy \in {"no", build[r].strategy} \ {"ff"} :
         Builds(r, [build[r] EXCEPT !.busy = busy])
  BY DEF StrategyFails
<1> DEFINE d == [build[r] EXCEPT !.busy = busy]
<1>2. /\ BuildTyped(case.job, d) /\ d.unchecked = build[r].unchecked
      /\ d.pinned = build[r].pinned
  <2>1. BuildTyped(case.job, build[r]) /\ case.job \in {"ci", "merge", "prepare"}
    BY RunIs, BuildIs
  <2> QED
    BY <2>1, BusyTyped
<1>3. Builds(r, d)
  BY <1>1
<1> HIDE DEF d
<1> QED
  BY <1>2, <1>3, BuildIs, BuildGoesKnown DEF StrategyFails, Git, OnlyRun, At, Easy

LEMMA SelectResultPlanKnown ==
    ASSUME CiInv, NEW r \in Runs, case.job # "ci", SelectResultPlan(r)
    PROVE  Only(r) /\ Local(r)'
<1> DEFINE x == run[r]
           y == [x EXCEPT !.pc = "start"]
           z == [x EXCEPT !.pc = "abort", !.failure = "plan_invalid"]
<1>1. /\ Known(case.job, r \in case.runs, x, plan[r], build[r], check[r]) /\ x.pc = "select"
      /\ PlanTyped(plan[r])
  BY RunIs DEF SelectResultPlan, At, Known
<1>2. Known(case.job, r \in case.runs, y, plan[r], build[r], check[r])
  <2>1. Like(x, y, {"pc"}) /\ y.pc = "start"
    BY RunIs DEF Like, RunFields
  <2> HIDE DEF y
  <2>2. /\ y.failure = x.failure /\ y.ok = x.ok /\ y.reserved = x.reserved
        /\ y.leftover = x.leftover /\ y.clean = x.clean
    BY <2>1 DEF Like, RunFields
  <2>3. Like(x, y, Loose) /\ y.leftover \in BOOLEAN /\ y.clean \in BOOLEAN
    BY <2>1, <2>2, RunIs DEF Like, Loose
  <2>4. PlacedRun(y, plan[r])
    BY <1>1, <2>1, <2>2 DEF Known, PlacedRun, BeforePlan, Attending
  <2>5. PlacedBuild(case.job, y, build[r], check[r])
    BY <1>1, <2>1 DEF Known, PlacedBuild, Recording, BeforePlan, Attending
  <2>6. Told(case.job, r \in case.runs, y, check[r])
    BY <2>1 DEF Told
  <2>7. ~Relies(case.job, y, build[r])
    BY <2>1 DEF Relies
  <2> QED
    BY <1>1, <2>1, <2>3, <2>4, <2>5, <2>6, <2>7, RunGoesOn
<1>3. Known(case.job, r \in case.runs, z, plan[r], build[r], check[r])
  <2>1. Judged(x, z) /\ z.pc = "abort" /\ z.failure = "plan_invalid" /\ z.unproven = x.unproven
    BY RunIs DEF Judged, Like, RunFields
  <2> HIDE DEF z
  <2>2. Reasoned(z, plan[r])
    BY <1>1, <2>1 DEF Known, PlacedRun, Reasoned, BeforePlan, Green
  <2>3. build[r].pinned /\ build[r].unchecked => EarnedBy(plan[r])
    BY BuildIs
  <2>4. z.failure \in Failures /\ z.unproven \in BOOLEAN /\ z.failure # Green
    BY <1>1, <2>1 DEF Known, RunTyped, Failures, Green
  <2> QED
    BY <1>1, <2>1, <2>2, <2>3, <2>4, RunIsJudged
<1>4. (Becomes(r, y) \/ Becomes(r, z)) /\ (Calm \/ Mishap)
  BY DEF SelectResultPlan, Goes, Fails
<1> HIDE DEF y, z
<1> QED
  BY <1>2, <1>3, <1>4, RunMoves DEF SelectResultPlan, OnlyRun, buildVars

LEMMA PinResultKnown ==
    ASSUME CiInv, NEW r \in Runs, case.job # "ci", PinResult(r)
    PROVE  Only(r) /\ Local(r)'
<1>1. run[r].pc = "pin" /\ UNCHANGED <<case, plan, check>>
  BY DEF PinResult, At, OnlyRun
<1>2. /\ case.job = "merge" /\ run[r].failure = Green
      /\ build[r].unchecked => EarnedBy(plan[r])
  BY <1>1, RunIs DEF Known, PlacedRun, PlacedBuild, Recording, Verdicts, Relies
<1>3. CASE Goes(r, "abort") /\ UNCHANGED buildVars
  BY <1>1, <1>3, BuildIs, BuildGoesKnown DEF PinResult, Easy, buildVars
<1>4. ASSUME NEW d, NEW pc \in {"remove", "abort"}, Builds(r, d), Goes(r, pc), Calm \/ Mishap,
             \/ d = [build[r] EXCEPT !.pinned = TRUE]
             \/ d = [build[r] EXCEPT !.pinned = TRUE, !.misled = TRUE]
      PROVE  Only(r) /\ Local(r)'
  <2>1. BuildTyped(case.job, build[r]) /\ case.job = "merge"
    BY <1>2, BuildIs
  <2>2. /\ BuildTyped(case.job, d) /\ d.unchecked = build[r].unchecked
        /\ d.busy = build[r].busy /\ d.stuck = build[r].stuck
    <3>1. CASE d = [build[r] EXCEPT !.pinned = TRUE]
      BY <2>1, <3>1, PinnedTyped
    <3>2. CASE d = [build[r] EXCEPT !.pinned = TRUE, !.misled = TRUE]
      BY <2>1, <3>2, PinnedTyped
    <3> QED
      BY <1>4, <3>1, <3>2
  <2>3. d.busy = "no" \/ d.stuck
    BY <1>1, <2>2, BuildIs
  <2>4. pc \in Easy(case.job)
    BY <2>1 DEF Easy
  <2> QED
    BY <1>1, <1>2, <1>4, <2>2, <2>3, <2>4, BuildGoesKnown
<1> QED
  BY <1>3, <1>4 DEF PinResult

\* The clean-up after a failure.
LEMMA AbortStrategyKnown ==
    ASSUME CiInv, NEW r \in Runs, case.job # "ci", AbortStrategy(r)
    PROVE  Only(r) /\ Local(r)'
<1>1. run[r].pc = "abort" /\ Goes(r, "discard") /\ UNCHANGED <<case, plan, check>>
  BY DEF AbortStrategy, At, Git, OnlyRun
<1>2. BuildTyped(case.job, build[r]) /\ (build[r].pinned /\ build[r].unchecked => EarnedBy(plan[r]))
  BY BuildIs
<1>3. CASE Builds(r, [build[r] EXCEPT !.busy = "no"]) /\ Calm
  <2> DEFINE d == [build[r] EXCEPT !.busy = "no"]
  <2>1. /\ BuildTyped(case.job, d) /\ d.unchecked = build[r].unchecked
        /\ d.pinned = build[r].pinned /\ d.busy = "no"
    BY <1>2, RunIs, BusyTyped
  <2>2. Builds(r, d)
    BY <1>3
  <2> HIDE DEF d
  <2> QED
    BY <1>1, <1>2, <1>3, <2>1, <2>2, BuildGoesKnown DEF Easy
<1>4. CASE Builds(r, [build[r] EXCEPT !.stuck = TRUE]) /\ Mishap
  <2> DEFINE d == [build[r] EXCEPT !.stuck = TRUE]
  <2>1. /\ BuildTyped(case.job, d) /\ d.unchecked = build[r].unchecked
        /\ d.pinned = build[r].pinned /\ d.stuck
    BY <1>2, StuckTyped
  <2>2. Builds(r, d)
    BY <1>4
  <2> HIDE DEF d
  <2> QED
    BY <1>1, <1>2, <1>4, <2>1, <2>2, BuildGoesKnown DEF Easy
<1> QED
  BY <1>3, <1>4 DEF AbortStrategy

LEMMA DiscardTreeKnown ==
    ASSUME CiInv, NEW r \in Runs, case.job # "ci", DiscardTree(r)
    PROVE  Only(r) /\ Local(r)'
BY RemovesKnown DEF DiscardTree, At, Easy, Recording

LEMMA RemoveBuildKnown ==
    ASSUME CiInv, NEW r \in Runs, case.job # "ci", RemoveBuild(r)
    PROVE  Only(r) /\ Local(r)'
BY RemovesKnown DEF RemoveBuild, At, Easy, AfterLeftover, Recording

\* The steps that only the run itself sees.
LEMMA BuildEndsKnown ==
    ASSUME CiInv, NEW r \in Runs, case.job # "ci",
           Discarded(r) \/ Unlock(r) \/ ReleaseBuild(r) \/ Unpin(r)
    PROVE  Only(r) /\ Local(r)'
<1>1. /\ UNCHANGED <<case, plan, check, build>> /\ Calm
      /\ run[r].pc \in {"discarded", "unlock", "release", "unpin"}
  BY DEF Discarded, Unlock, ReleaseBuild, Unpin, TreeKept, buildVars, At
<1>2. BuildTyped(case.job, build[r]) /\ (build[r].pinned /\ build[r].unchecked => EarnedBy(plan[r]))
  BY BuildIs
<1>3. build[r].busy = "no" \/ build[r].stuck
  BY <1>1, BuildIs
<1>4. \E pc \in Easy(case.job) :
        \/ Goes(r, pc)
        \/ \E said : Becomes(r, [run[r] EXCEPT !.pc = pc, !.answer = said])
  <2>1. {"unlock", "finalize", "delete", "done"} \subseteq Easy(case.job)
    BY DEF Easy
  <2> QED
    BY <2>1 DEF Discarded, Unlock, ReleaseBuild, Unpin, Refuses
<1> QED
  BY <1>1, <1>2, <1>3, <1>4, BuildGoesKnown

LEMMA BuildLooksKnown ==
    ASSUME CiInv, NEW r \in Runs, case.job # "ci", CheckDir(r) \/ CheckRegistration(r)
    PROVE  Only(r) /\ Local(r)'
<1>1. /\ UNCHANGED <<case, plan, check, build>> /\ (Calm \/ Mishap)
      /\ run[r].pc \in {"exists", "list"}
  BY DEF CheckDir, CheckRegistration, OnlyRun, buildVars, At
<1>2. BuildTyped(case.job, build[r]) /\ (build[r].pinned /\ build[r].unchecked => EarnedBy(plan[r]))
  BY BuildIs
<1>3. build[r].busy = "no" \/ build[r].stuck
  BY <1>1, BuildIs
<1>4. \E pc \in Easy(case.job) : Goes(r, pc) \/ LeftOver(r, pc)
  BY DEF CheckDir, CheckRegistration, Easy, AfterLeftover
<1> QED
  BY <1>1, <1>2, <1>3, <1>4, BuildGoesKnown

LEMMA FinalizeKnown ==
    ASSUME CiInv, NEW r \in Runs, case.job # "ci", Finalize(r)
    PROVE  Only(r) /\ Local(r)'
<1>1. UNCHANGED <<case, plan, check>> /\ (Calm \/ Mishap) /\ run[r].pc = "finalize"
  BY DEF Finalize, OnlyRun, At
<1>2. BuildTyped(case.job, build[r]) /\ (build[r].pinned /\ build[r].unchecked => EarnedBy(plan[r]))
  BY BuildIs
<1>3. build[r].busy = "no" \/ build[r].stuck
  BY <1>1, BuildIs
<1>4. CASE UNCHANGED build
  <2>1. \E pc \in Easy(case.job) :
          \/ Goes(r, pc)
          \/ \E said : Becomes(r, [run[r] EXCEPT !.pc = pc, !.answer = said])
    <3>1. {"unpin", "done"} \subseteq Easy(case.job)
      BY DEF Easy
    <3> QED
      BY <3>1 DEF Finalize, Refuses
  <2> QED
    BY <1>1, <1>2, <1>3, <1>4, <2>1, BuildGoesKnown
<1>5. CASE Refuses(r) /\ Builds(r, [build[r] EXCEPT !.said = TRUE])
  <2> DEFINE d == [build[r] EXCEPT !.said = TRUE]
  <2>1. /\ BuildTyped(case.job, d) /\ d.unchecked = build[r].unchecked
        /\ d.pinned = build[r].pinned /\ d.busy = build[r].busy /\ d.stuck = build[r].stuck
    BY <1>2, SaidTyped
  <2>2. Builds(r, d)
    BY <1>5
  <2> HIDE DEF d
  <2> QED
    BY <1>1, <1>2, <1>3, <1>5, <2>1, <2>2, BuildGoesKnown DEF Easy, Refuses
<1> QED
  BY <1>4, <1>5 DEF Finalize, buildVars

LEMMA DeleteResultKnown ==
    ASSUME CiInv, NEW r \in Runs, case.job # "ci", DeleteResult(r)
    PROVE  Only(r) /\ Local(r)'
<1>1. /\ UNCHANGED <<case, plan, check>> /\ (Calm \/ Mishap)
      /\ run[r].pc = "delete" /\ Refuses(r)
  BY DEF DeleteResult, OnlyRun, At
<1>2. BuildTyped(case.job, build[r]) /\ (build[r].pinned /\ build[r].unchecked => EarnedBy(plan[r]))
  BY BuildIs
<1>3. build[r].busy = "no" \/ build[r].stuck
  BY <1>1, BuildIs
<1>4. CASE UNCHANGED build
  BY <1>1, <1>2, <1>3, <1>4, BuildGoesKnown DEF Easy, Refuses
<1>5. CASE Builds(r, [build[r] EXCEPT !.said = TRUE])
  <2> DEFINE d == [build[r] EXCEPT !.said = TRUE]
  <2>1. /\ BuildTyped(case.job, d) /\ d.unchecked = build[r].unchecked
        /\ d.pinned = build[r].pinned /\ d.busy = build[r].busy /\ d.stuck = build[r].stuck
    BY <1>2, SaidTyped
  <2>2. Builds(r, d)
    BY <1>5
  <2> HIDE DEF d
  <2> QED
    BY <1>1, <1>2, <1>3, <2>1, <2>2, BuildGoesKnown DEF Easy, Refuses
<1> QED
  BY <1>4, <1>5 DEF DeleteResult, buildVars

\* Every step of a command, as it sees it.
LEMMA StepKnown ==
    ASSUME CiInv, NEW r \in Runs, Step(r)
    PROVE  Only(r) /\ Local(r)'
<1>1. CASE RunsPlan(r) /\ UNCHANGED buildVars
  BY <1>1, StartPlanKnown, CheckDeadlineKnown, TryWaitKnown, ProbeGroupKnown, WaitFailsKnown,
     ReapWithGraceKnown, GraceEndsKnown, ReapGivesUpKnown, FinishCaptureKnown DEF RunsPlan
<1>2. CASE case.job = "ci" /\ CiStep(r) /\ UNCHANGED buildVars
  <2>1. CASE ReservePath(r) \/ WorktreeAdd(r)
    BY <1>2, <2>1, ReservesKnown, AddsKnown DEF ReservePath, WorktreeAdd
  <2> QED
    BY <1>1, <1>2, <2>1, SelectPlanKnown, TidiesKnown, ReleaseLockKnown, RecordCheckKnown
       DEF CiStep
<1>3. CASE case.job # "ci" /\ BuildStep(r)
  <2>1. CASE ReserveBuild(r) \/ AddBuild(r)
    BY <1>3, <2>1, ReservesKnown, AddsKnown DEF ReserveBuild, AddBuild
  <2> QED
    BY <1>1, <1>3, <2>1, StrategySucceedsKnown, StrategyFailsKnown, SelectResultPlanKnown,
       PinResultKnown, AbortStrategyKnown, DiscardTreeKnown, BuildEndsKnown, RemoveBuildKnown,
       BuildLooksKnown, FinalizeKnown, DeleteResultKnown DEF BuildStep
<1> QED
  BY <1>2, <1>3 DEF Step

-----------------------------------------------------------------------------
(* The steps of a plan, of the clock, and of what kills git-forge. *)

LEMMA LeaderEndsTyped ==
    ASSUME NEW p, PlanTyped(p), p.leader = "running", NEW status \in {"zero", "nonzero", "killed"}
    PROVE  LET q == [p EXCEPT !["leader"] = "exited", !.status = status,
                              !.doomed = @ \ {"leader"}] IN
           PlanTyped(q) /\ q.leader = "exited" /\ q.escaped = p.escaped
           /\ Living(q) \subseteq Living(p)
<1> DEFINE q == [p EXCEPT !["leader"] = "exited", !.status = status, !.doomed = @ \ {"leader"}]
<1>1. /\ q.leader = "exited" /\ q.status = status /\ q.member = p.member
      /\ q.escaped = p.escaped /\ q.stuck = p.stuck /\ q.doomed = p.doomed \ {"leader"}
      /\ q \in [leader : {"none", "running", "exited", "reaped"},
                status : {"none", "zero", "nonzero", "killed"},
                member : {"none", "running", "gone"},
                escaped : {"none", "running", "gone"},
                stuck : BOOLEAN, doomed : SUBSET {"leader", "member"}]
  BY DEF PlanTyped
<1> HIDE DEF q
<1>2. q["leader"] = "exited" /\ q["member"] = p["member"] /\ p["leader"] = "running"
  BY <1>1
<1>3. Living(q) = Living(p) \ {"leader"}
  BY <1>2 DEF Living
<1>4. PlanTyped(q)
  BY <1>1, <1>3 DEF PlanTyped
<1> QED
  BY <1>1, <1>3, <1>4 DEF q

LEMMA MemberEndsTyped ==
    ASSUME NEW p, PlanTyped(p), p.member = "running"
    PROVE  LET q == [p EXCEPT !["member"] = "gone", !.status = @, !.doomed = @ \ {"member"}] IN
           /\ PlanTyped(q) /\ q.leader = p.leader /\ q.status = p.status
           /\ q.escaped = p.escaped /\ Living(q) \subseteq Living(p)
<1> DEFINE q == [p EXCEPT !["member"] = "gone", !.status = @, !.doomed = @ \ {"member"}]
<1>1. /\ q.leader = p.leader /\ q.status = p.status /\ q.member = "gone"
      /\ q.escaped = p.escaped /\ q.stuck = p.stuck /\ q.doomed = p.doomed \ {"member"}
      /\ q \in [leader : {"none", "running", "exited", "reaped"},
                status : {"none", "zero", "nonzero", "killed"},
                member : {"none", "running", "gone"},
                escaped : {"none", "running", "gone"},
                stuck : BOOLEAN, doomed : SUBSET {"leader", "member"}]
  BY DEF PlanTyped
<1> HIDE DEF q
<1>2. q["leader"] = p["leader"] /\ q["member"] = "gone" /\ p["member"] = "running"
  BY <1>1
<1>3. Living(q) = Living(p) \ {"member"}
  BY <1>2 DEF Living
<1>4. PlanTyped(q)
  BY <1>1, <1>3 DEF PlanTyped
<1> QED
  BY <1>1, <1>3, <1>4 DEF q

\* A process that is started, one outside the group that ends, and a plan that gets stuck.
LEMMA ForksTyped ==
    ASSUME NEW p, PlanTyped(p), NEW x \in {"member", "escaped"}, p[x] = "none",
           p.leader # "none"
    PROVE  LET q == [p EXCEPT ![x] = "running"] IN
           /\ PlanTyped(q) /\ q.leader = p.leader /\ q.status = p.status
           /\ p.escaped # "none" => q.escaped # "none"
<1> DEFINE q == [p EXCEPT ![x] = "running"]
<1>1. /\ q.leader = p.leader /\ q.status = p.status
      /\ q.member \in {p.member, "running"} /\ q.escaped \in {p.escaped, "running"}
      /\ q.stuck = p.stuck /\ q.doomed = p.doomed
      /\ q \in [leader : {"none", "running", "exited", "reaped"},
                status : {"none", "zero", "nonzero", "killed"},
                member : {"none", "running", "gone"},
                escaped : {"none", "running", "gone"},
                stuck : BOOLEAN, doomed : SUBSET {"leader", "member"}]
  BY DEF PlanTyped
<1> HIDE DEF q
<1>2. q["leader"] = p["leader"] /\ q["member"] \in {p["member"], "running"}
  BY <1>1
<1>3. Living(p) \subseteq Living(q)
  BY <1>2 DEF Living
<1>4. PlanTyped(q)
  BY <1>1, <1>3 DEF PlanTyped
<1> QED
  BY <1>1, <1>4 DEF q

LEMMA EscapedTyped ==
    ASSUME NEW p, PlanTyped(p), p.escaped = "running"
    PROVE  LET q == [p EXCEPT !.escaped = "gone"] IN
           /\ PlanTyped(q) /\ q.leader = p.leader /\ q.status = p.status
           /\ q.escaped = "gone" /\ Living(q) = Living(p)
<1> DEFINE q == [p EXCEPT !.escaped = "gone"]
<1>1. /\ q.leader = p.leader /\ q.status = p.status /\ q.member = p.member
      /\ q.escaped = "gone" /\ q.stuck = p.stuck /\ q.doomed = p.doomed
      /\ q \in [leader : {"none", "running", "exited", "reaped"},
                status : {"none", "zero", "nonzero", "killed"},
                member : {"none", "running", "gone"},
                escaped : {"none", "running", "gone"},
                stuck : BOOLEAN, doomed : SUBSET {"leader", "member"}]
  BY DEF PlanTyped
<1> HIDE DEF q
<1>2. q["leader"] = p["leader"] /\ q["member"] = p["member"]
  BY <1>1
<1>3. Living(q) = Living(p)
  BY <1>2 DEF Living
<1>4. PlanTyped(q)
  BY <1>1, <1>3 DEF PlanTyped
<1> QED
  BY <1>1, <1>3, <1>4 DEF q

LEMMA StuckPlanTyped ==
    ASSUME NEW p, PlanTyped(p)
    PROVE  LET q == [p EXCEPT !.stuck = TRUE] IN
           /\ PlanTyped(q) /\ q.leader = p.leader /\ q.status = p.status
           /\ q.escaped = p.escaped /\ Living(q) = Living(p)
<1> DEFINE q == [p EXCEPT !.stuck = TRUE]
<1>1. /\ q.leader = p.leader /\ q.status = p.status /\ q.member = p.member
      /\ q.escaped = p.escaped /\ q.doomed = p.doomed
      /\ q \in [leader : {"none", "running", "exited", "reaped"},
                status : {"none", "zero", "nonzero", "killed"},
                member : {"none", "running", "gone"},
                escaped : {"none", "running", "gone"},
                stuck : BOOLEAN, doomed : SUBSET {"leader", "member"}]
  BY DEF PlanTyped
<1> HIDE DEF q
<1>2. q["leader"] = p["leader"] /\ q["member"] = p["member"]
  BY <1>1
<1>3. Living(q) = Living(p)
  BY <1>2 DEF Living
<1>4. PlanTyped(q)
  BY <1>1, <1>3 DEF PlanTyped
<1> QED
  BY <1>1, <1>3, <1>4 DEF q

\* A plan that goes on by itself undoes nothing that its run has seen.
GoesOn(p, q) ==
    /\ PlanTyped(q)
    /\ q.leader = p.leader \/ (p.leader = "running" /\ q.leader = "exited")
    /\ p.leader # "running" => q.status = p.status
    /\ Living(p) = {} => Living(q) = {}
    /\ p.escaped # "none" => q.escaped # "none"

LEMMA PlanGoesOn ==
    ASSUME NEW j, NEW ours, NEW x, NEW p, NEW q, NEW b, NEW c,
           Known(j, ours, x, p, b, c), GoesOn(p, q)
    PROVE  Known(j, ours, x, q, b, c)
<1>1. PlanTyped(p)
  BY DEF Known
<1>2. p.status # "none" => q.status = p.status
  BY <1>1 DEF GoesOn, PlanTyped
<1>3. EarnedBy(p) => EarnedBy(q)
  BY DEF EarnedBy, GoesOn
<1>4. PlacedRun(x, q)
  BY DEF Known, PlacedRun, GoesOn
<1>5. Reasoned(x, q)
  BY <1>2 DEF Known, Reasoned, GoesOn
<1>6. Verdicts(j, x, q, b)
  BY <1>3 DEF Known, Verdicts
<1>7. Says(x, q, c)
  BY <1>2, <1>3 DEF Known, Says, GoesOn
<1> QED
  BY <1>4, <1>5, <1>6, <1>7 DEF Known, GoesOn

LEMMA PlanSteps ==
    ASSUME CiInv, NEW r \in Runs,
           Exits(r) \/ Dies(r) \/ Forks(r) \/ GetsStuck(r) \/ EscapedExits(r)
    PROVE  \E q : PlanIs(r, q) /\ GoesOn(plan[r], q)
<1> DEFINE p == plan[r]
<1>1. PlanTyped(p) /\ DOMAIN plan = Runs
  BY RunIs DEF Known, CiInv, Typed
<1>2. ASSUME NEW x \in Living(p), NEW status \in {"zero", "nonzero", "killed"}, Ends(r, x, status)
      PROVE  \E q : PlanIs(r, q) /\ GoesOn(p, q)
  <2>1. CASE x = "leader"
    <3> DEFINE q == [p EXCEPT !["leader"] = "exited", !.status = status, !.doomed = @ \ {"leader"}]
    <3>1. p.leader = "running"
      BY <1>1, <1>2, <2>1, LivingIs
    <3>2. PlanTyped(q) /\ q.leader = "exited" /\ q.escaped = p.escaped
          /\ Living(q) \subseteq Living(p)
      BY ZenonT(60), <1>1, <1>2, <3>1, LeaderEndsTyped
    <3>3. PlanIs(r, q)
      BY <1>1, <1>2, <2>1 DEF Ends, PlanIs
    <3> HIDE DEF q, p
    <3>4. GoesOn(p, q)
      BY <3>1, <3>2 DEF GoesOn
    <3> QED
      BY <3>3, <3>4
  <2>2. CASE x = "member"
    <3> DEFINE q == [p EXCEPT !["member"] = "gone", !.status = @, !.doomed = @ \ {"member"}]
    <3>1. p.member = "running"
      BY <1>1, <1>2, <2>2, LivingIs
    <3>2. /\ PlanTyped(q) /\ q.leader = p.leader /\ q.status = p.status
          /\ q.escaped = p.escaped /\ Living(q) \subseteq Living(p)
      BY <1>1, <3>1, MemberEndsTyped
    <3>3. PlanIs(r, q)
      BY <1>1, <1>2, <2>2 DEF Ends, PlanIs
    <3> HIDE DEF q, p
    <3>4. GoesOn(p, q)
      BY <3>2 DEF GoesOn
    <3> QED
      BY <3>3, <3>4
  <2> QED
    BY <1>1, <1>2, <2>1, <2>2, LivingIs
<1>3. CASE Exits(r) \/ Dies(r)
  BY <1>2, <1>3 DEF Exits, Dies
<1>4. CASE Forks(r)
  <2>1. PICK x \in {"member", "escaped"} :
              p[x] = "none" /\ plan' = [plan EXCEPT ![r][x] = "running"]
    BY <1>4 DEF Forks
  <2> DEFINE q == [p EXCEPT ![x] = "running"]
  <2>2. Living(p) # {} /\ p.leader # "none"
    BY <1>1, <1>4, LivingIs DEF Forks, PlanTyped
  <2>3. /\ PlanTyped(q) /\ q.leader = p.leader /\ q.status = p.status
        /\ p.escaped # "none" => q.escaped # "none"
    BY <1>1, <2>1, <2>2, ForksTyped
  <2>4. PlanIs(r, q)
    BY <1>1, <2>1 DEF PlanIs
  <2> HIDE DEF q, p
  <2>5. GoesOn(p, q)
    BY <2>2, <2>3 DEF GoesOn
  <2> QED
    BY <2>4, <2>5 DEF p
<1>5. CASE GetsStuck(r)
  <2> DEFINE q == [p EXCEPT !.stuck = TRUE]
  <2>1. /\ PlanTyped(q) /\ q.leader = p.leader /\ q.status = p.status
        /\ q.escaped = p.escaped /\ Living(q) = Living(p)
    BY <1>1, StuckPlanTyped
  <2>2. PlanIs(r, q)
    BY <1>1, <1>5 DEF PlanIs, GetsStuck
  <2> HIDE DEF q, p
  <2>3. GoesOn(p, q)
    BY <2>1 DEF GoesOn
  <2> QED
    BY <2>2, <2>3 DEF p
<1>6. CASE EscapedExits(r)
  <2> DEFINE q == [p EXCEPT !.escaped = "gone"]
  <2>1. /\ PlanTyped(q) /\ q.leader = p.leader /\ q.status = p.status
        /\ q.escaped = "gone" /\ Living(q) = Living(p)
    BY <1>1, <1>6, EscapedTyped DEF EscapedExits
  <2>2. PlanIs(r, q)
    BY <1>1, <1>6 DEF PlanIs, EscapedExits
  <2> HIDE DEF q, p
  <2>3. GoesOn(p, q)
    BY <2>1 DEF GoesOn
  <2> QED
    BY <2>2, <2>3 DEF p
<1> QED
  BY <1>3, <1>4, <1>5, <1>6

LEMMA PlanStepsKnown ==
    ASSUME CiInv, NEW r \in Runs, UNCHANGED buildVars,
           Exits(r) \/ Dies(r) \/ Forks(r) \/ GetsStuck(r) \/ EscapedExits(r)
    PROVE  Only(r) /\ Local(r)'
<1>1. PICK q : PlanIs(r, q) /\ GoesOn(plan[r], q)
  BY PlanSteps
<1>2. Known(case.job, r \in case.runs, run[r], q, build[r], check[r])
  BY <1>1, RunIs, PlanGoesOn
<1>3. UNCHANGED <<case, run, check, build>> /\ (Calm \/ Mishap)
  BY DEF Exits, Dies, Forks, GetsStuck, EscapedExits, OnlyPlan, buildVars
<1>4. mishaps' \in 0..case.mishaps
  BY <1>3, MishapsAre DEF CiInv
<1>5. Only(r)
  BY <1>1, <1>3, <1>4 DEF Only, PlanIs, CiInv, Typed
<1>6. Local(r)'
  BY <1>1, <1>2, <1>3 DEF Local, PlanIs
<1> QED
  BY <1>5, <1>6

LEMMA NobodyMoves ==
    ASSUME CiInv, NEW r \in Runs, UNCHANGED <<case, run, plan, check, build>>, Calm \/ Mishap
    PROVE  Only(r) /\ Local(r)'
<1>1. mishaps' \in 0..case.mishaps
  BY MishapsAre DEF CiInv
<1>2. Only(r)
  BY <1>1 DEF Only, CiInv, Typed
<1>3. Local(r)'
  BY RunIs DEF Local
<1> QED
  BY <1>2, <1>3

LEMMA ExpireKnown ==
    ASSUME CiInv, NEW r \in Runs, Expire(r), UNCHANGED buildVars
    PROVE  Only(r) /\ Local(r)'
<1> DEFINE x == run[r]
           y == [x EXCEPT !.expired = TRUE]
<1>1. /\ Known(case.job, r \in case.runs, x, plan[r], build[r], check[r])
      /\ x.pc \in {"wait", "poll", "probe"} /\ PlanTyped(plan[r]) /\ BuildTyped(case.job, build[r])
  BY RunIs DEF Expire, At, Known
<1>2. Like(x, y, {"expired"}) /\ y.expired = TRUE
  BY RunIs DEF Like, RunFields
<1>3. Becomes(r, y)
  BY DEF Expire
<1> HIDE DEF y
<1>4. /\ y.pc = x.pc /\ y.attempt = x.attempt /\ y.ok = x.ok /\ y.leftover = x.leftover
      /\ y.failure = x.failure /\ y.unproven = x.unproven
      /\ y.clean = x.clean /\ y.reserved = x.reserved /\ DOMAIN y = RunFields
  BY <1>2 DEF Like, RunFields
<1>5. RunTyped(y)
  BY <1>1, <1>2, <1>4 DEF Known, RunTyped
<1>6. Reasoned(y, plan[r]) /\ PlacedRun(y, plan[r])
  BY <1>1, <1>2, <1>4 DEF Known, Reasoned, PlacedRun
<1>7. PlacedBuild(case.job, y, build[r], check[r])
  BY <1>1, <1>4 DEF Known, PlacedBuild, Recording
<1>8. Verdicts(case.job, y, plan[r], build[r])
  BY <1>1, <1>4 DEF Known, Verdicts, Relies
<1>9. Known(case.job, r \in case.runs, y, plan[r], build[r], check[r])
  BY <1>1, <1>4, <1>5, <1>6, <1>7, <1>8, NotYet DEF Recording
<1> QED
  BY <1>3, <1>9, RunMoves DEF Expire, OnlyRun, buildVars

LEMMA CrashKnown ==
    ASSUME CiInv, NEW r \in Runs, Crash(r), UNCHANGED buildVars
    PROVE  Only(r) /\ Local(r)'
<1> DEFINE x == run[r]
           y == [x EXCEPT !.pc = "killed"]
<1>1. /\ Known(case.job, r \in case.runs, x, plan[r], build[r], check[r])
      /\ x.pc \notin {"done", "killed"}
  BY RunIs DEF Crash, At
<1>2. Like(x, y, {"pc"}) /\ y.pc = "killed"
  BY RunIs DEF Like, RunFields
<1>3. Becomes(r, y)
  BY DEF Crash, Goes
<1> HIDE DEF y
<1>4. /\ y.failure = x.failure /\ y.ok = x.ok /\ y.reserved = x.reserved
      /\ y.leftover = x.leftover /\ y.clean = x.clean
  BY <1>2 DEF Like, RunFields
<1>5. Like(x, y, Loose) /\ y.leftover \in BOOLEAN /\ y.clean \in BOOLEAN
  BY <1>2, <1>4, RunIs DEF Like, Loose
<1>6. PlacedRun(y, plan[r])
  BY <1>1, <1>2, <1>4 DEF Known, PlacedRun, BeforePlan, Attending
<1>7. PlacedBuild(case.job, y, build[r], check[r])
  BY <1>1, <1>2 DEF Known, PlacedBuild, Recording, BeforePlan, Attending
<1>8. Told(case.job, r \in case.runs, y, check[r])
  BY <1>2 DEF Told
<1>9. ~Relies(case.job, y, build[r])
  BY <1>2 DEF Relies
<1>10. Known(case.job, r \in case.runs, y, plan[r], build[r], check[r])
  BY <1>1, <1>2, <1>5, <1>6, <1>7, <1>8, <1>9, RunGoesOn
<1> QED
  BY <1>3, <1>10, RunMoves DEF Crash, OnlyRun, buildVars

LEMMA OtherKnown ==
    ASSUME CiInv, NEW r \in Runs, Other(r), UNCHANGED buildVars
    PROVE  Only(r) /\ Local(r)'
<1>1. CASE ReadChunk(r) \/ ReaderEnds(r) \/ PlanWrites(r)
  <2>1. UNCHANGED <<case, run, plan, check, build>> /\ (Calm \/ Mishap)
    BY <1>1 DEF ReadChunk, ReaderEnds, PlanWrites, Calm, buildVars
  <2> QED
    BY <2>1, NobodyMoves
<1> QED
  BY <1>1, PlanStepsKnown, ExpireKnown, CrashKnown DEF Other

-----------------------------------------------------------------------------
(* What runs have in common. *)

\* What r does to itself never undoes that it found no name, or that its plan outlived it.
Steady(r) ==
    /\ Only(r)
    /\ Exhausted(r) => Exhausted(r)'
    /\ Outlived(r) => Outlived(r)'

LEMMA SteadyKeeps ==
    ASSUME CiInv, NEW r \in Runs, Steady(r)
    PROVE  /\ Apart' => Apart
           /\ (\E s \in Runs : Outlived(s)) => (\E s \in Runs : Outlived(s))'
           /\ \A s \in Runs \ {r} : Name(s)' = Name(s)
<1>1. \A s \in Runs : Exhausted(s) => Exhausted(s)'
  BY DEF Steady, Only, Exhausted
<1>2. \A s \in Runs : Outlived(s) => Outlived(s)'
  BY DEF Steady, Only, Outlived
<1>3. case' = case
  BY DEF Steady, Only
<1>4. Apart' => Apart
  BY <1>1, <1>3 DEF Apart, NoneExhausted
<1>5. (\E s \in Runs : Outlived(s)) => (\E s \in Runs : Outlived(s))'
  BY <1>2
<1>6. \A s \in Runs \ {r} : Name(s)' = Name(s)
  BY DEF Steady, Only, Name
<1> QED
  BY <1>4, <1>5, <1>6

LEMMA RunsAreNot ==
    \A r \in Runs : r \notin {"free", "stale", "none"}
BY RunsAssumption

LEMMA NamesAre ==
    ASSUME CiInv, NEW r \in Runs
    PROVE  Name(r) \in Names
BY RunIs DEF RunTyped, Name

\* What a step of r does under its name leaves what the others have there.
Elsewhere(r) == \A n \in Names \ {Name(r)} : tree'[n] = tree[n] /\ lock'[n] = lock[n]
Considerate(r) ==
    /\ \/ run[r].pc = "remove" \/ (run[r].pc = "discard" /\ case.job # "ci")
       \/ tree[Name(r)].registered /\ tree[Name(r)].by # "none" =>
             tree'[Name(r)].registered /\ tree'[Name(r)].by = tree[Name(r)].by
    /\ case.job = "ci" =>
          /\ lock'[Name(r)] = lock[Name(r)] \/ lock[Name(r)] \in {"free", r}
          /\ \/ tree[Name(r)] # NoTree \/ tree'[Name(r)] = NoTree
             \/ lock[Name(r)] = r \/ Outlived(r)

LEMMA OthersOwn ==
    ASSUME CiInv, NEW r \in Runs, Steady(r), Apart', Elsewhere(r), Considerate(r),
           NEW s \in Runs, s # r
    PROVE  OwnsTree(s)' /\ OwnsLock(s)' /\ Guarded(s)'
<1>1. Apart /\ Name(s)' = Name(s) /\ case' = case /\ run'[s] = run[s] /\ plan'[s] = plan[s]
  BY SteadyKeeps DEF Steady, Only
<1>2. /\ OwnsTree(s) /\ OwnsLock(s) /\ Guarded(s) /\ OwnsTree(r) /\ OwnsLock(r)
      /\ Name(r) \in Names /\ Name(s) \in Names
  BY <1>1, NamesAre DEF CiInv, Shared
<1>3. s \notin {"free", "none"}
  BY RunsAreNot
<1>4. case.job = "ci" /\ lock[Name(s)] = s => lock'[Name(s)] = s
  BY <1>2, <1>3 DEF Elsewhere, Considerate
<1>5. OwnsLock(s)'
  BY <1>1, <1>2, <1>4 DEF OwnsLock
<1>6. Guarded(s)'
  BY <1>1, <1>2, <1>4 DEF Guarded, Outlived
<1>7. OwnsTree(s)'
  <2> SUFFICES ASSUME run[s].pc \in Own(case.job)
               PROVE  tree'[Name(s)].registered /\ tree'[Name(s)].by = s
    BY <1>1 DEF OwnsTree
  <2>1. tree[Name(s)].registered /\ tree[Name(s)].by = s
    BY <1>2 DEF OwnsTree
  <2>2. CASE Name(s) # Name(r)
    BY <1>2, <2>1, <2>2 DEF Elsewhere
  <2>3. CASE Name(s) = Name(r)
    <3>1. ~(run[r].pc = "remove" \/ (run[r].pc = "discard" /\ case.job # "ci"))
      <4>1. CASE case.job = "ci"
        BY <1>2, <2>3, <4>1 DEF OwnsLock, Holding, Own
      <4>2. CASE case.job # "ci"
        BY <1>2, <2>1, <2>3, <4>2 DEF OwnsTree, Own
      <4> QED
        BY <4>1, <4>2
    <3> QED
      BY <1>3, <2>1, <2>3, <3>1 DEF Considerate
  <2> QED
    BY <2>2, <2>3
<1> QED
  BY <1>5, <1>6, <1>7

LEMMA OthersCleared ==
    ASSUME CiInv, NEW r \in Runs, Steady(r), Apart', Elsewhere(r), Considerate(r),
           NEW s \in Runs, s # r
    PROVE  Cleared(s)'
<1>1. Apart /\ Name(s)' = Name(s) /\ case' = case /\ run'[s] = run[s] /\ check'[s] = check[s]
  BY SteadyKeeps DEF Steady, Only
<1>2. Cleared(s) /\ OwnsLock(s) /\ Name(r) \in Names /\ Name(s) \in Names
  BY <1>1, NamesAre DEF CiInv, Shared
<1> DEFINE O == \E t \in Runs : Outlived(t)
<1>3. O => O'
  BY SteadyKeeps
<1>4. Outlived(r) => O
  OBVIOUS
<1> HIDE DEF O
<1>5. case.job = "ci" /\ run[s].pc \in {"list", "verify", "release"} /\ Gone(s) => Gone(s)'
  <2> SUFFICES ASSUME case.job = "ci", run[s].pc \in {"list", "verify", "release"}, ~O,
                      tree[Name(s)] = NoTree
               PROVE  tree'[Name(s)] = NoTree
    BY <1>1, <1>3 DEF Gone, O
  <2>1. lock[Name(s)] = s
    BY <1>2 DEF OwnsLock, Holding
  <2> QED
    BY <1>2, <1>4, <2>1 DEF Elsewhere, Considerate
<1>6. At(s, "release")' = At(s, "release") /\ At(s, "record")' = At(s, "record")
  BY <1>1 DEF At
<1> QED
  BY <1>1, <1>2, <1>3, <1>5, <1>6 DEF Cleared, O, At

\* Who made a worktree or a result ref still answers for it.
Answering(r) ==
    /\ \/ tree'[Name(r)].by \in {tree[Name(r)].by, "none"}
       \/ tree'[Name(r)].by = r /\ Name(r)' = Name(r) /\ Answers(case.job, run'[r])
    /\ \/ Answers(case.job, run[r]) => Answers(case.job, run'[r]) /\ Name(r)' = Name(r)
       \/ tree'[Name(r)].by # r
    /\ result' \in {result, "none", r}
    /\ result' = r => Merging /\ (run'[r].pc \in Published \/ build'[r].said \/ build'[r].misled)

LEMMA StillAccounted ==
    ASSUME CiInv, NEW r \in Runs, Steady(r), Elsewhere(r), Answering(r)
    PROVE  (\A n \in Names : Accounted(n)') /\ RefAccounted'
<1>1. \A n \in Names : Accounted(n)'
  <2> SUFFICES ASSUME NEW n \in Names, tree'[n].by # "none"
               PROVE  n = run'[tree'[n].by].attempt /\ Answers(case.job, run'[tree'[n].by])
    BY DEF Accounted, Name, Steady, Only
  <2>1. Accounted(n) /\ Name(r) \in Names
    BY NamesAre DEF CiInv, Shared
  <2>2. CASE tree'[n].by # r
    <3>1. tree'[n].by = tree[n].by
      BY <2>1, <2>2 DEF Elsewhere, Answering
    <3>2. tree[n].by \in Runs
      BY <3>1 DEF CiInv, Typed, Trees
    <3> QED
      BY <2>1, <2>2, <3>1, <3>2 DEF Accounted, Steady, Only, Name
  <2>3. CASE tree'[n].by = r
    <3>1. CASE tree[n].by = r
      <4>1. n = Name(r) /\ Answers(case.job, run[r])
        BY <2>1, <3>1, RunsAreNot DEF Accounted
      <4> QED
        BY <2>3, <4>1 DEF Answering, Name
    <3>2. CASE tree[n].by # r
      <4>1. n = Name(r)
        BY <2>3, <3>2 DEF Elsewhere
      <4> QED
        BY <2>3, <3>2, <4>1, RunsAreNot DEF Answering, Name
    <3> QED
      BY <3>1, <3>2
  <2> QED
    BY <2>2, <2>3
<1>2. RefAccounted'
  <2> SUFFICES ASSUME NEW s \in Runs, result' = s
               PROVE  Merging' /\ (run'[s].pc \in Published \/ build'[s].said \/ build'[s].misled)
    BY DEF RefAccounted
  <2>1. case' = case
    BY DEF Steady, Only
  <2>2. CASE s = r
    BY <2>1, <2>2 DEF Answering, Merging
  <2>3. CASE s # r
    <3>1. result = s
      BY <2>3, RunsAreNot DEF Answering
    <3> QED
      BY <2>1, <2>3, <3>1 DEF CiInv, Shared, RefAccounted, Steady, Only, Merging
  <2> QED
    BY <2>2, <2>3
<1> QED
  BY <1>1, <1>2

LEMMA SharedKept ==
    ASSUME CiInv, NEW r \in Runs, Steady(r), Elsewhere(r), Answering(r),
           Apart' => /\ Considerate(r)
                     /\ OwnsTree(r)' /\ OwnsLock(r)' /\ Guarded(r)' /\ Cleared(r)'
    PROVE  Shared'
<1>1. (\A n \in Names : Accounted(n)') /\ RefAccounted'
  BY StillAccounted
<1>2. ASSUME Apart', NEW s \in Runs
      PROVE  OwnsTree(s)' /\ OwnsLock(s)' /\ Guarded(s)' /\ Cleared(s)'
  <2>1. CASE s = r
    BY <1>2, <2>1
  <2>2. CASE s # r
    BY <1>2, <2>2, OthersOwn, OthersCleared
  <2> QED
    BY <2>1, <2>2
<1> QED
  BY <1>1, <1>2 DEF Shared

\* A step that leaves the worktrees alone, and a CI run's lock file.
SameName(r) ==
    /\ run'[r].attempt = run[r].attempt
    /\ run'[r].ok = run[r].ok /\ run'[r].reserved = run[r].reserved
OutlivedStays(r) ==
    /\ run'[r].failure = run[r].failure \/ run[r].failure = Green
    /\ plan[r].escaped # "none" => plan'[r].escaped # "none"
OnlyItsLock(r) ==
    /\ \A n \in Names \ {Name(r)} : lock'[n] = lock[n]
    /\ case.job = "ci" => lock' = lock
RefAnswered(r) ==
    /\ result' \in {result, "none", r}
    /\ result' = r => Merging /\ (run'[r].pc \in Published \/ build'[r].said \/ build'[r].misled)

LEMMA QuietShared ==
    ASSUME CiInv, NEW r \in Runs, Only(r), SameName(r), OutlivedStays(r),
           UNCHANGED tree, OnlyItsLock(r), RefAnswered(r),
           Answers(case.job, run[r]) => Answers(case.job, run'[r]),
           run'[r].pc \in Own(case.job) => run[r].pc \in Own(case.job),
           case.job = "ci" /\ run'[r].pc \in Holding => run[r].pc \in Holding,
           case.job = "ci" /\ Living(plan'[r]) # {}
              => Living(plan[r]) # {} \/ run[r].pc \in Holding,
           Cleared(r) => Cleared(r)'
    PROVE  Shared'
<1>1. case' = case /\ Name(r)' = Name(r)
  BY DEF Only, SameName, Name
<1>2. Outlived(r) => Outlived(r)'
  BY DEF OutlivedStays, Outlived, Green
<1>3. Steady(r)
  BY <1>2 DEF Steady, SameName, Exhausted
<1>4. Elsewhere(r) /\ Considerate(r)
  BY DEF Elsewhere, OnlyItsLock, Considerate
<1>5. Answering(r)
  BY <1>1 DEF Answering, RefAnswered
<1>6. ASSUME Apart'
      PROVE  OwnsTree(r)' /\ OwnsLock(r)' /\ Guarded(r)' /\ Cleared(r)'
  <2>1. OwnsTree(r) /\ OwnsLock(r) /\ Guarded(r) /\ Cleared(r)
    BY <1>3, <1>6, SteadyKeeps DEF CiInv, Shared
  <2>2. OwnsTree(r)'
    BY <1>1, <2>1 DEF OwnsTree
  <2>3. OwnsLock(r)'
    BY <1>1, <2>1 DEF OwnsLock, OnlyItsLock
  <2>4. Guarded(r)'
    BY <1>1, <1>2, <2>1 DEF Guarded, OwnsLock, OnlyItsLock
  <2> QED
    BY <2>1, <2>2, <2>3, <2>4
<1> QED
  BY <1>3, <1>4, <1>5, <1>6, SharedKept

\* A run that works on in its worktree, or goes over to its removal.
LEMMA WorkShared ==
    ASSUME CiInv, NEW r \in Runs, Only(r), Local(r)', SameName(r), OutlivedStays(r),
           UNCHANGED <<tree, lock>>, RefAnswered(r),
           run[r].pc \in Working, run'[r].pc \in Working \cup {"remove", "discard"}
    PROVE  Shared'
<1>1. check'[r] = <<>>
  BY DEF Local, Known, PlacedBuild, Recording, Working
<1>2. Cleared(r)'
  BY <1>1 DEF Cleared, At, Working
<1>3. Answers(case.job, run'[r])
  BY DEF Answers
<1>4. run[r].pc \in Own(case.job) /\ run[r].pc \in Holding
  BY DEF Own, Holding
<1>5. OnlyItsLock(r)
  BY DEF OnlyItsLock
<1> QED
  BY <1>2, <1>3, <1>4, <1>5, QuietShared

LEMMA PlanStepFields ==
    ASSUME CiInv, NEW r \in Runs, RunsPlan(r)
    PROVE  /\ SameName(r) /\ OutlivedStays(r)
           /\ run[r].pc \in Working /\ run'[r].pc \in Working \cup {"remove"}
<1> DEFINE x == run[r]
           p == plan[r]
<1>1. DOMAIN x = RunFields /\ DOMAIN plan = Runs /\ PlanTyped(p) /\ Typed
  BY RunIs DEF CiInv, Typed, Known
<1>2. x.pc \in BeforePlan \cup {"wait", "poll", "probe"} => x.failure = Green
  BY RunIs DEF Known, PlacedRun
<1>3. \A v : LET q == [p EXCEPT !.leader = v] IN q.escaped = p.escaped
  BY <1>1 DEF PlanTyped
<1>4. \A d : LET q == [p EXCEPT !.doomed = d] IN q.escaped = p.escaped
  BY <1>1 DEF PlanTyped
<1>5. \A pc : LET y == [x EXCEPT !.pc = pc] IN
        y.pc = pc /\ y.attempt = x.attempt /\ y.ok = x.ok /\ y.reserved = x.reserved
        /\ y.failure = x.failure
  BY <1>1 DEF RunFields
<1>6. \A pc, f : LET y == [x EXCEPT !.pc = pc, !.failure = f] IN
        y.pc = pc /\ y.attempt = x.attempt /\ y.ok = x.ok /\ y.reserved = x.reserved
  BY <1>1 DEF RunFields
<1>7. \A pc, f, s, u : LET y == [x EXCEPT !.pc = pc, !.failure = f, !.spared = s, !.unproven = u] IN
        y.pc = pc /\ y.attempt = x.attempt /\ y.ok = x.ok /\ y.reserved = x.reserved
  BY <1>1 DEF RunFields
<1>8. \A pc, t : LET y == [x EXCEPT !.pc = pc, !.tail = t] IN
        y.pc = pc /\ y.attempt = x.attempt /\ y.ok = x.ok /\ y.reserved = x.reserved
        /\ y.failure = x.failure
  BY <1>1 DEF RunFields
<1>9. ASSUME NEW reason, NEW pc \in {"grace", "capture"}, NEW sent, Kills(r, reason, pc, sent),
             x.pc \in {"wait", "poll", "probe"}
      PROVE  /\ SameName(r) /\ OutlivedStays(r)
             /\ run[r].pc \in Working /\ run'[r].pc \in Working \cup {"remove"}
  <2>1. run'[r] = [x EXCEPT !.pc = pc, !.failure = reason, !.spared = ~sent,
                            !.unproven = reason = "cleanup_failed"]
    BY <1>1, <1>9, BecomesIs DEF Kills
  <2>2. plan'[r] = p \/ plan'[r] = [p EXCEPT !.doomed = Living(p)]
    BY <1>1, <1>9 DEF Kills, SignalPg
  <2>3. plan'[r].escaped = p.escaped
    BY <1>4, <2>2
  <2>4. /\ run'[r].pc = pc /\ run'[r].attempt = x.attempt /\ run'[r].ok = x.ok
        /\ run'[r].reserved = x.reserved
    BY <1>7, <2>1
  <2> QED
    BY <1>2, <1>9, <2>3, <2>4 DEF SameName, OutlivedStays, Working
<1>10. ASSUME NEW pc, Goes(r, pc), x.pc \in Working, pc \in Working \cup {"remove"},
              \/ UNCHANGED plan \/ \E v : plan' = [plan EXCEPT ![r].leader = v]
              \/ \E d : plan' = [plan EXCEPT ![r].doomed = d]
       PROVE  /\ SameName(r) /\ OutlivedStays(r)
              /\ run[r].pc \in Working /\ run'[r].pc \in Working \cup {"remove"}
  <2>1. run'[r] = [x EXCEPT !.pc = pc]
    BY <1>1, <1>10, BecomesIs DEF Goes
  <2>2. \/ plan'[r] = p \/ \E v : plan'[r] = [p EXCEPT !.leader = v]
        \/ \E d : plan'[r] = [p EXCEPT !.doomed = d]
    BY <1>1, <1>10
  <2>3. plan'[r].escaped = p.escaped
    <3>1. ASSUME NEW v, plan'[r] = [p EXCEPT !.leader = v] PROVE plan'[r].escaped = p.escaped
      BY <1>3, <3>1
    <3>2. ASSUME NEW d, plan'[r] = [p EXCEPT !.doomed = d] PROVE plan'[r].escaped = p.escaped
      BY <1>4, <3>2
    <3> QED
      BY <2>2, <3>1, <3>2
  <2>4. /\ run'[r].pc = pc /\ run'[r].attempt = x.attempt /\ run'[r].ok = x.ok
        /\ run'[r].reserved = x.reserved /\ run'[r].failure = x.failure
    BY <1>5, <2>1
  <2> QED
    BY <1>10, <2>3, <2>4 DEF SameName, OutlivedStays
<1>11. ASSUME NEW f, NEW pc, Fails(r, f, pc), x.pc \in {"start", "probe"},
              pc \in Working \cup {"remove"}, UNCHANGED plan
       PROVE  /\ SameName(r) /\ OutlivedStays(r)
              /\ run[r].pc \in Working /\ run'[r].pc \in Working \cup {"remove"}
  <2>1. run'[r] = [x EXCEPT !.pc = pc, !.failure = f]
    BY <1>1, <1>11, BecomesIs DEF Fails
  <2>2. /\ run'[r].pc = pc /\ run'[r].attempt = x.attempt /\ run'[r].ok = x.ok
        /\ run'[r].reserved = x.reserved
    BY <1>6, <2>1
  <2> QED
    BY <1>2, <1>11, <2>2 DEF SameName, OutlivedStays, Working, BeforePlan
<1>12. \A f : AfterPlan(f) \in Working \cup {"remove"}
  BY DEF AfterPlan, Working
<1>13. CASE StartPlan(r)
  BY <1>10, <1>11, <1>12, <1>13 DEF StartPlan, At, Working
<1>14. CASE CheckDeadline(r)
  BY <1>9, <1>10, <1>14 DEF CheckDeadline, KillsOrNot, At, Working
<1>15. CASE TryWait(r)
  BY <1>10, <1>15 DEF TryWait, Reaped, At, Working
<1>16. CASE ProbeGroup(r)
  BY <1>9, <1>11, <1>16 DEF ProbeGroup, KillsOrNot, At, Working
<1>17. CASE WaitFails(r)
  BY <1>9, <1>17 DEF WaitFails, At, Working
<1>18. CASE ReapWithGrace(r)
  BY <1>10, <1>18 DEF ReapWithGrace, Reaped, At, Working
<1>19. CASE GraceEnds(r)
  BY <1>10, <1>19 DEF GraceEnds, At, Working
<1>20. CASE ReapGivesUp(r)
  BY <1>10, <1>20 DEF ReapGivesUp, OnlyRun, At, Working
<1>21. CASE FinishCapture(r)
  <2>1. run'[r] = [x EXCEPT !.pc = AfterPlan(x.failure), !.tail = BoundedTail[capture[r].kept]]
    BY <1>1, <1>21, BecomesIs DEF FinishCapture
  <2>2. /\ run'[r].pc = AfterPlan(x.failure) /\ run'[r].attempt = x.attempt /\ run'[r].ok = x.ok
        /\ run'[r].reserved = x.reserved /\ run'[r].failure = x.failure
    BY <1>8, <2>1
  <2> QED
    BY <1>12, <1>21, <2>2 DEF FinishCapture, SameName, OutlivedStays, At, Working
<1> QED
  BY <1>13, <1>14, <1>15, <1>16, <1>17, <1>18, <1>19, <1>20, <1>21 DEF RunsPlan

LEMMA RefStays ==
    ASSUME CiInv, NEW r \in Runs, UNCHANGED result,
           build[r].said \/ build[r].misled => build'[r].said \/ build'[r].misled,
           Merging /\ run[r].pc \in Published => run'[r].pc \in Published
    PROVE  RefAnswered(r)
BY DEF CiInv, Shared, RefAccounted, RefAnswered

LEMMA MoveFields ==
    ASSUME CiInv, NEW r \in Runs, NEW pc,
           \/ Goes(r, pc) \/ LeftOver(r, pc)
           \/ \E said : Becomes(r, [run[r] EXCEPT !.pc = pc, !.answer = said])
           \/ \E f : run[r].failure = Green /\ Fails(r, f, pc)
    PROVE  /\ SameName(r) /\ run'[r].pc = pc
           /\ run'[r].failure = run[r].failure \/ run[r].failure = Green
           /\ run[r].leftover => run'[r].leftover
           /\ LeftOver(r, pc) => run'[r].leftover
<1> DEFINE x == run[r]
<1>1. DOMAIN x = RunFields /\ Typed
  BY RunIs DEF CiInv
<1>2. CASE Goes(r, pc)
  <2>1. run'[r] = [x EXCEPT !.pc = pc]
    BY <1>1, <1>2, BecomesIs DEF Goes
  <2>2. /\ run'[r].pc = pc /\ run'[r].attempt = x.attempt /\ run'[r].ok = x.ok
        /\ run'[r].reserved = x.reserved /\ run'[r].failure = x.failure
        /\ run'[r].leftover = x.leftover
    BY <1>1, <2>1 DEF RunFields
  <2>3. LeftOver(r, pc) => run'[r].leftover
    <3>1. LeftOver(r, pc) => run'[r] = [x EXCEPT !.pc = pc, !.leftover = TRUE]
      BY <1>1, BecomesIs DEF LeftOver
    <3> QED
      BY <1>1, <3>1 DEF RunFields
  <2> QED
    BY <2>2, <2>3 DEF SameName
<1>3. CASE LeftOver(r, pc)
  <2>1. run'[r] = [x EXCEPT !.pc = pc, !.leftover = TRUE]
    BY <1>1, <1>3, BecomesIs DEF LeftOver
  <2>2. /\ run'[r].pc = pc /\ run'[r].attempt = x.attempt /\ run'[r].ok = x.ok
        /\ run'[r].reserved = x.reserved /\ run'[r].failure = x.failure /\ run'[r].leftover
    BY <1>1, <2>1 DEF RunFields
  <2> QED
    BY <2>2 DEF SameName
<1>4. ASSUME NEW said, Becomes(r, [x EXCEPT !.pc = pc, !.answer = said])
      PROVE  /\ SameName(r) /\ run'[r].pc = pc /\ run'[r].failure = x.failure
             /\ run'[r].leftover = x.leftover
  <2>1. run'[r] = [x EXCEPT !.pc = pc, !.answer = said]
    BY <1>1, <1>4, BecomesIs
  <2>2. /\ run'[r].pc = pc /\ run'[r].attempt = x.attempt /\ run'[r].ok = x.ok
        /\ run'[r].reserved = x.reserved /\ run'[r].failure = x.failure
        /\ run'[r].leftover = x.leftover
    BY <1>1, <2>1 DEF RunFields
  <2> QED
    BY <2>2 DEF SameName
<1>5. ASSUME NEW f, run[r].failure = Green, Fails(r, f, pc)
      PROVE  SameName(r) /\ run'[r].pc = pc /\ run'[r].leftover = x.leftover
  <2>1. run'[r] = [x EXCEPT !.pc = pc, !.failure = f]
    BY <1>1, <1>5, BecomesIs DEF Fails
  <2>2. /\ run'[r].pc = pc /\ run'[r].attempt = x.attempt /\ run'[r].ok = x.ok
        /\ run'[r].reserved = x.reserved /\ run'[r].leftover = x.leftover
    BY <1>1, <2>1 DEF RunFields
  <2> QED
    BY <2>2 DEF SameName
<1>6. CASE ~LeftOver(r, pc)
  BY <1>2, <1>4, <1>5, <1>6
<1> QED
  BY <1>3, <1>6

\* A run and its plan, and the other steps of a build at work.
LEMMA RunsPlanShared ==
    ASSUME CiInv, NEW r \in Runs, RunsPlan(r), UNCHANGED buildVars, Only(r), Local(r)'
    PROVE  Shared'
<1>1. UNCHANGED <<tree, lock, build, result>>
  BY DEF RunsPlan, StartPlan, CheckDeadline, TryWait, ProbeGroup, WaitFails, ReapWithGrace,
         GraceEnds, ReapGivesUp, FinishCapture, Waiting, OnlyRun, buildVars
<1>2. /\ SameName(r) /\ OutlivedStays(r)
      /\ run[r].pc \in Working /\ run'[r].pc \in Working \cup {"remove"}
  BY PlanStepFields
<1>3. RefAnswered(r)
  BY <1>1, <1>2, RefStays DEF Working, Published
<1> QED
  BY <1>1, <1>2, <1>3, WorkShared

LEMMA BuildWorkShared ==
    ASSUME CiInv, NEW r \in Runs, Only(r), Local(r)', case.job # "ci",
           \/ StrategySucceeds(r) \/ StrategyFails(r) \/ SelectResultPlan(r) \/ PinResult(r)
           \/ AbortStrategy(r)
    PROVE  Shared'
<1>1. UNCHANGED <<plan, tree, lock>> /\ run[r].pc \in Working
  BY DEF StrategySucceeds, StrategyFails, SelectResultPlan, PinResult, AbortStrategy, Git,
         OnlyRun, At, Working
<1>2. PICK pc \in Working \cup {"remove", "discard"} :
         Goes(r, pc) \/ \E f : run[r].failure = Green /\ Fails(r, f, pc)
  <2>1. run[r].pc = "select" => run[r].failure = Green
    BY RunIs DEF Known, PlacedRun, BeforePlan
  <2>2. {"select", "pin", "start", "abort"} \subseteq Working
    BY DEF Working
  <2> QED
    BY <2>1, <2>2
       DEF StrategySucceeds, StrategyFails, SelectResultPlan, PinResult, AbortStrategy, At
<1>3. /\ SameName(r) /\ run'[r].pc = pc
      /\ run'[r].failure = run[r].failure \/ run[r].failure = Green
  BY <1>2, MoveFields
<1>4. OutlivedStays(r)
  BY <1>1, <1>3 DEF OutlivedStays
<1>5. build[r].said \/ build[r].misled => build'[r].said \/ build'[r].misled
  <2>1. DOMAIN build = Runs /\ BuildTyped(case.job, build[r])
    BY BuildIs DEF CiInv, Typed
  <2> DEFINE Misinformed == [build[r] EXCEPT !.pinned = TRUE, !.misled = TRUE]
  <2>2. UNCHANGED build \/ \E v : \/ Builds(r, [build[r] EXCEPT !.unchecked = v])
                                  \/ Builds(r, [build[r] EXCEPT !.busy = v])
                                  \/ Builds(r, [build[r] EXCEPT !.pinned = v])
                                  \/ Builds(r, Misinformed)
                                  \/ Builds(r, [build[r] EXCEPT !.stuck = v])
    BY DEF StrategySucceeds, StrategyFails, SelectResultPlan, PinResult, AbortStrategy, buildVars
  <2>3. CASE UNCHANGED build
    BY <2>3
  <2>4. CASE Builds(r, Misinformed)
    BY <2>1, <2>4 DEF Builds, BuildTyped
  <2>5. ASSUME NEW v, \/ Builds(r, [build[r] EXCEPT !.unchecked = v])
                      \/ Builds(r, [build[r] EXCEPT !.busy = v])
                      \/ Builds(r, [build[r] EXCEPT !.pinned = v])
                      \/ Builds(r, [build[r] EXCEPT !.stuck = v])
        PROVE  build'[r].said = build[r].said /\ build'[r].misled = build[r].misled
    BY <2>1, <2>5 DEF Builds, BuildTyped
  <2> QED
    BY <2>2, <2>3, <2>4, <2>5
<1>6. RefAnswered(r)
  <2>1. CASE UNCHANGED result
    BY <1>1, <1>5, <2>1, RefStays DEF Working, Published
  <2>2. CASE PinResult(r) /\ result' = r
    <3>1. Merging
      BY <2>2, RunIs DEF PinResult, At, Known, PlacedBuild, Recording, Merging
    <3>2. \/ Goes(r, "remove")
          \/ Builds(r, [build[r] EXCEPT !.pinned = TRUE, !.misled = TRUE])
          \/ UNCHANGED result
      BY <2>2 DEF PinResult, buildVars
    <3>3. CASE Goes(r, "remove")
      <4>1. run'[r].pc = "remove"
        BY <3>3, MoveFields
      <4> QED
        BY <2>2, <3>1, <4>1 DEF RefAnswered, Published
    <3>4. CASE Builds(r, [build[r] EXCEPT !.pinned = TRUE, !.misled = TRUE])
      <4>1. build'[r].misled
        BY <3>4, BuildIs DEF Builds, BuildTyped, CiInv, Typed
      <4> QED
        BY <2>2, <3>1, <4>1 DEF RefAnswered
    <3> QED
      BY <2>1, <3>2, <3>3, <3>4
  <2> QED
    BY <2>1, <2>2 DEF StrategySucceeds, StrategyFails, SelectResultPlan, PinResult,
                      AbortStrategy, Git, buildVars
<1> QED
  BY <1>1, <1>3, <1>4, <1>6, WorkShared

\* What a build does after its worktree, and after its failure.
Later == {"unlock", "unpin", "release", "list", "finalize", "delete", "done"}

LEMMA BuildLaterShared ==
    ASSUME CiInv, NEW r \in Runs, Only(r), case.job # "ci", NEW pc \in Later,
           \/ Goes(r, pc) \/ LeftOver(r, pc)
           \/ \E said : Becomes(r, [run[r] EXCEPT !.pc = pc, !.answer = said]),
           UNCHANGED <<plan, tree>>, OnlyItsLock(r), RefAnswered(r),
           run[r].pc = "unlock" => pc = "done",
           run[r].pc \in {"exists", "list"} \/
              (run[r].pc \in {"discarded", "unlock", "release", "finalize", "unpin", "delete"}
               /\ pc # "list")
    PROVE  Shared'
<1>1. /\ SameName(r) /\ run'[r].pc = pc
      /\ run'[r].failure = run[r].failure \/ run[r].failure = Green
      /\ run[r].leftover => run'[r].leftover
  BY MoveFields
<1>2. OutlivedStays(r)
  BY <1>1 DEF OutlivedStays
<1>3. Answers(case.job, run[r]) => Answers(case.job, run'[r])
  BY <1>1 DEF Answers, Working, Later, SameName
<1>4. run'[r].pc \notin Own(case.job)
  BY <1>1 DEF Own, Working, Later
<1>5. Cleared(r)'
  BY DEF Only, Cleared
<1> QED
  BY <1>1, <1>2, <1>3, <1>4, <1>5, QuietShared

LEMMA UnlocksOnlyIts ==
    ASSUME CiInv, NEW r \in Runs, case.job # "ci", Unlocks(r)
    PROVE  OnlyItsLock(r)
BY DEF Unlocks, OnlyItsLock, CiInv, Typed

LEMMA BuildEndShared ==
    ASSUME CiInv, NEW r \in Runs, Only(r), case.job # "ci",
           \/ Discarded(r) \/ Unlock(r) \/ ReleaseBuild(r) \/ Unpin(r)
           \/ CheckDir(r) \/ CheckRegistration(r)
    PROVE  Shared'
<1>1. UNCHANGED <<plan, tree, build, result>>
  BY DEF Discarded, Unlock, ReleaseBuild, Unpin, CheckDir, CheckRegistration, TreeKept, OnlyRun,
         buildVars
<1>2. OnlyItsLock(r)
  BY UnlocksOnlyIts DEF Discarded, Unlock, ReleaseBuild, Unpin, CheckDir, CheckRegistration,
     OnlyRun, OnlyItsLock
<1>3. PICK pc \in Later :
         /\ \/ Goes(r, pc) \/ LeftOver(r, pc)
            \/ \E said : Becomes(r, [run[r] EXCEPT !.pc = pc, !.answer = said])
         /\ run[r].pc \in {"exists", "list"} \/
              (run[r].pc \in {"discarded", "unlock", "release", "finalize", "unpin", "delete"}
               /\ pc # "list")
         /\ Merging /\ run[r].pc \in Published => pc \in Published
         /\ run[r].pc = "unlock" => pc = "done"
  <2>1. {"unlock", "done", "release", "finalize", "unpin", "delete", "list"} = Later
    BY DEF Later
  <2>2. CASE Discarded(r)
    BY <2>1, <2>2 DEF Discarded, Refuses, At, Published
  <2>3. CASE Unlock(r)
    BY <2>1, <2>3 DEF Unlock, Refuses, At, Published
  <2>4. CASE ReleaseBuild(r)
    BY <2>1, <2>4 DEF ReleaseBuild, At, Published
  <2>5. CASE Unpin(r)
    BY <2>1, <2>5 DEF Unpin, At, Published
  <2>6. CASE CheckDir(r)
    BY <2>1, <2>6 DEF CheckDir, AfterLeftover, At, Published
  <2>7. CASE CheckRegistration(r)
    BY <2>1, <2>7 DEF CheckRegistration, At, Published
  <2> QED
    BY <2>2, <2>3, <2>4, <2>5, <2>6, <2>7
<1>4. run'[r].pc = pc
  BY <1>3, MoveFields
<1>5. RefAnswered(r)
  BY <1>1, <1>3, <1>4, RefStays
<1> QED
  BY <1>1, <1>2, <1>3, <1>5, BuildLaterShared

LEMMA RefEndShared ==
    ASSUME CiInv, NEW r \in Runs, Only(r), case.job # "ci", Finalize(r) \/ DeleteResult(r)
    PROVE  Shared'
<1>1. UNCHANGED <<plan, tree, lock>> /\ run[r].pc \in {"finalize", "delete"}
  BY DEF Finalize, DeleteResult, OnlyRun, At
<1>2. OnlyItsLock(r)
  BY <1>1 DEF OnlyItsLock
<1>3. DOMAIN build = Runs /\ BuildTyped(case.job, build[r])
  BY BuildIs DEF CiInv, Typed
<1>4. Builds(r, [build[r] EXCEPT !.said = TRUE]) => build'[r].said
  BY <1>3 DEF Builds, BuildTyped
<1>5. PICK pc \in {"unpin", "done"} :
         /\ \/ Goes(r, pc)
            \/ \E said : Becomes(r, [run[r] EXCEPT !.pc = pc, !.answer = said])
         /\ \/ result' = "none"
            \/ UNCHANGED result /\ Builds(r, [build[r] EXCEPT !.said = TRUE])
            \/ UNCHANGED <<build, result>> /\ pc = "unpin"
  BY DEF Finalize, DeleteResult, Refuses, buildVars
<1>6. run'[r].pc = pc
  BY <1>5, MoveFields
<1>7. RefAnswered(r)
  <2>1. CASE result' = "none"
    BY <2>1, RunsAreNot DEF RefAnswered
  <2>2. CASE UNCHANGED result /\ Builds(r, [build[r] EXCEPT !.said = TRUE])
    BY <1>4, <2>2 DEF RefAnswered, CiInv, Shared, RefAccounted
  <2>3. CASE UNCHANGED <<build, result>> /\ pc = "unpin"
    BY <1>6, <2>3, RefStays DEF Published
  <2> QED
    BY <1>5, <2>1, <2>2, <2>3
<1>8. pc \in Later /\ pc # "list"
  BY DEF Later
<1> QED
  BY <1>1, <1>2, <1>5, <1>7, <1>8, BuildLaterShared

\* What lives of the plan of a run that is past it is what the run has given up.
LEMMA LeftAlive ==
    ASSUME CiInv, NEW r \in Runs, case.job = "ci", Living(plan[r]) # {},
           run[r].pc \in {"remove", "list", "verify", "release", "record"}
    PROVE  Outlived(r)
<1>1. /\ PlanTyped(plan[r]) /\ RunTyped(run[r]) /\ Reasoned(run[r], plan[r])
      /\ PlacedRun(run[r], plan[r])
      /\ Verdicts("ci", run[r], plan[r], build[r])
  BY RunIs DEF Known
<1>2. plan[r].leader # "none"
  BY <1>1, LivingIs DEF PlanTyped
<1>3. run[r].ok
  BY <1>1, <1>2 DEF PlacedRun, RunTyped
<1>4. run[r].failure # Green
  BY <1>1, <1>3 DEF Verdicts, Relies, EarnedBy
<1> QED
  BY <1>1, <1>2, <1>4 DEF Reasoned, RunTyped, Failures, Outlived

\* The plan, whose files are another matter, the reader, the clock, and a kill.
LEMMA AsideShared ==
    ASSUME CiInv, NEW r \in Runs, Only(r), UNCHANGED <<run, check, tree, lock, build, result>>,
           Living(plan[r]) = {} => Living(plan'[r]) = {},
           plan[r].escaped # "none" => plan'[r].escaped # "none"
    PROVE  Shared'
<1>1. SameName(r) /\ OutlivedStays(r) /\ OnlyItsLock(r)
  BY DEF SameName, OutlivedStays, OnlyItsLock
<1>2. RefAnswered(r)
  BY RefStays
<1>3. Steady(r)
  BY <1>1 DEF Steady, OutlivedStays, SameName, Exhausted, Outlived, Green
<1>4. Cleared(r) => Cleared(r)'
  <2> DEFINE O == \E t \in Runs : Outlived(t)
  <2>1. O => O'
    BY <1>3, SteadyKeeps
  <2>2. case' = case /\ Name(r)' = Name(r)
    BY DEF Only, Name
  <2> HIDE DEF O
  <2>3. Gone(r) => Gone(r)'
    BY <2>1, <2>2 DEF Gone, O
  <2> QED
    BY <2>1, <2>2, <2>3 DEF Cleared, O, At
<1> QED
  BY <1>1, <1>2, <1>4, QuietShared DEF Only

LEMMA PlanStepsShared ==
    ASSUME CiInv, NEW r \in Runs, Only(r), UNCHANGED buildVars,
           \/ Exits(r) \/ Dies(r) \/ Forks(r) \/ GetsStuck(r) \/ EscapedExits(r)
           \/ ReadChunk(r) \/ ReaderEnds(r)
    PROVE  Shared'
<1>1. UNCHANGED <<run, check, tree, lock, build, result>>
  BY DEF Exits, Dies, Forks, GetsStuck, EscapedExits, ReadChunk, ReaderEnds, OnlyPlan, buildVars
<1>2. \/ UNCHANGED plan
      \/ \E q : PlanIs(r, q) /\ GoesOn(plan[r], q)
  BY PlanSteps DEF ReadChunk, ReaderEnds
<1>3. /\ Living(plan[r]) = {} => Living(plan'[r]) = {}
      /\ plan[r].escaped # "none" => plan'[r].escaped # "none"
  BY <1>2 DEF PlanIs, GoesOn
<1> QED
  BY <1>1, <1>3, AsideShared

LEMMA ExpireShared ==
    ASSUME CiInv, NEW r \in Runs, Only(r), Local(r)', UNCHANGED buildVars, Expire(r)
    PROVE  Shared'
<1>1. UNCHANGED <<plan, tree, lock, build, result>> /\ run[r].pc \in {"wait", "poll", "probe"}
  BY DEF Expire, OnlyRun, At, buildVars
<1>2. run'[r] = [run[r] EXCEPT !.expired = TRUE]
  BY BecomesIs DEF Expire, CiInv
<1>3. SameName(r) /\ run'[r].pc = run[r].pc /\ run'[r].failure = run[r].failure
  BY <1>2, RunIs DEF RunFields, SameName
<1>4. OutlivedStays(r)
  BY <1>1, <1>3 DEF OutlivedStays
<1>5. RefAnswered(r)
  BY <1>1, <1>3, RefStays
<1> QED
  BY <1>1, <1>3, <1>4, <1>5, WorkShared DEF Working

LEMMA SteadyIs ==
    ASSUME CiInv, NEW r \in Runs, Only(r), SameName(r), OutlivedStays(r)
    PROVE  /\ Steady(r) /\ Name(r)' = Name(r)
           /\ (\E s \in Runs : Outlived(s)) => (\E s \in Runs : Outlived(s))'
<1>1. Outlived(r) => Outlived(r)'
  BY DEF OutlivedStays, Outlived, Green
<1>2. Steady(r) /\ Name(r)' = Name(r)
  BY <1>1 DEF Steady, SameName, Exhausted, Name
<1> QED
  BY <1>2, SteadyKeeps

LEMMA CrashShared ==
    ASSUME CiInv, NEW r \in Runs, Only(r), UNCHANGED buildVars, Crash(r)
    PROVE  Shared'
<1>1. UNCHANGED <<plan, tree, lock, check, build, result>> /\ Goes(r, "killed")
  BY DEF Crash, OnlyRun, buildVars
<1>2. /\ SameName(r) /\ run'[r].pc = "killed"
      /\ run'[r].failure = run[r].failure \/ run[r].failure = Green
  BY <1>1, MoveFields
<1>3. OutlivedStays(r) /\ OnlyItsLock(r)
  BY <1>1, <1>2 DEF OutlivedStays, OnlyItsLock
<1>4. RefAnswered(r)
  BY <1>1, <1>2, RefStays DEF Published
<1>5. run'[r].clean = run[r].clean
  BY <1>1, RunIs, BecomesIs DEF Goes, RunFields, CiInv
<1>6. Cleared(r) => Cleared(r)'
  <2> DEFINE O == \E s \in Runs : Outlived(s)
  <2>1. O => O'
    BY <1>2, <1>3, SteadyIs
  <2> HIDE DEF O
  <2> QED
    BY <1>1, <1>2, <1>5, <2>1 DEF Cleared, At, O, Only
<1>7. /\ Answers(case.job, run'[r])
      /\ run'[r].pc \notin Own(case.job) /\ run'[r].pc \notin Holding
  BY <1>2 DEF Answers, Own, Working, Holding
<1> QED
  BY <1>1, <1>2, <1>3, <1>4, <1>6, <1>7, QuietShared

\* A plan that writes: nobody else is under the name, or the plan has outlived its run.
LEMMA PlanWritesShared ==
    ASSUME CiInv, NEW r \in Runs, Only(r), UNCHANGED buildVars, PlanWrites(r)
    PROVE  Shared'
<1> DEFINE n == Name(r)
           p == plan[r]
<1>1. UNCHANGED <<case, run, plan, check, lock, build, result>> /\ n \in Names
  BY NamesAre DEF PlanWrites, buildVars
<1>2. Living(p) # {} \/ Outlived(r)
  BY DEF PlanWrites, Outlived
<1>3. /\ \A m \in Names \ {n} : tree'[m] = tree[m]
      /\ tree'[n].registered = tree[n].registered /\ tree'[n].by = tree[n].by
  BY <1>1 DEF PlanWrites, CiInv, Typed, Trees
<1>4. Steady(r) /\ Name(r)' = n
  BY <1>1 DEF Steady, Exhausted, Outlived, Name
<1>5. Elsewhere(r)
  BY <1>1, <1>3 DEF Elsewhere
<1>6. Answering(r)
  BY <1>1, <1>3, <1>4 DEF Answering, CiInv, Shared, RefAccounted
<1>7. ASSUME Apart'
      PROVE  /\ Considerate(r)
             /\ OwnsTree(r)' /\ OwnsLock(r)' /\ Guarded(r)' /\ Cleared(r)'
  <2>1. OwnsTree(r) /\ OwnsLock(r) /\ Guarded(r) /\ Cleared(r)
    BY <1>4, <1>7, SteadyKeeps DEF CiInv, Shared
  <2>2. Considerate(r)
    BY <1>1, <1>2, <1>3, <2>1 DEF Considerate, Guarded
  <2>3. OwnsTree(r)' /\ OwnsLock(r)' /\ Guarded(r)'
    BY <1>1, <1>3, <1>4, <2>1 DEF OwnsTree, OwnsLock, Guarded, Outlived
  <2> DEFINE O == \E t \in Runs : Outlived(t)
  <2>4. O => O'
    BY <1>4, SteadyKeeps
  <2>5. case.job = "ci" /\ run[r].pc \in {"list", "verify", "release"} => O
    BY <1>2, LeftAlive
  <2> HIDE DEF O
  <2>6. case.job = "ci" /\ run[r].pc \in {"list", "verify", "release"} => Gone(r)'
    BY <2>4, <2>5 DEF Gone, O
  <2>7. Cleared(r)'
    BY <1>1, <2>1, <2>4, <2>6 DEF Cleared, O, At
  <2> QED
    BY <2>2, <2>3, <2>7
<1> QED
  BY <1>4, <1>5, <1>6, <1>7, SharedKept

LEMMA OtherShared ==
    ASSUME CiInv, NEW r \in Runs, Other(r), UNCHANGED buildVars, Only(r), Local(r)'
    PROVE  Shared'
BY PlanStepsShared, PlanWritesShared, ExpireShared, CrashShared DEF Other

\* A CI run's own steps.
LEMMA SelectPlanShared ==
    ASSUME CiInv, NEW r \in Runs, case.job = "ci", SelectPlan(r), UNCHANGED buildVars,
           Only(r), Local(r)'
    PROVE  Shared'
<1>1. UNCHANGED <<plan, tree, lock, check, build, result>> /\ run[r].pc = "plan"
  BY DEF SelectPlan, OnlyRun, At, buildVars
<1>2. run[r].failure = Green /\ DOMAIN run[r] = RunFields
  BY <1>1, RunIs DEF Known, PlacedRun, BeforePlan
<1>3. PICK pc \in {"reserve", "record"} :
         \/ Goes(r, pc) /\ pc = "reserve"
         \/ Fails(r, "plan_invalid", pc)
  BY DEF SelectPlan
<1>4. SameName(r) /\ run'[r].pc = pc
  BY <1>2, <1>3, MoveFields
<1>5. pc = "record" => run'[r].failure = "plan_invalid"
  <2>1. pc = "record" => run'[r] = [run[r] EXCEPT !.pc = pc, !.failure = "plan_invalid"]
    BY <1>3, BecomesIs DEF Fails, CiInv
  <2> QED
    BY <1>2, <2>1 DEF RunFields
<1>6. OutlivedStays(r) /\ OnlyItsLock(r)
  BY <1>1, <1>2 DEF OutlivedStays, OnlyItsLock
<1>7. RefAnswered(r)
  BY <1>1, RefStays DEF Published
<1>8. check'[r] = <<>>
  BY <1>1, RunIs DEF Known, PlacedBuild, Recording
<1>9. Cleared(r)'
  BY <1>4, <1>5, <1>8 DEF Cleared, At, Green
<1>10. /\ Answers(case.job, run[r]) => Answers(case.job, run'[r])
       /\ run'[r].pc \notin Own(case.job) /\ run'[r].pc \notin Holding
  BY <1>1, <1>4, <1>6 DEF Answers, Own, Working, Holding
<1> QED
  BY <1>1, <1>4, <1>6, <1>7, <1>9, <1>10, QuietShared

LEMMA TidyShared ==
    ASSUME CiInv, NEW r \in Runs, case.job = "ci", ListTrees(r) \/ VerifyGone(r),
           UNCHANGED buildVars, Only(r), Local(r)'
    PROVE  Shared'
<1> DEFINE x == run[r]
           y == run'[r]
<1>1. /\ UNCHANGED <<plan, tree, lock, build, result>> /\ x.pc \in {"list", "verify"}
      /\ DOMAIN x = RunFields
  BY RunIs DEF ListTrees, VerifyGone, OnlyRun, At, buildVars
<1>2. /\ SameName(r) /\ y.failure = x.failure
      /\ \/ x.pc = "list" /\ y.pc = "verify"
         \/ x.pc = "verify" /\ y.pc = "release"
  <2>1. CASE ListTrees(r)
    <3>1. \E v : y = [x EXCEPT !.pc = "verify", !.listed = v]
      BY ZenonT(60), <2>1, BecomesIs DEF ListTrees, CiInv
    <3> QED
      BY <1>1, <2>1, <3>1 DEF RunFields, ListTrees, At, SameName
  <2>2. CASE VerifyGone(r)
    <3>1. \E v : y = [x EXCEPT !.pc = "release", !.leftover = v]
      BY <2>2, BecomesIs DEF VerifyGone, CiInv
    <3> QED
      BY <1>1, <2>2, <3>1 DEF RunFields, VerifyGone, At, SameName
  <2> QED
    BY <2>1, <2>2
<1>3. OutlivedStays(r) /\ OnlyItsLock(r)
  BY <1>1, <1>2 DEF OutlivedStays, OnlyItsLock
<1>4. RefAnswered(r)
  BY <1>1, RefStays DEF Merging
<1>5. check'[r] = <<>>
  BY <1>2 DEF Local, Known, PlacedBuild, Recording
<1>6. Cleared(r) => Cleared(r)'
  <2>1. Gone(r) => Gone(r)'
    BY <1>1, <1>2, <1>3, SteadyIs DEF Gone
  <2>2. x.pc \in {"list", "verify"} /\ y.pc \in {"verify", "release"}
    BY <1>2
  <2> QED
    BY <1>5, <2>1, <2>2 DEF Cleared, At
<1>7. /\ Answers(case.job, x) => Answers(case.job, y)
      /\ y.pc \notin Own(case.job) /\ x.pc \in Holding
  BY <1>1, <1>2 DEF Answers, Own, Working, Holding
<1> QED
  BY <1>1, <1>2, <1>3, <1>4, <1>6, <1>7, QuietShared

LEMMA RecordShared ==
    ASSUME CiInv, NEW r \in Runs, case.job = "ci", RecordCheck(r), UNCHANGED buildVars, Only(r)
    PROVE  Shared'
<1> DEFINE x == run[r]
           y == run'[r]
<1>1. /\ UNCHANGED <<plan, tree, lock, build, result>> /\ x.pc = "record"
      /\ DOMAIN x = RunFields
  BY RunIs DEF RecordCheck, At, buildVars
<1>2. /\ SameName(r) /\ y.failure = x.failure /\ y.pc \in {"record", "done"}
      /\ y.leftover = x.leftover /\ y.clean = x.clean
  <2>1. y = x \/ \E v : y = [x EXCEPT !.pc = "done", !.answer = v]
    BY BecomesIs DEF RecordCheck, CiInv
  <2> QED
    BY <1>1, <2>1 DEF RunFields, SameName
<1>3. OutlivedStays(r) /\ OnlyItsLock(r)
  BY <1>1, <1>2 DEF OutlivedStays, OnlyItsLock
<1>4. RefAnswered(r)
  BY <1>1, RefStays DEF Merging
<1>5. check'[r] # <<>> => check'[r][1].failure = EntryOf(x).failure
  <2>1. Alike(x, check[r]) /\ DOMAIN check = Runs
    BY RunIs DEF Known, CiInv, Typed
  <2>2. CASE UNCHANGED check
    BY <1>1, <2>1, <2>2 DEF Alike
  <2>3. CASE Records(r)
    <3>1. check'[r] = Append(check[r], EntryOf(x))
      BY <2>1, <2>3, RecordsIs
    <3> DEFINE e == EntryOf(x)
               again == Append(check[r], e)
    <3>2. again # <<>> /\ again[1] = e /\ again \in Seq({e})
      BY <1>1, <2>1, AnotherAlike
    <3> HIDE DEF again
    <3>3. again[1].failure = e.failure
      BY <3>2
    <3> QED
      BY <3>1, <3>3 DEF again
  <2> QED
    BY <2>2, <2>3 DEF RecordCheck
<1>6. Cleared(r) => Cleared(r)'
  <2>1. (\E s \in Runs : Outlived(s)) => (\E s \in Runs : Outlived(s))'
    BY <1>2, <1>3, SteadyIs
  <2>2. check'[r] # <<>> /\ check'[r][1].failure = Green => ~x.leftover /\ x.failure = Green
    BY <1>5 DEF EntryOf, Green
  <2> QED
    BY <1>1, <1>2, <2>1, <2>2 DEF Cleared, At
<1>7. /\ Answers(case.job, x) => Answers(case.job, y)
      /\ y.pc \notin Own(case.job) /\ y.pc \notin Holding
  BY <1>1, <1>2 DEF Answers, Own, Working, Holding
<1> QED
  BY <1>1, <1>2, <1>3, <1>4, <1>6, <1>7, QuietShared

LEMMA ReleaseShared ==
    ASSUME CiInv, NEW r \in Runs, case.job = "ci", ReleaseLock(r), UNCHANGED buildVars, Only(r)
    PROVE  Shared'
<1> DEFINE x == run[r]
           y == run'[r]
           n == Name(r)
           O == \E s \in Runs : Outlived(s)
<1>1. /\ UNCHANGED <<case, plan, tree, check, build, result>> /\ x.pc = "release"
      /\ DOMAIN x = RunFields /\ lock' = [lock EXCEPT ![n] = "free"] /\ n \in Names
  BY RunIs, NamesAre DEF ReleaseLock, PlanKept, At, buildVars
<1>2. /\ SameName(r) /\ y.failure = x.failure /\ y.pc \in {"record", "done"}
      /\ y.leftover = x.leftover /\ y.clean = (tree[n] = NoTree)
  <2>1. \E pc \in {"record", "done"} : \E v :
           y = [x EXCEPT !.pc = pc, !.answer = v, !.clean = tree[n] = NoTree]
    <3>1. y = [x EXCEPT !.pc = IF x.ok THEN "record" ELSE "done",
                        !.answer = IF x.ok THEN x.answer ELSE "err",
                        !.clean = tree[n] = NoTree]
      BY BecomesIs DEF ReleaseLock, CiInv
    <3> QED
      BY <3>1
  <2> QED
    BY <1>1, <2>1 DEF RunFields, SameName
<1>3. OutlivedStays(r)
  BY <1>1, <1>2 DEF OutlivedStays
<1>4. Steady(r) /\ Name(r)' = n /\ (O => O')
  BY <1>2, <1>3, SteadyIs
<1>5. lock'[n] = "free" /\ \A m \in Names \ {n} : lock'[m] = lock[m]
  BY <1>1 DEF CiInv, Typed
<1>6. Elsewhere(r)
  BY <1>1, <1>5 DEF Elsewhere
<1>7. Answers(case.job, x) => Answers(case.job, y)
  BY <1>1, <1>2 DEF Answers, Working
<1>8. RefAnswered(r)
  BY <1>1, RefStays DEF Merging
<1>9. Answering(r)
  BY <1>1, <1>4, <1>7, <1>8 DEF Answering, RefAnswered
<1>10. check'[r] = <<>>
  BY <1>1, RunIs DEF Known, PlacedBuild, Recording
<1>11. ASSUME Apart'
       PROVE  /\ Considerate(r)
              /\ OwnsTree(r)' /\ OwnsLock(r)' /\ Guarded(r)' /\ Cleared(r)'
  <2>1. OwnsLock(r) /\ Cleared(r)
    BY <1>4, <1>11, SteadyKeeps DEF CiInv, Shared
  <2>2. lock[n] = r
    BY <1>1, <2>1 DEF OwnsLock, Holding
  <2>3. Considerate(r)
    BY <1>1, <2>2 DEF Considerate
  <2>4. OwnsTree(r)' /\ OwnsLock(r)'
    BY <1>1, <1>2 DEF OwnsTree, OwnsLock, Own, Working, Holding
  <2>5. Guarded(r)'
    <3>1. Living(plan[r]) # {} => Outlived(r)
      BY <1>1, LeftAlive
    <3>2. Outlived(r) => Outlived(r)'
      BY <1>4 DEF Steady
    <3> QED
      BY <1>1, <3>1, <3>2 DEF Guarded
  <2> HIDE DEF O
  <2>6. ~x.leftover => y.clean \/ O
    BY <1>1, <1>2, <2>1 DEF Cleared, Gone, At, O
  <2>7. Cleared(r)'
    BY <1>2, <1>4, <1>10, <2>6 DEF Cleared, At, O
  <2> QED
    BY <2>3, <2>4, <2>5, <2>7
<1> QED
  BY <1>4, <1>6, <1>9, <1>11, SharedKept

\* A run that has no plan yet.
LEMMA NotRunYet ==
    ASSUME CiInv, NEW r \in Runs, run[r].pc \in BeforePlan
    PROVE  /\ Living(plan[r]) = {} /\ run[r].failure = Green /\ check[r] = <<>> /\ run[r].ok
           /\ run[r].pc = "reserve" => ~run[r].reserved
<1>1. PlanTyped(plan[r]) /\ PlacedRun(run[r], plan[r])
  BY RunIs DEF Known
<1>2. Living(plan[r]) = {}
  <2>1. plan[r].leader = "none" /\ plan[r].member = "none"
    BY <1>1 DEF PlanTyped, PlacedRun
  <2> QED
    BY <1>1, <2>1, LivingIs
<1>3. check[r] = <<>>
  BY RunIs DEF Known, PlacedBuild, Recording, BeforePlan
<1> QED
  BY <1>1, <1>2, <1>3 DEF PlacedRun, BeforePlan

LEMMA ReservesShared ==
    ASSUME CiInv, NEW r \in Runs, NEW exhausted \in {"remove", "unlock"},
           exhausted = "remove" <=> case.job = "ci",
           Reserves(r, exhausted), UNCHANGED buildVars, Only(r)
    PROVE  Shared'
<1> DEFINE x == run[r]
           y == run'[r]
           n == Name(r)
<1>1. /\ UNCHANGED <<case, plan, tree, check, build, result>> /\ x.pc = "reserve"
      /\ DOMAIN x = RunFields /\ n \in Names /\ Typed
  BY RunIs, NamesAre DEF Reserves, PlanKept, At, buildVars, CiInv
<1>2. Living(plan[r]) = {} /\ x.failure = Green /\ check[r] = <<>> /\ x.ok /\ ~x.reserved
  BY <1>1, NotRunYet DEF BeforePlan
<1>3. \/ /\ lock[n] = "free" /\ lock' = [lock EXCEPT ![n] = r]
         /\ y.pc = "add" /\ y.attempt = x.attempt /\ y.failure = x.failure
      \/ UNCHANGED lock /\ y.pc = "reserve" /\ y.failure = x.failure
      \/ /\ UNCHANGED lock /\ y.pc = exhausted /\ y.attempt = x.attempt /\ y.failure = x.failure
         /\ ~y.ok /\ y.reserved = x.reserved
  <2>1. \/ /\ lock[n] = "free" /\ lock' = [lock EXCEPT ![n] = r]
           /\ y = [x EXCEPT !.pc = "add", !.reserved = TRUE]
        \/ UNCHANGED lock /\ y = [x EXCEPT !.attempt = @ + 1]
        \/ UNCHANGED lock /\ y = [x EXCEPT !.pc = exhausted, !.ok = FALSE]
    BY <1>1, BecomesIs DEF Reserves, LockIsFree
  <2>2. CASE lock[n] = "free" /\ lock' = [lock EXCEPT ![n] = r]
             /\ y = [x EXCEPT !.pc = "add", !.reserved = TRUE]
    BY <1>1, <2>2 DEF RunFields
  <2>3. CASE UNCHANGED lock /\ y = [x EXCEPT !.attempt = @ + 1]
    BY <1>1, <2>3 DEF RunFields
  <2>4. CASE UNCHANGED lock /\ y = [x EXCEPT !.pc = exhausted, !.ok = FALSE]
    BY <1>1, <2>4 DEF RunFields
  <2> QED
    BY <2>1, <2>2, <2>3, <2>4
<1>4. \A m \in Names \ {n} : lock'[m] = lock[m]
  BY <1>1, <1>3 DEF Typed
<1>5. Steady(r)
  BY <1>1, <1>2, <1>3 DEF Steady, Exhausted, Outlived
<1>6. Elsewhere(r)
  BY <1>1, <1>4 DEF Elsewhere
<1>7. RefAnswered(r)
  BY <1>1, RefStays DEF Published
<1>8. ~Answers(case.job, x)
  BY <1>1 DEF Answers, Working
<1>9. Answering(r)
  BY <1>1, <1>7, <1>8 DEF Answering, RefAnswered
<1>10. Considerate(r)
  BY <1>1, <1>3 DEF Considerate
<1>11. ASSUME Apart'
       PROVE  OwnsTree(r)' /\ OwnsLock(r)' /\ Guarded(r)' /\ Cleared(r)'
  <2>1. y.pc \in {"add", "reserve", "unlock"} \/ (y.pc = "remove" /\ ~y.ok /\ ~y.reserved)
    BY <1>2, <1>3
  <2>2. case.job = "ci" => y.pc \in {"add", "reserve"}
    <3>1. case.job = "ci" => ~Exhausted(r)'
      BY <1>1, <1>11 DEF Apart, NoneExhausted
    <3> QED
      BY <1>2, <1>3, <3>1 DEF Exhausted
  <2>3. case.job # "ci" => y.pc \in {"add", "reserve", "unlock"}
    BY <1>3
  <2>4. OwnsTree(r)'
    BY <1>1, <2>2, <2>3 DEF OwnsTree, Own, Working
  <2>5. OwnsLock(r)'
    <3>1. y.pc = "add" => lock'[n] = r /\ Name(r)' = n
      BY <1>1, <1>3 DEF Typed, Name
    <3> QED
      BY <1>1, <2>2, <3>1 DEF OwnsLock, Holding, Working
  <2>6. Guarded(r)' /\ Cleared(r)'
    BY <1>1, <1>2, <2>2 DEF Guarded, Cleared, At
  <2> QED
    BY <2>4, <2>5, <2>6
<1> QED
  BY <1>5, <1>6, <1>9, <1>10, <1>11, SharedKept

LEMMA AddsShared ==
    ASSUME CiInv, NEW r \in Runs, NEW added \in {"start", "strategy"},
           NEW failed \in {"remove", "unlock"}, failed = "remove" <=> case.job = "ci",
           Adds(r, added, failed), UNCHANGED buildVars, Only(r)
    PROVE  Shared'
<1> DEFINE x == run[r]
           y == run'[r]
           n == Name(r)
<1>1. /\ UNCHANGED <<case, plan, lock, check, build, result>> /\ x.pc = "add"
      /\ DOMAIN x = RunFields /\ n \in Names /\ Typed
  BY RunIs, NamesAre DEF Adds, PlanKept, At, buildVars, CiInv
<1>2. Living(plan[r]) = {} /\ x.failure = Green /\ check[r] = <<>> /\ x.ok
  BY <1>1, NotRunYet DEF BeforePlan
<1>3. /\ y.attempt = x.attempt /\ y.failure = x.failure /\ y.reserved = x.reserved
      /\ y.pc \in {added, failed} /\ (y.pc = added => Goes(r, added))
  <2>1. CASE Goes(r, added)
    <3>1. y = [x EXCEPT !.pc = added]
      BY <1>1, <2>1, BecomesIs DEF Goes
    <3> QED
      BY <1>1, <2>1, <3>1 DEF RunFields
  <2>2. CASE Becomes(r, [x EXCEPT !.pc = failed, !.ok = FALSE])
    <3>1. y = [x EXCEPT !.pc = failed, !.ok = FALSE]
      BY <1>1, <2>2, BecomesIs
    <3> QED
      BY <1>1, <3>1 DEF RunFields
  <2> QED
    BY <2>1, <2>2 DEF Adds
<1>4. /\ \A m \in Names \ {n} : tree'[m] = tree[m]
      /\ \/ tree[n].by = "none" /\ tree'[n].by = r /\ tree'[n].registered /\ y.pc = added
         \/ /\ tree'[n].by = tree[n].by \/ (tree[n] = NoTree /\ tree'[n].by = r)
            /\ tree[n].registered => tree'[n].registered
            /\ y.pc = failed /\ y.ok = FALSE
  <2>1. CASE /\ tree[n] = NoTree
             /\ tree' = [tree EXCEPT ![n] = [NoTree EXCEPT !.dir = TRUE, !.registered = TRUE,
                                                           !.by = r]]
             /\ Goes(r, added)
    <3>1. y.pc = added
      BY <1>1, <2>1, BecomesIs DEF Goes, RunFields
    <3> QED
      BY <1>1, <2>1, <3>1 DEF Typed, NoTree
  <2>2. ASSUME Becomes(r, [x EXCEPT !.pc = failed, !.ok = FALSE])
        PROVE  y.pc = failed /\ y.ok = FALSE
    <3>1. y = [x EXCEPT !.pc = failed, !.ok = FALSE]
      BY <1>1, <2>2, BecomesIs
    <3> QED
      BY <1>1, <3>1 DEF RunFields
  <2>3. CASE UNCHANGED tree /\ Becomes(r, [x EXCEPT !.pc = failed, !.ok = FALSE])
    BY <2>2, <2>3
  <2>4. ASSUME NEW d \in BOOLEAN, NEW g \in BOOLEAN,
               tree' = [tree EXCEPT ![n].dir = d \/ @, ![n].registered = g \/ @,
                                    ![n].by = IF tree[n] = NoTree /\ (d \/ g) THEN r ELSE @],
               Becomes(r, [x EXCEPT !.pc = failed, !.ok = FALSE])
        PROVE  /\ \A m \in Names \ {n} : tree'[m] = tree[m]
               /\ tree'[n].by = tree[n].by \/ (tree[n] = NoTree /\ tree'[n].by = r)
               /\ tree[n].registered => tree'[n].registered
               /\ y.pc = failed /\ y.ok = FALSE
    <3> DEFINE v == d \/ tree[n].dir
               w == g \/ tree[n].registered
               u == IF tree[n] = NoTree /\ (d \/ g) THEN r ELSE tree[n].by
    <3>1. /\ \A m \in Names \ {n} : tree'[m] = tree[m]
          /\ tree'[n] = [tree[n] EXCEPT !.dir = v, !.registered = w, !.by = u]
      BY <1>1, <2>4 DEF Typed
    <3>2. /\ tree[n].registered => w
          /\ u = tree[n].by \/ (tree[n] = NoTree /\ u = r)
      OBVIOUS
    <3>3. tree[n] \in Trees
      BY <1>1 DEF Typed
    <3> HIDE DEF u, v, w
    <3>4. tree'[n].registered = w /\ tree'[n].by = u
      BY <3>1, <3>3 DEF Trees
    <3> QED
      BY <2>2, <2>4, <3>1, <3>2, <3>4
  <2> QED
    BY <2>1, <2>3, <2>4 DEF Adds
<1>5. Steady(r) /\ Name(r)' = n
  BY <1>1, <1>2, <1>3 DEF Steady, Exhausted, Outlived, Name
<1>6. Elsewhere(r)
  BY <1>1, <1>4 DEF Elsewhere
<1>7. RefAnswered(r)
  BY <1>1, RefStays DEF Published
<1>8. ~Answers(case.job, x)
  BY <1>1 DEF Answers, Working
<1>9. Answers(case.job, y)
  <2>1. x.reserved
    BY <1>1, RunIs DEF Known, PlacedRun
  <2> QED
    BY <1>3, <1>4, <2>1 DEF Answers, Working
<1>10. Answering(r)
  BY <1>1, <1>4, <1>5, <1>7, <1>8, <1>9 DEF Answering, RefAnswered
<1>11. ASSUME Apart'
       PROVE  /\ Considerate(r)
              /\ OwnsTree(r)' /\ OwnsLock(r)' /\ Guarded(r)' /\ Cleared(r)'
  <2>1. OwnsLock(r)
    BY <1>5, <1>11, SteadyKeeps DEF CiInv, Shared
  <2>2. case.job = "ci" => lock[n] = r
    BY <1>1, <2>1 DEF OwnsLock, Holding
  <2>3. Considerate(r)
    <3>1. tree[n] = NoTree => tree[n].registered = FALSE
      BY DEF NoTree
    <3> QED
      BY <1>1, <1>4, <2>2, <3>1 DEF Considerate
  <2>4. OwnsTree(r)'
    <3>1. CASE y.pc = added /\ tree'[n].by = r /\ tree'[n].registered
      BY <1>5, <3>1 DEF OwnsTree
    <3>2. CASE y.pc = failed
      BY <1>1, <3>2 DEF OwnsTree, Own, Working
    <3> QED
      BY <1>4, <3>1, <3>2
  <2>5. OwnsLock(r)'
    BY <1>1, <1>5, <2>2 DEF OwnsLock
  <2>6. Guarded(r)' /\ Cleared(r)'
    BY <1>1, <1>2, <1>3 DEF Guarded, Cleared, At
  <2> QED
    BY <2>3, <2>4, <2>5, <2>6
<1> QED
  BY <1>5, <1>6, <1>10, <1>11, SharedKept

LEMMA RemovesShared ==
    ASSUME CiInv, NEW r \in Runs, NEW gone, NEW left, Removes(r, gone, left),
           UNCHANGED buildVars, Only(r),
           \/ case.job = "ci" /\ run[r].pc = "remove" /\ gone = "list" /\ left = "release"
           \/ /\ case.job # "ci" /\ run[r].pc \in {"remove", "discard"}
              /\ {gone, left} \subseteq {"discarded", "exists", "unpin", "unlock"}
              /\ left # "exists"
              /\ Merging /\ run[r].pc = "remove" => {gone, left} \subseteq Published
    PROVE  Shared'
<1> DEFINE x == run[r]
           y == run'[r]
           n == Name(r)
<1>1. /\ UNCHANGED <<case, plan, lock, check, build, result>> /\ x.pc \in {"remove", "discard"}
      /\ DOMAIN x = RunFields /\ n \in Names /\ Typed
  BY RunIs, NamesAre DEF Removes, PlanKept, buildVars, CiInv
<1>2. /\ \A m \in Names \ {n} : tree'[m] = tree[m]
      /\ \/ Goes(r, gone) /\ tree'[n] = NoTree
         \/ /\ LeftOver(r, left) /\ tree'[n].by = tree[n].by
            /\ (tree[n] = NoTree => tree'[n] = NoTree)
  <2>1. CASE UNCHANGED tree /\ LeftOver(r, left)
    BY <2>1
  <2>2. CASE tree' = [tree EXCEPT ![n] = NoTree] /\ Goes(r, gone)
    BY <1>1, <2>2 DEF Typed
  <2>3. ASSUME NEW g \in BOOLEAN, tree' = [tree EXCEPT ![n].registered = g /\ @]
        PROVE  /\ \A m \in Names \ {n} : tree'[m] = tree[m]
               /\ tree'[n].by = tree[n].by
               /\ (tree[n] = NoTree => tree'[n] = NoTree)
    <3>1. tree'[n] = [tree[n] EXCEPT !.registered = g /\ @]
      BY <1>1, <2>3 DEF Typed
    <3>2. tree[n] \in Trees
      BY <1>1 DEF Typed
    <3>3. tree'[n].by = tree[n].by
      BY <3>1, <3>2 DEF Trees
    <3>4. tree[n] = NoTree => tree'[n] = NoTree
      <4>1. (g /\ NoTree.registered) = FALSE
        BY DEF NoTree
      <4>2. [NoTree EXCEPT !.registered = FALSE] = NoTree
        <5>1. NoTree = [f \in DOMAIN NoTree |-> NoTree[f]] /\ NoTree.registered = FALSE
          BY DEF NoTree
        <5> QED
          BY <5>1
      <4> QED
        BY <3>1, <4>1, <4>2
    <3> QED
      BY <1>1, <2>3, <3>3, <3>4 DEF Typed
  <2> QED
    BY <2>1, <2>2, <2>3 DEF Removes
<1>3. \/ /\ SameName(r) /\ y.pc = gone /\ tree'[n] = NoTree
         /\ y.failure = x.failure \/ x.failure = Green
      \/ /\ SameName(r) /\ y.pc = left /\ y.leftover /\ tree'[n].by = tree[n].by
         /\ y.failure = x.failure \/ x.failure = Green
  BY <1>2, MoveFields
<1>4. OutlivedStays(r)
  BY <1>1, <1>3 DEF OutlivedStays
<1>5. Steady(r) /\ Name(r)' = n
  BY <1>3, <1>4, SteadyIs
<1>6. Elsewhere(r)
  BY <1>1, <1>2 DEF Elsewhere
<1>7. RefAnswered(r)
  BY <1>1, <1>3, RefStays DEF Published, Merging
<1>8. tree'[n].by = r => Answers(case.job, y)
  BY <1>3, RunsAreNot DEF NoTree, Answers
<1>9. Answering(r)
  BY <1>3, <1>5, <1>7, <1>8, RunsAreNot DEF Answering, RefAnswered, NoTree
<1>10. check[r] = <<>>
  BY <1>1, RunIs DEF Known, PlacedBuild, Recording
<1>11. ASSUME Apart'
       PROVE  /\ Considerate(r)
              /\ OwnsTree(r)' /\ OwnsLock(r)' /\ Guarded(r)' /\ Cleared(r)'
  <2>1. OwnsLock(r) /\ Guarded(r)
    BY <1>5, <1>11, SteadyKeeps DEF CiInv, Shared
  <2>2. case.job = "ci" => lock[n] = r
    BY <1>1, <2>1 DEF OwnsLock, Holding
  <2>3. Considerate(r)
    BY <1>1, <2>2 DEF Considerate
  <2>4. OwnsTree(r)'
    BY <1>1, <1>3 DEF OwnsTree, Own, Working
  <2>5. OwnsLock(r)'
    BY <1>1, <1>5, <2>2 DEF OwnsLock
  <2>6. Guarded(r)'
    BY <1>1, <1>5, <2>2 DEF Guarded
  <2>7. Cleared(r)'
    BY <1>1, <1>3, <1>5, <1>10 DEF Cleared, Gone, At
  <2> QED
    BY <2>3, <2>4, <2>5, <2>6, <2>7
<1> QED
  BY <1>5, <1>6, <1>9, <1>11, SharedKept

\* Every step, as everybody sees it.
LEMMA StepShared ==
    ASSUME CiInv, NEW r \in Runs, Step(r), Only(r), Local(r)'
    PROVE  Shared'
<1>1. CASE RunsPlan(r) /\ UNCHANGED buildVars
  BY <1>1, RunsPlanShared
<1>2. CASE case.job = "ci" /\ CiStep(r) /\ UNCHANGED buildVars
  <2>1. CASE ReservePath(r) \/ WorktreeAdd(r)
    BY <1>2, <2>1, ReservesShared, AddsShared DEF ReservePath, WorktreeAdd
  <2>2. CASE RemoveTree(r)
    BY <1>2, <2>2, RemovesShared DEF RemoveTree, At
  <2> QED
    BY <1>1, <1>2, <2>1, <2>2, SelectPlanShared, TidyShared, ReleaseShared, RecordShared
       DEF CiStep
<1>3. CASE case.job # "ci" /\ BuildStep(r)
  <2>1. CASE ReserveBuild(r) \/ AddBuild(r)
    BY <1>3, <2>1, ReservesShared, AddsShared DEF ReserveBuild, AddBuild
  <2>2. CASE DiscardTree(r)
    BY <1>3, <2>2, RemovesShared DEF DiscardTree, At
  <2>3. CASE RemoveBuild(r)
    <3>1. Merging => {"exists", AfterLeftover} \subseteq Published
      BY DEF AfterLeftover, Published
    <3>2. AfterLeftover \in {"unpin", "unlock"}
      BY DEF AfterLeftover
    <3> QED
      BY <1>3, <2>3, <3>1, <3>2, RemovesShared DEF RemoveBuild, At
  <2> QED
    BY <1>1, <1>3, <2>1, <2>2, <2>3, BuildWorkShared, BuildEndShared, RefEndShared DEF BuildStep
<1> QED
  BY <1>2, <1>3 DEF Step

-----------------------------------------------------------------------------
(* Types, and the invariant. *)

LEMMA TreesStay ==
    ASSUME CiInv, NEW r \in Runs,
           UNCHANGED tree \/ PlanWrites(r)
           \/ (\E a, b : Adds(r, a, b)) \/ (\E a, b : Removes(r, a, b))
    PROVE  tree' \in [Names -> Trees]
<1>1. tree \in [Names -> Trees] /\ Name(r) \in Names
  BY NamesAre DEF CiInv, Typed
<1>2. NoTree \in Trees
  BY DEF NoTree, Trees
<1>3. [NoTree EXCEPT !.dir = TRUE, !.registered = TRUE, !.by = r] \in Trees
  BY DEF NoTree, Trees
<1>4. CASE PlanWrites(r)
  BY ZenonT(60), <1>1, <1>4 DEF PlanWrites, Trees
<1>5. ASSUME NEW a, NEW b, Adds(r, a, b) PROVE tree' \in [Names -> Trees]
  <2>1. \/ UNCHANGED tree
        \/ tree' = [tree EXCEPT ![Name(r)] = [NoTree EXCEPT !.dir = TRUE, !.registered = TRUE,
                                                           !.by = r]]
        \/ \E d, g \in BOOLEAN, by \in Runs \cup {"none"} :
              tree' = [tree EXCEPT ![Name(r)].dir = d \/ @, ![Name(r)].registered = g \/ @,
                                   ![Name(r)].by = by]
    BY <1>1, <1>5 DEF Adds, Trees
  <2>2. ASSUME NEW d \in BOOLEAN, NEW g \in BOOLEAN, NEW by \in Runs \cup {"none"},
               tree' = [tree EXCEPT ![Name(r)].dir = d \/ @, ![Name(r)].registered = g \/ @,
                                    ![Name(r)].by = by]
        PROVE  tree' \in [Names -> Trees]
    <3> DEFINE v == d \/ tree[Name(r)].dir
               w == g \/ tree[Name(r)].registered
               t == [tree[Name(r)] EXCEPT !.dir = v, !.registered = w, !.by = by]
    <3>1. v \in BOOLEAN /\ w \in BOOLEAN /\ tree[Name(r)] \in Trees
      BY <1>1
    <3>2. tree' = [tree EXCEPT ![Name(r)] = t]
      BY <1>1, <2>2
    <3> HIDE DEF v, w
    <3>3. t \in Trees
      BY <3>1 DEF Trees
    <3> HIDE DEF t
    <3> QED
      BY <1>1, <3>2, <3>3
  <2>3. CASE \E d, g \in BOOLEAN, by \in Runs \cup {"none"} :
               tree' = [tree EXCEPT ![Name(r)].dir = d \/ @, ![Name(r)].registered = g \/ @,
                                    ![Name(r)].by = by]
    BY <2>2, <2>3
  <2>4. CASE UNCHANGED tree
    BY <1>1, <2>4
  <2>5. CASE tree' = [tree EXCEPT ![Name(r)] = [NoTree EXCEPT !.dir = TRUE, !.registered = TRUE,
                                                             !.by = r]]
    BY <1>1, <1>3, <2>5
  <2> QED
    BY <2>1, <2>3, <2>4, <2>5
<1>6. ASSUME NEW a, NEW b, Removes(r, a, b) PROVE tree' \in [Names -> Trees]
  <2>1. \/ UNCHANGED tree
        \/ tree' = [tree EXCEPT ![Name(r)] = NoTree]
        \/ \E g \in BOOLEAN : tree' = [tree EXCEPT ![Name(r)].registered = g /\ @]
    BY <1>6 DEF Removes
  <2>2. ASSUME NEW g \in BOOLEAN, tree' = [tree EXCEPT ![Name(r)].registered = g /\ @]
        PROVE  tree' \in [Names -> Trees]
    <3> DEFINE v == g /\ tree[Name(r)].registered
               t == [tree[Name(r)] EXCEPT !.registered = v]
    <3>1. v \in BOOLEAN /\ tree[Name(r)] \in Trees
      BY <1>1
    <3>2. tree' = [tree EXCEPT ![Name(r)] = t]
      BY <1>1, <2>2
    <3> HIDE DEF v
    <3>3. t \in Trees
      BY <3>1 DEF Trees
    <3> HIDE DEF t
    <3> QED
      BY <1>1, <3>2, <3>3
  <2> QED
    BY <1>1, <1>2, <2>1, <2>2
<1> QED
  BY <1>1, <1>4, <1>5, <1>6

LEMMA StepTyped ==
    ASSUME CiInv, NEW r \in Runs, Only(r), Step(r) \/ (Other(r) /\ UNCHANGED buildVars)
    PROVE  Typed'
<1>1. tree' \in [Names -> Trees]
  <2>1. UNCHANGED tree \/ PlanWrites(r)
        \/ (\E a, b : Adds(r, a, b)) \/ (\E a, b : Removes(r, a, b))
    <3>1. CASE RunsPlan(r)
      BY <3>1 DEF RunsPlan, StartPlan, CheckDeadline, TryWait, ProbeGroup, WaitFails,
         ReapWithGrace, GraceEnds, ReapGivesUp, FinishCapture, Waiting, OnlyRun
    <3>2. CASE CiStep(r)
      BY <3>1, <3>2 DEF CiStep, SelectPlan, ReservePath, Reserves, WorktreeAdd, RemoveTree,
         ListTrees, VerifyGone, ReleaseLock, RecordCheck, OnlyRun
    <3>3. CASE BuildStep(r)
      BY <3>1, <3>3 DEF BuildStep, ReserveBuild, Reserves, AddBuild, StrategySucceeds,
         StrategyFails, SelectResultPlan, PinResult, AbortStrategy, DiscardTree, Discarded,
         Unlock, RemoveBuild, CheckDir, CheckRegistration, ReleaseBuild, Finalize, Unpin,
         DeleteResult, Git, TreeKept, OnlyRun
    <3>4. CASE Other(r)
      BY <3>4 DEF Other, ReadChunk, ReaderEnds, Exits, Dies, Forks, GetsStuck, EscapedExits,
         Expire, Crash, OnlyPlan, OnlyRun
    <3> QED
      BY <3>2, <3>3, <3>4 DEF Step
  <2> QED
    BY <2>1, TreesStay
<1>2. lock' \in [Names -> Runs \cup {"free", "stale"}]
  <2>1. UNCHANGED lock \/ lock' = [lock EXCEPT ![Name(r)] = r]
        \/ lock' = [lock EXCEPT ![Name(r)] = "free"]
    <3>1. CASE RunsPlan(r)
      BY <3>1 DEF RunsPlan, StartPlan, CheckDeadline, TryWait, ProbeGroup, WaitFails,
         ReapWithGrace, GraceEnds, ReapGivesUp, FinishCapture, Waiting, OnlyRun
    <3>2. CASE CiStep(r)
      BY <3>1, <3>2 DEF CiStep, SelectPlan, ReservePath, Reserves, WorktreeAdd, Adds, RemoveTree,
         Removes, ListTrees, VerifyGone, ReleaseLock, RecordCheck, OnlyRun
    <3>3. CASE BuildStep(r)
      BY <3>1, <3>3 DEF BuildStep, ReserveBuild, Reserves, AddBuild, Adds, StrategySucceeds,
         StrategyFails, SelectResultPlan, PinResult, AbortStrategy, DiscardTree, Removes,
         Discarded, Unlock, RemoveBuild, CheckDir, CheckRegistration, ReleaseBuild, Finalize,
         Unpin, DeleteResult, Git, Unlocks, OnlyRun
    <3>4. CASE Other(r)
      BY <3>4 DEF Other, ReadChunk, ReaderEnds, Exits, Dies, Forks, GetsStuck, EscapedExits,
         PlanWrites, Expire, Crash, OnlyPlan, OnlyRun
    <3> QED
      BY <3>2, <3>3, <3>4 DEF Step
  <2> QED
    BY <2>1 DEF CiInv, Typed
<1>3. result' \in Runs \cup {"none"}
  <2>1. UNCHANGED result \/ result' \in {r, "none"}
    <3>1. CASE UNCHANGED buildVars
      BY <3>1 DEF buildVars
    <3>2. CASE BuildStep(r)
      BY <3>1, <3>2 DEF BuildStep, ReserveBuild, AddBuild, StrategySucceeds,
         StrategyFails, SelectResultPlan, PinResult, AbortStrategy, DiscardTree, Discarded,
         Unlock, RemoveBuild, CheckDir, CheckRegistration, ReleaseBuild, Finalize, Unpin,
         DeleteResult, Git
    <3> QED
      BY <3>1, <3>2 DEF Step
  <2> QED
    BY <2>1 DEF CiInv, Typed
<1> QED
  BY <1>1, <1>2, <1>3 DEF Only, CiInv, Typed

LEMMA CiInvStep ==
    ASSUME CiInv, [Next]_allVars
    PROVE  CiInv'
<1>1. ASSUME NEW r \in Runs, Step(r) \/ (Other(r) /\ UNCHANGED buildVars)
      PROVE  CiInv'
  <2>1. Only(r) /\ Local(r)'
    BY <1>1, StepKnown, OtherKnown
  <2>2. Typed'
    BY <1>1, <2>1, StepTyped
  <2>3. \A s \in Runs : Local(s)'
    BY <2>1 DEF Only, CiInv, Local
  <2>4. Shared'
    BY <1>1, <2>1, StepShared, OtherShared
  <2> QED
    BY <2>2, <2>3, <2>4 DEF CiInv
<1>2. CASE UNCHANGED allVars
  <2>1. Typed'
    BY <1>2 DEF allVars, vars, buildVars, CiInv, Typed
  <2>2. \A s \in Runs : Local(s)'
    BY <1>2 DEF allVars, vars, buildVars, CiInv, Local
  <2>3. Shared'
    BY <1>2 DEF allVars, vars, buildVars, CiInv, Shared, Accounted, RefAccounted, Merging, Apart,
       NoneExhausted, Exhausted, OwnsTree, OwnsLock, Guarded, Outlived, Cleared, Gone, At, Name
  <2> QED
    BY <2>1, <2>2, <2>3 DEF CiInv
<1> QED
  BY <1>1, <1>2 DEF Next

\* At the start every run is idle, or has not begun.
LEMMA NoPlanTyped ==
    /\ PlanTyped(NoPlan) /\ Living(NoPlan) = {}
    /\ NoPlan.leader = "none" /\ NoPlan.escaped = "none"
<1>1. /\ NoPlan.leader = "none" /\ NoPlan.status = "none" /\ NoPlan.member = "none"
      /\ NoPlan.escaped = "none" /\ NoPlan.stuck = FALSE /\ NoPlan.doomed = {}
      /\ NoPlan \in [leader : {"none", "running", "exited", "reaped"},
                     status : {"none", "zero", "nonzero", "killed"},
                     member : {"none", "running", "gone"},
                     escaped : {"none", "running", "gone"},
                     stuck : BOOLEAN, doomed : SUBSET {"leader", "member"}]
  BY DEF NoPlan
<1>2. NoPlan["leader"] = "none" /\ NoPlan["member"] = "none"
  BY <1>1
<1>3. Living(NoPlan) = {}
  BY <1>2 DEF Living
<1> QED
  BY <1>1, <1>3 DEF PlanTyped

LEMMA NewBuildTyped ==
    ASSUME NEW j, NEW s \in Strategies[j]
    PROVE  /\ BuildTyped(j, NewBuild(s)) /\ NewBuild(s).busy = "no"
           /\ ~NewBuild(s).pinned /\ ~NewBuild(s).unchecked
BY DEF NewBuild, BuildTyped

LEMMA InitKnown ==
    ASSUME BuildInit, NEW r \in Runs
    PROVE  /\ Local(r)
           /\ run[r].pc \in {"done", "plan", "reserve"} /\ run[r].ok /\ ~run[r].leftover
           /\ plan[r] = NoPlan /\ check[r] = <<>>
<1> DEFINE x == run[r]
           p == plan[r]
           b == build[r]
<1>1. /\ case.job \in {"ci", "merge", "prepare"} /\ LastAttempt \in Nat
      /\ p = NoPlan /\ check[r] = <<>>
  BY RunsAssumption DEF BuildInit, Init
<1>2. /\ DOMAIN x = RunFields /\ x.attempt = 0 /\ x.failure = Green /\ x.ok = TRUE
      /\ x.leftover = FALSE /\ x.reserved = FALSE /\ x.expired = FALSE /\ x.unproven = FALSE
      /\ x.clean = FALSE /\ x.pc \in {"done", "plan", "reserve"}
      /\ r \in case.runs => x.pc \in {"plan", "reserve"}
  <2>1. x = IF r \notin case.runs THEN Idle
            ELSE [Fresh EXCEPT !.pc = IF case.job = "ci" THEN "plan" ELSE "reserve"]
    BY DEF BuildInit, Init, Fresh
  <2>2. CASE r \notin case.runs
    BY <2>1, <2>2 DEF Idle, Fresh, RunFields
  <2>3. CASE r \in case.runs
    BY <2>1, <2>3 DEF Fresh, RunFields
  <2> QED
    BY <2>2, <2>3
<1>3. BuildTyped(case.job, b) /\ b.busy = "no" /\ ~b.pinned /\ ~b.unchecked
  <2>1. PICK s \in Strategies[case.job] : b = NewBuild(s)
    BY <1>1, BuildAssumption DEF BuildInit
  <2> QED
    BY <2>1, NewBuildTyped
<1>4. PlanTyped(p) /\ Living(p) = {} /\ p.leader = "none"
  BY <1>1, NoPlanTyped
<1>5. check[r] = <<>>
  BY <1>1
<1> HIDE DEF x, p, b
<1>6. RunTyped(x) /\ Reasoned(x, p)
  <2>1. 0 \in Names
    BY <1>1 DEF Names
  <2>2. RunTyped(x)
    BY <1>2, <2>1 DEF RunTyped, Failures
  <2>3. Reasoned(x, p)
    BY <1>2 DEF Reasoned, Green
  <2> QED
    BY <2>2, <2>3
<1>7. PlacedRun(x, p) /\ PlacedBuild(case.job, x, b, check[r])
  BY <1>1, <1>2, <1>3, <1>4 DEF PlacedRun, PlacedBuild, Recording, BeforePlan, Attending
<1>8. /\ Verdicts(case.job, x, p, b) /\ Says(x, p, check[r]) /\ Alike(x, check[r])
      /\ Told(case.job, r \in case.runs, x, check[r])
  BY <1>1, <1>2, <1>3, NoneAlike DEF Verdicts, Relies, Says, Told
<1> QED
  BY <1>1, <1>2, <1>3, <1>4, <1>6, <1>7, <1>8 DEF Local, Known, x, p, b

LEMMA CiInvInit == BuildInit => CiInv
<1> SUFFICES ASSUME BuildInit PROVE CiInv
  OBVIOUS
<1>1. \A r \in Runs :
        /\ Local(r)
        /\ run[r].pc \in {"done", "plan", "reserve"} /\ run[r].ok
        /\ plan[r] = NoPlan /\ check[r] = <<>>
  BY InitKnown
<1>2. /\ tree \in [Names -> Trees] /\ \A n \in Names : tree[n].by = "none"
  <2>1. ASSUME NEW v \in BOOLEAN
        PROVE  LET t == [NoTree EXCEPT !.dir = v, !.registered = v] IN t \in Trees /\ t.by = "none"
    BY DEF NoTree, Trees
  <2>2. tree = [n \in Names |-> [NoTree EXCEPT !.dir = n \in case.left,
                                              !.registered = n \in case.left]]
    BY DEF BuildInit, Init
  <2>3. ASSUME NEW n \in Names PROVE tree[n] \in Trees /\ tree[n].by = "none"
    <3> DEFINE v == n \in case.left
    <3>1. v \in BOOLEAN
      OBVIOUS
    <3>2. tree[n] = [NoTree EXCEPT !.dir = v, !.registered = v]
      BY <2>2, Zenon
    <3> HIDE DEF v
    <3> QED
      BY <2>1, <3>1, <3>2
  <2>4. tree = [n \in Names |-> tree[n]]
    BY <2>2
  <2> QED
    BY <2>3, <2>4
<1>3. Typed
  <2>1. case \in Cases /\ case.mishaps \in Nat /\ mishaps = 0
    BY RunsAssumption DEF BuildInit, Init
  <2>2. DOMAIN run = Runs /\ DOMAIN plan = Runs /\ DOMAIN check = Runs
        /\ lock \in [Names -> Runs \cup {"free", "stale"}]
    BY DEF BuildInit, Init
  <2>3. DOMAIN build = Runs /\ result = "none"
    BY DEF BuildInit
  <2> QED
    BY <1>2, <2>1, <2>2, <2>3 DEF Typed
<1>4. Shared
  <2>1. \A n \in Names : Accounted(n)
    BY <1>2 DEF Accounted
  <2>2. RefAccounted
    BY RunsAreNot DEF RefAccounted, BuildInit
  <2>3. \A r \in Runs : OwnsTree(r) /\ OwnsLock(r) /\ Guarded(r) /\ Cleared(r)
    BY <1>1, NoPlanTyped DEF OwnsTree, OwnsLock, Guarded, Cleared, Own, Holding, Working, At
  <2> QED
    BY <2>1, <2>2, <2>3 DEF Shared
<1> QED
  BY <1>1, <1>3, <1>4 DEF CiInv

\* The invariant holds in every state of the composition of CI runs and builds: what a run knows
\* of its plan (Local), and that worktrees, locks and the result ref are accounted for (Shared).
THEOREM CiInvariant == Spec => []CiInv
BY CiInvInit, CiInvStep, PTL DEF Spec

-----------------------------------------------------------------------------
(* How often a Check is recorded: once, and once more for every fault. *)

Counted ==
    \A r \in Runs : Len(check[r]) <= IF At(r, "record") THEN mishaps ELSE mishaps + 1

LEMMA ChecksAre ==
    ASSUME CiInv, NEW r \in Runs
    PROVE  Len(check[r]) \in Nat /\ mishaps \in Nat /\ DOMAIN check = Runs
<1>1. check[r] \in Seq({check[r][1]})
  BY RunIs DEF Known, Alike
<1>2. mishaps \in Nat
  BY RunsAssumption DEF CiInv, Typed
<1> QED
  BY <1>1, <1>2 DEF CiInv, Typed

LEMMA EndedRests ==
    ASSUME NEW r \in Runs, run[r].pc \in {"done", "killed"}, Step(r) \/ Other(r)
    PROVE  UNCHANGED run
<1>1. ~RunsPlan(r)
  BY DEF RunsPlan, StartPlan, CheckDeadline, TryWait, ProbeGroup, WaitFails, ReapWithGrace,
         GraceEnds, ReapGivesUp, FinishCapture, At
<1>2. ~CiStep(r)
  BY <1>1 DEF CiStep, SelectPlan, ReservePath, Reserves, WorktreeAdd, Adds, RemoveTree, ListTrees,
              VerifyGone, ReleaseLock, RecordCheck, At
<1>3. ~BuildStep(r)
  BY <1>1 DEF BuildStep, ReserveBuild, Reserves, AddBuild, Adds, StrategySucceeds, StrategyFails,
              SelectResultPlan, PinResult, AbortStrategy, DiscardTree, Discarded, Unlock,
              RemoveBuild, CheckDir, CheckRegistration, ReleaseBuild, Finalize, Unpin,
              DeleteResult, At
<1>4. CASE Other(r)
  BY <1>4 DEF Other, ReadChunk, ReaderEnds, Exits, Dies, Forks, GetsStuck, EscapedExits,
              PlanWrites, Expire, Crash, OnlyPlan, At
<1> QED
  BY <1>2, <1>3, <1>4 DEF Step

LEMMA ChecksStay ==
    ASSUME NEW r, Step(r) \/ Other(r), ~RecordCheck(r)
    PROVE  UNCHANGED check
<1>1. CASE RunsPlan(r)
  BY <1>1 DEF RunsPlan, StartPlan, CheckDeadline, TryWait, ProbeGroup, WaitFails, ReapWithGrace,
              GraceEnds, ReapGivesUp, FinishCapture, Waiting, OnlyRun
<1>2. CASE CiStep(r)
  BY <1>1, <1>2 DEF CiStep, SelectPlan, ReservePath, Reserves, WorktreeAdd, Adds, RemoveTree,
         Removes, ListTrees, VerifyGone, ReleaseLock, PlanKept, OnlyRun
<1>3. CASE BuildStep(r)
  BY <1>1, <1>3 DEF BuildStep, ReserveBuild, Reserves, AddBuild, Adds, StrategySucceeds,
         StrategyFails, SelectResultPlan, PinResult, AbortStrategy, DiscardTree, Removes,
         Discarded, Unlock, RemoveBuild, CheckDir, CheckRegistration, ReleaseBuild, Finalize,
         Unpin, DeleteResult, Git, TreeKept, PlanKept, OnlyRun
<1>4. CASE Other(r)
  BY <1>4 DEF Other, ReadChunk, ReaderEnds, Exits, Dies, Forks, GetsStuck, EscapedExits,
         PlanWrites, Expire, Crash, OnlyPlan, OnlyRun
<1> QED
  BY <1>2, <1>3, <1>4 DEF Step

\* Every step is calm, or a mishap.
LEMMA MishapsCount ==
    ASSUME mishaps \in Nat, NEW r, Step(r) \/ Other(r)
    PROVE  mishaps' \in Nat /\ mishaps' >= mishaps /\ (Calm \/ Mishap)
<1>1. ASSUME RunsPlan(r) PROVE Calm \/ Mishap
  BY <1>1 DEF RunsPlan, StartPlan, CheckDeadline, KillsOrNot, TryWait, ProbeGroup, WaitFails,
              ReapWithGrace, GraceEnds, ReapGivesUp, FinishCapture
<1>2. ASSUME CiStep(r) PROVE Calm \/ Mishap
  BY <1>1, <1>2 DEF CiStep, SelectPlan, ReservePath, Reserves, WorktreeAdd, Adds, RemoveTree,
         Removes, ListTrees, VerifyGone, ReleaseLock, RecordCheck
<1>3. ASSUME BuildStep(r) PROVE Calm \/ Mishap
  BY <1>1, <1>3 DEF BuildStep, ReserveBuild, Reserves, AddBuild, Adds, StrategySucceeds,
         StrategyFails, SelectResultPlan, PinResult, AbortStrategy, DiscardTree, Removes,
         Discarded, Unlock, RemoveBuild, CheckDir, CheckRegistration, ReleaseBuild, Finalize,
         Unpin, DeleteResult
<1>4. ASSUME Other(r) PROVE Calm \/ Mishap
  BY <1>4 DEF Other, ReadChunk, ReaderEnds, Exits, Dies, Forks, GetsStuck, EscapedExits,
         PlanWrites, Expire, Crash, Calm, Mishap
<1>5. Calm \/ Mishap
  BY <1>2, <1>3, <1>4 DEF Step
<1> QED
  BY <1>5 DEF Calm, Mishap

LEMMA CountedStep ==
    ASSUME CiInv, CiInv', Counted, [Next]_allVars
    PROVE  Counted'
<1>1. CASE UNCHANGED allVars
  BY <1>1 DEF allVars, vars, Counted, At
<1>2. ASSUME NEW r \in Runs, Step(r) \/ (Other(r) /\ UNCHANGED buildVars), NEW s \in Runs
      PROVE  Len(check'[s]) <= IF run'[s].pc = "record" THEN mishaps' ELSE mishaps' + 1
  <2>1. /\ Len(check[s]) \in Nat /\ mishaps \in Nat
        /\ Len(check[s]) <= IF run[s].pc = "record" THEN mishaps ELSE mishaps + 1
    BY ChecksAre DEF Counted, At
  <2>2. mishaps' \in Nat /\ mishaps' >= mishaps
    BY <1>2, <2>1, MishapsCount
  <2>3. Only(r)
    BY <1>2, StepKnown, OtherKnown
  <2>4. CASE s # r
    <3>1. check'[s] = check[s] /\ run'[s] = run[s]
      BY <2>3, <2>4 DEF Only
    <3> QED
      BY <2>1, <2>2, <3>1
  <2>5. CASE s = r /\ ~RecordCheck(r)
    <3>1. check'[s] = check[s]
      BY <1>2, <2>5, ChecksStay
    <3>2. run'[s].pc = "record" /\ run[s].pc # "record" => check[s] = <<>>
      BY <1>2, <2>5, EndedRests, RunIs DEF Known, PlacedBuild, Recording
    <3>3. check[s] = <<>> => Len(check[s]) = 0
      OBVIOUS
    <3>4. CASE run'[s].pc = "record"
      BY <2>1, <2>2, <3>1, <3>2, <3>3, <3>4
    <3>5. CASE run'[s].pc # "record"
      BY <2>1, <2>2, <3>1, <3>5
    <3> QED
      BY <3>4, <3>5
  <2>6. CASE s = r /\ RecordCheck(r)
    <3>1. run[s].pc = "record"
      BY <2>6 DEF RecordCheck, At
    <3>2. check[s] \in Seq({check[s][1]}) /\ Alike(run[s], check[s])
      BY RunIs DEF Known, Alike
    <3>3. CASE UNCHANGED check
      BY <2>1, <2>2, <3>1, <3>3
    <3>4. CASE Records(r)
      <4>1. Len(check'[s]) = Len(check[s]) + 1
        <5> DEFINE e == EntryOf(run[s])
        <5>1. check'[s] = Append(check[s], e)
          BY <2>6, <3>4, RecordsIs, ChecksAre
        <5>2. check[s] \in Seq({e})
          BY <3>1, <3>2 DEF Alike
        <5> HIDE DEF e
        <5> QED
          BY <5>1, <5>2
      <4>2. \/ mishaps' = mishaps + 1
            \/ run'[s].pc # "record"
        <5>1. CASE mishaps' = mishaps + 1
          BY <5>1
        <5>2. CASE \E v : Becomes(r, [run[r] EXCEPT !.pc = "done", !.answer = v])
          <6>1. PICK v : Becomes(r, [run[r] EXCEPT !.pc = "done", !.answer = v])
            BY <5>2
          <6>2. run'[r] = [run[r] EXCEPT !.pc = "done", !.answer = v]
            BY <6>1, BecomesIs DEF CiInv
          <6> QED
            BY <2>6, <6>2, RunIs DEF RunFields
        <5> QED
          BY <2>6, <5>1, <5>2 DEF RecordCheck, Mishap
      <4>3. CASE mishaps' = mishaps + 1
        BY <2>1, <3>1, <4>1, <4>3
      <4>4. CASE run'[s].pc # "record"
        BY <2>1, <2>2, <3>1, <4>1, <4>4
      <4> QED
        BY <4>2, <4>3, <4>4
    <3> QED
      BY <2>6, <3>3, <3>4 DEF RecordCheck
  <2> QED
    BY <2>4, <2>5, <2>6
<1> QED
  BY <1>1, <1>2 DEF Next, Counted, At

LEMMA CountedInit == BuildInit => Counted
<1> SUFFICES ASSUME BuildInit, NEW r \in Runs
             PROVE  Len(check[r]) <= IF run[r].pc = "record" THEN mishaps ELSE mishaps + 1
  BY DEF Counted, At
<1>1. check[r] = <<>> /\ mishaps = 0
  BY DEF BuildInit, Init
<1>2. Len(check[r]) = 0
  BY <1>1
<1> QED
  BY <1>1, <1>2

LEMMA ChecksCounted == Spec => [](CiInv /\ Counted)
<1>1. Spec => []Counted
  BY CiInvariant, CountedInit, CountedStep, PTL DEF Spec
<1> QED
  BY <1>1, CiInvariant, PTL

-----------------------------------------------------------------------------
(* What follows. *)

\* The type invariant: above all, no run tries a name past the last one (reserve_ci_worktree's
\* sixteen attempts), none records its Check a second time unless a fault made it, nor ever
\* another, and a ci run that ends without one has told its caller of an error.
THEOREM BuildsTyped == Spec => []BuildTypeOK
<1>1. CiInv /\ Counted => BuildTypeOK
  <2> SUFFICES ASSUME CiInv, Counted PROVE BuildTypeOK
    OBVIOUS
  <2>1. ASSUME NEW r \in Runs
        PROVE  /\ run[r].attempt \in Names /\ run[r].failure \in Failures
               /\ plan[r].leader \in {"none", "running", "exited", "reaped"}
               /\ {plan[r].member, plan[r].escaped} \subseteq {"none", "running", "gone"}
               /\ plan[r].status = "none" <=> plan[r].leader \in {"none", "running"}
               /\ plan[r].doomed \subseteq Living(plan[r])
    BY RunIs DEF Known, RunTyped, PlanTyped
  <2>2. ASSUME NEW r \in Runs
        PROVE  /\ Len(check[r]) <= 1 + mishaps
               /\ \A i \in DOMAIN check[r] : check[r][i] = check[r][1]
               /\ At(r, "done") /\ r \in case.runs /\ case.job = "ci"
                     => (check[r] = <<>> => run[r].answer = "err")
    <3>1. Told(case.job, r \in case.runs, run[r], check[r]) /\ check[r] \in Seq({check[r][1]})
      BY RunIs DEF Known, Alike
    <3>2. Len(check[r]) <= 1 + mishaps
      <4>1. Len(check[r]) <= IF At(r, "record") THEN mishaps ELSE mishaps + 1
        BY DEF Counted
      <4> QED
        BY <4>1, ChecksAre
    <3> QED
      BY <3>1, <3>2 DEF Told, At
  <2>3. CiRunTypeOK
    BY <2>1, <2>2 DEF CiRunTypeOK, CiInv, Typed, Failures
  <2>4. ASSUME NEW r \in Runs
        PROVE  LET b == build[r] IN
               /\ b.strategy \in Strategies[case.job]
               /\ b.busy \in {"no", b.strategy} /\ b.busy # "ff"
               /\ b.unchecked \/ b.pinned => Merging
    BY BuildIs DEF BuildTyped, Merging
  <2> QED
    BY <2>3, <2>4 DEF BuildTypeOK, CiInv, Typed
<1> QED
  BY <1>1, ChecksCounted, PTL

\* A Check's reason is what happened to the plan, however the deadline, the plan, the processes it
\* started and the removal of the worktree came in each other's way (run_ci_plan, wait_group,
\* record_and_report_ci_check): a leftover worktree never hides the plan's own failure.
THEOREM ReasonsTrue == Spec => []ReasonsAreTrue
<1>1. CiInv => ReasonsAreTrue
  <2> SUFFICES ASSUME CiInv, NEW r \in Runs, check[r] # <<>>
               PROVE  LET reason == check[r][1].failure IN
                      CASE reason = "timeout" -> run[r].expired
                        [] reason = "nonzero_exit" -> plan[r].status \in {"nonzero", "killed"}
                                                      /\ Living(plan[r]) = {}
                        [] reason = "cleanup_failed" -> run[r].unproven \/ plan[r].status = "zero"
                        [] reason \in {"plan_invalid", "spawn_failed"} -> plan[r].leader = "none"
                        [] OTHER -> reason = Green
    BY DEF ReasonsAreTrue
  <2>1. Says(run[r], plan[r], check[r])
    BY RunIs DEF Known
  <2> QED
    BY <2>1 DEF Says, Failures, Green
<1> QED
  BY <1>1, CiInvariant, PTL

\* A green Check, and a result pinned after its own plan, stand for a plan whose leader exited
\* with 0 and was reaped, and of whose group nothing lives; and the worktree of a green ci run was
\* gone when its lock was given up, but for what a plan that outlived a run may do, or a run out
\* of names (run_ci_plan, verify_result_ci, worktree_leftover).
THEOREM GreenEarned == Spec => []GreenIsEarned
<1>1. CiInv => GreenIsEarned
  <2> SUFFICES ASSUME CiInv, NEW r \in Runs
               PROVE  /\ check[r] # <<>> /\ check[r][1].failure = Green =>
                            /\ Earned(r)
                            /\ run[r].clean \/ \E s \in Runs : Outlived(s) \/ Exhausted(s)
                      /\ build[r].pinned /\ build[r].unchecked => Earned(r)
    BY DEF GreenIsEarned
  <2>1. EarnedBy(plan[r]) <=> Earned(r)
    BY DEF EarnedBy, Earned
  <2>2. build[r].pinned /\ build[r].unchecked => Earned(r)
    BY <2>1, BuildIs
  <2>3. ASSUME check[r] # <<>>, check[r][1].failure = Green
        PROVE  Earned(r) /\ case.job = "ci"
    <3>1. Says(run[r], plan[r], check[r]) /\ PlacedBuild(case.job, run[r], build[r], check[r])
      BY RunIs DEF Known
    <3> QED
      BY <2>1, <2>3, <3>1 DEF Says, PlacedBuild, Recording
  <2>4. ASSUME check[r] # <<>>, check[r][1].failure = Green
        PROVE  run[r].clean \/ \E s \in Runs : Outlived(s) \/ Exhausted(s)
    <3>1. CASE NoneExhausted
      <4>1. Cleared(r)
        BY <3>1 DEF CiInv, Shared, Apart
      <4> QED
        BY <2>3, <2>4, <4>1 DEF Cleared
    <3>2. CASE ~NoneExhausted
      BY <3>2 DEF NoneExhausted
    <3> QED
      BY <3>1, <3>2
  <2> QED
    BY <2>2, <2>3, <2>4
<1> QED
  BY <1>1, CiInvariant, PTL

\* However many runs choose their names alike, and whatever earlier runs left, nobody's worktree is
\* taken from under its strategy or its plan (reserve_ci_worktree, git worktree add and remove).
THEOREM WorktreesOwned == Spec => []WorktreesAreOwn
<1>1. CiInv => WorktreesAreOwn
  <2> SUFFICES ASSUME CiInv, case.job = "ci" => NoneExhausted, NEW r \in Runs,
                      run[r].pc \in Working
               PROVE  /\ tree[Name(r)].registered /\ tree[Name(r)].by = r
                      /\ case.job = "ci" => lock[Name(r)] = r
    BY DEF WorktreesAreOwn, NoneExhausted, Working
  <2>1. OwnsTree(r) /\ OwnsLock(r)
    BY DEF CiInv, Shared, Apart
  <2> QED
    BY <2>1 DEF OwnsTree, OwnsLock, Own, Holding
<1> QED
  BY <1>1, CiInvariant, PTL

\* A command that ends has left no worktree, whole or in part, and no result ref that it did not
\* speak of, and no git command half done, wherever it failed (cleanup_after_failure,
\* cleanup_pending_result, worktree_leftover), but for what a failed `git worktree add` left of a
\* merge's or a prepare's worktree, and for a ref that git made and reported as not made.
THEOREM NothingUnsaid == Spec => []NothingIsLeftUnsaid
<1>1. CiInv => NothingIsLeftUnsaid
  <2> SUFFICES ASSUME CiInv, NEW r \in case.runs, At(r, "done")
               PROVE  /\ \A n \in Names : tree[n].by = r =>
                            \/ run[r].leftover /\ (build[r].busy = "no" \/ build[r].stuck)
                            \/ case.job # "ci" /\ NotAdded(r)
                      /\ result = r => build[r].said \/ build[r].misled
    BY DEF NothingIsLeftUnsaid
  <2>1. r \in Runs
    BY RunsAssumption DEF CiInv, Typed
  <2>2. build[r].busy = "no" \/ build[r].stuck
    BY <2>1, BuildIs DEF At
  <2>3. ASSUME NEW n \in Names, tree[n].by = r
        PROVE  run[r].leftover \/ (case.job # "ci" /\ NotAdded(r))
    BY <2>1, <2>3, RunsAreNot DEF CiInv, Shared, Accounted, Answers, NotAdded, At, Working
  <2>4. result = r => build[r].said \/ build[r].misled
    BY <2>1 DEF CiInv, Shared, RefAccounted, Published, At
  <2> QED
    BY <2>2, <2>3, <2>4
<1> QED
  BY <1>1, CiInvariant, PTL

-----------------------------------------------------------------------------
(* The end of the output. *)

\* c is the end of b.
EndOf(c, b) ==
    /\ c \in Seq(Bytes) /\ b \in Seq(Bytes) /\ Len(c) <= Len(b)
    /\ \A i \in 1..Len(c) : c[i] = b[i + (Len(b) - Len(c))]

LEMMA BytesAre ==
    ASSUME NEW b \in Seq(Bytes)
    PROVE  /\ Len(b) \in Nat /\ DOMAIN b = 1..Len(b)
           /\ \A i \in 1..Len(b) : b[i] \in 0..5
BY DEF Bytes

LEMMA LastOfIs ==
    ASSUME NEW b \in Seq(Bytes), NEW n \in 0..Len(b)
    PROVE  EndOf(LastOf(b, n), b) /\ Len(LastOf(b, n)) = n
<1>1. Len(b) \in Nat /\ b \in [1..Len(b) -> Bytes]
  OBVIOUS
<1>2. PICK c : c = SubSeq(b, Len(b) - n + 1, Len(b))
  OBVIOUS
<1>3. /\ Len(b) - n + 1 \in Int /\ n \in Nat /\ n <= Len(b)
      /\ \A i \in (Len(b) - n + 1)..Len(b) : b[i] \in Bytes
  BY <1>1
<1>4. /\ c \in Seq(Bytes) /\ Len(c) = IF Len(b) - n + 1 <= Len(b) THEN Len(b) - (Len(b) - n + 1) + 1 ELSE 0
      /\ \A i \in 1..(Len(b) - (Len(b) - n + 1) + 1) : c[i] = b[(Len(b) - n + 1) + i - 1]
  BY <1>2, <1>3, SubSeqProperties
<1>5. Len(c) = n /\ Len(b) - (Len(b) - n + 1) + 1 = n
  BY <1>1, <1>3, <1>4
<1>6. \A i \in 1..n : c[i] = b[i + (Len(b) - n)]
  <2> TAKE i \in 1..n
  <2>1. (Len(b) - n + 1) + i - 1 = i + (Len(b) - n)
    BY <1>1, <1>3
  <2> QED
    BY <1>4, <1>5, <2>1
<1> QED
  BY <1>1, <1>2, <1>3, <1>4, <1>5, <1>6 DEF EndOf, LastOf

\* What is the end of the end is the end.
LEMMA EndOfEnd ==
    ASSUME NEW c, NEW b, NEW r, EndOf(c, b), EndOf(b, r)
    PROVE  EndOf(c, r)
<1>1. /\ c \in Seq(Bytes) /\ b \in Seq(Bytes) /\ r \in Seq(Bytes)
      /\ Len(c) \in Nat /\ Len(b) \in Nat /\ Len(r) \in Nat
      /\ Len(c) <= Len(b) /\ Len(b) <= Len(r)
  BY BytesAre DEF EndOf
<1>2. ASSUME NEW i \in 1..Len(c) PROVE c[i] = r[i + (Len(r) - Len(c))]
  <2>1. c[i] = b[i + (Len(b) - Len(c))]
    BY DEF EndOf
  <2>2. /\ i + (Len(b) - Len(c)) \in 1..Len(b)
        /\ i + (Len(b) - Len(c)) + (Len(r) - Len(b)) = i + (Len(r) - Len(c))
    BY <1>1
  <2>3. b[i + (Len(b) - Len(c))] = r[i + (Len(b) - Len(c)) + (Len(r) - Len(b))]
    BY <2>2 DEF EndOf
  <2> QED
    BY <2>1, <2>2, <2>3
<1> QED
  BY <1>1, <1>2 DEF EndOf

\* A character is the same, seen from the end.
LEMMA ContinuesFromEnd ==
    ASSUME NEW c, NEW b, EndOf(c, b), NEW j \in 1..Len(c), NEW i \in 1..Len(c)
    PROVE  Continues(c, j, i) <=> Continues(b, j + (Len(b) - Len(c)), i + (Len(b) - Len(c)))
<1>1. PICK s, n, m : s = Len(b) - Len(c) /\ n = Len(c) /\ m = Len(b)
  OBVIOUS
<1>2. s \in Nat /\ n \in Nat /\ m = n + s /\ j \in 1..n /\ i \in 1..n
  BY <1>1, BytesAre DEF EndOf
<1>3. \A k \in 1..n : c[k] = b[k + s]
  BY <1>1 DEF EndOf
<1>4. c[j] = b[j + s] /\ (c[j] \in 2..4 => c[j] \in Int)
  BY <1>2, <1>3
<1>5. c[j] \in 2..4 => (i \in j + 1..j + c[j] - 1 <=> i + s \in (j + s) + 1..(j + s) + b[j + s] - 1)
  BY <1>2, <1>4
<1>6. (\A k \in j + 1..i : c[k] = 0) <=> (\A k \in (j + s) + 1..(i + s) : b[k] = 0)
  <2>1. ASSUME \A k \in j + 1..i : c[k] = 0, NEW k \in (j + s) + 1..(i + s) PROVE b[k] = 0
    <3>1. k - s \in j + 1..i /\ k - s \in 1..n /\ (k - s) + s = k
      BY <1>2
    <3> QED
      BY <1>3, <2>1, <3>1
  <2>2. ASSUME \A k \in (j + s) + 1..(i + s) : b[k] = 0, NEW k \in j + 1..i PROVE c[k] = 0
    <3>1. k + s \in (j + s) + 1..(i + s) /\ k \in 1..n
      BY <1>2
    <3> QED
      BY <1>3, <2>2, <3>1
  <2> QED
    BY <2>1, <2>2
<1> QED
  BY <1>1, <1>4, <1>5, <1>6 DEF Continues, Continuation

\* A piece of a sequence.
LEMMA PieceIs ==
    ASSUME NEW b \in Seq(Bytes), NEW from \in Int, NEW to \in Int, from <= to,
           \A k \in from..to : k \in 1..Len(b)
    PROVE  /\ SubSeq(b, from, to) \in Seq(Bytes) /\ Len(SubSeq(b, from, to)) = to - from + 1
           /\ \A k \in 1..to - from + 1 : SubSeq(b, from, to)[k] = b[from + k - 1]
<1>1. \A k \in from..to : b[k] \in Bytes
  OBVIOUS
<1>2. /\ SubSeq(b, from, to) \in Seq(Bytes)
      /\ Len(SubSeq(b, from, to)) = IF from <= to THEN to - from + 1 ELSE 0
      /\ \A k \in 1..(to - from + 1) : SubSeq(b, from, to)[k] = b[from + k - 1]
  BY <1>1, SubSeqProperties
<1> QED
  BY <1>2

LEMMA WholeFromEnd ==
    ASSUME NEW c, NEW b, EndOf(c, b), NEW i \in 1..Len(c)
    PROVE  /\ Whole(c, i) <=> Whole(b, i + (Len(b) - Len(c)))
           /\ Width(c, i) = Width(b, i + (Len(b) - Len(c)))
           /\ Char(c, i) = Char(b, i + (Len(b) - Len(c)))
<1>1. PICK s, n, m : s = Len(b) - Len(c) /\ n = Len(c) /\ m = Len(b)
  OBVIOUS
<1>2. s \in Nat /\ n \in Nat /\ m = n + s /\ i \in 1..n
  BY <1>1, BytesAre DEF EndOf
<1>3. \A k \in 1..n : c[k] = b[k + s]
  BY <1>1 DEF EndOf
<1>4. PICK w : w = c[i] /\ w = b[i + s]
  BY <1>2, <1>3
<1>5. Whole(c, i) <=> Whole(b, i + s)
  <2>1. ASSUME w \in 1..4 PROVE i + w - 1 <= n <=> (i + s) + w - 1 <= m
    BY <1>2, <2>1
  <2>2. ASSUME w \in 1..4, i + w - 1 <= n, NEW k \in (i + s) + 1..(i + s) + w - 1
        PROVE  /\ k - s \in i + 1..i + w - 1 /\ b[k] = c[k - s]
    <3>1. k - s \in i + 1..i + w - 1 /\ k - s \in 1..n /\ (k - s) + s = k
      BY <1>2, <2>2
    <3> QED
      BY <1>3, <3>1
  <2>3. ASSUME w \in 1..4, i + w - 1 <= n, NEW k \in i + 1..i + w - 1
        PROVE  /\ k + s \in (i + s) + 1..(i + s) + w - 1 /\ c[k] = b[k + s]
    <3>1. k + s \in (i + s) + 1..(i + s) + w - 1 /\ k \in 1..n
      BY <1>2, <2>3
    <3> QED
      BY <1>3, <3>1
  <2> QED
    BY <1>1, <1>4, <2>1, <2>2, <2>3 DEF Whole
<1>6. Width(c, i) = Width(b, i + s)
  BY <1>4, <1>5 DEF Width
<1>7. Whole(c, i) => SubSeq(c, i, i + w - 1) = SubSeq(b, i + s, i + s + w - 1)
  <2> HAVE Whole(c, i)
  <2>1. w \in 1..4 /\ i + w - 1 <= n
    BY <1>1, <1>4 DEF Whole
  <2>2. /\ i + w - 1 \in Int /\ i \in Int /\ i + s \in Int /\ i + s + w - 1 \in Int
        /\ \A k \in i..(i + w - 1) : k \in 1..n
        /\ \A k \in (i + s)..(i + s + w - 1) : k \in 1..m
    BY <1>2, <2>1
  <2>3. c \in Seq(Bytes) /\ b \in Seq(Bytes) /\ DOMAIN c = 1..n /\ DOMAIN b = 1..m
    BY <1>1, BytesAre DEF EndOf
  <2>5. PICK x, y : x = SubSeq(c, i, i + w - 1) /\ y = SubSeq(b, i + s, i + s + w - 1)
    OBVIOUS
  <2>6. i + w - 1 - i + 1 = w /\ i + s + w - 1 - (i + s) + 1 = w /\ i <= i + w - 1
        /\ i + s <= i + s + w - 1
    BY <1>2, <2>1
  <2>7. x \in Seq(Bytes) /\ Len(x) = w /\ \A k \in 1..w : x[k] = c[i + k - 1]
    <3>1. \A k \in i..(i + w - 1) : k \in 1..Len(c)
      BY <1>1, <2>2
    <3>2. /\ SubSeq(c, i, i + w - 1) \in Seq(Bytes)
          /\ Len(SubSeq(c, i, i + w - 1)) = (i + w - 1) - (i) + 1
          /\ \A k \in 1..(i + w - 1) - (i) + 1 : SubSeq(c, i, i + w - 1)[k] = c[(i) + k - 1]
      BY <2>2, <2>3, <2>6, <3>1, PieceIs
    <3>3. (i + w - 1) - (i) + 1 = w
      BY <1>2, <2>1
    <3>4. /\ x \in Seq(Bytes) /\ Len(x) = (i + w - 1) - (i) + 1
          /\ \A k \in 1..(i + w - 1) - (i) + 1 : x[k] = c[(i) + k - 1]
      BY <2>5, <3>2
    <3> QED
      BY <3>3, <3>4
  <2>8. y \in Seq(Bytes) /\ Len(y) = w /\ \A k \in 1..w : y[k] = b[i + s + k - 1]
    <3>1. \A k \in i + s..(i + s + w - 1) : k \in 1..Len(b)
      BY <1>1, <2>2
    <3>2. /\ SubSeq(b, i + s, i + s + w - 1) \in Seq(Bytes)
          /\ Len(SubSeq(b, i + s, i + s + w - 1)) = (i + s + w - 1) - (i + s) + 1
          /\ \A k \in 1..(i + s + w - 1) - (i + s) + 1 : SubSeq(b, i + s, i + s + w - 1)[k] = b[(i + s) + k - 1]
      BY <2>2, <2>3, <2>6, <3>1, PieceIs
    <3>3. (i + s + w - 1) - (i + s) + 1 = w
      BY <1>2, <2>1
    <3>4. /\ y \in Seq(Bytes) /\ Len(y) = (i + s + w - 1) - (i + s) + 1
          /\ \A k \in 1..(i + s + w - 1) - (i + s) + 1 : y[k] = b[(i + s) + k - 1]
      BY <2>5, <3>2
    <3> QED
      BY <3>3, <3>4
  <2>9. \A k \in 1..w : c[i + k - 1] = b[i + s + k - 1]
    <3> TAKE k \in 1..w
    <3>1. i + k - 1 \in 1..n /\ (i + k - 1) + s = i + s + k - 1
      BY <1>2, <2>1
    <3> QED
      BY <1>3, <3>1
  <2> QED
    BY <2>5, <2>7, <2>8, <2>9, SeqEqual
<1>8. Char(c, i) = Char(b, i + s)
  BY <1>4, <1>5, <1>7 DEF Char
<1> QED
  BY <1>1, <1>5, <1>6, <1>8

\* No character of b that begins before its last n bytes reaches into them.
CleanCut(b, n) ==
    \A j \in 1..(Len(b) - n), i \in (Len(b) - n + 1)..Len(b) : ~Continues(b, j, i)

LEMMA BeginsFromEnd ==
    ASSUME NEW c, NEW b, EndOf(c, b), CleanCut(b, Len(c)), NEW d \in 1..Len(c)
    PROVE  /\ d \in Begins(c) <=> d \in Begins(b)
           /\ Place(c, d) \in 1..Len(c) /\ Place(b, d) = Place(c, d) + (Len(b) - Len(c))
<1>1. PICK s, n, m : s = Len(b) - Len(c) /\ n = Len(c) /\ m = Len(b)
  OBVIOUS
<1>2. s \in Nat /\ n \in Nat /\ m = n + s /\ d \in 1..n
  BY <1>1, BytesAre DEF EndOf
<1>3. PICK i : i = n - d + 1
  OBVIOUS
<1>4. i \in 1..n /\ m - d + 1 = i + s
  BY <1>2, <1>3
<1>5. Place(c, d) = i /\ Place(b, d) = i + s
  BY <1>1, <1>3, <1>4 DEF Place
<1>6. \A j \in 1..n : Continues(c, j, i) <=> Continues(b, j + s, i + s)
  BY <1>1, <1>4, ContinuesFromEnd
<1>7. Inside(c, i) => Inside(b, i + s)
  <2> HAVE Inside(c, i)
  <2>1. PICK j \in i - 3..i - 1 : j >= 1 /\ Continues(c, j, i)
    BY DEF Inside
  <2>2. j \in 1..n /\ j + s \in (i + s) - 3..(i + s) - 1 /\ j + s >= 1
    BY <1>2, <1>4, <2>1
  <2> QED
    BY <1>6, <2>1, <2>2 DEF Inside
<1>8. Inside(b, i + s) => Inside(c, i)
  <2> HAVE Inside(b, i + s)
  <2>1. PICK j \in (i + s) - 3..(i + s) - 1 : j >= 1 /\ Continues(b, j, i + s)
    BY DEF Inside
  <2>2. j > s
    <3>1. CASE j <= s
      <4>1. j \in 1..(m - n) /\ i + s \in (m - n + 1)..m
        BY <1>2, <1>4, <2>1, <3>1
      <4> QED
        BY <1>1, <2>1, <4>1 DEF CleanCut
    <3> QED
      BY <1>2, <1>4, <2>1, <3>1
  <2>3. j - s \in 1..n /\ j - s \in i - 3..i - 1 /\ j - s >= 1 /\ (j - s) + s = j
    BY <1>2, <1>4, <2>1, <2>2
  <2>4. Continues(c, j - s, i)
    BY <1>6, <2>1, <2>3
  <2> QED
    BY <2>3, <2>4 DEF Inside
<1>9. d \in 1..m
  BY <1>2
<1> QED
  BY <1>1, <1>2, <1>4, <1>5, <1>7, <1>8, <1>9 DEF Begins
-----------------------------------------------------------------------------
(* A text has no fewer bytes than what it was decoded from. *)

\* Every byte from a character's beginning on belongs to a character from there on.
LEMMA ByteHasRoom ==
    ASSUME NEW b \in Seq(Bytes), NEW d \in Begins(b), NEW x \in 1..d
    PROVE  \E e \in Begins(b) : /\ e <= d /\ x <= e
                                /\ e - x + 1 \in 1..Width(b, Place(b, e))
<1>1. PICK n : n = Len(b)
  OBVIOUS
<1>2. n \in Nat /\ d \in 1..n /\ x \in 1..n /\ \A i \in 1..n : b[i] \in 0..5
  BY <1>1, BytesAre DEF Begins
<1>3. PICK i : i = n - x + 1 /\ i \in 1..n
  BY <1>2
<1>4. PICK at : at = n - d + 1 /\ at \in 1..n /\ at <= i
  BY <1>2, <1>3
<1>5. Place(b, x) = i /\ Place(b, d) = at /\ ~Inside(b, at)
  BY <1>1, <1>3, <1>4 DEF Place, Begins
<1>6. \A k \in 1..n : Width(b, k) \in 1..4
  <2> TAKE k \in 1..n
  <2>1. Whole(b, k) => b[k] \in 1..4
    BY DEF Whole
  <2> QED
    BY <2>1 DEF Width
<1>7. CASE ~Inside(b, i)
  <2>1. x \in Begins(b)
    BY <1>1, <1>2, <1>5, <1>7 DEF Begins
  <2>2. x - x + 1 \in 1..Width(b, Place(b, x)) /\ x <= d /\ x <= x
    BY <1>2, <1>3, <1>5, <1>6
  <2> QED
    BY <2>1, <2>2
<1>8. CASE Inside(b, i)
  <2>1. PICK j \in i - 3..i - 1 : j >= 1 /\ Continues(b, j, i)
    BY <1>8 DEF Inside
  <2>2. /\ j \in 1..n /\ j < i /\ b[j] \in 2..4 /\ i <= j + b[j] - 1
        /\ \A k \in j + 1..i : b[k] = 0
    BY <1>2, <1>3, <2>1 DEF Continues, Continuation
  <2>3. ~(j < at)
    <3> SUFFICES ASSUME j < at PROVE FALSE
      OBVIOUS
    <3>1. at \in j + 1..j + b[j] - 1 /\ \A k \in j + 1..at : k \in j + 1..i
      BY <1>3, <1>4, <2>2
    <3>2. Continues(b, j, at)
      BY <2>2, <3>1 DEF Continues, Continuation
    <3>3. j \in at - 3..at - 1 /\ j >= 1
      BY <1>4, <2>2, <3>1
    <3> QED
      BY <1>5, <3>2, <3>3 DEF Inside
  <2>4. ~Inside(b, j)
    <3> SUFFICES ASSUME Inside(b, j) PROVE FALSE
      OBVIOUS
    <3>1. PICK l \in j - 3..j - 1 : l >= 1 /\ Continues(b, l, j)
      BY DEF Inside
    <3>2. j \in l + 1..j
      BY <2>2, <3>1
    <3>3. b[j] = 0
      BY <3>1, <3>2 DEF Continues, Continuation
    <3> QED
      BY <2>2, <3>3
  <2>5. PICK e : e = n - j + 1 /\ e \in 1..n /\ n - e + 1 = j
    BY <1>2, <2>2
  <2>6. Place(b, e) = j /\ e \in Begins(b)
    BY <1>1, <2>4, <2>5 DEF Place, Begins
  <2>7. e <= d /\ x <= e /\ e - x + 1 = i - j + 1
    BY <1>2, <1>3, <1>4, <2>2, <2>3, <2>5
  <2>8. i - j + 1 \in 1..Width(b, j)
    <3>1. CASE Whole(b, j)
      <4>1. Width(b, j) = b[j]
        BY <3>1 DEF Width
      <4> QED
        BY <1>3, <2>2, <4>1
    <3>2. CASE ~Whole(b, j)
      <4>1. Width(b, j) = 3
        BY <3>2 DEF Width
      <4>2. ~(i = j + b[j] - 1)
        <5> SUFFICES ASSUME i = j + b[j] - 1 PROVE FALSE
          OBVIOUS
        <5>1. /\ b[j] \in 1..4 /\ j + b[j] - 1 <= n
              /\ \A k \in j + 1..j + b[j] - 1 : b[k] = 0
          BY <1>2, <1>3, <2>2
        <5> QED
          BY <1>1, <3>2, <5>1 DEF Whole, Continuation
      <4>3. i - j + 1 <= 3
        BY SMTT(30), <1>3, <2>2, <4>2
      <4> QED
        BY SMTT(30), <1>3, <2>2, <4>1, <4>3
    <3> QED
      BY <3>1, <3>2
  <2> QED
    BY <2>6, <2>7, <2>8
<1> QED
  BY <1>7, <1>8

LEMMA RoomIsWide ==
    ASSUME NEW b \in Seq(Bytes), NEW d \in Begins(b)
    PROVE  Cardinality(Room(b, d)) \in Nat /\ d <= Cardinality(Room(b, d))
<1>1. PICK n : n = Len(b)
  OBVIOUS
<1>2. n \in Nat /\ d \in 1..n
  BY <1>1, BytesAre DEF Begins
<1>3. IsFiniteSet(Room(b, d))
  <2>1. IsFiniteSet(1..n) /\ IsFiniteSet(1..4)
    <3>1. n \in Int /\ 1 \in Int /\ 4 \in Int
      BY <1>2
    <3> QED
      BY <3>1, FS_Interval
  <2>2. IsFiniteSet((1..n) \X (1..4))
    BY <2>1, FS_Product
  <2>3. Room(b, d) \subseteq (1..n) \X (1..4)
    <3> SUFFICES ASSUME NEW e \in Begins(b)
                 PROVE  e \in 1..n /\ 1..Width(b, Place(b, e)) \subseteq 1..4
      BY DEF Room
    <3>1. e \in 1..n
      BY <1>1 DEF Begins
    <3>2. Whole(b, Place(b, e)) => b[Place(b, e)] \in 1..4
      BY DEF Whole
    <3>3. Width(b, Place(b, e)) \in 1..4
      BY <3>2 DEF Width
    <3> QED
      BY <3>1, <3>3
  <2> QED
    BY <2>2, <2>3, FS_Subset
<1>4. PICK owner : owner = [x \in 1..d |-> CHOOSE e \in Begins(b) :
                               /\ e <= d /\ x <= e /\ e - x + 1 \in 1..Width(b, Place(b, e))]
  OBVIOUS
<1>5. \A x \in 1..d : /\ owner[x] \in Begins(b) /\ owner[x] <= d /\ x <= owner[x]
                      /\ owner[x] - x + 1 \in 1..Width(b, Place(b, owner[x]))
  BY <1>4, ByteHasRoom
<1>6. PICK f : f = [x \in 1..d |-> <<owner[x], owner[x] - x + 1>>]
  OBVIOUS
<1>7. \A x \in 1..d : f[x] \in Room(b, d)
  BY <1>5, <1>6 DEF Room
<1>8. \A x, y \in 1..d : f[x] = f[y] => x = y
  <2> SUFFICES ASSUME NEW x \in 1..d, NEW y \in 1..d, f[x] = f[y] PROVE x = y
    OBVIOUS
  <2>1. owner[x] = owner[y] /\ owner[x] - x + 1 = owner[y] - y + 1
    BY <1>6
  <2>2. owner[x] \in 1..n
    BY <1>1, <1>5 DEF Begins
  <2> QED
    BY <1>2, <2>1, <2>2
<1>9. f \in Injection(1..d, Room(b, d))
  BY <1>6, <1>7, <1>8 DEF Injection, IsInjective
<1>10. Cardinality(1..d) = d
  BY <1>2, FS_Interval
<1> QED
  BY <1>2, <1>3, <1>9, <1>10, FS_Injection, FS_CardinalityType
-----------------------------------------------------------------------------
(* What is cut off. *)

\* A text is that of the whole, if the cut is clean and no character that is cut off would fit.
LEMMA TextOfEnd ==
    ASSUME NEW c, NEW b, EndOf(c, b), CleanCut(b, Len(c)),
           \A d \in Begins(b) : d > Len(c) => d > TailBytes
    PROVE  Text[c] = Text[b]
<1>1. PICK n, m : n = Len(c) /\ m = Len(b)
  OBVIOUS
<1>2. /\ n \in Nat /\ m \in Nat /\ n <= m /\ c \in Seq(Bytes) /\ b \in Seq(Bytes)
  BY <1>1, BytesAre DEF EndOf
<1>3. PICK B, C : B = Begins(b) /\ C = Begins(c)
  OBVIOUS
<1>4. B \subseteq 1..m /\ C \subseteq 1..n
  BY <1>1, <1>3 DEF Begins
<1>5. \A d \in 1..n : d \in C <=> d \in B
  BY <1>1, <1>3, BeginsFromEnd
<1>6. \A d \in C : /\ Width(c, Place(c, d)) = Width(b, Place(b, d))
                   /\ Char(c, Place(c, d)) = Char(b, Place(b, d))
  <2> TAKE d \in C
  <2>1. d \in 1..Len(c)
    BY <1>1, <1>4
  <2>2. Place(c, d) \in 1..Len(c) /\ Place(b, d) = Place(c, d) + (Len(b) - Len(c))
    BY <2>1, BeginsFromEnd
  <2> QED
    BY <2>2, WholeFromEnd
<1>7. \A d \in C : Room(c, d) = Room(b, d)
  <2> TAKE d \in C
  <2>1. {x \in C : x <= d} = {x \in B : x <= d}
    <3>1. \A x \in B : x <= d => x \in 1..n
      BY <1>2, <1>4
    <3>2. \A x \in C : x \in 1..n
      BY <1>4
    <3> QED
      BY <1>5, <3>1, <3>2
  <2>2. {{e} \X (1..Width(c, Place(c, e))) : e \in {x \in C : x <= d}}
        = {{e} \X (1..Width(b, Place(b, e))) : e \in {x \in B : x <= d}}
    BY <1>6, <2>1
  <2> QED
    BY <1>3, <2>2 DEF Room
<1>8. \A d \in B : d \notin C => ~(Cardinality(Room(b, d)) <= TailBytes)
  <2> TAKE d \in B
  <2> HAVE d \notin C
  <2>1. d \in 1..m /\ d > n
    BY <1>2, <1>4, <1>5
  <2>2. d > TailBytes
    BY <1>1, <1>3, <2>1
  <2>3. Cardinality(Room(b, d)) \in Nat /\ d <= Cardinality(Room(b, d))
    BY <1>2, <1>3, RoomIsWide
  <2> QED
    BY <2>1, <2>2, <2>3, TailAssumption
<1>9. {x \in C : Cardinality(Room(c, x)) <= TailBytes}
      = {x \in B : Cardinality(Room(b, x)) <= TailBytes}
  <2>1. \A x \in C : x \in 1..n /\ x \in B
    BY <1>4, <1>5
  <2> QED
    BY <1>7, <1>8, <2>1
<1>10. /\ Text[c] = [d \in {x \in C : Cardinality(Room(c, x)) <= TailBytes} |-> Char(c, Place(c, d))]
       /\ Text[b] = [d \in {x \in B : Cardinality(Room(b, x)) <= TailBytes} |-> Char(b, Place(b, d))]
  BY <1>2, <1>3 DEF Text
<1> QED
  BY <1>6, <1>9, <1>10

\* The bytes that are dropped after the cut are those of the character that the cut splits.
LEMMA SplitIs ==
    ASSUME NEW b \in Seq(Bytes), NEW start \in 1..Len(b)
    PROVE  \E m \in 0..3 :
              /\ SplitContinuations(b, start) = m /\ start + m <= Len(b)
              /\ \A i \in start + 1..start + m : Inside(b, i) /\ b[i] = 0
              /\ \A j \in 1..start, i \in start + m + 1..Len(b) : ~Continues(b, j, i)
<1>1. PICK n : n = Len(b)
  OBVIOUS
<1>2. n \in Nat /\ start \in 1..n /\ \A i \in 1..n : b[i] \in 0..5
  BY <1>1, BytesAre
<1>3. PICK leads : leads = {j \in 1..start : j > start - 3 /\ b[j] # 0}
  OBVIOUS
\* What reaches over the cut is the last byte before it that continues nothing.
<1>4. ASSUME NEW j \in 1..start, NEW i \in start + 1..n, Continues(b, j, i)
      PROVE  j \in leads /\ \A k \in leads : k <= j
  <2>1. /\ b[j] \in 2..4 /\ i <= j + b[j] - 1 /\ \A k \in j + 1..i : b[k] = 0
    BY <1>4 DEF Continues, Continuation
  <2>2. j > start - 3
    BY <1>2, <2>1
  <2>3. \A k \in leads : ~(k > j)
    <3> TAKE k \in leads
    <3>1. k \in 1..start /\ b[k] # 0
      BY <1>3
    <3>2. k > j => k \in j + 1..i
      BY <1>2, <3>1
    <3> QED
      BY <2>1, <3>1, <3>2
  <2> QED
    BY <1>2, <1>3, <2>1, <2>2, <2>3
<1>5. CASE leads = {}
  <2>1. SplitContinuations(b, start) = 0
    BY <1>3, <1>5 DEF SplitContinuations, Continuation
  <2>2. \A i \in start + 1..start + 0 : FALSE
    BY <1>2
  <2>3. \A j \in 1..start, i \in start + 0 + 1..n : ~Continues(b, j, i)
    BY <1>2, <1>4, <1>5
  <2> QED
    BY <1>1, <1>2, <2>1, <2>2, <2>3
<1>6. CASE leads # {}
  <2>1. PICK lead : lead = CHOOSE j \in leads : \A k \in leads : k <= j
    OBVIOUS
  <2>2. PICK C : C = {i \in start + 1..n : Continues(b, lead, i)}
    OBVIOUS
  <2>3. SplitContinuations(b, start) = Cardinality(C)
    BY <1>1, <1>3, <1>6, <2>1, <2>2 DEF SplitContinuations, Continuation
  <2>4. \E j \in leads : \A k \in leads : k <= j
    <3>1. leads \subseteq {start - 2, start - 1, start} /\ leads \subseteq Int
      BY <1>2, <1>3
    <3>2. CASE start \in leads
      BY <1>2, <3>1, <3>2
    <3>3. CASE start \notin leads /\ start - 1 \in leads
      BY <1>2, <3>1, <3>3
    <3>4. CASE start \notin leads /\ start - 1 \notin leads
      <4>1. \A k \in leads : k = start - 2
        BY <3>1, <3>4
      <4>2. PICK k : k \in leads
        BY <1>6
      <4>3. k = start - 2 /\ start - 2 \in leads /\ \A l \in leads : l <= start - 2
        BY <1>2, <4>1, <4>2
      <4> QED
        BY <4>3
    <3> QED
      BY <3>2, <3>3, <3>4
  <2>5. lead \in leads /\ \A k \in leads : k <= lead
    BY <2>1, <2>4
  <2>6. lead \in 1..start /\ lead > start - 3
    BY <1>3, <2>5
  <2>7. \A j \in 1..start, i \in start + 1..n : Continues(b, j, i) => j = lead
    <3> TAKE j \in 1..start, i \in start + 1..n
    <3> HAVE Continues(b, j, i)
    <3>1. j \in leads /\ \A k \in leads : k <= j
      BY <1>4
    <3>2. j <= lead /\ lead <= j
      BY <2>5, <3>1
    <3> QED
      BY <1>2, <2>6, <3>2
  <2>8. \A i \in C : /\ i \in start + 1..n /\ b[i] = 0 /\ i <= start + 3 /\ Inside(b, i)
                     /\ \A k \in start + 1..i : k \in C
    <3> TAKE i \in C
    <3>1. i \in start + 1..n /\ Continues(b, lead, i)
      BY <2>2
    <3>2. /\ b[lead] \in 2..4 /\ i \in lead + 1..lead + b[lead] - 1
          /\ \A k \in lead + 1..i : b[k] = 0
      BY <3>1 DEF Continues, Continuation
    <3>3. b[i] = 0 /\ i <= lead + 3 /\ i <= start + 3
      BY <1>2, <2>6, <3>1, <3>2
    <3>4. Inside(b, i)
      <4>1. lead \in i - 3..i - 1 /\ lead >= 1
        BY <1>2, <2>6, <3>1, <3>3
      <4> QED
        BY <3>1, <4>1 DEF Inside
    <3>5. ASSUME NEW k \in start + 1..i PROVE k \in C
      <4>1. /\ k \in start + 1..n /\ k \in lead + 1..lead + b[lead] - 1
            /\ \A l \in lead + 1..k : l \in lead + 1..i
        BY <1>2, <2>6, <3>1, <3>2
      <4>2. Continues(b, lead, k)
        BY <3>2, <4>1 DEF Continues, Continuation
      <4> QED
        BY <2>2, <4>1, <4>2
    <3> QED
      BY <3>1, <3>3, <3>4, <3>5
  <2>9. PICK m \in 0..3 : C = start + 1..start + m
    <3>1. CASE start + 1 \notin C
      <4>1. \A i \in C : FALSE
        <5> TAKE i \in C
        <5>1. start + 1 \in start + 1..i
          BY <1>2, <2>8
        <5> QED
          BY <2>8, <3>1, <5>1
      <4>2. C = start + 1..start + 0
        <5>1. \A i \in start + 1..start + 0 : FALSE
          BY <1>2
        <5> QED
          BY <4>1, <5>1
      <4> QED
        BY <4>2
    <3>2. CASE start + 1 \in C /\ start + 2 \notin C
      <4>1. \A i \in C : i = start + 1
        <5> TAKE i \in C
        <5>1. i > start + 1 => start + 2 \in start + 1..i
          BY <1>2, <2>8
        <5> QED
          BY <1>2, <2>8, <3>2, <5>1
      <4>2. C = start + 1..start + 1
        <5>1. \A i \in start + 1..start + 1 : i = start + 1
          BY <1>2
        <5>2. start + 1 \in start + 1..start + 1
          BY <1>2
        <5> QED
          BY <3>2, <4>1, <5>1, <5>2
      <4> QED
        BY <4>2
    <3>3. CASE start + 2 \in C /\ start + 3 \notin C
      <4>1. start + 1 \in C
        <5>1. start + 1 \in start + 1..start + 2
          BY <1>2
        <5> QED
          BY <2>8, <3>3, <5>1
      <4>2. \A i \in C : i = start + 1 \/ i = start + 2
        <5> TAKE i \in C
        <5>1. i > start + 2 => start + 3 \in start + 1..i
          BY <1>2, <2>8
        <5> QED
          BY <1>2, <2>8, <3>3, <5>1
      <4>3. C = start + 1..start + 2
        <5>1. \A i \in start + 1..start + 2 : i = start + 1 \/ i = start + 2
          BY <1>2
        <5>2. start + 1 \in start + 1..start + 2 /\ start + 2 \in start + 1..start + 2
          BY <1>2
        <5> QED
          BY <3>3, <4>1, <4>2, <5>1, <5>2
      <4> QED
        BY <4>3
    <3>4. CASE start + 3 \in C
      <4>1. start + 1 \in C /\ start + 2 \in C
        <5>1. start + 1 \in start + 1..start + 3 /\ start + 2 \in start + 1..start + 3
          BY <1>2
        <5> QED
          BY <2>8, <3>4, <5>1
      <4>2. \A i \in C : i = start + 1 \/ i = start + 2 \/ i = start + 3
        BY <1>2, <2>8
      <4>3. C = start + 1..start + 3
        <5>1. \A i \in start + 1..start + 3 : i = start + 1 \/ i = start + 2 \/ i = start + 3
          BY <1>2
        <5>2. /\ start + 1 \in start + 1..start + 3 /\ start + 2 \in start + 1..start + 3
              /\ start + 3 \in start + 1..start + 3
          BY <1>2
        <5> QED
          BY <3>4, <4>1, <4>2, <5>1, <5>2
      <4> QED
        BY <4>3
    <3>5. start + 2 \in C => start + 1 \in C
      <4>1. start + 1 \in start + 1..start + 2
        BY <1>2
      <4> QED
        BY <2>8, <4>1
    <3> QED
      BY <3>1, <3>2, <3>3, <3>4
  <2>10. Cardinality(C) = m
    <3>1. start + 1 \in Int /\ start + m \in Int
      BY <1>2, <2>9
    <3>2. Cardinality(C) = IF start + 1 > start + m THEN 0 ELSE start + m - (start + 1) + 1
      BY <2>9, <3>1, FS_Interval
    <3> QED
      BY <1>2, <2>9, <3>2
  <2>11. start + m <= n
    <3>1. m # 0 => start + m \in C
      BY <1>2, <2>9
    <3> QED
      BY <1>2, <2>8, <3>1
  <2>12. \A j \in 1..start, i \in start + m + 1..n : ~Continues(b, j, i)
    <3> TAKE j \in 1..start, i \in start + m + 1..n
    <3>1. i \in start + 1..n /\ i \notin C
      BY <1>2, <2>9
    <3> QED
      BY <2>2, <2>7, <3>1
  <2> QED
    BY <1>1, <2>3, <2>8, <2>9, <2>10, <2>11, <2>12
<1> QED
  BY <1>5, <1>6

LEMMA SplitOfNone ==
    ASSUME NEW b \in Seq(Bytes)
    PROVE  SplitContinuations(b, 0) = 0
<1>1. {j \in 1..0 : j > 0 - 3 /\ b[j] # 0} = {}
  OBVIOUS
<1> QED
  BY <1>1 DEF SplitContinuations, Continuation

\* What is kept is enough: the three bytes more than the bound show which character the cut splits.
LEMMA TailOfKept ==
    ASSUME NEW b, NEW r, EndOf(b, r), Len(b) = Len(r) \/ Len(b) >= TailBytes + 3
    PROVE  BoundedTail[b] = Text[r]
<1>1. PICK n, N, s : n = Len(b) /\ N = Len(r) /\ s = Len(r) - Len(b)
  OBVIOUS
<1>2. /\ b \in Seq(Bytes) /\ r \in Seq(Bytes) /\ n \in Nat /\ N \in Nat /\ s \in Nat /\ N = n + s
      /\ s = 0 \/ n >= TailBytes + 3
  BY <1>1, BytesAre DEF EndOf
<1>3. \A i \in 1..n : b[i] = r[i + s]
  BY <1>1 DEF EndOf
<1>4. CASE n <= TailBytes
  <2>1. n - 0 - 0 = n /\ n \in 0..n /\ s = 0
    BY <1>2, <1>4, TailAssumption
  <2>2. PICK c : c = LastOf(b, n)
    OBVIOUS
  <2>3. BoundedTail[b] = Text[c]
    <3>1. BoundedTail[b] = Text[LastOf(b, Len(b) - 0 - SplitContinuations(b, 0))]
      BY <1>1, <1>2, <1>4, TailAssumption DEF BoundedTail
    <3> QED
      BY <1>1, <1>2, <2>1, <2>2, <3>1, SplitOfNone
  <2>4. EndOf(c, b) /\ Len(c) = n
    BY <1>1, <1>2, <2>1, <2>2, LastOfIs
  <2>5. EndOf(c, r)
    BY <2>4, EndOfEnd
  <2>6. c \in Seq(Bytes) /\ Len(c) = Len(r) /\ \A i \in 1..Len(c) : c[i] = r[i]
    <3>1. Len(c) = Len(r)
      BY <1>1, <1>2, <2>1, <2>4
    <3>2. \A i \in 1..Len(c) : i + (Len(r) - Len(c)) = i
      BY <1>1, <1>2, <2>4, <3>1
    <3> QED
      BY <2>5, <3>1, <3>2 DEF EndOf
  <2>7. c = r
    BY <1>2, <2>6, SeqEqual
  <2> QED
    BY <2>3, <2>7
<1>5. CASE n > TailBytes
  <2>1. PICK start : start = n - TailBytes
    OBVIOUS
  <2>2. start \in 1..n /\ N - TailBytes = s + start /\ (s = 0 \/ start >= 3)
    BY <1>2, <1>5, <2>1, TailAssumption
  <2>3. PICK m \in 0..3 :
              /\ SplitContinuations(b, start) = m /\ start + m <= n
              /\ \A i \in start + 1..start + m : Inside(b, i) /\ b[i] = 0
              /\ \A j \in 1..start, i \in start + m + 1..n : ~Continues(b, j, i)
    BY <1>1, <1>2, <2>2, SplitIs
  <2>4. PICK l : l = n - start - m
    OBVIOUS
  <2>5. l \in 0..n /\ l = TailBytes - m /\ N - l = s + start + m
    BY <1>2, <2>1, <2>2, <2>3, <2>4, TailAssumption
  <2>6. PICK c : c = LastOf(b, l)
    OBVIOUS
  <2>7. BoundedTail[b] = Text[c]
    <3>1. BoundedTail[b] = Text[LastOf(b, Len(b) - start - SplitContinuations(b, start))]
      BY <1>1, <1>2, <1>5, <2>1 DEF BoundedTail
    <3> QED
      BY <1>1, <2>3, <2>4, <2>6, <3>1
  <2>8. EndOf(c, b) /\ Len(c) = l
    BY <1>1, <1>2, <2>5, <2>6, LastOfIs
  <2>9. EndOf(c, r)
    BY <2>8, EndOfEnd
  <2>10. ASSUME NEW j \in 1..(N - l), NEW i \in (N - l + 1)..N, Continues(r, j, i)
         PROVE  FALSE
    <3>1. r[j] \in 2..4 /\ i <= j + r[j] - 1
      BY <2>10 DEF Continues
    <3>2. i \in Int /\ j \in Int /\ i <= j + 3 /\ i > s + start + m /\ i <= N
      <4>1. N - l \in Int /\ N \in Int
        BY <1>2, <2>5
      <4>2. i \in Int /\ j \in Int /\ i > N - l /\ i <= N
        BY <4>1
      <4>3. i <= j + 3
        BY <3>1, <4>2
      <4> QED
        BY <2>5, <4>2, <4>3
    <3>3. CASE j <= s
      BY <1>2, <2>2, <2>3, <3>2, <3>3
    <3>4. CASE j > s /\ j <= s + start
      <4>1. /\ j - s \in 1..start /\ j - s \in 1..n /\ i - s \in 1..n
            /\ i - s \in start + m + 1..n
            /\ (j - s) + s = j /\ (i - s) + s = i
        BY <1>2, <2>2, <2>3, <3>2, <3>4
      <4>2. Continues(b, j - s, i - s)
        BY SMTT(30), <1>1, <2>10, <4>1, ContinuesFromEnd
      <4> QED
        BY <2>3, <4>1, <4>2
    <3>5. CASE j > s + start
      <4>1. j - s \in start + 1..start + m /\ j - s \in 1..n /\ (j - s) + s = j
        BY <1>2, <2>2, <2>3, <2>5, <3>2, <3>5
      <4>2. b[j - s] = 0 /\ b[j - s] = r[j]
        BY <1>3, <2>3, <4>1
      <4> QED
        BY <3>1, <4>2
    <3> QED
      BY <1>2, <2>2, <3>2, <3>3, <3>4, <3>5
  <2>11. CleanCut(r, Len(c))
    BY <1>1, <2>8, <2>10 DEF CleanCut
  <2>12. ASSUME NEW d \in Begins(r), d > l PROVE d > TailBytes
    <3> SUFFICES ASSUME ~(d > TailBytes) PROVE FALSE
      OBVIOUS
    <3>1. PICK i : i = N - d + 1
      OBVIOUS
    <3>2. d \in 1..N /\ ~Inside(r, i)
      BY <1>1, <3>1 DEF Begins, Place
    <3>3. i - s \in start + 1..start + m /\ i - s \in 1..n /\ (i - s) + s = i
      BY <1>2, <2>2, <2>3, <2>5, <2>12, <3>1, <3>2, TailAssumption
    <3>4. Inside(b, i - s)
      BY <2>3, <3>3
    <3>5. PICK j \in (i - s) - 3..(i - s) - 1 : j >= 1 /\ Continues(b, j, i - s)
      BY <3>4 DEF Inside
    <3>6. j \in 1..n /\ j + s \in i - 3..i - 1 /\ j + s >= 1
      BY <1>2, <3>3, <3>5
    <3>7. Continues(r, j + s, i)
      BY <1>1, <3>3, <3>5, <3>6, ContinuesFromEnd
    <3> QED
      BY <3>2, <3>6, <3>7 DEF Inside
  <2>13. Text[c] = Text[r]
    BY <2>8, <2>9, <2>11, <2>12, TextOfEnd
  <2> QED
    BY <2>7, <2>13
<1> QED
  BY <1>2, <1>4, <1>5, TailAssumption

\* What is kept of what was read: its end, and all of it or the bound and three bytes more.
KeptEnough(kept, read) ==
    EndOf(kept, read) /\ (Len(kept) = Len(read) \/ Len(kept) >= TailBytes + 3)

LEMMA KeepsEnough ==
    ASSUME NEW k, NEW r, KeptEnough(k, r), NEW chunk \in Seq(Bytes)
    PROVE  KeptEnough(Kept(k, chunk), r \o chunk)
<1>1. PICK n, N, x : n = Len(k) /\ N = Len(r) /\ x = Len(chunk)
  OBVIOUS
<1>2. /\ k \in Seq(Bytes) /\ r \in Seq(Bytes) /\ n \in Nat /\ N \in Nat /\ x \in Nat /\ n <= N
      /\ n = N \/ n >= TailBytes + 3
  BY <1>1, BytesAre DEF KeptEnough, EndOf
<1>3. PICK all, out : all = k \o chunk /\ out = r \o chunk
  OBVIOUS
<1>4. /\ all \in Seq(Bytes) /\ out \in Seq(Bytes) /\ Len(all) = n + x /\ Len(out) = N + x
      /\ \A i \in 1..n + x : all[i] = IF i <= n THEN k[i] ELSE chunk[i - n]
      /\ \A i \in 1..N + x : out[i] = IF i <= N THEN r[i] ELSE chunk[i - N]
  BY <1>1, <1>2, <1>3, ConcatProperties
<1>5. EndOf(all, out)
  <2>1. ASSUME NEW i \in 1..n + x PROVE all[i] = out[i + ((N + x) - (n + x))]
    <3>1. /\ i + ((N + x) - (n + x)) = i + (N - n) /\ i + (N - n) \in 1..N + x
          /\ i \in Int /\ (i + (N - n)) - N = i - n
          /\ (i <= n <=> i + (N - n) <= N)
      BY <1>2
    <3>2. CASE i <= n
      <4>1. i \in 1..n
        BY <1>2, <3>2
      <4>2. k[i] = r[i + (N - n)]
        BY <1>1, <4>1 DEF KeptEnough, EndOf
      <4>3. all[i] = k[i]
        BY <1>4, <3>2
      <4>4. out[i + (N - n)] = r[i + (N - n)]
        BY <1>4, <3>1, <3>2
      <4> QED
        BY <3>1, <4>2, <4>3, <4>4
    <3>3. CASE ~(i <= n)
      <4>1. all[i] = chunk[i - n]
        BY <1>4, <3>3
      <4>2. out[i + (N - n)] = chunk[(i + (N - n)) - N]
        BY <1>4, <3>1, <3>3
      <4> QED
        BY <3>1, <4>1, <4>2
    <3> QED
      BY <3>2, <3>3
  <2>2. Len(all) <= Len(out)
    BY <1>2, <1>4
  <2> QED
    BY <1>4, <2>1, <2>2 DEF EndOf
<1>6. Len(all) = Len(out) \/ Len(all) >= TailBytes + 3
  <2>1. Len(all) = n + x /\ Len(out) = N + x
    BY <1>4
  <2>2. n = N => n + x = N + x
    OBVIOUS
  <2>3. n >= TailBytes + 3 => n + x >= TailBytes + 3
    BY <1>2, TailAssumption
  <2> QED
    BY <1>2, <2>1, <2>2, <2>3
<1>7. Kept(k, chunk) = IF Len(all) > TailBytes + 3 THEN LastOf(all, TailBytes + 3) ELSE all
  BY <1>3 DEF Kept
<1>8. CASE Len(all) > TailBytes + 3
  <2>1. TailBytes + 3 \in 0..Len(all)
    BY <1>2, <1>4, <1>8, TailAssumption
  <2>2. PICK c : c = LastOf(all, TailBytes + 3)
    OBVIOUS
  <2>3. EndOf(c, all) /\ Len(c) = TailBytes + 3
    BY <1>4, <2>1, <2>2, LastOfIs
  <2>4. EndOf(c, out)
    BY <1>5, <2>3, EndOfEnd
  <2>5. Len(c) >= TailBytes + 3
    BY <2>3, TailAssumption
  <2> QED
    BY <1>3, <1>7, <1>8, <2>2, <2>4, <2>5 DEF KeptEnough
<1>9. CASE ~(Len(all) > TailBytes + 3)
  BY <1>3, <1>5, <1>6, <1>7, <1>9 DEF KeptEnough
<1> QED
  BY <1>8, <1>9

LEMMA NothingRead == KeptEnough(<<>>, <<>>)
BY DEF KeptEnough, EndOf

Captures == [read : Seq(Bytes), kept : Seq(Bytes), ended : BOOLEAN]
CaptureInv ==
    /\ capture \in [Runs -> Captures]
    /\ \A r \in Runs : KeptEnough(capture[r].kept, capture[r].read)

LEMMA CaptureInit == BuildInit => CaptureInv
<1> SUFFICES ASSUME BuildInit PROVE CaptureInv
  OBVIOUS
<1>1. capture = [r \in Runs |-> [read |-> <<>>, kept |-> <<>>, ended |-> FALSE]]
  BY DEF BuildInit, Init
<1>2. <<>> \in Seq(Bytes)
  OBVIOUS
<1> QED
  BY <1>1, <1>2, NothingRead DEF CaptureInv, Captures

LEMMA CaptureStep ==
    ASSUME CaptureInv, [Next]_allVars
    PROVE  CaptureInv'
<1>1. \/ UNCHANGED capture
      \/ \E r \in Runs : ReadChunk(r) \/ ReaderEnds(r) \/ FinishCapture(r)
  <2>1. ASSUME NEW r \in Runs, Step(r) \/ Other(r)
        PROVE  UNCHANGED capture \/ ReadChunk(r) \/ ReaderEnds(r) \/ FinishCapture(r)
    <3>1. CASE RunsPlan(r)
      BY <3>1 DEF RunsPlan, StartPlan, CheckDeadline, TryWait, ProbeGroup, WaitFails,
         ReapWithGrace, GraceEnds, ReapGivesUp, Waiting, OnlyRun
    <3>2. CASE CiStep(r)
      BY <3>1, <3>2 DEF CiStep, SelectPlan, ReservePath, Reserves, WorktreeAdd, Adds, RemoveTree,
         Removes, ListTrees, VerifyGone, ReleaseLock, RecordCheck, PlanKept, OnlyRun
    <3>3. CASE BuildStep(r)
      BY <3>1, <3>3 DEF BuildStep, ReserveBuild, Reserves, AddBuild, Adds, StrategySucceeds,
         StrategyFails, SelectResultPlan, PinResult, AbortStrategy, DiscardTree, Removes,
         Discarded, Unlock, RemoveBuild, CheckDir, CheckRegistration, ReleaseBuild, Finalize,
         Unpin, DeleteResult, Git, Unlocks, TreeKept, PlanKept, OnlyRun
    <3>4. CASE Other(r)
      BY <3>4 DEF Other, Exits, Dies, Forks, GetsStuck, EscapedExits, PlanWrites,
         Expire, Crash, OnlyPlan, OnlyRun
    <3> QED
      BY <2>1, <3>2, <3>3, <3>4, <3>1 DEF Step
  <2>2. UNCHANGED allVars => UNCHANGED capture
    BY DEF allVars, vars
  <2> QED
    BY <2>1, <2>2 DEF Next
<1>2. CASE UNCHANGED capture
  BY <1>2 DEF CaptureInv
<1>3. ASSUME NEW r \in Runs, NEW c \in Captures, capture' = [capture EXCEPT ![r] = c],
             KeptEnough(c.kept, c.read)
      PROVE  CaptureInv'
  <2>1. /\ capture' \in [Runs -> Captures]
        /\ \A s \in Runs : capture'[s] = IF s = r THEN c ELSE capture[s]
    BY <1>3 DEF CaptureInv
  <2> QED
    BY <1>3, <2>1 DEF CaptureInv
<1>4. ASSUME NEW r \in Runs, ReadChunk(r) \/ ReaderEnds(r) \/ FinishCapture(r)
      PROVE  CaptureInv'
  <2>1. capture \in [Runs -> Captures] /\ KeptEnough(capture[r].kept, capture[r].read)
    BY DEF CaptureInv
  <2>2. CASE ReadChunk(r)
    <3>1. PICK chunk \in Chunks :
              capture' = [capture EXCEPT ![r].read = @ \o chunk, ![r].kept = Kept(@, chunk)]
      BY <2>2 DEF ReadChunk
    <3>2. PICK c : c = [capture[r] EXCEPT !.read = @ \o chunk, !.kept = Kept(@, chunk)]
      OBVIOUS
    <3>3. capture' = [capture EXCEPT ![r] = c]
      BY <3>1, <3>2
    <3>4. chunk \in Seq(Bytes)
      BY RunsAssumption
    <3>5. c.read = capture[r].read \o chunk /\ c.kept = Kept(capture[r].kept, chunk)
      BY <2>1, <3>2 DEF Captures
    <3>6. KeptEnough(c.kept, c.read)
      BY <2>1, <3>4, <3>5, KeepsEnough
    <3>7. c \in Captures
      <4>1. c.kept \in Seq(Bytes) /\ c.read \in Seq(Bytes)
        BY <3>6 DEF KeptEnough, EndOf
      <4> QED
        BY <2>1, <3>2, <3>5, <4>1 DEF Captures
    <3> QED
      BY <1>3, <3>3, <3>6, <3>7
  <2>3. CASE ReaderEnds(r)
    <3>1. PICK c : c = [capture[r] EXCEPT !.ended = TRUE]
      OBVIOUS
    <3>2. /\ capture' = [capture EXCEPT ![r] = c] /\ c \in Captures
          /\ c.kept = capture[r].kept /\ c.read = capture[r].read
      BY <2>1, <2>3, <3>1 DEF ReaderEnds, Captures
    <3> QED
      BY <1>3, <2>1, <3>2
  <2>4. CASE FinishCapture(r)
    <3>1. PICK c : c = [capture[r] EXCEPT !.read = <<>>, !.kept = <<>>]
      OBVIOUS
    <3>2. /\ capture' = [capture EXCEPT ![r] = c] /\ c \in Captures
          /\ c.kept = <<>> /\ c.read = <<>>
      <4>1. capture' = [capture EXCEPT ![r].read = <<>>, ![r].kept = <<>>]
        BY <2>4 DEF FinishCapture
      <4>2. capture' = [capture EXCEPT ![r] = c]
        BY <3>1, <4>1
      <4>3. <<>> \in Seq(Bytes)
        OBVIOUS
      <4> QED
        BY <2>1, <3>1, <4>2, <4>3 DEF Captures
    <3> QED
      BY <1>3, <3>2, NothingRead
  <2> QED
    BY <1>4, <2>2, <2>3, <2>4
<1> QED
  BY <1>1, <1>2, <1>4

\* The tail a run records is that of the whole output, however the reader thread's reads divide
\* it and although it keeps no more than the bound and three bytes (read_tail, bounded_tail): for
\* every output, and every size of the tail.
THEOREM TailRight == Spec => []TailIsRight
<1>1. CaptureInv => TailIsRight
  BY TailOfKept DEF CaptureInv, KeptEnough, TailIsRight
<1> QED
  BY <1>1, CaptureInit, CaptureStep, PTL DEF Spec
=============================================================================

----------------------------- MODULE WorktreeProofs -----------------------------
(***************************************************************************)
(* Proofs about Worktrees, for any number of merges, worktrees and people: *)
(* a worktree that no merge reported follows its base, answers stay true,  *)
(* and no work that was seen is discarded.                                 *)
(***************************************************************************)
EXTENDS Worktrees, TLAPS

Authors == Merges \cup {User}

Places == {"gate", "clean", "txn", "head", "diff", "reset", "rollback", "undo", "undo_reset",
           "recheck", "capture", "remove", "branch", "done"}

Memory == [pc : Places, gate : Seq(Authors), left : SUBSET Trees, done : SUBSET Trees,
           dirty : BOOLEAN, failed : SUBSET Trees, tip : Nat,
           answer : {"none", "refused", "ok", "unchanged", "partial", "killed"},
           misled : BOOLEAN]

Typed ==
    /\ base \in Seq(Authors)
    /\ tree \in [Trees -> [at : Seq(Authors), edited : BOOLEAN]]
    /\ source \in [Merges -> [commits : Nat, there : BOOLEAN, edited : BOOLEAN]]
    /\ plan \in [Merges -> [strategy : {"merge", "squash"}, recycle : BOOLEAN, force : BOOLEAN]]
    /\ merge \in [Merges -> Memory]
    /\ told \in SUBSET Trees /\ unsaid \in SUBSET Trees
    /\ userOps \in 0..MaxUser

\* How far a source has come, and what a merge remembers at each place.
Remembered(a) ==
    /\ source[a].commits <= SourceHead + userOps
    /\ merge[a].tip <= source[a].commits \/ source[a].commits = 0
    /\ At(a, "undo") \/ At(a, "undo_reset") => merge[a].left \subseteq merge[a].done
    /\ (merge[a].answer # "none") = At(a, "done")
    /\ At(a, "txn") => merge[a].left = {}
    /\ At(a, "reset") \/ At(a, "undo_reset") => ~merge[a].dirty
    /\ (At(a, "capture") \/ At(a, "remove")) /\ ~plan[a].force => ~merge[a].dirty

\* Before its transaction, between it and a rollback, and from the rollback on.
Before(a) == merge[a].pc \in {"gate", "clean", "txn"}
Moved(a) == merge[a].pc \in {"head", "diff", "reset", "rollback"}
Undoing(a) == merge[a].pc \in {"undo", "undo_reset"}
Recycling(a) == merge[a].pc \in {"recheck", "capture", "remove", "branch"}

\* A merge that has not landed is nowhere in the history; one that landed is, until it is undone.
\* One that was told its transaction failed when git had applied it may be either.
NeverLanded(a) == Before(a) \/ (merge[a].answer = "refused" /\ ~merge[a].misled)

Landing(a) ==
    /\ NeverLanded(a) => /\ a \notin Range(base)
                         /\ \A b \in Merges : a \notin Range(merge[b].gate)
                         /\ \A w \in Trees : a \notin Range(tree[w].at)
    /\ a \notin Range(merge[a].gate)
    /\ Moved(a) \/ Recycling(a) \/ merge[a].answer = "ok" => a \in Range(base)
    /\ Undoing(a) \/ merge[a].answer = "unchanged" => a \notin Range(base)
    /\ ~source[a].there => a \in Range(base) /\ (At(a, "branch") \/ At(a, "done"))
    /\ source[a].commits = 0 \/ At(a, "branch") => ~source[a].there

\* The worktrees the invariant speaks of.
Free == Trees \ (told \cup unsaid)

\* b has found w clean.
Checked(b, w) ==
    \/ At(b, "clean") /\ w \notin merge[b].left
    \/ At(b, "txn") \/ Moved(b) \/ Undoing(b)

\* A worktree that a moved merge has yet to visit does not hold its result, so nobody who saw
\* the branch hold it has found that worktree clean.
Unvisited(a) ==
    Moved(a) =>
        /\ merge[a].left \cup merge[a].done = Trees
        /\ \A w \in Free \cap merge[a].left :
              /\ a \notin Range(tree[w].at)
              /\ \A b \in Merges : a \in Range(merge[b].gate) => ~Checked(b, w)
        /\ \A b \in Merges \ {a} :
              Moved(b) => a \in Range(merge[b].gate) \/ b \in Range(merge[a].gate)

\* Who still has to bring w to the base.
WillUndo(a, w) == Undoing(a) /\ w \in merge[a].left
WillRefresh(a, w) ==
    Moved(a) /\ w \in merge[a].left /\ base = Result(a) /\ tree[w].at = merge[a].gate

Followed(w) == tree[w].at = base \/ \E a \in Merges : WillUndo(a, w) \/ WillRefresh(a, w)

TreeInv ==
    /\ Typed
    /\ \A a \in Merges : Remembered(a) /\ Landing(a) /\ Unvisited(a)
    /\ \A w \in Free : Followed(w)
    /\ WorkSeenIsKept

----------------------------------------------------------------------------
(***************************************************************************)
(* Sequences.                                                              *)
(***************************************************************************)

\* An element of an extended sequence is one of the sequence or the new one.
LEMMA RangeOfAppend ==
    ASSUME NEW S, NEW s \in Seq(S), NEW e \in S
    PROVE  /\ Append(s, e) \in Seq(S)
           /\ Range(Append(s, e)) = Range(s) \cup {e}
           /\ Last(Append(s, e)) = e
           /\ Append(s, e) # s
    <1>1. Append(s, e) \in Seq(S) /\ Len(Append(s, e)) = Len(s) + 1 /\ Len(s) \in Nat
        OBVIOUS
    <1>2. DOMAIN s = 1..Len(s) /\ DOMAIN Append(s, e) = 1..(Len(s) + 1)
        BY <1>1
    <1>3. Append(s, e)[Len(s) + 1] = e /\ \A i \in 1..Len(s) : Append(s, e)[i] = s[i]
        OBVIOUS
    <1>4. Range(Append(s, e)) = Range(s) \cup {e}
        BY <1>1, <1>2, <1>3 DEF Range
    <1>5. Last(Append(s, e)) = e
        BY <1>1, <1>3 DEF Last
    <1> QED BY <1>1, <1>4, <1>5

\* Two extended sequences are the same only if both parts are.
LEMMA AppendInjective ==
    ASSUME NEW S, NEW s \in Seq(S), NEW t \in Seq(S), NEW d \in S, NEW e \in S,
           Append(s, d) = Append(t, e)
    PROVE  s = t /\ d = e
    <1>1. d = e
        BY RangeOfAppend
    <1>2. Len(s) = Len(t) /\ \A i \in 1..Len(s) : s[i] = t[i]
        <2>1. Len(Append(s, d)) = Len(s) + 1 /\ Len(Append(t, e)) = Len(t) + 1
            OBVIOUS
        <2>2. /\ \A i \in 1..Len(s) : Append(s, d)[i] = s[i]
              /\ \A i \in 1..Len(t) : Append(t, e)[i] = t[i]
            OBVIOUS
        <2> QED BY <2>1, <2>2
    <1> QED BY <1>1, <1>2

\* A sequence without elements, and where elements are.
LEMMA RangeOfEmpty == \A e : e \notin Range(<<>>)
    BY DEF Range

----------------------------------------------------------------------------
(***************************************************************************)
(* Types.                                                                  *)
(***************************************************************************)

\* A merge's own step changes no other merge's memory.
LEMMA BecomesTyped ==
    ASSUME Typed, NEW a \in Merges, NEW m \in Memory, Becomes(a, m)
    PROVE  /\ merge' \in [Merges -> Memory] /\ merge'[a] = m
           /\ \A b \in Merges \ {a} : merge'[b] = merge[b]
    BY DEF Typed, Becomes

\* What people and a recycle do to a source.
LEMMA SourceFields ==
    ASSUME Typed, NEW a \in Merges
    PROVE  LET S == [Merges -> [commits : Nat, there : BOOLEAN, edited : BOOLEAN]]
           IN  /\ [source EXCEPT ![a].there = FALSE, ![a].edited = FALSE] \in S
               /\ [source EXCEPT ![a].commits = 0] \in S
               /\ [source EXCEPT ![a].edited = TRUE] \in S
               /\ [source EXCEPT ![a].commits = @ + 1, ![a].edited = FALSE] \in S
    <1>1. /\ source \in [Merges -> [commits : Nat, there : BOOLEAN, edited : BOOLEAN]]
          /\ source[a].commits + 1 \in Nat
        BY DEF Typed
    <1> QED BY <1>1

LEMMA InitTyped == Init => Typed
    <1> SUFFICES ASSUME Init PROVE Typed
        OBVIOUS
    <1>1. Fresh \in Memory
        BY DEF Fresh, Memory, Places
    <1>2. plan \in [Merges -> [strategy : {"merge", "squash"}, recycle : BOOLEAN, force : BOOLEAN]]
        BY WorktreesAssumption DEF Init
    <1> QED BY <1>1, <1>2, WorktreesAssumption DEF Init, Typed, SourceHead

LEMMA TypedStep ==
    ASSUME Typed, [Next]_vars
    PROVE  Typed'
    <1> USE DEF Branches, Kept, UserOp, Answers, Goes, RefreshFails, Result
    <1>0. \A a \in Merges : merge[a] \in Memory /\ Result(a) \in Seq(Authors)
        BY RangeOfAppend DEF Typed, Memory, Authors
    <1>1. ASSUME NEW a \in Merges, MergeGate(a) PROVE Typed'
        <2>1. [merge[a] EXCEPT !.pc = "clean", !.gate = base, !.left = Trees] \in Memory
            BY ZenonT(60), <1>0 DEF Typed, Memory, Places
        <2> QED BY <1>1, <2>1, BecomesTyped DEF Typed, MergeGate
    <1>2. ASSUME NEW a \in Merges, CheckClean(a) \/ ValidateRecycle(a) \/ RefreshHead(a)
                                   \/ RefreshDiff(a) \/ ResetFails(a) \/ ReportMerged(a)
                                   \/ MergeTxnFails(a)
          PROVE  Typed'
        <2>1. /\ UNCHANGED <<base, source, plan, userOps, tree, told, unsaid>>
              /\ \E m \in Memory : Becomes(a, m)
            BY ZenonT(60), <1>0, <1>2
               DEF CheckClean, ValidateRecycle, RefreshHead, RefreshDiff, ResetFails,
                ReportMerged, MergeTxnFails, Memory, Places, Typed
        <2> QED BY <2>1, BecomesTyped DEF Typed
    <1>3. ASSUME NEW a \in Merges, MergeTxn(a) PROVE Typed'
        <2>1. \E m \in Memory : Becomes(a, m)
            BY ZenonT(60), <1>0, <1>3 DEF MergeTxn, Memory, Places, Typed
        <2>2. base' \in Seq(Authors) /\ unsaid' \in SUBSET Trees
            BY <1>0, <1>3 DEF MergeTxn, Typed
        <2> QED BY <2>1, <2>2, <1>3, BecomesTyped DEF Typed, MergeTxn
    <1>4. ASSUME NEW a \in Merges, RefreshReset(a) \/ UndoReset(a) PROVE Typed'
        <2>1. /\ UNCHANGED <<base, source, plan, userOps, told>>
              /\ \E m \in Memory : Becomes(a, m)
            BY ZenonT(60), <1>0, <1>4 DEF RefreshReset, UndoReset, Memory, Places, Typed
        <2>2. tree' \in [Trees -> [at : Seq(Authors), edited : BOOLEAN]]
            <3>1. PICK w \in Trees : tree' = [tree EXCEPT ![w] = [at |-> base, edited |-> FALSE]]
                BY <1>4 DEF RefreshReset, UndoReset, Resets
            <3>2. [at |-> base, edited |-> FALSE] \in [at : Seq(Authors), edited : BOOLEAN]
                BY DEF Typed
            <3> QED BY <3>1, <3>2 DEF Typed
        <2>3. unsaid' \in SUBSET Trees
            BY <1>4 DEF RefreshReset, UndoReset, Typed
        <2> QED BY <2>1, <2>2, <2>3, BecomesTyped DEF Typed
    <1>5. ASSUME NEW a \in Merges, Rollback(a) PROVE Typed'
        <2>1. \E m \in Memory : Becomes(a, m)
            BY ZenonT(60), <1>0, <1>5 DEF Rollback, Memory, Places, UndoneTrees
        <2>2. base' \in Seq(Authors) /\ told' \in SUBSET Trees
            BY <1>0, <1>5 DEF Rollback, Memory, Typed
        <2> QED BY <2>1, <2>2, <1>5, BecomesTyped DEF Typed, Rollback
    <1>6. ASSUME NEW a \in Merges, RollbackFails(a) \/ UndoHead(a) \/ UndoFails(a)
                                   \/ ReportUnchanged(a) \/ Crash(a)
          PROVE  Typed'
        <2>1. /\ UNCHANGED <<base, source, plan, userOps, tree>>
              /\ \E m \in Memory : Becomes(a, m)
            BY ZenonT(60), <1>0, <1>6
               DEF RollbackFails, UndoHead, UndoFails, ReportUnchanged, Crash,
                Memory, Places, Typed
        <2>2. told' \in SUBSET Trees /\ unsaid' \in SUBSET Trees
            BY <1>0, <1>6 DEF RollbackFails, UndoHead, UndoFails, ReportUnchanged, Crash, Typed,
                Memory
        <2> QED BY <2>1, <2>2, BecomesTyped DEF Typed
    <1>7. ASSUME NEW a \in Merges, RecycleRecheck(a) \/ RecycleCapture(a) \/ RecycleRemove(a)
                                   \/ RecycleBranch(a) \/ RecycleFails(a)
          PROVE  Typed'
        <2>1. /\ UNCHANGED <<base, tree, plan, told, unsaid, userOps>>
              /\ \E m \in Memory : Becomes(a, m)
            BY ZenonT(60), <1>0, <1>7
               DEF RecycleRecheck, RecycleCapture, RecycleRemove, RecycleBranch,
                RecycleFails, Memory, Places, Typed
        <2>2. source' \in [Merges -> [commits : Nat, there : BOOLEAN, edited : BOOLEAN]]
            <3>1. CASE UNCHANGED source
                BY <3>1 DEF Typed
            <3>2. CASE source' = [source EXCEPT ![a].there = FALSE, ![a].edited = FALSE]
                BY <3>2, SourceFields
            <3>3. CASE source' = [source EXCEPT ![a].commits = 0]
                BY <3>3, SourceFields
            <3> QED BY <1>7, <3>1, <3>2, <3>3 DEF RecycleRecheck, RecycleCapture, RecycleRemove,
                    RecycleBranch, RecycleFails
        <2> QED BY <2>1, <2>2, BecomesTyped DEF Typed
    <1>8. ASSUME NEW w \in Trees, EditTree(w) \/ RestoreTree(w) \/ ResetTree(w) \/ CommitTree(w)
          PROVE  Typed'
        <2>1. base' \in Seq(Authors)
            <3>1. base \in Seq(Authors) /\ User \in Authors
                BY DEF Typed, Authors
            <3>2. Append(base, User) \in Seq(Authors)
                BY <3>1, RangeOfAppend
            <3> QED BY <1>8, <3>1, <3>2 DEF EditTree, RestoreTree, ResetTree, CommitTree
        <2>2. tree' \in [Trees -> [at : Seq(Authors), edited : BOOLEAN]]
            <3>1. CASE EditTree(w) \/ RestoreTree(w)
                <4>1. tree \in [Trees -> [at : Seq(Authors), edited : BOOLEAN]]
                    BY DEF Typed
                <4>2. PICK e \in BOOLEAN : tree' = [tree EXCEPT ![w].edited = e]
                    BY <3>1 DEF EditTree, RestoreTree
                <4> QED BY ONLY <4>1, <4>2
            <3>2. CASE ResetTree(w) \/ CommitTree(w)
                <4>1. \E s \in Seq(Authors) : tree' = [tree EXCEPT ![w] = [at |-> s, edited |-> FALSE]]
                    BY <2>1, <3>2 DEF ResetTree, CommitTree, Typed
                <4> QED BY <4>1 DEF Typed
            <3> QED BY <1>8, <3>1, <3>2
        <2>3. told' \in SUBSET Trees /\ unsaid' \in SUBSET Trees
            BY <1>8 DEF EditTree, RestoreTree, ResetTree, CommitTree, Typed
        <2>4. userOps' \in 0..MaxUser /\ UNCHANGED <<source, plan, merge>>
            BY <1>8, WorktreesAssumption DEF EditTree, RestoreTree, ResetTree, CommitTree, Typed
        <2> QED BY <2>1, <2>2, <2>3, <2>4 DEF Typed
    <1>9. ASSUME NEW a \in Merges, EditSource(a) \/ CommitSource(a) PROVE Typed'
        <2>1. source' \in [Merges -> [commits : Nat, there : BOOLEAN, edited : BOOLEAN]]
            <3>1. CASE EditSource(a)
                BY <3>1, SourceFields DEF EditSource
            <3>2. CASE CommitSource(a)
                BY <3>2, SourceFields DEF CommitSource
            <3> QED BY <1>9, <3>1, <3>2
        <2>2. /\ userOps' \in 0..MaxUser
              /\ UNCHANGED <<base, tree, plan, merge, told, unsaid>>
            BY <1>9, WorktreesAssumption DEF EditSource, CommitSource, Typed
        <2> QED BY <2>1, <2>2 DEF Typed
    <1>10. CASE UNCHANGED vars
        BY <1>10 DEF vars, Typed
    <1> QED BY <1>1, <1>2, <1>3, <1>4, <1>5, <1>6, <1>7, <1>8, <1>9, <1>10 DEF Next, MergeStep

----------------------------------------------------------------------------
(***************************************************************************)
(* What a step does to the memory of its merge.                            *)
(***************************************************************************)

\* Its memory after the step: what changes of it, and what does not.
Keeps(a) == /\ merge'[a].gate = merge[a].gate /\ merge'[a].left = merge[a].left
            /\ merge'[a].done = merge[a].done /\ merge'[a].tip = merge[a].tip
Ends(a, answer) == /\ merge'[a].pc = "done" /\ merge'[a].answer = answer
                   /\ Keeps(a) /\ merge'[a].dirty = merge[a].dirty
GoesOn(a, pc) == merge'[a].pc = pc /\ merge'[a].answer = merge[a].answer
Turns(a, pc) == GoesOn(a, pc) /\ Keeps(a) /\ merge'[a].dirty = merge[a].dirty
Leaves(a, w) == /\ merge'[a].left = merge[a].left \ {w} /\ merge'[a].gate = merge[a].gate
                /\ merge'[a].tip = merge[a].tip

\* The memory of a merge that ends, turns, or fails on a worktree.
LEMMA OwnEnds ==
    ASSUME Typed, NEW a \in Merges, NEW answer, Answers(a, answer)
    PROVE  Ends(a, answer)
    <1>1. merge'[a] = [merge[a] EXCEPT !.pc = "done", !.answer = answer]
        BY DEF Typed, Answers, Becomes
    <1>2. merge[a] \in Memory
        BY DEF Typed
    <1> QED BY <1>1, <1>2 DEF Ends, Keeps, Memory

LEMMA OwnTurns ==
    ASSUME Typed, NEW a \in Merges, NEW pc, Goes(a, pc)
    PROVE  Turns(a, pc)
    <1>1. merge'[a] = [merge[a] EXCEPT !.pc = pc]
        BY DEF Typed, Goes, Becomes
    <1>2. merge[a] \in Memory
        BY DEF Typed
    <1> QED BY <1>1, <1>2 DEF Turns, GoesOn, Keeps, Memory

LEMMA OwnFails ==
    ASSUME Typed, NEW a \in Merges, NEW w, RefreshFails(a, w)
    PROVE  Turns(a, "rollback")
    <1>1. merge'[a] = [merge[a] EXCEPT !.pc = "rollback", !.failed = {w}]
        BY DEF Typed, RefreshFails, Becomes
    <1>2. merge[a] \in Memory
        BY DEF Typed
    <1> QED BY <1>1, <1>2 DEF Turns, GoesOn, Keeps, Memory

\* The others' memory is untouched.
LEMMA OtherMerges ==
    ASSUME Typed, NEW a \in Merges, MergeStep(a) \/ Crash(a)
    PROVE  \A b \in Merges \ {a} : merge'[b] = merge[b]
    <1>1. \E m : Becomes(a, m)
        BY DEF MergeStep, MergeGate, CheckClean, ValidateRecycle, MergeTxn, MergeTxnFails,
            RefreshHead, RefreshDiff, RefreshReset, ResetFails, Rollback, RollbackFails, UndoHead,
            UndoReset,
            UndoFails, ReportUnchanged, ReportMerged, RecycleRecheck, RecycleCapture,
            RecycleRemove, RecycleBranch, RecycleFails, Crash, Answers, Goes, RefreshFails
    <1> QED BY <1>1 DEF Becomes, Typed

\* Every action, by what it does to its merge's memory.
LEMMA OwnStep ==
    ASSUME Typed, NEW a \in Merges
    PROVE
      /\ MergeGate(a) => /\ At(a, "gate") /\ GoesOn(a, "clean")
                         /\ merge'[a].gate = base /\ merge'[a].left = Trees
                         /\ merge'[a].tip = merge[a].tip
      /\ CheckClean(a) => /\ At(a, "clean")
                          /\ \/ Ends(a, "refused")
                             \/ GoesOn(a, "clean") /\ \E w \in Trees : Leaves(a, w) /\ ~WorktreeDirty(w)
      /\ ValidateRecycle(a) => /\ At(a, "clean") /\ merge[a].left = {}
                               /\ Ends(a, "refused") \/ Turns(a, "txn")
      /\ MergeTxn(a) => /\ At(a, "txn")
                        /\ base = merge[a].gate /\ base' = Result(a)
                        /\ merge'[a].gate = merge[a].gate /\ merge'[a].tip = merge[a].tip
                        /\ \/ GoesOn(a, "head") /\ merge'[a].left = Trees
                           \/ /\ Ends(a, "refused") /\ merge'[a].misled
                              /\ unsaid' = unsaid \cup Trees
      /\ MergeTxnFails(a) => At(a, "txn") /\ Ends(a, "refused")
      /\ RefreshHead(a) => At(a, "head") /\ (Turns(a, "diff") \/ Turns(a, "rollback"))
      /\ RefreshDiff(a) => /\ At(a, "diff")
                           /\ \/ Turns(a, "rollback")
                              \/ GoesOn(a, "reset") /\ Keeps(a) /\ ~merge'[a].dirty
      /\ RefreshReset(a) => /\ At(a, "reset") /\ GoesOn(a, "head")
                            /\ \E w \in Trees : /\ Leaves(a, w) /\ w \in merge[a].left
                                                 /\ Resets(a, w, "refresh")
                                                 /\ merge'[a].done = merge[a].done \cup {w}
      /\ ResetFails(a) => At(a, "reset") /\ Turns(a, "rollback")
      /\ Rollback(a) => /\ At(a, "rollback") /\ merge'[a].done = merge[a].done
                        /\ merge'[a].gate = merge[a].gate /\ merge'[a].tip = merge[a].tip
                        /\ \/ GoesOn(a, "undo") /\ merge'[a].left = merge[a].done
                           \/ Ends(a, "partial") /\ told' = told \cup Trees
      /\ RollbackFails(a) => At(a, "rollback") /\ Ends(a, "partial")
      /\ UndoHead(a) => /\ At(a, "undo")
                        /\ \/ /\ GoesOn(a, "undo_reset") /\ Keeps(a) /\ ~merge'[a].dirty
                              /\ UNCHANGED told
                           \/ /\ GoesOn(a, "undo") /\ merge'[a].done = merge[a].done
                              /\ \E w \in Trees : Leaves(a, w) /\ told' = told \cup {w}
      /\ UndoReset(a) => /\ At(a, "undo_reset") /\ GoesOn(a, "undo")
                         /\ merge'[a].done = merge[a].done
                         /\ \E w \in Trees :
                               /\ Leaves(a, w) /\ Resets(a, w, "undo")
                               /\ unsaid' = IF base = merge[a].gate THEN unsaid
                                               ELSE unsaid \cup {w}
      /\ UndoFails(a) => /\ At(a, "undo_reset") /\ GoesOn(a, "undo")
                         /\ merge'[a].done = merge[a].done
                         /\ \E w \in Trees : Leaves(a, w) /\ told' = told \cup {w}
      /\ ReportUnchanged(a) => At(a, "undo") /\ merge[a].left = {} /\ Ends(a, "unchanged")
      /\ ReportMerged(a) => /\ At(a, "head") /\ merge[a].left = {}
                            /\ Turns(a, "recheck") \/ Ends(a, "ok")
      /\ RecycleRecheck(a) =>
            /\ At(a, "recheck")
            /\ \/ Ends(a, "ok")
               \/ /\ GoesOn(a, "capture") /\ Keeps(a)
                  /\ ~plan[a].force => ~merge'[a].dirty
      /\ RecycleCapture(a) => /\ At(a, "capture") /\ GoesOn(a, "remove")
                              /\ merge'[a].gate = merge[a].gate
                              /\ merge'[a].dirty = merge[a].dirty
                              /\ merge'[a].tip = source[a].commits
      /\ RecycleRemove(a) => At(a, "remove") /\ Turns(a, "branch")
      /\ RecycleBranch(a) => At(a, "branch") /\ Ends(a, "ok")
      /\ RecycleFails(a) => (At(a, "remove") \/ At(a, "branch")) /\ Ends(a, "ok")
      /\ Crash(a) => ~At(a, "done") /\ Ends(a, "killed")
    <1> DEFINE next(m) == merge'[a] = m
    <1>1. merge[a] \in Memory /\ \A m : Becomes(a, m) => next(m)
        BY DEF Typed, Becomes
    <1> USE OwnEnds, OwnTurns, OwnFails DEF Visits
    <1>2. MergeGate(a) => /\ At(a, "gate") /\ GoesOn(a, "clean")
                          /\ merge'[a].gate = base /\ merge'[a].left = Trees
                          /\ merge'[a].tip = merge[a].tip
        BY ZenonT(60), <1>1 DEF MergeGate, GoesOn, Memory
    <1>3. CheckClean(a) => /\ At(a, "clean")
                           /\ \/ Ends(a, "refused")
                              \/ GoesOn(a, "clean") /\ \E w \in Trees : Leaves(a, w) /\ ~WorktreeDirty(w)
        <2> SUFFICES ASSUME CheckClean(a)
                     PROVE  \/ Ends(a, "refused")
                            \/ GoesOn(a, "clean") /\ \E w \in Trees : Leaves(a, w) /\ ~WorktreeDirty(w)
            BY DEF CheckClean
        <2>1. PICK w \in Trees : IF WorktreeDirty(w) THEN Answers(a, "refused")
                                 ELSE Becomes(a, [merge[a] EXCEPT !.left = merge[a].left \ {w}])
            BY DEF CheckClean
        <2>2. CASE ~WorktreeDirty(w)
            <3>1. merge'[a] = [merge[a] EXCEPT !.left = merge[a].left \ {w}] /\ At(a, "clean")
                BY <1>1, <2>1, <2>2 DEF CheckClean
            <3>2. GoesOn(a, "clean") /\ Leaves(a, w)
                BY <1>1, <3>1 DEF GoesOn, Leaves, Memory, At
            <3> QED BY <2>2, <3>2
        <2> QED BY <2>1, <2>2
    <1>4. ValidateRecycle(a) => /\ At(a, "clean") /\ merge[a].left = {}
                                /\ Ends(a, "refused") \/ Turns(a, "txn")
        BY DEF ValidateRecycle
    <1>5. MergeTxn(a) => /\ At(a, "txn")
                         /\ base = merge[a].gate /\ base' = Result(a)
                         /\ merge'[a].gate = merge[a].gate /\ merge'[a].tip = merge[a].tip
                         /\ \/ GoesOn(a, "head") /\ merge'[a].left = Trees
                            \/ /\ Ends(a, "refused") /\ merge'[a].misled
                               /\ unsaid' = unsaid \cup Trees
        <2> SUFFICES ASSUME MergeTxn(a)
                     PROVE  /\ merge'[a].gate = merge[a].gate /\ merge'[a].tip = merge[a].tip
                            /\ \/ GoesOn(a, "head") /\ merge'[a].left = Trees
                               \/ /\ Ends(a, "refused") /\ merge'[a].misled
                                  /\ unsaid' = unsaid \cup Trees
            BY DEF MergeTxn, TxnHolds
        <2>1. CASE Becomes(a, [merge[a] EXCEPT !.pc = "head", !.left = Trees])
            <3>1. merge'[a] = [merge[a] EXCEPT !.pc = "head", !.left = Trees]
                BY <1>1, <2>1
            <3> QED BY <1>1, <3>1 DEF GoesOn, Memory
        <2>2. CASE /\ Becomes(a, [merge[a] EXCEPT !.pc = "done", !.answer = "refused",
                                                  !.misled = TRUE])
                   /\ unsaid' = unsaid \cup Trees
            <3>1. merge'[a] = [merge[a] EXCEPT !.pc = "done", !.answer = "refused", !.misled = TRUE]
                BY <1>1, <2>2
            <3> QED BY <1>1, <2>2, <3>1 DEF Ends, Keeps, Memory
        <2> QED BY <2>1, <2>2 DEF MergeTxn
    <1>6. RefreshHead(a) => At(a, "head") /\ (Turns(a, "diff") \/ Turns(a, "rollback"))
        BY DEF RefreshHead
    <1>7. RefreshDiff(a) => /\ At(a, "diff")
                            /\ \/ Turns(a, "rollback")
                               \/ GoesOn(a, "reset") /\ Keeps(a) /\ ~merge'[a].dirty
        <2>1. \A w \in Trees : ~RefreshDirty(a, w) => tree[w].edited = FALSE
            BY DEF RefreshDirty, Typed
        <2> SUFFICES ASSUME RefreshDiff(a)
                     PROVE  \/ Turns(a, "rollback")
                            \/ GoesOn(a, "reset") /\ Keeps(a) /\ ~merge'[a].dirty
            BY DEF RefreshDiff
        <2>2. PICK w \in Trees :
                  IF RefreshDirty(a, w) THEN RefreshFails(a, w)
                  ELSE Becomes(a, [merge[a] EXCEPT !.pc = "reset", !.dirty = tree[w].edited])
            BY DEF RefreshDiff
        <2>3. CASE ~RefreshDirty(a, w)
            <3>1. merge'[a] = [merge[a] EXCEPT !.pc = "reset", !.dirty = FALSE]
                BY <1>1, <2>1, <2>2, <2>3
            <3> QED BY <1>1, <3>1 DEF GoesOn, Keeps, Memory
        <2> QED BY <2>2, <2>3
    <1>8. RefreshReset(a) => /\ At(a, "reset") /\ GoesOn(a, "head")
                             /\ \E w \in Trees : /\ Leaves(a, w) /\ w \in merge[a].left
                                                  /\ Resets(a, w, "refresh")
                                                  /\ merge'[a].done = merge[a].done \cup {w}
        <2> SUFFICES ASSUME RefreshReset(a)
                     PROVE  /\ GoesOn(a, "head")
                            /\ \E w \in Trees : /\ Leaves(a, w) /\ w \in merge[a].left
                                                 /\ Resets(a, w, "refresh")
                                                 /\ merge'[a].done = merge[a].done \cup {w}
            BY DEF RefreshReset
        <2>1. PICK w \in Trees :
                  /\ Visits(a, w) /\ Resets(a, w, "refresh")
                  /\ Becomes(a, [merge[a] EXCEPT !.pc = "head", !.left = merge[a].left \ {w},
                                                 !.done = merge[a].done \cup {w}])
            BY DEF RefreshReset
        <2>2. merge'[a] = [merge[a] EXCEPT !.pc = "head", !.left = merge[a].left \ {w},
                                           !.done = merge[a].done \cup {w}]
            BY <1>1, <2>1
        <2>3. GoesOn(a, "head") /\ Leaves(a, w) /\ merge'[a].done = merge[a].done \cup {w}
            BY <1>1, <2>2 DEF GoesOn, Leaves, Memory
        <2> QED BY <2>1, <2>3
    <1>9. ResetFails(a) => At(a, "reset") /\ Turns(a, "rollback")
        BY DEF ResetFails
    <1>10. Rollback(a) => /\ At(a, "rollback") /\ merge'[a].done = merge[a].done
                          /\ merge'[a].gate = merge[a].gate /\ merge'[a].tip = merge[a].tip
                          /\ \/ GoesOn(a, "undo") /\ merge'[a].left = merge[a].done
                             \/ Ends(a, "partial") /\ told' = told \cup Trees
        <2> SUFFICES ASSUME Rollback(a)
                     PROVE  /\ merge'[a].done = merge[a].done
                            /\ merge'[a].gate = merge[a].gate /\ merge'[a].tip = merge[a].tip
                            /\ \/ GoesOn(a, "undo") /\ merge'[a].left = merge[a].done
                               \/ Ends(a, "partial") /\ told' = told \cup Trees
            BY DEF Rollback
        <2>1. CASE Becomes(a, [merge[a] EXCEPT !.pc = "undo", !.left = UndoneTrees(a)])
            <3>1. merge'[a] = [merge[a] EXCEPT !.pc = "undo", !.left = merge[a].done]
                BY <1>1, <2>1 DEF UndoneTrees
            <3> QED BY <1>1, <3>1 DEF GoesOn, Memory
        <2>2. CASE Answers(a, "partial") /\ told' = told \cup Trees
            BY <2>2 DEF Ends, Keeps
        <2> QED BY <2>1, <2>2 DEF Rollback
    <1>11. RollbackFails(a) => At(a, "rollback") /\ Ends(a, "partial")
        BY DEF RollbackFails
    <1>12. UndoHead(a) => /\ At(a, "undo")
                          /\ \/ /\ GoesOn(a, "undo_reset") /\ Keeps(a) /\ ~merge'[a].dirty
                                /\ UNCHANGED told
                             \/ /\ GoesOn(a, "undo") /\ merge'[a].done = merge[a].done
                                /\ \E w \in Trees : Leaves(a, w) /\ told' = told \cup {w}
        <2> SUFFICES ASSUME UndoHead(a)
                     PROVE  \/ /\ GoesOn(a, "undo_reset") /\ Keeps(a) /\ ~merge'[a].dirty
                               /\ UNCHANGED told
                            \/ /\ GoesOn(a, "undo") /\ merge'[a].done = merge[a].done
                               /\ \E w \in Trees : Leaves(a, w) /\ told' = told \cup {w}
            BY DEF UndoHead
        <2>1. PICK w \in Trees :
                  \/ /\ Becomes(a, [merge[a] EXCEPT !.pc = "undo_reset", !.dirty = FALSE])
                     /\ UNCHANGED told
                  \/ /\ Becomes(a, [merge[a] EXCEPT !.left = merge[a].left \ {w}])
                     /\ told' = told \cup {w}
            BY DEF UndoHead
        <2>2. CASE Becomes(a, [merge[a] EXCEPT !.pc = "undo_reset", !.dirty = FALSE])
                   /\ UNCHANGED told
            <3>1. merge'[a] = [merge[a] EXCEPT !.pc = "undo_reset", !.dirty = FALSE]
                BY <1>1, <2>2
            <3> QED BY <1>1, <2>2, <3>1 DEF GoesOn, Keeps, Memory
        <2>3. CASE Becomes(a, [merge[a] EXCEPT !.left = merge[a].left \ {w}])
                   /\ told' = told \cup {w}
            <3>1. merge'[a] = [merge[a] EXCEPT !.left = merge[a].left \ {w}] /\ At(a, "undo")
                BY <1>1, <2>3 DEF UndoHead
            <3>2. GoesOn(a, "undo") /\ merge'[a].done = merge[a].done /\ Leaves(a, w)
                BY <1>1, <3>1 DEF GoesOn, Leaves, Memory, At
            <3> QED BY <2>3, <3>2
        <2> QED BY <2>1, <2>2, <2>3
    <1>13. UndoReset(a) => /\ At(a, "undo_reset") /\ GoesOn(a, "undo")
                           /\ merge'[a].done = merge[a].done
                           /\ \E w \in Trees :
                                 /\ Leaves(a, w) /\ Resets(a, w, "undo")
                                 /\ unsaid' = IF base = merge[a].gate THEN unsaid
                                                 ELSE unsaid \cup {w}
        <2> SUFFICES ASSUME UndoReset(a)
                     PROVE  /\ GoesOn(a, "undo") /\ merge'[a].done = merge[a].done
                            /\ \E w \in Trees :
                                  /\ Leaves(a, w) /\ Resets(a, w, "undo")
                                  /\ unsaid' = IF base = merge[a].gate THEN unsaid
                                                  ELSE unsaid \cup {w}
            BY DEF UndoReset
        <2>1. PICK w \in Trees :
                  /\ Resets(a, w, "undo")
                  /\ Becomes(a, [merge[a] EXCEPT !.pc = "undo", !.left = merge[a].left \ {w}])
                  /\ unsaid' = IF base = merge[a].gate THEN unsaid ELSE unsaid \cup {w}
            BY DEF UndoReset
        <2>2. merge'[a] = [merge[a] EXCEPT !.pc = "undo", !.left = merge[a].left \ {w}]
            BY <1>1, <2>1
        <2>3. GoesOn(a, "undo") /\ merge'[a].done = merge[a].done /\ Leaves(a, w)
            BY <1>1, <2>2 DEF GoesOn, Leaves, Memory
        <2> QED BY <2>1, <2>3
    <1>14. UndoFails(a) => /\ At(a, "undo_reset") /\ GoesOn(a, "undo")
                           /\ merge'[a].done = merge[a].done
                           /\ \E w \in Trees : Leaves(a, w) /\ told' = told \cup {w}
        <2> SUFFICES ASSUME UndoFails(a)
                     PROVE  /\ GoesOn(a, "undo") /\ merge'[a].done = merge[a].done
                            /\ \E w \in Trees : Leaves(a, w) /\ told' = told \cup {w}
            BY DEF UndoFails
        <2>1. PICK w \in Trees :
                  /\ told' = told \cup {w}
                  /\ Becomes(a, [merge[a] EXCEPT !.pc = "undo", !.left = merge[a].left \ {w}])
            BY DEF UndoFails
        <2>2. merge'[a] = [merge[a] EXCEPT !.pc = "undo", !.left = merge[a].left \ {w}]
            BY <1>1, <2>1
        <2>3. GoesOn(a, "undo") /\ merge'[a].done = merge[a].done /\ Leaves(a, w)
            BY <1>1, <2>2 DEF GoesOn, Leaves, Memory
        <2> QED BY <2>1, <2>3
    <1>15. ReportUnchanged(a) => At(a, "undo") /\ merge[a].left = {} /\ Ends(a, "unchanged")
        BY DEF ReportUnchanged
    <1>16. ReportMerged(a) => /\ At(a, "head") /\ merge[a].left = {}
                              /\ Turns(a, "recheck") \/ Ends(a, "ok")
        BY DEF ReportMerged
    <1>17. RecycleRecheck(a) =>
             /\ At(a, "recheck")
             /\ \/ Ends(a, "ok")
                \/ /\ GoesOn(a, "capture") /\ Keeps(a)
                   /\ ~plan[a].force => ~merge'[a].dirty
        <2>1. source[a].edited \in BOOLEAN /\ plan[a].force \in BOOLEAN
            BY DEF Typed
        <2> QED BY <1>1, <2>1 DEF RecycleRecheck, GoesOn, Keeps, Memory
    <1>18. RecycleCapture(a) => /\ At(a, "capture") /\ GoesOn(a, "remove")
                                /\ merge'[a].gate = merge[a].gate
                                /\ merge'[a].dirty = merge[a].dirty
                                /\ merge'[a].tip = source[a].commits
        BY ZenonT(60), <1>1 DEF RecycleCapture, GoesOn, Memory
    <1>19. /\ MergeTxnFails(a) => At(a, "txn") /\ Ends(a, "refused")
           /\ RecycleRemove(a) => At(a, "remove") /\ Turns(a, "branch")
           /\ RecycleBranch(a) => At(a, "branch") /\ Ends(a, "ok")
           /\ RecycleFails(a) => (At(a, "remove") \/ At(a, "branch")) /\ Ends(a, "ok")
           /\ Crash(a) => ~At(a, "done") /\ Ends(a, "killed")
        BY DEF MergeTxnFails, RecycleRemove, RecycleBranch, RecycleFails, Crash
    <1> QED
        BY ONLY <1>2, <1>3, <1>4, <1>5, <1>6, <1>7, <1>8, <1>9, <1>10, <1>11, <1>12, <1>13,
            <1>14, <1>15, <1>16, <1>17, <1>18, <1>19

----------------------------------------------------------------------------
(***************************************************************************)
(* What a merge remembers, and the work it has seen.                       *)
(***************************************************************************)

LEMMA InitRemembered == Init => (\A a \in Merges : Remembered(a)) /\ WorkSeenIsKept
    BY WorktreesAssumption DEF Init, Remembered, WorkSeenIsKept, Fresh, At, SourceHead

LEMMA RememberedStep ==
    ASSUME Typed, Typed', \A a \in Merges : Remembered(a), WorkSeenIsKept, [Next]_vars
    PROVE  (\A a \in Merges : Remembered(a)') /\ WorkSeenIsKept'
    <1>0. /\ userOps \in Nat
          /\ \A a \in Merges : /\ merge[a] \in Memory
                               /\ source[a].commits \in Nat /\ merge[a].tip \in Nat
        BY WorktreesAssumption DEF Typed, Memory
    <1>1. ASSUME NEW a \in Merges, MergeStep(a) \/ Crash(a)
          PROVE  (\A b \in Merges : Remembered(b)') /\ WorkSeenIsKept'
        <2>1. /\ UNCHANGED <<plan, userOps>>
              /\ \A b \in Merges \ {a} : source'[b] = source[b]
              /\ source'[a].commits = source[a].commits \/ source'[a].commits = 0
            <3>1. CASE RecycleRemove(a) \/ RecycleBranch(a)
                <4>1. \/ source' = [source EXCEPT ![a].there = FALSE, ![a].edited = FALSE]
                      \/ source' = [source EXCEPT ![a].commits = 0]
                      \/ source' = source
                    BY <3>1 DEF RecycleRemove, RecycleBranch
                <4>2. UNCHANGED <<plan, userOps>>
                    BY <3>1 DEF RecycleRemove, RecycleBranch, Kept
                <4> QED BY <4>1, <4>2 DEF Typed
            <3>2. CASE UNCHANGED <<source, plan, userOps>>
                BY <3>2
            <3> QED BY <1>1, <3>1, <3>2 DEF MergeStep, MergeGate, CheckClean, ValidateRecycle,
                    MergeTxn, MergeTxnFails, RefreshHead, RefreshDiff, RefreshReset, ResetFails,
                    Rollback,
                    RollbackFails, UndoHead, UndoReset, UndoFails, ReportUnchanged, ReportMerged,
                    RecycleRecheck, RecycleCapture, RecycleFails, Crash, Branches, Kept
        <2>2. \A b \in Merges \ {a} : Remembered(b)'
            <3>1. \A b \in Merges \ {a} : merge'[b] = merge[b]
                BY <1>1, OtherMerges
            <3> QED BY <2>1, <3>1 DEF Remembered, At
        <2>3. Remembered(a)'
            <3>1. merge'[a].tip = merge[a].tip \/ (merge'[a].tip = source[a].commits /\ UNCHANGED source)
                BY <1>1, OwnStep DEF MergeStep, Ends, Turns, Keeps, Leaves, RecycleCapture
            <3>2. /\ source'[a].commits <= SourceHead + userOps'
                  /\ merge'[a].tip <= source'[a].commits \/ source'[a].commits = 0
                BY <1>0, <2>1, <3>1 DEF Remembered, SourceHead
            <3>3. /\ At(a, "undo")' \/ At(a, "undo_reset")' => merge'[a].left \subseteq merge'[a].done
                  /\ At(a, "txn")' => merge'[a].left = {}
                BY <1>1, OwnStep DEF MergeStep, Ends, Turns, GoesOn, Keeps, Leaves, At, Remembered
            <3>4. (merge'[a].answer # "none") = At(a, "done")'
                BY <1>1, OwnStep DEF MergeStep, Ends, Turns, GoesOn, At, Remembered
            <3>5. /\ At(a, "reset")' \/ At(a, "undo_reset")' => ~merge'[a].dirty
                  /\ (At(a, "capture")' \/ At(a, "remove")') /\ ~plan[a].force => ~merge'[a].dirty
                BY <1>1, OwnStep DEF MergeStep, Ends, Turns, GoesOn, At, Remembered
            <3> QED BY <2>1, <3>2, <3>3, <3>4, <3>5 DEF Remembered, At
        <2>4. WorkSeenIsKept'
            <3>1. CASE UNCHANGED lost
                BY <3>1 DEF WorkSeenIsKept
            <3>2. CASE Rollback(a)
                <4>1. Last(base) = a
                    <5>1. merge[a].gate \in Seq(Authors) /\ a \in Authors
                        BY <1>0 DEF Memory, Authors
                    <5> QED BY <5>1, <3>2, RangeOfAppend DEF Rollback, RollbackHolds, Result
                <4> QED BY <4>1, <3>2, WorktreesAssumption DEF Rollback, WorkSeenIsKept
            <3>3. CASE RefreshReset(a) \/ UndoReset(a)
                <4>1. merge[a].dirty = FALSE
                    BY <3>3, <1>0 DEF RefreshReset, UndoReset, Remembered, At, Memory
                <4>2. \A l \in lost' : l \in lost \/ \E how : l = [what |-> "edit", by |-> how, seen |-> FALSE]
                    BY <4>1, <3>3 DEF RefreshReset, UndoReset, Resets
                <4> QED BY <4>2 DEF WorkSeenIsKept
            <3>4. CASE RecycleRemove(a)
                BY <3>4 DEF RecycleRemove, WorkSeenIsKept, Remembered
            <3>5. CASE RecycleBranch(a)
                <4>1. CASE MayDelete(a)
                    <5>1. (merge[a].tip > SourceHead) = FALSE
                        BY <4>1, <1>0 DEF MayDelete, SourceHead
                    <5> DEFINE new == [what |-> "commit", by |-> "recycle",
                                       seen |-> merge[a].tip > SourceHead]
                    <5>2. lost' \subseteq lost \cup {new}
                        BY <3>5, <4>1 DEF RecycleBranch
                    <5>3. ~new.seen
                        BY <5>1
                    <5> HIDE DEF new
                    <5> QED BY <5>2, <5>3 DEF WorkSeenIsKept
                <4>2. CASE ~MayDelete(a)
                    BY <3>5, <4>2 DEF RecycleBranch, WorkSeenIsKept
                <4> QED BY <4>1, <4>2
            <3> QED
                BY <1>1, <3>1, <3>2, <3>3, <3>4, <3>5 DEF MergeStep, MergeGate, CheckClean,
                    ValidateRecycle, MergeTxn, MergeTxnFails, RefreshHead, RefreshDiff, ResetFails,
                    RollbackFails, UndoHead, UndoFails, ReportUnchanged, ReportMerged,
                    RecycleRecheck, RecycleCapture, RecycleFails, Crash
        <2> QED BY <2>2, <2>3, <2>4
    <1>2. ASSUME NEW w \in Trees, EditTree(w) \/ RestoreTree(w) \/ ResetTree(w) \/ CommitTree(w)
          PROVE  (\A b \in Merges : Remembered(b)') /\ WorkSeenIsKept'
        <2>1. UNCHANGED <<source, plan, merge, lost>> /\ userOps' = userOps + 1
            BY <1>2 DEF EditTree, RestoreTree, ResetTree, CommitTree, UserOp
        <2> QED BY <2>1, <1>0 DEF Remembered, WorkSeenIsKept, SourceHead, At
    <1>3. ASSUME NEW a \in Merges, EditSource(a) \/ CommitSource(a)
          PROVE  (\A b \in Merges : Remembered(b)') /\ WorkSeenIsKept'
        <2>1. UNCHANGED <<plan, merge, lost>> /\ userOps' = userOps + 1
            BY <1>3 DEF EditSource, CommitSource, UserOp
        <2>2. \A b \in Merges : \/ source'[b].commits = source[b].commits
                                \/ /\ source'[b].commits = source[b].commits + 1
                                   /\ source[b].commits > 0
            <3>1. CASE EditSource(a)
                BY <3>1 DEF EditSource, Typed
            <3>2. CASE CommitSource(a)
                BY <3>2 DEF CommitSource, Typed
            <3> QED BY <1>3, <3>1, <3>2
        <2> QED BY <2>1, <2>2, <1>0 DEF Remembered, WorkSeenIsKept, SourceHead, At
    <1>4. CASE UNCHANGED vars
        BY <1>4 DEF vars, Remembered, WorkSeenIsKept, At
    <1> QED BY <1>1, <1>2, <1>3, <1>4 DEF Next

----------------------------------------------------------------------------
(***************************************************************************)
(* Which merges the branch holds.                                          *)
(***************************************************************************)

LEMMA InitLanding == Init => \A a \in Merges : Landing(a)
    BY RangeOfEmpty DEF Init, Landing, NeverLanded, Before, Moved, Undoing, Recycling, Fresh, At,
        SourceHead

\* The phases of a merge other than the one whose step it is, or of all when nobody's memory
\* changes.
LEMMA PhasesElsewhere ==
    ASSUME NEW b \in Merges, merge'[b] = merge[b]
    PROVE  /\ NeverLanded(b)' = NeverLanded(b) /\ Moved(b)' = Moved(b)
           /\ Undoing(b)' = Undoing(b) /\ Recycling(b)' = Recycling(b)
           /\ At(b, "branch")' = At(b, "branch") /\ At(b, "done")' = At(b, "done")
    BY DEF NeverLanded, Before, Moved, Undoing, Recycling, At

\* A merge's step that moves neither the branch nor a source.
LEMMA LandingKept ==
    ASSUME Typed, Typed', \A b \in Merges : Landing(b), base' = base, source' = source,
           \A w \in Trees : tree'[w].at \in {tree[w].at, base},
           \A b \in Merges : merge'[b].gate = merge[b].gate \/ (merge'[b].gate = base /\ At(b, "gate")),
           NEW a \in Merges,
           \A b \in Merges \ {a} : merge'[b] = merge[b],
           NeverLanded(a)' => NeverLanded(a),
           Moved(a)' \/ Recycling(a)' \/ merge'[a].answer = "ok"
               => Moved(a) \/ Recycling(a) \/ merge[a].answer = "ok",
           Undoing(a)' \/ merge'[a].answer = "unchanged"
               => Undoing(a) \/ merge[a].answer = "unchanged",
           At(a, "branch") \/ At(a, "done") => At(a, "branch")' \/ At(a, "done")',
           At(a, "branch")' => At(a, "branch")
    PROVE  \A b \in Merges : Landing(b)'
    <1> TAKE b \in Merges
    <1>1. /\ NeverLanded(b)' => NeverLanded(b)
          /\ Moved(b)' \/ Recycling(b)' \/ merge'[b].answer = "ok"
               => Moved(b) \/ Recycling(b) \/ merge[b].answer = "ok"
          /\ Undoing(b)' \/ merge'[b].answer = "unchanged"
               => Undoing(b) \/ merge[b].answer = "unchanged"
          /\ At(b, "branch") \/ At(b, "done") => At(b, "branch")' \/ At(b, "done")'
          /\ At(b, "branch")' => At(b, "branch")
        <2>1. CASE b = a
            BY <2>1
        <2>2. CASE b # a
            BY <2>2, PhasesElsewhere
        <2> QED BY <2>1, <2>2
    <1>2. NeverLanded(b) => /\ b \notin Range(base')
                            /\ \A c \in Merges : b \notin Range(merge'[c].gate)
                            /\ \A w \in Trees : b \notin Range(tree'[w].at)
        BY DEF Landing
    <1>3. b \notin Range(merge'[b].gate)
        BY DEF Landing, NeverLanded, Before, At
    <1> HIDE DEF NeverLanded, Moved, Recycling, Undoing
    <1> QED BY <1>1, <1>2, <1>3 DEF Landing

LEMMA LandingStep ==
    ASSUME Typed, Typed', \A a \in Merges : Remembered(a), \A a \in Merges : Landing(a),
           [Next]_vars
    PROVE  \A a \in Merges : Landing(a)'
    <1>0. \A a \in Merges : /\ merge[a] \in Memory /\ merge[a].gate \in Seq(Authors)
                            /\ a \in Authors /\ base \in Seq(Authors) /\ User \in Authors
        BY DEF Typed, Memory, Authors
    <1>1. ASSUME NEW a \in Merges,
                 \/ MergeGate(a) \/ CheckClean(a) \/ ValidateRecycle(a) \/ RefreshHead(a)
                 \/ RefreshDiff(a) \/ RefreshReset(a) \/ ResetFails(a) \/ RollbackFails(a)
                 \/ UndoHead(a) \/ UndoReset(a) \/ UndoFails(a) \/ ReportUnchanged(a)
                 \/ ReportMerged(a) \/ Crash(a) \/ MergeTxnFails(a)
          PROVE  \A b \in Merges : Landing(b)'
        <2>1. base' = base /\ source' = source
            BY <1>1 DEF MergeGate, CheckClean, ValidateRecycle, RefreshHead, RefreshDiff,
                RefreshReset, ResetFails, RollbackFails, UndoHead, UndoReset, UndoFails,
                ReportUnchanged, ReportMerged, Crash, MergeTxnFails, Branches
        <2>2. \A w \in Trees : tree'[w].at \in {tree[w].at, base}
            <3>1. CASE RefreshReset(a) \/ UndoReset(a)
                <4>1. PICK w \in Trees : tree' = [tree EXCEPT ![w] = [at |-> base, edited |-> FALSE]]
                    BY <3>1 DEF RefreshReset, UndoReset, Resets
                <4> QED BY <4>1 DEF Typed
            <3>2. CASE UNCHANGED tree
                BY <3>2
            <3> QED
                BY <1>1, <3>1, <3>2 DEF MergeGate, CheckClean, ValidateRecycle, RefreshHead,
                    RefreshDiff, ResetFails, RollbackFails, UndoHead, UndoFails, ReportUnchanged,
                    ReportMerged, Crash, MergeTxnFails
        <2>3. \A b \in Merges \ {a} : merge'[b] = merge[b]
            BY <1>1, OtherMerges DEF MergeStep
        <2>4. merge'[a].gate = merge[a].gate \/ (merge'[a].gate = base /\ At(a, "gate"))
            BY <1>1, OwnStep DEF Ends, Turns, Keeps, Leaves
        <2>5. (merge[a].answer # "none") = At(a, "done")
            BY DEF Remembered
        <2>7. NeverLanded(a)' => NeverLanded(a)
            BY <1>1, <2>5, OwnStep DEF NeverLanded, Before, Ends, Turns, GoesOn, At
        <2>8. Moved(a)' \/ Recycling(a)' \/ merge'[a].answer = "ok"
                 => Moved(a) \/ Recycling(a) \/ merge[a].answer = "ok"
            BY <1>1, <2>5, OwnStep DEF Moved, Recycling, Ends, Turns, GoesOn, At
        <2>9. Undoing(a)' \/ merge'[a].answer = "unchanged"
                 => Undoing(a) \/ merge[a].answer = "unchanged"
            BY <1>1, <2>5, OwnStep DEF Undoing, Ends, Turns, GoesOn, At
        <2>10. /\ At(a, "branch") \/ At(a, "done") => At(a, "branch")' \/ At(a, "done")'
               /\ At(a, "branch")' => At(a, "branch")
            BY <1>1, OwnStep DEF Ends, Turns, GoesOn, At
        <2> QED BY <2>1, <2>2, <2>3, <2>4, <2>7, <2>8, <2>9, <2>10, LandingKept
    <1>2. ASSUME NEW a \in Merges, MergeTxn(a)
          PROVE  \A b \in Merges : Landing(b)'
        <2>1. /\ At(a, "txn") /\ base' = Append(base, a)
              /\ merge'[a].gate = merge[a].gate /\ merge[a].answer = "none"
              /\ GoesOn(a, "head") \/ (Ends(a, "refused") /\ merge'[a].misled)
              /\ UNCHANGED <<tree, source>>
            BY <1>2, OwnStep DEF MergeTxn, Result, Remembered, At
        <2>2. Range(base') = Range(base) \cup {a}
            BY <2>1, <1>0, RangeOfAppend
        <2>3. \A b \in Merges \ {a} : merge'[b] = merge[b]
            BY <1>2, OtherMerges DEF MergeStep
        <2>4. ASSUME NEW b \in Merges \ {a} PROVE Landing(b)'
            BY <2>1, <2>2, <2>3, PhasesElsewhere DEF Landing, Before, Undoing, NeverLanded, At
        <2>5. Landing(a)'
            BY <2>1, <2>2 DEF Landing, NeverLanded, Before, Moved, Undoing, Recycling, GoesOn, Ends,
                At
        <2> QED BY <2>4, <2>5
    <1>3. ASSUME NEW a \in Merges, Rollback(a)
          PROVE  \A b \in Merges : Landing(b)'
        <2>1. /\ At(a, "rollback") /\ base = Append(merge[a].gate, a) /\ base' = merge[a].gate
              /\ GoesOn(a, "undo") \/ Ends(a, "partial")
              /\ merge'[a].gate = merge[a].gate /\ merge[a].answer = "none"
              /\ UNCHANGED <<tree, source>>
            BY <1>3, OwnStep DEF Rollback, RollbackHolds, Result, Remembered, At
        <2>2. Range(base) = Range(base') \cup {a}
            BY <2>1, <1>0, RangeOfAppend
        <2>3. \A b \in Merges \ {a} : merge'[b] = merge[b]
            BY <1>3, OtherMerges DEF MergeStep
        <2>4. ASSUME NEW b \in Merges \ {a} PROVE Landing(b)'
            BY <2>1, <2>2, <2>3, PhasesElsewhere DEF Landing
        <2>5. Landing(a)'
            BY <2>1, <2>2 DEF Landing, NeverLanded, Before, Moved, Undoing, Recycling, GoesOn, Ends,
                At
        <2> QED BY <2>4, <2>5
    <1>4. ASSUME NEW a \in Merges, RecycleRecheck(a) \/ RecycleCapture(a) \/ RecycleRemove(a)
                                   \/ RecycleBranch(a) \/ RecycleFails(a)
          PROVE  \A b \in Merges : Landing(b)'
        <2>1. UNCHANGED <<base, tree>>
            BY <1>4 DEF RecycleRecheck, RecycleCapture, RecycleRemove, RecycleBranch,
                RecycleFails, Kept
        <2>2. \A b \in Merges \ {a} : merge'[b] = merge[b]
            BY <1>4, OtherMerges DEF MergeStep
        <2>3. \A b \in Merges \ {a} : source'[b] = source[b]
            BY <1>4 DEF RecycleRecheck, RecycleCapture, RecycleRemove, RecycleBranch,
                RecycleFails, Typed
        <2>4. merge'[a].gate = merge[a].gate
            BY <1>4, OwnStep DEF Ends, Turns, Keeps
        <2>5. ASSUME NEW b \in Merges \ {a} PROVE Landing(b)'
            BY <2>1, <2>2, <2>3, <2>4, PhasesElsewhere DEF Landing
        <2>6. Landing(a)'
            <3>1. Recycling(a) /\ merge[a].answer = "none"
                BY <1>4, OwnStep DEF Recycling, Remembered, At
            <3>2. a \in Range(base') /\ a \notin Range(merge'[a].gate)
                BY <3>1, <2>1, <2>4 DEF Landing
            <3>3. ~NeverLanded(a)' /\ ~Undoing(a)' /\ merge'[a].answer # "unchanged"
                BY <1>4, <3>1, OwnStep DEF NeverLanded, Before, Undoing, Ends, Turns, GoesOn, At
            <3>4. ~source'[a].there => At(a, "branch")' \/ At(a, "done")'
                BY <1>4, OwnStep DEF Landing, RecycleRecheck, RecycleCapture, Ends, Turns, GoesOn,
                    At
            <3>5. source'[a].commits = 0 \/ At(a, "branch")' => ~source'[a].there
                <4>1. CASE RecycleRemove(a)
                    BY <4>1 DEF RecycleRemove, Typed
                <4>2. CASE RecycleBranch(a)
                    BY <4>2 DEF RecycleBranch, Landing, Typed
                <4>3. CASE RecycleRecheck(a) \/ RecycleCapture(a) \/ RecycleFails(a)
                    BY ZenonT(60), <4>3, OwnStep
                       DEF RecycleRecheck, RecycleCapture, RecycleFails, Landing,
                        Ends, GoesOn, At
                <4> QED BY <1>4, <4>1, <4>2, <4>3
            <3> HIDE DEF NeverLanded, Undoing
            <3> QED BY <3>2, <3>3, <3>4, <3>5 DEF Landing
        <2> QED BY <2>5, <2>6
    <1>5. ASSUME NEW w \in Trees, EditTree(w) \/ RestoreTree(w) \/ ResetTree(w) \/ CommitTree(w)
          PROVE  \A b \in Merges : Landing(b)'
        <2>1. UNCHANGED <<merge, source>>
            BY <1>5 DEF EditTree, RestoreTree, ResetTree, CommitTree, UserOp
        <2>2. base' = base \/ base' = Append(base, User)
            BY <1>5 DEF EditTree, RestoreTree, ResetTree, CommitTree
        <2>3. \A b \in Merges : b \in Range(base') <=> b \in Range(base)
            <3>1. CASE base' = base
                BY <3>1
            <3>2. CASE base' = Append(base, User)
                <4>1. base \in Seq(Authors) /\ User \in Authors
                    BY DEF Typed, Authors
                <4>2. Range(base') = Range(base) \cup {User}
                    BY <3>2, <4>1, RangeOfAppend
                <4> QED BY <4>2, WorktreesAssumption
            <3> QED BY <2>2, <3>1, <3>2
        <2>4. \A x \in Trees : tree'[x].at \in {tree[x].at, base'}
            <3>1. CASE EditTree(w) \/ RestoreTree(w)
                <4>1. PICK e \in BOOLEAN : tree' = [tree EXCEPT ![w].edited = e]
                    BY <3>1 DEF EditTree, RestoreTree
                <4> QED BY <4>1 DEF Typed
            <3>2. CASE ResetTree(w) \/ CommitTree(w)
                <4>1. tree' = [tree EXCEPT ![w] = [at |-> base', edited |-> FALSE]]
                    BY <3>2 DEF ResetTree, CommitTree
                <4> QED BY <4>1 DEF Typed
            <3> QED BY <1>5, <3>1, <3>2
        <2> QED BY <2>1, <2>3, <2>4, PhasesElsewhere DEF Landing
    <1>6. ASSUME NEW a \in Merges, EditSource(a) \/ CommitSource(a)
          PROVE  \A b \in Merges : Landing(b)'
        <2>1. UNCHANGED <<base, tree, merge>>
            BY <1>6 DEF EditSource, CommitSource, UserOp
        <2>2. \A b \in Merges : /\ source'[b].there = source[b].there
                                /\ source'[b].commits = 0 => source[b].commits = 0
            <3>1. CASE EditSource(a)
                BY <3>1 DEF EditSource, Typed
            <3>2. CASE CommitSource(a)
                BY <3>2 DEF CommitSource, Typed
            <3> QED BY <1>6, <3>1, <3>2
        <2> QED BY <2>1, <2>2, PhasesElsewhere DEF Landing
    <1>7. CASE UNCHANGED vars
        BY <1>7, PhasesElsewhere DEF vars, Landing
    <1> QED BY <1>1, <1>2, <1>3, <1>4, <1>5, <1>6, <1>7 DEF Next, MergeStep

----------------------------------------------------------------------------
(***************************************************************************)
(* Who has yet to visit a worktree.                                        *)
(***************************************************************************)

LEMMA InitUnvisited == Init => \A a \in Merges : Unvisited(a)
    BY DEF Init, Unvisited, Moved, Fresh

\* A step that changes no files, and after which nobody has visited less or found more clean.
LEMMA UnvisitedKept ==
    ASSUME \A a \in Merges : Unvisited(a),
           \A w \in Trees : tree'[w].at = tree[w].at,
           Free' \subseteq Free,
           \A a \in Merges : Moved(a)' => Moved(a) /\ Keeps(a),
           \A a \in Merges : \A w \in Trees :
               Checked(a, w)' => Checked(a, w) /\ merge'[a].gate = merge[a].gate
    PROVE  \A a \in Merges : Unvisited(a)'
    <1> SUFFICES ASSUME NEW a \in Merges, Moved(a)' PROVE Unvisited(a)'
        BY DEF Unvisited
    <1>1. Moved(a) /\ Keeps(a) /\ Unvisited(a)
        OBVIOUS
    <1>2. merge'[a].left \cup merge'[a].done = Trees
        BY <1>1 DEF Unvisited, Keeps
    <1>3. ASSUME NEW w \in Free' \cap merge'[a].left
          PROVE  /\ a \notin Range(tree'[w].at)
                 /\ \A b \in Merges : a \in Range(merge'[b].gate) => ~Checked(b, w)'
        <2>1. w \in Free /\ w \in merge[a].left /\ w \in Trees
            BY <1>1, <1>3 DEF Keeps, Free
        <2> QED BY <1>1, <2>1 DEF Unvisited
    <1>4. ASSUME NEW b \in Merges \ {a}, Moved(b)'
          PROVE  a \in Range(merge'[b].gate) \/ b \in Range(merge'[a].gate)
        BY <1>1, <1>4 DEF Unvisited, Keeps
    <1> HIDE DEF Moved, Checked, Free
    <1> QED BY <1>2, <1>3, <1>4 DEF Unvisited

\* The worktrees the invariant speaks of become fewer, except when a person resets one.
LEMMA FreeShrinks ==
    ASSUME NEW a \in Merges, MergeStep(a) \/ Crash(a)
    PROVE  Free' \subseteq Free
    <1>1. told \subseteq told' /\ unsaid \subseteq unsaid'
        BY DEF MergeStep, MergeGate, CheckClean, ValidateRecycle, MergeTxn, MergeTxnFails,
            RefreshHead, RefreshDiff, RefreshReset, ResetFails, Rollback, RollbackFails, UndoHead,
            UndoReset,
            UndoFails, ReportUnchanged, ReportMerged, RecycleRecheck, RecycleCapture,
            RecycleRemove, RecycleBranch, RecycleFails, Crash, Kept
    <1> QED BY <1>1 DEF Free

LEMMA UnvisitedStep ==
    ASSUME Typed, Typed', \A a \in Merges : Remembered(a), \A a \in Merges : Landing(a),
           \A a \in Merges : Unvisited(a), [Next]_vars
    PROVE  \A a \in Merges : Unvisited(a)'
    <1>0. \A a \in Merges : /\ merge[a] \in Memory /\ merge[a].gate \in Seq(Authors)
                            /\ a \in Authors /\ base \in Seq(Authors)
        BY DEF Typed, Memory, Authors
    <1>1. ASSUME NEW a \in Merges,
                 \/ MergeGate(a) \/ ValidateRecycle(a) \/ RefreshHead(a)
                 \/ RefreshDiff(a) \/ ResetFails(a) \/ Rollback(a) \/ RollbackFails(a)
                 \/ UndoHead(a) \/ UndoFails(a) \/ ReportUnchanged(a) \/ ReportMerged(a)
                 \/ RecycleRecheck(a) \/ RecycleCapture(a) \/ RecycleRemove(a)
                 \/ RecycleBranch(a) \/ RecycleFails(a) \/ Crash(a)
                 \/ (MergeTxn(a) /\ Ends(a, "refused")) \/ (CheckClean(a) /\ Ends(a, "refused"))
                 \/ MergeTxnFails(a)
          PROVE  \A b \in Merges : Unvisited(b)'
        <2>1. UNCHANGED tree
            BY <1>1 DEF MergeGate, CheckClean, ValidateRecycle, MergeTxn, MergeTxnFails,
                RefreshHead, RefreshDiff, ResetFails, Rollback, RollbackFails, UndoHead, UndoFails,
                ReportUnchanged, ReportMerged, RecycleRecheck, RecycleCapture, RecycleRemove,
                RecycleBranch, RecycleFails, Crash, Kept
        <2>2. MergeStep(a) \/ Crash(a)
            BY <1>1 DEF MergeStep
        <2>3. Moved(a)' => Moved(a) /\ Keeps(a)
            BY ZenonT(60), <1>1, OwnStep DEF Moved, Ends, Turns, GoesOn, Keeps, At
        <2>4. ASSUME NEW w \in Trees
              PROVE  Checked(a, w)' => Checked(a, w) /\ merge'[a].gate = merge[a].gate
            BY ZenonT(60), <1>1, OwnStep
               DEF Checked, Moved, Undoing, Ends, Turns, GoesOn, Keeps, Leaves, At
        <2>5. \A b \in Merges \ {a} :
                 /\ Moved(b)' => Moved(b) /\ Keeps(b)
                 /\ \A w \in Trees : Checked(b, w)' => Checked(b, w) /\ merge'[b].gate = merge[b].gate
            BY <2>2, OtherMerges DEF Moved, Undoing, Checked, Keeps, At
        <2> QED BY <2>1, <2>2, <2>3, <2>4, <2>5, FreeShrinks, UnvisitedKept
    <1>2. ASSUME NEW c \in Merges, CheckClean(c), ~Ends(c, "refused")
          PROVE  \A a \in Merges : Unvisited(a)'
        <2>1. PICK w0 \in Trees : /\ At(c, "clean") /\ GoesOn(c, "clean") /\ Leaves(c, w0)
                                  /\ ~WorktreeDirty(w0)
            BY <1>2, OwnStep
        <2>2. tree' = tree /\ Free' = Free
            BY <1>2 DEF CheckClean, Free
        <2>3. \A b \in Merges \ {c} : merge'[b] = merge[b]
            BY <1>2, OtherMerges DEF MergeStep
        <2>4. ASSUME NEW a \in Merges, Moved(a)' PROVE Unvisited(a)'
            <3>1. a # c /\ merge'[a] = merge[a] /\ Moved(a) /\ Unvisited(a) /\ a \in Range(base)
                BY <2>1, <2>3, <2>4 DEF Moved, GoesOn, Landing
            <3>2. ASSUME NEW w \in Free \cap merge[a].left, NEW b \in Merges,
                         a \in Range(merge'[b].gate)
                  PROVE  ~Checked(b, w)'
                <4>1. CASE b # c
                    BY <4>1, <2>3, <3>1, <3>2 DEF Unvisited, Checked, Moved, Undoing, At
                <4>2. CASE b = c
                    <5>1. w # w0
                        <6>1. tree[w0].at = base
                            BY <2>1 DEF WorktreeDirty
                        <6> QED BY <6>1, <3>1, <3>2 DEF Unvisited
                    <5>2. merge'[c].gate = merge[c].gate /\ merge'[c].left = merge[c].left \ {w0}
                        BY <2>1 DEF Leaves
                    <5>3. w \in merge[c].left
                        BY <3>1, <3>2, <4>2, <5>2, <2>1 DEF Unvisited, Checked
                    <5> QED BY <2>1, <4>2, <5>1, <5>2, <5>3 DEF Checked, Moved, Undoing, GoesOn, At
                <4> QED BY <4>1, <4>2
            <3>3. ASSUME NEW b \in Merges \ {a}, Moved(b)'
                  PROVE  a \in Range(merge'[b].gate) \/ b \in Range(merge'[a].gate)
                <4>1. b # c /\ merge'[b] = merge[b] /\ Moved(b)
                    BY <2>1, <2>3, <3>3 DEF Moved, GoesOn
                <4> QED BY <3>1, <4>1 DEF Unvisited
            <3> HIDE DEF Moved, Checked, Free
            <3> QED BY <2>2, <3>1, <3>2, <3>3 DEF Unvisited
        <2> QED BY <2>4 DEF Unvisited
    <1>3. ASSUME NEW c \in Merges, MergeTxn(c), ~Ends(c, "refused")
          PROVE  \A a \in Merges : Unvisited(a)'
        <2>1. /\ At(c, "txn") /\ base = merge[c].gate /\ GoesOn(c, "head")
              /\ merge'[c].left = Trees /\ merge'[c].gate = merge[c].gate
            BY <1>3, OwnStep
        <2>2. tree' = tree /\ Free' \subseteq Free
            BY <1>3, FreeShrinks DEF MergeTxn, MergeStep
        <2>3. \A b \in Merges \ {c} : merge'[b] = merge[b]
            BY <1>3, OtherMerges DEF MergeStep
        <2>4. \A b \in Merges : merge'[b].gate = merge[b].gate
            BY <2>1, <2>3
        <2>5. Unvisited(c)'
            <3>1. NeverLanded(c) /\ Landing(c)
                BY <2>1 DEF NeverLanded, Before, At
            <3>2. merge'[c].done \subseteq Trees
                BY DEF Typed, Memory
            <3>3. \A b \in Merges \ {c} : Moved(b)' => b \in Range(merge'[c].gate)
                BY <2>1, <2>3 DEF Moved, Landing
            <3>4. /\ \A w \in Trees : c \notin Range(tree[w].at)
                  /\ \A b \in Merges : c \notin Range(merge'[b].gate)
                BY <3>1, <2>4 DEF Landing
            <3> HIDE DEF Moved, Checked
            <3> QED BY <2>1, <2>2, <3>2, <3>3, <3>4 DEF Unvisited, Free
        <2>6. ASSUME NEW a \in Merges \ {c}, Moved(a)' PROVE Unvisited(a)'
            <3>1. merge'[a] = merge[a] /\ Moved(a) /\ Unvisited(a) /\ a \in Range(base)
                BY <2>3, <2>6 DEF Moved, Landing
            <3>2. \A b \in Merges : \A w \in Trees : Checked(b, w)' => Checked(b, w)
                BY <2>1, <2>3 DEF Checked, Moved, Undoing, At
            <3>3. ASSUME NEW b \in Merges \ {a}, Moved(b)'
                  PROVE  a \in Range(merge'[b].gate) \/ b \in Range(merge'[a].gate)
                <4>1. CASE b = c
                    BY <4>1, <2>1, <3>1
                <4>2. CASE b # c
                    BY <4>2, <2>3, <3>1, <3>3 DEF Moved, Unvisited
                <4> QED BY <4>1, <4>2
            <3>4. ASSUME NEW w \in Free \cap merge[a].left
                  PROVE  /\ a \notin Range(tree[w].at)
                         /\ \A b \in Merges : a \in Range(merge'[b].gate) => ~Checked(b, w)'
                BY <2>4, <3>1, <3>2, <3>4 DEF Unvisited, Free
            <3>5. merge'[a].left \cup merge'[a].done = Trees
                BY <3>1 DEF Unvisited
            <3> HIDE DEF Moved, Checked, Free
            <3> QED BY <2>2, <3>1, <3>3, <3>4, <3>5 DEF Unvisited
        <2> QED BY <2>5, <2>6 DEF Unvisited
    <1>4. ASSUME NEW c \in Merges, RefreshReset(c) \/ UndoReset(c)
          PROVE  \A a \in Merges : Unvisited(a)'
        <2>1. PICK w0 \in Trees :
                  /\ Leaves(c, w0)
                  /\ tree' = [tree EXCEPT ![w0] = [at |-> base, edited |-> FALSE]]
                  /\ \/ /\ At(c, "reset") /\ GoesOn(c, "head") /\ w0 \in merge[c].left
                        /\ merge'[c].done = merge[c].done \cup {w0} /\ Free' = Free
                     \/ /\ At(c, "undo_reset") /\ GoesOn(c, "undo")
                        /\ base = merge[c].gate \/ w0 \notin Free'
            BY <1>4, OwnStep DEF Resets, Free, RefreshReset, UndoReset
        <2>2. \A w \in Trees \ {w0} : tree'[w] = tree[w]
            BY <2>1 DEF Typed
        <2>3. \A b \in Merges \ {c} : merge'[b] = merge[b]
            BY <1>4, OtherMerges DEF MergeStep
        <2>4. \A b \in Merges : merge'[b].gate = merge[b].gate
            BY <2>1, <2>3 DEF Leaves
        <2>5. Free' \subseteq Free
            BY <1>4, FreeShrinks DEF MergeStep
        <2>6. \A b \in Merges : \A w \in Trees : Checked(b, w)' => Checked(b, w)
            BY <2>1, <2>3 DEF Checked, Moved, Undoing, GoesOn, At
        <2>7. \A a \in Merges \ {c} : Moved(a) => w0 \notin Free' \cap merge[a].left
            <3> SUFFICES ASSUME NEW a \in Merges \ {c}, Moved(a), w0 \in Free',
                                w0 \in merge[a].left
                         PROVE  FALSE
                OBVIOUS
            <3>1. w0 \in Free \cap merge[a].left /\ Unvisited(a) /\ Unvisited(c)
                  /\ a \in Range(base)
                BY <2>5 DEF Landing
            <3>2. CASE At(c, "reset") /\ w0 \in merge[c].left
                <4>1. Moved(c) /\ Checked(c, w0) /\ Checked(a, w0)
                    BY <3>2 DEF Moved, Checked, At
                <4>2. a \in Range(merge[c].gate) \/ c \in Range(merge[a].gate)
                    BY <3>1, <4>1 DEF Unvisited
                <4> QED BY <3>1, <3>2, <4>1, <4>2 DEF Unvisited
            <3>3. CASE At(c, "undo_reset") /\ base = merge[c].gate
                <4>1. Checked(c, w0)
                    BY <3>3 DEF Undoing, Checked, At
                <4> QED BY <3>1, <3>3, <4>1 DEF Unvisited
            <3> QED BY <2>1, <3>2, <3>3
        <2>8. ASSUME NEW a \in Merges, Moved(a)' PROVE Unvisited(a)'
            <3>1. Moved(a) /\ Unvisited(a)
                BY <2>1, <2>3, <2>8 DEF Moved, GoesOn, At
            <3>2. /\ merge'[a].left \cup merge'[a].done = Trees
                  /\ merge'[a].left \subseteq merge[a].left
                  /\ w0 \notin Free' \cap merge'[a].left
                <4>1. CASE a = c
                    BY <4>1, <2>1, <2>8, <3>1 DEF Leaves, Unvisited, Moved, GoesOn
                <4>2. CASE a # c
                    BY <4>2, <2>3, <2>7, <3>1 DEF Unvisited
                <4> QED BY <4>1, <4>2
            <3>3. ASSUME NEW w \in Free' \cap merge'[a].left
                  PROVE  /\ a \notin Range(tree'[w].at)
                         /\ \A b \in Merges : a \in Range(merge'[b].gate) => ~Checked(b, w)'
                <4>1. w # w0 /\ w \in Free \cap merge[a].left /\ w \in Trees
                    BY <2>5, <3>2, <3>3 DEF Free
                <4> QED BY <2>2, <2>4, <2>6, <3>1, <4>1 DEF Unvisited
            <3>4. ASSUME NEW b \in Merges \ {a}, Moved(b)'
                  PROVE  a \in Range(merge'[b].gate) \/ b \in Range(merge'[a].gate)
                <4>1. Moved(b)
                    BY <2>1, <2>3, <3>4 DEF Moved, GoesOn, At
                <4> QED BY <2>4, <3>1, <4>1 DEF Unvisited
            <3> HIDE DEF Moved, Checked, Free
            <3> QED BY <3>2, <3>3, <3>4 DEF Unvisited
        <2> QED BY <2>8 DEF Unvisited
    <1>5. ASSUME NEW w \in Trees, EditTree(w) \/ RestoreTree(w)
          PROVE  \A a \in Merges : Unvisited(a)'
        <2>1. PICK e \in BOOLEAN : tree' = [tree EXCEPT ![w].edited = e]
            BY <1>5 DEF EditTree, RestoreTree
        <2>2. \A x \in Trees : tree'[x].at = tree[x].at
            BY <2>1 DEF Typed
        <2>3. UNCHANGED <<merge, told, unsaid>>
            BY <1>5 DEF EditTree, RestoreTree, UserOp
        <2> QED BY <2>2, <2>3, UnvisitedKept DEF Free, Moved, Undoing, Checked, Keeps, At
    <1>6. ASSUME NEW w \in Trees, ResetTree(w)
          PROVE  \A a \in Merges : Unvisited(a)'
        BY <1>6 DEF ResetTree, UserOp, InFlight, Unvisited, Moved
    <1>7. ASSUME NEW w0 \in Trees, CommitTree(w0)
          PROVE  \A a \in Merges : Unvisited(a)'
        <2>1. /\ UNCHANGED merge /\ Free' \subseteq Free \cap {w0} /\ tree[w0].at = base
            BY <1>7 DEF CommitTree, UserOp, Free
        <2>2. ASSUME NEW a \in Merges, Moved(a)' PROVE Unvisited(a)'
            <3>1. Moved(a) /\ Unvisited(a) /\ a \in Range(base)
                BY <2>1, <2>2 DEF Moved, Landing
            <3>2. Free' \cap merge[a].left = {}
                BY <2>1, <3>1 DEF Unvisited
            <3>3. \A b \in Merges : Moved(b)' = Moved(b)
                BY <2>1 DEF Moved
            <3> HIDE DEF Moved, Checked, Free
            <3> QED BY <2>1, <3>1, <3>2, <3>3 DEF Unvisited
        <2> QED BY <2>2 DEF Unvisited
    <1>8. ASSUME NEW a \in Merges, EditSource(a) \/ CommitSource(a)
          PROVE  \A b \in Merges : Unvisited(b)'
        <2>1. UNCHANGED <<tree, merge, told, unsaid>>
            BY <1>8 DEF EditSource, CommitSource, UserOp
        <2> QED BY <2>1, UnvisitedKept DEF Free, Moved, Undoing, Checked, Keeps, At
    <1>9. CASE UNCHANGED vars
        <2>1. UNCHANGED <<tree, merge, told, unsaid>>
            BY <1>9 DEF vars
        <2> QED BY <2>1, UnvisitedKept DEF Free, Moved, Undoing, Checked, Keeps, At
    <1> QED BY <1>1, <1>2, <1>3, <1>4, <1>5, <1>6, <1>7, <1>8, <1>9 DEF Next, MergeStep

----------------------------------------------------------------------------
(***************************************************************************)
(* Who brings a worktree to its base.                                      *)
(***************************************************************************)

LEMMA InitFollowed == Init => \A w \in Free : Followed(w)
    BY DEF Init, Free, Followed

\* A step that moves no files and not the branch, and after which whoever had to bring a worktree
\* to the base still has to.
LEMMA FollowedKept ==
    ASSUME \A w \in Free : Followed(w),
           base' = base, \A w \in Trees : tree'[w].at = tree[w].at,
           Free' \subseteq Free,
           NEW a \in Merges, \A b \in Merges \ {a} : merge'[b] = merge[b],
           \A w \in Free' : WillUndo(a, w) => WillUndo(a, w)',
           \A w \in Free' : WillRefresh(a, w) => WillRefresh(a, w)'
    PROVE  \A w \in Free' : Followed(w)'
    <1> SUFFICES ASSUME NEW w \in Free' PROVE Followed(w)'
        OBVIOUS
    <1>1. w \in Trees /\ tree'[w].at = tree[w].at /\ Followed(w)
        BY DEF Free
    <1>2. \A b \in Merges : WillUndo(b, w) => WillUndo(b, w)'
        BY DEF WillUndo, Undoing
    <1>3. \A b \in Merges : WillRefresh(b, w) => WillRefresh(b, w)'
        BY <1>1 DEF WillRefresh, Moved, Result
    <1> HIDE DEF WillUndo, WillRefresh
    <1> QED BY <1>1, <1>2, <1>3 DEF Followed

LEMMA FollowedStep ==
    ASSUME Typed, Typed', \A a \in Merges : Remembered(a), \A a \in Merges : Landing(a),
           \A a \in Merges : Unvisited(a), \A w \in Free : Followed(w), [Next]_vars
    PROVE  \A w \in Free' : Followed(w)'
    <1>0. \A a \in Merges : /\ merge[a] \in Memory /\ merge[a].gate \in Seq(Authors)
                            /\ a \in Authors /\ base \in Seq(Authors)
        BY DEF Typed, Memory, Authors
    <1>1. ASSUME NEW a \in Merges,
                 \/ MergeGate(a) \/ CheckClean(a) \/ ValidateRecycle(a) \/ RefreshHead(a)
                 \/ RefreshDiff(a) \/ ResetFails(a) \/ RollbackFails(a)
                 \/ UndoHead(a) \/ UndoFails(a) \/ ReportUnchanged(a) \/ ReportMerged(a)
                 \/ RecycleRecheck(a) \/ RecycleCapture(a) \/ RecycleRemove(a)
                 \/ RecycleBranch(a) \/ RecycleFails(a) \/ Crash(a)
                 \/ MergeTxnFails(a)
          PROVE  \A w \in Free' : Followed(w)'
        <2>1. UNCHANGED tree /\ base' = base
            BY <1>1 DEF MergeGate, CheckClean, ValidateRecycle, MergeTxnFails, RefreshHead, RefreshDiff, ResetFails, RollbackFails, UndoHead,
                UndoFails, ReportUnchanged, ReportMerged, RecycleRecheck, RecycleCapture,
                RecycleRemove, RecycleBranch, RecycleFails, Crash, Kept, Branches
        <2>2. (MergeStep(a) \/ Crash(a)) /\ Free' \subseteq Free
            BY <1>1, FreeShrinks DEF MergeStep
        <2>3. \A b \in Merges \ {a} : merge'[b] = merge[b]
            BY <2>2, OtherMerges
        <2>4. ASSUME NEW w \in Free', WillUndo(a, w) PROVE WillUndo(a, w)'
            <3>1. CASE Crash(a)
                BY <2>4, <3>1 DEF Crash, InFlight, WillUndo, Undoing, Free, At
            <3>2. CASE ~Crash(a)
                BY <1>1, <2>4, <3>2, OwnStep DEF WillUndo, Undoing, Ends, Turns, GoesOn, Keeps,
                    Leaves, Free, At
            <3> QED BY <3>1, <3>2
        <2>5. ASSUME NEW w \in Free', WillRefresh(a, w) PROVE WillRefresh(a, w)'
            <3>1. CASE Crash(a) \/ RollbackFails(a)
                BY <2>5, <3>1 DEF Crash, RollbackFails, InFlight, WillRefresh, Moved, Free, At
            <3>2. CASE ~Crash(a) /\ ~RollbackFails(a)
                <4>1. w \in Trees
                    BY DEF Free
                <4>2. Moved(a)' /\ Keeps(a)
                    BY <1>1, <2>5, <3>2, OwnStep DEF WillRefresh, Moved, Ends, Turns, GoesOn, At
                <4> QED BY <2>1, <2>5, <4>1, <4>2 DEF WillRefresh, Result, Keeps
            <3> QED BY <3>1, <3>2
        <2> QED BY <2>1, <2>2, <2>3, <2>4, <2>5, FollowedKept
    <1>2. ASSUME NEW c \in Merges, MergeTxn(c), ~Ends(c, "refused")
          PROVE  \A w \in Free' : Followed(w)'
        <2>1. /\ At(c, "txn") /\ base = merge[c].gate /\ base' = Result(c) /\ GoesOn(c, "head")
              /\ merge'[c].left = Trees /\ merge'[c].gate = merge[c].gate
            BY <1>2, OwnStep
        <2>2. tree' = tree /\ Free' \subseteq Free
            BY <1>2, FreeShrinks DEF MergeTxn, MergeStep
        <2>3. \A b \in Merges \ {c} : merge'[b] = merge[b]
            BY <1>2, OtherMerges DEF MergeStep
        <2>4. ASSUME NEW w \in Free PROVE Followed(w)'
            <3>1. CASE tree[w].at = base
                <4>1. WillRefresh(c, w)'
                    BY <2>1, <2>2, <3>1 DEF WillRefresh, Moved, GoesOn, Result, Free
                <4> QED BY <4>1 DEF Followed
            <3>2. ASSUME NEW a \in Merges, WillUndo(a, w) PROVE Followed(w)'
                <4>1. a # c
                    BY <2>1, <3>2 DEF WillUndo, Undoing, At
                <4>2. WillUndo(a, w)'
                    BY <2>3, <3>2, <4>1 DEF WillUndo, Undoing
                <4> QED BY <4>2 DEF Followed
            <3>3. \A a \in Merges : ~WillRefresh(a, w)
                <4> SUFFICES ASSUME NEW a \in Merges, WillRefresh(a, w) PROVE FALSE
                    OBVIOUS
                <4>1. Moved(a) /\ Unvisited(a) /\ w \in Free \cap merge[a].left
                    BY DEF WillRefresh
                <4>2. a \in Range(merge[c].gate)
                    BY <2>1, <4>1 DEF Landing
                <4>3. Checked(c, w)
                    BY <2>1 DEF Checked
                <4> QED BY <4>1, <4>2, <4>3 DEF Unvisited
            <3> QED BY <3>1, <3>2, <3>3 DEF Followed
        <2> QED BY <2>2, <2>4
    <1>3. ASSUME NEW c \in Merges, RefreshReset(c) \/ UndoReset(c)
          PROVE  \A w \in Free' : Followed(w)'
        <2>1. PICK w0 \in Trees :
                  /\ Leaves(c, w0)
                  /\ tree' = [tree EXCEPT ![w0] = [at |-> base, edited |-> FALSE]]
                  /\ \/ At(c, "reset") /\ GoesOn(c, "head")
                     \/ At(c, "undo_reset") /\ GoesOn(c, "undo")
            BY <1>3, OwnStep DEF Resets
        <2>2. base' = base /\ Free' \subseteq Free
            BY <1>3, FreeShrinks DEF MergeStep, RefreshReset, UndoReset, Branches
        <2>3. \A b \in Merges \ {c} : merge'[b] = merge[b]
            BY <1>3, OtherMerges DEF MergeStep
        <2>4. ASSUME NEW w \in Free' PROVE Followed(w)'
            <3>1. w \in Trees /\ Followed(w)
                BY <2>2 DEF Free
            <3>2. CASE w = w0
                BY <2>1, <2>2, <3>1, <3>2 DEF Typed, Followed
            <3>3. CASE w # w0
                <4>1. tree'[w] = tree[w]
                    BY <2>1, <3>1, <3>3 DEF Typed
                <4>2. \A a \in Merges : WillUndo(a, w) => WillUndo(a, w)'
                    BY <2>1, <2>3, <3>3 DEF WillUndo, Undoing, GoesOn, Leaves, At
                <4>3. \A a \in Merges : WillRefresh(a, w) => WillRefresh(a, w)'
                    BY <2>1, <2>2, <2>3, <3>3, <4>1 DEF WillRefresh, Moved, Result, GoesOn, Leaves,
                        At
                <4> HIDE DEF WillUndo, WillRefresh
                <4> QED BY <2>2, <3>1, <4>1, <4>2, <4>3 DEF Followed
            <3> QED BY <3>2, <3>3
        <2> QED BY <2>4
    <1>4. ASSUME NEW c \in Merges, Rollback(c), GoesOn(c, "undo")
          PROVE  \A w \in Free' : Followed(w)'
        <2>1. /\ At(c, "rollback") /\ base = Result(c) /\ base' = merge[c].gate
              /\ GoesOn(c, "undo") /\ merge'[c].left = merge[c].done
              /\ UNCHANGED tree /\ Free' \subseteq Free
            BY <1>4, OwnStep, FreeShrinks DEF Rollback, RollbackHolds, MergeStep, Ends, GoesOn
        <2>2. Moved(c) /\ Unvisited(c) /\ c \in Range(base)
            BY <2>1 DEF Moved, Landing, At
        <2>3. \A b \in Merges \ {c} : merge'[b] = merge[b]
            BY <1>4, OtherMerges DEF MergeStep
        <2>4. ASSUME NEW w \in Free PROVE Followed(w)'
            <3>1. CASE tree[w].at = base
                <4>1. w \in merge[c].done
                    BY <2>2, <3>1 DEF Unvisited, Free
                <4>2. WillUndo(c, w)'
                    BY <2>1, <4>1 DEF WillUndo, Undoing, GoesOn
                <4> QED BY <4>2 DEF Followed
            <3>2. ASSUME NEW a \in Merges, WillUndo(a, w) PROVE Followed(w)'
                <4>1. a # c
                    BY <2>1, <3>2 DEF WillUndo, Undoing, At
                <4>2. WillUndo(a, w)'
                    BY <2>3, <3>2, <4>1 DEF WillUndo, Undoing
                <4> QED BY <4>2 DEF Followed
            <3>3. ASSUME NEW a \in Merges, WillRefresh(a, w) PROVE Followed(w)'
                <4>1. Append(merge[a].gate, a) = Append(merge[c].gate, c)
                    BY <2>1, <3>3 DEF WillRefresh, Result
                <4>2. merge[a].gate = merge[c].gate
                    BY <4>1, <1>0, AppendInjective
                <4>3. tree'[w].at = base'
                    BY <2>1, <3>3, <4>2 DEF WillRefresh
                <4> QED BY <4>3 DEF Followed
            <3> QED BY <3>1, <3>2, <3>3 DEF Followed
        <2> QED BY <2>1, <2>4
    <1>5. ASSUME NEW w \in Trees, EditTree(w) \/ RestoreTree(w)
          PROVE  \A x \in Free' : Followed(x)'
        <2>1. PICK e \in BOOLEAN : tree' = [tree EXCEPT ![w].edited = e]
            BY <1>5 DEF EditTree, RestoreTree
        <2>2. \A x \in Trees : tree'[x].at = tree[x].at
            BY <2>1 DEF Typed
        <2>3. UNCHANGED <<base, merge, told, unsaid>>
            BY <1>5 DEF EditTree, RestoreTree, UserOp
        <2> QED BY <2>2, <2>3 DEF Free, Followed, WillUndo, WillRefresh, Undoing, Moved, Result
    <1>6. ASSUME NEW w \in Trees, ResetTree(w)
          PROVE  \A x \in Free' : Followed(x)'
        <2>1. /\ UNCHANGED <<base, merge>> /\ \A a \in Merges : ~InFlight(a)
              /\ Free' \subseteq Free \cup {w}
              /\ tree' = [tree EXCEPT ![w] = [at |-> base, edited |-> FALSE]]
            BY <1>6 DEF ResetTree, UserOp, Free
        <2>2. ASSUME NEW x \in Free PROVE tree[x].at = base
            BY <2>1 DEF Followed, WillUndo, WillRefresh, Undoing, Moved, InFlight
        <2>3. \A x \in Free' : tree'[x].at = base
            BY <2>1, <2>2 DEF Free, Typed
        <2> QED BY <2>1, <2>3 DEF Followed
    <1>7. ASSUME NEW w \in Trees, CommitTree(w)
          PROVE  \A x \in Free' : Followed(x)'
        <2>1. Free' \subseteq {w} /\ tree' = [tree EXCEPT ![w] = [at |-> base', edited |-> FALSE]]
            BY <1>7 DEF CommitTree, Free
        <2> QED BY <2>1 DEF Followed, Typed
    <1>8. CASE (\E a \in Merges : EditSource(a) \/ CommitSource(a)) \/ UNCHANGED vars
        <2>1. UNCHANGED <<base, tree, merge, told, unsaid>>
            BY <1>8 DEF EditSource, CommitSource, UserOp, vars
        <2> QED BY <2>1 DEF Free, Followed, WillUndo, WillRefresh, Undoing, Moved, Result
    <1>9. ASSUME NEW c \in Merges,
                 (MergeTxn(c) /\ Ends(c, "refused")) \/ (Rollback(c) /\ ~GoesOn(c, "undo"))
          PROVE  \A w \in Free' : Followed(w)'
        <2>1. unsaid' = unsaid \cup Trees \/ told' = told \cup Trees
            BY <1>9, OwnStep DEF GoesOn, Ends, At
        <2> QED BY <2>1 DEF Free
    <1> QED BY <1>1, <1>2, <1>3, <1>4, <1>5, <1>6, <1>7, <1>8, <1>9 DEF Next, MergeStep

----------------------------------------------------------------------------
(***************************************************************************)
(* The theorems.                                                           *)
(***************************************************************************)

(***************************************************************************)
(* The branch, the worktrees and what merges remember hold together at     *)
(* every step: who landed is in the history, a merge that has yet to visit *)
(* a worktree is the only one, and each worktree follows the base or has   *)
(* somebody who will bring it there (merge_state.rs                        *)
(* refresh_base_worktrees).                                                *)
(***************************************************************************)
THEOREM WorktreesHold == Spec => []TreeInv
    <1>1. Init => TreeInv
        BY InitTyped, InitRemembered, InitLanding, InitUnvisited, InitFollowed DEF TreeInv
    <1>2. TreeInv /\ [Next]_vars => TreeInv'
        <2> SUFFICES ASSUME TreeInv, [Next]_vars PROVE TreeInv'
            OBVIOUS
        <2>1. Typed'
            BY TypedStep DEF TreeInv
        <2>2. (\A a \in Merges : Remembered(a)') /\ WorkSeenIsKept'
            BY <2>1, RememberedStep DEF TreeInv
        <2>3. \A a \in Merges : Landing(a)'
            BY <2>1, LandingStep DEF TreeInv
        <2>4. \A a \in Merges : Unvisited(a)'
            BY <2>1, UnvisitedStep DEF TreeInv
        <2>5. \A w \in Free' : Followed(w)'
            BY <2>1, FollowedStep DEF TreeInv
        <2> QED BY <2>1, <2>2, <2>3, <2>4, <2>5 DEF TreeInv
    <1> QED BY <1>1, <1>2, PTL DEF Spec

(***************************************************************************)
(* Types of the branches, the worktrees and the merges' memory.            *)
(***************************************************************************)
THEOREM WorktreesTyped == Spec => []WorktreeTypeOK
    <1>1. TreeInv => WorktreeTypeOK
        <2> SUFFICES ASSUME TreeInv PROVE WorktreeTypeOK
            OBVIOUS
        <2>1. \A a \in Merges : merge[a] \in Memory /\ Remembered(a)
            BY DEF TreeInv, Typed
        <2>2. source \in [Merges -> [commits : 0..SourceHead + MaxUser, there : BOOLEAN,
                                     edited : BOOLEAN]]
            <3>1. ASSUME NEW a \in Merges PROVE source[a].commits \in 0..SourceHead + MaxUser
                BY <2>1, WorktreesAssumption DEF TreeInv, Typed, Remembered, SourceHead
            <3> QED BY <3>1 DEF TreeInv, Typed
        <2>3. /\ base \in Seq(Merges \cup {User})
              /\ \A w \in Trees : /\ tree[w].at \in Seq(Merges \cup {User})
                                  /\ tree[w].edited \in BOOLEAN
              /\ told \cup unsaid \subseteq Trees
            BY DEF TreeInv, Typed, Authors
        <2>4. ASSUME NEW a \in Merges
              PROVE  merge[a].left \cup merge[a].done \cup merge[a].failed \subseteq Trees
            BY <2>1 DEF Memory
        <2> QED BY <2>1, <2>2, <2>3, <2>4 DEF WorktreeTypeOK, Remembered
    <1> QED BY <1>1, WorktreesHold, PTL

(***************************************************************************)
(* When no merge is between its transaction and its answer, every worktree *)
(* on the base has its files, unless a merge named it or a person made it  *)
(* stale, or a kill, a transaction applied but reported as failed, or an   *)
(* undo after another merge left it behind (merge_state.rs                 *)
(* refresh_base_worktrees).                                                *)
(***************************************************************************)
THEOREM WorktreesFollow == Spec => []TreesFollowTheBase
    <1>1. TreeInv => TreesFollowTheBase
        BY DEF TreeInv, TreesFollowTheBase, Free, Followed, WillUndo, WillRefresh, Undoing, Moved,
            InFlight
    <1> QED BY <1>1, WorktreesHold, PTL

(***************************************************************************)
(* No merge discards work that was there when it last looked.              *)
(***************************************************************************)
THEOREM SeenWorkIsKept == Spec => []WorkSeenIsKept
    <1>1. TreeInv => WorkSeenIsKept
        BY DEF TreeInv
    <1> QED BY <1>1, WorktreesHold, PTL

(***************************************************************************)
(* A merge that reported success is in the base's history for good, one    *)
(* that reported a refusal or a rollback is not, unless git had told it    *)
(* that its transaction failed when it was applied; and a source goes only *)
(* when its merge has landed.                                              *)
(***************************************************************************)
THEOREM OutcomesStayTrue == Spec => []OutcomesAreTrue
    <1>1. TreeInv => OutcomesAreTrue
        BY DEF TreeInv, OutcomesAreTrue, Landing, NeverLanded
    <1> QED BY <1>1, WorktreesHold, PTL
=============================================================================

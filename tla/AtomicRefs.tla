------------------------------ MODULE AtomicRefs ------------------------------
(***************************************************************************)
(* What the rest of the program takes a ref transaction to be: all of its  *)
(* lines or none, at one moment at which every line holds and every ref    *)
(* that must be absent is, and never after the caller was answered.        *)
(***************************************************************************)
CONSTANTS
    Callers,   \* each asks for one transaction
    Refs,      \* the refs
    Forms      \* the forms a ref takes

VARIABLES
    value,     \* the refs
    asked,     \* the transaction of each caller: lines, each with an old and a new value, and absent refs
    applied,   \* the callers whose transaction took effect
    answer     \* what each caller was told: "none" so far, "ok" or "err"

Lines(t) == DOMAIN t.lines

\* A line that expects no ref also takes a symbolic ref that points to nothing.
Matches(old, v) == v = old \/ (old = "absent" /\ v = "dangling")

Holds(t) ==
    /\ \A r \in Lines(t) : Matches(t.lines[r].old, value[r])
    /\ \A r \in t.absent : value[r] = "absent"

Written(t) == [r \in Refs |-> IF r \in Lines(t) THEN t.lines[r].new ELSE value[r]]

Init ==
    /\ value \in [Refs -> Forms]
    /\ applied = {}
    /\ answer = [c \in Callers |-> "none"]

Apply(c) ==
    /\ c \notin applied /\ answer[c] = "none"
    /\ Holds(asked[c])
    /\ value' = Written(asked[c])
    /\ applied' = applied \cup {c}
    /\ UNCHANGED <<asked, answer>>

\* "ok" is said of a transaction that took effect; an error may be said of either.
Answer(c) ==
    /\ answer[c] = "none"
    /\ answer' \in {[answer EXCEPT ![c] = how] : how \in {"ok", "err"}}
    /\ answer'[c] = "ok" => c \in applied
    /\ UNCHANGED <<value, asked, applied>>

\* Another git command writes a ref.
Write ==
    /\ \E r \in Refs : value' \in {[value EXCEPT ![r] = v] : v \in Forms}
    /\ UNCHANGED <<asked, applied, answer>>

Next == Write \/ \E c \in Callers : Apply(c) \/ Answer(c)

Spec == Init /\ [][Next]_<<value, asked, applied, answer>>
=============================================================================

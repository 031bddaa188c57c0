----------------------------- MODULE RefTransaction -----------------------------
(***************************************************************************)
(* The dialogue of run_update_ref_transaction with `git update-ref         *)
(* --stdin`: a process writes start, lines and prepare, waits for git to   *)
(* hold every lock, looks at the refs that must be absent, writes commit   *)
(* or abort, and ends git by closing its input. Git is external: it is     *)
(* modelled by what its documentation and this dialogue rely on.           *)
(***************************************************************************)
EXTENDS Integers, Sequences, FiniteSets

CONSTANTS
    Callers,      \* git-forge processes, each running one transaction
    Refs,         \* the refs
    Forms,        \* the forms a ref takes
    Cases,        \* the refs at the beginning, and the transaction each asks for
    PipeSize,     \* how much unread output a pipe holds
    HookOutput,   \* how much a reference-transaction hook writes to stderr
    MaxMishaps    \* bound: so many faults, kills and writes by other git commands

ASSUME CasesAssumption ==
    /\ "free" \notin Callers
    /\ {"absent", "dangling"} \subseteq Forms
    /\ \A case \in Cases :
          /\ case.value \in [Refs -> Forms] /\ DOMAIN case.asked = Callers
          /\ \A c \in Callers : LET t == case.asked[c] IN
                /\ DOMAIN t.lines \subseteq Refs /\ t.absent \subseteq DOMAIN t.lines
                /\ \A r \in DOMAIN t.lines : {t.lines[r].old, t.lines[r].new} \subseteq Forms
    /\ PipeSize \in Nat \ {0} /\ HookOutput \in Nat /\ MaxMishaps \in Nat

VARIABLES
    value,     \* the refs
    lock,      \* the caller whose git holds the lock file of each ref, or "free"
    asked,     \* the transaction of each caller
    caller,    \* each git-forge process: where it is, what it has found
    git,       \* its git: where it is, the lines it has yet to lock, the output of its hook
    stdin, stdout,   \* the unread messages of the two pipes
    stderr,    \* how much of the third pipe is unread
    mishaps,   \* how many faults, kills and other writes there have been
    applied,   \* the callers whose transaction took effect (a history variable)
    answer     \* what each caller was told (a history variable)

pipes == <<stdin, stdout, stderr>>
vars == <<value, lock, asked, caller, git, pipes, mishaps, applied, answer>>

Atomic == INSTANCE AtomicRefs

Init ==
    /\ \E case \in Cases : value = case.value /\ asked = case.asked
    /\ lock = [r \in Refs |-> "free"]
    /\ caller = [c \in Callers |->
                    [pc |-> "spawning", untested |-> {}, present |-> FALSE, committing |-> FALSE]]
    /\ git = [c \in Callers |-> [pc |-> "none", left |-> {}, noise |-> 0, ok |-> TRUE]]
    /\ stdin = [c \in Callers |-> <<>>] /\ stdout = [c \in Callers |-> <<>>]
    /\ stderr = [c \in Callers |-> 0]
    /\ mishaps = 0 /\ applied = {}
    /\ answer = [c \in Callers |-> "none"]

At(c, pc) == caller[c].pc = pc
GitAt(c, pc) == git[c].pc = pc

Lines(c) == DOMAIN asked[c].lines
Gone(c) == caller[c].pc \in {"killed", "returned"}

----------------------------------------------------------------------------
(* The git-forge process. *)

RefsKept == UNCHANGED <<value, lock, asked, applied>>

UpdateRefSpawn(c) ==
    /\ At(c, "spawning")
    /\ caller' = [caller EXCEPT ![c].pc = "sending"]
    /\ git' = [git EXCEPT ![c].pc = "reading"]
    /\ RefsKept /\ UNCHANGED <<pipes, answer>>

\* Nothing was started.
SpawnFails(c) ==
    /\ At(c, "spawning")
    /\ caller' = [caller EXCEPT ![c].pc = "returned"]
    /\ answer' = [answer EXCEPT ![c] = "err"]
    /\ RefsKept /\ UNCHANGED <<git, pipes>>

\* Writing fails when git has exited; otherwise git finds it in its input.
Sends(c, messages) ==
    stdin' = IF GitAt(c, "exited") THEN stdin ELSE [stdin EXCEPT ![c] = @ \o messages]

SendRequest(c) ==
    /\ At(c, "sending")
    /\ Sends(c, <<"start", "prepare">>)
    /\ caller' = [caller EXCEPT ![c].pc = IF GitAt(c, "exited") THEN "ending" ELSE "awaiting"]
    /\ RefsKept /\ UNCHANGED <<git, stdout, stderr, answer>>

\* prepared: `start: ok` may come first, and only `prepare: ok` is good. A line git was
\* writing when it died is neither.
Prepared_AnyReply(reply) == TRUE
Prepared(reply) == reply = "prepare"

ReadReply(c) ==
    /\ At(c, "awaiting")
    /\ stdout[c] # <<>>
    /\ stdout' = [stdout EXCEPT ![c] = Tail(@)]
    /\ LET reply == Head(stdout[c]) IN
       caller' = [caller EXCEPT
           ![c].pc = IF reply = "start" THEN @ ELSE IF Prepared(reply) THEN "testing" ELSE "ending",
           ![c].untested = IF Prepared(reply) THEN asked[c].absent ELSE @]
    /\ RefsKept /\ UNCHANGED <<git, stdin, stderr, answer>>

\* The output has ended, or cannot be read.
Ended(c) == stdout[c] = <<>> /\ GitAt(c, "exited")

NotPrepared(c) ==
    /\ At(c, "awaiting")
    /\ caller' = [caller EXCEPT ![c].pc = "ending"]
    /\ RefsKept /\ UNCHANGED <<git, pipes, answer>>

\* One find_reference: the ref is there in whatever form.
RefPresent_Resolved(r) == value[r] \notin {"absent", "dangling"}
RefPresent(r) == value[r] # "absent"

TestAbsent(c) ==
    /\ At(c, "testing")
    /\ \E r \in caller[c].untested :
          caller' = [caller EXCEPT
              ![c].untested = @ \ {r},
              ![c].present = RefPresent(r),
              ![c].pc = IF RefPresent(r) THEN "ending" ELSE @]
    /\ RefsKept /\ UNCHANGED <<git, pipes, answer>>

Decide(c) ==
    /\ At(c, "testing") /\ caller[c].untested = {}
    /\ caller' = [caller EXCEPT ![c].committing = TRUE, ![c].pc = "ending"]
    /\ RefsKept /\ UNCHANGED <<git, pipes, answer>>

SendEnd(c) ==
    /\ At(c, "ending")
    /\ Sends(c, <<IF caller[c].committing THEN "commit" ELSE "abort">>)
    /\ caller' = [caller EXCEPT ![c].pc = "closed"]
    /\ RefsKept /\ UNCHANGED <<git, stdout, stderr, answer>>

\* finish, its input closed: the rest of the output is read to its end.
DrainOutput(c) ==
    /\ At(c, "closed") /\ stdout[c] # <<>>
    /\ stdout' = [stdout EXCEPT ![c] = <<>>]
    /\ RefsKept /\ UNCHANGED <<caller, git, stdin, stderr, answer>>

Committed(c) == caller[c].committing /\ git[c].ok

Reaped_Unwaited(c) == TRUE
Reaped(c) == GitAt(c, "exited")

\* git has exited and both of its outputs have ended: the answer.
Finish(c) ==
    /\ At(c, "closed") /\ Reaped(c)
    /\ stdout[c] = <<>> /\ stderr[c] = 0
    /\ caller' = [caller EXCEPT ![c].pc = "returned"]
    /\ answer' = [answer EXCEPT ![c] = IF ~caller[c].present /\ Committed(c) THEN "ok" ELSE "err"]
    /\ RefsKept /\ UNCHANGED <<git, pipes>>

\* The thread that reads stderr from spawn onward.
Drained_AtEnd(c) == GitAt(c, "exited") /\ ~Gone(c)
Drained(c) == ~Gone(c)

DrainErrors(c) ==
    /\ Drained(c) /\ stderr[c] > 0
    /\ stderr' = [stderr EXCEPT ![c] = @ - 1]
    /\ RefsKept /\ UNCHANGED <<caller, git, stdin, stdout, answer>>

\* The process is killed; git finds its input closed and nobody reading.
Crash(c) ==
    /\ ~Gone(c)
    /\ caller' = [caller EXCEPT ![c].pc = "killed"]
    /\ RefsKept /\ UNCHANGED <<git, pipes, answer>>

----------------------------------------------------------------------------
(* git update-ref --stdin. *)

Free(c) == [r \in Refs |-> IF lock[r] = c THEN "free" ELSE lock[r]]
CallersKept == UNCHANGED <<asked, caller, answer>>
Replies(c, reply) == stdout' = [stdout EXCEPT ![c] = Append(@, reply)]

GitReads(c, message) ==
    /\ GitAt(c, "reading") /\ stdin[c] # <<>> /\ Head(stdin[c]) = message
    /\ stdin' = [stdin EXCEPT ![c] = Tail(@)]
    /\ UNCHANGED stderr /\ CallersKept

\* start, and the lines, which are queued.
GitStarts(c) ==
    /\ GitReads(c, "start") /\ Replies(c, "start")
    /\ UNCHANGED <<value, lock, applied, git>>

GitPrepares(c) ==
    /\ GitReads(c, "prepare")
    /\ git' = [git EXCEPT ![c].pc = "locking", ![c].left = Lines(c)]
    /\ UNCHANGED <<value, lock, applied, stdout>>

\* Each ref is locked and then compared with the value its line expects.
GitLocks(c) ==
    /\ GitAt(c, "locking")
    /\ \E r \in git[c].left :
          /\ lock[r] = "free" /\ Atomic!Matches(asked[c].lines[r].old, value[r])
          /\ lock' = [lock EXCEPT ![r] = c]
          /\ git' = [git EXCEPT ![c].left = @ \ {r}]
    /\ UNCHANGED <<value, applied, pipes>> /\ CallersKept

\* All are locked: the hook runs, and writes to stderr for as long as there is room.
GitCallsHook(c) ==
    /\ GitAt(c, "locking") /\ git[c].left = {}
    /\ git' = [git EXCEPT ![c].pc = "hook", ![c].noise = HookOutput]
    /\ UNCHANGED <<value, lock, applied, pipes>> /\ CallersKept

HookWrites(c) ==
    /\ GitAt(c, "hook") /\ git[c].noise > 0
    /\ stderr[c] < PipeSize
    /\ stderr' = [stderr EXCEPT ![c] = @ + 1]
    /\ git' = [git EXCEPT ![c].noise = @ - 1]
    /\ UNCHANGED <<value, lock, applied, stdin, stdout>> /\ CallersKept

GitPrepared(c) ==
    /\ GitAt(c, "hook") /\ git[c].noise = 0
    /\ Replies(c, "prepare")
    /\ git' = [git EXCEPT ![c].pc = "reading"]
    /\ UNCHANGED <<value, lock, applied, stdin, stderr>> /\ CallersKept

GitCommits(c) ==
    /\ GitReads(c, "commit") /\ Replies(c, "commit")
    /\ value' = Atomic!Written(asked[c])
    /\ lock' = Free(c)
    /\ applied' = applied \cup {c}
    /\ UNCHANGED git

GitAborts(c) ==
    /\ GitReads(c, "abort") /\ Replies(c, "abort")
    /\ lock' = Free(c)
    /\ UNCHANGED <<value, applied, git>>

GitExits(c, status) ==
    /\ git' = [git EXCEPT ![c].pc = "exited", ![c].ok = status]
    /\ UNCHANGED <<value, applied, stdin>> /\ CallersKept

\* Its input has ended: whatever is open or prepared is aborted, and that is a success.
GitEnds(c) ==
    /\ GitAt(c, "reading") /\ stdin[c] = <<>>
    /\ caller[c].pc \in {"closed", "killed"}
    /\ lock' = Free(c)
    /\ GitExits(c, TRUE) /\ UNCHANGED <<stdout, stderr>>

\* A lock that stays held, a value that differs, or a hook that refuses: git says so, when
\* there is somebody to hear it, and exits.
GitFails(c) ==
    /\ At(c, "killed") \/ stderr[c] < PipeSize
    /\ stderr' = [stderr EXCEPT ![c] = IF At(c, "killed") THEN @ ELSE @ + 1]
    /\ lock' = Free(c)
    /\ GitExits(c, FALSE) /\ UNCHANGED stdout

GitRefuses(c) ==
    /\ \/ /\ GitAt(c, "locking")
          /\ \E r \in git[c].left :
                lock[r] # "free" \/ ~Atomic!Matches(asked[c].lines[r].old, value[r])
       \/ GitAt(c, "hook") /\ At(c, "killed")
    /\ GitFails(c)

HookRefuses(c) == GitAt(c, "hook") /\ git[c].noise = 0 /\ GitFails(c)

\* git is killed, in the middle of a reply perhaps. A signal it can handle has it remove
\* its lock files; otherwise they stay.
GitDies(c) ==
    /\ git[c].pc \in {"reading", "locking", "hook"}
    /\ lock' \in {lock, Free(c)}
    /\ stdout' \in {stdout, [stdout EXCEPT ![c] = Append(@, "torn")]}
    /\ GitExits(c, FALSE) /\ UNCHANGED stderr

----------------------------------------------------------------------------
\* Any other git command writes a ref: it needs the lock.
OtherWrites ==
    /\ \E r \in Refs, v \in Forms :
          /\ lock[r] = "free" /\ v # value[r]
          /\ value' = [value EXCEPT ![r] = v]
    /\ UNCHANGED <<lock, asked, caller, git, pipes, applied, answer>>

CallerStep(c) ==
    \/ UpdateRefSpawn(c) \/ SendRequest(c) \/ ReadReply(c)
    \/ (Ended(c) /\ NotPrepared(c))
    \/ TestAbsent(c) \/ Decide(c) \/ SendEnd(c) \/ DrainOutput(c) \/ Finish(c)

GitStep(c) ==
    \/ GitStarts(c) \/ GitPrepares(c) \/ GitLocks(c) \/ GitCallsHook(c)
    \/ HookWrites(c) \/ GitPrepared(c) \/ GitCommits(c) \/ GitAborts(c)
    \/ GitEnds(c) \/ GitRefuses(c)

Fault(c) == SpawnFails(c) \/ NotPrepared(c) \/ HookRefuses(c) \/ GitDies(c)

Mishap ==
    /\ mishaps < MaxMishaps /\ mishaps' = mishaps + 1
    /\ OtherWrites \/ \E c \in Callers : Fault(c) \/ Crash(c)

Next ==
    \/ /\ \E c \in Callers : CallerStep(c) \/ DrainErrors(c) \/ GitStep(c)
       /\ UNCHANGED mishaps
    \/ Mishap

Spec == Init /\ [][Next]_vars

\* The process, its thread and its git keep running; git gives up on a held lock.
FairSpec ==
    /\ Spec
    /\ \A c \in Callers :
          /\ WF_vars(CallerStep(c) /\ UNCHANGED mishaps)
          /\ WF_vars(DrainErrors(c) /\ UNCHANGED mishaps)
          /\ WF_vars(GitStep(c) /\ UNCHANGED mishaps)

----------------------------------------------------------------------------
(***************************************************************************)
(* Types of the two processes and the pipes between them (update_ref.rs    *)
(* UpdateRef); refs are waiting to be tested only while they are tested.   *)
(***************************************************************************)
TransactionTypeOK ==
    /\ value \in [Refs -> Forms]
    /\ lock \in [Refs -> Callers \cup {"free"}]
    /\ caller \in [Callers -> [pc : {"spawning", "sending", "awaiting", "testing", "ending",
                                     "closed", "returned", "killed"},
                               untested : SUBSET Refs, present : BOOLEAN, committing : BOOLEAN]]
    /\ git \in [Callers -> [pc : {"none", "reading", "locking", "hook", "exited"},
                            left : SUBSET Refs, noise : 0..HookOutput, ok : BOOLEAN]]
    /\ stderr \in [Callers -> 0..PipeSize]
    /\ \A c \in Callers :
          /\ (answer[c] # "none") = At(c, "returned")
          /\ caller[c].untested # {} =>
                At(c, "testing") \/ At(c, "killed") \/ caller[c].present

(***************************************************************************)
(* The dialogue implements the atomic transaction the other modules take   *)
(* for granted: all lines or none, at a moment at which every line holds   *)
(* and no ref that must be absent exists in any form, "ok" only for one    *)
(* that took effect, and nothing takes effect after the answer             *)
(* (update_ref.rs run_update_ref_transaction).                             *)
(***************************************************************************)
ImplementsAtomic == Atomic!Spec

(***************************************************************************)
(* A git that is not killed has removed its lock files by the time its     *)
(* caller is answered: no call leaves refs nobody can write (update_ref.rs *)
(* finish, "git aborts anything not committed").                           *)
(***************************************************************************)
LocksAreReturned ==
    \A r \in Refs : lock[r] # "free" =>
        LET c == lock[r] IN
        IF GitAt(c, "exited") THEN ~git[c].ok ELSE ~At(c, "returned")

(***************************************************************************)
(* Every call returns, unless its process is killed: neither a hook that   *)
(* fills the pipe, nor a git that refuses or dies, nor a lock another      *)
(* transaction holds keeps it waiting (update_ref.rs UpdateRef).           *)
(***************************************************************************)
EveryCallReturns == \A c \in Callers : <>Gone(c)

=============================================================================

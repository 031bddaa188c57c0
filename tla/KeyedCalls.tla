------------------------------ MODULE KeyedCalls ------------------------------
(***************************************************************************)
(* What an idempotency key promises, whatever happens between the calls    *)
(* that use it: a key is bound once, to one request and the entity it      *)
(* made or changed, and every answer is about that binding.                *)
(***************************************************************************)
CONSTANT Names    \* the keys, each of one command

VARIABLES
    bound,     \* the request and the entity of each key that has been used
    answers    \* what the callers were told

Init == bound = <<>> /\ answers = {}

\* A request takes effect and binds its key, for good.
Bind ==
    /\ \E name \in Names \ DOMAIN bound :
          /\ DOMAIN bound' = DOMAIN bound \cup {name}
          /\ \A other \in DOMAIN bound : bound'[other] = bound[other]
    /\ UNCHANGED answers

\* A caller is told the entity of its own request, that the key is another request's,
\* or that nothing was done, which is said only while the key is unbound.
Truthful(r) ==
    \/ /\ r.name \in DOMAIN bound
       /\ r.id = bound[r.name].id
       /\ r.how = IF r.request = bound[r.name].request THEN "ok" ELSE "conflict"
    \/ r.name \notin DOMAIN bound /\ r.how = "refused"

Answer ==
    /\ \E r \in answers' \ answers : answers' = answers \cup {r} /\ Truthful(r)
    /\ UNCHANGED bound

Next == Bind \/ Answer

Spec == Init /\ [][Next]_<<bound, answers>>
=============================================================================

---------------------------- MODULE ListingStore ----------------------------
(***************************************************************************)
(* What the listings API promises its clients, whatever happens inside it: *)
(* every request takes effect at one instant between the moment it is      *)
(* invoked and the moment it is answered, and the reply describes the      *)
(* store at that instant.  A 4xx reply means nothing was changed, a 2xx    *)
(* reply that the change was made exactly once, and a 5xx reply (or none)  *)
(* leaves the client not knowing: the change was made once or not at all.  *)
(*                                                                         *)
(* There are no transactions, locks, connections or clocks here; module    *)
(* ListingCrud has them and is shown to implement this specification.      *)
(***************************************************************************)
EXTENDS ListingData

CONSTANTS
    Request,      \* the requests clients may make, each made at most once
    NoReply       \* no reply has been decided

VARIABLES
    store,   \* the listings: the contents under each id, Absent or Gone
    phase,   \* how far each request has come
    op,      \* the operation each request asks for
    reply    \* the reply decided for each request

vars == <<store, phase, op, reply>>

Listed(id) == store[id] \notin {Absent, Gone}

Init ==
    /\ store \in [Id -> Data \cup {Absent}]
    /\ phase = [r \in Request |-> "idle"]
    /\ op = [r \in Request |-> [kind |-> "get", id |-> NoId, body |-> Blank]]
    /\ reply = [r \in Request |-> NoReply]

\* A client makes a request.  It can only name listings it has heard of.
Invoke(r) ==
    /\ phase[r] = "idle"
    /\ phase' = [phase EXCEPT ![r] = "invoked"]
    /\ \E o \in Operation({id \in Id : store[id] # Absent}) :
          op' = [op EXCEPT ![r] = o]
    /\ UNCHANGED <<store, reply>>

\* r takes effect now: the store becomes s and the reply p.
Decide(r, s, p) ==
    /\ phase[r] = "invoked"
    /\ phase' = [phase EXCEPT ![r] = "decided"]
    /\ store' = s
    /\ reply' = [reply EXCEPT ![r] = p]
    /\ UNCHANGED op

\* The three changes r may ask for; each answers p.
Create(r, id, p) ==
    /\ op[r].kind = "create" /\ Valid(op[r])
    /\ store[id] = Absent
    /\ Decide(r, [store EXCEPT ![id] = NewData(op[r].body)], p)

Change(r, p) ==
    /\ op[r].kind = "patch" /\ Valid(op[r])
    /\ Listed(op[r].id)
    /\ Decide(r, [store EXCEPT ![op[r].id] = Merge(@, op[r].body)], p)

Remove(r, p) ==
    /\ op[r].kind = "delete" /\ Valid(op[r])
    /\ Listed(op[r].id)
    /\ Decide(r, [store EXCEPT ![op[r].id] = Gone], p)

Succeed(r) ==
    \/ \E id \in Id : Create(r, id, Reply(201, id, NewData(op[r].body)))
    \/ Change(r, Reply(200, op[r].id, Merge(store[op[r].id], op[r].body)))
    \/ Remove(r, Reply(204, op[r].id, Null))

\* The change is made but the client is told of an internal error.
SucceedUnnoticed(r) ==
    \/ \E id \in Id : Create(r, id, Refusal(500, op[r]))
    \/ Change(r, Refusal(500, op[r]))
    \/ Remove(r, Refusal(500, op[r]))

Show(r) ==
    /\ op[r].kind = "get" /\ Valid(op[r])
    /\ Listed(op[r].id)
    /\ Decide(r, store, Reply(200, op[r].id, store[op[r].id]))

\* Nothing is changed: the request is invalid, there is no such listing, or
\* something breaks.
Refuse(r) ==
    \/ ~Valid(op[r]) /\ Decide(r, store, Refusal(422, op[r]))
    \/ /\ op[r].kind # "create" /\ Valid(op[r])
       /\ ~Listed(op[r].id)
       /\ Decide(r, store, Refusal(404, op[r]))
    \/ Decide(r, store, Refusal(500, op[r]))

Answer(r) ==
    /\ phase[r] = "decided"
    /\ phase' = [phase EXCEPT ![r] = "answered"]
    /\ UNCHANGED <<store, op, reply>>

\* The service dies: requests in flight are never answered.
InFlight == {r \in Request : phase[r] \in {"invoked", "decided"}}
Crash ==
    /\ phase' = [r \in Request |-> IF r \in InFlight THEN "lost" ELSE phase[r]]
    /\ reply' = [r \in Request |-> IF r \in InFlight THEN NoReply ELSE reply[r]]
    /\ UNCHANGED <<store, op>>

Next ==
    \/ \E r \in Request :
          \/ Invoke(r)
          \/ Succeed(r)
          \/ SucceedUnnoticed(r)
          \/ Show(r)
          \/ Refuse(r)
          \/ Answer(r)
    \/ Crash

Spec == Init /\ [][Next]_vars
=============================================================================

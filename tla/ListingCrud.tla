---------------------------- MODULE ListingCrud ----------------------------
(***************************************************************************)
(* The single-listing operations of the API as they run: concurrent        *)
(* request handlers, each with its own session, over one Postgres table    *)
(* under READ COMMITTED.                                                   *)
(*                                                                         *)
(* A handler validates its input, then awaits one SQL statement and, if it *)
(* wrote, a COMMIT; other handlers run at each await.  The statement opens *)
(* the transaction.  INSERT, UPDATE and DELETE ... RETURNING lock the row  *)
(* they touch until the transaction ends and give the handler the row it   *)
(* will answer with before the row is committed.                           *)
(***************************************************************************)
EXTENDS ListingData

CONSTANTS
    Request,      \* the requests clients may make, each made at most once
    NoReply,      \* the handler has no reply yet
    Initial,      \* the listings there are at the start, [Id -> Data or Absent]
    MaxClock      \* bound on the database clock

Row == [data : Data, created_at : Nat, updated_at : Nat]

ASSUME CrudAssumption ==
    /\ Absent \notin Row /\ Gone \notin Row
    /\ Initial \in [Id -> Data \cup {Absent}]
    /\ MaxClock \in Nat

VARIABLES
    clock,     \* the database server's clock
    table,     \* the committed rows of table "listings"
    pc,        \* how far each request's handler has come
    op,        \* the operation each request asks for
    xstart,    \* when each handler's transaction began: its now()
    claim,     \* the id of the row each open transaction has written, or NoId
    version,   \* that row as the transaction leaves it, not yet committed
    result     \* the reply each handler has in hand

vars == <<clock, table, pc, op, xstart, claim, version, result>>

Listed(id) == table[id] \notin {Absent, Gone}
Locked(id) == \E r \in Request : claim[r] = id
InFlight ==
    {r \in Request : pc[r] \in {"received", "begun", "waiting", "written", "settled"}}

Init ==
    /\ clock = 0
    /\ table = [id \in Id |->
                  IF Initial[id] = Absent THEN Absent
                  ELSE [data |-> Initial[id], created_at |-> 0, updated_at |-> 0]]
    /\ pc = [r \in Request |-> "idle"]
    /\ op = [r \in Request |-> [kind |-> "get", id |-> NoId, body |-> Blank]]
    /\ xstart = [r \in Request |-> 0]
    /\ claim = [r \in Request |-> NoId]
    /\ version = [r \in Request |-> Absent]
    /\ result = [r \in Request |-> NoReply]

Tick ==
    /\ clock < MaxClock
    /\ clock' = clock + 1
    /\ UNCHANGED <<table, pc, op, xstart, claim, version, result>>

----------------------------------------------------------------------------
\* A request arrives.  A client names ids it was given by an earlier reply: an
\* id is 122 random bits, and is not guessed before its row is committed.
Receive(r) ==
    /\ pc[r] = "idle"
    /\ pc' = [pc EXCEPT ![r] = "received"]
    /\ \E o \in Operation({id \in Id : table[id] # Absent}) :
          op' = [op EXCEPT ![r] = o]
    /\ UNCHANGED <<clock, table, xstart, claim, version, result>>

\* Mutant of Settle: the session is not closed, and its transaction stays open.
SettleInTransaction(r, p) ==
    /\ pc' = [pc EXCEPT ![r] = "settled"]
    /\ result' = [result EXCEPT ![r] = p]
    /\ UNCHANGED <<clock, op, xstart, claim, version>>

\* The handler's transaction ends and it has reply p.
Settle(r, p) ==
    /\ pc' = [pc EXCEPT ![r] = "settled"]
    /\ result' = [result EXCEPT ![r] = p]
    /\ claim' = [claim EXCEPT ![r] = NoId]
    /\ version' = [version EXCEPT ![r] = Absent]
    /\ UNCHANGED <<clock, op, xstart>>

\* FastAPI refuses the body or the path id before the handler runs.
Reject(r) ==
    /\ pc[r] = "received"
    /\ ~Valid(op[r])
    /\ Settle(r, Refusal(422, op[r]))
    /\ UNCHANGED table

\* Mutant of Begin: without validation.
BeginUnvalidated(r) ==
    /\ pc[r] = "received"
    /\ op[r].kind # "create" => op[r].id \in Id
    /\ pc' = [pc EXCEPT ![r] = "begun"]
    /\ xstart' = [xstart EXCEPT ![r] = clock]
    /\ UNCHANGED <<clock, table, op, claim, version, result>>

\* The session checks a connection out of the pool and sends BEGIN.
Begin(r) ==
    /\ pc[r] = "received"
    /\ Valid(op[r])
    /\ pc' = [pc EXCEPT ![r] = "begun"]
    /\ xstart' = [xstart EXCEPT ![r] = clock]
    /\ UNCHANGED <<clock, table, op, claim, version, result>>

\* The statement has run: r's transaction now owns row id, which it leaves as
\* row, and p is what the handler makes of the row RETURNING gave it.
Write(r, id, row, p) ==
    /\ pc' = [pc EXCEPT ![r] = "written"]
    /\ claim' = [claim EXCEPT ![r] = id]
    /\ version' = [version EXCEPT ![r] = row]
    /\ result' = [result EXCEPT ![r] = p]
    /\ UNCHANGED <<clock, table, op, xstart>>

\* POST: gen_random_uuid() gives an id nobody has, both stamps default to now().
Insert(r) ==
    /\ pc[r] = "begun"
    /\ op[r].kind = "create"
    /\ \E id \in Id :
          /\ table[id] = Absent
          /\ ~Locked(id)
          /\ LET data == NewData(op[r].body)
             IN  Write(r, id, [data |-> data, created_at |-> xstart[r],
                               updated_at |-> xstart[r]],
                       Reply(201, id, data))

\* GET: the committed row, if there is one.  Readers never wait for a lock.
Select(r) ==
    /\ pc[r] = "begun"
    /\ op[r].kind = "get"
    /\ Settle(r, IF Listed(op[r].id)
                 THEN Reply(200, op[r].id, table[op[r].id].data)
                 ELSE Refusal(404, op[r]))
    /\ UNCHANGED table

\* Mutant of Touch: the trigger stamps the wrong column.
TouchCreatedAt(row, body, now) ==
    [row EXCEPT !.data = Merge(@, body), !.created_at = now]

\* What UPDATE makes of a row.  The trigger stamps updated_at with now(), which
\* is the time the transaction began.
Touch(row, body, now) ==
    [row EXCEPT !.data = Merge(@, body), !.updated_at = now]

\* Mutant of Ready: the row is read and written without a lock.
ReadyUnlocked(r) ==
    /\ pc[r] \in {"begun", "waiting"}
    /\ op[r].kind \in {"patch", "delete"}
    /\ Listed(op[r].id)

\* The statement of a PATCH or a DELETE finds its row and no other transaction
\* holds it.  A statement that had to wait sees the row as the transaction it
\* waited for left it.  (ListingRepository.update without changes, a plain
\* SELECT, is not reachable: validation refuses an empty body.)
Ready(r) ==
    /\ pc[r] \in {"begun", "waiting"}
    /\ op[r].kind \in {"patch", "delete"}
    /\ Listed(op[r].id)
    /\ ~Locked(op[r].id)

Update(r) ==
    /\ Ready(r)
    /\ op[r].kind = "patch"
    /\ LET row == Touch(table[op[r].id], op[r].body, xstart[r])
       IN  Write(r, op[r].id, row, Reply(200, op[r].id, row.data))

Delete(r) ==
    /\ Ready(r)
    /\ op[r].kind = "delete"
    /\ Write(r, op[r].id, Gone, Reply(204, op[r].id, Null))

\* The row is there but another transaction has written it: the statement
\* blocks until that transaction ends.  There is no lock_timeout.
Wait(r) ==
    /\ pc[r] = "begun"
    /\ op[r].kind \in {"patch", "delete"}
    /\ Listed(op[r].id)
    /\ Locked(op[r].id)
    /\ pc' = [pc EXCEPT ![r] = "waiting"]
    /\ UNCHANGED <<clock, table, op, xstart, claim, version, result>>

\* Mutants of Miss: the service does not look at what the repository returned;
\* a statement that had to wait does not notice that its row has gone.
MissUnchecked(r) ==
    /\ pc[r] \in {"begun", "waiting"}
    /\ op[r].kind \in {"patch", "delete"}
    /\ ~Listed(op[r].id)
    /\ Settle(r, Reply(204, op[r].id, Null))
    /\ UNCHANGED table

MissAtOnce(r) ==
    /\ pc[r] = "begun"
    /\ op[r].kind \in {"patch", "delete"}
    /\ ~Listed(op[r].id)
    /\ Settle(r, Refusal(404, op[r]))
    /\ UNCHANGED table

\* No row comes back, from the start or because the transaction waited for has
\* deleted it: NotFoundError is raised and nothing is committed.
Miss(r) ==
    /\ pc[r] \in {"begun", "waiting"}
    /\ op[r].kind \in {"patch", "delete"}
    /\ ~Listed(op[r].id)
    /\ Settle(r, Refusal(404, op[r]))
    /\ UNCHANGED table

\* COMMIT: the row becomes visible, the lock is released.
Publish(r) == table' = [table EXCEPT ![claim[r]] = version[r]]

\* Mutant of Commit: the service answers and the session is closed without one.
CommitForgotten(r) ==
    /\ pc[r] = "written"
    /\ Settle(r, result[r])
    /\ UNCHANGED table

Commit(r) ==
    /\ pc[r] = "written"
    /\ Publish(r)
    /\ Settle(r, result[r])

\* The commit takes effect, but its acknowledgement is lost with the connection
\* or building the reply fails: the client is told of an internal error.
Unacknowledged(r) ==
    /\ pc[r] = "written"
    /\ Publish(r)
    /\ Settle(r, Refusal(500, op[r]))

\* An exception before the commit: no connection within the pool's timeout, the
\* connection breaks, Postgres refuses a value or restarts.  Closing the
\* session rolls the transaction back.
Fail(r) ==
    /\ pc[r] \in {"received", "begun", "waiting", "written"}
    /\ Settle(r, Refusal(500, op[r]))
    /\ UNCHANGED table

Answer(r) ==
    /\ pc[r] = "settled"
    /\ pc' = [pc EXCEPT ![r] = "answered"]
    /\ UNCHANGED <<clock, table, op, xstart, claim, version, result>>

\* The API process dies.  Postgres rolls back what was not committed.
Crash ==
    /\ pc' = [r \in Request |-> IF r \in InFlight THEN "lost" ELSE pc[r]]
    /\ result' = [r \in Request |-> IF r \in InFlight THEN NoReply ELSE result[r]]
    /\ claim' = [r \in Request |-> NoId]
    /\ version' = [r \in Request |-> Absent]
    /\ UNCHANGED <<clock, table, op, xstart>>

----------------------------------------------------------------------------
\* What a handler does when nothing goes wrong.
Progress(r) ==
    \/ Reject(r) \/ Begin(r)
    \/ Insert(r) \/ Select(r) \/ Update(r) \/ Delete(r) \/ Wait(r) \/ Miss(r)
    \/ Commit(r) \/ Answer(r)

Next ==
    \/ Tick
    \/ \E r \in Request :
          Receive(r) \/ Progress(r) \/ Unacknowledged(r) \/ Fail(r)
    \/ Crash

Spec == Init /\ [][Next]_vars

\* The event loop runs every ready handler, Postgres every statement that can
\* run; nothing obliges a client to ask, the clock to tick or a step to fail.
FairSpec == Spec /\ \A r \in Request : WF_vars(Progress(r))

----------------------------------------------------------------------------
Status ==
    {"idle", "received", "begun", "waiting", "written", "settled", "answered", "lost"}

\* Every variable has its type, and exactly the handlers between their
\* statement and their COMMIT hold a row.
TypeOK ==
    /\ clock \in Nat
    /\ table \in [Id -> Row \cup {Absent, Gone}]
    /\ pc \in [Request -> Status]
    /\ op \in [Request -> Operation(Id)]
    /\ xstart \in [Request -> Nat]
    /\ claim \in [Request -> Id \cup {NoId}]
    /\ version \in [Request -> Row \cup {Absent, Gone}]
    /\ result \in [Request -> [status : {200, 201, 204, 404, 422, 500},
                               id : Id \cup {NoId}, data : Data \cup {Null}]
                              \cup {NoReply}]
    /\ \A r \in Request : claim[r] # NoId <=> pc[r] = "written"

\* The version an open transaction is about to commit was computed from the row
\* that is committed now, and the reply in its handler's hand describes it.
Current(r) ==
    LET id == claim[r]
        o == op[r]
    IN  \/ /\ o.kind = "create"
           /\ table[id] = Absent
           /\ version[r] = [data |-> NewData(o.body), created_at |-> xstart[r],
                            updated_at |-> xstart[r]]
           /\ result[r] = Reply(201, id, version[r].data)
        \/ /\ o.kind = "patch"
           /\ id = o.id /\ Listed(id)
           /\ version[r] = Touch(table[id], o.body, xstart[r])
           /\ result[r] = Reply(200, id, version[r].data)
        \/ /\ o.kind = "delete"
           /\ id = o.id /\ Listed(id)
           /\ version[r] = Gone
           /\ result[r] = Reply(204, id, Null)

\* No lost update: no two open transactions have written the same row, and what
\* each is about to commit, and to answer, is current although handlers
\* interleave between statement and COMMIT and may have waited for each other.
OpenWriteIsCurrent ==
    /\ \A r \in Request : pc[r] = "written" => Current(r)
    /\ \A r, s \in Request : claim[r] = claim[s] /\ claim[r] # NoId => r = s

\* Of the DELETEs that race for a listing at most one is told 204; the others
\* are told 404 (or 500), however they interleave, wait, fail or are retried.
Deleted(r, id) == pc[r] \in {"settled", "answered"} /\ result[r] = Reply(204, id, Null)
DeletedOnce ==
    \A id \in Id, r, s \in Request : Deleted(r, id) /\ Deleted(s, id) => r = s

\* A listing is never last updated before it was created, although both stamps
\* are the start times of transactions and not the times of their commits.
UpdatedNotBeforeCreated ==
    \A id \in Id : Listed(id) => table[id].created_at <= table[id].updated_at

\* The inductive invariant behind the four invariants above, and behind the
\* refinement below.  A request past validation is valid; one in flight, unless
\* it is a POST, is for a row that was committed once; a listing was created
\* before every transaction that may update it began; what a 204 was promised
\* for is gone.
Sound ==
    \A r \in Request :
       /\ pc[r] \in {"begun", "waiting", "written"} => Valid(op[r])
       /\ pc[r] = "waiting" => op[r].kind \in {"patch", "delete"}
       /\ pc[r] \in {"received", "begun", "waiting", "written"} /\ op[r].id # NoId
             => table[op[r].id] # Absent

Stamped ==
    /\ \A r \in Request : xstart[r] <= clock
    /\ \A id \in Id : Listed(id) =>
          /\ table[id].created_at <= table[id].updated_at
          /\ table[id].created_at <= clock
          /\ \A r \in Request :
                pc[r] \in {"begun", "waiting", "written"} /\ op[r].id = id
                   => table[id].created_at <= xstart[r]

DeletedIsGone ==
    \A r \in Request, id \in Id : Deleted(r, id) => table[id] = Gone

IInv ==
    /\ TypeOK /\ OpenWriteIsCurrent /\ Sound /\ Stamped
    /\ DeletedIsGone /\ DeletedOnce

\* The handlers, with their transactions, locks and failures, look atomic.
Stored == [id \in Id |-> IF Listed(id) THEN table[id].data ELSE table[id]]
Phase ==
    [r \in Request |->
       IF pc[r] \in {"received", "begun", "waiting", "written"} THEN "invoked"
       ELSE IF pc[r] = "settled" THEN "decided" ELSE pc[r]]
Replied ==
    [r \in Request |-> IF pc[r] \in {"settled", "answered"} THEN result[r] ELSE NoReply]

Store == INSTANCE ListingStore WITH store <- Stored, phase <- Phase, reply <- Replied

\* Every request takes effect at once, between its arrival and its answer, and
\* the answer tells the truth about it: ListingStore is implemented.
AtomicRequests == Store!Spec

\* Every request is settled in the end, or lost in a crash: no handler waits
\* for a row for ever, or for one that is gone.
EveryRequestSettles ==
    \A r \in Request : pc[r] = "received" ~> pc[r] \in {"answered", "lost"}

\* What the README and the migration say of updated_at: a DB trigger keeps it
\* current on every UPDATE, so it never goes back while the listing is there.
UpdatedAtMonotone ==
    [][\A id \in Id :
          Listed(id) /\ Listed(id)' => table[id].updated_at <= table[id]'.updated_at]_vars
=============================================================================

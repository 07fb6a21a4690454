--------------------------- MODULE ConnectionPool ---------------------------
(***************************************************************************)
(* The engine's connection pool, the sessions of the handlers that use it, *)
(* and the health probe, over a database that goes away and comes back.    *)
(*                                                                         *)
(* A session asks for a connection at its first statement.  It gives it    *)
(* back at COMMIT, or when it is closed: before the answer if the handler  *)
(* raised, after the answer if it returned.  The pool keeps PoolSize       *)
(* connections, opens MaxOverflow more and closes those again, lets others *)
(* queue for a time, and pings a connection before it hands it out.        *)
(* All writers want the same row, which is the worst they can do.          *)
(***************************************************************************)
EXTENDS Naturals, FiniteSets

CONSTANTS
    Request,       \* the requests, each made at most once
    Kinds,         \* what the requests may be: assignments of kinds to them
    PoolSize,      \* connections kept open (the engine's default is 5)
    MaxOverflow,   \* connections beyond that (10)
    MaxOutages,    \* bound on how often the database goes away
    Nobody         \* no request, no connection, no reply

Slot == 1 .. PoolSize + MaxOverflow

ASSUME PoolAssumption ==
    /\ PoolSize \in Nat \ {0}
    /\ MaxOverflow \in Nat
    /\ MaxOutages \in Nat
    /\ Nobody \notin Request /\ Nobody \notin Slot
    /\ Kinds \subseteq [Request -> {"read", "write", "probe"}]
    /\ Nobody \notin {"ok", "missing", "fault", "error", "unreachable"}

VARIABLES
    db,        \* is the database "up" or "down"
    outages,   \* how often it went away
    slot,      \* each of the pool's connections: "none", "idle" or "used"
    born,      \* 1 + the outages before it was opened, 0 if it is not open
    row,       \* the request whose transaction has the row, or Nobody
    kind,      \* what each request does: "read", "write" or "probe"
    pc,        \* how far it has come
    held,      \* the connection its session has, or Nobody
    reply,     \* what it answers, or Nobody
    troubled,  \* history: the database was away sometime during the request
    served,    \* history: it was there sometime during the request
    crowded    \* history: the request found every connection in use

pool == <<slot, born>>
database == <<db, outages, row>>
history == <<troubled, served, crowded>>
vars == <<database, pool, kind, pc, held, reply, history>>

Idle == {c \in Slot : slot[c] = "idle"}
Free == {c \in Slot : slot[c] = "none"}
Alive(c) == db = "up" /\ born[c] = outages + 1
InProgress == {r \in Request : pc[r] \notin {"idle", "done"}}

Init ==
    /\ db = "up"
    /\ outages = 0
    /\ slot = [c \in Slot |-> "none"]
    /\ born = [c \in Slot |-> 0]
    /\ row = Nobody
    /\ kind \in Kinds
    /\ pc = [r \in Request |-> "idle"]
    /\ held = [r \in Request |-> Nobody]
    /\ reply = [r \in Request |-> Nobody]
    /\ troubled = [r \in Request |-> FALSE]
    /\ served = [r \in Request |-> FALSE]
    /\ crowded = [r \in Request |-> FALSE]

----------------------------------------------------------------------------
\* The database stops: transactions and connections are gone.
Stop ==
    /\ db = "up"
    /\ outages < MaxOutages
    /\ db' = "down"
    /\ outages' = outages + 1
    /\ row' = Nobody
    /\ troubled' = [r \in Request |-> troubled[r] \/ r \in InProgress]
    /\ UNCHANGED <<pool, kind, pc, held, reply, served, crowded>>

Restart ==
    /\ db = "down"
    /\ db' = "up"
    /\ served' = [r \in Request |-> served[r] \/ r \in InProgress]
    /\ UNCHANGED <<outages, row, pool, kind, pc, held, reply, troubled, crowded>>

\* A request comes to its first statement.
Arrive(r) ==
    /\ pc[r] = "idle"
    /\ pc' = [pc EXCEPT ![r] = "asking"]
    /\ troubled' = [troubled EXCEPT ![r] = db = "down"]
    /\ served' = [served EXCEPT ![r] = db = "up"]
    /\ UNCHANGED <<database, pool, kind, held, reply, crowded>>

\* r has connection c and goes on at step s.
Take(r, c, s) ==
    /\ slot' = [slot EXCEPT ![c] = "used"]
    /\ held' = [held EXCEPT ![r] = c]
    /\ pc' = [pc EXCEPT ![r] = s]
    /\ UNCHANGED <<database, born, kind, reply, history>>

\* Mutant of Reuse: pool_pre_ping is not set.
ReuseUnchecked(r) ==
    /\ pc[r] \in {"asking", "queued"}
    /\ \E c \in Idle : Take(r, c, "ready")

Reuse(r) ==
    /\ pc[r] \in {"asking", "queued"}
    /\ \E c \in Idle : Take(r, c, "pinging")

\* No connection is idle and another one may be opened.  A request that queues
\* does not notice that until its time there is over.
Open(r) ==
    /\ pc[r] \in {"asking", "queued"}
    /\ Idle = {}
    /\ Free # {}
    /\ Take(r, CHOOSE c \in Free : TRUE, "connecting")

Queue(r) ==
    /\ pc[r] = "asking"
    /\ Idle \cup Free = {}
    /\ pc' = [pc EXCEPT ![r] = "queued"]
    /\ crowded' = [crowded EXCEPT ![r] = TRUE]
    /\ UNCHANGED <<database, pool, kind, held, reply, troubled, served>>

\* The pre-ping; a connection that does not answer is opened anew.
Ping(r) ==
    /\ pc[r] = "pinging"
    /\ pc' = [pc EXCEPT ![r] = IF Alive(held[r]) THEN "ready" ELSE "connecting"]
    /\ UNCHANGED <<database, pool, kind, held, reply, history>>

Connect(r) ==
    /\ pc[r] = "connecting"
    /\ db = "up"
    /\ born' = [born EXCEPT ![held[r]] = outages + 1]
    /\ pc' = [pc EXCEPT ![r] = "ready"]
    /\ UNCHANGED <<database, slot, kind, held, reply, history>>

\* Mutant of Release: the pool keeps every connection.
ReleaseToIdle(r) ==
    /\ slot' = [c \in Slot |-> IF c = held[r] THEN "idle" ELSE slot[c]]
    /\ UNCHANGED born
    /\ held' = [held EXCEPT ![r] = Nobody]
    /\ row' = IF row = r THEN Nobody ELSE row

\* The session gives up the connection it may have, and with it its transaction
\* and the row.  The pool keeps PoolSize connections and closes others, and has
\* nothing to keep of one that was never opened.
Release(r) ==
    LET keep == born[held[r]] # 0 /\ Cardinality(Idle) < PoolSize
    IN  /\ IF held[r] = Nobody THEN UNCHANGED <<pool, row>>
           ELSE /\ slot' = [slot EXCEPT ![held[r]] = IF keep THEN "idle" ELSE "none"]
                /\ born' = [born EXCEPT ![held[r]] = IF keep THEN @ ELSE 0]
                /\ row' = IF row = r THEN Nobody ELSE row
        /\ held' = [held EXCEPT ![r] = Nobody]

Answer(r, p) ==
    /\ reply' = [reply EXCEPT ![r] = p]
    /\ pc' = [pc EXCEPT ![r] = "answering"]
    /\ UNCHANGED <<db, outages, kind, history>>

\* The handler raises, and its session is closed before the answer is built; or
\* it has committed, which gives the connection back too.
Finish(r, p) == Answer(r, p) /\ Release(r)

\* The handler returns: its session is closed when the answer has been sent.
Return(r, p) == Answer(r, p) /\ UNCHANGED <<pool, held, row>>

\* The database is not there, or no longer the one the connection was opened to.
\* health() catches what SQLAlchemy and the operating system raise; the driver's
\* own error, when a database that is starting refuses to be connected to, is
\* neither.  An attempt to connect that fails leaves the session without a
\* connection.
Break(r) ==
    \/ /\ pc[r] = "connecting" /\ db = "down"
       /\ \/ Finish(r, "error")
          \/ kind[r] = "probe" /\ Finish(r, "unreachable")
    \/ /\ pc[r] \in {"ready", "written"} /\ ~Alive(held[r])
       /\ IF kind[r] = "probe" THEN Return(r, "unreachable") ELSE Finish(r, "error")

\* The time in the queue is over: pool_timeout, after which the request would
\* rather open a connection if it may, or the probe's own 3 seconds.
TimeOut(r) ==
    /\ pc[r] = "queued"
    /\ Free = {} \/ kind[r] = "probe"
    /\ Finish(r, IF kind[r] = "probe" THEN "unreachable" ELSE "error")

\* Mutant of Select: the probe answers without having asked the database.
SelectUnasked(r) ==
    \/ pc[r] = "asking" /\ kind[r] = "probe" /\ Return(r, "ok")
    \/ pc[r] = "ready" /\ kind[r] = "read" /\ Alive(held[r]) /\ Return(r, "ok")

Select(r) ==
    /\ pc[r] = "ready"
    /\ kind[r] # "write"
    /\ Alive(held[r])
    /\ \/ Return(r, "ok")
       \/ kind[r] = "read" /\ Finish(r, "missing")

\* The statement of a writer; it waits while another transaction has the row.
Write(r) ==
    /\ pc[r] = "ready"
    /\ kind[r] = "write"
    /\ Alive(held[r])
    /\ row = Nobody
    /\ \/ /\ row' = r
          /\ pc' = [pc EXCEPT ![r] = "written"]
          /\ UNCHANGED <<db, outages, pool, kind, held, reply, history>>
       \/ Finish(r, "missing")

Commit(r) ==
    /\ pc[r] = "written"
    /\ Alive(held[r])
    /\ Finish(r, "ok")

\* Mutant of Fault: get_session closes the session of a handler that returned
\* and forgets that of one that raised.
FaultUnclosed(r) ==
    /\ pc[r] \in {"ready", "written"}
    /\ kind[r] # "probe"
    /\ Alive(held[r])
    /\ Answer(r, "fault")
    /\ held' = [held EXCEPT ![r] = Nobody]
    /\ UNCHANGED <<pool, row>>

\* Something else goes wrong: Postgres refuses a value, the reply cannot be built.
Fault(r) ==
    /\ pc[r] \in {"ready", "written"}
    /\ kind[r] # "probe"
    /\ Alive(held[r])
    /\ Finish(r, "fault")

\* The answer has been sent: the session is closed, and the request forgotten.
Close(r) ==
    /\ pc[r] = "answering"
    /\ pc' = [pc EXCEPT ![r] = "done"]
    /\ Release(r)
    /\ reply' = [reply EXCEPT ![r] = Nobody]
    /\ troubled' = [troubled EXCEPT ![r] = FALSE]
    /\ served' = [served EXCEPT ![r] = FALSE]
    /\ crowded' = [crowded EXCEPT ![r] = FALSE]
    /\ UNCHANGED <<db, outages, kind>>

Progress(r) ==
    \/ Reuse(r) \/ Open(r) \/ Queue(r) \/ TimeOut(r)
    \/ Ping(r) \/ Connect(r) \/ Break(r)
    \/ Select(r) \/ Write(r) \/ Commit(r)
    \/ Close(r)

Next ==
    \/ Stop \/ Restart
    \/ \E r \in Request : Arrive(r) \/ Progress(r) \/ Fault(r)

Spec == Init /\ [][Next]_vars

\* The event loop runs what can run, timers expire, clients read their answers.
\* The database need not come back.
FairSpec == Spec /\ \A r \in Request : WF_vars(Progress(r))

----------------------------------------------------------------------------
\* Every variable has its type; a session has a connection just in the steps
\* that use one, and a row is held by a transaction that wrote it.
TypeOK ==
    /\ db \in {"up", "down"}
    /\ outages \in 0 .. MaxOutages
    /\ slot \in [Slot -> {"none", "idle", "used"}]
    /\ born \in [Slot -> 0 .. MaxOutages + 1]
    /\ kind \in Kinds
    /\ pc \in [Request -> {"idle", "asking", "queued", "pinging", "connecting",
                           "ready", "written", "answering", "done"}]
    /\ held \in [Request -> Slot \cup {Nobody}]
    /\ reply \in [Request -> {"ok", "missing", "fault", "error", "unreachable", Nobody}]
    /\ troubled \in [Request -> BOOLEAN]
    /\ served \in [Request -> BOOLEAN]
    /\ crowded \in [Request -> BOOLEAN]
    /\ \A r \in Request :
         /\ pc[r] \in {"pinging", "connecting", "ready", "written"} => held[r] # Nobody
         /\ pc[r] \in {"idle", "asking", "queued", "done"} => held[r] = Nobody
         /\ pc[r] = "written" => kind[r] = "write"
         /\ reply[r] # Nobody <=> pc[r] = "answering"
    /\ row # Nobody => row \in Request /\ pc[row] = "written" /\ Alive(held[row])

\* No connection is lost and none is shared: whatever became of the requests
\* that used them, failures and outages included, a connection is in use just
\* if a request in progress has it, and the pool keeps no more than it should.
NoConnectionLost ==
    /\ \A c \in Slot :
         slot[c] = "used" <=> \E r \in InProgress : held[r] = c
    /\ \A r, q \in Request : r # q /\ held[r] = held[q] => held[r] = Nobody
    /\ Cardinality(Idle) <= PoolSize

\* Replies are honest.  Success, or the absence of the listing, is told only
\* by a database that was there.  A failure blamed on the database is told only
\* to a request that met an outage or a full pool: an outage that was over
\* before the request came leaves dead connections in the pool, and none of them
\* costs a later request its answer.
RepliesAreHonest ==
    \A r \in Request :
        /\ reply[r] \in {"ok", "missing"} => served[r]
        /\ reply[r] \in {"error", "unreachable"} => troubled[r] \/ crowded[r]

\* It does not take the timers to get the requests out of one another's way: though
\* every connection may be with a writer that waits for the row, and all others wait
\* for a connection, among the requests in progress there is one that waits for none.
CanGoOn(r) ==
    \/ pc[r] \in {"asking", "pinging", "connecting", "written", "answering"}
    \/ pc[r] = "queued" /\ Idle \cup Free # {}
    \/ pc[r] = "ready" /\ (kind[r] = "write" => row = Nobody \/ ~Alive(held[r]))
SomeRequestGoesOn == InProgress # {} => \E r \in InProgress : CanGoOn(r)

\* Every request is answered and its session closed, though writers wait for one
\* another's row while they keep connections others queue for, and whether or
\* not the database comes back.
EveryRequestEnds == \A r \in Request : pc[r] = "asking" ~> pc[r] = "done"
=============================================================================

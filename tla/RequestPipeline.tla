--------------------------- MODULE RequestPipeline --------------------------
(***************************************************************************)
(* The layers every HTTP request passes through, and what they tell its    *)
(* client and the log.  From the outside in:                               *)
(*                                                                         *)
(*   the server, which runs each request in a task of its own and logs     *)
(*     what the application raises;                                        *)
(*   unhandled_exception_handler, which answers 500;                       *)
(*   RequestContextMiddleware, which gives the request its id;             *)
(*   CORS, the handlers of the other exceptions, the routes.               *)
(*                                                                         *)
(* The id is kept in two places: a context variable, which every log       *)
(* record gets its request_id from and which is reset when the middleware  *)
(* is left, and the request's state, which lasts as long as the request.   *)
(***************************************************************************)
EXTENDS Naturals, FiniteSets

CONSTANTS
    Request,     \* the requests
    CallerId,    \* what callers may send as X-Request-ID
    ValidId,     \* those of them the middleware accepts
    Nobody       \* no id ("-" in the log), no answer, no status

\* uuid4 gives a request an id of its own; here, that is the request itself.  A
\* caller may send an id that was minted for another request.
Id == ValidId \cup Request

\* How the layers inside the middleware answer: the route itself, the /health
\* probe without its database, and the handlers of DomainError and of
\* RequestValidationError.  Router and preflight answers are of the same kinds.
Status == {200, 404, 422, 503}

\* A record of the log: the logger, the request_id its formatter prints, the id
\* named in its message, the status it gives; owner is the request it is about.
Record == [owner : Request,
           logger : {"http.access", "app.api.health", "app.errors", "uvicorn.error"},
           request_id : Id \cup {Nobody},
           named : Id \cup {Nobody},
           status : Status \cup {500, Nobody}]

\* An answer: its status, its X-Request-ID, and the id in its body.
Reply == [status : Status \cup {500}, header : Id \cup {Nobody}, body : Id \cup {Nobody}]

ASSUME PipelineAssumption ==
    /\ ValidId \subseteq CallerId
    /\ Nobody \notin CallerId \cup Request
    /\ Nobody \notin Status \cup {500} /\ Nobody \notin Reply

VARIABLES
    path,        \* "/health" or another path, for each request
    incoming,    \* the id its caller sent, or Nobody
    pc,          \* the layer it is in
    id,          \* request_id in its RequestContextMiddleware, or Nobody
    context,     \* the context variable _request_id in its task, or Nobody
    state,       \* request.state.request_id, or Nobody
    status_code, \* the middleware's note of the status, or Nobody
    sent,        \* the answer its client gets, or Nobody
    log          \* the records written so far

vars == <<path, incoming, pc, id, context, state, status_code, sent, log>>

Init ==
    /\ path \in [Request -> {"/health", "other"}]
    /\ incoming \in [Request -> CallerId \cup {Nobody}]
    /\ pc = [r \in Request |-> "outside"]
    /\ id = [r \in Request |-> Nobody]
    /\ context = [r \in Request |-> Nobody]
    /\ state = [r \in Request |-> Nobody]
    /\ status_code = [r \in Request |-> Nobody]
    /\ sent = [r \in Request |-> Nobody]
    /\ log = {}

\* Request r writes a record; RequestIdFilter takes its id from the context.
Write(r, logger, named, status) ==
    log' = log \cup {[owner |-> r, logger |-> logger, request_id |-> context[r],
                      named |-> named, status |-> status]}

----------------------------------------------------------------------------
\* The id a request goes by: its caller's if that is safe to log.
AcceptOrMint(r) == IF incoming[r] \in ValidId THEN incoming[r] ELSE r

\* The middleware up to its call of the application, whichever variables it
\* leaves the id in and whatever status it starts from.
CallApp(r, contexts, states, default) ==
    /\ pc[r] = "outside"
    /\ pc' = [pc EXCEPT ![r] = "inside"]
    /\ id' = [id EXCEPT ![r] = AcceptOrMint(r)]
    /\ context' = contexts
    /\ state' = states
    /\ status_code' = [status_code EXCEPT ![r] = default]
    /\ UNCHANGED <<path, incoming, sent, log>>

\* Mutant of Enter: the id is kept in a variable of the process.
EnterGlobal(r) ==
    CallApp(r, [q \in Request |-> AcceptOrMint(r)],
               [state EXCEPT ![r] = AcceptOrMint(r)], 500)

\* Mutant of Enter: every request has the same state.
EnterSharing(r) ==
    CallApp(r, [context EXCEPT ![r] = AcceptOrMint(r)],
               [q \in Request |-> AcceptOrMint(r)], 500)

\* Mutant of Enter: the status is 200 unless the application says otherwise.
EnterOptimistic(r) ==
    CallApp(r, [context EXCEPT ![r] = AcceptOrMint(r)],
               [state EXCEPT ![r] = AcceptOrMint(r)], 200)

Enter(r) ==
    CallApp(r, [context EXCEPT ![r] = AcceptOrMint(r)],
               [state EXCEPT ![r] = AcceptOrMint(r)], 500)

\* The probe fails, and says so before it answers.
Warn(r) ==
    /\ pc[r] = "inside"
    /\ path[r] = "/health"
    /\ pc' = [pc EXCEPT ![r] = "degraded"]
    /\ Write(r, "app.api.health", Nobody, Nobody)
    /\ UNCHANGED <<path, incoming, id, context, state, status_code, sent>>

\* An inner layer answers with status s, through send_with_request_id.
Respond(r, s) ==
    /\ \/ pc[r] = "inside" /\ s # 503
       \/ pc[r] = "degraded" /\ s = 503
    /\ pc' = [pc EXCEPT ![r] = "started"]
    /\ status_code' = [status_code EXCEPT ![r] = s]
    /\ sent' = [sent EXCEPT ![r] = [status |-> s, header |-> id[r], body |-> Nobody]]
    /\ UNCHANGED <<path, incoming, id, context, state, log>>

\* An exception none of the inner layers handles: in the route before it has
\* answered, or when the session is closed after the answer.
Raise(r) ==
    /\ pc[r] \in {"inside", "started"}
    /\ pc' = [pc EXCEPT ![r] = "raising"]
    /\ UNCHANGED <<path, incoming, id, context, state, status_code, sent, log>>

\* The access record; that of a probe is below the level of the log.
Access(r) ==
    IF path[r] = "/health" THEN UNCHANGED log
    ELSE Write(r, "http.access", Nobody, status_code[r])

\* Mutant of Leave: a return in the finally clause swallows the exception.
LeaveQuietly(r) ==
    /\ pc[r] \in {"started", "raising"}
    /\ pc' = [pc EXCEPT ![r] = "done"]
    /\ Access(r)
    /\ context' = [context EXCEPT ![r] = Nobody]
    /\ UNCHANGED <<path, incoming, id, state, status_code, sent>>

\* The finally clause of the middleware.
Leave(r) ==
    /\ pc[r] \in {"started", "raising"}
    /\ pc' = [pc EXCEPT ![r] = IF pc[r] = "raising" THEN "raised" ELSE "done"]
    /\ Access(r)
    /\ context' = [context EXCEPT ![r] = Nobody]
    /\ UNCHANGED <<path, incoming, id, state, status_code, sent>>

\* Mutant of Handle: the id is taken from the context alone.
HandleByContext(r) ==
    /\ pc[r] = "raised"
    /\ pc' = [pc EXCEPT ![r] = "handled"]
    /\ Write(r, "app.errors", context[r], Nobody)
    /\ sent' = [sent EXCEPT ![r] =
                  IF @ # Nobody THEN @
                  ELSE [status |-> 500, header |-> context[r], body |-> context[r]]]
    /\ UNCHANGED <<path, incoming, id, context, state, status_code>>

\* unhandled_exception_handler logs the exception, and its answer is sent if no
\* other one was; the exception is then raised once more.
Handle(r) ==
    /\ pc[r] = "raised"
    /\ pc' = [pc EXCEPT ![r] = "handled"]
    /\ LET request_id == IF state[r] # Nobody THEN state[r] ELSE context[r]
       IN  /\ Write(r, "app.errors", request_id, Nobody)
           /\ sent' = [sent EXCEPT ![r] =
                         IF @ # Nobody THEN @
                         ELSE [status |-> 500, header |-> request_id, body |-> request_id]]
    /\ UNCHANGED <<path, incoming, id, context, state, status_code>>

\* The server logs it a second time.
Report(r) ==
    /\ pc[r] = "handled"
    /\ pc' = [pc EXCEPT ![r] = "done"]
    /\ Write(r, "uvicorn.error", Nobody, Nobody)
    /\ UNCHANGED <<path, incoming, id, context, state, status_code, sent>>

Progress(r) ==
    \/ Enter(r) \/ Warn(r) \/ (\E s \in Status : Respond(r, s)) \/ Raise(r)
    \/ Leave(r) \/ Handle(r) \/ Report(r)

Next == \E r \in Request : Progress(r)

Spec == Init /\ [][Next]_vars

\* The event loop runs every task that can run.
FairSpec == Spec /\ \A r \in Request : WF_vars(Progress(r))

----------------------------------------------------------------------------
\* Every variable has its type, and the context variable is set just while the
\* task is inside the middleware.
TypeOK ==
    /\ path \in [Request -> {"/health", "other"}]
    /\ incoming \in [Request -> CallerId \cup {Nobody}]
    /\ pc \in [Request -> {"outside", "inside", "degraded", "started", "raising",
                           "raised", "handled", "done"}]
    /\ id \in [Request -> Id \cup {Nobody}]
    /\ context \in [Request -> Id \cup {Nobody}]
    /\ state \in [Request -> Id \cup {Nobody}]
    /\ status_code \in [Request -> Status \cup {500, Nobody}]
    /\ sent \in [Request -> Reply \cup {Nobody}]
    /\ log \in SUBSET Record
    /\ \A r \in Request :
         context[r] # Nobody <=> pc[r] \in {"inside", "degraded", "started", "raising"}

\* No request's id shows up where another's belongs: every record written for a
\* request, and every answer it gets, bears its own id or none.  Two requests
\* have one id only if the caller of one of them sent it.
NoCrossTalk ==
    /\ \A e \in log :
         /\ e.request_id \in {id[e.owner], Nobody}
         /\ e.named \in {id[e.owner], Nobody}
    /\ \A r \in Request : sent[r] # Nobody =>
         sent[r].header \in {id[r], Nobody} /\ sent[r].body \in {id[r], Nobody}
    /\ \A r, q \in Request :
         r # q /\ id[r] = id[q] /\ id[r] # Nobody => id[r] \in {incoming[r], incoming[q]}

\* Every answer bears the request's id, that of the handler outside the middleware
\* too, and a 500 names it in its body.  The id is never one that is not safe.
AnswersBearTheId ==
    \A r \in Request : sent[r] # Nobody =>
        /\ sent[r].header \in Id
        /\ sent[r].header = id[r]
        /\ sent[r].status = 500 => sent[r].body = id[r]

\* The access log agrees with the clients: a request that is over has one access
\* record, with the status its client got, even if the exception that made it
\* 500 was answered outside the middleware, or came after the answer.
AccessLogAgrees ==
    \A r \in Request : pc[r] = "done" /\ path[r] # "/health" =>
        \E e \in log :
            /\ {f \in log : f.owner = r /\ f.logger = "http.access"} = {e}
            /\ sent[r] # Nobody => e.status = sent[r].status
            /\ e.request_id = id[r]

\* Support can find the traceback of a 500: a record of the error names the id
\* that the client was told, though its request_id is "-".
SupportCanFind ==
    \A r \in Request : sent[r] # Nobody /\ sent[r].status = 500 =>
        /\ sent[r].body # Nobody
        /\ \E e \in log : e.owner = r /\ e.logger = "app.errors" /\ e.named = sent[r].body

\* Every request is answered, whatever is raised and wherever.
EveryRequestAnswered ==
    \A r \in Request : pc[r] = "inside" ~> pc[r] = "done" /\ sent[r] # Nobody

\* README.md:130-131 says that the id of a 500 is "in every JSON log line".
EveryLineBearsTheId == \A e \in log : e.request_id = id[e.owner]
=============================================================================

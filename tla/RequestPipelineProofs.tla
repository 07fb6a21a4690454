------------------------ MODULE RequestPipelineProofs -----------------------
(***************************************************************************)
(* What RequestPipeline guarantees for any number of requests and any ids  *)
(* their callers send.  IInv says how each layer leaves the id, the answer *)
(* and the log to the next one; it is inductive, and the safety properties *)
(* follow from it.                                                         *)
(***************************************************************************)
EXTENDS RequestPipeline, TLAPS

USE PipelineAssumption

\* The middleware's request_id and the request's state are the id the request
\* goes by, from its first step to its last.
IdsAgree ==
    \A r \in Request :
        IF pc[r] = "outside" THEN id[r] = Nobody /\ state[r] = Nobody /\ sent[r] = Nobody
        ELSE id[r] = AcceptOrMint(r) /\ state[r] = id[r]

\* The task's context has the request's own id if it has one.
ContextAgrees == \A r \in Request : context[r] \in {id[r], Nobody}

\* So have the records written for it.
LogAgrees ==
    \A e \in log :
        /\ pc[e.owner] # "outside"
        /\ e.request_id \in {id[e.owner], Nobody}
        /\ e.named \in {id[e.owner], Nobody}

\* So has its answer, and what the body of a 500 names is in the log.
AnswerAgrees ==
    \A r \in Request : sent[r] # Nobody =>
        /\ sent[r].header = id[r]
        /\ sent[r].body \in {id[r], Nobody}
        /\ sent[r].status = 500 =>
             /\ sent[r].body = id[r]
             /\ \E e \in log : e.owner = r /\ e.logger = "app.errors" /\ e.named = id[r]

\* The middleware's note of the status is right, or will be once the handler
\* outside has answered.
StatusAgrees ==
    \A r \in Request : pc[r] # "outside" =>
        status_code[r] = IF sent[r] = Nobody THEN 500 ELSE sent[r].status

AccessOf(r) == {e \in log : e.owner = r /\ e.logger = "http.access"}

AccessRecord(r) ==
    [owner |-> r, logger |-> "http.access", request_id |-> id[r],
     named |-> Nobody, status |-> status_code[r]]

\* The access record is written when the middleware is left, and only then.
AccessAgrees ==
    \A r \in Request : path[r] # "/health" =>
        AccessOf(r) = IF pc[r] \in {"raised", "handled", "done"} THEN {AccessRecord(r)} ELSE {}

IInv ==
    /\ TypeOK /\ IdsAgree /\ ContextAgrees /\ LogAgrees
    /\ AnswerAgrees /\ StatusAgrees /\ AccessAgrees

----------------------------------------------------------------------------
LEMMA OwnId ==
    ASSUME TypeOK, NEW r \in Request
    PROVE  AcceptOrMint(r) \in Id /\ AcceptOrMint(r) # Nobody
  BY DEF AcceptOrMint, Id, TypeOK

LEMMA InitIInv == Init => IInv
  BY DEF Init, IInv, TypeOK, IdsAgree, ContextAgrees, LogAgrees, AnswerAgrees,
         StatusAgrees, AccessAgrees, AccessOf

LEMMA TypeStep ==
    ASSUME IInv, NEW r \in Request, Progress(r)
    PROVE  TypeOK'
  <1> USE DEF IInv, TypeOK
  <1>1. CASE Enter(r)
    BY <1>1, OwnId DEF Enter, CallApp
  <1>2. CASE Warn(r)
    BY <1>2 DEF Warn, Write, Record
  <1>3. CASE \E s \in Status : Respond(r, s)
    BY <1>3 DEF Respond, Reply
  <1>4. CASE Raise(r)
    BY <1>4 DEF Raise
  <1>5. CASE Leave(r)
    BY <1>5 DEF Leave, Access, Write, Record
  <1>6. CASE Handle(r)
    BY <1>6 DEF Handle, Write, Record, Reply
  <1>7. CASE Report(r)
    BY <1>7 DEF Report, Write, Record
  <1> QED
    BY <1>1, <1>2, <1>3, <1>4, <1>5, <1>6, <1>7 DEF Progress

LEMMA IdsStep ==
    ASSUME IInv, NEW r \in Request, Progress(r)
    PROVE  IdsAgree'
  <1> USE DEF IInv, TypeOK, IdsAgree, AcceptOrMint
  <1>1. CASE Enter(r)
    BY <1>1 DEF Enter, CallApp
  <1>2. CASE \E s \in Status : Respond(r, s)
    BY <1>2 DEF Respond
  <1>3. CASE Handle(r)
    BY <1>3 DEF Handle
  <1> QED
    BY <1>1, <1>2, <1>3 DEF Progress, Warn, Raise, Leave, Report

LEMMA ContextStep ==
    ASSUME IInv, NEW r \in Request, Progress(r)
    PROVE  ContextAgrees'
  BY DEF IInv, TypeOK, ContextAgrees, Progress, Enter, CallApp, Warn, Respond, Raise,
         Leave, Handle, Report

LEMMA LogStep ==
    ASSUME IInv, NEW r \in Request, Progress(r)
    PROVE  LogAgrees'
  <1> USE DEF IInv, TypeOK, LogAgrees
  <1>1. \A e \in log : e.owner \in Request
    BY DEF Record
  <1>2. CASE Enter(r)
    BY <1>1, <1>2 DEF Enter, CallApp
  <1>3. CASE Warn(r)
    BY <1>1, <1>3 DEF Warn, Write, ContextAgrees
  <1>4. CASE \E s \in Status : Respond(r, s)
    BY <1>1, <1>4 DEF Respond
  <1>5. CASE Raise(r)
    BY <1>1, <1>5 DEF Raise
  <1>6. CASE Leave(r)
    BY <1>1, <1>6 DEF Leave, Access, Write, ContextAgrees
  <1>7. CASE Handle(r)
    BY <1>1, <1>7 DEF Handle, Write, ContextAgrees, IdsAgree
  <1>8. CASE Report(r)
    BY <1>1, <1>8 DEF Report, Write, ContextAgrees
  <1> QED
    BY <1>2, <1>3, <1>4, <1>5, <1>6, <1>7, <1>8 DEF Progress

LEMMA AnswerStep ==
    ASSUME IInv, NEW r \in Request, Progress(r)
    PROVE  AnswerAgrees'
  <1> USE DEF IInv, TypeOK, AnswerAgrees
  <1>1. CASE Enter(r)
    BY <1>1 DEF Enter, CallApp, IdsAgree
  <1>2. CASE Warn(r)
    BY <1>2 DEF Warn, Write
  <1>3. CASE \E s \in Status : Respond(r, s)
    BY <1>3 DEF Respond, Status
  <1>4. CASE Raise(r)
    BY <1>4 DEF Raise
  <1>5. CASE Leave(r)
    BY <1>5 DEF Leave, Access, Write
  <1>6. CASE Handle(r)
    <2>1. state[r] = id[r] /\ id[r] # Nobody
      BY <1>6, OwnId DEF Handle, IdsAgree
    <2> DEFINE e == [owner |-> r, logger |-> "app.errors", request_id |-> context[r],
                     named |-> id[r], status |-> Nobody]
               p == [status |-> 500, header |-> id[r], body |-> id[r]]
    <2>2. /\ log' = log \cup {e}
          /\ sent' = [sent EXCEPT ![r] = IF @ # Nobody THEN @ ELSE p]
          /\ id' = id
      BY <1>6, <2>1 DEF Handle, Write
    <2>3. e \in log' /\ e.owner = r /\ e.logger = "app.errors" /\ e.named = id[r]
      BY <2>2
    <2>4. p.status = 500 /\ p.header = id[r] /\ p.body = id[r]
      OBVIOUS
    <2> HIDE DEF e, p
    <2> QED
      BY <2>2, <2>3, <2>4
  <1>7. CASE Report(r)
    BY <1>7 DEF Report, Write
  <1> QED
    BY <1>1, <1>2, <1>3, <1>4, <1>5, <1>6, <1>7 DEF Progress

LEMMA StatusStep ==
    ASSUME IInv, NEW r \in Request, Progress(r)
    PROVE  StatusAgrees'
  <1> USE DEF IInv, TypeOK, StatusAgrees
  <1>1. CASE Enter(r)
    BY <1>1 DEF Enter, CallApp, IdsAgree
  <1>2. CASE \E s \in Status : Respond(r, s)
    <2>1. PICK s \in Status : Respond(r, s)
      BY <1>2
    <2>2. [status |-> s, header |-> id[r], body |-> Nobody] # Nobody
      BY DEF Reply
    <2> QED
      BY <2>1, <2>2 DEF Respond
  <1>3. CASE Handle(r)
    BY <1>3 DEF Handle
  <1> QED
    BY <1>1, <1>2, <1>3 DEF Progress, Warn, Raise, Leave, Report

LEMMA AccessStep ==
    ASSUME IInv, NEW r \in Request, Progress(r)
    PROVE  AccessAgrees'
  <1> USE DEF IInv, TypeOK, AccessAgrees, AccessOf, AccessRecord
  <1>1. CASE Enter(r)
    BY <1>1 DEF Enter, CallApp
  <1>2. CASE Warn(r)
    BY <1>2 DEF Warn, Write
  <1>3. CASE \E s \in Status : Respond(r, s)
    BY <1>3 DEF Respond
  <1>4. CASE Raise(r)
    BY <1>4 DEF Raise
  <1>5. CASE Leave(r)
    BY <1>5 DEF Leave, Access, Write, ContextAgrees
  <1>6. CASE Handle(r)
    BY <1>6 DEF Handle, Write
  <1>7. CASE Report(r)
    BY <1>7 DEF Report, Write
  <1> QED
    BY <1>1, <1>2, <1>3, <1>4, <1>5, <1>6, <1>7 DEF Progress

LEMMA StutterIInv == IInv /\ UNCHANGED vars => IInv'
  BY DEF IInv, vars, TypeOK, IdsAgree, ContextAgrees, LogAgrees, AnswerAgrees,
         StatusAgrees, AccessAgrees, AccessOf, AccessRecord, AcceptOrMint

----------------------------------------------------------------------------
\* The layers leave the id, the answer and the log to one another as they should.
THEOREM PipelineInvariance == Spec => []IInv
  <1>1. ASSUME IInv, NEW r \in Request, Progress(r)
        PROVE  IInv'
    BY <1>1, TypeStep, IdsStep, ContextStep, LogStep, AnswerStep, StatusStep, AccessStep
       DEF IInv
  <1>2. IInv /\ [Next]_vars => IInv'
    BY <1>1, StutterIInv DEF Next
  <1> QED
    BY InitIInv, <1>2, PTL DEF Spec

\* Every variable keeps its type, and the context variable is set just while the
\* request is inside the middleware.
THEOREM PipelineTypeCorrect == Spec => []TypeOK
  BY PipelineInvariance, PTL DEF IInv

\* No record and no answer bears the id of another request, and two requests have
\* one id only if the caller of one of them sent it.
THEOREM NoIdCrosses == Spec => []NoCrossTalk
  <1>1. IInv => NoCrossTalk
    BY DEF IInv, LogAgrees, AnswerAgrees, IdsAgree, NoCrossTalk, AcceptOrMint
  <1> QED
    BY <1>1, PipelineInvariance, PTL

\* Every answer bears the id of its request, whichever layer it comes from.
THEOREM EveryAnswerBearsTheId == Spec => []AnswersBearTheId
  <1>1. IInv => AnswersBearTheId
    BY OwnId DEF IInv, AnswerAgrees, IdsAgree, AnswersBearTheId
  <1> QED
    BY <1>1, PipelineInvariance, PTL

\* A request that is over has one access record, and it tells what its client got.
THEOREM AccessLogIsTrue == Spec => []AccessLogAgrees
  <1>1. ASSUME IInv, NEW r \in Request, pc[r] = "done", path[r] # "/health"
        PROVE  \E e \in log :
                  /\ {f \in log : f.owner = r /\ f.logger = "http.access"} = {e}
                  /\ sent[r] # Nobody => e.status = sent[r].status
                  /\ e.request_id = id[r]
    <2>1. AccessOf(r) = {AccessRecord(r)}
      BY <1>1 DEF IInv, AccessAgrees
    <2>2. sent[r] # Nobody => status_code[r] = sent[r].status
      BY <1>1 DEF IInv, StatusAgrees
    <2>3. /\ AccessRecord(r).status = status_code[r]
          /\ AccessRecord(r).request_id = id[r]
      BY DEF AccessRecord
    <2>4. AccessRecord(r) \in log
      BY <2>1 DEF AccessOf
    <2> QED
      BY <2>1, <2>2, <2>3, <2>4 DEF AccessOf
  <1>2. IInv => AccessLogAgrees
    BY <1>1 DEF AccessLogAgrees
  <1> QED
    BY <1>2, PipelineInvariance, PTL

\* The id a client is told with a 500 is named in the record of the error.
THEOREM SupportFinds == Spec => []SupportCanFind
  <1>1. IInv => SupportCanFind
    BY OwnId DEF IInv, AnswerAgrees, IdsAgree, SupportCanFind
  <1> QED
    BY <1>1, PipelineInvariance, PTL
=============================================================================

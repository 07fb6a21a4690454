------------------------- MODULE ListingCrudProofs -------------------------
(***************************************************************************)
(* What ListingCrud guarantees for any number of requests, ids, columns    *)
(* and values and any bound on the clock.  IInv is shown to be inductive   *)
(* conjunct by conjunct; the other theorems follow from it.                *)
(***************************************************************************)
EXTENDS ListingCrud, TLAPS

\* What a body makes of a listing is a listing.
LEMMA NewDataType ==
    ASSUME NEW body \in Body
    PROVE  NewData(body) \in Data
  BY DEF NewData, Body, Data

LEMMA MergeType ==
    ASSUME NEW data \in Data, NEW body \in Body
    PROVE  Merge(data, body) \in Data
  BY DEF Merge, Body, Data

LEMMA TouchType ==
    ASSUME NEW row \in Row, NEW body \in Body, NEW now \in Nat
    PROVE  /\ Touch(row, body, now) \in Row
           /\ Touch(row, body, now).data = Merge(row.data, body)
           /\ Touch(row, body, now).created_at = row.created_at
           /\ Touch(row, body, now).updated_at = now
  <1>1. Merge(row.data, body) \in Data
    BY MergeType DEF Row
  <1> QED
    BY <1>1 DEF Touch, Row

\* What an operation consists of.
LEMMA OperationType ==
    ASSUME NEW ids \in SUBSET Id, NEW o \in Operation(ids)
    PROVE  /\ o \in Operation(Id)
           /\ o.kind \in {"create", "patch", "get", "delete"}
           /\ o.id \in ids \cup {NoId}
           /\ o.body \in Body
           /\ o.kind = "create" => o.id = NoId
  <1>1. Blank \in Body
    BY DEF Blank, Body
  <1> QED
    BY <1>1, RequestAssumption DEF Operation

USE RequestAssumption, CrudAssumption

\* The parts of TypeOK that say the same of every request.
LEMMA RequestType ==
    ASSUME TypeOK, NEW r \in Request
    PROVE  /\ op[r] \in Operation(Id)
           /\ op[r].kind \in {"create", "patch", "get", "delete"}
           /\ op[r].id \in Id \cup {NoId}
           /\ op[r].body \in Body
           /\ op[r].kind = "create" => op[r].id = NoId
           /\ Valid(op[r]) /\ op[r].kind # "create" => op[r].id \in Id
           /\ xstart[r] \in Nat
           /\ claim[r] # NoId <=> pc[r] = "written"
           /\ pc[r] = "written" => claim[r] \in Id
  <1>1. op[r] \in Operation(Id)
    BY DEF TypeOK
  <1> QED
    BY <1>1, OperationType DEF TypeOK, Valid

ReplyType ==
    [status : {200, 201, 204, 404, 422, 500}, id : Id \cup {NoId},
     data : Data \cup {Null}]

LEMMA RefusalType ==
    ASSUME TypeOK, NEW r \in Request, NEW s \in {404, 422, 500}
    PROVE  Refusal(s, op[r]) \in ReplyType
  BY RequestType DEF Refusal, Reply, ReplyType

\* A settled handler has no row, a writer has one.
LEMMA SettleType ==
    ASSUME TypeOK, NEW r \in Request, NEW p \in ReplyType \cup {NoReply},
           Settle(r, p), table' \in [Id -> Row \cup {Absent, Gone}]
    PROVE  TypeOK'
  BY DEF TypeOK, Settle, Status, ReplyType

LEMMA WriteType ==
    ASSUME TypeOK, NEW r \in Request, NEW id \in Id,
           NEW row \in Row \cup {Gone}, NEW p \in ReplyType, Write(r, id, row, p)
    PROVE  TypeOK'
  BY DEF TypeOK, Write, Status, ReplyType

LEMMA ListedType ==
    ASSUME TypeOK, NEW id \in Id, Listed(id)
    PROVE  table[id] \in Row /\ table[id].data \in Data
  BY DEF TypeOK, Listed, Row

LEMMA TypeInit == Init => TypeOK
  <1> SUFFICES ASSUME Init PROVE TypeOK
    OBVIOUS
  <1>1. [kind |-> "get", id |-> NoId, body |-> Blank] \in Operation(Id)
    BY DEF Operation
  <1>2. table \in [Id -> Row \cup {Absent, Gone}]
    <2>1. ASSUME NEW id \in Id, Initial[id] # Absent
          PROVE  [data |-> Initial[id], created_at |-> 0, updated_at |-> 0] \in Row
      BY <2>1 DEF Row
    <2> QED
      BY <2>1 DEF Init
  <1> QED
    BY <1>1, <1>2 DEF Init, TypeOK, Status

LEMMA TypeStep == TypeOK /\ Sound /\ [Next]_vars => TypeOK'
  <1> SUFFICES ASSUME TypeOK, Sound, [Next]_vars PROVE TypeOK'
    OBVIOUS
  <1>1. CASE Tick
    BY <1>1 DEF Tick, TypeOK
  <1>2. CASE Crash
    BY <1>2 DEF Crash, TypeOK, Status, InFlight
  <1>3. CASE UNCHANGED vars
    BY <1>3 DEF vars, TypeOK
  <1>4. ASSUME NEW r \in Request, Receive(r) PROVE TypeOK'
    <2>1. PICK o \in Operation({id \in Id : table[id] # Absent}) :
             op' = [op EXCEPT ![r] = o]
      BY <1>4 DEF Receive
    <2>2. o \in Operation(Id)
      BY <2>1, OperationType
    <2> QED
      BY <1>4, <2>1, <2>2 DEF Receive, TypeOK, Status
  <1>5. ASSUME NEW r \in Request, Reject(r) \/ Miss(r) \/ Fail(r) PROVE TypeOK'
    <2>1. \E s \in {404, 422, 500} : Settle(r, Refusal(s, op[r])) /\ UNCHANGED table
      BY <1>5 DEF Reject, Miss, Fail
    <2> QED
      BY <2>1, RefusalType, SettleType DEF TypeOK
  <1>6. ASSUME NEW r \in Request, Begin(r) \/ Wait(r) \/ Answer(r) PROVE TypeOK'
    BY <1>6 DEF Begin, Wait, Answer, TypeOK, Status
  <1>7. ASSUME NEW r \in Request, Insert(r) PROVE TypeOK'
    <2> DEFINE data == NewData(op[r].body)
               row == [data |-> data, created_at |-> xstart[r], updated_at |-> xstart[r]]
    <2>1. PICK id \in Id : Write(r, id, row, Reply(201, id, data))
      BY <1>7 DEF Insert
    <2>2. data \in Data /\ row \in Row
      BY RequestType, NewDataType DEF Row
    <2>3. Reply(201, id, data) \in ReplyType
      BY <2>2 DEF Reply, ReplyType
    <2> HIDE DEF data, row
    <2> QED
      BY <2>1, <2>2, <2>3, WriteType
  <1>8. ASSUME NEW r \in Request, Select(r) PROVE TypeOK'
    <2> DEFINE p == IF Listed(op[r].id) THEN Reply(200, op[r].id, table[op[r].id].data)
                    ELSE Refusal(404, op[r])
    <2>1. Settle(r, p) /\ UNCHANGED table
      BY <1>8 DEF Select
    <2>2. op[r].id \in Id
      BY <1>8, RequestType DEF Select, Sound
    <2>3. p \in ReplyType
      BY <2>2, RefusalType, ListedType DEF Reply, ReplyType
    <2> HIDE DEF p
    <2> QED
      BY <2>1, <2>3, SettleType DEF TypeOK
  <1>9. ASSUME NEW r \in Request, Update(r) PROVE TypeOK'
    <2> DEFINE row == Touch(table[op[r].id], op[r].body, xstart[r])
    <2>1. op[r].id \in Id /\ Listed(op[r].id)
      BY <1>9, RequestType DEF Update, Ready, Sound
    <2>2. row \in Row /\ row.data \in Data
      BY <2>1, RequestType, ListedType, TouchType, MergeType DEF Row
    <2>3. Reply(200, op[r].id, row.data) \in ReplyType
      BY <2>1, <2>2 DEF Reply, ReplyType
    <2>4. Write(r, op[r].id, row, Reply(200, op[r].id, row.data))
      BY <1>9 DEF Update
    <2> HIDE DEF row
    <2> QED
      BY <2>1, <2>2, <2>3, <2>4, WriteType
  <1>10. ASSUME NEW r \in Request, Delete(r) PROVE TypeOK'
    <2>1. op[r].id \in Id
      BY <1>10, RequestType DEF Delete, Ready, Sound
    <2>2. Reply(204, op[r].id, Null) \in ReplyType
      BY <2>1 DEF Reply, ReplyType
    <2> QED
      BY <1>10, <2>1, <2>2, WriteType DEF Delete
  <1>11. ASSUME NEW r \in Request, Commit(r) \/ Unacknowledged(r) PROVE TypeOK'
    <2>1. \E p \in ReplyType \cup {NoReply} : Settle(r, p)
      BY <1>11, RefusalType DEF Commit, Unacknowledged, TypeOK, ReplyType
    <2>2. table' \in [Id -> Row \cup {Absent, Gone}]
      BY <1>11 DEF Commit, Unacknowledged, Publish, TypeOK
    <2> QED
      BY <2>1, <2>2, SettleType
  <1> QED
    BY <1>1, <1>2, <1>3, <1>4, <1>5, <1>6, <1>7, <1>8, <1>9, <1>10, <1>11
       DEF Next, Progress

----------------------------------------------------------------------------
\* A request asks for the same thing once it has been received.
LEMMA ReceiveFrame ==
    ASSUME TypeOK, NEW r \in Request, Receive(r), NEW s \in Request, pc'[s] # "received"
    PROVE  s # r /\ op'[s] = op[s] /\ pc'[s] = pc[s]
  <1>1. PICK o : op' = [op EXCEPT ![r] = o]
    BY DEF Receive
  <1> QED
    BY <1>1 DEF Receive, TypeOK

\* Rows come and go one at a time, and only when a writer commits: a table
\* entry that is not Absent stays so.
LEMMA TableStep ==
    ASSUME TypeOK, OpenWriteIsCurrent, [Next]_vars
    PROVE  \/ UNCHANGED table
           \/ \E r \in Request :
                 /\ pc[r] = "written" /\ claim[r] \in Id
                 /\ version[r] # Absent
                 /\ Publish(r)
                 /\ \E p : Settle(r, p)
  <1>1. ASSUME NEW r \in Request, Commit(r) \/ Unacknowledged(r)
        PROVE  /\ pc[r] = "written" /\ claim[r] \in Id
               /\ version[r] # Absent
               /\ Publish(r)
               /\ \E p : Settle(r, p)
    <2>1. pc[r] = "written" /\ Publish(r) /\ \E p : Settle(r, p)
      BY <1>1 DEF Commit, Unacknowledged
    <2>2. claim[r] \in Id
      BY <2>1, RequestType
    <2>3. Current(r)
      BY <2>1 DEF OpenWriteIsCurrent
    <2>4. version[r] # Absent
      <3>1. CASE op[r].kind = "create"
        <4>1. version[r] \in Row
          BY <2>3, <3>1, RequestType, NewDataType DEF Current, Row
        <4> QED
          BY <4>1
      <3>2. CASE op[r].kind = "patch"
        <4>1. version[r] \in Row
          BY <2>2, <2>3, <3>2, RequestType, ListedType, TouchType DEF Current
        <4> QED
          BY <4>1
      <3>3. CASE op[r].kind \in {"get", "delete"}
        BY <2>3, <3>3 DEF Current
      <3> QED
        BY <3>1, <3>2, <3>3, RequestType
    <2> QED
      BY <2>1, <2>2, <2>4
  <1> QED
    BY <1>1 DEF Next, Progress, Tick, Crash, vars, Receive, Reject, Begin, Insert,
                Select, Update, Delete, Wait, Miss, Fail, Answer, Write

LEMMA OnceListed ==
    ASSUME TypeOK, OpenWriteIsCurrent, [Next]_vars,
           NEW id \in Id, table[id] # Absent
    PROVE  table'[id] # Absent
  BY TableStep DEF Publish, TypeOK

LEMMA SoundStep == TypeOK /\ OpenWriteIsCurrent /\ Sound /\ [Next]_vars => Sound'
  <1> SUFFICES ASSUME TypeOK, OpenWriteIsCurrent, Sound, [Next]_vars PROVE Sound'
    OBVIOUS
  <1>0. TypeOK' /\ \A id \in Id : table[id] # Absent => table'[id] # Absent
    BY OnceListed, TypeStep
  <1>1. ASSUME NEW r \in Request, Receive(r) PROVE Sound'
    <2>1. PICK o \in Operation({id \in Id : table[id] # Absent}) :
             op' = [op EXCEPT ![r] = o]
      BY <1>1 DEF Receive
    <2>2. o.id # NoId => table[o.id] # Absent
      BY <2>1, OperationType
    <2> QED
      BY <1>1, <2>1, <2>2 DEF Receive, Sound, TypeOK
  <1>2. ASSUME \A r \in Request : ~Receive(r) PROVE Sound'
    <2>1. op' = op
      BY <1>2 DEF Next, Progress, Tick, Crash, vars, Reject, Begin, Insert, Select,
                  Update, Delete, Wait, Miss, Commit, Unacknowledged, Fail, Answer,
                  Settle, Write
    <2>2. ASSUME NEW s \in Request,
                 pc'[s] \in {"received", "begun", "waiting", "written"}
          PROVE  /\ pc[s] \in {"received", "begun", "waiting", "written"}
                 /\ pc'[s] = "received" => pc[s] = "received"
                 /\ pc'[s] # "received" => Valid(op[s])
                 /\ pc'[s] = "waiting" => op[s].kind \in {"patch", "delete"}
      BY <1>2, <2>2 DEF Sound, TypeOK, Next, Progress, Tick, Crash, vars, Reject,
                  Begin, Insert, Select, Update, Delete, Ready, Wait, Miss, Commit,
                  Unacknowledged, Fail, Answer, Settle, Write, InFlight
    <2>3. \A s \in Request : op[s].id \in Id \cup {NoId}
      BY RequestType
    <2> QED
      BY <1>0, <2>1, <2>2, <2>3 DEF Sound
  <1> QED
    BY <1>1, <1>2

\* A writer that takes no part in a step stays current if its row does.
LEMMA StaysCurrent ==
    ASSUME TypeOK, NEW s \in Request, pc[s] = "written", Current(s),
           op'[s] = op[s], xstart'[s] = xstart[s], claim'[s] = claim[s],
           version'[s] = version[s], result'[s] = result[s],
           table'[claim[s]] = table[claim[s]]
    PROVE  Current(s)'
  BY DEF Current, Listed

\* A statement makes its handler a writer, current, of a row that was free.
LEMMA WriteCurrent ==
    ASSUME TypeOK, OpenWriteIsCurrent, NEW r \in Request, NEW id \in Id, ~Locked(id),
           NEW row, NEW p, Write(r, id, row, p), Current(r)'
    PROVE  OpenWriteIsCurrent'
  <1>1. ASSUME NEW s \in Request, pc'[s] = "written" PROVE Current(s)'
    <2>1. CASE s = r
      BY <2>1
    <2>2. CASE s # r
      BY <1>1, <2>2, StaysCurrent DEF OpenWriteIsCurrent, Write, TypeOK
    <2> QED
      BY <2>1, <2>2
  <1>2. ASSUME NEW s \in Request, NEW q \in Request, claim'[s] = claim'[q],
               claim'[s] # NoId
        PROVE  s = q
    BY <1>2 DEF OpenWriteIsCurrent, Write, TypeOK, Locked
  <1> QED
    BY <1>1, <1>2 DEF OpenWriteIsCurrent

\* A handler that settles leaves the other writers alone.
LEMMA SettleCurrent ==
    ASSUME TypeOK, OpenWriteIsCurrent, NEW r \in Request, NEW p, Settle(r, p),
           \A s \in Request \ {r} :
              pc[s] = "written" => table'[claim[s]] = table[claim[s]]
    PROVE  OpenWriteIsCurrent'
  <1>1. ASSUME NEW s \in Request, pc'[s] = "written" PROVE Current(s)'
    <2>1. s # r /\ pc[s] = "written"
      BY <1>1 DEF Settle, TypeOK
    <2> QED
      BY <2>1, StaysCurrent DEF OpenWriteIsCurrent, Settle, TypeOK
  <1>2. ASSUME NEW s \in Request, NEW q \in Request, claim'[s] = claim'[q],
               claim'[s] # NoId
        PROVE  s = q
    BY <1>2 DEF OpenWriteIsCurrent, Settle, TypeOK
  <1> QED
    BY <1>1, <1>2 DEF OpenWriteIsCurrent

LEMMA CurrentStep ==
    TypeOK /\ OpenWriteIsCurrent /\ Sound /\ [Next]_vars => OpenWriteIsCurrent'
  <1> SUFFICES ASSUME TypeOK, OpenWriteIsCurrent, Sound, [Next]_vars
               PROVE  OpenWriteIsCurrent'
    OBVIOUS
  <1>0. TypeOK'
    BY TypeStep
  <1>1. CASE Tick \/ UNCHANGED vars
    BY <1>1, StaysCurrent DEF Tick, vars, OpenWriteIsCurrent
  <1>2. CASE Crash
    BY <1>0, <1>2 DEF Crash, OpenWriteIsCurrent, TypeOK
  <1>3. ASSUME NEW r \in Request, Receive(r) \/ Begin(r) \/ Wait(r) \/ Answer(r)
        PROVE  OpenWriteIsCurrent'
    <2>1. ASSUME NEW s \in Request, pc'[s] = "written" PROVE Current(s)'
      <3>1. s # r /\ pc[s] = "written"
        BY <1>3, <2>1 DEF Receive, Begin, Wait, Answer, TypeOK
      <3>2. op'[s] = op[s]
        BY <1>3, <2>1, ReceiveFrame DEF Begin, Wait, Answer
      <3>3. xstart'[s] = xstart[s] /\ UNCHANGED <<table, claim, version, result>>
        BY <1>3, <3>1 DEF Receive, Begin, Wait, Answer, TypeOK
      <3> QED
        BY <3>1, <3>2, <3>3, StaysCurrent DEF OpenWriteIsCurrent
    <2>2. claim' = claim
      BY <1>3 DEF Receive, Begin, Wait, Answer
    <2> QED
      BY <2>1, <2>2 DEF OpenWriteIsCurrent
  <1>4. ASSUME NEW r \in Request, Reject(r) \/ Select(r) \/ Miss(r) \/ Fail(r)
        PROVE  OpenWriteIsCurrent'
    BY <1>4, SettleCurrent DEF Reject, Select, Miss, Fail
  <1>5. ASSUME NEW r \in Request, Commit(r) \/ Unacknowledged(r)
        PROVE  OpenWriteIsCurrent'
    <2>1. ASSUME NEW s \in Request \ {r}, pc[s] = "written"
          PROVE  table'[claim[s]] = table[claim[s]]
      <3>1. claim[r] # NoId /\ claim[s] \in Id
        BY <1>5, <2>1, RequestType DEF Commit, Unacknowledged
      <3>2. claim[s] # claim[r]
        BY <2>1, <3>1 DEF OpenWriteIsCurrent
      <3> QED
        BY <1>5, <3>1, <3>2 DEF Commit, Unacknowledged, Publish, TypeOK
    <2> QED
      BY <1>5, <2>1, SettleCurrent DEF Commit, Unacknowledged
  <1>6. ASSUME NEW r \in Request, Insert(r) PROVE OpenWriteIsCurrent'
    <2> DEFINE data == NewData(op[r].body)
               row == [data |-> data, created_at |-> xstart[r], updated_at |-> xstart[r]]
    <2>1. PICK id \in Id : /\ table[id] = Absent /\ ~Locked(id)
                           /\ Write(r, id, row, Reply(201, id, data))
      BY <1>6 DEF Insert
    <2>2. op[r].kind = "create" /\ UNCHANGED table
      BY <1>6 DEF Insert, Write
    <2>3. Current(r)'
      BY <2>1, <2>2 DEF Current, Write, TypeOK
    <2> QED
      BY <2>1, <2>3, WriteCurrent
  <1>7. ASSUME NEW r \in Request, Update(r) PROVE OpenWriteIsCurrent'
    <2> DEFINE row == Touch(table[op[r].id], op[r].body, xstart[r])
    <2>1. /\ op[r].id \in Id /\ Listed(op[r].id) /\ ~Locked(op[r].id)
          /\ op[r].kind = "patch" /\ UNCHANGED table
          /\ Write(r, op[r].id, row, Reply(200, op[r].id, row.data))
      BY <1>7, RequestType DEF Update, Ready, Sound, Write
    <2>2. row' = row
      BY <2>1 DEF Write, Touch, Merge
    <2> HIDE DEF row
    <2>3. /\ op'[r] = op[r] /\ claim'[r] = op[r].id /\ version'[r] = row
          /\ result'[r] = Reply(200, op[r].id, row.data) /\ UNCHANGED xstart
      BY <2>1 DEF Write, TypeOK
    <2>4. Current(r)'
      BY <2>1, <2>2, <2>3 DEF Current, Listed, row
    <2> QED
      BY <2>1, <2>4, WriteCurrent
  <1>8. ASSUME NEW r \in Request, Delete(r) PROVE OpenWriteIsCurrent'
    <2>1. /\ op[r].id \in Id /\ Listed(op[r].id) /\ ~Locked(op[r].id)
          /\ op[r].kind = "delete" /\ UNCHANGED table
          /\ Write(r, op[r].id, Gone, Reply(204, op[r].id, Null))
      BY <1>8, RequestType DEF Delete, Ready, Sound, Write
    <2>2. Current(r)'
      BY <2>1 DEF Current, Write, Listed, TypeOK
    <2> QED
      BY <2>1, <2>2, WriteCurrent
  <1> QED
    BY <1>1, <1>2, <1>3, <1>4, <1>5, <1>6, <1>7, <1>8 DEF Next, Progress

\* Time: what Stamped says survives every step.
LEMMA StampedStep == IInv /\ [Next]_vars => Stamped'
  <1> SUFFICES ASSUME IInv, [Next]_vars PROVE Stamped'
    OBVIOUS
  <1> USE DEF IInv
  <1>1. TypeOK' /\ Sound'
    BY TypeStep, SoundStep
  <1>2. /\ clock \in Nat /\ clock' \in Nat /\ clock <= clock'
        /\ \A s \in Request : /\ xstart[s] \in Nat /\ xstart'[s] \in Nat
                              /\ xstart'[s] \in {xstart[s], clock}
    BY <1>1 DEF TypeOK, Next, Progress, Tick, Crash, vars, Receive, Reject, Begin,
                Insert, Select, Update, Delete, Wait, Miss, Commit, Unacknowledged,
                Fail, Answer, Settle, Write
  <1>3. ASSUME NEW s \in Request, pc'[s] \in {"begun", "waiting", "written"}
        PROVE  /\ op'[s] = op[s]
               /\ \/ /\ pc[s] \in {"begun", "waiting", "written"}
                     /\ xstart'[s] = xstart[s]
                  \/ pc[s] = "received" /\ xstart'[s] = clock
    <2>1. CASE \E r \in Request : Receive(r)
      BY <1>3, <2>1, ReceiveFrame DEF Receive
    <2>2. CASE ~\E r \in Request : Receive(r)
      BY <1>3, <2>2
         DEF TypeOK, Next, Progress, Tick, Crash, vars, Reject, Begin, Insert, Select,
             Update, Delete, Ready, Wait, Miss, Commit, Unacknowledged, Fail, Answer,
             Settle, Write, InFlight
    <2> QED
      BY <2>1, <2>2
  <1>4. \A s \in Request : xstart'[s] <= clock'
    BY <1>2 DEF Stamped
  \* A listing that was there is no older than the handlers at work on it.
  <1>5. ASSUME NEW id \in Id, Listed(id), Listed(id)',
               table'[id].created_at = table[id].created_at,
               NEW s \in Request, pc'[s] \in {"begun", "waiting", "written"},
               op'[s].id = id
        PROVE  table'[id].created_at <= xstart'[s]
    BY <1>2, <1>3, <1>5 DEF Stamped
  <1>6. ASSUME UNCHANGED table PROVE Stamped'
    <2>1. ASSUME NEW id \in Id, Listed(id)'
          PROVE  /\ table'[id].created_at <= table'[id].updated_at
                 /\ table'[id].created_at <= clock'
                 /\ \A s \in Request :
                       pc'[s] \in {"begun", "waiting", "written"} /\ op'[s].id = id
                          => table'[id].created_at <= xstart'[s]
      <3>1. Listed(id) /\ table'[id] = table[id]
        BY <1>6, <2>1 DEF Listed
      <3>2. table[id].created_at \in Nat
        BY <3>1, ListedType DEF Row
      <3> QED
        BY <1>2, <1>5, <2>1, <3>1, <3>2 DEF Stamped
    <2> QED
      BY <1>4, <2>1 DEF Stamped
  <1>7. ASSUME NEW r \in Request, pc[r] = "written", claim[r] \in Id, Publish(r),
               NEW p, Settle(r, p)
        PROVE  Stamped'
    <2>1. ASSUME NEW id \in Id, Listed(id)'
          PROVE  /\ table'[id].created_at <= table'[id].updated_at
                 /\ table'[id].created_at <= clock'
                 /\ \A s \in Request :
                       pc'[s] \in {"begun", "waiting", "written"} /\ op'[s].id = id
                          => table'[id].created_at <= xstart'[s]
      <3>1. CASE id # claim[r]
        <4>1. Listed(id) /\ table'[id] = table[id]
          BY <1>7, <2>1, <3>1 DEF Publish, Listed, TypeOK
        <4>2. table[id].created_at \in Nat
          BY <4>1, ListedType DEF Row
        <4> QED
          BY <1>2, <1>5, <2>1, <4>1, <4>2 DEF Stamped
      <3>2. CASE id = claim[r] /\ op[r].kind = "create"
        <4>1. /\ Current(r) /\ table[id] = Absent
              /\ table'[id].created_at = xstart[r] /\ table'[id].updated_at = xstart[r]
          BY <1>7, <3>2 DEF OpenWriteIsCurrent, Current, Publish, TypeOK
        <4>2. ASSUME NEW s \in Request, op'[s].id = id,
                     pc'[s] \in {"begun", "waiting", "written"}
              PROVE  FALSE
          BY <1>3, <4>1, <4>2 DEF Sound
        <4> QED
          BY <1>2, <4>1, <4>2 DEF Stamped
      <3>3. CASE id = claim[r] /\ op[r].kind = "patch"
        <4>1. /\ Listed(id) /\ op[r].id = id
              /\ version[r] = Touch(table[id], op[r].body, xstart[r])
          BY <1>7, <3>3 DEF OpenWriteIsCurrent, Current
        <4>2. /\ table'[id].created_at = table[id].created_at
              /\ table'[id].updated_at = xstart[r]
              /\ table[id].created_at \in Nat
          <5>1. table'[id] = version[r] /\ table[id] \in Row
            BY <1>7, <3>3, <4>1, ListedType DEF Publish, TypeOK
          <5> QED
            BY <4>1, <5>1, TouchType, RequestType DEF Row
        <4>3. table[id].created_at <= xstart[r]
          BY <1>7, <4>1 DEF Stamped
        <4> QED
          BY <1>2, <1>5, <2>1, <4>1, <4>2, <4>3 DEF Stamped
      <3>4. CASE id = claim[r] /\ op[r].kind = "delete"
        BY <1>7, <2>1, <3>4 DEF OpenWriteIsCurrent, Current, Publish, Listed, TypeOK
      <3> QED
        BY <1>7, <3>1, <3>2, <3>3, <3>4 DEF OpenWriteIsCurrent, Current
    <2> QED
      BY <1>4, <2>1 DEF Stamped
  <1> QED
    BY <1>6, <1>7, TableStep


\* A 204 is only ever come by when the handler of a DELETE commits.
LEMMA DeletedBy ==
    ASSUME IInv, [Next]_vars, NEW s \in Request, NEW id \in Id, Deleted(s, id)'
    PROVE  \/ Deleted(s, id)
           \/ /\ Commit(s) /\ pc[s] = "written"
              /\ claim[s] = id /\ Listed(id) /\ version[s] = Gone
  <1> USE DEF IInv
  <1>1. CASE Commit(s)
    <2>1. pc[s] = "written" /\ Current(s) /\ result[s] = Reply(204, id, Null)
      BY <1>1 DEF Commit, Settle, Deleted, OpenWriteIsCurrent, TypeOK
    <2>2. claim[s] = id /\ Listed(id) /\ version[s] = Gone
      BY <2>1 DEF Current, Reply
    <2> QED
      BY <1>1, <2>1, <2>2
  <1>2. CASE Crash \/ Tick \/ UNCHANGED vars
    BY <1>2 DEF Crash, Tick, vars, Deleted, InFlight, TypeOK
  <1>3. ASSUME NEW r \in Request, Next, s # r,
               Receive(r) \/ Progress(r) \/ Unacknowledged(r) \/ Fail(r)
        PROVE  Deleted(s, id)
    BY <1>3 DEF Deleted, TypeOK, Progress, Receive, Reject, Begin, Insert, Select,
                Update, Delete, Wait, Miss, Commit, Unacknowledged, Fail, Answer,
                Settle, Write
  <1>4. CASE Receive(s) \/ Begin(s) \/ Insert(s) \/ Update(s) \/ Delete(s) \/ Wait(s)
    BY <1>4 DEF Deleted, TypeOK, Receive, Begin, Insert, Update, Delete, Wait, Write
  <1>5. CASE Answer(s)
    BY <1>5 DEF Deleted, Answer
  <1>6. ASSUME Reject(s) \/ Miss(s) \/ Select(s) \/ Unacknowledged(s) \/ Fail(s)
        PROVE  FALSE
    <2>1. PICK p : Settle(s, p) /\ p.status # 204
      BY <1>6 DEF Reject, Miss, Select, Unacknowledged, Fail, Refusal, Reply
    <2> QED
      BY <2>1 DEF Settle, Deleted, TypeOK, Reply
  <1> QED
    BY <1>1, <1>2, <1>3, <1>4, <1>5, <1>6 DEF Next, Progress

LEMMA DeletedStep == IInv /\ [Next]_vars => DeletedIsGone' /\ DeletedOnce'
  <1> SUFFICES ASSUME IInv, [Next]_vars PROVE DeletedIsGone' /\ DeletedOnce'
    OBVIOUS
  <1>1. ASSUME NEW id \in Id, table[id] = Gone PROVE table'[id] = Gone
    <2>1. ASSUME NEW r \in Request, pc[r] = "written" PROVE claim[r] # id
      <3>1. Current(r)
        BY <2>1 DEF IInv, OpenWriteIsCurrent
      <3> QED
        BY <1>1, <3>1 DEF Current, Listed
    <2> QED
      BY <1>1, <2>1, TableStep DEF IInv, Publish, TypeOK
  <1>2. ASSUME NEW r \in Request, NEW id \in Id, Deleted(r, id)'
        PROVE  table'[id] = Gone
    <2>1. CASE Deleted(r, id)
      BY <1>1, <2>1 DEF IInv, DeletedIsGone
    <2>2. CASE Commit(r) /\ claim[r] = id /\ version[r] = Gone
      BY <2>2 DEF Commit, Publish, IInv, TypeOK
    <2> QED
      BY <1>2, <2>1, <2>2, DeletedBy
  <1>3. ASSUME NEW id \in Id, NEW r \in Request, NEW s \in Request,
               Deleted(r, id)', Deleted(s, id)'
        PROVE  r = s
    <2>1. CASE Deleted(r, id) /\ Deleted(s, id)
      BY <2>1 DEF IInv, DeletedOnce
    <2>2. CASE ~Deleted(r, id) /\ ~Deleted(s, id)
      <3>1. /\ claim[r] = id /\ claim[s] = id
        BY <1>3, <2>2, DeletedBy
      <3> QED
        BY <3>1 DEF IInv, OpenWriteIsCurrent
    <2>3. CASE Deleted(r, id) # Deleted(s, id)
      <3>1. table[id] = Gone
        BY <2>3 DEF IInv, DeletedIsGone, Deleted
      <3>2. Listed(id)
        BY <1>3, <2>3, DeletedBy DEF Deleted
      <3> QED
        BY <3>1, <3>2 DEF Listed
    <2> QED
      BY <2>1, <2>2, <2>3 DEF Deleted
  <1> QED
    BY <1>2, <1>3 DEF DeletedIsGone, DeletedOnce

----------------------------------------------------------------------------
\* The invariant holds at the start, and every step keeps it.
LEMMA Initially == Init => IInv
  <1> SUFFICES ASSUME Init PROVE IInv
    OBVIOUS
  <1>1. TypeOK
    BY TypeInit
  <1>2. OpenWriteIsCurrent /\ Sound /\ DeletedIsGone /\ DeletedOnce
    BY DEF Init, OpenWriteIsCurrent, Sound, DeletedIsGone, DeletedOnce, Deleted
  <1>3. Stamped
    BY DEF Init, Stamped, Listed
  <1> QED
    BY <1>1, <1>2, <1>3 DEF IInv

LEMMA Inductive == IInv /\ [Next]_vars => IInv'
  BY TypeStep, CurrentStep, SoundStep, StampedStep, DeletedStep DEF IInv

\* The inductive invariant holds in every behaviour: ListingCrud's handlers,
\* transactions, locks and failures never leave it.
THEOREM Invariance == Spec => []IInv
  BY Initially, Inductive, PTL DEF Spec

\* Every variable has its type, and the handlers between their statement and
\* their COMMIT are the ones that hold a row.
THEOREM TypeCorrect == Spec => []TypeOK
  <1>1. IInv => TypeOK
    BY DEF IInv
  <1> QED
    BY <1>1, Invariance, PTL

\* No update is lost: what an open transaction is about to commit and its
\* handler to answer was computed from the row committed now, and nobody else
\* has written that row.
THEOREM NoLostUpdate == Spec => []OpenWriteIsCurrent
  <1>1. IInv => OpenWriteIsCurrent
    BY DEF IInv
  <1> QED
    BY <1>1, Invariance, PTL

\* Of the DELETEs that race for a listing at most one is answered 204.
THEOREM OneDeletion == Spec => []DeletedOnce
  <1>1. IInv => DeletedOnce
    BY DEF IInv
  <1> QED
    BY <1>1, Invariance, PTL

\* A listing is never last updated before it was created, whichever
\* transactions wrote it and in whichever order they committed.
THEOREM StampsInOrder == Spec => []UpdatedNotBeforeCreated
  <1>1. IInv => UpdatedNotBeforeCreated
    BY DEF IInv, Stamped, UpdatedNotBeforeCreated
  <1> QED
    BY <1>1, Invariance, PTL

----------------------------------------------------------------------------
\* The refinement.  The vocabulary of the two specifications is the same.
LEMMA SameWords ==
    /\ \A o : Store!Valid(o) <=> Valid(o)
    /\ \A ids : Store!Operation(ids) = Operation(ids)
    /\ \A body : Store!NewData(body) = NewData(body)
    /\ \A data, body : Store!Merge(data, body) = Merge(data, body)
    /\ \A s, o : Store!Refusal(s, o) = Refusal(s, o)
    /\ \A s, id, data : Store!Reply(s, id, data) = Reply(s, id, data)
  BY DEF Store!Valid, Valid, Store!ValidCreate, ValidCreate, Store!ValidPatch, ValidPatch,
         Store!Operation, Operation, Store!Blank, Blank, Store!NewData, NewData,
         Store!Merge, Merge, Store!Refusal, Refusal, Store!Reply, Reply

\* A listing is stored if it is listed, and then its contents are.
LEMMA StoredListing ==
    ASSUME TypeOK, NEW id \in Id
    PROVE  /\ Store!Listed(id) <=> Listed(id)
           /\ Listed(id) => Stored[id] = table[id].data
           /\ ~Listed(id) => Stored[id] = table[id]
           /\ Stored[id] = Absent <=> table[id] = Absent
  BY ListedType DEF Stored, Listed, Store!Listed, Row

\* A handler that settles with p decides p.
LEMMA SettleDecides ==
    ASSUME TypeOK, NEW r \in Request, NEW p, Settle(r, p),
           pc[r] \in {"received", "begun", "waiting", "written"}
    PROVE  Store!Decide(r, Stored', p)
  <1>1. /\ pc' = [pc EXCEPT ![r] = "settled"]
        /\ result' = [result EXCEPT ![r] = p]
        /\ pc \in [Request -> Status] /\ DOMAIN result = Request
        /\ UNCHANGED op
    BY DEF Settle, TypeOK
  <1>2. Phase[r] = "invoked"
    BY DEF Phase
  <1>3. Phase' = [Phase EXCEPT ![r] = "decided"]
    BY <1>1 DEF Phase
  <1>4. Replied' = [Replied EXCEPT ![r] = p]
    BY <1>1 DEF Replied
  <1> QED
    BY <1>1, <1>2, <1>3, <1>4 DEF Store!Decide

LEMMA StoredFixed == ASSUME UNCHANGED table PROVE Stored' = Stored
  BY DEF Stored, Listed

\* Until it settles, a handler's progress does not show.
LEMMA HiddenStep ==
    ASSUME TypeOK, NEW r \in Request,
           Begin(r) \/ Insert(r) \/ Update(r) \/ Delete(r) \/ Wait(r)
    PROVE  UNCHANGED <<Stored, Phase, op, Replied>>
  <1>1. PICK st \in {"begun", "waiting", "written"} : pc' = [pc EXCEPT ![r] = st]
    BY DEF Begin, Insert, Update, Delete, Wait, Write
  <1>2. /\ pc[r] \in {"received", "begun", "waiting"}
        /\ \A s \in Request \ {r} : result'[s] = result[s]
        /\ UNCHANGED <<table, op>>
    BY DEF Begin, Insert, Update, Delete, Ready, Wait, Write, TypeOK
  <1>3. Phase' = Phase /\ Replied' = Replied
    BY <1>1, <1>2 DEF Phase, Replied, TypeOK
  <1> QED
    BY <1>2, <1>3, StoredFixed

\* A COMMIT is the instant at which the request takes effect, whether or not it
\* is acknowledged: p is what the client is told.
LEMMA PublishStep ==
    ASSUME IInv, NEW r \in Request, pc[r] = "written", Publish(r),
           NEW p, Settle(r, p)
    PROVE  \/ /\ Store!Create(r, claim[r], p)
              /\ claim[r] \in Id
              /\ result[r] = Reply(201, claim[r], NewData(op[r].body))
           \/ /\ Store!Change(r, p)
              /\ result[r] = Reply(200, op[r].id, Merge(Stored[op[r].id], op[r].body))
           \/ /\ Store!Remove(r, p)
              /\ result[r] = Reply(204, op[r].id, Null)
  <1> DEFINE id == claim[r]
  <1>1. /\ TypeOK /\ Valid(op[r]) /\ id \in Id /\ Current(r)
        /\ table' = [table EXCEPT ![id] = version[r]]
    BY RequestType DEF IInv, OpenWriteIsCurrent, Sound, Publish
  <1>2. Store!Decide(r, Stored', p)
    BY <1>1, SettleDecides
  \* What the store holds afterwards.
  <1>3. /\ version[r] \in Row => Stored' = [Stored EXCEPT ![id] = version[r].data]
        /\ version[r] = Gone => Stored' = [Stored EXCEPT ![id] = Gone]
    <2>1. \A x \in Id \ {id} : table'[x] = table[x] /\ (Listed(x)' <=> Listed(x))
      BY <1>1 DEF Listed, TypeOK
    <2>2. table'[id] = version[r]
      BY <1>1 DEF TypeOK
    <2>3. CASE version[r] \in Row
      BY <2>1, <2>2, <2>3 DEF Stored, Listed
    <2>4. CASE version[r] = Gone
      BY <2>1, <2>2, <2>4 DEF Stored, Listed
    <2> QED
      BY <2>3, <2>4
  <1>4. CASE op[r].kind = "create"
    <2>1. /\ table[id] = Absent
          /\ version[r] \in Row /\ version[r].data = NewData(op[r].body)
          /\ result[r] = Reply(201, id, NewData(op[r].body))
      BY <1>1, <1>4, RequestType, NewDataType DEF Current, Row
    <2>2. Stored[id] = Absent /\ Stored' = [Stored EXCEPT ![id] = NewData(op[r].body)]
      <3>1. Stored[id] = Absent
        BY <1>1, <2>1, StoredListing
      <3> QED
        BY <1>3, <2>1, <3>1
    <2> QED
      BY <1>1, <1>2, <1>4, <2>1, <2>2, SameWords DEF Store!Create
  <1>5. CASE op[r].kind = "patch"
    <2>1. /\ id = op[r].id /\ Listed(id)
          /\ version[r] = Touch(table[id], op[r].body, xstart[r])
          /\ result[r] = Reply(200, id, version[r].data)
      BY <1>1, <1>5 DEF Current
    <2>2. version[r] \in Row /\ version[r].data = Merge(table[id].data, op[r].body)
      BY <1>1, <2>1, RequestType, ListedType, TouchType
    <2>3. /\ Stored[id] = table[id].data
          /\ Stored' = [Stored EXCEPT ![id] = Merge(Stored[id], op[r].body)]
          /\ Store!Listed(op[r].id)
      <3>1. Stored[id] = table[id].data /\ Store!Listed(id)
        BY <1>1, <2>1, StoredListing
      <3> QED
        BY <1>3, <2>1, <2>2, <3>1
    <2> QED
      BY <1>1, <1>2, <1>5, <2>1, <2>2, <2>3, SameWords DEF Store!Change
  <1>6. CASE op[r].kind = "delete"
    <2>1. /\ id = op[r].id /\ Listed(id) /\ version[r] = Gone
          /\ result[r] = Reply(204, id, Null)
      BY <1>1, <1>6 DEF Current
    <2>2. Stored' = [Stored EXCEPT ![id] = Gone] /\ Store!Listed(op[r].id)
      BY <1>1, <1>3, <2>1, StoredListing
    <2> QED
      BY <1>1, <1>2, <1>6, <2>1, <2>2, SameWords DEF Store!Remove
  <1> QED
    BY <1>1, <1>4, <1>5, <1>6 DEF Current

LEMMA StoreInit == Init => Store!Init
  <1> SUFFICES ASSUME Init PROVE Store!Init
    OBVIOUS
  <1>1. TypeOK
    BY TypeInit
  <1>2. Stored \in [Id -> Data \cup {Absent}]
    <2>1. ASSUME NEW id \in Id PROVE Stored[id] \in Data \cup {Absent}
      <3>1. CASE Initial[id] = Absent
        BY <3>1 DEF Stored, Listed, Init
      <3>2. CASE Initial[id] # Absent
        <4>1. /\ table[id].data = Initial[id] /\ Initial[id] \in Data
              /\ table[id] \in Row
          BY <3>2 DEF Init, Row
        <4> QED
          BY <4>1 DEF Stored, Listed
      <3> QED
        BY <3>1, <3>2
    <2> QED
      BY <2>1 DEF Stored
  <1>3. /\ Phase = [r \in Request |-> "idle"]
        /\ Replied = [r \in Request |-> NoReply]
        /\ op = [r \in Request |-> [kind |-> "get", id |-> NoId, body |-> Blank]]
    BY DEF Init, Phase, Replied
  <1>4. Store!Data = Data /\ Store!Blank = Blank
    BY DEF Store!Data, Data, Store!Blank, Blank
  <1> QED
    BY <1>2, <1>3, <1>4 DEF Store!Init

LEMMA StoreStep == IInv /\ [Next]_vars => [Store!Next]_(Store!vars)
  <1> SUFFICES ASSUME IInv, [Next]_vars PROVE [Store!Next]_(Store!vars)
    OBVIOUS
  <1>0. TypeOK
    BY DEF IInv
  <1>1. CASE Tick \/ UNCHANGED vars
    <2>1. UNCHANGED <<table, pc, op, result>>
      BY <1>1 DEF Tick, vars
    <2> QED
      BY <2>1, StoredFixed DEF Store!vars, Phase, Replied
  <1>2. CASE Crash
    <2>1. UNCHANGED <<Stored, op>>
      BY <1>2, StoredFixed DEF Crash
    <2>2. Store!InFlight = InFlight
      BY <1>0 DEF Store!InFlight, InFlight, Phase, TypeOK, Status
    <2>3. Phase' = [r \in Request |-> IF r \in InFlight THEN "lost" ELSE Phase[r]]
      BY <1>0, <1>2 DEF Crash, Phase, InFlight, TypeOK, Status
    <2>4. Replied' = [r \in Request |-> IF r \in InFlight THEN NoReply ELSE Replied[r]]
      BY <1>0, <1>2 DEF Crash, Replied, InFlight, TypeOK, Status
    <2> QED
      BY <2>1, <2>2, <2>3, <2>4 DEF Store!Next, Store!Crash
  <1>3. ASSUME NEW r \in Request, Receive(r) PROVE Store!Invoke(r)
    <2>1. PICK o \in Operation({id \in Id : table[id] # Absent}) :
             op' = [op EXCEPT ![r] = o]
      BY <1>3 DEF Receive
    <2>2. {id \in Id : Stored[id] # Absent} = {id \in Id : table[id] # Absent}
      BY <1>0, StoredListing
    <2>3. /\ Phase[r] = "idle" /\ Phase' = [Phase EXCEPT ![r] = "invoked"]
          /\ UNCHANGED <<Stored, Replied>>
      <3>1. /\ pc[r] = "idle" /\ pc' = [pc EXCEPT ![r] = "received"]
            /\ UNCHANGED <<table, result>>
        BY <1>3 DEF Receive
      <3>2. Phase[r] = "idle"
        BY <3>1 DEF Phase
      <3>4. Phase' = [Phase EXCEPT ![r] = "invoked"]
        BY <1>0, <3>1 DEF Phase, TypeOK
      <3>3. Replied' = Replied
        BY <1>0, <3>1 DEF Replied, TypeOK
      <3> QED
        BY <3>1, <3>2, <3>3, <3>4, StoredFixed
    <2> QED
      BY <2>1, <2>2, <2>3, SameWords DEF Store!Invoke
  <1>4. ASSUME NEW r \in Request, Reject(r) PROVE Store!Refuse(r)
    <2>1. Store!Decide(r, Stored, Refusal(422, op[r]))
      BY <1>0, <1>4, SettleDecides, StoredFixed DEF Reject
    <2> QED
      BY <1>4, <2>1, SameWords DEF Reject, Store!Refuse
  <1>5. ASSUME NEW r \in Request, Fail(r) PROVE Store!Refuse(r)
    <2>1. Store!Decide(r, Stored, Refusal(500, op[r]))
      BY <1>0, <1>5, SettleDecides, StoredFixed DEF Fail
    <2> QED
      BY <2>1, SameWords DEF Store!Refuse
  \* A handler whose row is not there answers 404.
  <1>6. ASSUME NEW r \in Request, pc[r] \in {"begun", "waiting"},
               op[r].kind # "create", ~Listed(op[r].id),
               Settle(r, Refusal(404, op[r])), UNCHANGED table
        PROVE  Store!Refuse(r)
    <2>1. Store!Decide(r, Stored, Refusal(404, op[r]))
      BY <1>0, <1>6, SettleDecides, StoredFixed
    <2>2. Valid(op[r]) /\ op[r].id \in Id
      BY <1>0, <1>6, RequestType DEF IInv, Sound
    <2> QED
      BY <1>0, <1>6, <2>1, <2>2, SameWords, StoredListing DEF Store!Refuse
  <1>7. ASSUME NEW r \in Request, Miss(r) PROVE Store!Refuse(r)
    BY <1>6, <1>7 DEF Miss
  <1>8. ASSUME NEW r \in Request, Select(r) PROVE Store!Show(r) \/ Store!Refuse(r)
    <2>1. CASE ~Listed(op[r].id)
      BY <1>6, <1>8, <2>1 DEF Select
    <2>2. CASE Listed(op[r].id)
      <3>1. Valid(op[r]) /\ op[r].id \in Id /\ op[r].kind = "get"
        BY <1>0, <1>8, RequestType DEF IInv, Sound, Select
      <3>2. Store!Decide(r, Stored, Reply(200, op[r].id, Stored[op[r].id]))
        BY <1>0, <1>8, <2>2, <3>1, SettleDecides, StoredFixed, StoredListing DEF Select
      <3> QED
        BY <1>0, <2>2, <3>1, <3>2, SameWords, StoredListing DEF Store!Show
    <2> QED
      BY <2>1, <2>2
  <1>9. ASSUME NEW r \in Request, Commit(r) PROVE Store!Succeed(r)
    <2>1. pc[r] = "written" /\ Publish(r) /\ Settle(r, result[r])
      BY <1>9 DEF Commit
    <2> QED
      BY <2>1, PublishStep, SameWords DEF Store!Succeed
  <1>10. ASSUME NEW r \in Request, Unacknowledged(r) PROVE Store!SucceedUnnoticed(r)
    <2>1. pc[r] = "written" /\ Publish(r) /\ Settle(r, Refusal(500, op[r]))
      BY <1>10 DEF Unacknowledged
    <2> QED
      BY <2>1, PublishStep, SameWords DEF Store!SucceedUnnoticed
  <1>11. ASSUME NEW r \in Request, Answer(r) PROVE Store!Answer(r)
    <2>1. /\ pc[r] = "settled" /\ pc' = [pc EXCEPT ![r] = "answered"]
          /\ UNCHANGED <<table, op, result>>
      BY <1>11 DEF Answer
    <2>2. Phase[r] = "decided"
      BY <2>1 DEF Phase
    <2>4. Phase' = [Phase EXCEPT ![r] = "answered"]
      BY <1>0, <2>1 DEF Phase, TypeOK
    <2>3. Replied' = Replied
      BY <1>0, <2>1 DEF Replied, TypeOK
    <2> QED
      BY <2>1, <2>2, <2>3, <2>4, StoredFixed DEF Store!Answer
  <1>12. ASSUME NEW r \in Request,
                Begin(r) \/ Insert(r) \/ Update(r) \/ Delete(r) \/ Wait(r)
         PROVE  UNCHANGED Store!vars
    BY <1>0, <1>12, HiddenStep DEF Store!vars
  <1> QED
    BY <1>1, <1>2, <1>3, <1>4, <1>5, <1>7, <1>8, <1>9, <1>10, <1>11, <1>12
       DEF Next, Progress, Store!Next

\* The handlers implement the atomic store: whatever interleaves, waits, fails
\* or crashes, every request takes effect at one instant and its answer is true.
THEOREM Atomicity == Spec => AtomicRequests
  BY Initially, Invariance, StoreInit, StoreStep, PTL DEF Spec, Store!Spec, AtomicRequests
=============================================================================

------------------------ MODULE ConnectionPoolProofs ------------------------
(***************************************************************************)
(* What ConnectionPool guarantees for any number of requests, any size of  *)
(* the pool and any number of outages.  IInv adds to the properties what a *)
(* request that met no outage may count on; it is inductive.               *)
(***************************************************************************)
EXTENDS ConnectionPool, FiniteSetTheorems, TLAPS

USE PoolAssumption

\* What a request in progress may count on: the history knows the outage that is
\* on, a queue means a full pool, and a connection that was good when it was
\* handed out is good unless there was an outage since.
Prospects ==
    \A r \in Request : r \in InProgress =>
        /\ db = "down" => troubled[r]
        /\ db = "up" => served[r]
        /\ pc[r] = "queued" => crowded[r]
        /\ pc[r] \in {"ready", "written"} /\ ~troubled[r] => Alive(held[r])

IInv == TypeOK /\ NoConnectionLost /\ Prospects /\ RepliesAreHonest

----------------------------------------------------------------------------
LEMMA IdleFinite ==
    /\ IsFiniteSet(Slot)
    /\ IsFiniteSet(Idle)
    /\ Cardinality(Idle) \in Nat
  <1>1. IsFiniteSet(Slot)
    BY FS_Interval DEF Slot
  <1>2. Idle \subseteq Slot
    BY DEF Idle
  <1> QED
    BY <1>1, <1>2, FS_Subset, FS_CardinalityType

LEMMA IdleShrinks ==
    ASSUME NoConnectionLost, Idle' \subseteq Idle
    PROVE  Cardinality(Idle') <= PoolSize
  <1>1. Cardinality(Idle') \in Nat /\ Cardinality(Idle') <= Cardinality(Idle)
    BY IdleFinite, FS_Subset, FS_CardinalityType
  <1> QED
    BY <1>1, IdleFinite DEF NoConnectionLost

\* A connection given back: either the pool has room for it, or it is closed.
LEMMA ReleaseIdle ==
    ASSUME TypeOK, NoConnectionLost, NEW r \in Request, Release(r),
           held[r] # Nobody => r \in InProgress
    PROVE  Cardinality(Idle') <= PoolSize
  <1> DEFINE keep == born[held[r]] # 0 /\ Cardinality(Idle) < PoolSize
  <1>1. CASE held[r] = Nobody \/ ~keep
    <2>1. Idle' \subseteq Idle
      BY <1>1 DEF Release, Idle, TypeOK, pool
    <2> QED
      BY <2>1, IdleShrinks
  <1>2. CASE held[r] # Nobody /\ keep
    <2>1. held[r] \in Slot /\ slot[held[r]] = "used"
      BY <1>2 DEF TypeOK, NoConnectionLost
    <2>2. Idle' = Idle \cup {held[r]} /\ held[r] \notin Idle
      BY <1>2, <2>1 DEF Release, Idle, TypeOK
    <2>3. Cardinality(Idle') = Cardinality(Idle) + 1
      BY <2>2, IdleFinite, FS_AddElement
    <2> QED
      BY <1>2, <2>3, IdleFinite
  <1> QED
    BY <1>1, <1>2

LEMMA ReleaseType ==
    ASSUME TypeOK, NEW r \in Request, Release(r)
    PROVE  /\ slot' \in [Slot -> {"none", "idle", "used"}]
           /\ born' \in [Slot -> 0 .. MaxOutages + 1]
           /\ held' = [held EXCEPT ![r] = Nobody]
           /\ row' \in {row, Nobody}
           /\ row = r => row' = Nobody
           /\ \A c \in Slot : c # held[r] => slot'[c] = slot[c] /\ born'[c] = born[c]
           /\ held[r] \in Slot => slot'[held[r]] # "used"
           /\ held[r] \notin Slot => slot' = slot
  <1>1. row = r => held[r] # Nobody
    BY DEF TypeOK
  <1> QED
    BY <1>1 DEF Release, TypeOK, pool

\* Giving the connection back, as part of a step after which r has none.
LEMMA ReleaseLosesNothing ==
    ASSUME TypeOK, NoConnectionLost, NEW r \in Request, Release(r),
           r \in InProgress,
           \A q \in Request \ {r} : pc'[q] = pc[q]
    PROVE  NoConnectionLost'
  <1>1. Cardinality(Idle') <= PoolSize
    BY ReleaseIdle
  <1>2. \A c \in Slot : slot'[c] = "used" <=> \E q \in InProgress' : held'[q] = c
    BY ReleaseType DEF NoConnectionLost, InProgress, TypeOK
  <1>3. \A q, p \in Request : q # p /\ held'[q] = held'[p] => held'[q] = Nobody
    BY ReleaseType DEF NoConnectionLost, TypeOK
  <1> QED
    BY <1>1, <1>2, <1>3 DEF NoConnectionLost

ReplyValue == {"ok", "missing", "fault", "error", "unreachable"}

\* What may be told to a request.
MayTell(r, p) ==
    /\ p \in {"ok", "missing"} => served[r]
    /\ p \in {"error", "unreachable"} => troubled[r] \/ crowded[r]

----------------------------------------------------------------------------
LEMMA InitIInv == Init => IInv
  <1> SUFFICES ASSUME Init PROVE IInv
    OBVIOUS
  <1>1. Idle = {}
    BY DEF Init, Idle
  <1>2. Cardinality(Idle) <= PoolSize
    BY <1>1, FS_EmptySet
  <1> QED
    BY <1>2 DEF Init, IInv, TypeOK, NoConnectionLost, Prospects, RepliesAreHonest, InProgress

\* A request takes a connection.
LEMMA TakeStep ==
    ASSUME IInv, NEW r \in Request, pc[r] \in {"asking", "queued"},
           NEW c \in Slot, slot[c] # "used",
           NEW s \in {"pinging", "connecting"}, Take(r, c, s)
    PROVE  IInv'
  <1> USE DEF Take, database, history
  <1>1. held[r] = Nobody /\ reply[r] = Nobody /\ row # r /\ r \in InProgress
    BY DEF IInv, TypeOK, InProgress
  <1>2. TypeOK'
    BY <1>1 DEF IInv, TypeOK, Alive
  <1>3. Cardinality(Idle') <= PoolSize
    <2>1. Idle' \subseteq Idle
      BY DEF Idle, IInv, TypeOK
    <2> QED
      BY <2>1, IdleShrinks DEF IInv
  <1>4. NoConnectionLost'
    BY <1>1, <1>3 DEF IInv, TypeOK, NoConnectionLost, InProgress
  <1>5. Prospects'
    BY <1>1 DEF IInv, TypeOK, Prospects, InProgress, Alive
  <1>6. RepliesAreHonest'
    BY DEF IInv, RepliesAreHonest
  <1> QED
    BY <1>2, <1>4, <1>5, <1>6 DEF IInv

\* A request is answered after its session has given up its connection.
LEMMA FinishStep ==
    ASSUME IInv, NEW r \in Request, r \in InProgress, pc[r] # "answering",
           NEW p \in ReplyValue, MayTell(r, p), Finish(r, p)
    PROVE  IInv'
  <1>1. Answer(r, p) /\ Release(r)
    BY DEF Finish
  <1>2. TypeOK'
    <2>1. (row # Nobody => row \in Request /\ pc[row] = "written" /\ Alive(held[row]))'
      <3> SUFFICES ASSUME row' # Nobody
                   PROVE  (row \in Request /\ pc[row] = "written" /\ Alive(held[row]))'
        OBVIOUS
      <3>1. row' = row /\ row # r /\ row \in Request /\ pc[row] = "written"
            /\ held[row] \in Slot /\ Alive(held[row])
        BY <1>1, ReleaseType DEF IInv, TypeOK
      <3>2. held[row] # held[r]
        BY <3>1 DEF IInv, NoConnectionLost
      <3>3. held'[row] = held[row] /\ born'[held[row]] = born[held[row]] /\ pc'[row] = pc[row]
        BY <1>1, <3>1, <3>2, ReleaseType DEF IInv, TypeOK, Answer
      <3> QED
        BY <1>1, <3>1, <3>3 DEF Alive, Answer
    <2>2. slot' \in [Slot -> {"none", "idle", "used"}] /\ born' \in [Slot -> 0 .. MaxOutages + 1]
          /\ held' = [held EXCEPT ![r] = Nobody]
      BY <1>1, ReleaseType DEF IInv
    <2> QED
      BY <1>1, <2>1, <2>2 DEF IInv, TypeOK, Answer, ReplyValue, history
  <1>3. NoConnectionLost'
    BY <1>1, ReleaseLosesNothing DEF IInv, TypeOK, Answer
  <1>4. Prospects'
    BY <1>1, ReleaseType DEF IInv, TypeOK, Prospects, NoConnectionLost, InProgress,
                             Alive, Answer, history
  <1>5. RepliesAreHonest'
    BY <1>1 DEF IInv, TypeOK, RepliesAreHonest, MayTell, Answer, history
  <1> QED
    BY <1>2, <1>3, <1>4, <1>5 DEF IInv

\* A request is answered while its session still has its connection.
LEMMA ReturnStep ==
    ASSUME IInv, NEW r \in Request, pc[r] = "ready",
           NEW p \in ReplyValue, MayTell(r, p), Return(r, p)
    PROVE  IInv'
  <1> USE DEF Return, Answer, pool, history
  <1>1. row # r /\ r \in InProgress
    BY DEF IInv, TypeOK, InProgress
  <1>2. TypeOK'
    BY <1>1 DEF IInv, TypeOK, Alive, ReplyValue
  <1>3. Idle' = Idle
    BY DEF Idle
  <1>4. NoConnectionLost'
    BY <1>1, <1>3 DEF IInv, TypeOK, NoConnectionLost, InProgress
  <1>5. Prospects'
    BY <1>1 DEF IInv, TypeOK, Prospects, InProgress, Alive
  <1>6. RepliesAreHonest'
    BY DEF IInv, TypeOK, RepliesAreHonest, MayTell
  <1> QED
    BY <1>2, <1>4, <1>5, <1>6 DEF IInv

\* A step that leaves every connection with whom it is.
LEMMA SamePool ==
    ASSUME NoConnectionLost, slot' = slot, held' = held,
           \A q \in Request : held[q] # Nobody => (q \in InProgress <=> (q \in InProgress)')
    PROVE  NoConnectionLost'
  <1>1. Idle' = Idle
    BY DEF Idle
  <1>2. Nobody \notin Slot
    OBVIOUS
  <1> QED
    BY <1>1, <1>2 DEF NoConnectionLost, InProgress

\* The database goes and comes back.
LEMMA OutageStep ==
    ASSUME IInv, Stop \/ Restart
    PROVE  IInv'
  <1> USE DEF pool, InProgress
  <1>1. CASE Stop
    <2>1. TypeOK'
      BY <1>1 DEF IInv, TypeOK, Stop
    <2>2. NoConnectionLost'
      BY <1>1, SamePool DEF IInv, Stop
    <2>3. Prospects'
      BY <1>1 DEF IInv, TypeOK, Prospects, Stop
    <2>4. RepliesAreHonest'
      BY <1>1 DEF IInv, TypeOK, RepliesAreHonest, Stop
    <2> QED
      BY <2>1, <2>2, <2>3, <2>4 DEF IInv
  <1>2. CASE Restart
    <2>1. TypeOK'
      BY <1>2 DEF IInv, TypeOK, Restart, Alive
    <2>2. NoConnectionLost'
      BY <1>2, SamePool DEF IInv, Restart
    <2>3. Prospects'
      BY <1>2 DEF IInv, TypeOK, Prospects, Restart, Alive
    <2>4. RepliesAreHonest'
      BY <1>2 DEF IInv, TypeOK, RepliesAreHonest, Restart
    <2> QED
      BY <2>1, <2>2, <2>3, <2>4 DEF IInv
  <1> QED
    BY <1>1, <1>2

LEMMA ArriveStep ==
    ASSUME IInv, NEW r \in Request, Arrive(r)
    PROVE  IInv'
  <1> USE DEF Arrive, database, pool
  <1>1. held[r] = Nobody /\ reply[r] = Nobody /\ row # r
    BY DEF IInv, TypeOK
  <1>2. TypeOK'
    BY <1>1 DEF IInv, TypeOK, Alive
  <1>3. NoConnectionLost'
    BY <1>1, SamePool DEF IInv, TypeOK, InProgress
  <1>4. Prospects'
    BY DEF IInv, TypeOK, Prospects, InProgress, Alive
  <1>5. RepliesAreHonest'
    BY <1>1 DEF IInv, TypeOK, RepliesAreHonest
  <1> QED
    BY <1>2, <1>3, <1>4, <1>5 DEF IInv

LEMMA QueueStep ==
    ASSUME IInv, NEW r \in Request, Queue(r)
    PROVE  IInv'
  <1> USE DEF Queue, database, pool
  <1>1. row # r
    BY DEF IInv, TypeOK
  <1>2. TypeOK'
    BY <1>1 DEF IInv, TypeOK, Alive
  <1>3. NoConnectionLost'
    BY SamePool DEF IInv, TypeOK, InProgress
  <1>4. Prospects'
    BY DEF IInv, TypeOK, Prospects, InProgress, Alive
  <1>5. RepliesAreHonest'
    BY DEF IInv, TypeOK, RepliesAreHonest
  <1> QED
    BY <1>2, <1>3, <1>4, <1>5 DEF IInv

LEMMA PingStep ==
    ASSUME IInv, NEW r \in Request, Ping(r)
    PROVE  IInv'
  <1> USE DEF Ping, database, pool, history
  <1>1. row # r
    BY DEF IInv, TypeOK
  <1>2. TypeOK'
    BY <1>1 DEF IInv, TypeOK, Alive
  <1>3. NoConnectionLost'
    BY SamePool DEF IInv, TypeOK, InProgress
  <1>4. Prospects'
    BY DEF IInv, TypeOK, Prospects, InProgress, Alive
  <1>5. RepliesAreHonest'
    BY DEF IInv, RepliesAreHonest
  <1> QED
    BY <1>2, <1>3, <1>4, <1>5 DEF IInv

\* A connection is opened; whoever has another one keeps it as it is.
LEMMA ConnectStep ==
    ASSUME IInv, NEW r \in Request, Connect(r)
    PROVE  IInv'
  <1> USE DEF Connect, database, history
  <1>1. row # r /\ held[r] \in Slot
    BY DEF IInv, TypeOK
  <1>2. \A q \in Request \ {r} : held[q] \in Slot => born'[held[q]] = born[held[q]]
    BY <1>1 DEF IInv, TypeOK, NoConnectionLost
  <1>3. TypeOK'
    BY <1>1, <1>2 DEF IInv, TypeOK, Alive
  <1>4. NoConnectionLost'
    BY SamePool DEF IInv, TypeOK, InProgress
  <1>5. Prospects'
    BY <1>1, <1>2 DEF IInv, TypeOK, Prospects, InProgress, Alive
  <1>6. RepliesAreHonest'
    BY DEF IInv, RepliesAreHonest
  <1> QED
    BY <1>3, <1>4, <1>5, <1>6 DEF IInv

\* A writer's statement takes the row.
LEMMA HaveRowStep ==
    ASSUME IInv, NEW r \in Request, pc[r] = "ready", kind[r] = "write",
           Alive(held[r]), row' = r, pc' = [pc EXCEPT ![r] = "written"],
           UNCHANGED <<db, outages, pool, kind, held, reply, history>>
    PROVE  IInv'
  <1> USE DEF pool, history
  <1>1. TypeOK'
    BY DEF IInv, TypeOK, Alive
  <1>2. NoConnectionLost'
    BY SamePool DEF IInv, TypeOK, InProgress
  <1>3. Prospects'
    BY DEF IInv, TypeOK, Prospects, InProgress, Alive
  <1>4. RepliesAreHonest'
    BY DEF IInv, RepliesAreHonest
  <1> QED
    BY <1>1, <1>2, <1>3, <1>4 DEF IInv

\* The answer is on its way; the session gives up what it still has.
LEMMA CloseStep ==
    ASSUME IInv, NEW r \in Request, Close(r)
    PROVE  IInv'
  <1> USE DEF Close
  <1>1. row # r
    BY DEF IInv, TypeOK
  <1>2. row' # Nobody => row' = row
    BY ReleaseType DEF IInv
  <1>3. \A q \in Request \ {r} : held[q] \in Slot =>
            held'[q] = held[q] /\ born'[held[q]] = born[held[q]]
    BY ReleaseType DEF IInv, TypeOK, NoConnectionLost
  <1>4. TypeOK'
    BY <1>1, <1>2, <1>3, ReleaseType DEF IInv, TypeOK, Alive
  <1>5. NoConnectionLost'
    BY ReleaseLosesNothing DEF IInv, TypeOK, InProgress
  <1>6. Prospects'
    BY <1>3 DEF IInv, TypeOK, Prospects, InProgress, Alive
  <1>7. RepliesAreHonest'
    BY DEF IInv, TypeOK, RepliesAreHonest
  <1> QED
    BY <1>4, <1>5, <1>6, <1>7 DEF IInv

\* The remaining steps take, finish or return.
LEMMA ProgressStep ==
    ASSUME IInv, NEW r \in Request, Progress(r) \/ Fault(r)
    PROVE  IInv'
  <1> USE DEF MayTell, ReplyValue
  <1>1. pc[r] \notin {"idle", "done"} <=> r \in InProgress
    BY DEF InProgress
  <1>2. /\ pc[r] = "queued" => crowded[r]
        /\ pc[r] = "connecting" /\ db = "down" => troubled[r]
        /\ pc[r] \in {"ready", "written"} /\ ~Alive(held[r]) => troubled[r]
        /\ pc[r] \in {"ready", "written"} /\ Alive(held[r]) => served[r]
    BY <1>1 DEF IInv, TypeOK, Prospects, Alive
  <1>3. CASE Reuse(r)
    BY <1>3, TakeStep DEF Reuse, Idle
  <1>4. CASE Open(r)
    <2>1. (CHOOSE c \in Free : TRUE) \in Free
      BY <1>4 DEF Open
    <2> QED
      BY <1>4, <2>1, TakeStep DEF Open, Free
  <1>5. CASE TimeOut(r)
    BY <1>1, <1>2, <1>5, FinishStep DEF TimeOut
  <1>6. CASE Break(r)
    <2>1. CASE pc[r] = "connecting"
      BY <1>1, <1>2, <1>6, <2>1, FinishStep DEF Break
    <2>2. CASE pc[r] \in {"ready", "written"} /\ kind[r] # "probe"
      BY <1>1, <1>2, <1>6, <2>2, FinishStep DEF Break
    <2>3. CASE pc[r] = "ready" /\ kind[r] = "probe"
      BY <1>1, <1>2, <1>6, <2>3, ReturnStep DEF Break
    <2>4. pc[r] = "written" => kind[r] # "probe"
      BY DEF IInv, TypeOK
    <2> QED
      BY <1>6, <2>1, <2>2, <2>3, <2>4 DEF Break
  <1>7. CASE Select(r)
    BY <1>1, <1>2, <1>7, FinishStep, ReturnStep DEF Select
  <1>8. CASE Write(r)
    BY <1>1, <1>2, <1>8, FinishStep, HaveRowStep DEF Write
  <1>9. CASE Commit(r)
    BY <1>1, <1>2, <1>9, FinishStep DEF Commit
  <1>10. CASE Fault(r)
    BY <1>1, <1>2, <1>10, FinishStep DEF Fault
  <1> QED
    BY <1>3, <1>4, <1>5, <1>6, <1>7, <1>8, <1>9, <1>10, QueueStep, PingStep, ConnectStep,
       CloseStep DEF Progress

LEMMA StutterIInv == IInv /\ UNCHANGED vars => IInv'
  BY DEF IInv, vars, database, pool, history, TypeOK, NoConnectionLost, Prospects,
         RepliesAreHonest, InProgress, Idle, Alive

----------------------------------------------------------------------------
\* The pool, the sessions and the history agree in every state.
THEOREM PoolInvariance == Spec => []IInv
  <1>1. IInv /\ [Next]_vars => IInv'
    BY OutageStep, ArriveStep, ProgressStep, StutterIInv DEF Next
  <1> QED
    BY InitIInv, <1>1, PTL DEF Spec

\* Every variable keeps its type, and a session has a connection just in the
\* steps that use one.
THEOREM PoolTypeCorrect == Spec => []TypeOK
  BY PoolInvariance, PTL DEF IInv

\* Whatever fails and whenever the database goes away, no connection is lost to
\* the pool and none is shared.
THEOREM PoolLosesNothing == Spec => []NoConnectionLost
  BY PoolInvariance, PTL DEF IInv

\* Success is told only by a database that was there, and the database is blamed
\* only for an outage during the request or by one that found the pool full.
THEOREM HonestReplies == Spec => []RepliesAreHonest
  BY PoolInvariance, PTL DEF IInv

\* Requests never wait for one another in a circle, whatever the size of the pool:
\* who waits for a connection waits for those that have one, who waits for the row
\* for the transaction that has it, and that one waits for nobody.
THEOREM RequestsNeverStuck == Spec => []SomeRequestGoesOn
  <1>1. ASSUME IInv, NEW r \in InProgress, \A q \in InProgress : ~CanGoOn(q)
        PROVE  FALSE
    <2>1. ASSUME NEW q \in InProgress, held[q] # Nobody
          PROVE  FALSE
      <3>1. q \in Request /\ pc[q] = "ready" /\ row # Nobody
        BY <1>1, <2>1 DEF IInv, TypeOK, InProgress, CanGoOn
      <3>2. row \in InProgress /\ pc[row] = "written"
        BY <3>1, <1>1 DEF IInv, TypeOK, InProgress
      <3> QED
        BY <1>1, <3>2 DEF CanGoOn
    <2>2. pc[r] = "queued" /\ Idle \cup Free = {}
      BY <1>1, <2>1 DEF IInv, TypeOK, InProgress, CanGoOn
    <2>3. 1 \in Slot /\ slot[1] = "used"
      <3>1. 1 \in Slot
        BY DEF Slot
      <3> QED
        BY <1>1, <2>2, <3>1 DEF Idle, Free, IInv, TypeOK
    <2>4. PICK q \in InProgress : held[q] = 1
      BY <1>1, <2>3 DEF IInv, NoConnectionLost
    <2>5. held[q] # Nobody
      BY <2>3, <2>4
    <2> QED
      BY <2>1, <2>4, <2>5
  <1>2. IInv => SomeRequestGoesOn
    BY <1>1 DEF SomeRequestGoesOn
  <1> QED
    BY <1>2, PoolInvariance, PTL
=============================================================================

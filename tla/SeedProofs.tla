----------------------------- MODULE SeedProofs -----------------------------
(***************************************************************************)
(* What Seed guarantees for any number of runs, any --seed and --count and *)
(* any writes of the API: concurrent seeds stay out of each other's way    *)
(* and are never all stuck, every batch appears whole, resets reproduce    *)
(* their batch, and batches are fresh.  IInv adds to the properties that   *)
(* the table is finite and that only a run in its transaction holds        *)
(* anything; Quiet and Orderly are the other two invariants.               *)
(***************************************************************************)
EXTENDS Seed, FiniteSetTheorems, TLAPS

USE SeedAssumption

HoldsNothing ==
    \A p \in Run :
        /\ pc[p] \notin {"deleting", "inserting"} => erased[p] = {}
        /\ pc[p] # "inserting" => inserted[p] = 0

IInv == TypeOK /\ OneOwner /\ HoldsNothing /\ IsFiniteSet(table)

----------------------------------------------------------------------------
\* The ids a run has inserted.
LEMMA InsertedType ==
    ASSUME TypeOK, NEW p \in Run
    PROVE  /\ Inserted(p) \subseteq SeedId
           /\ Inserted(p) \cap PostedId = {}
           /\ IsFiniteSet(Inserted(p))
           /\ inserted[p] = 0 => Inserted(p) = {}
  <1>1. cmd[p].seed \in SeedArg /\ found[p] \in Nat /\ inserted[p] \in Nat
    BY DEF TypeOK, Command
  <1>2. Inserted(p) \subseteq SeedId
    BY <1>1 DEF Inserted, Draw, SeedId
  <1>3. Inserted(p) \cap PostedId = {}
    BY <1>2 DEF SeedId
  <1>4. IsFiniteSet(Inserted(p))
    <2> DEFINE draws == [n \in 1..inserted[p] |-> Draw(p, n)]
    <2>1. draws \in Surjection(1..inserted[p], Inserted(p))
      BY DEF Surjection, Inserted
    <2> DEFINE k == inserted[p]
    <2>2. IsFiniteSet(1..k)
      <3>1. k \in Int
        BY <1>1
      <3> HIDE DEF k
      <3> QED
        BY <3>1, FS_Interval
    <2> QED
      BY <2>1, <2>2, FS_Surjection
  <1>5. inserted[p] = 0 => Inserted(p) = {}
    BY DEF Inserted
  <1> QED
    BY <1>2, <1>3, <1>4, <1>5

LEMMA SameInserted ==
    ASSUME NEW p \in Run, cmd'[p] = cmd[p], found'[p] = found[p], inserted'[p] = inserted[p]
    PROVE  Inserted(p)' = Inserted(p)
  BY DEF Inserted, Draw

\* What runs hold does not meet, whether they are under way or not.
LEMMA Apart ==
    ASSUME IInv, NEW p \in Run
    PROVE  /\ Inserted(p) \cap (table \ erased[p]) = {}
           /\ \A q \in Run : p # q => /\ Inserted(p) \cap Inserted(q) = {}
                                      /\ erased[p] \cap erased[q] = {}
  <1>1. \A q \in Run : q \notin Running => Inserted(q) = {} /\ erased[q] = {}
    BY InsertedType DEF IInv, HoldsNothing, Running
  <1> QED
    BY <1>1 DEF IInv, OneOwner

----------------------------------------------------------------------------
LEMMA InitIInv == Init => IInv
  <1> SUFFICES ASSUME Init PROVE IInv
    OBVIOUS
  <1>1. TypeOK
    <2>1. pc \in [Run -> {"idle"}] /\ inserted \in [Run -> {0}] /\ found \in [Run -> {0}]
      BY DEF Init
    <2>2. 0 \in 0..MaxCount
      OBVIOUS
    <2>3. /\ target \in [Run -> SUBSET table] /\ erased \in [Run -> SUBSET table]
          /\ late \in [Run -> SUBSET posted]
      BY DEF Init
    <2>4. overlapped \in [Run -> BOOLEAN] /\ removed \in BOOLEAN
      BY DEF Init
    <2>5. table \subseteq SeedId \cup PostedId /\ posted \subseteq PostedId /\ cmd \in [Run -> Command]
      BY DEF Init
    <2> QED
      BY <2>1, <2>2, <2>3, <2>4, <2>5 DEF TypeOK
  <1>2. \A p \in Run : Inserted(p) = {}
    BY <1>1, InsertedType DEF Init
  <1>3. OneOwner
    BY <1>2 DEF Init, OneOwner, Running
  <1>4. IsFiniteSet(table)
    BY FS_EmptySet DEF Init
  <1> QED
    BY <1>1, <1>3, <1>4 DEF Init, IInv, HoldsNothing

LEMMA StartStep ==
    ASSUME IInv, NEW p \in Run, Start(p)
    PROVE  IInv'
  <1> USE DEF Start
  <1>1. TypeOK'
    BY DEF IInv, TypeOK
  <1>2. \A q \in Run : Inserted(q)' = Inserted(q)
    BY SameInserted
  <1>3. OneOwner'
    BY <1>2, Apart DEF OneOwner, Running
  <1>4. HoldsNothing'
    BY DEF IInv, TypeOK, HoldsNothing
  <1> QED
    BY <1>1, <1>3, <1>4 DEF IInv

LEMMA CountStep ==
    ASSUME IInv, NEW p \in Run, Count(p)
    PROVE  IInv'
  <1> USE DEF Count, history
  <1>1. Cardinality(table) \in Nat
    BY FS_CardinalityType DEF IInv
  <1>2. TypeOK'
    BY <1>1 DEF IInv, TypeOK
  <1>3. inserted[p] = 0
    BY DEF IInv, HoldsNothing
  <1>4. Inserted(p)' = {}
    BY <1>3 DEF Inserted
  <1>5. \A q \in Run \ {p} : Inserted(q)' = Inserted(q)
    BY SameInserted DEF IInv, TypeOK
  <1>6. OneOwner'
    BY <1>4, <1>5, Apart DEF OneOwner, Running
  <1>7. HoldsNothing'
    BY DEF IInv, TypeOK, HoldsNothing
  <1> QED
    BY <1>2, <1>6, <1>7 DEF IInv

LEMMA DeleteStep ==
    ASSUME IInv, NEW p \in Run, DeleteAll(p) \/ Erase(p) \/ DeleteDone(p)
    PROVE  IInv'
  <1> USE DEF history
  <1>1. \A q \in Run : Inserted(q)' = Inserted(q)
    BY SameInserted DEF DeleteAll, Erase, DeleteDone
  <1>2. CASE DeleteAll(p)
    <2>1. TypeOK'
      BY <1>2 DEF DeleteAll, IInv, TypeOK
    <2>2. OneOwner'
      BY <1>1, <1>2, Apart DEF OneOwner, Running, DeleteAll
    <2>3. HoldsNothing'
      BY <1>2 DEF DeleteAll, IInv, TypeOK, HoldsNothing
    <2> QED
      BY <1>2, <2>1, <2>2, <2>3 DEF DeleteAll, IInv
  <1>3. CASE Erase(p)
    <2>1. PICK id \in target[p] :
            /\ \A q \in Run : id \notin erased[q]
            /\ target' = [target EXCEPT ![p] = @ \ {id}]
            /\ erased' = [erased EXCEPT ![p] = @ \cup {id}]
      BY <1>3 DEF Erase
    <2>2. TypeOK'
      BY <1>3, <2>1 DEF Erase, IInv, TypeOK
    <2>3. OneOwner'
      <3>1. \A q \in Run : Inserted(q)' \cap (table' \ erased'[q]) = {}
        BY <1>1, <1>3, <2>1, Apart DEF Erase, IInv, TypeOK
      <3>2. \A q, s \in Run : q # s => /\ Inserted(q)' \cap Inserted(s)' = {}
                                       /\ erased'[q] \cap erased'[s] = {}
        BY <1>1, <2>1, Apart DEF IInv, TypeOK
      <3> QED
        BY <3>1, <3>2 DEF OneOwner, Running
    <2>4. HoldsNothing'
      BY <1>3, <2>1 DEF Erase, IInv, TypeOK, HoldsNothing
    <2> QED
      BY <1>3, <2>2, <2>3, <2>4 DEF Erase, IInv
  <1>4. CASE DeleteDone(p)
    <2>1. TypeOK'
      BY <1>4 DEF DeleteDone, IInv, TypeOK
    <2>2. OneOwner'
      BY <1>1, <1>4, Apart DEF OneOwner, Running, DeleteDone
    <2>3. HoldsNothing'
      BY <1>4 DEF DeleteDone, IInv, TypeOK, HoldsNothing
    <2> QED
      BY <1>4, <2>1, <2>2, <2>3 DEF DeleteDone, IInv
  <1> QED
    BY <1>2, <1>3, <1>4

\* The primary key, and waiting for whoever has the key, keep batches apart.
LEMMA InsertStep ==
    ASSUME IInv, NEW p \in Run, Insert(p)
    PROVE  IInv'
  <1> USE DEF Insert, history
  <1> DEFINE id == Draw(p, inserted[p] + 1)
  <1>1. inserted[p] \in Nat /\ cmd[p].count \in 1..MaxCount
    BY DEF IInv, TypeOK, Command
  <1>2. TypeOK'
    BY <1>1 DEF IInv, TypeOK
  <1>3. Inserted(p)' = Inserted(p) \cup {id}
    BY <1>1 DEF IInv, TypeOK, Inserted, Draw
  <1>4. \A q \in Run \ {p} : Inserted(q)' = Inserted(q)
    BY SameInserted DEF IInv, TypeOK
  <1>5. \A q \in Run \ {p} : id \notin Inserted(q)
    <2>1. \A q \in Running \ {p} : id \notin Inserted(q)
      BY DEF Blockers
    <2>2. \A q \in Run : q \notin Running => Inserted(q) = {}
      BY InsertedType DEF IInv, HoldsNothing, Running
    <2> QED
      BY <2>1, <2>2
  <1>6. id \notin table \ erased[p]
    BY DEF Taken
  <1> HIDE DEF id
  <1>7. OneOwner'
    <2>1. \A q \in Run : Inserted(q)' \cap (table' \ erased'[q]) = {}
      <3>1. \A q \in Run : table' \ erased'[q] = table \ erased[q]
        OBVIOUS
      <3>2. ASSUME NEW q \in Run \ {p} PROVE Inserted(q)' \cap (table' \ erased'[q]) = {}
        <4>1. Inserted(q)' = Inserted(q)
          BY <1>4
        <4>2. Inserted(q) \cap (table \ erased[q]) = {}
          BY Apart
        <4> QED
          BY <3>1, <4>1, <4>2
      <3>3. Inserted(p)' \cap (table' \ erased'[p]) = {}
        <4>1. Inserted(p) \cap (table \ erased[p]) = {}
          BY Apart
        <4> QED
          BY <1>3, <1>6, <3>1, <4>1
      <3> QED
        BY <3>2, <3>3
    <2>2. \A q, s \in Run : q # s => /\ Inserted(q)' \cap Inserted(s)' = {}
                                     /\ erased'[q] \cap erased'[s] = {}
      BY <1>3, <1>4, <1>5, Apart
    <2> QED
      BY <2>1, <2>2 DEF OneOwner, Running
  <1>8. HoldsNothing'
    BY DEF IInv, TypeOK, HoldsNothing
  <1> QED
    BY <1>2, <1>7, <1>8 DEF IInv

\* A run ends, and the table gains nothing or its whole batch.
LEMMA EndStep ==
    ASSUME IInv, NEW p \in Run, NEW s \in {"done", "collided", "failed"}, End(p, s),
           \/ table' = table
           \/ table' = After(p),
           target' \in [Run -> SUBSET table'], removed' \in BOOLEAN
    PROVE  IInv'
  <1> USE DEF End
  <1>1. \A q \in Run : erased'[q] \subseteq table'
    BY Apart DEF IInv, TypeOK, After
  <1>2. table' \subseteq SeedId \cup PostedId
    BY InsertedType DEF IInv, TypeOK, After
  <1>3. TypeOK'
    <2>1. erased' \in [Run -> SUBSET table']
      BY <1>1 DEF IInv, TypeOK
    <2>2. 0 \in 0..MaxCount
      OBVIOUS
    <2>3. inserted' \in [Run -> 0..MaxCount]
      BY <2>2 DEF IInv, TypeOK
    <2>4. pc' \in [Run -> {"idle", "started", "deleting", "inserting",
                          "done", "collided", "failed"}]
      BY DEF IInv, TypeOK
    <2> QED
      BY <1>2, <2>1, <2>3, <2>4 DEF IInv, TypeOK
  <1>4. Inserted(p)' = {}
    BY DEF IInv, TypeOK, Inserted
  <1>5. \A q \in Run \ {p} : Inserted(q)' = Inserted(q) /\ erased'[q] = erased[q]
    BY SameInserted DEF IInv, TypeOK
  <1>6. erased'[p] = {}
    BY DEF IInv, TypeOK
  <1>7. OneOwner'
    <2>1. \A q \in Run : Inserted(q)' \cap (table' \ erased'[q]) = {}
      BY <1>4, <1>5, Apart DEF After
    <2>2. \A q, r \in Run : q # r => /\ Inserted(q)' \cap Inserted(r)' = {}
                                     /\ erased'[q] \cap erased'[r] = {}
      BY <1>4, <1>5, <1>6, Apart
    <2> QED
      BY <2>1, <2>2 DEF OneOwner, Running
  <1>8. HoldsNothing'
    BY DEF IInv, TypeOK, HoldsNothing
  <1>9. IsFiniteSet(table')
    <2>1. IsFiniteSet(table \ erased[p])
      BY FS_Subset DEF IInv
    <2>2. IsFiniteSet(After(p))
      BY <2>1, InsertedType, FS_Union DEF After, IInv
    <2> QED
      BY <2>2 DEF IInv
  <1> QED
    BY <1>3, <1>7, <1>8, <1>9 DEF IInv

LEMMA LeaveStep ==
    ASSUME IInv, NEW p \in Run, Collide(p) \/ Commit(p) \/ Fail(p)
    PROVE  IInv'
  <1>1. CASE Collide(p)
    BY <1>1, EndStep DEF Collide, IInv, TypeOK
  <1>2. CASE Commit(p)
    <2>1. \A q \in Run : target[q] \ erased[p] \subseteq After(p)
      BY DEF IInv, TypeOK, After
    <2>2. target' \in [Run -> SUBSET table']
      BY <1>2, <2>1 DEF Commit, Vanish
    <2>3. removed' \in BOOLEAN
      BY <1>2 DEF Commit, IInv, TypeOK
    <2> QED
      BY <1>2, <2>2, <2>3, EndStep DEF Commit
  <1>3. CASE Fail(p)
    <2>1. target' \in [Run -> SUBSET table']
      BY <1>3 DEF Fail, IInv, TypeOK
    <2> QED
      BY <1>3, <2>1, EndStep DEF Fail, IInv, TypeOK
  <1> QED
    BY <1>1, <1>2, <1>3

\* The API draws ids of its own, and leaves alone what a seed has deleted.
LEMMA ApiStep ==
    ASSUME IInv, Post \/ Remove
    PROVE  IInv'
  <1>1. CASE Post
    <2>1. PICK id \in PostedId :
            /\ table' = table \cup {id}
            /\ posted' = posted \cup {id}
            /\ late' = [p \in Run |-> IF pc[p] \in {"deleting", "inserting"}
                                      THEN late[p] \cup {id} ELSE late[p]]
            /\ UNCHANGED <<pc, cmd, found, target, erased, inserted, overlapped, removed>>
      BY <1>1 DEF Post
    <2>2. \A q \in Run : Inserted(q)' = Inserted(q)
      BY <2>1, SameInserted
    <2>3. TypeOK'
      <3>1. /\ table' \subseteq SeedId \cup PostedId
            /\ target' \in [Run -> SUBSET table'] /\ erased' \in [Run -> SUBSET table']
        BY <2>1 DEF IInv, TypeOK
      <3>2. posted' \subseteq PostedId /\ late' \in [Run -> SUBSET posted']
        BY <2>1 DEF IInv, TypeOK
      <3> QED
        BY <2>1, <3>1, <3>2 DEF IInv, TypeOK
    <2>4. \A q \in Run : id \notin Inserted(q)
      BY InsertedType DEF IInv
    <2>5. OneOwner'
      BY <2>1, <2>2, <2>4, Apart DEF OneOwner, Running
    <2>6. HoldsNothing'
      BY <2>1 DEF IInv, HoldsNothing
    <2>7. IsFiniteSet(table')
      BY <2>1, FS_AddElement DEF IInv
    <2> QED
      BY <2>3, <2>5, <2>6, <2>7 DEF IInv
  <1>2. CASE Remove
    <2>1. PICK id \in table :
            /\ \A q \in Run : id \notin erased[q]
            /\ table' = table \ {id}
            /\ target' = Vanish({id})
            /\ removed' = TRUE
            /\ UNCHANGED <<pc, cmd, found, erased, inserted, posted, late, overlapped>>
      BY <1>2 DEF Remove
    <2>2. \A q \in Run : Inserted(q)' = Inserted(q)
      BY <2>1, SameInserted
    <2>3. TypeOK'
      <3>1. target' \in [Run -> SUBSET table'] /\ erased' \in [Run -> SUBSET table']
        BY <2>1 DEF IInv, TypeOK, Vanish
      <3> QED
        BY <2>1, <3>1 DEF IInv, TypeOK
    <2>4. OneOwner'
      <3>1. \A q \in Run : Inserted(q)' \cap (table' \ erased'[q]) = {}
        BY <2>1, <2>2, Apart
      <3>2. \A q, s \in Run : q # s => /\ Inserted(q)' \cap Inserted(s)' = {}
                                       /\ erased'[q] \cap erased'[s] = {}
        BY <2>1, <2>2, Apart
      <3> QED
        BY <3>1, <3>2 DEF OneOwner, Running
    <2>5. HoldsNothing'
      BY <2>1 DEF IInv, HoldsNothing
    <2>6. IsFiniteSet(table')
      BY <2>1, FS_Subset DEF IInv
    <2> QED
      BY <2>3, <2>4, <2>5, <2>6 DEF IInv
  <1> QED
    BY <1>1, <1>2

LEMMA StutterIInv == IInv /\ UNCHANGED vars => IInv'
  <1> SUFFICES ASSUME IInv, UNCHANGED vars PROVE IInv'
    OBVIOUS
  <1>1. \A q \in Run : Inserted(q)' = Inserted(q)
    BY SameInserted DEF vars
  <1>2. OneOwner'
    BY <1>1, Apart DEF vars, OneOwner, Running
  <1> QED
    BY <1>2 DEF IInv, vars, history, TypeOK, HoldsNothing

LEMMA NextIInv == IInv /\ [Next]_vars => IInv'
  <1>1. ASSUME IInv, NEW p \in Run, Start(p) \/ Progress(p) \/ Fail(p)
        PROVE  IInv'
    BY <1>1, StartStep, CountStep, DeleteStep, InsertStep, LeaveStep DEF Progress, Deadlock
  <1> QED
    BY <1>1, ApiStep, StutterIInv DEF Next

----------------------------------------------------------------------------
\* What runs hold is kept apart, in every state.
THEOREM SeedInvariance == Spec => []IInv
  BY InitIInv, NextIInv, PTL DEF Spec

\* Every variable keeps its type.
THEOREM SeedTypeCorrect == Spec => []TypeOK
  BY SeedInvariance, PTL DEF IInv

\* No two seeds under way insert one id or delete one row, and none inserts an id
\* that is in the table, except one it has deleted itself.
THEOREM SeedsKeepApart == Spec => []OneOwner
  BY SeedInvariance, PTL DEF IInv

----------------------------------------------------------------------------
(***************************************************************************)
(* What a seed that nobody overlaps finds and leaves.  All the table holds *)
(* that an undisturbed reset has not deleted, or found to delete, was      *)
(* POSTed since; and while rows only come, every seeded row was drawn for  *)
(* fewer rows than there are.                                              *)
(***************************************************************************)
Alone == \A p, q \in Running : p # q => overlapped[p]

Cleared ==
    \A p \in Run :
        /\ pc[p] # "deleting" => target[p] = {}
        /\ pc[p] = "deleting" \/ erased[p] # {} => cmd[p].reset
        /\ pc[p] \in {"idle", "started"} \/ cmd[p].reset => found[p] = 0
        /\ pc[p] \in {"deleting", "inserting"} /\ cmd[p].reset /\ ~overlapped[p]
             => table \ (target[p] \cup erased[p]) \subseteq late[p]

Older(n) == \A s \in SeedArg, k, i \in Nat : <<s, k, i>> \in table => k < n

Appending(p) == pc[p] = "inserting" /\ ~cmd[p].reset

Fresh ==
    ~removed =>
        /\ Older(Cardinality(table))
        /\ \A p \in Run : Appending(p) => found[p] <= Cardinality(table)
        /\ \A p \in Run : Appending(p) /\ ~overlapped[p] => Older(found[p])

Quiet == Alone /\ Cleared /\ Fresh

----------------------------------------------------------------------------
LEMMA InitQuiet == Init => Quiet
  <1> SUFFICES ASSUME Init PROVE Quiet
    OBVIOUS
  <1>1. Alone
    BY DEF Init, Alone, Running
  <1>2. Cleared
    BY DEF Init, Cleared
  <1>3. Fresh
    BY DEF Init, Fresh, Older, Appending
  <1> QED
    BY <1>1, <1>2, <1>3 DEF Quiet

\* A run that starts while others are under way overlaps them, and they it.
LEMMA StartQuiet ==
    ASSUME IInv, Quiet, NEW p \in Run, Start(p)
    PROVE  Quiet'
  <1> USE DEF Start
  <1>1. \A q \in Run : pc'[q] = IF q = p THEN "started" ELSE pc[q]
    BY DEF IInv, TypeOK
  <1>2. \A q \in Run : overlapped[q] => overlapped'[q]
    OBVIOUS
  <1>3. Alone'
    <2>1. \A q \in Running' : q = p \/ q \in Running
      BY <1>1 DEF Running
    <2>2. p \notin Running
      BY DEF Running
    <2>3. \A q, s \in Running' : q # s => overlapped'[q]
      BY <1>2, <2>1, <2>2 DEF Quiet, Alone, Running
    <2> QED
      BY <2>3 DEF Alone
  <1>4. Cleared'
    BY <1>1, <1>2 DEF Quiet, Cleared
  <1>5. Fresh'
    BY <1>1, <1>2 DEF Quiet, Fresh, Older, Appending
  <1> QED
    BY <1>3, <1>4, <1>5 DEF Quiet

LEMMA CountQuiet ==
    ASSUME IInv, Quiet, NEW p \in Run, Count(p)
    PROVE  Quiet'
  <1> USE DEF Count, history
  <1>1. \A q \in Run : /\ pc'[q] = IF q = p THEN "inserting" ELSE pc[q]
                       /\ found'[q] = IF q = p THEN Cardinality(table) ELSE found[q]
    BY DEF IInv, TypeOK
  <1>2. Alone'
    BY <1>1 DEF Quiet, Alone, Running
  <1>3. Cleared'
    BY <1>1 DEF Quiet, Cleared
  <1>4. Fresh'
    <2> SUFFICES ASSUME ~removed PROVE Fresh'
      BY DEF Fresh
    <2>1. Older(Cardinality(table))
      BY DEF Quiet, Fresh
    <2>2. Cardinality(table) \in Nat
      BY FS_CardinalityType DEF IInv
    <2> QED
      BY <1>1, <2>1, <2>2 DEF Quiet, Fresh, Older, Appending
  <1> QED
    BY <1>2, <1>3, <1>4 DEF Quiet

\* The steps of a transaction that show nowhere else.
LEMMA InsideQuiet ==
    ASSUME IInv, Quiet, NEW p \in Run,
           DeleteAll(p) \/ Erase(p) \/ DeleteDone(p) \/ Insert(p)
    PROVE  Quiet'
  <1> USE DEF history
  <1>1. UNCHANGED <<table, cmd, found, overlapped, late, removed>>
    BY DEF DeleteAll, Erase, DeleteDone, Insert
  <1>2. /\ pc[p] \in {"started", "deleting", "inserting"}
        /\ pc'[p] \in {"deleting", "inserting"}
        /\ \A q \in Run \ {p} : pc'[q] = pc[q]
    BY DEF IInv, TypeOK, DeleteAll, Erase, DeleteDone, Insert
  <1>3. /\ Appending(p)' => Appending(p)
        /\ \A q \in Run \ {p} : Appending(q)' = Appending(q)
    BY <1>1, <1>2 DEF DeleteAll, Erase, DeleteDone, Insert, Appending, Quiet, Cleared
  <1>4. Alone'
    BY <1>1, <1>2 DEF Quiet, Alone, Running
  <1>5. Cleared'
    <2>1. CASE DeleteAll(p)
      BY <2>1 DEF DeleteAll, Quiet, Cleared, IInv, TypeOK
    <2>2. CASE Erase(p)
      <3>1. PICK id \in target[p] :
              /\ target' = [target EXCEPT ![p] = @ \ {id}]
              /\ erased' = [erased EXCEPT ![p] = @ \cup {id}]
        BY <2>2 DEF Erase
      <3>2. UNCHANGED pc /\ pc[p] = "deleting"
        BY <2>2 DEF Erase
      <3>3. target'[p] \cup erased'[p] = target[p] \cup erased[p]
        BY <3>1 DEF IInv, TypeOK
      <3>4. \A q \in Run \ {p} : target'[q] = target[q] /\ erased'[q] = erased[q]
        BY <3>1 DEF IInv, TypeOK
      <3> QED
        BY <1>1, <3>2, <3>3, <3>4 DEF Quiet, Cleared
    <2>3. CASE DeleteDone(p)
      BY <2>3 DEF DeleteDone, Quiet, Cleared, IInv, TypeOK
    <2>4. CASE Insert(p)
      BY <2>4 DEF Insert, Quiet, Cleared
    <2> QED
      BY <2>1, <2>2, <2>3, <2>4
  <1>6. Fresh'
    BY <1>1, <1>3 DEF Quiet, Fresh, Older
  <1> QED
    BY <1>4, <1>5, <1>6 DEF Quiet

\* A run that ends in failure leaves the table alone.
LEMMA LostQuiet ==
    ASSUME IInv, Quiet, NEW p \in Run, Collide(p) \/ Fail(p)
    PROVE  Quiet'
  <1> USE DEF End
  <1>1. /\ UNCHANGED <<table, cmd, found, overlapped, late, removed>>
        /\ pc'[p] \in {"collided", "failed"} /\ p \in Running
        /\ \A q \in Run \ {p} : pc'[q] = pc[q]
    BY DEF IInv, TypeOK, Collide, Fail, Running
  <1>2. /\ erased'[p] = {} /\ target'[p] = {}
        /\ \A q \in Run \ {p} : target'[q] = target[q] /\ erased'[q] = erased[q]
    BY DEF IInv, TypeOK, Collide, Fail, Quiet, Cleared
  <1>3. Alone'
    BY <1>1 DEF Quiet, Alone, Running
  <1>4. Cleared'
    BY <1>1, <1>2 DEF Quiet, Cleared, Running
  <1>5. Fresh'
    BY <1>1 DEF Quiet, Fresh, Older, Appending
  <1> QED
    BY <1>3, <1>4, <1>5 DEF Quiet

\* What a reset that nobody overlaps leaves beside its batch was POSTed.
LEMMA ResetLeaves ==
    ASSUME IInv, Quiet, NEW p \in Run, pc[p] = "inserting", cmd[p].reset, ~overlapped[p]
    PROVE  table \ erased[p] \subseteq late[p]
  BY DEF Quiet, Cleared

\* A batch has been drawn, and none of it is among the rows that were there.
LEMMA BatchAdds ==
    ASSUME IInv, NEW p \in Run, Commit(p)
    PROVE  /\ Draw(p, 1) \in Inserted(p) /\ Draw(p, 1) \notin table \ erased[p]
           /\ \A s \in SeedArg, k, i \in Nat :
                 <<s, k, i>> \in Inserted(p) => k = found[p]
           /\ IsFiniteSet(After(p))
  <1>1. inserted[p] \in Nat /\ 1 \in 1..inserted[p]
    BY DEF Commit, IInv, TypeOK, Command
  <1>2. Draw(p, 1) \in Inserted(p)
    BY <1>1 DEF Inserted
  <1>3. \A s \in SeedArg, k, i \in Nat : <<s, k, i>> \in Inserted(p) => k = found[p]
    BY DEF Inserted, Draw
  <1>4. IsFiniteSet(After(p))
    <2>1. IsFiniteSet(table \ erased[p])
      BY FS_Subset DEF IInv
    <2> QED
      BY <2>1, InsertedType, FS_Union DEF After, IInv
  <1> QED
    BY <1>2, <1>3, <1>4, Apart

LEMMA CommitQuiet ==
    ASSUME IInv, Quiet, NEW p \in Run, Commit(p)
    PROVE  Quiet'
  <1>1. /\ UNCHANGED <<cmd, found, overlapped, late>>
        /\ pc'[p] = "done" /\ p \in Running /\ pc[p] = "inserting"
        /\ \A q \in Run \ {p} : pc'[q] = pc[q]
    BY DEF IInv, TypeOK, Commit, End, Running
  <1>2. /\ erased'[p] = {}
        /\ \A q \in Run \ {p} : erased'[q] = erased[q]
        /\ \A q \in Run : target'[q] \subseteq target[q]
    BY DEF IInv, TypeOK, Commit, End, Vanish
  <1>3. \A q \in Running \ {p} : overlapped[p] /\ overlapped[q]
    BY <1>1 DEF Quiet, Alone
  <1>4. Alone'
    BY <1>1 DEF Quiet, Alone, Running
  <1>5. Cleared'
    <2> SUFFICES ASSUME NEW q \in Run
                 PROVE  /\ pc'[q] # "deleting" => target'[q] = {}
                        /\ pc'[q] = "deleting" \/ erased'[q] # {} => cmd[q].reset
                        /\ pc'[q] \in {"idle", "started"} \/ cmd[q].reset => found[q] = 0
                        /\ pc'[q] \in {"deleting", "inserting"} => overlapped[q]
      BY <1>1 DEF Cleared
    <2>1. CASE q = p
      BY <1>1, <1>2, <2>1 DEF Quiet, Cleared
    <2>2. CASE q # p
      BY <1>1, <1>2, <1>3, <2>2 DEF Quiet, Cleared, Running
    <2> QED
      BY <2>1, <2>2
  <1>6. Fresh'
    <2> SUFFICES ASSUME ~removed' PROVE Fresh'
      BY DEF Fresh
    <2>1. table' = (table \ erased[p]) \cup Inserted(p) /\ IsFiniteSet(table')
      BY BatchAdds DEF Commit, After
    <2>2. Cardinality(table') \in Nat
      BY <2>1, FS_CardinalityType
    <2>3. \A q \in Run : Appending(q)' => q # p /\ Appending(q) /\ q \in Running
      BY <1>1 DEF Appending, Running
    <2>4. CASE cmd[p].reset
      <3>1. ~overlapped[p]
        BY <2>4 DEF Commit
      <3>2. \A s \in SeedArg, k, i \in Nat : <<s, k, i>> \notin table \ erased[p]
        BY <1>1, <2>4, <3>1, ResetLeaves DEF IInv, TypeOK
      <3>3. found[p] = 0
        BY <2>4 DEF Quiet, Cleared
      <3>4. Cardinality(table') # 0
        BY <2>1, BatchAdds, FS_EmptySet
      <3>5. Older(Cardinality(table))'
        BY <2>1, <2>2, <3>2, <3>3, <3>4, BatchAdds DEF Older
      <3>6. \A q \in Run : ~Appending(q)'
        BY <1>3, <2>3, <3>1
      <3> QED
        BY <3>5, <3>6 DEF Fresh
    <2>5. CASE ~cmd[p].reset
      <3>1. ~removed /\ Appending(p)
        BY <1>1, <2>5 DEF Commit, Appending
      <3>2. erased[p] = {}
        BY <2>5 DEF Quiet, Cleared
      <3>3. Cardinality(table) \in Nat
        BY FS_CardinalityType DEF IInv
      <3>4. Cardinality(table) < Cardinality(table')
        <4>1. /\ IsFiniteSet(table \cup {Draw(p, 1)})
              /\ Cardinality(table \cup {Draw(p, 1)}) = Cardinality(table) + 1
          BY <3>2, BatchAdds, FS_AddElement DEF IInv
        <4>2. table \cup {Draw(p, 1)} \in SUBSET table'
          BY <2>1, <3>2, BatchAdds
        <4>3. Cardinality(table \cup {Draw(p, 1)}) <= Cardinality(table')
          BY <2>1, <4>2, FS_Subset
        <4> QED
          BY <2>2, <3>3, <4>1, <4>3
      <3>5. /\ Older(Cardinality(table))
            /\ \A q \in Run : Appending(q) => found[q] <= Cardinality(table)
            /\ \A q \in Run : found[q] \in Nat
        BY <3>1 DEF Quiet, Fresh, IInv, TypeOK
      <3>6. Older(Cardinality(table))'
        <4> SUFFICES ASSUME NEW s \in SeedArg, NEW k \in Nat, NEW i \in Nat,
                            <<s, k, i>> \in table'
                     PROVE  k < Cardinality(table')
          BY DEF Older
        <4>1. CASE <<s, k, i>> \in table
          <5>1. k < Cardinality(table)
            BY <3>5, <4>1 DEF Older
          <5> QED
            BY <2>2, <3>3, <3>4, <5>1
        <4>2. CASE <<s, k, i>> \in Inserted(p)
          <5>1. k = found[p]
            BY <4>2, BatchAdds
          <5>2. found[p] <= Cardinality(table)
            BY <3>1, <3>5
          <5> QED
            BY <2>2, <3>3, <3>4, <5>1, <5>2
        <4> QED
          BY <2>1, <4>1, <4>2
      <3>7. \A q \in Run : Appending(q)' => found[q] <= Cardinality(table')
        BY <2>2, <2>3, <3>3, <3>4, <3>5
      <3>8. \A q \in Run : Appending(q)' => overlapped[q]
        BY <1>3, <2>3
      <3> QED
        BY <1>1, <3>6, <3>7, <3>8 DEF Fresh
    <2> QED
      BY <2>4, <2>5
  <1> QED
    BY <1>4, <1>5, <1>6 DEF Quiet

LEMMA ApiQuiet ==
    ASSUME IInv, Quiet, Post \/ Remove
    PROVE  Quiet'
  <1>1. CASE Post
    <2>1. PICK id \in PostedId :
            /\ table' = table \cup {id}
            /\ late' = [p \in Run |-> IF pc[p] \in {"deleting", "inserting"}
                                      THEN late[p] \cup {id} ELSE late[p]]
            /\ UNCHANGED <<pc, cmd, found, target, erased, overlapped, removed>>
      BY <1>1 DEF Post
    <2>2. Alone' /\ Cleared'
      BY <2>1 DEF Quiet, Alone, Running, Cleared
    <2>3. Cardinality(table) \in Nat /\ Cardinality(table') \in Nat
          /\ Cardinality(table) <= Cardinality(table')
      <3>1. IsFiniteSet(table')
        BY <2>1, FS_AddElement DEF IInv
      <3>2. table \in SUBSET table'
        BY <2>1
      <3> QED
        BY <3>1, <3>2, FS_CardinalityType, FS_Subset DEF IInv
    <2>4. \A s \in SeedArg, k, i \in Nat : <<s, k, i>> \in table' => <<s, k, i>> \in table
      BY <2>1
    <2>5. Fresh'
      <3> SUFFICES ASSUME ~removed PROVE Fresh'
        BY <2>1 DEF Fresh
      <3>1. Older(Cardinality(table))'
        BY <2>3, <2>4 DEF Quiet, Fresh, Older
      <3>2. \A q \in Run : /\ Appending(q)' = Appending(q)
                           /\ found[q] \in Nat /\ found'[q] = found[q]
        BY <2>1 DEF Appending, IInv, TypeOK
      <3>3. \A q \in Run : Appending(q)' => found'[q] <= Cardinality(table')
        BY <2>3, <3>2 DEF Quiet, Fresh
      <3>4. \A q \in Run : Appending(q)' /\ ~overlapped'[q] => Older(found[q])'
        BY <2>1, <2>4, <3>2 DEF Quiet, Fresh, Older
      <3> QED
        BY <3>1, <3>3, <3>4 DEF Fresh
    <2> QED
      BY <2>2, <2>5 DEF Quiet
  <1>2. CASE Remove
    <2>1. PICK id \in table :
            /\ table' = table \ {id}
            /\ target' = Vanish({id})
            /\ removed' = TRUE
            /\ UNCHANGED <<pc, cmd, found, erased, late, overlapped>>
      BY <1>2 DEF Remove
    <2>2. Alone' /\ Cleared'
      BY <2>1 DEF Quiet, Alone, Running, Cleared, Vanish
    <2> QED
      BY <2>1, <2>2 DEF Quiet, Fresh
  <1> QED
    BY <1>1, <1>2

LEMMA NextQuiet == IInv /\ Quiet /\ [Next]_vars => Quiet'
  <1> SUFFICES ASSUME IInv, Quiet, [Next]_vars PROVE Quiet'
    OBVIOUS
  <1>1. ASSUME NEW p \in Run, Start(p) \/ Progress(p) \/ Fail(p)
        PROVE  Quiet'
    BY <1>1, StartQuiet, CountQuiet, InsideQuiet, LostQuiet, CommitQuiet DEF Progress, Deadlock
  <1>2. CASE UNCHANGED vars
    BY <1>2 DEF vars, history, Quiet, Alone, Running, Cleared, Fresh, Older, Appending
  <1> QED
    BY <1>1, <1>2, ApiQuiet DEF Next

LEMMA QuietInvariance == Spec => []Quiet
  BY SeedInvariance, InitQuiet, NextQuiet, PTL DEF Spec

----------------------------------------------------------------------------
\* The table changes by the whole of a seed's transaction, by one POST or by the DELETE
\* of one listing, and by nothing else: no batch is there in part, and no row is gone
\* that a seed has deleted and then did not commit.
THEOREM BatchesAppearWhole == Spec => WholeBatches
  <1> DEFINE Whole ==
         \/ table' = table
         \/ \E id \in PostedId : table' = table \cup {id}
         \/ \E id \in table :
               /\ \A p \in Run : id \notin erased[p]
               /\ table' = table \ {id}
         \/ \E p \in Running :
               /\ target[p] = {}
               /\ table' = (table \ erased[p]) \cup {Draw(p, n) : n \in 1..cmd[p].count}
               /\ p \notin Running'
  <1>1. ASSUME IInv, Quiet, NEW p \in Run, Commit(p)
        PROVE  Whole
    <2>1. p \in Running /\ target[p] = {}
      BY <1>1 DEF Commit, Running, Quiet, Cleared
    <2>2. p \notin Running'
      BY <1>1 DEF Commit, End, Running, IInv, TypeOK
    <2>3. table' = (table \ erased[p]) \cup {Draw(p, n) : n \in 1..cmd[p].count}
      BY <1>1 DEF Commit, After, Inserted
    <2> QED
      BY <2>1, <2>2, <2>3
  <1>2. ASSUME NEW p \in Run, Start(p) \/ Progress(p) \/ Fail(p), ~Commit(p)
        PROVE  table' = table
    BY <1>2 DEF Start, Progress, Fail, Deadlock, Count, DeleteAll, Erase, DeleteDone, Insert,
                Collide
  <1>3. Post => \E id \in PostedId : table' = table \cup {id}
    BY DEF Post
  <1>4. Remove => \E id \in table : (\A p \in Run : id \notin erased[p]) /\ table' = table \ {id}
    BY DEF Remove
  <1>5. IInv /\ Quiet /\ [Next]_vars => [Whole]_vars
    BY <1>1, <1>2, <1>3, <1>4 DEF Next
  <1> QED
    BY <1>5, SeedInvariance, QuietInvariance, PTL DEF Spec, WholeBatches

\* A reset that nobody overlaps leaves the batch that --seed alone determines, and
\* what was POSTed since it began to delete.
THEOREM ResetsReproduce == Spec => []ResetReproduces
  <1>1. ASSUME IInv, Quiet, NEW p \in Run, pc[p] = "inserting",
               inserted[p] = cmd[p].count, cmd[p].reset, ~overlapped[p]
        PROVE  After(p) \ late[p] = {<<cmd[p].seed, 0, n>> : n \in 1..cmd[p].count}
    <2>1. table \ erased[p] \subseteq late[p]
      BY <1>1, ResetLeaves
    <2>2. Inserted(p) \cap late[p] = {}
      BY <1>1, InsertedType DEF IInv, TypeOK
    <2>3. Inserted(p) = {<<cmd[p].seed, 0, n>> : n \in 1..cmd[p].count}
      BY <1>1 DEF Inserted, Draw, Quiet, Cleared
    <2> QED
      BY <2>1, <2>2, <2>3 DEF After
  <1>2. IInv /\ Quiet => ResetReproduces
    BY <1>1 DEF ResetReproduces
  <1> QED
    BY <1>2, SeedInvariance, QuietInvariance, PTL

\* Without overlaps, and without deletions since the last undisturbed reset, no
\* batch draws an id that is taken.
THEOREM FreshBatches == Spec => []BatchesAreFresh
  <1>1. ASSUME IInv, Quiet, NEW p \in Run, pc[p] = "inserting", ~removed, ~overlapped[p]
        PROVE  ~Taken(p)
    <2>1. cmd[p].seed \in SeedArg /\ found[p] \in Nat /\ inserted[p] + 1 \in Nat
      BY <1>1 DEF IInv, TypeOK, Command
    <2>2. CASE cmd[p].reset
      <3>1. table \ erased[p] \subseteq PostedId
        BY <1>1, <2>2, ResetLeaves DEF IInv, TypeOK
      <3> QED
        BY <2>1, <3>1 DEF Taken, Draw
    <2>3. CASE ~cmd[p].reset
      <3>1. Older(found[p])
        BY <1>1, <2>3 DEF Quiet, Fresh, Appending
      <3> QED
        BY <2>1, <3>1 DEF Taken, Draw, Older
    <2> QED
      BY <2>2, <2>3
  <1>2. IInv /\ Quiet => BatchesAreFresh
    BY <1>1 DEF BatchesAreFresh
  <1> QED
    BY <1>2, SeedInvariance, QuietInvariance, PTL

----------------------------------------------------------------------------
(***************************************************************************)
(* Seeds never wait for one another without end.  If every seed under way  *)
(* waits, those of a least set that is closed under waiting wait in a      *)
(* circle; a least one there is, because only finitely many are under way. *)
(***************************************************************************)
Orderly ==
    /\ \A p \in Run : target[p] \cap erased[p] = {}
    /\ \A p \in Run : inserted[p] <= cmd[p].count
    /\ IsFiniteSet(Running)

LEMMA InitOrderly == Init => Orderly
  <1> SUFFICES ASSUME Init PROVE Orderly
    OBVIOUS
  <1>1. \A p \in Run : cmd[p].count \in Nat
    BY DEF Init, Command
  <1>2. Running = {}
    BY DEF Init, Running
  <1> QED
    BY <1>1, <1>2, FS_EmptySet DEF Init, Orderly

\* What a run does within its transaction.
LEMMA WithinOrderly ==
    ASSUME IInv, Orderly, NEW p \in Run,
           Count(p) \/ DeleteAll(p) \/ Erase(p) \/ DeleteDone(p) \/ Insert(p)
    PROVE  Orderly'
  <1> USE DEF history
  <1>1. Running' = Running
    BY DEF Count, DeleteAll, Erase, DeleteDone, Insert, Running, IInv, TypeOK
  <1>2. \A q \in Run : target'[q] \cap erased'[q] = {}
    <2>1. CASE DeleteAll(p)
      BY <2>1 DEF DeleteAll, Orderly, IInv, TypeOK, HoldsNothing
    <2>2. CASE Erase(p)
      BY <2>2 DEF Erase, Orderly, IInv, TypeOK
    <2>3. CASE Count(p) \/ DeleteDone(p) \/ Insert(p)
      BY <2>3 DEF Count, DeleteDone, Insert, Orderly
    <2> QED
      BY <2>1, <2>2, <2>3
  <1>3. \A q \in Run : inserted'[q] <= cmd'[q].count
    <2>1. \A q \in Run : inserted[q] \in Nat /\ cmd[q].count \in Nat
      BY DEF IInv, TypeOK, Command
    <2>2. CASE Insert(p)
      BY <2>1, <2>2 DEF Insert, Orderly, IInv, TypeOK
    <2>3. CASE ~Insert(p)
      BY <2>3 DEF Count, DeleteAll, Erase, DeleteDone, Orderly
    <2> QED
      BY <2>2, <2>3
  <1> QED
    BY <1>1, <1>2, <1>3 DEF Orderly

\* A run starts, or ends one way or another.
LEMMA AroundOrderly ==
    ASSUME IInv, Orderly, NEW p \in Run,
           Start(p) \/ Collide(p) \/ Commit(p) \/ Fail(p)
    PROVE  Orderly'
  <1>1. CASE Start(p)
    <2>1. Running' = Running \cup {p}
      BY <1>1 DEF Start, Running, IInv, TypeOK
    <2> QED
      BY <1>1, <2>1, FS_AddElement DEF Start, Orderly
  <1>2. CASE Collide(p) \/ Commit(p) \/ Fail(p)
    <2>1. \/ End(p, "done") \/ End(p, "collided") \/ End(p, "failed")
      BY <1>2 DEF Collide, Commit, Fail
    <2>2. Running' \in SUBSET Running
      BY <2>1 DEF End, Running, IInv, TypeOK
    <2>3. IsFiniteSet(Running')
      BY <2>2, FS_Subset DEF Orderly
    <2>4. \A q \in Run : erased'[q] \subseteq erased[q]
      BY <2>1 DEF End, IInv, TypeOK
    <2>5. \A q \in Run : target'[q] \subseteq target[q]
      BY <1>2 DEF Collide, Commit, Fail, Vanish, IInv, TypeOK
    <2>6. \A q \in Run : inserted'[q] <= cmd'[q].count
      <3>1. \A q \in Run : cmd[q].count \in Nat
        BY DEF IInv, TypeOK, Command
      <3> QED
        BY <2>1, <3>1 DEF End, Orderly, IInv, TypeOK
    <2> QED
      BY <2>3, <2>4, <2>5, <2>6 DEF Orderly
  <1> QED
    BY <1>1, <1>2

LEMMA NextOrderly == IInv /\ Orderly /\ [Next]_vars => Orderly'
  <1> SUFFICES ASSUME IInv, Orderly, [Next]_vars PROVE Orderly'
    OBVIOUS
  <1>1. ASSUME NEW p \in Run, Start(p) \/ Progress(p) \/ Fail(p)
        PROVE  Orderly'
    BY <1>1, WithinOrderly, AroundOrderly DEF Progress, Deadlock
  <1>2. CASE Post
    BY <1>2 DEF Post, Orderly, Running
  <1>3. CASE Remove
    <2>1. \A q \in Run : target'[q] \subseteq target[q]
      BY <1>3 DEF Remove, Vanish
    <2> QED
      BY <1>3, <2>1 DEF Remove, Orderly, Running
  <1>4. CASE UNCHANGED vars
    BY <1>4 DEF vars, history, Orderly, Running
  <1> QED
    BY <1>1, <1>2, <1>3, <1>4 DEF Next

LEMMA OrderlyInvariance == Spec => []Orderly
  BY SeedInvariance, InitOrderly, NextOrderly, PTL DEF Spec

\* One that cannot go on waits for another that is under way.
LEMMA WaitsForAnother ==
    ASSUME IInv, Orderly, NEW p \in Running, ~CanGoOn(p)
    PROVE  Blockers(p) # {}
  <1>1. p \in Run
    BY DEF Running
  <1>2. CASE pc[p] = "deleting"
    <2>1. PICK id \in target[p] : id \in UNION {erased[q] : q \in Run}
      BY <1>1, <1>2 DEF CanGoOn
    <2>2. PICK q \in Run : id \in erased[q]
      BY <2>1
    <2>3. q # p
      BY <1>1, <2>1, <2>2 DEF Orderly
    <2>4. q \in Running
      BY <2>2 DEF IInv, HoldsNothing, Running
    <2>5. /\ target[p] # {}
          /\ target[p] \subseteq UNION {erased[s] : s \in Run}
          /\ target[p] \cap erased[q] # {}
      BY <1>2, <2>1, <2>2 DEF CanGoOn
    <2> QED
      BY <1>2, <2>3, <2>4, <2>5 DEF Blockers
  <1>3. CASE pc[p] = "inserting"
    <2>1. inserted[p] \in Nat /\ cmd[p].count \in Nat
      BY <1>1 DEF IInv, TypeOK, Command
    <2>2. inserted[p] <= cmd[p].count
      BY <1>1 DEF Orderly
    <2> QED
      BY <1>3, <2>1, <2>2 DEF CanGoOn
  <1> QED
    BY <1>2, <1>3 DEF CanGoOn, Running

Closed(S) == \A q \in S : Blockers(q) \subseteq S

LEMMA SomeCircle ==
    ASSUME IsFiniteSet(Running), Running # {}, \A p \in Running : Blockers(p) # {}
    PROVE  \E p \in Running : InCircle(p)
  <1> DEFINE Family == {S \in SUBSET Running : S # {} /\ Closed(S)}
             Smaller == StrictSubsetOrdering(Running)
  <1>1. \A p \in Running : Blockers(p) \subseteq Running
    BY DEF Blockers
  <1>2. Running \in Family
    BY <1>1 DEF Closed
  <1>3. PICK C \in Family : \A S \in Family : ~(<<S, C>> \in Smaller)
    <2>1. Family \subseteq FiniteSubsetsOf(Running)
      BY FS_Subset DEF FiniteSubsetsOf
    <2>2. IsWellFoundedOn(Smaller, FiniteSubsetsOf(Running))
      BY FS_StrictSubsetOrderingWellFounded
    <2> HIDE DEF Family, Smaller
    <2> QED
      BY <1>2, <2>1, <2>2, WFMin
  <1>4. PICK p \in C : TRUE
    OBVIOUS
  <1>5. ASSUME NEW S \in SUBSET Running, Blockers(p) \subseteq S, Closed(S), p \notin S
        PROVE  FALSE
    <2>1. Blockers(p) \subseteq S \cap C /\ Blockers(p) # {}
      BY <1>4, <1>5 DEF Closed
    <2>2. Closed(S \cap C)
      BY <1>5 DEF Closed
    <2>3. S \cap C \in Family
      BY <2>1, <2>2
    <2>4. <<S \cap C, C>> \in Smaller
      BY <1>4, <1>5 DEF StrictSubsetOrdering
    <2> QED
      BY <1>3, <2>3, <2>4
  <1>6. InCircle(p)
    BY <1>5 DEF InCircle, Closed
  <1> QED
    BY <1>4, <1>6

\* Among the seeds under way there is always one that has something to do, or that
\* waits in a circle, which Postgres breaks: however many there are, they do not
\* hang on each other's rows.
THEOREM SeedsNeverStuck == Spec => []SomeSeedGoesOn
  <1>1. IInv /\ Orderly => SomeSeedGoesOn
    BY WaitsForAnother, SomeCircle DEF Orderly, SomeSeedGoesOn
  <1> QED
    BY <1>1, SeedInvariance, OrderlyInvariance, PTL
=============================================================================

-------------------------------- MODULE Seed --------------------------------
(***************************************************************************)
(* python -m scripts.seed: one transaction that fills the table with a     *)
(* reproducible batch of listings, after deleting all there are (--reset)  *)
(* or beside them (append), while other seeds run and the API writes.      *)
(*                                                                         *)
(* An id drawn from a seeded generator is determined by the generator's    *)
(* seed and the position of the draw, so it is the triple <<--seed, rows   *)
(* found, position>>.  The other columns are drawn with it and say no      *)
(* more.  API writes are atomic here, which is what ListingCrud            *)
(* establishes; their ids are random and never drawn by a seed.            *)
(***************************************************************************)
EXTENDS Naturals, FiniteSets

CONSTANTS
    Run,       \* invocations of the script, numbered in the order they start
    SeedArg,   \* values of --seed
    MaxCount,  \* bound on --count
    PostedId   \* the ids the API draws for POSTed listings

ASSUME SeedAssumption ==
    /\ Run \subseteq Nat
    /\ MaxCount \in Nat
    /\ PostedId \cap (SeedArg \X Nat \X Nat) = {}

Command == [reset : BOOLEAN, seed : SeedArg, count : 1..MaxCount]

VARIABLES
    table,       \* ids of the committed listings
    pc,          \* how far each run has come
    cmd,         \* its command line
    found,       \* what seeds its generator beside --seed
    target,      \* the rows its DELETE has found and still has to delete
    erased,      \* those it has deleted
    inserted,    \* how many rows it has inserted
    posted,      \* the ids the API has drawn
    late,        \* history: what was POSTed since its DELETE began
    overlapped,  \* history: another run was under way at the same time
    removed      \* history: rows were deleted since the last undisturbed reset

history == <<posted, late, overlapped, removed>>
vars == <<table, pc, cmd, found, target, erased, inserted, history>>

Running == {p \in Run : pc[p] \in {"started", "deleting", "inserting"}}

\* generate_listings: the n-th id of a stream does not depend on how many follow.
Draw(p, n) == <<cmd[p].seed, found[p], n>>
Inserted(p) == {Draw(p, n) : n \in 1..inserted[p]}

Init ==
    /\ table = {}
    /\ pc = [p \in Run |-> "idle"]
    /\ cmd \in [Run -> Command]
    /\ found = [p \in Run |-> 0]
    /\ target = [p \in Run |-> {}]
    /\ erased = [p \in Run |-> {}]
    /\ inserted = [p \in Run |-> 0]
    /\ posted = {}
    /\ late = [p \in Run |-> {}]
    /\ overlapped = [p \in Run |-> FALSE]
    /\ removed = FALSE

----------------------------------------------------------------------------
\* Someone runs the script; parse_args refuses a count below 1.
Start(p) ==
    /\ pc[p] = "idle"
    /\ \A q \in Run : q < p => pc[q] # "idle"
    /\ pc' = [pc EXCEPT ![p] = "started"]
    /\ overlapped' = [q \in Run |->
                        \/ overlapped[q]
                        \/ Running # {} /\ q \in Running \cup {p}]
    /\ UNCHANGED <<table, cmd, found, target, erased, inserted, posted, late, removed>>

\* Mutant of Count: every batch is drawn from --seed alone.
CountIgnored(p) ==
    /\ pc[p] = "started"
    /\ ~cmd[p].reset
    /\ pc' = [pc EXCEPT ![p] = "inserting"]
    /\ UNCHANGED <<table, cmd, found, target, erased, inserted, history>>

\* Append: the rows there are (of an empty table none) are mixed into the seed.
Count(p) ==
    /\ pc[p] = "started"
    /\ ~cmd[p].reset
    /\ pc' = [pc EXCEPT ![p] = "inserting"]
    /\ found' = [found EXCEPT ![p] = Cardinality(table)]
    /\ UNCHANGED <<table, cmd, target, erased, inserted, history>>

\* Mutant of DeleteAll: the generator is seeded as for an append.
DeleteAllCounting(p) ==
    /\ pc[p] = "started"
    /\ cmd[p].reset
    /\ pc' = [pc EXCEPT ![p] = "deleting"]
    /\ found' = [found EXCEPT ![p] = Cardinality(table)]
    /\ target' = [target EXCEPT ![p] = table]
    /\ UNCHANGED <<table, cmd, erased, inserted, history>>

\* Reset: DELETE FROM listings finds what is committed when it starts,
DeleteAll(p) ==
    /\ pc[p] = "started"
    /\ cmd[p].reset
    /\ pc' = [pc EXCEPT ![p] = "deleting"]
    /\ target' = [target EXCEPT ![p] = table]
    /\ UNCHANGED <<table, cmd, found, erased, inserted, history>>

\* deletes it row by row, in some order, and waits for a row that another
\* transaction has deleted. A row that is gone after all is skipped (Vanish).
Erase(p) ==
    /\ pc[p] = "deleting"
    /\ \E id \in target[p] :
          /\ \A q \in Run : id \notin erased[q]
          /\ target' = [target EXCEPT ![p] = @ \ {id}]
          /\ erased' = [erased EXCEPT ![p] = @ \cup {id}]
    /\ UNCHANGED <<table, pc, cmd, found, inserted, history>>

\* Mutant of DeleteDone: delete_all commits.
DeleteDoneCommitting(p) ==
    /\ pc[p] = "deleting"
    /\ target[p] = {}
    /\ pc' = [pc EXCEPT ![p] = "inserting"]
    /\ table' = table \ erased[p]
    /\ target' = [q \in Run |-> target[q] \ erased[p]]
    /\ erased' = [erased EXCEPT ![p] = {}]
    /\ UNCHANGED <<cmd, found, inserted, history>>

DeleteDone(p) ==
    /\ pc[p] = "deleting"
    /\ target[p] = {}
    /\ pc' = [pc EXCEPT ![p] = "inserting"]
    /\ UNCHANGED <<table, cmd, found, target, erased, inserted, history>>

\* The transactions p waits for: those that have inserted or deleted the row it
\* is about to insert, or have deleted the rows it is about to delete.
Blockers(p) ==
    {q \in Running \ {p} :
       \/ /\ pc[p] = "inserting" /\ inserted[p] < cmd[p].count
          /\ Draw(p, inserted[p] + 1) \in Inserted(q) \cup erased[q]
       \/ /\ pc[p] = "deleting" /\ target[p] # {}
          /\ target[p] \subseteq UNION {erased[s] : s \in Run}
          /\ target[p] \cap erased[q] # {}}

\* It is the id of a committed row: the primary key is violated.
Taken(p) == Draw(p, inserted[p] + 1) \in table \ erased[p]

\* Mutant of Insert: without a primary key.
InsertUnchecked(p) ==
    /\ pc[p] = "inserting"
    /\ inserted[p] < cmd[p].count
    /\ inserted' = [inserted EXCEPT ![p] = @ + 1]
    /\ UNCHANGED <<table, pc, cmd, found, target, erased, history>>

\* bulk_create inserts the batch row by row, some hundred to a statement.
Insert(p) ==
    /\ pc[p] = "inserting"
    /\ inserted[p] < cmd[p].count
    /\ Blockers(p) = {}
    /\ ~Taken(p)
    /\ inserted' = [inserted EXCEPT ![p] = @ + 1]
    /\ UNCHANGED <<table, pc, cmd, found, target, erased, history>>

\* Mutant of End: the session of a script that dies is not closed.
EndHolding(p, s) ==
    /\ pc' = [pc EXCEPT ![p] = s]
    /\ erased' = IF s = "done" THEN [erased EXCEPT ![p] = {}] ELSE erased
    /\ inserted' = [inserted EXCEPT ![p] = 0]
    /\ UNCHANGED <<cmd, found, posted, late, overlapped>>

\* The run ends in status s; what its transaction held is released.
End(p, s) ==
    /\ pc' = [pc EXCEPT ![p] = s]
    /\ erased' = [erased EXCEPT ![p] = {}]
    /\ inserted' = [inserted EXCEPT ![p] = 0]
    /\ UNCHANGED <<cmd, found, posted, late, overlapped>>

\* Mutant of Collide: the script rolls back and tries again.
CollideRetrying(p) ==
    /\ pc[p] = "inserting"
    /\ inserted[p] < cmd[p].count
    /\ Blockers(p) = {}
    /\ Taken(p)
    /\ End(p, "started")
    /\ UNCHANGED <<table, target, removed>>

\* IntegrityError: the script dies and the session rolls all of it back.
Collide(p) ==
    /\ pc[p] = "inserting"
    /\ inserted[p] < cmd[p].count
    /\ Blockers(p) = {}
    /\ Taken(p)
    /\ End(p, "collided")
    /\ UNCHANGED <<table, target, removed>>

\* Mutant of Vanish: the DELETE goes by what it has found.
VanishUnnoticed(ids) == target

\* Rows ids go: a DELETE that has found them and is waiting skips them.
Vanish(ids) == [q \in Run |-> target[q] \ ids]

\* What is in the table when p commits.
After(p) == (table \ erased[p]) \cup Inserted(p)

\* Mutant of Commit: there is one after every statement.
CommitEachStatement(p) ==
    /\ pc[p] = "inserting"
    /\ inserted[p] > 0
    /\ table' = After(p)
    /\ target' = Vanish(erased[p])
    /\ removed' = IF cmd[p].reset THEN overlapped[p] ELSE removed
    /\ End(p, "done")

Commit(p) ==
    /\ pc[p] = "inserting"
    /\ inserted[p] = cmd[p].count
    /\ table' = After(p)
    /\ target' = Vanish(erased[p])
    /\ removed' = IF cmd[p].reset THEN overlapped[p] ELSE removed
    /\ End(p, "done")

\* The script is killed or loses its connection; Postgres rolls back.
Fail(p) ==
    /\ p \in Running
    /\ End(p, "failed")
    /\ target' = [target EXCEPT ![p] = {}]
    /\ UNCHANGED <<table, removed>>

\* p is in every set of transactions that p's blockers lie in and that is closed
\* under waiting: it waits for itself.  Postgres notices and aborts it.
InCircle(p) ==
    \A S \in SUBSET Running :
       Blockers(p) \subseteq S /\ (\A q \in S : Blockers(q) \subseteq S) => p \in S

Deadlock(p) ==
    /\ p \in Running
    /\ InCircle(p)
    /\ Fail(p)

\* A POST commits.
Post ==
    \E id \in PostedId \ posted :
       /\ table' = table \cup {id}
       /\ posted' = posted \cup {id}
       /\ late' = [p \in Run |-> IF pc[p] \in {"deleting", "inserting"}
                                 THEN late[p] \cup {id} ELSE late[p]]
       /\ UNCHANGED <<pc, cmd, found, target, erased, inserted, overlapped, removed>>

\* A DELETE of the API commits; it waits while a seed holds its row.
Remove ==
    \E id \in table :
       /\ \A p \in Run : id \notin erased[p]
       /\ table' = table \ {id}
       /\ target' = Vanish({id})
       /\ removed' = TRUE
       /\ UNCHANGED <<pc, cmd, found, erased, inserted, posted, late, overlapped>>

Progress(p) ==
    \/ Count(p)
    \/ DeleteAll(p) \/ Erase(p) \/ DeleteDone(p)
    \/ Insert(p) \/ Collide(p) \/ Deadlock(p)
    \/ Commit(p)

Next ==
    \/ \E p \in Run : Start(p) \/ Progress(p) \/ Fail(p)
    \/ Post \/ Remove

Spec == Init /\ [][Next]_vars

\* Postgres runs every statement that can run, and the script waits for nothing
\* else; nothing obliges anyone to start it or to use the API.
FairSpec == Spec /\ \A p \in Run : WF_vars(Progress(p))

----------------------------------------------------------------------------
SeedId == SeedArg \X Nat \X (Nat \ {0})

TypeOK ==
    /\ table \subseteq SeedId \cup PostedId
    /\ pc \in [Run -> {"idle", "started", "deleting", "inserting",
                       "done", "collided", "failed"}]
    /\ cmd \in [Run -> Command]
    /\ found \in [Run -> Nat]
    /\ target \in [Run -> SUBSET table]
    /\ erased \in [Run -> SUBSET table]
    /\ inserted \in [Run -> 0..MaxCount]
    /\ posted \subseteq PostedId
    /\ late \in [Run -> SUBSET posted]
    /\ overlapped \in [Run -> BOOLEAN]
    /\ removed \in BOOLEAN

\* The transactions of seeds that run at once stay out of each other's way,
\* though they may draw the same ids: no id is inserted twice, none that is in
\* the table is inserted unless the same seed has deleted it, none is deleted
\* twice.
OneOwner ==
    \A p, q \in Running :
       /\ Inserted(p) \cap (table \ erased[p]) = {}
       /\ p # q => /\ Inserted(p) \cap Inserted(q) = {}
                   /\ erased[p] \cap erased[q] = {}

\* Without it the same dataset would not come back, ids included: a reset that
\* runs alone leaves its own batch, drawn from --seed alone, and nothing else
\* but what was POSTed since it began to delete.
ResetReproduces ==
    \A p \in Run :
       /\ pc[p] = "inserting" /\ inserted[p] = cmd[p].count
       /\ cmd[p].reset /\ ~overlapped[p]
       => After(p) \ late[p] = {<<cmd[p].seed, 0, n>> : n \in 1..cmd[p].count}

\* A batch never collides with rows that are there, as long as seeds do not
\* overlap and nothing was deleted since the last undisturbed reset: the number
\* of rows found then tells the batches apart.
BatchesAreFresh ==
    \A p \in Run :
       pc[p] = "inserting" /\ inserted[p] < cmd[p].count /\ Taken(p)
          => removed \/ overlapped[p]

\* A seed changes the table once, by the whole of its transaction, whatever fails,
\* collides or waits: all a reset has found is gone when all of its batch is there,
\* neither before the other, and the run is over then.  A run that ends otherwise leaves the
\* rows it has deleted where they were.  All else that changes the table is one POST,
\* or the DELETE of one listing that no seed has deleted.
WholeBatches ==
    [][\/ table' = table
       \/ \E id \in PostedId : table' = table \cup {id}
       \/ \E id \in table :
             /\ \A p \in Run : id \notin erased[p]
             /\ table' = table \ {id}
       \/ \E p \in Running :
             /\ target[p] = {}
             /\ table' = (table \ erased[p]) \cup {Draw(p, n) : n \in 1..cmd[p].count}
             /\ p \notin Running']_vars

\* Seeds never wait for one another without end: among those under way there is one
\* that has something to do, or that waits in a circle, which Postgres notices.  No
\* run waits for one that has ended, and none is left to wait for itself alone.
CanGoOn(p) ==
    \/ pc[p] = "started"
    \/ pc[p] = "deleting" /\ target[p] = {}
    \/ pc[p] = "deleting" /\ ~(target[p] \subseteq UNION {erased[q] : q \in Run})
    \/ pc[p] = "inserting" /\ inserted[p] < cmd[p].count /\ Blockers(p) = {}
    \/ pc[p] = "inserting" /\ inserted[p] = cmd[p].count
SomeSeedGoesOn ==
    Running # {} => \E p \in Running : CanGoOn(p) \/ InCircle(p)

\* Every run that was started ends, though seeds wait for each other's rows and,
\* when a listing of a batch was deleted by hand, even in a circle.
EveryRunEnds == \A p \in Run : p \in Running ~> p \notin Running

\* The script's docstring: "re-running the same command never collides with
\* rows it created before".
RerunNeverCollides == [][\A p \in Run : Collide(p) => overlapped[p]]_vars
=============================================================================

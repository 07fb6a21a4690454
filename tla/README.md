# ExpertListingApi in TLA+

A model of the listings API (`src/app`, `src/alembic`, `src/scripts`): a FastAPI service
with asynchronous handlers over one Postgres/PostGIS table, and the script that seeds it.
The modules say what the code does when requests overlap, wait for each other, fail and are
repeated; TLC checks them on small instances, and TLAPS proves all the safety properties of
these runs for instances of any size.

Run everything from this directory: `tlc -config X.cfg M.tla` for a run, `tlapm M.tla` for
the proofs of a module `...Proofs`.

## 1. The system

| component | source | state | operations | hard parts |
|---|---|---|---|---|
| listing service | `app/services/listing_service.py`, `app/repositories/listing_repo.py`, `app/api/v1/listings.py` | rows of `listings`; per request: a session, a transaction, the row in hand | create, get, update, delete | handlers interleave at every `await`; row locks; failure between statement, COMMIT and answer |
| list and search | same files, `app/schemas/common.py`, `SearchParams` | none of its own | list page, search page | two statements, two snapshots; offset paging while rows come and go; ties |
| request and reply schemas | `app/schemas/listing.py` | none | validate, merge, convert money | null versus absent, exactness of amounts |
| schema and trigger | `alembic/versions/...create_listings.py`, `app/db/models.py` | column defaults, `updated_at` trigger | upgrade, downgrade | `now()` is the transaction's start |
| session and pool | `app/db/session.py` | pooled connections | check out, pre-ping, release | bounded pool, timeouts, release on every path |
| health check | `app/api/health.py` | none | probe with a timeout | needs a pooled connection to say anything about the database |
| error envelope | `app/errors.py` | none | one handler per kind of exception | the handler of unexpected errors runs outside every middleware |
| request id and logging | `app/core/request_id.py`, `logging_config.py` | a context variable, the request's state | accept or mint, set, use, reset, log | interleaved requests; what is logged after the reset |
| seed script | `scripts/seed.py` | rows with deterministic ids | reset, append | concurrent seeds, id collisions, circles of waits, atomicity |
| startup | `Dockerfile`, `docker-compose.yml`, `alembic/env.py` | schema version, volumes | migrate, serve, reset | order, concurrent migrations |
| settings, wiring, tests, CI | `app/core/config.py`, `app/main.py`, `tests`, `.github` | none | | |

**How they interact.** A request passes the request-context middleware, CORS and the
exception handlers, is validated by Pydantic, and reaches a handler that gets a session of
its own from `get_session`. The service awaits one repository statement (two for a page)
and, if it wrote, `session.commit()`. Handlers run in one event loop and share nothing in
the process but the connection pool and the context variable; everything else they share
is in Postgres, under READ COMMITTED (the default, which the code does not change). The
seed script is another process on the same table. Nothing is sent between components
other than calls, and nothing is retried by the service itself: the retries are the
clients'.

**What makes each correct.**

- *listing service*: no update is lost; a reply is true of the state it was decided in; a
  4xx changes nothing, a 2xx changes exactly once; a listing is deleted once; a handler
  never waits for ever; stamps are in order.
- *list and search*: a page whose count and fetch saw the same result is exact; pages are
  stable; what concurrent writes can make a client miss or see twice is bounded; no
  request makes a statement Postgres or the query builder rejects.
- *schemas*: validation refuses what the table would; an amount with no more digits than
  allowed comes back as it was sent, and one with more is refused or, if it came as a JSON
  number, may be rounded first.
- *pool, health*: every path gives its connection back; a request fails for the
  database's sake only if it met an outage or found the pool full; every request ends.
- *request id*: no record and no answer carries another request's id; every answer bears
  its own; the access log and the clients agree on the status.
- *seed*: a batch is in the table whole or not at all; a reset reproduces its dataset;
  batches do not collide; seeds that wait for each other all end.
- *startup*: the service serves only on a migrated schema.

## 2. Modules

```
ListingData ─┬─ ListingStore                           (what the API promises)
             └─ ListingCrud ──┬─ MCListingCrud         (what the handlers do)
                 (implements  └─ ListingCrudProofs
                  ListingStore)

SearchQuery ── ListingSearch ──┬─ MCListingSearch      (list and search)
                               └─ ListingSearchProofs

Seed ────────────┬─ MCSeed                             (scripts/seed.py)
                 └─ SeedProofs

ConnectionPool ──┬─ MCConnectionPool                   (db/session.py, api/health.py)
                 └─ ConnectionPoolProofs

RequestPipeline ─┬─ MCRequestPipeline                  (request_id.py, errors.py,
                 └─ RequestPipelineProofs               logging_config.py, main.py)

Money ─┬─ MCMoney                                      (prices in schemas/listing.py)
       └─ MoneyArithmetic ── MoneyFloats ── MoneyProofs
```

### ListingData: bodies, validation, merging

A listing's contents are a function from columns to values. The code treats two kinds of
columns differently, those that may be null and those that may not (`Required`); a body
gives a column a value, an explicit null, or leaves it out (`Unset`, which is what
`exclude_unset` and `model_fields_set` look at). `ValidCreate`, `ValidPatch` are
`ListingCreate` and `ListingUpdate`; `NewData` and `Merge` are what INSERT and
UPDATE ... SET make of a body. Lengths, ranges and patterns of single fields are
abstracted: a body that breaks one is an invalid body like any other.

### ListingStore: the abstract specification

The table as clients may think of it. Each request takes effect at one instant between its
arrival and its answer: `Succeed`, `SucceedUnnoticed` (the change is made and a 500 is
answered), `Show`, `Refuse`. No transactions, locks or clocks.

### ListingCrud: the handlers

| action | code |
|---|---|
| `Receive`, `Reject` | the router; body and path validation, 422 |
| `Begin` | the session's first use: a connection, BEGIN, `now()` is fixed |
| `Insert` | `ListingRepository.create`: INSERT ... RETURNING with the column defaults |
| `Select` | `ListingRepository.get_by_id` and the 404 of `ListingService.get` |
| `Update`, `Delete` | the UPDATE (with the trigger) and DELETE ... RETURNING, holding the row |
| `Wait` | the statement blocks on a row another open transaction has written |
| `Miss` | no row came back, at once or after waiting: `NotFoundError`, 404, rollback |
| `Commit`, `Unacknowledged` | `session.commit()`; its acknowledgement may be lost, or building the reply fail |
| `Fail` | any exception before the commit: `get_session` closes the session, which rolls back; 500 |
| `Answer`, `Crash` | the response is sent; the process dies with all its requests |

`table` is the committed rows; `claim[r]` and `version[r]` are the row an open transaction
has written and what it leaves in it; `result[r]` is the reply the handler built from
RETURNING before the commit; `xstart[r]` is the transaction's `now()`. A row that was
deleted is `Gone`, one that never was `Absent`.

### SearchQuery, ListingSearch: list and search

`SearchQuery` has the validation of `PageParams` and `SearchParams`, the WHERE and ORDER
BY clauses and the LIMIT/OFFSET of `search_statement`, `Paginated.build`. Sorting is *some*
ordering that the ORDER BY allows, so that a missing tie-break would show as
nondeterminism. `ListingSearch` is a client that asks for one page after the other until
one comes back empty, with the two statements of each page (`Count`, `Fetch`) as separate
steps and commits of POST, PATCH and DELETE anywhere in between. `effects` remembers
whether writes made listings enter or leave the client's result (a listing whose sort key
changes does both). `Parameters` is what Pydantic's types let through to the ranges and
validators of `ValidSearch`; `MaxPrice` is the largest amount of 15 digits. Coordinates,
radius and amounts are whole degrees, kilometres and kobo.

### Seed: the seed script

One transaction: `Count` (append) or `DeleteAll`, `Erase`, `DeleteDone` (reset), then the
inserts, then `Commit`. An id drawn from the seeded generator is the triple of `--seed`, the
number of rows found (0 after a reset, and for an empty table) and the position of the draw:
that is all that determines it. DELETE finds the rows that were committed when it started
(`target`), deletes them one by one in any order (`erased`), waits for a row that another
transaction has deleted, and skips it if it is gone after that (`Vanish`). An INSERT whose
key another open transaction has inserted or deleted waits (`Blockers`); one whose key is
committed fails (`Collide`) and the transaction is rolled back. Transactions that wait for
each other in a circle are told by Postgres, which aborts one (`Deadlock`). POST and DELETE
requests are single steps, which is what `ListingCrud` establishes of them. Rows are
inserted one by one, so the boundaries between the 500-row statements are among the states
explored. `WholeBatches` says what one transaction means for the table: it changes by all
that a seed has deleted and inserted, at once and with the end of that seed, or by one POST
or one DELETE of a row no seed has deleted, and by nothing else. A `delete_all` that
committed for itself, or a commit after every statement, breaks it.

### ConnectionPool: sessions, pool, probe, outages

| action | code |
|---|---|
| `Arrive` | a handler's session comes to its first statement |
| `Reuse`, `Open`, `Queue` | the pool hands out an idle connection, makes room for a new one, or lets the request wait |
| `Ping`, `Connect` | `pool_pre_ping=True`: a connection is tried before it is used, and replaced if dead |
| `Select`, `Write`, `Commit` | the statements of a reader or probe and of a writer; all writers want one row |
| `Break` | the database is gone: a handler raises, `health` catches it and answers 503, or the error is of a class it does not catch and becomes a 500 |
| `TimeOut` | the pool's 30 s in the queue, or the probe's own 3 s, are over |
| `Fault` | any other exception of a handler |
| `Close` | `get_session` closes the session of a handler that returned, after its answer was sent |
| `Stop`, `Restart` | the database goes away, with all connections and row locks, and comes back |

What matters is when a connection goes back to the pool: a writer's at COMMIT, a raising
handler's before its answer (`Finish`), that of a reader or a probe only after the answer
(`Return`). `slot` is the pool, `born` says which of the database's lives a connection
belongs to; `troubled`, `served` and `crowded` remember what a request has met.

### RequestPipeline: ids, answers and records

The layers are those `main.py` and Starlette build: the server, the handler of unexpected
errors (Starlette puts it outside all middleware), `RequestContextMiddleware`, then CORS,
the other handlers and the routes. `Enter` accepts or mints the id and puts it in `context`
(the context variable) and `state` (`request.state`); an inner layer answers (`Respond`) or
raises (`Raise`), before the answer or after it; `Leave` is the `finally` clause: the access
record, then the reset. `Handle` is `unhandled_exception_handler`, which answers if no
answer was sent; `Report` is uvicorn logging the exception that Starlette raises once more.
`log` holds every record with the `request_id` that `RequestIdFilter` gave it. An access
record of `/health` is a debug record and is not written.

### Money: prices

A price is sent as a JSON string or number (`Create`), read (`Get`) and sent back as it was
read (`Update`). Decimals are `coef / 10^exp`; floats are `m / 2^k` with `Bits` bits, with
the rounding of `float()` (`FloatOf`) and the shortest text that reads back as the same
float (`TextOf`, Python's `repr`): Pydantic makes a Decimal of a JSON number with a point by
way of that text, while integers and strings are read as they stand (`Understood`). `Accepts` is Pydantic's rule of digits: no more places than two, and before the point
no more digits than are left. `NairaToKobo`, `KoboToNaira` and `NairaToJson` are the
module's own three conversions. Prices are sent in thousandths of a naira, one place more
than is accepted, from nothing to `MaxLiteral`, which `MoneyAssumption` lets be anything up
to the first amount with a digit too many. Powers are a recursive function
(`Power`), so that the module can be proved about.

## 3. Runs

| run | instance | shows |
|---|---|---|
| `crud` | 3 requests, 2 ids (1 listing at the start), clock to 1 | `OpenWriteIsCurrent` no lost update; `DeletedOnce`; `UpdatedNotBeforeCreated`; `AtomicRequests` the handlers implement `ListingStore` |
| `crud_live` | 2 requests, 3 ids, invalid bodies and ids too, weak fairness | `EveryRequestSettles`; the inductive invariant `IInv` of the proofs; refinement with refusals |
| `updated_at` | 2 requests, 1 listing | **violation** of `UpdatedAtMonotone` (finding 1) |
| `search` | 3 listings, 2 writes, every sort order, page sizes 1 and 2, pages past the end, parameters to refuse | `StatementIsSound`, `SteadyAnswerIsExact`, `QuietPagesAddUp`, `AdditionsHideNothing`, `RemovalsRepeatNothing` |
| `search_total` | 1 write | **violation** of `PageAgreesWithTotal` (finding 2) |
| `seed` | 3 runs, count up to 2, 1 POST, any deletions | `OneOwner`, `ResetReproduces`, `BatchesAreFresh`, `WholeBatches`, `SomeSeedGoesOn` |
| `seed_live` | 3 runs, count up to 2, any deletions, weak fairness | `EveryRunEnds` |
| `seed_rerun` | 2 runs, count 1 | **violation** of `RerunNeverCollides` (finding 3) |
| `pool` | 3 requests of mixed kinds, 1 kept and 1 overflow connection, 1 outage, weak fairness | `NoConnectionLost`, `RepliesAreHonest`, `SomeRequestGoesOn`, `EveryRequestEnds` |
| `pipeline` | 2 requests, a shared, an unsafe and a stolen id, weak fairness | `NoCrossTalk`, `AnswersBearTheId`, `AccessLogAgrees`, `SupportCanFind`, `EveryRequestAnswered` |
| `pipeline_lines` | the same | **violation** of `EveryLineBearsTheId` (finding 4) |
| `money` | 3 digits, 12-bit floats, every thousandth to 12 naira | `AmountIsKept`, `ToldIsStored`, `ResendChangesNothing` |

Every passing run also checks its module's `TypeOK`, except the liveness runs.

**Bounds and why they are enough.** `crud`: a row has one writer and a queue; three
requests give a writer, a waiter and a third that gets in before the waiter or deletes the
row under it. Two columns, one nullable, are all the code tells apart, and two PATCH
bodies on different columns make a lost update visible. `MaxClock = 1` separates "began
earlier" from "began later". `search`: with three listings and pages of one or two there
are first, middle, last, full and partly filled last pages; two writes allow one of each
kind on either side of a page. `MaxOffset = 7` stands for 2^63 - 1 and lies below the
offsets of the pages asked for. `seed`: the collisions need two runs and a deletion, the
waits two overlapping runs, a circle two runs that each have a row the other wants, and the
third run finds what a failed or rolled-back one left. `pool`: one request more than there
are connections makes the queue; one outage has requests before it, in it and after it, and
leaves dead connections in the pool. `pipeline`: two requests suffice to mix up ids, as a
record or answer has one owner. `money`: 3 digits and 12 bits are the fewest that leave
room for two places and meet `MoneyAssumption`, `4 * 10^Digits <= 2^Bits`: the floats next
to the largest amount lie closer together than its last digit, which is what the code's
comment about 15 significant digits rests on. Every number of the run, past the limit and
with one place too many, is tried. The proofs lift all of these bounds, for `money` to the
code's 15 digits and 53 bits among others. Only run `crud` uses symmetry, of requests, and
it checks no liveness.

**Deadlock** is checked in the `crud` runs, where `Crash` is always possible, so it says
little and `EveryRequestSettles` is what shows that nothing waits in a circle. Elsewhere the
requests, the client or the script simply come to their end, and it is switched off.

**Fairness.** `ListingCrud!FairSpec` has weak fairness of each handler's `Progress`: the
event loop runs every handler that is ready and Postgres every statement that can run.
Nothing obliges a client to ask, the clock to tick, or a step to fail. Weak fairness is
enough although a waiter's lock may be taken by another request first, because requests
are finite and each is made once (under an endless stream of writers one would appeal to
Postgres's queue of lock waiters). `Seed!FairSpec` is the same for the script's steps, and
counts Postgres's deadlock check among them. `ConnectionPool!FairSpec` has the timers
expire and clients read their answers; it does not have the database come back: that a
connection attempt fails while it is away (`Break`) is what ends the requests then.
`RequestPipeline!FairSpec` has the event loop run each task.

## 4. Proofs

| module | obligations | theorems (`Spec => []...`) |
|---|---|---|
| `ListingCrudProofs` | 816 | `TypeCorrect`, `NoLostUpdate` (`OpenWriteIsCurrent`), `OneDeletion` (`DeletedOnce`), `StampsInOrder` (`UpdatedNotBeforeCreated`), `Invariance` (`IInv`), `Atomicity` (`Spec => AtomicRequests`: `ListingCrud` implements `ListingStore`) |
| `ListingSearchProofs` | 1375 | `SearchTypeCorrect`, `SoundStatements` (`StatementIsSound`), `ExactPages` (`SteadyAnswerIsExact`), `AdditionsSafe` (`AdditionsHideNothing`), `RemovalsSafe` (`RemovalsRepeatNothing`), `QuietWalks` (`QuietPagesAddUp`) |
| `SeedProofs` | 875 | `SeedTypeCorrect`, `SeedsKeepApart` (`OneOwner`), `BatchesAppearWhole` (`WholeBatches`, an action property), `ResetsReproduce` (`ResetReproduces`), `FreshBatches` (`BatchesAreFresh`), `SeedsNeverStuck` (`SomeSeedGoesOn`) |
| `ConnectionPoolProofs` | 375 | `PoolTypeCorrect`, `PoolLosesNothing` (`NoConnectionLost`), `HonestReplies` (`RepliesAreHonest`), `RequestsNeverStuck` (`SomeRequestGoesOn`) |
| `RequestPipelineProofs` | 190 | `PipelineTypeCorrect`, `NoIdCrosses` (`NoCrossTalk`), `EveryAnswerBearsTheId`, `AccessLogIsTrue` (`AccessLogAgrees`), `SupportFinds` (`SupportCanFind`) |
| `MoneyArithmetic`, `MoneyFloats` | 590, 1498 | the lemmas of `MoneyProofs` |
| `MoneyProofs` | 458 | `MoneyTypeCorrect`, `AmountsKept` (`AmountIsKept`), `ToldTruly` (`ToldIsStored`), `ResendsKeep` (`Spec => ResendChangesNothing`, an action property), `FloatsAreFineEnough` (`MoneyAssumption` is true of the code's figures) |

Each also proves its inductive invariant `IInv` (`...Invariance`). The only assumptions are
the named ones of the modules (`DataAssumption`, `RequestAssumption`, `CrudAssumption`,
`QueryAssumption`, `SearchAssumption`, `SeedAssumption`, `PoolAssumption`,
`PipelineAssumption`, `MoneyAssumption`): special values are distinct, and parameters, bodies
and contents are well typed. Two are bounds: `SearchAssumption` has no more listings than the
largest OFFSET, which 2^63 - 1 allows, and `MoneyAssumption` has floats fine enough for the
digits of a price, which `FloatsAreFineEnough` proves of the code's, and no prices sent beyond
the first that is too large.

### ListingCrud

The invariant `IInv` is inductive; its parts need each other:

- `OpenWriteIsCurrent` holds because a row is claimed before it is changed and
  `Ready` requires it unclaimed. `Commit` keeps it for the other open transactions because
  no two claim the same row, which is its second half.
- `Sound`: `Miss` answers 404, which the abstract store does only to valid requests for
  listings that are not there; so a request past `Begin` is valid, and a row it names was
  committed once and is not `Absent`, hence is `Gone` when it is not listed. The latter
  holds because clients name ids they have been given.
- `DeletedIsGone`: `DeletedOnce` alone is not inductive. A second 204 needs a listed row;
  after the first the row is `Gone`, and stays so because `Insert` takes `Absent` ids.
- `Stamped`: an UPDATE stamps `xstart[r]`, which may lie before the row's last update, but
  not before its creation: the client learned the id from a committed row, whose
  transaction began before that.

For `Atomicity` the mapping is `Stored` (the committed contents without stamps), `Phase`
(a request is undecided until its transaction ends) and `Replied`. A request takes effect
where its transaction ends: `Commit` maps to `Succeed`, because `OpenWriteIsCurrent` says
that the version it publishes is what `ListingStore` computes from the contents of that
instant and that the reply already in hand describes it; `Unacknowledged` maps to
`SucceedUnnoticed`, `Select` to `Show`, `Reject`, `Miss` and `Fail` to `Refuse`, and
`Begin`, `Insert`, `Update`, `Delete`, `Wait` and `Tick` to stuttering.

### ListingSearch

Everything is said in ranks, the number of results sorted before a listing. Because every
ORDER BY ends with `id` the ordering is total (`TotalOrder`), so a listing's rank is its
place in whatever ordering Postgres takes (`PlaceIsRank`) and a page is a range of ranks
(`PageIsRange`): with `Counted`, what COUNT leaves for Fetch, that is `ExactPages`. For a
paging client, `RankGrows` says that a rank grows only if something enters the result and
shrinks only if something leaves. `Walk` then says that, as long as nothing has left, what
was there at the start and has not been seen has a rank on a page still to come
(`NothingHidden`); that, as long as nothing has entered, what has been seen and is still
there has a rank on a page already read (`NothingRepeated`); and that, without either, what
has been seen is just the ranks below (`NothingMoved`). `PagesPastTheEnd` closes the
argument: when a page comes back empty no rank is left.

### Seed

`OneOwner` is inductive with `HoldsNothing` (only a run in its transaction has inserted or
deleted anything). `WholeBatches`, `ResetReproduces` and `BatchesAreFresh` need `Quiet`, a
second invariant; the first, that a run which inserts has nothing left to delete. For
`ResetReproduces` (`Alone`, `Cleared`): a reset that nobody overlaps has in its `target` and
`erased` all of the table but what was POSTed since. For `BatchesAreFresh` (`Fresh`):
without deletions every seeded row in the table was drawn for fewer rows than the table has
now, so a count never comes back.

`SomeSeedGoesOn` needs `Orderly`: no row is both found and deleted by the same DELETE, no run
inserts more than `--count`, and only finitely many are under way, however many there may be
in all. Then a run that cannot go on waits for another one that is under way
(`WaitsForAnother`), and if all do, take a least nonempty set of them that is closed under
waiting (`SomeCircle`; it exists as the strict subsets of a finite set are well founded):
each of its members waits in a circle, or the set could be made smaller.

### ConnectionPool, RequestPipeline

`NoConnectionLost` needs the types' coupling of `pc` and `held`. `RepliesAreHonest` needs
`Prospects`: a request's history knows an outage that is on, a request that queues has met a
full pool, and a connection that was pinged or opened is good until the next outage. In
`RequestPipeline` each layer is told what the one inside it leaves: `IdsAgree` (middleware,
state and request agree on the id), `ContextAgrees`, `LogAgrees`, `AnswerAgrees`,
`StatusAgrees` (the middleware's note of the status is right, or will be once the handler
outside has answered 500), `AccessAgrees`.

`RequestsNeverStuck` is a consequence: if nobody in progress could go on, whoever has a
connection would be a writer waiting for the row, but who has the row (`TypeOK`: it has
written) could commit; so nobody has a connection, all queue for one, and yet by
`NoConnectionLost` none of the pool's is in use.

### Money

The proofs are about numbers of any size, and `MoneyArithmetic` starts with what they
need: induction (that a set of naturals has a least member is `WFMin` on `<`; a set with 0 and
every successor of its members follows, without an operator as a parameter), the existence
of the recursive function `Power`, the laws of powers, quotients and remainders, and normal
decimals (`Normal` is worth the same and has the fewest places). Its results on prices:
`KoboExact` and `KoboRoundTrip`, between kobo and an accepted decimal nothing is lost.

`MoneyFloats` replaces the construction in `FloatOf` by a relation: a decimal reads as the
float it is closest to, an even mantissa decides, at the edge of a range too (`ReadsAs`,
`FloatIsRead`, `ReadIsFloat`). Then:

- a decimal between another and that one's float reads as the same float (`BetweenReads`), and
  worth is all that counts (`WorthFloat`);
- so the text `TextOf` looks for exists and reads as the float again (`TextReads`): with as
  many places as were sent, one of the float's two neighbours lies between the float and what
  was sent; `TextOf` takes the closest of the shortest (`TextChosen`);
- two decimals that read as the same float are no further apart than its last bit
  (`ReadGap`), which with `4 * 10^Digits <= 2^Bits` is less than the last digit of a price, so
  that no two of the same places and at most `Digits` digits do (`SameFloatSameCoef`);
- hence a decimal of at most `Digits` digits is its float's text (`ExactText`), and one with
  more is less than half a kobo from it if that text is accepted (`NearKobo`).

`IInv` says what has become of the price: nothing yet, or what was understood of it is
accepted and `stored` is its kobo, or it was refused; and `told` is made of `stored`. A
second PATCH keeps the price because what is told is a whole number, which is read as it
stands, or again the text of a float, which is understood as itself. `FloatsAreFineEnough` evaluates the powers for 15 and 53.

**Model-checked only**: the liveness properties (`EveryRequestSettles`, `EveryRunEnds`,
`EveryRequestEnds`, `EveryRequestAnswered`), as liveness under fairness is out of the
prover's reach. `SomeSeedGoesOn` and `SomeRequestGoesOn` are the part of two of them that is
safety, and are proved: what the liveness runs add is that whoever can go on does, and that
this does not go on for ever.

## 5. Findings

1. `updated_at` can go back. README.md:135 says it "is maintained by a DB trigger, so it's
   correct"; the trigger stamps `now()`, the transaction's start. Of two PATCHes of one
   listing, the one that began first may commit last, and then sets `updated_at` to before
   the update it follows. (It never goes before `created_at`: `StampsInOrder`.)
2. A page may disagree with its `total`. README.md:121-122 calls it exact; count and page
   are two statements with a snapshot each.
3. A repeated seed may collide. `scripts/seed.py:9-10` says it never does; the number of
   rows found, which tells batches apart, comes back when listings are deleted.
   `BatchesAreFresh` says when the claim does hold: seeds one at a time and no deletions
   since the last undisturbed reset.

4. Not every log line bears the request id. README.md:130-131 says the id of a 500 is "in
   every JSON log line, so support can find the logs". The record with the traceback is
   written outside the middleware, after the context variable was reset, and has `-`; so
   has uvicorn's own. The first names the id in its message (`SupportFinds`), so a search
   for the id does find it, but not one by field.

A divergence without a run, as it is about compose alone: `docker-compose.yml:13` says that
"`make down` resets" the volume the init scripts depend on; `make down` keeps volumes, and
`make reset` drops them (`Makefile:8-13`).

Two more go against the letter of a document in a corner; the properties allow for them
openly, and no run is made to fail for them:

- A probe that finds every connection in use for 3 seconds answers that the database is
  unreachable although it is there, and compose may come to take the service for unhealthy;
  `app/api/health.py:29` describes the 503 as "Database unreachable". `RepliesAreHonest` has
  to allow for `crowded`.
- A JSON number with more digits than a price may have is rounded to a float before it is
  validated, and may be accepted as a price less than half a kobo away (`AmountIsKept`);
  README.md:111-112 says "up to 2 dp". Its own example, `1.005`, is refused either way.

What the models also show without contradicting any document: a client that gets a 500
cannot know whether its change was made (`SucceedUnnoticed`), and as POST carries no
idempotency key, trying again may make a second listing; paging misses listings while
others leave the result and repeats some while others enter it; a probe may answer 500
instead of 503 while the database is away, as `health` catches the errors of SQLAlchemy and
of the operating system and SQLAlchemy passes on the driver's own when it connects.

## 6. Assumptions of the models

- Postgres is used as the code uses it: READ COMMITTED; one snapshot per statement; a
  statement that waited for a row sees it as it then is; rollback at disconnect. Its clock
  does not run backwards.
- Random ids (`gen_random_uuid()`) are new and not guessed. Ids that clients send were once
  committed, or are malformed (`NoId`); an unknown well-formed id behaves like a `Gone` one. The
  seed script does bring ids back after a reset; `ListingCrud` has no seed running.
- In `ListingSearch` ids are integers, since only their order matters; stamps are integers,
  equal ones included; distance is any function of two points, as PostGIS uses the same
  one to select, to show and to sort.
- `ListingRepository.update` with nothing to change falls back to a SELECT. Validation
  refuses an empty PATCH, so the branch is not reachable through the API and not modelled.
- `Filters` has money in whole kobo; `NairaFilter` is `NairaIn` but for zero, and
  `Money` shows the conversion to be exact.
- The engine's pool has SQLAlchemy's defaults (5 kept, 10 more, 30 s in the queue), which
  the code does not change. A request waiting in the queue does not notice that a
  connection might be opened instead until its time is over. A database that is there
  answers in time: a probe times out in the queue or when the database is away.
- A FastAPI dependency with `yield` is closed after the answer was sent if the handler
  returned, and before the exception handlers run if it raised.
- Each request has a task of its own that starts with an empty context, and a `scope` whose
  `state` is its own: uvicorn copies it per request. `uuid4` does not repeat, though a caller
  may send an id that was minted for another request.
- A client reads a JSON price as a float, and writes it as the shortest text of that float.

**Not modelled**: *startup*: there is one migration, in one transaction; database, migration
and service are put in order by compose and `make up --wait`. Two migrations at once
(`make migrate` while a container starts) would make the second fail on what the first has
created, which is Postgres's doing; the program keeps no state of its own there. *CORS*: that the 500 of
the outermost handler bypasses it, so that a browser of another origin cannot read the id,
is visible in the layers of `RequestPipeline` but what browsers may read is not modelled.
CHECK constraints and indexes; OpenAPI texts, log formats, the error envelope's wording; the
geometry of PostGIS and its index, query plans; the generator's choice of titles, prices
and places; tests and CI (read for what the program promises).

## 7. Plan

Done: `ListingStore`, `ListingCrud`, `SearchQuery`, `ListingSearch`, `Seed`,
`ConnectionPool`, `RequestPipeline`, `Money`, each with its proofs. Left, in this order:

1. `ListingCrud` with ids that come back, which is what a reset seed makes possible while
   the API serves: `DeletedOnce` becomes "once per insertion", and finding out whether
   anything else depends on ids being new.
2. Composition of `ConnectionPool` with `ListingCrud`: a writer that waits for a row keeps
   its connection. `ConnectionPool` has the worst case of it, one row for all writers.
3. A second migration, once the repository has one: the service of the old version running
   on the schema of the new.

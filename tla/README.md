# A TLA+ model of aura-connector

aura-connector is an asyncio client for the Aura data server and for several
other stores. This directory holds TLA+ models of it, the TLC runs that
check them and TLAPS proofs about them. Line references are to `src/aura/` of
the repository unless another directory is named; `PROJECT.json` maps every
modelled definition to its lines.

## 1. The system

| Part | State it keeps | Operations | Talks to |
|---|---|---|---|
| `Client`, `Transaction` (`client.py`) | the current backend, `_closed`, model registry, transaction counter; per transaction its id and `_finished` | queries, mutations, `bulk_insert`, streams, `begin/commit/rollback`, `close` | one backend |
| `LeaderRedirect` (`client.py`) | redirects left, per operation | `run`, and the writes that go through it | replaces the client's backend |
| `ProtocolBackend` (`backends/auradb.py`) | request counter, server capabilities | handshake, schema, query, mutation, stream, transaction control, each through the retry loop `_request` | one transport |
| `TCPTransport` (`transport/tcp.py`) | connection flag, writer, read task, `_pending` futures, write lock, receive buffer | `connect`, `request`, `close`, the read loop | the server |
| `MemoryTransport`, `ReferenceServer` (`transport/memory.py`) | tables, an overlay per transaction, cursors | one handler per opcode | called by the backend |
| `AuraDBNativeBackend` (`backends/auradb_native.py`) | stream pair, request lock, map of transaction ids | as `ProtocolBackend`, over AWP 1 | the server |
| SQL, Redis, MongoDB backends (`backends/`) | a driver connection, for SQL the flag `_in_transaction` | translate the query IR to driver calls | the store |
| Query builder and IR (`query/`) | none, immutable values | build predicates, queries, mutations | - |
| SQL compiler (`backends/sql/`) | none | IR to statement and parameters | - |
| Codec and messages (`protocol/`) | none | frames to bytes and back, incremental decoding | - |
| Migrations (`schema/`) | none | diff of two schemas, rollback plan | - |
| Observability (`observability.py`) | counters, histograms | record, snapshot | written by client and backend |
| Configuration, DSN routing, profiles, capabilities | none | parse and select | - |
| Models, hydration, search helpers, CLI | the global model registry | validation, conversion, text processing | - |

One event loop runs everything. Tasks interleave only at an `await`, so the
unit of atomicity is the code between two awaits; what makes this code hard is
state that is read before an await and used after it, and one object (a
connection, a client, a server) that many tasks share:

* calls share one connection, one write lock and one `_pending` table, while
  timers, cancellation, the read loop and `close()` reach into them;
* a failed attempt is sent again under the same request id, so late answers and
  double execution are ordinary events;
* a leader redirect replaces the backend of the whole client under the other
  operations, in the middle of bulk inserts and transactions;
* transactions and streamed queries of several tasks interleave on one server;
* a peer may close, reset or fall silent at any time, and cut frames anywhere;
* Redis, MongoDB and SQL operations are several driver calls, with the calls of
  other tasks between them;
* a page of a ranked search or a window of a streamed query is asked for after
  rows have been written;
* one query means something different to five kinds of backend, and each of them
  must answer it or refuse it.

What makes each part correct:

* transport: an answer reaches its own call and no other; nobody waits for a
  future that nothing can resolve; the lock survives every way out; a finished
  call stays finished; every call ends; `close()` returns;
* redirect: being redirected applies a write no more often than its attempts are repeated after
  a timeout, success means applied, the loop ends, the client is not left on a backend a
  redirect closed;
* engine: a transaction sees its snapshot and its own writes, nothing of an
  uncommitted one leaks, a stream delivers the rows it matched, cursors are
  released;
* native backend: the answer a call reads belongs to its own request, a
  transaction's writes take effect with its own commit, no transaction is left
  open on the server, a stream that ends has read every page;
* SQL backends: what a commit, a rollback or a finished upsert leaves in the
  database, and that the flag tells whether the connection is in a transaction;
* Redis, MongoDB: a row stays under its own key, only a race, or an update that
  changes the primary key, replaces a row nobody asked to replace, an update changes
  only its fields, a scan or a read misses nothing that was there;
* queries: a filter selects the same rows on every backend, pages and windows put
  together are the whole result, aggregates add up, and what a query asks for is
  answered or refused;
* models: an instance read back has the values it was made of, and what was not
  selected refuses to be read;
* migrations: the plan leads from one schema to the other and back, and a plan
  that is called safe loses nothing;
* frames: wherever the stream is cut, the frames come out whole, once and in order.

The hazards in `PROJECT.json` name the line where each of these can go wrong.

## 2. Modules

| Module | Models |
|---|---|
| `Transport` | `TCPTransport` under the retry loop of `ProtocolBackend._request` |
| `RequestContract` | abstract: what a caller of a request may rely on |
| `LeaderRedirect` | `Client`, `LeaderRedirect`, `Transaction` against a cluster |
| `ReferenceServer` | the in-memory engine with its transactions and cursors, `Transaction` and `stream_query` as its callers |
| `NativeBackend` | `AuraDBNativeBackend` under a transaction, writes and streams, with the server it relies on |
| `SQLTransactions` | `SQLBackend` over SQLite and PostgreSQL under transaction blocks and upserts, with driver and database |
| `RedisStore` | the Redis backend, command by command |
| `MongoStore` | the MongoDB backend, driver call by driver call |
| `SQLTable` | what the statements of the SQL backends do to a table of SQLite, PostgreSQL and MySQL; streaming by windows |
| `Predicates` | filters: built, evaluated in memory, compiled to SQL, translated for MongoDB and AuraDB |
| `QueryEngine` | the in-memory engine as a query processor: search, pages, order, aggregates, links |
| `Clauses` | the query builder, every terminal operation, and what each backend makes of each clause |
| `Models` | model classes, construction, serialization, hydration |
| `Migrations` | diff, classification and rollback plan, applied to a schema |
| `Frames` | both frame codecs with messages, chunks, damage and reconnection |
| `TransportProofs` | theorems about `Transport`: its invariants; it implements `RequestContract` |
| `RedirectProofs` | theorems about `LeaderRedirect` |
| `ServerProofs` | theorems about `ReferenceServer`, `Clauses` and `QueryEngine`, a section each |
| `StoreProofs` | theorems about `SQLTransactions` (types, upserts, transaction blocks, the flag), about `Migrations` and `Models` and, from `RedisProofs` and `MongoProofs`, about `Stores` |
| `NativeProofs` | theorems about `NativeBackend` |
| `RedisProofs` | theorems about `RedisStore` |
| `MongoProofs` | theorems about `MongoStore` |
| `StreamProofs` | theorems about `Frames` and `SQLTable`, in the instances of `Stores` |
| `Stores` | `SQLTransactions`, `SQLTable`, `RedisStore`, `MongoStore`, `Models`, `Migrations` and `Frames` side by side |
| `Engine` | `ReferenceServer`, `QueryEngine` and `Clauses` side by side |
| `MCEngine` | instance: `ReferenceServer`, `QueryEngine`, `Predicates`, `Clauses` |
| `MCStores` | instance: `SQLTransactions`, `SQLTable`, `RedisStore`, `MongoStore`, `Models`, `Migrations`, `Frames` |
| `MCTransport`, `MCLeaderRedirect`, `MCReferenceServer`, `MCNativeBackend`, `MCClauses` | instances of one module each |

`Transport` stands below `LeaderRedirect` and `ReferenceServer`: there a request
is one step, with the outcomes `RequestContract` allows for a single attempt.
`Frames` stands below `Transport`, whose messages arrive whole. `SQLTable` has the
rows `SQLTransactions` leaves out, `QueryEngine` and `Predicates` the answers
`ReferenceServer` leaves open.

### Transport

A call is one execution of `_request`: `pc[r]` says at which await it is
suspended, `attempt[r]` is the loop variable, `fut[r]` the future of the current
attempt, `expired[r]` that its `wait_for` timer has fired. `connected`,
`writer`, `pending`, `lock` are the attributes of `TCPTransport`; `queue` is the
waiters of the `asyncio.Lock`, `readLoop` the read task, `closer` the position
of `close()`, `link` the socket as asyncio sees it, and `wire`, `executed`,
`replies` the frames on their way, executed and answered. A frame is the pair of
call and attempt.

| Action | Code |
|---|---|
| `Begin`, `Retry`, `EncodeFails` | `_request` and `request()` up to the first suspension |
| `TakeLock`, `Yielded`, `DrainReturns`, `DrainFails` | `async with self._write_lock`, `write`, `drain` |
| `Expire`, `TimesOut`, `Resume` | `wait_for` on the future, the timeout handler, the retry decision |
| `Cancel` | cancellation of the caller's task at any await |
| `Deliver`, `SeeEof`, `SeeError` | `_read_loop`, `_drain_buffer`, `_fail_pending` |
| `CloseStart`, `CloseWriter`, `CloseFinish` | `close()` between its awaits |
| `SocketClosed`, `Execute`, `PeerCloses`, `PeerResets` | asyncio, the server, the network |

`Write` follows CPython's `StreamWriter`: on a writer being closed bytes may be
dropped and `drain()` yields once; on a lost connection it raises; with a full
send buffer it suspends with the lock held. When a future is done before its
timer fires, either may win: `asyncio.wait_for` was changed in Python 3.12 and
the package supports 3.11.

### LeaderRedirect

An operation is one run of `LeaderRedirect.run`: a single write is one request, a
bulk insert `BulkChunks` requests. Backend objects are numbered as they are
built; `current` is `Client._backend`, `conn[b]` the state of a backend's
connection. `Redirect` to `SwapDone`/`SwapFailed` is `_reconnect_backend_to` with
its awaits: the swap, the connection, the handshake with the schema, and the
`finally` clause that closes the backend that was replaced. The cluster (`leader`,
`applied`) is external, modelled from what the client relies on: one node at a
time applies writes, the others reject them before any effect and may name any
other node as the leader. One transaction records the nodes it was sent to. A
request is answered, rejected, or fails in whatever state it is. `Retry` is the
loop of `ProtocolBackend._request`: after a timeout or a lost connection the same
request goes out again over the same backend, up to `MaxAttempts` times, and what
was sent before may have been applied, or may be applied when nobody waits for
it (`GiveUp` decides and counts that at once). `repeated` counts the attempts that
were given up in that way and followed by another. A write is applied at most once
more than that (`RedirectAddsNoWrite`): two attempts, of which the first is applied
and times out while leadership moves and the second is rejected and redirected,
apply it twice, and the redirect is not the cause.

### ReferenceServer

`MemoryTransport.request` never suspends, so a step is a whole request with its
answer and what its caller does next, up to its next request. `tables`,
`overlays`, `cursors`, `cursorSeq` are the attributes of `ReferenceServer`. A row
is its key and the number of the mutation that wrote it last; a filter matches
any set of keys, an order is any order. `Store` is `_store`, with its fall back
to the committed tables. `Mutate` carries the effect of `Insert` (batches, the
three conflict modes, the partial effect of a refused batch), `Update`, `Delete`
and `Upsert`. Statements through a finished transaction are allowed, as the code
allows them. History variables: `snapshot`, `own`, `stagedBy`, `rivals`,
`matched`.

### NativeBackend

A task is a transaction block with one write, one autonomous write, or the loop
over a streamed query; `op[t]` is the backend call it is in and `pc[t]` the await
of `_request` it is suspended at: the lock (`queued`), `drain()` or the header
(`sent`), the rest of the answer (`reading`). `holder` and `queue` are `_lock`,
`connected` says that `_writer` and `_reader` are set, `txnMap` is `_txn_map` with
0 for an absent id, as its `get` and `pop` have it.

| Action | Code |
|---|---|
| `Call`, `TakeLock`, `Sends` | `begin`, `commit`, `rollback`, `execute_mutation`, `stream_query` and `_request` up to the frame |
| `ReadHeader`, `ReadRest`, `ReadGarbage`, `ReadFails` | `_request` from the header on |
| `TakesBegin`, `TakesWrite`, `TakesEnd`, `TakesPage`, `Raises` | what the caller does with the answer or the exception, `Transaction.__aexit__` included |
| `Cancel`, `Close`, `ConnectionLost` | cancellation of a task, `close()`, the network |
| `Serve`, `ServerForgets` | the server: external, answers the requests of a connection in order |

`requests` and `answers` are the two directions of the socket. Because the code
reads whatever answer is next, a request cancelled in flight shifts every later
reader by one; `unread` records those requests. A reader cancelled between header
and payload leaves the stream in the middle of an answer (`torn`): the next 44
bytes are no header, and where they end is left open. `StreamInStep` bounds the
damage, the others say what is true as long as no answer was left unread.

### SQLTransactions

All tasks share `_conn` and `flag`, the attribute `_in_transaction`. A task is a
transaction block with one insert, or an upsert of the same row; `op[t]` is the
statement it waits for. `dialect` is chosen initially.

| Action | Code |
|---|---|
| `Call` | a call of the application up to the driver: `begin`, `commit`, `rollback` with its test of the flag, a statement, the probe of `_upsert` |
| `Resume` | the code after the driver's answer: `Switched` for the flag, `Written` for the end of `_execute_write` with SQLite's `commit()`, `Found` for the decision of `_upsert`, `Raises` for the exception |
| `Cancel` | cancellation of a task at its await, with the rollback of `__aexit__` |
| `Run` | the database: one connection, statements in the order they were given |

The drivers are modelled from what the code relies on. aiosqlite queues
statements for its thread and runs them even if nobody waits any more; asyncpg
refuses a statement while another task waits for one. Any statement may fail.
SQLite keeps the transaction a statement or a commit failed in; PostgreSQL aborts
it, and then takes its commit for a rollback without an error. `met`, `cut`,
`wrote` and `errors` are history. MySQL, schema statements and raw statements are
left out; the flag of the base class is used the same way there, and what MySQL's
statements mean is in `SQLTable`.

The properties say where the flag can be trusted. It is false to the database
after any `begin`, `commit` or `rollback` that raised or was cancelled half way
(`cut`): after a failed commit on SQLite the flag and the transaction stay, so
that no later `begin()` succeeds and no autonomous write is committed. It can
also be false on SQLite while an upsert runs beside a block, whose transaction
the commit of `_execute_write` may end. Blocks and upserts that ran at the same
time share their fate in every case, so durability is stated for those that did
not.

### RedisStore and MongoStore

A task runs one operation of the backend; each command or driver call is a step,
so that any call of another task may come between two of them. The databases
serve a call at once. Failures of the driver are not modelled.

In `RedisStore` a row is the JSON document under the key `Model:pk`; `Exists`, `Get`,
`SetInserted`, `SetMerged`, `Del`, `Scan` and `Fetch` are the EXISTS, GET, SET, DEL, SCAN and
the GETs of a scan. `Normalize` is `_normalize`: an object given for a link becomes its primary
key, a collection is dropped. History: for each SET what was read, what was there and what was
written; for a scan the keys that stayed all along. Two ways of losing a row are real. A call of
another task may come between the EXISTS or GET of a call and its SET. And an update that
changes the primary key stores the row under the new key, over whatever row is there, without a
test and without any race, and leaves the old row under the old key (`Rekeys`).
`OverwritesOnlyInRace` says that there is no third way: any other SET replaces nothing, or the
row it is meant to, or one that another task stored. `OtherFieldsKept` says the same of the
fields of the row an update or upsert has read. `RowsUnderOwnKey` holds through updates of the
primary key, `ScanComplete` through writes during the scan.

In `MongoStore` a document has the `_id` MongoDB names it by, which an insert derives
from the primary key and an upsert leaves to the database, and the primary key, which
is unique only if `create_schema` has run (`unique`). An upsert matches on any fields: its key may
be `id`, another field or both, and its `$set` may then change the primary key of a document
an insert has made, whose `_id` stays (source `rekeyed`). `KeyNamesOneRow` says where two
documents can share a primary key: without the index, once an upsert has made one of
them or an update or upsert has changed a key. `IdIsKey` says which documents are named by
their primary key. `UpsertReadsBack` is about the two calls of an upsert: one that does not
change its own key ends without its row only if another call took the row (`TakesFrom`). A
clash with the unique index in `update`, `upsert` or `replace` raises the driver's own error,
with which the call ends.

### SQLTable

`Write` is one statement the compiler makes of an insert, update or delete, with the conflict
clause of each database, RETURNING or the SELECT MySQL has in its place, and the adaptation of
lists to JSON text and back. `Stream` and `Fetch` are `stream_query`: windows of LIMIT/OFFSET,
each a query of its own, and none for the limit 0. A select is sorted by its primary key, by the
column `a`, where rows tie, or not at all; where the sort settles nothing the database answers
in any order, and in another one at the next window. So a stream of a table nobody writes
delivers as many rows as its select has, but those very rows only if it is sorted by the key
(`QuietStreamIsSelect`): ties repeat some and miss others. Over a table that is written between
the windows rows are missed or repeated too; `StreamMovesWithWrites` says by which writes. An
OFFSET without a LIMIT gets the LIMIT 18446744073709551615 from the compiler on PostgreSQL,
which is beyond its `bigint`: the statement is refused (`Refuses`), while a stream with the same
offset works, since its windows have limits. `InsertStoresOrKeeps` relates rows given, rows
stored, rows returned and the conflict mode; `ReadsAgree` relates select, count, exists and
windows, where they are answered. A link comes as an object, as a key, as None or as an object
without a key, which is stored as NULL (`LinkValue`).

### Predicates

A filter is built by the operators of `FieldReference` and put to one row in four ways: `Memory`
for the in-memory engine, `EvalSQL` in three-valued logic, and the documents made for MongoDB
and for AuraDB with what those databases do with them. The row has a number, a string and a
document field, each of which may be null. `DocumentStoresAgree` is an equation (or a refusal),
with two exceptions. `endswith()` becomes a regular expression ending in `$` on MongoDB, which
also matches before a newline at the end of the text. And a parameter left unbound is refused by
the compilers before a row is read, while the in-memory engine raises only when a row gets as
far as it (`UnboundIsTried`): a row that an earlier filter turns away is "no match" there. For
SQL it cannot be an equation: a comparison with null is unknown there and false or true in
memory, so `SQLNeverContradicts` asks that SQL finds nothing true that is false in memory or
false that is true, and `SQLAgreesWithoutNulls` that they are equal otherwise. `Differs` names
the patterns left out of both: SQLite's LIKE ignores case, PostgreSQL takes a backslash in the
pattern of `like()` for an escape, as `like()` has no ESCAPE clause, and `like()` in memory (and
on MongoDB) is a regular expression whose `.` matches no newline and whose `$` passes over one
at the end, unlike LIKE. `contains()` is put to text only, as in the guides; on a list it is
membership in memory, a pattern for an element on MongoDB and a pattern for the JSON text in
SQL, which are not compared. The `ESCAPE '\'` of the other patterns is written the same for
MySQL, which would read it as an unfinished string; MySQL is therefore left out here.

### QueryEngine

`search` is a ranked search being paged: `_apply_search` and `_search_page` with the token, which
is the last score and key. The key (`_stable_key`) is the first number or text in a row: the
field the class declares first, if it has a value, which need not be the primary key and which
several rows may share (`FirstField`, `Key`). Text and vector scores are kept in dictionaries by
key (`ByKey`), so of rows with one key the last stands for all, and a hybrid search
delivers only that one (`LastWith`). `Scores` has vector, text, BM25 and hybrid scores with both
fusions, the rest are operators on the table: order, windows, aggregates, facets,
groups, includes and traversals. Scores are integers: a rational score is multiplied by the
common denominator, and BM25's logarithm is replaced by a number that falls as it does
when more rows contain the word, so ties and order are right and absolute values are not.
`PagesDeliverFixedRows`: a row that was not written and shared its key with no other row
is delivered exactly once, whatever is written between two pages. For BM25 and hybrid scores,
which depend on all rows, that holds only while nothing is written. `QuietPagesAreRanking`:
undisturbed, the pages are the ranking in order, no row twice, and what they miss is only rows
tied in score and key with the last row of a page, since the next page starts strictly behind
these two. So a class whose first field is not unique loses rows between two pages without
any write; in the run, two rows with `grp` 0 and one text do. `TokenLeadsOn`: a token may lead
to an empty page only if all rows left are such ties.

`QueriesAnswerRight` has four more parts, on the table alone: an order is lexicographic in its
terms (`OrderIsLexicographic`), windows next to each other make up the result (`WindowsFit`),
groups and facets account for every row with a value (`GroupsAddUp`, for up to the 50 groups
that are reported), and links and traversals are undone by going back (`LinksAreInverse`).
`sorted()` and `sort()` are `InOrder`, the listing of a finite set in an order, and `ApplyOrder`
is a stable sort a term. The rows of the table are listed by primary key, as if they had been
inserted so; the code lists them as they were. Metrics are taken of a set of rows, as counts,
sums, least and greatest values do not show the order.

### Clauses

A behaviour builds a query clause by clause, with the refusals of the builder, and runs
any terminal operation against any backend. The operation becomes the IR of one request
(`select`, `aggregate`, `mutation`, ...), `_check_search_capabilities` and the backend
refuse what they cannot do, and the rest of the clauses are those the
backend's translation reads. `AskedIsAnswered` states what can be counted on. What it has to
leave out, because the code loses it without an error: `text()`, sort and projection on
Redis; all but one of several searches, and an order beside a ranked search;
`limit` in `count()`, `exists()` and `search_pages()` of the in-memory engine, search in
`count()` and `exists()`; fusion, consistency, profile and include options, and the
conflict mode of a bulk insert on the native backend; the search of `search_pages()` on
MongoDB. `raw()` on Redis and MongoDB ends in a `KeyError`. An exact `search_vector` after an
approximate one keeps the clause of the approximate one.

### Models

A class is declared with fields of every type, aliases, defaults, a link and a collection;
`New` constructs an instance from keyword arguments with the checks and defaults of
`AuraModel.__init__`, `Insert` stores `to_dict` as a backend does, `Select` reads it back by
`HydrateRow`. `FieldsReadBack` excepts `time`, which comes back as text. `LinksLoadOnRequest`
excepts a link with an alias, which is stored as a whole object and read back without being
asked for. A primary key annotated `Optional` is accepted, one declared `nullable=True` refused. A
class whose primary key has an alias cannot be inserted, and an aliased
field is not found by its name in a projection; both are in the model as errors. What the
fields of an instance hold are constants: `Contents` for scalars and keys, `Lists` for lists, sets
and vectors.

### Migrations

`Schemas` is a constant, any set of finite schemas (`SchemasAreSchemas`).
`Init` takes two of them and their `diff_schemas`; `ApplyStep` and `RollbackStep` apply
the changes and, from any point, the rollback plan, as its reader would. `SafePlanKeepsData`
is the promise behind `is_destructive`. The diff does not look at full-text and vector
indexes, aliases, defaults of existing fields, `on_delete` or descriptions, and calls a new
unique constraint safe; the property therefore speaks of what exists in the old schema.

### Frames

The peer sends frames of either protocol in its own version and limits, the network cuts them
into any chunks and may damage one unit of each connection, and a connection may end inside a
frame and be followed by another. `Drain` is `_drain_buffer` with `try_decode_frame`, or the
native backend's exact reads; its loop is written as rounds, of which half as many as there are
units are enough, since a frame has at least two. `NoFrameIsStuck`: what has arrived whole is
handed out, up to the first frame this client cannot read. That frame stays in the buffer and
ends the read loop while `_connected` stays true. `TCPTransport` keeps its buffer when it is
closed and connected again; `LeftoversEatAFrame` says what that costs.

## 3. Runs

| Run | Instance | Shows |
|---|---|---|
| `transport` | 2 calls (symmetric), 2 attempts | type invariant, `AnswersOwnRequest`, `NoOrphanedFuture`, `LockDiscipline`, `RegistrationsBelongToCalls`, `EndedIsFinal`, and that `Transport` implements `RequestContract` |
| `transport_live` | 2 calls, 1 attempt | `EveryCallEnds`, `CloseReturns`, for a peer that reads or is lost (section 4) |
| `leader_redirect` | 1 write, 1 bulk insert of 2 requests, 2 nodes, 1 redirect each, 2 attempts, 1 of them repeated, 3 backends, 1 election | type invariant, `RedirectAddsNoWrite`, `SuccessMeansApplied`, `NotLeaderAddsNoWrite`, `CurrentNotClosedByRedirect`, `OperationEnds` |
| `engine`, part transactions | 2 keys, 2 transactions, 3 mutations | type invariant, `SnapshotPlusOwnWrites`, `UncommittedNeverVisible` |
| part streams | 3 keys, 1 transaction, 2 streams of one-row pages, 1 mutation | `StreamIsSnapshot`, `CursorsReleased` |
| part queries | 3 rows, 2 writes, 2 first tables, 3 contents of a row, 10 searches of every kind, a class that declares `grp` before its primary key (in rows where `grp` is null the key is the primary key, in others it may be shared), pages of 1 or 2, orders of no and of two terms | `QueriesAnswerRight` |
| part filters | every row, up to 2 filters | `FiltersMeanTheSame` |
| part clauses | up to 2 clauses, every operation on every backend | `AskedIsAnswered` |
| `native` | 1 transaction, 1 write, 1 stream of at most 2 pages, one cancellation of each | type invariant, `StreamInStep`, `CommittedByCommit`, `TransactionsEnded`, `StreamsReadToTheEnd`, `TasksEnd` |
| `stores`, part transactions | 2 blocks and 2 upserts (symmetric), any three of them, both dialects | type invariant, `DoneUpsertIsStored`, `CommitKeeps`, `RollbackDiscards`, `FlagTellsTransaction` |
| parts redis, mongo | 2 keys, 2 tasks of one operation | `RedisKeepsRows`, `MongoKeepsRows` |
| part table | 3 keys, 1 write, 1 stream of all rows (sorted by the key or by `a`) or of a filter (by the key either way, or unsorted), 2 offsets, 3 limits or none, batches of 1 or 2, links of four forms, three databases | `StreamsAndInserts` |
| part models | one class and instance of every shape, with 2 contents and lists of 0 to 2 | `ModelsRoundTrip` |
| part migrations | any two of 82 schemas (`SampleSchemas`): a model of 1 or 2 fields of 8 kinds with or without one of 3 relationships, or none; another model or none | `MigrationsAreSafe` |
| part frames | 2 frames of at most 2 payload units, 2 connections, both codecs | `FramesAreSafe` |
| `transport_clean_close`, `redirect_bulk`, `redirect_tx`, `native_skew`, `lost_update`, `streamed_search` | the smallest that shows it | violations, section 6 |

`engine` and `stores` hold several modules that share no state: the variable `part` is
chosen initially, the steps of a behaviour are those of its part, and the variables of
the others rest. A property of such a module is stated as `part = ... => ...` and is
the conjunction of the named properties in that module.

Bounds, and why they are enough. Two calls contend for the lock, one can hold it in `drain()`
while the other queues and `close()` runs; two attempts give a late answer of the first to the
second. The theorems of section 5 have no bound. Two redirected operations with one redirect
each swap and close each other's backends; three backends are the first and one per redirect; a
third would repeat a swap between other objects. Two transactions are what an overlap needs;
three mutations give each one a write and one more before or after a commit. One-row pages on
three rows open a cursor, fetch in the middle and at the end. On the native connection one
cancelled request shifts the answers for the tasks that follow, and with three tasks each kind
of answer is read by each kind of caller. On the SQL connection three tasks, in any combination
of blocks and upserts, give one that leaves the connection in a wrong state, one that runs
beside it and one that comes later. On Redis and MongoDB two tasks give every interleaving of
two calls of one operation with any other operation, and two keys a row that is re-keyed onto
another. Three rows with two writes move a row across the border of a page, forth and back. Two
filters are what And, Or and Not combine; two clauses give every pair that the code treats
together. Two frames of two units are cut inside each and between them. `MaxWrites`,
`MaxElections`, `MaxTimeouts`, `MaxBackends`, `MaxFilters`, `MaxClauses`, `MaxFrames` and
`MaxConns` are bounds of the models, `MaxRedirects`, `BatchSize`, `MaxPayload`, `MaxAttempts`,
`Offsets`, `Limits` and `Batches` parameters of the code. Deadlock is not checked: a program
whose calls have ended and whose client is closed stops.

## 4. Fairness

`Transport!Fairness`: the event loop runs a ready task, a timer fires, a backoff
ends, and a send buffer empties or its connection is lost. Nothing is assumed of
the callers, the server's answers, the read loop or the peer, so `EveryCallEnds`
rests on the timers. The assumption on the send buffer is needed: `drain()` has
no timeout (`transport/tcp.py:123`), so a peer that keeps the connection and
never reads blocks the call in it, the calls queued behind it, and `close()`.

`LeaderRedirect!Fairness`: every await of an operation ends, because requests and
connection attempts have timeouts (and send buffers empty, as above). Elections and
hints are free.

`NativeBackend!Fairness`: tasks that can go on do, and the server answers. The
second is an assumption on the server that nothing in the backend replaces:
`request_timeout` is not used there, so a silent server blocks the call that
waits for it and, through `_lock`, every other. `TasksEnd` holds under it
except after a torn answer, when a reader may wait for bytes that do not come.

## 5. Proofs

The theorems hold for every value of the constants, under the named assumptions of the
modules they are about.

| Theorem | States |
|---|---|
| `CoreInvariant` | `Transport!Spec => []Core` |
| `TypeCorrect` | `Spec => []TypeOK` |
| `LockIsDisciplined` | `Spec => []LockDiscipline` |
| `NoFutureOrphaned` | `Spec => []NoOrphanedFuture` |
| `RegistrationsBelong` | `Spec => []RegistrationsBelongToCalls` |
| `AnswersAreOwn` | `Spec => []AnswersOwnRequest` |
| `EndedStaysEnded` | `Spec => EndedIsFinal` |
| `TransportImplementsContract` | `Spec => ImplementsContract` |
| `RedirectTypeOK` | `LeaderRedirect!Spec => []TypeOK` |
| `SingleWritesOnce` | `Spec => []RedirectAddsNoWrite` |
| `NotLeaderLeavesNothing` | `Spec => []NotLeaderAddsNoWrite` |
| `SuccessIsApplied` | `Spec => []SuccessMeansApplied` |
| `CurrentStaysUsable` | `Spec => []CurrentNotClosedByRedirect` |
| `ServerTypes` | `ReferenceServer!Spec => []TypeOK` |
| `ReadsOwnWritesOverSnapshot` | `Spec => []SnapshotPlusOwnWrites` |
| `OnlyCommittedIsVisible` | `Spec => []UncommittedNeverVisible` |
| `StreamsAreSnapshots` | `Spec => []StreamIsSnapshot` |
| `NoCursorLeaks` | `Spec => []CursorsReleased` |
| `SQLTypes` | `SQLTransactions!Spec => []TypeOK` |
| `UpsertsAreStored` | `Spec => []DoneUpsertIsStored` |
| `CommitsAreKept` | `Spec => []CommitKeeps` |
| `RollbacksDiscard` | `Spec => []RollbackDiscards` |
| `FlagsTell` | `Spec => []FlagTellsTransaction` |
| `NativeTypes` | `NativeBackend!Spec => []TypeOK` |
| `AnswersInStep` | `Spec => []StreamInStep` |
| `OwnCommitOnly` | `Spec => []CommittedByCommit` |
| `StreamsAreRead` | `Spec => []StreamsReadToTheEnd` |
| `TransactionsAreEnded` | `Spec => []TransactionsEnded` |
| `RedisInvariant`, `RedisRaces`, `RedisTypes`, `RedisRowsKept` | `RedisStore!Spec => []RedisInv`, `[]RaceInv`, `[]TypeOK`, `[]RedisKeepsRows` |
| `MongoInvariant`, `MongoTypes`, `MongoRowsKept` | `MongoStore!Spec => []MongoInv`, `[]TypeOK`, `[]MongoKeepsRows` |
| `RedisStoreKeepsRows`, `MongoStoreKeepsRows` | `Stores!Redis!Spec => []RedisKeepsRows`, `Stores!Mongo!Spec => []MongoKeepsRows` |
| `PlansAreSafe` | `Stores!Plan!Spec => []MigrationsAreSafe` |
| `InstancesRoundTrip` | `Stores!Model!Spec => []ModelsRoundTrip` |
| `FramesAreDelivered` | `Stores!Frame!Spec => []FramesAreSafe` |
| `StreamsFollowTheTable` | `Stores!Table!Spec => []StreamsAndInserts` |
| `ClausesAreAnswered` | `Clauses!Spec => []AskedIsAnswered` |
| `QueriesAreAnswered` | `QueryEngine!Spec => []QueriesAnswerRight` |

### Transport

Assumed: `MaxAttempts` >= 1, and that the value for "nobody" is no call. The argument is
in layers, each inductive relative to the ones below.

1. `Core`: types, the attempt counter of a suspended call (between 1 and
   `MaxAttempts`, below it in a backoff, which is why `attempt + 1` keeps its
   type) and the lock (holder, queue, and position of each call agree). The
   steps that touch the lock are reduced to three lemmas: a step keeps the lock
   and the queue, releases it, or hands it to the head of the queue.
2. `RegistrationInv`: an unresolved future of a suspended call is registered;
   a registered call is suspended or has ended on one of the paths that forget
   it; after `close()` nothing is registered and nobody can register, because
   `_connected` is cleared before the futures are failed.
3. `FrameInv`: a frame on the wire, executed or answered belongs to an attempt
   its call has made; a queued call has not written its current attempt; no
   frame is both on the wire and executed; only executed frames are answered.
4. `AnswerInv`: a future resolved by a reply was resolved by exactly one frame of
   its own call; with layer 3 that frame was executed.

The second half of `TransportProofs` first shows the shape of a step under `Core`
(`StepShape`): either one call moves, and then nothing is executed and only that
call's frames are written, or no call moves and the server executes at most one
frame of the wire. `EndedIsFinal` follows, a call that has ended not being able
to move. For the implementation, `CallStatus` maps a call to new, open, answered
or failed. A call that moves submits, fails, answers or stutters; that an answer
finds an executed attempt is `AnswerInv`. An execution maps to
`ExecuteAttempt`; that the attempt was not executed before, and that its call is
no longer new, is `FrameInv`.

### LeaderRedirect

Assumed: `MaxElections` and `MaxTimeouts` are numbers, `MaxAttempts` and `BulkChunks` not 0,
no operation is both a single write and a bulk insert.
`OpInv` says of each operation what the cluster has applied for it at each position of the
redirect loop: of a single write no more than its repeated attempts unless its answer is
there or it is over, and a rejection adds nothing; of a bulk insert the requests already
answered. `CurrentInv`: the
client's backend is the one built last, and the backend an operation will close in its
`finally` clause is older. Both are inductive with `TypeOK`; neither property is
by itself, since the properties speak of operations that have ended only.

### ReferenceServer

Assumed: `Keys` is finite, and the mark for "no overlay" is no table. `RowInv` links the tables to
the history: an overlay exists just while its transaction is open, a transaction that
has not begun has written nothing, rows are numbered in the order of their mutations, an
overlay holds the snapshot with the transaction's own writes, the committed tables hold nothing
an open transaction has staged. `StreamInv`: the tokens of two streams differ, and a stream owns at
most the one cursor its next fetch names, so a step of one stream leaves the rows of the
other.

### SQLTransactions

All tasks share one connection, so the proof first reduces each action to a few step
forms: a statement is sent, a task goes on, ends, or raises, and the database answers one
statement. `Queue` says that the statements queued and the positions of the tasks
agree and what the database holds; `Flags` adds the flag: it is down while no block is
active or a `begin` is under way, and agrees with the database as long as no call was cut short.

* `UpsertInv`: an upsert that ran beside no block and met no error finds the flag down, so
  SQLite commits its statement and PostgreSQL has done so already; with no commit or rollback
  pending nothing undoes it.
* `BlockInv` follows a block that runs alone from its `begin`: all
  statements queued are its own, its end comes last, and the transaction of the
  database is its own until that end has run. `OnlyItself`: while it is active no other
  task steps, since one that did would have met it. `CommitKeeps` and
  `RollbackDiscards` are the last stage of that invariant; by themselves they say nothing
  of the states before.
* `FlagInv`, for states in which nothing was cut short and, on SQLite, no upsert ran beside a
  block. The flag lags behind the database from the moment the driver answers a begin,
  commit or rollback until its task takes the answer. `FlagFollows`: there is one such answer
  at a time, and it tells what the flag will be; without one the flag is right. That a
  second end cannot be answered before the first is taken is `OneBlock` on SQLite, where
  one block at a time is past its begin and has the transaction open; on PostgreSQL every end
  finds none or its own. `AutocommitsAlone`: the `commit()` of a write outside
  transactions is queued by an upsert before any begin, so it ends nobody's transaction.

### NativeBackend

Assumed: the three kinds of tasks are disjoint and the mark for a free lock is none of them;
`Pages` >= 1. Again in layers.

1. `Types`: types, the lock (the queue holds the queued tasks, each once; the holder is
   the one task in flight) and `CallsOK`: a task that waits has its own frame.
2. `UnreadOK`: the task of a frame left unread never waits for that operation again.
   Hence each cancellation in flight, and each reader of garbage, adds one to `unread`.
3. `InStep`: on a live connection the requests whose answers have not been read are at
   most those left unread, and one more for the holder, whose frame is the last. The
   server moves a frame over to the answers, which changes neither number nor last.
   `StreamInStep` is this in terms of the queue of frames.
4. `Exact`: as long as nothing was left unread there is at most one answer, and it is the
   holder's. `Numbered` says that ids are given out in order, `CommitSent` that nothing
   follows a commit, and `Owned` that ids stay with the task that began them: on the
   server, in the answers, in `_txn_map` and in frames waiting and on the wire. A commit
   then applies its own task's writes, and no write of a block is sent without an id.

5. `PageInv`, for streams. `Single`: as long as nothing was left unread one request at most is
   in flight, also on a lost connection. `Paged`: then cursors belong to one stream each, a
   fetch on its way names its own cursor, an answer without a cursor comes when none is
   left, and a stream that is done has none. `StreamsReadToTheEnd` is its last part.
6. `EndInv`, for the ends of transactions: whoever began a transaction that is open still
   holds its id (`Held`): in the answer to `begin`, in `_txn_map` up to the end of the block,
   in the last frame of the block while it waits for the lock, or on the wire. A task that
   was cancelled in begin, commit or rollback, or met an answer left unread by another, is
   excused; all others have the frame that ends it answered before they end
   (`TransactionsEnded`).

`Owned` needs `Exact` at one place only: where `begin()` takes the id of whatever answer is
next. `native_skew` is what happens there otherwise.

The lemmas about a queue of distinct waiters at the head of `NativeProofs` are those of
`TransportProofs`: the two modules model two locks and extend nothing in common.

### RedisStore

Assumed: `None` is no value of a document and no document (`NoneIsNoValue`). `RedisInv` says
where each call is between two commands and what it holds. `Inserting`: the key is that of the
current row, and a SET that must not replace follows an EXISTS that found nothing. `Writing`:
the document read is of the key that was read, which for an upsert is the one that will be
written (`ReadsItsKey`). `Scanning`: a row stored all along is still to be named, was just
named, or is out. Each SET leaves a record of what it read, found and wrote (`hits`), and
`OverwritesOnlyInRace` and `OtherFieldsKept` are about all records ever left, so that the phase
before a SET must imply them. `SteadyIsStored` ties a scan to the store: a command of another
caller that deletes a row takes it out of every scan's steady rows.

A race is between a call and the others, so `OverwritesOnlyInRace` has an invariant of its own
on top of `RedisInv`, `RaceInv`. `Expected`: under the key a call is about to SET after reading
it there is nothing, what it read, or what another task has stored. `Explained` is the property
of each record. Every step of another task keeps `Expected`: a SET is itself the storing to be
named, a DEL leaves nothing.

### MongoStore

Assumed: `None` is no document, source or result, the `_id`s the database chooses are no primary
keys, and there are finitely many of both (`NoneIsNoValue`, `IdsDiffer`). `MongoInv` adds to the
properties that a call has a result when it is over and not before (`Calls`), that a unique key
names one document at once, not only in finished states (`UniqueHolds`), that only upserts make
documents with foreign `_id`s (`Sourced`) and that a document is rekeyed only by an update or
upsert that has written (`RekeyedByCall`). `UpsertFinds` is the state between the two commands
of an upsert: a document that matches its key is there (`HasMatch`), or another call has taken
one (`TookFrom`).

`RedisProofs` and `MongoProofs` are about the two modules by themselves. `StoreProofs` carries
their results over to the instances in `Stores`, which is what the run `stores` checks.

### Migrations

Assumed: `Schemas` are finite schemas (`SchemasAreSchemas`): finite maps from model names to
finite maps from names to fields and relationships. The proof has three parts.

1. The changes. Each names one thing, and for each place where the two schemas differ there is
   exactly one (`ChangesOfOneThing`, `ChangeFor`): hence a plan is empty just when nothing
   compared differs, and the classification of one change decides about one place.
2. The order. `Precedes` is a strict total order on the changes of a diff, which are finitely
   many, so the number of changes before a change is a different one for each: `Sorted` lists
   every change once (`SortedHasAll`).
3. The invariant `MigrationInv`. `Between(old, new, S, schema)`: the schema is as the new one
   where a change of S, those applied so far, names it, and as the old one elsewhere.
   `BecomeStep`: applying a change adds it to S, rolling it back takes it away, and neither
   disturbs what another change names. With all changes in S the schema agrees with the new
   one, with none it is the old one. `PlanLeadsThere` speaks of these two ends only, and is not
   inductive.

### Models

Assumed: `None` is no name of a field and no default (`NoneIsNoValue`), and `Lists` are lists of
contents (`ListsAreLists`); there may be any of both. The classes are those of
`Classes`, which has a field of every type and kind.

1. Classes. What a declared class is (`Declared`): its one primary key is `id`, since a second
   one is refused, and each field has a column of its own (`ColumnsAre`).
2. Values. `Holds` says what a field may hold once it is constructed. `InputsHold`: what a keyword
   brings is refused or becomes such a value. `ValuesReadBack`, type by type: what it is
   encoded as is decoded to the same value, but for a time of day.
3. The invariant `ModelInv`: an instance constructed has a value for each scalar and for the
   link it was given (`Built`), its row a column for each of them (`Stored`), and what is read
   back is `Delivered`. The properties speak of an instance that was loaded; `Built` and
   `Stored` carry what they need to there.

### Clauses

Assumed: `None` is no number (`NoneIsNoLimit`). The invariant `QueryOK` needs only what the
builders let a query be: a query of one kind has none of the clauses of
another, and snippets come with the search they belong to. Nothing bounds the number of
clauses, which TLC takes up to two at a time. The rest is an argument per kind of backend and per
operation about what is sent, refused and read: a clause neither the client nor the backend
refused is in what its translation reads. For a search on SQL and MongoDB the refusal is the
client's (ranked searches) or the backend's own (`text`); on an AuraDB server of unknown age
the capability behind a clause is the same one that says the server knows it.

### QueryEngine

Assumed: primary keys are finitely many numbers, the class declares the primary key or `grp`
first, and fields, vectors and links are numbers or null (`KeysAreNumbers`, `TablesAreTables`),
searches have what their clause needs and pages are not empty (`SearchesAreRanked`), orders are
sequences of a field and a direction (`SortsAreTerms`), and `None` is no value
(`NoneIsNoValue`). The searches, tables, contents, orders and the number of writes are any.

1. Scores. Every clause scores finitely many rows with integers (`ScoresAre`): sums over rows and
   terms are folds over finite sets. The rank of a row is one more than the number of rows before
   it, so that the ranks number the rows (`RanksAre`, `RankingIs`). Dictionaries by key hold
   numbers again (`ByKeyIs`, `LastWithIs`). A score of its own stays while other rows are
   written, for a row alone with its key (`OwnCount`, `OwnScoresStay`).
2. Pages. A page starts at the first row behind the token (`StartIs`), and what is ahead
   of the token of a row is ranked behind that row; what is ranked behind it is ahead of the
   token or tied with the row, and never the latter if it is alone with its key (`AheadOfToken`).
3. The invariant `PageInv`. `Follows`: a row that stayed was delivered once if the token is past
   it, and not at all if it is still ahead. `Followed`: once the search has ended, once.
   `Shows`: undisturbed, what was delivered covers the front of the ranking (`Covered`:
   delivered, or tied with the last row of a full page), and the token is of its last row. The
   property speaks of searches that have ended; before that neither half of `Follows` can be
   left out, as a row delivered and still ahead of the token would come again.
4. Tables. `InOrderIs`: a finite set in a strict total order is listed once each and in
   order. `StableSortIs`, and `ApplyOrderIs` by induction over the terms from the last to the
   first: each stable sort puts one more term before those already sorted by. `GroupsAre` is the
   same listing, of the values by the size of their groups; `TraverseIs` unfolds a path of
   two steps.

`ApplyOrder` and `Traverse` are recursive functions, not operators: a recursive function exists
(`StepsExist`) and is what its definition says, and with the set of the numbers that are right
an induction over its argument needs no more than a least number.

### Frames

Assumed: a limit of at least one unit (`LimitsAreLimits`). The proof is about one stream,
`Stream`: what is in the buffer followed by what is under way. A chunk moves a cut inside it and
`Drain` takes frames off its front, so that a cut has nothing to do with what comes out.

1. The codec. `EncodeIs` and `DecodeIs` say unit by unit what a frame is on the stream and when
   the decoder takes what is at the front; `WholeFrame`: a whole undamaged frame is taken if
   this client can read it, else refused with an error; `FrontFrame`: what is taken at
   the place of a frame is that frame, whatever was damaged; `TakesPrefix`: a
   decision once made does not depend on units that come later.
2. The loop. `DrainIs`: `Drain` ends where nothing at the front is taken, and keeps whatever
   one frame taken off the front keeps. That is an induction over the rounds, made with the set
   of the rounds that are right (`UpTo`), for which a least number is enough.
3. The invariant `FrameInv`. `Follows`: the stream is the frames sent and not handed out,
   end to end, each of its units arrived as sent or damaged. `InOrder`: what was handed out are the
   frames before these. On a connection with leftovers in the buffer, either they are
   still at the front and no frame comes of them (`Before`), or one has come and
   the first header of this connection went with it (`After`). `Stuck`: nothing at the front of
   the buffer can be taken, and the reader has failed exactly at a bad frame.

`NoFrameIsStuck` follows when nothing is under way: `Stuck` and `Follows` leave the first frame
not handed out as one this client cannot read.

### SQLTable

Assumed: keys are finitely many numbers (`KeysAreNumbers`), offsets and limits are not negative
and batches not empty, as the query builder has it (`WindowsAreLegal`), and `None` is no value,
row or word (`NoneIsNoValue`). The number of rows, of writes and of windows is any; the writes
are those of `Mutations`, and a stream has the filter of `Stream`.

1. Places. The place of a row in a sort is the number of rows before it (`Place`). `PlacesAre`:
   the rows matched have the places from 0, each its own. `PlacesGrow`: of two sets of rows the
   larger gives every row a place as late or later. So a write that only removes rows moves none
   of the others back, one that only adds rows moves none of them forward, and a window, which
   is the rows with places from its offset on, is all a step of a stream needs to know.
2. The databases. For each statement of `Mutations` what it leaves of each key
   (`StoresOrKeeps`, `UpdatedIs`, `DeletedIs`): a table again, or no change.
3. The invariant `TableInv`, of types and six parts. `Bounded`: limit and offset account for
   what was delivered. `Calm`: an undisturbed stream sorted by the key has delivered the select
   up to its offset. `Counted`: with any sort, full windows end where the rows do, and it ends
   with as many rows as the select. `Single`: while no row came, no row was delivered twice, and
   none was that still has its place ahead of the offset. `Reached`: while no row went, every
   row that was there all along and has its place before the offset was delivered. `LastInsert`:
   what the last insert stored.

The property speaks of streams that have ended only. `Single` and `Reached` are what is true
before: without the rows ahead a row could still come round again, without the places a row
passed over could not be told from one not reached yet.

### What is only model-checked

Liveness (`EveryCallEnds`, `CloseReturns`, `OperationEnds`, `TasksEnd`) needs fairness and
ENABLED, which the prover does not have.
The property of `Predicates`, `FiltersMeanTheSame`, compares what four backends make of a
filter. Filters, patterns and LIKE patterns are evaluated by recursion over nested data, which
is out of the prover's reach.

## 6. Where the code and its documents disagree

* `transport_clean_close`: `docs/TRANSPORTS.md` promises that pending requests
  fail cleanly on close. A call queued for the write lock while `close()` runs
  finds `_writer` set to `None` and ends in an `AttributeError`.
* `redirect_bulk`: `docs/CLIENT.md` and `docs/TRANSACTIONS.md` promise that a
  redirected write cannot be applied twice. A bulk insert is run again from its
  first request. For single writes the promise holds of the redirect itself
  (`RedirectAddsNoWrite`), not of the attempts below it: see section 2.
* `redirect_tx`: `docs/TRANSACTIONS.md` promises that an open transaction is
  never re-pointed at another node. A redirect of a concurrent write does that.
* `native_skew`: `docs/AURADB.md` promises that a transaction's effects stay
  invisible until commit. When a write is cancelled in flight, the next `begin()`
  reads its answer, finds no transaction id and stores 0: the transaction's write
  is then an autonomous one. Request ids are decoded and never compared.
* `lost_update`: the documents describe first-committer-wins conflict detection;
  the in-memory engine, the one behind `aura+memory://`, has none.
* `streamed_search`: `docs/SEARCH_AND_RANKING.md` promises that a search a backend does
  not support raises `AuraCapabilityError` and is never dropped. `Client._stream` does not
  make the check that `_execute` makes, so a streamed search is delivered unranked by the
  backends whose own checks do not cover it.

## 7. Not modelled

* Observability: counters and spans nothing in the connector reads back. The deltas of shared
  counters in `backends/auradb.py:418` are listed as a hazard without a property.
* Configuration, DSN routing and profiles: text processing without state. The capabilities
  they select are in `Clauses`, the number of attempts is a constant of `Transport` and of
  `LeaderRedirect`.
* The handshake, schema requests, `connect_to_leader` and reflection: one request each,
  sequential, before a client is shared.
* Raw and schema statements on the SQL connection, and a second `begin` of one
  `Transaction` object.
* Two clients of one in-memory server, which number their transactions alike
  (`client.py:455`): the model has one client.
* The normalisation of links in rows written to the in-memory engine, and filters inside
  includes and traversals.
* TLS, authentication, byte layout, the text of SQL statements, rendering of plans: no
  control of interest.
* Floating-point arithmetic of scores and vectors (out of TLC's reach), score objects,
  search helpers (text analysis, evaluation metrics) and the CLI.
* Failures inside Redis and MongoDB, whose drivers raise and end the operation.

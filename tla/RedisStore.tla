----------------------------- MODULE RedisStore -----------------------------
(* The Redis backend (src/src/aura/backends/redis.py): concurrent callers on  *)
(* one Redis database.  A row is one JSON document under the key "Model:pk".  *)
(* Redis serves one command at a time, so every EXISTS, GET, SET, DEL and     *)
(* step of a SCAN is an action of its own; what the backend does between two  *)
(* commands is part of the action of the first.                               *)
(*                                                                            *)
(* A row has its primary key "id", a field "a" and a link "b" to another      *)
(* model, whose primary key is stored; rows come in with a collection "posts" *)
(* too, which is not stored.  None is Python's None and the absence of a key. *)
EXTENDS Naturals, Sequences

CONSTANTS Keys, Tasks, None

VARIABLES
    store,      \* key -> the document stored under it, or None
    task        \* task -> what its call is doing

vars == <<store, task>>

Row(k, x, y) == [id |-> k, a |-> x, b |-> y]
Fields == {"id", "a", "b"}
Documents == [Fields -> Keys \cup {0, 1}]

\* None is no value of a document and no document.
NoneIsNoValue == None \notin Keys \cup {0, 1} /\ None \notin Documents

\* _normalize: a link given as the object it names becomes the primary key of
\* that object, one given as a primary key stays, a collection is dropped.
Object(y) == [object |-> TRUE, pk |-> y]
Scalar(y) == [object |-> FALSE, pk |-> y]
Raw(k, x, link) == [id |-> k, a |-> x, b |-> link, posts |-> <<>>]
Normalize(doc) ==
    [f \in DOMAIN doc \ {"posts"} |-> IF f = "b" THEN doc[f].pk ELSE doc[f]]

\* {**doc, **patch}, doc.update(patch): the fields of patch over those of doc.
Patched(doc, patch) ==
    [f \in DOMAIN doc \cup DOMAIN patch |-> IF f \in DOMAIN patch THEN patch[f] ELSE doc[f]]

\* The one filter Redis can serve, `pk == value`, or None: any other filter,
\* a second filter, and a comparison with None.
PkFilter(filters) ==
    IF Len(filters) = 1 /\ filters[1].op = "eq" /\ filters[1].field = "id"
    THEN filters[1].value ELSE None

Is(k) == <<[op |-> "eq", field |-> "id", value |-> k]>>

\* _paginate: offset, then limit, on rows in whatever order SCAN gave them.
Paginate(rows, op) ==
    LET from == SubSeq(rows, op.offset + 1, Len(rows))
    IN  IF op.limit = None \/ op.limit >= Len(from) THEN from
        ELSE SubSeq(from, 1, op.limit)

\* One state of a call.  `read` is what the last EXISTS or GET found, `left` the
\* keys a scan has not named and `steady` those stored since it began without a
\* pause.  `hits`, each SET with what was read before it and from which key, what
\* was under the key it wrote and what it wrote, only serves to state properties.
Idle == [pc |-> "new", op |-> None, i |-> 1, key |-> None, read |-> None, out |-> <<>>,
         left |-> {}, steady |-> {}, again |-> FALSE, hits |-> {}, result |-> None]

Ends(tk, result) == [tk EXCEPT !.pc = "done", !.result = result]
Raises(tk, error) == Ends(tk, [error |-> error])

\* The head of the loop of _insert, before the EXISTS of row i.
NextRow(tk) ==
    IF tk.i > Len(tk.op.rows) THEN Ends(tk, [affected |-> Len(tk.out)])
    ELSE LET pk == Normalize(tk.op.rows[tk.i])["id"]
         IN  IF pk = None THEN Raises(tk, "constraint")
             ELSE [tk EXCEPT !.pc = "exists", !.key = pk]

\* What a read makes of the documents it found; a stream over a scan has no
\* offset and no limit.
Answers(tk, docs) ==
    CASE tk.op.op = "count" -> Ends(tk, [count |-> Len(docs)])
      [] tk.op.op = "exists" -> Ends(tk, [count |-> IF docs = <<>> THEN 0 ELSE 1])
      [] tk.op.op = "select" -> Ends(tk, [rows |-> Paginate(docs, tk.op)])
      [] tk.op.op = "stream" /\ tk.pc = "get" -> Ends(tk, [rows |-> Paginate(docs, tk.op)])
      [] tk.op.op = "stream" /\ tk.pc # "get" -> Ends(tk, [rows |-> docs])
      [] tk.op.op = "drop" -> Ends(tk, None)

Reads == {"select", "count", "exists"}

\* execute_query, execute_mutation and stream_query up to their first command.
StartQuery(tk, op) ==
    LET pk == PkFilter(op.filters)
    IN  IF pk # None THEN [tk EXCEPT !.op = op, !.pc = "get", !.key = pk]
        ELSE IF op.filters = <<>>
        THEN [tk EXCEPT !.op = op, !.pc = "scan", !.left = Keys,
                        !.steady = {k \in Keys : store[k] # None}]
        ELSE Raises([tk EXCEPT !.op = op], "capability")

StartMutation(tk, op) ==
    CASE op.op = "insert" -> NextRow([tk EXCEPT !.op = op])
      [] op.op = "upsert" ->
            LET merged == Patched(Normalize(op.key), Normalize(op.values))
            IN  IF "id" \notin DOMAIN merged THEN Raises([tk EXCEPT !.op = op], "constraint")
                ELSE [tk EXCEPT !.op = op, !.pc = "get", !.key = merged["id"]]
      [] op.op \in {"update", "delete"} ->
            IF PkFilter(op.filters) = None THEN Raises([tk EXCEPT !.op = op], "capability")
            ELSE [tk EXCEPT !.op = op, !.key = PkFilter(op.filters),
                            !.pc = IF op.op = "delete" THEN "del" ELSE "get"]

-----------------------------------------------------------------------------
(* The calls the tasks make: one of each kind, and those that are refused.    *)
Inserts ==
    {[op |-> "insert", rows |-> rows, on_conflict |-> mode] :
        mode \in {None, "ignore", "replace"},
        rows \in {<<Raw(k, 1, Object(1)), Raw(j, 1, Scalar(0))>> : k \in Keys, j \in Keys}
                 \cup {<<Raw(k, 0, Scalar(1)), Raw(None, 0, Scalar(0))>> : k \in Keys}}
\* The primary key of an upsert is in its match key, in its values or in neither.
UpsertCalls ==
    {[op |-> "upsert", key |-> key, values |-> values] :
        key \in {[id |-> k, b |-> Scalar(0)] : k \in Keys} \cup {[b |-> Scalar(0)]},
        values \in {[a |-> 1]} \cup {[id |-> k, a |-> 1] : k \in Keys}}
Updates ==
    {[op |-> "update", filters |-> filters, set |-> set] :
        filters \in {Is(k) : k \in Keys} \cup {<<>>},
        set \in {[a |-> 1], [b |-> Object(1)]} \cup {[id |-> k] : k \in Keys}}
Deletes == {[op |-> "delete", filters |-> Is(k)] : k \in Keys}
Queries ==
    {[op |-> op, filters |-> filters, offset |-> page[1], limit |-> page[2]] :
        op \in Reads \cup {"stream"}, page \in {<<0, None>>, <<1, 1>>},
        filters \in {Is(k) : k \in Keys}
                    \cup {<<>>, <<[op |-> "gt", field |-> "a", value |-> 0]>>}}
Drop == [op |-> "drop", filters |-> <<>>]

Start(t) ==
    /\ task[t].pc = "new"
    /\ \/ \E op \in Inserts \cup UpsertCalls \cup Updates \cup Deletes :
            task' = [task EXCEPT ![t] = StartMutation(@, op)]
       \/ \E op \in Queries \cup {Drop} : task' = [task EXCEPT ![t] = StartQuery(@, op)]
    /\ UNCHANGED store

ExistsUnchecked(t) ==
    /\ task[t].pc = "exists"
    /\ task' = [task EXCEPT ![t] = [@ EXCEPT !.read = store[task[t].key], !.pc = "set"]]
    /\ UNCHANGED store
\* _insert: EXISTS, then skip the row, refuse it, or go on to its SET.
Exists(t) ==
    LET tk == task[t]
        seen == [tk EXCEPT !.read = store[tk.key]]
    IN  /\ tk.pc = "exists"
        /\ task' = [task EXCEPT ![t] =
             IF store[tk.key] = None \/ tk.op.on_conflict = "replace"
             THEN [seen EXCEPT !.pc = "set"]
             ELSE IF tk.op.on_conflict = "ignore" THEN NextRow([seen EXCEPT !.i = @ + 1])
             ELSE Raises(seen, "constraint")]
        /\ UNCHANGED store

\* SET of a document under a key, after which task t is in state tk.
Put(t, k, doc, tk) ==
    /\ store' = [store EXCEPT ![k] = doc]
    /\ task' = [task EXCEPT ![t] = [tk EXCEPT !.hits = @ \cup
           {[op |-> task[t].op, from |-> task[t].key, read |-> task[t].read,
             there |-> store[k], wrote |-> doc]}]]

\* The SET of _insert.
SetInserted(t) ==
    LET tk == task[t]
        row == Normalize(tk.op.rows[tk.i])
    IN  /\ tk.pc = "set"
        /\ Put(t, tk.key, row, NextRow([tk EXCEPT !.i = @ + 1, !.out = Append(@, row)]))

\* GET of one document: a lookup answers, an update of nothing ends, an update
\* or upsert goes on to the SET.
Get(t) ==
    LET tk == task[t]
        doc == store[tk.key]
        got == [tk EXCEPT !.read = doc]
    IN  /\ tk.pc = "get"
        /\ task' = [task EXCEPT ![t] =
             CASE tk.op.op \in Reads \cup {"stream"} -> Answers(got, IF doc = None THEN <<>> ELSE <<doc>>)
               [] tk.op.op = "update" -> IF doc = None THEN Ends(got, [affected |-> 0])
                                         ELSE [got EXCEPT !.pc = "put"]
               [] tk.op.op = "upsert" -> [got EXCEPT !.pc = "put"]]
        /\ UNCHANGED store

\* The document an update or upsert stores after its GET: _set puts it under the
\* primary key it holds itself.
Merged(tk) ==
    IF tk.op.op = "update" THEN Patched(tk.read, Normalize(tk.op.set))
    ELSE IF tk.read # None THEN Patched(tk.read, Normalize(tk.op.values))
    ELSE Patched(Normalize(tk.op.key), Normalize(tk.op.values))

SetMerged(t) ==
    LET tk == task[t]
        doc == Merged(tk)
    IN  /\ tk.pc = "put"
        /\ Put(t, doc["id"], doc, Ends(tk, [affected |-> 1]))

\* The other tasks after t has deleted key k.
Deleted(t, k, tk) ==
    /\ store' = [store EXCEPT ![k] = None]
    /\ task' = [s \in Tasks |-> IF s = t THEN tk
                               ELSE [task[s] EXCEPT !.steady = @ \ {k}]]

Del(t) ==
    LET tk == task[t]
    IN  /\ tk.pc = "del"
        /\ Deleted(t, tk.key,
                   Ends(tk, [affected |-> IF store[tk.key] = None THEN 0 ELSE 1]))

\* scan_iter names a key, seldom a second time (here once a scan), and ends when
\* it has named at least those that were stored all along.
Scan(t) ==
    LET tk == task[t]
        Name(k) == [tk EXCEPT !.pc = "fetch", !.key = k, !.left = @ \ {k}]
    IN  /\ tk.pc = "scan"
        /\ \/ \E k \in tk.left : task' = [task EXCEPT ![t] = Name(k)]
           \/ \E k \in Keys \ tk.left :
                /\ ~tk.again
                /\ task' = [task EXCEPT ![t] = [Name(k) EXCEPT !.again = TRUE]]
           \/ /\ tk.left \cap tk.steady = {}
              /\ task' = [task EXCEPT ![t] = Answers(tk, tk.out)]
        /\ UNCHANGED store

\* GET of a scanned key: a document deleted meanwhile is left out.  drop_schema
\* deletes the key instead.
Fetch(t) ==
    LET tk == task[t]
        doc == store[tk.key]
        next == [tk EXCEPT !.pc = "scan", !.steady = IF tk.op.op = "drop" THEN {} ELSE @]
    IN  /\ tk.pc = "fetch"
        /\ IF tk.op.op = "drop" THEN Deleted(t, tk.key, next)
           ELSE /\ task' = [task EXCEPT ![t] =
                       [next EXCEPT !.out = IF doc = None THEN @ ELSE Append(@, doc)]]
                /\ UNCHANGED store

Init ==
    /\ store \in [Keys -> {None}] \cup {[k \in Keys |-> Row(k, 0, 0)]}
    /\ task = [t \in Tasks |-> Idle]

Next ==
    \E t \in Tasks :
        \/ Start(t) \/ Exists(t) \/ SetInserted(t) \/ Get(t) \/ SetMerged(t)
        \/ Del(t) \/ Scan(t) \/ Fetch(t)

Spec == Init /\ [][Next]_vars

-----------------------------------------------------------------------------
(* What the backend promises its callers.                                     *)

TypeOK ==
    /\ store \in [Keys -> Documents \cup {None}]
    /\ \A t \in Tasks : task[t].pc \in {"new", "exists", "set", "get", "put", "del",
                                        "scan", "fetch", "done"}

\* A document is always stored under its own primary key, also after an update
\* that changes the primary key.
RowsUnderOwnKey == \A k \in Keys : store[k] # None => store[k]["id"] = k

\* An update that changes the primary key SETs the row under the new key, over
\* whatever row is there, and leaves the old row under the old key.
Rekeys(h) == h.op.op = "update" /\ h.wrote["id"] # h.from

\* The SETs that are meant to replace the row they replace: that of an insert
\* which is told to, those of an update and an upsert of the row they have read.
Replaces(h) == h.there = h.read /\ (h.op.op = "insert" => h.op.on_conflict = "replace")

AnotherStored(t, doc) == \E s \in Tasks \ {t} : \E h \in task[s].hits : h.wrote = doc

\* Any other row a SET replaces was stored by another task in between, after the
\* EXISTS or GET: only a race or a changed primary key overwrites a row.
OverwritesOnlyInRace ==
    \A t \in Tasks : \A h \in task[t].hits :
        h.there # None => Replaces(h) \/ Rekeys(h) \/ AnotherStored(t, h.there)

\* An update or upsert changes no field it was not told to change, unless
\* another task wrote the row between its GET and its SET.
OtherFieldsKept ==
    \A t \in Tasks : \A h \in task[t].hits :
        h.op.op \in {"update", "upsert"} /\ h.there # None /\ h.there = h.read
            => \A f \in Fields :
                 h.wrote[f] # h.there[f] =>
                    f \in DOMAIN (IF h.op.op = "update" THEN h.op.set ELSE h.op.values)

\* A scan delivers every row that was stored all the time it ran, and nothing
\* but rows.
ScanComplete ==
    \A t \in Tasks : LET tk == task[t] IN
        tk.pc = "done" /\ tk.op \in Queries /\ tk.op.filters = <<>> /\ tk.op.op \in {"select", "stream"}
        /\ (tk.op.op = "stream" \/ <<tk.op.offset, tk.op.limit>> = <<0, None>>)
            => /\ \A k \in tk.steady : \E i \in 1..Len(tk.result.rows) : tk.result.rows[i]["id"] = k
               /\ \A i \in 1..Len(tk.result.rows) : tk.result.rows[i] # None

RedisKeepsRows ==
    RowsUnderOwnKey /\ OverwritesOnlyInRace /\ OtherFieldsKept /\ ScanComplete
=============================================================================

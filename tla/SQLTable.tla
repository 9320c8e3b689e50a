------------------------------ MODULE SQLTable ------------------------------
(* What the SQL backends read and write (src/src/aura/backends/sql): how an   *)
(* insert, update or delete of the query IR becomes one statement, what the   *)
(* three databases make of it, and a query that is streamed by walking        *)
(* LIMIT/OFFSET windows while the table is written.  SQLTransactions has the  *)
(* transactions around the statements.                                        *)
(*                                                                            *)
(* A row has its primary key "id", a field "a" that is NOT NULL, a link "b"   *)
(* and a list "doc", which is stored as JSON text.  The evaluation of the     *)
(* statements belongs to the databases, each with its own habits.             *)
EXTENDS Naturals, Sequences, FiniteSets

CONSTANTS Keys,         \* primary keys, numbers
          None,         \* Python's None and SQL's NULL
          MaxWrites,    \* statements that write, in one behaviour
          Offsets, Limits, Batches      \* of streamed queries

VARIABLES
    dialect,    \* the database
    table,      \* id -> stored row or None
    writes,     \* how many statements have written
    last,       \* history: such a statement, its outcome and the table before, for one step
    stream      \* the streamed query

vars == <<dialect, table, writes, last, stream>>

Columns == {"id", "a", "b", "doc"}
Dialects == {"sqlite", "postgres", "mysql"}
SupportsReturning == dialect # "mysql"

KeysAreNumbers == Keys \in SUBSET Nat /\ IsFiniteSet(Keys) /\ MaxWrites \in Nat

\* What offset(), limit() and stream() of the query builder let through.
WindowsAreLegal == Offsets \in SUBSET Nat /\ Limits \in SUBSET Nat /\ Batches \in SUBSET (Nat \ {0})

-----------------------------------------------------------------------------
(* The compiler.                                                              *)

\* _adapt and _decode_rows: a list is stored as text and read back as a list.
Text(v) == [json |-> v]
Values == Nat \cup {None} \cup {Text(<<k>>) : k \in Keys}
Decode(row) == [row EXCEPT !["doc"] = IF @ = None THEN None ELSE @.json]

Words == {"asc", "desc", "ignore", "replace", "constraint", "refused", "UPDATE", "DELETE",
          "INSERT", "INSERT IGNORE", "DO NOTHING", "REPLACE"}
NoneIsNoValue ==
    /\ None \notin Nat \cup Words \cup {<<k>> : k \in Keys} \cup {Text(<<k>>) : k \in Keys}
    /\ None \notin [Columns -> Values]

\* _link_value: an object becomes its primary key, or NULL if it has none; a key,
\* written [key |-> k], and None stay.
LinkValue(v) ==
    CASE v = None -> None
      [] v # None /\ "key" \in DOMAIN v -> v["key"]
      [] v # None /\ "id" \in DOMAIN v -> v["id"]
      [] OTHER -> None
Links == {None, [key |-> 1], [id |-> 1], [a |-> 1]}

\* _normalize_row: a link becomes a key, a collection is dropped, a container
\* becomes text.
NormalizeRow(row) ==
    [f \in DOMAIN row \ {"posts"} |->
        CASE f = "b" -> LinkValue(row[f])
          [] f = "doc" /\ row[f] # None -> Text(row[f])
          [] OTHER -> row[f]]

\* _insert_columns: those any row has; a row without one of them gets NULL for it.
InsertColumns(rows) == {c \in Columns : \E i \in 1..Len(rows) : c \in DOMAIN rows[i]}
Tuple(row, columns) == [f \in columns |-> IF f \in DOMAIN row THEN row[f] ELSE None]

\* _insert_conflict; None is the refusal of PostgreSQL to replace.
InsertConflict(mode) ==
    CASE mode = None -> "INSERT"
      [] mode = "ignore" -> IF dialect = "mysql" THEN "INSERT IGNORE" ELSE "DO NOTHING"
      [] mode = "replace" -> IF dialect = "postgres" THEN None ELSE "REPLACE"

Refused == [verb |-> None]

CompileInsert(ir) ==
    LET rows == [i \in 1..Len(ir.rows) |-> NormalizeRow(ir.rows[i])]
        verb == InsertConflict(ir.on_conflict)
    IN  IF rows = <<>> \/ verb = None THEN Refused
        ELSE [verb |-> verb, tuples |-> [i \in 1..Len(rows) |-> Tuple(rows[i], InsertColumns(rows))]]

CompileUpdate(ir) ==
    LET set == NormalizeRow(ir.set)
    IN  IF DOMAIN set = {} THEN Refused
        ELSE [verb |-> "UPDATE", set |-> set, filter |-> ir.filter]

CompileDelete(ir) == [verb |-> "DELETE", filter |-> ir.filter]

Compile(ir) == CASE ir.operation = "insert" -> CompileInsert(ir)
                 [] ir.operation = "update" -> CompileUpdate(ir)
                 [] ir.operation = "delete" -> CompileDelete(ir)

-----------------------------------------------------------------------------
(* The databases.                                                             *)

\* A filter is one equality, or None for all rows.
MatchingIn(rows, filter) == {k \in Keys : rows[k] # None /\ (filter = None \/ rows[k][filter[1]] = filter[2])}
Matching(filter) == MatchingIn(table, filter)

\* A statement that fails has no effect.
Failed(error) == [table |-> table, count |-> 0, returned |-> <<>>, error |-> error]

\* Columns a statement does not name are NULL.
Full(tuple) == [f \in Columns |-> IF f \in DOMAIN tuple THEN tuple[f] ELSE None]

\* One tuple of an INSERT.  MySQL's IGNORE turns a NULL it may not store into 0 and
\* its REPLACE counts the row it removes.
InsertTuple(verb, done, tuple) ==
    LET k == tuple["id"]
        row == IF verb = "INSERT IGNORE" /\ Full(tuple)["a"] = None
               THEN [Full(tuple) EXCEPT !["a"] = 0] ELSE Full(tuple)
        stored == [table |-> [done.table EXCEPT ![k] = row], returned |-> Append(done.returned, row),
                   count |-> done.count + (IF dialect = "mysql" /\ done.table[k] # None THEN 2 ELSE 1),
                   error |-> None]
    IN  IF done.error # None THEN done
        ELSE IF row["a"] = None THEN Failed("constraint")
        ELSE IF done.table[k] = None \/ verb = "REPLACE" THEN stored
        ELSE IF verb = "INSERT" THEN Failed("constraint") ELSE done

\* MySQL counts the rows an UPDATE changes, the others those it matches.
Updated(s) ==
    LET at == Matching(s.filter)
        new(k) == [f \in Columns |-> IF f \in DOMAIN s.set THEN s.set[f] ELSE table[k][f]]
        moved == {k \in at : new(k)["id"] # k}
        lands == {new(k)["id"] : k \in at}
        changed == {k \in at : new(k) # table[k]}
    IN  IF "a" \in DOMAIN s.set /\ s.set["a"] = None /\ at # {} THEN Failed("constraint")
        ELSE IF Cardinality(lands) < Cardinality(at) \/ \E k \in lands \ at : table[k] # None
        THEN Failed("constraint")
        ELSE [table |-> [k \in Keys |-> IF \E j \in at : new(j)["id"] = k
                                        THEN new(CHOOSE j \in at : new(j)["id"] = k)
                                        ELSE IF k \in moved THEN None ELSE table[k]],
              count |-> Cardinality(IF dialect = "mysql" THEN changed ELSE at),
              returned |-> <<>>, error |-> None]

Deleted(s) ==
    [table |-> [k \in Keys |-> IF k \in Matching(s.filter) THEN None ELSE table[k]],
     count |-> Cardinality(Matching(s.filter)), returned |-> <<>>, error |-> None]

Inserted(s) ==
    LET after[n \in 0..Len(s.tuples)] ==
            IF n = 0 THEN [table |-> table, count |-> 0, returned |-> <<>>, error |-> None]
            ELSE InsertTuple(s.verb, after[n - 1], s.tuples[n])
    IN  after[Len(s.tuples)]

RunWrite(s) ==
    CASE s.verb = "UPDATE" -> Updated(s)
      [] s.verb = "DELETE" -> Deleted(s)
      [] OTHER -> Inserted(s)

\* The sorts "asc" and "desc" are on the primary key, "a" is on that column.  The
\* first two settle the order: the key at place i has i - 1 keys before it.
ByKey(sort) == sort \in {"asc", "desc"}
Before(sort, j, k) == IF sort = "desc" THEN j > k ELSE j < k
Sorted(keys, sort) ==
    [i \in 1..Cardinality(keys) |->
        CHOOSE k \in keys : Cardinality({j \in keys : Before(sort, j, k)}) = i - 1]

\* The rows of a select, in the order of its sort; where that settles nothing, in
\* any order, and the next time in another one.
OrderedRows(filter, sort) ==
    LET keys == Matching(filter)
        places == 1..Cardinality(keys)
        orders == IF ByKey(sort) THEN {Sorted(keys, sort)}
                  ELSE {o \in [places -> keys] :
                          /\ \A i, j \in places : o[i] = o[j] => i = j
                          /\ sort = "a" => \A i, j \in places :
                                               i < j => table[o[i]]["a"] <= table[o[j]]["a"]}
    IN  {[i \in places |-> Decode(table[order[i]])] : order \in orders}

Window(rows, limit, offset) ==
    SubSeq(rows, offset + 1, IF limit = None \/ offset + limit > Len(rows) THEN Len(rows) ELSE offset + limit)

\* _limit_offset: an OFFSET needs a LIMIT, and the number the compiler writes where
\* there is none is too large for PostgreSQL, which refuses the statement.
Refuses(limit, offset) == dialect = "postgres" /\ limit = None /\ offset # 0

\* What a select may answer, nothing if it is refused.
SelectRows(filter, sort, limit, offset) ==
    IF Refuses(limit, offset) THEN {}
    ELSE {Window(rows, limit, offset) : rows \in OrderedRows(filter, sort)}

\* compile_count and compile_exists
CountRows(filter) == Cardinality(Matching(filter))
ExistsRow(filter) == IF Matching(filter) = {} THEN 0 ELSE 1

-----------------------------------------------------------------------------
(* Writes: execute_mutation.                                                  *)

Row(k, x) == [id |-> k, a |-> x]
Given(k, link) == [id |-> k, a |-> 1, b |-> link, doc |-> <<k>>, posts |-> <<>>]
Mutations ==
    {[operation |-> "insert", rows |-> rows, on_conflict |-> mode] : mode \in {None, "ignore", "replace"},
        rows \in {<<Given(k, [id |-> 1]), Row(j, 0)>> : k \in Keys, j \in Keys}
                 \cup {<<Given(k, link), [id |-> k]>> : k \in Keys, link \in Links}}
    \cup {[operation |-> "update", filter |-> filter, set |-> set] :
        filter \in {<<"id", k>> : k \in Keys} \cup {<<"a", 0>>},
        set \in {[a |-> 1], [doc |-> None]} \cup {[id |-> k] : k \in Keys}}
    \cup {[operation |-> "delete", filter |-> filter] : filter \in {<<"id", k>> : k \in Keys} \cup {<<"a", 0>>}}

\* What the backend answers: the rows of RETURNING, and how many were affected.
Answer(done) ==
    [rows |-> IF SupportsReturning THEN [i \in 1..Len(done.returned) |-> Decode(done.returned[i])] ELSE <<>>,
     affected |-> done.count, error |-> done.error]

Write ==
    /\ writes < MaxWrites /\ stream.state # "ended"
    /\ writes' = writes + 1
    /\ \E ir \in Mutations :
         LET s == Compile(ir)
             done == IF s.verb = None THEN Failed("refused") ELSE RunWrite(s)
             before == Matching(stream.filter)
             after == MatchingIn(done.table, stream.filter)
         IN  /\ table' = done.table
             /\ last' = [ir |-> ir, before |-> table, answer |-> Answer(done)]
             /\ stream' = [stream EXCEPT !.steady = @ \cap after,
                                         !.came = @ \/ ~(after \subseteq before),
                                         !.went = @ \/ ~(before \subseteq after),
                                         !.quiet = @ /\ done.table = table]
    /\ UNCHANGED dialect

-----------------------------------------------------------------------------
(* stream_query: one window after the other until a short one; none at all    *)
(* for the limit 0.  The sorts tried with each filter are a bound.            *)

NoStream == [filter |-> None, sort |-> None, first |-> 0, offset |-> 0, remaining |-> None, limit |-> None,
             batch |-> 0, out |-> <<>>, steady |-> {}, came |-> FALSE, went |-> FALSE,
             quiet |-> TRUE, state |-> "none"]

Stream ==
    /\ stream.state = "none"
    /\ \E sort \in {"asc", "desc", "a", None}, filter \in {None, <<"a", 0>>}, offset \in Offsets,
          limit \in Limits \cup {None}, batch \in Batches :
         /\ sort \in IF filter = None THEN {"asc", "a"} ELSE {"asc", "desc", None}
         /\ stream' = [NoStream EXCEPT !.filter = filter, !.sort = sort, !.first = offset, !.offset = offset,
                                    !.remaining = limit, !.limit = limit, !.batch = batch,
                                    !.steady = Matching(filter), !.state = IF limit = 0 THEN "ended" ELSE "open"]
    /\ last' = None /\ UNCHANGED <<dialect, table, writes>>

WindowSize == IF stream.remaining = None \/ stream.remaining > stream.batch THEN stream.batch ELSE stream.remaining

FetchAdvancingShort ==
    /\ stream.state = "open"
    /\ \E rows \in SelectRows(stream.filter, stream.sort, WindowSize, stream.offset) :
         stream' = [stream EXCEPT !.out = @ \o rows, !.offset = @ + WindowSize - 1,
                       !.remaining = IF @ = None THEN None ELSE @ - Len(rows),
                       !.state = IF Len(rows) < WindowSize \/ stream.remaining = Len(rows) THEN "ended" ELSE @]
    /\ last' = None /\ UNCHANGED <<dialect, table, writes>>

Fetch ==
    /\ stream.state = "open"
    /\ \E rows \in SelectRows(stream.filter, stream.sort, WindowSize, stream.offset) :
         stream' = [stream EXCEPT !.out = @ \o rows, !.offset = @ + WindowSize,
                       !.remaining = IF @ = None THEN None ELSE @ - Len(rows),
                       !.state = IF Len(rows) < WindowSize \/ stream.remaining = Len(rows) THEN "ended" ELSE @]
    /\ last' = None /\ UNCHANGED <<dialect, table, writes>>

Init ==
    /\ dialect \in Dialects
    /\ table \in {[k \in Keys |-> IF k \in stored THEN Full(Row(k, 0)) ELSE None] : stored \in {Keys, Keys \ {1}}}
    /\ writes = 0 /\ last = None /\ stream = NoStream

Next == Write \/ Stream \/ Fetch

Spec == Init /\ [][Next]_vars

-----------------------------------------------------------------------------
TypeOK ==
    /\ \A k \in Keys : table[k] # None => DOMAIN table[k] = Columns /\ table[k]["id"] = k
    /\ writes \in 0..MaxWrites /\ stream.state \in {"none", "open", "ended"}

Times(k) == {i \in 1..Len(stream.out) : stream.out[i]["id"] = k}

\* A stream of an undisturbed table delivers as many rows as the select with its
\* limit and offset has, which PostgreSQL itself may refuse to answer, and if it is
\* sorted by the primary key those rows; ties may make it repeat some and miss others.
QuietStreamIsSelect ==
    stream.state = "ended" /\ stream.quiet =>
        \A rows \in OrderedRows(stream.filter, stream.sort) :
            LET window == Window(rows, stream.limit, stream.first)
            IN  /\ Len(stream.out) = Len(window)
                /\ ByKey(stream.sort) => stream.out = window

\* A stream over rows that come and go never delivers more than its limit.  Sorted
\* by the primary key, it misses a row that was there all along only if a row went,
\* and delivers one twice only if a row came.
StreamMovesWithWrites ==
    /\ stream.limit # None => Len(stream.out) <= stream.limit
    /\ stream.state = "ended" /\ ByKey(stream.sort) =>
        /\ (\E k \in stream.steady : Times(k) = {}) =>
              stream.went \/ stream.limit # None \/ stream.first # 0
        /\ (\E k \in Keys : \E i, j \in Times(k) : i # j) => stream.came

\* An insert that succeeds has stored every row it was given, or kept the one
\* that was there; one that fails has stored none.  The rows it returns are in
\* the table, unless a later row of the same insert replaced them, and a field
\* it was given is read back as it was given.
InsertStoresOrKeeps ==
    last # None /\ last.ir.operation = "insert" =>
        IF last.answer.error # None THEN table = last.before
        ELSE /\ \A k \in Keys :
                  LET rows == last.ir.rows
                      given == {i \in 1..Len(rows) : rows[i]["id"] = k}
                      replaces == last.ir.on_conflict = "replace"
                  IN  IF given = {} THEN table[k] = last.before[k]
                      ELSE /\ table[k] # None
                           /\ last.before[k] # None => last.ir.on_conflict # None
                           /\ last.before[k] # None /\ last.ir.on_conflict = "ignore" => table[k] = last.before[k]
                           /\ replaces \/ last.before[k] = None =>
                                \A i \in given : (\A j \in given : IF replaces THEN j <= i ELSE i <= j) =>
                                    \A f \in {"a", "doc"} \cap DOMAIN rows[i] : Decode(table[k])[f] = rows[i][f]
             /\ SupportsReturning => last.answer.affected = Len(last.answer.rows)

\* count, exists and select agree, and windows next to each other fit, where both
\* are answered; only PostgreSQL refuses one, and only without a limit.
ReadsAgree ==
    \A filter \in {None, <<"a", 0>>} : \A rows \in OrderedRows(filter, "asc") :
        /\ CountRows(filter) = Len(rows)
        /\ ExistsRow(filter) = IF rows = <<>> THEN 0 ELSE 1
        /\ \A n \in Offsets \cup Limits :
             /\ \A first \in SelectRows(filter, "asc", n, 0), rest \in SelectRows(filter, "asc", None, n) :
                    first \o rest = rows
             /\ SelectRows(filter, "asc", n, 0) # {}
             /\ SelectRows(filter, "asc", None, n) = {} => dialect = "postgres" /\ n # 0

StreamsAndInserts == QuietStreamIsSelect /\ StreamMovesWithWrites /\ InsertStoresOrKeeps /\ ReadsAgree
=============================================================================

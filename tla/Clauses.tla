------------------------------- MODULE Clauses -------------------------------
(***************************************************************************)
(* What becomes of the clauses of a query.  A builder collects them, a     *)
(* terminal operation turns them into the IR of one request, the client    *)
(* and the backend each refuse what they cannot do, and the backend's      *)
(* translation carries the rest -- or leaves it out without a word.  A     *)
(* clause is its name; values appear only where a decision reads them.     *)
(* Builders are immutable and a call that raises returns none, so a        *)
(* refused call is a guard.                                                *)
(***************************************************************************)
EXTENDS Naturals, FiniteSets

CONSTANTS None,
          MaxClauses     \* bounds the clauses of one query

Ranked   == {"vector", "text_search", "hybrid"}
Searches == Ranked \cup {"text"}
Analyzed == {"text_search", "hybrid"}
Presets  == {None, "default", "keyword"}       \* every preset but the default is treated alike
Totals   == {"facets", "metrics", "group_by"}
Clauses  == Searches \cup Totals \cup {"projection", "include", "include_options", "sort", "offset", "snippet",
               "vector_ann", "fusion", "timeout_ms", "profile", "start", "steps", "set"}

\* None is no number; the proofs need it.
NoneIsNoLimit == None \notin Nat

VARIABLES query,     \* what the builder holds: kind, clauses, filters, limit, the analyzer of each search
          result     \* of the last terminal operation
vars == <<query, result>>

NoResult == [verdict |-> "none"]
New(kind) == [kind |-> kind, asks |-> {}, filters |-> {}, limit |-> None, analyzer |-> [c \in Analyzed |-> None]]
Init == query \in {New(k) : k \in {"select", "update", "delete", "traverse"}} /\ result = NoResult

----------------------------------------------------------------------------
\* Builders.

Build(kinds, q) == /\ query.kind \in kinds
                   /\ q # query
                   /\ Cardinality(q.asks) <= MaxClauses
                   /\ query' = q
                   /\ result' = NoResult
Adding(names)   == [query EXCEPT !.asks = @ \cup names]

\* A filter is an equality with the primary key or something else.
Where(f) == Build({"select", "update", "delete", "traverse"},
                  [query EXCEPT !.filters = IF @ = {} THEN {f} ELSE {"several"}])
Select   == Build({"select"}, Adding({"projection"}))
Include(options)  == Build({"select"}, Adding({"include"} \cup IF options THEN {"include_options"} ELSE {}))
OrderBy  == Build({"select"}, Adding({"sort"}))
Limit(n) == Build({"select", "traverse"}, [query EXCEPT !.limit = n])
Offset   == Build({"select"}, Adding({"offset"}))
Text     == Build({"select"}, Adding({"text"}))
Fusion   == Build({"select"}, Adding({"fusion"}))
Timeout  == Build({"select"}, Adding({"timeout_ms"}))
Profile(on) == Build({"select"}, [query EXCEPT !.asks = IF on THEN @ \cup {"profile"} ELSE @ \ {"profile"}])
Facet    == Build({"select"}, Adding({"facets"}))
Metric   == Build({"select"}, Adding({"metrics"}))
Group    == Build({"select"}, Adding({"group_by"}))

Limited(q, n)  == [q EXCEPT !.limit = IF n = None THEN @ ELSE n]
Nearest(n)     == Build({"select"}, Limited(Adding({"vector"}), n))
VectorMetric   == "vector" \in query.asks /\ Build({"select"}, Adding({"vector"}))
\* An exact search after an approximate one keeps the approximation.
SearchVector(topK, approximate) ==
    Build({"select"}, Limited(Adding({"vector"} \cup IF approximate THEN {"vector_ann"} ELSE {}), topK))
SearchText(n, preset) ==
    Build({"select"}, [Limited(Adding({"text_search"}), n) EXCEPT !.analyzer["text_search"] = preset])
SearchHybrid(topK, preset) ==
    Build({"select"}, [Limited(Adding({"hybrid"}), topK) EXCEPT !.analyzer["hybrid"] = preset])
Analyzer(preset) ==
    /\ query.asks \cap Analyzed # {}
    /\ LET c == IF "text_search" \in query.asks THEN "text_search" ELSE "hybrid"
       IN  Build({"select"}, [query EXCEPT !.analyzer[c] = preset])
Snippets == query.asks \cap Analyzed # {} /\ Build({"select"}, Adding({"snippet"}))

Set      == Build({"update"}, Adding({"set"}))
Start    == Build({"traverse"}, Adding({"start"}))
Out      == Build({"traverse"}, Adding({"steps"}))

----------------------------------------------------------------------------
\* The request.

\* ast.py: facets, metrics and groups are no part of a select's IR; an analyzer
\* is one unless it is the default.
Analyzers(q) == {c \in q.asks \cap Analyzed : q.analyzer[c] \notin {None, "default"}}
ToIr(q) == (q.asks \ Totals)
              \cup (IF q.filters # {} THEN {"filters"} ELSE {})
              \cup (IF q.limit # None THEN {"limit"} ELSE {})
              \cup (IF Analyzers(q) # {} THEN {"analyzer"} ELSE {})

AuraServers == {"auradb", "protocol", "memory"}
Stores      == {"sql", "mongodb", "redis"}
Backends    == AuraServers \cup Stores

\* What an AuraDB server of a given age advertises; the reference server's
\* acknowledgement has no capabilities at all.
Ages == {"old", "v1.3", "v1.5"}
Advertised(age) ==
    {"vector", "text_search", "hybrid"}
      \cup (IF age # "old" THEN {"group_by", "query_profile", "hnsw_preview", "cursor_resume"} ELSE {})
      \cup (IF age = "v1.5" THEN {"query_analyzers", "search_snippets"} ELSE {})
Capabilities(b, age) ==
    CASE b = "auradb"               -> Advertised(age)
      [] b \in {"protocol", "memory"} -> Advertised("v1.3")
      [] OTHER                      -> {}

\* The client's own checks; a stream has none, and ranked pages only that of
\* resuming.
ClientNeeds(terminal, ir, q) ==
    CASE terminal \in {"all", "one", "first"} -> ir \cap Ranked
      [] terminal = "page"      -> {"cursor_resume"}
      [] terminal = "aggregate" -> (q.asks \cap {"group_by"})
                                     \cup IF "profile" \in q.asks THEN {"query_profile"} ELSE {}
      [] OTHER -> {}

BackendNeedsAnalyzersOnly(b, op, ir) ==
    IF b \in AuraServers /\ op # "stream" /\ "analyzer" \in ir THEN {"query_analyzers"} ELSE {}
\* Those of the AuraDB backends, for everything but streams.
BackendNeeds(b, op, ir) ==
    IF b \notin AuraServers \/ op = "stream" THEN {}
    ELSE (IF "analyzer" \in ir THEN {"query_analyzers"} ELSE {})
           \cup (IF "snippet" \in ir THEN {"search_snippets"} ELSE {})

\* Redis finds a row by its key or reads them all; a write needs the key.
Findable(b, op, filters) == b = "redis" => filters \subseteq {"key"} /\ (op = "mutation" => filters # {})

Operations(b) ==
    CASE b = "auradb" -> {"select", "stream", "count", "exists", "search_page", "aggregate", "mutation"}
      [] b \in {"protocol", "memory"} ->
            {"select", "stream", "count", "exists", "search_page", "aggregate", "traverse", "raw", "mutation"}
      [] b = "sql"    -> {"select", "stream", "count", "exists", "raw", "mutation"}
      [] OTHER        -> {"select", "stream", "count", "exists", "mutation"}

\* Neither MongoDB nor Redis looks for the operation before the model, which a raw
\* query has not; MongoDB answers any read it does not know as a plain find.
Refusal(b, op, ir, filters) ==
    IF b \in {"mongodb", "redis"} /\ op = "raw" THEN "KeyError"
    ELSE IF \/ b \in {"sql", "mongodb"} /\ op # "mutation" /\ ir \cap {"vector", "text"} # {}
            \/ ~Findable(b, op, filters)
    THEN "capability"
    ELSE IF op \in Operations(b) \/ (b = "mongodb" /\ op \in {"search_page", "aggregate"}) THEN "none"
    ELSE IF b = "sql" /\ op # "traverse" THEN "query" ELSE "capability"

\* The clauses each translation reads.
Plain == {"filters", "projection", "sort", "limit", "offset"}
NativeFind == Plain \cup Searches \cup {"vector_ann", "analyzer", "include", "timeout_ms", "snippet"}
RowsRead(b, op, filters) ==
    CASE b = "auradb" /\ op \in {"select", "search_page"} -> NativeFind
      [] b = "auradb" /\ op = "stream"    -> NativeFind \ {"snippet"}
      [] b = "auradb" /\ op = "aggregate" -> {"filters", "text_search", "analyzer", "timeout_ms", "profile"} \cup Totals
      [] b \in {"protocol", "memory"} /\ op \in {"select", "stream"} ->
            Plain \cup Searches \cup {"include", "include_options", "fusion"}
      [] b \in {"protocol", "memory"} /\ op = "search_page" ->
            {"filters", "projection", "include", "include_options", "fusion"} \cup Searches
      [] b \in {"protocol", "memory"} /\ op = "aggregate" -> {"filters", "text_search"} \cup Totals
      [] b \in {"sql", "mongodb"}         -> Plain
      [] b = "redis" /\ op = "stream" /\ filters = {} -> {}
      [] OTHER                            -> {"filters", "limit", "offset"}
Reads(b, op, filters) ==
    CASE op \in {"count", "exists"} -> {"filters"}
      [] op = "mutation"            -> {"filters", "set"}
      [] op = "traverse"            -> {"start", "steps", "filters", "limit"}
      [] OTHER                      -> RowsRead(b, op, filters)

\* The engine ranks by one search: hybrid before text_search before the others, and
\* ranked rows are not sorted again.
Beaten(b, ir) ==
    IF b \notin {"protocol", "memory"} THEN {}
    ELSE (IF "hybrid" \in ir THEN {"text_search", "vector", "text"}
          ELSE IF "text_search" \in ir THEN {"vector", "text"} ELSE {})
         \cup (IF ir \cap Ranked # {} THEN {"sort"} ELSE {})

\* An old AuraDB server may reject or ignore a clause it does not know.
Unknown(b, age, ir) ==
    IF b # "auradb" THEN {}
    ELSE (IF "hnsw_preview" \notin Advertised(age) THEN {"vector_ann"} ELSE {})
           \cup (IF "query_analyzers" \notin Advertised(age) THEN {"analyzer"} ELSE {})
           \cup (IF "search_snippets" \notin Advertised(age) THEN {"snippet"} ELSE {})

Verdict(b, age, terminal, op, ir, q) ==
    IF ~(ClientNeeds(terminal, ir, q) \cup BackendNeeds(b, op, ir)) \subseteq Capabilities(b, age)
    THEN "capability"
    ELSE Refusal(b, op, ir, q.filters)

----------------------------------------------------------------------------
\* Terminal operations.

\* Run sends the query q as one operation; rows is how many rows match it.
Run(b, age, terminal, op, q, rows) ==
    LET ir      == IF op = "aggregate" THEN ToIr(q) \cup (q.asks \cap Totals) ELSE ToIr(q)
        verdict == Verdict(b, age, terminal, op, ir, q)
        found   == IF terminal \in {"one", "first"} /\ rows > q.limit THEN q.limit ELSE rows
    IN  /\ result = NoResult
        /\ \E rejects \in IF ir \cap Unknown(b, age, ir) # {} THEN BOOLEAN ELSE {FALSE} :
              result' = [verdict  |-> CASE verdict # "none" -> verdict
                                        [] rejects          -> "server"
                                        [] b = "mongodb" /\ op = "aggregate" -> "query"
                                        [] terminal = "one" /\ found = 0 -> "not found"
                                        [] terminal = "one" /\ found > 1 -> "query"
                                        [] OTHER            -> "ok",
                         terminal |-> terminal,
                         backend  |-> b,
                         asked    |-> ToIr(query) \cup (query.asks \cap Totals),
                         answered |-> (ir \cap Reads(b, op, q.filters)) \ (Beaten(b, ir) \cup Unknown(b, age, ir)),
                         rows     |-> rows]
        /\ UNCHANGED query

AgesOf(b) == IF b = "auradb" THEN Ages ELSE {"v1.3"}
Selecting == query.kind = "select"
All(b, age)      == Selecting /\ Run(b, age, "all", "select", query, 0)
One(b, age, n)   == Selecting /\ Run(b, age, "one", "select", [query EXCEPT !.limit = 2], n)
First(b, age, n) == Selecting /\ Run(b, age, "first", "select", [query EXCEPT !.limit = 1], n)
\* Counting takes the filters and nothing else.
Counted          == [New("select") EXCEPT !.filters = query.filters]
Count(b, age)    == Selecting /\ Run(b, age, "count", "count", Counted, 0)
Exists(b, age)   == Selecting /\ Run(b, age, "exists", "exists", Counted, 0)
Stream(b, age)   == Selecting /\ Run(b, age, "stream", "stream", query, 0)
SearchPages(b, age) == Selecting /\ query.asks \cap Ranked # {} /\ Run(b, age, "search_pages", "search_page", query, 0)
Page(b, age)     == Selecting /\ query.asks \cap Ranked # {} /\ Run(b, age, "page", "search_page", query, 0)
Aggregate(b, age) == Selecting /\ query.asks \cap Totals # {} /\ Run(b, age, "aggregate", "aggregate", query, 0)
Execute(b, age)  == /\ query.kind = "update" => "set" \in query.asks
                    /\ query.kind \in {"update", "delete"}
                    /\ Run(b, age, "execute", "mutation", query, 0)
Traverse(b, age) == query.kind = "traverse" /\ Run(b, age, "traverse", "traverse", query, 0)
Raw(b, age)      == query = New("select") /\ Run(b, age, "raw", "raw", query, 0)

Next ==
    \/ \E f \in {"key", "other"} : Where(f)
    \/ Select \/ OrderBy \/ Offset \/ Text \/ Fusion \/ Timeout \/ Facet \/ Metric \/ Group
    \/ \E on \in BOOLEAN : Include(on) \/ Profile(on)
    \/ \E n \in {0, 5} : Limit(n)
    \/ \E n \in {None, 10} : Nearest(n)
    \/ VectorMetric
    \/ \E approximate \in BOOLEAN : SearchVector(10, approximate)
    \/ \E n \in {None, 10}, preset \in Presets : SearchText(n, preset)
    \/ \E preset \in Presets : SearchHybrid(10, preset)
    \/ \E preset \in Presets \ {None} : Analyzer(preset)
    \/ Snippets \/ Set \/ Start \/ Out
    \/ \E b \in Backends : \E age \in AgesOf(b) :
          \/ All(b, age) \/ Count(b, age) \/ Exists(b, age) \/ Stream(b, age)
          \/ SearchPages(b, age) \/ Page(b, age) \/ Aggregate(b, age)
          \/ Execute(b, age) \/ Traverse(b, age) \/ Raw(b, age)
          \/ First(b, age, 2)
          \/ \E n \in 0 .. 2 : One(b, age, n)

Spec == Init /\ [][Next]_vars

----------------------------------------------------------------------------
\* Properties.

Fetched == {"all", "one", "first", "page"}
Lost    == result.asked \ result.answered

(* What a caller can count on when a query succeeds.  Filters and            *)
(* assignments are never lost, by no backend on no path; one() answers only  *)
(* when one row matches; all(), one(), first() and page() answer the search, *)
(* its analyzer and its snippets (text() on Redis is the one that is lost,   *)
(* and of several searches the engine ranks by one); facets, metrics, groups *)
(* and a traversal's steps are answered wherever they succeed.               *)
AskedIsAnswered ==
    result.verdict = "ok" =>
        /\ Lost \cap {"filters", "set", "start", "steps"} = {}
        /\ result.terminal = "one" => result.rows = 1
        /\ result.terminal \in Fetched =>
              /\ Lost \cap {"snippet", "analyzer"} = {}
              /\ (\E c \in Searches : result.asked \cap Searches = {c}) =>
                    Lost \cap Searches \subseteq (IF result.backend = "redis" THEN {"text"} ELSE {})
        /\ result.terminal \in Fetched \ {"page"} => Lost \cap {"limit", "offset"} = {}
        /\ result.terminal \in Fetched \cup {"stream"} =>
              ("sort" \in Lost => result.backend = "redis" \/ result.asked \cap Ranked # {})
        /\ result.terminal = "aggregate" => Lost \cap Totals = {}

(* docs/SEARCH_AND_RANKING.md:186 says that search queries are checked       *)
(* against the backend's capabilities before execution and raise rather than *)
(* being silently dropped.  A streamed query is not checked.                 *)
StreamedSearchIsRefusedOrAnswered ==
    result.verdict = "ok" /\ result.terminal = "stream"
       /\ Cardinality(result.asked \cap Ranked) = 1 => Lost \cap Ranked = {}
=============================================================================

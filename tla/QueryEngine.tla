---------------------------- MODULE QueryEngine ----------------------------
(* The in-memory engine as a query processor                                  *)
(* (src/src/aura/transport/memory.py): ranked search and its pages, ordering  *)
(* and windows, aggregates, links and traversals, over a table that is        *)
(* written between two pages of a search.                                     *)
(*                                                                            *)
(* A row has a primary key id, a field grp to group by (the class declares    *)
(* these two first, in either order), a text (a sequence of words), a         *)
(* one-dimensional vector, and a link boss to a row of the same model, whose  *)
(* other side is the collection reports.  A table lists its rows as if they   *)
(* were inserted in the order of their primary keys.  Scores are integers:    *)
(* rational ones are multiplied by their common denominator, and the          *)
(* logarithm in BM25 is replaced by a number that falls with it.  A value     *)
(* computed once and used often is bound by a quantifier over a set of one.   *)
EXTENDS Integers, Sequences, SequencesExt, FiniteSets, FiniteSetsExt

CONSTANTS Ids,          \* primary keys, numbers
          None,         \* Python's None
          FirstField,   \* what the class declares first: "id" or "grp"
          Words,        \* texts are made of
          Contents,     \* what a row is written with
          FirstTables,  \* the tables before anything is written
          Queries,      \* ranked searches
          PageSizes,    \* rows asked for a page
          Sorts,        \* what rows are ordered by
          MaxWrites     \* writes while a search is paged

VARIABLES
    table,      \* id -> row or None
    writes,     \* how often the table was written
    search      \* the ranked search being paged

vars == <<table, writes, search>>

NoSearch == [query |-> None, cursor |-> None, size |-> 0, out |-> <<>>,
             fixed |-> {}, quiet |-> TRUE, state |-> "none"]

Numbers == Int \cup {None}
RowSpace == [id : Ids, words : Seq(Words), vec : Numbers, grp : Numbers, boss : Numbers]
TableSpace == {t \in [Ids -> RowSpace \cup {None}] : \A i \in Ids : t[i] # None => t[i].id = i}

\* The terms of a query, and the ranked queries: with a vector, with terms, or both.
Terms == {ts \in SUBSET Words : IsFiniteSet(ts)}
Measures == {"dot", "euclidean", "cosine"}
RankedQueries ==
    {q \in [clause : {"vector"}, vector : Numbers, terms : Terms, metric : Measures] :
        q.vector # None \/ q.terms # {}}
    \cup [clause : {"text_search"}, terms : Terms \ {{}}, rank : {"bm25", "term_frequency"},
          operator : {"and", "or"}]
    \cup [clause : {"hybrid"}, terms : Terms \ {{}}, vector : Int, metric : Measures,
          fusion : {"rrf", "weighted_sum"}]

\* What a page token carries: the key to go on behind, and the query it is for.
Tokens == [score : Int, key : Int, query : Queries]

\* What rows are ordered and grouped by.
Fields == {"id", "vec", "grp", "boss"}
SortTerms == [field : Fields, direction : {"asc", "desc"}]

KeysAreNumbers ==
    Ids \in SUBSET Int /\ IsFiniteSet(Ids) /\ MaxWrites \in Nat /\ FirstField \in {"id", "grp"}
NoneIsNoValue == None \notin Int \cup RowSpace \cup Tokens
SearchesAreRanked == Queries \in SUBSET RankedQueries /\ PageSizes \in SUBSET (Nat \ {0})
TablesAreTables ==
    /\ Contents \in SUBSET [words : Seq(Words), vec : Numbers, grp : Numbers, boss : Numbers]
    /\ FirstTables \in SUBSET TableSpace
SortsAreTerms == Sorts \in SUBSET Seq(SortTerms)

Rows == {table[i] : i \in {j \in Ids : table[j] # None}}
Count(P(_), s) == Cardinality({i \in 1..Len(s) : P(s[i])})
Sum(f) == FoldFunction(LAMBDA x, y : x + y, 0, f)
Take(s, n) == IF n = None \/ n >= Len(s) THEN s ELSE SubSeq(s, 1, n)

-----------------------------------------------------------------------------
(* _stable_key: ties are broken by the first value in a row that is a number, *)
(* which need not be the primary key and which several rows may share.        *)

Key(r) == IF FirstField = "grp" /\ r.grp # None THEN r.grp ELSE r.id
Alone(r, rows) == \A s \in rows : Key(s) = Key(r) => s = r

\* Scores are kept in a dictionary by key, in which the last row with a key stands
\* for all of them.
LastWith(k, rows) ==
    CHOOSE r \in rows : Key(r) = k /\ \A s \in rows : Key(s) = k => s.id <= r.id
ByKey(f) == [k \in {Key(r) : r \in DOMAIN f} |-> f[LastWith(k, DOMAIN f)]]

-----------------------------------------------------------------------------
(* Scores.                                                                    *)

Occurrences(words, terms) == Count(LAMBDA w : w \in terms, words)
Abs(x) == IF x < 0 THEN -x ELSE x

\* _vector_score; a row without a vector has none.
VectorScore(metric, q, row) ==
    IF row.vec = None THEN None
    ELSE CASE metric = "dot" -> q * row.vec
           [] metric = "euclidean" -> -Abs(q - row.vec)
           [] metric = "cosine" -> IF q * row.vec > 0 THEN 1 ELSE IF q * row.vec < 0 THEN -1 ELSE 0

\* _bm25_scores: with "and" only the rows with every term.  A term counts for more
\* the fewer rows have it (n - df stands for the logarithm of the code), and the
\* more often the row has it for its length (k1 = 1.2, b = 0.75, in thousandths).
BM25(terms, operator, rows) ==
    LET hits  == {r \in rows : IF operator = "and" THEN terms \subseteq ToSet(r.words)
                               ELSE terms \cap ToSet(r.words) # {}}
        n     == Cardinality(rows)
        total == Max({n, Sum([r \in rows |-> Len(r.words)])})
        idf(t) == 1 + n - Cardinality({r \in rows : t \in ToSet(r.words)})
        part(r, t) == LET tf == Occurrences(r.words, {t})
                      IN  (idf(t) * tf * 22000 * total)
                             \div (10 * tf * total + 3 * total + 9 * Len(r.words) * n)
    IN  [r \in hits |-> Sum([t \in terms |-> part(r, t)])]
\* _apply_text_ranked: plain term counts know no operator.  Every row whose key has a
\* score is delivered with that.
TextScores(q, rows) ==
    LET text  == ByKey(IF q.rank = "term_frequency"
                       THEN [r \in rows |-> Occurrences(r.words, q.terms)]
                       ELSE BM25(q.terms, q.operator, rows))
        found == {k \in DOMAIN text : q.rank = "term_frequency" => text[k] > 0}
    IN  [r \in {x \in rows : Key(x) \in found} |-> text[Key(r)]]
VectorScores(metric, q, rows) ==
    [r \in {x \in rows : VectorScore(metric, q, x) # None} |-> VectorScore(metric, q, r)]

\* Highest score first, ties by key, then as the table has them.
Tied(scores, r, s) == scores[r] = scores[s] /\ Key(r) = Key(s)
Before(scores, r, s) ==
    \/ scores[r] > scores[s]
    \/ scores[r] = scores[s] /\ Key(r) < Key(s)
    \/ Tied(scores, r, s) /\ r.id < s.id
RankOf(scores, r) == 1 + Cardinality({x \in DOMAIN scores : Before(scores, x, r)})
Ranking(scores) ==
    [i \in 1..Cardinality(DOMAIN scores) |-> CHOOSE r \in DOMAIN scores : RankOf(scores, r) = i]

\* The clauses vector() and text(): a row with both scores gets their mean
\* weighted by alpha (here a half), a row with one gets that one.
FusedScores(q, rows) ==
    LET v(r) == IF q.vector = None THEN None ELSE VectorScore(q.metric, q.vector, r)
        t(r) == IF q.terms = {} THEN None ELSE Occurrences(r.words, q.terms)
    IN  [r \in {x \in rows : v(x) # None \/ t(x) # None} |->
            IF v(r) # None /\ t(r) # None THEN v(r) + t(r)
            ELSE 2 * (IF v(r) # None THEN v(r) ELSE t(r))]

\* _min_max and _normalize of scores by key, over the common denominator of both.
Span(f) == LET m == {f[k] : k \in DOMAIN f}
           IN  IF m = {} \/ Max(m) = Min(m) THEN 1 ELSE Max(m) - Min(m)
Normal(f, k) == LET m == {f[x] : x \in DOMAIN f}
                IN  IF Max(m) = Min(m) THEN 1 ELSE f[k] - Min(m)
WeightedSum(text, vec) ==
    [k \in DOMAIN text \cup DOMAIN vec |->
        (IF k \in DOMAIN text THEN Normal(text, k) * Span(vec) ELSE 0)
        + (IF k \in DOMAIN vec THEN Normal(vec, k) * Span(text) ELSE 0)]

\* _rank_map and reciprocal rank fusion, 1 / (60 + rank) for each signal.
KeyRank(f, k) ==
    1 + Cardinality({x \in DOMAIN f : f[x] > f[k] \/ (f[x] = f[k] /\ x < k)})
Reciprocal(n) == (61 * 62 * 63 * 64) \div (60 + n)
RankFusion(text, vec) ==
    [k \in DOMAIN text \cup DOMAIN vec |->
        (IF k \in DOMAIN text THEN Reciprocal(KeyRank(text, k)) ELSE 0)
        + (IF k \in DOMAIN vec THEN Reciprocal(KeyRank(vec, k)) ELSE 0)]

\* _apply_hybrid: of the rows with one key only the last is delivered.
HybridScores(q, rows) ==
    LET text  == ByKey(BM25(q.terms, "or", rows))
        vec   == ByKey(VectorScores(q.metric, q.vector, rows))
        fused == IF q.fusion = "rrf" THEN RankFusion(text, vec) ELSE WeightedSum(text, vec)
    IN  [r \in {LastWith(k, rows) : k \in DOMAIN fused} |-> fused[Key(r)]]

\* _apply_search
Scores(q, rows) ==
    CASE q.clause = "hybrid" -> HybridScores(q, rows)
      [] q.clause = "text_search" -> TextScores(q, rows)
      [] q.clause = "vector" -> FusedScores(q, rows)

-----------------------------------------------------------------------------
(* search_page: seek past the score and key of the last row delivered, take a *)
(* page, and hand out the next score and key while rows are left.             *)

Token(scores, r, q) == [score |-> scores[r], key |-> Key(r), query |-> q]

StartBehindScore(scores, ranked, cursor) ==
    LET behind == {i \in 1..Len(ranked) : scores[ranked[i]] < cursor.score}
    IN  IF cursor = None THEN 1 ELSE IF behind = {} THEN Len(ranked) + 1 ELSE Min(behind)
\* The position of the first row behind the token's key.
Start(scores, ranked, cursor) ==
    LET behind == {i \in 1..Len(ranked) :
                     \/ scores[ranked[i]] < cursor.score
                     \/ (scores[ranked[i]] = cursor.score /\ Key(ranked[i]) > cursor.key)}
    IN  IF cursor = None THEN 1 ELSE IF behind = {} THEN Len(ranked) + 1 ELSE Min(behind)

\* The page of the rows with these scores, ranked, behind the cursor; None when the
\* request is refused: no rows a page, or a token of another query.
PageOf(q, scores, ranked, cursor, size) ==
    LET start == Start(scores, ranked, cursor)
        page == Take(SubSeq(ranked, start, Len(ranked)), size)
        token == IF start + size <= Len(ranked) THEN Token(scores, Last(page), q) ELSE None
    IN  IF size = 0 \/ (cursor # None /\ cursor.query # q) THEN None
        ELSE [rows |-> page, first |-> start, next |-> token]

\* Scores that depend on one row only, while its key is its own, stay the same while
\* other rows change.
OwnScore(q) == q.clause = "vector" \/ (q.clause = "text_search" /\ q.rank = "term_frequency")

Begin ==
    /\ search.state = "none"
    /\ \E q \in Queries, size \in PageSizes :
         search' = [NoSearch EXCEPT !.query = q, !.size = size, !.state = "open",
                                    !.fixed = {r \in DOMAIN Scores(q, Rows) : Alone(r, Rows)}]
    /\ UNCHANGED <<table, writes>>

Page ==
    /\ search.state = "open"
    /\ \E scores \in {Scores(search.query, Rows)} : \E ranked \in {Ranking(scores)} :
       \E page \in {PageOf(search.query, scores, ranked, search.cursor, search.size)} :
         search' = [search EXCEPT !.out = @ \o [i \in 1..Len(page.rows) |->
                           [row |-> page.rows[i], rank |-> page.first + i - 1]],
                                    !.cursor = page.next,
                                    !.state = IF page.next = None THEN "ended" ELSE "open"]
    /\ UNCHANGED <<table, writes>>

Row(i, c) == [id |-> i, words |-> c.words, vec |-> c.vec, grp |-> c.grp, boss |-> c.boss]

\* A row is inserted, changed or deleted by someone else.
Write ==
    /\ writes < MaxWrites /\ search.state \in {"none", "open"}
    /\ writes' = writes + 1
    /\ \E i \in Ids : \E new \in {Row(i, c) : c \in Contents} \cup {None} :
         /\ new # table[i]
         /\ table' = [table EXCEPT ![i] = new]
         /\ search' = [search EXCEPT !.quiet = FALSE,
                             !.fixed = {r \in @ : r.id # i /\ Alone(r, Rows')}]

Init ==
    /\ table \in FirstTables
    /\ writes = 0 /\ search = NoSearch

Next == Begin \/ Page \/ Write

Spec == Init /\ [][Next]_vars

-----------------------------------------------------------------------------
(* select without a ranked clause: order, then window.                        *)

\* The elements of S listed in order; before holds the pairs that are in order.
InOrder(S, before) ==
    [i \in 1..Cardinality(S) |->
        CHOOSE x \in S : Cardinality({y \in S : <<y, x>> \in before}) = i - 1]

\* Rows as the table holds them, as if inserted in the order of their keys.
Listed(rows) == InOrder(rows, {p \in rows \X rows : p[1].id < p[2].id})

\* _sort_key: a null before every value, going up.
SortsBefore(x, y) == y # None /\ (x = None \/ x < y)
Precedes(term, r, s) ==
    IF term.direction = "desc" THEN SortsBefore(s[term.field], r[term.field])
    ELSE SortsBefore(r[term.field], s[term.field])

\* A stable sort by one term, as sort() is, with reverse=True too.
StableSort(rows, term) ==
    LET places == 1..Len(rows)
        order == InOrder(places, {p \in places \X places :
                    \/ Precedes(term, rows[p[1]], rows[p[2]])
                    \/ ~Precedes(term, rows[p[2]], rows[p[1]]) /\ p[1] < p[2]})
    IN  [i \in places |-> rows[order[i]]]

\* _apply_order: one stable sort a term, the last term first.
ApplyOrder(sort, rows) ==
    LET sorted[k \in 0..Len(sort)] ==
            IF k = 0 THEN rows ELSE StableSort(sorted[k - 1], sort[Len(sort) + 1 - k])
    IN  sorted[Len(sort)]

\* _execute_query: offset and limit; None and 0 offset nothing.
Select(sort, offset, limit) ==
    LET ordered == ApplyOrder(sort, Listed(Rows))
    IN  Take(SubSeq(ordered, offset + 1, Len(ordered)), limit)

\* _project: the chosen fields and always the primary key.
Project(row, projection) ==
    IF projection = {} THEN row
    ELSE [f \in DOMAIN row \cap (projection \cup {"id"}) |-> row[f]]

-----------------------------------------------------------------------------
(* aggregate                                                                  *)

\* _compute_metrics on one field of a set of rows, whose order does not show: nulls
\* are left out, and the average is a sum and what it is divided by.
Metrics(rows, field) ==
    LET valued == {r \in rows : r[field] # None}
        values == {r[field] : r \in valued}
    IN  [count |-> Cardinality(rows),
         min |-> IF values = {} THEN None ELSE Min(values),
         max |-> IF values = {} THEN None ELSE Max(values),
         avg |-> IF values = {} THEN None
                 ELSE <<Sum([r \in valued |-> r[field]]), Cardinality(valued)>>]

\* _compute_groups and the facets: one group a value, the largest first, then by
\* value, cut at the limit, where 0 means the default.
Groups(rows, field, limit, default) ==
    LET values == {r[field] : r \in rows} \ {None}
        group(v) == {r \in rows : r[field] = v}
        size(v) == Cardinality(group(v))
        keys == InOrder(values, {p \in values \X values :
                    size(p[1]) > size(p[2]) \/ (size(p[1]) = size(p[2]) /\ p[1] < p[2])})
    IN  [groups |-> Take([i \in 1..Len(keys) |-> [key |-> keys[i], rows |-> group(keys[i])]],
                         IF limit = 0 THEN default ELSE limit),
         total |-> Len(keys)]

\* _aggregate reports on the candidates of a text search, if it has one, and counts
\* at most 10 values a facet and 50 groups unless it is told otherwise.
Matched(q) == IF q = None THEN Rows ELSE DOMAIN TextScores(q, Rows)
Aggregate(matched, field, limit) ==
    [facet |-> Groups(matched, field, limit, 10), groups |-> Groups(matched, field, limit, 50),
     all |-> Metrics(matched, field)]

-----------------------------------------------------------------------------
(* Links: _resolve_include and _execute_traverse.                             *)

Stored(i) == i \in Ids /\ table[i] # None
Reports(i) == {r \in Rows : r.boss = i}

IncludeLink(row) == IF Stored(row.boss) THEN table[row.boss] ELSE None
IncludeCollection(row, sort, limit) == Take(ApplyOrder(sort, Listed(Reports(row.id))), limit)

\* One step from a set of rows along the link or against it.
Step(rows, step) ==
    CASE step = "boss" -> {table[r.boss] : r \in {x \in rows : Stored(x.boss)}}
      [] step = "reports" -> {r \in Rows : \E x \in rows : r.boss = x.id}

\* None stands for the refusal of a path longer than max_depth.
Traverse(start, steps, max_depth) ==
    LET reached[k \in 0..Len(steps)] ==
            IF k = 0 THEN start ELSE Step(reached[k - 1], steps[k])
    IN  IF Len(steps) > max_depth THEN None ELSE reached[Len(steps)]

-----------------------------------------------------------------------------
TypeOK ==
    /\ table \in TableSpace
    /\ writes \in 0..MaxWrites
    /\ search.state \in {"none", "open", "ended"}

\* Pages of a ranked search deliver every row that matched from the first page on,
\* was not written and shared its key with no other row exactly once, whatever happens
\* to other rows; for BM25 and hybrid searches, whose scores depend on all rows, only
\* if nothing was written.
Times(i) == Count(LAMBDA d : d.row.id = i, search.out)
PagesDeliverFixedRows ==
    search.state = "ended" /\ (OwnScore(search.query) \/ search.quiet)
        => \A r \in search.fixed : Times(r.id) = 1

\* Undisturbed, the pages put together are the ranking in its order, no row twice and
\* with the ranks written into the rows, and all of it but the rows tied in score and
\* key with the last row of a page, which the next page starts behind.
EndsPage(k) == \E m \in 1..k : k = m * search.size
QuietPagesAreRanking ==
    search.state = "ended" /\ search.quiet
        => \A scores \in {Scores(search.query, Rows)} : \A ranked \in {Ranking(scores)} :
           \A places \in {1..Len(search.out)} :
             /\ \A k \in places : search.out[k].row = ranked[search.out[k].rank]
             /\ \A k, l \in places : k < l => search.out[k].rank < search.out[l].rank
             /\ \A i \in 1..Len(ranked) :
                  \/ \E k \in places : search.out[k].rank = i
                  \/ \E k \in places : /\ EndsPage(k) /\ search.out[k].rank < i
                                       /\ Tied(scores, search.out[k].row, ranked[i])

\* A token is handed out only while rows are left, and no page behind it is empty
\* unless all that is left is tied with the last row delivered.
TokenLeadsOn ==
    search.state = "open" /\ search.cursor # None /\ search.quiet
        => \A scores \in {Scores(search.query, Rows)} : \A ranked \in {Ranking(scores)} :
             /\ Last(search.out).rank < Len(ranked)
             /\ \/ PageOf(search.query, scores, ranked, search.cursor, 1).rows # <<>>
                \/ Tied(scores, Last(search.out).row, Last(ranked))

\* Rows are ordered by the first term, then by the next, then as stored; null
\* first going up and last going down.
Same(term, r, s) == r[term.field] = s[term.field]
ComesFirst(sort, r, s) ==
    \/ \E m \in 1..Len(sort) : /\ Precedes(sort[m], r, s)
                               /\ \A l \in 1..(m - 1) : Same(sort[l], r, s)
    \/ r.id < s.id /\ \A l \in 1..Len(sort) : Same(sort[l], r, s)
OrderIsLexicographic ==
    \A sort \in Sorts : \A rows \in {Select(sort, 0, None)} :
        /\ ToSet(rows) = Rows /\ Len(rows) = Cardinality(Rows)
        /\ \A i, j \in 1..Len(rows) : i < j => ComesFirst(sort, rows[i], rows[j])

\* Windows next to each other put together are the whole result.
WindowsFit ==
    \A sort \in Sorts, n \in 0..(Cardinality(Ids) + 1) :
        Select(sort, 0, n) \o Select(sort, n, None) = Select(sort, 0, None)

\* Every matched row with a value is in one group, the largest groups come first, the
\* facet counts the same values, and cutting either keeps the first.
AddsUp(matched, field, all, cut) ==
    LET groups == all.groups.groups
    IN  /\ all.groups.total <= 50 =>
             \A r \in matched : r[field] # None =>
                 Cardinality({i \in 1..Len(groups) : r \in groups[i].rows}) = 1
        /\ \A i \in 1..Len(groups) : groups[i].rows \in (SUBSET matched) \ {{}}
        /\ \A i, j \in 1..Len(groups) :
             i < j => Cardinality(groups[i].rows) >= Cardinality(groups[j].rows)
        /\ all.facet.groups = Take(groups, 10) /\ all.facet.total = all.groups.total
        /\ cut.groups.groups = Take(groups, 1) /\ cut.groups.total = all.groups.total
        /\ all.groups.total <= 50 /\ all.all.min # None =>
             \E i \in 1..Len(groups) : Metrics(groups[i].rows, field).min = all.all.min
GroupsAddUp ==
    \A field \in Fields, q \in {None} \cup {x \in Queries : x.clause = "text_search"} :
    \A matched \in {Matched(q)} :
        AddsUp(matched, field, Aggregate(matched, field, 0), Aggregate(matched, field, 1))

\* A link and its collection are inverse, and a step forth and back returns to
\* where it came from.
LinksAreInverse ==
    /\ \A r \in Rows, sort \in Sorts : IncludeLink(r) # None =>
            r \in ToSet(IncludeCollection(IncludeLink(r), sort, None))
    /\ \A r \in Rows, sort \in Sorts : \A t \in ToSet(IncludeCollection(r, sort, None)) :
            IncludeLink(t) = r
    /\ \A start \in SUBSET Rows :
         /\ Traverse(start, <<"reports", "boss">>, 2) = {r \in start : Reports(r.id) # {}}
         /\ {r \in start : IncludeLink(r) # None} \subseteq Traverse(start, <<"boss", "reports">>, 2)

\* What depends on the table only is looked at once a table, before a search begins.
QueriesAnswerRight ==
    /\ PagesDeliverFixedRows /\ QuietPagesAreRanking /\ TokenLeadsOn
    /\ search.state = "none" =>
         OrderIsLexicographic /\ WindowsFit /\ GroupsAddUp /\ LinksAreInverse
=============================================================================

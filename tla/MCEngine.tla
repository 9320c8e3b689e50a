------------------------------ MODULE MCEngine ------------------------------
(* What stands between a caller and the rows of the in-memory engine, and what *)
(* a query means on it and on the other backends.  A behaviour shows one part: *)
(* transactions, streamed queries, ranked search and the other queries,        *)
(* filters, or the clauses of a query.  The parts share no state; the          *)
(* variables of the others rest.                                               *)
EXTENDS Engine, TLC

VARIABLES pRow, pFilters                    \* Predicates

filterVars == <<pRow, pFilters>>

P == INSTANCE Predicates WITH MaxFilters <- 2, row <- pRow, filters <- pFilters

\* Every kind of search, tables with ties in score and in key, nulls and links, and rows
\* written that lose their text, their vector or their group.
SampleSearches ==
    {[clause |-> "vector", vector |-> 1, terms |-> ts, metric |-> m] :
        ts \in {{}, {"x"}}, m \in {"dot", "euclidean"}}
    \cup {[clause |-> "text_search", terms |-> {"x", "y"}, rank |-> r, operator |-> o] :
            r \in {"bm25", "term_frequency"}, o \in {"and", "or"}}
    \cup {[clause |-> "hybrid", terms |-> {"x"}, vector |-> 1, metric |-> "cosine", fusion |-> f] :
            f \in {"rrf", "weighted_sum"}}
Content(words, vec, grp, boss) == [words |-> words, vec |-> vec, grp |-> grp, boss |-> boss]
SampleContents ==
    {Content(<<>>, 2, 0, None), Content(<<"x", "y", "x">>, None, None, 1), Content(<<"x">>, 0, 2, 2)}
RowOf(i, c) == [id |-> i, words |-> c.words, vec |-> c.vec, grp |-> c.grp, boss |-> c.boss]
SampleTables ==
    {[i \in RowIds |-> RowOf(i, Content(<<"x">>, IF i = 2 THEN None ELSE i, IF i = 3 THEN None ELSE 0, 1))],
     [i \in RowIds |-> IF i = 3 THEN None ELSE RowOf(i, Content(<<"y", "x">>, 1, i, 3))]}

SampleSorts ==
    {<<>>, <<[field |-> "grp", direction |-> "desc"], [field |-> "vec", direction |-> "asc"]>>}

ASSUME NoneAssumption == C!NoneIsNoLimit /\ Q!NoneIsNoValue
ASSUME SearchAssumption ==
    Q!KeysAreNumbers /\ Q!SearchesAreRanked /\ Q!TablesAreTables /\ Q!SortsAreTerms

NoQueries == qTable = None /\ qWrites = None /\ qSearch = None
NoFilters == pRow = None /\ pFilters = None
NoClauses == cQuery = None /\ cResult = None

\* With transactions two of the keys are used, and written three times; with streams
\* there is one write and one transaction between their pages, which are one stream's
\* of three rows or those of two of two.
Used == {k \in Keys : \/ tables[k] # NoRow
                      \/ \E t \in Txs : overlays[t] # NoStore /\ overlays[t][k] # NoRow
                      \/ \E t \in Txs : own[t][k] # Untouched}
Transacting == Cardinality(Used) <= 2 /\ \A s \in Streams : spc[s] = "idle"
Streaming   == /\ writes <= 1 /\ Cardinality({t \in Txs : txState[t] # "new"}) <= 1
               /\ Cardinality(Used) <= 2 \/ \E s \in Streams : spc[s] = "idle"

MCInit ==
    /\ Init
    /\ \/ part = "transactions" /\ Transacting /\ NoQueries /\ NoFilters /\ NoClauses
       \/ part = "streams" /\ NoQueries /\ NoFilters /\ NoClauses
       \/ /\ tables = [k \in Keys |-> NoRow]
          /\ \/ part = "queries" /\ Q!Init /\ NoFilters /\ NoClauses
             \/ part = "filters" /\ P!Init /\ NoQueries /\ NoClauses
             \/ part = "clauses" /\ C!Init /\ NoQueries /\ NoFilters

Transactions == part = "transactions" /\ Next /\ Transacting' /\ UNCHANGED <<part, queryVars, filterVars, clauseVars>>
StreamPages  == part = "streams" /\ Next /\ Streaming' /\ UNCHANGED <<part, queryVars, filterVars, clauseVars>>
Searches     == part = "queries" /\ Q!Next /\ UNCHANGED <<part, vars, filterVars, clauseVars>>
Filters      == part = "filters" /\ P!Next /\ UNCHANGED <<part, vars, queryVars, clauseVars>>
Clauses      == part = "clauses" /\ C!Next /\ UNCHANGED <<part, vars, queryVars, filterVars>>

MCNext == Transactions \/ StreamPages \/ Searches \/ Filters \/ Clauses
MCSpec == MCInit /\ [][MCNext]_<<vars, part, queryVars, filterVars, clauseVars>>

Symmetry == Permutations(Keys) \cup Permutations(Txs)

\* A filter selects the same rows on every backend; Predicates has its parts.
FiltersMeanTheSame == part = "filters" => P!TypeOK /\ P!FiltersMeanTheSame
=============================================================================

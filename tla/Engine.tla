------------------------------- MODULE Engine --------------------------------
(* The in-memory engine and the clauses of the queries it is asked, as a       *)
(* behaviour shows one of them: ReferenceServer has the engine's rows,         *)
(* transactions and streams, Clauses what a query says.                        *)
EXTENDS ReferenceServer

CONSTANTS None,
          MaxClauses,    \* bounds the clauses of one query
          RowIds, FirstField, Words, Contents, FirstTables,     \* rows of QueryEngine,
          RankedSearches, PageSizes, Sorts,         \* its searches and orders,
          RowWrites                                 \* and writes between pages

VARIABLES part,               \* what the behaviour shows
          cQuery, cResult,    \* Clauses
          qTable, qWrites, qSearch     \* QueryEngine

clauseVars == <<cQuery, cResult>>
queryVars  == <<qTable, qWrites, qSearch>>

C == INSTANCE Clauses WITH query <- cQuery, result <- cResult
Q == INSTANCE QueryEngine WITH Ids <- RowIds, Queries <- RankedSearches, MaxWrites <- RowWrites,
                               table <- qTable, writes <- qWrites, search <- qSearch

\* The answers of the in-memory engine to a query; QueryEngine has its parts.
QueriesAnswerRight == part = "queries" => Q!TypeOK /\ Q!QueriesAnswerRight
\* What a query asks for is answered or refused; Clauses states it.
AskedIsAnswered == part = "clauses" => C!AskedIsAnswered
=============================================================================

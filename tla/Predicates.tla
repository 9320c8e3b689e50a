----------------------------- MODULE Predicates -----------------------------
(* Filters: how an expression such as (User.age >= 1) & ~User.name.like("a%") *)
(* is built (src/src/aura/query/expressions.py) and what becomes of it on     *)
(* each backend: evaluated row by row in the in-memory engine, compiled to    *)
(* SQL, or translated to a MongoDB or an AuraDB filter.  The evaluation of    *)
(* SQL, of MongoDB filters and of AuraDB filters belongs to those databases.  *)
(*                                                                            *)
(* A row has a number n, a string s and a document field d that may hold the  *)
(* key "k", each possibly null.  A string is a sequence of characters, of     *)
(* which only the case, the wildcards and the newline matter.  contains() is  *)
(* put to text only, as the guides do; on a list the backends differ: it is   *)
(* membership in memory, a pattern for one element on MongoDB and one for the *)
(* JSON text in SQL.                                                          *)
EXTENDS Naturals, Sequences, SequencesExt, FiniteSets

CONSTANTS None,         \* Python's None, SQL's NULL, a missing document key
          MaxFilters    \* the most filters one query is given

VARIABLES
    row,        \* the row the filters are put to
    filters     \* the filters of the query, all of which must match

vars == <<row, filters>>

-----------------------------------------------------------------------------
(* Expressions.  A field reference has a name and a path into a document; the *)
(* right-hand side is a literal or a named parameter still to be bound.       *)

Field(f) == [field |-> f, path |-> <<>>]
Descend(ref, key) == [ref EXCEPT !.path = Append(@, key)]
Literal(v) == [kind |-> "literal", value |-> v]
Param == [kind |-> "param", value |-> None]

Comparison(op, left, right) == [kind |-> "compare", op |-> op, left |-> left, right |-> right]
And(p, q) == [kind |-> "bool", op |-> "and", operands |-> <<p, q>>]
Or(p, q) == [kind |-> "bool", op |-> "or", operands |-> <<p, q>>]
Invert(p) == [kind |-> "not", operand |-> p]

NullTests == {"is_null", "is_not_null", "exists"}
PatternOps == {"contains", "startswith", "endswith", "like"}
Orders == {"lt", "le", "gt", "ge"}

RECURSIVE HasParam(_)
HasParam(p) == CASE p.kind = "compare" -> p.right.kind = "param"
                 [] p.kind = "not" -> HasParam(p.operand)
                 [] p.kind = "bool" -> \E i \in 1..Len(p.operands) : HasParam(p.operands[i])

Compares(op, x, y) ==
    CASE op = "lt" -> x < y [] op = "le" -> x <= y [] op = "gt" -> x > y [] op = "ge" -> x >= y

-----------------------------------------------------------------------------
(* Patterns.  A pattern is a sequence of tokens: a given character, one or    *)
(* many characters except some, and the "$" of a regular expression, which    *)
(* also stands before a newline that ends the text.                           *)
Char(c) == [t |-> "char", c |-> c]
AnyOne == [t |-> "one", but |-> {}]
AnyMany == [t |-> "many", but |-> {}]
Dot == [t |-> "one", but |-> {"\n"}]
DotStar == [t |-> "many", but |-> {"\n"}]
Dollar == [t |-> "end"]
Chars(s) == [i \in 1..Len(s) |-> Char(s[i])]

SameLetter(x, y, nocase) == x = y \/ (nocase /\ {x, y} = {"a", "A"})

RECURSIVE MatchesTokens(_, _, _)
MatchesTokens(ts, s, nocase) ==
    IF ts = <<>> THEN s = <<>>
    ELSE CASE Head(ts).t = "many" -> \/ MatchesTokens(Tail(ts), s, nocase)
                                     \/ /\ s # <<>> /\ Head(s) \notin Head(ts).but
                                        /\ MatchesTokens(ts, Tail(s), nocase)
           [] Head(ts).t = "one" -> /\ s # <<>> /\ Head(s) \notin Head(ts).but
                                    /\ MatchesTokens(Tail(ts), Tail(s), nocase)
           [] Head(ts).t = "end" -> s \in {<<>>, <<"\n">>}
           [] Head(ts).t = "char" -> /\ s # <<>> /\ SameLetter(Head(s), Head(ts).c, nocase)
                                     /\ MatchesTokens(Tail(ts), Tail(s), nocase)

\* A LIKE pattern as a database reads it, with an escape character or none.
RECURSIVE LikeTokens(_, _)
LikeTokens(p, escape) ==
    IF p = <<>> THEN <<>>
    ELSE IF Head(p) = escape /\ Len(p) > 1
    THEN <<Char(p[2])>> \o LikeTokens(Tail(Tail(p)), escape)
    ELSE <<CASE Head(p) = "%" -> AnyMany [] Head(p) = "_" -> AnyOne [] OTHER -> Char(Head(p))>>
         \o LikeTokens(Tail(p), escape)

\* re.escape(pattern) with ".*" for "%" and "." for "_", between "^" and "$".
\* No flag lets a dot match a newline.
RegexOfLike(p) ==
    [i \in 1..Len(p) |-> CASE p[i] = "%" -> DotStar [] p[i] = "_" -> Dot [] OTHER -> Char(p[i])]
    \o <<Dollar>>

-----------------------------------------------------------------------------
(* The in-memory engine.                                                      *)

\* _field_value: the value of a field, then of each key of its path; None as
\* soon as there is no document to descend into.
FieldValue(ref) ==
    IF ref.path = <<>> THEN row[ref.field]
    ELSE LET doc == row[ref.field]
         IN  IF doc # None /\ ref.path[1] \in DOMAIN doc THEN doc[ref.path[1]] ELSE None

HasSubstring(s, t) ==
    \E i \in 0..Len(s) : i + Len(t) <= Len(s) /\ SubSeq(s, i + 1, i + Len(t)) = t

MemoryCompare(p) ==
    LET v == FieldValue(p.left)
        rhs == p.right.value
    IN  CASE p.op = "eq" -> v = rhs
          [] p.op = "ne" -> v # rhs
          [] p.op \in Orders -> v # None /\ Compares(p.op, v, rhs)
          [] p.op = "in" -> v \in Range(rhs)
          [] p.op = "not_in" -> v \notin Range(rhs)
          [] p.op = "contains" -> v # None /\ HasSubstring(v, rhs)
          [] p.op = "startswith" -> v # None /\ IsPrefix(rhs, v)
          [] p.op = "endswith" -> v # None /\ IsSuffix(rhs, v)
          [] p.op = "like" -> v # None /\ MatchesTokens(RegexOfLike(rhs), v, FALSE)
          [] p.op = "is_null" -> v = None
          [] p.op \in {"is_not_null", "exists"} -> v # None

RECURSIVE Memory(_)
Memory(p) ==
    CASE p.kind = "compare" -> MemoryCompare(p)
      [] p.kind = "not" -> ~Memory(p.operand)
      [] p.kind = "bool" /\ p.op = "and" -> \A i \in 1..Len(p.operands) : Memory(p.operands[i])
      [] p.kind = "bool" /\ p.op = "or" -> \E i \in 1..Len(p.operands) : Memory(p.operands[i])

-----------------------------------------------------------------------------
(* SQL: the compiler, then the evaluation in three-valued logic.              *)

EscapeLikeNothing(v) == v
\* _escape_like
EscapeLike(v) ==
    FoldLeft(LAMBDA acc, c : acc \o (IF c \in {"\\", "%", "_"} THEN <<"\\", c>> ELSE <<c>>),
             <<>>, v)

\* _in_clause
InClause(col, values, negate) ==
    IF values = <<>> THEN [k |-> "const", value |-> IF negate THEN "T" ELSE "F"]
    ELSE [k |-> "in", col |-> col, values |-> Range(values), negate |-> negate]

Like(col, pattern, escape) == [k |-> "like", col |-> col, pattern |-> pattern, escape |-> escape]

\* _comparison
SQLComparison(p) ==
    LET col == p.left.field
        v == p.right.value
    IN  CASE p.op = "eq" /\ v = None -> [k |-> "null", col |-> col, negate |-> FALSE]
          [] p.op = "ne" /\ v = None -> [k |-> "null", col |-> col, negate |-> TRUE]
          [] p.op \in {"eq", "ne"} \cup Orders /\ ~(p.op \in {"eq", "ne"} /\ v = None) ->
                [k |-> "binary", op |-> p.op, col |-> col, value |-> v]
          [] p.op = "in" -> InClause(col, v, FALSE)
          [] p.op = "not_in" -> InClause(col, v, TRUE)
          [] p.op = "contains" -> Like(col, <<"%">> \o EscapeLike(v) \o <<"%">>, "\\")
          [] p.op = "startswith" -> Like(col, EscapeLike(v) \o <<"%">>, "\\")
          [] p.op = "endswith" -> Like(col, <<"%">> \o EscapeLike(v), "\\")
          [] p.op = "like" -> Like(col, v, None)
          [] p.op = "is_null" -> [k |-> "null", col |-> col, negate |-> FALSE]
          [] p.op \in {"is_not_null", "exists"} -> [k |-> "null", col |-> col, negate |-> TRUE]

RECURSIVE SQL(_)
SQL(p) == CASE p.kind = "compare" -> SQLComparison(p)
            [] p.kind = "not" -> [k |-> "not", arg |-> SQL(p.operand)]
            [] p.kind = "bool" ->
                 [k |-> p.op, args |-> [i \in 1..Len(p.operands) |-> SQL(p.operands[i])]]

\* _column refuses a path into a document.
RECURSIVE HasPath(_)
HasPath(p) == CASE p.kind = "compare" -> p.left.path # <<>>
                [] p.kind = "not" -> HasPath(p.operand)
                [] p.kind = "bool" -> \E i \in 1..Len(p.operands) : HasPath(p.operands[i])

\* Truth values "T", "F" and "U", unknown.
Truth(b) == IF b THEN "T" ELSE "F"
NotSQL(x) == CASE x = "T" -> "F" [] x = "F" -> "T" [] OTHER -> "U"
OneOf(xs) == IF "T" \in xs THEN "T" ELSE IF "U" \in xs THEN "U" ELSE "F"
AllOf(xs) == IF "F" \in xs THEN "F" ELSE IF "U" \in xs THEN "U" ELSE "T"

\* The default escape character of LIKE; SQLite's LIKE ignores the case.
DefaultEscape(db) == IF db = "postgres" THEN "\\" ELSE None

RECURSIVE EvalSQL(_, _)
EvalSQL(db, e) ==
    LET v == row[e.col]
    IN  CASE e.k = "const" -> e.value
          [] e.k = "null" -> Truth((v = None) # e.negate)
          [] e.k = "binary" -> IF v = None THEN "U"
                               ELSE Truth(CASE e.op = "eq" -> v = e.value
                                            [] e.op = "ne" -> v # e.value
                                            [] OTHER -> Compares(e.op, v, e.value))
          [] e.k = "in" -> LET found == IF v # None /\ v \in e.values THEN "T"
                                        ELSE IF v = None \/ None \in e.values THEN "U" ELSE "F"
                           IN  IF e.negate THEN NotSQL(found) ELSE found
          [] e.k = "like" -> IF v = None THEN "U"
                             ELSE Truth(MatchesTokens(LikeTokens(e.pattern,
                                    IF e.escape = None THEN DefaultEscape(db) ELSE e.escape), v, db = "sqlite"))
          [] e.k = "not" -> NotSQL(EvalSQL(db, e.arg))
          [] e.k = "and" -> AllOf({EvalSQL(db, e.args[i]) : i \in 1..Len(e.args)})
          [] e.k = "or" -> OneOf({EvalSQL(db, e.args[i]) : i \in 1..Len(e.args)})

-----------------------------------------------------------------------------
(* MongoDB: _predicate and _comparison, then the database's own evaluation.   *)
MongoComparison(p) ==
    LET at == p.left
        v == p.right.value
    IN  CASE p.op \in {"eq", "ne", "in", "not_in"} \cup Orders ->
                [k |-> p.op, at |-> at, value |-> v]
          [] p.op = "contains" -> [k |-> "regex", at |-> at, ts |-> <<AnyMany>> \o Chars(v) \o <<AnyMany>>]
          [] p.op = "startswith" -> [k |-> "regex", at |-> at, ts |-> Chars(v) \o <<AnyMany>>]
          [] p.op = "endswith" -> [k |-> "regex", at |-> at, ts |-> <<AnyMany>> \o Chars(v) \o <<Dollar>>]
          [] p.op = "like" -> [k |-> "regex", at |-> at, ts |-> RegexOfLike(v)]
          [] p.op = "is_null" -> [k |-> "eq", at |-> at, value |-> None]
          [] p.op \in {"is_not_null", "exists"} -> [k |-> "ne", at |-> at, value |-> None]

RECURSIVE Mongo(_)
Mongo(p) == CASE p.kind = "compare" -> MongoComparison(p)
              [] p.kind = "not" -> [k |-> "nor", args |-> <<Mongo(p.operand)>>]
              [] p.kind = "bool" ->
                   [k |-> p.op, args |-> [i \in 1..Len(p.operands) |-> Mongo(p.operands[i])]]

RECURSIVE EvalMongo(_)
EvalMongo(e) ==
    LET v == FieldValue(e.at)
    IN  CASE e.k = "eq" -> v = e.value
          [] e.k = "ne" -> v # e.value
          [] e.k \in Orders -> v # None /\ Compares(e.k, v, e.value)
          [] e.k = "in" -> v \in Range(e.value)
          [] e.k = "not_in" -> v \notin Range(e.value)
          [] e.k = "regex" -> v # None /\ MatchesTokens(e.ts, v, FALSE)
          [] e.k = "and" -> \A i \in 1..Len(e.args) : EvalMongo(e.args[i])
          [] e.k = "or" -> \E i \in 1..Len(e.args) : EvalMongo(e.args[i])
          [] e.k = "nor" -> ~\E i \in 1..Len(e.args) : EvalMongo(e.args[i])

-----------------------------------------------------------------------------
(* AuraDB's native protocol: _translate_predicate, which knows fewer          *)
(* operators, then the server's evaluation.                                   *)
RECURSIVE NativeSupports(_)
NativeSupports(p) ==
    CASE p.kind = "compare" -> p.op \notin {"startswith", "endswith", "like"}
      [] p.kind = "not" -> NativeSupports(p.operand)
      [] p.kind = "bool" -> \A i \in 1..Len(p.operands) : NativeSupports(p.operands[i])

RECURSIVE Native(_)
Native(p) ==
    CASE p.kind = "bool" ->
            [type |-> p.op, args |-> [i \in 1..Len(p.operands) |-> Native(p.operands[i])]]
      [] p.kind = "not" -> [type |-> "not", arg |-> Native(p.operand)]
      [] p.kind = "compare" ->
            LET exists == [type |-> "exists", at |-> p.left]
                compare(op) == [type |-> "compare", op |-> op, at |-> p.left, value |-> p.right.value]
            IN  CASE p.op = "is_null" -> [type |-> "not", arg |-> exists]
                  [] p.op \in {"is_not_null", "exists"} -> exists
                  [] p.op = "contains" ->
                        [type |-> "contains", at |-> p.left, substring |-> p.right.value]
                  [] p.op = "not_in" -> [type |-> "not", arg |-> compare("in")]
                  [] OTHER -> compare(p.op)

RECURSIVE EvalNative(_)
EvalNative(e) ==
    CASE e.type = "and" -> \A i \in 1..Len(e.args) : EvalNative(e.args[i])
      [] e.type = "or" -> \E i \in 1..Len(e.args) : EvalNative(e.args[i])
      [] e.type = "not" -> ~EvalNative(e.arg)
      [] e.type = "exists" -> FieldValue(e.at) # None
      [] e.type = "contains" -> FieldValue(e.at) # None /\ HasSubstring(FieldValue(e.at), e.substring)
      [] e.type = "compare" ->
            LET v == FieldValue(e.at)
            IN  CASE e.op = "eq" -> v = e.value
                  [] e.op = "ne" -> v # e.value
                  [] e.op = "in" -> v \in Range(e.value)
                  [] OTHER -> v # None /\ Compares(e.op, v, e.value)

-----------------------------------------------------------------------------
(* A query and its filters.                                                   *)

\* A list of filters is their conjunction: _matches_all, _where, _filter, _combine.
All(fs) == [kind |-> "bool", op |-> "and", operands |-> fs]
Unbound == \E i \in 1..Len(filters) : HasParam(filters[i])

\* In memory the filters are tried in order until one does not hold, and a
\* parameter is missed only when its filter is tried; the operands of one filter
\* are all evaluated.
UnboundIsTried ==
    \E i \in 1..Len(filters) :
        /\ HasParam(filters[i])
        /\ \A j \in 1..(i - 1) : ~HasParam(filters[j]) /\ Memory(filters[j])

\* What each backend answers: "match", "no match", or that it refuses the query.
Answer(b) == IF b THEN "match" ELSE "no match"
InMemory == IF UnboundIsTried THEN "refused" ELSE Answer(~Unbound /\ Memory(All(filters)))
OnSQL(db) == IF Unbound \/ HasPath(All(filters)) THEN "refused"
             ELSE Answer(filters = <<>> \/ EvalSQL(db, SQL(All(filters))) = "T")
OnMongo == IF Unbound THEN "refused" ELSE Answer(EvalMongo(Mongo(All(filters))))
OnNative == IF Unbound \/ ~NativeSupports(All(filters)) THEN "refused"
            ELSE Answer(EvalNative(Native(All(filters))))

Characters == {"a", "A", "%", "_", "\\", "\n"}
Texts == {<<>>} \cup {<<c>> : c \in Characters} \cup {<<c, e>> : c \in Characters, e \in Characters}
Documents == {None, <<>>, [k |-> 0], [k |-> None]}

Numeric(ref) ==
    {Comparison(op, ref, Literal(v)) : op \in {"eq", "ne"}, v \in {0, None}}
    \cup {Comparison(op, ref, Literal(1)) : op \in Orders}
    \cup {Comparison(op, ref, Literal(v)) : op \in {"in", "not_in"}, v \in {<<>>, <<1>>, <<0, None>>}}
    \cup {Comparison(op, ref, Literal(None)) : op \in NullTests}
    \cup {Comparison("eq", ref, Param)}
Patterns == {Comparison(op, Field("s"), Literal(v)) : op \in PatternOps, v \in Texts}

\* Numbers are tried with every null and combination, strings with every
\* pattern, documents with every way a key can be missing.
Rows ==
    {[n |-> n, s |-> <<"a">>, d |-> None] : n \in {None, 0, 1, 2}}
    \cup {[n |-> 0, s |-> s, d |-> None] : s \in Texts \cup {None}}
    \cup {[n |-> 0, s |-> None, d |-> d] : d \in Documents}

Init == row \in Rows /\ filters = <<>>

\* filter() adds one comparison, on the field the row is there for.
Where ==
    /\ Len(filters) < MaxFilters
    /\ filters # <<>> => Last(filters).kind = "compare"
    /\ \E p \in (IF row.s = <<"a">> THEN Numeric(Field("n")) ELSE {})
                 \cup (IF row.s = None THEN Numeric(Descend(Field("d"), "k")) ELSE {})
                 \cup (IF row.d = None /\ filters = <<>> THEN Patterns ELSE {}) :
         filters' = Append(filters, p)
    /\ UNCHANGED row

\* A filter is built of two by & and |, or negated by ~.
Combine ==
    /\ Len(filters) = 1 /\ filters[1].kind = "compare" /\ filters[1].left.field # "s"
    /\ \E q \in Numeric(Field("n")) :
         filters' \in {<<And(filters[1], q)>>, <<Or(filters[1], Invert(q))>>}
    /\ UNCHANGED row

Negate ==
    /\ Len(filters) = 1 /\ filters[1].kind # "not"
    /\ filters' = <<Invert(filters[1])>>
    /\ UNCHANGED row

Next == Where \/ Combine \/ Negate

Spec == Init /\ [][Next]_vars

-----------------------------------------------------------------------------
(* The same query has the same meaning everywhere, as far as it does.         *)

TypeOK == row \in Rows /\ Len(filters) \in 0..MaxFilters

\* A pattern among the filters, possibly negated, of which cond(pattern) holds.
SomePattern(cond(_)) ==
    \E i \in 1..Len(filters) :
        LET p == IF filters[i].kind = "not" THEN filters[i].operand ELSE filters[i]
        IN  p.kind = "compare" /\ p.op \in PatternOps /\ cond(p)

\* MongoDB and AuraDB match exactly the rows the in-memory engine matches, or
\* refuse the query, except that endswith() on MongoDB takes a newline at the end
\* of the text for no part of it.  A query with an unbound parameter is refused,
\* or matches nothing in memory where no row gets as far as the parameter.
EndsBeforeNewline ==
    SomePattern(LAMBDA p : p.op = "endswith" /\ row.s \notin {None, <<>>} /\ Last(row.s) = "\n")
DocumentStoresAgree ==
    IF Unbound THEN OnMongo = "refused" /\ OnNative = "refused" /\ InMemory # "match"
    ELSE /\ OnMongo = InMemory \/ EndsBeforeNewline
         /\ OnNative \in {InMemory, "refused"}

\* Patterns over which SQL and the in-memory engine differ: letters of both cases
\* on SQLite, a backslash in like() on PostgreSQL, and like() on a text with a
\* newline, which the "." of a regular expression does not match and its "$"
\* passes over.
Differs(db) ==
    SomePattern(LAMBDA p :
        \/ /\ db = "sqlite" /\ row.s # None
           /\ {"a", "A"} \subseteq Range(p.right.value) \cup Range(row.s)
        \/ db = "postgres" /\ p.op = "like" /\ "\\" \in Range(p.right.value)
        \/ p.op = "like" /\ row.s # None /\ "\n" \in Range(row.s))

\* SQL never contradicts the in-memory engine: what it finds true is true there
\* and what it finds false is false.  Only what it finds unknown, a comparison
\* with a null, may match in memory and not in SQL.
SQLNeverContradicts ==
    \A db \in {"sqlite", "postgres"} :
        OnSQL(db) # "refused" /\ filters # <<>> /\ ~Differs(db) =>
            /\ EvalSQL(db, SQL(All(filters))) = "T" => InMemory = "match"
            /\ EvalSQL(db, SQL(All(filters))) = "F" => InMemory = "no match"

\* Without a null in the row or the query, SQL agrees with the in-memory engine.
HasNull(p) == p.kind = "compare" /\ (p.right.value = None \/ (p.op \in {"in", "not_in"} /\ None \in Range(p.right.value)))
SQLAgreesWithoutNulls ==
    \A db \in {"sqlite", "postgres"} :
        /\ OnSQL(db) # "refused" /\ ~Differs(db) /\ row.n # None /\ row.s # None
        /\ \A i \in 1..Len(filters) : filters[i].kind = "compare" /\ ~HasNull(filters[i])
        => OnSQL(db) = InMemory

FiltersMeanTheSame == DocumentStoresAgree /\ SQLNeverContradicts /\ SQLAgreesWithoutNulls
=============================================================================

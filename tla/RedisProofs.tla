----------------------------- MODULE RedisProofs -----------------------------
(* Proofs about module RedisStore for any set of keys and any number of       *)
(* concurrent callers: under which key a document is stored, what an insert,  *)
(* an update and an upsert replace, and which rows a scan delivers.           *)
EXTENDS RedisStore, TLAPS, SequenceTheorems

-----------------------------------------------------------------------------
(* The inductive invariant.                                                   *)

TaskFields == {"pc", "op", "i", "key", "read", "out", "left", "steady", "again", "hits", "result"}

\* What the update and upsert promise, of one SET and what came before.
KeepsOtherFields(h) ==
    h.op.op \in {"update", "upsert"} /\ h.there # None /\ h.there = h.read
        => \A f \in Fields :
             h.wrote[f] # h.there[f] =>
                f \in DOMAIN (IF h.op.op = "update" THEN h.op.set ELSE h.op.values)

\* What holds of the record of a call wherever it is.
Common(tk) ==
    /\ DOMAIN tk = TaskFields
    /\ tk.i \in Nat \ {0}
    /\ tk.read \in Documents \cup {None}
    /\ tk.out \in Seq(Documents)
    /\ tk.left \subseteq Keys
    /\ tk.steady \subseteq Keys
    /\ \A h \in tk.hits : KeepsOtherFields(h)

Named(rows, k) == \E i \in 1 .. Len(rows) : rows[i]["id"] = k

\* The calls that deliver all the rows of a scan, in full.
ScansAll(op) ==
    /\ op \in Queries /\ op.filters = <<>> /\ op.op \in {"select", "stream"}
    /\ op.op = "stream" \/ <<op.offset, op.limit>> = <<0, None>>

\* Between EXISTS and SET, the key is that of the current row; a SET that is not
\* to replace follows an EXISTS that found nothing.
Inserting(tk) ==
    /\ tk.pc \in {"exists", "set"}
    /\ tk.op \in Inserts /\ tk.i \in 1 .. Len(tk.op.rows)
    /\ tk.key \in Keys /\ tk.key = Normalize(tk.op.rows[tk.i])["id"]
    /\ tk.pc = "set" /\ tk.op.on_conflict # "replace" => tk.read = None

\* An upsert that was not refused names a primary key, which is that of the row
\* it reads.
Upserted(op) == Patched(Normalize(op.key), Normalize(op.values))
Keyed(op) == op \in UpsertCalls /\ "id" \in DOMAIN Upserted(op)
ReadsItsKey(tk) == Keyed(tk.op) => tk.key = Upserted(tk.op)["id"]

Looking(tk) ==
    /\ tk.pc = "get" /\ tk.key \in Keys /\ ReadsItsKey(tk)
    /\ \/ tk.op \in Queries /\ tk.op.filters # <<>>
       \/ tk.op \in Updates
       \/ Keyed(tk.op)

\* Between GET and SET, the call holds the document it read.
Writing(tk) ==
    /\ tk.pc = "put" /\ tk.key \in Keys /\ ReadsItsKey(tk)
    /\ (tk.op \in Updates /\ tk.read # None) \/ Keyed(tk.op)
    /\ tk.read # None => tk.read["id"] = tk.key

Deleting(tk) == tk.pc = "del" /\ tk.key \in Keys /\ tk.op \in Deletes

\* A row stored since the scan began is yet to be named, just named, or out.
Scanning(tk) ==
    /\ tk.pc \in {"scan", "fetch"}
    /\ tk.op \in Queries \cup {Drop} /\ tk.op.filters = <<>>
    /\ tk.pc = "fetch" => tk.key \in Keys
    /\ tk.op # Drop => \A k \in tk.steady :
                          k \in tk.left \/ (tk.pc = "fetch" /\ tk.key = k) \/ Named(tk.out, k)

Finished(tk) ==
    /\ tk.pc = "done"
    /\ ScansAll(tk.op) => /\ tk.result.rows \in Seq(Documents)
                          /\ \A k \in tk.steady : Named(tk.result.rows, k)

Phase(tk) ==
    \/ (tk.pc = "new" /\ tk.out = <<>>) \/ Inserting(tk) \/ Looking(tk) \/ Writing(tk)
    \/ Deleting(tk) \/ Scanning(tk) \/ Finished(tk)

Call(tk) == Common(tk) /\ Phase(tk)

\* What a scan takes for stored all along is stored.
SteadyIsStored(tk, s) == tk.pc \in {"scan", "fetch"} => \A k \in tk.steady : s[k] # None

RedisInv ==
    /\ store \in [Keys -> Documents \cup {None}]
    /\ RowsUnderOwnKey
    /\ DOMAIN task = Tasks
    /\ \A t \in Tasks : Call(task[t]) /\ SteadyIsStored(task[t], store)

-----------------------------------------------------------------------------
(* Documents and the calls.                                                   *)

LEMMA RowNormalizes ==
    ASSUME NEW k, NEW x \in {0, 1}, NEW y \in {0, 1}, NEW link \in {Object(y), Scalar(y)}
    PROVE  /\ Normalize(Raw(k, x, link))["id"] = k
           /\ k \in Keys => Normalize(Raw(k, x, link)) \in Documents
<1> DEFINE raw == Raw(k, x, link)
<1>1. link.pk = y
    BY DEF Object, Scalar
<1>2. /\ DOMAIN raw = {"id", "a", "b", "posts"}
      /\ raw["id"] = k /\ raw["a"] = x /\ raw["b"] = link
    BY DEF Raw
<1> HIDE DEF raw
<1>3. Normalize(raw) = [f \in {"id", "a", "b"} |-> IF f = "b" THEN raw[f].pk ELSE raw[f]]
    BY <1>2 DEF Normalize
<1>4. Normalize(raw)["id"] = k /\ Normalize(raw)["a"] = x /\ Normalize(raw)["b"] = y
    BY <1>1, <1>2, <1>3
<1>5. k \in Keys => Normalize(raw) \in Documents
    BY <1>3, <1>4 DEF Documents, Fields
<1> QED BY <1>4, <1>5 DEF raw

LEMMA InsertRows ==
    ASSUME NEW op \in Inserts
    PROVE  /\ op.op = "insert"
           /\ Len(op.rows) \in Nat
           /\ \A i \in 1 .. Len(op.rows) :
                 LET row == Normalize(op.rows[i])
                 IN  row["id"] = None \/ (row["id"] \in Keys /\ row \in Documents)
<1> DEFINE Fine(raw) == LET row == Normalize(raw)
                        IN  row["id"] = None \/ (row["id"] \in Keys /\ row \in Documents)
<1>1. PICK raw1, raw2 : op.op = "insert" /\ op.rows = <<raw1, raw2>> /\ Fine(raw1) /\ Fine(raw2)
  <2>1. \A k \in Keys \cup {None}, x \in {0, 1}, y \in {0, 1} :
            Fine(Raw(k, x, Object(y))) /\ Fine(Raw(k, x, Scalar(y)))
      BY RowNormalizes
  <2> HIDE DEF Fine
  <2>2. op.op = "insert"
      BY DEF Inserts
  <2>3. CASE \E k \in Keys, j \in Keys : op.rows = <<Raw(k, 1, Object(1)), Raw(j, 1, Scalar(0))>>
      BY <2>1, <2>2, <2>3
  <2>4. CASE \E k \in Keys : op.rows = <<Raw(k, 0, Scalar(1)), Raw(None, 0, Scalar(0))>>
      BY <2>1, <2>2, <2>4
  <2> QED BY <2>3, <2>4 DEF Inserts
<1>2. Len(op.rows) = 2 /\ op.rows[1] = raw1 /\ op.rows[2] = raw2
    BY <1>1
<1> HIDE DEF Fine
<1>3. \A i \in 1 .. Len(op.rows) : Fine(op.rows[i])
    BY <1>1, <1>2
<1> QED BY <1>1, <1>2, <1>3 DEF Fine

\* What a document may be patched with.
Patches == {[a |-> 1], [b |-> Object(1)]} \cup {[id |-> k] : k \in Keys} \cup {[id |-> k, a |-> 1] : k \in Keys}

\* A patch brings values for some fields.
Patching(patch, n) ==
    /\ DOMAIN n = DOMAIN patch /\ DOMAIN patch \subseteq Fields
    /\ \A f \in DOMAIN patch : n[f] \in Keys \cup {0, 1}
    /\ "id" \in DOMAIN patch => n["id"] = patch["id"] /\ n["id"] \in Keys

LEMMA PatchNormalizes ==
    ASSUME NEW patch \in Patches
    PROVE  Patching(patch, Normalize(patch))
<1>1. CASE patch = [a |-> 1]
  <2>1. Normalize(patch) = [f \in {"a"} |-> 1] /\ DOMAIN patch = {"a"}
      BY <1>1 DEF Normalize
  <2> QED BY <2>1 DEF Patching, Fields
<1>2. CASE patch = [b |-> Object(1)]
  <2>1. Object(1).pk = 1
      BY DEF Object
  <2>2. Normalize(patch) = [f \in {"b"} |-> 1] /\ DOMAIN patch = {"b"}
      BY <1>2, <2>1 DEF Normalize
  <2> QED BY <2>2 DEF Patching, Fields
<1>3. CASE \E k \in Keys : patch = [id |-> k]
  <2>1. PICK k \in Keys : patch = [id |-> k]
      BY <1>3
  <2>2. Normalize(patch) = [f \in {"id"} |-> k] /\ DOMAIN patch = {"id"} /\ patch["id"] = k
      BY <2>1 DEF Normalize
  <2> QED BY <2>2 DEF Patching, Fields
<1>4. CASE \E k \in Keys : patch = [id |-> k, a |-> 1]
  <2>1. PICK k \in Keys : patch = [id |-> k, a |-> 1]
      BY <1>4
  <2>2. DOMAIN patch = {"id", "a"} /\ patch["id"] = k /\ patch["a"] = 1
      BY <2>1
  <2>3. Normalize(patch) = [f \in {"id", "a"} |-> IF f = "a" THEN 1 ELSE k]
      BY <2>2 DEF Normalize
  <2> QED BY <2>2, <2>3 DEF Patching, Fields
<1> QED BY <1>1, <1>2, <1>3, <1>4 DEF Patches

LEMMA PatchKeeps ==
    ASSUME NEW patch \in Patches, NEW doc \in Documents, doc["id"] \in Keys
    PROVE  LET new == Patched(doc, Normalize(patch))
           IN  /\ new \in Documents /\ new["id"] \in Keys
               /\ new["id"] = IF "id" \in DOMAIN patch THEN patch["id"] ELSE doc["id"]
               /\ \A f \in Fields : new[f] # doc[f] => f \in DOMAIN patch
<1> DEFINE n == Normalize(patch)
           new == Patched(doc, n)
<1>1. Patching(patch, n)
    BY PatchNormalizes
<1> HIDE DEF n
<1>2. DOMAIN doc = Fields /\ \A f \in Fields : doc[f] \in Keys \cup {0, 1}
    BY DEF Documents
<1>3. new = [f \in Fields |-> IF f \in DOMAIN patch THEN n[f] ELSE doc[f]]
    BY <1>1, <1>2 DEF Patched, Patching
<1> HIDE DEF new
<1>4. new \in Documents
    BY <1>1, <1>2, <1>3 DEF Documents, Patching
<1>5. new["id"] \in Keys /\ new["id"] = IF "id" \in DOMAIN patch THEN patch["id"] ELSE doc["id"]
    BY <1>1, <1>3 DEF Fields, Patching
<1>6. \A f \in Fields : new[f] # doc[f] => f \in DOMAIN patch
    BY <1>1, <1>3
<1> QED BY <1>4, <1>5, <1>6 DEF new, n

LEMMA UpsertDocument ==
    ASSUME NEW op \in UpsertCalls
    PROVE  LET merged == Upserted(op)
           IN  /\ op.op = "upsert" /\ op.values \in Patches
               /\ "id" \in DOMAIN merged =>
                    /\ merged \in Documents /\ merged["id"] \in Keys
                    /\ "id" \in DOMAIN op.values => op.values["id"] = merged["id"]
<1> DEFINE n == Normalize(op.values)
           merged == Upserted(op)
<1>1. /\ op.op = "upsert"
      /\ op.values = [a |-> 1] \/ \E k \in Keys : op.values = [id |-> k, a |-> 1]
      /\ op.key = [b |-> Scalar(0)] \/ \E k \in Keys : op.key = [id |-> k, b |-> Scalar(0)]
    BY DEF UpsertCalls
<1>2. op.values \in Patches
    BY <1>1 DEF Patches
<1>3. Patching(op.values, n) /\ DOMAIN op.values \subseteq {"id", "a"} /\ "a" \in DOMAIN op.values
    BY <1>1, <1>2, PatchNormalizes
<1>4. Scalar(0).pk = 0
    BY DEF Scalar
<1> HIDE DEF n
<1>5. CASE op.key = [b |-> Scalar(0)]
  <2>1. Normalize(op.key) = [f \in {"b"} |-> 0]
      BY <1>4, <1>5 DEF Normalize
  <2>2. merged = [f \in {"b"} \cup DOMAIN op.values |-> IF f \in DOMAIN op.values THEN n[f] ELSE 0]
      BY <1>3, <2>1 DEF Patched, Patching, Upserted, n
  <2> HIDE DEF merged
  <2>3. ASSUME "id" \in DOMAIN merged
        PROVE  merged \in Documents /\ merged["id"] \in Keys /\ op.values["id"] = merged["id"]
      BY <1>3, <2>2, <2>3 DEF Documents, Fields, Patching
  <2> QED BY <1>1, <1>2, <2>3 DEF merged
<1>6. CASE \E k \in Keys : op.key = [id |-> k, b |-> Scalar(0)]
  <2>1. PICK k \in Keys : op.key = [id |-> k, b |-> Scalar(0)]
      BY <1>6
  <2>2. DOMAIN op.key = {"id", "b"} /\ op.key["id"] = k /\ op.key["b"] = Scalar(0)
      BY <2>1
  <2>3. Normalize(op.key) = [f \in {"id", "b"} |-> IF f = "b" THEN 0 ELSE k]
      BY <1>4, <2>2 DEF Normalize
  <2>4. merged = [f \in Fields |-> IF f \in DOMAIN op.values THEN n[f] ELSE IF f = "b" THEN 0 ELSE k]
      BY <1>3, <2>3 DEF Patched, Fields, Patching, Upserted, n
  <2> HIDE DEF merged
  <2>5. merged \in Documents /\ merged["id"] \in Keys
        /\ ("id" \in DOMAIN op.values => op.values["id"] = merged["id"])
      BY <1>3, <2>4 DEF Documents, Fields, Patching
  <2> QED BY <1>1, <1>2, <2>5 DEF merged
<1> QED BY <1>1, <1>5, <1>6

LEMMA UpdateCall ==
    ASSUME NoneIsNoValue, NEW op \in Updates
    PROVE  /\ op.op = "update" /\ op.set \in Patches
           /\ PkFilter(op.filters) # None => PkFilter(op.filters) \in Keys
BY DEF Updates, Patches, PkFilter, Is, NoneIsNoValue

LEMMA DeleteCall ==
    ASSUME NoneIsNoValue, NEW op \in Deletes
    PROVE  op.op = "delete" /\ PkFilter(op.filters) \in Keys
BY DEF Deletes, PkFilter, Is

LEMMA QueryCall ==
    ASSUME NoneIsNoValue, NEW op \in Queries \cup {Drop}
    PROVE  /\ op \in Queries => op.op \in {"select", "count", "exists", "stream"}
           /\ op = Drop => op.op = "drop"
           /\ PkFilter(op.filters) # None => /\ PkFilter(op.filters) \in Keys
                                             /\ op.filters # <<>> /\ op \in Queries
<1>1. CASE op = Drop
  <2>1. op.op = "drop" /\ op.filters = <<>>
      BY <1>1 DEF Drop
  <2>2. op \notin Queries
      BY <2>1 DEF Queries, Reads
  <2>3. PkFilter(op.filters) = None
      BY <2>1 DEF PkFilter
  <2> QED BY <1>1, <2>1, <2>2, <2>3
<1>2. CASE op \in Queries
  <2>1. op.op \in {"select", "count", "exists", "stream"}
      BY <1>2 DEF Queries, Reads
  <2>2. op # Drop
      BY <2>1 DEF Drop
  <2>3. op.filters = <<>> \/ (\E k \in Keys : op.filters = Is(k))
        \/ op.filters = <<[op |-> "gt", field |-> "a", value |-> 0]>>
      BY <1>2 DEF Queries
  <2>4. CASE op.filters = <<>>
      BY <1>2, <2>1, <2>2, <2>4 DEF PkFilter
  <2>5. CASE \E k \in Keys : op.filters = Is(k)
    <3>1. PICK k \in Keys : op.filters = Is(k)
        BY <2>5
    <3>2. PkFilter(op.filters) = k /\ op.filters # <<>>
        BY <3>1 DEF PkFilter, Is
    <3> QED BY <1>2, <2>1, <2>2, <3>2
  <2>6. CASE op.filters = <<[op |-> "gt", field |-> "a", value |-> 0]>>
    <3>1. PkFilter(op.filters) = None
        BY <2>6 DEF PkFilter
    <3> QED BY <1>2, <2>1, <2>2, <3>1
  <2> QED BY <2>3, <2>4, <2>5, <2>6
<1> QED BY <1>1, <1>2

-----------------------------------------------------------------------------
(* Steps of one call.                                                         *)

LEMMA WritesScanNothing ==
    ASSUME NoneIsNoValue, NEW op \in Inserts \cup UpsertCalls \cup Updates \cup Deletes \cup {Drop}
    PROVE  ~ScansAll(op)
<1>1. op.op \in {"insert", "upsert", "update", "delete", "drop"}
    BY InsertRows, UpsertDocument, UpdateCall, DeleteCall, QueryCall
<1> QED BY <1>1 DEF ScansAll

LEMMA EndsIsCall ==
    ASSUME NEW tk, Common(tk), NEW result,
           ScansAll(tk.op) => /\ result.rows \in Seq(Documents)
                              /\ \A k \in tk.steady : Named(result.rows, k)
    PROVE  /\ Call(Ends(tk, result)) /\ Ends(tk, result).pc = "done"
           /\ Ends(tk, result).hits = tk.hits /\ Ends(tk, result).op = tk.op
<1> DEFINE new == Ends(tk, result)
<1>1. /\ DOMAIN new = TaskFields
      /\ new.pc = "done" /\ new.result = result /\ new.op = tk.op
      /\ new.i = tk.i /\ new.read = tk.read /\ new.out = tk.out /\ new.left = tk.left
      /\ new.steady = tk.steady /\ new.hits = tk.hits
    BY DEF Common, TaskFields, Ends
<1> HIDE DEF new
<1>2. Common(new)
    BY <1>1 DEF Common
<1>3. Finished(new)
    BY <1>1 DEF Finished
<1> QED BY <1>1, <1>2, <1>3 DEF Call, Phase, new

LEMMA NextRowIsCall ==
    ASSUME NoneIsNoValue, NEW tk, Common(tk), tk.op \in Inserts
    PROVE  /\ Call(NextRow(tk)) /\ NextRow(tk).pc \in {"exists", "done"}
           /\ NextRow(tk).hits = tk.hits
<1>0. ~ScansAll(tk.op)
    BY WritesScanNothing
<1>1. CASE tk.i > Len(tk.op.rows)
    BY <1>0, <1>1, EndsIsCall DEF NextRow
<1>2. CASE ~(tk.i > Len(tk.op.rows))
  <2> DEFINE pk == Normalize(tk.op.rows[tk.i])["id"]
  <2>1. tk.i \in 1 .. Len(tk.op.rows)
      BY <1>2, InsertRows DEF Common
  <2>2. pk = None \/ pk \in Keys
      BY <2>1, InsertRows
  <2>3. CASE pk = None
    <3>1. NextRow(tk) = Raises(tk, "constraint")
        BY <1>2, <2>3 DEF NextRow
    <3> QED BY <1>0, <3>1, EndsIsCall DEF Raises
  <2>4. CASE pk # None
    <3> DEFINE new == [tk EXCEPT !.pc = "exists", !.key = pk]
    <3>1. NextRow(tk) = new
        BY <1>2, <2>4 DEF NextRow
    <3> HIDE DEF pk
    <3>2. /\ DOMAIN new = TaskFields
          /\ new.pc = "exists" /\ new.key = pk /\ new.result = tk.result /\ new.op = tk.op
          /\ new.i = tk.i /\ new.read = tk.read /\ new.out = tk.out /\ new.left = tk.left
          /\ new.steady = tk.steady /\ new.hits = tk.hits
        BY DEF Common, TaskFields
    <3> HIDE DEF new
    <3>3. Common(new)
        BY <3>2 DEF Common
    <3>4. Inserting(new)
        BY <2>1, <2>2, <2>4, <3>2 DEF Inserting, pk
    <3> QED BY <3>1, <3>2, <3>3, <3>4 DEF Call, Phase
  <2> QED BY <2>3, <2>4
<1> QED BY <1>1, <1>2

LEMMA HitIsCall ==
    ASSUME NEW tk, Call(tk), tk.pc \in {"exists", "done"},
           NEW h, KeepsOtherFields(h)
    PROVE  LET new == [tk EXCEPT !.hits = @ \cup {h}]
           IN  Call(new) /\ new.pc \in {"exists", "done"}
<1> DEFINE new == [tk EXCEPT !.hits = @ \cup {h}]
<1>1. /\ DOMAIN new = TaskFields
      /\ new.pc = tk.pc /\ new.key = tk.key /\ new.result = tk.result /\ new.op = tk.op
      /\ new.i = tk.i /\ new.read = tk.read /\ new.out = tk.out /\ new.left = tk.left
      /\ new.steady = tk.steady /\ new.hits = tk.hits \cup {h}
    BY DEF Call, Common, TaskFields
<1> HIDE DEF new
<1>2. Common(new)
    BY <1>1 DEF Call, Common
<1>3. Inserting(tk) => Inserting(new)
    BY <1>1 DEF Inserting
<1>4. Finished(tk) => Finished(new)
    BY <1>1 DEF Finished
<1>5. Inserting(tk) \/ Finished(tk)
    BY DEF Call, Phase, Looking, Writing, Deleting, Scanning
<1> QED BY <1>1, <1>2, <1>3, <1>4, <1>5 DEF Call, Phase, new

LEMMA AnswersIsCall ==
    ASSUME NoneIsNoValue, NEW tk, Common(tk), tk.op \in Queries \cup {Drop}, NEW docs \in Seq(Documents),
           tk.pc = "get" => tk.op.filters # <<>>,
           tk.op # Drop /\ tk.op.filters = <<>> => \A k \in tk.steady : Named(docs, k)
    PROVE  Call(Answers(tk, docs)) /\ Answers(tk, docs).pc = "done"
<1>1. CASE tk.op.op = "count"
  <2>1. ~ScansAll(tk.op)
      BY <1>1 DEF ScansAll
  <2> QED BY <1>1, <2>1, EndsIsCall DEF Answers
<1>2. CASE tk.op.op = "exists"
  <2>1. ~ScansAll(tk.op)
      BY <1>2 DEF ScansAll
  <2>2. Answers(tk, docs) = Ends(tk, [count |-> IF docs = <<>> THEN 0 ELSE 1])
      BY <1>2 DEF Answers
  <2> QED BY <2>1, <2>2, EndsIsCall
<1>3. CASE tk.op.op = "drop"
  <2>1. ~ScansAll(tk.op)
      BY <1>3 DEF ScansAll
  <2> QED BY <1>3, <2>1, EndsIsCall DEF Answers
<1>4. ASSUME ScansAll(tk.op)
      PROVE  /\ tk.op # Drop /\ tk.op.filters = <<>> /\ tk.pc # "get"
             /\ \A k \in tk.steady : Named(docs, k)
    BY <1>4, QueryCall DEF ScansAll
<1>5. CASE tk.op.op = "select"
  <2> DEFINE rows == Paginate(docs, tk.op)
  <2>1. Answers(tk, docs) = Ends(tk, [rows |-> rows])
      BY <1>5 DEF Answers
  <2>2. ASSUME ScansAll(tk.op) PROVE rows = docs
    <3>1. tk.op.offset = 0 /\ tk.op.limit = None
        BY <1>5, <2>2 DEF ScansAll
    <3>2. SubSeq(docs, 1, Len(docs)) = docs
        BY SubSeqFull
    <3> QED BY <3>1, <3>2 DEF Paginate
  <2> HIDE DEF rows
  <2>3. [rows |-> rows].rows = rows
      OBVIOUS
  <2> QED BY <1>4, <2>1, <2>2, <2>3, EndsIsCall
<1>6. CASE tk.op.op = "stream" /\ tk.pc = "get"
  <2>1. ~ScansAll(tk.op)
      BY <1>4, <1>6
  <2>2. Answers(tk, docs) = Ends(tk, [rows |-> Paginate(docs, tk.op)])
      BY <1>6 DEF Answers
  <2> QED BY <2>1, <2>2, EndsIsCall
<1>7. CASE tk.op.op = "stream" /\ tk.pc # "get"
  <2>1. Answers(tk, docs) = Ends(tk, [rows |-> docs])
      BY <1>7 DEF Answers
  <2>2. [rows |-> docs].rows = docs
      OBVIOUS
  <2> QED BY <1>4, <2>1, <2>2, EndsIsCall
<1> QED BY <1>1, <1>2, <1>3, <1>5, <1>6, <1>7, QueryCall

LEMMA OpIsCommon ==
    ASSUME NEW tk, Common(tk), NEW op
    PROVE  LET new == [tk EXCEPT !.op = op]
           IN  Common(new) /\ new.op = op /\ new.hits = tk.hits
<1> DEFINE new == [tk EXCEPT !.op = op]
<1>1. /\ DOMAIN new = TaskFields /\ new.op = op
      /\ new.i = tk.i /\ new.read = tk.read /\ new.out = tk.out /\ new.left = tk.left
      /\ new.steady = tk.steady /\ new.hits = tk.hits
    BY DEF Common, TaskFields
<1> QED BY <1>1 DEF Common

\* A call that begins operation op with its first command, on key k.
Goes(tk, op, p, k) == [tk EXCEPT !.op = op, !.pc = p, !.key = k]

LEMMA GoesIsCommon ==
    ASSUME NEW tk, Common(tk), NEW op, NEW p, NEW k
    PROVE  /\ Common(Goes(tk, op, p, k)) /\ Goes(tk, op, p, k).op = op
           /\ Goes(tk, op, p, k).pc = p /\ Goes(tk, op, p, k).key = k
<1> DEFINE go == Goes(tk, op, p, k)
<1>1. /\ DOMAIN go = TaskFields /\ go.op = op /\ go.pc = p /\ go.key = k
      /\ go.i = tk.i /\ go.read = tk.read /\ go.out = tk.out /\ go.left = tk.left
      /\ go.steady = tk.steady /\ go.hits = tk.hits
    BY DEF Common, TaskFields, Goes
<1> HIDE DEF go
<1>2. Common(go)
    BY <1>1 DEF Common
<1> QED BY <1>1, <1>2 DEF go

LEMMA StartMutationIsCall ==
    ASSUME NoneIsNoValue, NEW tk, Common(tk),
           NEW op \in Inserts \cup UpsertCalls \cup Updates \cup Deletes
    PROVE  Call(StartMutation(tk, op)) /\ StartMutation(tk, op).pc \notin {"scan", "fetch"}
<1> DEFINE new == [tk EXCEPT !.op = op]
           merged == Upserted(op)
<1>1. Common(new) /\ new.op = op
    BY OpIsCommon
<1>2. ~ScansAll(op)
    BY WritesScanNothing
<1>3. Call(Raises(new, "capability")) /\ Raises(new, "capability").pc = "done"
    BY <1>1, <1>2, EndsIsCall DEF Raises
<1>4. Call(Raises(new, "constraint")) /\ Raises(new, "constraint").pc = "done"
    BY <1>1, <1>2, EndsIsCall DEF Raises
<1>5. CASE op \in Inserts
  <2>1. StartMutation(tk, op) = NextRow(new)
      BY <1>5, InsertRows DEF StartMutation
  <2> QED BY <1>1, <1>5, <2>1, NextRowIsCall
<1>6. CASE op \in UpsertCalls
  <2>1. op.op = "upsert"
      BY <1>6, UpsertDocument
  <2>2. CASE "id" \notin DOMAIN merged
    <3>1. StartMutation(tk, op) = Raises(new, "constraint")
        BY <2>1, <2>2 DEF StartMutation, Upserted
    <3> QED BY <1>4, <3>1
  <2>3. CASE "id" \in DOMAIN merged
    <3>1. merged["id"] \in Keys /\ Keyed(op)
        BY <1>6, <2>3, UpsertDocument DEF Keyed
    <3>2. StartMutation(tk, op) = Goes(tk, op, "get", merged["id"])
        BY <2>1, <2>3 DEF StartMutation, Goes, Upserted
    <3> DEFINE go == Goes(tk, op, "get", merged["id"])
    <3>3. Common(go) /\ go.op = op /\ go.pc = "get" /\ go.key = merged["id"]
        BY GoesIsCommon
    <3> HIDE DEF go
    <3>4. Looking(go)
        BY <3>1, <3>3 DEF Looking, ReadsItsKey
    <3> QED BY <3>2, <3>3, <3>4 DEF Call, Phase, go
  <2> QED BY <2>2, <2>3
<1>7. CASE op \in Updates \cup Deletes
  <2> DEFINE pk == PkFilter(op.filters)
  <2>1. op.op = (IF op \in Updates THEN "update" ELSE "delete")
      BY <1>7, UpdateCall, DeleteCall
  <2>2. CASE pk = None
    <3>1. StartMutation(tk, op) = Raises(new, "capability")
        BY <2>1, <2>2 DEF StartMutation
    <3> QED BY <1>3, <3>1
  <2>3. CASE pk # None
    <3> DEFINE p == IF op.op = "delete" THEN "del" ELSE "get"
    <3>1. pk \in Keys
        BY <1>7, <2>3, UpdateCall, DeleteCall
    <3>2. StartMutation(tk, op) = [tk EXCEPT !.op = op, !.key = pk, !.pc = p]
        BY <2>1, <2>3 DEF StartMutation, Goes
    <3>3. [tk EXCEPT !.op = op, !.key = pk, !.pc = p] = Goes(tk, op, p, pk)
        BY DEF Goes
    <3>4. (p = "get" /\ op \in Updates) \/ (p = "del" /\ op \in Deletes)
        BY <1>7, <2>1
    <3> DEFINE go == Goes(tk, op, p, pk)
    <3>5. Common(go) /\ go.op = op /\ go.pc = p /\ go.key = pk
        BY GoesIsCommon
    <3>6. ~Keyed(op)
        BY <2>1, UpsertDocument DEF Keyed
    <3> HIDE DEF p, pk, go
    <3>7. Looking(go) \/ Deleting(go)
        BY <3>1, <3>4, <3>5, <3>6 DEF Looking, Deleting, ReadsItsKey
    <3> QED BY <3>2, <3>3, <3>4, <3>5, <3>7 DEF Call, Phase, go
  <2> QED BY <2>2, <2>3
<1> QED BY <1>5, <1>6, <1>7

LEMMA StartQueryIsCall ==
    ASSUME NoneIsNoValue, NEW tk, Common(tk), tk.out = <<>>, NEW op \in Queries \cup {Drop}
    PROVE  Call(StartQuery(tk, op)) /\ SteadyIsStored(StartQuery(tk, op), store)
<1> DEFINE pk == PkFilter(op.filters)
           new == [tk EXCEPT !.op = op]
<1>1. CASE pk # None
  <2> DEFINE go == Goes(tk, op, "get", pk)
  <2>1. StartQuery(tk, op) = go
      BY <1>1 DEF StartQuery, Goes
  <2>2. pk \in Keys /\ op.filters # <<>> /\ op \in Queries
      BY <1>1, QueryCall
  <2> HIDE DEF pk
  <2>3. Common(go) /\ go.op = op /\ go.pc = "get" /\ go.key = pk
      BY GoesIsCommon
  <2> HIDE DEF go
  <2>4. ~Keyed(op)
      BY <2>2, QueryCall, UpsertDocument DEF Keyed
  <2>5. Looking(go)
      BY <2>2, <2>3, <2>4 DEF Looking, ReadsItsKey
  <2>6. SteadyIsStored(go, store)
      BY <2>3 DEF SteadyIsStored
  <2> QED BY <2>1, <2>3, <2>5, <2>6 DEF Call, Phase
<1>2. CASE pk = None /\ op.filters = <<>>
  <2> DEFINE all == {k \in Keys : store[k] # None}
             go == [tk EXCEPT !.op = op, !.pc = "scan", !.left = Keys, !.steady = all]
  <2>1. StartQuery(tk, op) = go
      BY <1>2 DEF StartQuery
  <2>2. all \subseteq Keys
      OBVIOUS
  <2> HIDE DEF all
  <2>3. /\ DOMAIN go = TaskFields /\ go.op = op /\ go.pc = "scan"
        /\ go.i = tk.i /\ go.read = tk.read /\ go.out = tk.out /\ go.left = Keys
        /\ go.steady = all /\ go.hits = tk.hits
      BY DEF Common, TaskFields
  <2> HIDE DEF go
  <2>4. Common(go)
      BY <2>2, <2>3 DEF Common
  <2>5. Scanning(go)
      BY <1>2, <2>2, <2>3 DEF Scanning
  <2>6. SteadyIsStored(go, store)
      BY <2>3 DEF SteadyIsStored, all
  <2> QED BY <2>1, <2>4, <2>5, <2>6 DEF Call, Phase
<1>3. CASE pk = None /\ op.filters # <<>>
  <2>1. StartQuery(tk, op) = Raises(new, "capability")
      BY <1>3 DEF StartQuery
  <2>2. Common(new) /\ new.op = op
      BY OpIsCommon
  <2>3. ~ScansAll(new.op)
      BY <1>3, <2>2 DEF ScansAll
  <2>4. Call(Raises(new, "capability")) /\ Raises(new, "capability").pc = "done"
      BY <2>2, <2>3, EndsIsCall DEF Raises
  <2> QED BY <2>1, <2>4 DEF SteadyIsStored
<1> QED BY <1>1, <1>2, <1>3

-----------------------------------------------------------------------------
(* Steps of the store.                                                        *)

\* One call moves, the store rests.
LEMMA CallMoves ==
    ASSUME RedisInv, NEW t \in Tasks, NEW tk, Call(tk), SteadyIsStored(tk, store),
           task' = [task EXCEPT ![t] = tk], UNCHANGED store
    PROVE  RedisInv'
<1>1. DOMAIN task' = Tasks /\ \A s \in Tasks : task'[s] = IF s = t THEN tk ELSE task[s]
    BY DEF RedisInv
<1>2. \A s \in Tasks : Call(task'[s]) /\ SteadyIsStored(task'[s], store')
    BY <1>1 DEF RedisInv
<1> QED BY <1>1, <1>2 DEF RedisInv, RowsUnderOwnKey

\* One call stores a document and goes on.
LEMMA CallPuts ==
    ASSUME NoneIsNoValue, RedisInv, NEW t \in Tasks, NEW k \in Keys, NEW doc \in Documents, doc["id"] = k,
           NEW tk, Call(tk), tk.pc \in {"exists", "done"}, tk.hits = task[t].hits,
           KeepsOtherFields([op |-> task[t].op, from |-> task[t].key, read |-> task[t].read,
                             there |-> store[k], wrote |-> doc]),
           Put(t, k, doc, tk)
    PROVE  RedisInv'
<1> DEFINE h == [op |-> task[t].op, from |-> task[t].key, read |-> task[t].read,
                  there |-> store[k], wrote |-> doc]
           new == [tk EXCEPT !.hits = @ \cup {h}]
<1>1. store' = [store EXCEPT ![k] = doc] /\ task' = [task EXCEPT ![t] = new]
    BY DEF Put
<1>2. KeepsOtherFields(h)
    OBVIOUS
<1> HIDE DEF h
<1>3. Call(new) /\ new.pc \in {"exists", "done"}
    BY <1>2, HitIsCall
<1> HIDE DEF new
<1>4. DOMAIN task' = Tasks /\ \A s \in Tasks : task'[s] = IF s = t THEN new ELSE task[s]
    BY <1>1 DEF RedisInv
<1>5. /\ store' \in [Keys -> Documents \cup {None}]
      /\ \A j \in Keys : store'[j] = IF j = k THEN doc ELSE store[j]
    BY <1>1 DEF RedisInv
<1>6. doc # None
    BY DEF NoneIsNoValue
<1>7. \A s \in Tasks : Call(task'[s])
    BY <1>3, <1>4 DEF RedisInv
<1>8. \A s \in Tasks : SteadyIsStored(task'[s], store')
  <2>1. SteadyIsStored(new, store')
      BY <1>3 DEF SteadyIsStored
  <2>2. ASSUME NEW s \in Tasks PROVE SteadyIsStored(task[s], store')
    <3>1. task[s].steady \subseteq Keys /\ SteadyIsStored(task[s], store)
        BY DEF RedisInv, Call, Common
    <3> QED BY <1>5, <1>6, <3>1 DEF SteadyIsStored
  <2> QED BY <1>4, <2>1, <2>2
<1>9. RowsUnderOwnKey'
    BY <1>5 DEF RedisInv, RowsUnderOwnKey
<1> QED BY <1>4, <1>5, <1>7, <1>8, <1>9 DEF RedisInv

\* A key taken from the rows that were stored all along.
LEMMA SteadyShrinks ==
    ASSUME NEW tk, Call(tk), NEW k
    PROVE  LET new == [tk EXCEPT !.steady = @ \ {k}]
           IN  Call(new) /\ new.pc = tk.pc /\ new.steady = tk.steady \ {k}
<1> DEFINE new == [tk EXCEPT !.steady = @ \ {k}]
<1>1. /\ DOMAIN new = TaskFields
      /\ new.pc = tk.pc /\ new.key = tk.key /\ new.result = tk.result /\ new.op = tk.op
      /\ new.i = tk.i /\ new.read = tk.read /\ new.out = tk.out /\ new.left = tk.left
      /\ new.steady = tk.steady \ {k} /\ new.hits = tk.hits
    BY DEF Call, Common, TaskFields
<1> HIDE DEF new
<1>2. Common(new)
    BY <1>1 DEF Call, Common
<1>3. Inserting(tk) => Inserting(new)
    BY <1>1 DEF Inserting
<1>4. Looking(tk) => Looking(new)
    BY <1>1 DEF Looking, ReadsItsKey
<1>5. Writing(tk) => Writing(new)
    BY <1>1 DEF Writing, ReadsItsKey
<1>6. Deleting(tk) => Deleting(new)
    BY <1>1 DEF Deleting
<1>7. Scanning(tk) => Scanning(new)
    BY <1>1 DEF Scanning
<1>8. Finished(tk) => Finished(new)
    BY <1>1 DEF Finished
<1> QED BY <1>1, <1>2, <1>3, <1>4, <1>5, <1>6, <1>7, <1>8 DEF Call, Phase, new

\* One call deletes a document and goes on.
LEMMA CallDeletes ==
    ASSUME RedisInv, NEW t \in Tasks, NEW k \in Keys, NEW tk, Call(tk),
           tk.pc \in {"scan", "fetch"} => tk.steady = {}, Deleted(t, k, tk)
    PROVE  RedisInv'
<1>1. /\ store' \in [Keys -> Documents \cup {None}]
      /\ \A j \in Keys : store'[j] = IF j = k THEN None ELSE store[j]
    BY DEF Deleted, RedisInv
<1>2. /\ DOMAIN task' = Tasks
      /\ \A s \in Tasks : task'[s] = IF s = t THEN tk ELSE [task[s] EXCEPT !.steady = @ \ {k}]
    BY DEF Deleted
<1>3. ASSUME NEW s \in Tasks PROVE Call(task'[s]) /\ SteadyIsStored(task'[s], store')
  <2>1. CASE s = t
      BY <1>2, <2>1 DEF SteadyIsStored
  <2>2. CASE s # t
    <3> DEFINE new == [task[s] EXCEPT !.steady = @ \ {k}]
    <3>1. Call(task[s]) /\ SteadyIsStored(task[s], store) /\ task[s].steady \subseteq Keys
        BY DEF RedisInv, Call, Common
    <3>2. Call(new) /\ new.pc = task[s].pc /\ new.steady = task[s].steady \ {k}
        BY <3>1, SteadyShrinks
    <3>3. task'[s] = new
        BY <1>2, <2>2
    <3> HIDE DEF new
    <3>4. SteadyIsStored(new, store')
        BY <1>1, <3>1, <3>2 DEF SteadyIsStored
    <3> QED BY <3>2, <3>3, <3>4
  <2> QED BY <2>1, <2>2
<1>4. RowsUnderOwnKey'
    BY <1>1 DEF RedisInv, RowsUnderOwnKey
<1> QED BY <1>1, <1>2, <1>3, <1>4 DEF RedisInv

-----------------------------------------------------------------------------
(* The steps of Next.                                                         *)

\* The phase of a call by where it is.
LEMMA PhaseByPc ==
    ASSUME NEW tk, Call(tk)
    PROVE  /\ tk.pc = "new" => tk.out = <<>>
           /\ tk.pc \in {"exists", "set"} => Inserting(tk)
           /\ tk.pc = "get" => Looking(tk)
           /\ tk.pc = "put" => Writing(tk)
           /\ tk.pc = "del" => Deleting(tk)
           /\ tk.pc \in {"scan", "fetch"} => Scanning(tk)
           /\ tk.pc = "done" => Finished(tk)
BY DEF Call, Phase, Inserting, Looking, Writing, Deleting, Scanning, Finished

LEMMA StartKeeps ==
    ASSUME NoneIsNoValue, RedisInv, NEW t \in Tasks, Start(t)
    PROVE  RedisInv'
<1>1. Common(task[t]) /\ task[t].out = <<>> /\ UNCHANGED store
    BY PhaseByPc DEF RedisInv, Call, Start
<1>2. CASE \E op \in Inserts \cup UpsertCalls \cup Updates \cup Deletes :
              task' = [task EXCEPT ![t] = StartMutation(@, op)]
  <2>1. PICK op \in Inserts \cup UpsertCalls \cup Updates \cup Deletes :
              task' = [task EXCEPT ![t] = StartMutation(@, op)]
      BY <1>2
  <2> DEFINE tk == StartMutation(task[t], op)
  <2>2. Call(tk) /\ tk.pc \notin {"scan", "fetch"}
      BY <1>1, StartMutationIsCall
  <2>3. task' = [task EXCEPT ![t] = tk]
      BY <2>1
  <2> HIDE DEF tk
  <2>4. SteadyIsStored(tk, store)
      BY <2>2 DEF SteadyIsStored
  <2> QED BY <1>1, <2>2, <2>3, <2>4, CallMoves
<1>3. CASE \E op \in Queries \cup {Drop} : task' = [task EXCEPT ![t] = StartQuery(@, op)]
  <2>1. PICK op \in Queries \cup {Drop} : task' = [task EXCEPT ![t] = StartQuery(@, op)]
      BY <1>3
  <2> DEFINE tk == StartQuery(task[t], op)
  <2>2. Call(tk) /\ SteadyIsStored(tk, store)
      BY <1>1, StartQueryIsCall
  <2>3. task' = [task EXCEPT ![t] = tk]
      BY <2>1
  <2> HIDE DEF tk
  <2> QED BY <1>1, <2>2, <2>3, CallMoves
<1> QED BY <1>2, <1>3 DEF Start

\* A call that has read a document or its absence.
LEMMA ReadIsCommon ==
    ASSUME NEW tk, Common(tk), NEW doc \in Documents \cup {None}
    PROVE  LET seen == [tk EXCEPT !.read = doc]
           IN  /\ Common(seen) /\ seen.read = doc /\ seen.op = tk.op /\ seen.pc = tk.pc
               /\ seen.i = tk.i /\ seen.key = tk.key /\ seen.steady = tk.steady /\ seen.hits = tk.hits
<1> DEFINE seen == [tk EXCEPT !.read = doc]
<1>1. /\ DOMAIN seen = TaskFields /\ seen.read = doc /\ seen.op = tk.op /\ seen.pc = tk.pc
      /\ seen.key = tk.key /\ seen.i = tk.i /\ seen.out = tk.out /\ seen.left = tk.left
      /\ seen.steady = tk.steady /\ seen.hits = tk.hits
    BY DEF Common, TaskFields
<1> HIDE DEF seen
<1>2. Common(seen)
    BY <1>1 DEF Common
<1> QED BY <1>1, <1>2 DEF seen

\* A call that goes on to its SET.
LEMMA ToPcIsCommon ==
    ASSUME NEW tk, Common(tk), NEW p
    PROVE  LET new == [tk EXCEPT !.pc = p]
           IN  /\ Common(new) /\ new.pc = p /\ new.op = tk.op /\ new.read = tk.read
               /\ new.i = tk.i /\ new.key = tk.key /\ new.steady = tk.steady /\ new.hits = tk.hits
<1> DEFINE new == [tk EXCEPT !.pc = p]
<1>1. /\ DOMAIN new = TaskFields /\ new.pc = p /\ new.op = tk.op /\ new.read = tk.read
      /\ new.key = tk.key /\ new.i = tk.i /\ new.out = tk.out /\ new.left = tk.left
      /\ new.steady = tk.steady /\ new.hits = tk.hits
    BY DEF Common, TaskFields
<1> HIDE DEF new
<1>2. Common(new)
    BY <1>1 DEF Common
<1> QED BY <1>1, <1>2 DEF new

LEMMA ExistsKeeps ==
    ASSUME NoneIsNoValue, RedisInv, NEW t \in Tasks, Exists(t)
    PROVE  RedisInv'
<1> DEFINE tk == task[t]
           doc == store[tk.key]
           seen == [tk EXCEPT !.read = doc]
           further == [seen EXCEPT !.i = @ + 1]
           go == [seen EXCEPT !.pc = "set"]
<1>1. Common(tk) /\ Inserting(tk) /\ tk.pc = "exists"
    BY PhaseByPc DEF RedisInv, Call, Exists
<1>2. doc \in Documents \cup {None}
    BY <1>1 DEF RedisInv, Inserting
<1>3. UNCHANGED store
    BY DEF Exists
<1>4. task' = [task EXCEPT ![t] =
             IF doc = None \/ tk.op.on_conflict = "replace" THEN go
             ELSE IF tk.op.on_conflict = "ignore" THEN NextRow(further)
             ELSE Raises(seen, "constraint")]
    BY DEF Exists
<1> HIDE DEF tk, doc
<1>5. /\ Common(seen) /\ seen.read = doc /\ seen.op = tk.op /\ seen.i = tk.i /\ seen.key = tk.key
    BY <1>1, <1>2, ReadIsCommon
<1> HIDE DEF seen
<1>6. CASE doc = None \/ tk.op.on_conflict = "replace"
  <2>1. task' = [task EXCEPT ![t] = go]
      BY <1>4, <1>6
  <2>2. Common(go) /\ go.pc = "set" /\ go.op = tk.op /\ go.read = doc /\ go.i = tk.i /\ go.key = tk.key
      BY <1>5, ToPcIsCommon
  <2> HIDE DEF go
  <2>3. Inserting(go)
      BY <1>1, <1>6, <2>2 DEF Inserting
  <2>4. Call(go) /\ SteadyIsStored(go, store)
      BY <2>2, <2>3 DEF Call, Phase, SteadyIsStored
  <2> QED BY <1>3, <2>1, <2>4, CallMoves
<1>7. CASE ~(doc = None \/ tk.op.on_conflict = "replace") /\ tk.op.on_conflict = "ignore"
  <2>1. task' = [task EXCEPT ![t] = NextRow(further)]
      BY <1>4, <1>7
  <2>2. /\ DOMAIN further = TaskFields /\ further.op = tk.op
        /\ further.i = seen.i + 1 /\ further.read = seen.read /\ further.out = seen.out
        /\ further.left = seen.left /\ further.steady = seen.steady /\ further.hits = seen.hits
      BY <1>5 DEF Common, TaskFields
  <2> HIDE DEF further
  <2>3. Common(further)
      BY <1>5, <2>2 DEF Common
  <2>4. Call(NextRow(further)) /\ NextRow(further).pc \in {"exists", "done"}
      BY <1>1, <2>2, <2>3, NextRowIsCall DEF Inserting
  <2>5. SteadyIsStored(NextRow(further), store)
      BY <2>4 DEF SteadyIsStored
  <2> QED BY <1>3, <2>1, <2>4, <2>5, CallMoves
<1>8. CASE ~(doc = None \/ tk.op.on_conflict = "replace") /\ tk.op.on_conflict # "ignore"
  <2>1. task' = [task EXCEPT ![t] = Raises(seen, "constraint")]
      BY <1>4, <1>8
  <2>2. ~ScansAll(seen.op)
      BY <1>1, <1>5, WritesScanNothing DEF Inserting
  <2>3. Call(Raises(seen, "constraint")) /\ Raises(seen, "constraint").pc = "done"
      BY <1>5, <2>2, EndsIsCall DEF Raises
  <2>4. SteadyIsStored(Raises(seen, "constraint"), store)
      BY <2>3 DEF SteadyIsStored
  <2> QED BY <1>3, <2>1, <2>3, <2>4, CallMoves
<1> QED BY <1>6, <1>7, <1>8

LEMMA SetInsertedKeeps ==
    ASSUME NoneIsNoValue, RedisInv, NEW t \in Tasks, SetInserted(t)
    PROVE  RedisInv'
<1> DEFINE tk == task[t]
           row == Normalize(tk.op.rows[tk.i])
           further == [tk EXCEPT !.i = @ + 1, !.out = Append(@, row)]
           h == [op |-> tk.op, from |-> tk.key, read |-> tk.read, there |-> store[tk.key], wrote |-> row]
<1>1. Common(tk) /\ Inserting(tk) /\ tk.pc = "set"
    BY PhaseByPc DEF RedisInv, Call, SetInserted
<1>2. Put(t, tk.key, row, NextRow(further))
    BY DEF SetInserted
<1>3. /\ tk.op.op = "insert" /\ tk.key \in Keys
      /\ row \in Documents /\ row["id"] = tk.key
    BY <1>1, InsertRows DEF Inserting, NoneIsNoValue
<1>4. KeepsOtherFields(h)
    BY <1>1, <1>3 DEF KeepsOtherFields, Inserting
<1> HIDE DEF row
<1>5. Append(tk.out, row) \in Seq(Documents)
    BY <1>1, <1>3, AppendProperties DEF Common
<1>6. /\ DOMAIN further = TaskFields /\ further.op = tk.op
      /\ further.i = tk.i + 1 /\ further.read = tk.read /\ further.out = Append(tk.out, row)
      /\ further.left = tk.left /\ further.steady = tk.steady /\ further.hits = tk.hits
    BY <1>1 DEF Common, TaskFields
<1> HIDE DEF further
<1>7. Common(further)
    BY <1>1, <1>5, <1>6 DEF Common
<1>8. /\ Call(NextRow(further)) /\ NextRow(further).pc \in {"exists", "done"}
      /\ NextRow(further).hits = tk.hits
    BY <1>1, <1>6, <1>7, NextRowIsCall DEF Inserting
<1> QED BY <1>2, <1>3, <1>4, <1>8, CallPuts

LEMMA GetKeeps ==
    ASSUME NoneIsNoValue, RedisInv, NEW t \in Tasks, Get(t)
    PROVE  RedisInv'
<1> DEFINE tk == task[t]
           doc == store[tk.key]
           got == [tk EXCEPT !.read = doc]
           go == [got EXCEPT !.pc = "put"]
           found == IF doc = None THEN <<>> ELSE <<doc>>
<1>1. Common(tk) /\ Looking(tk)
    BY PhaseByPc DEF RedisInv, Call, Get
<1>2. /\ doc \in Documents \cup {None}
      /\ doc # None => doc["id"] = tk.key
    BY <1>1 DEF RedisInv, Looking, RowsUnderOwnKey
<1>3. UNCHANGED store
    BY DEF Get
<1>4. task' = [task EXCEPT ![t] =
             CASE tk.op.op \in Reads \cup {"stream"} -> Answers(got, found)
               [] tk.op.op = "update" -> IF doc = None THEN Ends(got, [affected |-> 0]) ELSE go
               [] tk.op.op = "upsert" -> go]
    BY DEF Get
<1>5. found \in Seq(Documents)
    BY <1>2
<1> HIDE DEF tk, doc, found
<1>6. /\ Common(got) /\ got.read = doc /\ got.op = tk.op /\ got.pc = tk.pc /\ got.key = tk.key
      /\ got.steady = tk.steady
    BY <1>1, <1>2, ReadIsCommon
<1> HIDE DEF got
<1>7. CASE tk.op \in Queries /\ tk.op.filters # <<>>
  <2>1. tk.op.op \in Reads \cup {"stream"}
      BY <1>7, QueryCall DEF Reads
  <2>2. task' = [task EXCEPT ![t] = Answers(got, found)]
      BY <1>4, <2>1 DEF Reads
  <2>3. Call(Answers(got, found)) /\ Answers(got, found).pc = "done"
      BY <1>5, <1>6, <1>7, AnswersIsCall
  <2>4. SteadyIsStored(Answers(got, found), store)
      BY <2>3 DEF SteadyIsStored
  <2> QED BY <1>3, <2>2, <2>3, <2>4, CallMoves
<1>8. CASE tk.op \in Updates /\ doc = None
  <2>1. tk.op.op = "update"
      BY <1>8, UpdateCall
  <2>2. task' = [task EXCEPT ![t] = Ends(got, [affected |-> 0])]
      BY <1>4, <1>8, <2>1 DEF Reads
  <2>3. ~ScansAll(got.op)
      BY <1>6, <1>8, WritesScanNothing
  <2>4. Call(Ends(got, [affected |-> 0])) /\ Ends(got, [affected |-> 0]).pc = "done"
      BY <1>6, <2>3, EndsIsCall
  <2>5. SteadyIsStored(Ends(got, [affected |-> 0]), store)
      BY <2>4 DEF SteadyIsStored
  <2> QED BY <1>3, <2>2, <2>4, <2>5, CallMoves
<1>9. CASE (tk.op \in Updates /\ doc # None) \/ Keyed(tk.op)
  <2>1. \/ tk.op.op = "update" /\ doc # None
        \/ tk.op.op = "upsert"
      BY <1>9, UpdateCall, UpsertDocument DEF Keyed
  <2>2. task' = [task EXCEPT ![t] = go]
      BY <1>4, <2>1 DEF Reads
  <2>3. Common(go) /\ go.pc = "put" /\ go.op = tk.op /\ go.read = doc /\ go.key = tk.key
      BY <1>6, ToPcIsCommon
  <2> HIDE DEF go
  <2>4. Writing(go)
      BY <1>1, <1>2, <1>9, <2>3 DEF Looking, Writing, ReadsItsKey
  <2>5. Call(go) /\ SteadyIsStored(go, store)
      BY <2>3, <2>4 DEF Call, Phase, SteadyIsStored
  <2> QED BY <1>3, <2>2, <2>5, CallMoves
<1> QED BY <1>1, <1>7, <1>8, <1>9 DEF Looking

\* What an update or upsert stores.  Only an update puts it under another key
\* than the one it read.
LEMMA MergedDocument ==
    ASSUME NoneIsNoValue, NEW tk, Common(tk), Writing(tk)
    PROVE  LET doc == Merged(tk)
               patch == IF tk.op.op = "update" THEN tk.op.set ELSE tk.op.values
           IN  /\ tk.op.op \in {"update", "upsert"} /\ ~ScansAll(tk.op)
               /\ doc \in Documents /\ doc["id"] \in Keys
               /\ tk.op.op = "upsert" => doc["id"] = tk.key
               /\ tk.read # None => \A f \in Fields : doc[f] # tk.read[f] => f \in DOMAIN patch
<1> DEFINE doc == Merged(tk)
           patch == IF tk.op.op = "update" THEN tk.op.set ELSE tk.op.values
<1>1. /\ tk.op.op \in {"update", "upsert"} /\ patch \in Patches
      /\ tk.op.op = "update" => tk.read # None
      /\ tk.op.op = "upsert" => Keyed(tk.op)
    BY UpdateCall, UpsertDocument DEF Writing, Keyed
<1>2. ~ScansAll(tk.op)
    BY WritesScanNothing DEF Writing, Keyed
<1>3. tk.op.op = "upsert" =>
        /\ Upserted(tk.op) \in Documents /\ Upserted(tk.op)["id"] \in Keys
        /\ tk.key = Upserted(tk.op)["id"]
        /\ "id" \in DOMAIN patch => patch["id"] = tk.key
    BY <1>1, UpsertDocument DEF Keyed, Writing, ReadsItsKey
<1>4. CASE tk.read # None
  <2>1. tk.read \in Documents /\ tk.read["id"] = tk.key /\ tk.key \in Keys
      BY <1>4 DEF Common, Writing
  <2>2. doc = Patched(tk.read, Normalize(patch))
      BY <1>1, <1>4 DEF Merged
  <2> HIDE DEF doc, patch
  <2>3. /\ doc \in Documents /\ doc["id"] \in Keys
        /\ doc["id"] = IF "id" \in DOMAIN patch THEN patch["id"] ELSE tk.read["id"]
        /\ \A f \in Fields : doc[f] # tk.read[f] => f \in DOMAIN patch
      BY <1>1, <2>1, <2>2, PatchKeeps
  <2>4. tk.op.op = "upsert" => doc["id"] = tk.key
      BY <1>3, <2>1, <2>3
  <2> QED BY <1>1, <1>2, <2>3, <2>4 DEF doc, patch
<1>5. CASE tk.read = None
  <2>1. doc = Upserted(tk.op) /\ tk.op.op = "upsert"
      BY <1>1, <1>5 DEF Merged, Upserted
  <2> QED BY <1>1, <1>2, <1>3, <1>5, <2>1
<1> QED BY <1>4, <1>5

LEMMA SetMergedKeeps ==
    ASSUME NoneIsNoValue, RedisInv, NEW t \in Tasks, SetMerged(t)
    PROVE  RedisInv'
<1> DEFINE tk == task[t]
           doc == Merged(tk)
           h == [op |-> tk.op, from |-> tk.key, read |-> tk.read, there |-> store[doc["id"]], wrote |-> doc]
           end == Ends(tk, [affected |-> 1])
<1>1. Common(tk) /\ Writing(tk)
    BY PhaseByPc DEF RedisInv, Call, SetMerged
<1>2. Put(t, doc["id"], doc, end)
    BY DEF SetMerged
<1>3. /\ ~ScansAll(tk.op) /\ doc \in Documents /\ doc["id"] \in Keys
      /\ tk.read # None =>
           \A f \in Fields : doc[f] # tk.read[f] =>
               f \in DOMAIN (IF tk.op.op = "update" THEN tk.op.set ELSE tk.op.values)
    BY <1>1, MergedDocument
<1> HIDE DEF doc
<1>4. KeepsOtherFields(h)
    BY <1>3 DEF KeepsOtherFields
<1>5. Call(end) /\ end.pc = "done" /\ end.hits = tk.hits
    BY <1>1, <1>3, EndsIsCall
<1> HIDE DEF end
<1> QED BY <1>2, <1>3, <1>4, <1>5, CallPuts

LEMMA DelKeeps ==
    ASSUME NoneIsNoValue, RedisInv, NEW t \in Tasks, Del(t)
    PROVE  RedisInv'
<1> DEFINE tk == task[t]
           result == [affected |-> IF store[tk.key] = None THEN 0 ELSE 1]
<1>1. Common(tk) /\ Deleting(tk) /\ Deleted(t, tk.key, Ends(tk, result))
    BY PhaseByPc DEF RedisInv, Call, Del
<1> HIDE DEF result
<1>2. ~ScansAll(tk.op)
    BY <1>1, WritesScanNothing DEF Deleting
<1>3. Call(Ends(tk, result)) /\ Ends(tk, result).pc = "done"
    BY <1>1, <1>2, EndsIsCall
<1> QED BY <1>1, <1>3, CallDeletes DEF Deleting

\* A scan that has been named key k.
LEMMA NamedIsCall ==
    ASSUME NEW tk, Call(tk), Scanning(tk), tk.pc = "scan", SteadyIsStored(tk, store), NEW k \in Keys,
           NEW new, DOMAIN new = TaskFields, new.pc = "fetch", new.key = k, new.left = tk.left \ {k},
           new.op = tk.op, new.i = tk.i, new.read = tk.read, new.out = tk.out,
           new.steady = tk.steady, new.hits = tk.hits
    PROVE  Call(new) /\ SteadyIsStored(new, store)
<1>1. Common(new)
    BY DEF Call, Common
<1>2. Scanning(new)
    BY DEF Scanning
<1>3. SteadyIsStored(new, store)
    BY DEF SteadyIsStored
<1> QED BY <1>1, <1>2, <1>3 DEF Call, Phase

LEMMA ScanKeeps ==
    ASSUME NoneIsNoValue, RedisInv, NEW t \in Tasks, Scan(t)
    PROVE  RedisInv'
<1> DEFINE tk == task[t]
           Name(k) == [tk EXCEPT !.pc = "fetch", !.key = k, !.left = @ \ {k}]
<1>1. Call(tk) /\ Common(tk) /\ Scanning(tk) /\ tk.pc = "scan" /\ SteadyIsStored(tk, store)
    BY PhaseByPc DEF RedisInv, Call, Scan
<1>2. UNCHANGED store
    BY DEF Scan
<1>3. CASE \E k \in tk.left : task' = [task EXCEPT ![t] = Name(k)]
  <2>1. PICK k \in tk.left : task' = [task EXCEPT ![t] = Name(k)]
      BY <1>3
  <2>2. k \in Keys
      BY <1>1 DEF Common
  <2> DEFINE new == Name(k)
  <2>3. /\ DOMAIN new = TaskFields /\ new.pc = "fetch" /\ new.key = k /\ new.left = tk.left \ {k}
        /\ new.op = tk.op /\ new.i = tk.i /\ new.read = tk.read /\ new.out = tk.out
        /\ new.steady = tk.steady /\ new.hits = tk.hits
      BY <1>1 DEF Common, TaskFields
  <2>4. task' = [task EXCEPT ![t] = new]
      BY <2>1
  <2> HIDE DEF new
  <2>5. Call(new) /\ SteadyIsStored(new, store)
      BY <1>1, <2>2, <2>3, NamedIsCall
  <2> QED BY <1>2, <2>4, <2>5, CallMoves
<1>4. CASE \E k \in Keys \ tk.left : task' = [task EXCEPT ![t] = [Name(k) EXCEPT !.again = TRUE]]
  <2>1. PICK k \in Keys \ tk.left : task' = [task EXCEPT ![t] = [Name(k) EXCEPT !.again = TRUE]]
      BY <1>4
  <2> DEFINE new == [Name(k) EXCEPT !.again = TRUE]
  <2>2. /\ DOMAIN new = TaskFields /\ new.pc = "fetch" /\ new.key = k /\ new.left = tk.left \ {k}
        /\ new.op = tk.op /\ new.i = tk.i /\ new.read = tk.read /\ new.out = tk.out
        /\ new.steady = tk.steady /\ new.hits = tk.hits
      BY <1>1 DEF Common, TaskFields
  <2>3. task' = [task EXCEPT ![t] = new]
      BY <2>1
  <2> HIDE DEF new
  <2>4. Call(new) /\ SteadyIsStored(new, store)
      BY <1>1, <2>2, NamedIsCall
  <2> QED BY <1>2, <2>3, <2>4, CallMoves
<1>5. CASE tk.left \cap tk.steady = {} /\ task' = [task EXCEPT ![t] = Answers(tk, tk.out)]
  <2>1. tk.op # Drop => \A k \in tk.steady : Named(tk.out, k)
      BY <1>1, <1>5 DEF Scanning
  <2>2. tk.out \in Seq(Documents) /\ tk.op \in Queries \cup {Drop}
      BY <1>1 DEF Common, Scanning
  <2>3. Call(Answers(tk, tk.out)) /\ Answers(tk, tk.out).pc = "done"
      BY <1>1, <2>1, <2>2, AnswersIsCall
  <2>4. SteadyIsStored(Answers(tk, tk.out), store)
      BY <2>3 DEF SteadyIsStored
  <2> QED BY <1>2, <1>5, <2>3, <2>4, CallMoves
<1> QED BY <1>3, <1>4, <1>5 DEF Scan

LEMMA FetchKeeps ==
    ASSUME NoneIsNoValue, RedisInv, NEW t \in Tasks, Fetch(t)
    PROVE  RedisInv'
<1> DEFINE tk == task[t]
           doc == store[tk.key]
           next == [tk EXCEPT !.pc = "scan", !.steady = IF tk.op.op = "drop" THEN {} ELSE @]
           out == IF doc = None THEN tk.out ELSE Append(tk.out, doc)
           more == [next EXCEPT !.out = out]
<1>1. Call(tk) /\ Common(tk) /\ Scanning(tk) /\ tk.pc = "fetch" /\ SteadyIsStored(tk, store)
    BY PhaseByPc DEF RedisInv, Call, Fetch
<1>2. /\ tk.key \in Keys /\ doc \in Documents \cup {None}
      /\ doc # None => doc["id"] = tk.key
    BY <1>1 DEF RedisInv, Scanning, RowsUnderOwnKey
<1>3. /\ DOMAIN next = TaskFields /\ next.pc = "scan" /\ next.key = tk.key /\ next.left = tk.left
      /\ next.op = tk.op /\ next.i = tk.i /\ next.read = tk.read /\ next.out = tk.out
      /\ next.steady = (IF tk.op.op = "drop" THEN {} ELSE tk.steady) /\ next.hits = tk.hits
    BY <1>1 DEF Common, TaskFields
<1>4. IF tk.op.op = "drop" THEN Deleted(t, tk.key, next)
      ELSE task' = [task EXCEPT ![t] = more] /\ UNCHANGED store
    BY DEF Fetch
<1> HIDE DEF next
<1>5. CASE tk.op.op = "drop"
  <2>1. tk.op = Drop
      BY <1>1, <1>5, QueryCall DEF Scanning
  <2>2. Common(next)
      BY <1>1, <1>3, <1>5 DEF Common
  <2>3. Scanning(next)
      BY <1>1, <1>3, <2>1 DEF Scanning
  <2>4. Call(next) /\ next.steady = {}
      BY <1>3, <1>5, <2>2, <2>3 DEF Call, Phase
  <2> QED BY <1>2, <1>4, <1>5, <2>4, CallDeletes
<1>6. CASE tk.op.op # "drop"
  <2>1. /\ out \in Seq(Documents)
        /\ \A k \in Keys : Named(tk.out, k) \/ (doc # None /\ k = tk.key) => Named(out, k)
    <3>1. CASE doc = None
        BY <1>1, <3>1 DEF Common
    <3>2. CASE doc # None
      <4>1. doc \in Documents /\ doc["id"] = tk.key /\ tk.out \in Seq(Documents) /\ out = Append(tk.out, doc)
          BY <1>1, <1>2, <3>2 DEF Common
      <4> HIDE DEF out, doc
      <4>2. /\ out \in Seq(Documents) /\ Len(out) = Len(tk.out) + 1 /\ Len(tk.out) \in Nat
            /\ \A i \in 1 .. Len(tk.out) : out[i] = tk.out[i]
            /\ out[Len(tk.out) + 1] = doc
          BY <4>1, AppendProperties, LenProperties
      <4>3. Named(out, tk.key)
          BY <4>1, <4>2 DEF Named
      <4>4. \A k \in Keys : Named(tk.out, k) => Named(out, k)
          BY <4>2 DEF Named
      <4> QED BY <4>2, <4>3, <4>4
    <3> QED BY <3>1, <3>2
  <2>2. \A k \in tk.steady : k \in Keys /\ store[k] # None
      BY <1>1 DEF SteadyIsStored, Common
  <2>3. task' = [task EXCEPT ![t] = more] /\ UNCHANGED store
      BY <1>4, <1>6
  <2> HIDE DEF out
  <2>4. /\ DOMAIN more = TaskFields /\ more.pc = "scan" /\ more.key = tk.key /\ more.left = tk.left
        /\ more.op = tk.op /\ more.i = tk.i /\ more.read = tk.read /\ more.out = out
        /\ more.steady = tk.steady /\ more.hits = tk.hits
      BY <1>3, <1>6 DEF TaskFields
  <2> HIDE DEF more
  <2>5. Common(more)
      BY <1>1, <2>1, <2>4 DEF Common
  <2>6. \A k \in tk.steady : tk.op # Drop => k \in tk.left \/ Named(out, k)
      BY <1>1, <2>1, <2>2 DEF Scanning
  <2>7. Scanning(more)
      BY <1>1, <2>4, <2>6 DEF Scanning
  <2>8. Call(more) /\ SteadyIsStored(more, store)
      BY <2>2, <2>4, <2>5, <2>7 DEF Call, Phase, SteadyIsStored
  <2> QED BY <2>3, <2>8, CallMoves
<1> QED BY <1>5, <1>6

-----------------------------------------------------------------------------
(* The theorems.                                                              *)

LEMMA InitRedis == ASSUME NoneIsNoValue, Init PROVE RedisInv
<1>1. store \in [Keys -> Documents \cup {None}] /\ RowsUnderOwnKey
  <2>1. \A k \in Keys : Row(k, 0, 0) \in Documents /\ Row(k, 0, 0)["id"] = k
      BY DEF Row, Documents, Fields
  <2>2. CASE store \in [Keys -> {None}]
      BY <2>2 DEF RowsUnderOwnKey
  <2>3. CASE store = [k \in Keys |-> Row(k, 0, 0)]
      BY <2>1, <2>3 DEF RowsUnderOwnKey
  <2> QED BY <2>2, <2>3 DEF Init
<1>2. /\ DOMAIN Idle = TaskFields /\ Idle.pc = "new" /\ Idle.i = 1 /\ Idle.read = None
      /\ Idle.out = <<>> /\ Idle.left = {} /\ Idle.steady = {} /\ Idle.hits = {}
    BY DEF Idle, TaskFields
<1>3. Call(Idle) /\ SteadyIsStored(Idle, store)
    BY <1>2 DEF Call, Common, Phase, SteadyIsStored
<1> QED BY <1>1, <1>3 DEF RedisInv, Init

\* The invariant of the Redis backend: what every call holds between two
\* commands, given that None is no value of a document.
THEOREM RedisInvariant == ASSUME NoneIsNoValue PROVE Spec => []RedisInv
<1>1. Init => RedisInv
    BY InitRedis
<1>2. RedisInv /\ [Next]_vars => RedisInv'
  <2> SUFFICES ASSUME RedisInv, [Next]_vars PROVE RedisInv'
      OBVIOUS
  <2>1. ASSUME NEW t \in Tasks,
               \/ Start(t) \/ Exists(t) \/ SetInserted(t) \/ Get(t) \/ SetMerged(t)
               \/ Del(t) \/ Scan(t) \/ Fetch(t)
        PROVE  RedisInv'
      BY <2>1, StartKeeps, ExistsKeeps, SetInsertedKeeps, GetKeeps, SetMergedKeeps,
         DelKeeps, ScanKeeps, FetchKeeps
  <2>2. CASE UNCHANGED vars
      BY <2>2 DEF vars, RedisInv, RowsUnderOwnKey
  <2> QED BY <2>1, <2>2 DEF Next
<1> QED BY <1>1, <1>2, PTL DEF Spec

-----------------------------------------------------------------------------
(* Races.  A second invariant over the first: what a call is about to replace *)
(* is what it read, nothing, or what another call stored.                     *)

Explained(t, h) == h.there # None => Replaces(h) \/ Rekeys(h) \/ AnotherStored(t, h.there)
Expected(t) ==
    task[t].pc \in {"set", "put"} =>
        \/ store[task[t].key] \in {None, task[t].read}
        \/ AnotherStored(t, store[task[t].key])
RaceInv == \A t \in Tasks : Expected(t) /\ \A h \in task[t].hits : Explained(t, h)

\* A call that has not come to a SET and stored nothing.
Calm(new, tk) == new.pc \notin {"set", "put"} /\ new.hits = tk.hits

LEMMA EndsIsCalm == ASSUME NEW tk, Common(tk), NEW result PROVE Calm(Ends(tk, result), tk)
BY DEF Common, TaskFields, Ends, Calm

LEMMA AnswersIsCalm ==
    ASSUME NoneIsNoValue, NEW tk, Common(tk), tk.op \in Queries \cup {Drop}, NEW docs
    PROVE  Calm(Answers(tk, docs), tk)
<1>1. tk.op.op \in {"select", "count", "exists", "stream", "drop"}
    BY QueryCall
<1>2. \E result : Answers(tk, docs) = Ends(tk, result)
    BY <1>1 DEF Answers
<1> QED BY <1>2, EndsIsCalm

LEMMA GoesIsCalm ==
    ASSUME NEW tk, Common(tk), NEW op, NEW p, p \notin {"set", "put"}, NEW k
    PROVE  Calm(Goes(tk, op, p, k), tk)
BY DEF Common, TaskFields, Goes, Calm

LEMMA StartIsCalm ==
    ASSUME NoneIsNoValue, NEW t \in Tasks, Common(task[t]), Start(t)
    PROVE  \E new : task' = [task EXCEPT ![t] = new] /\ Calm(new, task[t])
<1> DEFINE tk == task[t]
<1>1. ASSUME NEW op, NEW error PROVE Calm(Raises([tk EXCEPT !.op = op], error), tk)
  <2> DEFINE new == [tk EXCEPT !.op = op]
  <2>1. Common(new) /\ new.hits = tk.hits
      BY OpIsCommon
  <2> HIDE DEF new
  <2>2. Calm(Raises(new, error), new)
      BY <2>1, EndsIsCalm DEF Raises
  <2> QED BY <2>1, <2>2 DEF Calm, new
<1>2. ASSUME NEW op \in Inserts \cup UpsertCalls \cup Updates \cup Deletes
      PROVE  Calm(StartMutation(tk, op), tk)
  <2> DEFINE new == [tk EXCEPT !.op = op]
             pk == PkFilter(op.filters)
  <2>1. op.op \in {"insert", "upsert", "update", "delete"} /\ (op.op = "insert" => op \in Inserts)
      BY InsertRows, UpsertDocument, UpdateCall, DeleteCall
  <2>2. CASE op.op = "insert"
    <3>1. StartMutation(tk, op) = NextRow(new)
        BY <2>2 DEF StartMutation
    <3>2. Common(new) /\ new.op = op /\ new.hits = tk.hits
        BY OpIsCommon
    <3> HIDE DEF new
    <3>3. NextRow(new).pc \in {"exists", "done"} /\ NextRow(new).hits = tk.hits
        BY <2>1, <2>2, <3>2, NextRowIsCall
    <3> QED BY <3>1, <3>3 DEF Calm
  <2>3. CASE op.op = "upsert"
    <3>1. \/ StartMutation(tk, op) = Raises(new, "constraint")
          \/ StartMutation(tk, op) = Goes(tk, op, "get", Upserted(op)["id"])
        BY <2>3 DEF StartMutation, Goes, Upserted
    <3> QED BY <1>1, <3>1, GoesIsCalm
  <2>4. CASE op.op \in {"update", "delete"}
    <3> DEFINE p == IF op.op = "delete" THEN "del" ELSE "get"
    <3>1. \/ StartMutation(tk, op) = Raises(new, "capability")
          \/ StartMutation(tk, op) = [tk EXCEPT !.op = op, !.key = pk, !.pc = p]
        BY <2>4 DEF StartMutation
    <3>2. [tk EXCEPT !.op = op, !.key = pk, !.pc = p] = Goes(tk, op, p, pk)
        BY DEF Goes
    <3>3. p \notin {"set", "put"}
        OBVIOUS
    <3> QED BY <1>1, <3>1, <3>2, <3>3, GoesIsCalm
  <2> QED BY <2>1, <2>2, <2>3, <2>4
<1>3. ASSUME NEW op \in Queries \cup {Drop} PROVE Calm(StartQuery(tk, op), tk)
  <2> DEFINE pk == PkFilter(op.filters)
             go == [tk EXCEPT !.op = op, !.pc = "scan", !.left = Keys,
                              !.steady = {k \in Keys : store[k] # None}]
  <2>1. \/ StartQuery(tk, op) = Goes(tk, op, "get", pk)
        \/ StartQuery(tk, op) = go
        \/ StartQuery(tk, op) = Raises([tk EXCEPT !.op = op], "capability")
      BY DEF StartQuery, Goes
  <2>2. Calm(go, tk)
      BY DEF Calm, Common, TaskFields
  <2> QED BY <1>1, <2>1, <2>2, GoesIsCalm
<1> QED BY <1>2, <1>3 DEF Start

\* One call moves, the store rests: a call that comes to its SET has just read.
LEMMA MoveRaces ==
    ASSUME RedisInv, RaceInv, NEW t \in Tasks, NEW new, new.hits = task[t].hits,
           new.pc \in {"set", "put"} => new.read = store[new.key],
           task' = [task EXCEPT ![t] = new], UNCHANGED store
    PROVE  RaceInv'
<1>1. \A s \in Tasks : task'[s] = IF s = t THEN new ELSE task[s]
    BY DEF RedisInv
<1>2. \A s \in Tasks : task'[s].hits = task[s].hits
    BY <1>1
<1>3. \A s \in Tasks : \A doc : AnotherStored(s, doc)' <=> AnotherStored(s, doc)
    BY <1>2 DEF AnotherStored
<1>4. ASSUME NEW s \in Tasks PROVE Expected(s)'
    BY <1>1, <1>3 DEF RaceInv, Expected
<1>5. ASSUME NEW s \in Tasks, NEW h, h \in task'[s].hits PROVE Explained(s, h)'
    BY <1>2, <1>3, <1>5 DEF RaceInv, Explained
<1> QED BY <1>4, <1>5 DEF RaceInv

\* A document is deleted.
LEMMA DeleteRaces ==
    ASSUME RedisInv, RaceInv, NEW t \in Tasks, NEW k \in Keys, NEW new, Calm(new, task[t]),
           Deleted(t, k, new)
    PROVE  RaceInv'
<1>1. \A s \in Tasks : DOMAIN task[s] = TaskFields
    BY DEF RedisInv, Call, Common
<1>2. \A s \in Tasks : task'[s] = IF s = t THEN new ELSE [task[s] EXCEPT !.steady = @ \ {k}]
    BY DEF Deleted
<1>3. \A s \in Tasks :
        /\ task'[s].hits = task[s].hits
        /\ s # t => /\ task'[s].pc = task[s].pc /\ task'[s].key = task[s].key
                    /\ task'[s].read = task[s].read
    BY <1>1, <1>2 DEF Calm, TaskFields
<1>4. \A s \in Tasks : task'[s].hits = task[s].hits
    BY <1>3
<1>5. \A j \in Keys : store'[j] = IF j = k THEN None ELSE store[j]
    BY DEF Deleted, RedisInv
<1>6. ASSUME NEW s \in Tasks PROVE Expected(s)'
  <2>1. CASE s = t
      BY <1>2, <2>1 DEF Expected, Calm
  <2>2. CASE s # t
    <3> SUFFICES ASSUME task[s].pc \in {"set", "put"}
                 PROVE  \/ store'[task[s].key] \in {None, task[s].read}
                        \/ \E d : d = store'[task[s].key] /\ AnotherStored(s, d)
        BY <1>3, <1>4, <2>2 DEF Expected, AnotherStored
    <3>1. task[s].key \in Keys
        BY PhaseByPc DEF RedisInv, Inserting, Writing
    <3>2. \/ store[task[s].key] \in {None, task[s].read}
          \/ AnotherStored(s, store[task[s].key])
        BY DEF RaceInv, Expected
    <3> QED BY <1>5, <3>1, <3>2
  <2> QED BY <2>1, <2>2
<1>7. ASSUME NEW s \in Tasks, NEW h, h \in task'[s].hits PROVE Explained(s, h)'
    BY <1>4, <1>7 DEF RaceInv, Explained, AnotherStored
<1> QED BY <1>6, <1>7 DEF RaceInv

\* A document is stored, which the calls about to replace it may blame on t.
LEMMA PutRaces ==
    ASSUME RedisInv, RaceInv, NEW t \in Tasks, NEW k \in Keys, NEW doc,
           NEW tk, DOMAIN tk = TaskFields, Calm(tk, task[t]), Put(t, k, doc, tk),
           Explained(t, [op |-> task[t].op, from |-> task[t].key, read |-> task[t].read,
                         there |-> store[k], wrote |-> doc])
    PROVE  RaceInv'
<1> DEFINE hit == [op |-> task[t].op, from |-> task[t].key, read |-> task[t].read,
                   there |-> store[k], wrote |-> doc]
           new == [tk EXCEPT !.hits = @ \cup {hit}]
<1>1. store' = [store EXCEPT ![k] = doc] /\ task' = [task EXCEPT ![t] = new]
    BY DEF Put
<1>2. Explained(t, hit) /\ hit.wrote = doc
    OBVIOUS
<1> HIDE DEF hit
<1>3. new.hits = task[t].hits \cup {hit} /\ new.pc \notin {"set", "put"}
    BY DEF Calm, TaskFields
<1> HIDE DEF new
<1>4. \A s \in Tasks : task'[s] = IF s = t THEN new ELSE task[s]
    BY <1>1 DEF RedisInv
<1>5. \A s \in Tasks : \A d : AnotherStored(s, d) => AnotherStored(s, d)'
  <2>1. \A s \in Tasks : task[s].hits \subseteq task'[s].hits
      BY <1>3, <1>4
  <2> QED BY <2>1 DEF AnotherStored
<1>6. \A s \in Tasks \ {t} : AnotherStored(s, doc)'
  <2>1. hit \in task'[t].hits
      BY <1>3, <1>4
  <2> QED BY <1>2, <2>1 DEF AnotherStored
<1>7. \A j \in Keys : store'[j] = IF j = k THEN doc ELSE store[j]
    BY <1>1 DEF RedisInv
<1>8. ASSUME NEW s \in Tasks PROVE Expected(s)'
  <2>1. CASE s = t
      BY <1>3, <1>4, <2>1 DEF Expected
  <2>2. CASE s # t
    <3> SUFFICES ASSUME task[s].pc \in {"set", "put"}
                 PROVE  \/ store'[task[s].key] \in {None, task[s].read}
                        \/ \E d : d = store'[task[s].key] /\ AnotherStored(s, d)'
        BY <1>4, <2>2 DEF Expected, AnotherStored
    <3>1. task[s].key \in Keys
        BY PhaseByPc DEF RedisInv, Inserting, Writing
    <3>2. \/ store[task[s].key] \in {None, task[s].read}
          \/ AnotherStored(s, store[task[s].key])
        BY DEF RaceInv, Expected
    <3>3. CASE task[s].key = k
        BY <1>6, <1>7, <2>2, <3>3
    <3>4. CASE task[s].key # k
        BY <1>5, <1>7, <3>1, <3>2, <3>4
    <3> QED BY <3>3, <3>4
  <2> QED BY <2>1, <2>2
<1>9. ASSUME NEW s \in Tasks, NEW h, h \in task'[s].hits PROVE Explained(s, h)'
  <2>1. h \in task[s].hits \/ (s = t /\ h = hit)
      BY <1>3, <1>4, <1>9
  <2>2. Explained(s, h)
      BY <1>2, <2>1 DEF RaceInv
  <2> QED BY <1>5, <2>2 DEF Explained
<1> QED BY <1>8, <1>9 DEF RaceInv

\* The SET of an insert and that of an update or upsert.
LEMMA InsertRaces ==
    ASSUME NoneIsNoValue, RedisInv, RaceInv, NEW t \in Tasks, SetInserted(t)
    PROVE  RaceInv'
<1> DEFINE tk == task[t]
           row == Normalize(tk.op.rows[tk.i])
           further == [tk EXCEPT !.i = @ + 1, !.out = Append(@, row)]
           hit == [op |-> tk.op, from |-> tk.key, read |-> tk.read, there |-> store[tk.key], wrote |-> row]
<1>1. Common(tk) /\ Inserting(tk) /\ tk.pc = "set"
    BY PhaseByPc DEF RedisInv, Call, SetInserted
<1>2. Put(t, tk.key, row, NextRow(further))
    BY DEF SetInserted
<1>3. /\ tk.op.op = "insert" /\ tk.op \in Inserts /\ tk.key \in Keys
      /\ row \in Documents
    BY <1>1, InsertRows DEF Inserting, NoneIsNoValue
<1>4. Explained(t, hit)
  <2>1. store[tk.key] \in {None, tk.read} \/ AnotherStored(t, store[tk.key])
      BY <1>1 DEF RaceInv, Expected
  <2>2. tk.op.on_conflict # "replace" => tk.read = None
      BY <1>1 DEF Inserting
  <2> QED BY <1>3, <2>1, <2>2 DEF Explained, Replaces
<1> HIDE DEF row
<1>5. Append(tk.out, row) \in Seq(Documents)
    BY <1>1, <1>3, AppendProperties DEF Common
<1>6. /\ DOMAIN further = TaskFields /\ further.op = tk.op
      /\ further.i = tk.i + 1 /\ further.read = tk.read /\ further.out = Append(tk.out, row)
      /\ further.left = tk.left /\ further.steady = tk.steady /\ further.hits = tk.hits
    BY <1>1 DEF Common, TaskFields
<1> HIDE DEF further
<1>7. Common(further)
    BY <1>1, <1>5, <1>6 DEF Common
<1>8. Call(NextRow(further)) /\ Calm(NextRow(further), tk)
    BY <1>3, <1>6, <1>7, NextRowIsCall DEF Calm
<1>9. DOMAIN NextRow(further) = TaskFields
    BY <1>8 DEF Call, Common
<1> QED BY <1>2, <1>3, <1>4, <1>8, <1>9, PutRaces

LEMMA MergeRaces ==
    ASSUME NoneIsNoValue, RedisInv, RaceInv, NEW t \in Tasks, SetMerged(t)
    PROVE  RaceInv'
<1> DEFINE tk == task[t]
           doc == Merged(tk)
           hit == [op |-> tk.op, from |-> tk.key, read |-> tk.read, there |-> store[doc["id"]], wrote |-> doc]
           end == Ends(tk, [affected |-> 1])
<1>1. Common(tk) /\ Writing(tk) /\ tk.pc = "put"
    BY PhaseByPc DEF RedisInv, Call, SetMerged
<1>2. Put(t, doc["id"], doc, end)
    BY DEF SetMerged
<1>3. /\ tk.op.op \in {"update", "upsert"} /\ doc["id"] \in Keys
      /\ tk.op.op = "upsert" => doc["id"] = tk.key
    BY <1>1, MergedDocument
<1> HIDE DEF doc
<1>4. Explained(t, hit)
  <2>1. store[tk.key] \in {None, tk.read} \/ AnotherStored(t, store[tk.key])
      BY <1>1 DEF RaceInv, Expected
  <2>2. CASE doc["id"] = tk.key
      BY <1>3, <2>1, <2>2 DEF Explained, Replaces
  <2>3. CASE doc["id"] # tk.key
      BY <1>3, <2>3 DEF Explained, Rekeys
  <2> QED BY <2>2, <2>3
<1>5. DOMAIN end = TaskFields /\ Calm(end, tk)
    BY <1>1, EndsIsCalm DEF Common, Ends
<1> HIDE DEF end
<1> QED BY <1>2, <1>3, <1>4, <1>5, PutRaces

\* The commands that read.
LEMMA ReadRaces ==
    ASSUME NoneIsNoValue, RedisInv, RaceInv, NEW t \in Tasks, Exists(t) \/ Get(t)
    PROVE  RaceInv'
<1> DEFINE tk == task[t]
           doc == store[tk.key]
           seen == [tk EXCEPT !.read = doc]
           further == [seen EXCEPT !.i = @ + 1]
<1>1. Common(tk) /\ UNCHANGED store
    BY DEF RedisInv, Call, Exists, Get
<1>2. tk.key \in Keys /\ doc \in Documents \cup {None}
  <2>1. tk.key \in Keys
      BY PhaseByPc DEF RedisInv, Inserting, Looking, Exists, Get
  <2> QED BY <2>1 DEF RedisInv
<1>3. /\ Common(seen) /\ seen.read = doc /\ seen.op = tk.op /\ seen.i = tk.i /\ seen.key = tk.key
      /\ seen.hits = tk.hits /\ seen.pc = tk.pc
    BY <1>1, <1>2, ReadIsCommon
<1>4. \A p : LET go == [seen EXCEPT !.pc = p] IN go.hits = tk.hits /\ go.read = doc /\ go.key = tk.key
    BY <1>1 DEF Common, TaskFields
<1>5. CASE Exists(t)
  <2>1. tk.op \in Inserts
      BY <1>5, PhaseByPc DEF RedisInv, Inserting, Exists
  <2>2. /\ DOMAIN further = TaskFields /\ further.op = tk.op
        /\ further.i = seen.i + 1 /\ further.read = seen.read /\ further.out = seen.out
        /\ further.left = seen.left /\ further.steady = seen.steady /\ further.hits = seen.hits
      BY <1>3 DEF Common, TaskFields
  <2>3. \/ task' = [task EXCEPT ![t] = [seen EXCEPT !.pc = "set"]]
        \/ task' = [task EXCEPT ![t] = NextRow(further)]
        \/ task' = [task EXCEPT ![t] = Raises(seen, "constraint")]
      BY <1>5 DEF Exists
  <2> HIDE DEF tk, doc, seen, further
  <2>4. Common(further)
      BY <1>3, <2>2 DEF Common
  <2>5. NextRow(further).hits = tk.hits /\ NextRow(further).pc \notin {"set", "put"}
      BY <1>3, <2>1, <2>2, <2>4, NextRowIsCall
  <2>6. Raises(seen, "constraint").hits = tk.hits /\ Raises(seen, "constraint").pc \notin {"set", "put"}
      BY <1>3, EndsIsCalm DEF Raises, Calm
  <2>7. CASE task' = [task EXCEPT ![t] = [seen EXCEPT !.pc = "set"]]
    <3> DEFINE go == [seen EXCEPT !.pc = "set"]
    <3>1. go.hits = task[t].hits /\ go.read = store[go.key]
        BY <1>4 DEF tk, doc
    <3>2. task' = [task EXCEPT ![t] = go]
        BY <2>7
    <3> HIDE DEF go
    <3> QED BY <1>1, <3>1, <3>2, MoveRaces
  <2>8. CASE task' = [task EXCEPT ![t] = NextRow(further)]
      BY <1>1, <2>5, <2>8, MoveRaces DEF tk
  <2>9. CASE task' = [task EXCEPT ![t] = Raises(seen, "constraint")]
      BY <1>1, <2>6, <2>9, MoveRaces DEF tk
  <2> QED BY <2>3, <2>7, <2>8, <2>9
<1>6. CASE Get(t)
  <2> DEFINE found == IF doc = None THEN <<>> ELSE <<doc>>
             go == [seen EXCEPT !.pc = "put"]
  <2>1. tk.op \in Queries \/ tk.op.op \in {"update", "upsert"}
      BY <1>6, PhaseByPc, UpdateCall, UpsertDocument DEF RedisInv, Looking, Keyed, Get
  <2>2. tk.op \in Queries => tk.op.op \in Reads \cup {"stream"}
      BY QueryCall DEF Reads
  <2>3. tk.op.op \in Reads \cup {"stream"} => tk.op.op \notin {"update", "upsert"}
      BY DEF Reads
  <2>4. task' = [task EXCEPT ![t] =
             CASE tk.op.op \in Reads \cup {"stream"} -> Answers(seen, found)
               [] tk.op.op = "update" -> IF doc = None THEN Ends(seen, [affected |-> 0]) ELSE go
               [] tk.op.op = "upsert" -> go]
      BY <1>6 DEF Get
  <2> HIDE DEF tk, doc, seen, found
  <2>5. \/ tk.op \in Queries /\ task' = [task EXCEPT ![t] = Answers(seen, found)]
        \/ task' = [task EXCEPT ![t] = Ends(seen, [affected |-> 0])]
        \/ task' = [task EXCEPT ![t] = go]
      BY <2>1, <2>2, <2>3, <2>4
  <2>6. CASE tk.op \in Queries /\ task' = [task EXCEPT ![t] = Answers(seen, found)]
    <3>1. Calm(Answers(seen, found), seen)
        BY <1>3, <2>6, AnswersIsCalm
    <3> QED BY <1>1, <1>3, <2>6, <3>1, MoveRaces DEF tk, Calm
  <2>7. CASE task' = [task EXCEPT ![t] = Ends(seen, [affected |-> 0])]
    <3>1. Calm(Ends(seen, [affected |-> 0]), seen)
        BY <1>3, EndsIsCalm
    <3> QED BY <1>1, <1>3, <2>7, <3>1, MoveRaces DEF tk, Calm
  <2>8. CASE task' = [task EXCEPT ![t] = go]
    <3>1. go.hits = task[t].hits /\ go.read = store[go.key]
        BY <1>4 DEF tk, doc
    <3> HIDE DEF go
    <3> QED BY <1>1, <2>8, <3>1, MoveRaces
  <2> QED BY <2>5, <2>6, <2>7, <2>8
<1> QED BY <1>5, <1>6

\* Scans and deletions.
LEMMA ScanRaces ==
    ASSUME NoneIsNoValue, RedisInv, RaceInv, NEW t \in Tasks, Del(t) \/ Scan(t) \/ Fetch(t)
    PROVE  RaceInv'
<1> DEFINE tk == task[t]
<1>1. Common(tk) /\ DOMAIN tk = TaskFields
    BY DEF RedisInv, Call, Common
<1>2. CASE Del(t)
  <2> DEFINE end == Ends(tk, [affected |-> IF store[tk.key] = None THEN 0 ELSE 1])
  <2>1. tk.key \in Keys
      BY <1>2, PhaseByPc DEF RedisInv, Deleting, Del
  <2>2. Deleted(t, tk.key, end)
      BY <1>2 DEF Del
  <2>3. Calm(end, tk)
      BY <1>1, EndsIsCalm
  <2> HIDE DEF end
  <2> QED BY <2>1, <2>2, <2>3, DeleteRaces
<1>3. CASE Scan(t)
  <2>1. UNCHANGED store /\ tk.op \in Queries \cup {Drop}
      BY <1>3, PhaseByPc DEF RedisInv, Scanning, Scan
  <2>2. \E new : task' = [task EXCEPT ![t] = new] /\ Calm(new, tk)
    <3> DEFINE Name(k) == [tk EXCEPT !.pc = "fetch", !.key = k, !.left = @ \ {k}]
    <3>1. \/ \E k : task' = [task EXCEPT ![t] = Name(k)]
          \/ \E k : task' = [task EXCEPT ![t] = [Name(k) EXCEPT !.again = TRUE]]
          \/ task' = [task EXCEPT ![t] = Answers(tk, tk.out)]
        BY <1>3 DEF Scan
    <3>2. \A k : Calm(Name(k), tk) /\ Calm([Name(k) EXCEPT !.again = TRUE], tk)
        BY <1>1 DEF Calm, TaskFields
    <3>3. Calm(Answers(tk, tk.out), tk)
        BY <1>1, <2>1, AnswersIsCalm
    <3> QED BY <3>1, <3>2, <3>3
  <2>3. PICK new : task' = [task EXCEPT ![t] = new] /\ Calm(new, tk)
      BY <2>2
  <2> QED BY <2>1, <2>3, MoveRaces DEF Calm
<1>4. CASE Fetch(t)
  <2> DEFINE next == [tk EXCEPT !.pc = "scan", !.steady = IF tk.op.op = "drop" THEN {} ELSE @]
             more == [next EXCEPT !.out = IF store[tk.key] = None THEN @ ELSE Append(@, store[tk.key])]
  <2>1. tk.key \in Keys
      BY <1>4, PhaseByPc DEF RedisInv, Scanning, Fetch
  <2>2. Calm(next, tk) /\ Calm(more, tk)
      BY <1>1 DEF Calm, TaskFields
  <2>3. Deleted(t, tk.key, next) \/ (task' = [task EXCEPT ![t] = more] /\ UNCHANGED store)
      BY <1>4 DEF Fetch
  <2> HIDE DEF next, more
  <2>4. CASE Deleted(t, tk.key, next)
      BY <2>1, <2>2, <2>4, DeleteRaces
  <2>5. CASE task' = [task EXCEPT ![t] = more] /\ UNCHANGED store
      BY <2>2, <2>5, MoveRaces DEF Calm
  <2> QED BY <2>3, <2>4, <2>5
<1> QED BY <1>2, <1>3, <1>4

\* What a call is about to replace, and what every SET has replaced.
THEOREM RedisRaces == ASSUME NoneIsNoValue PROVE Spec => []RaceInv
<1>1. Init => RaceInv
  <2>1. Idle.hits = {} /\ Idle.pc = "new"
      BY DEF Idle
  <2> QED BY <2>1 DEF Init, RaceInv, Expected
<1>2. RedisInv /\ RaceInv /\ [Next]_vars => RaceInv'
  <2> SUFFICES ASSUME RedisInv, RaceInv, [Next]_vars PROVE RaceInv'
      OBVIOUS
  <2>1. ASSUME NEW t \in Tasks, Start(t) PROVE RaceInv'
    <3>1. Common(task[t]) /\ UNCHANGED store
        BY <2>1 DEF RedisInv, Call, Start
    <3>2. PICK new : task' = [task EXCEPT ![t] = new] /\ Calm(new, task[t])
        BY <2>1, <3>1, StartIsCalm
    <3> QED BY <3>1, <3>2, MoveRaces DEF Calm
  <2>2. ASSUME NEW t \in Tasks,
               \/ Exists(t) \/ SetInserted(t) \/ Get(t) \/ SetMerged(t)
               \/ Del(t) \/ Scan(t) \/ Fetch(t)
        PROVE  RaceInv'
      BY <2>2, ReadRaces, InsertRaces, MergeRaces, ScanRaces
  <2>3. CASE UNCHANGED vars
      BY <2>3 DEF vars, RaceInv, Expected, Explained, AnotherStored
  <2> QED BY <2>1, <2>2, <2>3 DEF Next
<1> QED BY <1>1, <1>2, RedisInvariant, PTL DEF Spec

\* Every value of the store is a document or the absence of one, and every call
\* is at one of its commands.
THEOREM RedisTypes == ASSUME NoneIsNoValue PROVE Spec => []TypeOK
<1>1. RedisInv => TypeOK
    BY PhaseByPc DEF RedisInv, TypeOK, Call, Phase, Inserting, Looking, Writing, Deleting,
                     Scanning, Finished
<1> QED BY <1>1, RedisInvariant, PTL

\* However the commands of concurrent calls interleave: a document is stored
\* under its own primary key; a SET that replaces another row than the one its
\* call read, or a row a plain insert was not to replace, comes after another
\* task's SET of that row, or is that of an update that changes the primary key;
\* an update or upsert that nobody raced changes no field it was not given; and a
\* scan delivers every row stored all along.
THEOREM RedisRowsKept == ASSUME NoneIsNoValue PROVE Spec => []RedisKeepsRows
<1>1. RedisInv /\ RaceInv => OverwritesOnlyInRace /\ OtherFieldsKept
  <2>1. RedisInv => OtherFieldsKept
      BY DEF RedisInv, Call, Common, OtherFieldsKept, KeepsOtherFields
  <2>2. RaceInv => OverwritesOnlyInRace
      BY DEF RaceInv, Explained, OverwritesOnlyInRace
  <2> QED BY <2>1, <2>2
<1>2. RedisInv => ScanComplete
  <2> SUFFICES ASSUME RedisInv, NEW t \in Tasks, task[t].pc = "done", ScansAll(task[t].op)
               PROVE  /\ \A k \in task[t].steady : Named(task[t].result.rows, k)
                      /\ \A i \in 1 .. Len(task[t].result.rows) : task[t].result.rows[i] # None
      BY DEF ScanComplete, ScansAll, Named
  <2>1. /\ task[t].result.rows \in Seq(Documents)
        /\ \A k \in task[t].steady : Named(task[t].result.rows, k)
      BY PhaseByPc DEF RedisInv, Finished
  <2>2. \A i \in 1 .. Len(task[t].result.rows) : task[t].result.rows[i] \in Documents
      BY <2>1, ElementOfSeq
  <2> QED BY <2>1, <2>2 DEF NoneIsNoValue
<1>3. RedisInv /\ RaceInv => RedisKeepsRows
    BY <1>1, <1>2 DEF RedisInv, RedisKeepsRows
<1> QED BY <1>3, RedisInvariant, RedisRaces, PTL
===============================================================================

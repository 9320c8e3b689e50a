----------------------------- MODULE MongoProofs -----------------------------
(* Proofs about module MongoStore for any keys, any identities the database   *)
(* chooses and any number of concurrent callers: which documents share a      *)
(* primary key, under which _id a document is stored, and what an upsert      *)
(* finds when it reads its row back.                                          *)
EXTENDS MongoStore, TLAPS, FiniteSetTheorems, SequenceTheorems

-----------------------------------------------------------------------------
(* The inductive invariant.                                                   *)

TaskFields == {"pc", "op", "i", "out", "result"}

\* A call is at a command of its own operation, and has its result when it is
\* over and not before.
Call(tk) ==
    /\ DOMAIN tk = TaskFields
    /\ tk.i \in Nat \ {0}
    /\ \/ tk.pc = "new" /\ tk.i = 1
       \/ tk.pc \in {"insert_one", "replace_one"} /\ tk.op \in Inserts /\ tk.i \in 1 .. Len(tk.op.rows)
       \/ tk.pc \in {"update_one", "find_one"} /\ tk.op \in UpsertCalls
       \/ tk.pc = "update_many" /\ tk.op \in Updates
       \/ tk.pc = "delete_many" /\ tk.op \in Deletes
       \/ tk.pc = "find" /\ tk.op \in Queries
       \/ tk.pc = "done"
    /\ tk.pc = "replace_one" => tk.op.on_conflict = "replace"
    /\ tk.pc # "done" => tk.result = None

\* What declaring a primary key unique means.
UniqueHolds ==
    unique => \A i, j \in Stored : docs[i]["id"] = docs[j]["id"] => i = j

\* Every document has a source.  Only the database's own _ids come from upserts.
Sourced ==
    \A i \in Ids : /\ docs[i] # None => source[i] # None
                   /\ source[i] = "upsert" => i \in Oids

\* A call that changed a primary key: by an update, or by an upsert whose values
\* hold another one than its key.
Rekeys(tk) ==
    \/ tk.op \in Updates /\ tk.result # None
    \/ /\ tk.op \in UpsertCalls /\ tk.pc \in {"find_one", "done"}
       /\ "id" \in DOMAIN tk.op.values
       /\ "id" \in DOMAIN tk.op.key => tk.op.values["id"] # tk.op.key["id"]

\* A document whose primary key is no longer its _id, and not by an upsert that
\* made it, was changed by a call.
RekeyedByCall ==
    \A i \in Ids : source[i] = "rekeyed" => \E s \in Tasks : Rekeys(task[s])

HasMatch(key) == \E i \in Ids : docs[i] # None /\ Matches(docs[i], key)

\* A call other than t's has taken a row from those that match a key.
TookFrom(t, key) == \E s \in Tasks \ {t} : TakesFrom(task[s], key)

\* Between the write of an upsert and the reading back, there is a document with
\* its key, unless another call has taken one.
UpsertFinds ==
    \A t \in Tasks :
        task[t].pc = "find_one" /\ KeepsKey(task[t].op)
            => HasMatch(task[t].op.key) \/ TookFrom(t, task[t].op.key)

\* A call that is an upsert, is over and has found no row.
FoundNoRow(tk) ==
    /\ tk.pc = "done" /\ tk.op \in UpsertCalls /\ KeepsKey(tk.op)
    /\ "rows" \in DOMAIN tk.result /\ tk.result.rows = {}

UpsertFound ==
    \A t \in Tasks : FoundNoRow(task[t]) => TookFrom(t, task[t].op.key)

Calls == DOMAIN task = Tasks /\ \A t \in Tasks : Call(task[t])

MongoInv ==
    /\ TypeOK /\ Calls /\ UniqueHolds /\ IdIsKey /\ Sourced /\ RekeyedByCall
    /\ UpsertFinds /\ UpsertFound

-----------------------------------------------------------------------------
(* Documents and the calls.                                                   *)

LEMMA InsertRows ==
    ASSUME NEW op \in Inserts
    PROVE  /\ op.op = "insert" /\ Len(op.rows) \in Nat
           /\ \A i \in 1 .. Len(op.rows) : op.rows[i] \in Documents /\ op.rows[i]["id"] \in Keys
<1>1. PICK k \in Keys, j \in Keys : op.op = "insert" /\ op.rows = <<Document(k, 0), Document(j, 1)>>
    BY DEF Inserts
<1>2. /\ Document(k, 0) \in Documents /\ Document(k, 0)["id"] = k
      /\ Document(j, 1) \in Documents /\ Document(j, 1)["id"] = j
    BY DEF Document, Documents, Fields
<1> QED BY <1>1, <1>2

\* What an upsert writes over a document, and over none.
LEMMA UpsertCall ==
    ASSUME NEW op \in UpsertCalls
    PROVE  /\ op.op = "upsert" /\ DOMAIN op.key \subseteq Fields /\ DOMAIN op.values \subseteq Fields
           /\ \A f \in DOMAIN op.key : op.key[f] \in Keys \cup {0, 1, None}
           /\ \A f \in DOMAIN op.values : op.values[f] \in Keys \cup {0, 1, None}
BY DEF UpsertCalls, Document, Fields

LEMMA UpsertWrites ==
    ASSUME NEW op \in UpsertCalls, NEW d \in Documents
    PROVE  LET new == Patched(d, Patched(op.key, op.values))
           IN  /\ new \in Documents
               /\ \A f \in Fields : new[f] = IF f \in DOMAIN op.values THEN op.values[f]
                                             ELSE IF f \in DOMAIN op.key THEN op.key[f] ELSE d[f]
               /\ KeepsKey(op) => Matches(new, op.key)
<1> DEFINE sets == Patched(op.key, op.values)
           new == Patched(d, sets)
<1>1. /\ DOMAIN op.key \subseteq Fields /\ DOMAIN op.values \subseteq Fields
      /\ \A f \in DOMAIN op.key : op.key[f] \in Keys \cup {0, 1, None}
      /\ \A f \in DOMAIN op.values : op.values[f] \in Keys \cup {0, 1, None}
    BY UpsertCall
<1>2. /\ DOMAIN sets = DOMAIN op.key \cup DOMAIN op.values
      /\ \A f \in DOMAIN sets : sets[f] = IF f \in DOMAIN op.values THEN op.values[f] ELSE op.key[f]
    BY DEF Patched
<1>3. DOMAIN d = Fields /\ \A f \in Fields : d[f] \in Keys \cup {0, 1, None}
    BY DEF Documents
<1> HIDE DEF sets
<1>4. new = [f \in Fields |-> IF f \in DOMAIN sets THEN sets[f] ELSE d[f]]
  <2>1. DOMAIN d \cup DOMAIN sets = Fields
      BY <1>1, <1>2, <1>3
  <2> QED BY <2>1 DEF Patched
<1>5. \A f \in Fields : new[f] = IF f \in DOMAIN op.values THEN op.values[f]
                                 ELSE IF f \in DOMAIN op.key THEN op.key[f] ELSE d[f]
    BY <1>2, <1>4
<1>6. new \in Documents
  <2>1. \A f \in Fields : (IF f \in DOMAIN sets THEN sets[f] ELSE d[f]) \in Keys \cup {0, 1, None}
      BY <1>1, <1>2, <1>3
  <2> QED BY <1>4, <2>1 DEF Documents
<1>7. KeepsKey(op) => Matches(new, op.key)
  <2> SUFFICES ASSUME KeepsKey(op), NEW f \in DOMAIN op.key PROVE new[f] = op.key[f]
      BY DEF Matches
  <2>1. sets[f] = op.key[f] /\ f \in DOMAIN sets
      BY <1>2 DEF KeepsKey, Matches, sets
  <2> QED BY <1>1, <1>4, <2>1
<1> HIDE DEF new
<1> QED BY <1>5, <1>6, <1>7 DEF new, sets

\* An upsert that sets no field of a key leaves a document that matches both keys
\* matching.
LEMMA UpsertLeaves ==
    ASSUME NEW op \in UpsertCalls, NEW d \in Documents, NEW key, DOMAIN key \subseteq Fields,
           Matches(d, op.key), Matches(d, key), DOMAIN op.values \cap DOMAIN key = {}
    PROVE  Matches(Patched(d, Patched(op.key, op.values)), key)
<1> DEFINE new == Patched(d, Patched(op.key, op.values))
<1>1. \A f \in Fields : new[f] = IF f \in DOMAIN op.values THEN op.values[f]
                                 ELSE IF f \in DOMAIN op.key THEN op.key[f] ELSE d[f]
    BY UpsertWrites
<1> HIDE DEF new
<1>2. \A f \in DOMAIN key : new[f] = d[f]
    BY <1>1 DEF Matches
<1> QED BY <1>2 DEF Matches, new

LEMMA UpdateCall ==
    ASSUME NEW op \in Updates
    PROVE  /\ op.op = "update"
           /\ \A d \in Documents : Patched(d, op.set) \in Documents
           /\ "id" \notin DOMAIN op.set => \A d \in Documents : Patched(d, op.set)["id"] = d["id"]
<1>1. op.op = "update" /\ (op.set = [a |-> 1] \/ \E k \in Keys : op.set = [id |-> k])
    BY DEF Updates
<1>2. CASE op.set = [a |-> 1]
  <2>1. \A d \in Documents : Patched(d, op.set) = [f \in Fields |-> IF f = "a" THEN 1 ELSE d[f]]
      BY <1>2 DEF Patched, Documents, Fields
  <2>2. ASSUME NEW d \in Documents
        PROVE  Patched(d, op.set) \in Documents /\ Patched(d, op.set)["id"] = d["id"]
    <3>1. \A f \in Fields : d[f] \in Keys \cup {0, 1, None}
        BY DEF Documents
    <3>2. Patched(d, op.set) = [f \in Fields |-> IF f = "a" THEN 1 ELSE d[f]]
        BY <2>1
    <3> QED BY <3>1, <3>2 DEF Documents, Fields
  <2> QED BY <1>1, <2>2
<1>3. CASE \E k \in Keys : op.set = [id |-> k]
  <2>1. PICK k \in Keys : op.set = [id |-> k]
      BY <1>3
  <2>2. \A d \in Documents : Patched(d, op.set) = [f \in Fields |-> IF f = "id" THEN k ELSE d[f]]
      BY <2>1 DEF Patched, Documents, Fields
  <2>3. "id" \in DOMAIN op.set
      BY <2>1
  <2>4. ASSUME NEW d \in Documents PROVE Patched(d, op.set) \in Documents
    <3>1. \A f \in Fields : d[f] \in Keys \cup {0, 1, None}
        BY DEF Documents
    <3>2. Patched(d, op.set) = [f \in Fields |-> IF f = "id" THEN k ELSE d[f]]
        BY <2>2
    <3> QED BY <3>1, <3>2 DEF Documents
  <2> QED BY <1>1, <2>3, <2>4
<1> QED BY <1>1, <1>2, <1>3

LEMMA KindsDiffer ==
    ASSUME NEW op
    PROVE  /\ op \in Inserts => op.op = "insert"
           /\ op \in UpsertCalls => op.op = "upsert"
           /\ op \in Updates => op.op = "update"
           /\ op \in Deletes => op.op = "delete"
           /\ op \in Queries => op.op \in {"select", "count", "exists"}
BY DEF Inserts, UpsertCalls, Updates, Deletes, Queries

LEMMA EndsIsCall ==
    ASSUME NEW tk, Call(tk), NEW result
    PROVE  /\ Call(Ends(tk, result)) /\ Ends(tk, result).pc = "done"
           /\ Ends(tk, result).result = result /\ Ends(tk, result).op = tk.op
           /\ Ends(tk, result).i = tk.i
<1> DEFINE new == Ends(tk, result)
<1>1. /\ DOMAIN new = TaskFields /\ new.pc = "done" /\ new.result = result /\ new.op = tk.op
      /\ new.i = tk.i
    BY DEF Call, TaskFields, Ends
<1> HIDE DEF new
<1>2. Call(new)
    BY <1>1 DEF Call
<1> QED BY <1>1, <1>2 DEF new

\* The next document of an insert, or its end.
LEMMA NextIsCall ==
    ASSUME NEW tk, DOMAIN tk = TaskFields, tk.i \in Nat \ {0}, tk.op \in Inserts, tk.result = None
    PROVE  /\ Call(NextDocument(tk)) /\ NextDocument(tk).op = tk.op
           /\ NextDocument(tk).i = tk.i
           /\ NextDocument(tk).pc \in {"insert_one", "done"}
<1>1. CASE tk.i > Len(tk.op.rows)
  <2> DEFINE result == [affected |-> Len(tk.out)]
             new == [tk EXCEPT !.pc = "done", !.result = result]
  <2>1. NextDocument(tk) = new
      BY <1>1 DEF NextDocument, Ends
  <2> HIDE DEF result
  <2>2. DOMAIN new = TaskFields /\ new.pc = "done" /\ new.op = tk.op /\ new.i = tk.i
      BY DEF TaskFields
  <2> HIDE DEF new
  <2> QED BY <2>1, <2>2 DEF Call
<1>2. CASE ~(tk.i > Len(tk.op.rows))
  <2> DEFINE new == [tk EXCEPT !.pc = "insert_one"]
  <2>1. NextDocument(tk) = new
      BY <1>2 DEF NextDocument
  <2>2. /\ DOMAIN new = TaskFields /\ new.pc = "insert_one" /\ new.op = tk.op /\ new.i = tk.i
        /\ new.result = None
      BY DEF TaskFields
  <2>3. tk.i \in 1 .. Len(tk.op.rows)
      BY <1>2, InsertRows
  <2> HIDE DEF new
  <2> QED BY <2>1, <2>2, <2>3 DEF Call
<1> QED BY <1>1, <1>2

-----------------------------------------------------------------------------
(* Steps of the calls and of the collection.                                  *)

\* A call goes on: from its start, or at its own operation and not back over the
\* rows of an insert.
GoesOn(tk, new) ==
    /\ Call(tk) /\ Call(new) /\ tk.pc # "done"
    /\ \/ tk.pc = "new"
       \/ new.op = tk.op /\ new.i >= tk.i
    /\ tk.pc = "find_one" => new.pc = "done"

\* What a call has taken or changed stays taken and changed.
LEMMA TakenStays ==
    ASSUME NEW tk, NEW new, GoesOn(tk, new)
    PROVE  /\ \A key : TakesFrom(tk, key) => TakesFrom(new, key)
           /\ Rekeys(tk) => Rekeys(new)
<1>1. tk.result = None /\ tk.i \in Nat /\ new.i \in Nat
    BY DEF GoesOn, Call
<1>2. CASE tk.pc = "new"
  <2>1. tk.i = 1
      BY <1>2 DEF GoesOn, Call
  <2> QED BY <1>1, <1>2, <2>1 DEF TakesFrom, Rekeys
<1>3. CASE tk.pc # "new"
  <2>1. new.op = tk.op /\ new.i >= tk.i
      BY <1>3 DEF GoesOn
  <2>2. tk.pc \in {"find_one", "done"} => new.pc \in {"find_one", "done"}
      BY DEF GoesOn
  <2>3. tk.i > 1 => new.i > 1
      BY <1>1, <2>1
  <2> QED BY <1>1, <2>1, <2>2, <2>3 DEF TakesFrom, Rekeys
<1> QED BY <1>2, <1>3

\* What a step of one call means for the others, and for the upserts.
LEMMA CallMoves ==
    ASSUME MongoInv, NEW t \in Tasks, NEW tk, GoesOn(task[t], tk),
           task' = [task EXCEPT ![t] = tk],
           FoundNoRow(tk) => TookFrom(t, tk.op.key),
           tk.pc = "find_one" /\ KeepsKey(tk.op)
               => \E j \in Ids : docs'[j] # None /\ Matches(docs'[j], tk.op.key),
           \A s \in Tasks \ {t} :
               task[s].op \in UpsertCalls /\ KeepsKey(task[s].op) /\ HasMatch(task[s].op.key)
                   => \/ \E j \in Ids : docs'[j] # None /\ Matches(docs'[j], task[s].op.key)
                      \/ TookFrom(s, task[s].op.key)
                      \/ TakesFrom(tk, task[s].op.key),
           \A i \in Ids : source'[i] = "rekeyed" => source[i] = "rekeyed" \/ Rekeys(tk)
    PROVE  Calls' /\ UpsertFinds' /\ UpsertFound' /\ RekeyedByCall'
<1>1. DOMAIN task' = Tasks /\ \A s \in Tasks : task'[s] = IF s = t THEN tk ELSE task[s]
    BY DEF MongoInv, Calls
<1>2. Calls'
    BY <1>1 DEF MongoInv, Calls, GoesOn
<1>3. \A s \in Tasks : \A key : TakesFrom(task[s], key) => TakesFrom(task'[s], key)
    BY <1>1, TakenStays
<1>4. \A s \in Tasks : \A key : TookFrom(s, key) => \E r \in Tasks \ {s} : TakesFrom(task'[r], key)
    BY <1>3 DEF TookFrom
<1>5. \A s \in Tasks \ {t} : \A key :
          TakesFrom(tk, key) => \E r \in Tasks \ {s} : TakesFrom(task'[r], key)
    BY <1>1
<1>6. RekeyedByCall'
  <2> SUFFICES ASSUME NEW i \in Ids, source'[i] = "rekeyed" PROVE \E s \in Tasks : Rekeys(task'[s])
      BY DEF RekeyedByCall, Rekeys
  <2>1. CASE Rekeys(tk)
      BY <1>1, <2>1
  <2>2. CASE source[i] = "rekeyed"
    <3>1. PICK s \in Tasks : Rekeys(task[s])
        BY <2>2 DEF MongoInv, RekeyedByCall
    <3> QED BY <1>1, <3>1, TakenStays
  <2> QED BY <2>1, <2>2
<1>7. UpsertFound'
  <2> SUFFICES ASSUME NEW s \in Tasks, FoundNoRow(task'[s])
               PROVE  \E r \in Tasks \ {s} : TakesFrom(task'[r], task'[s].op.key)
      BY DEF UpsertFound, FoundNoRow, KeepsKey, TookFrom, TakesFrom
  <2>1. TookFrom(s, task'[s].op.key)
      BY <1>1 DEF MongoInv, UpsertFound
  <2> QED BY <1>4, <2>1
<1>8. UpsertFinds'
  <2> SUFFICES ASSUME NEW s \in Tasks, task'[s].pc = "find_one", KeepsKey(task'[s].op)
               PROVE  \/ \E j \in Ids : docs'[j] # None /\ Matches(docs'[j], task'[s].op.key)
                      \/ \E r \in Tasks \ {s} : TakesFrom(task'[r], task'[s].op.key)
      BY DEF UpsertFinds, HasMatch, Matches, KeepsKey, TookFrom, TakesFrom
  <2>1. CASE s = t
      BY <1>1, <2>1
  <2>2. CASE s # t
    <3>1. task'[s] = task[s]
        BY <1>1, <2>2
    <3>2. task[s].op \in UpsertCalls
        BY <3>1 DEF MongoInv, Calls, Call
    <3>3. HasMatch(task[s].op.key) \/ TookFrom(s, task[s].op.key)
        BY <3>1 DEF MongoInv, UpsertFinds
    <3> QED BY <1>4, <1>5, <2>2, <3>1, <3>2, <3>3
  <2> QED BY <2>1, <2>2
<1> QED BY <1>2, <1>6, <1>7, <1>8

\* One call moves, the collection rests.
LEMMA CallRests ==
    ASSUME MongoInv, NEW t \in Tasks, NEW tk, GoesOn(task[t], tk),
           task' = [task EXCEPT ![t] = tk], UNCHANGED <<unique, docs, source>>,
           FoundNoRow(tk) => TookFrom(t, tk.op.key), tk.pc # "find_one"
    PROVE  MongoInv'
<1>1. Calls' /\ UpsertFinds' /\ UpsertFound' /\ RekeyedByCall'
  <2>1. \A key : HasMatch(key) => \E j \in Ids : docs'[j] # None /\ Matches(docs'[j], key)
      BY DEF HasMatch
  <2>2. \A i \in Ids : source'[i] = "rekeyed" => source[i] = "rekeyed"
      OBVIOUS
  <2> QED BY <2>1, <2>2, CallMoves
<1>2. TypeOK' /\ UniqueHolds' /\ IdIsKey' /\ Sourced'
    BY DEF MongoInv, TypeOK, UniqueHolds, IdIsKey, Sourced, Stored
<1> QED BY <1>1, <1>2 DEF MongoInv

\* One call stores a document and goes on.
LEMMA StoresKeeps ==
    ASSUME NoneIsNoValue, MongoInv, NEW t \in Tasks, NEW tk, GoesOn(task[t], tk),
           NEW i \in Ids, NEW doc \in Documents, NEW how \in {"insert", "upsert", "rekeyed"},
           Stores(i, doc, how, t, tk),
           unique => \A j \in Ids \ {i} : docs[j] # None => docs[j]["id"] # doc["id"],
           i \in Oids => how # "insert",
           how = "insert" => doc["id"] = i,
           how = "upsert" => i \in Oids,
           how = "rekeyed" => source[i] = "rekeyed" \/ Rekeys(tk),
           \A s \in Tasks \ {t} :
               /\ task[s].op \in UpsertCalls /\ KeepsKey(task[s].op)
               /\ docs[i] # None /\ Matches(docs[i], task[s].op.key)
               => \/ Matches(doc, task[s].op.key)
                  \/ TookFrom(s, task[s].op.key)
                  \/ TakesFrom(tk, task[s].op.key),
           tk.pc = "find_one" /\ KeepsKey(tk.op) => Matches(doc, tk.op.key),
           tk.pc = "done" => tk.op \notin UpsertCalls
    PROVE  MongoInv'
<1>1. /\ docs \in [Ids -> Documents \cup {None}]
      /\ source \in [Ids -> {None, "insert", "upsert", "rekeyed"}]
    BY DEF MongoInv, TypeOK
<1>2. /\ DOMAIN docs' = Ids /\ \A j \in Ids : docs'[j] = IF j = i THEN doc ELSE docs[j]
      /\ DOMAIN source' = Ids /\ \A j \in Ids : source'[j] = IF j = i THEN how ELSE source[j]
      /\ task' = [task EXCEPT ![t] = tk] /\ unique' = unique
    BY <1>1 DEF Stores
<1>3. doc # None /\ how # None
    BY DEF NoneIsNoValue
<1>4. TypeOK'
    BY <1>1 DEF TypeOK, Stores
<1>5. UniqueHolds'
    BY <1>2, <1>3 DEF MongoInv, UniqueHolds, Stored
<1>6. IdIsKey'
    BY <1>2, <1>3 DEF MongoInv, IdIsKey, Stored
<1>7. Sourced'
    BY <1>2, <1>3 DEF MongoInv, Sourced
<1>8. Calls' /\ UpsertFinds' /\ UpsertFound' /\ RekeyedByCall'
  <2>1. ~FoundNoRow(tk)
      BY DEF FoundNoRow
  <2>2. docs'[i] # None /\ docs'[i] = doc
      BY <1>2, <1>3
  <2>3. ASSUME NEW s \in Tasks \ {t}, task[s].op \in UpsertCalls, KeepsKey(task[s].op),
               HasMatch(task[s].op.key)
        PROVE  \/ \E n \in Ids : docs'[n] # None /\ Matches(docs'[n], task[s].op.key)
               \/ TookFrom(s, task[s].op.key)
               \/ TakesFrom(tk, task[s].op.key)
    <3>1. PICK j \in Ids : docs[j] # None /\ Matches(docs[j], task[s].op.key)
        BY <2>3 DEF HasMatch
    <3>2. CASE j = i
        BY <2>2, <2>3, <3>1, <3>2
    <3>3. CASE j # i
      <4>1. docs'[j] = docs[j]
          BY <1>2, <3>3
      <4> QED BY <3>1, <4>1
    <3> QED BY <3>2, <3>3
  <2>4. \A j \in Ids : source'[j] = "rekeyed" => source[j] = "rekeyed" \/ Rekeys(tk)
      BY <1>2
  <2>5. tk.pc = "find_one" /\ KeepsKey(tk.op)
            => \E j \in Ids : docs'[j] # None /\ Matches(docs'[j], tk.op.key)
      BY <2>2
  <2> QED BY <1>2, <2>1, <2>3, <2>4, <2>5, CallMoves
<1> QED BY <1>2, <1>4, <1>5, <1>6, <1>7, <1>8 DEF MongoInv

\* A call at another command of its operation.
At(tk, p) == [tk EXCEPT !.pc = p]

LEMMA AtIsCall ==
    ASSUME NEW tk, DOMAIN tk = TaskFields, tk.i \in Nat \ {0}, tk.result = None, NEW p,
           \/ /\ p = "replace_one" /\ tk.op \in Inserts /\ tk.i \in 1 .. Len(tk.op.rows)
              /\ tk.op.on_conflict = "replace"
           \/ p \in {"update_one", "find_one"} /\ tk.op \in UpsertCalls
           \/ p = "update_many" /\ tk.op \in Updates
           \/ p = "delete_many" /\ tk.op \in Deletes
           \/ p = "find" /\ tk.op \in Queries
    PROVE  Call(At(tk, p)) /\ At(tk, p).pc = p /\ At(tk, p).op = tk.op /\ At(tk, p).i = tk.i
<1> DEFINE new == At(tk, p)
<1>1. /\ DOMAIN new = TaskFields /\ new.pc = p /\ new.op = tk.op /\ new.i = tk.i /\ new.result = None
    BY DEF TaskFields, At
<1> HIDE DEF new
<1>2. Call(new)
    BY <1>1 DEF Call
<1> QED BY <1>1, <1>2 DEF new

LEMMA StartKeeps ==
    ASSUME NoneIsNoValue, MongoInv, NEW t \in Tasks, Start(t)
    PROVE  MongoInv'
<1>1. PICK op \in Inserts \cup UpsertCalls \cup Updates \cup Deletes \cup Queries :
         task' = [task EXCEPT ![t] =
            LET tk == [@ EXCEPT !.op = op]
            IN  CASE op.op = "insert" -> NextDocument(tk)
                  [] op.op = "upsert" -> [tk EXCEPT !.pc = "update_one"]
                  [] op.op = "update" -> [tk EXCEPT !.pc = "update_many"]
                  [] op.op = "delete" -> [tk EXCEPT !.pc = "delete_many"]
                  [] OTHER -> [tk EXCEPT !.pc = "find"]]
    BY DEF Start
<1> DEFINE old == task[t]
           tk == [old EXCEPT !.op = op]
           new == CASE op.op = "insert" -> NextDocument(tk)
                    [] op.op = "upsert" -> At(tk, "update_one")
                    [] op.op = "update" -> At(tk, "update_many")
                    [] op.op = "delete" -> At(tk, "delete_many")
                    [] OTHER -> At(tk, "find")
<1>2. task' = [task EXCEPT ![t] = new]
    BY <1>1 DEF At
<1>3. old.pc = "new" /\ UNCHANGED <<unique, docs, source>>
    BY DEF Start
<1>4. DOMAIN old = TaskFields /\ old.i \in Nat \ {0} /\ old.result = None
    BY <1>3 DEF MongoInv, Calls, Call
<1>5. DOMAIN tk = TaskFields /\ tk.i \in Nat \ {0} /\ tk.result = None /\ tk.op = op
    BY <1>4 DEF TaskFields
<1> HIDE DEF old
<1>6. Call(new) /\ new.pc # "find_one" /\ ~FoundNoRow(new)
  <2> HIDE DEF tk
  <2>1. CASE op \in Inserts
    <3>1. new = NextDocument(tk)
        BY <2>1, KindsDiffer
    <3>2. Call(NextDocument(tk)) /\ NextDocument(tk).op = op /\ NextDocument(tk).pc \in {"insert_one", "done"}
        BY <1>5, <2>1, NextIsCall
    <3>3. op \notin UpsertCalls
        BY <2>1, KindsDiffer
    <3> HIDE DEF new
    <3> QED BY <3>1, <3>2, <3>3 DEF FoundNoRow
  <2>2. CASE op \in UpsertCalls
    <3>1. new = At(tk, "update_one")
        BY <2>2, KindsDiffer
    <3>2. Call(At(tk, "update_one")) /\ At(tk, "update_one").pc = "update_one"
        BY <1>5, <2>2, AtIsCall
    <3> HIDE DEF new
    <3> QED BY <3>1, <3>2 DEF FoundNoRow
  <2>3. CASE op \in Updates
    <3>1. new = At(tk, "update_many")
        BY <2>3, KindsDiffer
    <3>2. Call(At(tk, "update_many")) /\ At(tk, "update_many").pc = "update_many"
        BY <1>5, <2>3, AtIsCall
    <3> HIDE DEF new
    <3> QED BY <3>1, <3>2 DEF FoundNoRow
  <2>4. CASE op \in Deletes
    <3>1. new = At(tk, "delete_many")
        BY <2>4, KindsDiffer
    <3>2. Call(At(tk, "delete_many")) /\ At(tk, "delete_many").pc = "delete_many"
        BY <1>5, <2>4, AtIsCall
    <3> HIDE DEF new
    <3> QED BY <3>1, <3>2 DEF FoundNoRow
  <2>5. CASE op \in Queries
    <3>1. new = At(tk, "find")
        BY <2>5, KindsDiffer
    <3>2. Call(At(tk, "find")) /\ At(tk, "find").pc = "find"
        BY <1>5, <2>5, AtIsCall
    <3> HIDE DEF new
    <3> QED BY <3>1, <3>2 DEF FoundNoRow
  <2> QED BY <2>1, <2>2, <2>3, <2>4, <2>5
<1> HIDE DEF new
<1>7. GoesOn(old, new)
  <2>1. Call(old)
      BY DEF MongoInv, Calls, old
  <2>2. old.pc # "find_one" /\ old.pc # "done"
      BY <1>3
  <2> QED BY <1>3, <1>6, <2>1, <2>2 DEF GoesOn
<1> QED BY <1>2, <1>3, <1>6, <1>7, CallRests DEF old

\* The command of an insert that stored row tk.i, or passed it over.
LEMMA InsertGoesOn ==
    ASSUME NEW tk, Call(tk), tk.pc \in {"insert_one", "replace_one"}, NEW out
    PROVE  LET new == NextDocument([tk EXCEPT !.i = @ + 1, !.out = out])
           IN  /\ GoesOn(tk, new) /\ new.pc \in {"insert_one", "done"}
               /\ new.op = tk.op /\ new.op \notin UpsertCalls /\ new.i > 1
<1> DEFINE further == [tk EXCEPT !.i = @ + 1, !.out = out]
<1>1. tk.op \in Inserts /\ tk.i \in Nat \ {0} /\ tk.result = None /\ DOMAIN tk = TaskFields
    BY DEF Call
<1>2. /\ DOMAIN further = TaskFields /\ further.op = tk.op /\ further.i = tk.i + 1
      /\ further.result = None
    BY <1>1 DEF TaskFields
<1> HIDE DEF further
<1> DEFINE new == NextDocument(further)
<1>3. Call(new) /\ new.op = tk.op /\ new.i = tk.i + 1 /\ new.pc \in {"insert_one", "done"}
    BY <1>1, <1>2, NextIsCall
<1>4. tk.op \notin UpsertCalls
    BY <1>1, KindsDiffer
<1> HIDE DEF new
<1>5. new.i > 1 /\ new.i >= tk.i
    BY <1>1, <1>3
<1>6. GoesOn(tk, new)
    BY <1>3, <1>5 DEF GoesOn
<1> QED BY <1>3, <1>4, <1>5, <1>6 DEF new, further

\* The end of a call.
LEMMA EndGoesOn ==
    ASSUME NEW tk, Call(tk), tk.pc # "done", NEW result
    PROVE  /\ GoesOn(tk, Ends(tk, result)) /\ Ends(tk, result).pc = "done"
           /\ Ends(tk, result).op = tk.op /\ Ends(tk, result).result = result
<1> DEFINE new == Ends(tk, result)
<1>1. Call(new) /\ new.pc = "done" /\ new.op = tk.op /\ new.i = tk.i /\ new.result = result
    BY EndsIsCall
<1> HIDE DEF new
<1>2. tk.i \in Nat
    BY DEF Call
<1>3. GoesOn(tk, new)
    BY <1>1, <1>2 DEF GoesOn
<1> QED BY <1>1, <1>3 DEF new

LEMMA InsertOneKeeps ==
    ASSUME NoneIsNoValue, IdsDiffer, MongoInv, NEW t \in Tasks, InsertOne(t)
    PROVE  MongoInv'
<1> DEFINE tk == task[t]
           doc == tk.op.rows[tk.i]
           i == doc["id"]
           after == [tk EXCEPT !.i = @ + 1]
           stored == NextDocument([after EXCEPT !.out = Append(@, doc)])
<1>1. Call(tk) /\ tk.pc = "insert_one" /\ DOMAIN tk = TaskFields /\ tk.op \in Inserts
      /\ tk.i \in 1 .. Len(tk.op.rows)
    BY DEF MongoInv, Calls, Call, InsertOne
<1>2. doc \in Documents /\ i \in Keys /\ i \notin Oids /\ i \in Ids
    BY <1>1, InsertRows DEF IdsDiffer, Ids
<1>3. CASE ~Duplicate(i, doc) /\ Stores(i, doc, "insert", t, stored)
  <2>1. [after EXCEPT !.out = Append(@, doc)] = [tk EXCEPT !.i = @ + 1, !.out = Append(tk.out, doc)]
      BY <1>1 DEF TaskFields
  <2>2. GoesOn(tk, stored) /\ stored.pc \in {"insert_one", "done"} /\ stored.op \notin UpsertCalls
      BY <1>1, <2>1, InsertGoesOn
  <2>3. docs[i] = None /\ (unique => \A j \in Ids \ {i} : docs[j] # None => docs[j]["id"] # doc["id"])
      BY <1>3 DEF Duplicate
  <2> HIDE DEF stored
  <2> QED BY <1>1, <1>2, <1>3, <2>2, <2>3, StoresKeeps
<1>4. CASE Duplicate(i, doc) /\ UNCHANGED <<unique, docs, source>>
           /\ task' = [task EXCEPT ![t] =
                   CASE tk.op.on_conflict = "ignore" -> NextDocument(after)
                     [] tk.op.on_conflict = "replace" -> [tk EXCEPT !.pc = "replace_one"]
                     [] OTHER -> Raises(tk, "constraint")]
  <2>1. CASE tk.op.on_conflict = "ignore"
    <3>1. task' = [task EXCEPT ![t] = NextDocument(after)]
        BY <1>4, <2>1
    <3>2. after = [tk EXCEPT !.i = @ + 1, !.out = tk.out]
        BY <1>1 DEF TaskFields
    <3>3. GoesOn(tk, NextDocument(after)) /\ NextDocument(after).pc \in {"insert_one", "done"}
          /\ NextDocument(after).op \notin UpsertCalls
        BY <1>1, <3>2, InsertGoesOn
    <3> HIDE DEF after
    <3> QED BY <1>1, <1>4, <3>1, <3>3, CallRests DEF FoundNoRow
  <2>2. CASE tk.op.on_conflict = "replace"
    <3> DEFINE new == At(tk, "replace_one")
    <3>1. task' = [task EXCEPT ![t] = new]
        BY <1>4, <2>2 DEF At
    <3>2. Call(new) /\ new.pc = "replace_one" /\ new.op = tk.op /\ new.i = tk.i
        BY <1>1, <2>2, AtIsCall DEF Call
    <3> HIDE DEF new
    <3>3. GoesOn(tk, new)
        BY <1>1, <3>2 DEF GoesOn
    <3> QED BY <1>1, <1>4, <3>1, <3>2, <3>3, CallRests DEF FoundNoRow
  <2>3. CASE tk.op.on_conflict # "ignore" /\ tk.op.on_conflict # "replace"
    <3> DEFINE new == Raises(tk, "constraint")
    <3>1. task' = [task EXCEPT ![t] = new]
        BY <1>4, <2>3
    <3>2. GoesOn(tk, new) /\ new.pc = "done" /\ new.op = tk.op
        BY <1>1, EndGoesOn DEF Raises
    <3>3. ~FoundNoRow(new)
        BY <1>1, <3>2, KindsDiffer DEF FoundNoRow
    <3> HIDE DEF new
    <3> QED BY <1>1, <1>4, <3>1, <3>2, <3>3, CallRests
  <2> QED BY <2>1, <2>2, <2>3
<1> QED BY <1>3, <1>4 DEF InsertOne

LEMMA ReplaceOneKeeps ==
    ASSUME NoneIsNoValue, IdsDiffer, MongoInv, NEW t \in Tasks, ReplaceOne(t)
    PROVE  MongoInv'
<1> DEFINE tk == task[t]
           doc == tk.op.rows[tk.i]
           i == doc["id"]
           stored == NextDocument([tk EXCEPT !.i = @ + 1, !.out = Append(@, doc)])
           clash == unique /\ \E j \in Ids \ {i} : docs[j] # None /\ docs[j]["id"] = i
<1>1. Call(tk) /\ tk.pc = "replace_one" /\ DOMAIN tk = TaskFields /\ tk.op \in Inserts
      /\ tk.i \in 1 .. Len(tk.op.rows)
    BY DEF MongoInv, Calls, Call, ReplaceOne
<1>2. doc \in Documents /\ i \in Keys /\ i \notin Oids /\ i \in Ids
    BY <1>1, InsertRows DEF IdsDiffer, Ids
<1>3. CASE ~clash /\ Stores(i, doc, "insert", t, stored)
  <2>1. /\ GoesOn(tk, stored) /\ stored.pc \in {"insert_one", "done"}
        /\ stored.op = tk.op /\ stored.op \notin UpsertCalls /\ stored.i > 1
      BY <1>1, InsertGoesOn
  <2>2. unique => \A j \in Ids \ {i} : docs[j] # None => docs[j]["id"] # doc["id"]
      BY <1>3
  <2> HIDE DEF stored
  <2>3. ASSUME NEW s \in Tasks \ {t}, task[s].op \in UpsertCalls, KeepsKey(task[s].op),
               docs[i] # None, Matches(docs[i], task[s].op.key)
        PROVE  \/ Matches(doc, task[s].op.key)
               \/ TookFrom(s, task[s].op.key)
               \/ TakesFrom(stored, task[s].op.key)
    <3> DEFINE key == task[s].op.key
    <3>1. CASE DOMAIN key # {"id"}
      <4>1. TakesFrom(stored, key)
          BY <1>1, <2>1, <3>1 DEF TakesFrom, Call
      <4> QED BY <4>1
    <3>2. CASE DOMAIN key = {"id"} /\ docs[i]["id"] = i
        BY <2>3, <3>2 DEF Matches
    <3>3. CASE DOMAIN key = {"id"} /\ docs[i]["id"] # i
      <4>1. source[i] = "rekeyed"
          BY <1>2, <2>3, <3>3 DEF MongoInv, Sourced, TypeOK, IdIsKey, Stored
      <4>2. PICK n \in Tasks : Rekeys(task[n])
          BY <1>2, <4>1 DEF MongoInv, RekeyedByCall
      <4>3. n # s
        <5>1. "id" \in DOMAIN task[s].op.values => task[s].op.values["id"] = key["id"]
            BY <2>3, <3>3 DEF KeepsKey, Matches, Patched
        <5>2. task[s].op \notin Updates
            BY <2>3, KindsDiffer
        <5> QED BY <3>3, <4>2, <5>1, <5>2 DEF Rekeys
      <4>4. TakesFrom(task[n], key)
          BY <3>3, <4>2 DEF Rekeys, TakesFrom
      <4> QED BY <4>3, <4>4 DEF TookFrom
    <3> QED BY <3>1, <3>2, <3>3
  <2> QED BY <1>1, <1>2, <1>3, <2>1, <2>2, <2>3, StoresKeeps
<1>4. CASE clash /\ task' = [task EXCEPT ![t] = Raises(tk, "driver")] /\ UNCHANGED <<unique, docs, source>>
  <2>1. GoesOn(tk, Raises(tk, "driver")) /\ Raises(tk, "driver").op = tk.op
        /\ Raises(tk, "driver").pc = "done"
      BY <1>1, EndGoesOn DEF Raises
  <2>2. ~FoundNoRow(Raises(tk, "driver"))
      BY <1>1, <2>1, KindsDiffer DEF FoundNoRow
  <2> QED BY <1>1, <1>4, <2>1, <2>2, CallRests
<1> QED BY <1>3, <1>4 DEF ReplaceOne

LEMMA UpdateOneKeeps ==
    ASSUME NoneIsNoValue, IdsDiffer, MongoInv, NEW t \in Tasks, UpdateOne(t)
    PROVE  MongoInv'
<1> DEFINE tk == task[t]
           sets == Patched(tk.op.key, tk.op.values)
           found == Found(tk.op.key)
           fresh == {i \in Oids : source[i] = None}
           doc(i) == Patched(IF i \in found THEN docs[i] ELSE Blank, sets)
           clash(i) == unique /\ \E j \in Ids \ {i} : docs[j] # None /\ docs[j]["id"] = doc(i)["id"]
           how(i) == IF i \notin found THEN "upsert"
                     ELSE IF doc(i)["id"] # docs[i]["id"] THEN "rekeyed" ELSE source[i]
           at == IF found = {} THEN fresh ELSE found
           reads == At(tk, "find_one")
<1>1. Call(tk) /\ tk.pc = "update_one" /\ DOMAIN tk = TaskFields /\ tk.op \in UpsertCalls
      /\ tk.i \in Nat \ {0} /\ tk.result = None
    BY DEF MongoInv, Calls, Call, UpdateOne
<1>2. Call(reads) /\ reads.pc = "find_one" /\ reads.op = tk.op /\ reads.i = tk.i
    BY <1>1, AtIsCall
<1>3. \/ \E i \in at : ~clash(i) /\ Stores(i, doc(i), how(i), t, reads)
      \/ task' = [task EXCEPT ![t] = Raises(tk, "driver")] /\ UNCHANGED <<unique, docs, source>>
    BY DEF UpdateOne, At
<1> HIDE DEF reads
<1>4. GoesOn(tk, reads)
    BY <1>1, <1>2 DEF GoesOn
<1>5. CASE \E i \in at : ~clash(i) /\ Stores(i, doc(i), how(i), t, reads)
  <2>1. PICK i \in at : ~clash(i) /\ Stores(i, doc(i), how(i), t, reads)
      BY <1>5
  <2> DEFINE old == IF i \in found THEN docs[i] ELSE Blank
             new == Patched(old, sets)
             source_i == how(i)
  <2>2. /\ i \in Ids /\ docs[i] \in Documents \cup {None}
        /\ source[i] \in {None, "insert", "upsert", "rekeyed"}
        /\ i \in found => docs[i] # None /\ Matches(docs[i], tk.op.key) /\ source[i] # None
        /\ i \notin found => i \in Oids /\ source[i] = None /\ docs[i] = None
      BY DEF Found, MongoInv, TypeOK, Ids, Sourced
  <2>3. old \in Documents
      BY <2>2 DEF Blank, Documents, Fields
  <2>4. /\ new \in Documents
        /\ \A f \in Fields : new[f] = IF f \in DOMAIN tk.op.values THEN tk.op.values[f]
                                      ELSE IF f \in DOMAIN tk.op.key THEN tk.op.key[f] ELSE old[f]
        /\ KeepsKey(tk.op) => Matches(new, tk.op.key)
      BY <1>1, <2>3, UpsertWrites
  <2>5. doc(i) = new
      OBVIOUS
  <2>6. source_i = IF i \notin found THEN "upsert"
                   ELSE IF new["id"] # docs[i]["id"] THEN "rekeyed" ELSE source[i]
      OBVIOUS
  <2>7. unique => \A j \in Ids \ {i} : docs[j] # None => docs[j]["id"] # new["id"]
      BY <2>1
  <2>8. Stores(i, new, source_i, t, reads)
      BY <2>1
  <2>9. ASSUME i \in found, new["id"] # docs[i]["id"] PROVE Rekeys(reads)
    <3>1. /\ "id" \in Fields
          /\ "id" \in DOMAIN tk.op.key => docs[i]["id"] = tk.op.key["id"]
        BY <2>2, <2>9 DEF Fields, Matches
    <3>2. "id" \in DOMAIN tk.op.values
        BY <2>4, <2>9, <3>1
    <3>3. "id" \in DOMAIN tk.op.key => tk.op.values["id"] # tk.op.key["id"]
        BY <2>4, <2>9, <3>1, <3>2
    <3> QED BY <1>1, <1>2, <3>2, <3>3 DEF Rekeys
  <2>10. ASSUME NEW s \in Tasks \ {t}, task[s].op \in UpsertCalls,
                docs[i] # None, Matches(docs[i], task[s].op.key)
         PROVE  Matches(new, task[s].op.key) \/ TakesFrom(reads, task[s].op.key)
    <3> DEFINE key == task[s].op.key
    <3>1. CASE DOMAIN tk.op.values \cap DOMAIN key # {}
        BY <1>1, <1>2, <3>1 DEF TakesFrom
    <3>2. CASE DOMAIN tk.op.values \cap DOMAIN key = {}
      <4>1. DOMAIN key \subseteq Fields
          BY <2>10, UpsertCall
      <4>2. old = docs[i] /\ Matches(old, tk.op.key) /\ Matches(old, key)
          BY <2>2, <2>10
      <4> HIDE DEF old, key
      <4> QED BY <1>1, <2>3, <3>2, <4>1, <4>2, UpsertLeaves DEF key
    <3> QED BY <3>1, <3>2
  <2> HIDE DEF new, old, found
  <2>11. /\ source_i \in {"insert", "upsert", "rekeyed"}
         /\ i \in Oids => source_i # "insert"
         /\ source_i = "insert" => new["id"] = i
         /\ source_i = "upsert" => i \in Oids
         /\ source_i = "rekeyed" => source[i] = "rekeyed" \/ Rekeys(reads)
      BY <2>2, <2>6, <2>9 DEF MongoInv, Sourced, IdIsKey, Stored
  <2> HIDE DEF source_i
  <2> QED BY <1>2, <1>4, <2>2, <2>4, <2>7, <2>8, <2>10, <2>11, StoresKeeps
<1>6. CASE task' = [task EXCEPT ![t] = Raises(tk, "driver")] /\ UNCHANGED <<unique, docs, source>>
  <2> DEFINE new == Raises(tk, "driver")
  <2>1. GoesOn(tk, new) /\ new.pc = "done" /\ new.result = [error |-> "driver"]
      BY <1>1, EndGoesOn DEF Raises
  <2> HIDE DEF new
  <2>2. ~FoundNoRow(new)
      BY <2>1 DEF FoundNoRow
  <2> QED BY <1>1, <1>6, <2>1, <2>2, CallRests DEF new
<1> QED BY <1>3, <1>5, <1>6

LEMMA FindOneKeeps ==
    ASSUME MongoInv, NEW t \in Tasks, FindOne(t)
    PROVE  MongoInv'
<1> DEFINE tk == task[t]
           Row(i) == [rows |-> {docs[i]}, affected |-> 1]
           nothing == [rows |-> {}, affected |-> 1]
<1>1. Call(tk) /\ tk.pc = "find_one" /\ tk.op \in UpsertCalls
      /\ UNCHANGED <<unique, docs, source>>
    BY DEF MongoInv, Calls, Call, FindOne
<1>2. CASE \E i \in Found(tk.op.key) : task' = [task EXCEPT ![t] = Ends(tk, Row(i))]
  <2>1. PICK i : task' = [task EXCEPT ![t] = Ends(tk, Row(i))]
      BY <1>2
  <2> DEFINE new == Ends(tk, Row(i))
  <2>2. GoesOn(tk, new) /\ new.pc = "done" /\ new.result = Row(i)
      BY <1>1, EndGoesOn
  <2>3. task' = [task EXCEPT ![t] = new]
      BY <2>1
  <2> HIDE DEF new
  <2>4. ~FoundNoRow(new)
      BY <2>2 DEF FoundNoRow
  <2> QED BY <1>1, <2>2, <2>3, <2>4, CallRests
<1>3. CASE Found(tk.op.key) = {} /\ task' = [task EXCEPT ![t] = Ends(tk, nothing)]
  <2> DEFINE new == Ends(tk, nothing)
  <2>1. GoesOn(tk, new) /\ new.pc = "done" /\ new.op = tk.op
      BY <1>1, EndGoesOn
  <2>2. task' = [task EXCEPT ![t] = new]
      BY <1>3
  <2>3. ~HasMatch(tk.op.key)
      BY <1>3 DEF HasMatch, Found
  <2>4. KeepsKey(tk.op) => TookFrom(t, tk.op.key)
      BY <1>1, <2>3 DEF MongoInv, UpsertFinds
  <2> HIDE DEF new
  <2>5. FoundNoRow(new) => TookFrom(t, new.op.key)
      BY <2>1, <2>4 DEF FoundNoRow
  <2> QED BY <1>1, <2>1, <2>2, <2>5, CallRests
<1> QED BY <1>2, <1>3 DEF FindOne

LEMMA FoundIsCounted ==
    ASSUME IdsDiffer, NEW S \in SUBSET Ids
    PROVE  Cardinality(S) \in Nat
<1>1. IsFiniteSet(S)
    BY FS_Subset DEF IdsDiffer, Ids
<1> QED BY <1>1, FS_CardinalityType

LEMMA UpdateManyKeeps ==
    ASSUME NoneIsNoValue, IdsDiffer, MongoInv, NEW t \in Tasks, UpdateMany(t)
    PROVE  MongoInv'
<1> DEFINE tk == task[t]
           changed == {i \in Found(tk.op.filter) : ~Matches(docs[i], tk.op.set)}
           new == [i \in Ids |-> IF i \in changed THEN Patched(docs[i], tk.op.set) ELSE docs[i]]
           clash == unique /\ \E i \in changed : \E j \in Ids \ {i} :
                                new[j] # None /\ new[j]["id"] = new[i]["id"]
           end == Ends(tk, [affected |-> Cardinality(changed)])
<1>1. Call(tk) /\ tk.pc = "update_many" /\ tk.op \in Updates /\ unique' = unique
    BY DEF MongoInv, Calls, Call, UpdateMany
<1>2. CASE clash /\ task' = [task EXCEPT ![t] = Raises(tk, "driver")] /\ UNCHANGED <<docs, source>>
  <2>1. GoesOn(tk, Raises(tk, "driver")) /\ Raises(tk, "driver").op = tk.op
        /\ Raises(tk, "driver").pc = "done"
      BY <1>1, EndGoesOn DEF Raises
  <2>2. ~FoundNoRow(Raises(tk, "driver"))
      BY <1>1, <2>1, KindsDiffer DEF FoundNoRow
  <2> QED BY <1>1, <1>2, <2>1, <2>2, CallRests
<1>3. CASE /\ ~clash /\ docs' = new
           /\ source' = [i \in Ids |-> IF i \in changed /\ "id" \in DOMAIN tk.op.set
                                       THEN "rekeyed" ELSE source[i]]
           /\ task' = [task EXCEPT ![t] = end]
  <2>1. GoesOn(tk, end) /\ end.pc = "done" /\ end.op = tk.op /\ end.result # None
    <3>1. Cardinality(changed) \in Nat
        BY FoundIsCounted DEF Found
    <3>2. [affected |-> Cardinality(changed)] # None
        BY <3>1 DEF NoneIsNoValue
    <3> HIDE DEF changed
    <3> QED BY <1>1, <3>2, EndGoesOn
  <2>2. /\ docs \in [Ids -> Documents \cup {None}]
        /\ source \in [Ids -> {None, "insert", "upsert", "rekeyed"}]
      BY DEF MongoInv, TypeOK
  <2>3. \A i \in changed : i \in Ids /\ docs[i] # None /\ docs[i] \in Documents
      BY <2>2 DEF Found
  <2>4. /\ \A i \in changed : Patched(docs[i], tk.op.set) \in Documents
        /\ "id" \notin DOMAIN tk.op.set => \A i \in changed : Patched(docs[i], tk.op.set)["id"] = docs[i]["id"]
      BY <1>1, <2>3, UpdateCall
  <2>5. /\ \A i \in Ids : i \notin changed => docs'[i] = docs[i]
        /\ \A i \in changed : docs'[i] \in Documents
        /\ "id" \notin DOMAIN tk.op.set => \A i \in changed : docs'[i]["id"] = docs[i]["id"]
      BY <1>3, <2>3, <2>4
  <2>6. docs' \in [Ids -> Documents \cup {None}]
      BY <1>3, <2>2, <2>4
  <2>7. /\ source' \in [Ids -> {None, "insert", "upsert", "rekeyed"}]
        /\ \A i \in Ids : source'[i] = IF i \in changed /\ "id" \in DOMAIN tk.op.set
                                       THEN "rekeyed" ELSE source[i]
      BY <1>3, <2>2
  <2>8. unique => \A i \in changed : \A j \in Ids \ {i} : docs'[j] # None => docs'[j]["id"] # docs'[i]["id"]
      BY <1>3
  <2>9. task' = [task EXCEPT ![t] = end]
      BY <1>3
  <2> HIDE DEF changed, new, clash, end
  <2>10. UniqueHolds'
    <3> SUFFICES ASSUME unique, NEW i \in Ids, NEW j \in Ids, docs'[i] # None, docs'[j] # None,
                        docs'[i]["id"] = docs'[j]["id"], i # j
                 PROVE  FALSE
        BY <1>1 DEF UniqueHolds, Stored
    <3>1. CASE i \in changed \/ j \in changed
        BY <2>8, <3>1
    <3>2. CASE i \notin changed /\ j \notin changed
        BY <2>5, <3>2 DEF MongoInv, UniqueHolds, Stored
    <3> QED BY <3>1, <3>2
  <2>11. \A i \in Ids : docs'[i] # None => docs[i] # None
      BY <2>3, <2>5
  <2>12. IdIsKey'
    <3> SUFFICES ASSUME NEW i \in Ids, docs'[i] # None
                 PROVE  /\ i \in Oids => source'[i] \in {"upsert", "rekeyed"}
                        /\ source'[i] = "insert" => docs'[i]["id"] = i
        BY DEF IdIsKey, Stored
    <3>1. /\ i \in Oids => source[i] \in {"upsert", "rekeyed"}
          /\ source[i] = "insert" => docs[i]["id"] = i
        BY <2>11 DEF MongoInv, IdIsKey, Stored
    <3> QED BY <2>5, <2>7, <3>1
  <2>13. Sourced'
    <3>1. None # "rekeyed"
        BY DEF NoneIsNoValue
    <3> QED BY <2>7, <2>11, <3>1 DEF MongoInv, Sourced
  <2>14. Calls' /\ UpsertFinds' /\ UpsertFound' /\ RekeyedByCall'
    <3>1. ~FoundNoRow(end)
        BY <1>1, <2>1, KindsDiffer DEF FoundNoRow
    <3>2. Rekeys(end) /\ \A key : TakesFrom(end, key)
        BY <1>1, <2>1 DEF Rekeys, TakesFrom
    <3>3. end.pc # "find_one"
        BY <2>1
    <3> QED BY <1>1, <2>1, <2>9, <3>1, <3>2, <3>3, CallMoves
  <2> QED BY <2>6, <2>7, <2>10, <2>12, <2>13, <2>14 DEF MongoInv, TypeOK
<1> QED BY <1>2, <1>3 DEF UpdateMany

LEMMA DeleteManyKeeps ==
    ASSUME NoneIsNoValue, IdsDiffer, MongoInv, NEW t \in Tasks, DeleteMany(t)
    PROVE  MongoInv'
<1> DEFINE tk == task[t]
           found == Found(tk.op.filter)
           end == Ends(tk, [affected |-> Cardinality(found)])
<1>1. Call(tk) /\ tk.pc = "delete_many" /\ tk.op \in Deletes /\ UNCHANGED <<unique, source>>
    BY DEF MongoInv, Calls, Call, DeleteMany
<1>2. docs' = [i \in Ids |-> IF i \in found THEN None ELSE docs[i]] /\ task' = [task EXCEPT ![t] = end]
    BY DEF DeleteMany
<1>3. GoesOn(tk, end) /\ end.pc = "done" /\ end.op = tk.op /\ end.result # None
  <2>1. Cardinality(found) \in Nat
      BY FoundIsCounted DEF Found
  <2>2. [affected |-> Cardinality(found)] # None
      BY <2>1 DEF NoneIsNoValue
  <2> HIDE DEF found
  <2> QED BY <1>1, <2>2, EndGoesOn
<1> HIDE DEF found, end
<1>4. \A i \in Ids : docs'[i] # None => docs'[i] = docs[i]
    BY <1>2
<1>5. TypeOK'
    BY <1>1, <1>2 DEF MongoInv, TypeOK
<1>6. UniqueHolds' /\ IdIsKey' /\ Sourced'
    BY <1>1, <1>4 DEF MongoInv, UniqueHolds, IdIsKey, Sourced, Stored
<1>7. Calls' /\ UpsertFinds' /\ UpsertFound' /\ RekeyedByCall'
  <2>1. ~FoundNoRow(end)
      BY <1>1, <1>3, KindsDiffer DEF FoundNoRow
  <2>2. end.pc # "find_one" /\ \A key : TakesFrom(end, key)
      BY <1>1, <1>3 DEF TakesFrom
  <2>3. \A i \in Ids : source'[i] = "rekeyed" => source[i] = "rekeyed"
      BY <1>1
  <2> QED BY <1>1, <1>2, <1>3, <2>1, <2>2, <2>3, CallMoves
<1> QED BY <1>5, <1>6, <1>7 DEF MongoInv

LEMMA FindKeeps ==
    ASSUME MongoInv, NEW t \in Tasks, Find(t)
    PROVE  MongoInv'
<1>1. Call(task[t]) /\ task[t].pc = "find" /\ task[t].op \in Queries
      /\ UNCHANGED <<unique, docs, source>>
    BY DEF MongoInv, Calls, Call, Find
<1>2. PICK result : task' = [task EXCEPT ![t] = Ends(task[t], result)]
    BY DEF Find
<1>3. /\ GoesOn(task[t], Ends(task[t], result)) /\ Ends(task[t], result).pc = "done"
      /\ Ends(task[t], result).op = task[t].op
    BY <1>1, EndGoesOn
<1>4. ~FoundNoRow(Ends(task[t], result))
    BY <1>1, <1>3, KindsDiffer DEF FoundNoRow
<1> QED BY <1>1, <1>2, <1>3, <1>4, CallRests

-----------------------------------------------------------------------------
(* The theorems.                                                              *)

LEMMA InitMongo == ASSUME NoneIsNoValue, IdsDiffer, Init PROVE MongoInv
<1>1. PICK stored \in SUBSET Keys :
         docs = [i \in Ids |-> IF i \in stored THEN Document(i, 0) ELSE None]
    BY DEF Init
<1>2. \A k \in Keys : Document(k, 0) \in Documents /\ Document(k, 0)["id"] = k /\ Document(k, 0) # None
    BY DEF Document, Documents, Fields, NoneIsNoValue
<1>3. stored = Stored /\ \A i \in Stored : i \in Keys /\ docs[i] \in Documents /\ docs[i]["id"] = i
    BY <1>1, <1>2 DEF Stored, Ids
<1>4. /\ source = [i \in Ids |-> IF docs[i] = None THEN None ELSE "insert"]
      /\ task = [t \in Tasks |-> Idle]
    BY DEF Init
<1>5. TypeOK
    BY <1>1, <1>2, <1>4 DEF TypeOK
<1>6. UniqueHolds /\ IdIsKey /\ Sourced /\ RekeyedByCall
  <2>1. None \notin {"insert", "upsert", "rekeyed"}
      BY DEF NoneIsNoValue
  <2>2. \A i \in Ids : source[i] = IF i \in Stored THEN "insert" ELSE None
      BY <1>4 DEF Stored
  <2>3. \A i \in Stored : i \notin Oids
      BY <1>3 DEF IdsDiffer
  <2> QED BY <1>3, <2>1, <2>2, <2>3 DEF UniqueHolds, IdIsKey, Sourced, RekeyedByCall, Stored
<1>7. DOMAIN Idle = TaskFields /\ Idle.pc = "new" /\ Idle.i = 1 /\ Idle.result = None
    BY DEF Idle, TaskFields
<1>8. Calls /\ UpsertFinds /\ UpsertFound
    BY <1>4, <1>7 DEF Calls, Call, UpsertFinds, UpsertFound, FoundNoRow
<1> QED BY <1>5, <1>6, <1>8 DEF MongoInv

\* The invariant of the MongoDB backend: how every document came by its _id and
\* its primary key, and what every call may still find.
THEOREM MongoInvariant == ASSUME NoneIsNoValue, IdsDiffer PROVE Spec => []MongoInv
<1>1. Init => MongoInv
    BY InitMongo
<1>2. MongoInv /\ [Next]_vars => MongoInv'
  <2> SUFFICES ASSUME MongoInv, [Next]_vars PROVE MongoInv'
      OBVIOUS
  <2>1. ASSUME NEW t \in Tasks,
               \/ Start(t) \/ InsertOne(t) \/ ReplaceOne(t) \/ UpdateOne(t) \/ FindOne(t)
               \/ UpdateMany(t) \/ DeleteMany(t) \/ Find(t)
        PROVE  MongoInv'
      BY <2>1, StartKeeps, InsertOneKeeps, ReplaceOneKeeps, UpdateOneKeeps, FindOneKeeps,
         UpdateManyKeeps, DeleteManyKeeps, FindKeeps
  <2>2. CASE UNCHANGED vars
    <3>1. UNCHANGED <<unique, docs, source, task>>
        BY <2>2 DEF vars
    <3> QED BY <3>1 DEF MongoInv, TypeOK, Calls, UniqueHolds, IdIsKey, Sourced, RekeyedByCall,
                        UpsertFinds, UpsertFound, Stored, HasMatch, TookFrom, TakesFrom,
                        Matches, Rekeys, FoundNoRow
  <2> QED BY <2>1, <2>2 DEF Next
<1> QED BY <1>1, <1>2, PTL DEF Spec

\* Every _id holds a document or none, and its source is known.
THEOREM MongoTypes == ASSUME NoneIsNoValue, IdsDiffer PROVE Spec => []TypeOK
<1>1. MongoInv => TypeOK
    BY DEF MongoInv
<1> QED BY <1>1, MongoInvariant, PTL

\* However the driver calls of concurrent callers interleave: two documents share
\* a primary key only if it is not declared unique and an upsert or a change of
\* key made one of them, a document has an _id of the database only then, and an
\* upsert that keeps its key, whichever fields it matches on, finds its row again
\* unless another call may have taken it: an update or delete, an upsert setting a
\* field of that key, or an insert replacing rows when the key is not the primary
\* key alone.
THEOREM MongoRowsKept == ASSUME NoneIsNoValue, IdsDiffer PROVE Spec => []MongoKeepsRows
<1>1. MongoInv => KeyNamesOneRow
  <2> SUFFICES ASSUME MongoInv, NEW i \in Stored, NEW j \in Stored, i # j, docs[i]["id"] = docs[j]["id"]
               PROVE  ~unique /\ {source[i], source[j]} \cap {"upsert", "rekeyed"} # {}
      BY DEF KeyNamesOneRow
  <2>1. ~unique
      BY DEF MongoInv, UniqueHolds
  <2>2. \A n \in Stored : source[n] \in {"insert", "upsert", "rekeyed"}
      BY DEF MongoInv, TypeOK, Sourced, Stored
  <2>3. ~(source[i] = "insert" /\ source[j] = "insert")
      BY DEF MongoInv, IdIsKey
  <2> QED BY <2>1, <2>2, <2>3
<1>2. MongoInv => UpsertReadsBack
  <2> SUFFICES ASSUME MongoInv, NEW t \in Tasks, FoundNoRow(task[t])
               PROVE  \E s \in Tasks \ {t} : TakesFrom(task[s], task[t].op.key)
      BY DEF UpsertReadsBack, FoundNoRow
  <2> QED BY DEF MongoInv, UpsertFound, TookFrom
<1>3. MongoInv => MongoKeepsRows
    BY <1>1, <1>2 DEF MongoInv, MongoKeepsRows
<1> QED BY <1>3, MongoInvariant, PTL
===============================================================================

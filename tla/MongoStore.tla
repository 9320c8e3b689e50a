----------------------------- MODULE MongoStore -----------------------------
(* The MongoDB backend (src/src/aura/backends/mongodb.py): concurrent callers *)
(* on one collection.  Every driver call is an action, served at once by the  *)
(* database; an insert takes one call for each document and another to        *)
(* replace it, an upsert one to write and one to read back.                   *)
(*                                                                            *)
(* A document has its database identity _id, an element of Keys when the      *)
(* backend chose it and of Oids when the database did, and the fields "id"    *)
(* (the primary key of the model) and "a", None standing for a missing one.   *)
EXTENDS Naturals, Sequences, FiniteSets

CONSTANTS Keys, Oids, Tasks, None

VARIABLES
    unique,     \* the primary key is declared unique: create_schema indexed it
    docs,       \* _id -> document or None
    source,     \* _id ever used -> "insert", "upsert" or "rekeyed": how its id came about
    task        \* task -> what its call is doing

vars == <<unique, docs, source, task>>

Ids == Keys \cup Oids
Fields == {"id", "a"}
Document(k, x) == [id |-> k, a |-> x]
Documents == [Fields -> Keys \cup {0, 1, None}]

\* None is no document, no source and no result of a call, and an _id the database
\* chooses is no primary key.
NoneIsNoValue ==
    None \notin Documents \cup {"insert", "upsert", "rekeyed"} \cup [affected : Nat] \cup [error : STRING]
IdsDiffer == Keys \cap Oids = {} /\ IsFiniteSet(Keys \cup Oids)

\* The fields of patch over those of doc, as $set puts them.
Patched(doc, patch) ==
    [f \in DOMAIN doc \cup DOMAIN patch |-> IF f \in DOMAIN patch THEN patch[f] ELSE doc[f]]

\* _filter of one equality a field, an empty filter matching everything.
Matches(doc, filter) == \A f \in DOMAIN filter : doc[f] = filter[f]
Found(filter) == {i \in Ids : docs[i] # None /\ Matches(docs[i], filter)}

\* The database refuses a second document with an _id, or with the value of a
\* unique index.
Duplicate(i, doc) ==
    \/ docs[i] # None
    \/ unique /\ \E j \in Ids \ {i} : docs[j] # None /\ docs[j]["id"] = doc["id"]

Idle == [pc |-> "new", op |-> None, i |-> 1, out |-> <<>>, result |-> None]
Ends(tk, result) == [tk EXCEPT !.pc = "done", !.result = result]
Raises(tk, error) == Ends(tk, [error |-> error])

\* The loop of _insert: the next document, or the end.
NextDocument(tk) ==
    IF tk.i > Len(tk.op.rows) THEN Ends(tk, [affected |-> Len(tk.out)])
    ELSE [tk EXCEPT !.pc = "insert_one"]

Inserts ==
    {[op |-> "insert", rows |-> <<Document(k, 0), Document(j, 1)>>, on_conflict |-> mode] :
        k \in Keys, j \in Keys, mode \in {None, "ignore", "replace"}}
\* An upsert matches on any field: the primary key, another one or both.
UpsertCalls ==
    {[op |-> "upsert", key |-> key, values |-> values] :
        key \in {[id |-> k] : k \in Keys} \cup {Document(k, 0) : k \in Keys} \cup {[a |-> 0]},
        values \in {[a |-> 1]} \cup {[id |-> k] : k \in Keys}}
Updates ==
    {[op |-> "update", filter |-> filter, set |-> set] :
        filter \in {[id |-> k] : k \in Keys}, set \in {[a |-> 1]} \cup {[id |-> k] : k \in Keys}}
Deletes == {[op |-> "delete", filter |-> filter] : filter \in {[id |-> k] : k \in Keys}}
Queries ==
    {[op |-> op, filter |-> [a |-> 1]] : op \in {"select", "count", "exists"}}

Start(t) ==
    /\ task[t].pc = "new"
    /\ \E op \in Inserts \cup UpsertCalls \cup Updates \cup Deletes \cup Queries :
         task' = [task EXCEPT ![t] =
            LET tk == [@ EXCEPT !.op = op]
            IN  CASE op.op = "insert" -> NextDocument(tk)
                  [] op.op = "upsert" -> [tk EXCEPT !.pc = "update_one"]
                  [] op.op = "update" -> [tk EXCEPT !.pc = "update_many"]
                  [] op.op = "delete" -> [tk EXCEPT !.pc = "delete_many"]
                  [] OTHER -> [tk EXCEPT !.pc = "find"]]
    /\ UNCHANGED <<unique, docs, source>>

\* A document stored under _id i by task t, which goes on as tk.
Stores(i, doc, how, t, tk) ==
    /\ docs' = [docs EXCEPT ![i] = doc]
    /\ source' = [source EXCEPT ![i] = how]
    /\ task' = [task EXCEPT ![t] = tk]
    /\ UNCHANGED unique

InsertOneWithoutId(t) ==
    LET tk == task[t]
        doc == tk.op.rows[tk.i]
    IN  /\ tk.pc = "insert_one"
        /\ \E i \in {o \in Oids : source[o] = None} :
             ~Duplicate(i, doc)
             /\ Stores(i, doc, "insert", t, NextDocument([tk EXCEPT !.i = @ + 1, !.out = Append(@, doc)]))
\* insert_one, with the primary key as _id.  On a duplicate the document is
\* skipped, replaced by a second call, or refused; those before it stay.
InsertOne(t) ==
    LET tk == task[t]
        doc == tk.op.rows[tk.i]
        i == doc["id"]
        after == [tk EXCEPT !.i = @ + 1]
    IN  /\ tk.pc = "insert_one"
        /\ \/ /\ ~Duplicate(i, doc)
              /\ Stores(i, doc, "insert", t, NextDocument([after EXCEPT !.out = Append(@, doc)]))
           \/ /\ Duplicate(i, doc)
              /\ task' = [task EXCEPT ![t] =
                   CASE tk.op.on_conflict = "ignore" -> NextDocument(after)
                     [] tk.op.on_conflict = "replace" -> [tk EXCEPT !.pc = "replace_one"]
                     [] OTHER -> Raises(tk, "constraint")]
              /\ UNCHANGED <<unique, docs, source>>

\* replace_one by _id, which inserts the document if there is none.  A unique
\* index may refuse it: the error of the driver goes to the caller as it is.
ReplaceOne(t) ==
    LET tk == task[t]
        doc == tk.op.rows[tk.i]
        i == doc["id"]
        clash == unique /\ \E j \in Ids \ {i} : docs[j] # None /\ docs[j]["id"] = i
    IN  /\ tk.pc = "replace_one"
        /\ \/ /\ ~clash
              /\ Stores(i, doc, "insert", t,
                   NextDocument([tk EXCEPT !.i = @ + 1, !.out = Append(@, doc)]))
           \/ /\ clash
              /\ task' = [task EXCEPT ![t] = Raises(tk, "driver")]
              /\ UNCHANGED <<unique, docs, source>>

\* update_one with upsert: a document that matches the key is changed, which may
\* change its primary key though not its _id; else one is made of key and values
\* under an _id the database chooses.  A unique index may refuse either.
Blank == [f \in Fields |-> None]
UpdateOne(t) ==
    LET tk == task[t]
        sets == Patched(tk.op.key, tk.op.values)
        found == Found(tk.op.key)
        fresh == {i \in Oids : source[i] = None}
        doc(i) == Patched(IF i \in found THEN docs[i] ELSE Blank, sets)
        clash(i) == unique /\ \E j \in Ids \ {i} : docs[j] # None /\ docs[j]["id"] = doc(i)["id"]
        how(i) == IF i \notin found THEN "upsert"
                  ELSE IF doc(i)["id"] # docs[i]["id"] THEN "rekeyed" ELSE source[i]
        at == IF found = {} THEN fresh ELSE found
    IN  /\ tk.pc = "update_one"
        /\ \/ \E i \in at : /\ ~clash(i)
                            /\ Stores(i, doc(i), how(i), t, [tk EXCEPT !.pc = "find_one"])
           \/ /\ at = {} \/ \E i \in at : clash(i)
              /\ task' = [task EXCEPT ![t] = Raises(tk, "driver")]
              /\ UNCHANGED <<unique, docs, source>>

\* find_one with the key: its document, whoever wrote it, or no row.
FindOne(t) ==
    LET tk == task[t]
    IN  /\ tk.pc = "find_one"
        /\ \/ \E i \in Found(tk.op.key) :
                task' = [task EXCEPT ![t] = Ends(tk, [rows |-> {docs[i]}, affected |-> 1])]
           \/ /\ Found(tk.op.key) = {}
              /\ task' = [task EXCEPT ![t] = Ends(tk, [rows |-> {}, affected |-> 1])]
        /\ UNCHANGED <<unique, docs, source>>

\* update_many counts the documents it changed, not those it matched; _id keeps
\* its value when the primary key changes.
UpdateMany(t) ==
    LET tk == task[t]
        changed == {i \in Found(tk.op.filter) : ~Matches(docs[i], tk.op.set)}
        new == [i \in Ids |-> IF i \in changed THEN Patched(docs[i], tk.op.set) ELSE docs[i]]
        clash == unique /\ \E i \in changed : \E j \in Ids \ {i} :
                              new[j] # None /\ new[j]["id"] = new[i]["id"]
    IN  /\ tk.pc = "update_many"
        /\ \/ /\ ~clash
              /\ docs' = new
              /\ source' = [i \in Ids |-> IF i \in changed /\ "id" \in DOMAIN tk.op.set
                                          THEN "rekeyed" ELSE source[i]]
              /\ task' = [task EXCEPT ![t] = Ends(tk, [affected |-> Cardinality(changed)])]
           \/ /\ clash
              /\ task' = [task EXCEPT ![t] = Raises(tk, "driver")]
              /\ UNCHANGED <<docs, source>>
        /\ UNCHANGED unique

DeleteMany(t) ==
    LET tk == task[t]
        found == Found(tk.op.filter)
    IN  /\ tk.pc = "delete_many"
        /\ docs' = [i \in Ids |-> IF i \in found THEN None ELSE docs[i]]
        /\ task' = [task EXCEPT ![t] = Ends(tk, [affected |-> Cardinality(found)])]
        /\ UNCHANGED <<unique, source>>

\* count_documents, with limit 1 for exists, and find.
Find(t) ==
    LET tk == task[t]
        found == Found(tk.op.filter)
    IN  /\ tk.pc = "find"
        /\ task' = [task EXCEPT ![t] = Ends(tk,
             CASE tk.op.op = "count" -> [count |-> Cardinality(found)]
               [] tk.op.op = "exists" -> [count |-> IF found = {} THEN 0 ELSE 1]
               [] OTHER -> [rows |-> {docs[i] : i \in found}])]
        /\ UNCHANGED <<unique, docs, source>>

Init ==
    /\ unique \in BOOLEAN
    /\ docs \in {[i \in Ids |-> IF i \in stored THEN Document(i, 0) ELSE None] :
                    stored \in SUBSET Keys}
    /\ source = [i \in Ids |-> IF docs[i] = None THEN None ELSE "insert"]
    /\ task = [t \in Tasks |-> Idle]

Next ==
    \E t \in Tasks :
        \/ Start(t) \/ InsertOne(t) \/ ReplaceOne(t) \/ UpdateOne(t) \/ FindOne(t)
        \/ UpdateMany(t) \/ DeleteMany(t) \/ Find(t)

Spec == Init /\ [][Next]_vars

-----------------------------------------------------------------------------
TypeOK ==
    /\ docs \in [Ids -> Documents \cup {None}]
    /\ source \in [Ids -> {None, "insert", "upsert", "rekeyed"}]

Stored == {i \in Ids : docs[i] # None}

\* A primary key names one row: always when it is declared unique, and otherwise
\* unless an upsert made the row, whose _id is then not its primary key, or an
\* update or an upsert by another field changed a primary key.
KeyNamesOneRow ==
    \A i, j \in Stored :
        i # j /\ docs[i]["id"] = docs[j]["id"]
            => ~unique /\ {source[i], source[j]} \cap {"upsert", "rekeyed"} # {}

\* Only an upsert lets the database choose an _id, and an insert stores a row
\* under its own primary key.
IdIsKey ==
    \A i \in Stored : /\ i \in Oids => source[i] \in {"upsert", "rekeyed"}
                      /\ source[i] = "insert" => docs[i]["id"] = i

\* What a call must have done to take a row from those that match a key: an update
\* or delete, an upsert that sets a field of the key, an insert that replaced a row
\* and so its fields beside the primary key.
TakesFrom(tk, key) ==
    \/ tk.op \in Updates \cup Deletes /\ tk.result # None
    \/ /\ tk.op \in UpsertCalls /\ tk.pc \in {"find_one", "done"}
       /\ DOMAIN tk.op.values \cap DOMAIN key # {}
    \/ /\ tk.op \in Inserts /\ tk.op.on_conflict = "replace" /\ tk.i > 1
       /\ DOMAIN key # {"id"}

\* An upsert that ends without its row has changed a field of its key, or another
\* task has taken the row before it was read back.
KeepsKey(op) == Matches(Patched(op.key, op.values), op.key)
UpsertReadsBack ==
    \A t \in Tasks :
        /\ task[t].pc = "done" /\ task[t].op \in UpsertCalls /\ KeepsKey(task[t].op)
        /\ "rows" \in DOMAIN task[t].result /\ task[t].result.rows = {}
        => \E s \in Tasks \ {t} : TakesFrom(task[s], task[t].op.key)

MongoKeepsRows == KeyNamesOneRow /\ IdIsKey /\ UpsertReadsBack
=============================================================================

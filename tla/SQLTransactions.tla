--------------------------- MODULE SQLTransactions ---------------------------
(* SQLBackend (backends/sql/_backend.py) over SQLite and over PostgreSQL:     *)
(* the tasks of a client share one driver connection and the one flag          *)
(* _in_transaction.  Tasks are transaction blocks and upserts, which meet on   *)
(* one row.  A step is the code between two awaits.                           *)
(*                                                                            *)
(* Driver and database are external.  aiosqlite queues statements for its      *)
(* thread; asyncpg refuses a statement while the answer to another is awaited. *)
(* With either, a statement whose caller is cancelled may run all the same.    *)
EXTENDS Naturals, Sequences, SequencesExt

CONSTANTS Txs,     \* tasks running `async with db.transaction()` with one insert
          Upserts  \* tasks calling db.upsert

ASSUME TasksAssumption == Txs \cap Upserts = {}

Tasks == Txs \cup Upserts
TxOps == {"begin", "commit", "rollback"}
\* The commit() with which SQLite's _execute_write may end.
Autocommits == {"commitInsert", "commitUpdate"}
Ops == TxOps \cup Autocommits \cup {"probe", "insert", "update", "select"}

VARIABLES
    dialect,   \* which backend it is
    flag,      \* _in_transaction
    pc,        \* pc[t]: not started, in application code, at an await, or ended
    op,        \* op[t]: the statement task t waits for, or issues next
    outcome,   \* outcome[t]: how the task ended
    result,    \* result[t]: what the driver has answered and t has not taken
    jobs,      \* the statements the driver has not run yet
    dbtx,      \* the transaction of the connection, as the database has it
    current,   \* tasks whose write the connection sees in the row
    stored,    \* tasks whose write is committed
    met,       \* history: met[t]: tasks that ran at the same time as t
    cut,       \* history: calls that raised, or were cancelled, half way
    wrote,     \* history: tasks to which a write was reported as done
    errors     \* history: tasks a statement of which raised

clientVars == <<flag, pc, op, outcome>>
dbVars == <<dbtx, current, stored>>
historyVars == <<met, cut, wrote, errors>>
vars == <<dialect, clientVars, result, jobs, dbVars, historyVars>>

Init ==
    /\ dialect \in {"sqlite", "postgres"}
    /\ flag = FALSE
    /\ pc = [t \in Tasks |-> "new"]
    /\ op = [t \in Tasks |-> IF t \in Txs THEN "begin" ELSE "probe"]
    /\ outcome = [t \in Tasks |-> "none"]
    /\ result = [t \in Tasks |-> "none"]
    /\ jobs = <<>>
    /\ dbtx = "none" /\ current = {} /\ stored = {}
    /\ met = [t \in Tasks |-> {}]
    /\ cut = {} /\ wrote = {} /\ errors = {}

-----------------------------------------------------------------------------
(* How a task goes on.                                                        *)

Ends(t, how) ==
    /\ pc' = [pc EXCEPT ![t] = "ended"]
    /\ outcome' = [outcome EXCEPT ![t] = how]
    /\ UNCHANGED <<op, jobs, cut>>

\* The task is in the application's code; the next thing it does is one of these.
Leaves(t, nexts) ==
    /\ pc' = [pc EXCEPT ![t] = "running"]
    /\ \E next \in nexts : op' = [op EXCEPT ![t] = next]
    /\ UNCHANGED <<outcome, jobs, cut>>

\* A block goes on, returns (commit), or is left by an exception (rollback).
AfterInsert == {"select", "commit", "rollback"}
AfterSelect == {"commit", "rollback"}

\* The statement o of task t has raised.  A block may handle the exception of a
\* statement; begin(), commit() and rollback() raise to the block's caller.
Raises(t, o) ==
    /\ errors' = errors \cup {t}
    /\ IF t \in Upserts \/ o = "begin" THEN Ends(t, "failed")
       ELSE IF o \in TxOps
       THEN /\ pc' = [pc EXCEPT ![t] = "ended"]
            /\ outcome' = [outcome EXCEPT ![t] = "failed"]
            /\ cut' = cut \cup {o}
            /\ UNCHANGED <<op, jobs>>
       ELSE Leaves(t, IF o = "select" THEN AfterSelect ELSE AfterInsert)

\* The await of statement o.  asyncpg waits for a cancelled statement to be over,
\* and raises InterfaceError while another task waits for one of its own.
Awaits(t, o) ==
    IF dialect = "postgres" /\ \E i \in DOMAIN jobs : jobs[i].wanted
    THEN Raises(t, o)
    ELSE /\ jobs' = Append(jobs, [by |-> t, op |-> o, wanted |-> TRUE])
         /\ pc' = [pc EXCEPT ![t] = "waiting"]
         /\ op' = [op EXCEPT ![t] = o]
         /\ UNCHANGED <<outcome, cut, errors>>

-----------------------------------------------------------------------------
(* The calls of the backend.                                                  *)

Active == {t \in Tasks : pc[t] \in {"running", "waiting"}}

\* History: t is active from this step on.
Meets(t) ==
    LET others == IF pc[t] = "new" THEN Active ELSE {}
    IN  met' = [s \in Tasks |-> IF s = t THEN met[s] \cup others
                                ELSE IF s \in others THEN met[s] \cup {t}
                                ELSE met[s]]

\* commit() and rollback() do nothing unless the flag is set.
Call(t) ==
    /\ pc[t] \in {"new", "running"}
    /\ IF op[t] \in {"commit", "rollback"} /\ ~flag
       THEN /\ Ends(t, IF op[t] = "commit" THEN "committed" ELSE "rolledback")
            /\ UNCHANGED errors
       ELSE Awaits(t, op[t])
    /\ Meets(t)
    /\ UNCHANGED <<dialect, flag, result, dbVars, wrote>>

SwitchedWithoutBegin(t) ==
    /\ \/ op[t] = "begin" /\ flag' = flag /\ Leaves(t, {"insert"})
       \/ op[t] = "commit" /\ flag' = FALSE /\ Ends(t, "committed")
       \/ op[t] = "rollback" /\ flag' = FALSE /\ Ends(t, "rolledback")
    /\ UNCHANGED <<wrote, errors>>

SwitchedUnlessRollback(t) ==
    /\ \/ op[t] = "begin" /\ flag' = TRUE /\ Leaves(t, {"insert"})
       \/ op[t] = "commit" /\ flag' = FALSE /\ Ends(t, "committed")
       \/ op[t] = "rollback" /\ flag' = flag /\ Ends(t, "rolledback")
    /\ UNCHANGED <<wrote, errors>>

\* begin(), commit() and rollback() set the flag when the driver has returned.
Switched(t) ==
    /\ \/ op[t] = "begin" /\ flag' = TRUE /\ Leaves(t, {"insert"})
       \/ op[t] = "commit" /\ flag' = FALSE /\ Ends(t, "committed")
       \/ op[t] = "rollback" /\ flag' = FALSE /\ Ends(t, "rolledback")
    /\ UNCHANGED <<wrote, errors>>

\* The write is over: a block goes on, an upsert that has updated reads the row
\* back, one that has inserted has it from the INSERT.
Reported(t) ==
    /\ wrote' = wrote \cup {t}
    /\ \/ t \in Txs /\ Leaves(t, AfterInsert) /\ UNCHANGED errors
       \/ /\ t \in Upserts /\ op[t] \in {"insert", "commitInsert"}
          /\ Ends(t, "done") /\ UNCHANGED errors
       \/ /\ t \in Upserts /\ op[t] \in {"update", "commitUpdate"}
          /\ Awaits(t, "select")

WrittenUncommitted(t) ==
    /\ op[t] \in {"insert", "update"} \cup Autocommits
    /\ Reported(t)
    /\ UNCHANGED flag

WrittenCommitting(t) ==
    /\ op[t] \in {"insert", "update"} \cup Autocommits
    /\ IF dialect = "sqlite" /\ op[t] \notin Autocommits
       THEN Awaits(t, IF op[t] = "insert" THEN "commitInsert" ELSE "commitUpdate") /\ UNCHANGED wrote
       ELSE Reported(t)
    /\ UNCHANGED flag

\* The rest of _execute_write: SQLite commits unless the flag is set by now.
Written(t) ==
    /\ op[t] \in {"insert", "update"} \cup Autocommits
    /\ IF dialect = "sqlite" /\ ~flag /\ op[t] \notin Autocommits
       THEN Awaits(t, IF op[t] = "insert" THEN "commitInsert" ELSE "commitUpdate") /\ UNCHANGED wrote
       ELSE Reported(t)
    /\ UNCHANGED flag

\* _upsert: the probe decides between update and insert.  There is no update if the
\* upsert has no values beyond its key.
Found(t) ==
    /\ \/ op[t] = "probe" /\ result[t] = "ok" /\ Awaits(t, "insert")
       \/ /\ op[t] = "probe" /\ result[t] = "row"
          /\ Awaits(t, "update") \/ Awaits(t, "select")
       \/ op[t] = "select" /\ t \in Upserts /\ Ends(t, "done") /\ UNCHANGED errors
       \/ op[t] = "select" /\ t \in Txs /\ Leaves(t, AfterSelect) /\ UNCHANGED errors
    /\ UNCHANGED <<flag, wrote>>

\* The driver has answered.  With SQLite, begin, commit and rollback are one call of
\* the driver, the others several (execute, fetch, close).
Resume(t) ==
    /\ pc[t] = "waiting" /\ result[t] # "none"
    /\ IF result[t] \in {"error", "conflict"}
       THEN Raises(t, op[t]) /\ UNCHANGED <<flag, wrote>>
       ELSE Switched(t) \/ Written(t) \/ Found(t)
    /\ result' = [result EXCEPT ![t] = "none"]
    /\ UNCHANGED <<dialect, dbVars, met>>

CancelStillWanted(t) ==
    /\ pc[t] = "waiting" /\ result[t] = "none"
    /\ pc' = [pc EXCEPT ![t] = "ended"]
    /\ outcome' = [outcome EXCEPT ![t] = "failed"]
    /\ cut' = IF op[t] \in TxOps THEN cut \cup {op[t]} ELSE cut
    /\ UNCHANGED <<dialect, flag, op, jobs, result, dbVars, met, wrote, errors>>

\* The task is cancelled at its await.  In a block that raises at the statement,
\* and __aexit__ rolls back.
Cancel(t) ==
    /\ pc[t] = "waiting" /\ result[t] = "none"
    /\ jobs' = [i \in DOMAIN jobs |->
                   IF jobs[i].by = t THEN [jobs[i] EXCEPT !.wanted = FALSE] ELSE jobs[i]]
    /\ IF t \in Txs /\ op[t] \notin TxOps
       THEN /\ pc' = [pc EXCEPT ![t] = "running"]
            /\ op' = [op EXCEPT ![t] = "rollback"]
            /\ UNCHANGED outcome
       ELSE /\ pc' = [pc EXCEPT ![t] = "ended"]
            /\ outcome' = [outcome EXCEPT ![t] = "failed"]
            /\ UNCHANGED op
    /\ cut' = IF op[t] \in TxOps THEN cut \cup {op[t]} ELSE cut
    /\ UNCHANGED <<dialect, flag, result, dbVars, met, wrote, errors>>

-----------------------------------------------------------------------------
(* The database: one connection, its statements in order.                     *)

\* The statement fails, in PostgreSQL with all of the transaction it is in.
Errs(r) ==
    /\ r = "error"
    /\ dbtx' = IF dialect = "postgres" /\ dbtx = "open" THEN "aborted" ELSE dbtx
    /\ UNCHANGED <<current, stored>>

\* SQLite has no nested transactions, PostgreSQL warns and goes on.
RunBegin(r) ==
    \/ Errs(r)
    \/ /\ r = "ok"
       /\ dbtx = "none" \/ (dialect = "postgres" /\ dbtx = "open")
       /\ dbtx' = "open" /\ UNCHANGED <<current, stored>>

\* A commit may fail, which leaves a transaction of SQLite open.  PostgreSQL takes
\* the commit of an aborted transaction for a rollback and raises nothing.
RunCommit(r) ==
    /\ r \in {"ok", "error"} /\ (r = "error" => dbtx = "open")
    /\ dbtx' = IF r = "error" /\ dialect = "sqlite" THEN "open" ELSE "none"
    /\ stored' = IF r = "ok" /\ dbtx # "aborted" THEN current ELSE stored
    /\ current' = IF dbtx' = "none" THEN stored' ELSE current

\* A rollback does not fail.
RunRollback(r) ==
    /\ r = "ok" /\ dbtx' = "none" /\ current' = stored
    /\ UNCHANGED stored

Writes(t) ==
    /\ current' = current \cup {t}
    /\ stored' = IF dbtx = "none" THEN current' ELSE stored
    /\ UNCHANGED dbtx

\* The row exists once somebody has written it: an insert then violates its key.
\* An update of a row that does not exist touches nothing.
RunStatement(j, r) ==
    /\ dbtx # "aborted"
    /\ \/ j.op = "insert" /\ current = {} /\ r = "ok" /\ Writes(j.by)
       \/ j.op = "update" /\ current # {} /\ r = "ok" /\ Writes(j.by)
       \/ j.op = "update" /\ current = {} /\ r = "ok" /\ UNCHANGED dbVars
       \/ /\ j.op = "insert" /\ current # {} /\ r = "conflict"
          /\ dbtx' = IF dialect = "postgres" /\ dbtx = "open" THEN "aborted" ELSE dbtx
          /\ UNCHANGED <<current, stored>>
       \/ /\ j.op \in {"probe", "select"}
          /\ r = IF current = {} THEN "ok" ELSE "row"
          /\ UNCHANGED dbVars

\* The answer to one call of the driver wakes its task before the answer to the next
\* call can; only a statement of SQLite that takes several calls is overtaken.
Run ==
    /\ jobs # <<>>
    /\ \A t \in Tasks : result[t] # "none" =>
          dialect = "sqlite" /\ op[t] \notin TxOps \cup Autocommits
    /\ jobs' = Tail(jobs)
    /\ LET j == Head(jobs)
       IN  \E r \in {"ok", "row", "conflict", "error"} :
              /\ CASE j.op = "begin" -> RunBegin(r)
                   [] j.op \in {"commit"} \cup Autocommits -> RunCommit(r)
                   [] j.op = "rollback" -> RunRollback(r)
                   [] OTHER -> RunStatement(j, r) \/ Errs(r)
              /\ result' = IF j.wanted THEN [result EXCEPT ![j.by] = r] ELSE result
    /\ UNCHANGED <<dialect, clientVars, historyVars>>

-----------------------------------------------------------------------------
Next == \/ \E t \in Tasks : Call(t) \/ Resume(t) \/ Cancel(t)
        \/ Run

Spec == Init /\ [][Next]_vars

-----------------------------------------------------------------------------
(* Properties.                                                                *)

\* Types; and a task waits exactly as long as a statement of its own is with the
\* driver, or answered: no answer reaches a task that has gone on.
TypeOK ==
    /\ dialect \in {"sqlite", "postgres"}
    /\ flag \in BOOLEAN
    /\ pc \in [Tasks -> {"new", "running", "waiting", "ended"}]
    /\ op \in [Tasks -> Ops]
    /\ outcome \in [Tasks -> {"none", "committed", "rolledback", "done", "failed"}]
    /\ result \in [Tasks -> {"none", "ok", "row", "conflict", "error"}]
    /\ jobs \in Seq([by : Tasks, op : Ops, wanted : BOOLEAN])
    /\ dbtx \in {"none", "open", "aborted"}
    /\ current \subseteq Tasks /\ stored \subseteq Tasks
    /\ met \in [Tasks -> SUBSET Tasks]
    /\ cut \subseteq TxOps /\ wrote \subseteq Tasks /\ errors \subseteq Tasks
    /\ \A t \in Tasks : (pc[t] = "waiting") <=>
          (result[t] # "none") \/ \E i \in DOMAIN jobs : jobs[i].by = t /\ jobs[i].wanted

\* What an upsert that has returned wrote is committed, if no transaction block ran beside it
\* and no begin(), commit() or rollback() was cut short before.  On SQLite a
\* begin() cut short does no harm, because _execute_write commits whatever
\* transaction it finds while the flag is down.
DoneUpsertIsStored ==
    \A u \in Upserts :
        /\ outcome[u] = "done" /\ u \in wrote
        /\ met[u] \cap Txs = {}
        /\ cut \subseteq (IF dialect = "sqlite" THEN {"begin"} ELSE {})
        => u \in stored

\* A block that has committed has stored its write, if it ran alone and nothing was
\* cut short.  On SQLite that is so even when a statement of the block raised and
\* the block went on; on PostgreSQL such a block loses everything, unnoticed.
CommitKeeps ==
    \A t \in Txs :
        /\ outcome[t] = "committed" /\ t \in wrote
        /\ met[t] = {} /\ cut = {}
        /\ dialect = "postgres" => t \notin errors
        => t \in stored

\* A block that was rolled back has stored nothing, if it ran alone and nothing was
\* cut short, whatever raised in it and wherever it was cancelled.
RollbackDiscards ==
    \A t \in Txs :
        outcome[t] = "rolledback" /\ met[t] = {} /\ cut = {} => t \notin stored

\* While nobody is in begin(), commit() or rollback(), and unless one of them was
\* cut short, the flag tells whether the connection is in a transaction; on SQLite
\* only while no upsert ran beside a transaction, whose commit() may end it.
FlagTellsTransaction ==
    /\ \A t \in Tasks : pc[t] = "waiting" => op[t] \notin TxOps
    /\ cut = {}
    /\ dialect = "sqlite" => \A t \in Txs : met[t] \cap Upserts = {}
    => flag = (dbtx # "none")
=============================================================================

----------------------------- MODULE StoreProofs -----------------------------
(* Proofs about module Stores and the modules it composes.  First about       *)
(* SQLTransactions, for any number of transaction blocks and upserts and both *)
(* drivers: the driver's queue, upserts, the backend's flag, and what a block *)
(* that runs alone commits and discards.  Then the results about Redis and    *)
(* MongoDB, carried over.  Last, Migrations: for any two schemas, a plan and  *)
(* its rollback lead there and back; and Models: for any values, instances    *)
(* are read back as they were.                                                *)
EXTENDS Stores, TLAPS, SequenceTheorems, FiniteSetTheorems

Jobs == [by : Tasks, op : Ops, wanted : BOOLEAN]

Types ==
    /\ dialect \in {"sqlite", "postgres"}
    /\ flag \in BOOLEAN
    /\ pc \in [Tasks -> {"new", "running", "waiting", "ended"}]
    /\ op \in [Tasks -> Ops]
    /\ outcome \in [Tasks -> {"none", "committed", "rolledback", "done", "failed"}]
    /\ result \in [Tasks -> {"none", "ok", "row", "conflict", "error"}]
    /\ jobs \in Seq(Jobs)
    /\ dbtx \in {"none", "open", "aborted"}
    /\ current \subseteq Tasks /\ stored \subseteq Tasks
    /\ met \in [Tasks -> SUBSET Tasks]
    /\ cut \subseteq TxOps /\ wrote \subseteq Tasks /\ errors \subseteq Tasks

\* A statement somebody waits for is that task's only one, and not answered yet.
Waits ==
    /\ \A i \in DOMAIN jobs : jobs[i].wanted =>
           /\ pc[jobs[i].by] = "waiting" /\ result[jobs[i].by] = "none"
           /\ jobs[i].op = op[jobs[i].by]
           /\ \A k \in DOMAIN jobs : jobs[k].wanted /\ jobs[k].by = jobs[i].by => k = i
    /\ \A t \in Tasks : result[t] # "none" => pc[t] = "waiting"
    /\ \A t \in Tasks : pc[t] = "waiting" /\ result[t] = "none" =>
           \E i \in DOMAIN jobs : jobs[i].by = t /\ jobs[i].wanted

\* The statements that an upsert or a block issues with a driver.
Statement(t, o) ==
    /\ t \in Upserts => o \in {"probe", "insert", "update", "select"} \cup Autocommits
    /\ t \in Txs => o \in {"insert", "select", "commitInsert"} \cup TxOps
    /\ o \in Autocommits => dialect = "sqlite"

Issued ==
    /\ \A t \in Tasks : Statement(t, op[t])
    /\ \A i \in DOMAIN jobs : Statement(jobs[i].by, jobs[i].op)
    /\ \A t \in Tasks : pc[t] = "running" => t \in Txs /\ op[t] \notin {"begin"} \cup Autocommits
    /\ \A t \in Tasks : pc[t] = "new" => op[t] = IF t \in Txs THEN "begin" ELSE "probe"
    /\ \A t \in Tasks : outcome[t] # "none" <=> pc[t] = "ended"

\* A begin, commit or rollback nobody waits for any more was cut short.
CutShort ==
    \A i \in DOMAIN jobs : ~jobs[i].wanted /\ jobs[i].op \in TxOps => jobs[i].op \in cut

Database ==
    /\ stored \subseteq current
    /\ dialect = "sqlite" => dbtx # "aborted"

Queue == Types /\ Waits /\ Issued /\ CutShort /\ Database

-----------------------------------------------------------------------------
(* The forms of a task's step.                                                *)

\* The task has issued o, has ended, or has gone on to o.
Sent(t, o) ==
    /\ jobs' = Append(jobs, [by |-> t, op |-> o, wanted |-> TRUE])
    /\ pc' = [pc EXCEPT ![t] = "waiting"]
    /\ op' = [op EXCEPT ![t] = o]
    /\ UNCHANGED <<outcome, cut>>

Over(t, how) ==
    /\ pc' = [pc EXCEPT ![t] = "ended"]
    /\ outcome' = [outcome EXCEPT ![t] = how]
    /\ UNCHANGED <<op, jobs>>

GoesOn(t, o) ==
    /\ pc' = [pc EXCEPT ![t] = "running"]
    /\ op' = [op EXCEPT ![t] = o]
    /\ UNCHANGED <<outcome, jobs, cut>>

Raised(t, o) ==
    /\ errors' = errors \cup {t}
    /\ \/ (t \in Upserts \/ o = "begin") /\ Over(t, "failed") /\ cut' = cut
       \/ t \in Txs /\ o \in {"commit", "rollback"} /\ Over(t, "failed") /\ cut' = cut \cup {o}
       \/ /\ t \in Txs /\ o \notin TxOps
          /\ \E next \in {"select", "commit", "rollback"} : GoesOn(t, next)

LEMMA RaisesForm ==
    ASSUME NEW t \in Tasks, NEW o \in Ops, Raises(t, o)
    PROVE  Raised(t, o)
<1>1. CASE t \in Upserts \/ o = "begin"
    BY <1>1 DEF Raises, Raised, Ends, Over
<1>2. CASE ~(t \in Upserts \/ o = "begin") /\ o \in TxOps
    BY <1>2 DEF Raises, Raised, Over, Tasks, TxOps
<1>3. CASE ~(t \in Upserts \/ o = "begin") /\ o \notin TxOps
    BY <1>3 DEF Raises, Raised, Leaves, GoesOn, AfterInsert, AfterSelect, Tasks
<1> QED BY <1>1, <1>2, <1>3

\* With SQLite a statement is always accepted.
LEMMA AwaitsForm ==
    ASSUME NEW t \in Tasks, NEW o \in Ops, Awaits(t, o)
    PROVE  \/ Sent(t, o) /\ errors' = errors
           \/ dialect = "postgres" /\ Raised(t, o)
BY RaisesForm DEF Awaits, Sent

\* A call begins a statement, is refused, or finds the flag down.
CallForm(t) ==
    \/ Sent(t, op[t]) /\ errors' = errors
    \/ dialect = "postgres" /\ Raised(t, op[t])
    \/ /\ op[t] = "commit" /\ ~flag /\ Over(t, "committed") /\ cut' = cut /\ errors' = errors
    \/ /\ op[t] = "rollback" /\ ~flag /\ Over(t, "rolledback") /\ cut' = cut /\ errors' = errors

LEMMA CallForms ==
    ASSUME Types, NEW t \in Tasks, Call(t)
    PROVE  /\ pc[t] \in {"new", "running"}
           /\ UNCHANGED <<dialect, flag, result, dbVars, wrote>>
           /\ CallForm(t)
<1>1. op[t] \in Ops
    BY DEF Types
<1>2. CASE op[t] \in {"commit", "rollback"} /\ ~flag
    BY <1>2 DEF Call, Ends, Over, CallForm
<1>3. CASE ~(op[t] \in {"commit", "rollback"} /\ ~flag)
    BY <1>1, <1>3, AwaitsForm DEF Call, CallForm
<1> QED BY <1>2, <1>3 DEF Call

\* What the answer to a statement leads to.
Good(t) == result[t] \in {"ok", "row"}

AnswerRaises(t) ==
    result[t] \in {"error", "conflict"} /\ Raised(t, op[t]) /\ UNCHANGED <<flag, wrote>>

AnswerBegins(t) ==
    /\ op[t] = "begin" /\ Good(t) /\ flag' = TRUE
    /\ GoesOn(t, "insert") /\ UNCHANGED <<wrote, errors>>

AnswerEnds(t) ==
    /\ op[t] \in {"commit", "rollback"} /\ Good(t) /\ flag' = FALSE
    /\ Over(t, IF op[t] = "commit" THEN "committed" ELSE "rolledback")
    /\ cut' = cut /\ UNCHANGED <<wrote, errors>>

AnswerCommits(t) ==
    /\ op[t] \in {"insert", "update"} /\ Good(t) /\ dialect = "sqlite" /\ ~flag
    /\ Sent(t, IF op[t] = "insert" THEN "commitInsert" ELSE "commitUpdate")
    /\ UNCHANGED <<flag, wrote, errors>>

AnswerReports(t) ==
    /\ op[t] \in {"insert", "update"} \cup Autocommits /\ Good(t)
    /\ op[t] \in {"insert", "update"} => dialect = "postgres" \/ flag
    /\ wrote' = wrote \cup {t} /\ flag' = flag
    /\ \/ t \in Txs /\ errors' = errors /\ \E next \in AfterInsert : GoesOn(t, next)
       \/ t \in Upserts /\ Over(t, "done") /\ cut' = cut /\ errors' = errors
       \/ t \in Upserts /\ Sent(t, "select") /\ errors' = errors
       \/ t \in Upserts /\ Raised(t, "select")

AnswerProbes(t) ==
    /\ op[t] = "probe" /\ Good(t) /\ UNCHANGED <<flag, wrote>>
    /\ \E o \in {"insert", "update", "select"} :
          /\ o = "update" => result[t] = "row"
          /\ (Sent(t, o) /\ errors' = errors) \/ Raised(t, o)

AnswerReads(t) ==
    /\ op[t] = "select" /\ Good(t) /\ UNCHANGED <<flag, wrote, errors>>
    /\ \/ t \in Upserts /\ Over(t, "done") /\ cut' = cut
       \/ t \in Txs /\ \E next \in AfterSelect : GoesOn(t, next)

Answered(t) ==
    \/ AnswerRaises(t) \/ AnswerBegins(t) \/ AnswerEnds(t) \/ AnswerCommits(t)
    \/ AnswerReports(t) \/ AnswerProbes(t) \/ AnswerReads(t)

LEMMA ResumeForms ==
    ASSUME Types, NEW t \in Tasks, Resume(t)
    PROVE  /\ pc[t] = "waiting" /\ result[t] # "none"
           /\ result' = [result EXCEPT ![t] = "none"]
           /\ UNCHANGED <<dialect, dbVars, met>>
           /\ Answered(t)
<1>1. op[t] \in Ops /\ result[t] \in {"none", "ok", "row", "conflict", "error"}
    BY DEF Types
<1>2. CASE result[t] \in {"error", "conflict"}
    <2>1. Raised(t, op[t]) /\ UNCHANGED <<flag, wrote>>
        BY <1>1, <1>2, RaisesForm DEF Resume
    <2>2. AnswerRaises(t)
        BY <1>2, <2>1 DEF AnswerRaises
    <2> QED BY <2>2 DEF Resume, Answered
<1>3. CASE Switched(t) /\ Good(t)
    <2>1. AnswerBegins(t) \/ AnswerEnds(t)
        BY <1>3 DEF Switched, Leaves, Ends, AnswerBegins, AnswerEnds, GoesOn, Over
    <2> QED BY <2>1 DEF Resume, Answered
<1>4. CASE Written(t) /\ Good(t)
    <2>1. CASE dialect = "sqlite" /\ ~flag /\ op[t] \notin Autocommits
        <3> DEFINE o == IF op[t] = "insert" THEN "commitInsert" ELSE "commitUpdate"
        <3>1. Awaits(t, o) /\ wrote' = wrote /\ flag' = flag
            BY <1>4, <2>1 DEF Written
        <3> HIDE DEF o
        <3>2. Sent(t, o) /\ errors' = errors
            BY <2>1, <3>1 DEF Awaits, Sent
        <3>3. op[t] \in {"insert", "update"}
            BY <1>4, <2>1 DEF Written
        <3>4. AnswerCommits(t)
            BY <1>4, <2>1, <3>1, <3>2, <3>3 DEF AnswerCommits, o
        <3> QED BY <3>4 DEF Resume, Answered
    <2>2. CASE ~(dialect = "sqlite" /\ ~flag /\ op[t] \notin Autocommits)
        <3>1. Reported(t) /\ flag' = flag /\ op[t] \in {"insert", "update"} \cup Autocommits
            BY <1>4, <2>2 DEF Written
        <3>2. op[t] \in {"insert", "update"} => dialect = "postgres" \/ flag
            BY <2>2 DEF Types, Autocommits
        <3>3. wrote' = wrote \cup {t}
            BY <3>1 DEF Reported
        <3>4. \/ t \in Txs /\ errors' = errors /\ \E next \in AfterInsert : GoesOn(t, next)
              \/ t \in Upserts /\ Over(t, "done") /\ cut' = cut /\ errors' = errors
              \/ t \in Upserts /\ Awaits(t, "select")
            BY <3>1 DEF Reported, Leaves, GoesOn, Ends, Over
        <3>5. t \in Upserts /\ Awaits(t, "select") =>
                  \/ t \in Upserts /\ Sent(t, "select") /\ errors' = errors
                  \/ t \in Upserts /\ Raised(t, "select")
            BY AwaitsForm DEF Ops
        <3>6. AnswerReports(t)
            BY <1>4, <3>1, <3>2, <3>3, <3>4, <3>5 DEF AnswerReports
        <3> QED BY <3>6 DEF Resume, Answered
    <2> QED BY <2>1, <2>2
<1>5. CASE Found(t) /\ Good(t)
    <2>1. UNCHANGED <<flag, wrote>>
        BY <1>5 DEF Found
    <2>2. CASE op[t] = "probe"
        <3>1. PICK o \in {"insert", "update", "select"} :
                  Awaits(t, o) /\ (o = "update" => result[t] = "row")
            BY <1>5, <2>2 DEF Found
        <3>2. (Sent(t, o) /\ errors' = errors) \/ Raised(t, o)
            BY <3>1, AwaitsForm DEF Ops
        <3>3. AnswerProbes(t)
            BY <1>5, <2>1, <2>2, <3>1, <3>2 DEF AnswerProbes
        <3> QED BY <3>3 DEF Resume, Answered
    <2>3. CASE op[t] = "select"
        <3>1. \/ t \in Upserts /\ Over(t, "done") /\ cut' = cut /\ errors' = errors
              \/ t \in Txs /\ errors' = errors /\ \E next \in AfterSelect : GoesOn(t, next)
            BY <1>5, <2>3 DEF Found, Ends, Over, Leaves, GoesOn
        <3>2. AnswerReads(t)
            BY <1>5, <2>1, <2>3, <3>1 DEF AnswerReads
        <3> QED BY <3>2 DEF Resume, Answered
    <2> QED BY <1>5, <2>2, <2>3 DEF Found
<1>6. /\ pc[t] = "waiting" /\ result[t] # "none"
      /\ result' = [result EXCEPT ![t] = "none"]
      /\ UNCHANGED <<dialect, dbVars, met>>
    BY DEF Resume
<1>7. Answered(t)
    <2>1. Good(t) => Switched(t) \/ Written(t) \/ Found(t)
        BY DEF Resume, Good
    <2>2. Good(t) \/ result[t] \in {"error", "conflict"}
        BY <1>1, <1>6 DEF Good
    <2> QED BY <1>2, <1>3, <1>4, <1>5, <2>1, <2>2
<1> QED BY <1>6, <1>7

-----------------------------------------------------------------------------
(* The queue of the driver.                                                   *)

LEMMA JobsHaveIndex ==
    ASSUME Types
    PROVE  /\ Len(jobs) \in Nat /\ DOMAIN jobs = 1 .. Len(jobs)
           /\ \A i \in DOMAIN jobs : /\ jobs[i] \in Jobs /\ jobs[i].by \in Tasks
                                     /\ jobs[i].op \in Ops /\ jobs[i].wanted \in BOOLEAN
<1>1. Len(jobs) \in Nat /\ DOMAIN jobs = 1 .. Len(jobs)
    BY LenProperties DEF Types
<1>2. \A i \in DOMAIN jobs : jobs[i] \in Jobs
    BY <1>1, ElementOfSeq DEF Types
<1> QED BY <1>1, <1>2 DEF Jobs

\* A statement joins the queue at its end.
LEMMA JobsAppend ==
    ASSUME Types, NEW job \in Jobs, jobs' = Append(jobs, job)
    PROVE  /\ jobs' \in Seq(Jobs) /\ Len(jobs') = Len(jobs) + 1
           /\ DOMAIN jobs' = 1 .. Len(jobs) + 1
           /\ \A i \in DOMAIN jobs : i \in DOMAIN jobs' /\ jobs'[i] = jobs[i]
           /\ \A i \in DOMAIN jobs' : i \in DOMAIN jobs \/ i = Len(jobs) + 1
           /\ jobs'[Len(jobs) + 1] = job
           /\ Len(jobs) + 1 \in DOMAIN jobs' /\ Len(jobs) + 1 \notin DOMAIN jobs
<1>1. jobs \in Seq(Jobs) /\ Len(jobs) \in Nat /\ DOMAIN jobs = 1 .. Len(jobs)
    BY JobsHaveIndex DEF Types
<1>2. /\ jobs' \in Seq(Jobs) /\ Len(jobs') = Len(jobs) + 1
      /\ \A i \in 1 .. Len(jobs) : jobs'[i] = jobs[i]
      /\ jobs'[Len(jobs) + 1] = job
    BY <1>1, AppendProperties
<1>3. DOMAIN jobs' = 1 .. Len(jobs')
    BY <1>2, LenProperties
<1> QED BY <1>1, <1>2, <1>3

\* The first statement leaves it, and the others move up.
LEMMA JobsTail ==
    ASSUME Types, jobs # <<>>, jobs' = Tail(jobs)
    PROVE  /\ jobs' \in Seq(Jobs) /\ Len(jobs') = Len(jobs) - 1
           /\ 1 \in DOMAIN jobs /\ Head(jobs) = jobs[1]
           /\ \A i \in DOMAIN jobs' : i + 1 \in DOMAIN jobs /\ jobs'[i] = jobs[i + 1]
           /\ \A i \in DOMAIN jobs : i # 1 => i - 1 \in DOMAIN jobs' /\ jobs'[i - 1] = jobs[i]
<1>1. jobs \in Seq(Jobs) /\ Len(jobs) \in Nat /\ DOMAIN jobs = 1 .. Len(jobs)
    BY JobsHaveIndex DEF Types
<1>2. Len(jobs) # 0
    BY <1>1, EmptySeq
<1>3. /\ jobs' \in Seq(Jobs) /\ Len(jobs') = Len(jobs) - 1
      /\ \A i \in 1 .. Len(jobs') : jobs'[i] = jobs[i + 1]
    BY <1>1, HeadTailProperties
<1>4. DOMAIN jobs' = 1 .. Len(jobs')
    BY <1>3, LenProperties
<1>5. Head(jobs) = jobs[1]
    BY <1>1, <1>2
<1> QED BY <1>1, <1>2, <1>3, <1>4, <1>5

\* A task that goes on waits for nothing.
LEMMA FreeHasNoJob ==
    ASSUME Queue, NEW t \in Tasks, pc[t] \in {"new", "running"} \/ result[t] # "none",
           NEW i \in DOMAIN jobs, jobs[i].wanted
    PROVE  jobs[i].by # t
BY DEF Queue, Waits

Others(t) ==
    \A u \in Tasks : u # t => /\ pc'[u] = pc[u] /\ op'[u] = op[u]
                              /\ outcome'[u] = outcome[u] /\ result'[u] = result[u]

\* What all steps of a task have in common.
TaskStep(t) ==
    /\ pc[t] \in {"new", "running"} \/ (pc[t] = "waiting" /\ result[t] # "none")
    /\ result' = [result EXCEPT ![t] = "none"]
    /\ UNCHANGED <<dialect, dbVars>>
    /\ flag' \in BOOLEAN /\ wrote' \subseteq Tasks /\ errors' \subseteq Tasks
    /\ met' \in [Tasks -> SUBSET Tasks]

LEMMA SentKeepsQueue ==
    ASSUME Queue, NEW t \in Tasks, NEW o \in Ops, TaskStep(t), Sent(t, o), Statement(t, o)
    PROVE  Queue'
<1> DEFINE job == [by |-> t, op |-> o, wanted |-> TRUE]
<1>1. Types /\ job \in Jobs /\ jobs' = Append(jobs, job)
    BY DEF Queue, Jobs, Sent
<1>2. job.by = t /\ job.op = o /\ job.wanted = TRUE
    OBVIOUS
<1> HIDE DEF job
<1>3. /\ jobs' \in Seq(Jobs)
      /\ \A i \in DOMAIN jobs : i \in DOMAIN jobs' /\ jobs'[i] = jobs[i]
      /\ \A i \in DOMAIN jobs' : i \in DOMAIN jobs \/ i = Len(jobs) + 1
      /\ jobs'[Len(jobs) + 1] = job
      /\ Len(jobs) + 1 \in DOMAIN jobs' /\ Len(jobs) + 1 \notin DOMAIN jobs
    BY <1>1, JobsAppend
<1>4. /\ pc'[t] = "waiting" /\ op'[t] = o /\ result'[t] = "none" /\ outcome'[t] = outcome[t]
      /\ Others(t) /\ cut' = cut /\ outcome' = outcome
    BY <1>1 DEF Sent, TaskStep, Types, Others
<1>5. Types'
    BY <1>1, <1>3 DEF Types, TaskStep, Sent, dbVars
<1>6. \A i \in DOMAIN jobs : jobs[i].wanted => jobs[i].by # t
    BY FreeHasNoJob DEF TaskStep
<1>7. \A i \in DOMAIN jobs : jobs[i].by \in Tasks
    BY <1>1, JobsHaveIndex
<1>8. Waits'
    <2>1. ASSUME NEW i \in DOMAIN jobs', jobs'[i].wanted
          PROVE  /\ pc'[jobs'[i].by] = "waiting" /\ result'[jobs'[i].by] = "none"
                 /\ jobs'[i].op = op'[jobs'[i].by]
                 /\ \A k \in DOMAIN jobs' : jobs'[k].wanted /\ jobs'[k].by = jobs'[i].by => k = i
        <3>1. CASE i = Len(jobs) + 1
            BY <1>2, <1>3, <1>4, <1>6, <3>1
        <3>2. CASE i \in DOMAIN jobs
            <4>1. jobs'[i] = jobs[i] /\ jobs[i].by # t /\ jobs[i].by \in Tasks
                BY <1>3, <1>6, <1>7, <2>1, <3>2
            <4>2. /\ pc[jobs[i].by] = "waiting" /\ result[jobs[i].by] = "none"
                  /\ jobs[i].op = op[jobs[i].by]
                  /\ \A k \in DOMAIN jobs : jobs[k].wanted /\ jobs[k].by = jobs[i].by => k = i
                BY <2>1, <3>2, <4>1 DEF Queue, Waits
            <4> QED BY <1>2, <1>3, <1>4, <4>1, <4>2 DEF Others
        <3> QED BY <1>3, <2>1, <3>1, <3>2
    <2>2. ASSUME NEW u \in Tasks, result'[u] # "none" PROVE pc'[u] = "waiting"
        BY <1>4, <2>2 DEF Others, Queue, Waits
    <2>3. ASSUME NEW u \in Tasks, pc'[u] = "waiting", result'[u] = "none"
          PROVE  \E i \in DOMAIN jobs' : jobs'[i].by = u /\ jobs'[i].wanted
        <3>1. CASE u = t
            BY <1>2, <1>3, <3>1
        <3>2. CASE u # t
            <4>1. PICK i \in DOMAIN jobs : jobs[i].by = u /\ jobs[i].wanted
                BY <1>4, <2>3, <3>2 DEF Others, Queue, Waits
            <4> QED BY <1>3, <4>1
        <3> QED BY <3>1, <3>2
    <2> QED BY <2>1, <2>2, <2>3 DEF Waits
<1>9. Issued'
    <2>1. \A u \in Tasks : Statement(u, op[u])' /\ (pc'[u] = "running" => pc[u] = "running" /\ op'[u] = op[u])
        BY <1>4 DEF Queue, Issued, Statement, Others, TaskStep
    <2>2. \A i \in DOMAIN jobs' : Statement(jobs[i].by, jobs[i].op)'
        BY <1>2, <1>3 DEF Queue, Issued, Statement, TaskStep
    <2>3. \A u \in Tasks : pc'[u] = "new" => op'[u] = IF u \in Txs THEN "begin" ELSE "probe"
        BY <1>4 DEF Queue, Issued, Others
    <2>4. \A u \in Tasks : outcome'[u] # "none" <=> pc'[u] = "ended"
        <3>1. outcome[t] = "none"
            BY DEF Queue, Issued, TaskStep, Types, Waits
        <3> QED BY <1>4, <3>1 DEF Queue, Issued, Others
    <2> QED BY <2>1, <2>2, <2>3, <2>4 DEF Queue, Issued
<1>10. CutShort'
    BY <1>2, <1>3, <1>4 DEF Queue, CutShort
<1> QED BY <1>5, <1>8, <1>9, <1>10 DEF Queue, Database, TaskStep, dbVars

LEMMA OverKeepsQueue ==
    ASSUME Queue, NEW t \in Tasks, NEW how \in {"committed", "rolledback", "done", "failed"},
           TaskStep(t), Over(t, how), cut \subseteq cut', cut' \subseteq TxOps
    PROVE  Queue'
<1>1. /\ pc'[t] = "ended" /\ op' = op /\ result'[t] = "none" /\ outcome'[t] = how
      /\ Others(t) /\ jobs' = jobs
    BY DEF Over, TaskStep, Queue, Types, Others
<1>2. Types'
    BY DEF Queue, Types, TaskStep, Over, dbVars
<1>3. \A i \in DOMAIN jobs : jobs[i].by \in Tasks /\ (jobs[i].wanted => jobs[i].by # t)
    BY FreeHasNoJob, JobsHaveIndex DEF TaskStep, Queue
<1>4. Waits'
    <2>1. \A i \in DOMAIN jobs : jobs[i].wanted =>
              pc'[jobs[i].by] = "waiting" /\ result'[jobs[i].by] = "none"
        BY <1>1, <1>3 DEF Queue, Waits, Others
    <2>2. \A u \in Tasks : result'[u] # "none" => pc'[u] = "waiting"
        BY <1>1 DEF Queue, Waits, Others
    <2>3. \A u \in Tasks : pc'[u] = "waiting" /\ result'[u] = "none" =>
              pc[u] = "waiting" /\ result[u] = "none"
        BY <1>1 DEF Others
    <2> QED BY <1>1, <2>1, <2>2, <2>3 DEF Queue, Waits
<1>5. Issued'
    BY <1>1 DEF Queue, Issued, Statement, Others, TaskStep
<1>6. CutShort'
    BY <1>1 DEF Queue, CutShort
<1> QED BY <1>2, <1>4, <1>5, <1>6 DEF Queue, Database, TaskStep, dbVars

LEMMA GoesOnKeepsQueue ==
    ASSUME Queue, NEW t \in Txs, NEW o \in {"insert", "select", "commit", "rollback"},
           TaskStep(t), GoesOn(t, o)
    PROVE  Queue'
<1>1. t \in Tasks /\ t \notin Upserts /\ o \in Ops /\ o \notin {"begin"} \cup Autocommits
    BY TasksAssumption DEF Tasks, Ops, TxOps, Autocommits
<1>2. /\ pc'[t] = "running" /\ op'[t] = o /\ result'[t] = "none" /\ outcome'[t] = outcome[t]
      /\ Others(t) /\ jobs' = jobs /\ cut' = cut
    BY <1>1 DEF GoesOn, TaskStep, Queue, Types, Others
<1>3. Types'
    BY <1>1 DEF Queue, Types, TaskStep, GoesOn, dbVars
<1>4. \A i \in DOMAIN jobs : jobs[i].by \in Tasks /\ (jobs[i].wanted => jobs[i].by # t)
    BY <1>1, FreeHasNoJob, JobsHaveIndex DEF TaskStep, Queue
<1>5. Waits'
    <2>1. \A i \in DOMAIN jobs : jobs[i].wanted =>
              /\ pc'[jobs[i].by] = "waiting" /\ result'[jobs[i].by] = "none"
              /\ op'[jobs[i].by] = op[jobs[i].by]
        BY <1>2, <1>4 DEF Queue, Waits, Others
    <2>2. \A u \in Tasks : result'[u] # "none" => pc'[u] = "waiting"
        BY <1>2 DEF Queue, Waits, Others
    <2>3. \A u \in Tasks : pc'[u] = "waiting" /\ result'[u] = "none" =>
              pc[u] = "waiting" /\ result[u] = "none"
        BY <1>2 DEF Others
    <2> QED BY <1>2, <2>1, <2>2, <2>3 DEF Queue, Waits
<1>6. Issued'
    <2>1. \A u \in Tasks : Statement(u, op[u])'
        BY <1>1, <1>2 DEF Queue, Issued, Statement, Others, TaskStep, TxOps
    <2>2. \A i \in DOMAIN jobs' : Statement(jobs[i].by, jobs[i].op)'
        BY <1>2 DEF Queue, Issued, Statement, TaskStep
    <2>3. outcome[t] = "none"
        BY <1>1 DEF Queue, Issued, TaskStep, Types
    <2> QED BY <1>1, <1>2, <2>1, <2>2, <2>3 DEF Queue, Issued, Others
<1>7. CutShort'
    BY <1>2 DEF Queue, CutShort
<1> QED BY <1>3, <1>5, <1>6, <1>7 DEF Queue, Database, TaskStep, dbVars

LEMMA RaisedKeepsQueue ==
    ASSUME Queue, NEW t \in Tasks, NEW o \in Ops, TaskStep(t), Raised(t, o)
    PROVE  Queue'
<1>1. cut \subseteq TxOps
    BY DEF Queue, Types
<1> QED BY <1>1, OverKeepsQueue, GoesOnKeepsQueue DEF Raised, TxOps

\* A call has no answer to take.
LEMMA CallIsTaskStep ==
    ASSUME Queue, NEW t \in Tasks, Call(t)
    PROVE  TaskStep(t)
<1>1. /\ pc[t] \in {"new", "running"}
      /\ UNCHANGED <<dialect, flag, result, dbVars, wrote>> /\ CallForm(t)
    BY CallForms DEF Queue
<1>2. result[t] = "none"
    BY <1>1 DEF Queue, Waits
<1>3. errors' \subseteq Tasks
    BY <1>1 DEF CallForm, Raised, Queue, Types
<1>4. met' \in [Tasks -> SUBSET Tasks]
    BY DEF Call, Meets, Active, Queue, Types
<1> QED BY <1>1, <1>2, <1>3, <1>4 DEF TaskStep, Queue, Types

LEMMA ResumeIsTaskStep ==
    ASSUME Queue, NEW t \in Tasks, Resume(t)
    PROVE  TaskStep(t)
<1>1. /\ pc[t] = "waiting" /\ result[t] # "none" /\ result' = [result EXCEPT ![t] = "none"]
      /\ UNCHANGED <<dialect, dbVars, met>> /\ Answered(t)
    BY ResumeForms DEF Queue
<1>2. flag' \in BOOLEAN /\ wrote' \subseteq Tasks
    BY <1>1 DEF Answered, AnswerRaises, AnswerBegins, AnswerEnds, AnswerCommits, AnswerReports,
                AnswerProbes, AnswerReads, Queue, Types
<1>3. errors' \subseteq Tasks
    BY <1>1 DEF Answered, AnswerRaises, AnswerBegins, AnswerEnds, AnswerCommits, AnswerReports,
                AnswerProbes, AnswerReads, Raised, Queue, Types
<1> QED BY <1>1, <1>2, <1>3 DEF TaskStep, Queue, Types

LEMMA CallKeepsQueue ==
    ASSUME Queue, NEW t \in Tasks, Call(t)
    PROVE  Queue'
<1>1. CallForm(t) /\ op[t] \in Ops /\ Statement(t, op[t]) /\ cut \subseteq TxOps
    BY CallForms DEF Queue, Types, Issued
<1> QED BY <1>1, CallIsTaskStep, SentKeepsQueue, RaisedKeepsQueue, OverKeepsQueue DEF CallForm

LEMMA ResumeKeepsQueue ==
    ASSUME Queue, NEW t \in Tasks, Resume(t)
    PROVE  Queue'
<1>1. TaskStep(t) /\ Answered(t) /\ op[t] \in Ops /\ Statement(t, op[t]) /\ cut \subseteq TxOps
    BY ResumeForms, ResumeIsTaskStep DEF Queue, Types, Issued
<1>2. CASE AnswerRaises(t)
    BY <1>1, <1>2, RaisedKeepsQueue DEF AnswerRaises
<1>3. CASE AnswerBegins(t)
    <2>1. t \in Txs
        BY <1>1, <1>3 DEF AnswerBegins, Statement, Tasks, Autocommits
    <2> QED BY <1>1, <1>3, <2>1, GoesOnKeepsQueue DEF AnswerBegins
<1>4. CASE AnswerEnds(t)
    BY <1>1, <1>4, OverKeepsQueue DEF AnswerEnds
<1>5. CASE AnswerCommits(t)
    <2>1. Statement(t, "commitInsert") <=> dialect = "sqlite"
        BY DEF Statement, Autocommits
    <2>2. CASE op[t] = "insert"
        BY <1>1, <1>5, <2>1, <2>2, SentKeepsQueue DEF AnswerCommits, Ops, Autocommits
    <2>3. CASE op[t] = "update"
        <3>1. Statement(t, "commitUpdate")
            BY <1>1, <1>5, <2>3 DEF AnswerCommits, Statement, Autocommits, TxOps
        <3> QED BY <1>1, <1>5, <2>3, <3>1, SentKeepsQueue DEF AnswerCommits, Ops, Autocommits
    <2> QED BY <1>5, <2>2, <2>3 DEF AnswerCommits
<1>6. CASE AnswerReports(t)
    <2>1. CASE t \in Txs /\ \E next \in AfterInsert : GoesOn(t, next)
        BY <1>1, <2>1, GoesOnKeepsQueue DEF AfterInsert
    <2>2. CASE Over(t, "done") /\ cut' = cut
        BY <1>1, <2>2, OverKeepsQueue
    <2>3. CASE t \in Upserts /\ Sent(t, "select")
        <3>1. Statement(t, "select") /\ "select" \in Ops
            BY <2>3, TasksAssumption DEF Statement, Ops, Autocommits
        <3> QED BY <1>1, <2>3, <3>1, SentKeepsQueue
    <2>4. CASE Raised(t, "select")
        BY <1>1, <2>4, RaisedKeepsQueue DEF Ops
    <2> QED BY <1>6, <2>1, <2>2, <2>3, <2>4 DEF AnswerReports
<1>7. CASE AnswerProbes(t)
    <2>1. t \in Upserts /\ t \notin Txs
        BY <1>1, <1>7, TasksAssumption DEF AnswerProbes, Statement, Tasks, TxOps
    <2>2. PICK o \in {"insert", "update", "select"} : Sent(t, o) \/ Raised(t, o)
        BY <1>7 DEF AnswerProbes
    <2>3. Statement(t, o) /\ o \in Ops
        BY <2>1, <2>2 DEF Statement, Ops, Autocommits
    <2> QED BY <1>1, <2>2, <2>3, SentKeepsQueue, RaisedKeepsQueue
<1>8. CASE AnswerReads(t)
    BY <1>1, <1>8, OverKeepsQueue, GoesOnKeepsQueue DEF AnswerReads, AfterSelect
<1> QED BY <1>1, <1>2, <1>3, <1>4, <1>5, <1>6, <1>7, <1>8 DEF Answered

\* A cancelled task waits for none of its statements any more.
LEMMA CancelledJobs ==
    ASSUME Queue, NEW t \in Tasks, Cancel(t)
    PROVE  /\ jobs' \in Seq(Jobs) /\ DOMAIN jobs' = DOMAIN jobs
           /\ \A i \in DOMAIN jobs : /\ jobs'[i].by = jobs[i].by /\ jobs'[i].op = jobs[i].op
                                     /\ jobs'[i].wanted <=> jobs[i].wanted /\ jobs[i].by # t
<1>1. /\ Len(jobs) \in Nat /\ DOMAIN jobs = 1 .. Len(jobs)
      /\ \A i \in DOMAIN jobs : /\ jobs[i] \in Jobs /\ jobs[i].by \in Tasks
                                /\ jobs[i].op \in Ops /\ jobs[i].wanted \in BOOLEAN
    BY JobsHaveIndex DEF Queue
<1>2. jobs' = [i \in DOMAIN jobs |->
                  IF jobs[i].by = t THEN [jobs[i] EXCEPT !.wanted = FALSE] ELSE jobs[i]]
    BY DEF Cancel
<1>3. \A i \in DOMAIN jobs : /\ jobs'[i] \in Jobs
                             /\ jobs'[i].by = jobs[i].by /\ jobs'[i].op = jobs[i].op
                             /\ jobs'[i].wanted <=> jobs[i].wanted /\ jobs[i].by # t
    BY <1>1, <1>2 DEF Jobs
<1>4. jobs' \in Seq(Jobs)
    <2>1. jobs' \in [1 .. Len(jobs) -> Jobs]
        BY <1>1, <1>2, <1>3
    <2> QED BY <1>1, <2>1, SeqDef
<1> QED BY <1>2, <1>3, <1>4

LEMMA CancelKeepsQueue ==
    ASSUME Queue, NEW t \in Tasks, Cancel(t)
    PROVE  Queue'
<1>1. /\ jobs' \in Seq(Jobs) /\ DOMAIN jobs' = DOMAIN jobs
      /\ \A i \in DOMAIN jobs : /\ jobs'[i].by = jobs[i].by /\ jobs'[i].op = jobs[i].op
                                /\ jobs'[i].wanted <=> jobs[i].wanted /\ jobs[i].by # t
    BY CancelledJobs
<1>2. /\ pc[t] = "waiting" /\ result[t] = "none" /\ result' = result
      /\ UNCHANGED <<dialect, flag, dbtx, current, stored, met, wrote, errors>>
      /\ cut' = IF op[t] \in TxOps THEN cut \cup {op[t]} ELSE cut
      /\ \/ /\ t \in Txs /\ op[t] \notin TxOps /\ pc' = [pc EXCEPT ![t] = "running"]
            /\ op' = [op EXCEPT ![t] = "rollback"] /\ outcome' = outcome
         \/ /\ pc' = [pc EXCEPT ![t] = "ended"] /\ op' = op
            /\ outcome' = [outcome EXCEPT ![t] = "failed"]
    BY DEF Cancel, dbVars
<1>3. /\ pc'[t] \in {"running", "ended"} /\ Others(t)
      /\ pc'[t] = "running" => t \in Txs /\ op'[t] = "rollback" /\ outcome' = outcome
      /\ pc'[t] = "ended" => op' = op /\ outcome'[t] = "failed"
      /\ \A i \in DOMAIN jobs : jobs[i].by \in Tasks
    BY <1>2, JobsHaveIndex DEF Queue, Types, Others
<1>4. Types'
    <2>1. /\ pc' \in [Tasks -> {"new", "running", "waiting", "ended"}]
          /\ outcome' \in [Tasks -> {"none", "committed", "rolledback", "done", "failed"}]
        BY <1>2 DEF Queue, Types
    <2>2. op' \in [Tasks -> Ops]
        <3>1. op \in [Tasks -> Ops] /\ "rollback" \in Ops
            BY DEF Queue, Types, Ops, TxOps
        <3> QED BY <1>2, <3>1
    <2>3. cut' \subseteq TxOps
        BY <1>2 DEF Queue, Types
    <2> QED BY <1>1, <1>2, <2>1, <2>2, <2>3 DEF Queue, Types
<1>5. Waits'
    <2>1. \A i \in DOMAIN jobs' : jobs'[i].wanted =>
              /\ pc'[jobs'[i].by] = "waiting" /\ result'[jobs'[i].by] = "none"
              /\ jobs'[i].op = op'[jobs'[i].by]
              /\ \A k \in DOMAIN jobs' : jobs'[k].wanted /\ jobs'[k].by = jobs'[i].by => k = i
        BY <1>1, <1>3 DEF Queue, Waits, Others
    <2>2. \A u \in Tasks : result'[u] # "none" => pc'[u] = "waiting"
        BY <1>2, <1>3 DEF Queue, Waits, Others
    <2>3. \A u \in Tasks : pc'[u] = "waiting" /\ result'[u] = "none" =>
              \E i \in DOMAIN jobs' : jobs'[i].by = u /\ jobs'[i].wanted
        BY <1>1, <1>3 DEF Queue, Waits, Others
    <2> QED BY <2>1, <2>2, <2>3 DEF Waits
<1>6. Issued'
    <2>1. \A u \in Tasks : Statement(u, op[u])'
        BY <1>2, <1>3, TasksAssumption DEF Queue, Issued, Statement, Others, TxOps, Autocommits
    <2>2. \A i \in DOMAIN jobs' : Statement(jobs[i].by, jobs[i].op)'
        BY <1>1, <1>2 DEF Queue, Issued, Statement
    <2>3. \A u \in Tasks : pc'[u] = "running" => u \in Txs /\ op'[u] \notin {"begin"} \cup Autocommits
        BY <1>3 DEF Queue, Issued, Others, Autocommits
    <2>4. \A u \in Tasks : pc'[u] = "new" => op'[u] = IF u \in Txs THEN "begin" ELSE "probe"
        BY <1>3 DEF Queue, Issued, Others
    <2>5. \A u \in Tasks : outcome'[u] # "none" <=> pc'[u] = "ended"
        BY <1>2, <1>3 DEF Queue, Issued, Others
    <2> QED BY <2>1, <2>2, <2>3, <2>4, <2>5 DEF Issued
<1>7. CutShort'
    <2>1. ASSUME NEW i \in DOMAIN jobs', ~jobs'[i].wanted, jobs'[i].op \in TxOps
          PROVE  jobs'[i].op \in cut'
        <3>1. CASE jobs[i].wanted
            <4>1. jobs[i].by = t
                BY <1>1, <2>1, <3>1
            <4> QED BY <1>1, <1>2, <2>1, <3>1, <4>1 DEF Queue, Waits
        <3>2. CASE ~jobs[i].wanted
            BY <1>1, <1>2, <2>1, <3>2 DEF Queue, CutShort
        <3> QED BY <3>1, <3>2
    <2> QED BY <2>1 DEF CutShort
<1> QED BY <1>2, <1>4, <1>5, <1>6, <1>7 DEF Queue, Database

\* What a statement does to the database, whatever it is.
LEMMA RunForm ==
    ASSUME Queue, Run
    PROVE  /\ jobs # <<>> /\ jobs' = Tail(jobs) /\ jobs[1] \in Jobs
           /\ UNCHANGED <<dialect, clientVars, historyVars>>
           /\ \E r \in {"ok", "row", "conflict", "error"} :
                 result' = IF jobs[1].wanted THEN [result EXCEPT ![jobs[1].by] = r] ELSE result
           /\ dbtx' \in {"none", "open", "aborted"} /\ current' \subseteq Tasks
           /\ stored' \subseteq current' /\ (dialect = "sqlite" => dbtx' # "aborted")
<1>1. 1 \in DOMAIN jobs /\ Head(jobs) = jobs[1] /\ jobs[1] \in Jobs /\ jobs[1].by \in Tasks
    BY JobsTail, JobsHaveIndex DEF Queue, Run
<1> DEFINE j == jobs[1]
<1>2. PICK r \in {"ok", "row", "conflict", "error"} :
          /\ CASE j.op = "begin" -> RunBegin(r)
               [] j.op \in {"commit"} \cup Autocommits -> RunCommit(r)
               [] j.op = "rollback" -> RunRollback(r)
               [] OTHER -> RunStatement(j, r) \/ Errs(r)
          /\ result' = IF j.wanted THEN [result EXCEPT ![j.by] = r] ELSE result
    BY <1>1 DEF Run
<1>3. RunBegin(r) \/ RunCommit(r) \/ RunRollback(r) \/ RunStatement(j, r) \/ Errs(r)
    BY <1>2
<1> HIDE DEF j
<1>4. /\ dbtx' \in {"none", "open", "aborted"} /\ current' \subseteq Tasks
      /\ stored' \subseteq current' /\ (dialect = "sqlite" => dbtx' # "aborted")
    <2>1. CASE Errs(r)
        BY <2>1 DEF Errs, Queue, Types, Database
    <2>2. CASE RunBegin(r)
        BY <2>1, <2>2 DEF RunBegin, Queue, Types, Database
    <2>3. CASE RunCommit(r)
        BY <2>3 DEF RunCommit, Queue, Types, Database
    <2>4. CASE RunRollback(r)
        BY <2>4 DEF RunRollback, Queue, Types, Database
    <2>5. CASE RunStatement(j, r)
        BY <1>1, <2>5 DEF RunStatement, Writes, dbVars, Queue, Types, Database, j
    <2> QED BY <1>3, <2>1, <2>2, <2>3, <2>4, <2>5
<1> QED BY <1>1, <1>2, <1>4 DEF Run, j

LEMMA RunKeepsQueue ==
    ASSUME Queue, Run
    PROVE  Queue'
<1>1. /\ jobs # <<>> /\ jobs' = Tail(jobs) /\ jobs[1] \in Jobs
      /\ UNCHANGED <<dialect, flag, pc, op, outcome, met, cut, wrote, errors>>
      /\ dbtx' \in {"none", "open", "aborted"} /\ current' \subseteq Tasks
      /\ stored' \subseteq current' /\ (dialect = "sqlite" => dbtx' # "aborted")
    BY RunForm DEF clientVars, historyVars
<1>2. PICK r \in {"ok", "row", "conflict", "error"} :
          result' = IF jobs[1].wanted THEN [result EXCEPT ![jobs[1].by] = r] ELSE result
    BY RunForm
<1>3. /\ jobs' \in Seq(Jobs) /\ 1 \in DOMAIN jobs
      /\ \A i \in DOMAIN jobs' : i + 1 \in DOMAIN jobs /\ jobs'[i] = jobs[i + 1]
      /\ \A i \in DOMAIN jobs : i # 1 => i - 1 \in DOMAIN jobs' /\ jobs'[i - 1] = jobs[i]
    BY <1>1, JobsTail DEF Queue
<1>4. /\ Len(jobs) \in Nat /\ DOMAIN jobs = 1 .. Len(jobs)
      /\ \A i \in DOMAIN jobs : jobs[i].by \in Tasks /\ jobs[i].wanted \in BOOLEAN
      /\ DOMAIN jobs' \subseteq Nat
    <2>1. DOMAIN jobs' = 1 .. Len(jobs') /\ Len(jobs') \in Nat
        BY <1>3, LenProperties
    <2> QED BY <2>1, JobsHaveIndex DEF Queue
<1>5. Types'
    BY <1>1, <1>2, <1>3, <1>4 DEF Queue, Types
<1>6. Waits'
    <2>1. ASSUME NEW i \in DOMAIN jobs', jobs'[i].wanted
          PROVE  /\ pc'[jobs'[i].by] = "waiting" /\ result'[jobs'[i].by] = "none"
                 /\ jobs'[i].op = op'[jobs'[i].by]
                 /\ \A k \in DOMAIN jobs' : jobs'[k].wanted /\ jobs'[k].by = jobs'[i].by => k = i
        <3>1. i + 1 \in DOMAIN jobs /\ jobs'[i] = jobs[i + 1] /\ i \in Nat /\ i + 1 # 1
            BY <1>3, <1>4
        <3>2. /\ pc[jobs[i + 1].by] = "waiting" /\ result[jobs[i + 1].by] = "none"
              /\ jobs[i + 1].op = op[jobs[i + 1].by]
              /\ \A k \in DOMAIN jobs : jobs[k].wanted /\ jobs[k].by = jobs[i + 1].by => k = i + 1
            BY <2>1, <3>1 DEF Queue, Waits
        <3>3. result'[jobs[i + 1].by] = "none"
            BY <1>2, <1>3, <3>1, <3>2
        <3>4. ASSUME NEW k \in DOMAIN jobs', jobs'[k].wanted, jobs'[k].by = jobs'[i].by PROVE k = i
            <4>1. k + 1 = i + 1 /\ k \in Nat
                BY <1>3, <1>4, <3>1, <3>2, <3>4
            <4> QED BY <3>1, <4>1
        <3> QED BY <1>1, <3>1, <3>2, <3>3, <3>4
    <2>2. ASSUME NEW u \in Tasks, result'[u] # "none" PROVE pc'[u] = "waiting"
        BY <1>1, <1>2, <1>3, <1>4, <2>2 DEF Queue, Waits
    <2>3. ASSUME NEW u \in Tasks, pc'[u] = "waiting", result'[u] = "none"
          PROVE  \E i \in DOMAIN jobs' : jobs'[i].by = u /\ jobs'[i].wanted
        <3>1. pc[u] = "waiting" /\ result[u] = "none" /\ ~(jobs[1].wanted /\ jobs[1].by = u)
            BY <1>1, <1>2, <2>3 DEF Queue, Types, Waits
        <3>2. PICK i \in DOMAIN jobs : jobs[i].by = u /\ jobs[i].wanted
            BY <3>1 DEF Queue, Waits
        <3> QED BY <1>3, <3>1, <3>2
    <2> QED BY <2>1, <2>2, <2>3 DEF Waits
<1>7. Issued'
    <2>1. \A i \in DOMAIN jobs' : Statement(jobs[i].by, jobs[i].op)'
        BY <1>1, <1>3 DEF Queue, Issued, Statement
    <2> QED BY <1>1, <2>1 DEF Queue, Issued, Statement
<1>8. CutShort'
    BY <1>1, <1>3 DEF Queue, CutShort
<1> QED BY <1>1, <1>5, <1>6, <1>7, <1>8 DEF Queue, Database

LEMMA QueueHolds == Spec => []Queue
<1>1. Init => Queue
    <2> SUFFICES ASSUME Init PROVE Queue
        OBVIOUS
    <2>1. Types /\ jobs = <<>>
        <3>1. jobs \in Seq(Jobs)
            BY EmptySeq DEF Init
        <3>2. op \in [Tasks -> Ops]
            BY DEF Init, Ops, TxOps
        <3>3. \A S : {} \in SUBSET S
            OBVIOUS
        <3>4. met \in [Tasks -> SUBSET Tasks]
            BY <3>3 DEF Init
        <3> QED BY <3>1, <3>2, <3>4 DEF Init, Types
    <2>2. DOMAIN jobs = {}
        BY <2>1
    <2> QED BY <2>1, <2>2, TasksAssumption
            DEF Init, Queue, Waits, Issued, Statement, CutShort, Database, Tasks, TxOps, Autocommits
<1>2. Queue /\ [Next]_vars => Queue'
    <2> SUFFICES ASSUME Queue, [Next]_vars PROVE Queue'
        OBVIOUS
    <2>1. CASE Next
        BY <2>1, CallKeepsQueue, ResumeKeepsQueue, CancelKeepsQueue, RunKeepsQueue DEF Next
    <2>2. CASE UNCHANGED vars
        BY <2>2 DEF vars, clientVars, dbVars, historyVars, Queue, Types, Waits, Issued, Statement,
                    CutShort, Database
    <2> QED BY <2>1, <2>2
<1> QED BY <1>1, <1>2, PTL DEF Spec

\* Types; and no answer of the driver reaches a task that has gone on, nor is a task
\* left waiting for a statement the driver has dropped.
THEOREM SQLTypes == Spec => []TypeOK
<1>1. Queue => TypeOK
    BY DEF Queue, Types, Waits, Jobs, TypeOK
<1> QED BY <1>1, QueueHolds, PTL

-----------------------------------------------------------------------------
(* The flag and the transaction of the connection.                            *)

\* Tasks that are active at the same time have met.
HaveMet == \A s, t \in Active : s # t => s \in met[t]

InBlock(t) == pc[t] \in {"running", "waiting"} /\ op[t] # "begin"

\* The flag is up only while some block is in its transaction, unless a commit or
\* rollback was cut short.
FlagInBlock == cut \subseteq {"begin"} /\ flag => \E t \in Txs : InBlock(t)

Begun(t) == pc[t] = "waiting" /\ op[t] = "begin" /\ Good(t)
Ending(t) == pc[t] = "waiting" /\ op[t] \in {"commit", "rollback"} /\ result[t] # "none"

\* PostgreSQL's connection is in a transaction only under the flag.
PostgresFlag ==
    dialect = "postgres" /\ cut = {} =>
        /\ dbtx # "none" => flag \/ \E t \in Txs : Begun(t)
        /\ \A t \in Txs : Ending(t) => dbtx = "none"

Flags == Queue /\ HaveMet /\ FlagInBlock /\ PostgresFlag

\* What has been cut short stays so, and tasks that have met have met.
LEMMA HistoryGrows ==
    ASSUME Queue, [Next]_vars
    PROVE  /\ dialect' = dialect /\ cut \subseteq cut'
           /\ \A t \in Tasks : met[t] \subseteq met'[t]
<1>1. CASE \E t \in Tasks : Call(t)
    <2>1. PICK t \in Tasks : Call(t)
        BY <1>1
    <2>2. dialect' = dialect /\ cut \subseteq cut'
        BY <2>1, CallForms DEF CallForm, Sent, Over, Raised, GoesOn, Queue
    <2>3. \A u \in Tasks : met[u] \subseteq met'[u]
        BY <2>1 DEF Call, Meets, Queue, Types
    <2> QED BY <2>2, <2>3
<1>2. CASE \E t \in Tasks : Resume(t)
    <2>1. PICK t \in Tasks : Resume(t)
        BY <1>2
    <2>2. dialect' = dialect /\ met' = met /\ Answered(t)
        BY <2>1, ResumeForms DEF Queue
    <2>3. cut \subseteq cut'
        BY <2>2 DEF Answered, AnswerRaises, AnswerBegins, AnswerEnds, AnswerCommits, AnswerReports,
                    AnswerProbes, AnswerReads, Sent, Over, Raised, GoesOn
    <2> QED BY <2>2, <2>3
<1>3. CASE \E t \in Tasks : Cancel(t)
    BY <1>3 DEF Cancel
<1>4. CASE Run
    BY <1>4 DEF Run, historyVars
<1>5. CASE UNCHANGED vars
    BY <1>5 DEF vars, historyVars
<1> QED BY <1>1, <1>2, <1>3, <1>4, <1>5 DEF Next

\* Only a call makes a task active, and it meets all that are.
LEMMA NextKeepsHaveMet ==
    ASSUME Queue, HaveMet, [Next]_vars
    PROVE  HaveMet'
<1>1. \A t \in Tasks : met[t] \subseteq met'[t]
    BY HistoryGrows
<1>2. CASE \E t \in Tasks : Call(t)
    <2>1. PICK t \in Tasks : Call(t)
        BY <1>2
    <2>2. \A u \in Tasks : u # t => pc'[u] = pc[u]
        <3>1. CallForm(t)
            BY <2>1, CallForms DEF Queue
        <3>2. \/ pc' = [pc EXCEPT ![t] = "waiting"]
              \/ pc' = [pc EXCEPT ![t] = "ended"]
              \/ pc' = [pc EXCEPT ![t] = "running"]
            BY <3>1 DEF CallForm, Sent, Over, Raised, GoesOn
        <3>3. pc \in [Tasks -> {"new", "running", "waiting", "ended"}]
            BY DEF Queue, Types
        <3> QED BY <3>2, <3>3
    <2>3. Active' \subseteq Active \cup {t}
        BY <2>2 DEF Active
    <2>4. CASE pc[t] = "new"
        <3>1. t \notin Active
            BY <2>4 DEF Active
        <3>2. \A u \in Active : u \in Tasks /\ t \in met'[u] /\ u \in met'[t]
            BY <2>1, <2>4, <3>1 DEF Call, Meets, Active, Queue, Types
        <3> QED BY <1>1, <2>3, <3>2 DEF HaveMet, Active
    <2>5. CASE pc[t] = "running"
        BY <1>1, <2>3, <2>5 DEF HaveMet, Active
    <2> QED BY <2>1, <2>4, <2>5 DEF Call
<1>3. CASE \E t \in Tasks : Resume(t)
    <2>1. PICK t \in Tasks : Resume(t)
        BY <1>3
    <2>2. Answered(t) /\ pc[t] = "waiting"
        BY <2>1, ResumeForms DEF Queue
    <2>3. \A u \in Tasks : u # t => pc'[u] = pc[u]
        BY <2>2 DEF Answered, AnswerRaises, AnswerBegins, AnswerEnds, AnswerCommits, AnswerReports,
                    AnswerProbes, AnswerReads, Sent, Over, Raised, GoesOn, Queue, Types
    <2>4. Active' \subseteq Active
        BY <2>2, <2>3 DEF Active
    <2> QED BY <1>1, <2>4 DEF HaveMet, Active
<1>4. CASE \E t \in Tasks : Cancel(t)
    <2>1. Active' \subseteq Active
        BY <1>4 DEF Cancel, Active, Queue, Types
    <2> QED BY <1>1, <2>1 DEF HaveMet, Active
<1>5. CASE Run \/ UNCHANGED vars
    BY <1>5 DEF Run, vars, clientVars, historyVars, HaveMet, Active
<1> QED BY <1>2, <1>3, <1>4, <1>5 DEF Next

\* A block that is in its transaction leaves it by commit or rollback, which puts the
\* flag down, or is cut short there.
LEMMA RaisedStaysInBlock ==
    ASSUME Queue, NEW t \in Tasks, NEW o \in Ops, Raised(t, o), o = "begin" => op[t] = "begin",
           cut' \subseteq {"begin"}, NEW s \in Txs, InBlock(s)
    PROVE  InBlock(s)'
<1>1. s \in Tasks /\ s \notin Upserts
    BY TasksAssumption DEF Tasks
<1> QED BY <1>1 DEF Raised, Over, GoesOn, InBlock, Queue, Types

LEMMA NextKeepsFlagInBlock ==
    ASSUME Queue, FlagInBlock, [Next]_vars
    PROVE  FlagInBlock'
<1> SUFFICES ASSUME cut' \subseteq {"begin"}, flag' PROVE \E s \in Txs : InBlock(s)'
    BY DEF FlagInBlock, InBlock
<1>1. flag => \E s \in Txs : InBlock(s)
    BY HistoryGrows DEF FlagInBlock
<1>2. \A s \in Txs : s \in Tasks /\ s \notin Upserts
    BY TasksAssumption DEF Tasks
<1>3. ASSUME NEW t \in Tasks, Call(t) PROVE \E s \in Txs : InBlock(s)'
    <2>1. flag' = flag /\ CallForm(t) /\ op[t] \in Ops /\ pc[t] \in {"new", "running"}
        BY <1>3, CallForms DEF Queue, Types
    <2>2. PICK s \in Txs : InBlock(s)
        BY <1>1, <2>1
    <2>3. CASE Raised(t, op[t])
        BY <2>1, <2>2, <2>3, RaisedStaysInBlock
    <2>4. CASE Sent(t, op[t])
        BY <1>2, <2>2, <2>4 DEF Sent, InBlock, Queue, Types
    <2> QED BY <2>1, <2>3, <2>4 DEF CallForm
<1>4. ASSUME NEW t \in Tasks, Resume(t) PROVE \E s \in Txs : InBlock(s)'
    <2>1. Answered(t) /\ op[t] \in Ops /\ Statement(t, op[t]) /\ pc[t] = "waiting"
        BY <1>4, ResumeForms DEF Queue, Types, Issued
    <2>2. CASE AnswerBegins(t)
        <3>1. t \in Txs
            BY <2>1, <2>2 DEF AnswerBegins, Statement, Tasks, Autocommits
        <3> QED BY <2>2, <3>1 DEF AnswerBegins, GoesOn, InBlock, Queue, Types
    <2>3. CASE ~AnswerBegins(t)
        <3>1. flag /\ flag' = flag
            BY <2>1, <2>3 DEF Answered, AnswerRaises, AnswerEnds, AnswerCommits, AnswerReports,
                              AnswerProbes, AnswerReads
        <3>2. PICK s \in Txs : InBlock(s)
            BY <1>1, <3>1
        <3>3. CASE AnswerRaises(t)
            BY <2>1, <3>2, <3>3, RaisedStaysInBlock DEF AnswerRaises
        <3>4. CASE AnswerReports(t) \/ AnswerProbes(t) \/ AnswerReads(t)
            <4>1. CASE t \in Upserts
                <5>1. s # t /\ s \in Tasks
                    BY <1>2, <4>1
                <5>2. pc'[s] = pc[s] /\ op'[s] = op[s]
                    BY <3>4, <5>1 DEF AnswerReports, AnswerProbes, AnswerReads, Sent, Over, Raised,
                                      GoesOn, Queue, Types
                <5> QED BY <3>2, <5>2 DEF InBlock
            <4>2. CASE t \in Txs
                <5>1. \E o \in {"select", "commit", "rollback"} : GoesOn(t, o)
                    BY <1>2, <2>1, <3>4, <4>2
                       DEF AnswerReports, AnswerProbes, AnswerReads, Statement, AfterInsert,
                           AfterSelect, TxOps
                <5> QED BY <4>2, <5>1 DEF GoesOn, InBlock, Queue, Types
            <4> QED BY <4>1, <4>2 DEF Tasks
        <3> QED BY <2>1, <2>3, <3>1, <3>3, <3>4
                DEF Answered, AnswerEnds, AnswerCommits
    <2> QED BY <2>2, <2>3
<1>5. ASSUME NEW t \in Tasks, Cancel(t) PROVE \E s \in Txs : InBlock(s)'
    <2>1. PICK s \in Txs : InBlock(s)
        BY <1>1, <1>5 DEF Cancel
    <2>2. CASE s # t
        BY <1>2, <1>5, <2>1, <2>2 DEF Cancel, InBlock, Queue, Types
    <2>3. CASE s = t
        <3>1. op[t] \notin TxOps
            BY <1>5, <2>1, <2>3 DEF Cancel, InBlock, TxOps
        <3> QED BY <1>2, <1>5, <2>3, <3>1 DEF Cancel, InBlock, Queue, Types
    <2> QED BY <2>2, <2>3
<1>6. CASE Run \/ UNCHANGED vars
    <2>1. UNCHANGED <<flag, pc, op>>
        BY <1>6 DEF Run, vars, clientVars
    <2> QED BY <1>1, <2>1 DEF InBlock
<1> QED BY <1>3, <1>4, <1>5, <1>6 DEF Next

\* A task's step leaves every other task where it was.
LEMMA TaskMovesItself ==
    ASSUME Queue, NEW t \in Tasks, Call(t) \/ Resume(t) \/ Cancel(t)
    PROVE  /\ UNCHANGED <<dialect, dbVars>> /\ result'[t] = "none"
           /\ \A u \in Tasks : u # t => /\ pc'[u] = pc[u] /\ op'[u] = op[u] /\ result'[u] = result[u]
                                        /\ u \in wrote' <=> u \in wrote
<1>1. CASE Call(t)
    <2>1. /\ UNCHANGED <<dialect, dbVars, result, wrote>> /\ CallForm(t) /\ TaskStep(t)
        BY <1>1, CallForms, CallIsTaskStep DEF Queue
    <2>2. result'[t] = "none"
        BY <2>1 DEF TaskStep, Queue, Types
    <2>3. \/ pc' = [pc EXCEPT ![t] = "waiting"]
          \/ pc' = [pc EXCEPT ![t] = "ended"]
          \/ pc' = [pc EXCEPT ![t] = "running"]
        BY <2>1 DEF CallForm, Sent, Over, Raised, GoesOn
    <2>4. op' = op \/ \E o \in Ops : op' = [op EXCEPT ![t] = o]
        BY <2>1 DEF CallForm, Sent, Over, Raised, GoesOn, Queue, Types, Ops, TxOps
    <2> QED BY <2>1, <2>2, <2>3, <2>4 DEF Queue, Types
<1>2. CASE Resume(t)
    <2>1. /\ UNCHANGED <<dialect, dbVars>> /\ result' = [result EXCEPT ![t] = "none"] /\ Answered(t)
        BY <1>2, ResumeForms DEF Queue
    <2>2. \/ pc' = [pc EXCEPT ![t] = "waiting"]
          \/ pc' = [pc EXCEPT ![t] = "ended"]
          \/ pc' = [pc EXCEPT ![t] = "running"]
        BY <2>1 DEF Answered, AnswerRaises, AnswerBegins, AnswerEnds, AnswerCommits, AnswerReports,
                    AnswerProbes, AnswerReads, Sent, Over, Raised, GoesOn
    <2>3. op' = op \/ \E o \in Ops : op' = [op EXCEPT ![t] = o]
        BY <2>1 DEF Answered, AnswerRaises, AnswerBegins, AnswerEnds, AnswerCommits, AnswerReports,
                    AnswerProbes, AnswerReads, Sent, Over, Raised, GoesOn, AfterInsert, AfterSelect,
                    Ops, TxOps, Autocommits
    <2>4. wrote' = wrote \/ wrote' = wrote \cup {t}
        BY <2>1 DEF Answered, AnswerRaises, AnswerBegins, AnswerEnds, AnswerCommits, AnswerReports,
                    AnswerProbes, AnswerReads
    <2> QED BY <2>1, <2>2, <2>3, <2>4 DEF Queue, Types
<1>3. CASE Cancel(t)
    <2>1. UNCHANGED <<dialect, dbVars, result, wrote>> /\ result[t] = "none"
        BY <1>3 DEF Cancel
    <2>2. \A u \in Tasks : u # t => pc'[u] = pc[u] /\ op'[u] = op[u]
        BY <1>3 DEF Cancel, Queue, Types
    <2> QED BY <2>1, <2>2
<1> QED BY <1>1, <1>2, <1>3

\* The statement the driver runs answers the task that waits for it.
LEMMA RunAnswers ==
    ASSUME Queue, Run
    PROVE  \E r \in {"ok", "row", "conflict", "error"} :
              /\ \/ jobs[1].op = "begin" /\ RunBegin(r)
                 \/ jobs[1].op \in {"commit"} \cup Autocommits /\ RunCommit(r)
                 \/ jobs[1].op = "rollback" /\ RunRollback(r)
                 \/ /\ jobs[1].op \in {"probe", "insert", "update", "select"}
                    /\ RunStatement(jobs[1], r) \/ Errs(r)
              /\ jobs[1] \in Jobs /\ jobs[1].by \in Tasks /\ jobs[1].op \in Ops
              /\ jobs[1].wanted => /\ pc[jobs[1].by] = "waiting" /\ op[jobs[1].by] = jobs[1].op
                                   /\ result[jobs[1].by] = "none"
              /\ \A u \in Tasks : result'[u] = IF jobs[1].wanted /\ jobs[1].by = u THEN r
                                               ELSE result[u]
<1>1. 1 \in DOMAIN jobs /\ Head(jobs) = jobs[1]
    BY JobsTail DEF Queue, Run
<1>2. jobs[1] \in Jobs /\ jobs[1].by \in Tasks /\ jobs[1].op \in Ops
    BY <1>1, JobsHaveIndex DEF Queue
<1> DEFINE j == jobs[1]
<1>3. PICK r \in {"ok", "row", "conflict", "error"} :
          /\ CASE j.op = "begin" -> RunBegin(r)
               [] j.op \in {"commit"} \cup Autocommits -> RunCommit(r)
               [] j.op = "rollback" -> RunRollback(r)
               [] OTHER -> RunStatement(j, r) \/ Errs(r)
          /\ result' = IF j.wanted THEN [result EXCEPT ![j.by] = r] ELSE result
    BY <1>1 DEF Run
<1>4. \/ jobs[1].op = "begin" /\ RunBegin(r)
      \/ jobs[1].op \in {"commit"} \cup Autocommits /\ RunCommit(r)
      \/ jobs[1].op = "rollback" /\ RunRollback(r)
      \/ /\ jobs[1].op \in {"probe", "insert", "update", "select"}
         /\ RunStatement(jobs[1], r) \/ Errs(r)
    <2>1. j.op \in {"begin", "commit", "rollback", "probe", "insert", "update", "select"} \cup Autocommits
        BY <1>2 DEF Ops, TxOps
    <2> HIDE DEF j
    <2>2. \/ j.op = "begin" /\ RunBegin(r)
          \/ j.op \in {"commit"} \cup Autocommits /\ RunCommit(r)
          \/ j.op = "rollback" /\ RunRollback(r)
          \/ /\ j.op \in {"probe", "insert", "update", "select"}
             /\ RunStatement(j, r) \/ Errs(r)
        BY <1>3, <2>1 DEF Autocommits
    <2> QED BY <2>2 DEF j
<1>5. \A u \in Tasks : result'[u] = IF jobs[1].wanted /\ jobs[1].by = u THEN r ELSE result[u]
    BY <1>2, <1>3 DEF Queue, Types
<1>6. jobs[1].wanted => /\ pc[jobs[1].by] = "waiting" /\ op[jobs[1].by] = jobs[1].op
                        /\ result[jobs[1].by] = "none"
    BY <1>1 DEF Queue, Waits
<1> QED BY <1>2, <1>4, <1>5, <1>6

\* asyncpg takes the answer to one call before it makes the next: when begin has
\* been answered the flag goes up before any other statement runs.
LEMMA NextKeepsPostgresFlag ==
    ASSUME Queue, PostgresFlag, [Next]_vars
    PROVE  PostgresFlag'
<1> SUFFICES ASSUME dialect' = "postgres", cut' = {} PROVE PostgresFlag'
    BY DEF PostgresFlag
<1>1. /\ dialect = "postgres" /\ cut = {}
      /\ dbtx # "none" => flag \/ \E t \in Txs : Begun(t)
      /\ \A t \in Txs : Ending(t) => dbtx = "none"
    BY HistoryGrows DEF PostgresFlag
<1>2. Txs \subseteq Tasks
    BY DEF Tasks
<1>3. ASSUME NEW t \in Tasks, Call(t) \/ Resume(t) \/ Cancel(t) PROVE PostgresFlag'
    <2>1. /\ dbtx' = dbtx /\ result'[t] = "none"
          /\ \A u \in Tasks : u # t => pc'[u] = pc[u] /\ op'[u] = op[u] /\ result'[u] = result[u]
        BY <1>3, TaskMovesItself DEF dbVars
    <2>2. \A u \in Txs : Ending(u)' => dbtx' = "none"
        BY <1>1, <1>2, <2>1 DEF Ending
    <2>3. ASSUME dbtx' # "none" PROVE flag' \/ \E u \in Txs : Begun(u)'
        <3>1. flag \/ \E u \in Txs : Begun(u)
            BY <1>1, <2>1, <2>3
        <3>2. CASE \E u \in Txs : u # t /\ Begun(u)
            BY <1>2, <2>1, <3>2 DEF Begun, Good
        <3>3. CASE ~flag /\ Begun(t)
            <4>1. Resume(t) /\ Answered(t)
                BY <1>3, <3>3, ResumeForms DEF Begun, Good, Call, Cancel, Queue
            <4>2. AnswerBegins(t)
                BY <3>3, <4>1 DEF Begun, Good, Answered, AnswerRaises, AnswerEnds, AnswerCommits,
                                  AnswerReports, AnswerProbes, AnswerReads, Autocommits
            <4> QED BY <4>2 DEF AnswerBegins
        <3>4. CASE flag
            <4>1. CASE flag' = flag
                BY <3>4, <4>1
            <4>2. CASE flag' # flag
                <5>1. Resume(t) /\ Answered(t)
                    BY <1>3, <4>2, ResumeForms DEF Call, Cancel, Queue
                <5>2. AnswerEnds(t) \/ AnswerBegins(t)
                    BY <4>2, <5>1 DEF Answered, AnswerRaises, AnswerCommits,
                                      AnswerReports, AnswerProbes, AnswerReads
                <5>3. CASE AnswerEnds(t)
                    <6>1. t \in Txs
                        BY <5>3 DEF AnswerEnds, Queue, Issued, Statement, Tasks, Autocommits
                    <6>2. Ending(t)
                        BY <5>1, <5>3 DEF AnswerEnds, Ending, Resume
                    <6> QED BY <1>1, <2>1, <2>3, <6>1, <6>2
                <5> QED BY <5>2, <5>3 DEF AnswerBegins
            <4> QED BY <4>1, <4>2
        <3> QED BY <3>1, <3>2, <3>3, <3>4
    <2> QED BY <2>2, <2>3 DEF PostgresFlag, Begun, Good, Ending
<1>4. CASE Run
    <2>1. \A u \in Tasks : result[u] = "none"
        BY <1>1, <1>4 DEF Run
    <2>2. UNCHANGED <<dialect, flag, pc, op, cut>>
        BY <1>4 DEF Run, clientVars, historyVars
    <2>3. PICK r \in {"ok", "row", "conflict", "error"} :
              /\ \/ jobs[1].op = "begin" /\ RunBegin(r)
                 \/ jobs[1].op \in {"commit"} \cup Autocommits /\ RunCommit(r)
                 \/ jobs[1].op = "rollback" /\ RunRollback(r)
                 \/ /\ jobs[1].op \in {"probe", "insert", "update", "select"}
                    /\ RunStatement(jobs[1], r) \/ Errs(r)
              /\ jobs[1].by \in Tasks
              /\ jobs[1].wanted => /\ pc[jobs[1].by] = "waiting" /\ op[jobs[1].by] = jobs[1].op
              /\ \A u \in Tasks : result'[u] = IF jobs[1].wanted /\ jobs[1].by = u THEN r
                                               ELSE result[u]
        BY <1>4, RunAnswers
    <2>4. ASSUME NEW u \in Txs, Ending(u)' PROVE dbtx' = "none"
        <3>1. jobs[1].op \in {"commit", "rollback"}
            BY <1>2, <2>1, <2>2, <2>3, <2>4 DEF Ending
        <3> QED BY <1>1, <2>3, <3>1 DEF RunCommit, RunRollback, Autocommits
    <2>5. ASSUME dbtx' # "none", ~flag PROVE \E u \in Txs : Begun(u)'
        <3>1. dbtx = "none"
            BY <1>1, <1>2, <2>1, <2>5 DEF Begun, Good
        <3>2. jobs[1].op = "begin" /\ RunBegin(r) /\ r = "ok"
            BY <1>1, <2>3, <2>5, <3>1 DEF RunBegin, RunCommit, RunRollback, RunStatement, Errs, Writes,
                                          dbVars
        <3>3. 1 \in DOMAIN jobs
            BY <1>4, JobsTail DEF Run, Queue
        <3>4. jobs[1].wanted
            BY <1>1, <3>2, <3>3 DEF Queue, CutShort, TxOps
        <3>5. jobs[1].by \in Txs
            BY <2>3, <3>2, <3>3 DEF Queue, Issued, Statement, Tasks, Autocommits
        <3> QED BY <2>2, <2>3, <3>2, <3>4, <3>5 DEF Begun, Good
    <2> QED BY <2>2, <2>4, <2>5 DEF PostgresFlag, Begun, Good, Ending
<1>5. CASE UNCHANGED vars
    BY <1>1, <1>5 DEF vars, clientVars, dbVars, historyVars, PostgresFlag, Begun, Good, Ending
<1> QED BY <1>3, <1>4, <1>5 DEF Next

-----------------------------------------------------------------------------
(* What an upsert that ran beside no block has written is committed.          *)

\* An upsert beside which no block ran, and nothing was cut short that could
\* undo it.
Undisturbed(u) ==
    met[u] \cap Txs = {} /\ cut \subseteq (IF dialect = "sqlite" THEN {"begin"} ELSE {})

\* How far the upsert has come, and what the database has of it.
UpsertOK(u) ==
    /\ pc[u] = "waiting" /\ op[u] = "probe" /\ result[u] = "row" => current # {}
    /\ pc[u] = "waiting" /\ op[u] = "update" => current # {}
    /\ pc[u] = "waiting" /\ op[u] \in {"insert", "update"} /\ Good(u) =>
           u \in (IF dialect = "sqlite" THEN current ELSE stored)
    /\ pc[u] = "waiting" /\ op[u] \in Autocommits => u \in (IF Good(u) THEN stored ELSE current)
    /\ u \in wrote => u \in stored

UpsertInv == \A u \in Upserts : Undisturbed(u) => UpsertOK(u)

\* An undisturbed upsert that is active is alone but for other upserts.
LEMMA NoBlockBeside ==
    ASSUME Flags, NEW u \in Upserts, Undisturbed(u), u \in Active
    PROVE  /\ flag = FALSE /\ \A t \in Txs : t \notin Active
           /\ dialect = "postgres" => dbtx = "none"
<1>1. \A t \in Txs : t # u /\ t \in Tasks
    BY TasksAssumption DEF Tasks
<1>2. \A t \in Txs : t \notin Active
    BY <1>1 DEF Flags, HaveMet, Undisturbed
<1>3. \A t \in Txs : ~InBlock(t) /\ ~Begun(t)
    BY <1>1, <1>2 DEF InBlock, Begun, Active
<1>4. cut \subseteq {"begin"} /\ (dialect = "postgres" => cut = {})
    BY DEF Undisturbed
<1> QED BY <1>2, <1>3, <1>4 DEF Flags, FlagInBlock, PostgresFlag, Queue, Types

\* While it is, nothing that runs undoes a write.
LEMMA NothingIsUndone ==
    ASSUME Flags, NEW u \in Upserts, Undisturbed(u), u \in Active, Run
    PROVE  /\ current \subseteq current' /\ stored \subseteq stored'
           /\ jobs[1].op \in Autocommits => dialect = "sqlite"
<1>1. 1 \in DOMAIN jobs
    BY JobsTail DEF Run, Flags, Queue
<1>2. PICK r \in {"ok", "row", "conflict", "error"} :
          /\ \/ jobs[1].op = "begin" /\ RunBegin(r)
             \/ jobs[1].op \in {"commit"} \cup Autocommits /\ RunCommit(r)
             \/ jobs[1].op = "rollback" /\ RunRollback(r)
             \/ /\ jobs[1].op \in {"probe", "insert", "update", "select"}
                /\ RunStatement(jobs[1], r) \/ Errs(r)
          /\ jobs[1].by \in Tasks
          /\ jobs[1].wanted => pc[jobs[1].by] = "waiting"
    BY RunAnswers DEF Flags
<1>3. jobs[1].op \notin {"commit", "rollback"}
    <2> SUFFICES ASSUME jobs[1].op \in {"commit", "rollback"} PROVE FALSE
        OBVIOUS
    <2>1. CASE jobs[1].wanted
        <3>1. jobs[1].by \in Txs
            BY <1>1, <1>2 DEF Flags, Queue, Issued, Statement, Tasks, Autocommits
        <3> QED BY <1>2, <2>1, <3>1, NoBlockBeside DEF Active
    <2>2. CASE ~jobs[1].wanted
        <3>1. jobs[1].op \in cut
            BY <1>1, <2>2 DEF Flags, Queue, CutShort, TxOps
        <3> QED BY <3>1 DEF Undisturbed
    <2> QED BY <2>1, <2>2
<1>4. jobs[1].op \in Autocommits => dialect = "sqlite"
    BY <1>1 DEF Flags, Queue, Issued, Statement
<1>5. stored \subseteq current /\ (dialect = "sqlite" => dbtx # "aborted")
    BY DEF Flags, Queue, Database
<1>6. current \subseteq current' /\ stored \subseteq stored'
    BY <1>2, <1>3, <1>4, <1>5
       DEF RunBegin, RunCommit, RunStatement, Writes, Errs, dbVars, Autocommits
<1> QED BY <1>4, <1>6

\* A write of its own reaches the database, and its commit the disk.
LEMMA UpsertRuns ==
    ASSUME Flags, NEW u \in Upserts, Undisturbed(u), UpsertOK(u), u \in Active, Run
    PROVE  UpsertOK(u)'
<1>1. current \subseteq current' /\ stored \subseteq stored'
    BY NothingIsUndone
<1>2. UNCHANGED <<dialect, flag, pc, op, wrote>>
    BY DEF Run, clientVars, historyVars
<1>3. PICK r \in {"ok", "row", "conflict", "error"} :
          /\ \/ jobs[1].op = "begin" /\ RunBegin(r)
             \/ jobs[1].op \in {"commit"} \cup Autocommits /\ RunCommit(r)
             \/ jobs[1].op = "rollback" /\ RunRollback(r)
             \/ /\ jobs[1].op \in {"probe", "insert", "update", "select"}
                /\ RunStatement(jobs[1], r) \/ Errs(r)
          /\ jobs[1].wanted => /\ pc[jobs[1].by] = "waiting" /\ op[jobs[1].by] = jobs[1].op
                               /\ result[jobs[1].by] = "none"
          /\ \A s \in Tasks : result'[s] = IF jobs[1].wanted /\ jobs[1].by = s THEN r
                                           ELSE result[s]
    BY RunAnswers DEF Flags
<1>4. u \in Tasks
    BY DEF Tasks
<1>5. CASE ~(jobs[1].wanted /\ jobs[1].by = u)
    <2>1. result'[u] = result[u]
        BY <1>3, <1>4, <1>5
    <2> QED BY <1>1, <1>2, <2>1 DEF UpsertOK, Good
<1>6. CASE jobs[1].wanted /\ jobs[1].by = u
    <2>1. /\ result'[u] = r /\ pc[u] = "waiting" /\ op[u] = jobs[1].op /\ result[u] = "none"
        BY <1>3, <1>4, <1>6
    <2>2. u \in wrote' => u \in stored'
        BY <1>1, <1>2 DEF UpsertOK
    <2>3. op'[u] = "update" => current' # {}
        BY <1>1, <1>2, <2>1 DEF UpsertOK
    <2>4. ASSUME op[u] = "probe", r = "row" PROVE current' # {}
        BY <1>3, <2>1, <2>4 DEF RunStatement, Errs, dbVars, Autocommits
    <2>5. ASSUME op[u] \in {"insert", "update"}, r \in {"ok", "row"}
          PROVE  u \in (IF dialect = "sqlite" THEN current' ELSE stored')
        <3>1. RunStatement(jobs[1], r)
            BY <1>3, <2>1, <2>5 DEF Errs, Autocommits
        <3>2. Writes(u)
            BY <1>6, <2>1, <2>5, <3>1 DEF RunStatement, UpsertOK
        <3>3. dialect # "sqlite" => dbtx = "none"
            BY NoBlockBeside DEF Flags, Queue, Types
        <3> QED BY <3>2, <3>3 DEF Writes
    <2>6. ASSUME op[u] \in Autocommits
          PROVE  u \in (IF r \in {"ok", "row"} THEN stored' ELSE current')
        <3>1. RunCommit(r) /\ dialect = "sqlite"
            BY <1>3, <2>1, <2>6, NothingIsUndone DEF Autocommits
        <3>2. u \in current
            BY <2>1, <2>6 DEF UpsertOK, Good
        <3>3. dbtx # "aborted"
            BY <3>1 DEF Flags, Queue, Database
        <3> QED BY <1>1, <3>1, <3>2, <3>3 DEF RunCommit
    <2> QED BY <1>2, <2>1, <2>2, <2>3, <2>4, <2>5, <2>6 DEF UpsertOK, Good
<1> QED BY <1>5, <1>6

\* And it goes on from there: on SQLite to its commit, on PostgreSQL to its end.
LEMMA UpsertGoesOn ==
    ASSUME Flags, NEW u \in Upserts, Undisturbed(u), UpsertOK(u), Call(u) \/ Resume(u) \/ Cancel(u)
    PROVE  UpsertOK(u)'
<1>1. u \in Tasks /\ u \notin Txs
    BY TasksAssumption DEF Tasks
<1>2. UNCHANGED <<dialect, current, stored>> /\ result'[u] = "none"
    BY <1>1, TaskMovesItself DEF Flags, dbVars
<1>3. \A how : Over(u, how) => pc'[u] = "ended"
    BY <1>1 DEF Over, Flags, Queue, Types
<1>4. ASSUME NEW o \in Ops, Sent(u, o) PROVE pc'[u] = "waiting" /\ op'[u] = o
    BY <1>1, <1>4 DEF Sent, Flags, Queue, Types
<1>5. ASSUME NEW o \in Ops, Raised(u, o) PROVE pc'[u] = "ended"
    BY <1>1, <1>3, <1>5 DEF Raised
<1>6. CASE Call(u)
    <2>1. wrote' = wrote /\ CallForm(u) /\ pc[u] = "new" /\ op[u] = "probe" /\ op[u] \in Ops
        BY <1>1, <1>6, CallForms DEF Flags, Queue, Issued, Types
    <2>2. CASE Sent(u, op[u])
        BY <1>2, <1>4, <2>1, <2>2 DEF UpsertOK, Autocommits
    <2>3. CASE Raised(u, op[u])
        BY <1>2, <1>5, <2>1, <2>3 DEF UpsertOK
    <2> QED BY <2>1, <2>2, <2>3 DEF CallForm
<1>7. CASE Cancel(u)
    <2>1. pc'[u] = "ended" /\ wrote' = wrote
        BY <1>1, <1>7 DEF Cancel, Flags, Queue, Types
    <2> QED BY <1>2, <2>1 DEF UpsertOK
<1>8. CASE Resume(u)
    <2>1. /\ Answered(u) /\ op[u] \in Ops /\ Statement(u, op[u]) /\ pc[u] = "waiting"
          /\ dialect \in {"sqlite", "postgres"}
        BY <1>1, <1>8, ResumeForms DEF Flags, Queue, Types, Issued
    <2>2. flag = FALSE
        BY <1>1, <2>1, NoBlockBeside DEF Active
    <2>3. CASE AnswerRaises(u)
        BY <1>2, <1>5, <2>1, <2>3 DEF AnswerRaises, UpsertOK
    <2>4. ~AnswerBegins(u) /\ ~AnswerEnds(u)
        BY <2>1 DEF AnswerBegins, AnswerEnds, Statement, Autocommits
    <2>5. CASE AnswerCommits(u)
        <3>1. pc'[u] = "waiting" /\ op'[u] \in Autocommits /\ wrote' = wrote /\ u \in current
            <4>1. pc'[u] = "waiting" /\ op'[u] \in Autocommits
                BY <1>4, <2>5 DEF AnswerCommits, Ops, Autocommits
            <4> QED BY <2>1, <2>5, <4>1 DEF AnswerCommits, UpsertOK
        <3> QED BY <1>2, <3>1 DEF UpsertOK, Good, Autocommits
    <2>6. CASE AnswerReports(u)
        <3>1. u \in stored
            BY <2>1, <2>2, <2>6 DEF AnswerReports, UpsertOK, Statement, Autocommits
        <3>2. pc'[u] = "ended" \/ (pc'[u] = "waiting" /\ op'[u] = "select")
            BY <1>1, <1>3, <1>4, <1>5, <2>6 DEF AnswerReports, Ops
        <3> QED BY <1>2, <3>1, <3>2 DEF UpsertOK, Autocommits
    <2>7. CASE AnswerProbes(u)
        <3>1. PICK o \in {"insert", "update", "select"} :
                  (o = "update" => result[u] = "row") /\ (Sent(u, o) \/ Raised(u, o))
            BY <2>7 DEF AnswerProbes
        <3>2. o \in Ops
            BY DEF Ops
        <3>3. pc'[u] = "ended" \/ (pc'[u] = "waiting" /\ op'[u] = o)
            BY <1>4, <1>5, <3>1, <3>2
        <3>4. o = "update" => current # {}
            BY <2>1, <2>7, <3>1 DEF AnswerProbes, UpsertOK
        <3> QED BY <1>2, <2>7, <3>3, <3>4 DEF AnswerProbes, UpsertOK, Good, Autocommits
    <2>8. CASE AnswerReads(u)
        <3>1. pc'[u] = "ended" /\ wrote' = wrote
            BY <1>1, <1>3, <2>8 DEF AnswerReads
        <3> QED BY <1>2, <3>1 DEF UpsertOK
    <2> QED BY <2>1, <2>3, <2>4, <2>5, <2>6, <2>7, <2>8 DEF Answered
<1> QED BY <1>6, <1>7, <1>8

\* What is committed stays.
LEMMA StoredGrows ==
    ASSUME Queue, [Next]_vars
    PROVE  stored \subseteq stored'
<1>1. ASSUME NEW t \in Tasks, Call(t) \/ Resume(t) \/ Cancel(t) PROVE stored' = stored
    BY <1>1, TaskMovesItself DEF dbVars
<1>2. CASE Run
    BY <1>2, RunAnswers DEF RunBegin, RunCommit, RunRollback, RunStatement, Writes, Errs, dbVars,
                            Queue, Database
<1> QED BY <1>1, <1>2 DEF Next, vars, dbVars

LEMMA NextKeepsUpsertInv ==
    ASSUME Flags, UpsertInv, [Next]_vars
    PROVE  UpsertInv'
<1> SUFFICES ASSUME NEW u \in Upserts, Undisturbed(u)' PROVE UpsertOK(u)'
    BY DEF UpsertInv
<1>1. u \in Tasks
    BY DEF Tasks
<1>2. Undisturbed(u)
    BY <1>1, HistoryGrows DEF Undisturbed, Flags
<1>3. UpsertOK(u)
    BY <1>2 DEF UpsertInv
<1>4. CASE Call(u) \/ Resume(u) \/ Cancel(u)
    BY <1>2, <1>3, <1>4, UpsertGoesOn
<1>5. ASSUME NEW t \in Tasks, t # u, Call(t) \/ Resume(t) \/ Cancel(t) PROVE UpsertOK(u)'
    <2>1. /\ UNCHANGED <<dialect, current, stored>> /\ pc'[u] = pc[u] /\ op'[u] = op[u]
          /\ result'[u] = result[u] /\ (u \in wrote' <=> u \in wrote)
        BY <1>1, <1>5, TaskMovesItself DEF Flags, dbVars
    <2> QED BY <1>3, <2>1 DEF UpsertOK, Good
<1>6. CASE Run /\ u \in Active
    BY <1>2, <1>3, <1>6, UpsertRuns
<1>7. CASE Run /\ u \notin Active
    <2>1. pc'[u] # "waiting" /\ wrote' = wrote
        BY <1>1, <1>7 DEF Run, clientVars, historyVars, Active
    <2>2. stored \subseteq stored'
        BY <1>7, StoredGrows DEF Flags, Next
    <2> QED BY <1>3, <2>1, <2>2 DEF UpsertOK
<1>8. CASE UNCHANGED vars
    BY <1>3, <1>8 DEF vars, clientVars, dbVars, historyVars, UpsertOK, Good
<1> QED BY <1>4, <1>5, <1>6, <1>7, <1>8 DEF Next

LEMMA FlagsHold == Spec => []Flags
<1>1. Init => HaveMet /\ FlagInBlock /\ PostgresFlag
    BY DEF Init, HaveMet, Active, FlagInBlock, PostgresFlag, Ending, Tasks
<1>2. Queue /\ Flags /\ [Next]_vars => (HaveMet /\ FlagInBlock /\ PostgresFlag)'
    BY NextKeepsHaveMet, NextKeepsFlagInBlock, NextKeepsPostgresFlag DEF Flags
<1>3. Queue /\ HaveMet /\ FlagInBlock /\ PostgresFlag <=> Flags
    BY DEF Flags
<1> QED BY <1>1, <1>2, <1>3, QueueHolds, PTL DEF Spec

\* What an upsert that has returned wrote is committed, if no block ran beside it and
\* no begin(), commit() or rollback() was cut short before that could undo it.
THEOREM UpsertsAreStored == Spec => []DoneUpsertIsStored
<1>1. Init => UpsertInv
    BY DEF Init, UpsertInv, UpsertOK, Tasks
<1>2. Flags /\ UpsertInv /\ [Next]_vars => UpsertInv'
    BY NextKeepsUpsertInv
<1>3. UpsertInv => DoneUpsertIsStored
    BY DEF UpsertInv, UpsertOK, Undisturbed, DoneUpsertIsStored
<1> QED BY <1>1, <1>2, <1>3, FlagsHold, PTL DEF Spec


\* A block that runs alone, nothing having been cut short.
Lone(t) == met[t] = {} /\ cut = {}

IsLast(i) == \A k \in DOMAIN jobs : k <= i

\* Before its transaction has begun, a block has written nothing.
Fresh(t) ==
    op[t] = "begin" =>
        /\ t \notin current /\ t \notin wrote
        /\ \A i \in DOMAIN jobs : jobs[i].by = t => jobs[i].op = "begin"

\* What others have left in the queue runs before its begin does.
Begins(t) ==
    /\ pc[t] = "waiting" /\ op[t] = "begin" => \A i \in DOMAIN jobs : jobs[i].by = t => IsLast(i)
    /\ Begun(t) => dbtx = "open" /\ jobs = <<>>

\* In its transaction the queue holds only statements of its own, a commit or
\* rollback as the last of them; what it has written the connection sees.
OwnQueue(t) ==
    \A i \in DOMAIN jobs :
        /\ jobs[i].by = t /\ jobs[i].op \notin Autocommits \cup {"begin"}
        /\ jobs[i].op \in TxOps => IsLast(i)
        /\ ~jobs[i].wanted => op[t] = "rollback"

Inside(t) ==
    InBlock(t) =>
        /\ flag /\ op[t] \notin Autocommits /\ OwnQueue(t)
        /\ ~Ending(t) =>
              /\ dbtx # "none" /\ t \notin stored
              /\ t \in wrote \/ (op[t] = "insert" /\ Good(t)) => t \in current
              /\ dbtx = "aborted" => \/ t \in errors
                                     \/ result[t] \in {"error", "conflict"}
                                     \/ op[t] = "rollback"

\* Whether the block has kept what it wrote.
Kept(t) == t \in wrote /\ (dialect = "postgres" => t \notin errors) => t \in stored

Closing(t) ==
    Ending(t) =>
        /\ jobs = <<>>
        /\ op[t] = "rollback" /\ Good(t) => t \notin current
        /\ op[t] = "commit" /\ Good(t) => Kept(t)

Closed(t) ==
    /\ outcome[t] = "rolledback" => t \notin current /\ \A i \in DOMAIN jobs : jobs[i].by # t
    /\ outcome[t] = "committed" => Kept(t)

Block(t) == Begins(t) /\ Inside(t) /\ Closing(t) /\ Closed(t)

BlockInv ==
    /\ \A t \in Txs : Fresh(t)
    /\ \A t \in Txs : Lone(t) => Block(t)

-----------------------------------------------------------------------------
(* Steps of other tasks.                                                      *)

LEMMA OthersKeep ==
    ASSUME Queue, NEW t \in Tasks, Call(t) \/ Resume(t) \/ Cancel(t), NEW u \in Tasks, u # t
    PROVE  /\ outcome'[u] = outcome[u] /\ (u \in errors' <=> u \in errors)
           /\ \A i \in DOMAIN jobs' : jobs'[i].by = u =>
                 \E k \in DOMAIN jobs : jobs[k].by = u /\ jobs[k].op = jobs'[i].op
<1>1. ASSUME NEW o \in Ops, Sent(t, o), errors' = errors \/ errors' = errors \cup {t}
      PROVE  /\ outcome'[u] = outcome[u] /\ (u \in errors' <=> u \in errors)
             /\ \A i \in DOMAIN jobs' : jobs'[i].by = u =>
                   \E k \in DOMAIN jobs : jobs[k].by = u /\ jobs[k].op = jobs'[i].op
    <2> DEFINE job == [by |-> t, op |-> o, wanted |-> TRUE]
    <2>1. Types /\ job \in Jobs /\ jobs' = Append(jobs, job) /\ job.by = t
        BY <1>1 DEF Queue, Jobs, Sent
    <2> HIDE DEF job
    <2>2. /\ \A i \in DOMAIN jobs : jobs'[i] = jobs[i]
          /\ \A i \in DOMAIN jobs' : i \in DOMAIN jobs \/ jobs'[i] = job
        BY <2>1, JobsAppend
    <2> QED BY <1>1, <2>1, <2>2 DEF Sent
<1>2. ASSUME NEW how, Over(t, how), errors' = errors \/ errors' = errors \cup {t}
      PROVE  /\ outcome'[u] = outcome[u] /\ (u \in errors' <=> u \in errors)
             /\ jobs' = jobs
    BY <1>2 DEF Over, Queue, Types
<1>3. ASSUME NEW o, GoesOn(t, o), errors' = errors \/ errors' = errors \cup {t}
      PROVE  /\ outcome'[u] = outcome[u] /\ (u \in errors' <=> u \in errors)
             /\ jobs' = jobs
    BY <1>3 DEF GoesOn
<1>4. ASSUME NEW o, Raised(t, o)
      PROVE  /\ outcome'[u] = outcome[u] /\ (u \in errors' <=> u \in errors)
             /\ jobs' = jobs
    BY <1>2, <1>3, <1>4 DEF Raised
<1>5. CASE Call(t)
    <2>1. CallForm(t) /\ op[t] \in Ops
        BY <1>5, CallForms DEF Queue, Types
    <2> QED BY <1>1, <1>2, <1>4, <2>1 DEF CallForm
<1>6. CASE Resume(t)
    <2>1. Answered(t)
        BY <1>6, ResumeForms DEF Queue
    <2>2. AnswerRaises(t) => Raised(t, op[t])
        BY DEF AnswerRaises
    <2>3. AnswerBegins(t) => GoesOn(t, "insert") /\ errors' = errors
        BY DEF AnswerBegins
    <2>4. AnswerEnds(t) => errors' = errors /\ \E how : Over(t, how)
        BY DEF AnswerEnds
    <2>5. AnswerCommits(t) => errors' = errors /\ \E o \in Ops : Sent(t, o)
        BY DEF AnswerCommits, Ops, Autocommits
    <2>6. AnswerReports(t) => \/ errors' = errors /\ \E o : GoesOn(t, o)
                              \/ errors' = errors /\ Over(t, "done")
                              \/ errors' = errors /\ Sent(t, "select")
                              \/ Raised(t, "select")
        BY DEF AnswerReports
    <2>7. AnswerProbes(t) => \E o \in Ops : (errors' = errors /\ Sent(t, o)) \/ Raised(t, o)
        BY DEF AnswerProbes, Ops
    <2>8. AnswerReads(t) => errors' = errors /\ (Over(t, "done") \/ \E o : GoesOn(t, o))
        BY DEF AnswerReads
    <2>9. "select" \in Ops
        BY DEF Ops
    <2> QED BY <1>1, <1>2, <1>3, <1>4, <2>1, <2>2, <2>3, <2>4, <2>5, <2>6, <2>7, <2>8, <2>9
            DEF Answered
<1>7. CASE Cancel(t)
    <2>1. outcome'[u] = outcome[u] /\ errors' = errors
        BY <1>7 DEF Cancel, Queue, Types
    <2> QED BY <1>7, <2>1, CancelledJobs
<1> QED BY <1>5, <1>6, <1>7

\* While a lone block is active no other task makes a step.
LEMMA OnlyItself ==
    ASSUME Flags, NEW t \in Txs, met[t] = {}, met'[t] = {}, t \in Active, NEW s \in Tasks,
           Call(s) \/ Resume(s) \/ Cancel(s)
    PROVE  s = t
<1> SUFFICES ASSUME s # t PROVE FALSE
    OBVIOUS
<1>1. t \in Tasks
    BY DEF Tasks
<1>2. s \notin Active
    BY <1>1 DEF Flags, HaveMet
<1>3. Call(s) /\ pc[s] = "new"
    BY <1>2 DEF Call, Resume, Cancel, Active
<1>4. met'[t] = met[t] \cup {s}
    BY <1>1, <1>3 DEF Call, Meets
<1> QED BY <1>4

\* A block that is not active is not touched by the steps of other tasks.
LEMMA OthersKeepBlock ==
    ASSUME Flags, NEW t \in Txs, NEW s \in Tasks, s # t, Call(s) \/ Resume(s) \/ Cancel(s)
    PROVE  /\ Fresh(t) => Fresh(t)'
           /\ t \notin Active /\ Block(t) => Block(t)'
<1>1. t \in Tasks
    BY DEF Tasks
<1>2. /\ UNCHANGED <<dialect, current, stored>>
      /\ pc'[t] = pc[t] /\ op'[t] = op[t] /\ result'[t] = result[t] /\ (t \in wrote' <=> t \in wrote)
    BY <1>1, TaskMovesItself DEF Flags, dbVars
<1>3. /\ outcome'[t] = outcome[t] /\ (t \in errors' <=> t \in errors)
      /\ \A i \in DOMAIN jobs' : jobs'[i].by = t =>
            \E k \in DOMAIN jobs : jobs[k].by = t /\ jobs[k].op = jobs'[i].op
    BY <1>1, OthersKeep DEF Flags
<1>4. Fresh(t) => Fresh(t)'
    BY <1>2, <1>3 DEF Fresh
<1>5. ASSUME t \notin Active, Block(t) PROVE Block(t)'
    <2>1. pc'[t] \notin {"running", "waiting"}
        BY <1>1, <1>2, <1>5 DEF Active
    <2>2. Begins(t)' /\ Inside(t)' /\ Closing(t)'
        BY <2>1 DEF Begins, Begun, Inside, InBlock, Closing, Ending
    <2>3. Closed(t)'
        BY <1>2, <1>3, <1>5 DEF Block, Closed, Kept
    <2> QED BY <2>2, <2>3 DEF Block
<1> QED BY <1>4, <1>5

-----------------------------------------------------------------------------
(* Steps of the block.                                                        *)

\* A block in its transaction that waits for no answer has nothing queued, except
\* what it was cancelled at.
LEMMA NothingQueued ==
    ASSUME Queue, NEW t \in Txs, cut = {}, Inside(t), InBlock(t), op[t] # "rollback",
           pc[t] = "running" \/ result[t] # "none"
    PROVE  DOMAIN jobs = {}
<1>1. t \in Tasks
    BY DEF Tasks
<1>2. \A i \in DOMAIN jobs : jobs[i].wanted => jobs[i].by # t
    BY <1>1, FreeHasNoJob
<1> QED BY <1>2 DEF Inside, OwnQueue

\* It goes on after a statement, which may have raised.
LEMMA BlockGoesOn ==
    ASSUME Queue, NEW t \in Txs, cut = {}, Block(t), InBlock(t), TaskStep(t),
           op[t] \notin TxOps, NEW o \in {"select", "commit", "rollback"}, GoesOn(t, o), flag' = flag,
           t \in wrote' => t \in wrote \/ (op[t] = "insert" /\ Good(t)),
           t \in errors => t \in errors',
           result[t] \in {"error", "conflict"} => t \in errors'
    PROVE  Fresh(t)' /\ Block(t)'
<1>1. t \in Tasks
    BY DEF Tasks
<1>2. /\ pc'[t] = "running" /\ op'[t] = o /\ result'[t] = "none" /\ jobs' = jobs
      /\ outcome'[t] = outcome[t] /\ UNCHANGED <<dialect, dbtx, current, stored>>
    BY <1>1 DEF GoesOn, TaskStep, dbVars, Queue, Types
<1>3. flag /\ DOMAIN jobs = {}
    <2>1. pc[t] = "running" \/ result[t] # "none"
        BY DEF InBlock, TaskStep
    <2> QED BY <2>1, NothingQueued DEF Block, Inside, TxOps
<1>4. ~Ending(t) /\ outcome[t] = "none"
    BY <1>1 DEF Ending, TxOps, InBlock, Queue, Issued, Types
<1>5. Inside(t)'
    <2>1. OwnQueue(t)'
        BY <1>2, <1>3 DEF OwnQueue
    <2>2. /\ dbtx' # "none" /\ t \notin stored' /\ (t \in wrote' => t \in current')
          /\ dbtx' = "aborted" => t \in errors'
        BY <1>2, <1>4 DEF Block, Inside, TxOps
    <2> QED BY <1>2, <1>3, <2>1, <2>2 DEF Inside, Autocommits, Good
<1>6. Fresh(t)' /\ Begins(t)' /\ Closing(t)' /\ Closed(t)'
    BY <1>2, <1>4 DEF Fresh, Begins, Begun, Closing, Ending, Closed
<1> QED BY <1>5, <1>6 DEF Block

\* A block that has failed holds nothing any more.
LEMMA BlockFails ==
    ASSUME Queue, NEW t \in Txs, Fresh(t), TaskStep(t), Over(t, "failed"), wrote' = wrote
    PROVE  Fresh(t)' /\ Block(t)'
<1>1. t \in Tasks
    BY DEF Tasks
<1>2. /\ pc'[t] = "ended" /\ op' = op /\ jobs' = jobs /\ outcome'[t] = "failed"
      /\ current' = current
    BY <1>1 DEF Over, TaskStep, dbVars, Queue, Types
<1>3. Fresh(t)'
    BY <1>2 DEF Fresh
<1>4. Block(t)'
    BY <1>2 DEF Block, Begins, Begun, Inside, InBlock, Closing, Ending, Closed
<1> QED BY <1>3, <1>4

LEMMA BlockRaises ==
    ASSUME Queue, NEW t \in Txs, cut = {}, cut' = {}, Fresh(t), Block(t), TaskStep(t),
           Raised(t, op[t]), flag' = flag, wrote' = wrote
    PROVE  Fresh(t)' /\ Block(t)'
<1>1. t \in Tasks /\ t \notin Upserts
    BY TasksAssumption DEF Tasks
<1>2. CASE op[t] = "begin"
    <2>1. Over(t, "failed")
        BY <1>1, <1>2 DEF Raised, TxOps
    <2> QED BY <2>1, BlockFails
<1>3. CASE op[t] # "begin"
    <2>1. PICK o \in {"select", "commit", "rollback"} : GoesOn(t, o) /\ op[t] \notin TxOps
        BY <1>1, <1>3 DEF Raised
    <2>2. InBlock(t)
        BY <1>1, <1>3 DEF InBlock, TaskStep, Queue, Issued
    <2>3. t \in errors'
        BY DEF Raised
    <2> QED BY <2>1, <2>2, <2>3, BlockGoesOn
<1> QED BY <1>2, <1>3

LEMMA BlockCalls ==
    ASSUME Queue, NEW t \in Txs, cut = {}, cut' = {}, Fresh(t), Block(t), Call(t)
    PROVE  Fresh(t)' /\ Block(t)'
<1>1. t \in Tasks /\ op[t] \in Ops
    BY DEF Tasks, Queue, Types
<1>2. /\ pc[t] \in {"new", "running"} /\ UNCHANGED <<dialect, flag, result, dbVars, wrote>>
      /\ CallForm(t) /\ TaskStep(t)
    BY <1>1, CallForms, CallIsTaskStep DEF Queue
<1>3. pc[t] = "new" => op[t] = "begin" /\ outcome[t] = "none"
    BY <1>1 DEF Queue, Issued
<1>4. pc[t] = "running" => InBlock(t) /\ ~Ending(t) /\ outcome[t] = "none"
    BY <1>1 DEF Queue, Issued, InBlock, Ending
<1>5. result[t] = "none" /\ result'[t] = "none"
    BY <1>1, <1>2 DEF Queue, Waits
<1>6. errors \subseteq errors'
    BY <1>2 DEF CallForm, Raised
<1>7. CASE Sent(t, op[t])
    <2> DEFINE job == [by |-> t, op |-> op[t], wanted |-> TRUE]
    <2>1. Types /\ job \in Jobs /\ jobs' = Append(jobs, job)
        BY <1>1, <1>7 DEF Queue, Jobs, Sent
    <2>2. job.by = t /\ job.op = op[t] /\ job.wanted
        OBVIOUS
    <2> HIDE DEF job
    <2>3. /\ Len(jobs) \in Nat /\ DOMAIN jobs' = 1 .. Len(jobs) + 1
          /\ \A i \in DOMAIN jobs : jobs'[i] = jobs[i]
          /\ \A i \in DOMAIN jobs' : i \in DOMAIN jobs \/ i = Len(jobs) + 1
          /\ jobs'[Len(jobs) + 1] = job
        BY <2>1, JobsAppend, JobsHaveIndex
    <2>4. /\ pc'[t] = "waiting" /\ op'[t] = op[t] /\ outcome' = outcome
        BY <1>1, <1>7 DEF Sent, Queue, Types
    <2>5. \A i \in DOMAIN jobs : jobs[i].wanted => jobs[i].by # t
        BY <1>1, <1>2, FreeHasNoJob
    <2>6. \A i \in DOMAIN jobs : ~jobs[i].wanted => jobs[i].op \notin TxOps
        BY DEF Queue, CutShort
    <2>7. \A i \in DOMAIN jobs' : i = Len(jobs) + 1 => IsLast(i)'
        BY <2>3 DEF IsLast
    <2>8. CASE op[t] = "begin"
        <3>1. \A i \in DOMAIN jobs : jobs[i].by # t
            BY <2>5, <2>6, <2>8 DEF Fresh, TxOps
        <3>2. Fresh(t)'
            BY <1>2, <2>2, <2>3, <2>4, <2>8, <3>1 DEF Fresh, dbVars
        <3>3. \A i \in DOMAIN jobs' : jobs'[i].by = t => IsLast(i)'
            BY <2>3, <2>7, <3>1
        <3>4. Begins(t)'
            BY <1>5, <3>3 DEF Begins, Begun, Good
        <3>5. outcome'[t] = "none"
            BY <1>2, <1>3, <1>4, <2>4
        <3> QED BY <1>5, <2>4, <2>8, <3>2, <3>4, <3>5 DEF Block, Inside, InBlock, Closing, Ending, Closed
    <2>9. CASE op[t] # "begin"
        <3>1. InBlock(t) /\ ~Ending(t) /\ outcome'[t] = "none"
            BY <1>2, <1>3, <1>4, <2>4, <2>9
        <3>2. OwnQueue(t)'
            <4>1. ASSUME NEW i \in DOMAIN jobs
                  PROVE  /\ jobs'[i].by = t /\ jobs'[i].op \notin Autocommits \cup {"begin"}
                         /\ jobs'[i].op \notin TxOps /\ op'[t] = "rollback"
                BY <2>3, <2>4, <2>5, <2>6, <3>1, <4>1 DEF Block, Inside, OwnQueue
            <4>2. /\ jobs'[Len(jobs) + 1].by = t /\ jobs'[Len(jobs) + 1].wanted
                  /\ jobs'[Len(jobs) + 1].op \notin Autocommits \cup {"begin"}
                BY <2>2, <2>3, <2>9, <3>1 DEF Block, Inside
            <4> QED BY <2>3, <2>7, <4>1, <4>2 DEF OwnQueue
        <3>3. Inside(t)'
            BY <1>2, <1>5, <1>6, <2>4, <2>9, <3>1, <3>2 DEF Block, Inside, dbVars, Good
        <3> QED BY <1>5, <2>4, <2>9, <3>1, <3>3
                DEF Fresh, Block, Begins, Begun, Closing, Ending, Closed
    <2> QED BY <2>8, <2>9
<1>8. CASE Raised(t, op[t])
    BY <1>2, <1>8, BlockRaises
<1>9. CASE op[t] \in {"commit", "rollback"} /\ ~flag
    BY <1>2, <1>3, <1>4, <1>9 DEF Block, Inside
<1> QED BY <1>2, <1>7, <1>8, <1>9 DEF CallForm

\* Cancelled at a statement, it rolls back.
LEMMA BlockCancelled ==
    ASSUME Queue, NEW t \in Txs, cut = {}, cut' = {}, Block(t), Cancel(t)
    PROVE  Fresh(t)' /\ Block(t)'
<1>1. t \in Tasks
    BY DEF Tasks
<1>2. /\ DOMAIN jobs' = DOMAIN jobs
      /\ \A i \in DOMAIN jobs : jobs'[i].by = jobs[i].by /\ jobs'[i].op = jobs[i].op
    BY <1>1, CancelledJobs
<1>3. /\ pc[t] = "waiting" /\ result[t] = "none" /\ op[t] \notin TxOps
      /\ UNCHANGED <<dialect, flag, result, dbtx, current, stored, wrote, errors>>
    BY DEF Cancel, dbVars
<1>4. pc'[t] = "running" /\ op'[t] = "rollback" /\ outcome' = outcome
    BY <1>1, <1>3 DEF Cancel, Queue, Types
<1>5. InBlock(t) /\ ~Ending(t) /\ outcome[t] = "none"
    BY <1>1, <1>3 DEF InBlock, Ending, TxOps, Queue, Issued, Types
<1>6. OwnQueue(t)'
    BY <1>2, <1>4, <1>5 DEF Block, Inside, OwnQueue, IsLast
<1>7. Inside(t)'
    BY <1>3, <1>4, <1>5, <1>6 DEF Block, Inside, Good, Autocommits
<1> QED BY <1>3, <1>4, <1>5, <1>7 DEF Block, Fresh, Begins, Begun, Closing, Ending, Closed

LEMMA BlockResumes ==
    ASSUME Queue, NEW t \in Txs, cut = {}, cut' = {}, Fresh(t), Block(t), Resume(t)
    PROVE  Fresh(t)' /\ Block(t)'
<1>1. t \in Tasks /\ t \notin Upserts
    BY TasksAssumption DEF Tasks
<1>2. /\ pc[t] = "waiting" /\ result[t] # "none" /\ Answered(t) /\ TaskStep(t)
      /\ UNCHANGED <<dialect, dbtx, current, stored>> /\ result'[t] = "none"
    BY <1>1, ResumeForms, ResumeIsTaskStep DEF dbVars, Queue, Types
<1>3. Statement(t, op[t]) /\ outcome[t] = "none"
    BY <1>1, <1>2 DEF Queue, Issued, Types
<1>4. op[t] # "begin" => InBlock(t)
    BY <1>2 DEF InBlock
<1>5. CASE AnswerRaises(t)
    BY <1>2, <1>5, BlockRaises DEF AnswerRaises
<1>6. CASE AnswerBegins(t)
    <2>1. /\ dbtx = "open" /\ jobs = <<>> /\ t \notin stored /\ t \notin wrote
        BY <1>2, <1>6 DEF AnswerBegins, Block, Begins, Begun, Fresh, Queue, Database
    <2>2. /\ pc'[t] = "running" /\ op'[t] = "insert" /\ flag' /\ jobs' = <<>>
          /\ outcome' = outcome /\ wrote' = wrote
        BY <1>1, <1>6, <2>1 DEF AnswerBegins, GoesOn, Queue, Types
    <2>3. OwnQueue(t)'
        BY <2>2 DEF OwnQueue
    <2>4. Inside(t)'
        BY <1>2, <2>1, <2>2, <2>3 DEF Inside, Good, Autocommits
    <2> QED BY <1>2, <1>3, <2>2, <2>4 DEF Block, Fresh, Begins, Begun, Closing, Ending, Closed
<1>7. CASE AnswerEnds(t)
    <2>1. Ending(t) /\ DOMAIN jobs = {}
        BY <1>2, <1>7 DEF AnswerEnds, Ending, Block, Closing
    <2>2. /\ pc'[t] = "ended" /\ op' = op /\ jobs' = jobs /\ wrote' = wrote /\ errors' = errors
          /\ outcome'[t] = IF op[t] = "commit" THEN "committed" ELSE "rolledback"
        BY <1>1, <1>7 DEF AnswerEnds, Over, Queue, Types
    <2>3. Closed(t)'
        BY <1>2, <1>7, <2>1, <2>2 DEF AnswerEnds, Closed, Block, Closing, Kept
    <2> QED BY <1>7, <2>2, <2>3
            DEF AnswerEnds, Block, Fresh, Begins, Begun, Inside, InBlock, Closing, Ending
<1>8. ~AnswerCommits(t)
    BY <1>4 DEF AnswerCommits, Block, Inside
<1>9. CASE AnswerReports(t)
    <2>1. op[t] = "insert"
        BY <1>1, <1>3, <1>4, <1>9 DEF AnswerReports, Statement, Block, Inside, TxOps, Autocommits
    <2>2. PICK o \in {"select", "commit", "rollback"} : GoesOn(t, o)
        BY <1>1, <1>9 DEF AnswerReports, AfterInsert
    <2>3. Good(t) /\ flag' = flag /\ errors' = errors
        BY <1>1, <1>9 DEF AnswerReports
    <2> QED BY <1>2, <1>4, <2>1, <2>2, <2>3, BlockGoesOn DEF TxOps, Good
<1>10. ~AnswerProbes(t)
    BY <1>1, <1>3 DEF AnswerProbes, Statement, TxOps, Autocommits
<1>11. CASE AnswerReads(t)
    <2>1. PICK o \in {"select", "commit", "rollback"} : GoesOn(t, o)
        BY <1>1, <1>11 DEF AnswerReads, AfterSelect
    <2>2. op[t] = "select" /\ Good(t) /\ flag' = flag /\ wrote' = wrote /\ errors' = errors
        BY <1>11 DEF AnswerReads
    <2> QED BY <1>2, <1>4, <2>1, <2>2, BlockGoesOn DEF TxOps, Good
<1> QED BY <1>2, <1>5, <1>6, <1>7, <1>8, <1>9, <1>10, <1>11 DEF Answered

\* No task comes back to its begin.
LEMMA FreshGoesOn ==
    ASSUME Queue, NEW t \in Txs, Fresh(t), Call(t) \/ Resume(t) \/ Cancel(t)
    PROVE  Fresh(t)'
<1>1. t \in Tasks /\ t \notin Upserts /\ op[t] \in Ops
    BY TasksAssumption DEF Tasks, Queue, Types
<1>2. UNCHANGED <<current, stored>>
    BY <1>1, TaskMovesItself DEF dbVars
<1>3. ASSUME NEW how, Over(t, how), t \in wrote' => t \in wrote \/ op[t] # "begin" PROVE Fresh(t)'
    BY <1>2, <1>3 DEF Over, Fresh
<1>4. ASSUME NEW o \in {"insert", "select", "commit", "rollback"}, GoesOn(t, o) PROVE Fresh(t)'
    BY <1>1, <1>4 DEF GoesOn, Fresh, Queue, Types
<1>5. ASSUME NEW o \in Ops, Sent(t, o), o = "begin" => op[t] = "begin" /\ wrote' = wrote
      PROVE  Fresh(t)'
    <2> DEFINE job == [by |-> t, op |-> o, wanted |-> TRUE]
    <2>1. Types /\ job \in Jobs /\ jobs' = Append(jobs, job) /\ job.op = o
        BY <1>1, <1>5 DEF Queue, Jobs, Sent
    <2> HIDE DEF job
    <2>2. /\ \A i \in DOMAIN jobs : jobs'[i] = jobs[i]
          /\ \A i \in DOMAIN jobs' : i \in DOMAIN jobs \/ jobs'[i] = job
        BY <2>1, JobsAppend
    <2>3. op'[t] = o
        BY <1>1, <1>5 DEF Sent, Queue, Types
    <2> QED BY <1>2, <1>5, <2>1, <2>2, <2>3 DEF Fresh
<1>6. ASSUME NEW o, Raised(t, o), wrote' = wrote PROVE Fresh(t)'
    BY <1>1, <1>3, <1>4, <1>6 DEF Raised
<1>7. CASE Call(t)
    <2>1. CallForm(t) /\ wrote' = wrote
        BY <1>1, <1>7, CallForms DEF Queue
    <2> QED BY <1>1, <1>3, <1>5, <1>6, <2>1 DEF CallForm
<1>8. CASE Resume(t)
    <2>1. Answered(t) /\ Statement(t, op[t])
        BY <1>1, <1>8, ResumeForms DEF Queue, Issued
    <2>2. CASE AnswerRaises(t)
        BY <1>6, <2>2 DEF AnswerRaises
    <2>3. CASE AnswerBegins(t)
        BY <1>4, <2>3 DEF AnswerBegins
    <2>4. CASE AnswerEnds(t)
        BY <1>3, <2>4 DEF AnswerEnds
    <2>5. CASE AnswerCommits(t)
        BY <1>5, <2>5 DEF AnswerCommits, Ops, Autocommits
    <2>6. CASE AnswerReports(t)
        BY <1>1, <1>4, <2>6 DEF AnswerReports, AfterInsert
    <2>7. ~AnswerProbes(t)
        BY <1>1, <2>1 DEF AnswerProbes, Statement, TxOps, Autocommits
    <2>8. CASE AnswerReads(t)
        BY <1>1, <1>4, <2>8 DEF AnswerReads, AfterSelect
    <2> QED BY <2>1, <2>2, <2>3, <2>4, <2>5, <2>6, <2>7, <2>8 DEF Answered
<1>9. CASE Cancel(t)
    <2>1. /\ DOMAIN jobs' = DOMAIN jobs
          /\ \A i \in DOMAIN jobs : jobs'[i].by = jobs[i].by /\ jobs'[i].op = jobs[i].op
        BY <1>1, <1>9, CancelledJobs
    <2>2. wrote' = wrote /\ (op'[t] = "begin" => op[t] = "begin")
        BY <1>1, <1>9 DEF Cancel, Queue, Types
    <2> QED BY <1>2, <2>1, <2>2 DEF Fresh
<1> QED BY <1>7, <1>8, <1>9

-----------------------------------------------------------------------------
(* Steps of the database.                                                     *)

LEMMA QueueMovesUp ==
    ASSUME Queue, Run
    PROVE  /\ \A i \in DOMAIN jobs' : /\ i + 1 \in DOMAIN jobs /\ jobs'[i] = jobs[i + 1]
                                      /\ IsLast(i + 1) => IsLast(i)'
           /\ IsLast(1) => jobs' = <<>>
           /\ 1 \in DOMAIN jobs /\ jobs # <<>>
<1>1. /\ jobs' \in Seq(Jobs) /\ Len(jobs') = Len(jobs) - 1 /\ 1 \in DOMAIN jobs /\ jobs # <<>>
      /\ \A i \in DOMAIN jobs' : i + 1 \in DOMAIN jobs /\ jobs'[i] = jobs[i + 1]
    BY JobsTail DEF Run, Queue
<1>2. Len(jobs) \in Nat /\ DOMAIN jobs = 1 .. Len(jobs)
    BY JobsHaveIndex DEF Queue
<1>3. DOMAIN jobs' = 1 .. Len(jobs') /\ Len(jobs') \in Nat
    BY <1>1, LenProperties
<1>4. \A i \in DOMAIN jobs' : IsLast(i + 1) => IsLast(i)'
    BY <1>1, <1>3 DEF IsLast
<1>5. IsLast(1) => jobs' = <<>>
    <2> SUFFICES ASSUME IsLast(1) PROVE jobs' = <<>>
        OBVIOUS
    <2>1. Len(jobs) <= 1
        BY <1>1, <1>2 DEF IsLast
    <2>2. Len(jobs') = 0
        BY <1>1, <1>2, <1>3, <2>1
    <2> QED BY <1>1, <2>2, EmptySeq
<1> QED BY <1>1, <1>4, <1>5

\* The connection sees nothing more than before but what the statement writes.
LEMMA RunAddsOwnWrite ==
    ASSUME Queue, Run, NEW t, t \notin current,
           jobs[1].by = t => jobs[1].op \notin {"insert", "update"}
    PROVE  t \notin current'
BY RunAnswers DEF RunBegin, RunCommit, RunRollback, RunStatement, Writes, Errs, dbVars, Queue, Database

LEMMA FreshRuns ==
    ASSUME Queue, NEW t \in Txs, Fresh(t), Run
    PROVE  Fresh(t)'
<1>1. UNCHANGED <<op, wrote>>
    BY DEF Run, clientVars, historyVars
<1>2. /\ 1 \in DOMAIN jobs
      /\ \A i \in DOMAIN jobs' : i + 1 \in DOMAIN jobs /\ jobs'[i] = jobs[i + 1]
    BY QueueMovesUp
<1>3. op[t] = "begin" /\ jobs[1].by = t => jobs[1].op \notin {"insert", "update"}
    BY <1>2 DEF Fresh
<1> QED BY <1>1, <1>2, <1>3, RunAddsOwnWrite DEF Fresh

LEMMA BlockRuns ==
    ASSUME Queue, NEW t \in Txs, cut = {}, Block(t), Run
    PROVE  Block(t)'
<1>1. t \in Tasks /\ t \notin Upserts
    BY TasksAssumption DEF Tasks
<1>2. UNCHANGED <<dialect, flag, pc, op, outcome, wrote, errors, cut>>
    BY DEF Run, clientVars, historyVars
<1>3. /\ \A i \in DOMAIN jobs' : /\ i + 1 \in DOMAIN jobs /\ jobs'[i] = jobs[i + 1]
                                 /\ IsLast(i + 1) => IsLast(i)'
      /\ IsLast(1) => jobs' = <<>>
      /\ 1 \in DOMAIN jobs /\ jobs # <<>>
    BY QueueMovesUp
<1>4. PICK r \in {"ok", "row", "conflict", "error"} :
          /\ \/ jobs[1].op = "begin" /\ RunBegin(r)
             \/ jobs[1].op \in {"commit"} \cup Autocommits /\ RunCommit(r)
             \/ jobs[1].op = "rollback" /\ RunRollback(r)
             \/ /\ jobs[1].op \in {"probe", "insert", "update", "select"}
                /\ RunStatement(jobs[1], r) \/ Errs(r)
          /\ jobs[1].by \in Tasks /\ jobs[1].op \in Ops
          /\ jobs[1].wanted => /\ pc[jobs[1].by] = "waiting" /\ op[jobs[1].by] = jobs[1].op
                               /\ result[jobs[1].by] = "none"
          /\ \A u \in Tasks : result'[u] = IF jobs[1].wanted /\ jobs[1].by = u THEN r
                                           ELSE result[u]
    BY RunAnswers
<1>5. jobs[1].op \in TxOps => jobs[1].wanted
    BY <1>3 DEF Queue, CutShort
<1>6. stored \subseteq current /\ stored \subseteq stored' /\ (dialect = "sqlite" => dbtx # "aborted")
    BY StoredGrows DEF Next, Queue, Database
<1>7. ~Ending(t) /\ ~Begun(t)
    BY <1>3 DEF Block, Closing, Begins
\* In its transaction the statement is one of its own.
<1>8. ASSUME InBlock(t)
      PROVE  /\ jobs[1].by = t /\ jobs[1].op \notin Autocommits \cup {"begin"}
             /\ ~jobs[1].wanted => op[t] = "rollback"
             /\ jobs[1].op \in TxOps => jobs' = <<>>
             /\ dbtx # "none" /\ t \notin stored
             /\ t \in wrote \/ (op[t] = "insert" /\ Good(t)) => t \in current
             /\ dbtx = "aborted" => \/ t \in errors
                                    \/ result[t] \in {"error", "conflict"}
                                    \/ op[t] = "rollback"
    BY <1>3, <1>7, <1>8 DEF Block, Inside, OwnQueue
<1>9. Begins(t)'
    <2>1. ASSUME pc[t] = "waiting", op[t] = "begin", NEW i \in DOMAIN jobs', jobs'[i].by = t
          PROVE  IsLast(i)'
        BY <1>3, <2>1 DEF Block, Begins
    <2>2. ASSUME Begun(t)' PROVE dbtx' = "open" /\ jobs' = <<>>
        <3>1. /\ jobs[1].wanted /\ jobs[1].by = t /\ jobs[1].op = "begin" /\ r \in {"ok", "row"}
              /\ pc[t] = "waiting" /\ op[t] = "begin"
            BY <1>1, <1>2, <1>4, <1>7, <2>2 DEF Begun, Good
        <3>2. RunBegin(r)
            BY <1>4, <3>1 DEF Autocommits
        <3>3. dbtx' = "open"
            BY <3>1, <3>2 DEF RunBegin, Errs
        <3>4. IsLast(1)
            BY <1>3, <3>1 DEF Block, Begins
        <3> QED BY <1>3, <3>3, <3>4
    <2> QED BY <1>2, <2>1, <2>2 DEF Begins
<1>10. Inside(t)'
    <2> SUFFICES ASSUME InBlock(t) PROVE Inside(t)'
        BY <1>2 DEF Inside, InBlock
    <2>1. flag' /\ op'[t] \notin Autocommits
        BY <1>2 DEF Block, Inside
    <2>2. OwnQueue(t)'
        BY <1>2, <1>3 DEF Block, Inside, OwnQueue
    <2>3. ASSUME ~Ending(t)'
          PROVE  /\ dbtx' # "none" /\ t \notin stored'
                 /\ t \in wrote' \/ (op'[t] = "insert" /\ Good(t)') => t \in current'
                 /\ dbtx' = "aborted" => \/ t \in errors'
                                         \/ result'[t] \in {"error", "conflict"}
                                         \/ op'[t] = "rollback"
        <3>1. jobs[1].op \notin TxOps
            <4> SUFFICES ASSUME jobs[1].op \in TxOps PROVE FALSE
                OBVIOUS
            <4>1. /\ jobs[1].wanted /\ op[t] = jobs[1].op /\ pc[t] = "waiting" /\ result'[t] = r
                BY <1>1, <1>4, <1>5, <1>8
            <4> QED BY <1>2, <1>8, <2>3, <4>1 DEF Ending, TxOps
        <3>2. RunStatement(jobs[1], r) \/ Errs(r)
            BY <1>4, <1>8, <3>1 DEF TxOps
        <3>3. dbtx' # "none" /\ stored' = stored /\ current \subseteq current'
            BY <1>8, <3>2 DEF RunStatement, Writes, Errs, dbVars
        <3>4. ASSUME op[t] = "insert", Good(t)' PROVE t \in current'
            <4>1. CASE Good(t)
                BY <1>8, <3>3, <3>4, <4>1
            <4>2. CASE ~Good(t)
                <5>1. jobs[1].wanted /\ jobs[1].op = "insert" /\ r \in {"ok", "row"}
                    BY <1>1, <1>4, <1>8, <3>4, <4>2 DEF Good
                <5> QED BY <1>8, <3>2, <5>1 DEF RunStatement, Writes, Errs
            <4> QED BY <4>1, <4>2
        <3>5. ASSUME dbtx' = "aborted"
              PROVE  \/ t \in errors
                     \/ result'[t] \in {"error", "conflict"}
                     \/ op[t] = "rollback"
            <4>1. CASE dbtx = "aborted"
                <5>1. CASE result[t] \in {"error", "conflict"}
                    BY <1>1, <1>4, <1>8, <5>1
                <5> QED BY <1>8, <4>1, <5>1
            <4>2. CASE dbtx # "aborted"
                <5>1. r \in {"error", "conflict"}
                    BY <3>2, <3>5, <4>2 DEF RunStatement, Writes, Errs, dbVars
                <5> QED BY <1>1, <1>4, <1>8, <5>1
            <4> QED BY <4>1, <4>2
        <3> QED BY <1>2, <1>8, <3>3, <3>4, <3>5
    <2> QED BY <2>1, <2>2, <2>3 DEF Inside
<1>11. Closing(t)'
    <2> SUFFICES ASSUME Ending(t)' PROVE Closing(t)'
        BY DEF Closing
    <2>1. /\ pc[t] = "waiting" /\ op[t] \in {"commit", "rollback"} /\ result[t] = "none"
          /\ result'[t] # "none" /\ InBlock(t)
        BY <1>2, <1>7 DEF Ending, InBlock
    <2>2. jobs[1].wanted /\ jobs[1].by = t /\ jobs[1].op = op[t] /\ result'[t] = r
        BY <1>1, <1>4, <2>1
    <2>3. jobs' = <<>>
        BY <1>8, <2>1, <2>2 DEF TxOps
    <2>4. op[t] = "rollback" => t \notin current'
        BY <1>4, <1>8, <2>1, <2>2 DEF RunRollback, Autocommits
    <2>5. ASSUME op[t] = "commit", r \in {"ok", "row"}, t \in wrote,
                 dialect = "postgres" => t \notin errors
          PROVE  t \in stored'
        <3>1. RunCommit(r) /\ r = "ok"
            BY <1>4, <2>2, <2>5 DEF RunCommit
        <3>2. dbtx # "aborted"
            BY <1>6, <1>8, <2>1, <2>5 DEF Queue, Types
        <3> QED BY <1>8, <2>1, <2>5, <3>1, <3>2 DEF RunCommit
    <2> QED BY <1>2, <2>2, <2>3, <2>4, <2>5 DEF Closing, Good, Kept
<1>12. Closed(t)'
    <2>1. outcome[t] = "rolledback" => jobs[1].by # t
        BY <1>3 DEF Block, Closed
    <2>2. outcome[t] = "rolledback" => t \notin current'
        BY <2>1, RunAddsOwnWrite DEF Block, Closed
    <2> QED BY <1>2, <1>3, <1>6, <2>2 DEF Block, Closed, Kept
<1> QED BY <1>9, <1>10, <1>11, <1>12 DEF Block

-----------------------------------------------------------------------------
LEMMA NextKeepsBlockInv ==
    ASSUME Flags, BlockInv, [Next]_vars
    PROVE  BlockInv'
<1>1. ASSUME NEW t \in Txs PROVE Fresh(t)' /\ (Lone(t)' => Block(t)')
    <2>1. t \in Tasks /\ Fresh(t) /\ Queue /\ (Lone(t) => Block(t))
        BY DEF Tasks, BlockInv, Flags
    <2>2. Lone(t)' => /\ Lone(t) /\ Block(t) /\ cut = {} /\ cut' = {}
                      /\ met[t] = {} /\ met'[t] = {}
        BY <2>1, HistoryGrows DEF Lone
    <2>3. ASSUME NEW s \in Tasks, s # t, Call(s) \/ Resume(s) \/ Cancel(s)
          PROVE  Fresh(t)' /\ (Lone(t)' => Block(t)')
        <3>1. Fresh(t)'
            BY <2>1, <2>3, OthersKeepBlock
        <3>2. ASSUME Lone(t)' PROVE Block(t)'
            <4>1. t \notin Active
                BY <2>2, <2>3, <3>2, OnlyItself
            <4> QED BY <2>2, <2>3, <3>2, <4>1, OthersKeepBlock
        <3> QED BY <3>1, <3>2
    <2>4. ASSUME Call(t) \/ Resume(t) \/ Cancel(t), Lone(t)' PROVE Fresh(t)' /\ Block(t)'
        BY <2>1, <2>2, <2>4, BlockCalls, BlockResumes, BlockCancelled
    <2>5. ASSUME Call(t) \/ Resume(t) \/ Cancel(t) PROVE Fresh(t)'
        BY <2>1, <2>5, FreshGoesOn
    <2>6. CASE Run
        BY <2>1, <2>2, <2>6, FreshRuns, BlockRuns
    <2>7. CASE UNCHANGED vars
        BY <2>1, <2>7 DEF vars, clientVars, dbVars, historyVars, Fresh, Lone, Block, Begins, Begun,
               Inside, InBlock, OwnQueue, IsLast, Closing, Ending, Closed, Kept, Good
    <2> QED BY <2>3, <2>4, <2>5, <2>6, <2>7 DEF Next
<1> QED BY <1>1 DEF BlockInv

LEMMA BlockInvHolds == Spec => []BlockInv
<1>1. Init => BlockInv
    BY DEF Init, BlockInv, Fresh, Lone, Block, Begins, Begun, Inside, InBlock, Closing, Ending,
           Closed, Tasks
<1>2. Flags /\ BlockInv /\ [Next]_vars => BlockInv'
    BY NextKeepsBlockInv
<1> QED BY <1>1, <1>2, FlagsHold, PTL DEF Spec

\* A block that was rolled back has stored nothing, if it ran alone and nothing was
\* cut short, whatever raised in it and wherever it was cancelled.
THEOREM RollbacksDiscard == Spec => []RollbackDiscards
<1>1. BlockInv /\ Queue => RollbackDiscards
    BY DEF BlockInv, Lone, Block, Closed, RollbackDiscards, Queue, Database
<1> QED BY <1>1, BlockInvHolds, QueueHolds, PTL

\* A block that has committed has stored its write, if it ran alone and nothing was
\* cut short; on PostgreSQL, if nothing raised in it either.
THEOREM CommitsAreKept == Spec => []CommitKeeps
<1>1. BlockInv => CommitKeeps
    BY DEF BlockInv, Lone, Block, Closed, Kept, CommitKeeps
<1> QED BY <1>1, BlockInvHolds, PTL

-----------------------------------------------------------------------------
(* What the flag tells of the connection.                                     *)

\* Nothing was cut short, and on SQLite no upsert ran beside a transaction.
Steady ==
    /\ cut = {}
    /\ dialect = "sqlite" => \A t \in Txs : met[t] \cap Upserts = {}

\* The answer to a begin, commit or rollback that its task has not taken yet.
Told(t) == op[t] \in TxOps /\ result[t] # "none"

\* There is one such answer at a time, and until it is taken the flag tells what was
\* so before it.
FlagFollows ==
    /\ \A t, u \in Tasks : Told(t) /\ Told(u) => t = u
    /\ (\A t \in Tasks : ~Told(t)) => flag = (dbtx # "none")
    /\ \A t \in Tasks : Told(t) =>
          \/ op[t] = "begin" /\ result[t] = "ok" /\ dbtx # "none"
          \/ op[t] = "begin" /\ result[t] = "error" /\ flag = (dbtx # "none")
          \/ op[t] \in {"commit", "rollback"} /\ result[t] = "ok" /\ dbtx = "none"
          \/ op[t] \in {"commit", "rollback"} /\ result[t] = "error"

\* The commit() of a write outside transactions meets none: no begin runs before it.
AutocommitsAlone ==
    \A i \in DOMAIN jobs : jobs[i].op \in Autocommits =>
        /\ jobs[i].by \in Upserts /\ dbtx = "none"
        /\ \A k \in DOMAIN jobs : k <= i => jobs[k].op \notin TxOps

\* The begin of the block has succeeded.
Entered(t) ==
    \/ pc[t] = "running"
    \/ pc[t] = "waiting" /\ (op[t] # "begin" \/ result[t] = "ok")

\* SQLite lets one block begin at a time, and the transaction is open until the end
\* of that block is answered.
OneBlock ==
    dialect = "sqlite" =>
        /\ \A t, u \in Txs : Entered(t) /\ Entered(u) => t = u
        /\ \A t \in Txs : Entered(t) /\ (Told(t) => op[t] = "begin") => dbtx = "open"

FlagInv == Steady => FlagFollows /\ AutocommitsAlone /\ OneBlock

LEMMA SteadyBefore ==
    ASSUME Queue, [Next]_vars, Steady'
    PROVE  Steady
<1>1. dialect' = dialect /\ cut \subseteq cut' /\ \A t \in Tasks : met[t] \subseteq met'[t]
    BY HistoryGrows
<1>2. Txs \subseteq Tasks
    BY DEF Tasks
<1> QED BY <1>1, <1>2 DEF Steady

\* Only the answer to a begin, commit or rollback moves the flag.
LEMMA TakesOwnAnswer ==
    ASSUME Queue, NEW t \in Tasks, Call(t) \/ Resume(t) \/ Cancel(t)
    PROVE  /\ Told(t) => Resume(t) /\ Answered(t)
           /\ ~Told(t) => flag' = flag
           /\ \A u \in Tasks : Told(u)' <=> u # t /\ Told(u)
<1>1. ASSUME ~Resume(t) PROVE flag' = flag /\ result[t] = "none"
    BY <1>1, CallForms DEF Queue, Types, Waits, Call, Cancel
<1>2. ASSUME Resume(t) PROVE Answered(t) /\ result[t] # "none"
    BY <1>2, ResumeForms DEF Queue
<1>3. ASSUME Answered(t), op[t] \notin TxOps PROVE flag' = flag
    BY <1>3 DEF Answered, AnswerRaises, AnswerBegins, AnswerEnds, AnswerCommits, AnswerReports,
                AnswerProbes, AnswerReads, TxOps
<1>4. \A u \in Tasks : Told(u)' <=> u # t /\ Told(u)
    BY TaskMovesItself DEF Told
<1> QED BY <1>1, <1>2, <1>3, <1>4 DEF Told

LEMMA TaskKeepsFlagFollows ==
    ASSUME Queue, FlagFollows, Steady', NEW t \in Tasks, Call(t) \/ Resume(t) \/ Cancel(t)
    PROVE  FlagFollows'
<1>1. /\ dbtx' = dbtx
      /\ \A u \in Tasks : u # t => op'[u] = op[u] /\ result'[u] = result[u]
    BY TaskMovesItself DEF dbVars
<1>2. /\ Told(t) => Resume(t) /\ Answered(t)
      /\ ~Told(t) => flag' = flag
      /\ \A u \in Tasks : Told(u)' <=> u # t /\ Told(u)
    BY TakesOwnAnswer
<1>3. \A u, v \in Tasks : Told(u)' /\ Told(v)' => u = v
    BY <1>2 DEF FlagFollows
<1>4. ASSUME NEW u \in Tasks, Told(u)'
      PROVE  \/ op'[u] = "begin" /\ result'[u] = "ok" /\ dbtx' # "none"
             \/ op'[u] = "begin" /\ result'[u] = "error" /\ flag' = (dbtx' # "none")
             \/ op'[u] \in {"commit", "rollback"} /\ result'[u] = "ok" /\ dbtx' = "none"
             \/ op'[u] \in {"commit", "rollback"} /\ result'[u] = "error"
    <2>1. u # t /\ Told(u) /\ ~Told(t)
        BY <1>2, <1>4 DEF FlagFollows
    <2> QED BY <1>1, <1>2, <2>1 DEF FlagFollows
<1>5. ASSUME \A u \in Tasks : ~Told(u)' PROVE flag' = (dbtx' # "none")
    <2>1. CASE ~Told(t)
        <3>1. \A u \in Tasks : ~Told(u)
            BY <1>2, <1>5, <2>1
        <3> QED BY <1>1, <1>2, <2>1, <3>1 DEF FlagFollows
    <2>2. CASE Told(t)
        <3>1. Answered(t) /\ op[t] \in TxOps
            BY <1>2, <2>2 DEF Told
        <3>2. AnswerRaises(t) \/ AnswerBegins(t) \/ AnswerEnds(t)
            BY <3>1 DEF Answered, AnswerCommits, AnswerReports, AnswerProbes, AnswerReads, TxOps,
                        Autocommits
        <3>3. CASE op[t] = "begin" /\ result[t] = "ok" /\ dbtx # "none"
            BY <1>1, <3>2, <3>3 DEF AnswerRaises, AnswerBegins, AnswerEnds
        <3>4. CASE op[t] = "begin" /\ result[t] = "error" /\ flag = (dbtx # "none")
            BY <1>1, <3>2, <3>4 DEF AnswerRaises, AnswerBegins, AnswerEnds, Good
        <3>5. CASE op[t] \in {"commit", "rollback"} /\ result[t] = "ok" /\ dbtx = "none"
            BY <1>1, <3>2, <3>5 DEF AnswerRaises, AnswerBegins, AnswerEnds
        <3>6. CASE op[t] \in {"commit", "rollback"} /\ result[t] = "error"
            <4>1. t \in Txs /\ t \notin Upserts
                BY <3>6, TasksAssumption DEF Queue, Issued, Statement, Tasks, Autocommits
            <4>2. Raised(t, op[t])
                BY <3>2, <3>6 DEF AnswerRaises, AnswerBegins, AnswerEnds, Good
            <4>3. cut' = cut \cup {op[t]}
                BY <3>6, <4>1, <4>2 DEF Raised, TxOps
            <4> QED BY <4>3 DEF Steady
        <3> QED BY <2>2, <3>3, <3>4, <3>5, <3>6 DEF FlagFollows
    <2> QED BY <2>1, <2>2
<1> QED BY <1>3, <1>4, <1>5 DEF FlagFollows

\* What the first statement of the queue does to the transaction.
LEMMA RunSwitches ==
    ASSUME Queue, Run, AutocommitsAlone, cut = {}
    PROVE  /\ 1 \in DOMAIN jobs /\ jobs[1].by \in Tasks
           /\ jobs[1].op \in TxOps => jobs[1].wanted /\ jobs[1].by \in Txs
           /\ jobs[1].op \in Autocommits => jobs[1].by \in Upserts /\ dbtx = "none"
           /\ jobs[1].op \notin TxOps =>
                  /\ dbtx' = "none" <=> dbtx = "none"
                  /\ dialect = "sqlite" => dbtx' = dbtx
           /\ \E r \in {"ok", "row", "conflict", "error"} :
                 /\ \A u \in Tasks : result'[u] = IF jobs[1].wanted /\ jobs[1].by = u THEN r
                                                  ELSE result[u]
                 /\ jobs[1].wanted => /\ pc[jobs[1].by] = "waiting"
                                      /\ op[jobs[1].by] = jobs[1].op
                 /\ jobs[1].op = "begin" =>
                        \/ r = "ok" /\ dbtx' = "open" /\ (dialect = "sqlite" => dbtx = "none")
                        \/ /\ r = "error" /\ (dbtx' = "none" <=> dbtx = "none")
                           /\ dialect = "sqlite" => dbtx' = dbtx
                 /\ jobs[1].op \in {"commit", "rollback"} =>
                        r = "error" \/ (r = "ok" /\ dbtx' = "none")
<1>1. 1 \in DOMAIN jobs
    BY JobsTail DEF Queue, Run
<1>2. PICK r \in {"ok", "row", "conflict", "error"} :
          /\ \/ jobs[1].op = "begin" /\ RunBegin(r)
             \/ jobs[1].op \in {"commit"} \cup Autocommits /\ RunCommit(r)
             \/ jobs[1].op = "rollback" /\ RunRollback(r)
             \/ /\ jobs[1].op \in {"probe", "insert", "update", "select"}
                /\ RunStatement(jobs[1], r) \/ Errs(r)
          /\ jobs[1] \in Jobs /\ jobs[1].by \in Tasks /\ jobs[1].op \in Ops
          /\ jobs[1].wanted => /\ pc[jobs[1].by] = "waiting" /\ op[jobs[1].by] = jobs[1].op
                               /\ result[jobs[1].by] = "none"
          /\ \A u \in Tasks : result'[u] = IF jobs[1].wanted /\ jobs[1].by = u THEN r
                                           ELSE result[u]
    BY RunAnswers
<1>3. jobs[1].op \in TxOps => jobs[1].wanted /\ jobs[1].by \in Txs
    BY <1>1, <1>2 DEF Queue, CutShort, Issued, Statement, Tasks, TxOps, Autocommits
<1>4. jobs[1].op \in Autocommits => jobs[1].by \in Upserts /\ dbtx = "none"
    BY <1>1 DEF AutocommitsAlone
<1>5. jobs[1].op \notin TxOps =>
          /\ dbtx' = "none" <=> dbtx = "none"
          /\ dialect = "sqlite" => dbtx' = dbtx
    <2>1. CASE jobs[1].op \in Autocommits
        BY <1>2, <1>4, <2>1 DEF RunCommit, Autocommits
    <2>2. CASE jobs[1].op \in {"probe", "insert", "update", "select"}
        <3>1. RunStatement(jobs[1], r) \/ Errs(r)
            BY <1>2, <2>2 DEF Autocommits
        <3> QED BY <3>1 DEF RunStatement, Errs, Writes, dbVars
    <2> QED BY <1>2, <2>1, <2>2 DEF Ops
<1>6. jobs[1].op = "begin" =>
          \/ r = "ok" /\ dbtx' = "open" /\ (dialect = "sqlite" => dbtx = "none")
          \/ /\ r = "error" /\ (dbtx' = "none" <=> dbtx = "none")
             /\ dialect = "sqlite" => dbtx' = dbtx
    BY <1>2 DEF RunBegin, Errs, Autocommits
<1>7. jobs[1].op \in {"commit", "rollback"} => r = "error" \/ (r = "ok" /\ dbtx' = "none")
    BY <1>2 DEF RunCommit, RunRollback, Autocommits
<1> QED BY <1>1, <1>2, <1>3, <1>4, <1>5, <1>6, <1>7

LEMMA RunKeepsFlagFollows ==
    ASSUME Queue, FlagFollows, AutocommitsAlone, cut = {}, Run
    PROVE  FlagFollows'
<1>1. \A u \in Tasks : ~Told(u)
    BY DEF Run, Told
<1>2. flag = (dbtx # "none") /\ UNCHANGED <<flag, pc, op>>
    BY <1>1 DEF FlagFollows, Run, clientVars
<1>3. /\ 1 \in DOMAIN jobs /\ jobs[1].by \in Tasks
      /\ jobs[1].op \in TxOps => jobs[1].wanted /\ jobs[1].by \in Txs
      /\ jobs[1].op \notin TxOps => (dbtx' = "none" <=> dbtx = "none")
    BY RunSwitches
<1>4. PICK r \in {"ok", "row", "conflict", "error"} :
          /\ \A u \in Tasks : result'[u] = IF jobs[1].wanted /\ jobs[1].by = u THEN r
                                           ELSE result[u]
          /\ jobs[1].wanted => pc[jobs[1].by] = "waiting" /\ op[jobs[1].by] = jobs[1].op
          /\ jobs[1].op = "begin" =>
                 \/ r = "ok" /\ dbtx' = "open"
                 \/ r = "error" /\ (dbtx' = "none" <=> dbtx = "none")
          /\ jobs[1].op \in {"commit", "rollback"} =>
                 r = "error" \/ (r = "ok" /\ dbtx' = "none")
    BY RunSwitches
<1>5. \A u \in Tasks : Told(u)' <=>
          jobs[1].wanted /\ jobs[1].by = u /\ jobs[1].op \in TxOps
    BY <1>1, <1>2, <1>4 DEF Told
<1>6. ASSUME NEW u \in Tasks, Told(u)'
      PROVE  \/ op'[u] = "begin" /\ result'[u] = "ok" /\ dbtx' # "none"
             \/ op'[u] = "begin" /\ result'[u] = "error" /\ flag' = (dbtx' # "none")
             \/ op'[u] \in {"commit", "rollback"} /\ result'[u] = "ok" /\ dbtx' = "none"
             \/ op'[u] \in {"commit", "rollback"} /\ result'[u] = "error"
    <2>1. /\ jobs[1].wanted /\ jobs[1].by = u /\ jobs[1].op \in TxOps
          /\ op'[u] = jobs[1].op /\ result'[u] = r
        BY <1>2, <1>4, <1>5, <1>6
    <2> QED BY <1>2, <1>4, <2>1 DEF TxOps
<1>7. ASSUME \A u \in Tasks : ~Told(u)' PROVE flag' = (dbtx' # "none")
    <2>1. jobs[1].op \notin TxOps
        BY <1>3, <1>5, <1>7
    <2> QED BY <1>2, <1>3, <2>1
<1>8. \A u, v \in Tasks : Told(u)' /\ Told(v)' => u = v
    BY <1>5
<1> QED BY <1>6, <1>7, <1>8 DEF FlagFollows

\* A block past its begin, which has not been told of its end, was so before.
LEMMA EnteredBefore ==
    ASSUME Queue, FlagFollows, Steady', NEW t \in Txs, Call(t) \/ Resume(t) \/ Cancel(t),
           Entered(t)'
    PROVE  Entered(t) /\ (Told(t) => op[t] = "begin")
<1>1. t \in Tasks /\ t \notin Upserts /\ result'[t] = "none"
    BY TasksAssumption, TaskMovesItself DEF Tasks
<1>2. CASE Call(t)
    <2>1. CallForm(t) /\ pc[t] \in {"new", "running"} /\ result[t] = "none"
        BY <1>1, <1>2, CallForms DEF Queue, Types, Waits
    <2>2. CASE pc[t] = "new"
        <3>1. op[t] = "begin"
            BY <1>1, <2>2 DEF Queue, Issued
        <3>2. pc'[t] = "ended" \/ (pc'[t] = "waiting" /\ op'[t] = "begin")
            BY <1>1, <2>1, <3>1 DEF CallForm, Sent, Raised, Over, TxOps, Queue, Types
        <3> QED BY <1>1, <3>2 DEF Entered
    <2> QED BY <2>1, <2>2 DEF Entered, Told
<1>3. CASE Resume(t)
    <2>1. Answered(t) /\ pc[t] = "waiting" /\ result[t] # "none"
        BY <1>1, <1>3, ResumeForms DEF Queue
    <2>2. CASE op[t] \notin TxOps
        BY <2>1, <2>2 DEF Entered, Told, TxOps
    <2>3. CASE op[t] = "begin"
        <3>1. result[t] \in {"ok", "error"}
            BY <1>1, <2>1, <2>3 DEF FlagFollows, Told, TxOps
        <3>2. CASE result[t] = "error"
            <4>1. AnswerRaises(t)
                BY <2>1, <2>3, <3>2 DEF Answered, AnswerBegins, AnswerEnds, AnswerCommits,
                                        AnswerReports, AnswerProbes, AnswerReads, Good
            <4>2. pc'[t] = "ended"
                BY <1>1, <2>3, <4>1 DEF AnswerRaises, Raised, Over, TxOps, Queue, Types
            <4> QED BY <1>1, <4>2 DEF Entered
        <3> QED BY <2>1, <2>3, <3>1, <3>2 DEF Entered
    <2>4. CASE op[t] \in {"commit", "rollback"}
        <3>1. AnswerRaises(t) \/ AnswerEnds(t)
            BY <2>1, <2>4 DEF Answered, AnswerBegins, AnswerCommits,
                              AnswerReports, AnswerProbes, AnswerReads, Autocommits
        <3>2. pc'[t] = "ended"
            BY <1>1, <2>4, <3>1 DEF AnswerRaises, AnswerEnds, Raised, Over, TxOps, Queue, Types
        <3> QED BY <3>2 DEF Entered
    <2> QED BY <2>2, <2>3, <2>4 DEF TxOps
<1>4. CASE Cancel(t)
    <2>1. pc[t] = "waiting" /\ result[t] = "none"
        BY <1>4 DEF Cancel
    <2>2. op[t] \notin TxOps
        BY <1>4 DEF Cancel, Steady
    <2> QED BY <2>1, <2>2 DEF Entered, Told, TxOps
<1> QED BY <1>2, <1>3, <1>4

LEMMA TaskKeepsOneBlock ==
    ASSUME Queue, FlagFollows, OneBlock, Steady', NEW t \in Tasks, Call(t) \/ Resume(t) \/ Cancel(t)
    PROVE  OneBlock'
<1>1. /\ dialect' = dialect /\ dbtx' = dbtx
      /\ \A u \in Tasks : u # t => pc'[u] = pc[u] /\ op'[u] = op[u] /\ result'[u] = result[u]
    BY TaskMovesItself DEF dbVars
<1>2. ASSUME NEW u \in Txs, Entered(u)'
      PROVE  Entered(u) /\ ((Told(u)' => op'[u] = "begin") => (Told(u) => op[u] = "begin"))
    <2>1. CASE u = t
        BY <1>2, <2>1, EnteredBefore
    <2>2. CASE u # t
        BY <1>1, <1>2, <2>2 DEF Entered, Told, Tasks
    <2> QED BY <2>1, <2>2
<1> QED BY <1>1, <1>2 DEF OneBlock

LEMMA RunKeepsOneBlock ==
    ASSUME Queue, OneBlock, AutocommitsAlone, cut = {}, Run
    PROVE  OneBlock'
<1> SUFFICES ASSUME dialect = "sqlite"
             PROVE  /\ \A t, u \in Txs : Entered(t)' /\ Entered(u)' => t = u
                    /\ \A t \in Txs : Entered(t)' /\ (Told(t)' => op'[t] = "begin") => dbtx' = "open"
    BY DEF OneBlock, Run
<1> DEFINE j == jobs[1]
<1>1. /\ \A t, u \in Txs : Entered(t) /\ Entered(u) => t = u
      /\ \A t \in Txs : Entered(t) => dbtx = "open"
      /\ UNCHANGED <<pc, op>>
    BY DEF OneBlock, Run, Told, clientVars, Tasks
<1>2. /\ j.by \in Tasks
      /\ j.op \in TxOps => j.wanted /\ j.by \in Txs
      /\ j.op \in Autocommits => j.by \in Upserts /\ dbtx = "none"
      /\ j.op \notin TxOps => dbtx' = dbtx
    BY RunSwitches
<1>3. PICK r \in {"ok", "row", "conflict", "error"} :
          /\ \A u \in Tasks : result'[u] = IF j.wanted /\ j.by = u THEN r ELSE result[u]
          /\ j.wanted => pc[j.by] = "waiting" /\ op[j.by] = j.op
          /\ j.op = "begin" =>
                 \/ r = "ok" /\ dbtx' = "open" /\ dbtx = "none"
                 \/ r = "error" /\ dbtx' = dbtx
          /\ j.op \in {"commit", "rollback"} => r = "error" \/ (r = "ok" /\ dbtx' = "none")
    BY RunSwitches
<1> HIDE DEF j
<1>4. \A u \in Txs : u \in Tasks
    BY DEF Tasks
<1>5. CASE j.op = "begin" /\ r = "ok"
    <2>1. dbtx' = "open" /\ \A u \in Txs : ~Entered(u)
        BY <1>1, <1>3, <1>5
    <2>2. \A u \in Txs : Entered(u)' => u = j.by
        BY <1>1, <1>3, <1>4, <2>1 DEF Entered
    <2> QED BY <2>1, <2>2
<1>6. CASE ~(j.op = "begin" /\ r = "ok")
    <2>1. \A u \in Txs : Entered(u)' => Entered(u)
        BY <1>1, <1>3, <1>4, <1>6 DEF Entered
    <2>2. CASE j.op \in {"commit", "rollback"}
        <3>1. PICK t \in Txs : t = j.by
            BY <1>2, <2>2 DEF TxOps
        <3>2. pc[t] = "waiting" /\ op[t] = j.op /\ result'[t] # "none"
            BY <1>2, <1>3, <2>2, <3>1 DEF TxOps
        <3>3. Entered(t) /\ Told(t)' /\ op'[t] # "begin"
            BY <1>1, <2>2, <3>2 DEF Entered, Told, TxOps
        <3>4. \A u \in Txs : Entered(u)' => u = t
            BY <1>1, <2>1, <3>3
        <3> QED BY <3>3, <3>4
    <2>3. CASE j.op \notin {"commit", "rollback"}
        <3>1. dbtx' = dbtx
            BY <1>2, <1>3, <1>6, <2>3 DEF TxOps
        <3> QED BY <1>1, <2>1, <3>1
    <2> QED BY <2>2, <2>3
<1> QED BY <1>5, <1>6

\* A task that commits its write finds no transaction, nor one on its way.
LEMMA CommitsAlone ==
    ASSUME Queue, HaveMet, Steady, FlagFollows, OneBlock, NEW t \in Tasks, Resume(t),
           AnswerCommits(t)
    PROVE  /\ t \in Upserts /\ dbtx = "none"
           /\ \A i \in DOMAIN jobs : jobs[i].op \notin TxOps
<1>1. /\ pc[t] = "waiting" /\ result[t] # "none" /\ dialect = "sqlite" /\ ~flag
      /\ op[t] \in {"insert", "update"}
    BY ResumeForms DEF Queue, AnswerCommits
<1>2. ASSUME NEW u \in Tasks, op[u] \in TxOps PROVE u \in Txs /\ u \notin Upserts
    BY <1>2, TasksAssumption DEF Queue, Issued, Statement, Tasks, TxOps, Autocommits
<1>3. ASSUME NEW u \in Tasks, Told(u) PROVE u \in Txs /\ pc[u] = "waiting"
    BY <1>2, <1>3 DEF Told, Queue, Waits
<1>4. t \in Upserts
    <2> SUFFICES ASSUME t \in Txs PROVE FALSE
        BY DEF Tasks
    <2>1. Entered(t) /\ ~Told(t)
        BY <1>1 DEF Entered, Told, TxOps
    <2>2. dbtx = "open"
        BY <1>1, <2>1 DEF OneBlock
    <2>3. CASE \A u \in Tasks : ~Told(u)
        BY <1>1, <2>2, <2>3 DEF FlagFollows
    <2>4. CASE \E u \in Tasks : Told(u)
        <3>1. PICK u \in Tasks : Told(u)
            BY <2>4
        <3>2. u # t /\ u \in Txs /\ pc[u] = "waiting"
            BY <1>3, <2>1, <3>1
        <3>3. ~Entered(u)
            BY <1>1, <2>1, <3>2 DEF OneBlock
        <3>4. op[u] = "begin" /\ result[u] # "ok"
            BY <3>2, <3>3 DEF Entered
        <3> QED BY <1>1, <2>2, <3>1, <3>4 DEF FlagFollows
    <2> QED BY <2>3, <2>4
<1>5. ASSUME NEW u \in Txs PROVE pc[u] \notin {"running", "waiting"}
    <2>1. met[u] \cap Upserts = {} /\ u \in Tasks /\ u # t
        BY <1>1, <1>4, TasksAssumption DEF Steady, Tasks
    <2> QED BY <1>1, <1>4, <2>1 DEF HaveMet, Active
<1>6. dbtx = "none"
    <2>1. \A u \in Tasks : ~Told(u)
        BY <1>3, <1>5
    <2> QED BY <1>1, <2>1 DEF FlagFollows
<1>7. ASSUME NEW i \in DOMAIN jobs, jobs[i].op \in TxOps PROVE FALSE
    <2>1. jobs[i].wanted /\ jobs[i].by \in Tasks
        BY <1>7, JobsHaveIndex DEF Queue, CutShort, Steady
    <2>2. pc[jobs[i].by] = "waiting" /\ op[jobs[i].by] \in TxOps
        BY <1>7, <2>1 DEF Queue, Waits
    <2> QED BY <1>2, <1>5, <2>1, <2>2
<1> QED BY <1>4, <1>6, <1>7

\* A task's step leaves the queue's statements as they are, or adds one; a commit() of
\* a write only after the write.
LEMMA TaskJobs ==
    ASSUME Queue, NEW t \in Tasks, Call(t) \/ Resume(t) \/ Cancel(t)
    PROVE  \/ /\ DOMAIN jobs' = DOMAIN jobs
              /\ \A i \in DOMAIN jobs : jobs'[i].by = jobs[i].by /\ jobs'[i].op = jobs[i].op
           \/ \E o \in Ops : Sent(t, o) /\ (o \in Autocommits => Resume(t) /\ AnswerCommits(t))
<1>1. CASE Call(t)
    <2>1. CallForm(t) /\ op[t] \in Ops /\ op[t] \notin Autocommits
        BY <1>1, CallForms DEF Queue, Types, Issued, Autocommits
    <2> QED BY <2>1 DEF CallForm, Raised, Over, GoesOn
<1>2. CASE Resume(t)
    <2>1. Answered(t)
        BY <1>2, ResumeForms DEF Queue
    <2>2. CASE AnswerCommits(t)
        <3>1. \E o \in Ops : Sent(t, o)
            BY <2>2 DEF AnswerCommits, Ops, Autocommits
        <3> QED BY <1>2, <2>2, <3>1
    <2>3. CASE AnswerProbes(t) \/ AnswerReports(t)
        <3>1. jobs' = jobs \/ \E o \in {"insert", "update", "select"} : Sent(t, o)
            BY <2>3 DEF AnswerProbes, AnswerReports, Raised, Over, GoesOn
        <3> QED BY <3>1 DEF Ops, Autocommits
    <2>4. CASE AnswerRaises(t) \/ AnswerBegins(t) \/ AnswerEnds(t) \/ AnswerReads(t)
        BY <2>4 DEF AnswerRaises, AnswerBegins, AnswerEnds, AnswerReads, Raised, Over, GoesOn
    <2> QED BY <2>1, <2>2, <2>3, <2>4 DEF Answered
<1>3. CASE Cancel(t)
    BY <1>3, CancelledJobs
<1> QED BY <1>1, <1>2, <1>3

LEMMA TaskKeepsAutocommitsAlone ==
    ASSUME Queue, HaveMet, Steady, FlagFollows, OneBlock, AutocommitsAlone,
           NEW t \in Tasks, Call(t) \/ Resume(t) \/ Cancel(t)
    PROVE  AutocommitsAlone'
<1>1. dbtx' = dbtx
    BY TaskMovesItself DEF dbVars
<1>2. CASE /\ DOMAIN jobs' = DOMAIN jobs
           /\ \A i \in DOMAIN jobs : jobs'[i].by = jobs[i].by /\ jobs'[i].op = jobs[i].op
    BY <1>1, <1>2 DEF AutocommitsAlone
<1>3. ASSUME NEW o \in Ops, Sent(t, o), o \in Autocommits => Resume(t) /\ AnswerCommits(t)
      PROVE  AutocommitsAlone'
    <2> DEFINE job == [by |-> t, op |-> o, wanted |-> TRUE]
    <2>1. job \in Jobs /\ jobs' = Append(jobs, job) /\ job.by = t /\ job.op = o
        BY <1>3 DEF Jobs, Sent
    <2> HIDE DEF job
    <2>2. /\ \A i \in DOMAIN jobs : jobs'[i] = jobs[i] /\ i <= Len(jobs)
          /\ \A i \in DOMAIN jobs' : i \in DOMAIN jobs \/ i = Len(jobs) + 1
          /\ jobs'[Len(jobs) + 1] = job /\ Len(jobs) \in Nat
        BY <2>1, JobsAppend, JobsHaveIndex DEF Queue
    <2>3. ASSUME NEW i \in DOMAIN jobs', jobs'[i].op \in Autocommits,
                 NEW k \in DOMAIN jobs', k <= i
          PROVE  jobs'[i].by \in Upserts /\ dbtx' = "none" /\ jobs'[k].op \notin TxOps
        <3>1. CASE i \in DOMAIN jobs
            <4>1. k \in DOMAIN jobs
                BY <2>2, <2>3, <3>1
            <4> QED BY <1>1, <2>2, <2>3, <3>1, <4>1 DEF AutocommitsAlone
        <3>2. CASE i = Len(jobs) + 1
            <4>1. o \in Autocommits /\ jobs'[i].by = t
                BY <2>1, <2>2, <2>3, <3>2
            <4>2. /\ t \in Upserts /\ dbtx = "none"
                  /\ \A m \in DOMAIN jobs : jobs[m].op \notin TxOps
                BY <1>3, <4>1, CommitsAlone
            <4>3. jobs'[k].op \notin TxOps
                BY <2>1, <2>2, <4>1, <4>2 DEF TxOps, Autocommits
            <4> QED BY <1>1, <4>1, <4>2, <4>3
        <3> QED BY <2>2, <3>1, <3>2
    <2>4. \A i \in DOMAIN jobs' : i <= i
        <3>1. \A i \in DOMAIN jobs' : i \in Nat
            BY <2>2, JobsHaveIndex DEF Queue
        <3> QED BY <3>1
    <2> QED BY <2>3, <2>4 DEF AutocommitsAlone
<1> QED BY <1>2, <1>3, TaskJobs

LEMMA RunKeepsAutocommitsAlone ==
    ASSUME Queue, AutocommitsAlone, cut = {}, Run
    PROVE  AutocommitsAlone'
<1>1. /\ Len(jobs) \in Nat /\ DOMAIN jobs = 1 .. Len(jobs) /\ jobs' \in Seq(Jobs)
      /\ \A i \in DOMAIN jobs' : i + 1 \in DOMAIN jobs /\ jobs'[i] = jobs[i + 1]
    BY JobsTail, JobsHaveIndex DEF Queue, Run
<1>2. DOMAIN jobs' \subseteq Nat
    BY <1>1, LenProperties
<1>3. /\ 1 \in DOMAIN jobs
      /\ jobs[1].op \notin TxOps => (dbtx' = "none" <=> dbtx = "none")
    BY RunSwitches
<1>4. ASSUME NEW i \in DOMAIN jobs', jobs'[i].op \in Autocommits
      PROVE  /\ jobs'[i].by \in Upserts /\ dbtx' = "none"
             /\ \A k \in DOMAIN jobs' : k <= i => jobs'[k].op \notin TxOps
    <2>1. /\ i + 1 \in DOMAIN jobs /\ jobs[i + 1].op \in Autocommits /\ jobs'[i] = jobs[i + 1]
          /\ i \in Nat
        BY <1>1, <1>2, <1>4
    <2>2. /\ jobs[i + 1].by \in Upserts /\ dbtx = "none"
          /\ \A k \in DOMAIN jobs : k <= i + 1 => jobs[k].op \notin TxOps
        BY <2>1 DEF AutocommitsAlone
    <2>3. dbtx' = "none"
        BY <1>3, <2>1, <2>2
    <2>4. ASSUME NEW k \in DOMAIN jobs', k <= i PROVE jobs'[k].op \notin TxOps
        <3>1. k \in Nat /\ k + 1 \in DOMAIN jobs /\ jobs'[k] = jobs[k + 1] /\ k + 1 <= i + 1
            BY <1>1, <1>2, <2>1, <2>4
        <3> QED BY <2>2, <3>1
    <2> QED BY <2>1, <2>2, <2>3, <2>4
<1> QED BY <1>4 DEF AutocommitsAlone

LEMMA FlagInvHolds == Spec => [](Flags /\ FlagInv)
<1>1. Init => FlagInv
    <2> SUFFICES ASSUME Init PROVE FlagInv
        OBVIOUS
    <2>1. DOMAIN jobs = {} /\ \A t \in Tasks : result[t] = "none" /\ pc[t] = "new"
        BY DEF Init
    <2>2. FlagFollows /\ AutocommitsAlone
        BY <2>1 DEF Init, FlagFollows, AutocommitsAlone, Told
    <2>3. OneBlock
        BY <2>1 DEF OneBlock, Entered, Tasks
    <2> QED BY <2>2, <2>3 DEF FlagInv
<1>2. Flags /\ FlagInv /\ [Next]_vars => FlagInv'
    <2> SUFFICES ASSUME Flags, FlagInv, [Next]_vars, Steady'
                 PROVE  FlagFollows' /\ AutocommitsAlone' /\ OneBlock'
        BY DEF FlagInv
    <2>1. /\ Queue /\ HaveMet /\ Steady /\ cut = {}
          /\ FlagFollows /\ AutocommitsAlone /\ OneBlock
        BY SteadyBefore DEF Flags, FlagInv, Steady
    <2>2. ASSUME NEW t \in Tasks, Call(t) \/ Resume(t) \/ Cancel(t)
          PROVE  FlagFollows' /\ AutocommitsAlone' /\ OneBlock'
        BY <2>1, <2>2, TaskKeepsFlagFollows, TaskKeepsAutocommitsAlone, TaskKeepsOneBlock
    <2>3. CASE Run
        BY <2>1, <2>3, RunKeepsFlagFollows, RunKeepsAutocommitsAlone, RunKeepsOneBlock
    <2>4. CASE UNCHANGED vars
        BY <2>1, <2>4 DEF vars, clientVars, dbVars, historyVars, FlagFollows, AutocommitsAlone,
                          OneBlock, Told, Entered
    <2> QED BY <2>2, <2>3, <2>4 DEF Next
<1> QED BY <1>1, <1>2, FlagsHold, PTL DEF Spec

\* While nobody is in begin(), commit() or rollback(), _in_transaction tells whether the
\* connection is in a transaction, however many blocks share it, unless one of
\* these calls was cut short or, on SQLite, an upsert ran beside a block.
THEOREM FlagsTell == Spec => []FlagTellsTransaction
<1>1. Flags /\ FlagInv => FlagTellsTransaction
    <2> SUFFICES ASSUME Flags, FlagInv, \A t \in Tasks : pc[t] = "waiting" => op[t] \notin TxOps,
                        Steady
                 PROVE  flag = (dbtx # "none")
        BY DEF FlagTellsTransaction, Steady
    <2>1. \A t \in Tasks : ~Told(t)
        BY DEF Flags, Queue, Waits, Told
    <2> QED BY <2>1 DEF FlagInv, FlagFollows
<1> QED BY <1>1, FlagInvHolds, PTL

-----------------------------------------------------------------------------
(* Redis and MongoDB.  RedisProofs and MongoProofs are about the modules by    *)
(* themselves; written out, the instances of module Stores say the same.       *)

RedisCalls == INSTANCE RedisProofs WITH Tasks <- Txs, store <- rStore, task <- rTask
MongoCalls == INSTANCE MongoProofs WITH Tasks <- Txs, unique <- mUnique, docs <- mDocs,
                                        source <- mSource, task <- mTask

LEMMA RedisSteps == (Redis!Init <=> RedisCalls!Init) /\ ([Redis!Next]_Redis!vars <=> [RedisCalls!Next]_RedisCalls!vars)
BY DEF Redis!vars, Redis!Row, Redis!Fields, Redis!Documents, Redis!Object, Redis!Scalar,
       Redis!Raw, Redis!Normalize, Redis!Patched, Redis!PkFilter, Redis!Is, Redis!Paginate,
       Redis!Idle, Redis!Ends, Redis!Raises, Redis!NextRow, Redis!Answers, Redis!Reads,
       Redis!StartQuery, Redis!StartMutation, Redis!Inserts, Redis!UpsertCalls, Redis!Updates,
       Redis!Deletes, Redis!Queries, Redis!Drop, Redis!Start, Redis!Exists, Redis!Put,
       Redis!SetInserted, Redis!Get, Redis!Merged, Redis!SetMerged, Redis!Deleted, Redis!Del,
       Redis!Scan, Redis!Fetch, Redis!Init, Redis!Next, RedisCalls!vars, RedisCalls!Row,
       RedisCalls!Fields, RedisCalls!Documents, RedisCalls!Object, RedisCalls!Scalar,
       RedisCalls!Raw, RedisCalls!Normalize, RedisCalls!Patched, RedisCalls!PkFilter,
       RedisCalls!Is, RedisCalls!Paginate, RedisCalls!Idle, RedisCalls!Ends, RedisCalls!Raises,
       RedisCalls!NextRow, RedisCalls!Answers, RedisCalls!Reads, RedisCalls!StartQuery,
       RedisCalls!StartMutation, RedisCalls!Inserts, RedisCalls!UpsertCalls, RedisCalls!Updates,
       RedisCalls!Deletes, RedisCalls!Queries, RedisCalls!Drop, RedisCalls!Start,
       RedisCalls!Exists, RedisCalls!Put, RedisCalls!SetInserted, RedisCalls!Get,
       RedisCalls!Merged, RedisCalls!SetMerged, RedisCalls!Deleted, RedisCalls!Del,
       RedisCalls!Scan, RedisCalls!Fetch, RedisCalls!Init, RedisCalls!Next

LEMMA MongoSteps == (Mongo!Init <=> MongoCalls!Init) /\ ([Mongo!Next]_Mongo!vars <=> [MongoCalls!Next]_MongoCalls!vars)
BY DEF Mongo!vars, Mongo!Ids, Mongo!Fields, Mongo!Document, Mongo!Documents, Mongo!Patched,
       Mongo!Matches, Mongo!Found, Mongo!Duplicate, Mongo!Idle, Mongo!Ends, Mongo!Raises,
       Mongo!NextDocument, Mongo!Blank, Mongo!Inserts, Mongo!UpsertCalls, Mongo!Updates, Mongo!Deletes,
       Mongo!Queries, Mongo!Start, Mongo!Stores, Mongo!InsertOneWithoutId, Mongo!InsertOne,
       Mongo!ReplaceOne, Mongo!UpdateOne, Mongo!FindOne, Mongo!UpdateMany, Mongo!DeleteMany,
       Mongo!Find, Mongo!Init, Mongo!Next, Mongo!Cardinality, MongoCalls!vars, MongoCalls!Ids,
       MongoCalls!Fields, MongoCalls!Document, MongoCalls!Documents, MongoCalls!Patched,
       MongoCalls!Matches, MongoCalls!Found, MongoCalls!Duplicate, MongoCalls!Idle,
       MongoCalls!Ends, MongoCalls!Raises, MongoCalls!NextDocument, MongoCalls!Blank,
       MongoCalls!Inserts,
       MongoCalls!UpsertCalls, MongoCalls!Updates, MongoCalls!Deletes, MongoCalls!Queries,
       MongoCalls!Start, MongoCalls!Stores, MongoCalls!InsertOneWithoutId, MongoCalls!InsertOne,
       MongoCalls!ReplaceOne, MongoCalls!UpdateOne, MongoCalls!FindOne, MongoCalls!UpdateMany,
       MongoCalls!DeleteMany, MongoCalls!Find, MongoCalls!Init, MongoCalls!Next,
       MongoCalls!Cardinality

\* For any callers and keys, no row of Redis is lost, mixed or missed but in the
\* races that RedisStore names and by an update that changes a primary key.
THEOREM RedisStoreKeepsRows ==
    ASSUME Redis!NoneIsNoValue
    PROVE  Redis!Spec => []RedisKeepsRows
<1>1. RedisCalls!NoneIsNoValue
    BY DEF Redis!NoneIsNoValue, RedisCalls!NoneIsNoValue, Redis!Documents, RedisCalls!Documents, Redis!Fields,
           RedisCalls!Fields
<1>2. Redis!Spec => RedisCalls!Spec
    BY RedisSteps, PTL DEF Redis!Spec, RedisCalls!Spec
<1>3. RedisCalls!Spec => []RedisCalls!TypeOK
    BY <1>1, RedisCalls!RedisTypes
<1>4. RedisCalls!Spec => []RedisCalls!RedisKeepsRows
    BY <1>1, RedisCalls!RedisRowsKept
<1>5. RedisCalls!TypeOK <=> Redis!TypeOK
    BY DEF Redis!TypeOK, RedisCalls!TypeOK, Redis!Documents, RedisCalls!Documents, Redis!Fields, RedisCalls!Fields
<1>6. RedisCalls!RedisKeepsRows <=> Redis!RedisKeepsRows
    BY DEF Redis!RedisKeepsRows, RedisCalls!RedisKeepsRows, Redis!RowsUnderOwnKey, RedisCalls!RowsUnderOwnKey,
           Redis!OverwritesOnlyInRace, RedisCalls!OverwritesOnlyInRace, Redis!Replaces, RedisCalls!Replaces,
           Redis!Rekeys, RedisCalls!Rekeys, Redis!AnotherStored, RedisCalls!AnotherStored,
           Redis!OtherFieldsKept, RedisCalls!OtherFieldsKept, Redis!ScanComplete, RedisCalls!ScanComplete, Redis!Queries, RedisCalls!Queries,
           Redis!Reads, RedisCalls!Reads, Redis!Fields, RedisCalls!Fields, Redis!Is, RedisCalls!Is
<1>7. Redis!TypeOK /\ Redis!RedisKeepsRows => RedisKeepsRows
    BY DEF RedisKeepsRows
<1> QED BY <1>2, <1>3, <1>4, <1>5, <1>6, <1>7, PTL

\* For any callers, keys and ids, with the unique index or without, documents of
\* MongoDB share a key, have a foreign id or escape the upsert that stored them only
\* as MongoStore says.
THEOREM MongoStoreKeepsRows ==
    ASSUME Mongo!NoneIsNoValue, Mongo!IdsDiffer
    PROVE  Mongo!Spec => []MongoKeepsRows
<1>1. MongoCalls!NoneIsNoValue /\ MongoCalls!IdsDiffer
    BY DEF Mongo!NoneIsNoValue, MongoCalls!NoneIsNoValue, Mongo!IdsDiffer, MongoCalls!IdsDiffer, Mongo!Documents,
           MongoCalls!Documents, Mongo!Fields, MongoCalls!Fields, Mongo!IsFiniteSet, MongoCalls!IsFiniteSet
<1>2. Mongo!Spec => MongoCalls!Spec
    BY MongoSteps, PTL DEF Mongo!Spec, MongoCalls!Spec
<1>3. MongoCalls!Spec => []MongoCalls!TypeOK
    BY <1>1, MongoCalls!MongoTypes
<1>4. MongoCalls!Spec => []MongoCalls!MongoKeepsRows
    BY <1>1, MongoCalls!MongoRowsKept
<1>5. MongoCalls!TypeOK <=> Mongo!TypeOK
    BY DEF Mongo!TypeOK, MongoCalls!TypeOK, Mongo!Ids, MongoCalls!Ids, Mongo!Documents, MongoCalls!Documents,
           Mongo!Fields, MongoCalls!Fields
<1>6. MongoCalls!MongoKeepsRows <=> Mongo!MongoKeepsRows
    BY DEF Mongo!MongoKeepsRows, MongoCalls!MongoKeepsRows, Mongo!KeyNamesOneRow, MongoCalls!KeyNamesOneRow,
           Mongo!IdIsKey, MongoCalls!IdIsKey, Mongo!UpsertReadsBack, MongoCalls!UpsertReadsBack, Mongo!Stored,
           MongoCalls!Stored, Mongo!Ids, MongoCalls!Ids, Mongo!UpsertCalls, MongoCalls!UpsertCalls, Mongo!Updates,
           MongoCalls!Updates, Mongo!Deletes, MongoCalls!Deletes, Mongo!Matches, MongoCalls!Matches, Mongo!Patched,
           MongoCalls!Patched, Mongo!Document, MongoCalls!Document, Mongo!TakesFrom, MongoCalls!TakesFrom,
           Mongo!KeepsKey, MongoCalls!KeepsKey, Mongo!Inserts, MongoCalls!Inserts
<1>7. Mongo!TypeOK /\ Mongo!MongoKeepsRows => MongoKeepsRows
    BY DEF MongoKeepsRows
<1> QED BY <1>2, <1>3, <1>4, <1>5, <1>6, <1>7, PTL

-----------------------------------------------------------------------------
(* Migrations.  Between(b, a, S, s) says that a schema s is as a where a      *)
(* change of S names it and as b elsewhere; Sorted lists each change once,    *)
(* because Precedes orders them.                                              *)

\* Cardinality and finiteness inside the instance are those of FiniteSets.
LEMMA PlanFinite ==
    ASSUME NEW S
    PROVE  /\ Plan!Cardinality(S) = Cardinality(S)
           /\ Plan!IsFiniteSet(S) <=> IsFiniteSet(S)
  BY DEF Plan!Cardinality, Cardinality, Plan!IsFiniteSet, IsFiniteSet

\* The place of an element of a sequence is one, and holds it.
LEMMA PositionHolds ==
    ASSUME NEW s, NEW x, \E i \in 1..Len(s) : s[i] = x
    PROVE  Plan!Position(x, s) \in 1..Len(s) /\ s[Plan!Position(x, s)] = x
  BY DEF Plan!Position

LEMMA KindPositions ==
    ASSUME NEW x \in {"add_model", "drop_model", "add_field", "alter_field", "drop_field", "add_index",
               "drop_index", "add_relationship", "alter_relationship", "drop_relationship"}
    PROVE  /\ Plan!Position(x, Plan!KindOrder) \in Nat
           /\ Plan!KindOrder[Plan!Position(x, Plan!KindOrder)] = x
<1>1. \E i \in 1..Len(Plan!KindOrder) : Plan!KindOrder[i] = x
  BY DEF Plan!KindOrder
<1> QED BY <1>1, PositionHolds

LEMMA AttrPositions ==
    ASSUME NEW x \in Plan!AlterAttrs \cup Plan!IndexAttrs
    PROVE  /\ Plan!Position(x, Plan!AttrOrder) \in Nat
           /\ Plan!AttrOrder[Plan!Position(x, Plan!AttrOrder)] = x
<1>1. \E i \in 1..Len(Plan!AttrOrder) : Plan!AttrOrder[i] = x
  BY DEF Plan!AttrOrder, Plan!AlterAttrs, Plan!IndexAttrs
<1> QED BY <1>1, PositionHolds

-----------------------------------------------------------------------------
(* The changes by what they are changes of.  b and a are what was before and  *)
(* what is after: schemas, models or fields.                                  *)

Attrs == Plan!AlterAttrs \cup Plan!IndexAttrs
InOne(S, T) == (S \cup T) \ (S \cap T)
BothFields(b, a) == DOMAIN b.fields \cap DOMAIN a.fields
OtherRels(b, a) ==
    {r \in DOMAIN b.rels \cup DOMAIN a.rels :
        r \in DOMAIN b.rels /\ r \in DOMAIN a.rels => ~Plan!SameRelationship(b.rels[r], a.rels[r])}

ModelChange(b, a, m) ==
    IF m \in DOMAIN a THEN Plan!Change("add_model", m, m, None, FALSE)
    ELSE Plan!Change("drop_model", m, m, None, TRUE)
FieldChange(b, a, m, f) ==
    IF f \in DOMAIN a.fields
    THEN Plan!Change("add_field", m, f, None, ~a.fields[f].nullable /\ ~a.fields[f].has_default)
    ELSE Plan!Change("drop_field", m, f, None, TRUE)
AttrChange(b, a, m, f, x) ==
    IF x \in Plan!AlterAttrs THEN Plan!Change("alter_field", m, f, x, x = "nullable" => b.nullable)
    ELSE Plan!Change(IF a[x] THEN "add_index" ELSE "drop_index", m, f, x, b[x])
RelChange(b, a, m, r) ==
    IF r \notin DOMAIN b.rels THEN Plan!Change("add_relationship", m, r, None, FALSE)
    ELSE IF r \notin DOMAIN a.rels THEN Plan!Change("drop_relationship", m, r, None, TRUE)
    ELSE Plan!Change("alter_relationship", m, r, None, TRUE)

ChangesField(b, a, m, c) ==
    \E f \in InOne(DOMAIN b.fields, DOMAIN a.fields) : c = FieldChange(b, a, m, f)
ChangesAttrOf(b, a, m, f, c) == \E x \in Attrs : b[x] # a[x] /\ c = AttrChange(b, a, m, f, x)
ChangesAttr(b, a, m, c) == \E f \in BothFields(b, a) : ChangesAttrOf(b.fields[f], a.fields[f], m, f, c)
ChangesRel(b, a, m, c) == \E r \in OtherRels(b, a) : c = RelChange(b, a, m, r)

ChangesModel(b, a, c) == \E m \in InOne(DOMAIN b, DOMAIN a) : c = ModelChange(b, a, m)
ChangesInside(b, a, c) ==
    \E m \in DOMAIN b \cap DOMAIN a :
        \/ ChangesField(b[m], a[m], m, c)
        \/ ChangesAttr(b[m], a[m], m, c)
        \/ ChangesRel(b[m], a[m], m, c)

LEMMA FieldChangesAre ==
    ASSUME NEW b, NEW a, NEW m, NEW f, NEW c
    PROVE  c \in Plan!FieldChanges(m, f, b, a) <=> ChangesAttrOf(b, a, m, f, c)
<1>1. \A x \in Plan!AlterAttrs : x \notin Plan!IndexAttrs
  BY DEF Plan!AlterAttrs, Plan!IndexAttrs
<1> QED BY <1>1, Zenon DEF Plan!FieldChanges, ChangesAttrOf, AttrChange, Attrs

LEMMA ModelChangesAre ==
    ASSUME NEW b, NEW a, NEW m, NEW c
    PROVE  c \in Plan!ModelChanges(m, b, a)
             <=> ChangesField(b, a, m, c) \/ ChangesAttr(b, a, m, c) \/ ChangesRel(b, a, m, c)
<1> DEFINE bf == DOMAIN b.fields
           af == DOMAIN a.fields
           br == DOMAIN b.rels
           ar == DOMAIN a.rels
           A == {Plan!Change("add_field", m, f, None,
                     ~a.fields[f].nullable /\ ~a.fields[f].has_default) : f \in af \ (bf \cap af)}
           B == {Plan!Change("drop_field", m, f, None, TRUE) : f \in bf \ (bf \cap af)}
           C == UNION {Plan!FieldChanges(m, f, b.fields[f], a.fields[f]) : f \in bf \cap af}
           D == {Plan!Change("add_relationship", m, r, None, FALSE) : r \in ar \ (br \cap ar)}
           E == {Plan!Change("drop_relationship", m, r, None, TRUE) : r \in br \ (br \cap ar)}
           F == {Plan!Change("alter_relationship", m, r, None, TRUE) :
                     r \in {x \in br \cap ar : ~Plan!SameRelationship(b.rels[x], a.rels[x])}}
<1>1. Plan!ModelChanges(m, b, a) = A \cup B \cup C \cup D \cup E \cup F
  BY DEF Plan!ModelChanges
<1>2. c \in A \/ c \in B <=> ChangesField(b, a, m, c)
  BY Zenon DEF InOne, FieldChange, ChangesField
<1>3. c \in C <=> ChangesAttr(b, a, m, c)
  <2>1. c \in C <=> \E f \in bf \cap af : c \in Plan!FieldChanges(m, f, b.fields[f], a.fields[f])
    BY Zenon
  <2>2. \A f : c \in Plan!FieldChanges(m, f, b.fields[f], a.fields[f])
                 <=> ChangesAttrOf(b.fields[f], a.fields[f], m, f, c)
    BY FieldChangesAre
  <2> HIDE DEF C
  <2> QED BY <2>1, <2>2, Zenon DEF BothFields, ChangesAttr
<1>4. c \in D \/ c \in E \/ c \in F <=> ChangesRel(b, a, m, c)
  BY Zenon DEF OtherRels, RelChange, ChangesRel
<1> HIDE DEF A, B, C, D, E, F
<1>5. c \in A \cup B \cup C \cup D \cup E \cup F
        <=> (c \in A \/ c \in B) \/ c \in C \/ (c \in D \/ c \in E \/ c \in F)
  OBVIOUS
<1> QED BY <1>1, <1>2, <1>3, <1>4, <1>5, Zenon

LEMMA ChangesAre ==
    ASSUME NEW b, NEW a, NEW c
    PROVE  c \in Plan!Changes(b, a) <=> ChangesModel(b, a, c) \/ ChangesInside(b, a, c)
<1> DEFINE both == DOMAIN b \cap DOMAIN a
           A == {Plan!Change("add_model", m, m, None, FALSE) : m \in DOMAIN a \ both}
           B == {Plan!Change("drop_model", m, m, None, TRUE) : m \in DOMAIN b \ both}
           C == UNION {Plan!ModelChanges(m, b[m], a[m]) : m \in both}
<1>1. Plan!Changes(b, a) = A \cup B \cup C
  BY DEF Plan!Changes
<1>2. c \in A \/ c \in B <=> ChangesModel(b, a, c)
  BY Zenon DEF InOne, ModelChange, ChangesModel
<1>3. c \in C <=> \E m \in both : c \in Plan!ModelChanges(m, b[m], a[m])
  BY Zenon
<1>4. c \in C <=> ChangesInside(b, a, c)
  <2>1. \A m : c \in Plan!ModelChanges(m, b[m], a[m])
                 <=> \/ ChangesField(b[m], a[m], m, c)
                     \/ ChangesAttr(b[m], a[m], m, c)
                     \/ ChangesRel(b[m], a[m], m, c)
    BY ModelChangesAre
  <2> HIDE DEF C
  <2> QED BY <1>3, <2>1, Zenon DEF ChangesInside
<1> HIDE DEF A, B, C
<1>5. c \in A \cup B \cup C <=> (c \in A \/ c \in B) \/ c \in C
  OBVIOUS
<1> QED BY <1>1, <1>2, <1>4, <1>5, Zenon

-----------------------------------------------------------------------------
(* There are finitely many.                                                   *)

LEMMA ImageFinite ==
    ASSUME NEW S, IsFiniteSet(S), NEW f
    PROVE  IsFiniteSet({f[x] : x \in S})
<1> DEFINE T == {f[x] : x \in S}
           g == [x \in S |-> f[x]]
<1>1. g \in Surjection(S, T)
  BY DEF Surjection
<1> QED BY <1>1, FS_Surjection

LEMMA FieldChangesFinite ==
    ASSUME NEW m, NEW f, NEW b, NEW a
    PROVE  IsFiniteSet(Plan!FieldChanges(m, f, b, a))
<1> DEFINE S == {x \in Plan!AlterAttrs : b[x] # a[x]}
           T == {x \in Plan!IndexAttrs : b[x] # a[x]}
           g == [x \in S |-> Plan!Change("alter_field", m, f, x, x = "nullable" => b.nullable)]
           h == [x \in T |-> Plan!Change(IF a[x] THEN "add_index" ELSE "drop_index", m, f, x, b[x])]
           A == {Plan!Change("alter_field", m, f, x, x = "nullable" => b.nullable) : x \in S}
           B == {Plan!Change(IF a[x] THEN "add_index" ELSE "drop_index", m, f, x, b[x]) : x \in T}
<1>1. IsFiniteSet(Plan!AlterAttrs) /\ IsFiniteSet(Plan!IndexAttrs)
  <2>1. IsFiniteSet({"type"} \cup {"vector_dim"} \cup {"nullable"})
        /\ IsFiniteSet({"index"} \cup {"unique"} \cup {"primary_key"})
    BY FS_AddElement, FS_EmptySet, FS_Singleton
  <2> QED BY <2>1 DEF Plan!AlterAttrs, Plan!IndexAttrs
<1>2. IsFiniteSet(S) /\ IsFiniteSet(T)
  BY <1>1, FS_Subset
<1>3. A = {g[x] : x \in S} /\ B = {h[x] : x \in T}
  OBVIOUS
<1>4. IsFiniteSet(A) /\ IsFiniteSet(B)
  <2> HIDE DEF S, T, g, h, A, B
  <2> QED BY <1>2, <1>3, ImageFinite
<1>5. IsFiniteSet(A \cup B)
  <2> HIDE DEF A, B
  <2> QED BY <1>4, FS_Union
<1> QED BY <1>5 DEF Plan!FieldChanges

LEMMA ModelChangesFinite ==
    ASSUME NEW m, NEW b, NEW a, Plan!IsModel(b), Plan!IsModel(a)
    PROVE  IsFiniteSet(Plan!ModelChanges(m, b, a))
<1> DEFINE bf == DOMAIN b.fields
           af == DOMAIN a.fields
           br == DOMAIN b.rels
           ar == DOMAIN a.rels
           R == {x \in br \cap ar : ~Plan!SameRelationship(b.rels[x], a.rels[x])}
           A == {Plan!Change("add_field", m, f, None,
                     ~a.fields[f].nullable /\ ~a.fields[f].has_default) : f \in af \ (bf \cap af)}
           B == {Plan!Change("drop_field", m, f, None, TRUE) : f \in bf \ (bf \cap af)}
           U == {Plan!FieldChanges(m, f, b.fields[f], a.fields[f]) : f \in bf \cap af}
           C == UNION U
           D == {Plan!Change("add_relationship", m, r, None, FALSE) : r \in ar \ (br \cap ar)}
           E == {Plan!Change("drop_relationship", m, r, None, TRUE) : r \in br \ (br \cap ar)}
           F == {Plan!Change("alter_relationship", m, r, None, TRUE) : r \in R}
           gA == [f \in af |-> Plan!Change("add_field", m, f, None,
                     ~a.fields[f].nullable /\ ~a.fields[f].has_default)]
           gB == [f \in bf |-> Plan!Change("drop_field", m, f, None, TRUE)]
           gU == [f \in bf |-> Plan!FieldChanges(m, f, b.fields[f], a.fields[f])]
           gD == [r \in ar |-> Plan!Change("add_relationship", m, r, None, FALSE)]
           gE == [r \in br |-> Plan!Change("drop_relationship", m, r, None, TRUE)]
           gF == [r \in br |-> Plan!Change("alter_relationship", m, r, None, TRUE)]
<1>1. IsFiniteSet(bf) /\ IsFiniteSet(af) /\ IsFiniteSet(br) /\ IsFiniteSet(ar)
  BY PlanFinite DEF Plan!IsModel, Plan!Named
<1>2. /\ IsFiniteSet(af \ (bf \cap af)) /\ IsFiniteSet(bf \ (bf \cap af)) /\ IsFiniteSet(bf \cap af)
      /\ IsFiniteSet(ar \ (br \cap ar)) /\ IsFiniteSet(br \ (br \cap ar)) /\ IsFiniteSet(R)
  <2> HIDE DEF bf, af, br, ar
  <2> QED BY <1>1, FS_Subset
<1>3. /\ A = {gA[f] : f \in af \ (bf \cap af)} /\ B = {gB[f] : f \in bf \ (bf \cap af)}
      /\ U = {gU[f] : f \in bf \cap af}
      /\ D = {gD[r] : r \in ar \ (br \cap ar)} /\ E = {gE[r] : r \in br \ (br \cap ar)}
      /\ F = {gF[r] : r \in R}
  <2> HIDE DEF bf, af, br, ar
  <2>1. A = {gA[f] : f \in af \ (bf \cap af)} OBVIOUS
  <2>2. B = {gB[f] : f \in bf \ (bf \cap af)} OBVIOUS
  <2>3. U = {gU[f] : f \in bf \cap af} OBVIOUS
  <2>4. D = {gD[r] : r \in ar \ (br \cap ar)} OBVIOUS
  <2>5. E = {gE[r] : r \in br \ (br \cap ar)} OBVIOUS
  <2>6. F = {gF[r] : r \in R} OBVIOUS
  <2> QED BY <2>1, <2>2, <2>3, <2>4, <2>5, <2>6
<1>4. \A s \in U : IsFiniteSet(s)
  BY FieldChangesFinite
<1>5. Plan!ModelChanges(m, b, a) = A \cup B \cup C \cup D \cup E \cup F
  BY DEF Plan!ModelChanges
<1> HIDE DEF bf, af, br, ar, R, A, B, U, D, E, F, gA, gB, gU, gD, gE, gF
<1>6. /\ IsFiniteSet(A) /\ IsFiniteSet(B) /\ IsFiniteSet(U) /\ IsFiniteSet(D)
      /\ IsFiniteSet(E) /\ IsFiniteSet(F)
  BY <1>2, <1>3, ImageFinite
<1>7. IsFiniteSet(C)
  BY <1>4, <1>6, FS_UNION
<1> HIDE DEF C
<1>8. IsFiniteSet(A \cup B \cup C \cup D \cup E \cup F)
  BY <1>6, <1>7, FS_Union
<1> QED BY <1>5, <1>8

LEMMA ChangesFinite ==
    ASSUME NEW b, NEW a, Plan!IsSchema(b), Plan!IsSchema(a)
    PROVE  IsFiniteSet(Plan!Changes(b, a))
<1> DEFINE bm == DOMAIN b
           am == DOMAIN a
           A == {Plan!Change("add_model", m, m, None, FALSE) : m \in am \ (bm \cap am)}
           B == {Plan!Change("drop_model", m, m, None, TRUE) : m \in bm \ (bm \cap am)}
           U == {Plan!ModelChanges(m, b[m], a[m]) : m \in bm \cap am}
           C == UNION U
           gA == [m \in am |-> Plan!Change("add_model", m, m, None, FALSE)]
           gB == [m \in bm |-> Plan!Change("drop_model", m, m, None, TRUE)]
           gU == [m \in bm |-> Plan!ModelChanges(m, b[m], a[m])]
<1>1. IsFiniteSet(bm) /\ IsFiniteSet(am)
  BY PlanFinite DEF Plan!IsSchema, Plan!Named
<1>4. \A s \in U : IsFiniteSet(s)
  BY ModelChangesFinite DEF Plan!IsSchema
<1>5. Plan!Changes(b, a) = A \cup B \cup C
  BY DEF Plan!Changes
<1> HIDE DEF bm, am
<1>2. IsFiniteSet(am \ (bm \cap am)) /\ IsFiniteSet(bm \ (bm \cap am)) /\ IsFiniteSet(bm \cap am)
  BY <1>1, FS_Subset
<1>3. /\ A = {gA[m] : m \in am \ (bm \cap am)} /\ B = {gB[m] : m \in bm \ (bm \cap am)}
      /\ U = {gU[m] : m \in bm \cap am}
  <2>1. A = {gA[m] : m \in am \ (bm \cap am)} OBVIOUS
  <2>2. B = {gB[m] : m \in bm \ (bm \cap am)} OBVIOUS
  <2>3. U = {gU[m] : m \in bm \cap am} OBVIOUS
  <2> QED BY <2>1, <2>2, <2>3
<1> HIDE DEF A, B, U, gA, gB, gU
<1>6. IsFiniteSet(A) /\ IsFiniteSet(B) /\ IsFiniteSet(U)
  BY <1>2, <1>3, ImageFinite
<1>7. IsFiniteSet(C)
  BY <1>4, <1>6, FS_UNION
<1> HIDE DEF C
<1>8. IsFiniteSet(A \cup B \cup C)
  BY <1>6, <1>7, FS_Union
<1> QED BY <1>5, <1>8

-----------------------------------------------------------------------------
(* A change is the one that its names call for.                               *)

ModelKinds == {"add_model", "drop_model"}
FieldKinds == {"add_field", "drop_field"}
AttrKinds == {"alter_field", "add_index", "drop_index"}
RelKinds == {"add_relationship", "alter_relationship", "drop_relationship"}

IsModelChange(b, a, c) ==
    c.kind \in ModelKinds /\ c.model \in InOne(DOMAIN b, DOMAIN a) /\ c = ModelChange(b, a, c.model)
InModel(b, a, c) == c.model \in DOMAIN b /\ c.model \in DOMAIN a
IsFieldChange(b, a, c) ==
    /\ c.kind \in FieldKinds
    /\ c.target \in InOne(DOMAIN b[c.model].fields, DOMAIN a[c.model].fields)
    /\ c = FieldChange(b[c.model], a[c.model], c.model, c.target)
IsAttrChange(b, a, c) ==
    /\ c.kind \in AttrKinds /\ c.attr \in Attrs
    /\ c.target \in BothFields(b[c.model], a[c.model])
    /\ b[c.model].fields[c.target][c.attr] # a[c.model].fields[c.target][c.attr]
    /\ c = AttrChange(b[c.model].fields[c.target], a[c.model].fields[c.target], c.model, c.target, c.attr)
IsRelChange(b, a, c) ==
    /\ c.kind \in RelKinds
    /\ c.target \in OtherRels(b[c.model], a[c.model])
    /\ c = RelChange(b[c.model], a[c.model], c.model, c.target)

LEMMA ChangeIs ==
    ASSUME NEW b, NEW a, NEW c \in Plan!Changes(b, a)
    PROVE  \/ IsModelChange(b, a, c)
           \/ /\ InModel(b, a, c)
              /\ IsFieldChange(b, a, c) \/ IsAttrChange(b, a, c) \/ IsRelChange(b, a, c)
<1>1. CASE ChangesModel(b, a, c)
  <2>1. PICK m \in InOne(DOMAIN b, DOMAIN a) : c = ModelChange(b, a, m)
    BY <1>1 DEF ChangesModel
  <2>2. c.kind \in ModelKinds /\ c.model = m
    BY <2>1 DEF ModelChange, Plan!Change, ModelKinds
  <2> QED BY <2>1, <2>2 DEF IsModelChange
<1>2. CASE ChangesInside(b, a, c)
  <2>1. PICK m \in DOMAIN b \cap DOMAIN a :
            \/ ChangesField(b[m], a[m], m, c)
            \/ ChangesAttr(b[m], a[m], m, c)
            \/ ChangesRel(b[m], a[m], m, c)
    BY <1>2 DEF ChangesInside
  <2>2. CASE ChangesField(b[m], a[m], m, c)
    <3>1. PICK f \in InOne(DOMAIN b[m].fields, DOMAIN a[m].fields) : c = FieldChange(b[m], a[m], m, f)
      BY <2>2 DEF ChangesField
    <3>2. c.kind \in FieldKinds /\ c.model = m /\ c.target = f
      BY <3>1 DEF FieldChange, Plan!Change, FieldKinds
    <3> QED BY <2>1, <3>1, <3>2 DEF IsFieldChange, InModel
  <2>3. CASE ChangesAttr(b[m], a[m], m, c)
    <3>1. PICK f \in BothFields(b[m], a[m]) : ChangesAttrOf(b[m].fields[f], a[m].fields[f], m, f, c)
      BY <2>3 DEF ChangesAttr
    <3>2. PICK x \in Attrs : /\ b[m].fields[f][x] # a[m].fields[f][x]
                            /\ c = AttrChange(b[m].fields[f], a[m].fields[f], m, f, x)
      BY <3>1 DEF ChangesAttrOf
    <3>3. c.kind \in AttrKinds /\ c.model = m /\ c.target = f /\ c.attr = x
      BY <3>2 DEF AttrChange, Plan!Change, AttrKinds
    <3> QED BY <2>1, <3>1, <3>2, <3>3 DEF IsAttrChange, InModel
  <2>4. CASE ChangesRel(b[m], a[m], m, c)
    <3>1. PICK r \in OtherRels(b[m], a[m]) : c = RelChange(b[m], a[m], m, r)
      BY <2>4 DEF ChangesRel
    <3>2. c.kind \in RelKinds /\ c.model = m /\ c.target = r
      BY <3>1 DEF RelChange, Plan!Change, RelKinds
    <3> QED BY <2>1, <3>1, <3>2 DEF IsRelChange, InModel
  <2> QED BY <2>1, <2>2, <2>3, <2>4
<1> QED BY <1>1, <1>2, ChangesAre

\* Two changes of one thing are one change.
Alike(c, d) ==
    /\ c.model = d.model /\ c.target = d.target
    /\ \/ c.kind \in ModelKinds /\ d.kind \in ModelKinds
       \/ c.kind \in FieldKinds /\ d.kind \in FieldKinds
       \/ c.kind \in AttrKinds /\ d.kind \in AttrKinds /\ c.attr = d.attr
       \/ c.kind \in RelKinds /\ d.kind \in RelKinds

LEMMA ChangesOfOneThing ==
    ASSUME NEW b, NEW a, NEW c \in Plan!Changes(b, a), NEW d \in Plan!Changes(b, a), Alike(c, d)
    PROVE  c = d
<1>1. /\ \A k \in ModelKinds : k \notin FieldKinds /\ k \notin AttrKinds /\ k \notin RelKinds
      /\ \A k \in FieldKinds : k \notin AttrKinds /\ k \notin RelKinds
      /\ \A k \in AttrKinds : k \notin RelKinds
  BY DEF ModelKinds, FieldKinds, AttrKinds, RelKinds
<1>2. \/ IsModelChange(b, a, c)
      \/ /\ InModel(b, a, c)
         /\ IsFieldChange(b, a, c) \/ IsAttrChange(b, a, c) \/ IsRelChange(b, a, c)
  BY ChangeIs
<1>3. \/ IsModelChange(b, a, d)
      \/ /\ InModel(b, a, d)
         /\ IsFieldChange(b, a, d) \/ IsAttrChange(b, a, d) \/ IsRelChange(b, a, d)
  BY ChangeIs
<1>4. CASE IsModelChange(b, a, c)
  BY <1>1, <1>3, <1>4 DEF Alike, IsModelChange, IsFieldChange, IsAttrChange, IsRelChange
<1>5. CASE IsFieldChange(b, a, c)
  BY <1>1, <1>3, <1>5 DEF Alike, IsModelChange, IsFieldChange, IsAttrChange, IsRelChange
<1>6. CASE IsAttrChange(b, a, c)
  BY <1>1, <1>3, <1>6 DEF Alike, IsModelChange, IsFieldChange, IsAttrChange, IsRelChange
<1>7. CASE IsRelChange(b, a, c)
  BY <1>1, <1>3, <1>7 DEF Alike, IsModelChange, IsFieldChange, IsAttrChange, IsRelChange
<1> QED BY <1>2, <1>4, <1>5, <1>6, <1>7

\* What the order compares.
LEMMA ChangeTypes ==
    ASSUME NEW b, NEW a, Plan!IsSchema(b), Plan!IsSchema(a), NEW c \in Plan!Changes(b, a)
    PROVE  /\ c.kind \in ModelKinds \cup FieldKinds \cup AttrKinds \cup RelKinds
           /\ c.model \in Nat /\ c.target \in Nat
           /\ c.kind \in AttrKinds => c.attr \in Attrs
           /\ c.kind \in ModelKinds => c.target = c.model
<1>1. /\ \A k \in ModelKinds : k \notin FieldKinds /\ k \notin AttrKinds /\ k \notin RelKinds
      /\ \A k \in FieldKinds : k \notin AttrKinds /\ k \notin RelKinds
      /\ \A k \in AttrKinds : k \notin RelKinds
  BY DEF ModelKinds, FieldKinds, AttrKinds, RelKinds
<1>2. \A m \in DOMAIN b : /\ m \in Nat
                         /\ DOMAIN b[m].fields \subseteq Nat /\ DOMAIN b[m].rels \subseteq Nat
  BY DEF Plan!IsSchema, Plan!IsModel, Plan!Named
<1>3. \A m \in DOMAIN a : /\ m \in Nat
                         /\ DOMAIN a[m].fields \subseteq Nat /\ DOMAIN a[m].rels \subseteq Nat
  BY DEF Plan!IsSchema, Plan!IsModel, Plan!Named
<1>4. CASE IsModelChange(b, a, c)
  <2>1. c.model \in Nat
    BY <1>2, <1>3, <1>4 DEF IsModelChange, InOne
  <2>2. c.target = c.model
    BY <1>4 DEF IsModelChange, ModelChange, Plan!Change
  <2> QED BY <1>1, <1>4, <2>1, <2>2 DEF IsModelChange
<1>5. CASE InModel(b, a, c) /\ IsFieldChange(b, a, c)
  BY <1>1, <1>2, <1>3, <1>5 DEF IsFieldChange, InModel, InOne
<1>6. CASE InModel(b, a, c) /\ IsAttrChange(b, a, c)
  BY <1>1, <1>2, <1>3, <1>6 DEF IsAttrChange, InModel, BothFields
<1>7. CASE InModel(b, a, c) /\ IsRelChange(b, a, c)
  BY <1>1, <1>2, <1>3, <1>7 DEF IsRelChange, InModel, OtherRels
<1> QED BY <1>4, <1>5, <1>6, <1>7, ChangeIs

-----------------------------------------------------------------------------
(* Sorting puts each change at one place.                                     *)

StrictOrder(S) ==
    /\ \A c \in S : ~Plan!Precedes(c, c)
    /\ \A c, d \in S : c # d => Plan!Precedes(c, d) \/ Plan!Precedes(d, c)
    /\ \A c, d, e \in S : Plan!Precedes(c, d) /\ Plan!Precedes(d, e) => Plan!Precedes(c, e)

LEMMA ChangesAreOrdered ==
    ASSUME NEW b, NEW a, Plan!IsSchema(b), Plan!IsSchema(a)
    PROVE  StrictOrder(Plan!Changes(b, a))
<1> DEFINE S == Plan!Changes(b, a)
           k(c) == Plan!Position(c.kind, Plan!KindOrder)
           x(c) == Plan!Position(c.attr, Plan!AttrOrder)
<1>1. \A c \in S : c.model \in Nat /\ c.target \in Nat /\ k(c) \in Nat
  <2> TAKE c \in S
  <2>1. /\ c.kind \in ModelKinds \cup FieldKinds \cup AttrKinds \cup RelKinds
        /\ c.model \in Nat /\ c.target \in Nat
    BY ChangeTypes
  <2> QED BY <2>1, KindPositions DEF ModelKinds, FieldKinds, AttrKinds, RelKinds
<1>2. \A c, d \in S : k(c) = k(d) => c.kind = d.kind
  <2> TAKE c, d \in S
  <2>1. /\ c.kind \in ModelKinds \cup FieldKinds \cup AttrKinds \cup RelKinds
        /\ d.kind \in ModelKinds \cup FieldKinds \cup AttrKinds \cup RelKinds
    BY ChangeTypes
  <2>2. Plan!KindOrder[k(c)] = c.kind /\ Plan!KindOrder[k(d)] = d.kind
    BY <2>1, KindPositions DEF ModelKinds, FieldKinds, AttrKinds, RelKinds
  <2> QED BY <2>2
<1>3. \A c, d \in S : c # d /\ c.model = d.model /\ k(c) = k(d) /\ c.target = d.target
                        => x(c) \in Nat /\ x(d) \in Nat /\ x(c) # x(d)
  <2> SUFFICES ASSUME NEW c \in S, NEW d \in S,
                      c # d, c.model = d.model, k(c) = k(d), c.target = d.target
               PROVE  x(c) \in Nat /\ x(d) \in Nat /\ x(c) # x(d)
    OBVIOUS
  <2>1. c.kind = d.kind
    BY <1>2
  <2>2. c.kind \in ModelKinds \cup FieldKinds \cup AttrKinds \cup RelKinds
    BY ChangeTypes
  <2>3. ~Alike(c, d)
    BY ChangesOfOneThing
  <2>4. c.kind \in AttrKinds /\ c.attr # d.attr
    BY <2>1, <2>2, <2>3 DEF Alike
  <2>5. c.attr \in Attrs /\ d.attr \in Attrs
    BY <2>1, <2>4, ChangeTypes
  <2>6. /\ x(c) \in Nat /\ x(d) \in Nat
        /\ Plan!AttrOrder[x(c)] = c.attr /\ Plan!AttrOrder[x(d)] = d.attr
    BY <2>5, AttrPositions DEF Attrs
  <2> QED BY <2>4, <2>6
<1>4. \A c, d \in S :
         Plan!Precedes(c, d) <=>
            \/ c.model < d.model
            \/ c.model = d.model /\ k(c) < k(d)
            \/ c.model = d.model /\ k(c) = k(d) /\ c.target < d.target
            \/ c.model = d.model /\ k(c) = k(d) /\ c.target = d.target /\ c # d /\ x(c) < x(d)
  BY DEF Plan!Precedes
<1> HIDE DEF S, k, x
<1>5. \A c \in S : ~Plan!Precedes(c, c)
  BY <1>1, <1>4
<1>6. \A c, d \in S : c # d => Plan!Precedes(c, d) \/ Plan!Precedes(d, c)
  <2> SUFFICES ASSUME NEW c \in S, NEW d \in S, c # d
               PROVE  Plan!Precedes(c, d) \/ Plan!Precedes(d, c)
    OBVIOUS
  <2>1. CASE c.model # d.model
    BY <1>1, <1>4, <2>1
  <2>2. CASE c.model = d.model /\ k(c) # k(d)
    BY <1>1, <1>4, <2>2
  <2>3. CASE c.model = d.model /\ k(c) = k(d) /\ c.target # d.target
    BY <1>1, <1>4, <2>3
  <2>4. CASE c.model = d.model /\ k(c) = k(d) /\ c.target = d.target
    BY <1>1, <1>3, <1>4, <2>4
  <2> QED BY <2>1, <2>2, <2>3, <2>4
<1>7. \A c, d, e \in S : Plan!Precedes(c, d) /\ Plan!Precedes(d, e) => Plan!Precedes(c, e)
  <2> SUFFICES ASSUME NEW c \in S, NEW d \in S, NEW e \in S, Plan!Precedes(c, d), Plan!Precedes(d, e)
               PROVE  Plan!Precedes(c, e)
    OBVIOUS
  <2>1. /\ c.model \in Nat /\ d.model \in Nat /\ e.model \in Nat
        /\ c.target \in Nat /\ d.target \in Nat /\ e.target \in Nat
        /\ k(c) \in Nat /\ k(d) \in Nat /\ k(e) \in Nat
    BY <1>1
  <2>2. c.model <= d.model /\ d.model <= e.model
    BY <1>4, <2>1
  <2>3. CASE c.model < e.model
    BY <1>4, <2>3
  <2>4. CASE c.model = d.model /\ d.model = e.model
    <3>1. k(c) <= k(d) /\ k(d) <= k(e)
      BY <1>4, <2>1, <2>4
    <3>2. CASE k(c) < k(e)
      BY <1>4, <2>4, <3>2
    <3>3. CASE k(c) = k(d) /\ k(d) = k(e)
      <4>1. c.target <= d.target /\ d.target <= e.target
        BY <1>4, <2>1, <2>4, <3>3
      <4>2. CASE c.target < e.target
        BY <1>4, <2>4, <3>3, <4>2
      <4>3. CASE c.target = d.target /\ d.target = e.target
        <5>1. c # d /\ x(c) < x(d) /\ d # e /\ x(d) < x(e)
          BY <1>4, <2>1, <2>4, <3>3, <4>3
        <5>2. x(c) \in Nat /\ x(d) \in Nat /\ x(e) \in Nat
          BY <1>3, <2>4, <3>3, <4>3, <5>1
        <5>3. x(c) < x(e) /\ c # e
          BY <5>1, <5>2
        <5> QED BY <1>4, <2>4, <3>3, <4>3, <5>3
      <4> QED BY <2>1, <4>1, <4>2, <4>3
    <3> QED BY <2>1, <3>1, <3>2, <3>3
  <2> QED BY <2>1, <2>2, <2>3, <2>4
<1> QED BY <1>5, <1>6, <1>7 DEF StrictOrder, S

LEMMA SortedHasAll ==
    ASSUME NEW S, IsFiniteSet(S), StrictOrder(S)
    PROVE  /\ Cardinality(S) \in Nat
           /\ Plan!Sorted(S) \in [1..Cardinality(S) -> S]
           /\ \A c \in S : \E i \in 1..Cardinality(S) : Plan!Sorted(S)[i] = c
           /\ \A i, j \in 1..Cardinality(S) : Plan!Sorted(S)[i] = Plan!Sorted(S)[j] => i = j
<1> DEFINE n == Cardinality(S)
           below(c) == {d \in S : Plan!Precedes(d, c)}
           rank(c) == Cardinality(below(c))
           place == [c \in S |-> rank(c) + 1]
<1>1. n \in Nat
  BY FS_CardinalityType
<1>2. \A c \in S : IsFiniteSet(below(c)) /\ rank(c) \in Nat /\ rank(c) < n
  <2> TAKE c \in S
  <2>1. below(c) \in SUBSET S /\ c \notin below(c)
    BY DEF StrictOrder
  <2> HIDE DEF below
  <2>2. IsFiniteSet(below(c)) /\ rank(c) <= n /\ (rank(c) = n => below(c) = S)
    BY <2>1, FS_Subset
  <2>3. rank(c) \in Nat
    BY <2>2, FS_CardinalityType
  <2> QED BY <1>1, <2>1, <2>2, <2>3
<1>3. \A c, d \in S : Plan!Precedes(c, d) => rank(c) < rank(d)
  <2> SUFFICES ASSUME NEW c \in S, NEW d \in S, Plan!Precedes(c, d)
               PROVE  rank(c) < rank(d)
    OBVIOUS
  <2>1. below(c) \in SUBSET below(d) /\ c \in below(d) /\ c \notin below(c)
    BY DEF StrictOrder
  <2>2. IsFiniteSet(below(d)) /\ rank(c) \in Nat /\ rank(d) \in Nat
    BY <1>2
  <2> HIDE DEF below
  <2>3. rank(c) <= rank(d) /\ (rank(d) = rank(c) => below(d) = below(c))
    BY <2>1, <2>2, FS_Subset
  <2> QED BY <2>1, <2>2, <2>3
<1>4. \A c, d \in S : rank(c) = rank(d) => c = d
  <2> SUFFICES ASSUME NEW c \in S, NEW d \in S, c # d
               PROVE  rank(c) # rank(d)
    OBVIOUS
  <2>1. rank(c) < rank(d) \/ rank(d) < rank(c)
    BY <1>3 DEF StrictOrder
  <2>2. rank(c) \in Nat /\ rank(d) \in Nat
    BY <1>2
  <2> HIDE DEF rank
  <2> QED BY <2>1, <2>2
<1> HIDE DEF rank, n
<1>5. \A c \in S : rank(c) + 1 \in 1..n
  <2> TAKE c \in S
  <2>1. rank(c) \in Nat /\ rank(c) < n
    BY <1>2
  <2> QED BY <1>1, <2>1
<1>6. place \in Injection(S, 1..n)
  <2>1. place \in [S -> 1..n]
    BY <1>5
  <2>2. \A c, d \in S : place[c] = place[d] => c = d
    <3> SUFFICES ASSUME NEW c \in S, NEW d \in S, place[c] = place[d]
                 PROVE  c = d
      OBVIOUS
    <3>1. rank(c) \in Nat /\ rank(d) \in Nat
      BY <1>2
    <3>2. rank(c) + 1 = rank(d) + 1
      OBVIOUS
    <3> QED BY <1>4, <3>1, <3>2
  <2> HIDE DEF place
  <2> QED BY <2>1, <2>2 DEF Injection, IsInjective
<1>7. IsFiniteSet(1..n) /\ Cardinality(1..n) = n
  BY <1>1, FS_Interval
<1>8. place \in Surjection(S, 1..n)
  <2> HIDE DEF place
  <2>1. Cardinality(S) = Cardinality(1..n) <=> place \in Surjection(S, 1..n)
    BY <1>6, <1>7, FS_Injection
  <2> QED BY <1>7, <2>1 DEF n
<1>9. \A i \in 1..n : \E c \in S : rank(c) = i - 1
  <2> TAKE i \in 1..n
  <2>1. PICK c \in S : place[c] = i
    BY <1>8 DEF Surjection
  <2>2. rank(c) + 1 = i
    BY <2>1
  <2>3. rank(c) \in Nat
    BY <1>2
  <2> QED BY <1>1, <2>2, <2>3
<1>10. Plan!Sorted(S) = [i \in 1..n |-> CHOOSE c \in S : Plan!Cardinality(below(c)) = i - 1]
  BY PlanFinite DEF Plan!Sorted, n
<1>11. \A i \in 1..n : Plan!Sorted(S)[i] \in S /\ rank(Plan!Sorted(S)[i]) = i - 1
  <2> TAKE i \in 1..n
  <2>1. Plan!Sorted(S)[i] = CHOOSE c \in S : Plan!Cardinality(below(c)) = i - 1
    BY <1>10
  <2>2. \A c : Plan!Cardinality(below(c)) = rank(c)
    BY PlanFinite DEF rank
  <2> HIDE DEF below
  <2>3. \E c \in S : Plan!Cardinality(below(c)) = i - 1
    BY <1>9, <2>2
  <2>4. Plan!Sorted(S)[i] \in S /\ Plan!Cardinality(below(Plan!Sorted(S)[i])) = i - 1
    BY <2>1, <2>3
  <2> QED BY <2>2, <2>4
<1>12. Plan!Sorted(S) \in [1..n -> S]
  BY <1>10, <1>11
<1>13. ASSUME NEW c \in S
       PROVE  \E i \in 1..n : Plan!Sorted(S)[i] = c
  <2>1. rank(c) + 1 \in 1..n /\ rank(c) \in Nat
    BY <1>2, <1>5
  <2>2. Plan!Sorted(S)[rank(c) + 1] \in S /\ rank(Plan!Sorted(S)[rank(c) + 1]) = rank(c)
    BY <1>11, <2>1
  <2>3. Plan!Sorted(S)[rank(c) + 1] = c
    BY <1>4, <2>2
  <2> QED BY <2>1, <2>3
<1>14. \A i, j \in 1..n : Plan!Sorted(S)[i] = Plan!Sorted(S)[j] => i = j
  <2> SUFFICES ASSUME NEW i \in 1..n, NEW j \in 1..n, Plan!Sorted(S)[i] = Plan!Sorted(S)[j]
               PROVE  i = j
    OBVIOUS
  <2>1. i - 1 = j - 1
    BY <1>11
  <2> QED BY <1>1, <2>1
<1> QED BY <1>1, <1>12, <1>13, <1>14 DEF n

-----------------------------------------------------------------------------
(* A schema between two others: what the changes T name is as in the schema   *)
(* after, and the rest as in the schema before.                               *)

Taken(T, kinds, m, x) == \E c \in T : c.kind \in kinds /\ c.model = m /\ c.target = x
TakenAttr(T, m, f, x) == \E c \in T : c.kind \in AttrKinds /\ c.model = m /\ c.target = f /\ c.attr = x

\* The map s has x just when the map from has it, with the same value.
SameAt(s, from, x) == (x \in DOMAIN s <=> x \in DOMAIN from) /\ (x \in DOMAIN s => s[x] = from[x])

BetweenField(b, a, m, f, T, s) ==
    /\ \A x \in Attrs : s[x] = IF TakenAttr(T, m, f, x) THEN a[x] ELSE b[x]
    /\ s.has_default = b.has_default /\ s.other = b.other
BetweenFields(b, a, m, T, s) ==
    \A f : IF f \in BothFields(b, a)
           THEN f \in DOMAIN s.fields /\ BetweenField(b.fields[f], a.fields[f], m, f, T, s.fields[f])
           ELSE SameAt(s.fields, IF Taken(T, FieldKinds, m, f) THEN a.fields ELSE b.fields, f)
BetweenRels(b, a, m, T, s) ==
    \A r : SameAt(s.rels, IF Taken(T, RelKinds, m, r) THEN a.rels ELSE b.rels, r)
BetweenModels(b, a, T, s) ==
    \A m : IF m \in DOMAIN b /\ m \in DOMAIN a
           THEN m \in DOMAIN s /\ BetweenFields(b[m], a[m], m, T, s[m]) /\ BetweenRels(b[m], a[m], m, T, s[m])
           ELSE SameAt(s, IF Taken(T, ModelKinds, m, m) THEN a ELSE b, m)
Between(b, a, T, s) == Plan!IsSchema(s) /\ BetweenModels(b, a, T, s)

\* T and U differ in the change c alone, and like is the schema on its side in U.
Differ(b, a, T, U, c, like) ==
    /\ T \subseteq Plan!Changes(b, a) /\ U \subseteq Plan!Changes(b, a) /\ c \in Plan!Changes(b, a)
    /\ \A d : d # c => (d \in T <=> d \in U)
    /\ (like = a /\ c \in U) \/ (like = b /\ c \notin U)

LEMMA TakenElsewhere ==
    ASSUME NEW b, NEW a, NEW T, NEW U, NEW c, NEW like, Differ(b, a, T, U, c, like),
           NEW kinds, NEW m, NEW x, ~(c.kind \in kinds /\ c.model = m /\ c.target = x)
    PROVE  Taken(T, kinds, m, x) <=> Taken(U, kinds, m, x)
  BY DEF Differ, Taken

LEMMA TakenAttrElsewhere ==
    ASSUME NEW b, NEW a, NEW T, NEW U, NEW c, NEW like, Differ(b, a, T, U, c, like),
           NEW m, NEW f, NEW x,
           ~(c.kind \in AttrKinds /\ c.model = m /\ c.target = f /\ c.attr = x)
    PROVE  TakenAttr(T, m, f, x) <=> TakenAttr(U, m, f, x)
  BY DEF Differ, TakenAttr

LEMMA TakenHere ==
    ASSUME NEW b, NEW a, NEW T, NEW U, NEW c, NEW like, Differ(b, a, T, U, c, like),
           NEW kinds, kinds \in {ModelKinds, FieldKinds, RelKinds}, c.kind \in kinds
    PROVE  IF Taken(U, kinds, c.model, c.target) THEN like = a ELSE like = b
<1>1. Taken(U, kinds, c.model, c.target) => c \in U
  <2> SUFFICES ASSUME NEW d \in U, d.kind \in kinds, d.model = c.model, d.target = c.target
               PROVE  c \in U
    BY DEF Taken
  <2>1. Alike(c, d)
    BY DEF Alike
  <2>2. c = d
    BY <2>1, ChangesOfOneThing DEF Differ
  <2> QED BY <2>2
<1>2. c \in U => Taken(U, kinds, c.model, c.target)
  BY DEF Taken
<1> QED BY <1>1, <1>2 DEF Differ

LEMMA TakenAttrHere ==
    ASSUME NEW b, NEW a, NEW T, NEW U, NEW c, NEW like, Differ(b, a, T, U, c, like), c.kind \in AttrKinds
    PROVE  IF TakenAttr(U, c.model, c.target, c.attr) THEN like = a ELSE like = b
<1>1. TakenAttr(U, c.model, c.target, c.attr) => c \in U
  <2> SUFFICES ASSUME NEW d \in U, d.kind \in AttrKinds,
                      d.model = c.model, d.target = c.target, d.attr = c.attr
               PROVE  c \in U
    BY DEF TakenAttr
  <2>1. Alike(c, d)
    BY DEF Alike
  <2>2. c = d
    BY <2>1, ChangesOfOneThing DEF Differ
  <2> QED BY <2>2
<1>2. c \in U => TakenAttr(U, c.model, c.target, c.attr)
  BY DEF TakenAttr
<1> QED BY <1>1, <1>2 DEF Differ

\* With and Without change a map of names at one name.
LEMMA WithName ==
    ASSUME NEW s, Plan!Named(s), NEW x \in Nat, NEW v
    PROVE  /\ Plan!Named(Plan!With(s, x, v))
           /\ DOMAIN Plan!With(s, x, v) = DOMAIN s \cup {x}
           /\ Plan!With(s, x, v)[x] = v
           /\ \A y \in DOMAIN s : y # x => Plan!With(s, x, v)[y] = s[y]
<1> DEFINE t == Plan!With(s, x, v)
<1>1. t = [y \in DOMAIN s \cup {x} |-> IF y = x THEN v ELSE s[y]]
  BY DEF Plan!With
<1>2. DOMAIN s \in SUBSET Nat /\ IsFiniteSet(DOMAIN s)
  BY PlanFinite DEF Plan!Named
<1>3. IsFiniteSet(DOMAIN s \cup {x})
  BY <1>2, FS_AddElement
<1> HIDE DEF t
<1>4. t = [y \in DOMAIN t |-> t[y]] /\ DOMAIN t = DOMAIN s \cup {x}
  BY <1>1
<1>5. Plan!Named(t)
  BY <1>2, <1>3, <1>4, PlanFinite DEF Plan!Named
<1> QED BY <1>1, <1>4, <1>5 DEF t

LEMMA WithoutName ==
    ASSUME NEW s, Plan!Named(s), NEW x
    PROVE  /\ Plan!Named(Plan!Without(s, x))
           /\ DOMAIN Plan!Without(s, x) = DOMAIN s \ {x}
           /\ \A y \in DOMAIN s : y # x => Plan!Without(s, x)[y] = s[y]
<1> DEFINE t == Plan!Without(s, x)
<1>1. t = [y \in DOMAIN s \ {x} |-> s[y]]
  BY DEF Plan!Without
<1>2. DOMAIN s \in SUBSET Nat /\ IsFiniteSet(DOMAIN s)
  BY PlanFinite DEF Plan!Named
<1>3. IsFiniteSet(DOMAIN s \ {x})
  BY <1>2, FS_Subset
<1> HIDE DEF t
<1>4. t = [y \in DOMAIN t |-> t[y]] /\ DOMAIN t = DOMAIN s \ {x}
  BY <1>1
<1>5. Plan!Named(t)
  BY <1>2, <1>3, <1>4, PlanFinite DEF Plan!Named
<1> QED BY <1>1, <1>4, <1>5 DEF t

\* Updated at x: as the map like at x, and as before elsewhere.
Updated(s, x, like) == IF x \in DOMAIN like THEN Plan!With(s, x, like[x]) ELSE Plan!Without(s, x)

LEMMA UpdatedName ==
    ASSUME NEW s, Plan!Named(s), NEW x \in Nat, NEW like
    PROVE  /\ Plan!Named(Updated(s, x, like))
           /\ SameAt(Updated(s, x, like), like, x)
           /\ \A y : y # x => SameAt(Updated(s, x, like), s, y)
<1>1. CASE x \in DOMAIN like
  <2> DEFINE t == Plan!With(s, x, like[x])
  <2>1. /\ Plan!Named(t) /\ DOMAIN t = DOMAIN s \cup {x} /\ t[x] = like[x]
        /\ \A y \in DOMAIN s : y # x => t[y] = s[y]
    BY WithName
  <2>2. Updated(s, x, like) = t
    BY <1>1 DEF Updated
  <2> HIDE DEF t
  <2> QED BY <1>1, <2>1, <2>2 DEF SameAt
<1>2. CASE x \notin DOMAIN like
  BY <1>2, WithoutName DEF Updated, SameAt
<1> QED BY <1>1, <1>2

\* A change of a model, or the undoing of one, leads from between to between.
LEMMA ModelStep ==
    ASSUME NEW b, NEW a, Plan!IsSchema(b), Plan!IsSchema(a), NEW T, NEW U, NEW c, NEW like,
           Differ(b, a, T, U, c, like), NEW s, Between(b, a, T, s), IsModelChange(b, a, c)
    PROVE  Between(b, a, U, Plan!Become(s, c, like))
<1> DEFINE m == c.model
           t == Plan!Become(s, c, like)
<1>1. /\ \A k \in ModelKinds : k \notin FieldKinds /\ k \notin AttrKinds /\ k \notin RelKinds
      /\ c.kind \in ModelKinds
  BY DEF ModelKinds, FieldKinds, AttrKinds, RelKinds, IsModelChange
<1>2. m \in Nat /\ c.target = m
  BY ChangeTypes, <1>1 DEF Differ
<1>3. Plan!Named(s) /\ Plan!IsSchema(like)
  BY DEF Between, Differ, Plan!IsSchema
<1>4. t = Updated(s, m, like)
  BY <1>1 DEF Plan!Become, Updated, ModelKinds
<1>5. Plan!Named(t) /\ SameAt(t, like, m) /\ \A y : y # m => SameAt(t, s, y)
  BY <1>2, <1>3, <1>4, UpdatedName
<1> HIDE DEF t
<1>6. Plan!IsSchema(t)
  <2> SUFFICES ASSUME NEW y \in DOMAIN t
               PROVE  Plan!IsModel(t[y])
    BY <1>5 DEF Plan!IsSchema
  <2>1. CASE y = m
    BY <1>3, <1>5, <2>1 DEF SameAt, Plan!IsSchema
  <2>2. CASE y # m
    BY <1>5, <2>2 DEF SameAt, Plan!IsSchema, Between
  <2> QED BY <2>1, <2>2
<1>7. BetweenModels(b, a, U, t)
  <2> SUFFICES ASSUME NEW y
               PROVE  IF y \in DOMAIN b /\ y \in DOMAIN a
                      THEN /\ y \in DOMAIN t
                           /\ BetweenFields(b[y], a[y], y, U, t[y])
                           /\ BetweenRels(b[y], a[y], y, U, t[y])
                      ELSE SameAt(t, IF Taken(U, ModelKinds, y, y) THEN a ELSE b, y)
    BY DEF BetweenModels
  <2>1. CASE y = m
    <3>1. ~(y \in DOMAIN b /\ y \in DOMAIN a)
      BY <2>1 DEF IsModelChange, InOne
    <3>2. IF Taken(U, ModelKinds, y, y) THEN like = a ELSE like = b
      BY <1>1, <1>2, <2>1, TakenHere
    <3> QED BY <1>5, <2>1, <3>1, <3>2
  <2>2. CASE y # m
    <3>1. SameAt(t, s, y)
      BY <1>5, <2>2
    <3>2. \A kinds, x : Taken(T, kinds, y, x) <=> Taken(U, kinds, y, x)
      BY <2>2, TakenElsewhere
    <3>3. \A f, x : TakenAttr(T, y, f, x) <=> TakenAttr(U, y, f, x)
      BY <2>2, TakenAttrElsewhere
    <3>4. IF y \in DOMAIN b /\ y \in DOMAIN a
          THEN y \in DOMAIN s /\ BetweenFields(b[y], a[y], y, T, s[y]) /\ BetweenRels(b[y], a[y], y, T, s[y])
          ELSE SameAt(s, IF Taken(T, ModelKinds, y, y) THEN a ELSE b, y)
      BY DEF Between, BetweenModels
    <3>5. CASE y \in DOMAIN b /\ y \in DOMAIN a
      <4>1. y \in DOMAIN t /\ t[y] = s[y]
        BY <3>1, <3>4, <3>5 DEF SameAt
      <4>2. BetweenRels(b[y], a[y], y, U, t[y])
        BY <3>2, <3>4, <3>5, <4>1 DEF BetweenRels
      <4>3. BetweenFields(b[y], a[y], y, U, t[y])
        BY <3>2, <3>3, <3>4, <3>5, <4>1 DEF BetweenFields, BetweenField
      <4> QED BY <3>5, <4>1, <4>2, <4>3
    <3>6. CASE ~(y \in DOMAIN b /\ y \in DOMAIN a)
      BY <3>1, <3>2, <3>4, <3>6 DEF SameAt
    <3> QED BY <3>5, <3>6
  <2> QED BY <2>1, <2>2
<1> QED BY <1>6, <1>7 DEF Between, t

\* A step inside one model leaves the others as they were.
LEMMA InsideStep ==
    ASSUME NEW b, NEW a, NEW T, NEW U, NEW c, NEW like, Differ(b, a, T, U, c, like),
           NEW s, Between(b, a, T, s), InModel(b, a, c), c.kind \notin ModelKinds,
           NEW t, Plan!Named(t), DOMAIN t = DOMAIN s,
           \A y \in DOMAIN s : y # c.model => t[y] = s[y],
           Plan!IsModel(t[c.model]),
           BetweenFields(b[c.model], a[c.model], c.model, U, t[c.model]),
           BetweenRels(b[c.model], a[c.model], c.model, U, t[c.model])
    PROVE  Between(b, a, U, t)
<1>1. Plan!IsSchema(t)
  <2> SUFFICES ASSUME NEW y \in DOMAIN t
               PROVE  Plan!IsModel(t[y])
    BY DEF Plan!IsSchema
  <2>1. CASE y = c.model
    BY <2>1
  <2>2. CASE y # c.model
    BY <2>2 DEF Plan!IsSchema, Between
  <2> QED BY <2>1, <2>2
<1>2. BetweenModels(b, a, U, t)
  <2> SUFFICES ASSUME NEW y
               PROVE  IF y \in DOMAIN b /\ y \in DOMAIN a
                      THEN /\ y \in DOMAIN t
                           /\ BetweenFields(b[y], a[y], y, U, t[y])
                           /\ BetweenRels(b[y], a[y], y, U, t[y])
                      ELSE SameAt(t, IF Taken(U, ModelKinds, y, y) THEN a ELSE b, y)
    BY DEF BetweenModels
  <2>1. IF y \in DOMAIN b /\ y \in DOMAIN a
        THEN y \in DOMAIN s /\ BetweenFields(b[y], a[y], y, T, s[y]) /\ BetweenRels(b[y], a[y], y, T, s[y])
        ELSE SameAt(s, IF Taken(T, ModelKinds, y, y) THEN a ELSE b, y)
    BY DEF Between, BetweenModels
  <2>2. CASE y = c.model
    BY <2>1, <2>2 DEF InModel
  <2>3. CASE y # c.model
    <3>1. \A kinds, x : Taken(T, kinds, y, x) <=> Taken(U, kinds, y, x)
      BY <2>3, TakenElsewhere
    <3>2. \A f, x : TakenAttr(T, y, f, x) <=> TakenAttr(U, y, f, x)
      BY <2>3, TakenAttrElsewhere
    <3>3. CASE y \in DOMAIN b /\ y \in DOMAIN a
      <4>1. y \in DOMAIN t /\ t[y] = s[y]
        BY <2>1, <2>3, <3>3
      <4>2. BetweenRels(b[y], a[y], y, U, t[y])
        BY <2>1, <3>1, <3>3, <4>1 DEF BetweenRels
      <4>3. BetweenFields(b[y], a[y], y, U, t[y])
        BY <2>1, <3>1, <3>2, <3>3, <4>1 DEF BetweenFields, BetweenField
      <4> QED BY <3>3, <4>1, <4>2, <4>3
    <3>4. CASE ~(y \in DOMAIN b /\ y \in DOMAIN a)
      BY <2>1, <2>3, <3>1, <3>4 DEF SameAt
    <3> QED BY <3>3, <3>4
  <2> QED BY <2>2, <2>3
<1> QED BY <1>1, <1>2 DEF Between

LEMMA FieldStep ==
    ASSUME NEW b, NEW a, Plan!IsSchema(b), Plan!IsSchema(a), NEW T, NEW U, NEW c, NEW like,
           Differ(b, a, T, U, c, like), NEW s, Between(b, a, T, s),
           InModel(b, a, c), IsFieldChange(b, a, c)
    PROVE  Between(b, a, U, Plan!Become(s, c, like))
<1> DEFINE m == c.model
           f == c.target
           t == Plan!Become(s, c, like)
           fields == Updated(s[m].fields, f, like[m].fields)
<1>1. /\ c.kind \in FieldKinds /\ c.kind \notin ModelKinds /\ c.kind \notin AttrKinds
      /\ c.kind \notin RelKinds
      /\ FieldKinds \in {ModelKinds, FieldKinds, RelKinds}
  BY DEF ModelKinds, FieldKinds, AttrKinds, RelKinds, IsFieldChange
<1>2. m \in Nat /\ f \in Nat
  BY ChangeTypes DEF Differ
<1>3. /\ m \in DOMAIN s /\ BetweenFields(b[m], a[m], m, T, s[m]) /\ BetweenRels(b[m], a[m], m, T, s[m])
      /\ Plan!Named(s) /\ Plan!IsModel(s[m])
  BY DEF Between, BetweenModels, InModel, Plan!IsSchema
<1>4. m \in DOMAIN like /\ Plan!IsModel(like[m])
  BY DEF Differ, InModel, Plan!IsSchema
<1>5. t = [s EXCEPT ![m].fields = fields]
  BY <1>1 DEF Plan!Become, Updated, ModelKinds, FieldKinds
<1>6. Plan!Named(s[m].fields)
  BY <1>3 DEF Plan!IsModel
<1>7. /\ Plan!Named(fields) /\ SameAt(fields, like[m].fields, f)
      /\ \A y : y # f => SameAt(fields, s[m].fields, y)
  BY <1>2, <1>6, UpdatedName
<1> HIDE DEF t, fields
<1>8. /\ t = [y \in DOMAIN t |-> t[y]] /\ DOMAIN t = DOMAIN s
      /\ \A y \in DOMAIN s : y # m => t[y] = s[y]
      /\ t[m] = [s[m] EXCEPT !.fields = fields]
  BY <1>3, <1>5 DEF Plan!Named
<1>9. t[m] = [fields |-> fields, rels |-> s[m].rels]
  BY <1>3, <1>8 DEF Plan!IsModel
<1>10. Plan!Named(t)
  BY <1>3, <1>8 DEF Plan!Named
<1>11. Plan!IsModel(t[m])
  <2>1. \A y \in DOMAIN fields : fields[y] \in Plan!FieldSchema
    <3> SUFFICES ASSUME NEW y \in DOMAIN fields
                 PROVE  fields[y] \in Plan!FieldSchema
      OBVIOUS
    <3>1. CASE y = f
      BY <1>4, <1>7, <3>1 DEF SameAt, Plan!IsModel
    <3>2. CASE y # f
      BY <1>3, <1>7, <3>2 DEF SameAt, Plan!IsModel
    <3> QED BY <3>1, <3>2
  <2>2. Plan!Named(s[m].rels) /\ \A r \in DOMAIN s[m].rels : s[m].rels[r] \in Plan!RelationshipSchema
    BY <1>3 DEF Plan!IsModel
  <2>3. t[m].fields = fields /\ t[m].rels = s[m].rels
    BY <1>9
  <2> QED BY <1>7, <1>9, <2>1, <2>2, <2>3 DEF Plan!IsModel
<1>12. BetweenRels(b[m], a[m], m, U, t[m])
  <2>1. \A x : Taken(T, RelKinds, m, x) <=> Taken(U, RelKinds, m, x)
    BY <1>1, TakenElsewhere
  <2>2. t[m].rels = s[m].rels
    BY <1>9
  <2> QED BY <1>3, <2>1, <2>2 DEF BetweenRels
<1>13. BetweenFields(b[m], a[m], m, U, t[m])
  <2> SUFFICES ASSUME NEW y
               PROVE  IF y \in BothFields(b[m], a[m])
                      THEN y \in DOMAIN fields /\ BetweenField(b[m].fields[y], a[m].fields[y], m, y, U, fields[y])
                      ELSE SameAt(fields, IF Taken(U, FieldKinds, m, y) THEN a[m].fields ELSE b[m].fields, y)
    BY <1>9 DEF BetweenFields
  <2>1. \A x, z : TakenAttr(T, m, x, z) <=> TakenAttr(U, m, x, z)
    BY <1>1, TakenAttrElsewhere
  <2>2. CASE y = f
    <3>1. y \notin BothFields(b[m], a[m])
      BY <2>2 DEF IsFieldChange, InOne, BothFields
    <3>2. IF Taken(U, FieldKinds, m, f) THEN like = a ELSE like = b
      BY <1>1, TakenHere
    <3> QED BY <1>7, <2>2, <3>1, <3>2
  <2>3. CASE y # f
    <3>1. SameAt(fields, s[m].fields, y)
      BY <1>7, <2>3
    <3>2. Taken(T, FieldKinds, m, y) <=> Taken(U, FieldKinds, m, y)
      BY <2>3, TakenElsewhere
    <3>3. IF y \in BothFields(b[m], a[m])
          THEN y \in DOMAIN s[m].fields /\ BetweenField(b[m].fields[y], a[m].fields[y], m, y, T, s[m].fields[y])
          ELSE SameAt(s[m].fields, IF Taken(T, FieldKinds, m, y) THEN a[m].fields ELSE b[m].fields, y)
      BY <1>3 DEF BetweenFields
    <3>4. CASE y \in BothFields(b[m], a[m])
      <4>1. y \in DOMAIN fields /\ fields[y] = s[m].fields[y]
        BY <3>1, <3>3, <3>4 DEF SameAt
      <4>2. BetweenField(b[m].fields[y], a[m].fields[y], m, y, U, fields[y])
        BY <2>1, <3>3, <3>4, <4>1 DEF BetweenField
      <4> QED BY <3>4, <4>1, <4>2
    <3>5. CASE y \notin BothFields(b[m], a[m])
      BY <3>1, <3>2, <3>3, <3>5 DEF SameAt
    <3> QED BY <3>4, <3>5
  <2> QED BY <2>2, <2>3
<1> QED BY <1>1, <1>8, <1>10, <1>11, <1>12, <1>13, InsideStep DEF t

LEMMA RelStep ==
    ASSUME NEW b, NEW a, Plan!IsSchema(b), Plan!IsSchema(a), NEW T, NEW U, NEW c, NEW like,
           Differ(b, a, T, U, c, like), NEW s, Between(b, a, T, s),
           InModel(b, a, c), IsRelChange(b, a, c)
    PROVE  Between(b, a, U, Plan!Become(s, c, like))
<1> DEFINE m == c.model
           r == c.target
           t == Plan!Become(s, c, like)
           rels == Updated(s[m].rels, r, like[m].rels)
<1>1. /\ c.kind \in RelKinds /\ c.kind \notin ModelKinds /\ c.kind \notin AttrKinds
      /\ c.kind \notin FieldKinds
      /\ RelKinds \in {ModelKinds, FieldKinds, RelKinds}
  BY DEF ModelKinds, FieldKinds, AttrKinds, RelKinds, IsRelChange
<1>2. m \in Nat /\ r \in Nat
  BY ChangeTypes DEF Differ
<1>3. /\ m \in DOMAIN s /\ BetweenFields(b[m], a[m], m, T, s[m]) /\ BetweenRels(b[m], a[m], m, T, s[m])
      /\ Plan!Named(s) /\ Plan!IsModel(s[m])
  BY DEF Between, BetweenModels, InModel, Plan!IsSchema
<1>4. m \in DOMAIN like /\ Plan!IsModel(like[m])
  BY DEF Differ, InModel, Plan!IsSchema
<1>5. t = [s EXCEPT ![m].rels = rels]
  BY <1>1 DEF Plan!Become, Updated, ModelKinds, FieldKinds, AttrKinds
<1>6. Plan!Named(s[m].rels)
  BY <1>3 DEF Plan!IsModel
<1>7. /\ Plan!Named(rels) /\ SameAt(rels, like[m].rels, r)
      /\ \A y : y # r => SameAt(rels, s[m].rels, y)
  BY <1>2, <1>6, UpdatedName
<1> HIDE DEF t, rels
<1>8. /\ t = [y \in DOMAIN t |-> t[y]] /\ DOMAIN t = DOMAIN s
      /\ \A y \in DOMAIN s : y # m => t[y] = s[y]
      /\ t[m] = [s[m] EXCEPT !.rels = rels]
  BY <1>3, <1>5 DEF Plan!Named
<1>9. t[m] = [fields |-> s[m].fields, rels |-> rels]
  BY <1>3, <1>8 DEF Plan!IsModel
<1>10. Plan!Named(t)
  BY <1>3, <1>8 DEF Plan!Named
<1>11. Plan!IsModel(t[m])
  <2>1. \A y \in DOMAIN rels : rels[y] \in Plan!RelationshipSchema
    <3> SUFFICES ASSUME NEW y \in DOMAIN rels
                 PROVE  rels[y] \in Plan!RelationshipSchema
      OBVIOUS
    <3>1. CASE y = r
      BY <1>4, <1>7, <3>1 DEF SameAt, Plan!IsModel
    <3>2. CASE y # r
      BY <1>3, <1>7, <3>2 DEF SameAt, Plan!IsModel
    <3> QED BY <3>1, <3>2
  <2>2. Plan!Named(s[m].fields) /\ \A f \in DOMAIN s[m].fields : s[m].fields[f] \in Plan!FieldSchema
    BY <1>3 DEF Plan!IsModel
  <2>3. t[m].fields = s[m].fields /\ t[m].rels = rels
    BY <1>9
  <2> QED BY <1>7, <1>9, <2>1, <2>2, <2>3 DEF Plan!IsModel
<1>12. BetweenFields(b[m], a[m], m, U, t[m])
  <2>1. \A x : Taken(T, FieldKinds, m, x) <=> Taken(U, FieldKinds, m, x)
    BY <1>1, TakenElsewhere
  <2>2. \A x, z : TakenAttr(T, m, x, z) <=> TakenAttr(U, m, x, z)
    BY <1>1, TakenAttrElsewhere
  <2>3. t[m].fields = s[m].fields
    BY <1>9
  <2> QED BY <1>3, <2>1, <2>2, <2>3 DEF BetweenFields, BetweenField
<1>13. BetweenRels(b[m], a[m], m, U, t[m])
  <2> SUFFICES ASSUME NEW y
               PROVE  SameAt(rels, IF Taken(U, RelKinds, m, y) THEN a[m].rels ELSE b[m].rels, y)
    BY <1>9 DEF BetweenRels
  <2>1. CASE y = r
    <3>1. IF Taken(U, RelKinds, m, r) THEN like = a ELSE like = b
      BY <1>1, TakenHere
    <3> QED BY <1>7, <2>1, <3>1
  <2>2. CASE y # r
    <3>1. SameAt(rels, s[m].rels, y)
      BY <1>7, <2>2
    <3>2. Taken(T, RelKinds, m, y) <=> Taken(U, RelKinds, m, y)
      BY <2>2, TakenElsewhere
    <3>3. SameAt(s[m].rels, IF Taken(T, RelKinds, m, y) THEN a[m].rels ELSE b[m].rels, y)
      BY <1>3 DEF BetweenRels
    <3> QED BY <3>1, <3>2, <3>3 DEF SameAt
  <2> QED BY <2>1, <2>2
<1> QED BY <1>1, <1>8, <1>10, <1>11, <1>12, <1>13, InsideStep DEF t

\* A field with one attribute as in another field.
LEMMA FieldWithAttr ==
    ASSUME NEW s \in Plan!FieldSchema, NEW l \in Plan!FieldSchema, NEW x \in Attrs
    PROVE  /\ [s EXCEPT ![x] = l[x]] \in Plan!FieldSchema
           /\ [s EXCEPT ![x] = l[x]][x] = l[x]
           /\ \A y \in Attrs : y # x => [s EXCEPT ![x] = l[x]][y] = s[y]
           /\ [s EXCEPT ![x] = l[x]].has_default = s.has_default
           /\ [s EXCEPT ![x] = l[x]].other = s.other
<1>1. CASE x = "type"
  BY <1>1 DEF Plan!FieldSchema, Attrs, Plan!AlterAttrs, Plan!IndexAttrs
<1>2. CASE x = "vector_dim"
  BY <1>2 DEF Plan!FieldSchema, Attrs, Plan!AlterAttrs, Plan!IndexAttrs
<1>3. CASE x = "nullable"
  BY <1>3 DEF Plan!FieldSchema, Attrs, Plan!AlterAttrs, Plan!IndexAttrs
<1>4. CASE x = "index"
  BY <1>4 DEF Plan!FieldSchema, Attrs, Plan!AlterAttrs, Plan!IndexAttrs
<1>5. CASE x = "unique"
  BY <1>5 DEF Plan!FieldSchema, Attrs, Plan!AlterAttrs, Plan!IndexAttrs
<1>6. CASE x = "primary_key"
  BY <1>6 DEF Plan!FieldSchema, Attrs, Plan!AlterAttrs, Plan!IndexAttrs
<1> QED BY <1>1, <1>2, <1>3, <1>4, <1>5, <1>6 DEF Attrs, Plan!AlterAttrs, Plan!IndexAttrs

LEMMA AttrStep ==
    ASSUME NEW b, NEW a, Plan!IsSchema(b), Plan!IsSchema(a), NEW T, NEW U, NEW c, NEW like,
           Differ(b, a, T, U, c, like), NEW s, Between(b, a, T, s),
           InModel(b, a, c), IsAttrChange(b, a, c)
    PROVE  Between(b, a, U, Plan!Become(s, c, like))
<1> DEFINE m == c.model
           f == c.target
           x == c.attr
           t == Plan!Become(s, c, like)
           field == [s[m].fields[f] EXCEPT ![x] = like[m].fields[f][x]]
           fields == [s[m].fields EXCEPT ![f] = field]
<1>1. /\ c.kind \in AttrKinds /\ c.kind \notin ModelKinds /\ c.kind \notin FieldKinds
      /\ c.kind \notin RelKinds
  BY DEF ModelKinds, FieldKinds, AttrKinds, RelKinds, IsAttrChange
<1>2. x \in Attrs
  BY DEF IsAttrChange
<1>3. /\ m \in DOMAIN s /\ BetweenFields(b[m], a[m], m, T, s[m]) /\ BetweenRels(b[m], a[m], m, T, s[m])
      /\ Plan!Named(s) /\ Plan!IsModel(s[m])
  BY DEF Between, BetweenModels, InModel, Plan!IsSchema
<1>4. m \in DOMAIN like /\ Plan!IsModel(like[m]) /\ f \in DOMAIN like[m].fields
  BY DEF Differ, InModel, Plan!IsSchema, IsAttrChange, BothFields
<1>5. t = [s EXCEPT ![m].fields[f][x] = like[m].fields[f][x]]
  BY <1>1 DEF Plan!Become, ModelKinds, FieldKinds, AttrKinds
<1>6. /\ f \in BothFields(b[m], a[m]) /\ f \in DOMAIN s[m].fields
      /\ BetweenField(b[m].fields[f], a[m].fields[f], m, f, T, s[m].fields[f])
  BY <1>3 DEF IsAttrChange, BetweenFields
<1>7. s[m].fields[f] \in Plan!FieldSchema /\ like[m].fields[f] \in Plan!FieldSchema
  BY <1>3, <1>4, <1>6 DEF Plan!IsModel
<1>8. /\ field \in Plan!FieldSchema /\ field[x] = like[m].fields[f][x]
      /\ \A y \in Attrs : y # x => field[y] = s[m].fields[f][y]
      /\ field.has_default = s[m].fields[f].has_default /\ field.other = s[m].fields[f].other
  <2> DEFINE u == s[m].fields[f]
             v == like[m].fields[f]
             w == [u EXCEPT ![x] = v[x]]
  <2>1. u \in Plan!FieldSchema /\ v \in Plan!FieldSchema
    BY <1>7
  <2> HIDE DEF u, v, x
  <2>2. /\ w \in Plan!FieldSchema /\ w[x] = v[x]
        /\ \A y \in Attrs : y # x => w[y] = u[y]
        /\ w.has_default = u.has_default /\ w.other = u.other
    BY <1>2, <2>1, FieldWithAttr
  <2> HIDE DEF w
  <2>3. field = w
    BY DEF u, v, w, x
  <2> HIDE DEF field
  <2> QED BY <2>2, <2>3 DEF u, v, x
<1>9. t = [s EXCEPT ![m] = [s[m] EXCEPT !.fields = fields]]
  BY <1>5
<1> HIDE DEF t, field
<1>10. Plan!Named(s[m].fields)
  BY <1>3 DEF Plan!IsModel
<1>11. /\ fields = [y \in DOMAIN fields |-> fields[y]] /\ DOMAIN fields = DOMAIN s[m].fields
       /\ fields[f] = field /\ \A y \in DOMAIN fields : y # f => fields[y] = s[m].fields[y]
  BY <1>6
<1>12. Plan!Named(fields)
  BY <1>10, <1>11 DEF Plan!Named
<1> HIDE DEF fields
<1>13. /\ t = [y \in DOMAIN t |-> t[y]] /\ DOMAIN t = DOMAIN s
       /\ \A y \in DOMAIN s : y # m => t[y] = s[y]
       /\ t[m] = [s[m] EXCEPT !.fields = fields]
  BY <1>3, <1>9 DEF Plan!Named
<1>14. t[m] = [fields |-> fields, rels |-> s[m].rels]
  BY <1>3, <1>13 DEF Plan!IsModel
<1>15. Plan!Named(t)
  BY <1>3, <1>13 DEF Plan!Named
<1>16. Plan!IsModel(t[m])
  <2>1. \A y \in DOMAIN fields : fields[y] \in Plan!FieldSchema
    BY <1>3, <1>8, <1>11 DEF Plan!IsModel
  <2>2. Plan!Named(s[m].rels) /\ \A r \in DOMAIN s[m].rels : s[m].rels[r] \in Plan!RelationshipSchema
    BY <1>3 DEF Plan!IsModel
  <2>3. t[m].fields = fields /\ t[m].rels = s[m].rels
    BY <1>14
  <2> QED BY <1>12, <1>14, <2>1, <2>2, <2>3 DEF Plan!IsModel
<1>17. BetweenRels(b[m], a[m], m, U, t[m])
  <2>1. \A z : Taken(T, RelKinds, m, z) <=> Taken(U, RelKinds, m, z)
    BY <1>1, TakenElsewhere
  <2>2. t[m].rels = s[m].rels
    BY <1>14
  <2> QED BY <1>3, <2>1, <2>2 DEF BetweenRels
<1>18. BetweenFields(b[m], a[m], m, U, t[m])
  <2> SUFFICES ASSUME NEW y
               PROVE  IF y \in BothFields(b[m], a[m])
                      THEN y \in DOMAIN fields /\ BetweenField(b[m].fields[y], a[m].fields[y], m, y, U, fields[y])
                      ELSE SameAt(fields, IF Taken(U, FieldKinds, m, y) THEN a[m].fields ELSE b[m].fields, y)
    BY <1>14 DEF BetweenFields
  <2>1. \A z : Taken(T, FieldKinds, m, z) <=> Taken(U, FieldKinds, m, z)
    BY <1>1, TakenElsewhere
  <2>2. CASE y = f
    <3>1. IF TakenAttr(U, m, f, x) THEN like = a ELSE like = b
      BY <1>1, TakenAttrHere
    <3>2. \A z : z # x => (TakenAttr(T, m, f, z) <=> TakenAttr(U, m, f, z))
      BY TakenAttrElsewhere
    <3>3. \A z \in Attrs : field[z] = IF TakenAttr(U, m, f, z) THEN a[m].fields[f][z] ELSE b[m].fields[f][z]
      <4> TAKE z \in Attrs
      <4>1. CASE z = x
        BY <1>8, <3>1, <4>1
      <4>2. CASE z # x
        <5>1. field[z] = s[m].fields[f][z]
          BY <1>8, <4>2
        <5>2. s[m].fields[f][z] = IF TakenAttr(T, m, f, z) THEN a[m].fields[f][z] ELSE b[m].fields[f][z]
          BY <1>6 DEF BetweenField
        <5> QED BY <3>2, <4>2, <5>1, <5>2
      <4> QED BY <4>1, <4>2
    <3>4. BetweenField(b[m].fields[f], a[m].fields[f], m, f, U, field)
      BY <1>6, <1>8, <3>3 DEF BetweenField
    <3> QED BY <1>6, <1>11, <2>2, <3>4
  <2>3. CASE y # f
    <3>1. (y \in DOMAIN fields <=> y \in DOMAIN s[m].fields) /\ (y \in DOMAIN fields => fields[y] = s[m].fields[y])
      BY <1>11, <2>3
    <3>2. \A z : TakenAttr(T, m, y, z) <=> TakenAttr(U, m, y, z)
      BY <2>3, TakenAttrElsewhere
    <3>3. IF y \in BothFields(b[m], a[m])
          THEN y \in DOMAIN s[m].fields /\ BetweenField(b[m].fields[y], a[m].fields[y], m, y, T, s[m].fields[y])
          ELSE SameAt(s[m].fields, IF Taken(T, FieldKinds, m, y) THEN a[m].fields ELSE b[m].fields, y)
      BY <1>3 DEF BetweenFields
    <3>4. CASE y \in BothFields(b[m], a[m])
      <4>1. y \in DOMAIN fields /\ fields[y] = s[m].fields[y]
        BY <3>1, <3>3, <3>4
      <4>2. BetweenField(b[m].fields[y], a[m].fields[y], m, y, U, fields[y])
        BY <3>2, <3>3, <3>4, <4>1 DEF BetweenField
      <4> QED BY <3>4, <4>1, <4>2
    <3>5. CASE y \notin BothFields(b[m], a[m])
      BY <2>1, <3>1, <3>3, <3>5 DEF SameAt
    <3> QED BY <3>4, <3>5
  <2> QED BY <2>2, <2>3
<1> QED BY <1>1, <1>13, <1>15, <1>16, <1>17, <1>18, InsideStep DEF t

LEMMA BecomeStep ==
    ASSUME NEW b, NEW a, Plan!IsSchema(b), Plan!IsSchema(a), NEW T, NEW U, NEW c, NEW like,
           Differ(b, a, T, U, c, like), NEW s, Between(b, a, T, s)
    PROVE  Between(b, a, U, Plan!Become(s, c, like))
<1>1. \/ IsModelChange(b, a, c)
      \/ /\ InModel(b, a, c)
         /\ IsFieldChange(b, a, c) \/ IsAttrChange(b, a, c) \/ IsRelChange(b, a, c)
  BY ChangeIs DEF Differ
<1> QED BY <1>1, ModelStep, FieldStep, AttrStep, RelStep

-----------------------------------------------------------------------------
(* Where a plan begins and ends.                                              *)

LEMMA BetweenAtFirst ==
    ASSUME NEW b, NEW a, Plan!IsSchema(b)
    PROVE  Between(b, a, {}, b)
<1>1. \A kinds, m, x : ~Taken({}, kinds, m, x)
  BY DEF Taken
<1>2. \A m, f, x : ~TakenAttr({}, m, f, x)
  BY DEF TakenAttr
<1>3. ASSUME NEW m \in DOMAIN b
      PROVE  BetweenFields(b[m], a[m], m, {}, b[m]) /\ BetweenRels(b[m], a[m], m, {}, b[m])
  <2>1. BetweenRels(b[m], a[m], m, {}, b[m])
    BY <1>1 DEF BetweenRels, SameAt
  <2>2. BetweenFields(b[m], a[m], m, {}, b[m])
    BY <1>1, <1>2 DEF BetweenFields, BetweenField, SameAt, BothFields
  <2> QED BY <2>1, <2>2
<1> QED BY <1>1, <1>3 DEF Between, BetweenModels, SameAt

LEMMA FieldsEqual ==
    ASSUME NEW s \in Plan!FieldSchema, NEW t \in Plan!FieldSchema,
           \A x \in Attrs : s[x] = t[x], s.has_default = t.has_default, s.other = t.other
    PROVE  s = t
<1>1. /\ s.type = t.type /\ s.vector_dim = t.vector_dim /\ s.nullable = t.nullable
      /\ s.index = t.index /\ s.unique = t.unique /\ s.primary_key = t.primary_key
  BY DEF Attrs, Plan!AlterAttrs, Plan!IndexAttrs
<1> QED BY <1>1 DEF Plan!FieldSchema

LEMMA MapsEqual ==
    ASSUME NEW s, NEW t, Plan!Named(s), Plan!Named(t), \A x : SameAt(s, t, x)
    PROVE  s = t
<1>1. DOMAIN s = DOMAIN t
  BY DEF SameAt
<1>2. \A x \in DOMAIN s : s[x] = t[x]
  BY DEF SameAt
<1>3. s = [x \in DOMAIN s |-> s[x]] /\ t = [x \in DOMAIN t |-> t[x]]
  BY DEF Plan!Named
<1> QED BY <1>1, <1>2, <1>3

LEMMA BetweenAtBack ==
    ASSUME NEW b, NEW a, Plan!IsSchema(b), NEW s, Between(b, a, {}, s)
    PROVE  s = b
<1>1. \A kinds, m, x : ~Taken({}, kinds, m, x)
  BY DEF Taken
<1>2. \A m, f, x : ~TakenAttr({}, m, f, x)
  BY DEF TakenAttr
<1>3. ASSUME NEW m \in DOMAIN b, m \in DOMAIN a
      PROVE  m \in DOMAIN s /\ s[m] = b[m]
  <2>1. m \in DOMAIN s /\ BetweenFields(b[m], a[m], m, {}, s[m]) /\ BetweenRels(b[m], a[m], m, {}, s[m])
    BY <1>3 DEF Between, BetweenModels
  <2>2. Plan!IsModel(s[m]) /\ Plan!IsModel(b[m])
    BY <2>1 DEF Between, Plan!IsSchema
  <2>3. \A f : SameAt(s[m].fields, b[m].fields, f)
    <3> TAKE f
    <3>1. CASE f \in BothFields(b[m], a[m])
      <4>1. /\ f \in DOMAIN s[m].fields /\ f \in DOMAIN b[m].fields
            /\ BetweenField(b[m].fields[f], a[m].fields[f], m, f, {}, s[m].fields[f])
        BY <2>1, <3>1 DEF BetweenFields, BothFields
      <4>2. s[m].fields[f] \in Plan!FieldSchema /\ b[m].fields[f] \in Plan!FieldSchema
        BY <2>2, <4>1 DEF Plan!IsModel
      <4>3. /\ \A x \in Attrs : s[m].fields[f][x] = b[m].fields[f][x]
            /\ s[m].fields[f].has_default = b[m].fields[f].has_default
            /\ s[m].fields[f].other = b[m].fields[f].other
        BY <1>2, <4>1 DEF BetweenField
      <4>4. s[m].fields[f] = b[m].fields[f]
        BY <4>2, <4>3, FieldsEqual
      <4> QED BY <4>1, <4>4 DEF SameAt
    <3>2. CASE f \notin BothFields(b[m], a[m])
      BY <1>1, <2>1, <3>2 DEF BetweenFields
    <3> QED BY <3>1, <3>2
  <2>4. \A r : SameAt(s[m].rels, b[m].rels, r)
    BY <1>1, <2>1 DEF BetweenRels
  <2>5. s[m].fields = b[m].fields /\ s[m].rels = b[m].rels
    BY <2>2, <2>3, <2>4, MapsEqual DEF Plan!IsModel
  <2> QED BY <2>1, <2>2, <2>5 DEF Plan!IsModel
<1>4. \A m : SameAt(s, b, m)
  <2> TAKE m
  <2>1. CASE m \in DOMAIN b /\ m \in DOMAIN a
    BY <1>3, <2>1 DEF SameAt
  <2>2. CASE ~(m \in DOMAIN b /\ m \in DOMAIN a)
    BY <1>1, <2>2 DEF Between, BetweenModels
  <2> QED BY <2>1, <2>2
<1> QED BY <1>4, MapsEqual DEF Between, Plan!IsSchema

\* What differs has its change.
LEMMA ChangeFor ==
    ASSUME NEW b, NEW a
    PROVE  /\ \A m \in InOne(DOMAIN b, DOMAIN a) : ModelChange(b, a, m) \in Plan!Changes(b, a)
           /\ \A m : m \in DOMAIN b /\ m \in DOMAIN a =>
                /\ \A f \in InOne(DOMAIN b[m].fields, DOMAIN a[m].fields) :
                      FieldChange(b[m], a[m], m, f) \in Plan!Changes(b, a)
                /\ \A f \in BothFields(b[m], a[m]) : \A x \in Attrs :
                      b[m].fields[f][x] # a[m].fields[f][x] =>
                          AttrChange(b[m].fields[f], a[m].fields[f], m, f, x) \in Plan!Changes(b, a)
                /\ \A r \in OtherRels(b[m], a[m]) : RelChange(b[m], a[m], m, r) \in Plan!Changes(b, a)
<1>1. ASSUME NEW m \in InOne(DOMAIN b, DOMAIN a)
      PROVE  ModelChange(b, a, m) \in Plan!Changes(b, a)
  <2>1. ChangesModel(b, a, ModelChange(b, a, m))
    BY <1>1, Zenon DEF ChangesModel
  <2> QED BY <2>1, ChangesAre
<1>2. ASSUME NEW m, m \in DOMAIN b, m \in DOMAIN a, NEW c,
             ChangesField(b[m], a[m], m, c) \/ ChangesAttr(b[m], a[m], m, c) \/ ChangesRel(b[m], a[m], m, c)
      PROVE  c \in Plan!Changes(b, a)
  <2>1. ChangesInside(b, a, c)
    BY <1>2 DEF ChangesInside
  <2> QED BY <2>1, ChangesAre
<1>3. ASSUME NEW m, m \in DOMAIN b, m \in DOMAIN a, NEW f \in InOne(DOMAIN b[m].fields, DOMAIN a[m].fields)
      PROVE  FieldChange(b[m], a[m], m, f) \in Plan!Changes(b, a)
  <2>1. ChangesField(b[m], a[m], m, FieldChange(b[m], a[m], m, f))
    BY Zenon DEF ChangesField
  <2> QED BY <1>2, <1>3, <2>1
<1>4. ASSUME NEW m, m \in DOMAIN b, m \in DOMAIN a, NEW f \in BothFields(b[m], a[m]), NEW x \in Attrs,
             b[m].fields[f][x] # a[m].fields[f][x]
      PROVE  AttrChange(b[m].fields[f], a[m].fields[f], m, f, x) \in Plan!Changes(b, a)
  <2> DEFINE c == AttrChange(b[m].fields[f], a[m].fields[f], m, f, x)
  <2>1. ChangesAttrOf(b[m].fields[f], a[m].fields[f], m, f, c)
    BY <1>4, Zenon DEF ChangesAttrOf
  <2> HIDE DEF c
  <2>2. ChangesAttr(b[m], a[m], m, c)
    BY <2>1 DEF ChangesAttr
  <2>3. c \in Plan!Changes(b, a)
    BY <1>2, <1>4, <2>2
  <2> QED BY <2>3 DEF c
<1>5. ASSUME NEW m, m \in DOMAIN b, m \in DOMAIN a, NEW r \in OtherRels(b[m], a[m])
      PROVE  RelChange(b[m], a[m], m, r) \in Plan!Changes(b, a)
  <2>1. ChangesRel(b[m], a[m], m, RelChange(b[m], a[m], m, r))
    BY Zenon DEF ChangesRel
  <2> QED BY <1>2, <1>5, <2>1
<1> QED BY <1>1, <1>3, <1>4, <1>5

LEMMA AllTaken ==
    ASSUME NEW b, NEW a, NEW T, T = Plan!Changes(b, a), NEW m
    PROVE  /\ m \in InOne(DOMAIN b, DOMAIN a) => Taken(T, ModelKinds, m, m)
           /\ m \in DOMAIN b /\ m \in DOMAIN a =>
                /\ \A f \in InOne(DOMAIN b[m].fields, DOMAIN a[m].fields) : Taken(T, FieldKinds, m, f)
                /\ \A f \in BothFields(b[m], a[m]) : \A x \in Attrs :
                      b[m].fields[f][x] # a[m].fields[f][x] => TakenAttr(T, m, f, x)
                /\ \A r \in OtherRels(b[m], a[m]) : Taken(T, RelKinds, m, r)
<1>1. ASSUME NEW c \in T, NEW kinds, c.kind \in kinds
      PROVE  Taken(T, kinds, c.model, c.target)
  BY <1>1 DEF Taken
<1>2. ASSUME m \in InOne(DOMAIN b, DOMAIN a)
      PROVE  Taken(T, ModelKinds, m, m)
  <2> DEFINE c == ModelChange(b, a, m)
  <2>1. c \in T
    BY <1>2, ChangeFor
  <2>2. c.kind \in ModelKinds /\ c.model = m /\ c.target = m
    BY DEF ModelChange, Plan!Change, ModelKinds
  <2> HIDE DEF c
  <2> QED BY <1>1, <2>1, <2>2
<1>3. ASSUME m \in DOMAIN b, m \in DOMAIN a, NEW f \in InOne(DOMAIN b[m].fields, DOMAIN a[m].fields)
      PROVE  Taken(T, FieldKinds, m, f)
  <2> DEFINE c == FieldChange(b[m], a[m], m, f)
  <2>1. c \in T
    BY <1>3, ChangeFor
  <2>2. c.kind \in FieldKinds /\ c.model = m /\ c.target = f
    BY DEF FieldChange, Plan!Change, FieldKinds
  <2> HIDE DEF c
  <2> QED BY <1>1, <2>1, <2>2
<1>4. ASSUME m \in DOMAIN b, m \in DOMAIN a, NEW f \in BothFields(b[m], a[m]), NEW x \in Attrs,
             b[m].fields[f][x] # a[m].fields[f][x]
      PROVE  TakenAttr(T, m, f, x)
  <2> DEFINE c == AttrChange(b[m].fields[f], a[m].fields[f], m, f, x)
  <2>1. c \in T
    BY <1>4, ChangeFor
  <2>2. c.kind \in AttrKinds /\ c.model = m /\ c.target = f /\ c.attr = x
    BY DEF AttrChange, Plan!Change, AttrKinds
  <2> HIDE DEF c
  <2> QED BY <2>1, <2>2 DEF TakenAttr
<1>5. ASSUME m \in DOMAIN b, m \in DOMAIN a, NEW r \in OtherRels(b[m], a[m])
      PROVE  Taken(T, RelKinds, m, r)
  <2> DEFINE c == RelChange(b[m], a[m], m, r)
  <2>1. c \in T
    BY <1>5, ChangeFor
  <2>2. c.kind \in RelKinds /\ c.model = m /\ c.target = r
    BY DEF RelChange, Plan!Change, RelKinds
  <2> HIDE DEF c
  <2> QED BY <1>1, <2>1, <2>2
<1> QED BY <1>2, <1>3, <1>4, <1>5

LEMMA BetweenAtLast ==
    ASSUME NEW b, NEW a, NEW s, Between(b, a, Plan!Changes(b, a), s)
    PROVE  Plan!Agree(s, a)
<1> DEFINE T == Plan!Changes(b, a)
<1> HIDE DEF T
<1>1. \A m : IF m \in DOMAIN b /\ m \in DOMAIN a
             THEN m \in DOMAIN s /\ BetweenFields(b[m], a[m], m, T, s[m]) /\ BetweenRels(b[m], a[m], m, T, s[m])
             ELSE SameAt(s, IF Taken(T, ModelKinds, m, m) THEN a ELSE b, m)
  BY DEF Between, BetweenModels, T
<1>2. \A m : /\ m \in InOne(DOMAIN b, DOMAIN a) => Taken(T, ModelKinds, m, m)
             /\ m \in DOMAIN b /\ m \in DOMAIN a =>
                  /\ \A f \in InOne(DOMAIN b[m].fields, DOMAIN a[m].fields) : Taken(T, FieldKinds, m, f)
                  /\ \A f \in BothFields(b[m], a[m]) : \A x \in Attrs :
                        b[m].fields[f][x] # a[m].fields[f][x] => TakenAttr(T, m, f, x)
                  /\ \A r \in OtherRels(b[m], a[m]) : Taken(T, RelKinds, m, r)
  BY AllTaken DEF T
<1>3. \A m : ~(m \in DOMAIN b /\ m \in DOMAIN a) => SameAt(s, a, m)
  BY <1>1, <1>2 DEF SameAt, InOne
<1>4. DOMAIN s = DOMAIN a
  BY <1>1, <1>3 DEF SameAt
<1>5. ASSUME NEW m, m \in DOMAIN b, m \in DOMAIN a
      PROVE  /\ DOMAIN s[m].fields = DOMAIN a[m].fields /\ DOMAIN s[m].rels = DOMAIN a[m].rels
             /\ \A f \in DOMAIN s[m].fields : Plan!SameField(s[m].fields[f], a[m].fields[f])
             /\ \A r \in DOMAIN s[m].rels : Plan!SameRelationship(s[m].rels[r], a[m].rels[r])
  <2>1. BetweenFields(b[m], a[m], m, T, s[m]) /\ BetweenRels(b[m], a[m], m, T, s[m])
    BY <1>1, <1>5
  <2>2. /\ \A f \in InOne(DOMAIN b[m].fields, DOMAIN a[m].fields) : Taken(T, FieldKinds, m, f)
        /\ \A f \in BothFields(b[m], a[m]) : \A x \in Attrs :
              b[m].fields[f][x] # a[m].fields[f][x] => TakenAttr(T, m, f, x)
        /\ \A r \in OtherRels(b[m], a[m]) : Taken(T, RelKinds, m, r)
    BY <1>2, <1>5
  <2>3. \A f : f \notin BothFields(b[m], a[m]) => SameAt(s[m].fields, a[m].fields, f)
    BY <2>1, <2>2 DEF BetweenFields, SameAt, InOne, BothFields
  <2>4. \A f \in BothFields(b[m], a[m]) : f \in DOMAIN s[m].fields /\ Plan!SameField(s[m].fields[f], a[m].fields[f])
    BY <2>1, <2>2 DEF BetweenFields, BetweenField, Plan!SameField, Attrs
  <2>5. DOMAIN s[m].fields = DOMAIN a[m].fields
    BY <2>3, <2>4 DEF SameAt, BothFields
  <2>6. \A f \in DOMAIN s[m].fields : Plan!SameField(s[m].fields[f], a[m].fields[f])
    BY <2>3, <2>4 DEF SameAt, Plan!SameField
  <2>7. \A r \in OtherRels(b[m], a[m]) : SameAt(s[m].rels, a[m].rels, r)
    BY <2>1, <2>2 DEF BetweenRels
  <2>8. \A r : r \notin OtherRels(b[m], a[m]) =>
               /\ r \in DOMAIN s[m].rels <=> r \in DOMAIN a[m].rels
               /\ r \in DOMAIN s[m].rels => Plan!SameRelationship(s[m].rels[r], a[m].rels[r])
    <3> SUFFICES ASSUME NEW r, r \notin OtherRels(b[m], a[m])
                 PROVE  /\ r \in DOMAIN s[m].rels <=> r \in DOMAIN a[m].rels
                        /\ r \in DOMAIN s[m].rels => Plan!SameRelationship(s[m].rels[r], a[m].rels[r])
      OBVIOUS
    <3>1. SameAt(s[m].rels, a[m].rels, r) \/ SameAt(s[m].rels, b[m].rels, r)
      BY <2>1 DEF BetweenRels
    <3>2. \/ r \notin DOMAIN b[m].rels /\ r \notin DOMAIN a[m].rels
          \/ /\ r \in DOMAIN b[m].rels /\ r \in DOMAIN a[m].rels
             /\ Plan!SameRelationship(b[m].rels[r], a[m].rels[r])
      BY DEF OtherRels
    <3>3. Plan!SameRelationship(a[m].rels[r], a[m].rels[r])
      BY DEF Plan!SameRelationship
    <3> QED BY <3>1, <3>2, <3>3 DEF SameAt
  <2>9. DOMAIN s[m].rels = DOMAIN a[m].rels
    BY <2>7, <2>8 DEF SameAt
  <2>10. \A r \in DOMAIN s[m].rels : Plan!SameRelationship(s[m].rels[r], a[m].rels[r])
    BY <2>7, <2>8 DEF SameAt, Plan!SameRelationship
  <2> QED BY <2>5, <2>6, <2>9, <2>10
<1>6. ASSUME NEW m \in DOMAIN s, ~(m \in DOMAIN b /\ m \in DOMAIN a)
      PROVE  /\ DOMAIN s[m].fields = DOMAIN a[m].fields /\ DOMAIN s[m].rels = DOMAIN a[m].rels
             /\ \A f \in DOMAIN s[m].fields : Plan!SameField(s[m].fields[f], a[m].fields[f])
             /\ \A r \in DOMAIN s[m].rels : Plan!SameRelationship(s[m].rels[r], a[m].rels[r])
  <2>1. s[m] = a[m]
    BY <1>3, <1>6 DEF SameAt
  <2> QED BY <2>1 DEF Plan!SameField, Plan!SameRelationship
<1> QED BY <1>4, <1>5, <1>6 DEF Plan!Agree

\* There is nothing to change just when the schemas agree.
LEMMA NoChangesAgree ==
    ASSUME NEW b, NEW a, Plan!IsSchema(b)
    PROVE  Plan!Changes(b, a) = {} <=> Plan!Agree(b, a)
<1>1. ASSUME Plan!Changes(b, a) = {}
      PROVE  Plan!Agree(b, a)
  BY <1>1, BetweenAtFirst, BetweenAtLast
<1>2. ASSUME Plan!Agree(b, a), NEW c \in Plan!Changes(b, a)
      PROVE  FALSE
  <2>1. /\ DOMAIN b = DOMAIN a
        /\ \A m \in DOMAIN b :
             /\ DOMAIN b[m].fields = DOMAIN a[m].fields /\ DOMAIN b[m].rels = DOMAIN a[m].rels
             /\ \A f \in DOMAIN b[m].fields : \A x \in Attrs : b[m].fields[f][x] = a[m].fields[f][x]
             /\ \A r \in DOMAIN b[m].rels : Plan!SameRelationship(b[m].rels[r], a[m].rels[r])
    BY <1>2 DEF Plan!Agree, Plan!SameField, Attrs
  <2>2. CASE IsModelChange(b, a, c)
    BY <2>1, <2>2 DEF IsModelChange, InOne
  <2>3. CASE InModel(b, a, c) /\ IsFieldChange(b, a, c)
    BY <2>1, <2>3 DEF InModel, IsFieldChange, InOne
  <2>4. CASE InModel(b, a, c) /\ IsAttrChange(b, a, c)
    BY <2>1, <2>4 DEF InModel, IsAttrChange, BothFields
  <2>5. CASE InModel(b, a, c) /\ IsRelChange(b, a, c)
    BY <2>1, <2>5 DEF InModel, IsRelChange, OtherRels
  <2> QED BY <2>2, <2>3, <2>4, <2>5, ChangeIs
<1> QED BY <1>1, <1>2

\* Changes none of which is destructive keep the data.
LEMMA SafeChangesKeepData ==
    ASSUME NEW b, NEW a, \A c \in Plan!Changes(b, a) : ~c.destructive, NEW m \in DOMAIN b
    PROVE  /\ m \in DOMAIN a
           /\ \A f \in DOMAIN b[m].fields :
                /\ f \in DOMAIN a[m].fields
                /\ a[m].fields[f].type = b[m].fields[f].type
                /\ a[m].fields[f].vector_dim = b[m].fields[f].vector_dim
                /\ b[m].fields[f].nullable => a[m].fields[f].nullable
                /\ \A x \in Plan!IndexAttrs : b[m].fields[f][x] => a[m].fields[f][x]
           /\ \A f \in DOMAIN a[m].fields \ DOMAIN b[m].fields :
                a[m].fields[f].nullable \/ a[m].fields[f].has_default
           /\ \A r \in DOMAIN b[m].rels :
                r \in DOMAIN a[m].rels /\ Plan!SameRelationship(b[m].rels[r], a[m].rels[r])
<1>1. m \in DOMAIN a
  <2> SUFFICES ASSUME m \notin DOMAIN a
               PROVE  FALSE
    OBVIOUS
  <2>1. ModelChange(b, a, m) \in Plan!Changes(b, a)
    BY ChangeFor DEF InOne
  <2>2. ModelChange(b, a, m).destructive = TRUE
    BY DEF ModelChange, Plan!Change
  <2> QED BY <2>1, <2>2
<1>2. ASSUME NEW f \in DOMAIN b[m].fields
      PROVE  f \in DOMAIN a[m].fields
  <2> SUFFICES ASSUME f \notin DOMAIN a[m].fields
               PROVE  FALSE
    OBVIOUS
  <2>1. FieldChange(b[m], a[m], m, f) \in Plan!Changes(b, a)
    BY <1>1, ChangeFor DEF InOne
  <2>2. FieldChange(b[m], a[m], m, f).destructive = TRUE
    BY DEF FieldChange, Plan!Change
  <2> QED BY <2>1, <2>2
<1>3. ASSUME NEW f \in DOMAIN a[m].fields, f \notin DOMAIN b[m].fields
      PROVE  a[m].fields[f].nullable \/ a[m].fields[f].has_default
  <2>1. FieldChange(b[m], a[m], m, f) \in Plan!Changes(b, a)
    BY <1>1, <1>3, ChangeFor DEF InOne
  <2>2. FieldChange(b[m], a[m], m, f).destructive
           = (~a[m].fields[f].nullable /\ ~a[m].fields[f].has_default)
    BY <1>3 DEF FieldChange, Plan!Change
  <2> QED BY <2>1, <2>2
<1>4. ASSUME NEW f \in DOMAIN b[m].fields
      PROVE  /\ a[m].fields[f].type = b[m].fields[f].type
             /\ a[m].fields[f].vector_dim = b[m].fields[f].vector_dim
             /\ b[m].fields[f].nullable => a[m].fields[f].nullable
             /\ \A x \in Plan!IndexAttrs : b[m].fields[f][x] => a[m].fields[f][x]
  <2> DEFINE u == b[m].fields[f]
             v == a[m].fields[f]
  <2>1. \A x \in Attrs : u[x] # v[x] => AttrChange(u, v, m, f, x) \in Plan!Changes(b, a)
    BY <1>1, <1>2, ChangeFor DEF BothFields
  <2> HIDE DEF u, v
  <2>2. \A x \in Attrs : u[x] # v[x] => ~AttrChange(u, v, m, f, x).destructive
    BY <2>1
  <2>3. {"type", "vector_dim", "nullable"} \subseteq Attrs /\ Plan!IndexAttrs \subseteq Attrs
    BY DEF Attrs, Plan!AlterAttrs, Plan!IndexAttrs
  <2>4. /\ AttrChange(u, v, m, f, "type").destructive = ("type" = "nullable" => u.nullable)
        /\ AttrChange(u, v, m, f, "vector_dim").destructive = ("vector_dim" = "nullable" => u.nullable)
        /\ AttrChange(u, v, m, f, "nullable").destructive = ("nullable" = "nullable" => u.nullable)
    BY DEF AttrChange, Plan!Change, Plan!AlterAttrs
  <2>5. \A x \in Plan!IndexAttrs : AttrChange(u, v, m, f, x).destructive = u[x]
    BY DEF AttrChange, Plan!Change, Plan!AlterAttrs, Plan!IndexAttrs
  <2>6. u["type"] = v["type"] /\ u["vector_dim"] = v["vector_dim"]
    BY <2>2, <2>3, <2>4
  <2>7. u.nullable => v.nullable
    BY <2>2, <2>3, <2>4
  <2>8. \A x \in Plan!IndexAttrs : u[x] => v[x]
    BY <2>2, <2>3, <2>5
  <2> QED BY <2>6, <2>7, <2>8 DEF u, v
<1>5. ASSUME NEW r \in DOMAIN b[m].rels
      PROVE  r \in DOMAIN a[m].rels /\ Plan!SameRelationship(b[m].rels[r], a[m].rels[r])
  <2> SUFFICES ASSUME r \in OtherRels(b[m], a[m])
               PROVE  FALSE
    BY <1>5 DEF OtherRels
  <2>1. RelChange(b[m], a[m], m, r) \in Plan!Changes(b, a)
    BY <1>1, ChangeFor
  <2>2. RelChange(b[m], a[m], m, r).destructive = TRUE
    BY <1>5 DEF RelChange, Plan!Change
  <2> QED BY <2>1, <2>2
<1> QED BY <1>1, <1>2, <1>3, <1>4, <1>5

-----------------------------------------------------------------------------
(* The plan applied and rolled back.                                          *)

planVars == <<gOld, gNew, gPlan, gSchema, gDone, gPhase>>

PlanChanges == Plan!Changes(gOld, gNew)
Applied(k) == {gPlan.changes[i] : i \in 1..k}

MigrationInv ==
    /\ gOld \in Schemas /\ gNew \in Schemas
    /\ gPlan.changes = Plan!Sorted(PlanChanges) /\ DOMAIN gPlan = {"changes", "status", "estimate"}
    /\ gPlan.estimate # None => gPlan.status = "server_estimated"
    /\ gDone \in 0..Cardinality(PlanChanges)
    /\ Between(gOld, gNew, Applied(gDone), gSchema)
    /\ gPhase = "applied" => gDone = Cardinality(PlanChanges)
    /\ gPhase = "rolled back" => gDone = 0

\* The changes of a plan are those of the two schemas, each at one place.
LEMMA PlanHasChanges ==
    ASSUME Plan!SchemasAreSchemas, gOld \in Schemas, gNew \in Schemas,
           NEW changes, changes = Plan!Sorted(PlanChanges)
    PROVE  /\ Plan!IsSchema(gOld) /\ Plan!IsSchema(gNew)
           /\ Cardinality(PlanChanges) \in Nat /\ Len(changes) = Cardinality(PlanChanges)
           /\ changes \in Seq(PlanChanges)
           /\ \A i \in 1..Cardinality(PlanChanges) : changes[i] \in PlanChanges
           /\ \A c \in PlanChanges : \E i \in 1..Cardinality(PlanChanges) : changes[i] = c
           /\ \A i, j \in 1..Cardinality(PlanChanges) : changes[i] = changes[j] => i = j
<1>1. Plan!IsSchema(gOld) /\ Plan!IsSchema(gNew)
  BY DEF Plan!SchemasAreSchemas
<1>2. IsFiniteSet(PlanChanges) /\ StrictOrder(PlanChanges)
  BY <1>1, ChangesFinite, ChangesAreOrdered DEF PlanChanges
<1>3. /\ Cardinality(PlanChanges) \in Nat
      /\ changes \in [1..Cardinality(PlanChanges) -> PlanChanges]
      /\ \A c \in PlanChanges : \E i \in 1..Cardinality(PlanChanges) : changes[i] = c
      /\ \A i, j \in 1..Cardinality(PlanChanges) : changes[i] = changes[j] => i = j
  BY <1>2, SortedHasAll
<1>4. changes \in Seq(PlanChanges) /\ Len(changes) = Cardinality(PlanChanges)
  BY <1>3
<1> QED BY <1>1, <1>3, <1>4

LEMMA MigrationInit ==
    ASSUME Plan!SchemasAreSchemas, Plan!Init
    PROVE  MigrationInv
<1>1. /\ gOld \in Schemas /\ gNew \in Schemas /\ gSchema = gOld /\ gDone = 0 /\ gPhase = "diffed"
      /\ gPlan = [changes |-> Plan!Sorted(PlanChanges), status |-> "local_only", estimate |-> None]
  BY DEF Plan!Init, Plan!DiffSchemas, PlanChanges
<1>2. Plan!IsSchema(gOld) /\ Cardinality(PlanChanges) \in Nat
  BY <1>1, PlanHasChanges
<1>3. Applied(0) = {}
  BY DEF Applied
<1>4. Between(gOld, gNew, Applied(gDone), gSchema)
  BY <1>1, <1>2, <1>3, BetweenAtFirst
<1> QED BY <1>1, <1>2, <1>4 DEF MigrationInv

LEMMA ApplyKeeps ==
    ASSUME Plan!SchemasAreSchemas, MigrationInv, Plan!ApplyStep
    PROVE  MigrationInv'
<1> DEFINE n == Cardinality(PlanChanges)
           c == gPlan.changes[gDone + 1]
<1>1. /\ gPlan.changes = Plan!Sorted(PlanChanges) /\ gOld \in Schemas /\ gNew \in Schemas
      /\ gDone \in 0..n /\ Between(gOld, gNew, Applied(gDone), gSchema)
      /\ gPlan.estimate # None => gPlan.status = "server_estimated"
      /\ DOMAIN gPlan = {"changes", "status", "estimate"}
  BY DEF MigrationInv
<1>2. /\ Plan!IsSchema(gOld) /\ Plan!IsSchema(gNew)
      /\ n \in Nat /\ Len(gPlan.changes) = n
      /\ \A i \in 1..n : gPlan.changes[i] \in PlanChanges
  BY <1>1, PlanHasChanges
<1>3. /\ gDone < n /\ gSchema' = Plan!Become(gSchema, c, gNew) /\ gDone' = gDone + 1
      /\ gPhase' = IF gDone' = n THEN "applied" ELSE "applying"
      /\ gOld' = gOld /\ gNew' = gNew /\ gPlan' = gPlan
  BY <1>2 DEF Plan!ApplyStep
<1>4. gDone + 1 \in 1..n /\ gDone \in Nat
  BY <1>1, <1>2, <1>3
<1>5. c \in PlanChanges
  BY <1>2, <1>4
<1>6. Differ(gOld, gNew, Applied(gDone), Applied(gDone + 1), c, gNew)
  <2>1. Applied(gDone) \subseteq PlanChanges /\ Applied(gDone + 1) \subseteq PlanChanges
    BY <1>2, <1>4 DEF Applied
  <2>2. c \in Applied(gDone + 1)
    BY <1>4 DEF Applied
  <2>3. Applied(gDone + 1) = Applied(gDone) \cup {c}
    BY <1>4 DEF Applied
  <2> HIDE DEF c
  <2> QED BY <1>5, <2>1, <2>2, <2>3 DEF Differ, PlanChanges
<1>7. Between(gOld, gNew, Applied(gDone + 1), gSchema')
  BY <1>1, <1>2, <1>3, <1>6, BecomeStep
<1>8. PlanChanges' = PlanChanges /\ Applied(gDone)' = Applied(gDone + 1)
  BY <1>3 DEF PlanChanges, Applied
<1>9. gDone' \in 0..n /\ (gPhase' = "applied" => gDone' = n) /\ gPhase' # "rolled back"
  <2> HIDE DEF n, c
  <2> QED BY <1>2, <1>3, <1>4
<1> QED BY <1>1, <1>3, <1>7, <1>8, <1>9 DEF MigrationInv

LEMMA RollbackKeeps ==
    ASSUME Plan!SchemasAreSchemas, MigrationInv, Plan!RollbackStep
    PROVE  MigrationInv'
<1> DEFINE n == Cardinality(PlanChanges)
           c == gPlan.changes[gDone]
<1>1. /\ gPlan.changes = Plan!Sorted(PlanChanges) /\ gOld \in Schemas /\ gNew \in Schemas
      /\ gDone \in 0..n /\ Between(gOld, gNew, Applied(gDone), gSchema)
      /\ gPlan.estimate # None => gPlan.status = "server_estimated"
      /\ DOMAIN gPlan = {"changes", "status", "estimate"}
  BY DEF MigrationInv
<1>2. /\ Plan!IsSchema(gOld) /\ Plan!IsSchema(gNew)
      /\ n \in Nat /\ Len(gPlan.changes) = n
      /\ \A i \in 1..n : gPlan.changes[i] \in PlanChanges
      /\ \A i, j \in 1..n : gPlan.changes[i] = gPlan.changes[j] => i = j
  BY <1>1, PlanHasChanges
<1>3. /\ gDone > 0 /\ gSchema' = Plan!Become(gSchema, Plan!RollbackPlan(gPlan)[n - gDone + 1], gOld)
      /\ gDone' = gDone - 1
      /\ gPhase' = IF gDone' = 0 THEN "rolled back" ELSE "rolling back"
      /\ gOld' = gOld /\ gNew' = gNew /\ gPlan' = gPlan
  BY <1>2 DEF Plan!RollbackStep
<1>4. gDone \in 1..n /\ gDone \in Nat /\ gDone - 1 \in 0..n
  <2>1. gDone \in 0..n /\ n \in Nat /\ gDone > 0
    BY <1>1, <1>2, <1>3
  <2> HIDE DEF n, c
  <2> QED BY <2>1
<1>5. Plan!RollbackPlan(gPlan)[n - gDone + 1] = c
  <2>1. n - gDone + 1 \in 1..n /\ n - (n - gDone + 1) + 1 = gDone
    BY <1>2, <1>4
  <2>2. Plan!RollbackPlan(gPlan) = [i \in 1..n |-> gPlan.changes[(n - i) + 1]]
    BY <1>2 DEF Plan!RollbackPlan, Plan!Reverse
  <2> QED BY <2>1, <2>2
<1>6. c \in PlanChanges
  BY <1>2, <1>4
<1>7. Differ(gOld, gNew, Applied(gDone), Applied(gDone - 1), c, gOld)
  <2>1. Applied(gDone) \subseteq PlanChanges /\ Applied(gDone - 1) \subseteq PlanChanges
    BY <1>2, <1>4 DEF Applied
  <2>2. c \notin Applied(gDone - 1)
    BY <1>2, <1>4 DEF Applied
  <2>3. Applied(gDone) = Applied(gDone - 1) \cup {c}
    BY <1>4 DEF Applied
  <2> HIDE DEF c
  <2> QED BY <1>6, <2>1, <2>2, <2>3 DEF Differ, PlanChanges
<1>8. Between(gOld, gNew, Applied(gDone - 1), gSchema')
  BY <1>1, <1>2, <1>3, <1>5, <1>7, BecomeStep
<1>9. PlanChanges' = PlanChanges /\ Applied(gDone)' = Applied(gDone - 1)
  BY <1>3 DEF PlanChanges, Applied
<1>10. gPhase' # "applied"
  BY <1>3
<1> QED BY <1>1, <1>2, <1>3, <1>4, <1>8, <1>9, <1>10 DEF MigrationInv

LEMMA EstimateKeeps ==
    ASSUME MigrationInv, Plan!Estimate
    PROVE  MigrationInv'
<1>1. /\ gOld' = gOld /\ gNew' = gNew /\ gSchema' = gSchema /\ gDone' = gDone /\ gPhase' = gPhase
      /\ \/ gPlan' = [gPlan EXCEPT !.status = "server_estimated", !.estimate = "estimate"]
         \/ gPlan' = [gPlan EXCEPT !.status = "unavailable", !.estimate = None]
  BY DEF Plan!Estimate
<1>2. /\ DOMAIN gPlan' = {"changes", "status", "estimate"}
      /\ gPlan'.estimate # None => gPlan'.status = "server_estimated"
  BY <1>1 DEF MigrationInv
<1>3. gPlan'.changes = gPlan.changes
  BY <1>1 DEF MigrationInv
<1>4. PlanChanges' = PlanChanges /\ Applied(gDone)' = Applied(gDone)
  BY <1>1, <1>3 DEF PlanChanges, Applied
<1> QED BY <1>1, <1>2, <1>4 DEF MigrationInv

LEMMA MigrationRests ==
    ASSUME MigrationInv, UNCHANGED planVars
    PROVE  MigrationInv'
<1>1. PlanChanges' = PlanChanges /\ Applied(gDone)' = Applied(gDone)
  BY DEF PlanChanges, Applied, planVars
<1> QED BY <1>1 DEF MigrationInv, planVars

LEMMA MigrationInvSafe ==
    ASSUME Plan!SchemasAreSchemas, MigrationInv
    PROVE  MigrationsAreSafe
<1> DEFINE n == Cardinality(PlanChanges)
<1>1. /\ gPlan.changes = Plan!Sorted(PlanChanges) /\ gOld \in Schemas /\ gNew \in Schemas
      /\ gDone \in 0..n /\ Between(gOld, gNew, Applied(gDone), gSchema)
      /\ gPlan.estimate # None => gPlan.status = "server_estimated"
      /\ gPhase = "applied" => gDone = n
      /\ gPhase = "rolled back" => gDone = 0
  BY DEF MigrationInv
<1>2. /\ Plan!IsSchema(gOld) /\ Plan!IsSchema(gNew)
      /\ n \in Nat /\ Len(gPlan.changes) = n
      /\ gPlan.changes \in Seq(PlanChanges)
      /\ \A i \in 1..n : gPlan.changes[i] \in PlanChanges
      /\ \A c \in PlanChanges : \E i \in 1..n : gPlan.changes[i] = c
  BY <1>1, PlanHasChanges
<1>3. Plan!TypeOK
  BY <1>1, <1>2 DEF Plan!TypeOK
<1>4. gPhase = "applied" => Plan!Agree(gSchema, gNew)
  <2> SUFFICES ASSUME gPhase = "applied"
               PROVE  Plan!Agree(gSchema, gNew)
    OBVIOUS
  <2>1. Applied(n) = PlanChanges
    BY <1>2 DEF Applied
  <2>2. Between(gOld, gNew, PlanChanges, gSchema)
    BY <1>1, <2>1
  <2> QED BY <2>2, BetweenAtLast DEF PlanChanges
<1>5. gPhase = "rolled back" => gSchema = gOld
  <2>1. Applied(0) = {}
    BY DEF Applied
  <2> QED BY <1>1, <1>2, <2>1, BetweenAtBack
<1>6. Plan!IsEmpty(gPlan) <=> Plan!Agree(gOld, gNew)
  <2>1. PlanChanges = {} <=> Plan!Agree(gOld, gNew)
    BY <1>2, NoChangesAgree DEF PlanChanges
  <2>2. n = 0 <=> PlanChanges = {}
    <3>1. IsFiniteSet(PlanChanges)
      BY <1>2, ChangesFinite DEF PlanChanges
    <3> QED BY <3>1, FS_EmptySet
  <2>3. gPlan.changes = <<>> <=> n = 0
    BY <1>2
  <2> QED BY <2>1, <2>2, <2>3 DEF Plan!IsEmpty
<1>7. Plan!RequiresLiveClusterEstimate(gPlan) => gPlan.estimate = None /\ ~Plan!Agree(gOld, gNew)
  BY <1>1, <1>6 DEF Plan!RequiresLiveClusterEstimate
<1>8. Plan!SafePlanKeepsData
  <2> SUFFICES ASSUME ~Plan!IsDestructive(gPlan)
               PROVE  Plan!SafePlanKeepsData
    BY DEF Plan!SafePlanKeepsData
  <2>1. \A c \in PlanChanges : ~c.destructive
    BY <1>2 DEF Plan!IsDestructive
  <2> QED BY <2>1, SafeChangesKeepData DEF Plan!SafePlanKeepsData, PlanChanges
<1> QED BY <1>3, <1>4, <1>5, <1>6, <1>7, <1>8
        DEF MigrationsAreSafe, Plan!MigrationsAreSafe, Plan!PlanLeadsThere

\* A plan leads from one schema to the other and its rollback leads back, from
\* wherever it begins, for every two schemas; a plan is empty just when there is
\* nothing to do, and one that is not destructive keeps the data.
THEOREM PlansAreSafe ==
    ASSUME Plan!SchemasAreSchemas
    PROVE  Plan!Spec => []MigrationsAreSafe
<1>1. Plan!Init => MigrationInv
  BY MigrationInit
<1>2. MigrationInv /\ [Plan!Next]_(Plan!vars) => MigrationInv'
  <2>1. CASE Plan!Next
    BY <2>1, ApplyKeeps, RollbackKeeps, EstimateKeeps DEF Plan!Next
  <2>2. CASE UNCHANGED Plan!vars
    BY <2>2, MigrationRests DEF Plan!vars, planVars
  <2> QED BY <2>1, <2>2
<1>3. MigrationInv => MigrationsAreSafe
  BY MigrationInvSafe
<1> QED BY <1>1, <1>2, <1>3, PTL DEF Plan!Spec

-----------------------------------------------------------------------------
(* Models: what a class lets an instance hold, and what becomes of it on the  *)
(* way to a row and back.                                                     *)

\* What is known of a class that was declared.
Declared(fs) ==
    /\ DOMAIN fs = Model!Names
    /\ fs["id"].kind = "scalar" /\ fs["id"].type = "int" /\ fs["id"].alias \in {None, "key"}
    /\ fs["id"].default = None /\ fs["id"].primary_key
    /\ fs["a"].kind \in {"scalar", "list", "dict", "vector"} /\ fs["a"].alias \in {None, "v"}
    /\ fs["a"].kind = "scalar" => fs["a"].type \in Model!Scalars
    /\ fs["a"].kind = "list" => fs["a"].type \in {"int", "UUID", "time"}
    /\ fs["a"].default # None =>
           /\ fs["a"].kind = "scalar" /\ fs["a"].type = "int"
           /\ \E c \in Contents : fs["a"].default = Model!V("int", c)
    /\ fs["boss"].kind = "link" /\ fs["boss"].alias \in {None, "head"}
    /\ fs["boss"].default = None /\ ~fs["boss"].primary_key
    /\ fs["reports"].kind = "collection" /\ fs["reports"].alias = None
    /\ fs["reports"].default = None /\ ~fs["reports"].primary_key

\* The values of a field: null, or one of its type.
Holds(info, v) ==
    \/ v = Model!Null
    \/ /\ info.kind = "scalar" /\ info.type = "any"
       /\ \E c \in Contents : v = Model!V("json", c)
    \/ info.kind = "scalar" /\ info.type = "bool" /\ v \in {Model!V("bool", 0), Model!V("bool", 1)}
    \/ /\ info.kind = "scalar" /\ info.type \notin {"any", "bool"}
       /\ \E c \in Contents : v = Model!V(info.type, c)
    \/ /\ info.kind = "list"
       /\ \E s \in Lists : v = Model!V("list", Model!Each(info.type, s))
    \/ info.kind = "dict" /\ \E c \in Contents : v = Model!V("json", c)
    \/ info.kind = "vector" /\ \E s \in Lists : v = Model!V("Vector", s)
    \/ info.kind = "link" /\ \E c \in Contents : v = Model!V("model", c)

\* What a field is stored as, before links are reduced to keys.
Json(info, v) ==
    IF info.kind = "list" /\ v # Model!Null THEN Model!ListJson(v) ELSE Model!ToJsonable(v)

LEMMA ClassesAreDeclared ==
    ASSUME Model!NoneIsNoValue, NEW fs \in Model!Classes
    PROVE  Declared(fs) /\ (~Model!DeclarationError(fs) => ~fs["a"].primary_key)
<1>1. PICK id \in Model!KeyChoices, a \in UNION {Model!Variants(c) : c \in Model!FieldChoices},
           boss \in Model!LinkChoices : fs = Model!Class(id, a, boss)
  BY DEF Model!Classes
<1>2. fs["id"] = id /\ fs["a"] = a /\ fs["boss"] = boss /\ fs["reports"] = Model!Info("collection", "model")
      /\ DOMAIN fs = Model!Names
  BY <1>1 DEF Model!Names, Model!Class
<1>3. /\ fs["id"].kind = "scalar" /\ fs["id"].type = "int" /\ fs["id"].alias \in {None, "key"}
      /\ fs["id"].default = None /\ fs["id"].primary_key
  <2> HIDE <1>1
  <2> QED BY <1>2 DEF Model!KeyChoices, Model!Id, Model!Info
<1>4. /\ fs["boss"].kind = "link" /\ fs["boss"].alias \in {None, "head"}
      /\ fs["boss"].default = None /\ ~fs["boss"].primary_key
  <2> QED BY <1>2 DEF Model!LinkChoices, Model!Info
<1>5. /\ fs["reports"].kind = "collection" /\ fs["reports"].alias = None
      /\ fs["reports"].default = None /\ ~fs["reports"].primary_key
  BY <1>2 DEF Model!Info
<1>6. /\ a.kind \in {"scalar", "list", "dict", "vector"} /\ a.alias \in {None, "v"}
      /\ a.kind = "scalar" => a.type \in Model!Scalars
      /\ a.kind = "list" => a.type \in {"int", "UUID", "time"}
      /\ a.default # None =>
             /\ a.kind = "scalar" /\ a.type = "int"
             /\ \E c \in Contents : a.default = Model!V("int", c)
  <2>1. PICK c \in Model!FieldChoices : a \in Model!Variants(c)
    BY <1>1
  <2>2. /\ c.kind \in {"scalar", "list", "dict", "vector"} /\ c.alias = None /\ c.default = None
        /\ c.kind = "scalar" => c.type \in Model!Scalars
        /\ c.kind = "list" => c.type \in {"int", "UUID", "time"}
        /\ DOMAIN c = {"kind", "type", "nullable", "is_optional", "default", "alias", "primary_key", "dim"}
    BY DEF Model!FieldChoices, Model!Info
  <2>3. \/ a = c \/ a = [c EXCEPT !.is_optional = TRUE] \/ a = [c EXCEPT !.alias = "v"]
        \/ a = [c EXCEPT !.primary_key = TRUE]
        \/ /\ c.type = "int" /\ c.kind = "scalar"
           /\ \E d \in Contents : a = [c EXCEPT !.default = Model!V("int", d)]
    BY <2>1 DEF Model!Variants
  <2>4. a.kind = c.kind /\ a.type = c.type /\ a.alias \in {None, "v"}
    BY <2>2, <2>3
  <2>5. a.default # None =>
             /\ c.type = "int" /\ c.kind = "scalar"
             /\ \E d \in Contents : a.default = Model!V("int", d)
    BY <2>2, <2>3
  <2> QED BY <2>2, <2>4, <2>5
<1>7. ASSUME a.primary_key PROVE Model!DeclarationError(fs)
  <2>1. {"id", "a"} \subseteq {f \in DOMAIN fs : fs[f].primary_key}
    BY <1>2, <1>3, <1>7 DEF Model!Names
  <2>2. IsFiniteSet(Model!Names) /\ IsFiniteSet({f \in DOMAIN fs : fs[f].primary_key})
    <3>1. IsFiniteSet({"id"})
      BY FS_Singleton
    <3>2. IsFiniteSet({"id"} \cup {"a"})
      BY <3>1, FS_AddElement
    <3>3. IsFiniteSet(({"id"} \cup {"a"}) \cup {"boss"})
      BY <3>2, FS_AddElement
    <3>4. IsFiniteSet((({"id"} \cup {"a"}) \cup {"boss"}) \cup {"reports"})
      BY <3>3, FS_AddElement
    <3>5. (({"id"} \cup {"a"}) \cup {"boss"}) \cup {"reports"} = Model!Names
      BY DEF Model!Names
    <3>6. {f \in DOMAIN fs : fs[f].primary_key} \in SUBSET Model!Names
      BY <1>2
    <3> QED BY <3>4, <3>5, <3>6, FS_Subset
  <2>3. Cardinality({"id", "a"}) = 2
    <3>1. IsFiniteSet({"id"}) /\ Cardinality({"id"}) = 1
      BY FS_Singleton
    <3>2. {"id", "a"} = {"id"} \cup {"a"}
      OBVIOUS
    <3>3. "a" \notin {"id"} /\ Cardinality({"id"} \cup {"a"}) = 1 + 1
      BY <3>1, FS_AddElement
    <3> QED BY <3>2, <3>3
  <2> DEFINE keys == {f \in DOMAIN fs : fs[f].primary_key}
  <2>4. Cardinality(keys) \in Nat /\ 2 <= Cardinality(keys)
    BY <2>1, <2>2, <2>3, FS_Subset, FS_CardinalityType
  <2>5. Cardinality(keys) > 1
    <3> HIDE DEF keys
    <3> QED BY <2>4
  <2>6. Model!Cardinality(keys) = Cardinality(keys)
    BY DEF Model!Cardinality, Cardinality, Model!IsFiniteSet, IsFiniteSet
  <2> QED BY <2>5, <2>6 DEF Model!DeclarationError
<1> QED
  <2>1. Declared(fs)
    BY <1>2, <1>3, <1>4, <1>5, <1>6 DEF Declared
  <2> QED BY <2>1, <1>2, <1>7

\* Its primary key is id, and each field has a column of its own.
LEMMA ColumnsAre ==
    ASSUME Model!NoneIsNoValue, Declared(oFields), ~oFields["a"].primary_key
    PROVE  /\ Model!PrimaryKey = "id"
           /\ Model!StorageName("id") \in {"id", "key"} /\ Model!StorageName("a") \in {"a", "v"}
           /\ Model!StorageName("boss") \in {"boss", "head"} /\ Model!StorageName("reports") = "reports"
           /\ Model!StorageName("boss") = "boss" <=> oFields["boss"].alias = None
           /\ \A f, g \in Model!Names : Model!StorageName(f) = Model!StorageName(g) => f = g
           /\ \A f \in Model!Names : Model!IsRelationship(oFields[f]) <=> f \in {"boss", "reports"}
<1>0. None \notin Model!Names \cup Model!Aliases \cup {"nobody"}
  BY DEF Model!NoneIsNoValue
<1>1. /\ Model!StorageName("id") \in {"id", "key"} /\ Model!StorageName("a") \in {"a", "v"}
      /\ Model!StorageName("boss") \in {"boss", "head"} /\ Model!StorageName("reports") = "reports"
      /\ Model!StorageName("boss") = "boss" <=> oFields["boss"].alias = None
  BY <1>0 DEF Declared, Model!StorageName, Model!Aliases, Model!Names
<1>2. Model!PrimaryKey = "id"
  <2>1. \A f \in DOMAIN oFields : oFields[f].primary_key <=> f = "id"
    BY DEF Declared, Model!Names
  <2>2. "id" \in DOMAIN oFields
    BY DEF Declared, Model!Names
  <2> QED BY <2>1, <2>2 DEF Model!PrimaryKey
<1>3. \A f, g \in Model!Names : Model!StorageName(f) = Model!StorageName(g) => f = g
  BY <1>1 DEF Model!Names
<1>4. \A f \in Model!Names : Model!IsRelationship(oFields[f]) <=> f \in {"boss", "reports"}
  BY DEF Declared, Model!Names, Model!IsRelationship
<1> QED BY <1>1, <1>2, <1>3, <1>4

-----------------------------------------------------------------------------
(* Values there and back.                                                     *)

\* A scalar read back from the text or number it was stored as.
LEMMA ScalarsReadBack ==
    ASSUME NEW type \in Model!Scalars \ {"time", "any", "bool"}, NEW c
    PROVE  /\ Model!CoerceScalar(type, Model!ToJsonable(Model!V(type, c))) = Model!V(type, c)
           /\ Model!ToJsonable(Model!V(type, c)) # Model!Null
<1> DEFINE v == Model!V(type, c)
<1>0. v.t = type /\ v.x = c
  BY DEF Model!V
<1>1. CASE type \in {"UUID", "datetime", "date", "Decimal"}
  <2>1. Model!ToJsonable(v) = Model!V("str", v)
    BY <1>0, <1>1 DEF Model!ToJsonable, Model!Textual
  <2>2. /\ Model!V("str", v).t = "str" /\ Model!V("str", v).x = v
        /\ Model!V("str", v) # Model!Null
    BY DEF Model!V, Model!Null
  <2> HIDE DEF v
  <2>3. Model!CoerceScalar(type, Model!V("str", v)) = v
    BY <1>1, <2>2 DEF Model!CoerceScalar, Model!Textual
  <2> QED BY <2>1, <2>2, <2>3 DEF v
<1>2. CASE type = "bytes"
  <2>1. Model!ToJsonable(v) = Model!V("dict", Model!Entry("__bytes__", v))
    BY <1>0, <1>2 DEF Model!ToJsonable, Model!Textual
  <2>2. Model!Entry("__bytes__", v)["__bytes__"] = v
    BY DEF Model!Entry
  <2> DEFINE j == Model!V("dict", Model!Entry("__bytes__", v))
  <2>3. j.t = "dict" /\ j.x["__bytes__"] = v /\ j # Model!Null
    BY <2>2 DEF Model!V, Model!Null
  <2> HIDE DEF j, v
  <2>4. Model!CoerceScalar(type, j) = v
    BY <1>2, <2>3 DEF Model!CoerceScalar, Model!Textual
  <2> QED BY <2>1, <2>3, <2>4 DEF v, j
<1>3. CASE type = "enum"
  BY <1>3 DEF Model!ToJsonable, Model!CoerceScalar, Model!V, Model!Null, Model!Textual
<1>4. CASE type \in {"int", "str"}
  BY <1>4 DEF Model!ToJsonable, Model!CoerceScalar, Model!V, Model!Null, Model!Textual
<1> QED BY <1>1, <1>2, <1>3, <1>4 DEF Model!Scalars, Model!Textual

\* What a field is stored as is null only if it is, is no object, and is read back as it was.
LEMMA ValuesReadBack ==
    ASSUME NEW info, NEW v, Holds(info, v), info.kind \in {"scalar", "list", "dict", "vector"},
           info.kind = "scalar" => info.type \in Model!Scalars,
           info.kind = "list" => info.type \in {"int", "UUID", "time"}, Model!ListsAreLists
    PROVE  info.type # "time" => Model!HydrateValue(info, Json(info, v)) = v
<1> SUFFICES ASSUME info.type # "time" PROVE Model!HydrateValue(info, Json(info, v)) = v
  OBVIOUS
<1>1. CASE v = Model!Null
  <2>1. Json(info, v) = Model!Null
    BY <1>1 DEF Json, Model!ToJsonable, Model!Null, Model!V, Model!Textual
  <2> QED BY <2>1, <1>1 DEF Model!HydrateValue
<1>2. CASE info.kind = "scalar" /\ info.type \notin {"any", "bool"} /\ v # Model!Null
  <2>1. PICK c \in Contents : v = Model!V(info.type, c)
    BY <1>2 DEF Holds
  <2>2. Model!CoerceScalar(info.type, Model!ToJsonable(v)) = v /\ Model!ToJsonable(v) # Model!Null
    BY <1>2, <2>1, ScalarsReadBack
  <2> QED BY <2>2, <1>2 DEF Json, Model!HydrateValue
<1>3. CASE info.kind = "scalar" /\ info.type = "any" /\ v # Model!Null
  <2>1. PICK c \in Contents : v = Model!V("json", c)
    BY <1>3 DEF Holds
  <2>2. Json(info, v) = v
    BY <1>3, <2>1 DEF Json, Model!ToJsonable, Model!V, Model!Textual
  <2> QED BY <1>3, <2>2 DEF Model!HydrateValue, Model!CoerceScalar, Model!Textual
<1>4. CASE info.kind = "scalar" /\ info.type = "bool" /\ v # Model!Null
  <2>1. v \in {Model!V("bool", 0), Model!V("bool", 1)}
    BY <1>4 DEF Holds
  <2>2. Json(info, v) = v
    BY <1>4, <2>1 DEF Json, Model!ToJsonable, Model!V, Model!Textual
  <2>3. Model!CoerceScalar("bool", v) = v
    BY <1>4, <2>1 DEF Model!CoerceScalar, Model!V
  <2> QED BY <1>4, <2>2, <2>3 DEF Model!HydrateValue
<1>5. CASE info.kind = "list" /\ v # Model!Null
  <2>1. PICK s \in Lists : v = Model!V("list", [i \in 1..Len(s) |-> Model!V(info.type, s[i])])
    BY <1>5 DEF Holds, Model!Each
  <2> DEFINE x == [i \in 1..Len(s) |-> Model!V(info.type, s[i])]
             y == [i \in 1..Len(x) |-> Model!ToJsonable(x[i])]
             j == Model!V("list", y)
  <2>2. s \in Seq(Contents) /\ Len(s) \in Nat
    BY DEF Model!ListsAreLists
  <2>3. x \in Seq({Model!V(info.type, c) : c \in Contents}) /\ Len(x) = Len(s)
    BY <2>2
  <2>4. y \in Seq({Model!ToJsonable(e) : e \in {Model!V(info.type, c) : c \in Contents}}) /\ Len(y) = Len(s)
    BY <2>2, <2>3
  <2>5. v.x = x
    BY <2>1 DEF Model!V
  <2>6. Json(info, v) = j
    BY <1>5, <2>5 DEF Json, Model!ListJson
  <2>7. j # Model!Null /\ j.x = y
    BY DEF Model!V, Model!Null
  <2>8. Model!HydrateValue(info, j) = Model!V("list", [i \in 1..Len(y) |-> Model!CoerceScalar(info.type, y[i])])
    <3> HIDE DEF j, y
    <3> QED BY <1>5, <2>7 DEF Model!HydrateValue
  <2>9. \A i \in 1..Len(s) : Model!CoerceScalar(info.type, y[i]) = x[i]
    <3> SUFFICES ASSUME NEW i \in 1..Len(s) PROVE Model!CoerceScalar(info.type, y[i]) = x[i]
      OBVIOUS
    <3>1. y[i] = Model!ToJsonable(Model!V(info.type, s[i])) /\ x[i] = Model!V(info.type, s[i])
      BY <2>3
    <3>2. info.type \in Model!Scalars \ {"time", "any", "bool"}
      BY <1>5 DEF Model!Scalars, Model!Textual
    <3> QED BY <3>1, <3>2, ScalarsReadBack
  <2>10. [i \in 1..Len(y) |-> Model!CoerceScalar(info.type, y[i])] = x
    <3> HIDE DEF y
    <3> QED BY <2>4, <2>9
  <2> QED BY <2>1, <2>6, <2>8, <2>10
<1>6. CASE info.kind = "dict" /\ v # Model!Null
  <2>1. PICK c \in Contents : v = Model!V("json", c)
    BY <1>6 DEF Holds
  <2>2. Json(info, v) = v
    BY <1>6, <2>1 DEF Json, Model!ToJsonable, Model!V, Model!Textual
  <2> QED BY <1>6, <2>2 DEF Model!HydrateValue
<1>7. CASE info.kind = "vector" /\ v # Model!Null
  <2>1. PICK s \in Lists : v = Model!V("Vector", s)
    BY <1>7 DEF Holds
  <2>2. Json(info, v) = Model!V("list", s)
    BY <1>7, <2>1 DEF Json, Model!ToJsonable, Model!V, Model!Textual
  <2>3. Model!V("list", s) # Model!Null /\ Model!V("list", s).x = s
    BY DEF Model!V, Model!Null
  <2> QED BY <1>7, <2>1, <2>2, <2>3 DEF Model!HydrateValue
<1> QED BY <1>1, <1>2, <1>3, <1>4, <1>5, <1>6, <1>7

-----------------------------------------------------------------------------
(* Construction.                                                              *)

\* What a field takes is refused or becomes one of its values.
LEMMA InputsHold ==
    ASSUME NEW info, info.kind \in {"scalar", "list", "dict", "vector", "link"},
           NEW v \in Model!ValuesFor(info), Model!ListsAreLists
    PROVE  Model!Failed(Model!CoerceInput(info, v)) \/ Holds(info, Model!CoerceInput(info, v))
<1> DEFINE e == Model!Error("validation")
<1>0. Model!Failed(e)
  BY DEF Model!Failed, Model!Error
<1> HIDE DEF e
<1>1. CASE v = Model!Null
  BY <1>1 DEF Model!CoerceInput, Holds
<1>2. CASE info.kind = "scalar" /\ v # Model!Null
  <2>1. Model!CoerceInput(info, v) = v
    BY <1>2 DEF Model!CoerceInput
  <2>2. CASE info.type = "any"
    <3>1. v \in {Model!V("json", c) : c \in Contents} \cup {Model!Null}
      BY <1>2, <2>2 DEF Model!ValuesFor
    <3> QED BY <1>2, <2>1, <2>2, <3>1 DEF Holds
  <2>3. CASE info.type = "bool"
    <3>1. v \in {Model!V("bool", 0), Model!V("bool", 1)}
      BY <1>2, <2>3 DEF Model!ValuesFor
    <3> QED BY <1>2, <2>1, <2>3, <3>1 DEF Holds
  <2>4. CASE info.type \notin {"any", "bool"}
    <3>1. v \in {Model!V(info.type, c) : c \in Contents} \cup {Model!Null}
      BY <1>2, <2>4 DEF Model!ValuesFor
    <3> QED BY <1>2, <2>1, <2>4, <3>1 DEF Holds
  <2> QED BY <2>2, <2>3, <2>4
<1>3. CASE info.kind = "list" /\ v # Model!Null
  <2>1. Model!CoerceInput(info, v) = Model!V("list", v.x)
    BY <1>3 DEF Model!CoerceInput
  <2>2. v \in {Model!V(t, Model!Each(info.type, s)) : t \in {"list", "set"}, s \in Lists}
    BY <1>3 DEF Model!ValuesFor
  <2>3. PICK t \in {"list", "set"}, s \in Lists : v = Model!V(t, Model!Each(info.type, s))
    BY <2>2
  <2>4. v.x = Model!Each(info.type, s)
    BY <2>3 DEF Model!V
  <2> QED BY <1>3, <2>1, <2>4 DEF Holds
<1>4. CASE info.kind = "dict" /\ v # Model!Null
  BY <1>4 DEF Model!CoerceInput, Holds, Model!ValuesFor
<1>5. CASE info.kind = "vector" /\ v # Model!Null
  <2>1. v \in {Model!V(t, s) : t \in {"list", "Vector"}, s \in Lists} \cup {Model!V("int", 1)}
    BY <1>5 DEF Model!ValuesFor
  <2>2. \/ Model!CoerceInput(info, v) = e
        \/ v.t \in {"list", "Vector"} /\ Model!CoerceInput(info, v) = Model!V("Vector", v.x)
    BY <1>5 DEF Model!CoerceInput, e
  <2>3. CASE Model!CoerceInput(info, v) = e
    BY <1>0, <2>3
  <2>4. CASE v.t \in {"list", "Vector"} /\ Model!CoerceInput(info, v) = Model!V("Vector", v.x)
    <3>1. v # Model!V("int", 1)
      BY <2>4 DEF Model!V
    <3>2. PICK t \in {"list", "Vector"}, s \in Lists : v = Model!V(t, s)
      BY <2>1, <3>1
    <3>3. v.x = s
      BY <3>2 DEF Model!V
    <3> QED BY <1>5, <2>4, <3>3 DEF Holds
  <2> QED BY <2>2, <2>3, <2>4
<1>6. CASE info.kind = "link" /\ v # Model!Null
  <2>1. v \in {Model!V("model", c) : c \in Contents} \cup {Model!V("dict", Model!Entry("id", c)) : c \in Contents}
                 \cup {Model!Null, Model!V("int", 1)}
    BY <1>6 DEF Model!ValuesFor
  <2>2. CASE v \in {Model!V("model", c) : c \in Contents}
    <3>1. Model!CoerceInput(info, v) = v
      BY <1>6, <2>2 DEF Model!CoerceInput, Model!V
    <3> QED BY <1>6, <2>2, <3>1 DEF Holds
  <2>3. CASE v \in {Model!V("dict", Model!Entry("id", c)) : c \in Contents}
    <3>1. PICK c \in Contents : v = Model!V("dict", Model!Entry("id", c))
      BY <2>3
    <3>2. v.t = "dict" /\ v.x = Model!Entry("id", c) /\ Model!Entry("id", c)["id"] = c
      BY <3>1 DEF Model!V, Model!Entry
    <3>3. Model!CoerceInput(info, v) = Model!V("model", c)
      BY <1>6, <3>2 DEF Model!CoerceInput
    <3> QED BY <1>6, <3>3 DEF Holds
  <2>4. CASE v = Model!V("int", 1)
    <3>1. v.t = "int"
      BY <2>4 DEF Model!V
    <3>2. Model!CoerceInput(info, v) = e
      BY <1>6, <3>1 DEF Model!CoerceInput, e
    <3> QED BY <1>0, <3>2
  <2> QED BY <1>6, <2>1, <2>2, <2>3, <2>4
<1> QED BY <1>1, <1>2, <1>3, <1>4, <1>5, <1>6

\* An instance has its scalars and, if it was given, its link.
Built(i) ==
    /\ DOMAIN i.values \in {{"id", "a"}, {"id", "a", "boss"}}
    /\ i.loaded = DOMAIN i.values \ {"id", "a"}
    /\ \A f \in DOMAIN i.values : Holds(oFields[f], i.values[f])

\* The keywords of New, and the values they come with.
Keywords ==
    {{"id"}, {"a"}, {"id", Model!StorageName("a")}, {"id", "a", Model!StorageName("boss")}, {"id", "a", "nobody"}}
Arguments(keys, id, a, boss) ==
    [k \in keys |-> CASE k = "id" -> id [] k \in {"a", Model!StorageName("a")} -> a
                      [] k \in {"boss", Model!StorageName("boss")} -> boss [] OTHER -> Model!Null]

LEMMA KeywordsAre ==
    ASSUME Model!NoneIsNoValue, Declared(oFields), ~oFields["a"].primary_key, NEW keys \in Keywords,
           NEW id, NEW a, NEW boss, NEW k \in keys
    PROVE  \/ Model!FieldOf(k) = None
           \/ Model!FieldOf(k) = "id" /\ Arguments(keys, id, a, boss)[k] = id
           \/ Model!FieldOf(k) = "a" /\ Arguments(keys, id, a, boss)[k] = a
           \/ Model!FieldOf(k) = "boss" /\ Arguments(keys, id, a, boss)[k] = boss
<1>0. None \notin Model!Names \cup Model!Aliases \cup {"nobody"}
  BY DEF Model!NoneIsNoValue
<1>1. /\ Model!StorageName("a") \in {"a", "v"} /\ Model!StorageName("boss") \in {"boss", "head"}
      /\ Model!StorageName("a") = "v" => oFields["a"].alias = "v"
      /\ Model!StorageName("boss") = "head" => oFields["boss"].alias = "head"
  BY <1>0 DEF Declared, Model!StorageName, Model!Aliases, Model!Names
<1>2. k \in {"id", "a", "nobody", Model!StorageName("a"), Model!StorageName("boss")}
  BY DEF Keywords
<1>3. /\ k = "id" => Arguments(keys, id, a, boss)[k] = id
      /\ k \in {"a", Model!StorageName("a")} => Arguments(keys, id, a, boss)[k] = a
      /\ k \in {"boss", Model!StorageName("boss")} => Arguments(keys, id, a, boss)[k] = boss
  BY <1>1 DEF Arguments
<1>4. \A key \in Model!Names : Model!FieldOf(key) = key
  BY DEF Model!FieldOf, Declared
<1>5. ASSUME k = "v", oFields["a"].alias = "v" PROVE Model!FieldOf(k) = "a"
  <2>1. {f \in DOMAIN oFields : oFields[f].alias = k} = {"a"}
    BY <1>0, <1>5 DEF Declared, Model!Names, Model!Aliases
  <2>2. k \notin DOMAIN oFields
    BY <1>5 DEF Declared, Model!Names
  <2> QED BY <2>1, <2>2 DEF Model!FieldOf
<1>6. ASSUME k = "head", oFields["boss"].alias = "head" PROVE Model!FieldOf(k) = "boss"
  <2>1. {f \in DOMAIN oFields : oFields[f].alias = k} = {"boss"}
    BY <1>0, <1>6 DEF Declared, Model!Names, Model!Aliases
  <2>2. k \notin DOMAIN oFields
    BY <1>6 DEF Declared, Model!Names
  <2> QED BY <2>1, <2>2 DEF Model!FieldOf
<1>7. ASSUME k = "nobody" PROVE Model!FieldOf(k) = None
  <2>1. {f \in DOMAIN oFields : oFields[f].alias = k} = {}
    BY <1>0, <1>7 DEF Declared, Model!Names, Model!Aliases
  <2>2. k \notin DOMAIN oFields
    BY <1>7 DEF Declared, Model!Names
  <2> QED BY <2>1, <2>2 DEF Model!FieldOf
<1> QED BY <1>1, <1>2, <1>3, <1>4, <1>5, <1>6, <1>7 DEF Model!Names

\* What is constructed is whole, or it is refused.
LEMMA ConstructedIsBuilt ==
    ASSUME Model!NoneIsNoValue, Model!ListsAreLists, Declared(oFields), ~oFields["a"].primary_key,
           NEW keys \in Keywords,
           NEW id \in Model!ValuesFor(oFields["id"]), NEW a \in Model!ValuesFor(oFields["a"]),
           NEW boss \in Model!ValuesFor(oFields["boss"])
    PROVE  Model!Failed(Model!Construct(Arguments(keys, id, a, boss)))
           \/ Built(Model!Construct(Arguments(keys, id, a, boss)))
<1> DEFINE data == Arguments(keys, id, a, boss)
           given == [f \in {Model!FieldOf(k) : k \in DOMAIN data} \ {None} |->
                        data[CHOOSE k \in DOMAIN data : Model!FieldOf(k) = f]]
           values == [f \in {g \in DOMAIN oFields : g \in DOMAIN given \/ ~Model!IsRelationship(oFields[g])} |->
                         IF f \in DOMAIN given THEN Model!CoerceInput(oFields[f], given[f])
                         ELSE IF oFields[f].default # None THEN oFields[f].default ELSE Model!Null]
           missing == {f \in DOMAIN oFields : Model!IsRequired(oFields[f]) /\ f \notin DOMAIN given}
           made == [values |-> values, loaded |-> {f \in DOMAIN given : Model!IsRelationship(oFields[f])}]
           bad == missing # {} \/ (\E k \in DOMAIN data : Model!FieldOf(k) = None)
                  \/ \E f \in DOMAIN values : Model!Failed(values[f])
<1>1. Model!Construct(data) = IF bad THEN Model!Error("validation") ELSE made
  BY DEF Model!Construct
<1>2. DOMAIN data = keys
  BY DEF Arguments
<1>3. ASSUME NEW f \in DOMAIN given
      PROVE  f \in {"id", "a", "boss"} /\ given[f] \in Model!ValuesFor(oFields[f])
  <2>1. PICK k \in keys : Model!FieldOf(k) = f /\ f # None
    BY <1>2, <1>3
  <2> DEFINE l == CHOOSE m \in DOMAIN data : Model!FieldOf(m) = f
  <2>2. l \in keys /\ Model!FieldOf(l) = f
    BY <2>1, <1>2
  <2>3. given[f] = data[l]
    BY <1>3
  <2> HIDE DEF l, given
  <2>4. \/ f = "id" /\ data[l] = id
        \/ f = "a" /\ data[l] = a
        \/ f = "boss" /\ data[l] = boss
    BY <2>1, <2>2, KeywordsAre
  <2> QED BY <2>3, <2>4
<1> HIDE DEF given, data
<1>4. \A f \in Model!Names : Model!IsRelationship(oFields[f]) <=> f \in {"boss", "reports"}
  BY ColumnsAre
<1>5. DOMAIN oFields = Model!Names /\ DOMAIN given \subseteq {"id", "a", "boss"}
  BY <1>3 DEF Declared
<1>6. DOMAIN values = {"id", "a"} \cup (DOMAIN given \cap {"boss"})
  BY <1>4, <1>5 DEF Model!Names
<1>7. made.loaded = DOMAIN given \cap {"boss"} /\ made.values = values
  BY <1>4, <1>5 DEF Model!Names
<1>8. ASSUME ~bad PROVE Built(made)
  <2>1. ASSUME NEW f \in DOMAIN values PROVE Holds(oFields[f], values[f])
    <3>1. CASE f \in DOMAIN given
      <4>1. values[f] = Model!CoerceInput(oFields[f], given[f])
        BY <2>1, <3>1
      <4>2. ~Model!Failed(values[f])
        BY <1>8, <2>1
      <4>3. oFields[f].kind \in {"scalar", "list", "dict", "vector", "link"}
        BY <1>3, <3>1 DEF Declared
      <4>4. given[f] \in Model!ValuesFor(oFields[f])
        BY <1>3, <3>1
      <4> HIDE DEF values
      <4> QED BY <4>1, <4>2, <4>3, <4>4, InputsHold
    <3>2. CASE f \notin DOMAIN given
      <4>1. values[f] = IF oFields[f].default # None THEN oFields[f].default ELSE Model!Null
        BY <2>1, <3>2
      <4>2. f \in {"id", "a"}
        BY <1>6, <2>1, <3>2
      <4> HIDE DEF values
      <4>3. CASE oFields[f].default = None
        BY <4>1, <4>3 DEF Holds
      <4>4. CASE oFields[f].default # None
        <5>1. f = "a"
          BY <4>2, <4>4 DEF Declared
        <5> QED BY <4>1, <4>4, <5>1 DEF Declared, Holds
      <4> QED BY <4>3, <4>4
    <3> QED BY <3>1, <3>2
  <2>2. DOMAIN made.values \in {{"id", "a"}, {"id", "a", "boss"}}
    BY <1>6, <1>7
  <2>3. made.loaded = DOMAIN made.values \ {"id", "a"}
    BY <1>6, <1>7
  <2> HIDE DEF values, made
  <2> QED BY <2>1, <2>2, <2>3, <1>7 DEF Built
<1>9. ASSUME bad PROVE Model!Failed(Model!Construct(data))
  <2> HIDE DEF bad
  <2>1. Model!Construct(data) = Model!Error("validation")
    BY <1>1, <1>9
  <2> QED BY <2>1 DEF Model!Failed, Model!Error
<1> HIDE DEF bad, made
<1> QED BY <1>1, <1>8, <1>9 DEF data

-----------------------------------------------------------------------------
(* The row stored, and what is read back from it.                             *)

Column(f) == Model!StorageName(f)

\* What a link is stored as: its key, or under an alias the whole object.
Reference(v) ==
    IF v = Model!Null THEN Model!Null
    ELSE IF Column("boss") = "boss" THEN Model!V("int", v.x)
    ELSE Model!V("dict", Model!Entry("id", v.x))

\* The row of the instance: a column for each value.
Stored(r) ==
    /\ DOMAIN r = {Column(f) : f \in DOMAIN oInst.values}
    /\ \A f \in {"id", "a"} : r[Column(f)] = Json(oFields[f], oInst.values[f])
    /\ "boss" \in DOMAIN oInst.values => r[Column("boss")] = Reference(oInst.values["boss"])

LEMMA RowIsStored ==
    ASSUME Model!NoneIsNoValue, Declared(oFields), ~oFields["a"].primary_key, Built(oInst)
    PROVE  Stored(Model!NormalizeRow(Model!ToDict))
<1> DEFINE names == {f \in DOMAIN oInst.values : Model!IsRelationship(oFields[f]) => f \in oInst.loaded}
           field(s) == CHOOSE g \in names : Model!StorageName(g) = s
           written(s) == IF oFields[field(s)].kind = "list" /\ oInst.values[field(s)] # Model!Null
                         THEN Model!ListJson(oInst.values[field(s)])
                         ELSE Model!ToJsonable(oInst.values[field(s)])
           d == [s \in {Model!StorageName(f) : f \in names} |-> written(s)]
           r == Model!NormalizeRow(d)
<1>1. Model!ToDict = d
  BY DEF Model!ToDict
<1>2. names = DOMAIN oInst.values
  BY ColumnsAre DEF Built, Model!Names
<1>3. DOMAIN oInst.values \subseteq {"id", "a", "boss"} /\ {"id", "a"} \subseteq DOMAIN oInst.values
  BY DEF Built
<1>4. \A f \in names : field(Column(f)) = f
  <2> SUFFICES ASSUME NEW f \in names PROVE field(Column(f)) = f
    OBVIOUS
  <2>1. \A g \in names : Model!StorageName(g) = Column(f) => g = f
    BY <1>2, <1>3, ColumnsAre DEF Column, Model!Names
  <2> QED BY <2>1 DEF Column
<1>5. DOMAIN d = {Column(f) : f \in DOMAIN oInst.values}
  BY <1>2 DEF Column
<1>6. \A f \in names : d[Column(f)] = Json(oFields[f], oInst.values[f])
  <2> SUFFICES ASSUME NEW f \in names PROVE d[Column(f)] = Json(oFields[f], oInst.values[f])
    OBVIOUS
  <2>1. d[Column(f)] = written(Column(f))
    BY DEF Column
  <2> HIDE DEF field
  <2> QED BY <2>1, <1>4 DEF Json
<1> HIDE DEF d, names
<1>7. DOMAIN r = DOMAIN d
  BY DEF Model!NormalizeRow
<1>8. \A f \in {"id", "a"} : r[Column(f)] = d[Column(f)]
  <2> SUFFICES ASSUME NEW f \in {"id", "a"} PROVE r[Column(f)] = d[Column(f)]
    OBVIOUS
  <2>1. Column(f) \in DOMAIN d /\ Column(f) \in {"id", "key", "a", "v"}
    BY <1>3, <1>5, ColumnsAre DEF Column
  <2>2. ~(Column(f) \in DOMAIN oFields /\ oFields[Column(f)].kind = "link")
    BY <2>1 DEF Declared, Model!Names
  <2> QED BY <2>1, <2>2 DEF Model!NormalizeRow
<1>9. ASSUME "boss" \in DOMAIN oInst.values
      PROVE  r[Column("boss")] = Reference(oInst.values["boss"])
  <2> DEFINE v == oInst.values["boss"]
  <2>1. Holds(oFields["boss"], v) /\ oFields["boss"].kind = "link"
    BY <1>9 DEF Built, Declared
  <2>2. d[Column("boss")] = Model!ToJsonable(v) /\ Column("boss") \in DOMAIN d
    BY <1>2, <1>5, <1>6, <1>9, <2>1 DEF Json
  <2>3. Column("boss") \in {"boss", "head"}
    BY ColumnsAre DEF Column
  <2>4. Column("boss") \in DOMAIN oFields /\ oFields[Column("boss")].kind = "link" <=> Column("boss") = "boss"
    BY <2>1, <2>3 DEF Declared, Model!Names
  <2>5. r[Column("boss")] = IF Column("boss") = "boss" /\ d[Column("boss")].t = "dict"
                             THEN Model!V("int", d[Column("boss")].x["id"]) ELSE d[Column("boss")]
    BY <2>2, <2>4 DEF Model!NormalizeRow
  <2>6. CASE v = Model!Null
    <3>1. Model!ToJsonable(v) = Model!Null /\ Model!Null.t # "dict"
      BY <2>6 DEF Model!ToJsonable, Model!Null, Model!V, Model!Textual
    <3> QED BY <2>2, <2>5, <2>6, <3>1 DEF Reference
  <2>7. CASE v # Model!Null
    <3>1. PICK c \in Contents : v = Model!V("model", c)
      BY <2>1, <2>7 DEF Holds
    <3>2. v.t = "model" /\ v.x = c
      BY <3>1 DEF Model!V
    <3>3. Model!ToJsonable(v) = Model!V("dict", Model!Entry("id", c))
      BY <3>2 DEF Model!ToJsonable, Model!Textual
    <3> DEFINE j == Model!V("dict", Model!Entry("id", c))
    <3>4. j.t = "dict" /\ j.x["id"] = c
      BY DEF Model!V, Model!Entry
    <3> HIDE DEF j
    <3>5. d[Column("boss")] = j
      BY <2>2, <3>3 DEF j
    <3>6. r[Column("boss")] = IF Column("boss") = "boss" THEN Model!V("int", c) ELSE j
      BY <2>5, <3>4, <3>5
    <3> QED BY <2>7, <3>2, <3>6 DEF Reference, j
  <2> QED BY <2>6, <2>7
<1> QED BY <1>1, <1>2, <1>3, <1>5, <1>6, <1>7, <1>8, <1>9 DEF Stored

Projections == {{}, {"a"}, {"boss"}, {"head", "v"}}

\* What can be said of an instance read back.
Delivered(projection, include, i) ==
    /\ ~Model!Failed(i)
    /\ projection = {} =>
         \A f \in DOMAIN oFields : ~Model!IsRelationship(oFields[f]) /\ oFields[f].type # "time"
                                      => Model!Attribute(i, f) = Model!Attribute(oInst, f)
    /\ \A f \in DOMAIN oFields : oFields[f].type # "time" =>
         Model!Failed(Model!Attribute(i, f)) \/ Model!Attribute(i, f) = Model!Attribute(oInst, f)
    /\ projection # {} => \A f \in DOMAIN oFields :
         {f, Column(f)} \cap (projection \cup {Model!PrimaryKey}) = {} => Model!Failed(Model!Attribute(i, f))
    /\ ~Model!Failed(Model!Attribute(i, "boss")) =>
         include \/ Model!Attribute(i, "boss") = Model!Null \/ oFields["boss"].alias # None

LEMMA StoredIsDelivered ==
    ASSUME Model!NoneIsNoValue, Model!ListsAreLists, Declared(oFields), ~oFields["a"].primary_key,
           Built(oInst), Stored(oRow), NEW projection \in Projections, NEW include \in BOOLEAN
    PROVE  Delivered(projection, include, Model!HydrateRow(Model!Result(projection, include), projection # {}))
<1> DEFINE r == Model!Result(projection, include)
           there == {f \in DOMAIN oFields : Model!StorageName(f) \in DOMAIN r
                        /\ (Model!IsRelationship(oFields[f]) => Model!LoadedShape(r[Model!StorageName(f)]))}
           filled == {f \in DOMAIN oFields \ there : ~(projection # {}) /\ ~Model!IsRelationship(oFields[f])}
           i == [values |-> [f \in there \cup filled |->
                     IF f \in there THEN Model!HydrateValue(oFields[f], r[Model!StorageName(f)])
                     ELSE IF oFields[f].default # None THEN oFields[f].default ELSE Model!Null],
                 loaded |-> {f \in there : Model!IsRelationship(oFields[f])}]
<1>1. /\ Model!PrimaryKey = "id"
      /\ Column("id") \in {"id", "key"} /\ Column("a") \in {"a", "v"} /\ Column("boss") \in {"boss", "head"}
      /\ Column("reports") = "reports"
      /\ Column("boss") = "boss" <=> oFields["boss"].alias = None
      /\ \A f \in Model!Names : Model!IsRelationship(oFields[f]) <=> f \in {"boss", "reports"}
      /\ DOMAIN oFields = Model!Names
  BY ColumnsAre DEF Column, Declared
<1>2. DOMAIN r = DOMAIN oRow \cap (IF projection = {} THEN DOMAIN oRow ELSE projection \cup {"id"})
  BY <1>1 DEF Model!Result
<1>3. \A s \in DOMAIN r : r[s] = IF s = "boss" /\ include /\ oRow[s].t = "int"
                                 THEN Model!V("dict", Model!Entry("id", oRow[s].x)) ELSE oRow[s]
  BY DEF Model!Result
<1>4. DOMAIN oRow \subseteq {Column("id"), Column("a"), Column("boss")}
      /\ {Column("id"), Column("a")} \subseteq DOMAIN oRow
      /\ (Column("boss") \in DOMAIN oRow => "boss" \in DOMAIN oInst.values)
  BY <1>1 DEF Stored, Built
<1> HIDE DEF r
<1>5. there \subseteq {"id", "a", "boss"}
      /\ \A f \in {"id", "a"} : f \in there <=> Column(f) \in DOMAIN r
  BY <1>1, <1>2, <1>4 DEF Column, Model!Names
<1>6. filled = {}
  <2>1. CASE projection = {}
    <3>1. {"id", "a"} \subseteq there
      BY <1>2, <1>4, <1>5, <2>1
    <3> HIDE DEF there
    <3> QED BY <1>1, <3>1 DEF Model!Names
  <2>2. CASE projection # {}
    BY <2>2
  <2> QED BY <2>1, <2>2
<1>7. Model!HydrateRow(r, projection # {}) = i
  <2>1. Model!HydrateRow(r, projection # {}) =
            IF \E f \in filled : Model!IsRequired(oFields[f]) THEN Model!Error("validation") ELSE i
    BY DEF Model!HydrateRow
  <2> HIDE DEF filled, i
  <2> QED BY <1>6, <2>1
<1>8. /\ DOMAIN i.values = there /\ i.loaded = there \cap {"boss"}
      /\ \A f \in there : i.values[f] = Model!HydrateValue(oFields[f], r[Column(f)])
  <2> HIDE DEF filled
  <2>1. i.loaded = {f \in there : Model!IsRelationship(oFields[f])} /\ DOMAIN i.values = there \cup filled
    OBVIOUS
  <2>2. {f \in there : Model!IsRelationship(oFields[f])} = there \cap {"boss"}
    <3> HIDE DEF there
    <3> QED BY <1>1, <1>5 DEF Model!Names
  <2>3. \A f \in there : i.values[f] = Model!HydrateValue(oFields[f], r[Column(f)])
    <3> HIDE DEF there
    <3> QED BY DEF Column
  <2> HIDE DEF there, i
  <2> QED BY <1>6, <2>1, <2>2, <2>3
<1>9. ~Model!Failed(i)
  <2>1. DOMAIN i = {"values", "loaded"}
    OBVIOUS
  <2> HIDE DEF i
  <2> QED BY <2>1 DEF Model!Failed
<1>10. "boss" \in there =>
          /\ Column("boss") \in DOMAIN r
          /\ r[Column("boss")] = Model!Null \/ r[Column("boss")].t = "dict"
  BY <1>1 DEF Column, Model!Names, Model!LoadedShape
<1> HIDE DEF i, there, filled
\* Attributes of both instances.
<1>11. \A f \in {"id", "a"} : Model!Attribute(oInst, f) = oInst.values[f]
  BY <1>1 DEF Model!Attribute, Built, Model!Names
<1>12. "boss" \in DOMAIN oInst.values => Model!Attribute(oInst, "boss") = oInst.values["boss"]
  BY <1>1 DEF Model!Attribute, Built, Model!Names
<1>13. \A f \in Model!Names :
          /\ f \in there => Model!Attribute(i, f) = i.values[f]
          /\ f \notin there => Model!Failed(Model!Attribute(i, f))
  <2> SUFFICES ASSUME NEW f \in Model!Names
      PROVE  /\ f \in there => Model!Attribute(i, f) = i.values[f]
             /\ f \notin there => Model!Failed(Model!Attribute(i, f))
    OBVIOUS
  <2>1. f \in there => Model!Attribute(i, f) = i.values[f]
    BY <1>1, <1>5, <1>8 DEF Model!Attribute
  <2>2. f \notin there => Model!Attribute(i, f) \in {Model!Error("not loaded"), Model!Error("not selected")}
    BY <1>1, <1>8 DEF Model!Attribute
  <2>3. \A e : Model!Failed(Model!Error(e))
    BY DEF Model!Failed, Model!Error
  <2> QED BY <2>1, <2>2, <2>3
<1>14. ASSUME NEW f \in {"id", "a"}, f \in there, oFields[f].type # "time"
       PROVE  i.values[f] = oInst.values[f]
  <2>1. r[Column(f)] = oRow[Column(f)]
    BY <1>1, <1>3, <1>5, <1>14
  <2>2. oRow[Column(f)] = Json(oFields[f], oInst.values[f])
    BY <1>14 DEF Stored
  <2>3. Holds(oFields[f], oInst.values[f])
    BY <1>14 DEF Built
  <2>4. /\ oFields[f].kind \in {"scalar", "list", "dict", "vector"}
        /\ oFields[f].kind = "scalar" => oFields[f].type \in Model!Scalars
        /\ oFields[f].kind = "list" => oFields[f].type \in {"int", "UUID", "time"}
    BY <1>14 DEF Declared, Model!Scalars
  <2>5. Model!HydrateValue(oFields[f], Json(oFields[f], oInst.values[f])) = oInst.values[f]
    BY <1>14, <2>3, <2>4, ValuesReadBack
  <2> QED BY <1>8, <1>14, <2>1, <2>2, <2>5
<1>15. ASSUME "boss" \in there
       PROVE  /\ "boss" \in DOMAIN oInst.values /\ i.values["boss"] = oInst.values["boss"]
              /\ include \/ i.values["boss"] = Model!Null \/ oFields["boss"].alias # None
  <2> DEFINE v == oInst.values["boss"]
  <2>1. /\ Column("boss") \in DOMAIN r /\ Column("boss") \in DOMAIN oRow
        /\ "boss" \in DOMAIN oInst.values /\ oRow[Column("boss")] = Reference(v)
    BY <1>2, <1>4, <1>10, <1>15 DEF Stored
  <2>2. i.values["boss"] = Model!HydrateValue(oFields["boss"], r[Column("boss")]) /\ oFields["boss"].kind = "link"
    BY <1>8, <1>15 DEF Declared
  <2>3. Holds(oFields["boss"], v)
    BY <2>1 DEF Built
  <2>4. CASE v = Model!Null
    <3>1. oRow[Column("boss")] = Model!Null /\ Model!Null.t # "int"
      BY <2>1, <2>4 DEF Reference, Model!Null, Model!V
    <3>2. r[Column("boss")] = Model!Null
      BY <1>3, <2>1, <3>1
    <3> QED BY <2>1, <2>2, <2>4, <3>2 DEF Model!HydrateValue
  <2>5. CASE v # Model!Null
    <3>1. PICK c \in Contents : v = Model!V("model", c)
      BY <2>2, <2>3, <2>5 DEF Holds
    <3>2. v.x = c
      BY <3>1 DEF Model!V
    <3> DEFINE j == Model!V("dict", Model!Entry("id", c))
               k == Model!V("int", c)
    <3>3. j.t = "dict" /\ j.x["id"] = c /\ k.t = "int" /\ k.x = c /\ j # Model!Null /\ k # Model!Null
      BY DEF Model!V, Model!Entry, Model!Null
    <3>4. oRow[Column("boss")] = IF Column("boss") = "boss" THEN k ELSE j
      BY <2>1, <2>5, <3>2 DEF Reference
    <3> HIDE DEF k
    <3>5. r[Column("boss")] = j /\ (include \/ oFields["boss"].alias # None)
      <4>1. CASE Column("boss") = "boss"
        <5>1. oRow[Column("boss")] = k
          BY <3>4, <4>1
        <5>2. r[Column("boss")] = IF include THEN j ELSE k
          BY <1>3, <2>1, <3>3, <4>1, <5>1
        <5>3. include
          BY <1>10, <1>15, <3>3, <5>2
        <5> QED BY <5>2, <5>3
      <4>2. CASE Column("boss") # "boss"
        BY <1>1, <1>3, <2>1, <3>4, <4>2
      <4> QED BY <4>1, <4>2
    <3> HIDE DEF j
    <3>6. Model!HydrateValue(oFields["boss"], j) = Model!V("model", c)
      BY <2>2, <3>3 DEF Model!HydrateValue
    <3> QED BY <2>1, <2>2, <3>1, <3>5, <3>6
  <2> QED BY <2>4, <2>5
<1>16. ASSUME projection = {} PROVE {"id", "a"} \subseteq there
  BY <1>2, <1>4, <1>5, <1>16
<1>17. ASSUME projection # {}, NEW f \in Model!Names, {f, Column(f)} \cap (projection \cup {"id"}) = {}
       PROVE  f \notin there
  <2>1. Column(f) \notin DOMAIN r
    BY <1>2, <1>17
  <2>2. f \in there => Column(f) \in DOMAIN r
    BY <1>5, <1>10
  <2> QED BY <2>1, <2>2
<1>18. there \subseteq {"id", "a", "boss"}
  BY <1>5
<1>19. projection = {} =>
         \A f \in DOMAIN oFields : ~Model!IsRelationship(oFields[f]) /\ oFields[f].type # "time"
                                      => Model!Attribute(i, f) = Model!Attribute(oInst, f)
  BY <1>1, <1>11, <1>13, <1>14, <1>16 DEF Model!Names
<1>20. \A f \in DOMAIN oFields : oFields[f].type # "time" =>
         Model!Failed(Model!Attribute(i, f)) \/ Model!Attribute(i, f) = Model!Attribute(oInst, f)
  <2> SUFFICES ASSUME NEW f \in Model!Names, oFields[f].type # "time", f \in there
      PROVE  Model!Attribute(i, f) = Model!Attribute(oInst, f)
    BY <1>1, <1>13
  <2>1. CASE f \in {"id", "a"}
    BY <2>1, <1>11, <1>13, <1>14
  <2>2. CASE f = "boss"
    BY <2>2, <1>12, <1>13, <1>15
  <2> QED BY <1>18, <2>1, <2>2
<1>21. projection # {} => \A f \in DOMAIN oFields :
         {f, Column(f)} \cap (projection \cup {Model!PrimaryKey}) = {} => Model!Failed(Model!Attribute(i, f))
  BY <1>1, <1>13, <1>17
<1>22. ~Model!Failed(Model!Attribute(i, "boss")) =>
         include \/ Model!Attribute(i, "boss") = Model!Null \/ oFields["boss"].alias # None
  BY <1>13, <1>15 DEF Model!Names
<1> QED BY <1>7, <1>9, <1>19, <1>20, <1>21, <1>22 DEF Delivered, r

-----------------------------------------------------------------------------
(* The life of an instance.                                                   *)

ModelInv ==
    /\ oPhase \in {"declared", "refused", "constructed", "stored", "loaded"}
    /\ oPhase # "refused" => Declared(oFields) /\ ~oFields["a"].primary_key
    /\ oPhase \in {"constructed", "stored", "loaded"} => Built(oInst)
    /\ oPhase = "stored" => Stored(oRow)
    /\ oPhase = "loaded" => Delivered(oAsked.projection, oAsked.include, oBack)

LEMMA InstanceInit ==
    ASSUME Model!NoneIsNoValue, Model!Init PROVE ModelInv
<1>1. oFields \in Model!Classes /\ oPhase = IF Model!DeclarationError(oFields) THEN "refused" ELSE "declared"
  BY DEF Model!Init
<1>2. Declared(oFields) /\ (~Model!DeclarationError(oFields) => ~oFields["a"].primary_key)
  BY <1>1, ClassesAreDeclared
<1> QED BY <1>1, <1>2 DEF ModelInv

LEMMA InstanceStep ==
    ASSUME Model!NoneIsNoValue, Model!ListsAreLists, ModelInv, [Model!Next]_Model!vars
    PROVE  ModelInv'
<1>1. CASE Model!New
  <2>1. oPhase = "declared" /\ oFields' = oFields /\ Declared(oFields) /\ ~oFields["a"].primary_key
    BY <1>1 DEF Model!New, ModelInv
  <2>2. PICK id \in Model!ValuesFor(oFields["id"]), a \in Model!ValuesFor(oFields["a"]),
             boss \in Model!ValuesFor(oFields["boss"]), keys \in Keywords :
          oInst' = Model!Construct(Arguments(keys, id, a, boss))
    BY <1>1 DEF Model!New, Keywords, Arguments
  <2>3. Model!Failed(oInst') \/ Built(oInst')
    BY <2>1, <2>2, ConstructedIsBuilt
  <2>4. oPhase' = IF Model!Failed(oInst') THEN "refused" ELSE "constructed"
    BY <1>1 DEF Model!New
  <2>5. Built(oInst') => Built(oInst)'
    BY <2>1 DEF Built
  <2>6. Declared(oFields)'
    BY <2>1 DEF Declared
  <2> QED BY <2>1, <2>3, <2>4, <2>5, <2>6 DEF ModelInv
<1>2. CASE Model!Insert
  <2>1. /\ oPhase = "constructed" /\ oFields' = oFields /\ oInst' = oInst
        /\ Declared(oFields) /\ ~oFields["a"].primary_key /\ Built(oInst)
    BY <1>2 DEF Model!Insert, ModelInv
  <2>2. \/ oPhase' = "refused"
        \/ oPhase' = "stored" /\ oRow' = Model!NormalizeRow(Model!ToDict)
    BY <1>2 DEF Model!Insert
  <2>3. Stored(Model!NormalizeRow(Model!ToDict))
    BY <2>1, RowIsStored
  <2>4. Stored(oRow') => Stored(oRow)'
    BY <2>1 DEF Stored, Column, Reference, Model!StorageName
  <2>5. Built(oInst)' /\ Declared(oFields)'
    BY <2>1 DEF Built, Declared
  <2> QED BY <2>1, <2>2, <2>3, <2>4, <2>5 DEF ModelInv
<1>3. CASE Model!Select
  <2>1. /\ oPhase = "stored" /\ oPhase' = "loaded" /\ oFields' = oFields /\ oInst' = oInst
        /\ Declared(oFields) /\ ~oFields["a"].primary_key /\ Built(oInst) /\ Stored(oRow)
    BY <1>3 DEF Model!Select, ModelInv
  <2>2. PICK projection \in Projections, include \in BOOLEAN :
          /\ oAsked' = [projection |-> projection, include |-> include]
          /\ oBack' = Model!HydrateRow(Model!Result(projection, include), projection # {})
    BY <1>3 DEF Model!Select, Projections
  <2>3. Delivered(projection, include, oBack')
    BY <2>1, <2>2, StoredIsDelivered
  <2>4. oAsked'.projection = projection /\ oAsked'.include = include
    BY <2>2
  <2>5. Delivered(oAsked'.projection, oAsked'.include, oBack')
    BY <2>3, <2>4
  <2>6. Delivered(oAsked'.projection, oAsked'.include, oBack')
            => Delivered(oAsked.projection, oAsked.include, oBack)'
    <3>1. oFields' = oFields /\ oInst' = oInst
      BY <2>1
    <3>2. Model!PrimaryKey' = Model!PrimaryKey /\ \A f : Column(f)' = Column(f)
      BY <3>1 DEF Model!PrimaryKey, Column, Model!StorageName
    <3>3. /\ \A f : Model!Attribute(oInst, f)' = Model!Attribute(oInst, f)
          /\ \A f : Model!Attribute(oBack, f)' = Model!Attribute(oBack', f)
      BY <3>1 DEF Model!Attribute
    <3> QED BY <3>1, <3>2, <3>3 DEF Delivered
  <2>7. Built(oInst)' /\ Declared(oFields)'
    BY <2>1 DEF Built, Declared
  <2> QED BY <2>1, <2>5, <2>6, <2>7 DEF ModelInv
<1>4. CASE UNCHANGED Model!vars
  <2>1. /\ oFields' = oFields /\ oInst' = oInst /\ oRow' = oRow /\ oBack' = oBack /\ oAsked' = oAsked
        /\ oPhase' = oPhase
    BY <1>4 DEF Model!vars
  <2>2. /\ Built(oInst)' = Built(oInst) /\ Declared(oFields)' = Declared(oFields)
        /\ Stored(oRow)' = Stored(oRow)
    BY <2>1 DEF Built, Declared, Stored, Column, Reference, Model!StorageName
  <2>3. Delivered(oAsked.projection, oAsked.include, oBack)' = Delivered(oAsked.projection, oAsked.include, oBack)
    BY <2>1 DEF Delivered, Column, Model!StorageName, Model!Attribute, Model!PrimaryKey
  <2> QED BY <2>1, <2>2, <2>3 DEF ModelInv
<1> QED BY <1>1, <1>2, <1>3, <1>4 DEF Model!Next

LEMMA ModelInvIsEnough ==
    ASSUME Model!NoneIsNoValue, ModelInv PROVE ModelsRoundTrip
<1>1. Model!TypeOK
  BY DEF ModelInv, Model!TypeOK
<1>2. Model!FieldsReadBack /\ Model!NothingMadeUp /\ Model!LinksLoadOnRequest
  BY DEF ModelInv, Delivered, Column, Model!FieldsReadBack, Model!NothingMadeUp, Model!LinksLoadOnRequest
<1>3. Model!InstancesComplete
  <2> SUFFICES ASSUME oPhase \in {"constructed", "stored", "loaded"}, NEW f \in DOMAIN oFields,
                      ~Model!IsRelationship(oFields[f])
      PROVE  ~Model!Failed(Model!Attribute(oInst, f))
    BY DEF Model!InstancesComplete
  <2>1. Declared(oFields) /\ ~oFields["a"].primary_key /\ Built(oInst)
    BY DEF ModelInv
  <2>2. f \in {"id", "a"}
    BY <2>1, ColumnsAre DEF Declared, Model!Names
  <2>3. Model!Attribute(oInst, f) = oInst.values[f] /\ Holds(oFields[f], oInst.values[f])
    BY <2>1, <2>2 DEF Model!Attribute, Built
  <2>4. \A t, x : ~Model!Failed(Model!V(t, x))
    BY DEF Model!Failed, Model!V
  <2>5. \E t, x : oInst.values[f] = Model!V(t, x)
    BY <2>3 DEF Holds, Model!Null
  <2> QED BY <2>3, <2>4, <2>5
<1> QED BY <1>1, <1>2, <1>3 DEF ModelsRoundTrip, Model!ModelsRoundTrip

\* What is written, stored and read back through a model is what was meant: a field reads
\* back as it was constructed (but a time of day), nothing is made up, links are loaded on
\* request, and instances are complete (AuraModel, to_dict, hydrate_row).
THEOREM InstancesRoundTrip ==
    ASSUME Model!NoneIsNoValue, Model!ListsAreLists
    PROVE  Model!Spec => []ModelsRoundTrip
<1>1. Model!Init => ModelInv
  BY InstanceInit
<1>2. ModelInv /\ [Model!Next]_Model!vars => ModelInv'
  BY InstanceStep
<1>3. ModelInv => ModelsRoundTrip
  BY ModelInvIsEnough
<1> QED BY <1>1, <1>2, <1>3, PTL DEF Model!Spec
=============================================================================

---------------------------- MODULE NativeProofs ----------------------------
(* Proofs about module NativeBackend for any tasks and any number of pages:   *)
(* its types, how far answers can fall behind requests, whose commit commits  *)
(* a transaction, when one ends, and what a stream has read.                  *)
EXTENDS NativeBackend, TLAPS, SequenceTheorems, FiniteSetTheorems

-----------------------------------------------------------------------------
(* The queue of an asyncio.Lock: the facts that TransportProofs also needs,   *)
(* about the queue of the other transport.                                    *)

\* What is left of a queue when one of its elements is taken out (a cancelled
\* waiter): the elements before it keep their place, the others move up by one.
LEMMA RemoveAtProperties ==
    ASSUME NEW S, NEW q \in Seq(S), NEW n \in 1 .. Len(q)
    PROVE  /\ RemoveAt(q, n) \in Seq(S)
           /\ Len(RemoveAt(q, n)) = Len(q) - 1
           /\ \A i \in 1 .. Len(q) - 1 :
                  RemoveAt(q, n)[i] = IF i < n THEN q[i] ELSE q[i + 1]
<1> DEFINE a == SubSeq(q, 1, n - 1)
           b == SubSeq(q, n + 1, Len(q))
<1>1. Len(q) \in Nat /\ \A i \in 1 .. Len(q) : q[i] \in S
    BY LenProperties, ElementOfSeq
<1>2. a \in Seq(S) /\ Len(a) = n - 1 /\ \A i \in 1 .. n - 1 : a[i] = q[i]
    BY <1>1, SubSeqProperties, Z3
<1>3. b \in Seq(S) /\ Len(b) = Len(q) - n /\ \A i \in 1 .. Len(q) - n : b[i] = q[n + i]
    BY <1>1, SubSeqProperties, Z3
<1>4. RemoveAt(q, n) = a \o b
    BY DEF RemoveAt
<1> HIDE DEF a, b
<1>5. /\ a \o b \in Seq(S)
      /\ Len(a \o b) = Len(a) + Len(b)
      /\ \A i \in 1 .. Len(a) + Len(b) :
             (a \o b)[i] = IF i <= Len(a) THEN a[i] ELSE b[i - Len(a)]
    BY <1>2, <1>3, ConcatProperties
<1>6. Len(a) + Len(b) = Len(q) - 1
    BY <1>1, <1>2, <1>3
<1>7. \A i \in 1 .. Len(q) - 1 : i < n => (a \o b)[i] = q[i]
    BY <1>1, <1>2, <1>5, <1>6
<1>8. ASSUME NEW i \in 1 .. Len(q) - 1, ~ (i < n)
      PROVE  (a \o b)[i] = q[i + 1]
    <2>1. i - (n - 1) \in 1 .. Len(q) - n /\ n + (i - (n - 1)) = i + 1
        BY <1>8, <1>1
    <2>2. (a \o b)[i] = b[i - (n - 1)]
        BY <1>8, <1>1, <1>2, <1>5, <1>6
    <2>3. b[i - (n - 1)] = q[n + (i - (n - 1))]
        BY <2>1, <1>3
    <2> QED BY <2>1, <2>2, <2>3
<1> QED
    BY <1>4, <1>5, <1>6, <1>7, <1>8

Members(q) == {q[i] : i \in 1 .. Len(q)}
Distinct(q) == \A i, j \in 1 .. Len(q) : q[i] = q[j] => i = j

\* The three things that happen to the queue: a call joins it at the end, its
\* first call gets the lock, a cancelled call drops out wherever it stands.
\* Each changes the membership by that call only, and no call is in it twice.
LEMMA QueueJoin ==
    ASSUME NEW S, NEW q \in Seq(S), NEW r \in S, Distinct(q), r \notin Members(q)
    PROVE  /\ Append(q, r) \in Seq(S)
           /\ Distinct(Append(q, r))
           /\ Members(Append(q, r)) = Members(q) \cup {r}
<1>1. Len(q) \in Nat
    BY LenProperties
<1>2. /\ Append(q, r) \in Seq(S)
      /\ Len(Append(q, r)) = Len(q) + 1
      /\ \A i \in 1 .. Len(q) : Append(q, r)[i] = q[i]
      /\ Append(q, r)[Len(q) + 1] = r
    BY AppendProperties
<1> QED
    BY <1>1, <1>2 DEF Members, Distinct

LEMMA QueueLeave ==
    ASSUME NEW S, NEW q \in Seq(S), Distinct(q), NEW n \in 1 .. Len(q)
    PROVE  /\ RemoveAt(q, n) \in Seq(S)
           /\ Distinct(RemoveAt(q, n))
           /\ Members(RemoveAt(q, n)) = Members(q) \ {q[n]}
<1>1. Len(q) \in Nat
    BY LenProperties
<1> DEFINE p == RemoveAt(q, n)
<1>2. /\ p \in Seq(S)
      /\ Len(p) = Len(q) - 1
      /\ \A i \in 1 .. Len(q) - 1 : p[i] = IF i < n THEN q[i] ELSE q[i + 1]
    BY RemoveAtProperties
<1> HIDE DEF p
<1>3. Distinct(p)
    BY <1>1, <1>2 DEF Distinct
<1>4. Members(p) \subseteq Members(q) \ {q[n]}
    BY <1>1, <1>2 DEF Distinct, Members
<1>5. ASSUME NEW i \in 1 .. Len(q), i # n
      PROVE  q[i] \in Members(p)
    <2>1. CASE i < n
        BY <2>1, <1>1, <1>2 DEF Members
    <2>2. CASE i > n
        <3>1. i - 1 \in 1 .. Len(p) /\ p[i - 1] = q[i]
            BY <2>2, <1>1, <1>2
        <3> QED BY <3>1 DEF Members
    <2> QED BY <1>5, <2>1, <2>2, <1>1
<1>6. Members(q) \ {q[n]} \subseteq Members(p)
    BY <1>5 DEF Members
<1> QED
    BY <1>2, <1>3, <1>4, <1>6 DEF p

LEMMA QueueServe ==
    ASSUME NEW S, NEW q \in Seq(S), Distinct(q), q # <<>>
    PROVE  /\ Head(q) \in Members(q)
           /\ Tail(q) \in Seq(S)
           /\ Distinct(Tail(q))
           /\ Members(Tail(q)) = Members(q) \ {Head(q)}
<1>1. Len(q) \in Nat \ {0} /\ Head(q) = q[1]
    BY EmptySeq
<1> DEFINE p == Tail(q)
<1>2. /\ p \in Seq(S)
      /\ Len(p) = Len(q) - 1
      /\ \A i \in 1 .. Len(p) : p[i] = q[i + 1]
    BY HeadTailProperties
<1> HIDE DEF p
<1>3. Head(q) \in Members(q)
    BY <1>1 DEF Members
<1>4. Distinct(p)
    BY <1>1, <1>2 DEF Distinct
<1>5. Members(p) \subseteq Members(q) \ {Head(q)}
    BY <1>1, <1>2 DEF Distinct, Members
<1>6. ASSUME NEW i \in 1 .. Len(q), i # 1
      PROVE  q[i] \in Members(p)
    <2>1. i - 1 \in 1 .. Len(p) /\ p[i - 1] = q[i]
        BY <1>1, <1>2, <1>6
    <2> QED BY <2>1 DEF Members
<1>7. Members(q) \ {Head(q)} \subseteq Members(p)
    BY <1>1, <1>6 DEF Members
<1> QED
    BY <1>2, <1>3, <1>4, <1>5, <1>7 DEF p
OpsOf(t) == IF t \in Txs THEN {"begin", "write", "commit", "rollback"}
            ELSE IF t \in Writes THEN {"write"} ELSE {"find", "fetch"}

\* The waiters of the lock are the queued tasks, each once; its holder is the one
\* task that has a request in flight and waits for the answer.
LockOK ==
    /\ Distinct(queue)
    /\ \A t \in Tasks : pc[t] = "queued" <=> t \in Members(queue)
    /\ \A t \in Tasks : pc[t] \in {"sent", "reading"} <=> holder = t

\* A task that waits for the lock or an answer has its own frame.
CallsOK ==
    \A t \in Tasks :
        /\ op[t] \in OpsOf(t)
        /\ pc[t] \in {"queued", "sent", "reading"} => request[t].by = t /\ request[t].op = op[t]

Types == TypeOK /\ LockOK /\ CallsOK

-----------------------------------------------------------------------------
(* The forms of a task's steps.                                               *)

\* What follows an operation in its task.
Follows(o, n) == <<o, n>> \in {<<"begin", "write">>, <<"write", "commit">>, <<"write", "rollback">>,
                               <<"find", "fetch">>, <<"fetch", "fetch">>}

\* Task t is through with its operation, and is over or goes on to the next.
Leaves(t) ==
    /\ \E p \in {"ready", "ended"}, o \in OpsOf(t) :
          /\ pc' = [pc EXCEPT ![t] = p]
          /\ op' = [op EXCEPT ![t] = o]
          /\ IF p = "ended" THEN o = op[t] ELSE Follows(op[t], o)
    /\ outcome' \in [Tasks -> {"none", "done", "left", "failed", "cancelled"}]

\* An exception: what t was doing is over, or its block is rolled back.
Raised(t) ==
    IF t \in Txs /\ op[t] = "write"
    THEN pc' = [pc EXCEPT ![t] = "ready"] /\ op' = [op EXCEPT ![t] = "rollback"]
    ELSE pc' = [pc EXCEPT ![t] = "ended"] /\ op' = op

\* The frame is on its way, or lost with the connection.
Sent(t, frame) ==
    /\ holder' = t /\ pc' = [pc EXCEPT ![t] = "sent"] /\ UNCHANGED <<op, outcome>>
    /\ requests' = IF socket = "open" THEN Append(requests, frame) ELSE requests

LEMMA EndsLeave ==
    ASSUME Types, NEW t \in Tasks, NEW how \in {"done", "left", "failed", "cancelled"}, Ends(t, how)
    PROVE  Leaves(t)
<1>1. op[t] \in OpsOf(t) /\ op' = [op EXCEPT ![t] = op[t]]
    BY DEF Types, CallsOK, Ends, TypeOK
<1>2. outcome' \in [Tasks -> {"none", "done", "left", "failed", "cancelled"}]
    BY DEF Types, Ends, TypeOK
<1> QED BY <1>1, <1>2 DEF Leaves, Ends

LEMMA IssuesLeave ==
    ASSUME Types, NEW t \in Tasks, NEW next \in OpsOf(t), Follows(op[t], next), Issues(t, next)
    PROVE  Leaves(t)
BY DEF Types, TypeOK, Leaves, Issues

LEMMA RaisesLeave ==
    ASSUME Types, NEW t \in Tasks, NEW how \in {"failed", "cancelled"}, Raises(t, how)
    PROVE  Leaves(t) /\ Raised(t)
<1>1. CASE t \in Txs /\ op[t] = "write"
    <2>1. "rollback" \in OpsOf(t) /\ Follows(op[t], "rollback") /\ Issues(t, "rollback")
        BY <1>1 DEF OpsOf, Follows, Raises
    <2> QED BY <1>1, <2>1, IssuesLeave DEF Issues, Raised
<1>2. CASE ~ (t \in Txs /\ op[t] = "write")
    <2>1. Ends(t, how)
        BY <1>2 DEF Raises
    <2> QED BY <1>2, <2>1, EndsLeave DEF Ends, Raised
<1> QED BY <1>1, <1>2

LEMMA TakesLeave ==
    ASSUME Types, NEW t \in Tasks, NEW answer \in Answers,
           TakesBegin(t, answer) \/ TakesWrite(t) \/ TakesEnd(t) \/ TakesPage(t, answer)
    PROVE  /\ Leaves(t)
           /\ txnMap' \in [Txs -> Nat] /\ cursor' \in [Streams -> Nat]
           /\ IF op[t] = "begin" THEN txnMap' = [txnMap EXCEPT ![t] = answer.txn]
                                 ELSE txnMap' = txnMap
<1>0. answer.txn \in Nat /\ answer.cursor \in Nat /\ op[t] \in OpsOf(t)
    BY DEF Answers, Types, CallsOK
<1>1. CASE TakesBegin(t, answer)
    <2>1. "write" \in OpsOf(t) /\ Follows(op[t], "write") /\ Issues(t, "write")
        BY <1>0, <1>1 DEF TakesBegin, OpsOf, Follows
    <2>2. txnMap' \in [Txs -> Nat] /\ cursor' \in [Streams -> Nat]
        BY <1>0, <1>1 DEF TakesBegin, Types, TypeOK
    <2> QED BY <1>1, <2>1, <2>2, IssuesLeave DEF TakesBegin
<1>2. CASE TakesWrite(t)
    <2>1. txnMap' \in [Txs -> Nat] /\ cursor' \in [Streams -> Nat]
        BY <1>2 DEF TakesWrite, Types, TypeOK
    <2>2. CASE t \in Txs
        <3>1. PICK next \in {"commit", "rollback"} : Issues(t, next)
            BY <1>2, <2>2 DEF TakesWrite
        <3>2. next \in OpsOf(t) /\ Follows(op[t], next)
            BY <1>2, <2>2, <3>1 DEF TakesWrite, OpsOf, Follows
        <3> QED BY <1>2, <2>1, <3>1, <3>2, IssuesLeave DEF TakesWrite
    <2>3. CASE t \notin Txs
        BY <1>2, <2>1, <2>3, EndsLeave DEF TakesWrite
    <2> QED BY <2>2, <2>3
<1>3. CASE TakesEnd(t)
    <2>1. txnMap' \in [Txs -> Nat] /\ cursor' \in [Streams -> Nat]
        BY <1>3 DEF TakesEnd, Types, TypeOK
    <2> QED BY <1>3, <2>1, EndsLeave DEF TakesEnd
<1>4. CASE TakesPage(t, answer)
    <2>1. txnMap' \in [Txs -> Nat] /\ cursor' \in [Streams -> Nat]
        BY <1>0, <1>4 DEF TakesPage, Types, TypeOK
    <2>2. CASE Issues(t, "fetch")
        <3>1. "fetch" \in OpsOf(t) /\ Follows(op[t], "fetch")
            BY <1>0, <1>4 DEF TakesPage, OpsOf, Follows
        <3> QED BY <1>4, <2>1, <2>2, <3>1, IssuesLeave DEF TakesPage
    <2>3. CASE Ends(t, "done") \/ Ends(t, "left")
        BY <1>4, <2>1, <2>3, EndsLeave DEF TakesPage
    <2> QED BY <1>4, <2>2, <2>3 DEF TakesPage
<1> QED BY <1>1, <1>2, <1>3, <1>4

LEMMA SendsForm ==
    ASSUME Types, NEW t \in Tasks, NEW frame, Sends(t, frame)
    PROVE  \/ Sent(t, frame)
           \/ holder' = NoTask /\ Leaves(t) /\ Raised(t) /\ UNCHANGED requests
BY RaisesLeave DEF Sends, Sent

-----------------------------------------------------------------------------
(* Types, the lock, and the frames of waiting tasks.                          *)

Waits == {"queued", "sent", "reading"}

\* Task t joins the queue; or it is not in the queue afterwards, and the lock is
\* taken or kept by t for a request in flight, and else not held by t.
LEMMA LockStep ==
    ASSUME TypeOK, LockOK, NEW t \in Tasks, NEW p, pc' = [pc EXCEPT ![t] = p],
           \/ p = "queued" /\ pc[t] \notin Waits /\ queue' = Append(queue, t) /\ holder' = holder
           \/ /\ p # "queued" /\ queue' \in Seq(Tasks) /\ Distinct(queue')
              /\ Members(queue') = Members(queue) \ {t}
              /\ IF p \in {"sent", "reading"} THEN holder' = t /\ holder \in {NoTask, t}
                 ELSE holder' = IF holder = t THEN NoTask ELSE holder
    PROVE  LockOK' /\ queue' \in Seq(Tasks)
<1>1. pc'[t] = p /\ \A s \in Tasks \ {t} : pc'[s] = pc[s]
    BY DEF TypeOK
<1>2. NoTask \notin Tasks
    BY TasksAssumption DEF Tasks
<1>3. CASE p = "queued" /\ pc[t] \notin Waits /\ queue' = Append(queue, t) /\ holder' = holder
    <2>1. t \notin Members(queue) /\ holder # t /\ queue \in Seq(Tasks) /\ Distinct(queue)
        BY <1>3 DEF TypeOK, LockOK, Waits
    <2>2. queue' \in Seq(Tasks) /\ Distinct(queue') /\ Members(queue') = Members(queue) \cup {t}
        BY <1>3, <2>1, QueueJoin
    <2>3. \A s \in Tasks : pc'[s] = "queued" <=> s \in Members(queue')
        BY <1>1, <1>3, <2>2 DEF LockOK
    <2>4. \A s \in Tasks : pc'[s] \in {"sent", "reading"} <=> holder' = s
        BY <1>1, <1>3, <2>1 DEF LockOK
    <2> QED BY <2>2, <2>3, <2>4 DEF LockOK
<1>4. CASE /\ p # "queued" /\ queue' \in Seq(Tasks) /\ Distinct(queue')
           /\ Members(queue') = Members(queue) \ {t}
           /\ IF p \in {"sent", "reading"} THEN holder' = t /\ holder \in {NoTask, t}
              ELSE holder' = IF holder = t THEN NoTask ELSE holder
    <2>1. \A s \in Tasks : pc'[s] = "queued" <=> s \in Members(queue')
        BY <1>1, <1>4 DEF LockOK
    <2>2. \A s \in Tasks : pc'[s] \in {"sent", "reading"} <=> holder' = s
        BY <1>1, <1>2, <1>4 DEF LockOK
    <2> QED BY <1>4, <2>1, <2>2 DEF LockOK
<1> QED BY <1>3, <1>4

\* The queue is left alone by a task that is not in it.
LEMMA NotInQueue ==
    ASSUME TypeOK, LockOK, NEW t \in Tasks, pc[t] # "queued"
    PROVE  /\ queue \in Seq(Tasks) /\ Distinct(queue)
           /\ Members(queue) = Members(queue) \ {t}
BY DEF TypeOK, LockOK

LEMMA CallsStep ==
    ASSUME TypeOK, CallsOK, NEW t \in Tasks, NEW p, NEW o \in OpsOf(t),
           pc' = [pc EXCEPT ![t] = p], op' = [op EXCEPT ![t] = o],
           p \in Waits => request'[t].by = t /\ request'[t].op = o,
           \A s \in Tasks \ {t} : request'[s] = request[s]
    PROVE  CallsOK'
<1>1. /\ pc'[t] = p /\ \A s \in Tasks \ {t} : pc'[s] = pc[s]
      /\ op'[t] = o /\ \A s \in Tasks \ {t} : op'[s] = op[s]
    BY DEF TypeOK
<1> QED BY <1>1 DEF CallsOK, Waits, OpsOf

LEMMA OpsInOps == \A t \in Tasks : OpsOf(t) \subseteq Ops
BY DEF OpsOf, Ops

\* A task that leaves its operation, having left the queue or released the lock.
LEMMA LeavesTypes ==
    ASSUME Types, NEW t \in Tasks, Leaves(t), \A s \in Tasks \ {t} : request'[s] = request[s],
           queue' \in Seq(Tasks), Distinct(queue'), Members(queue') = Members(queue) \ {t},
           holder' = IF holder = t THEN NoTask ELSE holder
    PROVE  /\ pc' \in [Tasks -> {"ready", "queued", "sent", "reading", "ended"}]
           /\ op' \in [Tasks -> Ops] /\ LockOK' /\ CallsOK'
           /\ outcome' \in [Tasks -> {"none", "done", "left", "failed", "cancelled"}]
<1>1. PICK p \in {"ready", "ended"}, o \in OpsOf(t) :
         pc' = [pc EXCEPT ![t] = p] /\ op' = [op EXCEPT ![t] = o]
    BY DEF Leaves
<1>2. pc' \in [Tasks -> {"ready", "queued", "sent", "reading", "ended"}] /\ op' \in [Tasks -> Ops]
    BY <1>1, OpsInOps DEF Types, TypeOK
<1>3. p # "queued" /\ p \notin {"sent", "reading"} /\ p \notin Waits
    BY DEF Waits
<1>4. LockOK'
    BY <1>1, <1>3, LockStep DEF Types
<1>5. CallsOK'
    BY <1>1, <1>3, CallsStep DEF Types
<1> QED BY <1>2, <1>4, <1>5 DEF Leaves

-----------------------------------------------------------------------------
(* Every step keeps the types.                                                *)

\* What is left of a direction of the socket when its end is cut off, or its
\* beginning is read.
LEMMA Prefix ==
    ASSUME NEW S, NEW q \in Seq(S), NEW n \in 0 .. Len(q)
    PROVE  /\ SubSeq(q, 1, n) \in Seq(S) /\ Len(SubSeq(q, 1, n)) = n
           /\ \A i \in 1 .. n : SubSeq(q, 1, n)[i] = q[i]
<1>1. Len(q) \in Nat /\ \A i \in 1 .. n : q[i] \in S
    BY LenProperties, ElementOfSeq
<1>2. n \in Int /\ 1 \in Int /\ n - 1 + 1 = n
    BY <1>1
<1>3. /\ SubSeq(q, 1, n) \in Seq(S)
      /\ Len(SubSeq(q, 1, n)) = IF 1 <= n THEN n - 1 + 1 ELSE 0
      /\ \A i \in 1 .. n - 1 + 1 : SubSeq(q, 1, n)[i] = q[1 + i - 1]
    BY <1>1, <1>2, SubSeqProperties, Z3
<1> QED BY <1>1, <1>2, <1>3

LEMMA Suffix ==
    ASSUME NEW S, NEW q \in Seq(S), NEW n \in 0 .. Len(q)
    PROVE  /\ SubSeq(q, n + 1, Len(q)) \in Seq(S) /\ Len(SubSeq(q, n + 1, Len(q))) = Len(q) - n
           /\ \A i \in 1 .. Len(q) - n : SubSeq(q, n + 1, Len(q))[i] = q[n + i]
<1>1. Len(q) \in Nat /\ \A i \in n + 1 .. Len(q) : q[i] \in S
    BY LenProperties, ElementOfSeq
<1>2. n + 1 \in Int /\ Len(q) \in Int
    BY <1>1
<1>3. /\ SubSeq(q, n + 1, Len(q)) \in Seq(S)
      /\ Len(SubSeq(q, n + 1, Len(q))) = IF n + 1 <= Len(q) THEN Len(q) - (n + 1) + 1 ELSE 0
      /\ \A i \in 1 .. Len(q) - (n + 1) + 1 : SubSeq(q, n + 1, Len(q))[i] = q[(n + 1) + i - 1]
    BY <1>1, <1>2, SubSeqProperties, Z3
<1> QED BY <1>1, <1>2, <1>3

\* The frame of task t's next operation.
Frame(t) == [by |-> t, op |-> op[t], tx |-> IF t \in Txs THEN txnMap[t] ELSE 0,
             cursor |-> IF op[t] = "fetch" THEN cursor[t] ELSE 0]

LEMMA FrameType ==
    ASSUME Types, NEW t \in Tasks
    PROVE  Frame(t) \in Requests
<1>1. op[t] \in Ops /\ (t \in Txs => txnMap[t] \in Nat)
    BY DEF Types, TypeOK
<1>2. op[t] = "fetch" => cursor[t] \in Nat
    BY TasksAssumption DEF Types, TypeOK, CallsOK, OpsOf, Tasks
<1> QED BY <1>1, <1>2 DEF Frame, Requests

\* A frame that is sent or refused for want of a writer: request[t] is the frame.
LEMMA SendsTypes ==
    ASSUME Types, NEW t \in Tasks, NEW frame \in Requests, Sends(t, frame), holder = NoTask,
           frame.by = t, frame.op = op[t], request'[t] = frame,
           \A s \in Tasks \ {t} : request'[s] = request[s],
           queue' \in Seq(Tasks), Distinct(queue'), Members(queue') = Members(queue) \ {t}
    PROVE  /\ pc' \in [Tasks -> {"ready", "queued", "sent", "reading", "ended"}]
           /\ op' \in [Tasks -> Ops] /\ LockOK' /\ CallsOK'
           /\ outcome' \in [Tasks -> {"none", "done", "left", "failed", "cancelled"}]
           /\ holder' \in Tasks \cup {NoTask} /\ requests' \in Seq(Requests)
<1>1. holder # t /\ op[t] \in OpsOf(t)
    BY TasksAssumption DEF Types, CallsOK, Tasks
<1>2. CASE Sent(t, frame)
    <2>1. requests' \in Seq(Requests)
        BY <1>2, AppendProperties DEF Types, TypeOK, Sent
    <2>2. pc' = [pc EXCEPT ![t] = "sent"] /\ op' = [op EXCEPT ![t] = op[t]] /\ "sent" # "queued"
        BY <1>2 DEF Sent, Types, TypeOK
    <2>3. LockOK'
        BY <1>2, <2>2, LockStep DEF Types, Sent
    <2>4. CallsOK'
        BY <1>1, <2>2, CallsStep DEF Types
    <2> QED BY <1>2, <2>1, <2>3, <2>4 DEF Sent, Types, TypeOK
<1>3. CASE holder' = NoTask /\ Leaves(t) /\ UNCHANGED requests
    <2>1. holder' = IF holder = t THEN NoTask ELSE holder
        BY <1>1, <1>3
    <2> QED BY <1>3, <2>1, LeavesTypes DEF Types, TypeOK
<1> QED BY <1>2, <1>3, SendsForm

LEMMA CallTypes ==
    ASSUME Types, NEW t \in Tasks, Call(t)
    PROVE  Types'
<1>0. pc[t] = "ready" /\ op[t] \in OpsOf(t) /\ Frame(t) \in Requests /\ holder # t
    BY FrameType DEF Call, Types, CallsOK, LockOK
<1>1. txnMap' \in [Txs -> Nat] /\ UNCHANGED <<linkVars, cursor, cancelledIn, answers, torn, unread, serverVars>>
    BY DEF Call, Types, TypeOK
<1>2. queue \in Seq(Tasks) /\ Distinct(queue) /\ Members(queue) = Members(queue) \ {t}
    BY <1>0, NotInQueue DEF Types
<1>3. CASE Raises(t, "failed") /\ UNCHANGED <<request, lockVars, requests>>
    <2>1. Leaves(t)
        BY <1>3, RaisesLeave
    <2>2. holder' = (IF holder = t THEN NoTask ELSE holder)
        BY <1>0, <1>3 DEF lockVars
    <2>3. /\ pc' \in [Tasks -> {"ready", "queued", "sent", "reading", "ended"}]
          /\ op' \in [Tasks -> Ops] /\ LockOK' /\ CallsOK'
          /\ outcome' \in [Tasks -> {"none", "done", "left", "failed", "cancelled"}]
        BY <1>2, <1>3, <2>1, <2>2, LeavesTypes DEF lockVars
    <2> QED BY <1>1, <1>3, <2>3 DEF Types, TypeOK, lockVars, linkVars, serverVars
<1>4. ASSUME request' = [request EXCEPT ![t] = Frame(t)], Sends(t, Frame(t)), holder = NoTask, UNCHANGED queue
      PROVE  Types'
    <2>1. /\ request' \in [Tasks -> Requests] /\ request'[t] = Frame(t)
          /\ \A s \in Tasks \ {t} : request'[s] = request[s]
        BY <1>0, <1>4 DEF Types, TypeOK
    <2>2. Frame(t).by = t /\ Frame(t).op = op[t]
        BY DEF Frame
    <2>3. /\ pc' \in [Tasks -> {"ready", "queued", "sent", "reading", "ended"}]
          /\ op' \in [Tasks -> Ops] /\ LockOK' /\ CallsOK'
          /\ outcome' \in [Tasks -> {"none", "done", "left", "failed", "cancelled"}]
          /\ holder' \in Tasks \cup {NoTask} /\ requests' \in Seq(Requests)
        BY <1>0, <1>2, <1>4, <2>1, <2>2, SendsTypes
    <2> QED BY <1>1, <1>2, <1>4, <2>1, <2>3 DEF Types, TypeOK, linkVars, serverVars
<1>5. ASSUME request' = [request EXCEPT ![t] = Frame(t)], queue' = Append(queue, t),
             pc' = [pc EXCEPT ![t] = "queued"], UNCHANGED <<holder, op, outcome, requests>>
      PROVE  Types'
    <2>1. /\ request' \in [Tasks -> Requests] /\ request'[t] = Frame(t)
          /\ \A s \in Tasks \ {t} : request'[s] = request[s]
        BY <1>0, <1>5 DEF Types, TypeOK
    <2>2. Frame(t).by = t /\ Frame(t).op = op[t]
        BY DEF Frame
    <2>3. LockOK' /\ queue' \in Seq(Tasks)
        BY <1>0, <1>5, LockStep DEF Types, Waits
    <2>4. op' = [op EXCEPT ![t] = op[t]]
        BY <1>5 DEF Types, TypeOK
    <2>5. CallsOK'
        BY <1>0, <1>5, <2>1, <2>2, <2>4, CallsStep DEF Types
    <2>6. pc' \in [Tasks -> {"ready", "queued", "sent", "reading", "ended"}]
        BY <1>5 DEF Types, TypeOK
    <2> QED BY <1>1, <1>5, <2>1, <2>3, <2>5, <2>6 DEF Types, TypeOK, linkVars, serverVars
<1> QED BY <1>3, <1>4, <1>5 DEF Call, Frame

LEMMA TakeLockTypes ==
    ASSUME Types, NEW t \in Tasks, TakeLock(t)
    PROVE  Types'
<1>1. /\ queue # <<>> /\ Head(queue) = t /\ queue' = Tail(queue) /\ holder = NoTask /\ Sends(t, request[t])
      /\ UNCHANGED <<linkVars, request, txnMap, cursor, cancelledIn, answers, torn, unread, serverVars>>
    BY DEF TakeLock
<1>2. queue \in Seq(Tasks) /\ Distinct(queue)
    BY DEF Types, TypeOK, LockOK
<1>3. /\ t \in Members(queue) /\ queue' \in Seq(Tasks) /\ Distinct(queue')
      /\ Members(queue') = Members(queue) \ {t}
    BY <1>1, <1>2, QueueServe
<1>4. request[t] \in Requests /\ request[t].by = t /\ request[t].op = op[t]
    BY <1>3 DEF Types, TypeOK, LockOK, CallsOK
<1>5. request' = request
    BY <1>1
<1>6. /\ pc' \in [Tasks -> {"ready", "queued", "sent", "reading", "ended"}]
      /\ op' \in [Tasks -> Ops] /\ LockOK' /\ CallsOK'
      /\ outcome' \in [Tasks -> {"none", "done", "left", "failed", "cancelled"}]
      /\ holder' \in Tasks \cup {NoTask} /\ requests' \in Seq(Requests)
    BY <1>1, <1>3, <1>4, <1>5, SendsTypes
<1> QED BY <1>1, <1>3, <1>6 DEF Types, TypeOK, linkVars, serverVars

\* What is common to the steps that leave an operation in flight.
LEMMA InFlightLeaves ==
    ASSUME Types, NEW t \in Tasks, pc[t] \in {"sent", "reading"}, Leaves(t), holder' = NoTask,
           UNCHANGED <<queue, request>>
    PROVE  /\ pc' \in [Tasks -> {"ready", "queued", "sent", "reading", "ended"}]
           /\ op' \in [Tasks -> Ops] /\ LockOK' /\ CallsOK'
           /\ outcome' \in [Tasks -> {"none", "done", "left", "failed", "cancelled"}]
           /\ holder = t /\ queue' \in Seq(Tasks) /\ holder' \in Tasks \cup {NoTask}
<1>1. holder = t /\ pc[t] # "queued"
    BY DEF Types, LockOK
<1>2. queue' \in Seq(Tasks) /\ Distinct(queue') /\ Members(queue') = Members(queue) \ {t}
    BY <1>1, NotInQueue DEF Types
<1> QED BY <1>1, <1>2, LeavesTypes

LEMMA ReadTypes ==
    ASSUME Types, NEW t \in Tasks, ReadHeader(t) \/ ReadRest(t) \/ ReadFails(t) \/ ReadGarbage(t)
    PROVE  Types'
<1>1. CASE ReadHeader(t)
    <2>1. /\ pc[t] = "sent" /\ pc' = [pc EXCEPT ![t] = "reading"] /\ op' = [op EXCEPT ![t] = op[t]]
          /\ UNCHANGED <<linkVars, lockVars, op, request, txnMap, cursor, outcome, cancelledIn,
                         wireVars, serverVars>>
        BY <1>1 DEF ReadHeader, Types, TypeOK
    <2>2. holder = t /\ queue \in Seq(Tasks) /\ Distinct(queue) /\ Members(queue) = Members(queue) \ {t}
        BY <2>1, NotInQueue DEF Types, LockOK
    <2>3. LockOK'
        BY <2>1, <2>2, LockStep DEF Types, lockVars
    <2>4. CallsOK'
        BY <2>1, CallsStep DEF Types, CallsOK
    <2>5. pc' \in [Tasks -> {"ready", "queued", "sent", "reading", "ended"}]
        BY <2>1 DEF Types, TypeOK
    <2> QED BY <2>1, <2>3, <2>4, <2>5 DEF Types, TypeOK, linkVars, lockVars, wireVars, serverVars
<1>2. CASE ReadRest(t)
    <2>1. /\ pc[t] = "reading" /\ answers # <<>> /\ answers' = Tail(answers) /\ holder' = NoTask
          /\ UNCHANGED <<linkVars, queue, request, cancelledIn, requests, torn, unread, serverVars>>
        BY <1>2 DEF ReadRest
    <2>2. Head(answers) \in Answers /\ answers' \in Seq(Answers)
        BY <2>1, HeadTailProperties DEF Types, TypeOK
    <2>3. Leaves(t) /\ txnMap' \in [Txs -> Nat] /\ cursor' \in [Streams -> Nat]
        <3>1. CASE Raises(t, "failed") /\ UNCHANGED <<txnMap, cursor>>
            BY <3>1, RaisesLeave DEF Types, TypeOK
        <3>2. CASE \/ TakesBegin(t, Head(answers)) \/ TakesWrite(t) \/ TakesEnd(t)
                   \/ TakesPage(t, Head(answers))
            BY <2>2, <3>2, TakesLeave
        <3> QED BY <1>2, <3>1, <3>2 DEF ReadRest
    <2>4. /\ pc' \in [Tasks -> {"ready", "queued", "sent", "reading", "ended"}]
          /\ op' \in [Tasks -> Ops] /\ LockOK' /\ CallsOK'
          /\ outcome' \in [Tasks -> {"none", "done", "left", "failed", "cancelled"}]
          /\ queue' \in Seq(Tasks) /\ holder' \in Tasks \cup {NoTask}
        BY <2>1, <2>3, InFlightLeaves
    <2> QED BY <2>1, <2>2, <2>3, <2>4 DEF Types, TypeOK, linkVars, serverVars
<1>3. CASE ReadFails(t)
    <2>1. /\ pc[t] \in {"sent", "reading"} /\ holder' = NoTask /\ Raises(t, "failed")
          /\ UNCHANGED <<linkVars, queue, request, txnMap, cursor, cancelledIn, wireVars, serverVars>>
        BY <1>3 DEF ReadFails
    <2>2. /\ pc' \in [Tasks -> {"ready", "queued", "sent", "reading", "ended"}]
          /\ op' \in [Tasks -> Ops] /\ LockOK' /\ CallsOK'
          /\ outcome' \in [Tasks -> {"none", "done", "left", "failed", "cancelled"}]
          /\ queue' \in Seq(Tasks) /\ holder' \in Tasks \cup {NoTask}
        BY <2>1, RaisesLeave, InFlightLeaves
    <2> QED BY <2>1, <2>2 DEF Types, TypeOK, linkVars, wireVars, serverVars
<1>4. CASE ReadGarbage(t)
    <2>1. /\ pc[t] \in {"sent", "reading"} /\ holder' = NoTask /\ Raises(t, "failed")
          /\ torn' \in BOOLEAN /\ unread' = unread \cup {request[t]}
          /\ UNCHANGED <<linkVars, queue, request, txnMap, cursor, cancelledIn, requests, serverVars>>
        BY <1>4 DEF ReadGarbage
    <2>2. PICK n \in 0 .. Len(answers) : answers' = SubSeq(answers, n + 1, Len(answers))
        BY <1>4 DEF ReadGarbage
    <2>3. answers' \in Seq(Answers) /\ unread' \in SUBSET Requests
        BY <2>1, <2>2, Suffix DEF Types, TypeOK
    <2>4. /\ pc' \in [Tasks -> {"ready", "queued", "sent", "reading", "ended"}]
          /\ op' \in [Tasks -> Ops] /\ LockOK' /\ CallsOK'
          /\ outcome' \in [Tasks -> {"none", "done", "left", "failed", "cancelled"}]
          /\ queue' \in Seq(Tasks) /\ holder' \in Tasks \cup {NoTask}
        BY <2>1, RaisesLeave, InFlightLeaves
    <2> QED BY <2>1, <2>3, <2>4 DEF Types, TypeOK, linkVars, serverVars
<1> QED BY <1>1, <1>2, <1>3, <1>4

LEMMA CancelTypes ==
    ASSUME Types, NEW t \in Tasks, Cancel(t)
    PROVE  Types'
<1>1. /\ cancelledIn' \in [Tasks -> Ops \cup {"none"}] /\ Leaves(t)
      /\ UNCHANGED <<linkVars, request, txnMap, cursor, requests, answers, serverVars>>
    BY RaisesLeave DEF Cancel, Types, TypeOK
<1>2. CASE /\ pc[t] = "queued" /\ UNCHANGED <<holder, torn, unread>>
           /\ \E i \in 1 .. Len(queue) : queue[i] = t /\ queue' = RemoveAt(queue, i)
    <2>1. PICK i \in 1 .. Len(queue) : queue[i] = t /\ queue' = RemoveAt(queue, i)
        BY <1>2
    <2>2. queue \in Seq(Tasks) /\ Distinct(queue) /\ holder # t
        BY <1>2 DEF Types, TypeOK, LockOK
    <2>3. queue' \in Seq(Tasks) /\ Distinct(queue') /\ Members(queue') = Members(queue) \ {t}
        BY <2>1, <2>2, QueueLeave
    <2>4. holder' = IF holder = t THEN NoTask ELSE holder
        BY <1>2, <2>2
    <2>5. request' = request
        BY <1>1
    <2>6. /\ pc' \in [Tasks -> {"ready", "queued", "sent", "reading", "ended"}]
          /\ op' \in [Tasks -> Ops] /\ LockOK' /\ CallsOK'
          /\ outcome' \in [Tasks -> {"none", "done", "left", "failed", "cancelled"}]
        BY <1>1, <2>3, <2>4, <2>5, LeavesTypes
    <2> QED BY <1>1, <1>2, <2>3, <2>6 DEF Types, TypeOK, linkVars, serverVars
<1>3. CASE /\ pc[t] \in {"sent", "reading"} /\ holder' = NoTask /\ UNCHANGED queue
           /\ torn' = (torn \/ (pc[t] = "reading" /\ answers # <<>>))
           /\ unread' = unread \cup {request[t]}
    <2>1. torn' \in BOOLEAN /\ unread' \in SUBSET Requests
        BY <1>3 DEF Types, TypeOK
    <2>2. /\ pc' \in [Tasks -> {"ready", "queued", "sent", "reading", "ended"}]
          /\ op' \in [Tasks -> Ops] /\ LockOK' /\ CallsOK'
          /\ outcome' \in [Tasks -> {"none", "done", "left", "failed", "cancelled"}]
          /\ queue' \in Seq(Tasks) /\ holder' \in Tasks \cup {NoTask}
        BY <1>1, <1>3, InFlightLeaves
    <2> QED BY <1>1, <2>1, <2>2 DEF Types, TypeOK, linkVars, serverVars
<1> QED BY <1>2, <1>3 DEF Cancel

LEMMA LinkTypes ==
    ASSUME Types, Close \/ ConnectionLost
    PROVE  Types'
<1>1. /\ connected' \in BOOLEAN /\ socket' = "closed"
      /\ UNCHANGED <<lockVars, taskVars, unread, serverVars>>
    BY DEF Close, ConnectionLost, Drops, Types, TypeOK
<1>2. requests' \in Seq(Requests)
    <2>1. PICK n \in 0 .. Len(requests) : requests' = SubSeq(requests, 1, n)
        BY DEF Close, ConnectionLost, Drops
    <2> QED BY <2>1, Prefix DEF Types, TypeOK
<1>3. answers' \in Seq(Answers) /\ torn' \in BOOLEAN
    <2>1. CASE Close
        BY <2>1, EmptySeq DEF Close
    <2>2. CASE ConnectionLost
        <3>1. PICK n \in 0 .. Len(answers) : answers' = SubSeq(answers, 1, n)
            BY <2>2 DEF ConnectionLost
        <3> QED BY <2>2, <3>1, Prefix DEF ConnectionLost, Types, TypeOK
    <2> QED BY <2>1, <2>2
<1> QED BY <1>1, <1>2, <1>3 DEF Types, TypeOK, LockOK, CallsOK, lockVars, taskVars, serverVars

\* The server answers the first frame, if the connection is there: a begin with the
\* id of a new transaction, or refused, and nothing else with an id.
Answered(frame, answer) ==
    /\ answer.to = frame
    /\ answers' = IF socket = "open" THEN Append(answers, answer) ELSE answers
    /\ \/ answer.txn = serial + 1 /\ answer.fine /\ ServeBegin(frame)
       \/ /\ answer.txn = 0 /\ ~ (answer.fine /\ frame.op = "begin")
          /\ \/ Refuses(frame) \/ ServeWrite(frame) \/ ServeEnd(frame)
             \/ ServeFind(frame) \/ ServeFetch(frame)

LEMMA ServeAnswers ==
    ASSUME Types, Serve
    PROVE  /\ requests # <<>> /\ Head(requests) \in Requests
           /\ requests' = Tail(requests) /\ requests' \in Seq(Requests)
           /\ UNCHANGED <<linkVars, lockVars, taskVars, torn, unread>>
           /\ \E answer \in Answers : Answered(Head(requests), answer)
<1> DEFINE frame == Head(requests)
           answer(fine, txn, page) == [to |-> frame, fine |-> fine, txn |-> txn, cursor |-> page]
<1>1. /\ requests # <<>> /\ frame \in Requests
      /\ requests' = Tail(requests) /\ requests' \in Seq(Requests)
      /\ UNCHANGED <<linkVars, lockVars, taskVars, torn, unread>>
    BY HeadTailProperties DEF Serve, Types, TypeOK
<1>2. /\ \A fine \in BOOLEAN, txn, page \in Nat : answer(fine, txn, page) \in Answers
      /\ \A fine, txn, page : answer(fine, txn, page).to = frame /\ answer(fine, txn, page).txn = txn
      /\ \A txn, page : answer(FALSE, txn, page).fine = FALSE
    BY <1>1 DEF Answers
<1>3. serial + 1 \in Nat /\ \A c \in cursors : c.id \in Nat
    BY DEF Types, TypeOK, Cursors
<1> HIDE DEF frame
<1>4. CASE Refuses(frame) \/ ServeBegin(frame) \/ ServeWrite(frame) \/ ServeFind(frame)
    <2>1. /\ answer(FALSE, 0, 0) \in Answers /\ answer(TRUE, 0, 0) \in Answers
          /\ answer(TRUE, serial + 1, 0) \in Answers /\ answer(TRUE, 0, serial + 1) \in Answers
        BY <1>2, <1>3
    <2> QED BY <1>1, <1>4, <2>1 DEF Refuses, ServeBegin, ServeWrite, ServeFind, Replies, Answered, frame
<1>5. CASE ServeEnd(frame)
    <2>1. answer(TRUE, 0, 0) \in Answers /\ answer(frame.op = "rollback", 0, 0) \in Answers
        BY <1>2
    <2>2. frame.op # "begin"
        BY <1>5 DEF ServeEnd
    <2>3. ASSUME NEW fine \in BOOLEAN, Replies(frame, fine, 0, 0)
          PROVE  Answered(frame, answer(fine, 0, 0))
        BY <1>5, <2>2, <2>3 DEF Replies, Answered
    <2>4. CASE Replies(frame, TRUE, 0, 0)
        BY <1>1, <2>1, <2>3, <2>4 DEF frame
    <2>5. CASE Replies(frame, frame.op = "rollback", 0, 0)
        BY <1>1, <2>1, <2>3, <2>5 DEF frame
    <2> QED BY <1>5, <2>4, <2>5 DEF ServeEnd
<1>6. CASE ServeFetch(frame)
    <2>1. PICK c \in cursors : Replies(frame, TRUE, 0, IF c.left = 1 THEN 0 ELSE c.id)
        BY <1>6 DEF ServeFetch
    <2>2. answer(TRUE, 0, IF c.left = 1 THEN 0 ELSE c.id) \in Answers
        BY <1>2, <1>3
    <2>3. frame.op # "begin"
        BY <1>6 DEF ServeFetch
    <2>4. Answered(frame, answer(TRUE, 0, IF c.left = 1 THEN 0 ELSE c.id))
        BY <1>6, <2>1, <2>3 DEF Replies, Answered
    <2> QED BY <1>1, <2>2, <2>4 DEF frame
<1> QED BY <1>4, <1>5, <1>6 DEF Serve, frame

LEMMA ServeTypes ==
    ASSUME Types, Serve
    PROVE  Types'
<1> DEFINE frame == Head(requests)
<1>1. /\ frame \in Requests /\ requests' \in Seq(Requests)
      /\ UNCHANGED <<linkVars, lockVars, taskVars, torn, unread>>
    BY ServeAnswers
<1>2. frame.by \in Tasks /\ frame.tx \in Nat /\ serial \in Nat /\ serial + 1 \in Nat \ {0} /\ Pages \in Nat
    BY <1>1, PagesAssumption DEF Requests, Types, TypeOK
<1>3. answers' \in Seq(Answers)
    <2>1. PICK answer \in Answers : Answered(frame, answer)
        BY ServeAnswers
    <2> QED BY <2>1, AppendProperties DEF Answered, Types, TypeOK
<1> HIDE DEF frame
<1> DEFINE Good == /\ open' \in SUBSET Transactions /\ staged' \in SUBSET (Tasks \X Nat)
                   /\ applied' \in SUBSET Tasks /\ cursors' \in SUBSET Cursors /\ serial' \in Nat
<1>4. ASSUME Refuses(frame) PROVE Good
    BY <1>4 DEF Refuses, Types, TypeOK
<1>5. ASSUME ServeBegin(frame) PROVE Good
    <2>1. [id |-> serial + 1, by |-> frame.by] \in Transactions
        BY <1>2 DEF Transactions
    <2> QED BY <1>2, <1>5, <2>1 DEF ServeBegin, Types, TypeOK
<1>6. ASSUME ServeWrite(frame) PROVE Good
    BY <1>2, <1>6 DEF ServeWrite, Types, TypeOK
<1>7. ASSUME ServeEnd(frame) PROVE Good
    <2>1. open' \in SUBSET Transactions /\ staged' \in SUBSET (Tasks \X Nat)
        BY <1>7 DEF ServeEnd, Types, TypeOK
    <2>2. {w[1] : w \in {v \in staged : v[2] = frame.tx}} \subseteq Tasks
        BY DEF Types, TypeOK
    <2> QED BY <1>7, <2>1, <2>2 DEF ServeEnd, Types, TypeOK
<1>8. ASSUME ServeFind(frame) PROVE Good
    <2>1. \A left \in 1 .. Pages - 1 : [id |-> serial + 1, by |-> frame.by, left |-> left] \in Cursors
        BY <1>2 DEF Cursors
    <2> QED BY <1>2, <1>8, <2>1 DEF ServeFind, Types, TypeOK
<1>9. ASSUME ServeFetch(frame) PROVE Good
    <2>1. PICK c \in cursors :
             cursors' = (cursors \ {c}) \cup (IF c.left = 1 THEN {} ELSE {[c EXCEPT !.left = @ - 1]})
        BY <1>9 DEF ServeFetch
    <2>2. c \in Cursors /\ c.left \in 1 .. Pages
        BY DEF Types, TypeOK, Cursors
    <2>3. c.left # 1 => [c EXCEPT !.left = @ - 1] \in Cursors
        BY <1>2, <2>2 DEF Cursors
    <2> QED BY <1>9, <2>1, <2>3 DEF ServeFetch, Types, TypeOK
<1>10. Good
    BY <1>4, <1>5, <1>6, <1>7, <1>8, <1>9 DEF Serve, frame
<1> QED BY <1>1, <1>3, <1>10 DEF Types, TypeOK, LockOK, CallsOK, linkVars, lockVars, taskVars

THEOREM InitTypes == Init => Types
<1> SUFFICES ASSUME Init PROVE Types
    OBVIOUS
<1>1. \A t \in Tasks : FirstOp(t) \in OpsOf(t)
    BY TasksAssumption DEF Tasks, FirstOp, OpsOf
<1>2. \A t \in Tasks : [by |-> t, op |-> FirstOp(t), tx |-> 0, cursor |-> 0] \in Requests
    BY <1>1, OpsInOps DEF Requests
<1>3. TypeOK
    BY <1>1, <1>2, OpsInOps, EmptySeq DEF Init, TypeOK
<1>4. NoTask \notin Tasks /\ Len(<<>>) = 0
    BY TasksAssumption DEF Tasks
<1>5. LockOK
    BY <1>4 DEF Init, LockOK, Members, Distinct
<1> QED BY <1>1, <1>3, <1>5 DEF Types, CallsOK, Init

LEMMA StepTypes == Types /\ [Next]_vars => Types'
<1> SUFFICES ASSUME Types, [Next]_vars PROVE Types'
    OBVIOUS
<1>1. ASSUME NEW t \in Tasks, Advances(t) \/ Cancel(t) PROVE Types'
    BY <1>1, CallTypes, TakeLockTypes, ReadTypes, CancelTypes DEF Advances
<1>2. CASE Close \/ ConnectionLost
    BY <1>2, LinkTypes
<1>3. CASE Serve
    BY <1>3, ServeTypes
<1>4. CASE ServerForgets
    BY <1>4 DEF ServerForgets, Types, TypeOK, LockOK, CallsOK, linkVars, lockVars, taskVars, wireVars
<1>5. CASE UNCHANGED vars
    BY <1>5 DEF vars, Types, TypeOK, LockOK, CallsOK, linkVars, lockVars, taskVars, wireVars, serverVars
<1> QED BY <1>1, <1>2, <1>3, <1>4, <1>5 DEF Next

LEMMA AlwaysTypes == Spec => []Types
BY InitTypes, StepTypes, PTL DEF Spec

\* Every variable of the backend, its tasks, the connection and the server keeps
\* its type: ids that were never given out are 0, not a missing value.
THEOREM NativeTypes == Spec => []TypeOK
<1>1. Types => TypeOK
    BY DEF Types
<1> QED BY <1>1, AlwaysTypes, PTL

-----------------------------------------------------------------------------
(* How far the answers can fall behind.                                       *)

\* Requests whose answers have not been read, and the frame of the last of them.
Behind == Len(answers) + Len(requests)
NextUp == IF requests = <<>> THEN answers[Len(answers)].to ELSE requests[Len(requests)]

\* The task of a frame left unread does not wait for that operation again.
UnreadOK ==
    /\ IsFiniteSet(unread)
    /\ \A f \in unread : pc[f.by] = "ended" \/ (f.op = "write" /\ op[f.by] = "rollback")

InStep ==
    socket = "open" =>
        IF holder = NoTask THEN Behind <= Cardinality(unread)
        ELSE Behind > 0 /\ NextUp = request[holder] /\ Behind <= Cardinality(unread) + 1

LEMMA InStepMeans == Types /\ InStep => StreamInStep
<1> SUFFICES ASSUME Types, InStep PROVE StreamInStep
    OBVIOUS
<1> DEFINE back == [i \in DOMAIN answers |-> answers[i].to]
<1>1. answers \in Seq(Answers) /\ requests \in Seq(Requests)
    BY DEF Types, TypeOK
<1>2. /\ Len(answers) \in Nat /\ DOMAIN answers = 1 .. Len(answers) /\ Len(requests) \in Nat
      /\ \A i \in 1 .. Len(answers) : answers[i].to \in Requests
    <2>1. Len(answers) \in Nat /\ DOMAIN answers = 1 .. Len(answers) /\ Len(requests) \in Nat
        BY <1>1, LenProperties
    <2>2. \A i \in 1 .. Len(answers) : answers[i] \in Answers
        BY <1>1, ElementOfSeq
    <2> QED BY <2>1, <2>2 DEF Answers
<1>3. /\ back \in Seq(Requests) /\ Len(back) = Len(answers)
      /\ \A i \in 1 .. Len(answers) : back[i] = answers[i].to
    BY <1>2
<1> HIDE DEF back
<1>4. /\ back \o requests \in Seq(Requests) /\ Len(back \o requests) = Behind
      /\ \A i \in 1 .. Behind : (back \o requests)[i] =
             IF i <= Len(answers) THEN back[i] ELSE requests[i - Len(answers)]
    <2>1. /\ back \o requests \in Seq(Requests) /\ Len(back \o requests) = Len(back) + Len(requests)
          /\ \A i \in 1 .. Len(back) + Len(requests) : (back \o requests)[i] =
                 IF i <= Len(back) THEN back[i] ELSE requests[i - Len(back)]
        BY <1>1, <1>3, ConcatProperties, Zenon
    <2>2. Len(back) + Len(requests) = Behind
        BY <1>3 DEF Behind
    <2> QED BY <1>3, <2>1, <2>2
<1>5. InFlight = back \o requests
    BY DEF InFlight, back
<1>6. requests = <<>> <=> Len(requests) = 0
    BY <1>1, EmptySeq
<1>7. ASSUME Behind > 0
      PROVE  InFlight # <<>> /\ Last(InFlight) = NextUp
    <2>1. InFlight # <<>> /\ Last(InFlight) = InFlight[Behind]
        BY <1>4, <1>5, <1>7, EmptySeq DEF Last
    <2>2. CASE requests = <<>>
        BY <1>2, <1>3, <1>4, <1>5, <1>6, <1>7, <2>1, <2>2 DEF Behind, NextUp
    <2>3. CASE requests # <<>>
        <3>1. Behind \in 1 .. Behind /\ ~ (Behind <= Len(answers)) /\ Behind - Len(answers) = Len(requests)
            BY <1>2, <1>6, <1>7, <2>3 DEF Behind
        <3> QED BY <1>4, <1>5, <2>1, <2>3, <3>1 DEF NextUp
    <2> QED BY <2>2, <2>3
<1>8. \A t \in Tasks : pc[t] \in {"sent", "reading"} <=> holder = t
    BY DEF Types, LockOK
<1> QED BY <1>4, <1>5, <1>7, <1>8 DEF InStep, StreamInStep

\* A task in flight has not left its frame unread before.
LEMMA NotUnread ==
    ASSUME Types, UnreadOK, NEW t \in Tasks, pc[t] \in {"sent", "reading"}
    PROVE  /\ request[t] \notin unread
           /\ IsFiniteSet(unread \cup {request[t]})
           /\ Cardinality(unread) \in Nat
           /\ Cardinality(unread \cup {request[t]}) = Cardinality(unread) + 1
<1>1. request[t].by = t /\ request[t].op = op[t] /\ pc[t] # "ended"
    BY DEF Types, CallsOK
<1>2. request[t] \notin unread
    BY <1>1 DEF UnreadOK
<1> QED BY <1>2, FS_AddElement, FS_CardinalityType DEF UnreadOK

\* Steps of task t after which nothing more is unread.
LEMMA UnreadKept ==
    ASSUME Types, UnreadOK, NEW t \in Tasks, pc[t] # "ended", unread' = unread,
           \/ Leaves(t)
           \/ op' = op /\ \E p : pc' = [pc EXCEPT ![t] = p]
    PROVE  UnreadOK'
<1>1. \A s \in Tasks \ {t} : pc'[s] = pc[s] /\ op'[s] = op[s]
    BY DEF Leaves, Types, TypeOK
<1>2. unread \subseteq Requests
    BY DEF Types, TypeOK
<1>3. ASSUME NEW f \in unread, f.by = t
      PROVE  pc'[t] = "ended" \/ (f.op = "write" /\ op'[t] = "rollback")
    <2>1. f.op = "write" /\ op[t] = "rollback"
        BY <1>3 DEF UnreadOK
    <2>2. CASE Leaves(t)
        <3>1. \A o : ~ Follows(op[t], o)
            BY <2>1 DEF Follows
        <3> QED BY <2>2, <3>1 DEF Leaves, Types, TypeOK
    <2> QED BY <2>1, <2>2
<1>4. \A f \in unread : f.by \in Tasks
    BY <1>2 DEF Requests
<1> QED BY <1>1, <1>3, <1>4 DEF UnreadOK

\* Steps after which the answer of t's request is left unread.
LEMMA UnreadGrows ==
    ASSUME Types, UnreadOK, NEW t \in Tasks, pc[t] \in {"sent", "reading"}, Raised(t), Leaves(t),
           unread' = unread \cup {request[t]}
    PROVE  UnreadOK'
<1>1. \A s \in Tasks \ {t} : pc'[s] = pc[s] /\ op'[s] = op[s]
    BY DEF Leaves, Types, TypeOK
<1>2. request[t].by = t /\ request[t].op = op[t]
    BY DEF Types, CallsOK
<1>3. pc'[t] = "ended" \/ (op[t] = "write" /\ op'[t] = "rollback")
    BY DEF Raised, Types, TypeOK
<1>4. ASSUME NEW f \in unread, f.by = t
      PROVE  pc'[t] = "ended" \/ (f.op = "write" /\ op'[t] = "rollback")
    BY <1>4 DEF UnreadOK, Raised, Types, TypeOK
<1>5. \A f \in unread : f.by \in Tasks
    BY DEF Types, TypeOK, Requests
<1> QED BY <1>1, <1>2, <1>3, <1>4, <1>5, NotUnread DEF UnreadOK

LEMMA Unanswered ==
    ASSUME Types
    PROVE  /\ Len(answers) \in Nat /\ Len(requests) \in Nat /\ Behind \in Nat
           /\ requests = <<>> <=> Len(requests) = 0
           /\ answers = <<>> <=> Len(answers) = 0
<1>1. answers \in Seq(Answers) /\ requests \in Seq(Requests)
    BY DEF Types, TypeOK
<1> QED BY <1>1, LenProperties, EmptySeq DEF Behind

\* A frame that is sent becomes the last in flight.
LEMMA SendsInStep ==
    ASSUME Types, UnreadOK, InStep, NEW t \in Tasks, NEW frame \in Requests, Sends(t, frame),
           holder = NoTask, request'[t] = frame, UNCHANGED <<socket, answers, unread>>
    PROVE  InStep'
<1>1. Cardinality(unread) \in Nat /\ t # NoTask
    BY FS_CardinalityType, TasksAssumption DEF UnreadOK, Tasks
<1>2. CASE Sent(t, frame)
    <2>1. SUFFICES ASSUME socket = "open" PROVE Behind' > 0 /\ NextUp' = frame /\ Behind' <= Cardinality(unread) + 1
        BY <1>1, <1>2 DEF InStep, Sent
    <2>2. requests' = Append(requests, frame) /\ requests \in Seq(Requests)
        BY <1>2, <2>1 DEF Sent, Types, TypeOK
    <2>3. Len(requests') = Len(requests) + 1 /\ requests' # <<>> /\ requests'[Len(requests) + 1] = frame
        BY <2>2, AppendProperties
    <2>4. Behind <= Cardinality(unread)
        BY <2>1 DEF InStep
    <2>5. Len(answers) \in Nat /\ Len(requests) \in Nat /\ answers' = answers
        BY Unanswered
    <2> QED BY <1>1, <2>3, <2>4, <2>5 DEF Behind, NextUp
<1>3. CASE holder' = NoTask /\ UNCHANGED requests
    BY <1>3 DEF InStep, Behind
<1> QED BY <1>2, <1>3, SendsForm

LEMMA AdvancesInStep ==
    ASSUME Types, UnreadOK, InStep, NEW t \in Tasks, Advances(t) \/ Cancel(t)
    PROVE  InStep' /\ UnreadOK'
<1>0. /\ NoTask \notin Tasks /\ Cardinality(unread) \in Nat
      /\ Len(answers) \in Nat /\ Len(requests) \in Nat /\ Behind \in Nat
    BY TasksAssumption, FS_CardinalityType, Unanswered DEF UnreadOK, Tasks
<1>1. CASE Call(t)
    <2>1. pc[t] = "ready" /\ holder # t /\ UNCHANGED <<socket, answers, unread>>
        BY <1>1 DEF Call, Types, LockOK, linkVars
    <2>2. CASE Raises(t, "failed") /\ UNCHANGED <<request, lockVars, requests>>
        <3>1. UnreadOK'
            BY <2>1, <2>2, RaisesLeave, UnreadKept
        <3> QED BY <2>1, <2>2, <3>1 DEF InStep, Behind, NextUp, lockVars
    <2>3. CASE request' = [request EXCEPT ![t] = Frame(t)] /\ Sends(t, Frame(t)) /\ holder = NoTask
        <3>1. Frame(t) \in Requests /\ request'[t] = Frame(t)
            BY <2>3, FrameType DEF Types, TypeOK
        <3>2. InStep'
            BY <2>1, <2>3, <3>1, SendsInStep
        <3>3. UnreadOK'
            BY <2>1, <2>3, SendsForm, UnreadKept DEF Sent
        <3> QED BY <3>2, <3>3
    <2>4. CASE /\ request' = [request EXCEPT ![t] = Frame(t)] /\ pc' = [pc EXCEPT ![t] = "queued"]
               /\ UNCHANGED <<holder, op, outcome, requests>>
        <3>1. UnreadOK'
            BY <2>1, <2>4, UnreadKept
        <3>2. holder # NoTask => request'[holder] = request[holder]
            BY <2>1, <2>4 DEF Types, TypeOK
        <3> QED BY <2>1, <2>4, <3>1, <3>2 DEF InStep, Behind, NextUp
    <2> QED BY <1>1, <2>2, <2>3, <2>4 DEF Call, Frame
<1>2. CASE TakeLock(t)
    <2>1. /\ queue # <<>> /\ Head(queue) = t /\ holder = NoTask /\ Sends(t, request[t])
          /\ request' = request /\ UNCHANGED <<socket, answers, unread>>
        BY <1>2 DEF TakeLock, linkVars
    <2>2. pc[t] = "queued" /\ request[t] \in Requests
        BY <2>1, QueueServe DEF Types, TypeOK, LockOK
    <2>3. InStep'
        BY <2>1, <2>2, SendsInStep
    <2>4. UnreadOK'
        BY <2>1, <2>2, SendsForm, UnreadKept DEF Sent
    <2> QED BY <2>3, <2>4
<1>3. CASE ReadHeader(t)
    <2>1. UnreadOK'
        BY <1>3, UnreadKept DEF ReadHeader, wireVars
    <2> QED BY <1>3, <2>1 DEF ReadHeader, linkVars, lockVars, wireVars, InStep, Behind, NextUp
<1>4. CASE ReadRest(t)
    <2>1. /\ pc[t] = "reading" /\ answers # <<>> /\ answers' = Tail(answers) /\ holder' = NoTask
          /\ UNCHANGED <<linkVars, queue, request, cancelledIn, requests, torn, unread, serverVars>>
        BY <1>4 DEF ReadRest
    <2>2. Head(answers) \in Answers /\ Len(answers') = Len(answers) - 1
        BY <2>1, HeadTailProperties DEF Types, TypeOK
    <2>3. Leaves(t)
        BY <1>4, <2>2, RaisesLeave, TakesLeave DEF ReadRest
    <2>4. UnreadOK'
        BY <2>1, <2>3, UnreadKept
    <2>5. holder = t
        BY <2>1 DEF Types, LockOK
    <2>6. InStep'
        BY <1>0, <2>1, <2>2, <2>5 DEF InStep, Behind, linkVars
    <2> QED BY <2>4, <2>6
<1>5. CASE ReadFails(t)
    <2>1. UnreadOK'
        BY <1>5, RaisesLeave, UnreadKept DEF ReadFails, wireVars
    <2> QED BY <1>5, <2>1 DEF ReadFails, InStep, linkVars
<1>6. CASE ReadGarbage(t)
    <2>1. /\ pc[t] \in {"sent", "reading"} /\ holder' = NoTask /\ Raises(t, "failed")
          /\ unread' = unread \cup {request[t]}
          /\ UNCHANGED <<linkVars, queue, request, txnMap, cursor, cancelledIn, requests, serverVars>>
        BY <1>6 DEF ReadGarbage
    <2>2. PICK n \in 0 .. Len(answers) : answers' = SubSeq(answers, n + 1, Len(answers))
        BY <1>6 DEF ReadGarbage
    <2>3. Len(answers') = Len(answers) - n
        BY <2>2, Suffix DEF Types, TypeOK
    <2>4. UnreadOK'
        BY <2>1, RaisesLeave, UnreadGrows
    <2>5. holder = t /\ Cardinality(unread') = Cardinality(unread) + 1
        BY <2>1, NotUnread DEF Types, LockOK
    <2>6. InStep'
        BY <1>0, <2>1, <2>3, <2>5 DEF InStep, Behind, linkVars
    <2> QED BY <2>4, <2>6
<1>7. CASE Cancel(t)
    <2>1. Raises(t, "cancelled") /\ UNCHANGED <<linkVars, request, requests, answers>>
        BY <1>7 DEF Cancel
    <2>2. CASE pc[t] = "queued" /\ UNCHANGED <<holder, torn, unread>>
        <3>1. UnreadOK'
            BY <2>1, <2>2, RaisesLeave, UnreadKept
        <3> QED BY <2>1, <2>2, <3>1 DEF InStep, Behind, NextUp, linkVars
    <2>3. CASE pc[t] \in {"sent", "reading"} /\ holder' = NoTask /\ unread' = unread \cup {request[t]}
        <3>1. UnreadOK'
            BY <2>1, <2>3, RaisesLeave, UnreadGrows
        <3>2. holder = t /\ Cardinality(unread') = Cardinality(unread) + 1
            BY <2>3, NotUnread DEF Types, LockOK
        <3>3. InStep'
            BY <1>0, <2>1, <2>3, <3>2 DEF InStep, Behind, linkVars
        <3> QED BY <3>1, <3>3
    <2> QED BY <1>7, <2>2, <2>3 DEF Cancel
<1> QED BY <1>1, <1>2, <1>3, <1>4, <1>5, <1>6, <1>7 DEF Advances

\* The server moves the first request over to the answers: what is in flight stays.
LEMMA ServeInStep ==
    ASSUME Types, UnreadOK, InStep, Serve
    PROVE  InStep' /\ UnreadOK'
<1>1. PICK answer \in Answers : Answered(Head(requests), answer)
    BY ServeAnswers
<1>2. /\ requests # <<>> /\ Head(requests) \in Requests /\ requests' = Tail(requests)
      /\ requests' \in Seq(Requests)
      /\ UNCHANGED <<linkVars, lockVars, taskVars, torn, unread>>
    BY ServeAnswers
<1>3. UnreadOK'
    BY <1>2 DEF UnreadOK, taskVars
<1>4. ASSUME socket = "open"
      PROVE  Behind' = Behind /\ NextUp' = NextUp
    <2>1. answers \in Seq(Answers) /\ requests \in Seq(Requests)
        BY DEF Types, TypeOK
    <2>2. answers' = Append(answers, answer) /\ answer.to = Head(requests)
        BY <1>1, <1>4 DEF Answered
    <2>3. /\ Len(answers') = Len(answers) + 1 /\ answers'[Len(answers) + 1] = answer
          /\ Len(answers) \in Nat /\ Len(requests) \in Nat \ {0}
        BY <2>1, <2>2, <1>2, AppendProperties, LenProperties, EmptySeq
    <2>4. /\ Len(requests') = Len(requests) - 1 /\ Head(requests) = requests[1]
          /\ \A i \in 1 .. Len(requests) - 1 : requests'[i] = requests[i + 1]
        BY <1>2, <2>1, HeadTailProperties
    <2>5. requests' = <<>> <=> Len(requests') = 0
        BY <1>2, EmptySeq
    <2>6. Behind' = Behind
        BY <2>3, <2>4 DEF Behind
    <2>7. CASE Len(requests) = 1
        BY <1>2, <2>2, <2>3, <2>4, <2>5, <2>6, <2>7 DEF NextUp
    <2>8. CASE Len(requests) # 1
        <3>1. Len(requests) - 1 \in 1 .. Len(requests) - 1 /\ requests' # <<>>
            BY <2>3, <2>4, <2>5, <2>8
        <3>2. requests'[Len(requests')] = requests[Len(requests)]
            BY <2>3, <2>4, <3>1
        <3> QED BY <1>2, <2>6, <3>1, <3>2 DEF NextUp
    <2> QED BY <2>7, <2>8
<1>5. InStep'
    BY <1>2, <1>4 DEF InStep, linkVars, lockVars, taskVars
<1> QED BY <1>3, <1>5

SyncInv == Types /\ UnreadOK /\ InStep

THEOREM SyncInvariant == Spec => []SyncInv
<1>1. Init => SyncInv
    <2> SUFFICES ASSUME Init PROVE SyncInv
        OBVIOUS
    <2>1. Len(answers) = 0 /\ Len(requests) = 0 /\ unread = {} /\ holder = NoTask
        BY DEF Init
    <2> QED BY <2>1, InitTypes, FS_EmptySet DEF SyncInv, UnreadOK, InStep, Behind
<1>2. SyncInv /\ [Next]_vars => SyncInv'
    <2> SUFFICES ASSUME SyncInv, [Next]_vars PROVE SyncInv'
        OBVIOUS
    <2>1. Types'
        BY StepTypes DEF SyncInv
    <2>2. ASSUME NEW t \in Tasks, Advances(t) \/ Cancel(t) PROVE InStep' /\ UnreadOK'
        BY <2>2, AdvancesInStep DEF SyncInv
    <2>3. CASE Close \/ ConnectionLost
        BY <2>1, <2>3 DEF Close, ConnectionLost, Drops, SyncInv, InStep, UnreadOK, taskVars
    <2>4. CASE Serve
        BY <2>1, <2>4, ServeInStep DEF SyncInv
    <2>5. CASE ServerForgets \/ UNCHANGED vars
        BY <2>1, <2>5 DEF ServerForgets, vars, linkVars, lockVars, taskVars, wireVars,
                    SyncInv, InStep, Behind, NextUp, UnreadOK
    <2> QED BY <2>1, <2>2, <2>3, <2>4, <2>5 DEF Next, SyncInv
<1> QED BY <1>1, <1>2, PTL DEF Spec

\* Whoever waits for an answer holds the lock and is the last in flight, and the
\* answers are behind by no more than the requests whose answers nobody read.
THEOREM AnswersInStep == Spec => []StreamInStep
<1>1. SyncInv => StreamInStep
    BY InStepMeans DEF SyncInv
<1> QED BY <1>1, SyncInvariant, PTL

-----------------------------------------------------------------------------
(* Whose commit commits a transaction.                                        *)

\* As long as no answer was left unread, at most one is there, and it is that of
\* the task that holds the lock.
Exact ==
    unread = {} =>
        /\ ~torn /\ Len(answers) <= 1
        /\ answers # <<>> => holder # NoTask /\ answers[1].to = request[holder]

\* Ids are given out in order and to one transaction each.
Numbered ==
    /\ \A x, y \in open : x.id <= serial /\ (x.id = y.id => x = y)
    /\ \A t \in Txs : txnMap[t] <= serial
    /\ \A t \in Tasks : request[t].tx <= serial
    /\ \A f \in Members(requests) : f.tx <= serial
    /\ \A a \in Members(answers) : a.txn <= serial

\* A task that has sent a commit sends nothing after it.
CommitSent == \A f \in Members(requests) : f.op = "commit" => op[f.by] = "commit"

\* A frame is in a transaction of its own task or in none, and the writes of a
\* transaction block are never in none.
OwnId(t, id) == \A x \in open : x.id = id => x.by = t
OfItsTask(f) ==
    /\ f.by \notin Txs => f.tx = 0
    /\ f.by \in Txs /\ f.op = "write" => f.tx # 0
    /\ OwnId(f.by, f.tx)

Owned ==
    unread = {} =>
        /\ \A f \in Members(requests) : OfItsTask(f)
        /\ \A t \in Tasks : pc[t] = "queued" => OfItsTask(request[t])
        /\ \A t \in Txs : /\ OwnId(t, txnMap[t])
                          /\ op[t] = "write" /\ pc[t] = "ready" => txnMap[t] # 0
        /\ \A a \in Members(answers) :
              a.fine /\ a.to.op = "begin" => a.txn # 0 /\ OwnId(a.to.by, a.txn)
        /\ \A w \in staged : w[1] \in Txs => \E x \in open : x.id = w[2] /\ x.by = w[1]
        /\ \A t \in Txs \cap applied : op[t] = "commit"

LEMMA MembersAppend ==
    ASSUME NEW S, NEW q \in Seq(S), NEW e \in S
    PROVE  Members(Append(q, e)) = Members(q) \cup {e}
<1>1. Len(q) \in Nat
    BY LenProperties
<1>2. /\ Len(Append(q, e)) = Len(q) + 1
      /\ \A i \in 1 .. Len(q) : Append(q, e)[i] = q[i]
      /\ Append(q, e)[Len(q) + 1] = e
    BY AppendProperties
<1> QED BY <1>1, <1>2 DEF Members

LEMMA MembersTail ==
    ASSUME NEW S, NEW q \in Seq(S), q # <<>>
    PROVE  Head(q) \in Members(q) /\ Members(Tail(q)) \subseteq Members(q)
<1>1. Len(q) \in Nat \ {0} /\ Head(q) = q[1]
    BY EmptySeq
<1>2. Len(Tail(q)) = Len(q) - 1 /\ \A i \in 1 .. Len(Tail(q)) : Tail(q)[i] = q[i + 1]
    BY HeadTailProperties
<1> QED BY <1>1, <1>2 DEF Members

LEMMA MembersPart ==
    ASSUME NEW S, NEW q \in Seq(S), NEW n \in 0 .. Len(q)
    PROVE  /\ Members(SubSeq(q, 1, n)) \subseteq Members(q)
           /\ Members(SubSeq(q, n + 1, Len(q))) \subseteq Members(q)
<1>1. Len(q) \in Nat
    BY LenProperties
<1>2. /\ Len(SubSeq(q, 1, n)) = n
      /\ \A i \in 1 .. n : SubSeq(q, 1, n)[i] = q[i]
    BY Prefix
<1>3. /\ Len(SubSeq(q, n + 1, Len(q))) = Len(q) - n
      /\ \A i \in 1 .. Len(q) - n : SubSeq(q, n + 1, Len(q))[i] = q[n + i]
    BY Suffix
<1>4. Members(SubSeq(q, 1, n)) \subseteq Members(q)
    BY <1>1, <1>2 DEF Members
<1>5. Members(SubSeq(q, n + 1, Len(q))) \subseteq Members(q)
    <2> DEFINE p == SubSeq(q, n + 1, Len(q))
    <2>1. Len(p) = Len(q) - n /\ \A i \in 1 .. Len(q) - n : p[i] = q[n + i]
        BY <1>3
    <2> HIDE DEF p
    <2>2. \A i \in 1 .. Len(q) - n : n + i \in 1 .. Len(q)
        BY <1>1
    <2>3. Members(p) \subseteq Members(q)
        BY <2>1, <2>2 DEF Members
    <2> QED BY <2>3 DEF p
<1> QED BY <1>4, <1>5

LEMMA MembersTyped ==
    ASSUME Types
    PROVE  /\ \A f \in Members(requests) : f \in Requests
           /\ \A a \in Members(answers) : a \in Answers /\ a.to \in Requests
<1>1. requests \in Seq(Requests) /\ answers \in Seq(Answers)
    BY DEF Types, TypeOK
<1>2. /\ \A i \in 1 .. Len(requests) : requests[i] \in Requests
      /\ \A i \in 1 .. Len(answers) : answers[i] \in Answers
    BY <1>1, ElementOfSeq
<1> QED BY <1>2 DEF Members, Answers

\* A step of task t, which touches nothing of the server's.
TaskStep(t) ==
    /\ UNCHANGED <<open, staged, applied, serial>> /\ unread \subseteq unread'
    /\ \A s \in Tasks \ {t} : pc'[s] = pc[s] /\ op'[s] = op[s] /\ request'[s] = request[s]
    /\ op[t] = "commit" => op'[t] = "commit"
    /\ Members(answers') \subseteq Members(answers)

\* It sends nothing, or the frame of its operation, which is in its transaction.
Frames(t) ==
    \/ Members(requests') \subseteq Members(requests)
    \/ /\ Members(requests') \subseteq Members(requests) \cup {request'[t]}
       /\ request'[t].by = t /\ request'[t].op = op'[t]
       /\ unread = {} => OfItsTask(request'[t])

\* Its entry of the map stays its own.
Maps(t) ==
    /\ \A s \in Txs \ {t} : txnMap'[s] = txnMap[s]
    /\ t \in Txs =>
          /\ txnMap'[t] <= serial
          /\ unread = {} =>
                /\ OwnId(t, txnMap'[t])
                /\ op'[t] = "write" /\ pc'[t] = "ready" => txnMap'[t] # 0

LEMMA TaskOwned ==
    ASSUME Types, Numbered, CommitSent, Owned, NEW t \in Tasks,
           TaskStep(t), Frames(t), Maps(t), request'[t].tx <= serial,
           pc'[t] = "queued" /\ unread = {} => OfItsTask(request'[t])
    PROVE  Numbered' /\ CommitSent' /\ Owned'
<1>0. Txs \subseteq Tasks
    BY DEF Tasks
<1>1. Numbered'
    <2>1. \A x, y \in open' : x.id <= serial' /\ (x.id = y.id => x = y)
        BY DEF Numbered, TaskStep
    <2>2. \A s \in Txs : txnMap'[s] <= serial'
        BY DEF Numbered, TaskStep, Maps
    <2>3. \A s \in Tasks : request'[s].tx <= serial'
        BY DEF Numbered, TaskStep
    <2>4. \A f \in Members(requests') : f.tx <= serial'
        BY DEF Numbered, TaskStep, Frames
    <2>5. \A a \in Members(answers') : a.txn <= serial'
        BY DEF Numbered, TaskStep
    <2> QED BY <2>1, <2>2, <2>3, <2>4, <2>5 DEF Numbered
<1>2. \A s \in Tasks : op[s] = "commit" => op'[s] = "commit"
    BY DEF TaskStep
<1>3. CommitSent'
    <2>1. \A f \in Members(requests) : f.by \in Tasks
        BY MembersTyped DEF Requests
    <2>2. \A f \in Members(requests') : f.op = "commit" => op'[f.by] = "commit"
        BY <1>2, <2>1 DEF CommitSent, Frames
    <2> QED BY <2>2 DEF CommitSent
<1>4. open' = open
    BY DEF TaskStep
<1>5. Owned'
    <2>1. SUFFICES ASSUME unread' = {} PROVE Owned'
        BY DEF Owned
    <2>2. unread = {}
        BY <2>1 DEF TaskStep
    <2>3. \A f \in Members(requests') : OfItsTask(f)
        BY <2>2 DEF Owned, Frames
    <2>4. ASSUME NEW s \in Tasks, pc'[s] = "queued"
          PROVE  OfItsTask(request'[s])
        <3>1. CASE s = t
            BY <2>2, <2>4, <3>1
        <3>2. CASE s # t
            <4>1. pc[s] = "queued" /\ request'[s] = request[s]
                BY <2>4, <3>2 DEF TaskStep
            <4>2. OfItsTask(request[s])
                BY <2>2, <4>1 DEF Owned
            <4> QED BY <4>1, <4>2
        <3> QED BY <3>1, <3>2
    <2>5. ASSUME NEW s \in Txs
          PROVE  OwnId(s, txnMap'[s]) /\ (op'[s] = "write" /\ pc'[s] = "ready" => txnMap'[s] # 0)
        <3>1. CASE s = t
            BY <2>2, <3>1 DEF Maps
        <3>2. CASE s # t
            <4>1. txnMap'[s] = txnMap[s] /\ op'[s] = op[s] /\ pc'[s] = pc[s]
                BY <1>0, <3>2 DEF TaskStep, Maps
            <4>2. OwnId(s, txnMap[s]) /\ (op[s] = "write" /\ pc[s] = "ready" => txnMap[s] # 0)
                BY <2>2 DEF Owned
            <4> QED BY <4>1, <4>2
        <3> QED BY <3>1, <3>2
    <2>6. \A a \in Members(answers') :
              a.fine /\ a.to.op = "begin" => a.txn # 0 /\ OwnId(a.to.by, a.txn)
        BY <2>2 DEF Owned, TaskStep
    <2>7. \A w \in staged' : w[1] \in Txs => \E x \in open' : x.id = w[2] /\ x.by = w[1]
        BY <2>2 DEF Owned, TaskStep
    <2>8. \A s \in Txs \cap applied' : op'[s] = "commit"
        BY <1>0, <1>2, <2>2 DEF Owned, TaskStep
    <2>9. \A s, id : OwnId(s, id)' <=> OwnId(s, id)
        BY <1>4 DEF OwnId
    <2>10. \A f : OfItsTask(f)' <=> OfItsTask(f)
        BY <2>9 DEF OfItsTask
    <2>11. \A s \in Tasks : pc'[s] = "queued" => OfItsTask(request[s])'
        BY <1>4, <2>4 DEF OfItsTask, OwnId
    <2>12. \A s \in Txs : OwnId(s, txnMap[s])' /\ (op'[s] = "write" /\ pc'[s] = "ready" => txnMap'[s] # 0)
        BY <1>4, <2>5 DEF OwnId
    <2> QED BY <2>3, <2>6, <2>7, <2>8, <2>9, <2>10, <2>11, <2>12 DEF Owned
<1> QED BY <1>1, <1>3, <1>5

\* The steps of a task: an exception, and a frame that is sent.
LEMMA LeavesOwn ==
    ASSUME Types, NEW t \in Tasks, Leaves(t)
    PROVE  /\ \A s \in Tasks \ {t} : pc'[s] = pc[s] /\ op'[s] = op[s]
           /\ op[t] = "commit" => op'[t] = "commit"
           /\ pc'[t] \in {"ready", "ended"}
           /\ op'[t] = "write" /\ pc'[t] = "ready" => op[t] = "begin"
<1>1. PICK p \in {"ready", "ended"}, o \in OpsOf(t) :
          /\ pc' = [pc EXCEPT ![t] = p] /\ op' = [op EXCEPT ![t] = o]
          /\ IF p = "ended" THEN o = op[t] ELSE Follows(op[t], o)
    BY DEF Leaves
<1>2. /\ pc'[t] = p /\ op'[t] = o
      /\ \A s \in Tasks \ {t} : pc'[s] = pc[s] /\ op'[s] = op[s]
    BY <1>1 DEF Types, TypeOK
<1>3. Follows(op[t], o) => op[t] # "commit" /\ (o = "write" => op[t] = "begin")
    BY DEF Follows
<1> QED BY <1>1, <1>2, <1>3

LEMMA OwnIds ==
    ASSUME Types, NEW t \in Tasks
    PROVE  /\ OwnId(t, 0) /\ 0 <= serial
           /\ t \in Txs /\ Owned /\ unread = {} => OwnId(t, txnMap[t])
BY DEF OwnId, Owned, Types, TypeOK, Transactions

LEMMA RaisedOwned ==
    ASSUME Types, Numbered, CommitSent, Owned, NEW t \in Tasks, Leaves(t), Raised(t),
           UNCHANGED <<request, requests, open, staged, applied, serial>>,
           unread \subseteq unread', Members(answers') \subseteq Members(answers),
           txnMap' = txnMap \/ txnMap' = [txnMap EXCEPT ![t] = 0]
    PROVE  Numbered' /\ CommitSent' /\ Owned'
<1>1. TaskStep(t)
    BY LeavesOwn DEF TaskStep
<1>2. Frames(t)
    BY DEF Frames
<1>3. ~ (op'[t] = "write" /\ pc'[t] = "ready")
    BY DEF Raised, Types, TypeOK
<1>4. Maps(t)
    BY <1>3, OwnIds DEF Maps, Numbered, Types, TypeOK
<1>5. request'[t].tx <= serial /\ pc'[t] # "queued"
    BY LeavesOwn DEF Numbered
<1> QED BY <1>1, <1>2, <1>4, <1>5, TaskOwned

LEMMA SentOwned ==
    ASSUME Types, Numbered, CommitSent, Owned, NEW t \in Tasks,
           \/ Sent(t, request'[t])
           \/ pc' = [pc EXCEPT ![t] = "queued"] /\ UNCHANGED <<op, requests>>,
           \A s \in Tasks \ {t} : request'[s] = request[s],
           request'[t] \in Requests, request'[t].by = t, request'[t].op = op[t],
           request'[t].tx <= serial, unread = {} => OfItsTask(request'[t]),
           UNCHANGED <<answers, unread, open, staged, applied, serial>>,
           txnMap' = txnMap \/ txnMap' = [txnMap EXCEPT ![t] = 0]
    PROVE  Numbered' /\ CommitSent' /\ Owned'
<1>1. op' = op /\ pc'[t] # "ready" /\ \A s \in Tasks \ {t} : pc'[s] = pc[s]
    BY DEF Sent, Types, TypeOK
<1>2. TaskStep(t)
    BY <1>1 DEF TaskStep
<1>3. Members(requests') \subseteq Members(requests) \cup {request'[t]}
    <2>1. requests \in Seq(Requests)
        BY DEF Types, TypeOK
    <2>2. CASE requests' = Append(requests, request'[t])
        BY <2>1, <2>2, MembersAppend
    <2>3. CASE requests' = requests
        BY <2>3
    <2> QED BY <2>2, <2>3 DEF Sent
<1>4. Frames(t)
    BY <1>1, <1>3 DEF Frames
<1>5. Maps(t)
    BY <1>1, OwnIds DEF Maps, Numbered, Types, TypeOK
<1> QED BY <1>2, <1>4, <1>5, TaskOwned

\* The frame of an operation is in the transaction of its task's map.
LEMMA FrameOwned ==
    ASSUME Types, Numbered, Owned, NEW t \in Tasks, pc[t] = "ready"
    PROVE  Frame(t).tx <= serial /\ (unread = {} => OfItsTask(Frame(t)))
<1>1. Frame(t).by = t /\ Frame(t).op = op[t] /\ Frame(t).tx = IF t \in Txs THEN txnMap[t] ELSE 0
    BY DEF Frame
<1>2. Frame(t).tx <= serial
    BY <1>1, OwnIds DEF Numbered
<1>3. ASSUME unread = {}
      PROVE  OfItsTask(Frame(t))
    BY <1>1, <1>3, OwnIds DEF Owned, OfItsTask
<1> QED BY <1>2, <1>3

LEMMA AdvancesOwned ==
    ASSUME Types, Exact, Numbered, CommitSent, Owned, NEW t \in Tasks, Advances(t) \/ Cancel(t)
    PROVE  Numbered' /\ CommitSent' /\ Owned'
<1>1. CASE Call(t)
    <2>1. /\ pc[t] = "ready"
          /\ UNCHANGED <<answers, unread, open, staged, applied, serial>>
          /\ txnMap' = txnMap \/ txnMap' = [txnMap EXCEPT ![t] = 0]
        BY <1>1 DEF Call, serverVars
    <2>2. CASE Raises(t, "failed") /\ UNCHANGED <<request, requests>>
        BY <2>1, <2>2, RaisesLeave, RaisedOwned
    <2>3. CASE /\ request' = [request EXCEPT ![t] = Frame(t)]
               /\ \/ Sent(t, Frame(t))
                  \/ pc' = [pc EXCEPT ![t] = "queued"] /\ UNCHANGED <<op, requests>>
        <3>1. request'[t] = Frame(t) /\ \A s \in Tasks \ {t} : request'[s] = request[s]
            BY <2>3 DEF Types, TypeOK
        <3>2. Frame(t) \in Requests /\ Frame(t).by = t /\ Frame(t).op = op[t]
            BY FrameType DEF Frame
        <3> QED BY <2>1, <2>3, <3>1, <3>2, FrameOwned, SentOwned
    <2>4. CASE connected /\ request' = [request EXCEPT ![t] = Frame(t)] /\ Sends(t, Frame(t))
        BY <2>3, <2>4 DEF Sends, Sent
    <2> QED BY <1>1, <2>2, <2>3, <2>4 DEF Call, Frame, lockVars
<1>2. CASE TakeLock(t)
    <2>1. /\ queue # <<>> /\ Head(queue) = t /\ Sends(t, request[t]) /\ request' = request
          /\ UNCHANGED <<answers, unread, open, staged, applied, serial, txnMap>>
        BY <1>2 DEF TakeLock, serverVars
    <2>2. pc[t] = "queued" /\ request[t] \in Requests
        BY <2>1, QueueServe DEF Types, TypeOK, LockOK
    <2>3. /\ request[t].by = t /\ request[t].op = op[t] /\ request[t].tx <= serial
          /\ unread = {} => OfItsTask(request[t])
        BY <2>2 DEF Types, CallsOK, Numbered, Owned
    <2>4. CASE Sent(t, request[t])
        BY <2>1, <2>2, <2>3, <2>4, SentOwned
    <2>5. CASE Leaves(t) /\ Raised(t) /\ UNCHANGED requests
        BY <2>1, <2>5, RaisedOwned
    <2> QED BY <2>1, <2>4, <2>5, SendsForm
<1>3. CASE ReadHeader(t)
    <2>1. /\ pc' = [pc EXCEPT ![t] = "reading"]
          /\ UNCHANGED <<op, request, requests, txnMap, answers, unread, open, staged, applied, serial>>
        BY <1>3 DEF ReadHeader, wireVars, serverVars
    <2>2. TaskStep(t) /\ Frames(t) /\ pc'[t] = "reading"
        BY <2>1 DEF TaskStep, Frames, Types, TypeOK
    <2>3. Maps(t) /\ request'[t].tx <= serial
        BY <2>1, <2>2, OwnIds DEF Maps, Numbered
    <2> QED BY <2>2, <2>3, TaskOwned
<1>4. CASE ReadRest(t)
    <2> DEFINE answer == Head(answers)
    <2>1. /\ pc[t] = "reading" /\ answers # <<>> /\ answers' = Tail(answers)
          /\ UNCHANGED <<request, requests, unread, open, staged, applied, serial>>
        BY <1>4 DEF ReadRest, serverVars
    <2>2. answers \in Seq(Answers)
        BY DEF Types, TypeOK
    <2>3. answer \in Answers /\ answer = answers[1]
        BY <2>1, <2>2, HeadTailProperties
    <2>4. answer \in Members(answers) /\ Members(answers') \subseteq Members(answers)
        BY <2>1, <2>2, MembersTail
    <2>5. CASE Raises(t, "failed") /\ UNCHANGED <<txnMap, cursor>>
        BY <2>1, <2>4, <2>5, RaisesLeave, RaisedOwned
    <2>6. CASE /\ answer.fine
               /\ TakesBegin(t, answer) \/ TakesWrite(t) \/ TakesEnd(t) \/ TakesPage(t, answer)
        <3>1. /\ Leaves(t)
              /\ txnMap' = IF op[t] = "begin" THEN [txnMap EXCEPT ![t] = answer.txn] ELSE txnMap
            BY <2>3, <2>6, TakesLeave
        <3>2. TaskStep(t) /\ Frames(t) /\ request'[t].tx <= serial /\ pc'[t] # "queued"
            BY <2>1, <2>4, <3>1, LeavesOwn DEF TaskStep, Frames, Numbered
        <3>3. answer.txn <= serial
            BY <2>4 DEF Numbered
        <3>4. ASSUME op[t] = "begin", unread = {}
              PROVE  answer.txn # 0 /\ OwnId(t, answer.txn)
            <4>1. holder = t
                BY <2>1 DEF Types, LockOK
            <4>2. answer.to = request[t] /\ request[t].by = t /\ request[t].op = "begin"
                BY <2>1, <2>3, <3>4, <4>1 DEF Exact, Types, CallsOK
            <4> QED BY <2>4, <2>6, <3>4, <4>2 DEF Owned
        <3>5. op'[t] = "write" /\ pc'[t] = "ready" => op[t] = "begin"
            BY <3>1, LeavesOwn
        <3>6. Maps(t)
            BY <3>1, <3>3, <3>4, <3>5, OwnIds DEF Maps, Numbered, Types, TypeOK
        <3> QED BY <3>2, <3>6, TaskOwned
    <2> QED BY <1>4, <2>5, <2>6 DEF ReadRest
<1>5. CASE ReadFails(t)
    <2>1. /\ Raises(t, "failed")
          /\ UNCHANGED <<request, requests, txnMap, answers, unread, open, staged, applied, serial>>
        BY <1>5 DEF ReadFails, wireVars, serverVars
    <2> QED BY <2>1, RaisesLeave, RaisedOwned
<1>6. CASE ReadGarbage(t)
    <2>1. /\ Raises(t, "failed") /\ unread \subseteq unread'
          /\ UNCHANGED <<request, requests, txnMap, open, staged, applied, serial>>
        BY <1>6 DEF ReadGarbage, serverVars
    <2>2. PICK n \in 0 .. Len(answers) : answers' = SubSeq(answers, n + 1, Len(answers))
        BY <1>6 DEF ReadGarbage
    <2>3. Members(answers') \subseteq Members(answers)
        BY <2>2, MembersPart DEF Types, TypeOK
    <2> QED BY <2>1, <2>3, RaisesLeave, RaisedOwned
<1>7. CASE Cancel(t)
    <2>1. /\ Raises(t, "cancelled") /\ unread \subseteq unread'
          /\ UNCHANGED <<request, requests, answers, txnMap, open, staged, applied, serial>>
        BY <1>7 DEF Cancel, serverVars
    <2> QED BY <2>1, RaisesLeave, RaisedOwned
<1> QED BY <1>1, <1>2, <1>3, <1>4, <1>5, <1>6, <1>7 DEF Advances

\* A step of a task that takes no answer but its own.
LEMMA AdvancesExact ==
    ASSUME Types, UnreadOK, Exact, NEW t \in Tasks, Advances(t) \/ Cancel(t)
    PROVE  Exact'
<1>0. unread \subseteq unread'
    BY DEF Advances, Call, TakeLock, ReadHeader, ReadRest, ReadFails, ReadGarbage, Cancel, wireVars
<1> SUFFICES ASSUME unread' = {} PROVE Exact'
    BY DEF Exact
<1>1. /\ unread = {} /\ ~torn /\ Len(answers) <= 1
      /\ answers # <<>> => holder # NoTask /\ answers[1].to = request[holder]
    BY <1>0 DEF Exact
<1>2. answers = <<>> \/ Len(answers) = 1
    BY <1>1, Unanswered
<1>3. CASE Call(t)
    <2>1. /\ pc[t] = "ready" /\ holder # t /\ UNCHANGED <<answers, torn>>
          /\ holder = NoTask \/ holder' = holder
          /\ \A s \in Tasks \ {t} : request'[s] = request[s]
        BY <1>3 DEF Call, lockVars, Types, TypeOK, LockOK
    <2>2. holder \in Tasks \cup {NoTask}
        BY DEF Types, TypeOK
    <2> QED BY <1>1, <2>1, <2>2 DEF Exact
<1>4. CASE TakeLock(t)
    BY <1>1, <1>4 DEF TakeLock, Exact
<1>5. CASE ReadHeader(t) \/ ReadFails(t)
    BY <1>1, <1>5 DEF ReadHeader, ReadFails, lockVars, wireVars, Exact
<1>6. CASE ReadRest(t)
    <2>1. answers # <<>> /\ answers' = Tail(answers) /\ torn' = torn
        BY <1>6 DEF ReadRest
    <2>2. Len(answers') = 0 /\ answers' \in Seq(Answers)
        BY <1>2, <2>1, HeadTailProperties DEF Types, TypeOK
    <2>3. answers' = <<>>
        BY <2>2, EmptySeq
    <2> QED BY <1>1, <2>1, <2>2, <2>3 DEF Exact
<1>7. CASE ReadGarbage(t)
    BY <1>7 DEF ReadGarbage
<1>8. CASE Cancel(t)
    BY <1>1, <1>8 DEF Cancel, Exact
<1> QED BY <1>3, <1>4, <1>5, <1>6, <1>7, <1>8 DEF Advances

\* The answer the server gives is that of the one request in flight.
LEMMA ServeExact ==
    ASSUME Types, UnreadOK, InStep, Exact, Serve
    PROVE  Exact'
<1>1. PICK answer \in Answers : Answered(Head(requests), answer)
    BY ServeAnswers
<1>2. requests # <<>> /\ UNCHANGED <<linkVars, lockVars, taskVars, torn, unread>>
    BY ServeAnswers
<1>3. /\ answer.to = Head(requests)
      /\ answers' = IF socket = "open" THEN Append(answers, answer) ELSE answers
    BY <1>1 DEF Answered
<1>4. CASE socket = "open" /\ unread = {}
    <2>1. Cardinality(unread) = 0
        BY <1>4, FS_EmptySet
    <2>2. /\ Len(answers) \in Nat /\ Len(requests) \in Nat /\ Behind \in Nat
          /\ Len(requests) > 0 /\ (answers = <<>> <=> Len(answers) = 0)
        BY <1>2, Unanswered
    <2>3. holder # NoTask /\ NextUp = request[holder] /\ Len(requests) = 1 /\ Len(answers) = 0
        <3>1. Behind = Len(answers) + Len(requests)
            BY DEF Behind
        <3>2. holder # NoTask /\ NextUp = request[holder] /\ Behind <= 1
            BY <1>4, <2>1, <2>2, <3>1 DEF InStep
        <3> QED BY <2>2, <3>1, <3>2
    <2>4. Head(requests) = request[holder]
        BY <1>2, <2>3 DEF NextUp
    <2>5. answers \in Seq(Answers) /\ answers' = Append(answers, answer)
        BY <1>3, <1>4 DEF Types, TypeOK
    <2>6. Len(answers') = 1 /\ answers'[1] = answer
        BY <2>3, <2>5, AppendProperties
    <2> QED BY <1>2, <1>3, <1>4, <2>3, <2>4, <2>6 DEF Exact, lockVars, taskVars
<1>5. CASE ~ (socket = "open" /\ unread = {})
    BY <1>2, <1>3, <1>5 DEF Exact, lockVars, taskVars
<1> QED BY <1>4, <1>5

LEMMA LinkExact ==
    ASSUME Types, Exact, Close \/ ConnectionLost
    PROVE  Exact'
<1>1. CASE Close
    BY <1>1, EmptySeq DEF Close, Exact
<1>2. CASE ConnectionLost
    <2>1. /\ torn' => torn
          /\ UNCHANGED <<lockVars, taskVars, unread>>
        BY <1>2 DEF ConnectionLost, Types, TypeOK
    <2>2. PICK n \in 0 .. Len(answers) : answers' = SubSeq(answers, 1, n)
        BY <1>2 DEF ConnectionLost
    <2>3. /\ answers \in Seq(Answers) /\ answers' \in Seq(Answers)
          /\ Len(answers') = n /\ \A i \in 1 .. n : answers'[i] = answers[i]
        BY <2>2, Prefix DEF Types, TypeOK
    <2>4. /\ Len(answers) \in Nat /\ (answers' = <<>> <=> n = 0)
          /\ answers = <<>> <=> Len(answers) = 0
        BY <2>3, EmptySeq, Unanswered
    <2> QED BY <2>1, <2>3, <2>4 DEF Exact, lockVars, taskVars
<1> QED BY <1>1, <1>2

\* The server works on one frame: what it begins belongs to that frame's task, what
\* it stages is in a transaction of the same task, and what it commits was staged in
\* the transaction of the frame, or written in none.
LEMMA ServeOwned ==
    ASSUME Types, Numbered, CommitSent, Owned, Serve
    PROVE  Numbered' /\ CommitSent' /\ Owned'
<1> DEFINE frame == Head(requests)
<1>1. PICK answer \in Answers : Answered(frame, answer)
    BY ServeAnswers
<1>2. /\ requests # <<>> /\ frame \in Requests /\ requests' = Tail(requests)
      /\ UNCHANGED <<taskVars, unread>>
    BY ServeAnswers
<1>3. answers \in Seq(Answers) /\ requests \in Seq(Requests)
    BY DEF Types, TypeOK
<1>4. frame \in Members(requests) /\ Members(requests') \subseteq Members(requests)
    BY <1>2, <1>3, MembersTail
<1>5. Members(answers') \subseteq Members(answers) \cup {answer}
    BY <1>1, <1>3, MembersAppend DEF Answered
<1> HIDE DEF frame
<1>6. CommitSent'
    BY <1>2, <1>4 DEF CommitSent, taskVars
<1>7. /\ serial \in Nat /\ serial' \in Nat /\ serial <= serial'
      /\ frame.by \in Tasks /\ frame.tx \in Nat /\ frame.tx <= serial
      /\ frame.op = "commit" => op[frame.by] = "commit"
    <2>1. serial \in Nat /\ frame.by \in Tasks /\ frame.tx \in Nat
        BY <1>2 DEF Types, TypeOK, Requests
    <2>2. serial' \in {serial, serial + 1}
        BY <1>1 DEF Answered, Refuses, ServeBegin, ServeWrite, ServeEnd, ServeFind, ServeFetch
    <2> QED BY <1>4, <2>1, <2>2 DEF Numbered, CommitSent
<1>8. /\ \A x \in open' : x \in open \/ (x = [id |-> serial + 1, by |-> frame.by] /\ serial' = serial + 1)
      /\ \A x \in open : x \in open' \/ (ServeEnd(frame) /\ x.id = frame.tx)
    BY <1>1 DEF Answered, Refuses, ServeBegin, ServeWrite, ServeEnd, ServeFind, ServeFetch
<1>9. \A x \in open : x.id \in Nat /\ x.id <= serial
    BY DEF Numbered, Types, TypeOK, Transactions
<1>10. answer.txn <= serial' /\ (answer.txn # 0 => answer.txn = serial + 1 /\ answer.to = frame)
    <2>1. answer.to = frame
        BY <1>1 DEF Answered
    <2>2. CASE answer.txn = serial + 1 /\ ServeBegin(frame)
        BY <1>7, <2>1, <2>2 DEF ServeBegin
    <2>3. CASE answer.txn = 0
        BY <1>7, <2>1, <2>3
    <2> QED BY <1>1, <2>2, <2>3 DEF Answered
<1>11. Numbered'
    <2>1. \A x, y \in open' : x.id <= serial' /\ (x.id = y.id => x = y)
        BY <1>7, <1>8, <1>9 DEF Numbered
    <2>2. /\ \A t \in Txs : txnMap[t] \in Nat /\ txnMap[t] <= serial
          /\ \A t \in Tasks : request[t].tx \in Nat /\ request[t].tx <= serial
          /\ \A f \in Members(requests) : f.tx \in Nat /\ f.tx <= serial
          /\ \A a \in Members(answers) : a.txn \in Nat /\ a.txn <= serial
        BY MembersTyped DEF Numbered, Types, TypeOK, Requests, Answers
    <2> QED BY <1>2, <1>4, <1>5, <1>7, <1>10, <2>1, <2>2 DEF Numbered, taskVars
<1>12. Owned'
    <2>1. SUFFICES ASSUME unread = {} PROVE Owned'
        BY <1>2 DEF Owned
    <2>2. \A t, id : id \in Nat /\ id <= serial /\ OwnId(t, id) => OwnId(t, id)'
        BY <1>7, <1>8 DEF OwnId
    <2>3. \A f \in Members(requests) : OfItsTask(f)'
        <3>1. \A f \in Members(requests) : f.tx \in Nat /\ f.tx <= serial /\ OfItsTask(f)
            BY <2>1, MembersTyped DEF Numbered, Owned, Requests
        <3> QED BY <2>2, <3>1 DEF OfItsTask
    <2>4. \A t \in Tasks : pc[t] = "queued" => OfItsTask(request[t])'
        <3>1. \A t \in Tasks : /\ request[t].tx \in Nat /\ request[t].tx <= serial
                               /\ pc[t] = "queued" => OfItsTask(request[t])
            BY <2>1 DEF Numbered, Owned, Types, TypeOK, Requests
        <3>2. request' = request
            BY <1>2 DEF taskVars
        <3> QED BY <2>2, <3>1, <3>2 DEF OfItsTask
    <2>5. \A t \in Txs : OwnId(t, txnMap[t])' /\ (op[t] = "write" /\ pc[t] = "ready" => txnMap[t] # 0)
        <3>1. \A t \in Txs : /\ txnMap[t] \in Nat /\ txnMap[t] <= serial /\ OwnId(t, txnMap[t])
                             /\ op[t] = "write" /\ pc[t] = "ready" => txnMap[t] # 0
            BY <2>1 DEF Numbered, Owned, Types, TypeOK
        <3>2. txnMap' = txnMap
            BY <1>2 DEF taskVars
        <3> QED BY <2>2, <3>1, <3>2
    <2>6. \A a \in Members(answers') :
              a.fine /\ a.to.op = "begin" => a.txn # 0 /\ OwnId(a.to.by, a.txn)'
        <3>1. ASSUME NEW a \in Members(answers), a.fine, a.to.op = "begin"
              PROVE  a.txn # 0 /\ OwnId(a.to.by, a.txn)'
            <4>1. a.txn \in Nat /\ a.txn <= serial /\ a.txn # 0 /\ OwnId(a.to.by, a.txn)
                BY <2>1, <3>1, MembersTyped DEF Numbered, Owned, Answers
            <4> QED BY <2>2, <4>1
        <3>2. ASSUME answer.fine, answer.to.op = "begin"
              PROVE  answer.txn # 0 /\ OwnId(answer.to.by, answer.txn)'
            <4>1. answer.txn = serial + 1 /\ answer.to = frame
                BY <1>1, <3>2 DEF Answered
            <4>2. \A x \in open' : x.id = serial + 1 => x.by = frame.by
                BY <1>7, <1>8, <1>9
            <4> QED BY <1>7, <4>1, <4>2 DEF OwnId
        <3> QED BY <1>5, <3>1, <3>2
    <2>7. OfItsTask(frame)
        BY <1>4, <2>1 DEF Owned
    <2>8. \A w \in staged' : w[1] \in Txs => \E x \in open' : x.id = w[2] /\ x.by = w[1]
        <3>1. \A w \in staged : w[1] \in Txs => \E x \in open : x.id = w[2] /\ x.by = w[1]
            BY <2>1 DEF Owned
        <3>2. CASE staged' = staged /\ open \subseteq open'
            BY <3>1, <3>2
        <3>3. CASE ServeEnd(frame)
            <4>1. /\ open' = {x \in open : x.id # frame.tx}
                  /\ staged' = {w \in staged : w[2] # frame.tx}
                BY <3>3 DEF ServeEnd
            <4> QED BY <3>1, <4>1
        <3>4. CASE ServeWrite(frame)
            <4>1. CASE staged' = staged /\ open' = open
                BY <3>1, <4>1
            <4>2. CASE Known(frame.tx) /\ staged' = staged \cup {<<frame.by, frame.tx>>} /\ open' = open
                <5>1. PICK x \in open : x.id = frame.tx
                    BY <4>2 DEF Known
                <5>2. x.by = frame.by
                    BY <2>7, <5>1 DEF OfItsTask, OwnId
                <5> QED BY <3>1, <4>2, <5>1, <5>2
            <4> QED BY <3>4, <4>1, <4>2 DEF ServeWrite
        <3> QED BY <1>1, <3>2, <3>3, <3>4 DEF Answered, Refuses, ServeBegin, ServeFind, ServeFetch
    <2>9. \A t \in Txs \cap applied' : op[t] = "commit"
        <3>1. \A t \in Txs \cap applied : op[t] = "commit"
            BY <2>1 DEF Owned
        <3>2. CASE applied' = applied
            BY <3>1, <3>2
        <3>3. CASE ServeWrite(frame) /\ frame.tx = 0 /\ applied' = applied \cup {frame.by}
            <4>1. frame.by \notin Txs
                BY <2>7, <3>3 DEF OfItsTask, ServeWrite
            <4> QED BY <3>1, <3>3, <4>1
        <3>4. CASE /\ ServeEnd(frame) /\ frame.op = "commit"
                   /\ applied' = applied \cup {w[1] : w \in {v \in staged : v[2] = frame.tx}}
            <4>1. ASSUME NEW w \in staged, w[2] = frame.tx, w[1] \in Txs
                  PROVE  op[w[1]] = "commit"
                <5>1. PICK x \in open : x.id = frame.tx /\ x.by = w[1]
                    BY <2>1, <4>1 DEF Owned
                <5>2. x.by = frame.by
                    BY <2>7, <5>1 DEF OfItsTask, OwnId
                <5> QED BY <1>7, <3>4, <5>1, <5>2
            <4> QED BY <3>1, <3>4, <4>1
        <3> QED BY <1>1, <3>2, <3>3, <3>4 DEF Answered, Refuses, ServeBegin, ServeWrite, ServeEnd,
                    ServeFind, ServeFetch
    <2> QED BY <1>2, <1>4, <2>3, <2>4, <2>5, <2>6, <2>8, <2>9 DEF Owned, taskVars
<1> QED BY <1>6, <1>11, <1>12

\* What is lost, and what the server forgets, takes nothing to another task.
LEMMA LossOwned ==
    ASSUME Types, Numbered, CommitSent, Owned, Close \/ ConnectionLost \/ ServerForgets
    PROVE  Numbered' /\ CommitSent' /\ Owned'
<1>1. UNCHANGED <<taskVars, unread, serial, applied>>
    BY DEF Close, ConnectionLost, ServerForgets, wireVars, serverVars
<1>2. /\ open' \subseteq open /\ staged' \subseteq staged
      /\ staged' # {} => open' = open
    BY DEF Close, ConnectionLost, ServerForgets, serverVars
<1>3. Members(requests') \subseteq Members(requests)
    <2>1. CASE ServerForgets
        BY <2>1 DEF ServerForgets, wireVars
    <2>2. CASE Close \/ ConnectionLost
        <3>1. PICK n \in 0 .. Len(requests) : requests' = SubSeq(requests, 1, n)
            BY <2>2 DEF Close, ConnectionLost, Drops
        <3> QED BY <3>1, MembersPart DEF Types, TypeOK
    <2> QED BY <2>1, <2>2
<1>4. Members(answers') \subseteq Members(answers)
    <2>1. CASE ServerForgets
        BY <2>1 DEF ServerForgets, wireVars
    <2>2. CASE Close
        BY <2>2, EmptySeq DEF Close, Members
    <2>3. CASE ConnectionLost
        <3>1. PICK n \in 0 .. Len(answers) : answers' = SubSeq(answers, 1, n)
            BY <2>3 DEF ConnectionLost
        <3> QED BY <3>1, MembersPart DEF Types, TypeOK
    <2> QED BY <2>1, <2>2, <2>3
<1>5. Numbered'
    BY <1>1, <1>2, <1>3, <1>4 DEF Numbered, taskVars
<1>6. CommitSent'
    BY <1>1, <1>3 DEF CommitSent, taskVars
<1>7. Owned'
    <2>1. \A t, id : OwnId(t, id) => OwnId(t, id)'
        BY <1>2 DEF OwnId
    <2>2. \A f : OfItsTask(f) => OfItsTask(f)'
        BY <2>1 DEF OfItsTask
    <2>3. /\ request' = request /\ txnMap' = txnMap /\ op' = op /\ pc' = pc
        BY <1>1 DEF taskVars
    <2>4. ASSUME NEW t \in Tasks, OfItsTask(request[t])
          PROVE  OfItsTask(request[t])'
        BY <1>2, <2>3, <2>4 DEF OfItsTask, OwnId
    <2>5. ASSUME NEW t \in Txs, OwnId(t, txnMap[t])
          PROVE  OwnId(t, txnMap[t])'
        BY <1>2, <2>3, <2>5 DEF OwnId
    <2> SUFFICES ASSUME unread = {} PROVE Owned'
        BY <1>1 DEF Owned
    <2>6. \A f \in Members(requests') : OfItsTask(f)'
        BY <1>3, <2>2 DEF Owned
    <2>7. \A a \in Members(answers') :
              a.fine /\ a.to.op = "begin" => a.txn # 0 /\ OwnId(a.to.by, a.txn)'
        BY <1>4, <2>1 DEF Owned
    <2>8. \A w \in staged' : w[1] \in Txs => \E x \in open' : x.id = w[2] /\ x.by = w[1]
        BY <1>2 DEF Owned
    <2>9. \A t \in Txs \cap applied' : op'[t] = "commit"
        BY <1>1, <2>3 DEF Owned
    <2> QED BY <2>3, <2>4, <2>5, <2>6, <2>7, <2>8, <2>9 DEF Owned
<1> QED BY <1>5, <1>6, <1>7

CommitInv == SyncInv /\ Exact /\ Numbered /\ CommitSent /\ Owned

THEOREM CommitInvariant == Spec => []CommitInv
<1>1. Init => Exact /\ Numbered /\ CommitSent /\ Owned
    <2> SUFFICES ASSUME Init PROVE Exact /\ Numbered /\ CommitSent /\ Owned
        OBVIOUS
    <2>1. Members(requests) = {} /\ Members(answers) = {} /\ Len(answers) = 0
        BY DEF Init, Members
    <2>2. open = {} /\ staged = {} /\ applied = {} /\ serial = 0 /\ answers = <<>> /\ torn = FALSE
        BY DEF Init
    <2>3. /\ \A t \in Txs : txnMap[t] = 0
          /\ \A t \in Tasks : request[t].tx = 0 /\ pc[t] = "ready"
        BY DEF Init
    <2>4. \A t \in Txs : op[t] = "begin"
        BY DEF Init, Tasks, FirstOp
    <2> QED BY <2>1, <2>2, <2>3, <2>4 DEF Exact, Numbered, CommitSent, Owned, OwnId
<1>2. CommitInv /\ SyncInv' /\ [Next]_vars => Exact' /\ Numbered' /\ CommitSent' /\ Owned'
    <2> SUFFICES ASSUME CommitInv, [Next]_vars
                 PROVE  Exact' /\ Numbered' /\ CommitSent' /\ Owned'
        OBVIOUS
    <2>1. ASSUME NEW t \in Tasks, Advances(t) \/ Cancel(t)
          PROVE  Exact' /\ Numbered' /\ CommitSent' /\ Owned'
        BY <2>1, AdvancesExact, AdvancesOwned DEF CommitInv, SyncInv
    <2>2. CASE Close \/ ConnectionLost
        BY <2>2, LinkExact, LossOwned DEF CommitInv, SyncInv
    <2>3. CASE Serve
        BY <2>3, ServeExact, ServeOwned DEF CommitInv, SyncInv
    <2>4. CASE ServerForgets
        <3>1. Exact'
            BY <2>4 DEF ServerForgets, lockVars, taskVars, wireVars, CommitInv, Exact
        <3> QED BY <2>4, <3>1, LossOwned DEF CommitInv, SyncInv
    <2>5. CASE UNCHANGED vars
        BY <2>5 DEF vars, lockVars, taskVars, wireVars, serverVars, CommitInv, Exact, Numbered,
                    CommitSent, Owned, OfItsTask, OwnId
    <2> QED BY <2>1, <2>2, <2>3, <2>4, <2>5 DEF Next
<1> QED BY <1>1, <1>2, SyncInvariant, PTL DEF Spec, CommitInv

\* As long as no answer was left unread, what a transaction wrote is committed by
\* its own commit and by nothing else, however its task was cancelled or lost its
\* connection.
THEOREM OwnCommitOnly == Spec => []CommittedByCommit
<1>1. CommitInv => CommittedByCommit
    BY DEF CommitInv, Owned, CommittedByCommit
<1> QED BY <1>1, CommitInvariant, PTL

-----------------------------------------------------------------------------
(* A stream that came to its end has read every page.                         *)

\* As long as no answer was left unread, at most one request is in flight, answered
\* or not, also on a connection that is gone.
Single == unread = {} => Behind <= 1

\* Cursors are numbered in order, and no stream names a number not given out.
CursorsNumbered ==
    /\ \A c \in cursors : c.id <= serial
    /\ \A t \in Streams : cursor[t] <= serial
    /\ \A t \in Tasks : request[t].cursor <= serial
    /\ \A f \in Members(requests) : f.cursor <= serial
    /\ \A a \in Members(answers) : a.cursor <= serial

OwnCursor(t, id) == \A c \in cursors : c.id = id => c.by = t
NoCursor(t) == \A c \in cursors : c.by # t
Quiet(t) == NoCursor(t) /\ \A f \in Members(requests) : f.by # t

\* A frame on its way asks for the first page, or for one of its own cursor; an
\* answer that names no cursor is to a stream that has none.
AsksOwn(f) ==
    /\ f.op = "find" => NoCursor(f.by)
    /\ f.op = "fetch" => OwnCursor(f.by, f.cursor)
TellsOwn(a) ==
    /\ OwnCursor(a.to.by, a.cursor)
    /\ a.fine /\ a.cursor = 0 /\ a.to.op \in {"find", "fetch"} => NoCursor(a.to.by)

\* A stream knows its own cursor only, and has none before its first request is
\* sent and after its end.
ReadsOwn(t) ==
    /\ OwnCursor(t, cursor[t])
    /\ pc[t] = "queued" /\ op[t] = "fetch" => OwnCursor(t, request[t].cursor)
    /\ outcome[t] = "done" => pc[t] = "ended"
    /\ outcome[t] = "done" \/ (op[t] = "find" /\ pc[t] \in {"ready", "queued"}) => Quiet(t)

Paged ==
    unread = {} =>
        /\ \A c, d \in cursors : c.by = d.by => c = d
        /\ \A f \in Members(requests) : AsksOwn(f)
        /\ \A a \in Members(answers) : TellsOwn(a)
        /\ \A t \in Streams : ReadsOwn(t)

\* A step of task t: it sends nothing, or the frame of its operation.
PageStep(t) ==
    /\ UNCHANGED <<cursors, serial>> /\ unread \subseteq unread'
    /\ \A s \in Tasks \ {t} : /\ pc'[s] = pc[s] /\ op'[s] = op[s] /\ request'[s] = request[s]
                              /\ outcome'[s] = outcome[s]
    /\ \A s \in Streams \ {t} : cursor'[s] = cursor[s]
    /\ Members(answers') \subseteq Members(answers)
    /\ \/ Members(requests') \subseteq Members(requests)
       \/ /\ Members(requests') \subseteq Members(requests) \cup {request'[t]}
          /\ pc'[t] = "sent" /\ request'[t].by = t /\ (unread = {} => AsksOwn(request'[t]))
    /\ request'[t].cursor <= serial
    /\ t \in Streams => cursor'[t] <= serial /\ (unread = {} => ReadsOwn(t)')

LEMMA PageStepPaged ==
    ASSUME Types, CursorsNumbered, Paged, NEW t \in Tasks, PageStep(t)
    PROVE  CursorsNumbered' /\ Paged'
<1>0. Streams \subseteq Tasks
    BY DEF Tasks
<1>1. CursorsNumbered'
    <2>1. \A c \in cursors' : c.id <= serial'
        BY DEF CursorsNumbered, PageStep
    <2>2. \A s \in Streams : cursor'[s] <= serial'
        BY DEF CursorsNumbered, PageStep
    <2>3. \A s \in Tasks : request'[s].cursor <= serial'
        BY DEF CursorsNumbered, PageStep
    <2>4. \A f \in Members(requests') : f.cursor <= serial'
        BY DEF CursorsNumbered, PageStep
    <2>5. \A a \in Members(answers') : a.cursor <= serial'
        BY DEF CursorsNumbered, PageStep
    <2> QED BY <2>1, <2>2, <2>3, <2>4, <2>5 DEF CursorsNumbered
<1>2. cursors' = cursors
    BY DEF PageStep
<1>3. SUFFICES ASSUME unread' = {} PROVE Paged'
    BY <1>1 DEF Paged
<1>4. unread = {}
    BY <1>3 DEF PageStep
<1>5. /\ \A s, id : OwnCursor(s, id)' <=> OwnCursor(s, id)
      /\ \A s : NoCursor(s)' <=> NoCursor(s)
    BY <1>2 DEF OwnCursor, NoCursor
<1>6. /\ \A f : AsksOwn(f)' <=> AsksOwn(f)
      /\ \A a : TellsOwn(a)' <=> TellsOwn(a)
    BY <1>5 DEF AsksOwn, TellsOwn
<1>7. \A f \in Members(requests') : AsksOwn(f)'
    BY <1>4, <1>6 DEF Paged, PageStep
<1>8. \A a \in Members(answers') : TellsOwn(a)'
    BY <1>4, <1>6 DEF Paged, PageStep
<1>9. ASSUME NEW s \in Streams
      PROVE  ReadsOwn(s)'
    <2>1. CASE s = t
        BY <1>4, <2>1 DEF PageStep
    <2>2. CASE s # t
        <3>1. /\ pc'[s] = pc[s] /\ op'[s] = op[s] /\ request'[s] = request[s]
              /\ outcome'[s] = outcome[s] /\ cursor'[s] = cursor[s]
            BY <1>0, <2>2 DEF PageStep
        <3>2. Quiet(s) => Quiet(s)'
            <4>1. \A f \in Members(requests') : f \in Members(requests) \/ f.by = t
                BY DEF PageStep
            <4> QED BY <1>2, <2>2, <4>1 DEF Quiet, NoCursor
        <3>3. ReadsOwn(s)
            BY <1>4 DEF Paged
        <3>4. OwnCursor(s, cursor[s])' /\ (OwnCursor(s, request[s].cursor) => OwnCursor(s, request[s].cursor)')
            BY <1>2, <3>1, <3>3 DEF ReadsOwn, OwnCursor
        <3> QED BY <3>1, <3>2, <3>3, <3>4 DEF ReadsOwn
    <2> QED BY <2>1, <2>2
<1> QED BY <1>2, <1>4, <1>7, <1>8, <1>9 DEF Paged

LEMMA StreamOps ==
    ASSUME Types, NEW t \in Tasks
    PROVE  /\ op[t] \in {"find", "fetch"} <=> t \in Streams
           /\ t \in Streams => t \notin Txs
BY TasksAssumption DEF Types, CallsOK, OpsOf, Tasks

\* The steps of a task: an exception, and a frame that is sent.
LEMMA RaisedPaged ==
    ASSUME Types, CursorsNumbered, Paged, NEW t \in Tasks,
           NEW how \in {"failed", "cancelled"}, Raises(t, how),
           UNCHANGED <<request, requests, cursor, cursors, serial>>,
           unread \subseteq unread', Members(answers') \subseteq Members(answers)
    PROVE  CursorsNumbered' /\ Paged'
<1>1. /\ \A s \in Tasks \ {t} : pc'[s] = pc[s] /\ op'[s] = op[s] /\ outcome'[s] = outcome[s]
      /\ t \in Streams => pc'[t] = "ended" /\ outcome'[t] = how
    BY StreamOps DEF Raises, Ends, Issues, Types, TypeOK
<1>2. request'[t].cursor <= serial /\ (t \in Streams => cursor'[t] <= serial)
    BY DEF CursorsNumbered
<1>3. ASSUME t \in Streams, unread = {}
      PROVE  ReadsOwn(t)'
    <2>1. OwnCursor(t, cursor[t])'
        BY <1>3 DEF Paged, ReadsOwn, OwnCursor
    <2> QED BY <1>1, <1>3, <2>1 DEF ReadsOwn
<1>4. PageStep(t)
    BY <1>1, <1>2, <1>3 DEF PageStep
<1> QED BY <1>4, PageStepPaged

LEMMA SentPaged ==
    ASSUME Types, CursorsNumbered, Paged, NEW t \in Tasks, pc[t] \in {"ready", "queued"},
           \/ Sent(t, request'[t])
           \/ pc' = [pc EXCEPT ![t] = "queued"] /\ UNCHANGED <<op, outcome, requests>>,
           \A s \in Tasks \ {t} : request'[s] = request[s],
           request'[t] \in Requests, request'[t].by = t, request'[t].op = op[t],
           request'[t].cursor <= serial,
           unread = {} /\ op[t] = "fetch" => OwnCursor(t, request'[t].cursor),
           UNCHANGED <<answers, unread, cursor, cursors, serial>>
    PROVE  CursorsNumbered' /\ Paged'
<1>1. op' = op /\ outcome' = outcome /\ \A s \in Tasks \ {t} : pc'[s] = pc[s]
    BY DEF Sent, Types, TypeOK
<1>2. ASSUME unread = {}, t \in Streams
      PROVE  /\ outcome[t] # "done" /\ OwnCursor(t, cursor[t])
             /\ op[t] = "find" => Quiet(t)
    BY <1>2 DEF Paged, ReadsOwn
<1>3. unread = {} => AsksOwn(request'[t])
    BY <1>2, StreamOps DEF AsksOwn, Quiet
<1>4. t \in Streams => cursor'[t] <= serial
    BY DEF CursorsNumbered
<1>5. CASE pc' = [pc EXCEPT ![t] = "queued"] /\ UNCHANGED <<op, outcome, requests>>
    <2>1. pc'[t] = "queued"
        BY <1>5 DEF Types, TypeOK
    <2>2. ASSUME t \in Streams, unread = {}
          PROVE  ReadsOwn(t)'
        <3>1. OwnCursor(t, cursor[t])' /\ (op[t] = "fetch" => OwnCursor(t, request[t].cursor)')
            BY <1>2, <2>2 DEF OwnCursor
        <3>2. op[t] = "find" => Quiet(t)'
            BY <1>2, <1>5, <2>2 DEF Quiet, NoCursor
        <3> QED BY <1>1, <1>2, <2>1, <2>2, <3>1, <3>2 DEF ReadsOwn
    <2>3. PageStep(t)
        BY <1>1, <1>4, <1>5, <2>2 DEF PageStep
    <2> QED BY <2>3, PageStepPaged
<1>6. CASE Sent(t, request'[t])
    <2>1. pc'[t] = "sent"
        BY <1>6 DEF Sent, Types, TypeOK
    <2>2. Members(requests') \subseteq Members(requests) \cup {request'[t]}
        <3>1. requests \in Seq(Requests)
            BY DEF Types, TypeOK
        <3>2. CASE requests' = Append(requests, request'[t])
            BY <3>1, <3>2, MembersAppend
        <3>3. CASE requests' = requests
            BY <3>3
        <3> QED BY <1>6, <3>2, <3>3 DEF Sent
    <2>3. ASSUME t \in Streams, unread = {}
          PROVE  ReadsOwn(t)'
        <3>1. OwnCursor(t, cursor[t])'
            BY <1>2, <2>3 DEF OwnCursor
        <3> QED BY <1>1, <1>2, <2>1, <2>3, <3>1 DEF ReadsOwn
    <2>4. PageStep(t)
        BY <1>1, <1>3, <1>4, <2>1, <2>2, <2>3 DEF PageStep
    <2> QED BY <2>4, PageStepPaged
<1> QED BY <1>5, <1>6

\* The frame of an operation names the cursor of its task, or none.
LEMMA FramePaged ==
    ASSUME Types, CursorsNumbered, Paged, NEW t \in Tasks
    PROVE  /\ Frame(t).by = t /\ Frame(t).op = op[t] /\ Frame(t).cursor <= serial
           /\ unread = {} /\ op[t] = "fetch" => OwnCursor(t, Frame(t).cursor)
<1>1. Frame(t).by = t /\ Frame(t).op = op[t] /\ Frame(t).cursor = IF op[t] = "fetch" THEN cursor[t] ELSE 0
    BY DEF Frame
<1>2. 0 <= serial
    BY DEF Types, TypeOK
<1>3. op[t] = "fetch" => t \in Streams
    BY StreamOps
<1>4. Frame(t).cursor <= serial
    BY <1>1, <1>2, <1>3 DEF CursorsNumbered
<1>5. unread = {} /\ op[t] = "fetch" => OwnCursor(t, cursor[t])
    BY <1>3 DEF Paged, ReadsOwn
<1> QED BY <1>1, <1>4, <1>5

LEMMA AdvancesPaged ==
    ASSUME Types, Exact, Single, CursorsNumbered, Paged, NEW t \in Tasks, Advances(t) \/ Cancel(t)
    PROVE  CursorsNumbered' /\ Paged'
<1>1. CASE Call(t)
    <2>1. pc[t] = "ready" /\ UNCHANGED <<answers, unread, cursor, cursors, serial>>
        BY <1>1 DEF Call, serverVars
    <2>2. CASE Raises(t, "failed") /\ UNCHANGED <<request, requests>>
        BY <2>1, <2>2, RaisedPaged
    <2>3. CASE /\ request' = [request EXCEPT ![t] = Frame(t)]
               /\ \/ Sent(t, Frame(t))
                  \/ pc' = [pc EXCEPT ![t] = "queued"] /\ UNCHANGED <<op, outcome, requests>>
        <3>1. request'[t] = Frame(t) /\ \A s \in Tasks \ {t} : request'[s] = request[s]
            BY <2>3 DEF Types, TypeOK
        <3>2. Frame(t) \in Requests
            BY FrameType
        <3> QED BY <2>1, <2>3, <3>1, <3>2, FramePaged, SentPaged
    <2>4. CASE connected /\ request' = [request EXCEPT ![t] = Frame(t)] /\ Sends(t, Frame(t))
        BY <2>3, <2>4 DEF Sends, Sent
    <2> QED BY <1>1, <2>2, <2>3, <2>4 DEF Call, Frame, lockVars
<1>2. CASE TakeLock(t)
    <2>1. /\ queue # <<>> /\ Head(queue) = t /\ Sends(t, request[t]) /\ request' = request
          /\ UNCHANGED <<answers, unread, cursor, cursors, serial>>
        BY <1>2 DEF TakeLock, serverVars
    <2>2. pc[t] = "queued" /\ request[t] \in Requests
        BY <2>1, QueueServe DEF Types, TypeOK, LockOK
    <2>3. request[t].by = t /\ request[t].op = op[t] /\ request[t].cursor <= serial
        BY <2>2 DEF Types, CallsOK, CursorsNumbered
    <2>4. unread = {} /\ op[t] = "fetch" => OwnCursor(t, request[t].cursor)
        BY <2>2, StreamOps DEF Paged, ReadsOwn
    <2>5. CASE Sent(t, request[t])
        BY <2>1, <2>2, <2>3, <2>4, <2>5, SentPaged
    <2>6. CASE Raises(t, "failed") /\ UNCHANGED requests
        BY <2>1, <2>6, RaisedPaged
    <2> QED BY <2>1, <2>5, <2>6 DEF Sends, Sent
<1>3. CASE ReadHeader(t)
    <2>1. /\ pc' = [pc EXCEPT ![t] = "reading"]
          /\ UNCHANGED <<op, request, requests, outcome, cursor, answers, unread, cursors, serial>>
        BY <1>3 DEF ReadHeader, wireVars, serverVars
    <2>2. pc[t] = "sent" /\ pc'[t] = "reading" /\ \A s \in Tasks \ {t} : pc'[s] = pc[s]
        BY <1>3, <2>1 DEF ReadHeader, Types, TypeOK
    <2>3. ASSUME t \in Streams, unread = {}
          PROVE  ReadsOwn(t)'
        <3>1. OwnCursor(t, cursor[t])' /\ outcome[t] # "done"
            BY <2>1, <2>2, <2>3 DEF Paged, ReadsOwn, OwnCursor
        <3> QED BY <2>1, <2>2, <3>1 DEF ReadsOwn
    <2>4. request'[t].cursor <= serial /\ (t \in Streams => cursor'[t] <= serial)
        BY <2>1 DEF CursorsNumbered
    <2>5. PageStep(t)
        BY <2>1, <2>2, <2>3, <2>4 DEF PageStep
    <2> QED BY <2>5, PageStepPaged
<1>4. CASE ReadRest(t)
    <2> DEFINE answer == Head(answers)
    <2>1. /\ pc[t] = "reading" /\ answers # <<>> /\ answers' = Tail(answers)
          /\ UNCHANGED <<request, requests, unread, cursors, serial>>
        BY <1>4 DEF ReadRest, serverVars
    <2>2. answers \in Seq(Answers)
        BY DEF Types, TypeOK
    <2>3. answer \in Answers /\ answer = answers[1]
        BY <2>1, <2>2, HeadTailProperties
    <2>4. answer \in Members(answers) /\ Members(answers') \subseteq Members(answers)
        BY <2>1, <2>2, MembersTail
    <2> HIDE DEF answer
    <2>5. CASE Raises(t, "failed") /\ UNCHANGED <<txnMap, cursor>>
        BY <2>1, <2>4, <2>5, RaisedPaged
    <2>6. CASE /\ answer.fine
               /\ TakesBegin(t, answer) \/ TakesWrite(t) \/ TakesEnd(t) \/ TakesPage(t, answer)
        <3>1. /\ \A s \in Tasks \ {t} : pc'[s] = pc[s] /\ op'[s] = op[s] /\ outcome'[s] = outcome[s]
              /\ \A s \in Streams \ {t} : cursor'[s] = cursor[s]
            BY <2>6 DEF TakesBegin, TakesWrite, TakesEnd, TakesPage, Issues, Ends, Types, TypeOK
        <3>2. ASSUME t \in Streams
              PROVE  /\ cursor'[t] = answer.cursor /\ op[t] \in {"find", "fetch"}
                     /\ \/ pc'[t] = "ended" /\ (outcome'[t] = "done" => answer.cursor = 0)
                        \/ pc'[t] = "ready" /\ op'[t] = "fetch" /\ outcome'[t] = outcome[t]
            <4>1. op[t] \in {"find", "fetch"}
                BY <3>2, StreamOps
            <4>2. TakesPage(t, answer)
                BY <2>6, <4>1 DEF TakesBegin, TakesWrite, TakesEnd
            <4> QED BY <3>2, <4>1, <4>2 DEF TakesPage, Issues, Ends, Types, TypeOK
        <3>3. answer.cursor <= serial /\ request'[t].cursor <= serial
            BY <2>1, <2>4 DEF CursorsNumbered
        <3>4. ASSUME t \in Streams, unread = {}
              PROVE  ReadsOwn(t)'
            <4>1. holder = t
                BY <2>1 DEF Types, LockOK
            <4>2. answer.to = request[t] /\ request[t].by = t /\ request[t].op = op[t]
                BY <2>1, <2>3, <3>4, <4>1 DEF Exact, Types, CallsOK
            <4>3. TellsOwn(answer)
                BY <2>4, <3>4 DEF Paged
            <4>4. OwnCursor(t, cursor[t])'
                BY <2>1, <3>2, <3>4, <4>2, <4>3 DEF TellsOwn, OwnCursor
            <4>5. requests = <<>>
                BY <2>1, <3>4, Unanswered DEF Single, Behind
            <4>6. answer.cursor = 0 => Quiet(t)'
                <5>1. Members(requests) = {}
                    BY <4>5, EmptySeq DEF Members
                <5> QED BY <2>1, <2>6, <3>2, <3>4, <4>2, <4>3, <5>1 DEF TellsOwn, Quiet, NoCursor
            <4>7. pc[t] # "ended" => outcome[t] # "done"
                BY <3>4 DEF Paged, ReadsOwn
            <4> QED BY <2>1, <3>2, <3>4, <4>4, <4>6, <4>7 DEF ReadsOwn
        <3>5. PageStep(t)
            BY <2>1, <2>4, <3>1, <3>2, <3>3, <3>4 DEF PageStep
        <3> QED BY <3>5, PageStepPaged
    <2> QED BY <1>4, <2>5, <2>6 DEF ReadRest, answer
<1>5. CASE ReadFails(t)
    <2>1. /\ Raises(t, "failed")
          /\ UNCHANGED <<request, requests, cursor, answers, unread, cursors, serial>>
        BY <1>5 DEF ReadFails, wireVars, serverVars
    <2> QED BY <2>1, RaisedPaged
<1>6. CASE ReadGarbage(t)
    <2>1. /\ Raises(t, "failed") /\ unread \subseteq unread'
          /\ UNCHANGED <<request, requests, cursor, cursors, serial>>
        BY <1>6 DEF ReadGarbage, serverVars
    <2>2. PICK n \in 0 .. Len(answers) : answers' = SubSeq(answers, n + 1, Len(answers))
        BY <1>6 DEF ReadGarbage
    <2>3. Members(answers') \subseteq Members(answers)
        BY <2>2, MembersPart DEF Types, TypeOK
    <2> QED BY <2>1, <2>3, RaisedPaged
<1>7. CASE Cancel(t)
    <2>1. /\ Raises(t, "cancelled") /\ unread \subseteq unread'
          /\ UNCHANGED <<request, requests, answers, cursor, cursors, serial>>
        BY <1>7 DEF Cancel, serverVars
    <2> QED BY <2>1, RaisedPaged
<1> QED BY <1>1, <1>2, <1>3, <1>4, <1>5, <1>6, <1>7 DEF Advances

\* What is in flight grows by a frame that is sent, on a live connection and by
\* the task that has got the lock.
LEMMA AdvancesSingle ==
    ASSUME Types, UnreadOK, InStep, Single, NEW t \in Tasks, Advances(t) \/ Cancel(t)
    PROVE  Single'
<1>0. unread \subseteq unread'
    BY DEF Advances, Call, TakeLock, ReadHeader, ReadRest, ReadFails, ReadGarbage, Cancel, wireVars
<1> SUFFICES ASSUME unread' = {} PROVE Behind' <= 1
    BY DEF Single
<1>1. unread = {} /\ Behind <= 1 /\ Cardinality(unread) = 0
    BY <1>0, FS_EmptySet DEF Single
<1>2. /\ Len(answers) \in Nat /\ Len(requests) \in Nat /\ Behind \in Nat
      /\ answers = <<>> <=> Len(answers) = 0
    BY Unanswered
<1>3. ASSUME NEW frame, Sends(t, frame), holder = NoTask, UNCHANGED answers
      PROVE  Behind' <= 1
    <2>1. CASE UNCHANGED requests
        BY <1>1, <1>3, <2>1 DEF Behind
    <2>2. CASE socket = "open" /\ requests' = Append(requests, frame)
        <3>1. Behind = 0 /\ requests \in Seq(Requests)
            BY <1>1, <1>2, <1>3, <2>2 DEF InStep, Types, TypeOK
        <3>2. Len(requests') = Len(requests) + 1
            BY <2>2, <3>1, LenProperties
        <3> QED BY <1>2, <1>3, <3>1, <3>2 DEF Behind
    <2> QED BY <1>3, <2>1, <2>2 DEF Sends
<1>4. CASE Call(t)
    <2>1. UNCHANGED answers
        BY <1>4 DEF Call
    <2>2. CASE UNCHANGED requests
        BY <1>1, <2>1, <2>2 DEF Behind
    <2>3. CASE holder = NoTask /\ Sends(t, Frame(t))
        BY <1>3, <2>1, <2>3
    <2> QED BY <1>4, <2>2, <2>3 DEF Call, Frame
<1>5. CASE TakeLock(t)
    BY <1>3, <1>5 DEF TakeLock
<1>6. CASE ReadHeader(t) \/ ReadFails(t) \/ Cancel(t)
    BY <1>1, <1>6 DEF ReadHeader, ReadFails, Cancel, wireVars, Behind
<1>7. CASE ReadRest(t)
    <2>1. answers # <<>> /\ answers' = Tail(answers) /\ requests' = requests
        BY <1>7 DEF ReadRest
    <2>2. Len(answers') = Len(answers) - 1
        BY <2>1, HeadTailProperties DEF Types, TypeOK
    <2> QED BY <1>1, <1>2, <2>1, <2>2 DEF Behind
<1>8. CASE ReadGarbage(t)
    BY <1>8 DEF ReadGarbage
<1> QED BY <1>4, <1>5, <1>6, <1>7, <1>8 DEF Advances

\* The server answers a request for a page with a cursor that it opens, the cursor
\* that it keeps, or none.
Opens(frame, answer) ==
    /\ frame.op = "find" /\ serial' = serial + 1 /\ answer.cursor = serial + 1
    /\ \E left \in 1 .. Pages - 1 :
          cursors' = cursors \cup {[id |-> serial + 1, by |-> frame.by, left |-> left]}
Turns(frame, answer) ==
    /\ frame.op = "fetch" /\ serial' = serial
    /\ \E c \in cursors : \E kept :
          /\ c.id = frame.cursor /\ kept.id = c.id /\ kept.by = c.by
          /\ \/ cursors' = cursors \ {c} /\ answer.cursor = 0
             \/ cursors' = (cursors \ {c}) \cup {kept} /\ answer.cursor = c.id
Neither(frame, answer) ==
    /\ cursors' = cursors /\ serial' \in {serial, serial + 1} /\ answer.cursor = 0
    /\ answer.fine => frame.op # "fetch"

LEMMA ServePages ==
    ASSUME Types, Serve
    PROVE  \E answer \in Answers :
              /\ answer.to = Head(requests)
              /\ answers' = IF socket = "open" THEN Append(answers, answer) ELSE answers
              /\ \/ Opens(Head(requests), answer) \/ Turns(Head(requests), answer)
                 \/ Neither(Head(requests), answer)
<1> DEFINE frame == Head(requests)
           reply(fine, txn, page) == [to |-> frame, fine |-> fine, txn |-> txn, cursor |-> page]
           Does(answer) == Opens(frame, answer) \/ Turns(frame, answer) \/ Neither(frame, answer)
<1>1. frame \in Requests
    BY ServeAnswers
<1>2. ASSUME NEW fine \in BOOLEAN, NEW txn \in Nat, NEW page \in Nat, Replies(frame, fine, txn, page),
             Does(reply(fine, txn, page))
      PROVE  \E answer \in Answers :
              /\ answer.to = frame
              /\ answers' = IF socket = "open" THEN Append(answers, answer) ELSE answers
              /\ Does(answer)
    <2>1. reply(fine, txn, page) \in Answers /\ reply(fine, txn, page).to = frame
        BY <1>1 DEF Answers
    <2>2. answers' = IF socket = "open" THEN Append(answers, reply(fine, txn, page)) ELSE answers
        BY <1>2 DEF Replies
    <2> HIDE DEF reply, Does
    <2> QED BY <1>2, <2>1, <2>2
<1>3. serial + 1 \in Nat /\ \A c \in cursors : c.id \in Nat
    BY DEF Types, TypeOK, Cursors
<1>4. \A fine, txn, page : reply(fine, txn, page).fine = fine /\ reply(fine, txn, page).cursor = page
    OBVIOUS
<1> HIDE DEF frame, reply
<1>0. ASSUME NEW fine, NEW txn, cursors' = cursors, serial' \in {serial, serial + 1},
             fine => frame.op # "fetch"
      PROVE  Neither(frame, reply(fine, txn, 0))
    <2>1. reply(fine, txn, 0).fine = fine /\ reply(fine, txn, 0).cursor = 0
        BY <1>4
    <2> QED BY <1>0, <2>1 DEF Neither
<1>5. CASE Refuses(frame)
    <2>1. Replies(frame, FALSE, 0, 0) /\ cursors' = cursors /\ serial' = serial
        BY <1>5 DEF Refuses
    <2>2. Neither(frame, reply(FALSE, 0, 0))
        BY <1>0, <2>1
    <2> QED BY <1>2, <2>1, <2>2 DEF frame
<1>6. CASE ServeBegin(frame)
    <2>1. /\ Replies(frame, TRUE, serial + 1, 0)
          /\ frame.op = "begin" /\ cursors' = cursors /\ serial' = serial + 1
        BY <1>6 DEF ServeBegin
    <2>2. Neither(frame, reply(TRUE, serial + 1, 0))
        BY <1>0, <2>1
    <2> QED BY <1>2, <1>3, <2>1, <2>2 DEF frame
<1>7. CASE ServeWrite(frame)
    <2>1. /\ Replies(frame, TRUE, 0, 0)
          /\ frame.op = "write" /\ cursors' = cursors /\ serial' = serial
        BY <1>7 DEF ServeWrite
    <2>2. Neither(frame, reply(TRUE, 0, 0))
        BY <1>0, <2>1
    <2> QED BY <1>2, <2>1, <2>2 DEF frame
<1>8. CASE ServeEnd(frame)
    <2>1. PICK fine \in BOOLEAN : Replies(frame, fine, 0, 0)
        BY <1>8 DEF ServeEnd
    <2>2. frame.op \in {"commit", "rollback"} /\ cursors' = cursors /\ serial' = serial
        BY <1>8 DEF ServeEnd
    <2>3. Neither(frame, reply(fine, 0, 0))
        BY <1>0, <2>2
    <2> QED BY <1>2, <2>1, <2>3 DEF frame
<1>9. CASE ServeFind(frame)
    <2>1. CASE Replies(frame, TRUE, 0, 0) /\ UNCHANGED <<cursors, serial>>
        <3>1. Neither(frame, reply(TRUE, 0, 0))
            <4>1. frame.op = "find" /\ cursors' = cursors /\ serial' = serial
                BY <1>9, <2>1 DEF ServeFind
            <4> QED BY <1>0, <4>1
        <3> QED BY <1>2, <2>1, <3>1 DEF frame
    <2>2. CASE /\ Replies(frame, TRUE, 0, serial + 1) /\ serial' = serial + 1
               /\ \E left \in 1 .. Pages - 1 :
                     cursors' = cursors \cup {[id |-> serial + 1, by |-> frame.by, left |-> left]}
        <3>1. Opens(frame, reply(TRUE, 0, serial + 1))
            <4>1. frame.op = "find"
                BY <1>9 DEF ServeFind
            <4>2. reply(TRUE, 0, serial + 1).cursor = serial + 1
                BY <1>4
            <4> QED BY <2>2, <4>1, <4>2, Zenon DEF Opens
        <3> QED BY <1>2, <1>3, <2>2, <3>1 DEF frame
    <2> QED BY <1>9, <2>1, <2>2 DEF ServeFind
<1>10. CASE ServeFetch(frame)
    <2>1. PICK c \in cursors :
             /\ c.id = frame.cursor
             /\ cursors' = (cursors \ {c})
                               \cup (IF c.left = 1 THEN {} ELSE {[c EXCEPT !.left = @ - 1]})
             /\ Replies(frame, TRUE, 0, IF c.left = 1 THEN 0 ELSE c.id)
        BY <1>10 DEF ServeFetch
    <2> DEFINE page == IF c.left = 1 THEN 0 ELSE c.id
    <2>2. page \in Nat /\ Replies(frame, TRUE, 0, page)
        BY <1>3, <2>1
    <2> HIDE DEF page
    <2>3. reply(TRUE, 0, page).cursor = page /\ page = IF c.left = 1 THEN 0 ELSE c.id
        <3>1. reply(TRUE, 0, page).cursor = page
            BY <1>4
        <3> QED BY <3>1 DEF page
    <2> DEFINE kept == [c EXCEPT !.left = @ - 1]
    <2>4. kept.id = c.id /\ kept.by = c.by
        BY DEF Types, TypeOK, Cursors
    <2>5. cursors' = (cursors \ {c}) \cup (IF c.left = 1 THEN {} ELSE {kept})
        BY <2>1
    <2> HIDE DEF kept
    <2>6. cursors' = cursors \ {c} \/ c.left # 1
        BY <2>5
    <2>7. frame.op = "fetch" /\ serial' = serial
        BY <1>10 DEF ServeFetch
    <2>8. Turns(frame, reply(TRUE, 0, page))
        BY <2>1, <2>3, <2>4, <2>5, <2>6, <2>7 DEF Turns
    <2> QED BY <1>2, <2>2, <2>8 DEF frame
<1> QED BY <1>5, <1>6, <1>7, <1>8, <1>9, <1>10 DEF Serve, frame

LEMMA ServePaged ==
    ASSUME Types, Single, CursorsNumbered, Paged, Serve
    PROVE  Single' /\ CursorsNumbered' /\ Paged'
<1>0. PICK frame \in Requests : frame = Head(requests)
    BY ServeAnswers
<1>1. PICK answer \in Answers :
         /\ answer.to = frame
         /\ answers' = IF socket = "open" THEN Append(answers, answer) ELSE answers
         /\ Opens(frame, answer) \/ Turns(frame, answer) \/ Neither(frame, answer)
    BY <1>0, ServePages
<1>2. /\ requests # <<>> /\ requests' = Tail(requests)
      /\ UNCHANGED <<taskVars, unread>>
    BY ServeAnswers
<1>3. answers \in Seq(Answers) /\ requests \in Seq(Requests)
    BY DEF Types, TypeOK
<1>4. frame \in Members(requests) /\ Members(requests') \subseteq Members(requests)
    BY <1>0, <1>2, <1>3, MembersTail
<1>5. Members(answers') \subseteq Members(answers) \cup {answer}
    BY <1>1, <1>3, MembersAppend
<1>6. Len(requests') = Len(requests) - 1 /\ Len(answers') \in {Len(answers), Len(answers) + 1}
    BY <1>1, <1>2, <1>3, HeadTailProperties, LenProperties
<1>7. Len(answers) \in Nat /\ Len(requests) \in Nat /\ (answers = <<>> <=> Len(answers) = 0)
    BY Unanswered
<1>8. Single'
    BY <1>2, <1>6, <1>7 DEF Single, Behind
<1>9. /\ serial \in Nat /\ serial' \in Nat /\ serial <= serial'
      /\ frame.by \in Tasks /\ frame.cursor \in Nat /\ frame.cursor <= serial
    <2>1. serial \in Nat /\ frame.by \in Tasks /\ frame.cursor \in Nat
        BY DEF Types, TypeOK, Requests
    <2>2. serial' \in {serial, serial + 1}
        BY <1>1 DEF Opens, Turns, Neither
    <2> QED BY <1>4, <2>1, <2>2 DEF CursorsNumbered
<1>10. \A c \in cursors : c.id \in Nat \ {0} /\ c.id <= serial
    BY DEF CursorsNumbered, Types, TypeOK, Cursors
\* No cursor is there that was not, but for the one opened.
<1>11. \A c \in cursors' : \/ \E d \in cursors : d.id = c.id /\ d.by = c.by
                           \/ Opens(frame, answer) /\ c.id = serial + 1 /\ c.by = frame.by
    <2>1. CASE Opens(frame, answer)
        BY <2>1 DEF Opens
    <2>2. CASE Turns(frame, answer)
        BY <2>2 DEF Turns
    <2>3. CASE Neither(frame, answer)
        BY <2>3 DEF Neither
    <2> QED BY <1>1, <2>1, <2>2, <2>3
<1>12. answer.cursor \in Nat /\ answer.cursor <= serial'
    BY <1>1, <1>9, <1>10 DEF Opens, Turns, Neither
<1>13. CursorsNumbered'
    <2>1. \A c \in cursors' : c.id <= serial'
        BY <1>9, <1>10, <1>11 DEF Opens
    <2>2. /\ \A t \in Streams : cursor[t] \in Nat /\ cursor[t] <= serial
          /\ \A t \in Tasks : request[t].cursor \in Nat /\ request[t].cursor <= serial
          /\ \A f \in Members(requests) : f.cursor \in Nat /\ f.cursor <= serial
          /\ \A a \in Members(answers) : a.cursor \in Nat /\ a.cursor <= serial
        BY MembersTyped DEF CursorsNumbered, Types, TypeOK, Requests, Answers
    <2> QED BY <1>2, <1>4, <1>5, <1>9, <1>12, <2>1, <2>2 DEF CursorsNumbered, taskVars
<1>14. Paged'
    <2>1. SUFFICES ASSUME unread = {} PROVE Paged'
        BY <1>2 DEF Paged
    <2>2. requests' = <<>> /\ answers = <<>> /\ Members(requests') = {} /\ Members(answers) = {}
        <3>1. Len(requests') = 0 /\ Len(answers) = 0 /\ requests' \in Seq(Requests)
            BY <1>2, <1>3, <1>6, <1>7, <2>1, HeadTailProperties, Unanswered DEF Single, Behind
        <3> QED BY <1>7, <3>1, EmptySeq DEF Members
    <2>3. \A t, id : id \in Nat /\ id <= serial /\ OwnCursor(t, id) => OwnCursor(t, id)'
        BY <1>9, <1>11 DEF OwnCursor
    <2>4. \A t : t # frame.by /\ NoCursor(t) => NoCursor(t)'
        BY <1>11 DEF NoCursor
    <2>5. AsksOwn(frame)
        BY <1>4, <2>1 DEF Paged
    <2>6. \A c, d \in cursors : c.by = d.by => c = d
        BY <2>1 DEF Paged
    <2>7. \A c, d \in cursors' : c.by = d.by => c = d
        <3>1. CASE Opens(frame, answer)
            BY <2>5, <2>6, <3>1 DEF Opens, AsksOwn, NoCursor
        <3>2. CASE Turns(frame, answer)
            BY <2>6, <3>2 DEF Turns
        <3>3. CASE Neither(frame, answer)
            BY <2>6, <3>3 DEF Neither
        <3> QED BY <1>1, <3>1, <3>2, <3>3
    <2>8. TellsOwn(answer)'
        <3>1. CASE Opens(frame, answer)
            <4>1. \A c \in cursors' : c.id = serial + 1 => c.by = frame.by
                BY <1>9, <1>10, <1>11
            <4> QED BY <1>1, <1>9, <3>1, <4>1 DEF Opens, TellsOwn, OwnCursor
        <3>2. CASE Turns(frame, answer)
            <4>1. PICK c \in cursors :
                    /\ c.id = frame.cursor
                    /\ \/ cursors' = cursors \ {c} /\ answer.cursor = 0
                       \/ answer.cursor = c.id
                BY <3>2 DEF Turns
            <4>2. OwnCursor(frame.by, frame.cursor) /\ c.by = frame.by
                BY <2>5, <3>2, <4>1 DEF Turns, AsksOwn, OwnCursor
            <4>3. answer.cursor # 0 => OwnCursor(frame.by, answer.cursor)'
                BY <1>9, <2>3, <4>1, <4>2
            <4>4. CASE answer.cursor = 0
                <5>1. cursors' = cursors \ {c}
                    BY <1>10, <4>1, <4>4
                <5>2. NoCursor(frame.by)'
                    BY <2>6, <4>1, <4>2, <5>1 DEF NoCursor
                <5>3. OwnCursor(frame.by, 0)'
                    BY <1>10, <5>1 DEF OwnCursor
                <5> QED BY <1>1, <4>4, <5>2, <5>3 DEF TellsOwn
            <4>5. CASE answer.cursor # 0
                BY <1>1, <4>3, <4>5 DEF TellsOwn
            <4> QED BY <4>4, <4>5
        <3>3. CASE Neither(frame, answer)
            <4>1. OwnCursor(frame.by, 0)'
                BY <1>10, <3>3 DEF Neither, OwnCursor
            <4>2. answer.fine /\ frame.op \in {"find", "fetch"} => NoCursor(frame.by)'
                BY <2>5, <3>3 DEF Neither, AsksOwn, NoCursor
            <4> QED BY <1>1, <3>3, <4>1, <4>2 DEF Neither, TellsOwn
        <3> QED BY <1>1, <3>1, <3>2, <3>3
    <2>9. ASSUME NEW t \in Streams
          PROVE  ReadsOwn(t)'
        <3>1. ReadsOwn(t)
            BY <2>1 DEF Paged
        <3>2. /\ pc'[t] = pc[t] /\ op'[t] = op[t] /\ outcome'[t] = outcome[t]
              /\ cursor' = cursor /\ request' = request
            BY <1>2 DEF taskVars
        <3>3. /\ cursor[t] \in Nat /\ cursor[t] <= serial
              /\ request[t].cursor \in Nat /\ request[t].cursor <= serial
            BY DEF CursorsNumbered, Types, TypeOK, Requests, Tasks
        <3>4. OwnCursor(t, cursor[t])' /\ (OwnCursor(t, request[t].cursor) => OwnCursor(t, request[t].cursor)')
            BY <1>9, <1>11, <3>1, <3>2, <3>3 DEF ReadsOwn, OwnCursor
        <3>5. Quiet(t) => Quiet(t)'
            BY <1>4, <2>2, <2>4 DEF Quiet
        <3> QED BY <3>1, <3>2, <3>4, <3>5 DEF ReadsOwn
    <2> QED BY <1>2, <1>5, <2>2, <2>7, <2>8, <2>9 DEF Paged
<1> QED BY <1>8, <1>13, <1>14

\* What is lost, and what the server forgets, only takes cursors and requests away.
LEMMA LossPaged ==
    ASSUME Types, Single, CursorsNumbered, Paged, Close \/ ConnectionLost \/ ServerForgets
    PROVE  Single' /\ CursorsNumbered' /\ Paged'
<1>1. UNCHANGED <<taskVars, unread, serial>>
    BY DEF Close, ConnectionLost, ServerForgets, wireVars, serverVars
<1>2. cursors' \subseteq cursors
    BY DEF Close, ConnectionLost, ServerForgets, serverVars
<1>3. Members(requests') \subseteq Members(requests) /\ Len(requests') <= Len(requests)
    <2>1. CASE ServerForgets
        BY <2>1, Unanswered DEF ServerForgets, wireVars
    <2>2. CASE Close \/ ConnectionLost
        <3>1. PICK n \in 0 .. Len(requests) : requests' = SubSeq(requests, 1, n)
            BY <2>2 DEF Close, ConnectionLost, Drops
        <3>2. requests \in Seq(Requests) /\ Len(requests) \in Nat
            BY Unanswered DEF Types, TypeOK
        <3> QED BY <3>1, <3>2, MembersPart, Prefix
    <2> QED BY <2>1, <2>2
<1>4. Members(answers') \subseteq Members(answers) /\ Len(answers') <= Len(answers)
    <2>1. CASE ServerForgets
        BY <2>1, Unanswered DEF ServerForgets, wireVars
    <2>2. CASE Close
        BY <2>2, EmptySeq, Unanswered DEF Close, Members
    <2>3. CASE ConnectionLost
        <3>1. PICK n \in 0 .. Len(answers) : answers' = SubSeq(answers, 1, n)
            BY <2>3 DEF ConnectionLost
        <3>2. answers \in Seq(Answers) /\ Len(answers) \in Nat
            BY Unanswered DEF Types, TypeOK
        <3> QED BY <3>1, <3>2, MembersPart, Prefix
    <2> QED BY <2>1, <2>2, <2>3
<1>5. Single'
    <2>1. /\ requests' \in Seq(Requests) /\ answers' \in Seq(Answers)
          /\ Len(answers) \in Nat /\ Len(requests) \in Nat
        BY LinkTypes, StepTypes, Unanswered DEF Next, Types, TypeOK
    <2>2. Len(answers') \in Nat /\ Len(requests') \in Nat
        BY <2>1, LenProperties
    <2> QED BY <1>1, <1>3, <1>4, <2>1, <2>2 DEF Single, Behind
<1>6. CursorsNumbered'
    BY <1>1, <1>2, <1>3, <1>4 DEF CursorsNumbered, taskVars
<1>7. Paged'
    <2>1. /\ \A t, id : OwnCursor(t, id) => OwnCursor(t, id)'
          /\ \A t : NoCursor(t) => NoCursor(t)'
        BY <1>2 DEF OwnCursor, NoCursor
    <2>2. \A t : Quiet(t) => Quiet(t)'
        BY <1>3, <2>1 DEF Quiet
    <2>3. SUFFICES ASSUME unread = {} PROVE Paged'
        BY <1>1 DEF Paged
    <2>4. \A f \in Members(requests') : AsksOwn(f)'
        BY <1>3, <2>1, <2>3 DEF Paged, AsksOwn
    <2>5. \A a \in Members(answers') : TellsOwn(a)'
        BY <1>4, <2>1, <2>3 DEF Paged, TellsOwn
    <2>6. ASSUME NEW t \in Streams
          PROVE  ReadsOwn(t)'
        <3>1. ReadsOwn(t)
            BY <2>3 DEF Paged
        <3>2. /\ pc'[t] = pc[t] /\ op'[t] = op[t] /\ outcome'[t] = outcome[t]
              /\ cursor' = cursor /\ request' = request
            BY <1>1 DEF taskVars
        <3>3. OwnCursor(t, cursor[t])' /\ (OwnCursor(t, request[t].cursor) => OwnCursor(t, request[t].cursor)')
            BY <1>2, <3>1, <3>2 DEF ReadsOwn, OwnCursor
        <3> QED BY <2>2, <3>1, <3>2, <3>3 DEF ReadsOwn
    <2> QED BY <1>2, <2>3, <2>4, <2>5, <2>6 DEF Paged
<1> QED BY <1>5, <1>6, <1>7

PageInv == Single /\ CursorsNumbered /\ Paged

\* At most one request is in flight, cursors stay with the stream that opened them,
\* and a stream whose last page has come has none, as long as no answer was left
\* unread: the inductive invariant of a stream.
THEOREM PageInvariant == Spec => [](CommitInv /\ PageInv)
<1>1. Init => PageInv
    <2> SUFFICES ASSUME Init PROVE PageInv
        OBVIOUS
    <2>1. /\ Members(requests) = {} /\ Members(answers) = {} /\ Len(answers) = 0 /\ Len(requests) = 0
          /\ cursors = {} /\ serial = 0
        BY DEF Init, Members
    <2>2. /\ \A t \in Streams : cursor[t] = 0
          /\ \A t \in Tasks : request[t].cursor = 0 /\ pc[t] = "ready" /\ outcome[t] = "none"
        BY DEF Init
    <2>3. \A t \in Streams : ReadsOwn(t)
        BY <2>1, <2>2 DEF ReadsOwn, OwnCursor, NoCursor, Quiet, Tasks
    <2> QED BY <2>1, <2>2, <2>3 DEF PageInv, Single, Behind, CursorsNumbered, Paged
<1>2. CommitInv /\ PageInv /\ [Next]_vars => PageInv'
    <2> SUFFICES ASSUME CommitInv, PageInv, [Next]_vars PROVE PageInv'
        OBVIOUS
    <2>1. ASSUME NEW t \in Tasks, Advances(t) \/ Cancel(t)
          PROVE  PageInv'
        BY <2>1, AdvancesSingle, AdvancesPaged DEF CommitInv, SyncInv, PageInv
    <2>2. CASE Close \/ ConnectionLost \/ ServerForgets
        BY <2>2, LossPaged DEF CommitInv, SyncInv, PageInv
    <2>3. CASE Serve
        BY <2>3, ServePaged DEF CommitInv, SyncInv, PageInv
    <2>4. CASE UNCHANGED vars
        BY <2>4 DEF vars, taskVars, wireVars, serverVars, PageInv, Single, Behind, CursorsNumbered,
                    Paged, AsksOwn, TellsOwn, ReadsOwn, Quiet, OwnCursor, NoCursor
    <2> QED BY <2>1, <2>2, <2>3, <2>4 DEF Next
<1> QED BY <1>1, <1>2, CommitInvariant, PTL DEF Spec

\* A stream that came to its end has no cursor left on the server, as long as no
\* answer was left unread: it has read every page, also when others were cancelled
\* while they waited or the connection was lost meanwhile.
THEOREM StreamsAreRead == Spec => []StreamsReadToTheEnd
<1>1. PageInv => StreamsReadToTheEnd
    BY DEF PageInv, Paged, ReadsOwn, Quiet, NoCursor, StreamsReadToTheEnd
<1> QED BY <1>1, PageInvariant, PTL

-----------------------------------------------------------------------------
(* A transaction outlives its task only by a cancellation of its own, or by a *)
(* foreign frame left unread.                                                 *)

Ending == {"commit", "rollback"}
Excused(t) ==
    \/ cancelledIn[t] \in {"begin", "commit", "rollback"}
    \/ \E frame \in unread : frame.by # t

\* Whoever began x still has its id: in the answer to begin, in the map up to the
\* end of the block, in the last frame of the block waiting and on the wire.
Held(x) ==
    LET t == x.by
    IN  \/ /\ op[t] = "begin" /\ pc[t] \in {"sent", "reading"}
           /\ \E a \in Members(answers) : a.fine /\ a.txn = x.id
        \/ /\ txnMap[t] = x.id /\ pc[t] # "ended"
           /\ op[t] = "write" \/ (op[t] \in Ending /\ pc[t] = "ready")
        \/ op[t] \in Ending /\ pc[t] = "queued" /\ request[t].tx = x.id
        \/ \E f \in Members(requests) : f.by = t /\ f.op \in Ending /\ f.tx = x.id

\* Frames are of operations of their task, and only transaction blocks begin.
OpsOwn ==
    /\ \A f \in Members(requests) : f.op \in OpsOf(f.by)
    /\ \A x \in open : x.by \in Txs
    /\ connected \/ socket = "closed"

KeepsOwn(t) ==
    /\ \A f \in Members(requests) :
          f.by = t /\ f.op = "begin" => op[t] = "begin" /\ pc[t] \in {"sent", "reading"}
    /\ \A x \in open : x.by = t => Held(x)

EndsKept == socket = "open" => \A t \in Txs : ~Excused(t) => KeepsOwn(t)

\* A task that begins, is not excused, and has not ended finds no answer unread.
LEMMA BeginsExact ==
    ASSUME Types, UnreadOK, Exact, Single, NEW t \in Txs, ~Excused(t), op[t] = "begin", pc[t] # "ended"
    PROVE  /\ unread = {} /\ ~torn
           /\ answers # <<>> => requests = <<>> /\ Members(requests) = {} /\ Members(answers) = {Head(answers)}
<1>1. unread = {}
    BY DEF Excused, UnreadOK
<1>2. /\ ~torn /\ Behind <= 1 /\ answers \in Seq(Answers)
    BY <1>1 DEF Exact, Single, Types, TypeOK
<1>3. ASSUME answers # <<>>
      PROVE  requests = <<>> /\ Members(requests) = {} /\ Members(answers) = {Head(answers)}
    <2>1. Len(answers) \in Nat /\ Len(requests) \in Nat /\ Len(answers) # 0
        BY <1>3, Unanswered
    <2>2. Len(answers) + Len(requests) <= 1
        BY <1>2 DEF Behind
    <2>3. Len(answers) = 1 /\ Len(requests) = 0
        <3>1. \A m, n \in Nat : m # 0 /\ m + n <= 1 => m = 1 /\ n = 0
            OBVIOUS
        <3> QED BY <2>1, <2>2, <3>1
    <2>4. requests = <<>> /\ Head(answers) = answers[1]
        BY <1>2, <1>3, <2>3, Unanswered, HeadTailProperties
    <2> QED BY <2>3, <2>4 DEF Members
<1> QED BY <1>1, <1>2, <1>3

\* A step of task t, which sends nothing or the frame of its operation, and takes an
\* answer only if it waits for one.
EndStep(t) ==
    /\ UNCHANGED <<linkVars, open>> /\ unread \subseteq unread'
    /\ \A s \in Tasks \ {t} : /\ pc'[s] = pc[s] /\ op'[s] = op[s] /\ request'[s] = request[s]
                              /\ cancelledIn'[s] = cancelledIn[s]
    /\ \A s \in Txs \ {t} : txnMap'[s] = txnMap[s]
    /\ cancelledIn[t] = "none" \/ cancelledIn'[t] = cancelledIn[t]
    /\ answers' = answers \/ pc[t] \in {"sent", "reading"}
    /\ Members(requests) \subseteq Members(requests')
    /\ \/ Members(requests') \subseteq Members(requests)
       \/ /\ Members(requests') \subseteq Members(requests) \cup {request'[t]}
          /\ request'[t].by = t /\ request'[t].op = op[t]

LEMMA EndStepKept ==
    ASSUME Types, OpsOwn, EndsKept, NEW t \in Tasks, EndStep(t),
           t \in Txs /\ socket = "open" /\ ~Excused(t) /\ ~Excused(t)' => KeepsOwn(t)'
    PROVE  OpsOwn' /\ EndsKept'
<1>0. Txs \subseteq Tasks /\ op[t] \in OpsOf(t)
    BY DEF Tasks, Types, CallsOK
<1>1. OpsOwn'
    <2>1. \A f \in Members(requests') : f.op \in OpsOf(f.by)
        BY <1>0 DEF OpsOwn, EndStep
    <2> QED BY <2>1 DEF OpsOwn, EndStep, linkVars
<1>2. SUFFICES ASSUME socket = "open", NEW s \in Txs, ~Excused(s)'
               PROVE  KeepsOwn(s)'
    BY <1>1 DEF EndsKept, EndStep, linkVars
<1>3. ~Excused(s)
    BY <1>0, <1>2 DEF Excused, EndStep
<1>4. CASE s = t
    BY <1>2, <1>3, <1>4
<1>5. CASE s # t
    <2>1. KeepsOwn(s) /\ s \in Tasks
        BY <1>0, <1>2, <1>3 DEF EndsKept
    <2>2. /\ pc'[s] = pc[s] /\ op'[s] = op[s] /\ request'[s] = request[s] /\ txnMap'[s] = txnMap[s]
          /\ open' = open
        BY <1>5, <2>1 DEF EndStep
    <2>3. pc[s] \in {"sent", "reading"} => answers' = answers
        BY <1>5, <2>1 DEF EndStep, Types, LockOK
    <2>4. ASSUME NEW f \in Members(requests'), f.by = s
          PROVE  f \in Members(requests)
        BY <1>5, <2>4 DEF EndStep
    <2>5. Members(requests) \subseteq Members(requests')
        BY DEF EndStep
    <2>6. ASSUME NEW x \in open, x.by = s
          PROVE  Held(x)'
        <3>1. Held(x)
            BY <2>1, <2>6 DEF KeepsOwn
        <3> QED BY <2>2, <2>3, <2>5, <2>6, <3>1 DEF Held
    <2> QED BY <2>1, <2>2, <2>4, <2>6 DEF KeepsOwn
<1> QED BY <1>4, <1>5

\* An operation other than begin is left: a write for the end of the block, whose id
\* stays in the map, the end of the block for good.
LEMMA LeavesKept ==
    ASSUME Types, OpsOwn, EndsKept, NEW t \in Tasks, Leaves(t), EndStep(t), requests' = requests,
           pc[t] # "queued" \/ op[t] = "write", pc[t] # "ready", pc[t] # "ended",
           t \in Txs => txnMap'[t] = txnMap[t],
           t \in Txs /\ op[t] = "write" => pc'[t] = "ready",
           t \in Txs /\ op[t] = "begin" /\ socket = "open" /\ ~Excused(t) => Excused(t)'
    PROVE  OpsOwn' /\ EndsKept'
<1>1. SUFFICES ASSUME t \in Txs, socket = "open", ~Excused(t), ~Excused(t)'
               PROVE  KeepsOwn(t)'
    BY EndStepKept
<1>2. op[t] \in {"write", "commit", "rollback"} /\ KeepsOwn(t)
    BY <1>1 DEF Types, CallsOK, OpsOf, EndsKept
<1>3. op[t] = "write" => op'[t] \in Ending
    <2>1. PICK p \in {"ready", "ended"}, o \in OpsOf(t) :
             /\ pc' = [pc EXCEPT ![t] = p] /\ op' = [op EXCEPT ![t] = o]
             /\ IF p = "ended" THEN o = op[t] ELSE Follows(op[t], o)
        BY DEF Leaves
    <2>2. pc'[t] = p /\ op'[t] = o
        BY <2>1 DEF Types, TypeOK
    <2> QED BY <1>1, <2>1, <2>2 DEF Follows, Ending
<1>4. open' = open /\ \A x \in open : x.by = t => Held(x)
    BY <1>2 DEF EndStep, KeepsOwn
<1>5. ASSUME NEW x \in open, x.by = t
      PROVE  Held(x)'
    <2>1. Held(x)
        BY <1>4, <1>5
    <2>2. CASE txnMap[t] = x.id /\ op[t] = "write"
        BY <1>1, <1>3, <1>5, <2>2 DEF Held
    <2>3. CASE \E f \in Members(requests) : f.by = t /\ f.op \in Ending /\ f.tx = x.id
        BY <1>5, <2>3 DEF Held
    <2> QED BY <1>2, <1>5, <2>1, <2>2, <2>3 DEF Held, Ending
<1> QED BY <1>2, <1>4, <1>5 DEF KeepsOwn

\* A frame is sent, or its task joins the queue with it.
LEMMA SentKept ==
    ASSUME Types, OpsOwn, EndsKept, NEW t \in Tasks, EndStep(t), pc[t] \in {"ready", "queued"},
           op' = op, request'[t].by = t, request'[t].op = op[t],
           pc[t] = "queued" => request'[t] = request[t] /\ txnMap'[t] = txnMap[t],
           t \in Txs /\ pc[t] = "ready" => /\ request'[t].tx = txnMap[t]
                                           /\ op[t] \notin Ending => txnMap'[t] = txnMap[t],
           \/ pc'[t] = "sent" /\ (socket = "open" => request'[t] \in Members(requests'))
           \/ pc'[t] = "queued" /\ pc[t] = "ready" /\ requests' = requests
    PROVE  OpsOwn' /\ EndsKept'
<1>1. SUFFICES ASSUME t \in Txs, socket = "open", ~Excused(t)
               PROVE  KeepsOwn(t)'
    BY EndStepKept
<1>2. op[t] \in {"begin", "write", "commit", "rollback"} /\ KeepsOwn(t)
    BY <1>1 DEF Types, CallsOK, OpsOf, EndsKept
<1>3. ASSUME NEW f \in Members(requests'), f.by = t, f.op = "begin"
      PROVE  op'[t] = "begin" /\ pc'[t] \in {"sent", "reading"}
    <2>1. f \notin Members(requests)
        BY <1>2, <1>3 DEF KeepsOwn
    <2>2. f = request'[t] /\ pc'[t] = "sent"
        BY <2>1 DEF EndStep
    <2> QED BY <1>3, <2>2
<1>4. ASSUME NEW x \in open, x.by = t
      PROVE  Held(x)'
    <2>1. Held(x)
        BY <1>2, <1>4 DEF KeepsOwn
    <2>2. Members(requests) \subseteq Members(requests')
        BY DEF EndStep
    <2>3. CASE txnMap[t] = x.id /\ op[t] = "write"
        <3>1. txnMap'[t] = x.id /\ pc'[t] # "ended"
            BY <1>1, <2>3 DEF Ending
        <3> QED BY <1>4, <2>3, <3>1 DEF Held
    <2>4. CASE op[t] \in Ending /\ request'[t].tx = x.id
        BY <1>1, <1>4, <2>4 DEF Held
    <2>5. CASE \E f \in Members(requests) : f.by = t /\ f.op \in Ending /\ f.tx = x.id
        BY <1>4, <2>2, <2>5 DEF Held
    <2> QED BY <1>1, <1>4, <2>1, <2>3, <2>4, <2>5 DEF Held
<1>5. open' = open
    BY DEF EndStep
<1> QED BY <1>3, <1>4, <1>5 DEF KeepsOwn

LEMMA MembersSplit ==
    ASSUME NEW S, NEW q \in Seq(S), q # <<>>, NEW e \in Members(q)
    PROVE  e = Head(q) \/ e \in Members(Tail(q))
<1>1. Len(q) \in Nat \ {0} /\ Head(q) = q[1]
    BY EmptySeq
<1>2. Len(Tail(q)) = Len(q) - 1 /\ \A i \in 1 .. Len(q) - 1 : Tail(q)[i] = q[i + 1]
    BY HeadTailProperties
<1>3. PICK i \in 1 .. Len(q) : e = q[i]
    BY DEF Members
<1>4. CASE i = 1
    BY <1>1, <1>3, <1>4
<1>5. CASE i # 1
    <2>1. i - 1 \in 1 .. Len(q) - 1 /\ (i - 1) + 1 = i
        BY <1>1, <1>5
    <2>2. e = Tail(q)[i - 1]
        BY <1>2, <1>3, <2>1
    <2> QED BY <1>2, <2>1, <2>2 DEF Members
<1> QED BY <1>4, <1>5

\* Task t leaves its operation by an exception.
LEMMA RaisedKept ==
    ASSUME Types, OpsOwn, EndsKept, NEW t \in Tasks, NEW how \in {"failed", "cancelled"}, Raises(t, how),
           pc[t] # "queued" \/ op[t] = "write" \/ t \notin Txs \/ Excused(t)' \/ socket # "open",
           pc[t] # "ready" \/ t \notin Txs \/ socket # "open", pc[t] # "ended",
           t \in Txs /\ op[t] = "begin" /\ socket = "open" /\ ~Excused(t) => Excused(t)',
           UNCHANGED <<linkVars, open, request, requests>>, unread \subseteq unread',
           \A s \in Txs : txnMap'[s] = txnMap[s] \/ (s = t /\ socket # "open"),
           \A s \in Tasks \ {t} : cancelledIn'[s] = cancelledIn[s],
           cancelledIn[t] = "none" \/ cancelledIn'[t] = cancelledIn[t],
           answers' = answers \/ pc[t] \in {"sent", "reading"}
    PROVE  OpsOwn' /\ EndsKept'
<1>1. Leaves(t) /\ Raised(t)
    BY RaisesLeave
<1>2. \A s \in Tasks \ {t} : pc'[s] = pc[s] /\ op'[s] = op[s]
    BY <1>1, LeavesOwn
<1>3. EndStep(t)
    BY <1>2 DEF EndStep
<1>4. CASE t \in Txs /\ socket = "open" /\ ~Excused(t)'
    <2>1. t \in Txs /\ op[t] = "write" => pc'[t] = "ready"
        BY <1>1 DEF Raised, Types, TypeOK
    <2>2. pc[t] # "queued" \/ op[t] = "write"
        BY <1>4
    <2> QED BY <1>1, <1>3, <1>4, <2>1, <2>2, LeavesKept
<1>5. CASE ~ (t \in Txs /\ socket = "open" /\ ~Excused(t)')
    BY <1>3, <1>5, EndStepKept
<1> QED BY <1>4, <1>5

LEMMA AdvancesKept ==
    ASSUME Types, UnreadOK, Exact, Single, OpsOwn, EndsKept, NEW t \in Tasks, Advances(t) \/ Cancel(t)
    PROVE  OpsOwn' /\ EndsKept'
<1>0. Txs \subseteq Tasks /\ requests \in Seq(Requests) /\ answers \in Seq(Answers)
    BY DEF Tasks, Types, TypeOK
<1>1. CASE Call(t)
    <2>1. /\ pc[t] = "ready" /\ UNCHANGED <<linkVars, open, unread, cancelledIn, answers>>
          /\ \A s \in Txs \ {t} : txnMap'[s] = txnMap[s]
          /\ t \in Txs /\ op[t] \notin Ending => txnMap'[t] = txnMap[t]
        BY <1>1 DEF Call, serverVars, Ending, Types, TypeOK
    <2>2. CASE ~connected /\ Raises(t, "failed") /\ UNCHANGED <<request, requests>>
        <3>1. socket # "open"
            BY <2>2 DEF OpsOwn
        <3> QED BY <2>1, <2>2, <3>1, RaisedKept
    <2>3. CASE connected /\ request' = [request EXCEPT ![t] = Frame(t)]
        <3>1. request'[t] = Frame(t) /\ \A s \in Tasks \ {t} : request'[s] = request[s]
            BY <2>3 DEF Types, TypeOK
        <3>2. Frame(t).by = t /\ Frame(t).op = op[t] /\ (t \in Txs => Frame(t).tx = txnMap[t])
            BY DEF Frame
        <3>3. \/ Sent(t, Frame(t))
              \/ pc' = [pc EXCEPT ![t] = "queued"] /\ UNCHANGED <<op, requests>>
            BY <1>1, <2>3 DEF Call, Frame, Sends, Sent
        <3>4. /\ op' = op /\ \A s \in Tasks \ {t} : pc'[s] = pc[s]
              /\ \/ pc'[t] = "sent" /\ requests' = IF socket = "open" THEN Append(requests, Frame(t)) ELSE requests
                 \/ pc'[t] = "queued" /\ requests' = requests
            BY <3>3 DEF Sent, Types, TypeOK
        <3>5. /\ Members(requests) \subseteq Members(requests')
              /\ Members(requests') \subseteq Members(requests) \cup {Frame(t)}
              /\ pc'[t] = "sent" /\ socket = "open" => Frame(t) \in Members(requests')
            <4>1. Members(Append(requests, Frame(t))) = Members(requests) \cup {Frame(t)}
                BY <1>0, FrameType, MembersAppend
            <4> QED BY <3>4, <4>1
        <3>6. EndStep(t)
            BY <2>1, <3>1, <3>2, <3>4, <3>5 DEF EndStep
        <3> QED BY <2>1, <3>1, <3>2, <3>4, <3>5, <3>6, SentKept
    <2> QED BY <1>1, <2>2, <2>3 DEF Call, Frame, lockVars
<1>2. CASE TakeLock(t)
    <2>1. /\ queue # <<>> /\ Head(queue) = t /\ Sends(t, request[t])
          /\ UNCHANGED <<linkVars, open, unread, cancelledIn, answers, request, txnMap>>
        BY <1>2 DEF TakeLock, serverVars
    <2>2. pc[t] = "queued" /\ request[t] \in Requests
        BY <2>1, QueueServe DEF Types, TypeOK, LockOK
    <2>3. request[t].by = t /\ request[t].op = op[t]
        BY <2>2 DEF Types, CallsOK
    <2>4. CASE Sent(t, request[t])
        <3>1. /\ op' = op /\ pc'[t] = "sent" /\ \A s \in Tasks \ {t} : pc'[s] = pc[s]
              /\ requests' = IF socket = "open" THEN Append(requests, request[t]) ELSE requests
            BY <2>4 DEF Sent, Types, TypeOK
        <3>2. Members(Append(requests, request[t])) = Members(requests) \cup {request[t]}
            BY <1>0, <2>2, MembersAppend
        <3>3. EndStep(t)
            BY <2>1, <2>3, <3>1, <3>2 DEF EndStep
        <3> QED BY <2>1, <2>2, <2>3, <3>1, <3>2, <3>3, SentKept
    <2>5. CASE ~connected /\ Raises(t, "failed") /\ UNCHANGED requests
        <3>1. socket # "open"
            BY <2>5 DEF OpsOwn
        <3> QED BY <2>1, <2>2, <2>5, <3>1, RaisedKept
    <2> QED BY <2>1, <2>4, <2>5 DEF Sends, Sent
<1>3. CASE ReadHeader(t)
    <2>1. /\ pc[t] = "sent" /\ pc' = [pc EXCEPT ![t] = "reading"]
          /\ UNCHANGED <<linkVars, op, request, requests, txnMap, answers, unread, open, cancelledIn>>
        BY <1>3 DEF ReadHeader, wireVars, serverVars
    <2>2. pc'[t] = "reading" /\ \A s \in Tasks \ {t} : pc'[s] = pc[s]
        BY <2>1 DEF Types, TypeOK
    <2>3. EndStep(t)
        BY <2>1, <2>2 DEF EndStep
    <2>4. ASSUME t \in Txs, socket = "open", ~Excused(t)
          PROVE  KeepsOwn(t)'
        <3>1. KeepsOwn(t)
            BY <2>4 DEF EndsKept
        <3>2. \A x \in open : x.by = t /\ Held(x) => Held(x)'
            BY <2>1, <2>2 DEF Held
        <3> QED BY <2>1, <2>2, <3>1, <3>2 DEF KeepsOwn
    <2> QED BY <2>3, <2>4, EndStepKept
<1>4. CASE ReadRest(t)
    <2>0. PICK answer \in Answers : answer = Head(answers)
        BY <1>0, <1>4, HeadTailProperties DEF ReadRest
    <2>1. /\ pc[t] = "reading" /\ answers # <<>>
          /\ UNCHANGED <<linkVars, request, requests, unread, open, cancelledIn>>
        BY <1>4 DEF ReadRest, serverVars
    <2>2. \/ /\ answer.fine
             /\ TakesBegin(t, answer) \/ TakesWrite(t) \/ TakesEnd(t) \/ TakesPage(t, answer)
          \/ /\ ~answer.fine \/ (Blank(answer) /\ op[t] \in {"write", "find", "fetch"})
             /\ Raises(t, "failed") /\ UNCHANGED txnMap
        BY <1>4, <2>0 DEF ReadRest
    <2>3. /\ Leaves(t)
          /\ txnMap' = IF op[t] = "begin" /\ ~Raises(t, "failed")
                       THEN [txnMap EXCEPT ![t] = answer.txn] ELSE txnMap
        <3>1. CASE Raises(t, "failed") /\ UNCHANGED txnMap
            BY <3>1, RaisesLeave
        <3>2. CASE ~Raises(t, "failed")
            BY <2>2, <3>2, TakesLeave
        <3>3. CASE /\ Raises(t, "failed")
                   /\ TakesBegin(t, answer) \/ TakesWrite(t) \/ TakesEnd(t) \/ TakesPage(t, answer)
            <4>1. op[t] # "begin"
                BY <3>3 DEF Raises, Ends, Issues, TakesBegin, TakesWrite, TakesEnd, TakesPage, Types, TypeOK
            <4> QED BY <3>3, <4>1, TakesLeave
        <3> QED BY <2>2, <3>1, <3>2, <3>3
    <2>4. \A s \in Tasks \ {t} : pc'[s] = pc[s] /\ op'[s] = op[s]
        BY <2>3, LeavesOwn
    <2>5. EndStep(t)
        BY <2>1, <2>3, <2>4 DEF EndStep, Types, TypeOK
    <2>6. CASE t \in Txs /\ op[t] = "begin" /\ socket = "open" /\ ~Excused(t)
        <3>1. requests = <<>> /\ Members(requests) = {} /\ Members(answers) = {answer}
            BY <2>0, <2>1, <2>6, BeginsExact
        <3>2. ASSUME NEW x \in open, x.by = t
              PROVE  answer.fine /\ answer.txn = x.id
            <4>1. Held(x)
                BY <2>6, <3>2 DEF EndsKept, KeepsOwn
            <4> QED BY <2>6, <3>1, <3>2, <4>1 DEF Held, Ending
        <3>3. ASSUME answer.fine
              PROVE  txnMap' = [txnMap EXCEPT ![t] = answer.txn] /\ op'[t] = "write" /\ pc'[t] = "ready"
            <4>1. TakesBegin(t, answer)
                BY <2>2, <2>6, <3>3 DEF TakesWrite, TakesEnd, TakesPage
            <4> QED BY <4>1 DEF TakesBegin, Issues, Types, TypeOK
        <3>4. txnMap \in [Txs -> Nat]
            BY DEF Types, TypeOK
        <3>5. \A x \in open : x.by = t => Held(x)'
            BY <2>6, <3>2, <3>3, <3>4 DEF Held
        <3>6. KeepsOwn(t)'
            BY <2>1, <3>1, <3>5 DEF KeepsOwn
        <3> QED BY <2>5, <3>6, EndStepKept
    <2>7. CASE t \in Txs /\ op[t] # "begin"
        <3>1. txnMap' = txnMap
            BY <2>3, <2>7
        <3>2. op[t] = "write" => pc'[t] = "ready"
            BY <2>2, <2>7 DEF Raises, Issues, TakesBegin, TakesWrite, TakesEnd, TakesPage, Types, TypeOK
        <3> QED BY <2>1, <2>3, <2>5, <2>7, <3>1, <3>2, LeavesKept
    <2>8. CASE ~ (t \in Txs /\ socket = "open" /\ ~Excused(t))
        BY <2>5, <2>8, EndStepKept
    <2> QED BY <2>6, <2>7, <2>8
<1>5. CASE ReadFails(t)
    <2>1. /\ Raises(t, "failed") /\ socket # "open" /\ pc[t] \in {"sent", "reading"}
          /\ UNCHANGED <<linkVars, request, requests, txnMap, answers, unread, open, cancelledIn>>
        BY <1>5 DEF ReadFails, wireVars, serverVars
    <2> QED BY <2>1, RaisedKept
<1>6. CASE ReadGarbage(t)
    <2>1. /\ Raises(t, "failed") /\ unread \subseteq unread' /\ pc[t] = "sent" /\ torn
          /\ UNCHANGED <<linkVars, request, requests, txnMap, open, cancelledIn>>
        BY <1>6 DEF ReadGarbage, serverVars
    <2>2. t \in Txs /\ op[t] = "begin" => Excused(t)
        BY <2>1, BeginsExact
    <2> QED BY <2>1, <2>2, RaisedKept
<1>7. CASE Cancel(t)
    <2>1. /\ Raises(t, "cancelled") /\ unread \subseteq unread' /\ pc[t] \in {"queued", "sent", "reading"}
          /\ cancelledIn[t] = "none" /\ cancelledIn' = [cancelledIn EXCEPT ![t] = op[t]]
          /\ UNCHANGED <<linkVars, request, requests, answers, txnMap, open>>
        BY <1>7 DEF Cancel, serverVars
    <2>2. cancelledIn'[t] = op[t] /\ \A s \in Tasks \ {t} : cancelledIn'[s] = cancelledIn[s]
        BY <2>1 DEF Types, TypeOK
    <2>3. t \in Txs => op[t] = "write" \/ Excused(t)'
        BY <2>2 DEF Excused, Types, CallsOK, OpsOf
    <2> QED BY <2>1, <2>2, <2>3, RaisedKept
<1> QED BY <1>1, <1>2, <1>3, <1>4, <1>5, <1>6, <1>7 DEF Advances

\* The server answers begin to the one that waits for it, and lets no transaction
\* stand whose end it has read.
LEMMA ServeKept ==
    ASSUME Types, OpsOwn, EndsKept, Serve
    PROVE  OpsOwn' /\ EndsKept'
<1>0. PICK frame \in Requests : frame = Head(requests)
    BY ServeAnswers
<1>1. PICK answer \in Answers : Answered(frame, answer)
    BY <1>0, ServeAnswers
<1>2. requests # <<>> /\ requests' = Tail(requests) /\ UNCHANGED <<linkVars, taskVars, unread>>
    BY ServeAnswers
<1>3. answers \in Seq(Answers) /\ requests \in Seq(Requests)
    BY DEF Types, TypeOK
<1>4. /\ frame \in Members(requests) /\ Members(requests') \subseteq Members(requests)
      /\ \A f \in Members(requests) : f = frame \/ f \in Members(requests')
    BY <1>0, <1>2, <1>3, MembersTail, MembersSplit
<1>5. /\ Members(answers) \subseteq Members(answers')
      /\ socket = "open" => answer \in Members(answers')
    BY <1>1, <1>3, MembersAppend DEF Answered
<1>6. \A x \in open' : \/ x \in open
                       \/ /\ frame.op = "begin" /\ x = [id |-> serial + 1, by |-> frame.by]
                          /\ answer.fine /\ answer.txn = serial + 1
    BY <1>1 DEF Answered, Refuses, ServeBegin, ServeWrite, ServeEnd, ServeFind, ServeFetch
<1>7. \A x \in open : frame.op \in Ending /\ frame.tx = x.id => x \notin open'
    <2>1. ASSUME NEW x \in open, frame.op \in Ending, frame.tx = x.id
          PROVE  x \notin open'
        <3>1. Known(frame.tx)
            BY <2>1 DEF Known
        <3>2. ServeEnd(frame)
            BY <1>1, <2>1, <3>1 DEF Answered, Refuses, ServeBegin, ServeWrite, ServeFind, ServeFetch, Ending
        <3> QED BY <2>1, <3>2 DEF ServeEnd
    <2> QED BY <2>1
<1>8. OpsOwn'
    <2>1. frame.op = "begin" => frame.by \in Txs
        BY <1>4 DEF OpsOwn, OpsOf
    <2>2. \A x \in open' : x.by \in Txs
        BY <1>6, <2>1 DEF OpsOwn
    <2> QED BY <1>2, <1>4, <2>2 DEF OpsOwn, linkVars
<1>9. EndsKept'
    <2>1. /\ pc' = pc /\ op' = op /\ request' = request /\ txnMap' = txnMap
          /\ socket' = socket /\ cancelledIn' = cancelledIn /\ unread' = unread
        BY <1>2 DEF taskVars, linkVars
    <2>2. SUFFICES ASSUME socket = "open", NEW t \in Txs, ~Excused(t)
                   PROVE  KeepsOwn(t)'
        BY <2>1 DEF EndsKept, Excused
    <2>3. KeepsOwn(t)
        BY <2>2 DEF EndsKept
    <2>4. ASSUME NEW x \in open', x.by = t
          PROVE  Held(x)'
        <3>1. CASE x \in open
            <4>1. Held(x)
                BY <2>3, <2>4, <3>1 DEF KeepsOwn
            <4>2. ASSUME NEW f \in Members(requests), f.by = t, f.op \in Ending, f.tx = x.id
                  PROVE  f \in Members(requests')
                BY <1>4, <1>7, <2>4, <3>1, <4>2
            <4> QED BY <1>5, <2>1, <2>4, <4>1, <4>2 DEF Held
        <3>2. CASE x \notin open
            <4>1. /\ frame.op = "begin" /\ frame.by = t /\ x.id = serial + 1
                  /\ answer.fine /\ answer.txn = serial + 1
                BY <1>6, <2>4, <3>2
            <4>2. op[t] = "begin" /\ pc[t] \in {"sent", "reading"}
                BY <1>4, <2>3, <4>1 DEF KeepsOwn
            <4> QED BY <1>5, <2>1, <2>2, <2>4, <4>1, <4>2 DEF Held
        <3> QED BY <3>1, <3>2
    <2> QED BY <1>4, <2>1, <2>3, <2>4 DEF KeepsOwn
<1> QED BY <1>8, <1>9

EndInv == OpsOwn /\ EndsKept

\* Whoever began an open transaction still has its id, or was excused: the inductive
\* invariant of the ends of transactions.
THEOREM EndInvariant == Spec => []EndInv
<1>1. Init => EndInv
    BY DEF Init, EndInv, OpsOwn, EndsKept, KeepsOwn, Members
<1>2. CommitInv /\ PageInv /\ EndInv /\ [Next]_vars => EndInv'
    <2> SUFFICES ASSUME CommitInv, PageInv, EndInv, [Next]_vars PROVE EndInv'
        OBVIOUS
    <2>1. ASSUME NEW t \in Tasks, Advances(t) \/ Cancel(t)
          PROVE  EndInv'
        BY <2>1, AdvancesKept DEF CommitInv, SyncInv, PageInv, EndInv
    <2>2. CASE Close \/ ConnectionLost \/ ServerForgets
        <3>1. socket' = "closed" /\ open' \subseteq open
            BY <2>2 DEF Close, ConnectionLost, ServerForgets, Drops, linkVars, serverVars
        <3>2. Members(requests') \subseteq Members(requests)
            <4>1. CASE ServerForgets
                BY <4>1 DEF ServerForgets, wireVars
            <4>2. CASE Close \/ ConnectionLost
                <5>1. PICK n \in 0 .. Len(requests) : requests' = SubSeq(requests, 1, n)
                    BY <4>2 DEF Close, ConnectionLost, Drops
                <5> QED BY <5>1, MembersPart DEF CommitInv, SyncInv, Types, TypeOK
            <4> QED BY <2>2, <4>1, <4>2
        <3> QED BY <3>1, <3>2 DEF EndInv, OpsOwn, EndsKept
    <2>3. CASE Serve
        BY <2>3, ServeKept DEF CommitInv, SyncInv, EndInv
    <2>4. CASE UNCHANGED vars
        BY <2>4 DEF vars, linkVars, taskVars, wireVars, serverVars, EndInv, OpsOwn, EndsKept, KeepsOwn,
                    Held, Excused
    <2> QED BY <2>1, <2>2, <2>3, <2>4 DEF Next
<1> QED BY <1>1, <1>2, PageInvariant, PTL DEF Spec

\* A transaction of the server outlives its task only if the task was cancelled while
\* it began or ended it, or if another task has put the stream out of step: an
\* exception in the block, and a cancellation in it, always reach the rollback.
THEOREM TransactionsAreEnded == Spec => []TransactionsEnded
<1>1. CommitInv /\ EndInv => TransactionsEnded
    <2> SUFFICES ASSUME CommitInv, EndInv, NEW x \in open, Settled(x.by), ~Excused(x.by)
                 PROVE  FALSE
        BY DEF TransactionsEnded, Excused
    <2>1. x.by \in Txs /\ socket = "open" /\ pc[x.by] = "ended"
        BY DEF EndInv, OpsOwn, Settled
    <2>2. Held(x)
        BY <2>1 DEF EndInv, EndsKept, KeepsOwn
    <2>3. PICK f \in Members(requests) : f.by = x.by
        BY <2>1, <2>2 DEF Held
    <2>4. \A i \in 1 .. Len(requests) : requests[i].by # x.by
        BY LenProperties DEF Settled, CommitInv, SyncInv, Types, TypeOK
    <2> QED BY <2>3, <2>4 DEF Members
<1> QED BY <1>1, CommitInvariant, EndInvariant, PTL
===============================================================================

--------------------------- MODULE TransportProofs ---------------------------
(* Proofs about module Transport for any set of calls and any number of       *)
(* attempts: the lock, the registrations and the answers, and that the module *)
(* implements RequestContract.                                                *)
EXTENDS Transport, TLAPS, SequenceTheorems

-----------------------------------------------------------------------------
(* The queue of an asyncio.Lock.                                              *)

\* What is left of a queue when one of its elements is taken out (a cancelled
\* waiter): the elements before it keep their place, the others move up by one.
LEMMA RemoveAtProperties ==
    ASSUME NEW S, NEW q \in Seq(S), NEW n \in 1 .. Len(q)
    PROVE  /\ RemoveAt(q, n) \in Seq(S)
           /\ Len(RemoveAt(q, n)) = Len(q) - 1
           /\ \A i \in 1 .. Len(q) - 1 :
                  RemoveAt(q, n)[i] = IF i < n THEN q[i] ELSE q[i + 1]
<1> DEFINE a == SubSeq(q, 1, n - 1)
           b == SubSeq(q, n + 1, Len(q))
<1>1. Len(q) \in Nat /\ \A i \in 1 .. Len(q) : q[i] \in S
    BY LenProperties, ElementOfSeq
<1>2. a \in Seq(S) /\ Len(a) = n - 1 /\ \A i \in 1 .. n - 1 : a[i] = q[i]
    BY <1>1, SubSeqProperties, Z3
<1>3. b \in Seq(S) /\ Len(b) = Len(q) - n /\ \A i \in 1 .. Len(q) - n : b[i] = q[n + i]
    BY <1>1, SubSeqProperties, Z3
<1>4. RemoveAt(q, n) = a \o b
    BY DEF RemoveAt
<1> HIDE DEF a, b
<1>5. /\ a \o b \in Seq(S)
      /\ Len(a \o b) = Len(a) + Len(b)
      /\ \A i \in 1 .. Len(a) + Len(b) :
             (a \o b)[i] = IF i <= Len(a) THEN a[i] ELSE b[i - Len(a)]
    BY <1>2, <1>3, ConcatProperties
<1>6. Len(a) + Len(b) = Len(q) - 1
    BY <1>1, <1>2, <1>3
<1>7. \A i \in 1 .. Len(q) - 1 : i < n => (a \o b)[i] = q[i]
    BY <1>1, <1>2, <1>5, <1>6
<1>8. ASSUME NEW i \in 1 .. Len(q) - 1, ~ (i < n)
      PROVE  (a \o b)[i] = q[i + 1]
    <2>1. i - (n - 1) \in 1 .. Len(q) - n /\ n + (i - (n - 1)) = i + 1
        BY <1>8, <1>1
    <2>2. (a \o b)[i] = b[i - (n - 1)]
        BY <1>8, <1>1, <1>2, <1>5, <1>6
    <2>3. b[i - (n - 1)] = q[n + (i - (n - 1))]
        BY <2>1, <1>3
    <2> QED BY <2>1, <2>2, <2>3
<1> QED
    BY <1>4, <1>5, <1>6, <1>7, <1>8

Members(q) == {q[i] : i \in 1 .. Len(q)}
Distinct(q) == \A i, j \in 1 .. Len(q) : q[i] = q[j] => i = j

\* The three things that happen to the queue: a call joins it at the end, its
\* first call gets the lock, a cancelled call drops out wherever it stands.
\* Each changes the membership by that call only, and no call is in it twice.
LEMMA QueueJoin ==
    ASSUME NEW S, NEW q \in Seq(S), NEW r \in S, Distinct(q), r \notin Members(q)
    PROVE  /\ Append(q, r) \in Seq(S)
           /\ Distinct(Append(q, r))
           /\ Members(Append(q, r)) = Members(q) \cup {r}
<1>1. Len(q) \in Nat
    BY LenProperties
<1>2. /\ Append(q, r) \in Seq(S)
      /\ Len(Append(q, r)) = Len(q) + 1
      /\ \A i \in 1 .. Len(q) : Append(q, r)[i] = q[i]
      /\ Append(q, r)[Len(q) + 1] = r
    BY AppendProperties
<1> QED
    BY <1>1, <1>2 DEF Members, Distinct

LEMMA QueueLeave ==
    ASSUME NEW S, NEW q \in Seq(S), Distinct(q), NEW n \in 1 .. Len(q)
    PROVE  /\ RemoveAt(q, n) \in Seq(S)
           /\ Distinct(RemoveAt(q, n))
           /\ Members(RemoveAt(q, n)) = Members(q) \ {q[n]}
<1>1. Len(q) \in Nat
    BY LenProperties
<1> DEFINE p == RemoveAt(q, n)
<1>2. /\ p \in Seq(S)
      /\ Len(p) = Len(q) - 1
      /\ \A i \in 1 .. Len(q) - 1 : p[i] = IF i < n THEN q[i] ELSE q[i + 1]
    BY RemoveAtProperties
<1> HIDE DEF p
<1>3. Distinct(p)
    BY <1>1, <1>2 DEF Distinct
<1>4. Members(p) \subseteq Members(q) \ {q[n]}
    BY <1>1, <1>2 DEF Distinct, Members
<1>5. ASSUME NEW i \in 1 .. Len(q), i # n
      PROVE  q[i] \in Members(p)
    <2>1. CASE i < n
        BY <2>1, <1>1, <1>2 DEF Members
    <2>2. CASE i > n
        <3>1. i - 1 \in 1 .. Len(p) /\ p[i - 1] = q[i]
            BY <2>2, <1>1, <1>2
        <3> QED BY <3>1 DEF Members
    <2> QED BY <1>5, <2>1, <2>2, <1>1
<1>6. Members(q) \ {q[n]} \subseteq Members(p)
    BY <1>5 DEF Members
<1> QED
    BY <1>2, <1>3, <1>4, <1>6 DEF p

LEMMA QueueServe ==
    ASSUME NEW S, NEW q \in Seq(S), Distinct(q), q # <<>>
    PROVE  /\ Head(q) \in Members(q)
           /\ Tail(q) \in Seq(S)
           /\ Distinct(Tail(q))
           /\ Members(Tail(q)) = Members(q) \ {Head(q)}
<1>1. Len(q) \in Nat \ {0} /\ Head(q) = q[1]
    BY EmptySeq
<1> DEFINE p == Tail(q)
<1>2. /\ p \in Seq(S)
      /\ Len(p) = Len(q) - 1
      /\ \A i \in 1 .. Len(p) : p[i] = q[i + 1]
    BY HeadTailProperties
<1> HIDE DEF p
<1>3. Head(q) \in Members(q)
    BY <1>1 DEF Members
<1>4. Distinct(p)
    BY <1>1, <1>2 DEF Distinct
<1>5. Members(p) \subseteq Members(q) \ {Head(q)}
    BY <1>1, <1>2 DEF Distinct, Members
<1>6. ASSUME NEW i \in 1 .. Len(q), i # 1
      PROVE  q[i] \in Members(p)
    <2>1. i - 1 \in 1 .. Len(p) /\ p[i - 1] = q[i]
        BY <1>1, <1>2, <1>6
    <2> QED BY <2>1 DEF Members
<1>7. Members(q) \ {Head(q)} \subseteq Members(p)
    BY <1>1, <1>6 DEF Members
<1> QED
    BY <1>2, <1>3, <1>4, <1>5, <1>7 DEF p
-----------------------------------------------------------------------------
(* The lock, the queue and the attempt counter, with the types.               *)

LockInv ==
    /\ \A r \in Calls : lock = r <=> pc[r] \in {"yielding", "draining"}
    /\ \A r \in Calls : pc[r] = "queued" <=> r \in Members(queue)
    /\ Distinct(queue)

\* A call that backs off has an attempt left, so that the next one is in range.
AttemptInv ==
    \A r \in Calls :
        /\ pc[r] = "idle" => attempt[r] = 0
        /\ pc[r] # "idle" => attempt[r] \in Attempts
        /\ pc[r] = "backoff" => attempt[r] < MaxAttempts

Core == TypeOK /\ AttemptInv /\ LockInv

\* What the except clause of the retry loop does to a call.
LEMMA FailsEffect ==
    ASSUME NEW r \in Calls, NEW k \in Attempts, NEW error \in Errors, TypeOK,
           Fails(r, k, error)
    PROVE  \E to \in {"backoff", "done"} :
               /\ pc' = [pc EXCEPT ![r] = to]
               /\ to = "backoff" => k < MaxAttempts /\ outcome' = outcome
               /\ to = "done" => outcome' = [outcome EXCEPT ![r] = error]
               /\ error \notin Retryable => to = "done"
<1>1. CASE error \in Retryable /\ k < MaxAttempts
    BY <1>1 DEF Fails
<1>2. CASE ~ (error \in Retryable /\ k < MaxAttempts)
    BY <1>2 DEF Fails
<1> QED BY <1>1, <1>2

\* What the body of the lock does: the lock is kept exactly by a call that is
\* left suspended in drain().
LEMMA WriteEffect ==
    ASSUME NEW r \in Calls, NEW k \in Attempts, Write(r, k)
    PROVE  /\ \E to \in {"done", "awaiting", "draining", "yielding"} :
                  /\ pc' = [pc EXCEPT ![r] = to]
                  /\ lock' = IF to \in {"draining", "yielding"} THEN r ELSE NoCall
                  /\ to = "done" => outcome' = [outcome EXCEPT ![r] = "internal"]
                  /\ to # "done" => outcome' = outcome
           /\ wire' = wire \/ wire' = wire \cup {<<r, k>>}
    BY DEF Write

\* A step that moves one call which neither holds the lock nor waits for it,
\* to a place where it does neither, leaves the lock and the queue right.
LEMMA LockKept ==
    ASSUME Core, NEW r \in Calls, pc[r] \in {"idle", "backoff", "awaiting", "done"},
           NEW to \in {"idle", "backoff", "awaiting", "done"},
           pc' = [pc EXCEPT ![r] = to], UNCHANGED lockVars
    PROVE  LockInv'
    BY DEF Core, TypeOK, LockInv, lockVars

\* A call that held the lock gives it up.
LEMMA LockReleased ==
    ASSUME Core, NEW r \in Calls, pc[r] \in {"yielding", "draining"},
           NEW to \in {"awaiting", "done"},
           pc' = [pc EXCEPT ![r] = to], lock' = NoCall, queue' = queue
    PROVE  LockInv'
    BY NoCallAssumption DEF Core, TypeOK, LockInv

\* A call gets the free lock and runs its body up to the next suspension.
LEMMA LockTaken ==
    ASSUME Core, NEW r \in Calls, NEW k \in Attempts, lock = NoCall, Write(r, k),
           queue' \in Seq(Calls), Distinct(queue'),
           \A s \in Calls : s \in Members(queue') <=> pc[s] = "queued" /\ s # r
    PROVE  LockInv'
<1>1. PICK to \in {"done", "awaiting", "draining", "yielding"} :
          /\ pc' = [pc EXCEPT ![r] = to]
          /\ lock' = IF to \in {"draining", "yielding"} THEN r ELSE NoCall
    BY WriteEffect
<1>2. \A s \in Calls : pc[s] \notin {"yielding", "draining"}
    BY NoCallAssumption DEF Core, LockInv
<1>3. \A s \in Calls : pc'[s] = IF s = r THEN to ELSE pc[s]
    BY <1>1 DEF Core, TypeOK
<1>4. \A s \in Calls : (lock' = s) <=> pc'[s] \in {"yielding", "draining"}
    BY <1>1, <1>2, <1>3, NoCallAssumption
<1>5. \A s \in Calls : pc'[s] = "queued" <=> s \in Members(queue')
    BY <1>3
<1>6. Members(queue)' = Members(queue') /\ Distinct(queue)' = Distinct(queue')
    BY DEF Members, Distinct
<1> QED BY <1>4, <1>5, <1>6 DEF LockInv

\* The same for a call that enters request(): refused, given the lock, or queued.
LEMMA EnterLock ==
    ASSUME Core, NEW r \in Calls, NEW k \in Attempts, pc[r] \in {"idle", "backoff"},
           Enter(r, k)
    PROVE  LockInv'
<1>1. CASE ~connected \/ writer = "none"
    <2>1. Fails(r, k, "lost") /\ UNCHANGED lockVars
        BY <1>1 DEF Enter, lockVars
    <2> QED BY <2>1, FailsEffect, LockKept DEF Core, Errors, Retryable
<1>2. CASE connected /\ writer # "none" /\ lock = NoCall /\ queue = <<>>
    <2>1. Write(r, k) /\ queue' = queue
        BY <1>2 DEF Enter
    <2>2. \A s \in Calls : s \in Members(queue) <=> pc[s] = "queued" /\ s # r
        BY DEF Core, LockInv
    <2> QED BY <1>2, <2>1, <2>2, LockTaken DEF Core, LockInv, TypeOK
<1>3. CASE connected /\ writer # "none" /\ (lock # NoCall \/ queue # <<>>)
    <2>1. /\ queue' = Append(queue, r)
          /\ pc' = [pc EXCEPT ![r] = "queued"]
          /\ lock' = lock
        BY <1>3 DEF Enter
    <2>2. queue \in Seq(Calls) /\ Distinct(queue) /\ r \notin Members(queue)
        BY DEF Core, TypeOK, LockInv
    <2>3. Distinct(Append(queue, r)) /\ Members(Append(queue, r)) = Members(queue) \cup {r}
        BY <2>2, QueueJoin
    <2>4. Distinct(queue)' /\ Members(queue)' = Members(queue) \cup {r}
        BY <2>1, <2>3 DEF Distinct, Members
    <2> QED BY <2>1, <2>4 DEF Core, TypeOK, LockInv
<1> QED BY <1>1, <1>2, <1>3

LEMMA CancelLock ==
    ASSUME Core, NEW r \in Calls, Cancel(r)
    PROVE  LockInv'
<1>1. /\ pc' = [pc EXCEPT ![r] = "done"]
      /\ lock' = IF lock = r THEN NoCall ELSE lock
    BY DEF Cancel
<1>2. \A s \in Calls : (lock' = s) <=> pc'[s] \in {"yielding", "draining"}
    BY <1>1, NoCallAssumption DEF Core, TypeOK, LockInv
<1>3. CASE pc[r] = "queued"
    <2>1. PICK i \in 1 .. Len(queue) : queue[i] = r /\ queue' = RemoveAt(queue, i)
        BY <1>3 DEF Cancel
    <2>2. Distinct(RemoveAt(queue, i)) /\ Members(RemoveAt(queue, i)) = Members(queue) \ {r}
        BY <2>1, QueueLeave DEF Core, TypeOK, LockInv
    <2>3. Distinct(queue)' /\ Members(queue)' = Members(queue) \ {r}
        BY <2>1, <2>2 DEF Distinct, Members
    <2> QED BY <1>1, <1>2, <2>3 DEF Core, TypeOK, LockInv
<1>4. CASE pc[r] # "queued"
    <2>1. queue' = queue
        BY <1>4 DEF Cancel
    <2> QED BY <1>1, <1>2, <1>4, <2>1 DEF Core, TypeOK, LockInv
<1> QED BY <1>3, <1>4

LEMMA LockStep ==
    ASSUME Core, [Next]_vars
    PROVE  LockInv'
<1>1. ASSUME UNCHANGED <<lock, queue, pc>> PROVE LockInv'
    BY <1>1 DEF Core, LockInv
<1>2. CASE Connect \/ ReadLoop \/ Close \/ Environment \/ UNCHANGED vars
    BY <1>1, <1>2 DEF Connect, ReadLoop, Deliver, SeeEof, SeeError, Close, CloseStart,
       CloseWriter, SocketClosed, CloseFinish, Environment, Execute, PeerCloses, PeerResets,
       vars, lockVars, callVars
<1>3. ASSUME NEW r \in Calls, Begin(r) PROVE LockInv'
    BY <1>3, AttemptsAssumption, EnterLock DEF Begin, Attempts
<1>4. ASSUME NEW r \in Calls, Retry(r) PROVE LockInv'
    <2>1. attempt[r] + 1 \in Attempts
        BY <1>4, AttemptsAssumption DEF Retry, Core, AttemptInv, Attempts
    <2> QED BY <1>4, <2>1, EnterLock DEF Retry
<1>5. ASSUME NEW r \in Calls, EncodeFails(r) PROVE LockInv'
    <2>1. Fails(r, 1, "protocol") /\ UNCHANGED lockVars /\ pc[r] = "idle"
        BY <1>5 DEF EncodeFails, lockVars
    <2>2. 1 \in Attempts
        BY AttemptsAssumption DEF Attempts
    <2> QED BY <2>1, <2>2, FailsEffect, LockKept DEF Core, Errors
<1>6. ASSUME NEW r \in Calls, TakeLock(r) PROVE LockInv'
    <2>1. queue \in Seq(Calls) /\ Distinct(queue) /\ queue # <<>> /\ Head(queue) = r
        BY <1>6 DEF TakeLock, Core, TypeOK, LockInv
    <2>2. /\ r \in Members(queue) /\ Tail(queue) \in Seq(Calls) /\ Distinct(Tail(queue))
          /\ Members(Tail(queue)) = Members(queue) \ {r}
        BY <2>1, QueueServe
    <2>3. pc[r] = "queued" /\ attempt[r] \in Attempts
        BY <2>2 DEF Core, LockInv, AttemptInv
    <2>4. \A s \in Calls : s \in Members(Tail(queue)) <=> pc[s] = "queued" /\ s # r
        BY <2>2 DEF Core, LockInv
    <2>5. lock = NoCall /\ queue' = Tail(queue) /\ Write(r, attempt[r])
        BY <1>6 DEF TakeLock
    <2>6. /\ queue' \in Seq(Calls) /\ Distinct(queue')
          /\ \A s \in Calls : s \in Members(queue') <=> pc[s] = "queued" /\ s # r
        BY <2>2, <2>4, <2>5
    <2> QED BY <2>3, <2>5, <2>6, LockTaken
<1>7. ASSUME NEW r \in Calls, Yielded(r) PROVE LockInv'
    <2>1. CASE pc' = [pc EXCEPT ![r] = "draining"] /\ UNCHANGED lock
        BY <1>7, <2>1 DEF Yielded, Core, TypeOK, LockInv
    <2>2. ASSUME NEW to \in {"awaiting", "done"}, pc' = [pc EXCEPT ![r] = to], lock' = NoCall
          PROVE  LockInv'
        BY <1>7, <2>2, LockReleased DEF Yielded
    <2> QED BY <1>7, <2>1, <2>2 DEF Yielded
<1>8. ASSUME NEW r \in Calls, DrainReturns(r) \/ DrainFails(r) PROVE LockInv'
    BY <1>8, LockReleased DEF DrainReturns, DrainFails
<1>9. ASSUME NEW r \in Calls, Expire(r) PROVE LockInv'
    BY <1>1, <1>9 DEF Expire, lockVars
<1>10. ASSUME NEW r \in Calls, TimesOut(r) PROVE LockInv'
    <2>1. Fails(r, attempt[r], "timeout") /\ UNCHANGED lockVars /\ pc[r] = "awaiting"
        BY <1>10 DEF TimesOut, lockVars
    <2> QED BY <2>1, FailsEffect, LockKept DEF Core, AttemptInv, Errors, Retryable
<1>11. ASSUME NEW r \in Calls, Resume(r) PROVE LockInv'
    <2>1. UNCHANGED lockVars /\ pc[r] = "awaiting"
        BY <1>11 DEF Resume, lockVars
    <2>2. CASE pc' = [pc EXCEPT ![r] = "done"]
        BY <2>1, <2>2, LockKept
    <2>3. CASE fut[r] \in {"lost", "protocol"} /\ Fails(r, attempt[r], fut[r])
        BY <2>1, <2>3, FailsEffect, LockKept DEF Core, AttemptInv, Errors, Retryable
    <2> QED BY <1>11, <2>2, <2>3 DEF Resume
<1>12. ASSUME NEW r \in Calls, Cancel(r) PROVE LockInv'
    BY <1>12, CancelLock
<1> QED
    BY <1>2, <1>3, <1>4, <1>5, <1>6, <1>7, <1>8, <1>9, <1>10, <1>11, <1>12 DEF Next, Call

\* A call entering request() as attempt k, which the loop has counted.
LEMMA EnterAttempt ==
    ASSUME Core, NEW r \in Calls, NEW k \in Attempts, Enter(r, k)
    PROVE  AttemptInv'
<1>1. attempt' = [attempt EXCEPT ![r] = k]
    BY DEF Enter
<1>2. CASE Fails(r, k, "lost")
    <2>1. PICK to \in {"backoff", "done"} :
              /\ pc' = [pc EXCEPT ![r] = to]
              /\ to = "backoff" => k < MaxAttempts
        BY <1>2, FailsEffect DEF Core, Errors, Retryable
    <2> QED BY <1>1, <2>1 DEF Core, TypeOK, AttemptInv
<1>3. CASE Write(r, k)
    <2>1. PICK to \in {"done", "awaiting", "draining", "yielding"} :
              pc' = [pc EXCEPT ![r] = to]
        BY <1>3, WriteEffect
    <2> QED BY <1>1, <2>1 DEF Core, TypeOK, AttemptInv
<1>4. CASE pc' = [pc EXCEPT ![r] = "queued"]
    BY <1>1, <1>4 DEF Core, TypeOK, AttemptInv
<1> QED BY <1>2, <1>3, <1>4 DEF Enter

LEMMA AttemptStep ==
    ASSUME Core, [Next]_vars
    PROVE  AttemptInv'
<1>1. ASSUME UNCHANGED <<pc, attempt>> PROVE AttemptInv'
    BY <1>1 DEF Core, AttemptInv
<1>2. ASSUME NEW r \in Calls, pc[r] # "idle", attempt' = attempt,
             NEW to \in {"done", "awaiting", "draining", "yielding"},
             pc' = [pc EXCEPT ![r] = to]
      PROVE  AttemptInv'
    BY <1>2 DEF Core, TypeOK, AttemptInv
<1>3. ASSUME NEW r \in Calls, pc[r] # "idle", attempt' = attempt, NEW error \in Errors,
             Fails(r, attempt[r], error)
      PROVE  AttemptInv'
    <2>1. PICK to \in {"backoff", "done"} :
              /\ pc' = [pc EXCEPT ![r] = to]
              /\ to = "backoff" => attempt[r] < MaxAttempts
        BY <1>3, FailsEffect DEF Core, AttemptInv
    <2> QED BY <1>3, <2>1 DEF Core, TypeOK, AttemptInv
<1>4. CASE Connect \/ ReadLoop \/ Close \/ Environment \/ UNCHANGED vars
    BY <1>1, <1>4 DEF Connect, ReadLoop, Deliver, SeeEof, SeeError, Close, CloseStart,
       CloseWriter, SocketClosed, CloseFinish, Environment, Execute, PeerCloses, PeerResets,
       vars, callVars
<1>5. ASSUME NEW r \in Calls, Begin(r) \/ Retry(r) PROVE AttemptInv'
    <2>1. attempt[r] + 1 \in Attempts \/ pc[r] # "backoff"
        BY AttemptsAssumption DEF Core, AttemptInv, Attempts
    <2> QED BY <1>5, <2>1, AttemptsAssumption, EnterAttempt DEF Begin, Retry, Attempts
<1>6. ASSUME NEW r \in Calls, EncodeFails(r) PROVE AttemptInv'
    <2>1. attempt' = [attempt EXCEPT ![r] = 1] /\ Fails(r, 1, "protocol") /\ 1 \in Attempts
        BY <1>6, AttemptsAssumption DEF EncodeFails, Attempts
    <2>2. PICK to \in {"backoff", "done"} :
              pc' = [pc EXCEPT ![r] = to] /\ (to = "backoff" => 1 < MaxAttempts)
        BY <2>1, FailsEffect DEF Core, Errors
    <2> QED BY <2>1, <2>2 DEF Core, TypeOK, AttemptInv
<1>7. ASSUME NEW r \in Calls, TakeLock(r) PROVE AttemptInv'
    <2>1. Head(queue) \in Members(queue)
        BY <1>7, QueueServe DEF TakeLock, Core, TypeOK, LockInv
    <2>2. pc[r] = "queued" /\ attempt[r] \in Attempts
        BY <1>7, <2>1 DEF TakeLock, Core, LockInv, AttemptInv
    <2> QED BY <1>2, <1>7, <2>2, WriteEffect DEF TakeLock
<1>8. ASSUME NEW r \in Calls,
             Yielded(r) \/ DrainReturns(r) \/ DrainFails(r) \/ Cancel(r)
      PROVE  AttemptInv'
    BY <1>2, <1>8 DEF Yielded, DrainReturns, DrainFails, Cancel
<1>9. ASSUME NEW r \in Calls, Expire(r) PROVE AttemptInv'
    BY <1>1, <1>9 DEF Expire
<1>10. ASSUME NEW r \in Calls, TimesOut(r) \/ Resume(r) PROVE AttemptInv'
    BY <1>2, <1>3, <1>10 DEF TimesOut, Resume, Errors, Retryable
<1> QED
    BY <1>4, <1>5, <1>6, <1>7, <1>8, <1>9, <1>10 DEF Next, Call

\* One step keeps the types; what is not obvious is that an attempt that starts
\* is in range, and that the queue stays a sequence of calls.
LEMMA TypeStep ==
    ASSUME Core, [Next]_vars
    PROVE  TypeOK'
<1> USE DEF Core
<1>1. ASSUME NEW r \in Calls, NEW k \in Attempts, NEW error \in Errors, Fails(r, k, error)
      PROVE  /\ pc' \in [Calls -> {"idle", "backoff", "queued", "yielding", "draining",
                                   "awaiting", "done"}]
             /\ outcome' \in [Calls -> {"none", "reply"} \cup Errors]
    BY <1>1 DEF Fails, TypeOK
<1>2. ASSUME NEW r \in Calls, NEW k \in Attempts, Write(r, k)
      PROVE  /\ pc' \in [Calls -> {"idle", "backoff", "queued", "yielding", "draining",
                                   "awaiting", "done"}]
             /\ outcome' \in [Calls -> {"none", "reply"} \cup Errors]
             /\ lock' \in Calls \cup {NoCall}
             /\ wire' \in SUBSET Frames
    <2>1. <<r, k>> \in Frames
        BY DEF Frames
    <2>2. "internal" \in Errors
        BY DEF Errors
    <2>3. PICK to \in {"done", "awaiting", "draining", "yielding"} :
              /\ pc' = [pc EXCEPT ![r] = to]
              /\ lock' = IF to \in {"draining", "yielding"} THEN r ELSE NoCall
              /\ to = "done" => outcome' = [outcome EXCEPT ![r] = "internal"]
              /\ to # "done" => outcome' = outcome
        BY <1>2, WriteEffect
    <2>4. wire' = wire \/ wire' = wire \cup {<<r, k>>}
        BY <1>2, WriteEffect
    <2>5. outcome' \in [Calls -> {"none", "reply"} \cup Errors]
        BY <2>2, <2>3 DEF TypeOK
    <2> QED BY <2>1, <2>3, <2>4, <2>5 DEF TypeOK
<1>3. ASSUME NEW r \in Calls, NEW k \in Attempts, Enter(r, k) PROVE TypeOK'
    <2>1. /\ attempt' = [attempt EXCEPT ![r] = k]
          /\ answer' = [answer EXCEPT ![r] = {}]
          /\ UNCHANGED <<linkVars, expired, executed, replies>>
        BY <1>3 DEF Enter
    <2>2. attempt' \in [Calls -> 0 .. MaxAttempts] /\ answer' \in [Calls -> SUBSET Frames]
        BY <2>1, AttemptsAssumption DEF TypeOK, Attempts
    <2>3. CASE Fails(r, k, "lost") /\ UNCHANGED <<fut, pending, lockVars, wire>>
        <3>1. "lost" \in Errors
            BY DEF Errors, Retryable
        <3> QED BY <1>1, <2>1, <2>2, <2>3, <3>1 DEF TypeOK, linkVars, lockVars
    <2>4. CASE Write(r, k) /\ UNCHANGED queue /\ fut' = [fut EXCEPT ![r] = "waiting"]
               /\ pending' = pending \cup {r}
        BY <1>2, <2>1, <2>2, <2>4 DEF TypeOK, linkVars
    <2>5. CASE /\ queue' = Append(queue, r) /\ pc' = [pc EXCEPT ![r] = "queued"]
               /\ UNCHANGED <<lock, wire, outcome>> /\ fut' = [fut EXCEPT ![r] = "waiting"]
               /\ pending' = pending \cup {r}
        <3>1. queue' \in Seq(Calls)
            BY <2>5, AppendProperties DEF TypeOK
        <3> QED BY <2>1, <2>2, <2>5, <3>1 DEF TypeOK, linkVars
    <2> QED BY <1>3, <2>3, <2>4, <2>5 DEF Enter
<1>4. CASE Connect \/ Close \/ UNCHANGED vars
    BY <1>4 DEF Connect, Close, CloseStart, CloseWriter, SocketClosed, CloseFinish, FailPending,
       TypeOK, vars, linkVars, lockVars, callVars, netVars
<1>5. CASE ReadLoop
    <2>1. ASSUME NEW f \in Frames, Deliver(f) PROVE TypeOK'
        <3>1. f[1] \in Calls
            BY DEF Frames
        <3>2. /\ fut' \in [Calls -> {"none", "waiting", "reply", "lost", "protocol",
                                      "cancelled"}]
              /\ answer' \in [Calls -> SUBSET Frames]
            <4>1. CASE f[1] \in pending /\ fut[f[1]] = "waiting"
                <5>1. answer[f[1]] \cup {f} \in SUBSET Frames
                    BY <3>1 DEF TypeOK
                <5> QED BY <2>1, <3>1, <4>1, <5>1 DEF Deliver, TypeOK
            <4> QED BY <2>1, <4>1 DEF Deliver, TypeOK
        <3> QED BY <2>1, <3>2 DEF Deliver, TypeOK, linkVars, lockVars
    <2>2. CASE SeeEof \/ SeeError
        BY <2>2 DEF SeeEof, SeeError, FailPending, TypeOK, lockVars, netVars
    <2> QED BY <1>5, <2>1, <2>2 DEF ReadLoop
<1>6. CASE Environment
    BY <1>6 DEF Environment, Execute, PeerCloses, PeerResets, TypeOK, linkVars, lockVars,
       callVars, netVars
<1>7. ASSUME NEW r \in Calls, Begin(r) PROVE TypeOK'
    BY <1>3, <1>7, AttemptsAssumption DEF Begin, Attempts
<1>8. ASSUME NEW r \in Calls, Retry(r) PROVE TypeOK'
    <2>1. attempt[r] + 1 \in Attempts
        BY <1>8, AttemptsAssumption DEF Retry, AttemptInv, Attempts
    <2> QED BY <1>3, <1>8, <2>1 DEF Retry
<1>9. ASSUME NEW r \in Calls, EncodeFails(r) PROVE TypeOK'
    <2>1. 1 \in Attempts /\ 1 \in 0 .. MaxAttempts /\ "protocol" \in Errors
        BY AttemptsAssumption DEF Attempts, Errors
    <2> QED BY <1>1, <1>9, <2>1 DEF EncodeFails, TypeOK, linkVars, lockVars, netVars
<1>10. ASSUME NEW r \in Calls, TakeLock(r) PROVE TypeOK'
    <2>1. Head(queue) \in Members(queue) /\ Tail(queue) \in Seq(Calls)
        BY <1>10, QueueServe DEF TakeLock, TypeOK, LockInv
    <2>2. attempt[r] \in Attempts
        BY <1>10, <2>1 DEF TakeLock, LockInv, AttemptInv
    <2> QED BY <1>2, <1>10, <2>1, <2>2 DEF TakeLock, TypeOK, linkVars
<1>11. ASSUME NEW r \in Calls, Yielded(r) \/ DrainReturns(r) \/ DrainFails(r) PROVE TypeOK'
    BY <1>11 DEF Yielded, DrainReturns, DrainFails, TypeOK, Errors, linkVars, netVars
<1>12. ASSUME NEW r \in Calls, Expire(r) PROVE TypeOK'
    BY <1>12 DEF Expire, TypeOK, linkVars, lockVars, netVars
<1>13. ASSUME NEW r \in Calls, TimesOut(r) \/ Resume(r) PROVE TypeOK'
    <2>1. pc[r] = "awaiting" => attempt[r] \in Attempts
        BY DEF AttemptInv
    <2>2. {"timeout", "lost", "protocol"} \subseteq Errors
        BY DEF Errors, Retryable
    <2>3. CASE TimesOut(r)
        BY <1>1, <2>1, <2>2, <2>3 DEF TimesOut, TypeOK, linkVars, lockVars, netVars
    <2>4. CASE Resume(r)
        <3>1. /\ pc' \in [Calls -> {"idle", "backoff", "queued", "yielding", "draining",
                                    "awaiting", "done"}]
              /\ outcome' \in [Calls -> {"none", "reply"} \cup Errors]
            <4>1. CASE Fails(r, attempt[r], fut[r]) /\ fut[r] \in {"lost", "protocol"}
                BY <1>1, <2>1, <2>2, <2>4, <4>1 DEF Resume
            <4>2. CASE /\ pc' = [pc EXCEPT ![r] = "done"]
                       /\ outcome' = [outcome EXCEPT ![r] = "reply"]
                BY <4>2 DEF TypeOK
            <4> QED BY <2>4, <4>1, <4>2 DEF Resume
        <3> QED BY <2>4, <3>1 DEF Resume, TypeOK, linkVars, lockVars, netVars
    <2> QED BY <1>13, <2>3, <2>4
<1>14. ASSUME NEW r \in Calls, Cancel(r) PROVE TypeOK'
    <2>1. queue' \in Seq(Calls)
        <3>1. CASE pc[r] = "queued"
            BY <1>14, <3>1, QueueLeave DEF Cancel, TypeOK, LockInv
        <3> QED BY <1>14, <3>1 DEF Cancel, TypeOK
    <2> QED BY <1>14, <2>1 DEF Cancel, TypeOK, Errors, linkVars, netVars
<1> QED
    BY <1>4, <1>5, <1>6, <1>7, <1>8, <1>9, <1>10, <1>11, <1>12, <1>13, <1>14 DEF Next, Call

LEMMA CoreInit == Init => Core
<1> SUFFICES ASSUME Init PROVE Core
    OBVIOUS
<1>1. TypeOK
    <2>1. queue \in Seq(Calls)
        BY EmptySeq DEF Init
    <2>2. attempt \in [Calls -> 0 .. MaxAttempts]
        BY AttemptsAssumption DEF Init
    <2>3. expired \in [Calls -> BOOLEAN]
        BY DEF Init
    <2> QED BY <2>1, <2>2, <2>3, Zenon DEF Init, TypeOK
<1>2. AttemptInv
    BY DEF Init, AttemptInv
<1>3. Len(queue) = 0
    BY DEF Init
<1>4. LockInv
    BY <1>3, NoCallAssumption DEF Init, LockInv, Members, Distinct
<1> QED BY <1>1, <1>2, <1>4 DEF Core

\* The types, the counter and the lock hold each other up: an attempt is in range
\* because a waiting call is one that has begun, and that is known because the
\* queue holds the waiting calls and no other.
THEOREM CoreInvariant == Spec => []Core
<1>1. Core /\ [Next]_vars => Core'
    BY TypeStep, AttemptStep, LockStep DEF Core
<1> QED BY CoreInit, <1>1, PTL DEF Spec

THEOREM TypeCorrect == Spec => []TypeOK
<1>1. Core => TypeOK
    BY DEF Core
<1> QED BY CoreInvariant, <1>1, PTL

\* However calls are queued, cancelled or failed, and whatever happens to the
\* connection, the write lock is held by the call suspended in drain() and by no
\* other, and its queue is exactly the waiting calls.
THEOREM LockIsDisciplined == Spec => []LockDiscipline
<1>1. Core => LockDiscipline
    BY DEF Core, LockInv, LockDiscipline, Members, Distinct
<1> QED BY CoreInvariant, <1>1, PTL

-----------------------------------------------------------------------------
(* Registrations.                                                             *)

RegistrationInv ==
    /\ connected => closer = "idle"
    /\ \A r \in pending : fut[r] \in {"waiting", "cancelled"}
    /\ RegistrationsBelongToCalls
    /\ NoOrphanedFuture

LEMMA RegistrationEnter ==
    ASSUME Core, RegistrationInv, NEW r \in Calls, NEW k \in Attempts,
           pc[r] \in {"idle", "backoff"}, Enter(r, k)
    PROVE  RegistrationInv'
<1>1. r \notin pending
    BY DEF RegistrationInv, RegistrationsBelongToCalls, Suspended
<1>2. UNCHANGED linkVars
    BY DEF Enter
<1>3. CASE Fails(r, k, "lost") /\ UNCHANGED <<fut, pending>>
    <2>1. PICK to \in {"backoff", "done"} :
              /\ pc' = [pc EXCEPT ![r] = to]
              /\ outcome' = outcome \/ outcome' = [outcome EXCEPT ![r] = "lost"]
        BY <1>3, FailsEffect DEF Core, Errors, Retryable
    <2> QED BY <1>1, <1>2, <1>3, <2>1 DEF Core, TypeOK, RegistrationInv,
            RegistrationsBelongToCalls, NoOrphanedFuture, Suspended, linkVars
<1>4. ASSUME connected, fut' = [fut EXCEPT ![r] = "waiting"], pending' = pending \cup {r},
             NEW to \in Suspended \cup {"done"}, pc' = [pc EXCEPT ![r] = to],
             to = "done" => outcome' = [outcome EXCEPT ![r] = "internal"],
             to # "done" => outcome' = outcome
      PROVE  RegistrationInv'
    <2>1. connected' /\ closer' = "idle"
        BY <1>2, <1>4 DEF linkVars, RegistrationInv
    <2>2. \A s \in pending' : fut'[s] \in {"waiting", "cancelled"}
        BY <1>4 DEF Core, TypeOK, RegistrationInv
    <2>3. RegistrationsBelongToCalls'
        BY <1>4 DEF Core, TypeOK, RegistrationInv, RegistrationsBelongToCalls, Suspended
    <2>4. NoOrphanedFuture'
        BY <1>4, <2>1 DEF Core, TypeOK, RegistrationInv, NoOrphanedFuture, Suspended
    <2> QED BY <2>1, <2>2, <2>3, <2>4 DEF RegistrationInv
<1>5. CASE /\ connected /\ Write(r, k) /\ fut' = [fut EXCEPT ![r] = "waiting"]
           /\ pending' = pending \cup {r}
    BY <1>4, <1>5, WriteEffect DEF Suspended
<1>6. CASE /\ connected /\ pc' = [pc EXCEPT ![r] = "queued"] /\ outcome' = outcome
           /\ fut' = [fut EXCEPT ![r] = "waiting"] /\ pending' = pending \cup {r}
    BY <1>4, <1>6 DEF Suspended
<1> QED BY <1>3, <1>5, <1>6 DEF Enter

LEMMA RegistrationStep ==
    ASSUME Core, RegistrationInv, [Next]_vars
    PROVE  RegistrationInv'
<1>1. CASE Connect \/ SeeEof \/ SeeError \/ Close \/ Environment \/ UNCHANGED vars
    BY <1>1 DEF Connect, SeeEof, SeeError, Close, CloseStart, CloseWriter, SocketClosed,
       CloseFinish, FailPending, Environment, Execute, PeerCloses, PeerResets, RegistrationInv,
       RegistrationsBelongToCalls, NoOrphanedFuture, Suspended, Core, TypeOK, vars, linkVars,
       callVars
<1>2. ASSUME NEW f \in Frames, Deliver(f) PROVE RegistrationInv'
    <2>1. f[1] \in Calls
        BY DEF Frames
    <2> QED BY <1>2, <2>1 DEF Deliver, RegistrationInv, RegistrationsBelongToCalls,
            NoOrphanedFuture, Core, TypeOK, linkVars
<1>3. ASSUME NEW r \in Calls, Begin(r) \/ Retry(r) PROVE RegistrationInv'
    <2>1. pc[r] = "backoff" => attempt[r] + 1 \in Attempts
        BY AttemptsAssumption DEF Core, AttemptInv, Attempts
    <2> QED BY <1>3, <2>1, AttemptsAssumption, RegistrationEnter DEF Begin, Retry, Attempts
\* A call that leaves request() with an error that is not retried, wherever its
\* future stands.
<1>4. ASSUME NEW r \in Calls, NEW error \in {"protocol", "internal", "cancelled"},
             pc' = [pc EXCEPT ![r] = "done"], outcome' = [outcome EXCEPT ![r] = error],
             \/ pending' = pending
             \/ pending' = pending \cup {r} /\ fut' = [fut EXCEPT ![r] = "waiting"],
             \/ fut' = fut
             \/ \E to \in {"waiting", "cancelled"} :
                    fut' = [fut EXCEPT ![r] = IF @ = "waiting" THEN to ELSE @]
             \/ fut' = [fut EXCEPT ![r] = "waiting"] /\ pending' = pending \cup {r},
             UNCHANGED linkVars
      PROVE  RegistrationInv'
    <2>1. \A s \in Calls : s # r => /\ pc'[s] = pc[s] /\ outcome'[s] = outcome[s]
                                    /\ fut'[s] = fut[s] /\ (s \in pending' <=> s \in pending)
        BY <1>4 DEF Core, TypeOK
    <2>2. pc'[r] = "done" /\ outcome'[r] = error
        BY <1>4 DEF Core, TypeOK
    <2>3. r \in pending' => fut'[r] \in {"waiting", "cancelled"}
        BY <1>4 DEF Core, TypeOK, RegistrationInv
    <2>4. pending' \subseteq Calls
        BY <1>4 DEF Core, TypeOK
    <2> QED BY <1>4, <2>1, <2>2, <2>3, <2>4 DEF RegistrationInv, RegistrationsBelongToCalls,
            NoOrphanedFuture, Suspended, linkVars
\* A call that leaves its wait, its registration gone.
<1>5. ASSUME NEW r \in Calls, r \notin pending', pending' \subseteq pending,
             pending \subseteq pending' \cup {r}, fut' = fut, UNCHANGED linkVars,
             NEW to \in {"backoff", "done"}, pc' = [pc EXCEPT ![r] = to],
             \A s \in Calls : s # r => outcome'[s] = outcome[s]
      PROVE  RegistrationInv'
    BY <1>5 DEF RegistrationInv, RegistrationsBelongToCalls, NoOrphanedFuture, Suspended,
       Core, TypeOK, linkVars
\* A suspended call that moves on inside request().
<1>6. ASSUME NEW r \in Calls, pc[r] \in Suspended, NEW to \in Suspended,
             pc' = [pc EXCEPT ![r] = to], UNCHANGED <<fut, pending, outcome, linkVars>>
      PROVE  RegistrationInv'
    BY <1>6 DEF RegistrationInv, RegistrationsBelongToCalls, NoOrphanedFuture, Core, TypeOK,
       linkVars
<1>7. ASSUME NEW r \in Calls, EncodeFails(r) PROVE RegistrationInv'
    <2>1. 1 \in Attempts /\ Fails(r, 1, "protocol")
        BY <1>7, AttemptsAssumption DEF EncodeFails, Attempts
    <2>2. /\ pc' = [pc EXCEPT ![r] = "done"]
          /\ outcome' = [outcome EXCEPT ![r] = "protocol"]
        BY <2>1, FailsEffect DEF Core, Errors, Retryable
    <2> QED BY <1>4, <1>7, <2>2 DEF EncodeFails
<1>8. ASSUME NEW r \in Calls, TakeLock(r) PROVE RegistrationInv'
    <2>1. Head(queue) \in Members(queue)
        BY <1>8, QueueServe DEF TakeLock, Core, TypeOK, LockInv
    <2>2. pc[r] \in Suspended /\ attempt[r] \in Attempts
        BY <1>8, <2>1 DEF TakeLock, Core, LockInv, AttemptInv, Suspended
    <2>3. PICK to \in {"done", "awaiting", "draining", "yielding"} :
              /\ pc' = [pc EXCEPT ![r] = to]
              /\ to = "done" => outcome' = [outcome EXCEPT ![r] = "internal"]
              /\ to # "done" => outcome' = outcome
        BY <1>8, <2>2, WriteEffect DEF TakeLock
    <2> QED BY <1>4, <1>6, <1>8, <2>2, <2>3 DEF TakeLock, Suspended
<1>9. ASSUME NEW r \in Calls, Yielded(r) \/ DrainReturns(r) \/ DrainFails(r)
      PROVE  RegistrationInv'
    BY <1>4, <1>6, <1>9 DEF Yielded, DrainReturns, DrainFails, Suspended
<1>10. ASSUME NEW r \in Calls, Expire(r) PROVE RegistrationInv'
    BY <1>10 DEF Expire, RegistrationInv, RegistrationsBelongToCalls, NoOrphanedFuture,
       Core, TypeOK, linkVars
<1>11. ASSUME NEW r \in Calls, TimesOut(r) PROVE RegistrationInv'
    <2>1. attempt[r] \in Attempts /\ Fails(r, attempt[r], "timeout")
        BY <1>11 DEF TimesOut, Core, AttemptInv
    <2>2. PICK to \in {"backoff", "done"} :
              /\ pc' = [pc EXCEPT ![r] = to]
              /\ outcome' = outcome \/ outcome' = [outcome EXCEPT ![r] = "timeout"]
        BY <2>1, FailsEffect DEF Core, Errors, Retryable
    <2>3. \A s \in Calls : s # r => outcome'[s] = outcome[s]
        BY <2>2 DEF Core, TypeOK
    <2> QED BY <1>5, <1>11, <2>2, <2>3 DEF TimesOut
<1>12. ASSUME NEW r \in Calls, Resume(r) PROVE RegistrationInv'
    <2>1. r \notin pending
        BY <1>12 DEF Resume, RegistrationInv
    <2>2. CASE /\ pc' = [pc EXCEPT ![r] = "done"]
               /\ outcome' = [outcome EXCEPT ![r] = "reply"]
        BY <1>5, <1>12, <2>1, <2>2 DEF Resume, Core, TypeOK
    <2>3. CASE fut[r] \in {"lost", "protocol"} /\ Fails(r, attempt[r], fut[r])
        <3>1. attempt[r] \in Attempts /\ fut[r] \in Errors
            BY <1>12, <2>3 DEF Resume, Core, AttemptInv, Errors, Retryable
        <3>2. PICK to \in {"backoff", "done"} :
                  /\ pc' = [pc EXCEPT ![r] = to]
                  /\ outcome' = outcome \/ outcome' = [outcome EXCEPT ![r] = fut[r]]
            BY <2>3, <3>1, FailsEffect DEF Core
        <3>3. \A s \in Calls : s # r => outcome'[s] = outcome[s]
            BY <3>2 DEF Core, TypeOK
        <3> QED BY <1>5, <1>12, <2>1, <3>2, <3>3 DEF Resume
    <2> QED BY <1>12, <2>2, <2>3 DEF Resume
<1>13. ASSUME NEW r \in Calls, Cancel(r) PROVE RegistrationInv'
    <2>1. \/ fut' = fut
          \/ fut' = [fut EXCEPT ![r] = IF @ = "waiting" THEN "cancelled" ELSE @]
        BY <1>13 DEF Cancel, Core, TypeOK
    <2> QED BY <1>4, <1>13, <2>1 DEF Cancel
<1> QED
    BY <1>1, <1>2, <1>3, <1>7, <1>8, <1>9, <1>10, <1>11, <1>12, <1>13
    DEF Next, Call, ReadLoop

LEMMA RegistrationInit == Init => RegistrationInv
    BY DEF Init, RegistrationInv, RegistrationsBelongToCalls, NoOrphanedFuture, Suspended

LEMMA RegistrationInvariant == Spec => []RegistrationInv
<1>1. Core /\ RegistrationInv /\ [Next]_vars => RegistrationInv'
    BY RegistrationStep
<1> QED BY CoreInvariant, RegistrationInit, <1>1, PTL DEF Spec

\* A call that waits for an answer is registered, and close() has not finished:
\* whoever resolves futures can reach it.
THEOREM NoFutureOrphaned == Spec => []NoOrphanedFuture
<1>1. RegistrationInv => NoOrphanedFuture
    BY DEF RegistrationInv
<1> QED BY RegistrationInvariant, <1>1, PTL

\* A call that timed out or backs off has left no registration behind.
THEOREM RegistrationsBelong == Spec => []RegistrationsBelongToCalls
<1>1. RegistrationInv => RegistrationsBelongToCalls
    BY DEF RegistrationInv
<1> QED BY RegistrationInvariant, <1>1, PTL

-----------------------------------------------------------------------------
(* Frames and answers.                                                        *)

\* A frame of an attempt exists from the moment the attempt holds the lock, once:
\* it is on the wire or it has been executed.
FrameInv ==
    /\ \A r \in Calls, k \in Attempts : <<r, k>> \in wire \cup executed =>
           k <= attempt[r] /\ (pc[r] = "queued" => k < attempt[r])
    /\ wire \cap executed = {}
    /\ replies \subseteq executed

\* The body of the lock, as attempt k of a call none of whose frames is that old.
LEMMA FrameWrite ==
    ASSUME Core, FrameInv, NEW r \in Calls, NEW k \in Attempts, Write(r, k),
           attempt' = [attempt EXCEPT ![r] = k], UNCHANGED <<executed, replies>>,
           \A j \in Attempts : <<r, j>> \in wire \cup executed => j < k
    PROVE  FrameInv'
<1>1. PICK to \in {"done", "awaiting", "draining", "yielding"} :
          pc' = [pc EXCEPT ![r] = to]
    BY WriteEffect
<1>2. wire' = wire \/ wire' = wire \cup {<<r, k>>}
    BY WriteEffect
<1>3. \A s \in Calls : /\ s # r => pc'[s] = pc[s] /\ attempt'[s] = attempt[s]
                       /\ s = r => pc'[s] # "queued" /\ attempt'[s] = k
    BY <1>1 DEF Core, TypeOK
<1>4. ASSUME NEW s \in Calls, NEW j \in Attempts, <<s, j>> \in wire' \cup executed
      PROVE  j <= attempt'[s] /\ (pc'[s] = "queued" => j < attempt'[s])
    <2>1. CASE s = r
        BY <1>2, <1>3, <1>4, <2>1 DEF Attempts
    <2>2. CASE s # r
        BY <1>2, <1>3, <1>4, <2>2 DEF FrameInv
    <2> QED BY <2>1, <2>2
<1>5. wire' \cap executed = {}
    BY <1>2 DEF FrameInv, Attempts
<1> QED BY <1>4, <1>5 DEF FrameInv

\* A step that writes nothing.
LEMMA FrameKept ==
    ASSUME Core, FrameInv, UNCHANGED netVars,
           \A s \in Calls : /\ attempt'[s] = attempt[s]
                            /\ pc'[s] = "queued" => pc[s] = "queued"
    PROVE  FrameInv'
    BY DEF FrameInv, netVars

LEMMA FrameStep ==
    ASSUME Core, FrameInv, [Next]_vars
    PROVE  FrameInv'
<1>1. ASSUME NEW r \in Calls, NEW k \in Attempts, Enter(r, k), attempt[r] < k
      PROVE  FrameInv'
    <2>1. attempt' = [attempt EXCEPT ![r] = k] /\ UNCHANGED <<executed, replies>>
        BY <1>1 DEF Enter
    <2>2. \A j \in Attempts : <<r, j>> \in wire \cup executed => j < k
        BY <1>1 DEF FrameInv, Core, TypeOK, Attempts
    <2>3. CASE Write(r, k)
        BY <2>1, <2>2, <2>3, FrameWrite
    <2>4. ASSUME wire' = wire, NEW to \in {"queued", "backoff", "done"},
                 pc' = [pc EXCEPT ![r] = to]
          PROVE  FrameInv'
        BY <2>1, <2>2, <2>4 DEF FrameInv, Core, TypeOK, Attempts
    <2>5. CASE Fails(r, k, "lost") /\ wire' = wire
        BY <2>4, <2>5, FailsEffect DEF Core, Errors, Retryable
    <2> QED BY <1>1, <2>3, <2>4, <2>5 DEF Enter
<1>2. CASE Connect \/ Close \/ PeerCloses \/ PeerResets \/ SeeEof \/ SeeError \/ UNCHANGED vars
    BY <1>2, FrameKept DEF Connect, Close, CloseStart, CloseWriter, SocketClosed, CloseFinish,
       PeerCloses, PeerResets, SeeEof, SeeError, vars, callVars, netVars
<1>3. ASSUME NEW f \in Frames, Deliver(f) PROVE FrameInv'
    BY <1>3 DEF Deliver, FrameInv
<1>4. ASSUME NEW f \in Frames, Execute(f) PROVE FrameInv'
    <2>1. UNCHANGED <<attempt, pc>> /\ f \in wire
        BY <1>4 DEF Execute, callVars
    <2>2. wire' \cup executed' = wire \cup executed
        BY <1>4 DEF Execute
    <2>3. wire' \cap executed' = {} /\ replies' \subseteq executed'
        BY <1>4 DEF Execute, FrameInv
    <2> QED BY <2>1, <2>2, <2>3 DEF FrameInv
<1>5. ASSUME NEW r \in Calls, Begin(r) \/ Retry(r) PROVE FrameInv'
    <2>1. /\ pc[r] = "idle" => 1 \in Attempts /\ attempt[r] < 1
          /\ pc[r] = "backoff" => attempt[r] + 1 \in Attempts /\ attempt[r] < attempt[r] + 1
        BY AttemptsAssumption DEF Core, AttemptInv, Attempts
    <2> QED BY <1>1, <1>5, <2>1 DEF Begin, Retry
<1>6. ASSUME NEW r \in Calls, EncodeFails(r) PROVE FrameInv'
    <2>1. 1 \in Attempts /\ Fails(r, 1, "protocol") /\ attempt' = [attempt EXCEPT ![r] = 1]
        BY <1>6, AttemptsAssumption DEF EncodeFails, Attempts
    <2>2. pc' = [pc EXCEPT ![r] = "done"]
        BY <2>1, FailsEffect DEF Core, Errors, Retryable
    <2>3. pc[r] = "idle" /\ attempt[r] = 0
        BY <1>6 DEF EncodeFails, Core, AttemptInv
    <2> QED BY <1>6, <2>1, <2>2, <2>3 DEF EncodeFails, FrameInv, Core, TypeOK, Attempts, netVars
<1>7. ASSUME NEW r \in Calls, TakeLock(r) PROVE FrameInv'
    <2>1. Head(queue) \in Members(queue)
        BY <1>7, QueueServe DEF TakeLock, Core, TypeOK, LockInv
    <2>2. pc[r] = "queued" /\ attempt[r] \in Attempts
        BY <1>7, <2>1 DEF TakeLock, Core, LockInv, AttemptInv
    <2>3. \A j \in Attempts : <<r, j>> \in wire \cup executed => j < attempt[r]
        BY <2>2 DEF FrameInv
    <2>4. attempt' = [attempt EXCEPT ![r] = attempt[r]]
        BY <1>7 DEF TakeLock, Core, TypeOK
    <2> QED BY <1>7, <2>2, <2>3, <2>4, FrameWrite DEF TakeLock
<1>8. ASSUME NEW r \in Calls, attempt' = attempt, UNCHANGED netVars,
             NEW to \in {"backoff", "awaiting", "draining", "done"}, pc' = [pc EXCEPT ![r] = to]
      PROVE  FrameInv'
    BY <1>8, FrameKept DEF Core, TypeOK
<1>9. ASSUME NEW r \in Calls,
             Yielded(r) \/ DrainReturns(r) \/ DrainFails(r) \/ Cancel(r)
      PROVE  FrameInv'
    BY <1>8, <1>9 DEF Yielded, DrainReturns, DrainFails, Cancel
<1>10. ASSUME NEW r \in Calls, Expire(r) PROVE FrameInv'
    BY <1>10, FrameKept DEF Expire
<1>11. ASSUME NEW r \in Calls, TimesOut(r) \/ Resume(r) PROVE FrameInv'
    <2>1. attempt[r] \in Attempts
        BY <1>11 DEF TimesOut, Resume, Core, AttemptInv
    <2>2. ASSUME NEW error \in Errors, Fails(r, attempt[r], error)
          PROVE  \E to \in {"backoff", "done"} : pc' = [pc EXCEPT ![r] = to]
        BY <2>1, <2>2, FailsEffect DEF Core
    <2> QED BY <1>8, <1>11, <2>2 DEF TimesOut, Resume, Errors, Retryable
<1> QED
    BY <1>2, <1>3, <1>4, <1>5, <1>6, <1>7, <1>9, <1>10, <1>11
    DEF Next, Call, ReadLoop, Environment

LEMMA FrameInvariant == Spec => []FrameInv
<1>1. Init => FrameInv
    BY DEF Init, FrameInv
<1>2. Core /\ FrameInv /\ [Next]_vars => FrameInv'
    BY FrameStep
<1> QED BY CoreInvariant, <1>1, <1>2, PTL DEF Spec

\* Call r holds the answer to a frame of its own.
Answered(r) ==
    \E k \in Attempts : k <= attempt[r] /\ answer[r] = {<<r, k>>} /\ <<r, k>> \in executed

\* An attempt starts without an answer, and the one answer that resolves its
\* future is there until the call ends.
AnswerInv ==
    \A r \in Calls :
        /\ pc[r] \in Suspended /\ fut[r] = "waiting" => answer[r] = {}
        /\ pc[r] \in Suspended /\ fut[r] = "reply" => Answered(r)
        /\ outcome[r] = "reply" => pc[r] = "done" /\ fut[r] = "reply" /\ Answered(r)

\* A step of call r that is not done concerns no other call.
LEMMA AnswerOfOthers ==
    ASSUME Core, AnswerInv, NEW r \in Calls, executed' = executed,
           \A s \in Calls : s # r => /\ pc'[s] = pc[s] /\ fut'[s] = fut[s]
                                     /\ attempt'[s] = attempt[s] /\ answer'[s] = answer[s]
                                     /\ outcome'[s] = outcome[s],
           /\ pc'[r] \in Suspended /\ fut'[r] = "waiting" => answer'[r] = {}
           /\ pc'[r] \in Suspended /\ fut'[r] = "reply" => Answered(r)'
           /\ outcome'[r] = "reply" => pc'[r] = "done" /\ fut'[r] = "reply" /\ Answered(r)'
    PROVE  AnswerInv'
    BY DEF AnswerInv, Answered

\* The calls are left alone and the server's frames only grow.
LEMMA AnswerKept ==
    ASSUME AnswerInv, UNCHANGED <<pc, attempt, fut, answer, outcome>>, executed \subseteq executed'
    PROVE  AnswerInv'
    BY DEF AnswerInv, Answered

LEMMA AnswerFailPending ==
    ASSUME Core, AnswerInv, NEW error \in {"lost", "protocol"}, FailPending(error),
           UNCHANGED <<pc, attempt, answer, outcome, executed>>
    PROVE  AnswerInv'
    BY DEF AnswerInv, Answered, FailPending, Core, TypeOK

LEMMA AnswerDeliver ==
    ASSUME Core, RegistrationInv, FrameInv, AnswerInv, NEW f \in Frames, Deliver(f)
    PROVE  AnswerInv'
<1>1. PICK r \in Calls, k \in Attempts : f = <<r, k>>
    BY DEF Frames
<1>2. UNCHANGED <<pc, attempt, outcome, executed>> /\ f \in replies
    BY DEF Deliver
<1>3. k <= attempt[r] /\ f \in executed
    BY <1>1, <1>2 DEF FrameInv
<1>4. CASE r \in pending /\ fut[r] = "waiting"
    <2>1. /\ fut' = [fut EXCEPT ![r] = "reply"]
          /\ answer' = [answer EXCEPT ![r] = @ \cup {f}]
        BY <1>1, <1>4 DEF Deliver
    <2>2. \A s \in Calls : s # r => fut'[s] = fut[s] /\ answer'[s] = answer[s]
        BY <2>1 DEF Core, TypeOK
    <2>3. outcome[r] # "reply"
        BY <1>4 DEF AnswerInv
    <2>4. pc[r] \in Suspended => answer'[r] = {<<r, k>>}
        BY <1>1, <1>4, <2>1 DEF AnswerInv, Core, TypeOK
    <2>5. fut'[r] = "reply"
        BY <2>1 DEF Core, TypeOK
    <2>6. pc'[r] \in Suspended => Answered(r)'
        BY <1>1, <1>2, <1>3, <2>4 DEF Answered
    <2> QED BY <1>2, <2>2, <2>3, <2>5, <2>6, AnswerOfOthers
<1>5. CASE ~ (r \in pending /\ fut[r] = "waiting")
    BY <1>1, <1>2, <1>5, AnswerKept DEF Deliver
<1> QED BY <1>4, <1>5

LEMMA AnswerStep ==
    ASSUME Core, RegistrationInv, FrameInv, AnswerInv, [Next]_vars
    PROVE  AnswerInv'
<1>1. CASE Connect \/ CloseStart \/ CloseWriter \/ SocketClosed \/ Environment \/ UNCHANGED vars
    BY <1>1, AnswerKept DEF Connect, CloseStart, CloseWriter, SocketClosed, Environment, Execute,
       PeerCloses, PeerResets, vars, callVars, netVars
<1>2. CASE CloseFinish \/ SeeEof \/ SeeError
    BY <1>2, AnswerFailPending DEF CloseFinish, SeeEof, SeeError, netVars
<1>3. ASSUME NEW f \in Frames, Deliver(f) PROVE AnswerInv'
    BY <1>3, AnswerDeliver
\* A call that ends, or backs off, without an answer.
<1>4. ASSUME NEW r \in Calls, pc[r] # "done", executed' = executed,
             NEW to \in {"backoff", "done"}, pc' = [pc EXCEPT ![r] = to],
             \/ outcome' = outcome
             \/ \E error \in Errors : outcome' = [outcome EXCEPT ![r] = error],
             \A s \in Calls : s # r => /\ fut'[s] = fut[s] /\ attempt'[s] = attempt[s]
                                       /\ answer'[s] = answer[s]
      PROVE  AnswerInv'
    <2>1. outcome[r] # "reply"
        BY <1>4 DEF AnswerInv
    <2>2. \A s \in Calls : s # r => pc'[s] = pc[s] /\ outcome'[s] = outcome[s]
        BY <1>4 DEF Core, TypeOK
    <2>3. pc'[r] \notin Suspended /\ outcome'[r] # "reply"
        BY <1>4, <2>1 DEF Core, TypeOK, Suspended, Errors, Retryable
    <2> QED BY <1>4, <2>2, <2>3, AnswerOfOthers
\* A call that starts an attempt and is left waiting.
<1>5. ASSUME NEW r \in Calls, pc[r] # "done", executed' = executed,
             NEW to \in Suspended, pc' = [pc EXCEPT ![r] = to], outcome' = outcome,
             fut' = [fut EXCEPT ![r] = "waiting"], answer' = [answer EXCEPT ![r] = {}],
             NEW k \in Attempts, attempt' = [attempt EXCEPT ![r] = k]
      PROVE  AnswerInv'
    <2>1. outcome[r] # "reply"
        BY <1>5 DEF AnswerInv
    <2>2. \A s \in Calls : s # r => /\ pc'[s] = pc[s] /\ fut'[s] = fut[s]
                                    /\ attempt'[s] = attempt[s] /\ answer'[s] = answer[s]
        BY <1>5 DEF Core, TypeOK
    <2>3. fut'[r] = "waiting" /\ answer'[r] = {}
        BY <1>5 DEF Core, TypeOK
    <2> QED BY <1>5, <2>1, <2>2, <2>3, AnswerOfOthers
\* A call that goes from one suspension of its attempt to the next.
<1>6. ASSUME NEW r \in Calls, pc[r] \in Suspended, NEW to \in Suspended,
             pc' = [pc EXCEPT ![r] = to], UNCHANGED <<fut, attempt, answer, outcome, executed>>
      PROVE  AnswerInv'
    BY <1>6 DEF AnswerInv, Answered, Core, TypeOK, Suspended
<1>7. ASSUME NEW r \in Calls, NEW k \in Attempts, pc[r] \in {"idle", "backoff"}, Enter(r, k)
      PROVE  AnswerInv'
    <2>1. /\ attempt' = [attempt EXCEPT ![r] = k]
          /\ answer' = [answer EXCEPT ![r] = {}]
          /\ executed' = executed
        BY <1>7 DEF Enter
    <2>2. \A s \in Calls : s # r => attempt'[s] = attempt[s] /\ answer'[s] = answer[s]
        BY <2>1 DEF Core, TypeOK
    <2>3. CASE Fails(r, k, "lost") /\ fut' = fut
        <3>1. PICK to \in {"backoff", "done"} :
                  /\ pc' = [pc EXCEPT ![r] = to]
                  /\ outcome' = outcome \/ outcome' = [outcome EXCEPT ![r] = "lost"]
            BY <2>3, FailsEffect DEF Core, Errors, Retryable
        <3>2. "lost" \in Errors
            BY DEF Errors, Retryable
        <3> QED BY <1>4, <1>7, <2>1, <2>2, <2>3, <3>1, <3>2
    <2>4. CASE Write(r, k) /\ fut' = [fut EXCEPT ![r] = "waiting"]
        <3>1. PICK to \in {"done", "awaiting", "draining", "yielding"} :
                  /\ pc' = [pc EXCEPT ![r] = to]
                  /\ to = "done" => outcome' = [outcome EXCEPT ![r] = "internal"]
                  /\ to # "done" => outcome' = outcome
            BY <2>4, WriteEffect
        <3>2. CASE to = "done"
            <4>1. \A s \in Calls : s # r => fut'[s] = fut[s]
                BY <2>4 DEF Core, TypeOK
            <4>2. "internal" \in Errors
                BY DEF Errors
            <4> QED BY <1>4, <1>7, <2>1, <2>2, <3>1, <3>2, <4>1, <4>2
        <3>3. CASE to # "done"
            BY <1>5, <1>7, <2>1, <2>4, <3>1, <3>3 DEF Suspended
        <3> QED BY <3>2, <3>3
    <2>5. CASE /\ pc' = [pc EXCEPT ![r] = "queued"] /\ outcome' = outcome
               /\ fut' = [fut EXCEPT ![r] = "waiting"]
        BY <1>5, <1>7, <2>1, <2>5 DEF Suspended
    <2> QED BY <1>7, <2>3, <2>4, <2>5 DEF Enter
<1>8. ASSUME NEW r \in Calls, Begin(r) \/ Retry(r) PROVE AnswerInv'
    <2>1. pc[r] = "backoff" => attempt[r] + 1 \in Attempts
        BY AttemptsAssumption DEF Core, AttemptInv, Attempts
    <2> QED BY <1>7, <1>8, <2>1, AttemptsAssumption DEF Begin, Retry, Attempts
<1>9. ASSUME NEW r \in Calls, EncodeFails(r) PROVE AnswerInv'
    <2>1. 1 \in Attempts /\ Fails(r, 1, "protocol") /\ "protocol" \in Errors
        BY <1>9, AttemptsAssumption DEF EncodeFails, Attempts, Errors
    <2>2. /\ pc' = [pc EXCEPT ![r] = "done"]
          /\ outcome' = [outcome EXCEPT ![r] = "protocol"]
        BY <2>1, FailsEffect DEF Core, Errors, Retryable
    <2>3. /\ pc[r] = "idle" /\ answer' = answer /\ executed' = executed
          /\ attempt' = [attempt EXCEPT ![r] = 1] /\ fut' = [fut EXCEPT ![r] = "waiting"]
        BY <1>9 DEF EncodeFails, netVars
    <2>4. \A s \in Calls : s # r => /\ fut'[s] = fut[s] /\ attempt'[s] = attempt[s]
                                    /\ answer'[s] = answer[s]
        BY <2>3 DEF Core, TypeOK
    <2> QED BY <1>4, <2>1, <2>2, <2>3, <2>4
\* A call that ends because of an exception that is not retried.
<1>10. ASSUME NEW r \in Calls, pc[r] # "done", NEW error \in Errors,
              pc' = [pc EXCEPT ![r] = "done"], outcome' = [outcome EXCEPT ![r] = error],
              UNCHANGED <<attempt, answer, executed>>, \A s \in Calls : s # r => fut'[s] = fut[s]
       PROVE  AnswerInv'
    BY <1>4, <1>10
<1>11. ASSUME NEW r \in Calls, TakeLock(r) PROVE AnswerInv'
    <2>1. Head(queue) \in Members(queue)
        BY <1>11, QueueServe DEF TakeLock, Core, TypeOK, LockInv
    <2>2. pc[r] \in Suspended /\ pc[r] # "done" /\ attempt[r] \in Attempts
        BY <1>11, <2>1 DEF TakeLock, Core, LockInv, AttemptInv, Suspended
    <2>3. PICK to \in {"done", "awaiting", "draining", "yielding"} :
              /\ pc' = [pc EXCEPT ![r] = to]
              /\ to = "done" => outcome' = [outcome EXCEPT ![r] = "internal"]
              /\ to # "done" => outcome' = outcome
        BY <1>11, <2>2, WriteEffect DEF TakeLock
    <2>4. "internal" \in Errors
        BY DEF Errors
    <2> QED BY <1>6, <1>10, <1>11, <2>2, <2>3, <2>4 DEF TakeLock, Suspended
<1>12. ASSUME NEW r \in Calls, Yielded(r) \/ DrainReturns(r) \/ DrainFails(r)
       PROVE  AnswerInv'
    BY <1>6, <1>10, <1>12 DEF Yielded, DrainReturns, DrainFails, Suspended, Errors, netVars
<1>13. ASSUME NEW r \in Calls, Expire(r) PROVE AnswerInv'
    BY <1>13 DEF Expire, AnswerInv, Answered, Core, TypeOK, netVars
<1>14. ASSUME NEW r \in Calls, TimesOut(r) PROVE AnswerInv'
    <2>1. attempt[r] \in Attempts /\ Fails(r, attempt[r], "timeout") /\ pc[r] = "awaiting"
        BY <1>14 DEF TimesOut, Core, AttemptInv
    <2>2. "timeout" \in Errors
        BY DEF Errors, Retryable
    <2>3. PICK to \in {"backoff", "done"} :
              /\ pc' = [pc EXCEPT ![r] = to]
              /\ outcome' = outcome \/ outcome' = [outcome EXCEPT ![r] = "timeout"]
        BY <2>1, <2>2, FailsEffect DEF Core
    <2> QED BY <1>4, <1>14, <2>1, <2>2, <2>3 DEF TimesOut, netVars
<1>15. ASSUME NEW r \in Calls, Resume(r) PROVE AnswerInv'
    <2>1. pc[r] = "awaiting" /\ UNCHANGED <<fut, attempt, answer, executed>>
        BY <1>15 DEF Resume, netVars
    <2>2. CASE fut[r] = "reply" /\ pc' = [pc EXCEPT ![r] = "done"]
               /\ outcome' = [outcome EXCEPT ![r] = "reply"]
        <3>1. Answered(r)
            BY <2>1, <2>2 DEF AnswerInv, Suspended
        <3> QED BY <2>1, <2>2, <3>1 DEF AnswerInv, Answered, Core, TypeOK, Suspended
    <2>3. CASE fut[r] \in {"lost", "protocol"} /\ Fails(r, attempt[r], fut[r])
        <3>1. attempt[r] \in Attempts /\ fut[r] \in Errors
            BY <2>1, <2>3 DEF Core, AttemptInv, Errors, Retryable
        <3>2. PICK to \in {"backoff", "done"} :
                  /\ pc' = [pc EXCEPT ![r] = to]
                  /\ outcome' = outcome \/ outcome' = [outcome EXCEPT ![r] = fut[r]]
            BY <2>3, <3>1, FailsEffect DEF Core
        <3> QED BY <1>4, <2>1, <3>1, <3>2
    <2> QED BY <1>15, <2>2, <2>3 DEF Resume
<1>16. ASSUME NEW r \in Calls, Cancel(r) PROVE AnswerInv'
    <2>1. \A s \in Calls : s # r => fut'[s] = fut[s]
        BY <1>16 DEF Cancel, Core, TypeOK
    <2> QED BY <1>10, <1>16, <2>1 DEF Cancel, Errors, netVars
<1> QED
    BY <1>1, <1>2, <1>3, <1>8, <1>9, <1>11, <1>12, <1>13, <1>14, <1>15, <1>16
    DEF Next, Call, ReadLoop, Close

LEMMA AnswerInvariant == Spec => []AnswerInv
<1>1. Init => AnswerInv
    BY DEF Init, AnswerInv, Suspended
<1>2. Core /\ RegistrationInv /\ FrameInv /\ AnswerInv /\ [Next]_vars => AnswerInv'
    BY AnswerStep
<1> QED BY CoreInvariant, RegistrationInvariant, FrameInvariant, <1>1, <1>2, PTL DEF Spec

\* Whatever is retried, late, cancelled or failed: a call that ends with an answer
\* has exactly one, to a frame of its own that the server executed.
THEOREM AnswersAreOwn == Spec => []AnswersOwnRequest
<1>1. Core /\ AnswerInv => AnswersOwnRequest
    <2> SUFFICES ASSUME Core, AnswerInv, NEW r \in Calls, outcome[r] = "reply"
                 PROVE  \E k \in 1 .. attempt[r] :
                            answer[r] = {<<r, k>>} /\ <<r, k>> \in executed
        BY DEF AnswersOwnRequest
    <2>1. PICK k \in Attempts :
              k <= attempt[r] /\ answer[r] = {<<r, k>>} /\ <<r, k>> \in executed
        BY DEF AnswerInv, Answered
    <2>2. k \in 1 .. attempt[r]
        BY <2>1 DEF Attempts, Core, TypeOK
    <2> QED BY <2>1, <2>2
<1> QED BY CoreInvariant, AnswerInvariant, <1>1, PTL

-----------------------------------------------------------------------------
(* What a step does to the outside of the calls.                              *)

\* One call moves: no other call is concerned, the server executes nothing, and
\* the only frames written are the call's own.  It ends with an answer only if
\* its future held one.
Moves(r) ==
    /\ pc[r] # "done" /\ pc'[r] # "idle"
    /\ \A s \in Calls : s # r => pc'[s] = pc[s] /\ outcome'[s] = outcome[s]
    /\ pc'[r] = "done" /\ outcome'[r] = "reply" => pc[r] = "awaiting" /\ fut[r] = "reply"
    /\ executed' = executed
    /\ wire' \subseteq wire \cup {<<r, k>> : k \in Attempts}

\* No call moves.  The server may execute a frame it has received.
Rests ==
    /\ UNCHANGED <<pc, outcome>>
    /\ wire' \subseteq wire
    /\ executed' = executed \/ \E f \in wire : executed' = executed \cup {f}

LEMMA MovesTo ==
    ASSUME Core, NEW r \in Calls, pc[r] # "done", executed' = executed,
           wire' \subseteq wire \cup {<<r, k>> : k \in Attempts},
           NEW to \in {"backoff", "queued", "yielding", "draining", "awaiting", "done"},
           pc' = [pc EXCEPT ![r] = to],
           \/ to # "done" /\ outcome' = outcome
           \/ \E error \in Errors : outcome' = [outcome EXCEPT ![r] = error]
    PROVE  Moves(r)
<1>1. pc'[r] = to /\ \A s \in Calls : s # r => pc'[s] = pc[s] /\ outcome'[s] = outcome[s]
    BY DEF Core, TypeOK
<1>2. to = "done" => outcome'[r] # "reply"
    BY DEF Core, TypeOK, Errors, Retryable
<1> QED BY <1>1, <1>2 DEF Moves

LEMMA MovesFails ==
    ASSUME Core, NEW r \in Calls, pc[r] # "done", UNCHANGED <<wire, executed>>,
           NEW k \in Attempts, NEW error \in Errors, Fails(r, k, error)
    PROVE  Moves(r)
<1>1. PICK to \in {"backoff", "done"} :
          /\ pc' = [pc EXCEPT ![r] = to]
          /\ to = "backoff" => outcome' = outcome
          /\ to = "done" => outcome' = [outcome EXCEPT ![r] = error]
    BY FailsEffect DEF Core
<1> QED BY <1>1, MovesTo

LEMMA MovesWrites ==
    ASSUME Core, NEW r \in Calls, pc[r] # "done", executed' = executed,
           NEW k \in Attempts, Write(r, k)
    PROVE  Moves(r)
<1>1. PICK to \in {"done", "awaiting", "draining", "yielding"} :
          /\ pc' = [pc EXCEPT ![r] = to]
          /\ to = "done" => outcome' = [outcome EXCEPT ![r] = "internal"]
          /\ to # "done" => outcome' = outcome
    BY WriteEffect
<1>2. wire' = wire \/ wire' = wire \cup {<<r, k>>}
    BY WriteEffect
<1>3. "internal" \in Errors
    BY DEF Errors
<1>4. wire' \subseteq wire \cup {<<r, j>> : j \in Attempts}
    BY <1>2
<1> QED BY <1>1, <1>3, <1>4, MovesTo

LEMMA StepShape ==
    ASSUME Core, [Next]_vars
    PROVE  Rests \/ \E r \in Calls : Moves(r)
<1>1. CASE Connect \/ Close \/ PeerCloses \/ PeerResets \/ SeeEof \/ SeeError \/ UNCHANGED vars
    BY <1>1 DEF Rests, Connect, Close, CloseStart, CloseWriter, SocketClosed, CloseFinish,
       PeerCloses, PeerResets, SeeEof, SeeError, vars, callVars, netVars
<1>2. ASSUME NEW f \in Frames, Deliver(f) \/ Execute(f) PROVE Rests
    BY <1>2 DEF Rests, Deliver, Execute, callVars
<1>3. ASSUME NEW r \in Calls, Begin(r) \/ Retry(r) PROVE Moves(r)
    <2>1. /\ pc[r] = "idle" => 1 \in Attempts
          /\ pc[r] = "backoff" => attempt[r] + 1 \in Attempts
        BY AttemptsAssumption DEF Core, AttemptInv, Attempts
    <2>2. PICK k \in Attempts : Enter(r, k) /\ pc[r] # "done"
        BY <1>3, <2>1 DEF Begin, Retry
    <2>3. executed' = executed
        BY <2>2 DEF Enter
    <2>4. CASE Fails(r, k, "lost") /\ wire' = wire
        BY <2>2, <2>3, <2>4, MovesFails DEF Errors, Retryable
    <2>5. CASE Write(r, k)
        BY <2>2, <2>3, <2>5, MovesWrites
    <2>6. CASE pc' = [pc EXCEPT ![r] = "queued"] /\ outcome' = outcome /\ wire' = wire
        BY <2>2, <2>3, <2>6, MovesTo
    <2> QED BY <2>2, <2>4, <2>5, <2>6 DEF Enter
<1>4. ASSUME NEW r \in Calls, EncodeFails(r) PROVE Moves(r)
    <2>1. 1 \in Attempts /\ "protocol" \in Errors
        BY AttemptsAssumption DEF Attempts, Errors
    <2> QED BY <1>4, <2>1, MovesFails DEF EncodeFails, netVars
<1>5. ASSUME NEW r \in Calls, TakeLock(r) PROVE Moves(r)
    <2>1. Head(queue) \in Members(queue)
        BY <1>5, QueueServe DEF TakeLock, Core, TypeOK, LockInv
    <2>2. pc[r] = "queued" /\ attempt[r] \in Attempts
        BY <1>5, <2>1 DEF TakeLock, Core, LockInv, AttemptInv
    <2> QED BY <1>5, <2>2, MovesWrites DEF TakeLock
<1>6. ASSUME NEW r \in Calls, Yielded(r) \/ DrainReturns(r) \/ DrainFails(r) \/ Cancel(r)
      PROVE  Moves(r)
    <2>1. "internal" \in Errors /\ "cancelled" \in Errors
        BY DEF Errors
    <2> QED BY <1>6, <2>1, MovesTo DEF Yielded, DrainReturns, DrainFails, Cancel, netVars
<1>7. ASSUME NEW r \in Calls, Expire(r) PROVE Rests
    BY <1>7 DEF Expire, Rests, netVars
<1>8. ASSUME NEW r \in Calls, TimesOut(r) PROVE Moves(r)
    <2>1. attempt[r] \in Attempts /\ "timeout" \in Errors
        BY <1>8 DEF TimesOut, Core, AttemptInv, Errors, Retryable
    <2> QED BY <1>8, <2>1, MovesFails DEF TimesOut, netVars
<1>9. ASSUME NEW r \in Calls, Resume(r) PROVE Moves(r)
    <2>1. pc[r] = "awaiting" /\ UNCHANGED <<wire, executed>>
        BY <1>9 DEF Resume, netVars
    <2>2. CASE fut[r] = "reply" /\ pc' = [pc EXCEPT ![r] = "done"]
               /\ outcome' = [outcome EXCEPT ![r] = "reply"]
        BY <2>1, <2>2 DEF Moves, Core, TypeOK
    <2>3. CASE fut[r] \in {"lost", "protocol"} /\ Fails(r, attempt[r], fut[r])
        <3>1. attempt[r] \in Attempts /\ fut[r] \in Errors
            BY <2>1, <2>3 DEF Core, AttemptInv, Errors, Retryable
        <3> QED BY <2>1, <2>3, <3>1, MovesFails
    <2> QED BY <1>9, <2>2, <2>3 DEF Resume
<1> QED
    BY <1>1, <1>2, <1>3, <1>4, <1>5, <1>6, <1>7, <1>8, <1>9
    DEF Next, Call, ReadLoop, Environment

-----------------------------------------------------------------------------
\* A finished call is left alone by late answers, by the passes that fail the
\* pending futures and by every other call, and none of its frames is written.
THEOREM EndedStaysEnded == Spec => EndedIsFinal
<1>1. ASSUME Core, [Next]_vars, NEW r \in Calls, pc[r] = "done"
      PROVE  /\ pc'[r] = "done" /\ outcome'[r] = outcome[r]
             /\ \A k \in Attempts : <<r, k>> \in wire' => <<r, k>> \in wire
    <2>1. CASE Rests
        BY <1>1, <2>1 DEF Rests
    <2>2. ASSUME NEW s \in Calls, Moves(s)
          PROVE  /\ pc'[r] = "done" /\ outcome'[r] = outcome[r]
                 /\ \A k \in Attempts : <<r, k>> \in wire' => <<r, k>> \in wire
        BY <1>1, <2>2 DEF Moves
    <2> QED BY <1>1, <2>1, <2>2, StepShape
<1>2. Core /\ [Next]_vars =>
          [\A r \in Calls : pc[r] = "done" =>
               /\ pc'[r] = "done" /\ outcome'[r] = outcome[r]
               /\ \A k \in Attempts : <<r, k>> \in wire' => <<r, k>> \in wire]_vars
    BY <1>1
<1> QED BY CoreInvariant, <1>2, PTL DEF Spec, EndedIsFinal

-----------------------------------------------------------------------------
(* The refinement.                                                            *)

\* The status of a call is where it stands for its caller.
LEMMA StatusValue ==
    ASSUME NEW r \in Calls
    PROVE  /\ pc[r] = "idle" => CallStatus[r] = "new"
           /\ pc[r] = "done" /\ outcome[r] = "reply" => CallStatus[r] = "answered"
           /\ pc[r] = "done" /\ outcome[r] # "reply" => CallStatus[r] = "failed"
           /\ pc[r] \notin {"idle", "done"} => CallStatus[r] = "open"
    BY DEF CallStatus

\* A call that moves is submitted, goes on, fails, or is answered; in the last
\* case the server has executed one of its attempts.
LEMMA MovesImplements ==
    ASSUME Core, AnswerInv, NEW r \in Calls, Moves(r)
    PROVE  [RC!ContractNext]_(RC!contractVars)
<1>1. /\ pc[r] # "done" /\ pc'[r] # "idle" /\ executed' = executed
      /\ \A s \in Calls : s # r => pc'[s] = pc[s] /\ outcome'[s] = outcome[s]
    BY DEF Moves
<1>2. \A s \in Calls : s # r => CallStatus'[s] = CallStatus[s]
    BY <1>1 DEF CallStatus
<1>3. CallStatus' = [CallStatus EXCEPT ![r] = CallStatus'[r]]
    BY <1>2 DEF CallStatus
<1>4. CallStatus[r] = IF pc[r] = "idle" THEN "new" ELSE "open"
    BY <1>1, StatusValue
<1>5. CallStatus'[r] = IF pc'[r] # "done" THEN "open"
                       ELSE IF outcome'[r] = "reply" THEN "answered" ELSE "failed"
    BY <1>1 DEF CallStatus
<1>6. CASE CallStatus'[r] = CallStatus[r]
    BY <1>1, <1>3, <1>6 DEF RC!contractVars, CallStatus
<1>7. CASE CallStatus[r] = "new" /\ CallStatus'[r] = "open"
    BY <1>1, <1>3, <1>7 DEF RC!ContractNext, RC!Submit
<1>8. CASE CallStatus'[r] = "failed"
    BY <1>1, <1>3, <1>4, <1>8 DEF RC!ContractNext, RC!Fail
<1>9. CASE CallStatus'[r] = "answered"
    <2>1. pc[r] = "awaiting" /\ fut[r] = "reply"
        BY <1>5, <1>9 DEF Moves
    <2>2. \E k \in Attempts : <<r, k>> \in executed
        BY <2>1 DEF AnswerInv, Answered, Suspended
    <2>3. CallStatus[r] = "open"
        BY <1>4, <2>1
    <2> QED BY <1>1, <1>3, <1>9, <2>2, <2>3 DEF RC!ContractNext, RC!Answer, Attempts
<1> QED BY <1>4, <1>5, <1>6, <1>7, <1>8, <1>9

LEMMA RestsImplements ==
    ASSUME Core, FrameInv, Rests
    PROVE  [RC!ContractNext]_(RC!contractVars)
<1>1. CallStatus' = CallStatus
    BY DEF Rests, CallStatus
<1>2. CASE executed' = executed
    BY <1>1, <1>2 DEF RC!contractVars
<1>3. ASSUME NEW f \in wire, executed' = executed \cup {f}
      PROVE  RC!ContractNext
    <2>1. PICK r \in Calls, k \in Attempts : f = <<r, k>>
        BY DEF Core, TypeOK, Frames
    <2>2. f \notin executed /\ k <= attempt[r]
        BY <2>1 DEF FrameInv
    <2>3. CallStatus[r] # "new"
        BY <2>2, StatusValue DEF Core, TypeOK, AttemptInv, Attempts, CallStatus
    <2>4. RC!ExecuteAttempt(r, k)
        BY <1>1, <1>3, <2>1, <2>2, <2>3 DEF RC!ExecuteAttempt
    <2> QED BY <2>4 DEF RC!ContractNext, Attempts
<1> QED BY <1>2, <1>3 DEF Rests

\* The calls of one connection behave as RequestContract promises their callers:
\* no attempt is executed twice, and no call is answered that the server did not
\* execute.
THEOREM TransportImplementsContract == Spec => ImplementsContract
<1>1. Init => RC!ContractInit
    BY DEF Init, RC!ContractInit, CallStatus
<1>2. Core /\ FrameInv /\ AnswerInv /\ [Next]_vars => [RC!ContractNext]_(RC!contractVars)
    BY StepShape, MovesImplements, RestsImplements
<1> QED
    BY CoreInvariant, FrameInvariant, AnswerInvariant, <1>1, <1>2, PTL
    DEF Spec, ImplementsContract, RC!Contract
=============================================================================

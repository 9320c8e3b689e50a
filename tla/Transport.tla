------------------------------ MODULE Transport ------------------------------
(* TCPTransport (transport/tcp.py) under the retry loop of ProtocolBackend    *)
(* (backends/auradb.py, _request).  Many calls share one connection: each     *)
(* registers a future under its request id, writes its frame under the write  *)
(* lock and waits for the read loop to resolve the future, for its timer, or  *)
(* for close() to fail it.  A step is the code between two awaits.            *)
(*                                                                            *)
(* The connection is opened once, as Client._open does.  Frame contents are   *)
(* left out: a frame is the call it belongs to and the attempt that wrote it  *)
(* (the request id is the same for every attempt).                            *)
EXTENDS Naturals, Sequences, SequencesExt

CONSTANTS Calls,        \* one element per ProtocolBackend._request in progress
          MaxAttempts,  \* RetryPolicy.max_attempts
          NoCall        \* the lock is free

ASSUME AttemptsAssumption == MaxAttempts \in Nat \ {0}
ASSUME NoCallAssumption == NoCall \notin Calls

VARIABLES
    connected,  \* TCPTransport._connected
    writer,     \* TCPTransport._writer: None, a live writer, or one being closed
    link,       \* the socket under it, as asyncio has noticed it
    readLoop,   \* the task running _read_loop
    closer,     \* where close() stands
    lock,       \* holder of _write_lock
    queue,      \* calls waiting for _write_lock, first come first served
    pending,    \* request ids registered in _pending
    pc,         \* pc[r]: where call r is suspended
    attempt,    \* attempt[r]: the attempt of the retry loop call r is in
    fut,        \* fut[r]: the future of the current attempt
    expired,    \* expired[r]: the timer of its wait_for has fired
    answer,     \* answer[r]: the frames whose arrival resolved the future
    outcome,    \* outcome[r]: how the call ended for its caller
    wire,       \* frames written and not yet executed by the server
    executed,   \* frames the server has executed
    replies     \* answers on their way back

linkVars == <<connected, writer, link, readLoop, closer>>
lockVars == <<lock, queue>>
callVars == <<pc, attempt, fut, expired, answer, outcome, pending>>
netVars  == <<wire, executed, replies>>
vars == <<linkVars, lockVars, callVars, netVars>>

Attempts == 1 .. MaxAttempts
Frames == Calls \X Attempts

\* AuraTimeoutError and AuraConnectionError are retryable, AuraProtocolError is
\* not.  "internal" is any exception that is not an AuraError: the retry loop
\* does not see it.
Retryable == {"timeout", "lost"}
Errors == Retryable \cup {"protocol", "internal", "cancelled"}

\* Where a call is suspended inside request(), its future registered.
Suspended == {"queued", "yielding", "draining", "awaiting"}

TypeOK ==
    /\ connected \in BOOLEAN
    /\ writer \in {"none", "open", "closing"}
    /\ link \in {"down", "up", "eof", "reset", "closed"}
    /\ readLoop \in {"off", "reading", "ended"}
    /\ closer \in {"idle", "joining", "flushing", "done"}
    /\ lock \in Calls \cup {NoCall}
    /\ queue \in Seq(Calls)
    /\ pending \in SUBSET Calls
    /\ pc \in [Calls -> {"idle", "backoff", "queued", "yielding", "draining",
                       "awaiting", "done"}]
    /\ attempt \in [Calls -> 0 .. MaxAttempts]
    /\ fut \in [Calls -> {"none", "waiting", "reply", "lost", "protocol", "cancelled"}]
    /\ expired \in [Calls -> BOOLEAN]
    /\ answer \in [Calls -> SUBSET Frames]
    /\ outcome \in [Calls -> {"none", "reply"} \cup Errors]
    /\ wire \in SUBSET Frames
    /\ executed \in SUBSET Frames
    /\ replies \in SUBSET Frames

Init ==
    /\ connected = FALSE
    /\ writer = "none"
    /\ link = "down"
    /\ readLoop = "off"
    /\ closer = "idle"
    /\ lock = NoCall
    /\ queue = <<>>
    /\ pending = {}
    /\ pc = [r \in Calls |-> "idle"]
    /\ attempt = [r \in Calls |-> 0]
    /\ fut = [r \in Calls |-> "none"]
    /\ expired = [r \in Calls |-> FALSE]
    /\ answer = [r \in Calls |-> {}]
    /\ outcome = [r \in Calls |-> "none"]
    /\ wire = {}
    /\ executed = {}
    /\ replies = {}

-----------------------------------------------------------------------------
(* connect(): a failed attempt raises and changes nothing.                    *)
Connect ==
    /\ ~connected /\ link = "down" /\ closer = "idle"
    /\ connected' = TRUE
    /\ writer' = "open"
    /\ link' = "up"
    /\ readLoop' = "reading"
    /\ UNCHANGED <<closer, lockVars, callVars, netVars>>

-----------------------------------------------------------------------------
(* One call.                                                                  *)

FailsAfterOneMore(r, k, error) ==
    IF error \in Retryable /\ k <= MaxAttempts
    THEN /\ pc' = [pc EXCEPT ![r] = "backoff"]
         /\ UNCHANGED outcome
    ELSE /\ pc' = [pc EXCEPT ![r] = "done"]
         /\ outcome' = [outcome EXCEPT ![r] = error]

\* The except clause of the retry loop, for attempt k of call r.
Fails(r, k, error) ==
    IF error \in Retryable /\ k < MaxAttempts
    THEN /\ pc' = [pc EXCEPT ![r] = "backoff"]
         /\ UNCHANGED outcome
    ELSE /\ pc' = [pc EXCEPT ![r] = "done"]
         /\ outcome' = [outcome EXCEPT ![r] = error]

\* The body of `async with self._write_lock` for a call that has just got the
\* lock.  Without a writer, or on a socket asyncio knows to be gone, write() or
\* drain() raises something that is not an AuraError and the future stays
\* registered.  Otherwise drain() returns at once, or suspends with the lock
\* held because the send buffer is full.  On a closing writer the bytes may be
\* dropped, and drain() first yields to the event loop.
Write(r, k) ==
    \/ /\ writer = "none" \/ link \in {"reset", "closed"}
       /\ pc' = [pc EXCEPT ![r] = "done"]
       /\ outcome' = [outcome EXCEPT ![r] = "internal"]
       /\ lock' = NoCall
       /\ UNCHANGED wire
    \/ /\ writer = "open" /\ link \in {"up", "eof"}
       /\ wire' = wire \cup {<<r, k>>}
       /\ \/ pc' = [pc EXCEPT ![r] = "awaiting"] /\ lock' = NoCall
          \/ pc' = [pc EXCEPT ![r] = "draining"] /\ lock' = r
       /\ UNCHANGED outcome
    \/ /\ writer = "closing" /\ link \in {"up", "eof"}
       /\ \/ wire' = wire \cup {<<r, k>>}
          \/ UNCHANGED wire
       /\ pc' = [pc EXCEPT ![r] = "yielding"]
       /\ lock' = r
       /\ UNCHANGED outcome

\* request() up to its first suspension, as attempt k of call r.
Enter(r, k) ==
    /\ attempt' = [attempt EXCEPT ![r] = k]
    /\ answer' = [answer EXCEPT ![r] = {}]
    /\ \/ /\ ~connected \/ writer = "none"
          /\ Fails(r, k, "lost")
          /\ UNCHANGED <<fut, pending, lockVars, wire>>
       \/ /\ connected /\ writer # "none"
          /\ fut' = [fut EXCEPT ![r] = "waiting"]
          /\ pending' = pending \cup {r}
          /\ \/ /\ lock = NoCall /\ queue = <<>>
                /\ Write(r, k)
                /\ UNCHANGED queue
             \/ /\ lock # NoCall \/ queue # <<>>
                /\ queue' = Append(queue, r)
                /\ pc' = [pc EXCEPT ![r] = "queued"]
                /\ UNCHANGED <<lock, wire, outcome>>
    /\ UNCHANGED <<linkVars, expired, executed, replies>>

Begin(r) == pc[r] = "idle" /\ Enter(r, 1)

\* The backoff is over; attempts are counted by the for statement.
Retry(r) == pc[r] = "backoff" /\ Enter(r, attempt[r] + 1)

\* encode_frame refuses a body above max_payload_bytes after the future has
\* been registered: the call ends, the registration stays.
EncodeFails(r) ==
    /\ pc[r] = "idle"
    /\ connected /\ writer # "none"
    /\ attempt' = [attempt EXCEPT ![r] = 1]
    /\ fut' = [fut EXCEPT ![r] = "waiting"]
    /\ pending' = pending \cup {r}
    /\ Fails(r, 1, "protocol")
    /\ UNCHANGED <<linkVars, lockVars, expired, answer, netVars>>

\* asyncio.Lock hands over in order: a released lock goes to the oldest waiter.
TakeLock(r) ==
    /\ lock = NoCall
    /\ queue # <<>> /\ Head(queue) = r
    /\ queue' = Tail(queue)
    /\ Write(r, attempt[r])
    /\ UNCHANGED <<linkVars, attempt, fut, expired, answer, pending, executed, replies>>

\* drain() on a closing writer, back from its yield.
Yielded(r) ==
    /\ pc[r] = "yielding"
    /\ \/ /\ link \in {"up", "eof"}
          /\ \/ pc' = [pc EXCEPT ![r] = "awaiting"] /\ lock' = NoCall
             \/ pc' = [pc EXCEPT ![r] = "draining"] /\ UNCHANGED lock
          /\ UNCHANGED outcome
       \/ /\ link \in {"reset", "closed"}
          /\ pc' = [pc EXCEPT ![r] = "done"]
          /\ outcome' = [outcome EXCEPT ![r] = "internal"]
          /\ lock' = NoCall
    /\ UNCHANGED <<linkVars, queue, attempt, fut, expired, answer, pending, netVars>>

\* drain() returns: the buffer emptied, or the connection was lost without an
\* error, and the lock is released.
DrainReturns(r) ==
    /\ pc[r] = "draining"
    /\ link # "reset"
    /\ lock' = NoCall
    /\ pc' = [pc EXCEPT ![r] = "awaiting"]
    /\ UNCHANGED <<linkVars, queue, attempt, fut, expired, answer, outcome, pending, netVars>>

DrainFailsKeepingLock(r) ==
    /\ pc[r] = "draining"
    /\ link = "reset"
    /\ pc' = [pc EXCEPT ![r] = "done"]
    /\ outcome' = [outcome EXCEPT ![r] = "internal"]
    /\ UNCHANGED <<linkVars, lockVars, attempt, fut, expired, answer, pending, netVars>>

\* drain() raises ConnectionResetError, which request() lets through.
DrainFails(r) ==
    /\ pc[r] = "draining"
    /\ link = "reset"
    /\ lock' = NoCall
    /\ pc' = [pc EXCEPT ![r] = "done"]
    /\ outcome' = [outcome EXCEPT ![r] = "internal"]
    /\ UNCHANGED <<linkVars, queue, attempt, fut, expired, answer, pending, netVars>>

\* The timer of wait_for fires: the future is cancelled if it is not done.
Expire(r) ==
    /\ pc[r] = "awaiting" /\ ~expired[r]
    /\ expired' = [expired EXCEPT ![r] = TRUE]
    /\ fut' = [fut EXCEPT ![r] = IF @ = "waiting" THEN "cancelled" ELSE @]
    /\ UNCHANGED <<linkVars, lockVars, pc, attempt, answer, outcome, pending, netVars>>

TimesOutRegistered(r) ==
    /\ pc[r] = "awaiting" /\ expired[r]
    /\ expired' = [expired EXCEPT ![r] = FALSE]
    /\ Fails(r, attempt[r], "timeout")
    /\ UNCHANGED <<linkVars, lockVars, attempt, fut, answer, pending, netVars>>

\* wait_for ends in a timeout.  A future that was done before the timer fired
\* does not help: the timeout may win (from Python 3.12 it always does).
TimesOut(r) ==
    /\ pc[r] = "awaiting" /\ expired[r]
    /\ pending' = pending \ {r}
    /\ expired' = [expired EXCEPT ![r] = FALSE]
    /\ Fails(r, attempt[r], "timeout")
    /\ UNCHANGED <<linkVars, lockVars, attempt, fut, answer, netVars>>

ResumeIgnoringErrors(r) ==
    /\ pc[r] = "awaiting"
    /\ fut[r] \in {"reply", "lost", "protocol"}
    /\ pc' = [pc EXCEPT ![r] = "done"]
    /\ outcome' = [outcome EXCEPT ![r] = "reply"]
    /\ expired' = [expired EXCEPT ![r] = FALSE]
    /\ UNCHANGED <<linkVars, lockVars, attempt, fut, answer, pending, netVars>>

\* wait_for returns the frame or raises what was set on the future.
Resume(r) ==
    /\ pc[r] = "awaiting"
    /\ \/ /\ fut[r] = "reply"
          /\ pc' = [pc EXCEPT ![r] = "done"]
          /\ outcome' = [outcome EXCEPT ![r] = "reply"]
       \/ /\ fut[r] \in {"lost", "protocol"}
          /\ Fails(r, attempt[r], fut[r])
    /\ expired' = [expired EXCEPT ![r] = FALSE]
    /\ UNCHANGED <<linkVars, lockVars, attempt, fut, answer, pending, netVars>>

CancelStayingQueued(r) ==
    /\ pc[r] \in {"backoff", "queued", "yielding", "draining", "awaiting"}
    /\ pc' = [pc EXCEPT ![r] = "done"]
    /\ outcome' = [outcome EXCEPT ![r] = "cancelled"]
    /\ fut' = [fut EXCEPT ![r] =
                  IF pc[r] = "awaiting" /\ @ = "waiting" THEN "cancelled" ELSE @]
    /\ expired' = [expired EXCEPT ![r] = FALSE]
    /\ lock' = IF lock = r THEN NoCall ELSE lock
    /\ UNCHANGED <<linkVars, queue, attempt, answer, pending, netVars>>

\* The caller cancels the call wherever it is suspended.  Nothing removes its
\* registration.
Cancel(r) ==
    /\ pc[r] \in {"backoff", "queued", "yielding", "draining", "awaiting"}
    /\ pc' = [pc EXCEPT ![r] = "done"]
    /\ outcome' = [outcome EXCEPT ![r] = "cancelled"]
    /\ fut' = [fut EXCEPT ![r] =
                  IF pc[r] = "awaiting" /\ @ = "waiting" THEN "cancelled" ELSE @]
    /\ expired' = [expired EXCEPT ![r] = FALSE]
    /\ lock' = IF lock = r THEN NoCall ELSE lock
    /\ IF pc[r] = "queued"
       THEN \E i \in 1 .. Len(queue) :
                queue[i] = r /\ queue' = RemoveAt(queue, i)
       ELSE UNCHANGED queue
    /\ UNCHANGED <<linkVars, attempt, answer, pending, netVars>>

Call(r) ==
    \/ Begin(r) \/ Retry(r) \/ EncodeFails(r) \/ TakeLock(r)
    \/ Yielded(r) \/ DrainReturns(r) \/ DrainFails(r)
    \/ Expire(r) \/ TimesOut(r) \/ Resume(r) \/ Cancel(r)

-----------------------------------------------------------------------------
(* The read loop.                                                             *)

FailPending(error) ==
    /\ fut' = [r \in Calls |-> IF r \in pending /\ fut[r] = "waiting"
                               THEN error ELSE fut[r]]
    /\ pending' = {}

DeliverToAnyone(f) ==
    /\ readLoop = "reading" /\ connected
    /\ link \in {"up", "eof"}
    /\ f \in replies
    /\ replies' = replies \ {f}
    /\ \E r \in pending :
           /\ pending' = pending \ {r}
           /\ IF fut[r] = "waiting"
              THEN /\ fut' = [fut EXCEPT ![r] = "reply"]
                   /\ answer' = [answer EXCEPT ![r] = @ \cup {f}]
              ELSE UNCHANGED <<fut, answer>>
    /\ UNCHANGED <<linkVars, lockVars, pc, attempt, expired, outcome, wire, executed>>

\* _drain_buffer, for one frame: late and unknown answers are dropped.
Deliver(f) ==
    /\ readLoop = "reading" /\ connected
    /\ link \in {"up", "eof"}
    /\ f \in replies
    /\ replies' = replies \ {f}
    /\ pending' = pending \ {f[1]}
    /\ IF f[1] \in pending /\ fut[f[1]] = "waiting"
       THEN /\ fut' = [fut EXCEPT ![f[1]] = "reply"]
            /\ answer' = [answer EXCEPT ![f[1]] = @ \cup {f}]
       ELSE UNCHANGED <<fut, answer>>
    /\ UNCHANGED <<linkVars, lockVars, pc, attempt, expired, outcome, wire, executed>>

\* An empty read: the server closed, everything it sent has been read.
SeeEof ==
    /\ readLoop = "reading" /\ connected
    /\ link = "eof" /\ replies = {}
    /\ FailPending("lost")
    /\ connected' = FALSE
    /\ readLoop' = "ended"
    /\ UNCHANGED <<writer, link, closer, lockVars, pc, attempt, expired, answer,
                   outcome, netVars>>

\* An OSError or a malformed frame ends the loop and leaves _connected as it is.
SeeError ==
    /\ readLoop = "reading" /\ connected
    /\ \/ link = "reset" /\ FailPending("lost")
       \/ link = "up" /\ FailPending("protocol")
    /\ readLoop' = "ended"
    /\ UNCHANGED <<connected, writer, link, closer, lockVars, pc, attempt, expired,
                   answer, outcome, netVars>>

ReadLoop == (\E f \in Frames : Deliver(f)) \/ SeeEof \/ SeeError

-----------------------------------------------------------------------------
(* close(), with its two awaits.                                              *)

\* Up to `await self._read_task`, which suspends only while the loop runs.
CloseStart ==
    /\ closer = "idle" /\ link # "down"
    /\ connected' = FALSE
    /\ closer' = "joining"
    /\ UNCHANGED <<writer, link, readLoop, lockVars, callVars, netVars>>

\* The read task is over; writer.close(), then wait_closed().
CloseWriter ==
    /\ closer = "joining"
    /\ readLoop' = "ended"
    /\ writer' = "closing"
    /\ closer' = "flushing"
    /\ UNCHANGED <<connected, link, lockVars, callVars, netVars>>

\* asyncio has flushed the send buffer and reports the connection as lost.
SocketClosed ==
    /\ closer = "flushing" /\ link \in {"up", "eof"}
    /\ link' = "closed"
    /\ UNCHANGED <<connected, writer, readLoop, closer, lockVars, callVars, netVars>>

CloseFinishForgetting ==
    /\ closer = "flushing" /\ link \in {"closed", "reset"}
    /\ writer' = "none"
    /\ closer' = "done"
    /\ UNCHANGED <<connected, link, readLoop, lockVars, callVars, netVars>>

CloseFinishUnsuppressed ==
    /\ closer = "flushing" /\ link = "closed"
    /\ writer' = "none"
    /\ FailPending("lost")
    /\ closer' = "done"
    /\ UNCHANGED <<connected, link, readLoop, lockVars, pc, attempt, expired, answer,
                   outcome, netVars>>

\* wait_closed() has returned, or raised an OSError, which is suppressed.
CloseFinish ==
    /\ closer = "flushing" /\ link \in {"closed", "reset"}
    /\ writer' = "none"
    /\ FailPending("lost")
    /\ closer' = "done"
    /\ UNCHANGED <<connected, link, readLoop, lockVars, pc, attempt, expired, answer,
                   outcome, netVars>>

Close == CloseStart \/ CloseWriter \/ SocketClosed \/ CloseFinish

-----------------------------------------------------------------------------
(* The server and the network.                                                *)

\* The server executes a frame it received, in any order, and answers it while
\* the connection stands; the answer may be late, or never come.
Execute(f) ==
    /\ f \in wire
    /\ wire' = wire \ {f}
    /\ executed' = executed \cup {f}
    /\ replies' = IF link = "up" THEN replies \cup {f} ELSE replies
    /\ UNCHANGED <<linkVars, lockVars, callVars>>

PeerCloses ==
    /\ link = "up"
    /\ link' = "eof"
    /\ UNCHANGED <<connected, writer, readLoop, closer, lockVars, callVars, netVars>>

PeerResets ==
    /\ link \in {"up", "eof"}
    /\ link' = "reset"
    /\ UNCHANGED <<connected, writer, readLoop, closer, lockVars, callVars, netVars>>

Environment == (\E f \in Frames : Execute(f)) \/ PeerCloses \/ PeerResets

-----------------------------------------------------------------------------
Next ==
    \/ Connect
    \/ \E r \in Calls : Call(r)
    \/ ReadLoop
    \/ Close
    \/ Environment

Spec == Init /\ [][Next]_vars

\* The event loop runs what is ready, timers fire, a backoff ends, and a send
\* buffer empties or its connection is lost.  The callers, the server and the
\* network promise nothing.
Fairness ==
    /\ \A r \in Calls :
           /\ WF_vars(Retry(r)) /\ WF_vars(TakeLock(r))
           /\ WF_vars(Yielded(r)) /\ WF_vars(DrainReturns(r) \/ DrainFails(r))
           /\ WF_vars(Expire(r)) /\ WF_vars(TimesOut(r) \/ Resume(r))
    /\ WF_vars(CloseWriter) /\ WF_vars(SocketClosed) /\ WF_vars(CloseFinish)

FairSpec == Spec /\ Fairness

-----------------------------------------------------------------------------
(* Properties.                                                                *)

\* A call that ends with an answer got it for its own request id, from a frame
\* that one of its own attempts wrote and the server executed (correlation in
\* _drain_buffer; with retries, the answer may belong to an earlier attempt).
AnswersOwnRequest ==
    \A r \in Calls :
        outcome[r] = "reply" =>
            \E k \in 1 .. attempt[r] : answer[r] = {<<r, k>>} /\ <<r, k>> \in executed

\* Whoever waits for an answer can still be told: an unresolved future of a
\* suspended call is registered, so the read loop or close() reaches it.  It
\* ties the early return of request(), the registration, and the order in which
\* close() clears _connected and fails the pending futures.
NoOrphanedFuture ==
    \A r \in Calls :
        pc[r] \in Suspended /\ fut[r] = "waiting" =>
            r \in pending /\ closer # "done"

\* The write lock is held exactly by the call suspended in drain(), and its
\* queue holds each waiting call once and no other: every way out of
\* `async with`, the failing and the cancelled ones included, gives it up.
LockDiscipline ==
    /\ \A r \in Calls : lock = r <=> pc[r] \in {"yielding", "draining"}
    /\ \A r \in Calls : pc[r] = "queued" <=> \E i \in 1 .. Len(queue) : queue[i] = r
    /\ \A i, j \in 1 .. Len(queue) : queue[i] = queue[j] => i = j

\* A registration outlives its call only on the three paths that skip the
\* timeout handler: an encoding error, an exception that is not an AuraError,
\* and cancellation.  In particular a call that timed out, or is backing off,
\* is not registered, so the answer to a given-up attempt finds no future.
RegistrationsBelongToCalls ==
    \A r \in pending :
        \/ pc[r] \in Suspended
        \/ pc[r] = "done" /\ outcome[r] \in {"protocol", "internal", "cancelled"}

\* Once a call has ended, nothing about it changes for its caller, and no
\* attempt of it is written any more (late answers and fail-pending passes must
\* leave it alone).
EndedIsFinal ==
    [][\A r \in Calls : pc[r] = "done" =>
           /\ pc'[r] = "done" /\ outcome'[r] = outcome[r]
           /\ \A k \in Attempts : <<r, k>> \in wire' => <<r, k>> \in wire]_vars

\* No call hangs: one that has begun ends, whatever the server answers or leaves
\* out, whenever the connection is lost, and whether or not the client closes
\* meanwhile.  Fairness assumes that a full send buffer empties or its connection
\* is lost: drain() has no timeout, so a peer that stays and reads
\* nothing blocks the call in it and those queued for the lock.
EveryCallEnds ==
    \A r \in Calls : (pc[r] # "idle") ~> (pc[r] = "done")

\* close() returns, with calls in flight and with a lost connection, under the
\* same assumption: it waits for a writer that still has bytes to send.
CloseReturns == (closer # "idle") ~> (closer = "done")

\* docs/TRANSPORTS.md: on close, pending requests fail cleanly.  Unless the
\* peer reset the connection, no call ends in anything but an AuraError.
CallsFailCleanly ==
    link # "reset" => \A r \in Calls : outcome[r] # "internal"

-----------------------------------------------------------------------------
(* The calls as their callers see them.                                       *)

CallStatus ==
    [r \in Calls |->
        CASE pc[r] = "idle" -> "new"
          [] pc[r] = "done" -> IF outcome[r] = "reply" THEN "answered" ELSE "failed"
          [] OTHER -> "open"]

RC == INSTANCE RequestContract WITH status <- CallStatus

ImplementsContract == RC!Contract
=============================================================================

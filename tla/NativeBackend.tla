---------------------------- MODULE NativeBackend ----------------------------
(* AuraDBNativeBackend (backends/auradb_native.py) under the transactions,    *)
(* writes and streamed queries of concurrent tasks.  All of them share one    *)
(* socket: _request writes a frame and reads the next answer off the stream   *)
(* under one lock, and takes it to be its own without looking at the request  *)
(* id.  A step is the code between two awaits.                                *)
(*                                                                            *)
(* The connection has been opened by Client._open.  The server is external:   *)
(* it handles the requests of a connection in order and answers each once.    *)
(* Of a payload the transaction id and the cursor id are kept.                *)
EXTENDS Naturals, Sequences, SequencesExt, FiniteSets

CONSTANTS Txs,      \* tasks running `async with client.transaction()`, with one write
          Writes,   \* tasks issuing one autonomous write
          Streams,  \* tasks iterating over a streamed query
          Pages,    \* bound: pages of a streamed query
          NoTask    \* the lock is free

ASSUME PagesAssumption == Pages \in Nat \ {0}
ASSUME TasksAssumption ==
    /\ Txs \cap Writes = {} /\ Txs \cap Streams = {} /\ Writes \cap Streams = {}
    /\ NoTask \notin Txs \cup Writes \cup Streams

Tasks == Txs \cup Writes \cup Streams
Ops == {"begin", "write", "commit", "rollback", "find", "fetch"}

\* A frame: who wrote it, the operation, the transaction id of its header (0 for
\* none) and the cursor id of its payload.
Requests == [by : Tasks, op : Ops, tx : Nat, cursor : Nat]

\* An answer to a request: an error, or a payload whose txn_id and cursor_id are
\* 0 where it has none.
Answers == [to : Requests, fine : BOOLEAN, txn : Nat, cursor : Nat]

VARIABLES
    connected,  \* _writer and _reader are set
    socket,     \* the connection under them
    holder,     \* holder of _lock
    queue,      \* tasks waiting for _lock, first come first served
    torn,       \* the header of the first unread answer has been consumed alone
    pc,         \* pc[t]: where task t is suspended
    op,         \* op[t]: the operation task t is in, or issues next
    request,    \* request[t]: the frame of that operation
    txnMap,     \* _txn_map, 0 for an id that is not in it
    cursor,     \* cursor[t]: the cursor id of the last page of stream t
    outcome,    \* outcome[t]: how the task ended
    requests,   \* frames on their way to the server
    answers,    \* answers on their way back, and those in the reader's buffer
    open,       \* server: its open transactions, and who began each
    staged,     \* server: writes staged in a transaction
    applied,    \* server: tasks whose write is committed
    cursors,    \* server: open cursors
    serial,     \* server: the last id it gave out
    unread,     \* history: frames whose task stopped waiting for the answer
    cancelledIn \* history: cancelledIn[t], the operation t was cancelled in

linkVars == <<connected, socket>>
lockVars == <<holder, queue>>
taskVars == <<pc, op, request, txnMap, cursor, outcome, cancelledIn>>
wireVars == <<requests, answers, torn, unread>>
serverVars == <<open, staged, applied, cursors, serial>>
vars == <<linkVars, lockVars, taskVars, wireVars, serverVars>>

Transactions == [id : Nat \ {0}, by : Tasks]
Cursors == [id : Nat \ {0}, by : Tasks, left : 1 .. Pages]

TypeOK ==
    /\ connected \in BOOLEAN
    /\ socket \in {"open", "closed"}
    /\ holder \in Tasks \cup {NoTask}
    /\ queue \in Seq(Tasks)
    /\ torn \in BOOLEAN
    /\ pc \in [Tasks -> {"ready", "queued", "sent", "reading", "ended"}]
    /\ op \in [Tasks -> Ops]
    /\ request \in [Tasks -> Requests]
    /\ txnMap \in [Txs -> Nat]
    /\ cursor \in [Streams -> Nat]
    /\ outcome \in [Tasks -> {"none", "done", "left", "failed", "cancelled"}]
    /\ requests \in Seq(Requests)
    /\ answers \in Seq(Answers)
    /\ open \in SUBSET Transactions
    /\ staged \in SUBSET (Tasks \X Nat)
    /\ applied \in SUBSET Tasks
    /\ cursors \in SUBSET Cursors
    /\ serial \in Nat
    /\ unread \in SUBSET Requests
    /\ cancelledIn \in [Tasks -> Ops \cup {"none"}]

FirstOp(t) == IF t \in Txs THEN "begin" ELSE IF t \in Writes THEN "write" ELSE "find"

Init ==
    /\ connected = TRUE
    /\ socket = "open"
    /\ holder = NoTask
    /\ queue = <<>>
    /\ torn = FALSE
    /\ pc = [t \in Tasks |-> "ready"]
    /\ op = [t \in Tasks |-> FirstOp(t)]
    /\ request = [t \in Tasks |-> [by |-> t, op |-> FirstOp(t), tx |-> 0, cursor |-> 0]]
    /\ txnMap = [t \in Txs |-> 0]
    /\ cursor = [t \in Streams |-> 0]
    /\ outcome = [t \in Tasks |-> "none"]
    /\ requests = <<>>
    /\ answers = <<>>
    /\ open = {} /\ staged = {} /\ applied = {} /\ cursors = {} /\ serial = 0
    /\ unread = {}
    /\ cancelledIn = [t \in Tasks |-> "none"]

-----------------------------------------------------------------------------
(* What a task does with the end of an operation.                             *)

Ends(t, how) ==
    /\ pc' = [pc EXCEPT ![t] = "ended"]
    /\ outcome' = [outcome EXCEPT ![t] = how]
    /\ UNCHANGED op

Issues(t, next) ==
    /\ pc' = [pc EXCEPT ![t] = "ready"]
    /\ op' = [op EXCEPT ![t] = next]
    /\ UNCHANGED outcome

RaisesWithoutRollback(t, how) == Ends(t, how)

\* An exception leaves the operation.  Inside the block of a transaction it
\* brings __aexit__ to roll back; __aenter__ and __aexit__ pass it on.
Raises(t, how) ==
    IF t \in Txs /\ op[t] = "write" THEN Issues(t, "rollback") ELSE Ends(t, how)

-----------------------------------------------------------------------------
(* _request up to its frame.                                                  *)

\* The lock is got: write() puts the frame on the wire, or raises
\* AttributeError because close() has dropped the writer meanwhile.  What is
\* written to a dead socket is lost.
Sends(t, frame) ==
    \/ /\ connected
       /\ holder' = t
       /\ pc' = [pc EXCEPT ![t] = "sent"]
       /\ requests' = IF socket = "open" THEN Append(requests, frame) ELSE requests
       /\ UNCHANGED <<op, outcome>>
    \/ /\ ~connected
       /\ holder' = NoTask
       /\ Raises(t, "failed")
       /\ UNCHANGED requests

\* The operation picks the server's transaction id, commit and rollback taking
\* it out of the map, and calls _request.  The frame is built before the lock is
\* asked for.
Call(t) ==
    /\ pc[t] = "ready"
    /\ LET frame == [by |-> t, op |-> op[t],
                     tx |-> IF t \in Txs THEN txnMap[t] ELSE 0,
                     cursor |-> IF op[t] = "fetch" THEN cursor[t] ELSE 0]
       IN  \/ /\ ~connected
              /\ Raises(t, "failed")
              /\ UNCHANGED <<request, lockVars, requests>>
           \/ /\ connected
              /\ request' = [request EXCEPT ![t] = frame]
              /\ \/ holder = NoTask /\ queue = <<>> /\ Sends(t, frame) /\ UNCHANGED queue
                 \/ /\ holder # NoTask \/ queue # <<>>
                    /\ queue' = Append(queue, t)
                    /\ pc' = [pc EXCEPT ![t] = "queued"]
                    /\ UNCHANGED <<holder, op, outcome, requests>>
    /\ txnMap' = IF op[t] \in {"commit", "rollback"} THEN [txnMap EXCEPT ![t] = 0] ELSE txnMap
    /\ UNCHANGED <<linkVars, cursor, cancelledIn, answers, torn, unread, serverVars>>

TakeLockHeld(t) ==
    /\ queue # <<>> /\ Head(queue) = t
    /\ queue' = Tail(queue)
    /\ Sends(t, request[t])
    /\ UNCHANGED <<linkVars, request, txnMap, cursor, cancelledIn, answers, torn, unread,
                   serverVars>>

TakeLock(t) ==
    /\ holder = NoTask /\ queue # <<>> /\ Head(queue) = t
    /\ queue' = Tail(queue)
    /\ Sends(t, request[t])
    /\ UNCHANGED <<linkVars, request, txnMap, cursor, cancelledIn, answers, torn, unread,
                   serverVars>>

-----------------------------------------------------------------------------
(* _request from its answer on.                                               *)

\* readexactly(HEADER_LEN), of whatever answer is next on the stream.
ReadHeader(t) ==
    /\ pc[t] = "sent" /\ ~torn /\ answers # <<>>
    /\ pc' = [pc EXCEPT ![t] = "reading"]
    /\ UNCHANGED <<linkVars, lockVars, op, request, txnMap, cursor, outcome, cancelledIn,
                   wireVars, serverVars>>

\* The stream begins in the middle of an answer: the next 44 bytes are no
\* header, and ValueError leaves the rest where it is.  They may end anywhere in
\* what has arrived, by chance between two answers.
ReadGarbage(t) ==
    /\ pc[t] = "sent" /\ torn /\ answers # <<>>
    /\ \E n \in 0 .. Len(answers) :
          /\ answers' = SubSeq(answers, n + 1, Len(answers))
          /\ torn' \in {b \in BOOLEAN : (b => answers' # <<>>) /\ (~b => n > 0)}
    /\ holder' = NoTask
    /\ unread' = unread \cup {request[t]}
    /\ Raises(t, "failed")
    /\ UNCHANGED <<linkVars, queue, request, txnMap, cursor, cancelledIn, requests, serverVars>>

TakesBeginUndefaulted(t, answer) ==
    /\ op[t] = "begin"
    /\ txnMap' = [txnMap EXCEPT ![t] = IF answer.txn = 0 THEN NoTask ELSE answer.txn]
    /\ Issues(t, "write")
    /\ UNCHANGED cursor

TakesBeginUnmapped(t, answer) ==
    /\ op[t] = "begin"
    /\ Issues(t, "write")
    /\ UNCHANGED <<txnMap, cursor>>

\* begin(): the id in the payload, 0 if it has none, is the transaction's.
TakesBegin(t, answer) ==
    /\ op[t] = "begin"
    /\ txnMap' = [txnMap EXCEPT ![t] = answer.txn]
    /\ Issues(t, "write")
    /\ UNCHANGED cursor

\* A write in a transaction is followed by the end of its block, with an
\* exception of the application or without.
TakesWrite(t) ==
    /\ op[t] = "write"
    /\ IF t \in Txs THEN \E next \in {"commit", "rollback"} : Issues(t, next)
                    ELSE Ends(t, "done")
    /\ UNCHANGED <<txnMap, cursor>>

TakesEnd(t) ==
    /\ op[t] \in {"commit", "rollback"}
    /\ Ends(t, "done")
    /\ UNCHANGED <<txnMap, cursor>>

TakesOnePage(t, answer) ==
    /\ op[t] \in {"find", "fetch"}
    /\ cursor' = [cursor EXCEPT ![t] = answer.cursor]
    /\ Ends(t, "done")
    /\ UNCHANGED txnMap

\* stream_query: without a cursor id the stream is over.  Otherwise the consumer
\* asks for more, or leaves the loop: the cursor is then forgotten.
TakesPage(t, answer) ==
    /\ op[t] \in {"find", "fetch"}
    /\ cursor' = [cursor EXCEPT ![t] = answer.cursor]
    /\ \/ answer.cursor = 0 /\ Ends(t, "done")
       \/ answer.cursor # 0 /\ Issues(t, "fetch")
       \/ answer.cursor # 0 /\ Ends(t, "left")
    /\ UNCHANGED txnMap

\* The answers to commit and rollback may have no payload, which the callers
\* that read one do not expect.
Blank(answer) == answer.to.op \in {"commit", "rollback"}

\* The rest of the answer, whose request id is decoded and not compared.
ReadRest(t) ==
    /\ pc[t] = "reading" /\ answers # <<>>
    /\ answers' = Tail(answers)
    /\ holder' = NoTask
    /\ LET answer == Head(answers)
       IN  \/ /\ answer.fine
              /\ TakesBegin(t, answer) \/ TakesWrite(t) \/ TakesEnd(t) \/ TakesPage(t, answer)
           \/ /\ ~answer.fine \/ (Blank(answer) /\ op[t] \in {"write", "find", "fetch"})
              /\ Raises(t, "failed")
              /\ UNCHANGED <<txnMap, cursor>>
    /\ UNCHANGED <<linkVars, queue, request, cancelledIn, requests, torn, unread, serverVars>>

ReadFailsKeepingLock(t) ==
    /\ pc[t] \in {"sent", "reading"} /\ socket = "closed" /\ answers = <<>>
    /\ Raises(t, "failed")
    /\ UNCHANGED <<linkVars, lockVars, request, txnMap, cursor, cancelledIn, wireVars,
                   serverVars>>

\* IncompleteReadError, or ConnectionResetError from drain().
ReadFails(t) ==
    /\ pc[t] \in {"sent", "reading"} /\ socket = "closed" /\ answers = <<>>
    /\ holder' = NoTask
    /\ Raises(t, "failed")
    /\ UNCHANGED <<linkVars, queue, request, txnMap, cursor, cancelledIn, wireVars, serverVars>>

\* The caller's timeout or cancellation.  The lock is released; a frame that was
\* written stays written and its answer will come.
Cancel(t) ==
    /\ cancelledIn[t] = "none"
    /\ cancelledIn' = [cancelledIn EXCEPT ![t] = op[t]]
    /\ \/ /\ pc[t] = "queued"
          /\ \E i \in 1 .. Len(queue) : queue[i] = t /\ queue' = RemoveAt(queue, i)
          /\ UNCHANGED <<holder, torn, unread>>
       \/ /\ pc[t] \in {"sent", "reading"}
          /\ holder' = NoTask
          /\ torn' = (torn \/ (pc[t] = "reading" /\ answers # <<>>))
          /\ unread' = unread \cup {request[t]}
          /\ UNCHANGED queue
    /\ Raises(t, "cancelled")
    /\ UNCHANGED <<linkVars, request, txnMap, cursor, requests, answers, serverVars>>

-----------------------------------------------------------------------------
(* The connection.                                                            *)

\* Some of what was on its way does not arrive.
Drops ==
    /\ socket' = "closed"
    /\ \E n \in 0 .. Len(requests) : requests' = SubSeq(requests, 1, n)

Close ==
    /\ connected
    /\ connected' = FALSE
    /\ Drops
    /\ answers' = <<>> /\ torn' = FALSE
    /\ UNCHANGED <<lockVars, taskVars, unread, serverVars>>

\* The backend keeps its writer and never notices.
ConnectionLost ==
    /\ socket = "open"
    /\ Drops
    /\ \E n \in 0 .. Len(answers) : answers' = SubSeq(answers, 1, n)
    /\ torn' = (torn /\ answers' # <<>>)
    /\ UNCHANGED <<connected, lockVars, taskVars, unread, serverVars>>

-----------------------------------------------------------------------------
(* The server, as far as the backend relies on it.                            *)

Known(tx) == \E x \in open : x.id = tx

Replies(frame, fine, txn, page) ==
    answers' = IF socket = "open"
               THEN Append(answers, [to |-> frame, fine |-> fine, txn |-> txn, cursor |-> page])
               ELSE answers

\* A statement may fail; the end of a transaction that is open does not, but for
\* the conflict of ServeEnd.
Refuses(frame) ==
    /\ frame.op \in {"commit", "rollback"} => ~Known(frame.tx)
    /\ Replies(frame, FALSE, 0, 0)
    /\ UNCHANGED <<open, staged, applied, cursors, serial>>

ServeBegin(frame) ==
    /\ frame.op = "begin"
    /\ serial' = serial + 1
    /\ open' = open \cup {[id |-> serial + 1, by |-> frame.by]}
    /\ Replies(frame, TRUE, serial + 1, 0)
    /\ UNCHANGED <<staged, applied, cursors>>

ServeWrite(frame) ==
    /\ frame.op = "write"
    /\ \/ frame.tx = 0 /\ applied' = applied \cup {frame.by} /\ UNCHANGED staged
       \/ Known(frame.tx) /\ staged' = staged \cup {<<frame.by, frame.tx>>} /\ UNCHANGED applied
    /\ Replies(frame, TRUE, 0, 0)
    /\ UNCHANGED <<open, cursors, serial>>

\* A commit may meet a conflict, which ends the transaction as well.
ServeEnd(frame) ==
    /\ frame.op \in {"commit", "rollback"} /\ Known(frame.tx)
    /\ open' = {x \in open : x.id # frame.tx}
    /\ staged' = {w \in staged : w[2] # frame.tx}
    /\ \/ /\ frame.op = "commit"
          /\ applied' = applied \cup {w[1] : w \in {v \in staged : v[2] = frame.tx}}
          /\ Replies(frame, TRUE, 0, 0)
       \/ /\ UNCHANGED applied
          /\ Replies(frame, frame.op = "rollback", 0, 0)
    /\ UNCHANGED <<cursors, serial>>

\* The first page of a result; a cursor is opened if there are more.
ServeFind(frame) ==
    /\ frame.op = "find"
    /\ \/ /\ Replies(frame, TRUE, 0, 0)
          /\ UNCHANGED <<cursors, serial>>
       \/ \E left \in 1 .. Pages - 1 :
             /\ serial' = serial + 1
             /\ cursors' = cursors \cup {[id |-> serial + 1, by |-> frame.by, left |-> left]}
             /\ Replies(frame, TRUE, 0, serial + 1)
    /\ UNCHANGED <<open, staged, applied>>

\* The next page; the last one closes the cursor.
ServeFetch(frame) ==
    /\ frame.op = "fetch"
    /\ \E c \in cursors :
          /\ c.id = frame.cursor
          /\ cursors' = (cursors \ {c})
                            \cup (IF c.left = 1 THEN {} ELSE {[c EXCEPT !.left = @ - 1]})
          /\ Replies(frame, TRUE, 0, IF c.left = 1 THEN 0 ELSE c.id)
    /\ UNCHANGED <<open, staged, applied, serial>>

Serve ==
    /\ requests # <<>>
    /\ requests' = Tail(requests)
    /\ LET frame == Head(requests)
       IN  \/ Refuses(frame)
           \/ ServeBegin(frame)
           \/ ServeWrite(frame)
           \/ ServeEnd(frame)
           \/ ServeFind(frame)
           \/ ServeFetch(frame)
    /\ UNCHANGED <<linkVars, lockVars, taskVars, torn, unread>>

\* A connection that is gone takes its transactions and cursors with it.
ServerForgets ==
    /\ socket = "closed" /\ requests = <<>>
    /\ open # {} \/ cursors # {}
    /\ open' = {} /\ staged' = {} /\ cursors' = {}
    /\ UNCHANGED <<linkVars, lockVars, taskVars, wireVars, applied, serial>>

-----------------------------------------------------------------------------
Advances(t) ==
    \/ Call(t) \/ TakeLock(t)
    \/ ReadHeader(t) \/ ReadRest(t) \/ ReadFails(t) \/ ReadGarbage(t)

Next ==
    \/ \E t \in Tasks : Advances(t) \/ Cancel(t)
    \/ Close \/ ConnectionLost \/ Serve \/ ServerForgets

Spec == Init /\ [][Next]_vars

\* The event loop runs every task that can go on, and the server answers: no
\* timer of the backend covers for one that does not.
Fairness ==
    /\ WF_vars(Serve)
    /\ \A t \in Tasks : WF_vars(Advances(t))

FairSpec == Spec /\ Fairness

-----------------------------------------------------------------------------
(* Properties.                                                                *)

InFlight == [i \in DOMAIN answers |-> answers[i].to] \o requests

\* Whoever waits for an answer holds the lock, and his request is the last in
\* flight on a live connection.  What is in flight before it is no more than the
\* requests left unread by tasks that were cancelled or read garbage: without such
\* a task an answer is always its reader's own.
StreamInStep ==
    /\ \A t \in Tasks : pc[t] \in {"sent", "reading"} <=> holder = t
    /\ socket = "open" =>
          IF holder = NoTask
          THEN Len(InFlight) <= Cardinality(unread)
          ELSE /\ InFlight # <<>> /\ Last(InFlight) = request[holder]
               /\ Len(InFlight) <= Cardinality(unread) + 1

\* What a transaction writes is committed by its own commit and by nothing else
\* (docs/AURADB.md, "Transactions"), as long as no answer was left unread.
CommittedByCommit ==
    unread = {} => \A t \in Txs \cap applied : op[t] = "commit"

\* The promise itself.
UncommittedStaysInvisible ==
    \A t \in Txs \cap applied : op[t] = "commit"

\* The task of t has ended and the server has seen all its requests.
Settled(t) ==
    /\ pc[t] = "ended" /\ socket = "open"
    /\ \A i \in DOMAIN requests : requests[i].by # t

\* A transaction of the server outlives its task only if the task was cancelled
\* while it began or ended it, or if another task has put the stream out of step.
TransactionsEnded ==
    \A x \in open : Settled(x.by) =>
        \/ cancelledIn[x.by] \in {"begin", "commit", "rollback"}
        \/ \E frame \in unread : frame.by # x.by

\* A stream that came to its end has read every page, as long as no answer was
\* left unread.
StreamsReadToTheEnd ==
    \A t \in Streams :
        outcome[t] = "done" /\ unread = {} => \A c \in cursors : c.by # t

\* Every task ends, whoever is cancelled and whenever the connection goes, unless
\* a header was read without its payload: the next reader may then wait, with the
\* lock, for bytes that do not come.
TasksEnd == (\A t \in Tasks : <>(pc[t] = "ended")) \/ <>torn
=============================================================================

--------------------------- MODULE LeaderRedirect ----------------------------
(* Client, LeaderRedirect and Transaction (client.py) against a cluster of    *)
(* which one node at a time accepts writes.  Several redirected operations    *)
(* and one transaction share a client, and so share the one backend it        *)
(* points at; a redirect swaps that backend in place.                         *)
(*                                                                            *)
(* A single write is an operation of one request, a bulk insert one of        *)
(* BulkChunks requests (_bulk_insert).  ProtocolBackend._request sends a      *)
(* request up to MaxAttempts times over its backend; what one attempt does to *)
(* the connection is the subject of module Transport.  The cluster is         *)
(* external: a node that is not the leader rejects a write before it has any  *)
(* effect and says which node it believes is the leader; the leader carries   *)
(* out every attempt that reaches it, having no means to tell a repeated one. *)
EXTENDS Naturals

CONSTANTS Singles,       \* operations of one request: insert, upsert, raw, run
          Bulks,         \* bulk_insert operations
          BulkChunks,    \* ceil(rows / batch_size) of a bulk insert
          Nodes,
          MaxRedirects,  \* LeaderRedirect._max_redirects
          MaxAttempts,   \* RetryPolicy.max_attempts
          MaxBackends,   \* bound: backend objects ever built
          MaxElections,  \* bound: changes of leader
          MaxTimeouts    \* bound: attempts that are given up and repeated

ASSUME ChunksAssumption == BulkChunks \in Nat \ {0}
ASSUME RedirectsAssumption == MaxRedirects \in Nat
ASSUME AttemptsAssumption == MaxAttempts \in Nat \ {0}
ASSUME BackendsAssumption == MaxBackends \in Nat \ {0}
ASSUME ElectionsAssumption == MaxElections \in Nat
ASSUME TimeoutsAssumption == MaxTimeouts \in Nat
ASSUME OpsAssumption == Singles \cap Bulks = {}

Ops == Singles \cup Bulks
Chunks == 1 .. BulkChunks
Backends == 1 .. MaxBackends
LastChunk(o) == IF o \in Bulks THEN BulkChunks ELSE 1

VARIABLES
    current,    \* Client._backend
    built,      \* backends built so far
    target,     \* target[b]: the node backend b was built for
    conn,       \* conn[b]: state of backend b's transport
    closed,     \* Client._closed
    pc,         \* pc[o]: where operation o is suspended
    left,       \* left[o]: redirects_left
    chunk,      \* chunk[o]: the request of o in flight
    attempt,    \* attempt[o]: which attempt at that request it is
    via,        \* via[o]: the backend the request is sent through
    flight,     \* flight[o]: what has become of that attempt, if it was sent
    fresh,      \* fresh[o]: the backend a redirect of o is connecting
    stale,      \* stale[o]: the backend that redirect replaced
    outcome,    \* outcome[o]: how o ended for its caller
    leader,     \* the node that accepts writes
    elections,  \* changes of leader so far
    timeouts,   \* attempts given up and repeated so far
    applied,    \* applied[o][k]: times the cluster applies request k of o
    repeated,   \* repeated[o]: attempts of o given up, after they may have been
                \*   applied, and followed by another attempt
    tx,         \* the transaction: none, active or over
    txNodes     \* the nodes its begin, its statements and its end were sent to

clientVars  == <<current, built, target, conn, closed>>
sendVars    == <<chunk, attempt, via, flight>>
opVars      == <<pc, left, sendVars, fresh, stale, outcome, repeated>>
clusterVars == <<leader, elections, timeouts, applied>>
txVars      == <<tx, txNodes>>
vars == <<clientVars, opVars, clusterVars, txVars>>

TypeOK ==
    /\ current \in Backends
    /\ built \in Backends
    /\ target \in [Backends -> Nodes]
    /\ conn \in [Backends -> {"none", "dialing", "open", "closed", "failed"}]
    /\ closed \in BOOLEAN
    /\ pc \in [Ops -> {"idle", "inflight", "dialing", "handshaking", "swapping",
                       "abandoning", "done"}]
    /\ left \in [Ops -> 0 .. MaxRedirects]
    /\ chunk \in [Ops -> Chunks]
    /\ attempt \in [Ops -> 1 .. MaxAttempts]
    /\ via \in [Ops -> Backends]
    /\ flight \in [Ops -> {"none", "sent", "applied", "rejected"}]
    /\ fresh \in [Ops -> Backends]
    /\ stale \in [Ops -> Backends]
    /\ outcome \in [Ops -> {"none", "ok", "not_leader", "error", "closed"}]
    /\ leader \in Nodes
    /\ elections \in 0 .. MaxElections
    /\ timeouts \in 0 .. MaxTimeouts
    /\ applied \in [Ops -> [Chunks -> Nat]]
    /\ repeated \in [Ops -> Nat]
    /\ tx \in {"none", "active", "over"}
    /\ txNodes \in SUBSET Nodes

\* A client that Client._open has connected to some node, the leader or not.
Init ==
    /\ current = 1
    /\ built = 1
    /\ target \in [Backends -> Nodes]
    /\ \A b \in Backends \ {1} : target[b] = target[1]
    /\ conn = [b \in Backends |-> IF b = 1 THEN "open" ELSE "none"]
    /\ closed = FALSE
    /\ pc = [o \in Ops |-> "idle"]
    /\ left = [o \in Ops |-> MaxRedirects]
    /\ chunk = [o \in Ops |-> 1]
    /\ attempt = [o \in Ops |-> 1]
    /\ via = [o \in Ops |-> 1]
    /\ flight = [o \in Ops |-> "none"]
    /\ fresh = [o \in Ops |-> 1]
    /\ stale = [o \in Ops |-> 1]
    /\ outcome = [o \in Ops |-> "none"]
    /\ leader \in Nodes
    /\ elections = 0
    /\ timeouts = 0
    /\ applied = [o \in Ops |-> [k \in Chunks |-> 0]]
    /\ repeated = [o \in Ops |-> 0]
    /\ tx = "none"
    /\ txNodes = {}

-----------------------------------------------------------------------------
(* LeaderRedirect.run: one operation, redirected.                             *)

\* The call of the operation that sends its requests returns or raises: what it
\* kept of them is gone.
Unwind(o) ==
    /\ chunk' = [chunk EXCEPT ![o] = 1]
    /\ attempt' = [attempt EXCEPT ![o] = 1]
    /\ via' = [via EXCEPT ![o] = 1]
    /\ flight' = [flight EXCEPT ![o] = "none"]

\* run() returns or raises.
End(o, how) ==
    /\ pc' = [pc EXCEPT ![o] = "done"]
    /\ outcome' = [outcome EXCEPT ![o] = how]
    /\ Unwind(o)
    /\ left' = [left EXCEPT ![o] = 0]
    /\ fresh' = [fresh EXCEPT ![o] = 1]
    /\ stale' = [stale EXCEPT ![o] = 1]

\* An attempt at request k of o over backend b, which fails at once unless the
\* backend is connected.
Send(o, k, b, n) ==
    /\ pc' = [pc EXCEPT ![o] = "inflight"]
    /\ chunk' = [chunk EXCEPT ![o] = k]
    /\ attempt' = [attempt EXCEPT ![o] = n]
    /\ via' = [via EXCEPT ![o] = b]
    /\ flight' = [flight EXCEPT ![o] = IF conn[b] = "open" THEN "sent" ELSE "none"]

\* _execute for request k of operation o: refused on a closed client, else sent
\* through whatever backend the client points at now.
SendOrRefuse(o, k) ==
    IF closed
    THEN End(o, "closed")
    ELSE Send(o, k, current, 1) /\ UNCHANGED <<left, fresh, stale, outcome>>

Issue(o, k) ==
    /\ SendOrRefuse(o, k)
    /\ UNCHANGED <<clientVars, repeated, clusterVars, txVars>>

Start(o) == pc[o] = "idle" /\ Issue(o, 1)

\* The answer to request chunk[o] has come, possibly just before the backend
\* was closed: the next request, or the end.
Acknowledged(o) ==
    /\ pc[o] = "inflight" /\ flight[o] = "applied"
    /\ \/ /\ chunk[o] < LastChunk(o)
          /\ Issue(o, chunk[o] + 1)
       \/ /\ chunk[o] = LastChunk(o)
          /\ End(o, "ok")
          /\ UNCHANGED <<clientVars, repeated, clusterVars, txVars>>

\* not_leader without a usable address, with the budget spent, or with an
\* address that _resolve_redirect_target refuses: the error propagates.
NotRedirected(o) ==
    /\ pc[o] = "inflight" /\ flight[o] = "rejected"
    /\ End(o, "not_leader")
    /\ UNCHANGED <<clientVars, repeated, clusterVars, txVars>>

RedirectUnguarded(o, hint) ==
    /\ pc[o] = "inflight" /\ flight[o] = "rejected"
    /\ hint # target[via[o]]
    /\ built < MaxBackends
    /\ left' = [left EXCEPT ![o] = @ - 1]
    /\ built' = built + 1
    /\ target' = [target EXCEPT ![built + 1] = hint]
    /\ conn' = [conn EXCEPT ![built + 1] = "dialing"]
    /\ current' = built + 1
    /\ fresh' = [fresh EXCEPT ![o] = built + 1]
    /\ stale' = [stale EXCEPT ![o] = current]
    /\ pc' = [pc EXCEPT ![o] = "dialing"]
    /\ Unwind(o)
    /\ UNCHANGED <<closed, outcome, repeated, clusterVars, txVars>>

\* not_leader with an address and budget left: _reconnect_backend_to builds a
\* backend for it and points the client there before it is connected.
Redirect(o, hint) ==
    /\ pc[o] = "inflight" /\ flight[o] = "rejected"
    /\ hint # target[via[o]]
    /\ left[o] > 0
    /\ left' = [left EXCEPT ![o] = @ - 1]
    /\ built < MaxBackends
    /\ built' = built + 1
    /\ target' = [target EXCEPT ![built + 1] = hint]
    /\ conn' = [conn EXCEPT ![built + 1] = "dialing"]
    /\ current' = built + 1
    /\ fresh' = [fresh EXCEPT ![o] = built + 1]
    /\ stale' = [stale EXCEPT ![o] = current]
    /\ pc' = [pc EXCEPT ![o] = "dialing"]
    /\ Unwind(o)
    /\ UNCHANGED <<closed, outcome, repeated, clusterVars, txVars>>

\* The attempt in flight is given up.  If it was sent and has not been processed
\* it may be carried out later, when nobody waits for it: that is decided, and
\* counted, here, as no step depends on when it happens.
GiveUp(o) ==
    \/ UNCHANGED applied
    \/ flight[o] = "sent" /\ applied' = [applied EXCEPT ![o][chunk[o]] = @ + 1]

\* _request: a timeout or a lost connection, whatever became of the request, is
\* followed by another attempt at the same request over the same backend.
Retry(o) ==
    /\ pc[o] = "inflight"
    /\ attempt[o] < MaxAttempts
    /\ timeouts < MaxTimeouts
    /\ timeouts' = timeouts + 1
    /\ GiveUp(o)
    /\ repeated' = [repeated EXCEPT ![o] = IF flight[o] \in {"sent", "applied"}
                                           THEN @ + 1 ELSE @]
    /\ Send(o, chunk[o], via[o], attempt[o] + 1)
    /\ UNCHANGED <<clientVars, left, fresh, stale, outcome, leader, elections, txVars>>

RequestFailsRerun(o) ==
    /\ pc[o] = "inflight"
    /\ left[o] > 0
    /\ left' = [left EXCEPT ![o] = @ - 1]
    /\ GiveUp(o)
    /\ Send(o, 1, current, 1)
    /\ UNCHANGED <<clientVars, fresh, stale, outcome, repeated, leader, elections, timeouts,
                   txVars>>

\* The last attempt timed out or lost its connection (by another operation's
\* redirect, or by close()), the backend was never connected, or the server
\* answered with another error: one that is not not_leader propagates.
RequestFails(o) ==
    /\ pc[o] = "inflight"
    /\ GiveUp(o)
    /\ End(o, "error")
    /\ UNCHANGED <<clientVars, repeated, leader, elections, timeouts, txVars>>

\* new_backend.connect(): the socket, then the handshake and the schema.
Dialed(o) ==
    /\ pc[o] = "dialing"
    /\ \/ /\ conn' = [conn EXCEPT ![fresh[o]] = "open"]
          /\ pc' = [pc EXCEPT ![o] = "handshaking"]
       \/ /\ conn' = [conn EXCEPT ![fresh[o]] = "failed"]
          /\ pc' = [pc EXCEPT ![o] = "abandoning"]
    /\ UNCHANGED <<current, built, target, closed, left, sendVars, fresh, stale, outcome,
                   repeated, clusterVars, txVars>>

\* The handshake needs a transport nobody has closed; it or create_schema may
\* also be refused, and then the new backend stays as it is.
HandshakeDone(o) ==
    /\ pc[o] = "handshaking"
    /\ \/ conn[fresh[o]] = "open" /\ pc' = [pc EXCEPT ![o] = "swapping"]
       \/ pc' = [pc EXCEPT ![o] = "abandoning"]
    /\ UNCHANGED <<clientVars, left, sendVars, fresh, stale, outcome, repeated,
                   clusterVars, txVars>>

\* close() of a backend ends an open transport; it does not reach one whose
\* connection is still being set up.
CloseBackend(b) ==
    conn' = [conn EXCEPT ![b] = IF @ = "open" THEN "closed" ELSE @]

SwapDoneSkipping(o) ==
    /\ pc[o] = "swapping"
    /\ CloseBackend(stale[o])
    /\ SendOrRefuse(o, LastChunk(o))
    /\ UNCHANGED <<current, built, target, closed, repeated, clusterVars, txVars>>

\* The finally clause closes the backend that was replaced; after a success the
\* operation runs again from its start, otherwise the error propagates.
SwapDone(o) ==
    /\ pc[o] = "swapping"
    /\ CloseBackend(stale[o])
    /\ SendOrRefuse(o, 1)
    /\ UNCHANGED <<current, built, target, closed, repeated, clusterVars, txVars>>

SwapFailedClosingNew(o) ==
    /\ pc[o] = "abandoning"
    /\ CloseBackend(fresh[o])
    /\ End(o, "error")
    /\ UNCHANGED <<current, built, target, closed, repeated, clusterVars, txVars>>

SwapFailedRedialing(o) ==
    /\ pc[o] = "abandoning"
    /\ conn' = [conn EXCEPT ![fresh[o]] = "dialing"]
    /\ pc' = [pc EXCEPT ![o] = "dialing"]
    /\ UNCHANGED <<current, built, target, closed, left, sendVars, fresh, stale, outcome,
                   repeated, clusterVars, txVars>>

SwapFailed(o) ==
    /\ pc[o] = "abandoning"
    /\ CloseBackend(stale[o])
    /\ End(o, "error")
    /\ UNCHANGED <<current, built, target, closed, repeated, clusterVars, txVars>>

Continues(o) ==
    \/ Acknowledged(o) \/ NotRedirected(o)
    \/ \E n \in Nodes : Redirect(o, n)
    \/ Retry(o) \/ RequestFails(o) \/ Dialed(o) \/ HandshakeDone(o)
    \/ SwapDone(o) \/ SwapFailed(o)

Operation(o) == Start(o) \/ Continues(o)

-----------------------------------------------------------------------------
(* The rest of the client.                                                    *)

CloseClient ==
    /\ ~closed
    /\ closed' = TRUE
    /\ CloseBackend(current)
    /\ UNCHANGED <<current, built, target, opVars, clusterVars, txVars>>

\* Transaction.begin; the transaction keeps the client, not the backend.
TxBegin ==
    /\ tx = "none" /\ ~closed
    /\ tx' = "active"
    /\ txNodes' = {target[current]}
    /\ UNCHANGED <<clientVars, opVars, clusterVars>>

\* A statement of the transaction (insert, query, ...) under its id.
TxStatement ==
    /\ tx = "active" /\ ~closed
    /\ txNodes' = txNodes \cup {target[current]}
    /\ UNCHANGED <<tx, clientVars, opVars, clusterVars>>

\* commit() or rollback(), which do not look at Client._closed.
TxEnd ==
    /\ tx = "active"
    /\ txNodes' = txNodes \cup {target[current]}
    /\ tx' = "over"
    /\ UNCHANGED <<clientVars, opVars, clusterVars>>

-----------------------------------------------------------------------------
(* The cluster.                                                               *)

LeaderApplies(o) ==
    /\ pc[o] = "inflight" /\ flight[o] = "sent"
    /\ conn[via[o]] = "open" /\ target[via[o]] = leader
    /\ flight' = [flight EXCEPT ![o] = "applied"]
    /\ applied' = [applied EXCEPT ![o][chunk[o]] = @ + 1]
    /\ UNCHANGED <<clientVars, pc, left, chunk, attempt, via, fresh, stale, outcome, repeated,
                   leader, elections, timeouts,
                   txVars>>

FollowerRejects(o) ==
    /\ pc[o] = "inflight" /\ flight[o] = "sent"
    /\ conn[via[o]] = "open" /\ target[via[o]] # leader
    /\ flight' = [flight EXCEPT ![o] = "rejected"]
    /\ UNCHANGED <<clientVars, pc, left, chunk, attempt, via, fresh, stale, outcome, repeated,
                   clusterVars, txVars>>

Elect(n) ==
    /\ n # leader /\ elections < MaxElections
    /\ leader' = n
    /\ elections' = elections + 1
    /\ UNCHANGED <<clientVars, opVars, timeouts, applied, txVars>>

Cluster ==
    \/ \E o \in Ops : LeaderApplies(o) \/ FollowerRejects(o)
    \/ \E n \in Nodes : Elect(n)

-----------------------------------------------------------------------------
Next ==
    \/ \E o \in Ops : Operation(o)
    \/ CloseClient \/ TxBegin \/ TxStatement \/ TxEnd
    \/ Cluster

Spec == Init /\ [][Next]_vars

\* Every await of an operation ends: a request is answered or times out, a
\* connection attempt succeeds or times out, and close() returns.
Fairness == \A o \in Ops : WF_vars(Continues(o))

FairSpec == Spec /\ Fairness

-----------------------------------------------------------------------------
(* Properties.                                                                *)

\* "Retrying the write on the leader cannot double-apply it": what is true of it
\* for an operation of one request.  A redirect, however many of them swap and
\* close the backend under the operation, adds no application: the write is, and
\* will be, applied once and once more for every attempt that _request gave up
\* unanswered and repeated.
RedirectAddsNoWrite ==
    \A o \in Singles : applied[o][1] <= 1 + repeated[o]

\* An operation that reports success had every one of its requests applied; a
\* redirect in the middle of a bulk insert loses none of them.
SuccessMeansApplied ==
    \A o \in Ops : outcome[o] = "ok" => \A k \in 1 .. LastChunk(o) : applied[o][k] >= 1

\* A single write that ends with not_leader was without effect and will remain
\* so, except for the attempts that were given up unanswered and repeated before
\* the rejection: with none of those its caller may repeat the write.
NotLeaderAddsNoWrite ==
    \A o \in Singles :
        outcome[o] = "not_leader" => applied[o][1] <= repeated[o]

\* The backend the client points at is never one that a redirect has closed:
\* only close() of the client, or a failed connection, leaves it without one.
CurrentNotClosedByRedirect ==
    ~closed => conn[current] # "closed"

\* Redirects are bounded: an operation ends however often leadership moves and
\* whatever the followers say.
OperationEnds == <>[](\A o \in Ops : pc[o] \in {"idle", "done"})

\* The promise of a single write, for a bulk_insert whose requests are sent once.
BulkAppliedOnce == \A o \in Bulks : \A k \in Chunks : applied[o][k] <= 1

\* docs/TRANSACTIONS.md, rule 1: an open transaction is never re-pointed at
\* another node.
TransactionStaysOnItsNode == \A m, n \in txNodes : m = n
=============================================================================

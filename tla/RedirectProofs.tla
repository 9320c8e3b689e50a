--------------------------- MODULE RedirectProofs ----------------------------
(* Proofs about module LeaderRedirect for any operations, nodes, budget of    *)
(* redirects and number of elections.  Three inductive invariants: the types, *)
(* what each operation has had applied, and where the client points.          *)
EXTENDS LeaderRedirect, TLAPS

LEMMA ChunkTypes ==
    /\ 1 \in Chunks /\ BulkChunks \in Nat
    /\ \A o \in Ops : LastChunk(o) \in Chunks /\ LastChunk(o) \in Nat
    /\ \A o \in Singles : LastChunk(o) = 1
<1>1. BulkChunks \in Nat /\ 1 \in Chunks /\ BulkChunks \in Chunks
    BY ChunksAssumption DEF Chunks
<1>2. \A o \in Ops : LastChunk(o) = 1 \/ LastChunk(o) = BulkChunks
    BY DEF LastChunk
<1>3. \A o \in Ops : LastChunk(o) \in Chunks /\ LastChunk(o) \in Nat
    BY <1>1, <1>2
<1>4. \A o \in Singles : LastChunk(o) = 1
    BY OpsAssumption DEF LastChunk
<1> QED BY <1>1, <1>3, <1>4

-----------------------------------------------------------------------------
(* Types.                                                                     *)

LEMMA SendTypes ==
    ASSUME TypeOK, NEW o \in Ops, NEW k \in Chunks, NEW b \in Backends,
           NEW n \in 1 .. MaxAttempts, Send(o, k, b, n)
    PROVE  /\ pc' \in [Ops -> {"idle", "inflight", "dialing", "handshaking", "swapping",
                               "abandoning", "done"}]
           /\ chunk' \in [Ops -> Chunks] /\ attempt' \in [Ops -> 1 .. MaxAttempts]
           /\ via' \in [Ops -> Backends]
           /\ flight' \in [Ops -> {"none", "sent", "applied", "rejected"}]
BY DEF Send, TypeOK

LEMMA UnwindTypes ==
    ASSUME TypeOK, NEW o \in Ops, Unwind(o)
    PROVE  /\ chunk' \in [Ops -> Chunks] /\ attempt' \in [Ops -> 1 .. MaxAttempts]
           /\ via' \in [Ops -> Backends]
           /\ flight' \in [Ops -> {"none", "sent", "applied", "rejected"}]
<1>1. 1 \in Chunks /\ 1 \in 1 .. MaxAttempts /\ 1 \in Backends
    BY ChunkTypes, AttemptsAssumption, BackendsAssumption DEF Backends
<1> QED BY <1>1 DEF Unwind, TypeOK

LEMMA GiveUpTypes ==
    ASSUME TypeOK, NEW o \in Ops, GiveUp(o)
    PROVE  applied' \in [Ops -> [Chunks -> Nat]]
<1>1. applied \in [Ops -> [Chunks -> Nat]] /\ chunk[o] \in Chunks
    BY DEF TypeOK
<1>2. CASE applied' = [applied EXCEPT ![o][chunk[o]] = @ + 1]
    <2>1. applied[o][chunk[o]] + 1 \in Nat
        BY <1>1
    <2> QED BY <1>1, <1>2, <2>1
<1> QED BY <1>1, <1>2 DEF GiveUp

LEMMA EndTypes ==
    ASSUME TypeOK, NEW o \in Ops, NEW how \in {"ok", "not_leader", "error", "closed"},
           End(o, how), conn' \in [Backends -> {"none", "dialing", "open", "closed", "failed"}],
           applied' \in [Ops -> [Chunks -> Nat]],
           UNCHANGED <<current, built, target, closed, repeated, leader, elections, timeouts,
                       txVars>>
    PROVE  TypeOK'
<1>1. 1 \in Backends /\ 0 \in 0 .. MaxRedirects
    BY BackendsAssumption, RedirectsAssumption DEF Backends
<1>2. /\ chunk' \in [Ops -> Chunks] /\ attempt' \in [Ops -> 1 .. MaxAttempts]
      /\ via' \in [Ops -> Backends]
      /\ flight' \in [Ops -> {"none", "sent", "applied", "rejected"}]
    BY UnwindTypes DEF End
<1>3. /\ left' \in [Ops -> 0 .. MaxRedirects]
      /\ fresh' \in [Ops -> Backends] /\ stale' \in [Ops -> Backends]
    BY <1>1 DEF End, TypeOK
<1> QED BY <1>2, <1>3 DEF End, TypeOK, txVars

\* Request k is sent or refused, perhaps after a backend was closed.
LEMMA SendOrRefuseTypes ==
    ASSUME TypeOK, NEW o \in Ops, NEW k \in Chunks, SendOrRefuse(o, k),
           conn' \in [Backends -> {"none", "dialing", "open", "closed", "failed"}],
           UNCHANGED <<current, built, target, closed, repeated, clusterVars, txVars>>
    PROVE  TypeOK'
<1>1. CASE End(o, "closed")
    BY <1>1, EndTypes DEF TypeOK, clusterVars
<1>2. CASE Send(o, k, current, 1) /\ UNCHANGED <<left, fresh, stale, outcome>>
    <2>1. 1 \in 1 .. MaxAttempts /\ current \in Backends
        BY AttemptsAssumption DEF TypeOK
    <2> QED BY <1>2, <2>1, SendTypes DEF TypeOK, clusterVars, txVars
<1> QED BY <1>1, <1>2 DEF SendOrRefuse

LEMMA IssueTypes ==
    ASSUME TypeOK, NEW o \in Ops, NEW k \in Chunks, Issue(o, k)
    PROVE  TypeOK'
BY SendOrRefuseTypes DEF Issue, clientVars, TypeOK

LEMMA RetryTypes ==
    ASSUME TypeOK, NEW o \in Ops, Retry(o)
    PROVE  TypeOK'
<1>1. /\ chunk[o] \in Chunks /\ via[o] \in Backends /\ attempt[o] + 1 \in 1 .. MaxAttempts
    BY AttemptsAssumption DEF Retry, TypeOK
<1>2. /\ repeated' \in [Ops -> Nat] /\ timeouts' \in 0 .. MaxTimeouts
    BY TimeoutsAssumption DEF Retry, TypeOK
<1>3. applied' \in [Ops -> [Chunks -> Nat]]
    BY GiveUpTypes DEF Retry
<1> QED BY <1>1, <1>2, <1>3, SendTypes DEF Retry, TypeOK, clientVars, txVars

LEMMA RedirectTypes ==
    ASSUME TypeOK, NEW o \in Ops, NEW hint \in Nodes, Redirect(o, hint)
    PROVE  TypeOK'
<1>1. built + 1 \in Backends
    BY BackendsAssumption DEF Redirect, TypeOK, Backends
<1>2. left' \in [Ops -> 0 .. MaxRedirects]
    BY RedirectsAssumption DEF Redirect, TypeOK
<1>3. Unwind(o)
    BY DEF Redirect
<1> QED BY <1>1, <1>2, <1>3, UnwindTypes DEF Redirect, TypeOK, clusterVars, txVars

LEMMA CloseTypes ==
    ASSUME TypeOK, NEW b \in Backends, CloseBackend(b)
    PROVE  conn' \in [Backends -> {"none", "dialing", "open", "closed", "failed"}]
BY DEF CloseBackend, TypeOK

LEMMA OperationTypes ==
    ASSUME TypeOK, NEW o \in Ops, Operation(o)
    PROVE  TypeOK'
<1>1. CASE Start(o)
    BY <1>1, IssueTypes, ChunkTypes DEF Start
<1>2. CASE Acknowledged(o)
    <2>1. CASE chunk[o] < LastChunk(o) /\ Issue(o, chunk[o] + 1)
        <3>1. chunk[o] + 1 \in Chunks
            BY <2>1, ChunkTypes DEF TypeOK, Chunks
        <3> QED BY <2>1, <3>1, IssueTypes
    <2>2. CASE End(o, "ok") /\ UNCHANGED <<clientVars, repeated, clusterVars, txVars>>
        BY <2>2, EndTypes DEF TypeOK, clientVars, clusterVars
    <2> QED BY <1>2, <2>1, <2>2 DEF Acknowledged
<1>3. CASE NotRedirected(o)
    BY <1>3, EndTypes DEF NotRedirected, TypeOK, clientVars, clusterVars
<1>4. CASE \E n \in Nodes : Redirect(o, n)
    BY <1>4, RedirectTypes
<1>5. CASE Dialed(o)
    BY <1>5 DEF Dialed, TypeOK, sendVars, clusterVars, txVars
<1>6. CASE HandshakeDone(o)
    BY <1>6 DEF HandshakeDone, TypeOK, clientVars, sendVars, clusterVars, txVars
<1>7. CASE SwapDone(o)
    <2>1. conn' \in [Backends -> {"none", "dialing", "open", "closed", "failed"}]
        BY <1>7, CloseTypes DEF SwapDone, TypeOK
    <2>2. 1 \in Chunks
        BY ChunkTypes
    <2> QED BY <1>7, <2>1, <2>2, SendOrRefuseTypes DEF SwapDone
<1>8. CASE SwapFailed(o)
    <2>1. conn' \in [Backends -> {"none", "dialing", "open", "closed", "failed"}]
        BY <1>8, CloseTypes DEF SwapFailed, TypeOK
    <2> QED BY <1>8, <2>1, EndTypes DEF SwapFailed, clusterVars, TypeOK
<1>9. CASE Retry(o)
    BY <1>9, RetryTypes
<1>10. CASE RequestFails(o)
    <2>1. applied' \in [Ops -> [Chunks -> Nat]]
        BY <1>10, GiveUpTypes DEF RequestFails
    <2> QED BY <1>10, <2>1, EndTypes DEF RequestFails, TypeOK, clientVars
<1> QED BY <1>1, <1>2, <1>3, <1>4, <1>5, <1>6, <1>7, <1>8, <1>9, <1>10 DEF Operation, Continues

LEMMA TypeStep ==
    ASSUME TypeOK, [Next]_vars
    PROVE  TypeOK'
<1>1. ASSUME NEW o \in Ops, Operation(o) PROVE TypeOK'
    BY <1>1, OperationTypes
<1>2. CASE CloseClient
    <2>1. conn' \in [Backends -> {"none", "dialing", "open", "closed", "failed"}]
        BY <1>2, CloseTypes DEF CloseClient, TypeOK
    <2> QED BY <1>2, <2>1 DEF CloseClient, TypeOK, opVars, sendVars, clusterVars, txVars
<1>3. CASE TxBegin \/ TxStatement \/ TxEnd
    BY <1>3 DEF TxBegin, TxStatement, TxEnd, TypeOK, clientVars, opVars, sendVars, clusterVars
<1>4. ASSUME NEW o \in Ops, LeaderApplies(o) PROVE TypeOK'
    <2>1. applied' \in [Ops -> [Chunks -> Nat]]
        BY <1>4 DEF LeaderApplies, TypeOK
    <2> QED BY <1>4, <2>1 DEF LeaderApplies, TypeOK, clientVars, txVars
<1>5. ASSUME NEW o \in Ops, FollowerRejects(o) PROVE TypeOK'
    BY <1>5 DEF FollowerRejects, TypeOK, clientVars, clusterVars, txVars
<1>6. ASSUME NEW n \in Nodes, Elect(n) PROVE TypeOK'
    BY <1>6, ElectionsAssumption DEF Elect, TypeOK, clientVars, opVars, sendVars, txVars
<1>7. CASE UNCHANGED vars
    BY <1>7 DEF vars, clientVars, opVars, sendVars, clusterVars, txVars, TypeOK
<1> QED BY <1>1, <1>2, <1>3, <1>4, <1>5, <1>6, <1>7 DEF Next, Cluster

\* The client, its operations and the cluster stay within their types.
THEOREM RedirectTypeOK == Spec => []TypeOK
<1>1. Init => TypeOK
    <2> SUFFICES ASSUME Init PROVE TypeOK
        OBVIOUS
    <2>1. /\ 1 \in Backends /\ MaxRedirects \in 0 .. MaxRedirects /\ 0 \in 0 .. MaxElections
          /\ 1 \in 1 .. MaxAttempts /\ 0 \in 0 .. MaxTimeouts
        BY BackendsAssumption, RedirectsAssumption, ElectionsAssumption, AttemptsAssumption,
           TimeoutsAssumption DEF Backends
    <2>2. 1 \in Chunks
        BY ChunkTypes
    <2>3. /\ conn \in [Backends -> {"none", "dialing", "open", "closed", "failed"}]
          /\ left \in [Ops -> 0 .. MaxRedirects] /\ chunk \in [Ops -> Chunks]
          /\ attempt \in [Ops -> 1 .. MaxAttempts]
          /\ via \in [Ops -> Backends] /\ fresh \in [Ops -> Backends]
          /\ stale \in [Ops -> Backends]
        BY <2>1, <2>2 DEF Init
    <2> QED BY <2>1, <2>3 DEF Init, TypeOK
<1>2. TypeOK /\ [Next]_vars => TypeOK'
    BY TypeStep
<1> QED BY <1>1, <1>2, PTL DEF Spec

-----------------------------------------------------------------------------
(* What an operation has had applied.                                         *)

\* An operation without an end has no outcome, and its requests stay within its
\* own.  Those before the one in flight were applied, and that one once it is
\* acknowledged.  The one request of a single write was applied once per repeated
\* attempt, and the one time more only if it is acknowledged or the operation is
\* over, and then it neither redirects nor reports not_leader any more.
OpOK(o) ==
    /\ outcome[o] # "none" => pc[o] = "done"
    /\ chunk[o] <= LastChunk(o)
    /\ pc[o] = "inflight" => \A k \in Chunks : k < chunk[o] => applied[o][k] >= 1
    /\ pc[o] = "inflight" /\ flight[o] = "applied" => applied[o][chunk[o]] >= 1
    /\ outcome[o] = "ok" => \A k \in 1 .. LastChunk(o) : applied[o][k] >= 1
    /\ o \in Singles =>
           /\ applied[o][1] <= 1 + repeated[o]
           /\ \/ applied[o][1] <= repeated[o]
              \/ pc[o] = "inflight" /\ flight[o] = "applied"
              \/ pc[o] = "done" /\ outcome[o] # "not_leader"

OpInv == \A o \in Ops : OpOK(o)

\* A step of one operation, or of the cluster on its request.
LEMMA OneOperation ==
    ASSUME OpInv, NEW o \in Ops, OpOK(o)',
           \A u \in Ops : u # o => /\ pc'[u] = pc[u] /\ chunk'[u] = chunk[u]
                                   /\ flight'[u] = flight[u] /\ outcome'[u] = outcome[u]
                                   /\ applied'[u] = applied[u] /\ repeated'[u] = repeated[u]
    PROVE  OpInv'
<1>1. ASSUME NEW u \in Ops, u # o PROVE OpOK(u)'
    <2>1. OpOK(u)
        BY DEF OpInv
    <2> QED BY <1>1, <2>1 DEF OpOK
<1> QED BY <1>1 DEF OpInv

\* A counter of an operation is a number.
LEMMA Counters ==
    ASSUME TypeOK, NEW o \in Ops
    PROVE  /\ repeated[o] \in Nat /\ chunk[o] \in Chunks
           /\ \A k \in Chunks : applied[o][k] \in Nat
           /\ 1 \in Chunks /\ applied[o][1] \in Nat
BY ChunkTypes DEF TypeOK

\* The operation ends otherwise than with a success it does not have.
LEMMA EndKeepsOp ==
    ASSUME TypeOK, OpInv, NEW o \in Ops, NEW how, End(o, how),
           how = "ok" => \A k \in 1 .. LastChunk(o) : applied[o][k] >= 1,
           how = "not_leader" /\ o \in Singles => applied[o][1] <= repeated[o],
           UNCHANGED <<applied, repeated>>
    PROVE  OpInv'
<1>1. /\ pc'[o] = "done" /\ outcome'[o] = how /\ chunk'[o] = 1
      /\ \A u \in Ops : u # o => /\ pc'[u] = pc[u] /\ outcome'[u] = outcome[u]
                                 /\ chunk'[u] = chunk[u] /\ flight'[u] = flight[u]
    BY DEF End, Unwind, TypeOK
<1>2. OpOK(o) /\ 1 <= LastChunk(o)
    BY ChunkTypes DEF OpInv, Chunks
<1>3. OpOK(o)'
    BY <1>1, <1>2 DEF OpOK
<1> QED BY <1>1, <1>3, OneOperation

\* The request k is sent, or refused on a closed client.
LEMMA SendKeepsOp ==
    ASSUME TypeOK, OpInv, NEW o \in Ops, NEW k \in Chunks, SendOrRefuse(o, k),
           k <= LastChunk(o),
           \A j \in Chunks : j < k => applied[o][j] >= 1,
           o \in Singles => applied[o][1] <= repeated[o],
           outcome[o] = "none", UNCHANGED <<applied, repeated>>
    PROVE  OpInv'
<1>1. CASE End(o, "closed")
    BY <1>1, EndKeepsOp
<1>2. CASE Send(o, k, current, 1) /\ UNCHANGED outcome
    <2>1. /\ pc'[o] = "inflight" /\ chunk'[o] = k /\ flight'[o] \in {"sent", "none"}
          /\ outcome'[o] = "none"
          /\ \A u \in Ops : u # o => /\ pc'[u] = pc[u] /\ chunk'[u] = chunk[u]
                                     /\ flight'[u] = flight[u] /\ outcome'[u] = outcome[u]
        BY <1>2 DEF Send, TypeOK
    <2>2. OpOK(o)'
        BY <2>1, Counters DEF OpOK
    <2> QED BY <2>1, <2>2, OneOperation
<1> QED BY <1>1, <1>2 DEF SendOrRefuse

\* The operation is in a redirect: nothing of it is in flight.
LEMMA MoveKeepsOp ==
    ASSUME TypeOK, OpInv, NEW o \in Ops, NEW to, pc' = [pc EXCEPT ![o] = to],
           to # "inflight", outcome[o] = "none",
           o \in Singles => applied[o][1] <= repeated[o],
           Unwind(o) \/ UNCHANGED sendVars,
           UNCHANGED <<outcome, applied, repeated>>
    PROVE  OpInv'
<1>1. /\ pc'[o] = to /\ chunk'[o] \in {1, chunk[o]}
      /\ \A u \in Ops : u # o => /\ pc'[u] = pc[u] /\ chunk'[u] = chunk[u]
                                 /\ flight'[u] = flight[u]
    BY DEF TypeOK, Unwind, sendVars
<1>2. OpOK(o) /\ 1 <= LastChunk(o)
    BY ChunkTypes DEF OpInv, Chunks
<1>3. OpOK(o)'
    BY <1>1, <1>2, Counters DEF OpOK
<1> QED BY <1>1, <1>3, OneOperation

\* No more than the repeated attempts of a single write were applied while it is
\* not in flight and acknowledged, or over.
LEMMA NotYetApplied ==
    ASSUME TypeOK, OpInv, NEW o \in Ops, pc[o] # "done",
           pc[o] = "inflight" => flight[o] # "applied"
    PROVE  /\ outcome[o] = "none"
           /\ o \in Singles => applied[o][1] <= repeated[o]
<1>1. OpOK(o)
    BY DEF OpInv
<1> QED BY <1>1 DEF OpOK

\* What giving an attempt up does to the operation that goes on or ends.
LEMMA GivenUp ==
    ASSUME TypeOK, OpInv, NEW o \in Ops, pc[o] = "inflight", GiveUp(o)
    PROVE  /\ outcome[o] = "none" /\ applied' \in [Ops -> [Chunks -> Nat]]
           /\ \A u \in Ops : u # o => applied'[u] = applied[u]
           /\ \A k \in Chunks : applied'[o][k] >= applied[o][k]
           /\ o \in Singles => /\ applied'[o][1] <= 1 + repeated[o]
                               /\ flight[o] \in {"none", "rejected"} =>
                                      applied'[o][1] <= repeated[o]
<1>1. OpOK(o) /\ outcome[o] = "none"
    BY DEF OpInv, OpOK
<1>2. applied' \in [Ops -> [Chunks -> Nat]]
    BY GiveUpTypes
<1>3. CASE UNCHANGED applied
    <2>1. \A k \in Chunks : applied'[o][k] >= applied[o][k]
        BY <1>3, Counters
    <2> QED BY <1>1, <1>2, <1>3, <2>1, Counters DEF OpOK
<1>4. CASE flight[o] = "sent" /\ applied' = [applied EXCEPT ![o][chunk[o]] = @ + 1]
    <2>1. \A u \in Ops : u # o => applied'[u] = applied[u]
        BY <1>4 DEF TypeOK
    <2>2. \A k \in Chunks : /\ applied'[o][k] >= applied[o][k]
                            /\ applied'[o][k] <= applied[o][k] + 1
        BY <1>4, Counters DEF TypeOK
    <2>3. o \in Singles => applied[o][1] <= repeated[o]
        BY <1>4, NotYetApplied
    <2> QED BY <1>1, <1>2, <1>4, <2>1, <2>2, <2>3, Counters
<1> QED BY <1>3, <1>4 DEF GiveUp

LEMMA RetryKeepsOp ==
    ASSUME TypeOK, OpInv, NEW o \in Ops, Retry(o)
    PROVE  OpInv'
<1>1. pc[o] = "inflight" /\ GiveUp(o) /\ outcome' = outcome
    BY DEF Retry
<1>2. /\ pc'[o] = "inflight" /\ chunk'[o] = chunk[o] /\ flight'[o] \in {"sent", "none"}
      /\ repeated'[o] = IF flight[o] \in {"sent", "applied"}
                        THEN repeated[o] + 1 ELSE repeated[o]
      /\ \A u \in Ops : u # o => /\ pc'[u] = pc[u] /\ chunk'[u] = chunk[u]
                                 /\ flight'[u] = flight[u] /\ repeated'[u] = repeated[u]
    BY DEF Retry, Send, TypeOK
<1>3. /\ OpOK(o) /\ outcome[o] = "none" /\ applied'[o] \in [Chunks -> Nat]
      /\ \A u \in Ops : u # o => applied'[u] = applied[u]
      /\ \A k \in Chunks : applied'[o][k] >= applied[o][k]
      /\ o \in Singles => /\ applied'[o][1] <= 1 + repeated[o]
                          /\ flight[o] \in {"none", "rejected"} => applied'[o][1] <= repeated[o]
    BY <1>1, GivenUp DEF OpInv
<1>4. o \in Singles => applied'[o][1] <= repeated'[o]
    <2>1. flight[o] \in {"none", "sent", "applied", "rejected"}
        BY DEF TypeOK
    <2> QED BY <1>2, <1>3, <2>1, Counters
<1>5. \A k \in Chunks : k < chunk'[o] => applied'[o][k] >= 1
    BY <1>1, <1>2, <1>3, Counters DEF OpOK
<1>6. repeated'[o] \in Nat /\ applied'[o][1] \in Nat
    BY <1>2, <1>3, Counters
<1>7. OpOK(o)'
    BY <1>1, <1>2, <1>3, <1>4, <1>5, <1>6 DEF OpOK
<1> QED BY <1>1, <1>2, <1>3, <1>7, OneOperation

LEMMA FailureKeepsOp ==
    ASSUME TypeOK, OpInv, NEW o \in Ops, RequestFails(o)
    PROVE  OpInv'
<1>1. pc[o] = "inflight" /\ GiveUp(o) /\ End(o, "error") /\ repeated' = repeated
    BY DEF RequestFails
<1>2. /\ pc'[o] = "done" /\ outcome'[o] = "error" /\ chunk'[o] = 1
      /\ \A u \in Ops : u # o => /\ pc'[u] = pc[u] /\ outcome'[u] = outcome[u]
                                 /\ chunk'[u] = chunk[u] /\ flight'[u] = flight[u]
    BY <1>1 DEF End, Unwind, TypeOK
<1>3. /\ \A u \in Ops : u # o => applied'[u] = applied[u]
      /\ o \in Singles => applied'[o][1] <= 1 + repeated[o]
      /\ 1 <= LastChunk(o)
    BY <1>1, GivenUp, ChunkTypes DEF Chunks
<1>4. OpOK(o)'
    BY <1>1, <1>2, <1>3 DEF OpOK
<1> QED BY <1>1, <1>2, <1>3, <1>4, OneOperation

LEMMA OperationKeepsOp ==
    ASSUME TypeOK, OpInv, NEW o \in Ops, Operation(o)
    PROVE  OpInv'
<1>0. OpOK(o) /\ (\A k \in Chunks : applied[o][k] \in Nat) /\ chunk[o] \in Chunks
    BY DEF OpInv, TypeOK
<1>1. CASE Start(o)
    <2>1. pc[o] = "idle" /\ SendOrRefuse(o, 1) /\ UNCHANGED <<applied, repeated>>
        BY <1>1 DEF Start, Issue, clusterVars
    <2>2. outcome[o] = "none" /\ (o \in Singles => applied[o][1] <= repeated[o])
        BY <2>1, NotYetApplied
    <2>3. 1 \in Chunks /\ 1 <= LastChunk(o) /\ \A j \in Chunks : ~ (j < 1)
        BY ChunkTypes DEF Chunks
    <2> QED BY <2>1, <2>2, <2>3, SendKeepsOp
<1>2. CASE Acknowledged(o)
    <2>1. pc[o] = "inflight" /\ flight[o] = "applied" /\ outcome[o] = "none"
        BY <1>0, <1>2 DEF Acknowledged, OpOK
    <2>2. \A j \in Chunks : j <= chunk[o] => applied[o][j] >= 1
        BY <1>0, <2>1 DEF OpOK, Chunks
    <2>3. CASE chunk[o] < LastChunk(o) /\ Issue(o, chunk[o] + 1)
        <3>1. chunk[o] + 1 \in Chunks /\ chunk[o] + 1 <= LastChunk(o)
            BY <1>0, <2>3, ChunkTypes DEF Chunks
        <3>2. \A j \in Chunks : j < chunk[o] + 1 => applied[o][j] >= 1
            BY <1>0, <2>2 DEF Chunks
        <3>3. o \notin Singles
            BY <1>0, <2>3, ChunkTypes DEF Chunks
        <3>4. SendOrRefuse(o, chunk[o] + 1) /\ UNCHANGED <<applied, repeated>>
            BY <2>3 DEF Issue, clusterVars
        <3> QED BY <2>1, <3>1, <3>2, <3>3, <3>4, SendKeepsOp
    <2>4. CASE /\ chunk[o] = LastChunk(o) /\ End(o, "ok")
               /\ UNCHANGED <<clientVars, repeated, clusterVars, txVars>>
        <3>1. \A k \in 1 .. LastChunk(o) : applied[o][k] >= 1
            BY <1>0, <2>2, <2>4, ChunkTypes DEF Chunks
        <3> QED BY <2>4, <3>1, EndKeepsOp DEF clusterVars
    <2> QED BY <1>2, <2>3, <2>4 DEF Acknowledged
<1>3. CASE NotRedirected(o)
    <2>1. pc[o] = "inflight" /\ flight[o] = "rejected" /\ End(o, "not_leader")
          /\ UNCHANGED <<applied, repeated>>
        BY <1>3 DEF NotRedirected, clusterVars
    <2>2. o \in Singles => applied[o][1] <= repeated[o]
        BY <2>1, NotYetApplied
    <2> QED BY <2>1, <2>2, EndKeepsOp
<1>4. CASE Retry(o) \/ RequestFails(o)
    BY <1>4, RetryKeepsOp, FailureKeepsOp
<1>5. CASE \E n \in Nodes : Redirect(o, n)
    <2>1. /\ pc[o] = "inflight" /\ flight[o] = "rejected"
          /\ pc' = [pc EXCEPT ![o] = "dialing"]
          /\ Unwind(o) /\ UNCHANGED <<outcome, applied, repeated>>
        BY <1>5 DEF Redirect, clusterVars
    <2>2. outcome[o] = "none" /\ (o \in Singles => applied[o][1] <= repeated[o])
        BY <2>1, NotYetApplied
    <2> QED BY <2>1, <2>2, MoveKeepsOp
<1>6. CASE Dialed(o) \/ HandshakeDone(o)
    <2>1. PICK to \in {"handshaking", "swapping", "abandoning"} :
              /\ pc' = [pc EXCEPT ![o] = to]
              /\ pc[o] \in {"dialing", "handshaking"}
              /\ UNCHANGED <<sendVars, outcome, applied, repeated>>
        BY <1>6 DEF Dialed, HandshakeDone, clusterVars
    <2>2. outcome[o] = "none" /\ (o \in Singles => applied[o][1] <= repeated[o])
        BY <2>1, NotYetApplied
    <2> QED BY <2>1, <2>2, MoveKeepsOp
<1>7. CASE SwapDone(o)
    <2>1. pc[o] = "swapping" /\ SendOrRefuse(o, 1) /\ UNCHANGED <<applied, repeated>>
        BY <1>7 DEF SwapDone, clusterVars
    <2>2. outcome[o] = "none" /\ (o \in Singles => applied[o][1] <= repeated[o])
        BY <2>1, NotYetApplied
    <2>3. 1 \in Chunks /\ 1 <= LastChunk(o) /\ \A j \in Chunks : ~ (j < 1)
        BY ChunkTypes DEF Chunks
    <2> QED BY <2>1, <2>2, <2>3, SendKeepsOp
<1>8. CASE SwapFailed(o)
    <2>1. End(o, "error") /\ UNCHANGED <<applied, repeated>>
        BY <1>8 DEF SwapFailed, clusterVars
    <2> QED BY <2>1, EndKeepsOp
<1> QED BY <1>1, <1>2, <1>3, <1>4, <1>5, <1>6, <1>7, <1>8 DEF Operation, Continues

LEMMA ClusterKeepsOp ==
    ASSUME TypeOK, OpInv, NEW o \in Ops, LeaderApplies(o) \/ FollowerRejects(o)
    PROVE  OpInv'
<1>1. /\ pc[o] = "inflight" /\ flight[o] = "sent"
      /\ UNCHANGED <<pc, chunk, outcome, repeated>>
    BY DEF LeaderApplies, FollowerRejects
<1>2. /\ outcome[o] = "none" /\ (o \in Singles => applied[o][1] <= repeated[o])
      /\ OpOK(o) /\ (\A k \in Chunks : applied[o][k] \in Nat) /\ chunk[o] \in Chunks
    BY <1>1, NotYetApplied DEF OpInv, TypeOK
<1>3. CASE LeaderApplies(o)
    <2>1. /\ flight'[o] = "applied"
          /\ applied'[o] = [applied[o] EXCEPT ![chunk[o]] = @ + 1]
          /\ \A u \in Ops : u # o => flight'[u] = flight[u] /\ applied'[u] = applied[u]
        BY <1>3 DEF LeaderApplies, TypeOK
    <2>2. /\ applied'[o][chunk[o]] = applied[o][chunk[o]] + 1
          /\ \A k \in Chunks : k # chunk[o] => applied'[o][k] = applied[o][k]
        BY <1>2, <2>1 DEF TypeOK
    <2>3. OpOK(o)'
        <3>1. \A k \in Chunks : k < chunk[o] => applied'[o][k] >= 1
            BY <1>1, <1>2, <2>2 DEF OpOK, Chunks
        <3>2. applied'[o][chunk[o]] >= 1
            BY <1>2, <2>2
        <3>3. o \in Singles => applied'[o][1] <= 1 + repeated[o]
            <4>1. 1 \in Chunks /\ repeated[o] \in Nat
                BY Counters
            <4> QED BY <1>2, <2>2, <4>1
        <3> QED BY <1>1, <1>2, <2>1, <3>1, <3>2, <3>3 DEF OpOK
    <2> QED BY <1>1, <2>1, <2>3, OneOperation
<1>4. CASE FollowerRejects(o)
    <2>1. /\ flight'[o] = "rejected" /\ applied' = applied
          /\ \A u \in Ops : u # o => flight'[u] = flight[u]
        BY <1>4 DEF FollowerRejects, TypeOK, clusterVars
    <2>2. OpOK(o)'
        BY <1>1, <1>2, <2>1 DEF OpOK
    <2> QED BY <1>1, <2>1, <2>2, OneOperation
<1> QED BY <1>3, <1>4

LEMMA OpInvariant == Spec => []OpInv
<1>1. Init => OpInv
    <2> SUFFICES ASSUME Init, NEW o \in Ops PROVE OpOK(o)
        BY DEF OpInv
    <2>1. 1 \in Chunks /\ 1 <= LastChunk(o) /\ \A k \in Chunks : ~ (k < 1)
        BY ChunkTypes DEF Chunks
    <2>2. /\ pc[o] = "idle" /\ outcome[o] = "none" /\ chunk[o] = 1 /\ applied[o][1] = 0
          /\ repeated[o] = 0
        BY <2>1 DEF Init
    <2> QED BY <2>1, <2>2 DEF OpOK
<1>2. TypeOK /\ OpInv /\ [Next]_vars => OpInv'
    <2> SUFFICES ASSUME TypeOK, OpInv, [Next]_vars PROVE OpInv'
        OBVIOUS
    <2>1. ASSUME UNCHANGED <<pc, chunk, flight, outcome, applied, repeated>> PROVE OpInv'
        BY <2>1 DEF OpInv, OpOK
    <2>2. ASSUME NEW o \in Ops, Operation(o) PROVE OpInv'
        BY <2>2, OperationKeepsOp
    <2>3. CASE CloseClient \/ TxBegin \/ TxStatement \/ TxEnd
        BY <2>1, <2>3 DEF CloseClient, TxBegin, TxStatement, TxEnd, opVars, sendVars, clusterVars
    <2>4. ASSUME NEW o \in Ops, LeaderApplies(o) \/ FollowerRejects(o) PROVE OpInv'
        BY <2>4, ClusterKeepsOp
    <2>5. ASSUME NEW n \in Nodes, Elect(n) PROVE OpInv'
        BY <2>1, <2>5 DEF Elect, opVars, sendVars
    <2>6. CASE UNCHANGED vars
        BY <2>1, <2>6 DEF vars, opVars, sendVars, clusterVars
    <2> QED BY <2>2, <2>3, <2>4, <2>5, <2>6 DEF Next, Cluster
<1> QED BY RedirectTypeOK, <1>1, <1>2, PTL DEF Spec

\* However often a single write is redirected and whoever swaps and closes the
\* backend under it, it is applied at most once more than attempts of it were
\* given up unanswered and repeated.
THEOREM SingleWritesOnce == Spec => []RedirectAddsNoWrite
<1>1. OpInv => RedirectAddsNoWrite
    BY DEF OpInv, OpOK, RedirectAddsNoWrite, Ops
<1> QED BY OpInvariant, <1>1, PTL

\* A single write that ends with not_leader was applied at most as often as
\* attempts of it were given up unanswered and repeated.
THEOREM NotLeaderLeavesNothing == Spec => []NotLeaderAddsNoWrite
<1>1. OpInv => NotLeaderAddsNoWrite
    BY DEF OpInv, OpOK, NotLeaderAddsNoWrite, Ops
<1> QED BY OpInvariant, <1>1, PTL

\* An operation that reports success had every request of it applied.
THEOREM SuccessIsApplied == Spec => []SuccessMeansApplied
<1>1. OpInv => SuccessMeansApplied
    BY DEF OpInv, OpOK, SuccessMeansApplied
<1> QED BY OpInvariant, <1>1, PTL

-----------------------------------------------------------------------------
(* Where the client points.                                                   *)

Redirecting(o) == pc[o] \in {"dialing", "handshaking", "swapping", "abandoning"}

\* The client points at the backend built last, so what a redirect closes is
\* another one.
CurrentInv ==
    /\ current = built
    /\ \A o \in Ops : Redirecting(o) => stale[o] < current
    /\ CurrentNotClosedByRedirect

LEMMA CurrentInvariant == Spec => []CurrentInv
<1>1. Init => CurrentInv
    BY BackendsAssumption
    DEF Init, CurrentInv, Redirecting, CurrentNotClosedByRedirect, Backends
<1>2. TypeOK /\ CurrentInv /\ [Next]_vars => CurrentInv'
    <2> SUFFICES ASSUME TypeOK, CurrentInv, [Next]_vars PROVE CurrentInv'
        OBVIOUS
    <2>1. current \in Backends /\ built \in Backends /\ \A b \in Backends : b \in Nat
        BY DEF TypeOK, Backends
    <2>2. ASSUME UNCHANGED <<current, built, conn, closed>>,
                 \A o \in Ops : Redirecting(o)' => Redirecting(o) /\ stale'[o] = stale[o]
          PROVE  CurrentInv'
        BY <2>2 DEF CurrentInv, CurrentNotClosedByRedirect
    <2>3. ASSUME NEW o \in Ops, Operation(o) PROVE CurrentInv'
        <3>1. CASE Start(o) \/ Acknowledged(o)
            <4>1. PICK to \in {"done", "inflight"} : pc' = [pc EXCEPT ![o] = to]
                BY <3>1 DEF Start, Acknowledged, Issue, SendOrRefuse, Send, End
            <4>2. \A u \in Ops : /\ Redirecting(u)' => Redirecting(u)
                                 /\ Redirecting(u)' => stale'[u] = stale[u]
                BY <3>1, <4>1 DEF Start, Acknowledged, Issue, SendOrRefuse, End, Redirecting,
                                  TypeOK
            <4> QED BY <2>2, <3>1, <4>2 DEF Start, Acknowledged, Issue, clientVars
        <3>2. CASE NotRedirected(o) \/ RequestFails(o) \/ Retry(o)
            <4>1. \A u \in Ops : /\ Redirecting(u)' => Redirecting(u)
                                 /\ Redirecting(u)' => stale'[u] = stale[u]
                BY <3>2 DEF NotRedirected, RequestFails, Retry, Send, End, Redirecting, TypeOK
            <4> QED BY <2>2, <3>2, <4>1 DEF NotRedirected, RequestFails, Retry, clientVars
        <3>3. CASE \E n \in Nodes : Redirect(o, n)
            <4>1. /\ current' = built + 1 /\ built' = built + 1
                  /\ conn' = [conn EXCEPT ![built + 1] = "dialing"]
                  /\ stale' = [stale EXCEPT ![o] = current]
                  /\ pc' = [pc EXCEPT ![o] = "dialing"]
                  /\ built < MaxBackends
                BY <3>3 DEF Redirect
            <4>2. conn'[current'] = "dialing"
                BY <2>1, <4>1, BackendsAssumption DEF TypeOK, Backends
            <4>3. \A u \in Ops : Redirecting(u)' => stale'[u] < current'
                BY <2>1, <4>1 DEF CurrentInv, Redirecting, TypeOK
            <4> QED BY <4>1, <4>2, <4>3 DEF CurrentInv, CurrentNotClosedByRedirect
        <3>4. CASE Dialed(o)
            <4>1. PICK state \in {"open", "failed"}, to \in {"handshaking", "abandoning"} :
                      /\ conn' = [conn EXCEPT ![fresh[o]] = state]
                      /\ pc' = [pc EXCEPT ![o] = to] /\ pc[o] = "dialing"
                      /\ UNCHANGED <<current, built, closed, stale>>
                BY <3>4 DEF Dialed
            <4>2. conn'[current] = conn[current] \/ conn'[current] = state
                BY <4>1 DEF TypeOK
            <4>3. \A u \in Ops : Redirecting(u)' => Redirecting(u)
                BY <4>1 DEF Redirecting, TypeOK
            <4> QED BY <4>1, <4>2, <4>3 DEF CurrentInv, CurrentNotClosedByRedirect
        <3>5. CASE HandshakeDone(o)
            BY <2>2, <3>5 DEF HandshakeDone, clientVars, Redirecting, TypeOK
        <3>6. CASE SwapDone(o) \/ SwapFailed(o)
            <4>1. PICK to \in {"done", "inflight"} :
                      /\ CloseBackend(stale[o]) /\ pc' = [pc EXCEPT ![o] = to]
                      /\ Redirecting(o)
                      /\ stale' = [stale EXCEPT ![o] = 1] \/ stale' = stale
                      /\ UNCHANGED <<current, built, closed>>
                BY <3>6 DEF SwapDone, SwapFailed, SendOrRefuse, Send, End, Redirecting
            <4>2. stale[o] # current
                BY <2>1, <4>1 DEF CurrentInv, TypeOK
            <4>3. conn'[current] = conn[current]
                BY <4>1, <4>2 DEF CloseBackend, TypeOK
            <4>4. \A u \in Ops : Redirecting(u)' => Redirecting(u) /\ stale'[u] = stale[u]
                BY <4>1 DEF Redirecting, TypeOK
            <4> QED BY <4>1, <4>3, <4>4 DEF CurrentInv, CurrentNotClosedByRedirect
        <3> QED BY <2>3, <3>1, <3>2, <3>3, <3>4, <3>5, <3>6 DEF Operation, Continues
    <2>4. CASE CloseClient
        BY <2>4 DEF CloseClient, opVars, CurrentInv, Redirecting, CurrentNotClosedByRedirect
    <2>5. CASE TxBegin \/ TxStatement \/ TxEnd
        BY <2>2, <2>5 DEF TxBegin, TxStatement, TxEnd, clientVars, opVars, Redirecting
    <2>6. ASSUME NEW o \in Ops, LeaderApplies(o) \/ FollowerRejects(o) PROVE CurrentInv'
        BY <2>2, <2>6 DEF LeaderApplies, FollowerRejects, clientVars, Redirecting
    <2>7. ASSUME NEW n \in Nodes, Elect(n) PROVE CurrentInv'
        BY <2>2, <2>7 DEF Elect, clientVars, opVars, Redirecting
    <2>8. CASE UNCHANGED vars
        BY <2>2, <2>8 DEF vars, clientVars, opVars, Redirecting
    <2> QED BY <2>3, <2>4, <2>5, <2>6, <2>7, <2>8 DEF Next, Cluster
<1> QED BY RedirectTypeOK, <1>1, <1>2, PTL DEF Spec

\* The backend an open client points at is never one that a redirect closed,
\* however redirects of several operations overlap.
THEOREM CurrentStaysUsable == Spec => []CurrentNotClosedByRedirect
<1>1. CurrentInv => CurrentNotClosedByRedirect
    BY DEF CurrentInv
<1> QED BY CurrentInvariant, <1>1, PTL
=============================================================================

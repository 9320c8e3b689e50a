--------------------------- MODULE ReferenceServer ---------------------------
(* The in-memory engine (ReferenceServer, transport/memory.py) behind one     *)
(* client: autonomous statements, Transaction objects and streamed queries    *)
(* (ProtocolBackend.stream_query) of concurrent tasks.  MemoryTransport       *)
(* answers a request without suspending, so a step is one request together    *)
(* with what its caller does with the answer; tasks interleave between        *)
(* requests.                                                                  *)
(*                                                                            *)
(* One model is kept, and of a row its primary key and the number of the      *)
(* mutation that last wrote it.  Which rows a filter matches is left open.    *)
(* A caller begins a transaction once, as both documented forms do.           *)
EXTENDS Integers, Sequences, SequencesExt, FiniteSetsExt

CONSTANTS Keys,        \* primary keys
          Txs,         \* Transaction objects; the client gives each its own id
          Streams,     \* streamed queries
          BatchSize,   \* rows per page
          MaxWrites,   \* bound: mutations issued
          Autonomous,  \* transaction id 0
          NoStore      \* no overlay under a transaction id

ASSUME BatchAssumption == BatchSize \in Nat \ {0}
ASSUME WritesAssumption == MaxWrites \in Nat
ASSUME AutonomousAssumption == Autonomous \notin Txs
ASSUME FiniteAssumption == IsFiniteSet(Keys) /\ IsFiniteSet(Streams)

NoRow == -1
Sources == Txs \cup {Autonomous}
Stores == [Keys -> -1 .. MaxWrites]
ASSUME NoStoreAssumption == NoStore \notin Stores
Untouched == -2
Rows == Keys \X (0 .. MaxWrites)

VARIABLES
    tables,     \* _tables, for the one model
    overlays,   \* _tx_overlays
    cursors,    \* _cursors: token -> rows not fetched yet
    cursorSeq,  \* _cursor_seq
    connected,  \* MemoryTransport._connected, which Client.close clears
    txState,    \* txState[t]: Transaction t for its caller
    spc,        \* spc[s]: where streamed query s stands
    token,      \* token[s]: its cursor token, 0 for None
    got,        \* got[s]: rows it has delivered
    writes,     \* mutations issued so far
    snapshot,   \* history: snapshot[t], the tables when t began
    own,        \* history: own[t], what t has written since
    stagedBy,   \* history: stagedBy[v], whose overlay mutation v went to
    rivals,     \* history: rivals[t], who committed while t was active
    matched     \* history: matched[s], the rows s matched when it was opened

serverVars  == <<tables, overlays, cursors, cursorSeq>>
clientVars  == <<connected, txState>>
streamVars  == <<spc, token, got, matched>>
historyVars == <<writes, snapshot, own, stagedBy, rivals>>
vars == <<serverVars, clientVars, streamVars, historyVars>>

TypeOK ==
    /\ tables \in Stores
    /\ overlays \in [Txs -> Stores \cup {NoStore}]
    /\ cursorSeq \in 0 .. Cardinality(Streams)
    /\ DOMAIN cursors \subseteq 1 .. cursorSeq
    /\ \A c \in DOMAIN cursors : cursors[c] \in Seq(Rows) /\ cursors[c] # <<>>
    /\ connected \in BOOLEAN
    /\ txState \in [Txs -> {"new", "active", "committed", "rolledback", "lost"}]
    /\ spc \in [Streams -> {"idle", "streaming", "drained", "left", "failed"}]
    /\ token \in [Streams -> 0 .. cursorSeq]
    /\ got \in [Streams -> Seq(Rows)]
    /\ writes \in 0 .. MaxWrites
    /\ snapshot \in [Txs -> Stores]
    /\ own \in [Txs -> [Keys -> -2 .. MaxWrites]]
    /\ stagedBy \in [1 .. MaxWrites -> Sources]
    /\ rivals \in [Txs -> SUBSET Txs]
    /\ matched \in [Streams -> Seq(Rows)]

\* A connected client; any rows may be there already.
Init ==
    /\ tables \in [Keys -> {NoRow, 0}]
    /\ overlays = [t \in Txs |-> NoStore]
    /\ cursors = <<>>
    /\ cursorSeq = 0
    /\ connected = TRUE
    /\ txState = [t \in Txs |-> "new"]
    /\ spc = [s \in Streams |-> "idle"]
    /\ token = [s \in Streams |-> 0]
    /\ got = [s \in Streams |-> <<>>]
    /\ writes = 0
    /\ snapshot = [t \in Txs |-> tables]
    /\ own = [t \in Txs |-> [k \in Keys |-> Untouched]]
    /\ stagedBy = [v \in 1 .. MaxWrites |-> Autonomous]
    /\ rivals = [t \in Txs |-> {}]
    /\ matched = [s \in Streams |-> <<>>]

-----------------------------------------------------------------------------
(* Stores: _store picks the overlay of the frame's transaction id, and the    *)
(* committed tables when the id is 0, unknown or finished.                    *)

HasOverlay(src) == src \in Txs /\ overlays[src] # NoStore

StoreOfSomeone(src) ==
    IF \E t \in Txs : overlays[t] # NoStore
    THEN overlays[CHOOSE t \in Txs : overlays[t] # NoStore]
    ELSE tables

Store(src) == IF HasOverlay(src) THEN overlays[src] ELSE tables

\* A statement a task can issue: on the client while it is open, or through a
\* transaction that has begun.  Nothing stops one through a finished
\* transaction.
CanIssue(src) == connected /\ (src \in Txs => txState[src] # "new")

\* The statement turns the store of src into `result`.
Mutate(src, result) ==
    /\ CanIssue(src)
    /\ writes < MaxWrites
    /\ writes' = writes + 1
    /\ IF HasOverlay(src)
       THEN /\ overlays' = [overlays EXCEPT ![src] = result]
            /\ own' = [own EXCEPT ![src] =
                          [k \in Keys |-> IF result[k] # Store(src)[k]
                                          THEN result[k] ELSE @[k]]]
            /\ stagedBy' = [stagedBy EXCEPT ![writes + 1] = src]
            /\ UNCHANGED tables
       ELSE /\ tables' = result
            /\ UNCHANGED <<overlays, own, stagedBy>>
    /\ UNCHANGED <<cursors, cursorSeq, clientVars, streamVars, snapshot, rivals>>

-----------------------------------------------------------------------------
(* Mutations.                                                                 *)

Batches == {<<k>> : k \in Keys} \cup {<<k, l>> : k, l \in Keys}

\* Positions of the batch whose key is already there when their turn comes.
Conflicts(store, batch) ==
    {i \in DOMAIN batch : \/ store[batch[i]] # NoRow
                          \/ \E j \in 1 .. i - 1 : batch[j] = batch[i]}

\* Rows go in one by one: a conflict that is refused keeps the rows before it.
InsertRows(store, batch, onConflict) ==
    LET refused == IF onConflict = "error" THEN Conflicts(store, batch) ELSE {}
        last == IF refused = {} THEN Len(batch) ELSE Min(refused) - 1
        stored == {batch[i] : i \in 1 .. last}
    IN  [k \in Keys |-> IF k \in stored /\ (onConflict = "ignore" => store[k] = NoRow)
                        THEN writes + 1 ELSE store[k]]

Insert(src) ==
    \E batch \in Batches, onConflict \in {"error", "ignore", "replace"} :
        Mutate(src, InsertRows(Store(src), batch, onConflict))

Update(src) ==
    \E filter \in SUBSET Keys :
        Mutate(src, [k \in Keys |-> IF k \in filter /\ Store(src)[k] # NoRow
                                    THEN writes + 1 ELSE Store(src)[k]])

Delete(src) ==
    \E filter \in SUBSET Keys :
        Mutate(src, [k \in Keys |-> IF k \in filter THEN NoRow ELSE Store(src)[k]])

\* The matching row is updated, or a new one stored under its key.
Upsert(src) ==
    \E key \in Keys : Mutate(src, [Store(src) EXCEPT ![key] = writes + 1])

-----------------------------------------------------------------------------
(* Transaction control.  commit() and rollback() mark the Transaction as      *)
(* finished before they send anything, so on a closed client the request      *)
(* fails and neither can be called again.                                     *)

Begin(t) ==
    /\ connected /\ txState[t] = "new"
    /\ overlays' = [overlays EXCEPT ![t] = tables]
    /\ snapshot' = [snapshot EXCEPT ![t] = tables]
    /\ txState' = [txState EXCEPT ![t] = "active"]
    /\ UNCHANGED <<tables, cursors, cursorSeq, connected, streamVars, writes, own, stagedBy, rivals>>

Commit(t) ==
    /\ connected /\ txState[t] = "active"
    /\ tables' = overlays[t]
    /\ overlays' = [overlays EXCEPT ![t] = NoStore]
    /\ txState' = [txState EXCEPT ![t] = "committed"]
    /\ rivals' = [u \in Txs |-> IF u # t /\ txState[u] = "active"
                                THEN rivals[u] \cup {t} ELSE rivals[u]]
    /\ UNCHANGED <<cursors, cursorSeq, connected, streamVars, writes, snapshot, own, stagedBy>>

RollbackInstalling(t) ==
    /\ connected /\ txState[t] = "active"
    /\ tables' = overlays[t]
    /\ overlays' = [overlays EXCEPT ![t] = NoStore]
    /\ txState' = [txState EXCEPT ![t] = "rolledback"]
    /\ UNCHANGED <<cursors, cursorSeq, connected, streamVars, historyVars>>

Rollback(t) ==
    /\ connected /\ txState[t] = "active"
    /\ overlays' = [overlays EXCEPT ![t] = NoStore]
    /\ txState' = [txState EXCEPT ![t] = "rolledback"]
    /\ UNCHANGED <<tables, cursors, cursorSeq, connected, streamVars, historyVars>>

EndFails(t) ==
    /\ ~connected /\ txState[t] = "active"
    /\ txState' = [txState EXCEPT ![t] = "lost"]
    /\ UNCHANGED <<serverVars, connected, streamVars, historyVars>>

-----------------------------------------------------------------------------
(* Streamed queries.                                                          *)

Without(cursor) == [c \in DOMAIN cursors \ {cursor} |-> cursors[c]]

Take(rows) == SubSeq(rows, 1, Min({BatchSize, Len(rows)}))
Rest(rows) == SubSeq(rows, BatchSize + 1, Len(rows))

\* _open_cursor: the rows are projected now, in the order of the query, and
\* what the first page leaves is kept under a new token.
Open(s, src) ==
    /\ CanIssue(src) /\ spc[s] = "idle"
    /\ \E filter \in SUBSET Keys :
       \E order \in SetToSeqs({k \in filter : Store(src)[k] # NoRow}) :
           LET rows == [i \in DOMAIN order |-> <<order[i], Store(src)[order[i]]>>]
           IN  /\ matched' = [matched EXCEPT ![s] = rows]
               /\ got' = [got EXCEPT ![s] = Take(rows)]
               /\ IF Rest(rows) # <<>>
                  THEN /\ cursorSeq' = cursorSeq + 1
                       /\ cursors' = [c \in DOMAIN cursors \cup {cursorSeq + 1} |->
                                         IF c = cursorSeq + 1 THEN Rest(rows) ELSE cursors[c]]
                       /\ token' = [token EXCEPT ![s] = cursorSeq + 1]
                       /\ spc' = [spc EXCEPT ![s] = "streaming"]
                  ELSE /\ spc' = [spc EXCEPT ![s] = "drained"]
                       /\ UNCHANGED <<cursors, cursorSeq, token>>
    /\ UNCHANGED <<tables, overlays, clientVars, historyVars>>

FetchDroppingRow(s) ==
    /\ connected /\ spc[s] = "streaming" /\ token[s] \in DOMAIN cursors
    /\ LET rows == cursors[token[s]] IN
       /\ got' = [got EXCEPT ![s] = @ \o Take(rows)]
       /\ IF Len(rows) > BatchSize + 1
          THEN /\ cursors' = [cursors EXCEPT ![token[s]] = Tail(Rest(rows))]
               /\ UNCHANGED <<token, spc>>
          ELSE /\ cursors' = Without(token[s])
               /\ token' = [token EXCEPT ![s] = 0]
               /\ spc' = [spc EXCEPT ![s] = "drained"]
    /\ UNCHANGED <<tables, overlays, cursorSeq, clientVars, matched, historyVars>>

FetchKeepingCursor(s) ==
    /\ connected /\ spc[s] = "streaming" /\ token[s] \in DOMAIN cursors
    /\ LET rows == cursors[token[s]] IN
       /\ got' = [got EXCEPT ![s] = @ \o Take(rows)]
       /\ cursors' = [cursors EXCEPT ![token[s]] = Rest(rows)]
       /\ IF Rest(rows) # <<>>
          THEN UNCHANGED <<token, spc>>
          ELSE /\ token' = [token EXCEPT ![s] = 0]
               /\ spc' = [spc EXCEPT ![s] = "drained"]
    /\ UNCHANGED <<tables, overlays, cursorSeq, clientVars, matched, historyVars>>

\* _cursor_fetch: the next page; the cursor goes with its last row.
Fetch(s) ==
    /\ connected /\ spc[s] = "streaming" /\ token[s] \in DOMAIN cursors
    /\ LET rows == cursors[token[s]] IN
       /\ got' = [got EXCEPT ![s] = @ \o Take(rows)]
       /\ IF Rest(rows) # <<>>
          THEN /\ cursors' = [cursors EXCEPT ![token[s]] = Rest(rows)]
               /\ UNCHANGED <<token, spc>>
          ELSE /\ cursors' = Without(token[s])
               /\ token' = [token EXCEPT ![s] = 0]
               /\ spc' = [spc EXCEPT ![s] = "drained"]
    /\ UNCHANGED <<tables, overlays, cursorSeq, clientVars, matched, historyVars>>

LeaveWithoutRelease(s) ==
    /\ connected /\ spc[s] = "streaming"
    /\ spc' = [spc EXCEPT ![s] = "left"]
    /\ UNCHANGED <<serverVars, clientVars, token, got, matched, historyVars>>

\* The consumer leaves its loop: aclose() runs the finally clause, which
\* releases the cursor.
Leave(s) ==
    /\ connected /\ spc[s] = "streaming"
    /\ cursors' = Without(token[s])
    /\ spc' = [spc EXCEPT ![s] = "left"]
    /\ UNCHANGED <<tables, overlays, cursorSeq, clientVars, token, got, matched, historyVars>>

\* On a closed client the fetch fails, and so does the release.
StreamFails(s) ==
    /\ ~connected /\ spc[s] = "streaming"
    /\ spc' = [spc EXCEPT ![s] = "failed"]
    /\ UNCHANGED <<serverVars, clientVars, token, got, matched, historyVars>>

CloseClient ==
    /\ connected
    /\ connected' = FALSE
    /\ UNCHANGED <<serverVars, txState, streamVars, historyVars>>

-----------------------------------------------------------------------------
Next ==
    \/ \E src \in Sources : Insert(src) \/ Update(src) \/ Delete(src) \/ Upsert(src)
    \/ \E t \in Txs : Begin(t) \/ Commit(t) \/ Rollback(t) \/ EndFails(t)
    \/ \E s \in Streams :
           (\E src \in Sources : Open(s, src)) \/ Fetch(s) \/ Leave(s) \/ StreamFails(s)
    \/ CloseClient

Spec == Init /\ [][Next]_vars

-----------------------------------------------------------------------------
(* Properties.                                                                *)

\* Read-your-writes over a snapshot: what an active transaction reads is the
\* state it began on plus its own writes, whatever other transactions and
\* autonomous statements did meanwhile.
SnapshotPlusOwnWrites ==
    \A t \in Txs : txState[t] = "active" =>
        overlays[t] = [k \in Keys |-> IF own[t][k] # Untouched
                                      THEN own[t][k] ELSE snapshot[t][k]]

\* What a transaction wrote is never among the committed rows unless it
\* committed; a rollback, or an end that failed, leaves no trace, not even
\* through another transaction's commit.
UncommittedNeverVisible ==
    \A k \in Keys : tables[k] > 0 /\ stagedBy[tables[k]] \in Txs =>
        txState[stagedBy[tables[k]]] = "committed"

\* A streamed query delivers the rows it matched when it was opened, each once
\* and in order, whatever is written, committed or rolled back between its
\* pages, the transaction it runs under included.
StreamIsSnapshot ==
    \A s \in Streams :
        /\ spc[s] = "streaming" =>
               token[s] \in DOMAIN cursors /\ got[s] \o cursors[token[s]] = matched[s]
        /\ spc[s] = "drained" => got[s] = matched[s]

\* A cursor on the server has one stream that will fetch or release it; only
\* closing the client can leave one behind.
CursorsReleased ==
    \A c \in DOMAIN cursors :
        \E s \in Streams : token[s] = c /\ (spc[s] = "streaming" \/ ~connected)

\* docs/COMPATIBILITY.md: snapshot isolation with first-committer-wins conflict
\* detection on commit.  Of two transactions that overlap and have written the
\* same row, at most one commits.
FirstCommitterWins ==
    \A t \in Txs : txState[t] = "committed" =>
        \A u \in rivals[t], k \in Keys : own[t][k] = Untouched \/ own[u][k] = Untouched
=============================================================================

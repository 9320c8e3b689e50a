---------------------------- MODULE ServerProofs ----------------------------
(* Proofs about module ReferenceServer for any rows, transactions, streams,   *)
(* page size and number of mutations.  The state falls into two parts that    *)
(* different actions change, the rows and the streamed queries; each has its  *)
(* own inductive invariant, and the streams read of the rows only their type. *)
(* The sections after it are about the modules Clauses and QueryEngine, which *)
(* the same run checks.                                                       *)
EXTENDS Engine, TLAPS, SequenceTheorems, FiniteSetTheorems, WellFoundedInduction

RowTypeOK ==
    /\ tables \in Stores
    /\ overlays \in [Txs -> Stores \cup {NoStore}]
    /\ connected \in BOOLEAN
    /\ txState \in [Txs -> {"new", "active", "committed", "rolledback", "lost"}]
    /\ writes \in 0 .. MaxWrites
    /\ snapshot \in [Txs -> Stores]
    /\ own \in [Txs -> [Keys -> -2 .. MaxWrites]]
    /\ stagedBy \in [1 .. MaxWrites -> Sources]
    /\ rivals \in [Txs -> SUBSET Txs]

StreamTypeOK ==
    /\ cursorSeq \in Nat
    /\ DOMAIN cursors \subseteq 1 .. cursorSeq
    /\ \A c \in DOMAIN cursors : cursors[c] \in Seq(Rows) /\ cursors[c] # <<>>
    /\ spc \in [Streams -> {"idle", "streaming", "drained", "left", "failed"}]
    /\ token \in [Streams -> 0 .. cursorSeq]
    /\ got \in [Streams -> Seq(Rows)]
    /\ matched \in [Streams -> Seq(Rows)]

-----------------------------------------------------------------------------
(* The rows.                                                                  *)

\* A transaction has an overlay from its begin until it has ended, and keeps it
\* when its end fails.
OverlayWhileOpen ==
    \A t \in Txs : overlays[t] # NoStore <=> txState[t] \in {"active", "lost"}

\* A transaction has written nothing before it begins.
NothingYet ==
    \A t \in Txs : txState[t] = "new" => \A k \in Keys : own[t][k] = Untouched

\* A row's number is that of a mutation already issued, and no transaction has
\* staged one that was not.
NumberedByIssue ==
    /\ \A k \in Keys : tables[k] <= writes
    /\ \A t \in Txs, k \in Keys : overlays[t] # NoStore => overlays[t][k] <= writes
    /\ \A v \in 1 .. MaxWrites : v > writes => stagedBy[v] = Autonomous

\* May the number v be among rows that t reads or, for t = Autonomous, that are
\* committed?
Visible(t, v) ==
    v > 0 /\ stagedBy[v] \in Txs => stagedBy[v] = t \/ txState[stagedBy[v]] = "committed"

\* An overlay holds what its transaction wrote and what was committed.
OverlaysHoldOwn ==
    \A t \in Txs, k \in Keys : overlays[t] # NoStore => Visible(t, overlays[t][k])

TablesHoldCommitted == \A k \in Keys : Visible(Autonomous, tables[k])

RowInv ==
    /\ RowTypeOK
    /\ OverlayWhileOpen
    /\ NothingYet
    /\ NumberedByIssue
    /\ OverlaysHoldOwn
    /\ TablesHoldCommitted
    /\ SnapshotPlusOwnWrites

LEMMA StoreIsStore ==
    ASSUME RowTypeOK, NEW src \in Sources
    PROVE  Store(src) \in Stores
BY DEF RowTypeOK, Store, HasOverlay

\* A mutation, whichever it is, gives each row of its store its own number, or
\* removes it, or leaves it.
LEMMA MutationKeepsRows ==
    ASSUME RowInv, NEW src \in Sources, NEW result, DOMAIN result = Keys,
           result = [k \in Keys |-> result[k]],
           \A k \in Keys : result[k] \in {Store(src)[k], NoRow, writes + 1},
           Mutate(src, result)
    PROVE  RowInv'
<1> USE WritesAssumption, AutonomousAssumption, NoStoreAssumption
<1>1. writes \in Nat /\ writes + 1 \in 1 .. MaxWrites /\ writes' = writes + 1
    BY DEF Mutate, RowInv, RowTypeOK
<1>2. Store(src) \in Stores
    BY StoreIsStore DEF RowInv
<1>3. result \in Stores
    <2>1. \A k \in Keys : result[k] \in -1 .. MaxWrites
        BY <1>1, <1>2 DEF Stores, NoRow
    <2> QED BY <2>1 DEF Stores
<1>4. UNCHANGED <<connected, txState, snapshot, rivals>>
    BY DEF Mutate, clientVars
<1>5. \A t \in Txs : /\ overlays[t] \in Stores \cup {NoStore}
                     /\ overlays[t] # NoStore => overlays[t] \in Stores
    BY DEF RowInv, RowTypeOK
<1>6. CASE HasOverlay(src)
    <2>1. /\ src \in Txs /\ overlays[src] # NoStore /\ overlays[src] = Store(src)
          /\ txState[src] # "new"
          /\ overlays' = [overlays EXCEPT ![src] = result]
          /\ own' = [own EXCEPT ![src] = [k \in Keys |-> IF result[k] # Store(src)[k]
                                                         THEN result[k] ELSE own[src][k]]]
          /\ stagedBy' = [stagedBy EXCEPT ![writes + 1] = src]
          /\ tables' = tables
        BY <1>6 DEF Mutate, HasOverlay, Store, CanIssue
    <2>2. RowTypeOK'
        <3>1. own' \in [Txs -> [Keys -> -2 .. MaxWrites]]
            BY <2>1, <1>3 DEF RowInv, RowTypeOK, Stores
        <3>2. stagedBy' \in [1 .. MaxWrites -> Sources]
            BY <2>1, <1>1 DEF RowInv, RowTypeOK
        <3>3. overlays' \in [Txs -> Stores \cup {NoStore}]
            BY <2>1, <1>3 DEF RowInv, RowTypeOK
        <3> QED BY <2>1, <1>1, <1>4, <3>1, <3>2, <3>3 DEF RowInv, RowTypeOK
    <2>3. \A t \in Txs : t # src => overlays'[t] = overlays[t] /\ own'[t] = own[t]
        BY <2>1 DEF RowInv, RowTypeOK
    <2>4. overlays'[src] = result /\ result # NoStore
        BY <2>1, <1>3 DEF RowInv, RowTypeOK
    <2>5. /\ stagedBy'[writes + 1] = src
          /\ \A v \in 1 .. MaxWrites : v # writes + 1 => stagedBy'[v] = stagedBy[v]
        BY <2>1, <1>1 DEF RowInv, RowTypeOK
    <2>6. OverlayWhileOpen' /\ NothingYet'
        BY <2>1, <2>3, <2>4, <1>4 DEF RowInv, OverlayWhileOpen, NothingYet
    <2>7. \A k \in Keys : result[k] <= writes' /\ tables[k] <= writes /\ tables[k] \in Int
        <3>1. ASSUME NEW k \in Keys PROVE tables[k] <= writes /\ tables[k] \in Int
            BY DEF RowInv, RowTypeOK, NumberedByIssue, Stores
        <3>2. ASSUME NEW k \in Keys PROVE result[k] <= writes'
            <4>1. Store(src)[k] <= writes /\ Store(src)[k] \in Int
                BY <2>1, <1>2 DEF RowInv, NumberedByIssue, Stores
            <4> QED BY <1>1, <4>1 DEF NoRow
        <3> QED BY <3>1, <3>2
    <2>8. NumberedByIssue'
        BY <2>1, <2>3, <2>4, <2>5, <2>7, <1>1, <1>5
        DEF RowInv, NumberedByIssue, Stores
    <2>9. ASSUME NEW t \in Sources, NEW v \in -1 .. MaxWrites, v <= writes, Visible(t, v)
          PROVE  Visible(t, v)'
        BY <2>5, <2>9, <1>1, <1>4 DEF Visible
    <2>10. TablesHoldCommitted'
        BY <2>1, <2>7, <2>9 DEF RowInv, RowTypeOK, Stores, TablesHoldCommitted, Sources
    <2>11. ASSUME NEW k \in Keys PROVE Visible(src, result[k])'
        <3>1. CASE result[k] = writes + 1
            BY <2>5, <3>1, <1>1 DEF Visible
        <3>2. CASE result[k] = NoRow
            BY <3>2 DEF Visible, NoRow
        <3>3. CASE result[k] = overlays[src][k]
            BY <2>1, <2>9, <3>3, <1>5
            DEF RowInv, OverlaysHoldOwn, NumberedByIssue, Stores, Sources
        <3> QED BY <2>1, <3>1, <3>2, <3>3
    <2>12. OverlaysHoldOwn'
        <3> SUFFICES ASSUME NEW t \in Txs, NEW k \in Keys, overlays'[t] # NoStore
                     PROVE  Visible(t, overlays[t][k])'
            BY DEF OverlaysHoldOwn
        <3>1. CASE t = src
            BY <2>4, <2>11, <3>1 DEF Visible
        <3>2. CASE t # src
            <4>1. overlays'[t] = overlays[t] /\ overlays[t] \in Stores
                BY <2>3, <3>2, <1>5
            <4>2. Visible(t, overlays[t][k]) /\ overlays[t][k] <= writes
                BY <4>1, <1>5, NoStoreAssumption DEF RowInv, OverlaysHoldOwn, NumberedByIssue
            <4> QED BY <4>1, <4>2, <2>9 DEF Stores, Sources, Visible
        <3> QED BY <3>1, <3>2
    <2>13. SnapshotPlusOwnWrites'
        <3> SUFFICES ASSUME NEW t \in Txs, txState[t] = "active"
                     PROVE  overlays'[t] = [k \in Keys |-> IF own'[t][k] # Untouched
                                                THEN own'[t][k] ELSE snapshot[t][k]]
            BY <1>4 DEF SnapshotPlusOwnWrites
        <3>1. overlays[t] = [k \in Keys |-> IF own[t][k] # Untouched
                                            THEN own[t][k] ELSE snapshot[t][k]]
            BY DEF RowInv, SnapshotPlusOwnWrites
        <3>2. CASE t # src
            BY <2>3, <3>1, <3>2
        <3>3. CASE t = src
            <4>1. ASSUME NEW k \in Keys
                  PROVE  result[k] = IF own'[src][k] # Untouched
                                     THEN own'[src][k] ELSE snapshot[src][k]
                <5>1. own'[src][k] = IF result[k] # Store(src)[k]
                                     THEN result[k] ELSE own[src][k]
                    BY <2>1 DEF RowInv, RowTypeOK
                <5>2. result[k] # Untouched
                    BY <1>3 DEF Stores, Untouched
                <5> QED BY <2>1, <3>1, <3>3, <5>1, <5>2
            <4> QED BY <2>4, <3>3, <4>1
        <3> QED BY <3>2, <3>3
    <2> QED BY <2>2, <2>6, <2>8, <2>10, <2>12, <2>13 DEF RowInv
<1>7. CASE ~HasOverlay(src)
    <2>1. tables' = result /\ Store(src) = tables /\ UNCHANGED <<overlays, own, stagedBy>>
        BY <1>7 DEF Mutate, Store
    <2>2. RowTypeOK'
        BY <2>1, <1>1, <1>3, <1>4 DEF RowInv, RowTypeOK
    <2>3. OverlayWhileOpen' /\ NothingYet'
        BY <2>1, <1>4 DEF RowInv, OverlayWhileOpen, NothingYet
    <2>4. NumberedByIssue'
        BY <2>1, <1>1, <1>2, <1>5 DEF RowInv, NumberedByIssue, NoRow, Stores
    <2>5. OverlaysHoldOwn'
        BY <2>1, <1>4 DEF RowInv, OverlaysHoldOwn, Visible
    <2>6. TablesHoldCommitted'
        <3> SUFFICES ASSUME NEW k \in Keys PROVE Visible(Autonomous, result[k])'
            BY <2>1 DEF TablesHoldCommitted, Visible
        <3>1. CASE result[k] = writes + 1
            BY <2>1, <3>1, <1>1 DEF RowInv, NumberedByIssue, Visible
        <3>2. CASE result[k] = NoRow
            BY <3>2 DEF Visible, NoRow
        <3>3. CASE result[k] = tables[k]
            BY <2>1, <3>3, <1>4 DEF RowInv, TablesHoldCommitted, Visible
        <3> QED BY <2>1, <3>1, <3>2, <3>3
    <2>7. SnapshotPlusOwnWrites'
        BY <2>1, <1>4 DEF RowInv, SnapshotPlusOwnWrites
    <2> QED BY <2>2, <2>3, <2>4, <2>5, <2>6, <2>7 DEF RowInv
<1> QED BY <1>6, <1>7

LEMMA InsertKeepsRows ==
    ASSUME RowInv, NEW src \in Sources, Insert(src)
    PROVE  RowInv'
<1>1. PICK batch \in Batches, onConflict \in {"error", "ignore", "replace"} :
          Mutate(src, InsertRows(Store(src), batch, onConflict))
    BY DEF Insert
<1> DEFINE result == InsertRows(Store(src), batch, onConflict)
<1>2. /\ DOMAIN result = Keys /\ result = [k \in Keys |-> result[k]]
      /\ \A k \in Keys : result[k] \in {Store(src)[k], NoRow, writes + 1}
    BY DEF InsertRows
<1> HIDE DEF result
<1> QED BY <1>1, <1>2, MutationKeepsRows DEF result

LEMMA UpdateKeepsRows ==
    ASSUME RowInv, NEW src \in Sources, Update(src)
    PROVE  RowInv'
<1>1. PICK filter \in SUBSET Keys :
          Mutate(src, [k \in Keys |-> IF k \in filter /\ Store(src)[k] # NoRow
                                      THEN writes + 1 ELSE Store(src)[k]])
    BY DEF Update
<1> DEFINE result == [k \in Keys |-> IF k \in filter /\ Store(src)[k] # NoRow
                                     THEN writes + 1 ELSE Store(src)[k]]
<1>2. /\ DOMAIN result = Keys /\ result = [k \in Keys |-> result[k]]
      /\ \A k \in Keys : result[k] \in {Store(src)[k], NoRow, writes + 1}
    OBVIOUS
<1> HIDE DEF result
<1> QED BY <1>1, <1>2, MutationKeepsRows DEF result

LEMMA DeleteKeepsRows ==
    ASSUME RowInv, NEW src \in Sources, Delete(src)
    PROVE  RowInv'
<1>1. PICK filter \in SUBSET Keys :
          Mutate(src, [k \in Keys |-> IF k \in filter THEN NoRow ELSE Store(src)[k]])
    BY DEF Delete
<1> DEFINE result == [k \in Keys |-> IF k \in filter THEN NoRow ELSE Store(src)[k]]
<1>2. /\ DOMAIN result = Keys /\ result = [k \in Keys |-> result[k]]
      /\ \A k \in Keys : result[k] \in {Store(src)[k], NoRow, writes + 1}
    OBVIOUS
<1> HIDE DEF result
<1> QED BY <1>1, <1>2, MutationKeepsRows DEF result

LEMMA UpsertKeepsRows ==
    ASSUME RowInv, NEW src \in Sources, Upsert(src)
    PROVE  RowInv'
<1>1. PICK key \in Keys : Mutate(src, [Store(src) EXCEPT ![key] = writes + 1])
    BY DEF Upsert
<1> DEFINE result == [Store(src) EXCEPT ![key] = writes + 1]
<1>2. Store(src) \in Stores
    BY StoreIsStore DEF RowInv
<1>3. /\ DOMAIN result = Keys /\ result = [k \in Keys |-> result[k]]
      /\ \A k \in Keys : result[k] \in {Store(src)[k], NoRow, writes + 1}
    BY <1>2 DEF Stores
<1> HIDE DEF result
<1> QED BY <1>1, <1>3, MutationKeepsRows DEF result

\* The overlay of a new transaction is what is committed.
LEMMA BeginKeepsRows ==
    ASSUME RowInv, NEW t \in Txs, Begin(t)
    PROVE  RowInv'
<1> USE NoStoreAssumption
<1>1. /\ txState[t] = "new" /\ tables \in Stores
      /\ overlays' = [overlays EXCEPT ![t] = tables]
      /\ snapshot' = [snapshot EXCEPT ![t] = tables]
      /\ txState' = [txState EXCEPT ![t] = "active"]
      /\ UNCHANGED <<tables, connected, writes, own, stagedBy, rivals>>
    BY DEF Begin, RowInv, RowTypeOK
<1>2. RowTypeOK'
    BY <1>1 DEF RowInv, RowTypeOK
<1>3. /\ overlays'[t] = tables /\ txState'[t] = "active" /\ snapshot'[t] = tables
      /\ tables # NoStore
    BY <1>1 DEF RowInv, RowTypeOK
<1>4. \A u \in Txs : u # t => /\ overlays'[u] = overlays[u] /\ txState'[u] = txState[u]
                              /\ snapshot'[u] = snapshot[u]
    BY <1>1 DEF RowInv, RowTypeOK
<1>5. OverlayWhileOpen' /\ NothingYet'
    BY <1>1, <1>3, <1>4 DEF RowInv, OverlayWhileOpen, NothingYet
<1>6. NumberedByIssue'
    BY <1>1, <1>3, <1>4 DEF RowInv, NumberedByIssue
<1>7. ASSUME NEW u \in Sources, NEW v, Visible(u, v)
      PROVE  Visible(u, v)'
    BY <1>1, <1>4, <1>7 DEF Visible
<1>8. TablesHoldCommitted'
    BY <1>1, <1>7 DEF RowInv, TablesHoldCommitted, Sources
<1>9. OverlaysHoldOwn'
    <2> SUFFICES ASSUME NEW u \in Txs, NEW k \in Keys, overlays'[u] # NoStore
                 PROVE  Visible(u, overlays[u][k])'
        BY DEF OverlaysHoldOwn
    <2>1. CASE u = t
        <3>1. Visible(Autonomous, tables[k])'
            BY <1>1, <1>8 DEF TablesHoldCommitted, Visible
        <3> QED BY <1>1, <1>3, <2>1, <3>1, AutonomousAssumption DEF Visible
    <2>2. CASE u # t
        <3>1. Visible(u, overlays[u][k])
            BY <1>4, <2>2 DEF RowInv, OverlaysHoldOwn
        <3> QED BY <1>1, <1>4, <2>2, <3>1 DEF Visible
    <2> QED BY <2>1, <2>2
<1>10. SnapshotPlusOwnWrites'
    <2> SUFFICES ASSUME NEW u \in Txs, txState'[u] = "active"
                 PROVE  overlays'[u] = [k \in Keys |-> IF own[u][k] # Untouched
                                            THEN own[u][k] ELSE snapshot'[u][k]]
        BY <1>1 DEF SnapshotPlusOwnWrites
    <2>1. CASE u = t
        <3>1. \A k \in Keys : own[t][k] = Untouched
            BY <1>1 DEF RowInv, NothingYet
        <3>2. tables = [k \in Keys |-> tables[k]]
            BY <1>1 DEF Stores
        <3> QED BY <1>3, <2>1, <3>1, <3>2
    <2>2. CASE u # t
        BY <1>4, <2>2 DEF RowInv, SnapshotPlusOwnWrites
    <2> QED BY <2>1, <2>2
<1> QED BY <1>2, <1>5, <1>6, <1>8, <1>9, <1>10 DEF RowInv

\* What the overlay of t holds is committed once t is.
LEMMA CommitKeepsRows ==
    ASSUME RowInv, NEW t \in Txs, Commit(t)
    PROVE  RowInv'
<1> USE NoStoreAssumption
<1>1. /\ txState[t] = "active"
      /\ tables' = overlays[t]
      /\ overlays' = [overlays EXCEPT ![t] = NoStore]
      /\ txState' = [txState EXCEPT ![t] = "committed"]
      /\ UNCHANGED <<connected, writes, snapshot, own, stagedBy>>
    BY DEF Commit
<1>2. overlays[t] # NoStore /\ overlays[t] \in Stores
    BY <1>1 DEF RowInv, RowTypeOK, OverlayWhileOpen
<1>3. RowTypeOK'
    <2>1. rivals' \in [Txs -> SUBSET Txs]
        BY DEF Commit, RowInv, RowTypeOK
    <2> QED BY <1>1, <1>2, <2>1 DEF RowInv, RowTypeOK
<1>4. overlays'[t] = NoStore /\ txState'[t] = "committed"
    BY <1>1 DEF RowInv, RowTypeOK
<1>5. \A u \in Txs : u # t => overlays'[u] = overlays[u] /\ txState'[u] = txState[u]
    BY <1>1 DEF RowInv, RowTypeOK
<1>6. OverlayWhileOpen' /\ NothingYet'
    BY <1>1, <1>4, <1>5 DEF RowInv, OverlayWhileOpen, NothingYet
<1>7. NumberedByIssue'
    BY <1>1, <1>2, <1>4, <1>5 DEF RowInv, NumberedByIssue
<1>8. ASSUME NEW u \in Sources, NEW v, Visible(u, v)
      PROVE  Visible(u, v)'
    BY <1>1, <1>4, <1>5, <1>8 DEF Visible
<1>9. OverlaysHoldOwn'
    <2> SUFFICES ASSUME NEW u \in Txs, NEW k \in Keys, overlays'[u] # NoStore
                 PROVE  Visible(u, overlays[u][k])'
        BY DEF OverlaysHoldOwn
    <2>1. u # t /\ overlays'[u] = overlays[u]
        BY <1>4, <1>5
    <2>2. Visible(u, overlays[u][k])
        BY <2>1 DEF RowInv, OverlaysHoldOwn
    <2> QED BY <1>8, <2>1, <2>2 DEF Sources, Visible
<1>10. TablesHoldCommitted'
    <2> SUFFICES ASSUME NEW k \in Keys PROVE Visible(Autonomous, tables[k])'
        BY DEF TablesHoldCommitted
    <2>1. Visible(t, overlays[t][k])
        BY <1>2 DEF RowInv, OverlaysHoldOwn
    <2> QED BY <1>1, <1>4, <1>5, <2>1 DEF Visible
<1>11. SnapshotPlusOwnWrites'
    BY <1>1, <1>4, <1>5 DEF RowInv, SnapshotPlusOwnWrites
<1> QED BY <1>3, <1>6, <1>7, <1>9, <1>10, <1>11 DEF RowInv

LEMMA RollbackKeepsRows ==
    ASSUME RowInv, NEW t \in Txs, Rollback(t)
    PROVE  RowInv'
<1>1. /\ txState[t] = "active"
      /\ overlays' = [overlays EXCEPT ![t] = NoStore]
      /\ txState' = [txState EXCEPT ![t] = "rolledback"]
      /\ UNCHANGED <<tables, connected, writes, snapshot, own, stagedBy, rivals>>
    BY DEF Rollback, historyVars
<1>2. RowTypeOK'
    BY <1>1 DEF RowInv, RowTypeOK
<1>3. overlays'[t] = NoStore /\ txState'[t] = "rolledback"
    BY <1>1 DEF RowInv, RowTypeOK
<1>4. \A u \in Txs : u # t => overlays'[u] = overlays[u] /\ txState'[u] = txState[u]
    BY <1>1 DEF RowInv, RowTypeOK
<1>5. OverlayWhileOpen' /\ NothingYet'
    BY <1>1, <1>3, <1>4 DEF RowInv, OverlayWhileOpen, NothingYet
<1>6. NumberedByIssue'
    BY <1>1, <1>3, <1>4 DEF RowInv, NumberedByIssue
<1>7. OverlaysHoldOwn' /\ TablesHoldCommitted'
    BY <1>1, <1>3, <1>4 DEF RowInv, OverlaysHoldOwn, TablesHoldCommitted, Visible
<1>8. SnapshotPlusOwnWrites'
    BY <1>1, <1>3, <1>4 DEF RowInv, SnapshotPlusOwnWrites
<1> QED BY <1>2, <1>5, <1>6, <1>7, <1>8 DEF RowInv

LEMMA EndFailsKeepsRows ==
    ASSUME RowInv, NEW t \in Txs, EndFails(t)
    PROVE  RowInv'
<1>1. /\ txState[t] = "active"
      /\ txState' = [txState EXCEPT ![t] = "lost"]
      /\ UNCHANGED <<tables, overlays, connected, writes, snapshot, own, stagedBy, rivals>>
    BY DEF EndFails, serverVars, historyVars
<1>2. RowTypeOK'
    BY <1>1 DEF RowInv, RowTypeOK
<1>3. txState'[t] = "lost" /\ \A u \in Txs : u # t => txState'[u] = txState[u]
    BY <1>1 DEF RowInv, RowTypeOK
<1>4. OverlayWhileOpen' /\ NothingYet' /\ NumberedByIssue'
    BY <1>1, <1>3 DEF RowInv, OverlayWhileOpen, NothingYet, NumberedByIssue
<1>5. OverlaysHoldOwn' /\ TablesHoldCommitted'
    BY <1>1, <1>3 DEF RowInv, OverlaysHoldOwn, TablesHoldCommitted, Visible
<1>6. SnapshotPlusOwnWrites'
    BY <1>1, <1>3 DEF RowInv, SnapshotPlusOwnWrites
<1> QED BY <1>2, <1>4, <1>5, <1>6 DEF RowInv

rowVars == <<tables, overlays, txState, writes, snapshot, own, stagedBy, rivals>>

\* Reading, streaming and closing the client leave the rows alone.
LEMMA OthersKeepRows ==
    ASSUME RowInv, UNCHANGED rowVars, connected' \in BOOLEAN
    PROVE  RowInv'
BY DEF rowVars, RowInv, RowTypeOK, OverlayWhileOpen, NothingYet, NumberedByIssue,
       OverlaysHoldOwn, TablesHoldCommitted, Visible, SnapshotPlusOwnWrites

LEMMA RowStep ==
    ASSUME RowInv, [Next]_vars
    PROVE  RowInv'
<1>1. ASSUME NEW src \in Sources, Insert(src) \/ Update(src) \/ Delete(src) \/ Upsert(src)
      PROVE  RowInv'
    BY <1>1, InsertKeepsRows, UpdateKeepsRows, DeleteKeepsRows, UpsertKeepsRows
<1>2. ASSUME NEW t \in Txs, Begin(t) \/ Commit(t) \/ Rollback(t) \/ EndFails(t)
      PROVE  RowInv'
    BY <1>2, BeginKeepsRows, CommitKeepsRows, RollbackKeepsRows, EndFailsKeepsRows
<1>3. ASSUME NEW s \in Streams,
             (\E src \in Sources : Open(s, src)) \/ Fetch(s) \/ Leave(s) \/ StreamFails(s)
      PROVE  RowInv'
    <2>1. UNCHANGED <<rowVars, connected>>
        BY <1>3 DEF Open, Fetch, Leave, StreamFails, rowVars, serverVars, clientVars,
                    historyVars
    <2> QED BY <2>1, OthersKeepRows DEF RowInv, RowTypeOK
<1>4. CASE CloseClient
    <2>1. UNCHANGED rowVars /\ connected' = FALSE
        BY <1>4 DEF CloseClient, rowVars, serverVars, historyVars
    <2> QED BY <2>1, OthersKeepRows
<1>5. CASE UNCHANGED vars
    <2>1. UNCHANGED <<rowVars, connected>>
        BY <1>5 DEF vars, rowVars, serverVars, clientVars, historyVars
    <2> QED BY <2>1, OthersKeepRows DEF RowInv, RowTypeOK
<1> QED BY <1>1, <1>2, <1>3, <1>4, <1>5 DEF Next

LEMMA RowInvariant == Spec => []RowInv
<1>1. Init => RowInv
    <2> SUFFICES ASSUME Init PROVE RowInv
        OBVIOUS
    <2>1. tables \in Stores
        BY WritesAssumption DEF Init, Stores, NoRow
    <2>2. \A k \in Keys : tables[k] \in {NoRow, 0}
        BY DEF Init
    <2>3. RowTypeOK
        BY <2>1, WritesAssumption DEF Init, RowTypeOK, Sources, Untouched
    <2>4. OverlayWhileOpen /\ NothingYet /\ SnapshotPlusOwnWrites
        BY DEF Init, OverlayWhileOpen, NothingYet, SnapshotPlusOwnWrites
    <2>5. NumberedByIssue
        BY <2>2 DEF Init, NumberedByIssue, NoRow
    <2>6. OverlaysHoldOwn /\ TablesHoldCommitted
        BY <2>2 DEF Init, OverlaysHoldOwn, TablesHoldCommitted, Visible, NoRow
    <2> QED BY <2>3, <2>4, <2>5, <2>6 DEF RowInv
<1>2. RowInv /\ [Next]_vars => RowInv'
    BY RowStep
<1> QED BY <1>1, <1>2, PTL DEF Spec

\* What an active transaction reads is the state it began on plus its own
\* writes, whatever other transactions and autonomous statements did meanwhile.
THEOREM ReadsOwnWritesOverSnapshot == Spec => []SnapshotPlusOwnWrites
<1>1. RowInv => SnapshotPlusOwnWrites
    BY DEF RowInv
<1> QED BY RowInvariant, <1>1, PTL

\* What a transaction wrote is never among the committed rows unless it
\* committed: a rollback, or an end that failed, leaves no trace.
THEOREM OnlyCommittedIsVisible == Spec => []UncommittedNeverVisible
<1>1. RowInv => UncommittedNeverVisible
    BY AutonomousAssumption
    DEF RowInv, TablesHoldCommitted, Visible, UncommittedNeverVisible
<1> QED BY RowInvariant, <1>1, PTL

-----------------------------------------------------------------------------
(* The streamed queries.                                                      *)

\* No two streams hold the same cursor.
TokensApart ==
    \A s, u \in Streams : s # u /\ token[s] = token[u] => token[s] = 0

\* A token was given to a stream that has started.
OneTokenEach == cursorSeq <= Cardinality({s \in Streams : spc[s] # "idle"})

StreamInv ==
    /\ StreamTypeOK
    /\ TokensApart
    /\ OneTokenEach
    /\ StreamIsSnapshot
    /\ CursorsReleased

LEMMA MinOfTwo ==
    ASSUME NEW a \in Nat, NEW b \in Nat
    PROVE  Min({a, b}) = IF a <= b THEN a ELSE b
<1>1. \E x \in {a, b} : \A y \in {a, b} : x <= y
    OBVIOUS
<1>2. Min({a, b}) \in {a, b} /\ \A y \in {a, b} : Min({a, b}) <= y
    BY <1>1 DEF Min
<1> QED BY <1>2

\* A page and what it leaves are the rows, in their order.
LEMMA PageAndRest ==
    ASSUME NEW S, NEW rows \in Seq(S)
    PROVE  /\ Take(rows) \in Seq(S) /\ Rest(rows) \in Seq(S)
           /\ Take(rows) \o Rest(rows) = rows
<1> USE BatchAssumption
<1>1. Len(rows) \in Nat /\ \A i \in 1 .. Len(rows) : rows[i] \in S
    BY LenProperties, ElementOfSeq
<1>2. CASE Len(rows) <= BatchSize
    <2>1. Min({BatchSize, Len(rows)}) = Len(rows)
        BY <1>1, <1>2, MinOfTwo
    <2>2. Take(rows) = rows
        BY <2>1, SubSeqFull DEF Take
    <2>3. Rest(rows) = <<>>
        BY <1>1, <1>2, SubSeqEmpty DEF Rest
    <2> QED BY <2>2, <2>3, ConcatEmptySeq, EmptySeq
<1>3. CASE BatchSize < Len(rows)
    <2>1. Min({BatchSize, Len(rows)}) = BatchSize
        BY <1>1, <1>3, MinOfTwo
    <2>2. Take(rows) = SubSeq(rows, 1, BatchSize) /\ Rest(rows) = SubSeq(rows, BatchSize + 1, Len(rows))
        BY <2>1 DEF Take, Rest
    <2>3. Take(rows) \in Seq(S) /\ Rest(rows) \in Seq(S)
        <3>1. \A i \in 1 .. BatchSize : rows[i] \in S
            BY <1>1, <1>3
        <3>2. \A i \in BatchSize + 1 .. Len(rows) : rows[i] \in S
            BY <1>1, <1>3
        <3>3. SubSeq(rows, 1, BatchSize) \in Seq(S)
            BY <3>1, SubSeqProperties
        <3>4. SubSeq(rows, BatchSize + 1, Len(rows)) \in Seq(S)
            BY <1>1, <3>2, SubSeqProperties
        <3> QED BY <2>2, <3>3, <3>4
    <2>4. SubSeq(rows, 1, BatchSize) \o SubSeq(rows, BatchSize + 1, Len(rows))
              = SubSeq(rows, 1, Len(rows))
        <3>1. /\ 1 \in 1 .. Len(rows) + 1 /\ BatchSize \in 1 - 1 .. Len(rows)
              /\ Len(rows) \in BatchSize .. Len(rows)
            BY <1>1, <1>3
        <3> QED BY <3>1, ConcatAdjacentSubSeq
    <2> QED BY <2>2, <2>3, <2>4, SubSeqFull
<1> QED BY <1>1, <1>2, <1>3

\* A query matches rows of its store, each key at most once.
LEMMA MatchesAreRows ==
    ASSUME RowTypeOK, NEW src \in Sources, NEW filter \in SUBSET Keys,
           NEW order \in SetToSeqs({k \in filter : Store(src)[k] # NoRow})
    PROVE  [i \in DOMAIN order |-> <<order[i], Store(src)[order[i]]>>] \in Seq(Rows)
<1> DEFINE found == {k \in filter : Store(src)[k] # NoRow}
           n == Cardinality(found)
<1>1. n \in Nat
    BY FS_Subset, FS_CardinalityType, FiniteAssumption
<1>2. order \in [1 .. n -> found]
    BY DEF SetToSeqs
<1>3. \A k \in found : <<k, Store(src)[k]>> \in Rows
    BY StoreIsStore, WritesAssumption DEF Rows, Stores, NoRow
<1> HIDE DEF found, n
<1>4. [i \in DOMAIN order |-> <<order[i], Store(src)[order[i]]>>] \in [1 .. n -> Rows]
    BY <1>2, <1>3
<1> QED BY <1>1, <1>4

\* A stream that starts adds one to those that have; one that had started does
\* not go back.
LEMMA StartCounts ==
    ASSUME StreamTypeOK, NEW s \in Streams, NEW stage,
           stage # "idle", spc' = [spc EXCEPT ![s] = stage]
    PROVE  Cardinality({u \in Streams : spc'[u] # "idle"}) =
               IF spc[s] = "idle" THEN Cardinality({u \in Streams : spc[u] # "idle"}) + 1
                                  ELSE Cardinality({u \in Streams : spc[u] # "idle"})
<1> DEFINE started == {u \in Streams : spc[u] # "idle"}
<1>1. IsFiniteSet(started) /\ Cardinality(started) \in Nat
    BY FS_Subset, FS_CardinalityType, FiniteAssumption
<1>2. {u \in Streams : spc'[u] # "idle"} = started \cup {s}
    BY DEF StreamTypeOK
<1>3. s \in started <=> spc[s] # "idle"
    OBVIOUS
<1> HIDE DEF started
<1>4. Cardinality(started \cup {s}) = IF s \in started THEN Cardinality(started)
                                                       ELSE Cardinality(started) + 1
    BY <1>1, FS_AddElement
<1> QED BY <1>2, <1>3, <1>4 DEF started

LEMMA OpenKeepsStreams ==
    ASSUME RowTypeOK, StreamInv, NEW s \in Streams, NEW src \in Sources, Open(s, src)
    PROVE  StreamInv'
<1>1. /\ connected /\ spc[s] = "idle" /\ connected' = connected
      /\ cursorSeq \in Nat /\ DOMAIN cursors \subseteq 1 .. cursorSeq
    BY DEF Open, CanIssue, clientVars, StreamInv, StreamTypeOK
<1>2. PICK filter, order, rows :
          /\ filter \in SUBSET Keys
          /\ order \in SetToSeqs({k \in filter : Store(src)[k] # NoRow})
          /\ rows = [i \in DOMAIN order |-> <<order[i], Store(src)[order[i]]>>]
          /\ matched' = [matched EXCEPT ![s] = rows]
          /\ got' = [got EXCEPT ![s] = Take(rows)]
          /\ \/ /\ Rest(rows) # <<>>
                /\ cursorSeq' = cursorSeq + 1
                /\ cursors' = [c \in DOMAIN cursors \cup {cursorSeq + 1} |->
                                  IF c = cursorSeq + 1 THEN Rest(rows) ELSE cursors[c]]
                /\ token' = [token EXCEPT ![s] = cursorSeq + 1]
                /\ spc' = [spc EXCEPT ![s] = "streaming"]
             \/ /\ Rest(rows) = <<>>
                /\ spc' = [spc EXCEPT ![s] = "drained"]
                /\ UNCHANGED <<cursors, cursorSeq, token>>
    BY DEF Open
<1>3. /\ rows \in Seq(Rows) /\ Take(rows) \in Seq(Rows) /\ Rest(rows) \in Seq(Rows)
      /\ Take(rows) \o Rest(rows) = rows
    BY <1>2, MatchesAreRows, PageAndRest
<1>4. /\ matched'[s] = rows /\ got'[s] = Take(rows)
      /\ \A u \in Streams : u # s => matched'[u] = matched[u] /\ got'[u] = got[u]
      /\ matched' \in [Streams -> Seq(Rows)] /\ got' \in [Streams -> Seq(Rows)]
    BY <1>2, <1>3 DEF StreamInv, StreamTypeOK
<1>5. ASSUME NEW c \in DOMAIN cursors
      PROVE  \E u \in Streams : u # s /\ token[u] = c /\ spc[u] = "streaming"
    BY <1>1 DEF StreamInv, CursorsReleased
<1>6. CASE /\ Rest(rows) # <<>>
           /\ cursorSeq' = cursorSeq + 1
           /\ cursors' = [c \in DOMAIN cursors \cup {cursorSeq + 1} |->
                             IF c = cursorSeq + 1 THEN Rest(rows) ELSE cursors[c]]
           /\ token' = [token EXCEPT ![s] = cursorSeq + 1]
           /\ spc' = [spc EXCEPT ![s] = "streaming"]
    <2>1. /\ token'[s] = cursorSeq + 1 /\ spc'[s] = "streaming"
          /\ \A u \in Streams : u # s => token'[u] = token[u] /\ spc'[u] = spc[u]
        BY <1>6 DEF StreamInv, StreamTypeOK
    <2>2. \A u \in Streams : token[u] \in 0 .. cursorSeq
        BY DEF StreamInv, StreamTypeOK
    <2>3. /\ DOMAIN cursors' = DOMAIN cursors \cup {cursorSeq + 1}
          /\ cursors'[cursorSeq + 1] = Rest(rows)
          /\ \A c \in DOMAIN cursors : cursors'[c] = cursors[c]
        BY <1>1, <1>6
    <2>4. StreamTypeOK'
        <3>1. token' \in [Streams -> 0 .. cursorSeq']
            BY <1>1, <1>6, <2>2 DEF StreamInv, StreamTypeOK
        <3>2. DOMAIN cursors' \subseteq 1 .. cursorSeq'
            BY <1>1, <1>6, <2>3
        <3>3. \A c \in DOMAIN cursors' : cursors'[c] \in Seq(Rows) /\ cursors'[c] # <<>>
            BY <1>3, <1>6, <2>3 DEF StreamInv, StreamTypeOK
        <3>4. spc' \in [Streams -> {"idle", "streaming", "drained", "left", "failed"}]
            BY <1>6 DEF StreamInv, StreamTypeOK
        <3>5. cursorSeq' \in Nat
            BY <1>1, <1>6
        <3> QED BY <1>4, <3>1, <3>2, <3>3, <3>4, <3>5 DEF StreamTypeOK
    <2>5. TokensApart'
        BY <1>1, <2>1, <2>2 DEF StreamInv, TokensApart
    <2>6. OneTokenEach'
        <3>1. Cardinality({u \in Streams : spc'[u] # "idle"})
                  = Cardinality({u \in Streams : spc[u] # "idle"}) + 1
            BY <1>1, <1>6, StartCounts DEF StreamInv
        <3>2. Cardinality({u \in Streams : spc[u] # "idle"}) \in Nat
            BY FS_Subset, FS_CardinalityType, FiniteAssumption
        <3> QED BY <1>1, <1>6, <3>1, <3>2 DEF StreamInv, OneTokenEach
    <2>7. StreamIsSnapshot'
        <3> SUFFICES ASSUME NEW u \in Streams
                     PROVE  /\ spc'[u] = "streaming" =>
                                   /\ token'[u] \in DOMAIN cursors'
                                   /\ got'[u] \o cursors'[token'[u]] = matched'[u]
                            /\ spc'[u] = "drained" => got'[u] = matched'[u]
            BY DEF StreamIsSnapshot
        <3>1. CASE u = s
            BY <1>3, <1>4, <2>1, <2>3, <3>1
        <3>2. CASE u # s
            BY <1>4, <2>1, <2>3, <3>2 DEF StreamInv, StreamIsSnapshot
        <3> QED BY <3>1, <3>2
    <2>8. CursorsReleased'
        BY <1>5, <2>1, <2>3 DEF CursorsReleased
    <2> QED BY <2>4, <2>5, <2>6, <2>7, <2>8 DEF StreamInv
<1>7. CASE /\ Rest(rows) = <<>>
           /\ spc' = [spc EXCEPT ![s] = "drained"]
           /\ UNCHANGED <<cursors, cursorSeq, token>>
    <2>1. spc'[s] = "drained" /\ \A u \in Streams : u # s => spc'[u] = spc[u]
        BY <1>7 DEF StreamInv, StreamTypeOK
    <2>2. Take(rows) = rows
        BY <1>3, <1>7, ConcatEmptySeq
    <2>3. StreamTypeOK'
        BY <1>4, <1>7 DEF StreamInv, StreamTypeOK
    <2>4. TokensApart'
        BY <1>7 DEF StreamInv, TokensApart
    <2>5. OneTokenEach'
        <3>1. Cardinality({u \in Streams : spc'[u] # "idle"})
                  = Cardinality({u \in Streams : spc[u] # "idle"}) + 1
            BY <1>1, <1>7, StartCounts DEF StreamInv
        <3>2. Cardinality({u \in Streams : spc[u] # "idle"}) \in Nat
            BY FS_Subset, FS_CardinalityType, FiniteAssumption
        <3> QED BY <1>1, <1>7, <3>1, <3>2 DEF StreamInv, OneTokenEach
    <2>6. StreamIsSnapshot'
        BY <1>4, <1>7, <2>1, <2>2 DEF StreamInv, StreamIsSnapshot
    <2>7. CursorsReleased'
        BY <1>5, <1>7, <2>1 DEF CursorsReleased
    <2> QED BY <2>3, <2>4, <2>5, <2>6, <2>7 DEF StreamInv
<1> QED BY <1>2, <1>6, <1>7

\* A stream that goes on keeps the others' places: its cursor is not theirs.
LEMMA FetchKeepsStreams ==
    ASSUME StreamInv, NEW s \in Streams, Fetch(s)
    PROVE  StreamInv'
<1> DEFINE rows == cursors[token[s]]
<1>1. /\ spc[s] = "streaming" /\ token[s] \in DOMAIN cursors /\ connected
      /\ UNCHANGED <<cursorSeq, connected, matched>>
      /\ got' = [got EXCEPT ![s] = @ \o Take(rows)]
      /\ \/ /\ Rest(rows) # <<>>
            /\ cursors' = [cursors EXCEPT ![token[s]] = Rest(rows)]
            /\ UNCHANGED <<token, spc>>
         \/ /\ Rest(rows) = <<>>
            /\ cursors' = Without(token[s])
            /\ token' = [token EXCEPT ![s] = 0]
            /\ spc' = [spc EXCEPT ![s] = "drained"]
    BY DEF Fetch, clientVars
<1>2. rows \in Seq(Rows) /\ cursorSeq \in Nat /\ DOMAIN cursors \subseteq 1 .. cursorSeq
    BY <1>1 DEF StreamInv, StreamTypeOK
<1> DEFINE page == Take(rows)
           left == Rest(rows)
<1>3. page \in Seq(Rows) /\ left \in Seq(Rows) /\ page \o left = rows
    BY <1>2, PageAndRest
<1>4. got[s] \in Seq(Rows) /\ got[s] \o rows = matched[s]
    BY <1>1 DEF StreamInv, StreamTypeOK, StreamIsSnapshot
<1>5. (got[s] \o page) \in Seq(Rows) /\ (got[s] \o page) \o left = matched[s]
    <2> HIDE DEF rows, page, left
    <2>1. \A a, b, c \in Seq(Rows) : (a \o b) \o c = a \o (b \o c)
        BY ConcatAssociative
    <2>2. got[s] \o page \in Seq(Rows)
        BY <1>3, <1>4, ConcatProperties
    <2> QED BY <1>3, <1>4, <2>1, <2>2
<1>6. /\ got' \in [Streams -> Seq(Rows)] /\ got'[s] = got[s] \o page
      /\ \A u \in Streams : u # s => got'[u] = got[u]
    <2> HIDE DEF page
    <2>1. got' = [got EXCEPT ![s] = got[s] \o page]
        BY <1>1 DEF page
    <2> QED BY <1>5, <2>1 DEF StreamInv, StreamTypeOK
<1>7. ASSUME NEW u \in Streams, u # s PROVE token[u] # token[s]
    BY <1>1, <1>2, <1>7 DEF StreamInv, TokensApart
<1> HIDE DEF rows, page
<1>8. CASE /\ left # <<>>
           /\ cursors' = [cursors EXCEPT ![token[s]] = left]
           /\ UNCHANGED <<token, spc>>
    <2>1. /\ DOMAIN cursors' = DOMAIN cursors /\ cursors'[token[s]] = left
          /\ \A c \in DOMAIN cursors : c # token[s] => cursors'[c] = cursors[c]
        BY <1>1, <1>8
    <2> HIDE DEF left
    <2>2. StreamTypeOK'
        BY <1>1, <1>3, <1>6, <1>8, <2>1 DEF StreamInv, StreamTypeOK
    <2>3. TokensApart' /\ OneTokenEach' /\ CursorsReleased'
        BY <1>1, <1>8, <2>1 DEF StreamInv, TokensApart, OneTokenEach, CursorsReleased
    <2>4. StreamIsSnapshot'
        BY <1>1, <1>5, <1>6, <1>7, <1>8, <2>1 DEF StreamInv, StreamIsSnapshot
    <2> QED BY <2>2, <2>3, <2>4 DEF StreamInv
<1>9. CASE /\ left = <<>>
           /\ cursors' = Without(token[s])
           /\ token' = [token EXCEPT ![s] = 0]
           /\ spc' = [spc EXCEPT ![s] = "drained"]
    <2>1. /\ DOMAIN cursors' = DOMAIN cursors \ {token[s]}
          /\ \A c \in DOMAIN cursors : c # token[s] => cursors'[c] = cursors[c]
        BY <1>9 DEF Without
    <2>2. /\ token'[s] = 0 /\ spc'[s] = "drained"
          /\ \A u \in Streams : u # s => token'[u] = token[u] /\ spc'[u] = spc[u]
        BY <1>9 DEF StreamInv, StreamTypeOK
    <2>3. got'[s] = matched[s]
        BY <1>5, <1>6, <1>9, ConcatEmptySeq
    <2> HIDE DEF left
    <2>4. StreamTypeOK'
        <3>1. token' \in [Streams -> 0 .. cursorSeq] /\ cursorSeq' = cursorSeq
            BY <1>1, <1>2, <1>9 DEF StreamInv, StreamTypeOK
        <3>2. spc' \in [Streams -> {"idle", "streaming", "drained", "left", "failed"}]
            BY <1>9 DEF StreamInv, StreamTypeOK
        <3>3. \A c \in DOMAIN cursors' : cursors'[c] \in Seq(Rows) /\ cursors'[c] # <<>>
            BY <2>1 DEF StreamInv, StreamTypeOK
        <3> QED BY <1>1, <1>2, <1>6, <2>1, <3>1, <3>2, <3>3 DEF StreamInv, StreamTypeOK
    <2>5. TokensApart'
        BY <2>2 DEF StreamInv, TokensApart
    <2>6. OneTokenEach'
        <3>1. Cardinality({u \in Streams : spc'[u] # "idle"})
                  = Cardinality({u \in Streams : spc[u] # "idle"})
            BY <1>1, <1>9, StartCounts DEF StreamInv
        <3> QED BY <1>1, <3>1 DEF StreamInv, OneTokenEach
    <2>7. StreamIsSnapshot'
        <3> SUFFICES ASSUME NEW u \in Streams
                     PROVE  /\ spc'[u] = "streaming" =>
                                   /\ token'[u] \in DOMAIN cursors'
                                   /\ got'[u] \o cursors'[token'[u]] = matched'[u]
                            /\ spc'[u] = "drained" => got'[u] = matched'[u]
            BY DEF StreamIsSnapshot
        <3>1. matched' = matched
            BY <1>1
        <3>2. CASE u = s
            BY <2>2, <2>3, <3>1, <3>2
        <3>3. CASE u # s
            <4>1. /\ spc'[u] = spc[u] /\ token'[u] = token[u] /\ got'[u] = got[u]
                  /\ token[u] # token[s]
                BY <1>6, <1>7, <2>2, <3>3
            <4> QED BY <2>1, <3>1, <4>1 DEF StreamInv, StreamIsSnapshot
        <3> QED BY <3>2, <3>3
    <2>8. CursorsReleased'
        BY <1>1, <2>1, <2>2 DEF StreamInv, CursorsReleased
    <2> QED BY <2>4, <2>5, <2>6, <2>7, <2>8 DEF StreamInv
<1> QED BY <1>1, <1>8, <1>9 DEF rows

LEMMA LeaveKeepsStreams ==
    ASSUME StreamInv, NEW s \in Streams, Leave(s)
    PROVE  StreamInv'
<1>1. /\ spc[s] = "streaming" /\ UNCHANGED <<cursorSeq, connected, token, got, matched>>
      /\ cursors' = Without(token[s]) /\ spc' = [spc EXCEPT ![s] = "left"]
      /\ token[s] \in DOMAIN cursors /\ DOMAIN cursors \subseteq 1 .. cursorSeq
      /\ cursorSeq \in Nat
    BY DEF Leave, clientVars, StreamInv, StreamTypeOK, StreamIsSnapshot
<1>2. /\ DOMAIN cursors' = DOMAIN cursors \ {token[s]}
      /\ \A c \in DOMAIN cursors : c # token[s] => cursors'[c] = cursors[c]
    BY <1>1 DEF Without
<1>3. spc'[s] = "left" /\ \A u \in Streams : u # s => spc'[u] = spc[u]
    BY <1>1 DEF StreamInv, StreamTypeOK
<1>4. ASSUME NEW u \in Streams, u # s PROVE token[u] # token[s]
    BY <1>1, <1>4 DEF StreamInv, TokensApart
<1>5. StreamTypeOK'
    BY <1>1, <1>2 DEF StreamInv, StreamTypeOK
<1>6. TokensApart' /\ OneTokenEach'
    BY <1>1, StartCounts DEF StreamInv, TokensApart, OneTokenEach
<1>7. StreamIsSnapshot'
    BY <1>1, <1>2, <1>3, <1>4 DEF StreamInv, StreamIsSnapshot
<1>8. CursorsReleased'
    BY <1>1, <1>2, <1>3 DEF StreamInv, CursorsReleased
<1> QED BY <1>5, <1>6, <1>7, <1>8 DEF StreamInv

LEMMA FailKeepsStreams ==
    ASSUME StreamInv, NEW s \in Streams, StreamFails(s)
    PROVE  StreamInv'
<1>1. /\ ~connected /\ spc[s] = "streaming" /\ spc' = [spc EXCEPT ![s] = "failed"]
      /\ UNCHANGED <<cursors, cursorSeq, connected, token, got, matched>>
    BY DEF StreamFails, serverVars, clientVars
<1>2. spc'[s] = "failed" /\ \A u \in Streams : u # s => spc'[u] = spc[u]
    BY <1>1 DEF StreamInv, StreamTypeOK
<1>3. StreamTypeOK'
    BY <1>1 DEF StreamInv, StreamTypeOK
<1>4. TokensApart' /\ OneTokenEach'
    BY <1>1, StartCounts DEF StreamInv, TokensApart, OneTokenEach
<1>5. StreamIsSnapshot' /\ CursorsReleased'
    BY <1>1, <1>2 DEF StreamInv, StreamIsSnapshot, CursorsReleased
<1> QED BY <1>3, <1>4, <1>5 DEF StreamInv

cursorVars == <<cursors, cursorSeq, streamVars>>

\* Mutations and transactions leave the cursors alone; the client only closes.
LEMMA OthersKeepStreams ==
    ASSUME StreamInv, UNCHANGED cursorVars, connected' = connected \/ connected' = FALSE
    PROVE  StreamInv'
BY DEF cursorVars, streamVars, StreamInv, StreamTypeOK, TokensApart, OneTokenEach,
       StreamIsSnapshot, CursorsReleased

LEMMA StreamStep ==
    ASSUME RowTypeOK, StreamInv, [Next]_vars
    PROVE  StreamInv'
<1>1. ASSUME NEW src \in Sources, Insert(src) \/ Update(src) \/ Delete(src) \/ Upsert(src)
      PROVE  StreamInv'
    <2>1. UNCHANGED <<cursorVars, connected>>
        BY <1>1 DEF Insert, Update, Delete, Upsert, Mutate, cursorVars, clientVars
    <2> QED BY <2>1, OthersKeepStreams
<1>2. ASSUME NEW t \in Txs, Begin(t) \/ Commit(t) \/ Rollback(t) \/ EndFails(t)
      PROVE  StreamInv'
    <2>1. UNCHANGED <<cursorVars, connected>>
        BY <1>2 DEF Begin, Commit, Rollback, EndFails, cursorVars, serverVars
    <2> QED BY <2>1, OthersKeepStreams
<1>3. ASSUME NEW s \in Streams,
             (\E src \in Sources : Open(s, src)) \/ Fetch(s) \/ Leave(s) \/ StreamFails(s)
      PROVE  StreamInv'
    BY <1>3, OpenKeepsStreams, FetchKeepsStreams, LeaveKeepsStreams, FailKeepsStreams
<1>4. CASE CloseClient
    BY <1>4, OthersKeepStreams DEF CloseClient, cursorVars, serverVars
<1>5. CASE UNCHANGED vars
    BY <1>5, OthersKeepStreams DEF vars, cursorVars, serverVars, clientVars
<1> QED BY <1>1, <1>2, <1>3, <1>4, <1>5 DEF Next

LEMMA StreamInvariant == Spec => []StreamInv
<1>1. Init => StreamInv
    <2> SUFFICES ASSUME Init PROVE StreamInv
        OBVIOUS
    <2>1. StreamTypeOK /\ TokensApart /\ StreamIsSnapshot /\ CursorsReleased
        BY EmptySeq DEF Init, StreamTypeOK, TokensApart, StreamIsSnapshot, CursorsReleased
    <2> DEFINE started == {s \in Streams : spc[s] # "idle"}
    <2>2. started = {} /\ cursorSeq = 0
        BY DEF Init
    <2>3. OneTokenEach
        <3> HIDE DEF started
        <3>1. Cardinality(started) = 0
            BY <2>2, FS_EmptySet
        <3> QED BY <2>2, <3>1 DEF OneTokenEach, started
    <2> QED BY <2>1, <2>3 DEF StreamInv
<1>2. RowInv /\ StreamInv /\ [Next]_vars => StreamInv'
    BY StreamStep DEF RowInv
<1> QED BY RowInvariant, <1>1, <1>2, PTL DEF Spec

\* The server's state and the history stay within their types; no stream takes
\* more than one token.
THEOREM ServerTypes == Spec => []TypeOK
<1>1. RowInv /\ StreamInv => TypeOK
    <2> SUFFICES ASSUME RowInv, StreamInv PROVE TypeOK
        OBVIOUS
    <2>1. /\ Cardinality({s \in Streams : spc[s] # "idle"}) <= Cardinality(Streams)
          /\ Cardinality({s \in Streams : spc[s] # "idle"}) \in Nat
          /\ Cardinality(Streams) \in Nat
        BY FS_Subset, FS_CardinalityType, FiniteAssumption
    <2>2. cursorSeq \in 0 .. Cardinality(Streams)
        BY <2>1 DEF StreamInv, StreamTypeOK, OneTokenEach
    <2> QED BY <2>2 DEF RowInv, RowTypeOK, StreamInv, StreamTypeOK, TypeOK
<1> QED BY RowInvariant, StreamInvariant, <1>1, PTL

\* A streamed query delivers the rows it matched when it was opened, each once
\* and in order, whatever is written, committed or rolled back between its pages.
THEOREM StreamsAreSnapshots == Spec => []StreamIsSnapshot
<1>1. StreamInv => StreamIsSnapshot
    BY DEF StreamInv
<1> QED BY StreamInvariant, <1>1, PTL

\* A cursor on the server has one stream that will fetch or release it; only
\* closing the client can leave one behind.
THEOREM NoCursorLeaks == Spec => []CursorsReleased
<1>1. StreamInv => CursorsReleased
    BY DEF StreamInv
<1> QED BY StreamInvariant, <1>1, PTL

-----------------------------------------------------------------------------
(* The clauses of a query.  The invariant needs only what the builders let a   *)
(* query be: a query of one kind has none of another kind's clauses, and       *)
(* snippets come with a search they are snippets of.  What is left is one      *)
(* argument per backend and operation: a clause that the client and the        *)
(* backend did not refuse is read by the translation of that backend.          *)

Queries == [kind : {"select", "update", "delete", "traverse"}, asks : SUBSET C!Clauses,
            filters : SUBSET {"key", "other", "several"}, limit : Nat \cup {None},
            analyzer : [C!Analyzed -> C!Presets]]

QueryOK ==
    /\ cQuery \in Queries
    /\ "set" \in cQuery.asks => cQuery.kind = "update"
    /\ cQuery.asks \cap {"start", "steps"} # {} => cQuery.kind = "traverse"
    /\ "snippet" \in cQuery.asks => cQuery.asks \cap C!Analyzed # {}

ClauseInv == QueryOK /\ C!AskedIsAnswered

\* A builder adds clauses to what the query asks for, and takes only "profile" back.
Grows(more, less) ==
    /\ cQuery' \in Queries /\ cQuery'.kind = cQuery.kind
    /\ cQuery'.asks = (cQuery.asks \cup more) \ less
    /\ cResult' = C!NoResult

\* What a builder adds must suit the kind of the query; the answer is reset.
LEMMA GrowingKeeps ==
    ASSUME QueryOK, NEW more \in SUBSET C!Clauses, NEW less \in SUBSET {"profile"}, Grows(more, less),
           "set" \in more => cQuery.kind = "update",
           more \cap {"start", "steps"} # {} => cQuery.kind = "traverse",
           "snippet" \in more => cQuery.asks \cap C!Analyzed # {}
    PROVE  ClauseInv'
<1>1. QueryOK'
    BY DEF QueryOK, Grows, C!Analyzed
<1>2. C!AskedIsAnswered'
    BY DEF Grows, C!NoResult, C!AskedIsAnswered
<1> QED BY <1>1, <1>2 DEF ClauseInv

\* A search that also sets a limit.
LEMMA LimitedAddition ==
    ASSUME cQuery \in Queries, NEW more \in SUBSET C!Clauses, NEW n \in Nat \cup {None}
    PROVE  LET q == C!Limited(C!Adding(more), n)
           IN  q \in Queries /\ q.asks = cQuery.asks \cup more /\ q.kind = cQuery.kind
<1> DEFINE added == C!Adding(more)
<1>1. added \in Queries /\ added.asks = cQuery.asks \cup more /\ added.kind = cQuery.kind
    BY DEF C!Adding, Queries
<1> HIDE DEF added
<1>2. /\ C!Limited(added, n) \in Queries
      /\ C!Limited(added, n).asks = added.asks /\ C!Limited(added, n).kind = added.kind
    BY <1>1 DEF C!Limited, Queries
<1> QED BY <1>1, <1>2 DEF added

\* Builders that set something besides clauses: filters, limits, analyzers.
LEMMA BuildersKeep ==
    ASSUME QueryOK,
           \/ \E f \in {"key", "other"} : C!Where(f)
           \/ \E n \in {0, 5} : C!Limit(n)
           \/ \E n \in {None, 10} : C!Nearest(n)
           \/ \E approximate \in BOOLEAN : C!SearchVector(10, approximate)
           \/ \E n \in {None, 10}, preset \in C!Presets : C!SearchText(n, preset)
           \/ \E preset \in C!Presets : C!SearchHybrid(10, preset)
           \/ \E preset \in C!Presets \ {None} : C!Analyzer(preset)
    PROVE  ClauseInv'
<1>0. cQuery \in Queries
    BY DEF QueryOK
<1>1. ASSUME NEW f \in {"key", "other"}, C!Where(f) PROVE ClauseInv'
    <2>1. Grows({}, {})
        BY <1>0, <1>1 DEF C!Where, C!Build, Grows, Queries
    <2> QED BY <2>1, GrowingKeeps
<1>2. ASSUME NEW n \in {0, 5}, C!Limit(n) PROVE ClauseInv'
    <2>1. Grows({}, {})
        BY <1>0, <1>2 DEF C!Limit, C!Build, Grows, Queries
    <2> QED BY <2>1, GrowingKeeps
<1>3. ASSUME NEW n \in {None, 10}, C!Nearest(n) PROVE ClauseInv'
    <2>1. {"vector"} \in SUBSET C!Clauses /\ n \in Nat \cup {None}
        BY DEF C!Clauses, C!Searches, C!Ranked
    <2>2. Grows({"vector"}, {})
        BY <1>0, <1>3, <2>1, LimitedAddition DEF C!Nearest, C!Build, Grows
    <2> QED BY <2>1, <2>2, GrowingKeeps
<1>4. ASSUME NEW approximate \in BOOLEAN, C!SearchVector(10, approximate) PROVE ClauseInv'
    <2>1. Grows({"vector"}, {}) \/ Grows({"vector", "vector_ann"}, {})
        BY <1>0, <1>4 DEF C!SearchVector, C!Limited, C!Adding, C!Build, Grows, Queries, C!Clauses,
                          C!Searches, C!Ranked
    <2> QED BY <2>1, GrowingKeeps DEF C!Clauses, C!Searches, C!Ranked
<1>5. ASSUME NEW n \in {None, 10}, NEW preset \in C!Presets, C!SearchText(n, preset) PROVE ClauseInv'
    <2>1. /\ cQuery' = [C!Limited(C!Adding({"text_search"}), n) EXCEPT !.analyzer["text_search"] = preset]
          /\ cQuery.kind = "select" /\ cResult' = C!NoResult
        BY <1>5 DEF C!SearchText, C!Build
    <2> DEFINE before == C!Limited(C!Adding({"text_search"}), n)
    <2>2. before \in Queries /\ before.asks = cQuery.asks \cup {"text_search"} /\ before.kind = cQuery.kind
        <3>1. {"text_search"} \in SUBSET C!Clauses /\ n \in Nat \cup {None}
            BY DEF C!Clauses, C!Searches, C!Ranked
        <3> QED BY <1>0, <3>1, LimitedAddition
    <2> HIDE DEF before
    <2>3. cQuery' = [before EXCEPT !.analyzer["text_search"] = preset]
        BY <2>1 DEF before
    <2>4. Grows({"text_search"}, {})
        BY <1>5, <2>1, <2>2, <2>3 DEF Grows, Queries, C!Analyzed
    <2> QED BY <2>4, GrowingKeeps DEF C!Clauses, C!Searches, C!Ranked
<1>6. ASSUME NEW preset \in C!Presets, C!SearchHybrid(10, preset) PROVE ClauseInv'
    <2>1. /\ cQuery' = [C!Limited(C!Adding({"hybrid"}), 10) EXCEPT !.analyzer["hybrid"] = preset]
          /\ cQuery.kind = "select" /\ cResult' = C!NoResult
        BY <1>6 DEF C!SearchHybrid, C!Build
    <2> DEFINE before == C!Limited(C!Adding({"hybrid"}), 10)
    <2>2. before \in Queries /\ before.asks = cQuery.asks \cup {"hybrid"} /\ before.kind = cQuery.kind
        <3>1. {"hybrid"} \in SUBSET C!Clauses /\ 10 \in Nat \cup {None}
            BY DEF C!Clauses, C!Searches, C!Ranked
        <3> QED BY <1>0, <3>1, LimitedAddition
    <2> HIDE DEF before
    <2>3. cQuery' = [before EXCEPT !.analyzer["hybrid"] = preset]
        BY <2>1 DEF before
    <2>4. Grows({"hybrid"}, {})
        BY <1>6, <2>1, <2>2, <2>3 DEF Grows, Queries, C!Analyzed
    <2> QED BY <2>4, GrowingKeeps DEF C!Clauses, C!Searches, C!Ranked
<1>7. ASSUME NEW preset \in C!Presets \ {None}, C!Analyzer(preset) PROVE ClauseInv'
    <2>1. Grows({}, {})
        BY <1>0, <1>7 DEF C!Analyzer, C!Build, Grows, Queries, C!Analyzed
    <2> QED BY <2>1, GrowingKeeps
<1> QED BY <1>1, <1>2, <1>3, <1>4, <1>5, <1>6, <1>7

\* Builders that only add clauses.
LEMMA ClausesKeep ==
    ASSUME QueryOK,
           \/ C!Select \/ C!OrderBy \/ C!Offset \/ C!Text \/ C!Fusion \/ C!Timeout
           \/ C!Facet \/ C!Metric \/ C!Group \/ C!VectorMetric
           \/ \E on \in BOOLEAN : C!Include(on) \/ C!Profile(on)
           \/ C!Snippets \/ C!Set \/ C!Start \/ C!Out
    PROVE  ClauseInv'
<1>0. cQuery \in Queries
    BY DEF QueryOK
<1>1. ASSUME NEW more \in SUBSET C!Clauses, NEW less \in SUBSET {"profile"}, NEW kinds,
             C!Build(kinds, [cQuery EXCEPT !.asks = (cQuery.asks \cup more) \ less])
      PROVE  Grows(more, less)
    BY <1>0, <1>1 DEF C!Build, Grows, Queries
<1>2. \A more : C!Adding(more) = [cQuery EXCEPT !.asks = (cQuery.asks \cup more) \ {}]
    BY <1>0 DEF C!Adding, Queries
<1>3. ASSUME NEW more \in SUBSET (C!Clauses \ {"set", "start", "steps", "snippet"}),
             C!Build({"select"}, C!Adding(more))
      PROVE  ClauseInv'
    <2>1. Grows(more, {})
        BY <1>1, <1>2, <1>3
    <2> QED BY <1>3, <2>1, GrowingKeeps
<1>4. CASE \/ C!Select \/ C!OrderBy \/ C!Offset \/ C!Text \/ C!Fusion \/ C!Timeout
           \/ C!Facet \/ C!Metric \/ C!Group \/ C!VectorMetric
           \/ \E on \in BOOLEAN : C!Include(on)
    <2>1. \E more \in SUBSET {"projection", "sort", "offset", "text", "fusion", "timeout_ms", "facets",
                              "metrics", "group_by", "vector", "include", "include_options"} :
              C!Build({"select"}, C!Adding(more))
        BY <1>4, Zenon DEF C!Select, C!OrderBy, C!Offset, C!Text, C!Fusion, C!Timeout, C!Facet, C!Metric, C!Group,
                    C!VectorMetric, C!Include
    <2>2. {"projection", "sort", "offset", "text", "fusion", "timeout_ms", "facets", "metrics", "group_by",
           "vector", "include", "include_options"}
              \subseteq C!Clauses \ {"set", "start", "steps", "snippet"}
        BY DEF C!Clauses, C!Searches, C!Ranked, C!Totals
    <2> QED BY <1>3, <2>1, <2>2
<1>5. ASSUME NEW on \in BOOLEAN, C!Profile(on) PROVE ClauseInv'
    <2>1. Grows({"profile"}, {}) \/ Grows({}, {"profile"})
        BY <1>0, <1>5 DEF C!Profile, C!Build, Grows, Queries, C!Clauses
    <2> QED BY <2>1, GrowingKeeps DEF C!Clauses
<1>6. CASE C!Snippets
    <2>1. Grows({"snippet"}, {}) /\ cQuery.asks \cap C!Analyzed # {}
        BY <1>1, <1>2, <1>6 DEF C!Snippets, C!Clauses
    <2> QED BY <2>1, GrowingKeeps DEF C!Clauses
<1>7. CASE C!Set
    <2>1. Grows({"set"}, {}) /\ cQuery.kind = "update"
        BY <1>1, <1>2, <1>7 DEF C!Set, C!Build, C!Clauses
    <2> QED BY <2>1, GrowingKeeps DEF C!Clauses
<1>8. CASE C!Start \/ C!Out
    <2>1. (Grows({"start"}, {}) \/ Grows({"steps"}, {})) /\ cQuery.kind = "traverse"
        BY <1>1, <1>2, <1>8 DEF C!Start, C!Out, C!Build, C!Clauses
    <2> QED BY <2>1, GrowingKeeps DEF C!Clauses
<1> QED BY <1>4, <1>5, <1>6, <1>7, <1>8

\* What the query asks for, and what the request of an operation carries of it.
Asked(q) == C!ToIr(q) \cup (q.asks \cap C!Totals)
Sent(op, q) == IF op = "aggregate" THEN Asked(q) ELSE C!ToIr(q)

\* What a terminal operation that succeeds has been through.
Succeeded(b, age, terminal, op, q, rows) ==
    /\ cResult'.terminal = terminal /\ cResult'.backend = b /\ cResult'.rows = rows
    /\ cResult'.asked = Asked(cQuery)
    /\ cResult'.answered = (Sent(op, q) \cap C!Reads(b, op, q.filters))
                              \ (C!Beaten(b, Sent(op, q)) \cup C!Unknown(b, age, Sent(op, q)))
    /\ C!ClientNeeds(terminal, Sent(op, q), q) \subseteq C!Capabilities(b, age)
    /\ C!BackendNeeds(b, op, Sent(op, q)) \subseteq C!Capabilities(b, age)
    /\ C!Refusal(b, op, Sent(op, q), q.filters) = "none"
    /\ ~(b = "mongodb" /\ op = "aggregate")

\* An operation that succeeds was refused by no one, and one() by no count of rows.
LEMMA Successes ==
    ASSUME NEW b, NEW age, NEW terminal, NEW op, NEW q, NEW rows,
           C!Run(b, age, terminal, op, q, rows), cResult'.verdict = "ok"
    PROVE  /\ Succeeded(b, age, terminal, op, q, rows) /\ cQuery' = cQuery
           /\ terminal = "one" => LET found == IF rows > q.limit THEN q.limit ELSE rows
                                  IN  found # 0 /\ ~(found > 1)
<1> DEFINE ir == Sent(op, q)
           verdict == C!Verdict(b, age, terminal, op, ir, q)
           found == IF terminal \in {"one", "first"} /\ rows > q.limit THEN q.limit ELSE rows
           answer(rejects) ==
                [verdict  |-> CASE verdict # "none" -> verdict
                                [] rejects          -> "server"
                                [] b = "mongodb" /\ op = "aggregate" -> "query"
                                [] terminal = "one" /\ found = 0 -> "not found"
                                [] terminal = "one" /\ found > 1 -> "query"
                                [] OTHER            -> "ok",
                 terminal |-> terminal,
                 backend  |-> b,
                 asked    |-> Asked(cQuery),
                 answered |-> (ir \cap C!Reads(b, op, q.filters)) \ (C!Beaten(b, ir) \cup C!Unknown(b, age, ir)),
                 rows     |-> rows]
<1>1. cQuery' = cQuery /\ \E rejects \in BOOLEAN : cResult' = answer(rejects)
    BY DEF C!Run, Sent, Asked
<1>2. PICK rejects \in BOOLEAN : cResult' = answer(rejects)
    BY <1>1
<1>3. verdict # "ok"
    BY DEF C!Verdict, C!Refusal
<1> HIDE DEF verdict, ir, found
<1>4. /\ verdict = "none" /\ ~(b = "mongodb" /\ op = "aggregate")
      /\ ~(terminal = "one" /\ found = 0) /\ ~(terminal = "one" /\ found > 1)
    BY <1>2, <1>3
<1>5. /\ cResult'.terminal = terminal /\ cResult'.backend = b /\ cResult'.rows = rows
      /\ cResult'.asked = Asked(cQuery)
      /\ cResult'.answered = (ir \cap C!Reads(b, op, q.filters)) \ (C!Beaten(b, ir) \cup C!Unknown(b, age, ir))
    BY <1>2
<1>6. /\ C!ClientNeeds(terminal, ir, q) \cup C!BackendNeeds(b, op, ir) \subseteq C!Capabilities(b, age)
      /\ C!Refusal(b, op, ir, q.filters) = "none"
    BY <1>4 DEF verdict, C!Verdict
<1>7. Succeeded(b, age, terminal, op, q, rows)
    BY <1>4, <1>5, <1>6 DEF Succeeded, ir
<1> QED BY <1>1, <1>4, <1>7 DEF found

\* The request has what the query asks for, but for the totals.
SameRequest(q) ==
    /\ q.asks = cQuery.asks /\ q.filters = cQuery.filters /\ q.analyzer = cQuery.analyzer
    /\ cQuery.limit # None => q.limit # None

\* Only totals are left out of the request.
LEMMA RequestCarries ==
    ASSUME QueryOK, NEW q, SameRequest(q)
    PROVE  /\ Asked(cQuery) \subseteq C!ToIr(q) \cup C!Totals
           /\ \A c \in C!Searches \cup {"sort", "snippet"} :
                  /\ c \in C!ToIr(q) <=> c \in cQuery.asks
                  /\ c \in Asked(cQuery) <=> c \in cQuery.asks
           /\ {"filters", "limit", "analyzer"} \cap cQuery.asks = {}
           /\ "filters" \in C!ToIr(q) => q.filters # {}
           /\ {"snippet", "analyzer"} \cap C!ToIr(q) # {} => cQuery.asks \cap C!Analyzed # {}
           /\ "set" \in Asked(cQuery) => cQuery.kind = "update"
           /\ Asked(cQuery) \cap {"start", "steps"} # {} => cQuery.kind = "traverse"
<1>1. cQuery.asks \subseteq C!Clauses
    BY DEF QueryOK, Queries
<1>2. C!Analyzers(q) = C!Analyzers(cQuery)
    BY DEF SameRequest, C!Analyzers
<1>3. C!Analyzers(q) # {} => cQuery.asks \cap C!Analyzed # {}
    BY DEF SameRequest, C!Analyzers
<1>4. {"filters", "limit", "analyzer"} \cap cQuery.asks = {}
    BY <1>1 DEF C!Clauses, C!Searches, C!Ranked, C!Totals
<1>5. \A c \in C!Searches \cup {"sort", "snippet"} :
          c \notin C!Totals /\ c \notin {"filters", "limit", "analyzer"}
    BY DEF C!Searches, C!Ranked, C!Totals
<1> HIDE DEF C!Analyzers
<1>6. /\ C!ToIr(q) = (cQuery.asks \ C!Totals) \cup (IF cQuery.filters # {} THEN {"filters"} ELSE {})
                        \cup (IF q.limit # None THEN {"limit"} ELSE {})
                        \cup (IF C!Analyzers(q) # {} THEN {"analyzer"} ELSE {})
      /\ C!ToIr(cQuery) = (cQuery.asks \ C!Totals) \cup (IF cQuery.filters # {} THEN {"filters"} ELSE {})
                        \cup (IF cQuery.limit # None THEN {"limit"} ELSE {})
                        \cup (IF C!Analyzers(q) # {} THEN {"analyzer"} ELSE {})
    BY <1>2 DEF C!ToIr, SameRequest
<1>7. Asked(cQuery) \subseteq C!ToIr(q) \cup C!Totals
    BY <1>6 DEF Asked, SameRequest
<1>8. \A c \in C!Searches \cup {"sort", "snippet"} :
          /\ c \in C!ToIr(q) <=> c \in cQuery.asks
          /\ c \in Asked(cQuery) <=> c \in cQuery.asks
    BY <1>5, <1>6 DEF Asked
<1>9. "filters" \in C!ToIr(q) => q.filters # {}
    BY <1>4, <1>6 DEF SameRequest
<1>10. {"snippet", "analyzer"} \cap C!ToIr(q) # {} => cQuery.asks \cap C!Analyzed # {}
    BY <1>3, <1>4, <1>6 DEF QueryOK
<1>11. /\ "set" \in Asked(cQuery) => cQuery.kind = "update"
       /\ Asked(cQuery) \cap {"start", "steps"} # {} => cQuery.kind = "traverse"
    BY <1>6 DEF Asked, QueryOK
<1> QED BY <1>4, <1>7, <1>8, <1>9, <1>10, <1>11

\* What a select, streamed or not, does not answer.
Unanswered == cResult'.asked \ cResult'.answered

\* What the property asks of a select on the way to its rows or its pages.
Selects(terminal, b) ==
    /\ Unanswered \cap {"filters", "set", "start", "steps"} = {}
    /\ terminal \in C!Fetched =>
          /\ Unanswered \cap {"snippet", "analyzer"} = {}
          /\ (\E c \in C!Searches : Asked(cQuery) \cap C!Searches = {c}) =>
                Unanswered \cap C!Searches \subseteq (IF b = "redis" THEN {"text"} ELSE {})
    /\ terminal \in C!Fetched \ {"page"} => Unanswered \cap {"limit", "offset"} = {}
    /\ terminal \in C!Fetched \cup {"stream"} =>
          ("sort" \in Unanswered => b = "redis" \/ Asked(cQuery) \cap C!Ranked # {})

Paths == {<<"all", "select">>, <<"one", "select">>, <<"first", "select">>, <<"stream", "stream">>,
          <<"search_pages", "search_page">>, <<"page", "search_page">>}

\* The native backend reads every clause, but for snippets in a stream.
LEMMA NativeSelects ==
    ASSUME QueryOK, NEW q, SameRequest(q), cQuery.kind = "select", NEW age, NEW terminal, NEW op, NEW rows,
           <<terminal, op>> \in Paths, Succeeded("auradb", age, terminal, op, q, rows)
    PROVE  Selects(terminal, "auradb")
<1> DEFINE ir == C!ToIr(q)
<1>1. op \in {"select", "stream", "search_page"} /\ (op = "stream" => terminal = "stream")
    BY DEF Paths
<1>2. /\ Asked(cQuery) \subseteq ir \cup C!Totals
      /\ Asked(cQuery) \cap {"set", "start", "steps"} = {}
    BY RequestCarries
<1>3. /\ cResult'.asked = Asked(cQuery)
      /\ cResult'.answered = (ir \cap C!Reads("auradb", op, q.filters)) \ C!Unknown("auradb", age, ir)
      /\ C!BackendNeeds("auradb", op, ir) \subseteq C!Advertised(age)
    BY <1>1 DEF Succeeded, Sent, C!Beaten, C!Capabilities
<1> HIDE DEF ir
<1>4. C!NativeFind \ {"snippet"} \subseteq C!Reads("auradb", op, q.filters)
    BY <1>1 DEF C!Reads, C!RowsRead, C!NativeFind
<1>5. C!Unknown("auradb", age, ir) \subseteq {"vector_ann", "analyzer", "snippet"}
    BY DEF C!Unknown
<1>6. Unanswered \cap ({"filters", "limit", "offset", "sort"} \cup C!Searches) = {}
    <2>1. \A c \in {"filters", "limit", "offset", "sort"} \cup C!Searches :
              /\ c \notin C!Totals /\ c \notin {"vector_ann", "analyzer", "snippet"}
              /\ c \in C!NativeFind \ {"snippet"}
        BY DEF C!Searches, C!Ranked, C!Totals, C!NativeFind, C!Plain
    <2> QED BY <1>2, <1>3, <1>4, <1>5, <2>1 DEF Unanswered
<1>7. ASSUME op # "stream" PROVE Unanswered \cap {"snippet", "analyzer"} = {}
    <2>1. \A c \in {"snippet", "analyzer"} :
              c \notin C!Totals /\ c \in C!Reads("auradb", op, q.filters)
        BY <1>1, <1>7 DEF C!Totals, C!Reads, C!RowsRead, C!NativeFind
    <2>2. "analyzer" \in ir => "query_analyzers" \in C!Advertised(age)
        BY <1>3, <1>7 DEF C!BackendNeeds, C!AuraServers
    <2>3. "snippet" \in ir => "search_snippets" \in C!Advertised(age)
        BY <1>3, <1>7 DEF C!BackendNeeds, C!AuraServers
    <2>4. \A c \in {"snippet", "analyzer"} : c \in ir => c \notin C!Unknown("auradb", age, ir)
        BY <2>2, <2>3 DEF C!Unknown
    <2> QED BY <1>2, <1>3, <2>1, <2>4 DEF Unanswered
<1>8. terminal \in C!Fetched => op # "stream"
    BY <1>1 DEF C!Fetched
<1> QED BY <1>2, <1>3, <1>6, <1>7, <1>8 DEF Selects, Unanswered

\* The engine ranks by the first of several searches, and does not sort what it ranked.
LEMMA EngineSelects ==
    ASSUME QueryOK, NEW q, SameRequest(q), cQuery.kind = "select", NEW b \in {"protocol", "memory"}, NEW age,
           NEW terminal, NEW op, NEW rows, <<terminal, op>> \in Paths,
           op = "search_page" => cQuery.asks \cap C!Ranked # {},
           Succeeded(b, age, terminal, op, q, rows)
    PROVE  Selects(terminal, b)
<1> DEFINE ir == C!ToIr(q)
           asks == cQuery.asks
<1>1. op \in {"select", "stream", "search_page"} /\ (op = "stream" => terminal = "stream")
      /\ (op = "search_page" => terminal \in {"search_pages", "page"})
    BY DEF Paths
<1>2. /\ Asked(cQuery) \subseteq ir \cup C!Totals
      /\ Asked(cQuery) \cap {"set", "start", "steps"} = {}
      /\ \A c \in C!Searches \cup {"sort", "snippet"} : (c \in ir <=> c \in asks) /\ (c \in Asked(cQuery) <=> c \in asks)
    BY RequestCarries
<1>3. /\ cResult'.asked = Asked(cQuery)
      /\ cResult'.answered = (ir \cap C!Reads(b, op, q.filters)) \ C!Beaten(b, ir)
      /\ C!BackendNeeds(b, op, ir) \subseteq C!Advertised("v1.3")
    BY <1>1 DEF Succeeded, Sent, C!Unknown, C!Capabilities
<1> HIDE DEF ir, asks
<1>4. C!Beaten(b, ir) \subseteq C!Searches \cup {"sort"}
    BY DEF C!Beaten, C!Searches, C!Ranked
<1>5. "sort" \in C!Beaten(b, ir) => Asked(cQuery) \cap C!Ranked # {}
    BY <1>2 DEF C!Beaten, C!Searches, C!Ranked
<1>6. ASSUME NEW c \in C!Searches, Asked(cQuery) \cap C!Searches = {c} PROVE c \notin C!Beaten(b, ir)
    <2>1. \A d \in C!Searches : d \in ir => d = c
        BY <1>2, <1>6
    <2> QED BY <2>1 DEF C!Beaten, C!Searches, C!Ranked
<1>7. {"filters"} \cup C!Searches \subseteq C!Reads(b, op, q.filters) \ C!Totals
    BY <1>1 DEF C!Reads, C!RowsRead, C!Plain, C!Searches, C!Ranked, C!Totals
<1>8. op # "search_page" => {"sort", "limit", "offset"} \subseteq C!Reads(b, op, q.filters) \ C!Totals
    BY <1>1 DEF C!Reads, C!RowsRead, C!Plain, C!Totals
<1>9. {"filters", "limit", "offset"} \cap (C!Searches \cup {"sort"}) = {}
    BY DEF C!Searches, C!Ranked
<1>10. op # "stream" => {"snippet", "analyzer"} \cap (ir \cup C!Totals) = {}
    BY <1>3 DEF C!BackendNeeds, C!AuraServers, C!Advertised, C!Totals
<1>11. "filters" \notin Unanswered
    BY <1>2, <1>3, <1>4, <1>7, <1>9 DEF Unanswered
<1>12. op # "stream" => Unanswered \cap {"snippet", "analyzer"} = {}
    BY <1>2, <1>3, <1>10 DEF Unanswered
<1>13. ASSUME NEW c \in C!Searches, Asked(cQuery) \cap C!Searches = {c} PROVE Unanswered \cap C!Searches = {}
    <2>1. c \in cResult'.answered
        BY <1>2, <1>3, <1>6, <1>7, <1>13
    <2> QED BY <1>3, <1>13, <2>1 DEF Unanswered
<1>14. op # "search_page" => Unanswered \cap {"limit", "offset"} = {}
    BY <1>2, <1>3, <1>4, <1>8, <1>9 DEF Unanswered
<1>15. "sort" \in Unanswered => Asked(cQuery) \cap C!Ranked # {}
    <2>1. CASE op = "search_page"
        BY <1>2, <2>1 DEF asks, C!Searches
    <2>2. CASE op # "search_page"
        BY <1>2, <1>3, <1>5, <1>8, <2>2 DEF Unanswered
    <2> QED BY <2>1, <2>2
<1>16. terminal \in C!Fetched => op # "stream" /\ (terminal # "page" => op # "search_page")
    BY <1>1 DEF C!Fetched
<1> QED BY <1>2, <1>3, <1>11, <1>12, <1>13, <1>14, <1>15, <1>16 DEF Selects, Unanswered

\* SQL, MongoDB and Redis refuse searches, but for text() on Redis.
LEMMA StoreSelects ==
    ASSUME QueryOK, NEW q, SameRequest(q), cQuery.kind = "select", NEW b \in C!Stores, NEW age,
           NEW terminal, NEW op, NEW rows, <<terminal, op>> \in Paths,
           Succeeded(b, age, terminal, op, q, rows)
    PROVE  Selects(terminal, b)
<1> DEFINE ir == C!ToIr(q)
           asks == cQuery.asks
<1>1. op \in {"select", "stream", "search_page"} /\ (op = "search_page" <=> terminal \in {"search_pages", "page"})
      /\ (op = "select" <=> terminal \in {"all", "one", "first"})
    BY DEF Paths
<1>2. /\ Asked(cQuery) \subseteq ir \cup C!Totals
      /\ Asked(cQuery) \cap {"set", "start", "steps"} = {}
      /\ \A c \in C!Searches \cup {"sort", "snippet"} : (c \in ir <=> c \in asks) /\ (c \in Asked(cQuery) <=> c \in asks)
      /\ "filters" \in ir => q.filters # {}
      /\ {"snippet", "analyzer"} \cap ir # {} => asks \cap C!Analyzed # {}
    BY RequestCarries
<1>3. /\ cResult'.asked = Asked(cQuery)
      /\ cResult'.answered = ir \cap C!Reads(b, op, q.filters)
      /\ C!ClientNeeds(terminal, ir, q) = {}
      /\ C!Refusal(b, op, ir, q.filters) = "none"
    BY <1>1 DEF Succeeded, Sent, C!Unknown, C!Beaten, C!Capabilities, C!Stores, C!AuraServers
<1> HIDE DEF ir, asks
<1>4. CASE op = "search_page"
    <2>1. terminal # "page"
        BY <1>3 DEF C!ClientNeeds
    <2>2. b = "mongodb"
        BY <1>3, <1>4 DEF C!Refusal, C!Operations, C!Stores, C!AuraServers
    <2>3. "filters" \in C!Reads(b, op, q.filters) /\ "filters" \notin C!Totals
        BY <1>4, <2>2 DEF C!Reads, C!RowsRead, C!Plain, C!Totals
    <2>4. terminal \notin C!Fetched \cup {"stream"}
        BY <1>1, <1>4, <2>1 DEF C!Fetched
    <2> QED BY <1>2, <1>3, <2>3, <2>4 DEF Selects, Unanswered
<1>5. CASE op = "select"
    <2>1. ir \cap C!Ranked = {}
        BY <1>1, <1>3, <1>5 DEF C!ClientNeeds
    <2>2. asks \cap C!Ranked = {} /\ asks \cap C!Analyzed = {}
        BY <1>2, <2>1 DEF C!Searches, C!Ranked, C!Analyzed
    <2>3. Unanswered \cap {"snippet", "analyzer"} = {}
        BY <1>2, <1>3, <2>2 DEF Unanswered, C!Totals
    <2>4. {"filters", "limit", "offset"} \subseteq C!Reads(b, op, q.filters) \ C!Totals
        BY <1>5 DEF C!Reads, C!RowsRead, C!Plain, C!Totals, C!Stores
    <2>5. b # "redis" => "sort" \in C!Reads(b, op, q.filters) \ C!Totals
        BY <1>5 DEF C!Reads, C!RowsRead, C!Plain, C!Totals, C!Stores
    <2>6. b # "redis" => "text" \notin ir
        BY <1>3, <1>5 DEF C!Refusal, C!Stores
    <2>7. Unanswered \cap C!Searches \subseteq (IF b = "redis" THEN {"text"} ELSE {})
        BY <1>2, <1>3, <2>2, <2>6 DEF Unanswered, C!Searches
    <2> QED BY <1>2, <1>3, <2>3, <2>4, <2>5, <2>7 DEF Selects, Unanswered
<1>6. CASE op = "stream"
    <2>1. "filters" \in ir => "filters" \in C!Reads(b, op, q.filters)
        BY <1>2, <1>6 DEF C!Reads, C!RowsRead, C!Plain, C!Stores
    <2>2. b # "redis" => "sort" \in C!Reads(b, op, q.filters)
        BY <1>6 DEF C!Reads, C!RowsRead, C!Plain, C!Stores
    <2>3. "sort" \notin C!Totals /\ "filters" \notin C!Totals
        BY DEF C!Totals
    <2>4. terminal \notin C!Fetched
        BY <1>1, <1>6 DEF C!Fetched
    <2> QED BY <1>2, <1>3, <2>1, <2>2, <2>3, <2>4 DEF Selects, Unanswered
<1> QED BY <1>1, <1>4, <1>5, <1>6

\* What the engine and an old server leave out.
LEMMA LeftOut ==
    ASSUME NEW b, NEW age, NEW ir
    PROVE  (C!Beaten(b, ir) \cup C!Unknown(b, age, ir))
              \cap ({"filters", "set", "start", "steps"} \cup C!Totals) = {}
<1>1. C!Beaten(b, ir) \subseteq {"text_search", "vector", "text", "sort"}
    BY DEF C!Beaten
<1>2. C!Unknown(b, age, ir) \subseteq {"vector_ann", "analyzer", "snippet"}
    BY DEF C!Unknown
<1> QED BY <1>1, <1>2 DEF C!Totals

\* Any other operation: counts, totals, writes and traversals.
LEMMA OthersAnswer ==
    ASSUME QueryOK, NEW b \in C!Backends, NEW age, NEW terminal, NEW op, NEW q, NEW rows,
           Succeeded(b, age, terminal, op, q, rows),
           \/ /\ op \in {"count", "exists"} /\ terminal = op /\ q = C!Counted /\ cQuery.kind = "select"
           \/ /\ op = "aggregate" /\ terminal = op /\ q = cQuery /\ cQuery.kind = "select"
           \/ /\ op = "mutation" /\ terminal = "execute" /\ q = cQuery /\ cQuery.kind \in {"update", "delete"}
           \/ /\ op = "traverse" /\ terminal = op /\ q = cQuery /\ cQuery.kind = "traverse"
           \/ /\ op = "raw" /\ terminal = op /\ q = cQuery /\ cQuery = C!New("select")
    PROVE  /\ Unanswered \cap {"filters", "set", "start", "steps"} = {}
           /\ terminal \notin C!Fetched \cup {"one", "stream"}
           /\ terminal = "aggregate" => Unanswered \cap C!Totals = {}
<1> DEFINE ir == Sent(op, q)
<1>1. /\ cResult'.asked = Asked(cQuery)
      /\ cResult'.answered = (ir \cap C!Reads(b, op, q.filters)) \ (C!Beaten(b, ir) \cup C!Unknown(b, age, ir))
      /\ C!Refusal(b, op, ir, q.filters) = "none" /\ ~(b = "mongodb" /\ op = "aggregate")
    BY DEF Succeeded
<1>2. /\ Asked(cQuery) \subseteq C!ToIr(cQuery) \cup C!Totals
      /\ "set" \in Asked(cQuery) => cQuery.kind = "update"
      /\ Asked(cQuery) \cap {"start", "steps"} # {} => cQuery.kind = "traverse"
      /\ {"filters", "limit", "analyzer"} \cap cQuery.asks = {}
      /\ "filters" \in C!ToIr(cQuery) => cQuery.filters # {}
    BY RequestCarries DEF SameRequest
<1>3. {"filters", "set", "start", "steps"} \cap C!Totals = {}
    BY DEF C!Totals
<1>4. terminal \notin C!Fetched \cup {"one", "stream"} /\ (terminal = "aggregate" => op = "aggregate")
    BY DEF C!Fetched
<1>5. \A c \in {"filters", "set", "start", "steps"} \cup C!Totals :
          c \in ir \cap C!Reads(b, op, q.filters) => c \notin Unanswered
    <2> HIDE DEF ir
    <2> QED BY <1>1, LeftOut DEF Unanswered
<1>6. CASE op \in {"count", "exists"} /\ q = C!Counted /\ cQuery.kind = "select"
    <2>1. cQuery.filters # {} => "filters" \in ir
        BY <1>6 DEF Sent, C!ToIr, C!Counted, C!New
    <2>2. "filters" \in C!Reads(b, op, q.filters)
        BY <1>6 DEF C!Reads
    <2> HIDE DEF ir
    <2> QED BY <1>1, <1>2, <1>3, <1>4, <1>5, <1>6, <2>1, <2>2 DEF Unanswered
<1>7. CASE op = "aggregate" /\ q = cQuery /\ cQuery.kind = "select"
    <2>1. b \in C!AuraServers
        BY <1>1, <1>7 DEF C!Refusal, C!Operations, C!Backends, C!AuraServers, C!Stores
    <2>2. {"filters"} \cup C!Totals \subseteq C!Reads(b, op, q.filters)
        BY <1>7, <2>1 DEF C!Reads, C!RowsRead, C!AuraServers, C!Totals
    <2>3. ir = Asked(cQuery)
        BY <1>7 DEF Sent
    <2> HIDE DEF ir
    <2>4. \A c \in {"filters"} \cup C!Totals : c \notin Unanswered
        BY <1>1, <1>5, <2>2, <2>3 DEF Unanswered
    <2>5. Unanswered \cap {"set", "start", "steps"} = {}
        BY <1>1, <1>2, <1>7 DEF Unanswered
    <2> QED BY <1>4, <2>4, <2>5
<1>8. CASE op = "mutation" /\ q = cQuery /\ cQuery.kind \in {"update", "delete"}
    <2>1. {"filters", "set"} \subseteq C!Reads(b, op, q.filters)
        BY <1>8 DEF C!Reads
    <2>2. ir = C!ToIr(cQuery)
        BY <1>8 DEF Sent
    <2> HIDE DEF ir
    <2> QED BY <1>1, <1>2, <1>3, <1>4, <1>5, <1>8, <2>1, <2>2 DEF Unanswered
<1>9. CASE op = "traverse" /\ q = cQuery /\ cQuery.kind = "traverse"
    <2>1. {"filters", "start", "steps"} \subseteq C!Reads(b, op, q.filters)
        BY <1>9 DEF C!Reads
    <2>2. ir = C!ToIr(cQuery)
        BY <1>9 DEF Sent
    <2> HIDE DEF ir
    <2> QED BY <1>1, <1>2, <1>3, <1>4, <1>5, <1>9, <2>1, <2>2 DEF Unanswered
<1>10. CASE op = "raw" /\ cQuery = C!New("select")
    <2>1. cQuery.filters = {} /\ cQuery.kind = "select"
        BY <1>10 DEF C!New
    <2> HIDE DEF ir
    <2> QED BY <1>1, <1>2, <1>3, <1>4, <1>10, <2>1 DEF Unanswered
<1> QED BY <1>6, <1>7, <1>8, <1>9, <1>10

\* An operation that does not succeed answers nothing.
LEMMA RunKeepsClauses ==
    ASSUME QueryOK, cQuery' = cQuery, cResult'.verdict = "ok" => C!AskedIsAnswered'
    PROVE  ClauseInv'
BY DEF ClauseInv, QueryOK, C!AskedIsAnswered

\* The operations that read rows, whatever they make of the limit.
LEMMA RunSelects ==
    ASSUME QueryOK, NEW b \in C!Backends, NEW age, NEW terminal, NEW op, NEW q, NEW n \in Nat,
           <<terminal, op>> \in Paths, SameRequest(q), C!Run(b, age, terminal, op, q, n),
           cQuery.kind = "select", op = "search_page" => cQuery.asks \cap C!Ranked # {},
           terminal = "one" => q.limit = 2 /\ n \in 0 .. 2
    PROVE  ClauseInv'
<1>2. cQuery' = cQuery
    BY DEF C!Run
<1>3. ASSUME cResult'.verdict = "ok" PROVE C!AskedIsAnswered'
    <2>1. /\ Succeeded(b, age, terminal, op, q, n)
          /\ terminal = "one" => LET found == IF n > q.limit THEN q.limit ELSE n
                                 IN  found # 0 /\ ~(found > 1)
        BY <1>3, Successes
    <2>2. Selects(terminal, b)
        <3>1. b = "auradb" \/ b \in {"protocol", "memory"} \/ b \in C!Stores
            BY DEF C!Backends, C!AuraServers
        <3> QED BY <2>1, <3>1, NativeSelects, EngineSelects, StoreSelects
    <2>3. terminal = "one" => n = 1
        BY <2>1
    <2>4. terminal # "aggregate"
        BY DEF Paths
    <2>5. /\ cResult'.terminal = terminal /\ cResult'.backend = b /\ cResult'.rows = n
          /\ cResult'.asked = Asked(cQuery) /\ Unanswered = C!Lost'
        BY <2>1 DEF Succeeded, Unanswered, C!Lost
    <2> QED BY <2>2, <2>3, <2>4, <2>5 DEF Selects, C!AskedIsAnswered
<1> QED BY <1>2, <1>3, RunKeepsClauses

\* Each of them is such an operation.
LEMMA SelectsKeep ==
    ASSUME QueryOK, C!NoneIsNoLimit, NEW b \in C!Backends, NEW age,
           \/ C!All(b, age) \/ C!Stream(b, age) \/ C!SearchPages(b, age) \/ C!Page(b, age)
           \/ C!First(b, age, 2)
           \/ \E n \in 0 .. 2 : C!One(b, age, n)
    PROVE  ClauseInv'
<1>1. /\ SameRequest(cQuery)
      /\ SameRequest([cQuery EXCEPT !.limit = 2]) /\ SameRequest([cQuery EXCEPT !.limit = 1])
      /\ [cQuery EXCEPT !.limit = 2].limit = 2
    BY DEF SameRequest, QueryOK, Queries, C!NoneIsNoLimit
<1>2. /\ <<"all", "select">> \in Paths /\ <<"one", "select">> \in Paths /\ <<"first", "select">> \in Paths
      /\ <<"stream", "stream">> \in Paths
      /\ <<"search_pages", "search_page">> \in Paths /\ <<"page", "search_page">> \in Paths
    BY DEF Paths
<1>3. CASE C!All(b, age)
    BY <1>1, <1>2, <1>3, RunSelects DEF C!All, C!Selecting
<1>4. CASE C!Stream(b, age)
    BY <1>1, <1>2, <1>4, RunSelects DEF C!Stream, C!Selecting
<1>5. CASE C!SearchPages(b, age)
    BY <1>1, <1>2, <1>5, RunSelects DEF C!SearchPages, C!Selecting
<1>6. CASE C!Page(b, age)
    BY <1>1, <1>2, <1>6, RunSelects DEF C!Page, C!Selecting
<1>7. CASE C!First(b, age, 2)
    BY <1>1, <1>2, <1>7, RunSelects DEF C!First, C!Selecting
<1>8. ASSUME NEW n \in 0 .. 2, C!One(b, age, n) PROVE ClauseInv'
    <2>1. cQuery.kind = "select" /\ C!Run(b, age, "one", "select", [cQuery EXCEPT !.limit = 2], n) /\ n \in Nat
        BY <1>8 DEF C!One, C!Selecting
    <2> DEFINE asked == [cQuery EXCEPT !.limit = 2]
    <2>2. SameRequest(asked) /\ asked.limit = 2 /\ C!Run(b, age, "one", "select", asked, n)
        BY <1>1, <2>1
    <2> HIDE DEF asked
    <2> QED BY <1>2, <2>1, <2>2, RunSelects
<1> QED BY <1>3, <1>4, <1>5, <1>6, <1>7, <1>8

\* The operations that do not read rows.
LEMMA OthersKeep ==
    ASSUME QueryOK, NEW b \in C!Backends, NEW age,
           \/ C!Count(b, age) \/ C!Exists(b, age) \/ C!Aggregate(b, age) \/ C!Execute(b, age)
           \/ C!Traverse(b, age) \/ C!Raw(b, age)
    PROVE  ClauseInv'
<1>1. PICK terminal, op, q :
          /\ C!Run(b, age, terminal, op, q, 0)
          /\ \/ /\ op \in {"count", "exists"} /\ terminal = op /\ q = C!Counted /\ cQuery.kind = "select"
             \/ /\ op = "aggregate" /\ terminal = op /\ q = cQuery /\ cQuery.kind = "select"
             \/ /\ op = "mutation" /\ terminal = "execute" /\ q = cQuery /\ cQuery.kind \in {"update", "delete"}
             \/ /\ op = "traverse" /\ terminal = op /\ q = cQuery /\ cQuery.kind = "traverse"
             \/ /\ op = "raw" /\ terminal = op /\ q = cQuery /\ cQuery = C!New("select")
    BY DEF C!Count, C!Exists, C!Aggregate, C!Execute, C!Traverse, C!Raw, C!Selecting
<1>2. cQuery' = cQuery
    BY <1>1 DEF C!Run
<1>3. ASSUME cResult'.verdict = "ok" PROVE C!AskedIsAnswered'
    <2>1. Succeeded(b, age, terminal, op, q, 0)
        BY <1>1, <1>3, Successes
    <2>2. /\ Unanswered \cap {"filters", "set", "start", "steps"} = {}
          /\ terminal \notin C!Fetched \cup {"one", "stream"}
          /\ terminal = "aggregate" => Unanswered \cap C!Totals = {}
        BY <1>1, <2>1, OthersAnswer
    <2>3. cResult'.terminal = terminal /\ Unanswered = C!Lost'
        BY <2>1 DEF Succeeded, Unanswered, C!Lost
    <2> QED BY <2>2, <2>3 DEF C!AskedIsAnswered
<1> QED BY <1>2, <1>3, RunKeepsClauses

\* Builders and operations keep the invariant.
LEMMA ClauseInvHolds == ASSUME C!NoneIsNoLimit PROVE C!Spec => []ClauseInv
<1>1. C!Init => ClauseInv
    BY DEF C!Init, C!New, C!NoResult, ClauseInv, QueryOK, Queries, C!Presets, C!AskedIsAnswered
<1>2. ClauseInv /\ [C!Next]_C!vars => ClauseInv'
    <2> SUFFICES ASSUME QueryOK, C!AskedIsAnswered, [C!Next]_C!vars PROVE ClauseInv'
        BY DEF ClauseInv
    <2>1. CASE UNCHANGED C!vars
        BY <2>1 DEF C!vars, ClauseInv, QueryOK, C!AskedIsAnswered, C!Lost
    <2>2. CASE C!Next
        <3>1. ASSUME NEW b \in C!Backends, NEW age,
                     \/ C!All(b, age) \/ C!Count(b, age) \/ C!Exists(b, age) \/ C!Stream(b, age)
                     \/ C!SearchPages(b, age) \/ C!Page(b, age) \/ C!Aggregate(b, age)
                     \/ C!Execute(b, age) \/ C!Traverse(b, age) \/ C!Raw(b, age)
                     \/ C!First(b, age, 2)
                     \/ \E n \in 0 .. 2 : C!One(b, age, n)
              PROVE  ClauseInv'
            <4>1. CASE \E n \in 0 .. 2 : C!One(b, age, n)
                BY <4>1, SelectsKeep
            <4>2. CASE C!All(b, age) \/ C!Stream(b, age) \/ C!SearchPages(b, age) \/ C!Page(b, age)
                           \/ C!First(b, age, 2)
                BY <4>2, SelectsKeep
            <4>3. CASE C!Count(b, age) \/ C!Exists(b, age) \/ C!Aggregate(b, age) \/ C!Execute(b, age)
                           \/ C!Traverse(b, age) \/ C!Raw(b, age)
                BY <4>3, OthersKeep
            <4> QED BY <3>1, <4>1, <4>2, <4>3
        <3>2. CASE \E b \in C!Backends : \E age \in C!AgesOf(b) :
                     \/ C!All(b, age) \/ C!Count(b, age) \/ C!Exists(b, age) \/ C!Stream(b, age)
                     \/ C!SearchPages(b, age) \/ C!Page(b, age) \/ C!Aggregate(b, age)
                     \/ C!Execute(b, age) \/ C!Traverse(b, age) \/ C!Raw(b, age)
                     \/ C!First(b, age, 2)
                     \/ \E n \in 0 .. 2 : C!One(b, age, n)
            BY <3>1, <3>2
        <3>3. CASE \/ C!Select \/ C!OrderBy \/ C!Offset \/ C!Text \/ C!Fusion \/ C!Timeout
                   \/ C!Facet \/ C!Metric \/ C!Group \/ C!VectorMetric
                   \/ \E on \in BOOLEAN : C!Include(on) \/ C!Profile(on)
                   \/ C!Snippets \/ C!Set \/ C!Start \/ C!Out
            BY <3>3, ClausesKeep
        <3>4. CASE \/ \E f \in {"key", "other"} : C!Where(f)
                   \/ \E n \in {0, 5} : C!Limit(n)
                   \/ \E n \in {None, 10} : C!Nearest(n)
                   \/ \E approximate \in BOOLEAN : C!SearchVector(10, approximate)
                   \/ \E n \in {None, 10}, preset \in C!Presets : C!SearchText(n, preset)
                   \/ \E preset \in C!Presets : C!SearchHybrid(10, preset)
                   \/ \E preset \in C!Presets \ {None} : C!Analyzer(preset)
            BY <3>4, BuildersKeep
        <3> QED BY <2>2, <3>2, <3>3, <3>4 DEF C!Next
    <2> QED BY <2>1, <2>2
<1> QED BY <1>1, <1>2, PTL DEF C!Spec

\* However many clauses a query collects, an operation that succeeds has lost no
\* filter and no assignment, one() has found one row, and what the rows are ranked,
\* cut, sorted or totalled by has been answered where the property says so.
THEOREM ClausesAreAnswered == ASSUME C!NoneIsNoLimit PROVE C!Spec => []AskedIsAnswered
<1>1. ClauseInv => AskedIsAnswered
    BY DEF ClauseInv, AskedIsAnswered
<1> QED BY <1>1, ClauseInvHolds, PTL

-----------------------------------------------------------------------------
(* Numbers and sums.                                                          *)

\* A set of numbers has a least one.
LEMMA LeastNumber ==
    ASSUME NEW S \in SUBSET Nat, S # {}
    PROVE  \E m \in S : \A n \in S : m <= n
<1> DEFINE R == OpToRel(<, Nat)
<1>1. IsWellFoundedOn(R, Nat)
  BY NatLessThanWellFounded
<1>2. \A m, n \in Nat : <<n, m>> \in R <=> n < m
  BY DEF OpToRel
<1> HIDE DEF R
<1>3. \E m \in S : \A n \in S : ~(<<n, m>> \in R)
  BY <1>1, WFMin
<1>4. PICK m \in S : \A n \in S : ~(<<n, m>> \in R)
  BY <1>3
<1>5. ASSUME NEW n \in S PROVE m <= n
  <2>1. ~(<<n, m>> \in R) /\ n \in Nat /\ m \in Nat
    BY <1>4
  <2>2. ~(n < m)
    BY <1>2, <2>1, Zenon
  <2> QED BY <2>1, <2>2
<1> QED BY <1>4, <1>5

\* Induction over numbers, for a set of them.
LEMMA AllNumbers ==
    ASSUME NEW S \in SUBSET Nat, 0 \in S, \A n \in S : n + 1 \in S
    PROVE  \A n \in Nat : n \in S
<1> SUFFICES ASSUME Nat \ S # {} PROVE FALSE
  OBVIOUS
<1>1. PICK m \in Nat \ S : \A n \in Nat \ S : m <= n
  <2> DEFINE T == Nat \ S
  <2>1. T \in SUBSET Nat /\ T # {}
    OBVIOUS
  <2> HIDE DEF T
  <2>2. \E m \in T : \A n \in T : m <= n
    BY <2>1, LeastNumber
  <2> QED BY <2>2 DEF T
<1>2. m # 0 /\ m - 1 \in Nat /\ m - 1 \in S
  BY <1>1
<1> QED BY <1>1, <1>2

LEMMA QCardinality == \A S : Q!Cardinality(S) = Cardinality(S) /\ (Q!IsFiniteSet(S) <=> IsFiniteSet(S))
BY DEF Q!Cardinality, Cardinality, Q!IsFiniteSet, IsFiniteSet

\* A sum over a finite set, folded one element after the other.
Folds(g, f, D) ==
    g = [S \in SUBSET D |-> IF S = {} THEN 0
                            ELSE f[CHOOSE x \in S : TRUE] + g[S \ {CHOOSE x \in S : TRUE}]]

LEMMA SmallerSet ==
    ASSUME NEW D, IsFiniteSet(D), NEW S \in SUBSET D, S # {}
    PROVE  /\ Cardinality(S) \in Nat \ {0}
           /\ (CHOOSE x \in S : TRUE) \in D
           /\ S \ {CHOOSE x \in S : TRUE} \in SUBSET D
           /\ Cardinality(S \ {CHOOSE x \in S : TRUE}) = Cardinality(S) - 1
<1> DEFINE x == CHOOSE y \in S : TRUE
<1>1. x \in S
  OBVIOUS
<1> HIDE DEF x
<1>2. IsFiniteSet(S)
  BY FS_Subset
<1>3. Cardinality(S) \in Nat /\ Cardinality(S) # 0
  BY <1>2, FS_CardinalityType, FS_EmptySet
<1>4. Cardinality(S \ {x}) = Cardinality(S) - 1
  BY <1>1, <1>2, FS_RemoveElement
<1> QED BY <1>1, <1>3, <1>4 DEF x

LEMMA FoldExists ==
    ASSUME NEW D, IsFiniteSet(D), NEW f \in [D -> Int]
    PROVE  \E g : Folds(g, f, D)
<1> DEFINE pick(S) == CHOOSE x \in S : TRUE
           Upto(n) == {S \in SUBSET D : Cardinality(S) <= n}
           Sums(g, n) == \A S \in Upto(n) : g[S] = IF S = {} THEN 0 ELSE f[pick(S)] + g[S \ {pick(S)}]
           Done == {n \in Nat : \E g : Sums(g, n)}
<1>1. \A S \in SUBSET D : Cardinality(S) \in Nat /\ (S # {} => Cardinality(S) # 0)
  <2> TAKE S \in SUBSET D
  <2>1. IsFiniteSet(S)
    BY FS_Subset
  <2> QED BY <2>1, FS_CardinalityType, FS_EmptySet
<1>2. \A S \in SUBSET D : S # {} => /\ S \ {pick(S)} \in SUBSET D
                                   /\ Cardinality(S \ {pick(S)}) = Cardinality(S) - 1
  BY SmallerSet
<1> HIDE DEF pick
<1>3. 0 \in Done
  <2> DEFINE g == [S \in SUBSET D |-> 0]
  <2>1. Sums(g, 0)
    BY <1>1
  <2> QED BY <2>1
<1>4. ASSUME NEW n \in Done PROVE n + 1 \in Done
  <2>1. PICK h : Sums(h, n)
    OBVIOUS
  <2> DEFINE g == [S \in SUBSET D |-> IF Cardinality(S) <= n THEN h[S]
                                      ELSE f[pick(S)] + h[S \ {pick(S)}]]
  <2>2. ASSUME NEW S \in Upto(n + 1)
        PROVE  g[S] = IF S = {} THEN 0 ELSE f[pick(S)] + g[S \ {pick(S)}]
    <3>1. S # {} => /\ S \ {pick(S)} \in SUBSET D
                    /\ Cardinality(S \ {pick(S)}) <= n
      BY <1>1, <1>2
    <3>2. S # {} => g[S \ {pick(S)}] = h[S \ {pick(S)}]
      BY <3>1
    <3>3. CASE Cardinality(S) <= n
      <4>1. S \in Upto(n) /\ g[S] = h[S]
        BY <3>3
      <4> QED BY <2>1, <3>2, <4>1
    <3>4. CASE ~(Cardinality(S) <= n)
      <4>1. S # {}
        <5>1. Cardinality({}) = 0
          BY FS_EmptySet
        <5> QED BY <3>4, <5>1
      <4> QED BY <3>2, <3>4, <4>1
    <3> QED BY <3>3, <3>4
  <2> HIDE DEF g
  <2>3. Sums(g, n + 1)
    BY <2>2
  <2>4. n + 1 \in Nat
    OBVIOUS
  <2> HIDE DEF Sums
  <2> QED BY <2>3, <2>4
<1>5. Cardinality(D) \in Done
  <2>1. Cardinality(D) \in Nat
    BY FS_CardinalityType
  <2>2. Done \in SUBSET Nat
    OBVIOUS
  <2> HIDE DEF Done
  <2> QED BY <1>3, <1>4, <2>1, <2>2, AllNumbers
<1>6. PICK h : Sums(h, Cardinality(D))
  BY <1>5
<1>7. \A S \in SUBSET D : S \in Upto(Cardinality(D))
  BY FS_Subset
<1> DEFINE g == [S \in SUBSET D |-> h[S]]
<1>8. \A S \in SUBSET D : g[S] = IF S = {} THEN 0 ELSE f[pick(S)] + g[S \ {pick(S)}]
  BY <1>2, <1>6, <1>7
<1>9. Folds(g, f, D)
  <2>1. g = [S \in SUBSET D |-> g[S]]
    OBVIOUS
  <2> HIDE DEF g
  <2> QED BY <1>8, <2>1 DEF Folds, pick
<1> QED BY <1>9

LEMMA FoldsToNumber ==
    ASSUME NEW D, IsFiniteSet(D), NEW f \in [D -> Int], NEW g, Folds(g, f, D)
    PROVE  g[D] \in Int
<1> DEFINE Good == {n \in Nat : \A S \in SUBSET D : Cardinality(S) = n => g[S] \in Int}
<1>1. \A S \in SUBSET D : g[S] = IF S = {} THEN 0 ELSE f[CHOOSE x \in S : TRUE] + g[S \ {CHOOSE x \in S : TRUE}]
  BY DEF Folds
<1>2. 0 \in Good
  <2> SUFFICES ASSUME NEW S \in SUBSET D, Cardinality(S) = 0 PROVE g[S] \in Int
    OBVIOUS
  <2>1. S = {}
    BY FS_Subset, FS_EmptySet
  <2>2. g[{}] = 0
    BY <1>1
  <2> QED BY <2>1, <2>2
<1>3. ASSUME NEW n \in Good PROVE n + 1 \in Good
  <2> SUFFICES ASSUME NEW S \in SUBSET D, Cardinality(S) = n + 1 PROVE g[S] \in Int
    OBVIOUS
  <2>1. S # {}
    BY FS_EmptySet
  <2> DEFINE x == CHOOSE y \in S : TRUE
  <2>2. x \in D /\ S \ {x} \in SUBSET D /\ Cardinality(S \ {x}) = Cardinality(S) - 1
    BY <2>1, SmallerSet
  <2>3. g[S] = f[x] + g[S \ {x}]
    BY <1>1, <2>1
  <2> HIDE DEF x
  <2>4. Cardinality(S \ {x}) = n
    BY <2>2
  <2>5. g[S \ {x}] \in Int
    BY <2>2, <2>4
  <2> QED BY <2>2, <2>3, <2>5
<1>4. Cardinality(D) \in Nat
  BY FS_CardinalityType
<1>5. Good \in SUBSET Nat
  OBVIOUS
<1>6. Cardinality(D) \in Good
  <2> HIDE DEF Good
  <2> QED BY <1>2, <1>3, <1>4, <1>5, AllNumbers
<1> QED BY <1>6

LEMMA SumIsNumber ==
    ASSUME NEW D, IsFiniteSet(D), NEW f \in [D -> Int]
    PROVE  Q!Sum(f) \in Int
<1> DEFINE g == CHOOSE h : Folds(h, f, D)
<1>1. Folds(g, f, D)
  BY FoldExists
<1>2. Q!Sum(f) = g[D]
  BY DEF Q!Sum, Q!FoldFunction, Q!FoldFunctionOnSet, Q!MapThenFoldSet, Folds
<1> HIDE DEF g
<1> QED BY <1>1, <1>2, FoldsToNumber

\* A finite set of numbers has a largest one.
LEMMA LargestNumber ==
    ASSUME NEW S \in SUBSET Int, S # {}, IsFiniteSet(S)
    PROVE  Q!Max(S) \in S /\ \A y \in S : Q!Max(S) >= y
<1> DEFINE above(x) == {y \in S : y > x}
           Counts == {Cardinality(above(x)) : x \in S}
<1>1. \A x \in S : IsFiniteSet(above(x)) /\ Cardinality(above(x)) \in Nat
  <2> TAKE x \in S
  <2>1. above(x) \in SUBSET S
    OBVIOUS
  <2> HIDE DEF above
  <2>2. IsFiniteSet(above(x))
    BY <2>1, FS_Subset
  <2> QED BY <2>2, FS_CardinalityType
<1>2. PICK x \in S : \A y \in S : Cardinality(above(x)) <= Cardinality(above(y))
  <2>1. Counts \in SUBSET Nat /\ Counts # {}
    <3> HIDE DEF above
    <3> QED BY <1>1
  <2> HIDE DEF above, Counts
  <2>2. PICK m \in Counts : \A n \in Counts : m <= n
    BY <2>1, LeastNumber
  <2> QED BY <2>2 DEF Counts
<1>3. ASSUME NEW y \in S, y > x PROVE FALSE
  <2>1. above(y) \in SUBSET above(x) /\ y \in above(x) /\ y \notin above(y)
    <3>1. x \in Int /\ y \in Int /\ \A z \in S : z \in Int
      BY <1>2, <1>3
    <3>2. \A z \in S : z > y => z > x
      BY <1>3, <3>1
    <3>3. y > x /\ ~(y > y) /\ y \in S
      BY <1>3, <3>1
    <3> QED BY <3>2, <3>3
  <2> HIDE DEF above
  <2>2. Cardinality(above(y)) <= Cardinality(above(x)) /\ Cardinality(above(y)) # Cardinality(above(x))
    BY <1>1, <2>1, FS_Subset
  <2> QED BY <1>1, <1>2, <2>2
<1>4. x \in S /\ \A y \in S : x >= y
  BY <1>3
<1> QED BY <1>4 DEF Q!Max

LEMMA LargerOfTwo ==
    ASSUME NEW m \in Int, NEW n \in Int
    PROVE  Q!Max({m, n}) \in Int /\ Q!Max({m, n}) >= m /\ Q!Max({m, n}) >= n
<1>1. \E x \in {m, n} : \A y \in {m, n} : x >= y
  OBVIOUS
<1> QED BY <1>1 DEF Q!Max

LEMMA SmallestNumber ==
    ASSUME NEW S \in SUBSET Int, S # {}, IsFiniteSet(S)
    PROVE  Q!Min(S) \in S /\ \A y \in S : Q!Min(S) <= y
<1> DEFINE N == {-x : x \in S}
           neg == [x \in S |-> -x]
<1>1. IsFiniteSet(N)
  <2>1. neg \in Surjection(S, N)
    BY DEF Surjection
  <2> HIDE DEF neg, N
  <2> QED BY <2>1, FS_Surjection
<1>2. N \in SUBSET Int /\ N # {}
  <2>1. PICK x \in S : TRUE
    OBVIOUS
  <2>2. -x \in N
    BY <2>1
  <2>3. \A y \in S : -y \in Int
    OBVIOUS
  <2> QED BY <2>2, <2>3
<1> HIDE DEF N
<1>3. PICK m \in N : \A y \in N : m >= y
  BY <1>1, <1>2, LargestNumber
<1>4. -m \in S /\ \A y \in S : -m <= y
  <2>1. PICK x \in S : m = -x
    BY DEF N
  <2>2. -m = x
    BY <2>1
  <2>3. \A y \in S : -y \in N
    BY DEF N
  <2> QED BY <1>3, <2>1, <2>2, <2>3
<1> QED BY <1>4 DEF Q!Min

-----------------------------------------------------------------------------
(* Rows and their scores.                                                     *)

LEMMA OccurrencesIs ==
    ASSUME NEW r \in Q!RowSpace, NEW terms
    PROVE  Q!Occurrences(r.words, terms) \in Nat /\ Len(r.words) \in Nat
<1> DEFINE places == {i \in 1..Len(r.words) : r.words[i] \in terms}
<1>1. r.words \in Seq(Words) /\ Len(r.words) \in Nat
  BY DEF Q!RowSpace
<1>2. IsFiniteSet(1..Len(r.words))
  BY <1>1, FS_Interval
<1>3. places \in SUBSET (1..Len(r.words))
  OBVIOUS
<1>4. Q!Occurrences(r.words, terms) = Cardinality(places)
  BY QCardinality DEF Q!Occurrences, Q!Count
<1> HIDE DEF places
<1>5. IsFiniteSet(places)
  BY <1>2, <1>3, FS_Subset
<1> QED BY <1>1, <1>4, <1>5, FS_CardinalityType

LEMMA VectorScoreIs ==
    ASSUME Q!NoneIsNoValue, NEW r \in Q!RowSpace, NEW metric \in Q!Measures, NEW q \in Int
    PROVE  /\ Q!VectorScore(metric, q, r) \in Int \cup {None}
           /\ Q!VectorScore(metric, q, r) # None => Q!VectorScore(metric, q, r) \in Int
<1>1. r.vec \in Int \/ r.vec = None
  BY DEF Q!RowSpace, Q!Numbers
<1>2. r.vec \in Int => Q!VectorScore(metric, q, r) \in Int
  <2> SUFFICES ASSUME r.vec \in Int PROVE Q!VectorScore(metric, q, r) \in Int
    OBVIOUS
  <2>1. r.vec # None
    BY DEF Q!NoneIsNoValue
  <2>2. q * r.vec \in Int /\ -Q!Abs(q - r.vec) \in Int
    BY DEF Q!Abs
  <2>3. metric = "dot" => Q!VectorScore(metric, q, r) = q * r.vec
    BY <2>1 DEF Q!VectorScore
  <2>4. metric = "euclidean" => Q!VectorScore(metric, q, r) = -Q!Abs(q - r.vec)
    BY <2>1 DEF Q!VectorScore
  <2>5. metric = "cosine" => Q!VectorScore(metric, q, r) \in {1, -1, 0}
    BY <2>1, <2>2 DEF Q!VectorScore
  <2> QED BY <2>2, <2>3, <2>4, <2>5 DEF Q!Measures
<1>3. r.vec = None => Q!VectorScore(metric, q, r) = None
  BY DEF Q!VectorScore
<1> QED BY <1>1, <1>2, <1>3

\* Rows with keys of their own.
Keyed(rows) ==
    /\ rows \in SUBSET Q!RowSpace /\ IsFiniteSet(rows)
    /\ \A r \in rows : r.id \in Int
    /\ \A r, s \in rows : r.id = s.id => r = s

\* The keys ties are broken by.
KeysOf(rows) == {Q!Key(r) : r \in rows}

LEMMA KeyIs == ASSUME NEW rows, Keyed(rows) PROVE \A r \in rows : Q!Key(r) \in Int
<1> TAKE r \in rows
<1>1. r.id \in Int /\ (r.grp \in Int \/ r.grp = None)
  BY DEF Keyed, Q!RowSpace, Q!Numbers
<1> QED BY <1>1 DEF Q!Key

\* The last row with a key is one of them.
LEMMA LastWithIs ==
    ASSUME NEW rows, Keyed(rows), NEW D \in SUBSET rows, NEW k, \E r \in D : Q!Key(r) = k
    PROVE  Q!LastWith(k, D) \in D /\ Q!Key(Q!LastWith(k, D)) = k
<1> DEFINE E == {r \in D : Q!Key(r) = k}
           id == [r \in E |-> r.id]
           ids == {r.id : r \in E}
<1>1. IsFiniteSet(E)
  <2>1. E \in SUBSET rows
    OBVIOUS
  <2> QED BY <2>1, FS_Subset DEF Keyed
<1>2. id \in Surjection(E, ids)
  BY DEF Surjection
<1>3. ids \in SUBSET Int /\ ids # {}
  BY DEF Keyed
<1>4. IsFiniteSet(ids)
  <2> HIDE DEF E, id, ids
  <2> QED BY <1>1, <1>2, FS_Surjection
<1>5. Q!Max(ids) \in ids /\ \A y \in ids : Q!Max(ids) >= y
  <2> HIDE DEF ids
  <2> QED BY <1>3, <1>4, LargestNumber
<1>6. PICK last \in E : last.id = Q!Max(ids)
  BY <1>5
<1>7. last \in D /\ Q!Key(last) = k /\ \A s \in D : Q!Key(s) = k => s.id <= last.id
  <2>1. \A s \in D : Q!Key(s) = k => s.id \in ids /\ s.id \in Int /\ last.id \in Int
    BY <1>3
  <2> HIDE DEF ids
  <2> QED BY <1>5, <1>6, <2>1
<1>8. Q!LastWith(k, D) = CHOOSE r \in D : Q!Key(r) = k /\ \A s \in D : Q!Key(s) = k => s.id <= r.id
  BY DEF Q!LastWith
<1> HIDE DEF E, ids, id
<1> QED BY <1>7, <1>8

\* The scores of some of the rows are numbers.
Scored(f, rows) == DOMAIN f \in SUBSET rows /\ f \in [DOMAIN f -> Int]

LEMMA BM25Is ==
    ASSUME NEW rows \in SUBSET Q!RowSpace, IsFiniteSet(rows), NEW terms \in Q!Terms, NEW operator
    PROVE  Scored(Q!BM25(terms, operator, rows), rows)
<1> DEFINE hits  == {r \in rows : IF operator = "and" THEN terms \subseteq Q!ToSet(r.words)
                                  ELSE terms \cap Q!ToSet(r.words) # {}}
           n     == Q!Cardinality(rows)
           len   == [r \in rows |-> Len(r.words)]
           total == Q!Max({n, Q!Sum(len)})
           idf(t) == 1 + n - Q!Cardinality({r \in rows : t \in Q!ToSet(r.words)})
           tf(r, t) == Q!Occurrences(r.words, {t})
           share(r, t) == (idf(t) * tf(r, t) * 22000 * total)
                             \div (10 * tf(r, t) * total + 3 * total + 9 * Len(r.words) * n)
<1>1. Q!BM25(terms, operator, rows) = [r \in hits |-> Q!Sum([t \in terms |-> share(r, t)])]
  BY DEF Q!BM25
<1>2. n \in Nat /\ (rows # {} => n >= 1)
  <2>1. n = Cardinality(rows)
    BY QCardinality
  <2> QED BY <2>1, FS_CardinalityType, FS_EmptySet
<1>3. Q!Sum(len) \in Int
  <2>1. \A r \in rows : Len(r.words) \in Nat
    BY OccurrencesIs
  <2>2. len \in [rows -> Int]
    BY <2>1
  <2> HIDE DEF len
  <2> QED BY <2>2, SumIsNumber
<1>4. total \in Int /\ total >= n
  <2> DEFINE lens == Q!Sum(len)
  <2>1. lens \in Int /\ n \in Int
    BY <1>2, <1>3
  <2> HIDE DEF n, lens
  <2>2. Q!Max({n, lens}) \in Int /\ Q!Max({n, lens}) >= n
    BY <2>1, LargerOfTwo
  <2> QED BY <2>2 DEF lens
<1>5. ASSUME NEW t PROVE idf(t) \in Int
  <2> DEFINE with == {r \in rows : t \in Q!ToSet(r.words)}
  <2>1. with \in SUBSET rows
    OBVIOUS
  <2>2. Q!Cardinality(with) = Cardinality(with)
    BY QCardinality
  <2> HIDE DEF with, n
  <2>3. IsFiniteSet(with)
    BY <2>1, FS_Subset
  <2>4. Q!Cardinality(with) \in Nat
    BY <2>2, <2>3, FS_CardinalityType
  <2> QED BY <1>2, <2>4 DEF with
<1>6. ASSUME NEW r \in rows, NEW t PROVE share(r, t) \in Int
  <2> DEFINE a == tf(r, t)
             b == Len(r.words)
             c == idf(t)
             T == total
             N == n
             num == c * a * 22000 * T
             den == 10 * a * T + 3 * T + 9 * b * N
  <2>1. a \in Nat /\ b \in Nat /\ c \in Int /\ T \in Nat /\ N \in Nat /\ T >= 1
    <3>1. rows # {}
      OBVIOUS
    <3>2. a \in Nat /\ b \in Nat
      BY OccurrencesIs
    <3> HIDE DEF n, total, idf, tf
    <3> QED BY <1>2, <1>4, <1>5, <3>1, <3>2
  <2>2. share(r, t) = num \div den
    OBVIOUS
  <2> HIDE DEF share, a, b, c, T, N
  <2>3. num \in Int
    BY <2>1
  <2>4. den \in Int /\ den > 0
    <3>1. a * T \in Nat /\ b * N \in Nat
      BY <2>1
    <3>2. 10 * a * T = 10 * (a * T) /\ 9 * b * N = 9 * (b * N)
      BY <2>1
    <3> QED BY <2>1, <3>1, <3>2
  <2> HIDE DEF num, den
  <2>5. num \div den \in Int
    BY <2>3, <2>4
  <2> QED BY <2>2, <2>5
<1> HIDE DEF share
<1>7. \A r \in rows : Q!Sum([t \in terms |-> share(r, t)]) \in Int
  <2> TAKE r \in rows
  <2> DEFINE f == [t \in terms |-> share(r, t)]
  <2>1. f \in [terms -> Int]
    BY <1>6
  <2>2. IsFiniteSet(terms)
    BY QCardinality DEF Q!Terms
  <2> HIDE DEF f
  <2>3. Q!Sum(f) \in Int
    BY <2>1, <2>2, SumIsNumber
  <2> QED BY <2>3 DEF f
<1>8. hits \in SUBSET rows
  OBVIOUS
<1> HIDE DEF hits
<1> QED BY <1>1, <1>7, <1>8 DEF Scored

\* A dictionary by key of the scores of rows.
LEMMA ByKeyIs ==
    ASSUME NEW rows, Keyed(rows), NEW f, Scored(f, rows)
    PROVE  IsFiniteSet(KeysOf(rows)) /\ Scored(Q!ByKey(f), KeysOf(rows))
<1> DEFINE key == [r \in rows |-> Q!Key(r)]
           D == DOMAIN f
           last(k) == Q!LastWith(k, D)
<1>1. IsFiniteSet(KeysOf(rows))
  <2>1. key \in Surjection(rows, KeysOf(rows))
    BY DEF Surjection, KeysOf
  <2> HIDE DEF key
  <2> QED BY <2>1, FS_Surjection DEF Keyed
<1>2. Q!ByKey(f) = [k \in KeysOf(D) |-> f[last(k)]]
  BY DEF Q!ByKey, KeysOf
<1>3. D \in SUBSET rows /\ \A r \in D : f[r] \in Int
  BY DEF Scored
<1> HIDE DEF D
<1>4. \A k \in KeysOf(D) : k \in KeysOf(rows) /\ last(k) \in D
  <2> TAKE k \in KeysOf(D)
  <2>1. \E r \in D : Q!Key(r) = k
    BY DEF KeysOf
  <2> QED BY <1>3, <2>1, LastWithIs DEF KeysOf
<1> HIDE DEF last
<1>5. Scored(Q!ByKey(f), KeysOf(rows))
  BY <1>2, <1>3, <1>4 DEF Scored
<1> QED BY <1>1, <1>5

LEMMA VectorScoresIs ==
    ASSUME Q!NoneIsNoValue, NEW rows \in SUBSET Q!RowSpace, NEW metric \in Q!Measures, NEW q \in Int
    PROVE  Scored(Q!VectorScores(metric, q, rows), rows)
<1> DEFINE D == {x \in rows : Q!VectorScore(metric, q, x) # None}
<1>1. \A r \in D : Q!VectorScore(metric, q, r) \in Int
  BY VectorScoreIs
<1>2. Q!VectorScores(metric, q, rows) = [r \in D |-> Q!VectorScore(metric, q, r)] /\ D \in SUBSET rows
  BY DEF Q!VectorScores
<1> HIDE DEF D
<1> QED BY <1>1, <1>2 DEF Scored

LEMMA TextScoresIs ==
    ASSUME NEW rows, Keyed(rows), NEW q, q.terms \in Q!Terms
    PROVE  Scored(Q!TextScores(q, rows), rows)
<1> DEFINE tf == [r \in rows |-> Q!Occurrences(r.words, q.terms)]
           bm25 == Q!BM25(q.terms, q.operator, rows)
           text == Q!ByKey(IF q.rank = "term_frequency" THEN tf ELSE bm25)
           found == {k \in DOMAIN text : q.rank = "term_frequency" => text[k] > 0}
           D == {x \in rows : Q!Key(x) \in found}
<1>1. rows \in SUBSET Q!RowSpace /\ IsFiniteSet(rows)
  BY DEF Keyed
<1>2. Scored(tf, rows)
  <2>1. \A r \in rows : Q!Occurrences(r.words, q.terms) \in Int
    BY <1>1, OccurrencesIs
  <2> QED BY <2>1 DEF Scored
<1>3. Scored(bm25, rows)
  BY <1>1, BM25Is
<1>4. Q!TextScores(q, rows) = [r \in D |-> text[Q!Key(r)]]
  BY DEF Q!TextScores
<1> HIDE DEF tf, bm25
<1>5. Scored(text, KeysOf(rows))
  BY <1>2, <1>3, ByKeyIs
<1>6. D \in SUBSET rows /\ \A r \in D : Q!Key(r) \in DOMAIN text
  OBVIOUS
<1> HIDE DEF D, text
<1>7. \A r \in D : text[Q!Key(r)] \in Int
  BY <1>5, <1>6 DEF Scored
<1> QED BY <1>4, <1>6, <1>7 DEF Scored

\* The score of one row under vector() and text().
VectorPart(q, r) == IF q.vector = None THEN None ELSE Q!VectorScore(q.metric, q.vector, r)
TextPart(q, r) == IF q.terms = {} THEN None ELSE Q!Occurrences(r.words, q.terms)
OneScore(q, r) ==
    IF VectorPart(q, r) # None /\ TextPart(q, r) # None THEN VectorPart(q, r) + TextPart(q, r)
    ELSE 2 * (IF VectorPart(q, r) # None THEN VectorPart(q, r) ELSE TextPart(q, r))

LEMMA FusedScoresAre ==
    ASSUME NEW q, NEW rows
    PROVE  Q!FusedScores(q, rows) =
              [r \in {x \in rows : VectorPart(q, x) # None \/ TextPart(q, x) # None} |-> OneScore(q, r)]
BY DEF Q!FusedScores, VectorPart, TextPart, OneScore

LEMMA FusedScoresIs ==
    ASSUME Q!NoneIsNoValue, NEW rows \in SUBSET Q!RowSpace, NEW q,
           q.vector \in Q!Numbers, q.metric \in Q!Measures
    PROVE  Scored(Q!FusedScores(q, rows), rows)
<1> DEFINE D == {x \in rows : VectorPart(q, x) # None \/ TextPart(q, x) # None}
<1>1. \A r \in rows : /\ VectorPart(q, r) # None => VectorPart(q, r) \in Int
                      /\ TextPart(q, r) # None => TextPart(q, r) \in Int
  <2> TAKE r \in rows
  <2>1. q.vector # None => q.vector \in Int
    BY DEF Q!Numbers
  <2>2. VectorPart(q, r) # None => VectorPart(q, r) \in Int
    BY <2>1, VectorScoreIs DEF VectorPart
  <2>3. Q!Occurrences(r.words, q.terms) \in Int
    BY OccurrencesIs
  <2>4. TextPart(q, r) # None => TextPart(q, r) \in Int
    BY <2>3 DEF TextPart
  <2> QED BY <2>2, <2>4
<1>2. ASSUME NEW r \in D PROVE OneScore(q, r) \in Int
  <2> DEFINE v == VectorPart(q, r)
             t == TextPart(q, r)
  <2>1. (v # None => v \in Int) /\ (t # None => t \in Int) /\ (v # None \/ t # None)
    <3>1. r \in rows /\ (v # None \/ t # None)
      OBVIOUS
    <3>2. (v # None => v \in Int) /\ (t # None => t \in Int)
      BY <1>1, <3>1
    <3> QED BY <3>1, <3>2
  <2>2. OneScore(q, r) = IF v # None /\ t # None THEN v + t ELSE 2 * (IF v # None THEN v ELSE t)
    BY DEF OneScore
  <2> HIDE DEF v, t
  <2>3. CASE v # None /\ t # None
    BY <2>1, <2>2, <2>3
  <2>4. CASE v # None /\ t = None
    BY <2>1, <2>2, <2>4
  <2>5. CASE v = None
    BY <2>1, <2>2, <2>5
  <2> QED BY <2>3, <2>4, <2>5
<1>3. Q!FusedScores(q, rows) = [r \in D |-> OneScore(q, r)] /\ D \in SUBSET rows
  BY FusedScoresAre
<1> HIDE DEF D
<1> QED BY <1>2, <1>3 DEF Scored

LEMMA ScoresAreFinite ==
    ASSUME NEW rows, IsFiniteSet(rows), NEW f, Scored(f, rows)
    PROVE  /\ IsFiniteSet(DOMAIN f)
           /\ {f[r] : r \in DOMAIN f} \in SUBSET Int /\ IsFiniteSet({f[r] : r \in DOMAIN f})
<1> DEFINE D == DOMAIN f
           m == {f[r] : r \in D}
<1>1. IsFiniteSet(D)
  BY FS_Subset DEF Scored
<1>2. f \in [D -> Int]
  BY DEF Scored
<1>3. m \in SUBSET Int /\ f \in Surjection(D, m)
  <2>1. \A r \in D : f[r] \in Int /\ f[r] \in m
    BY <1>2
  <2>2. f \in [D -> m]
    BY <1>2, <2>1
  <2>3. \A v \in m : \E r \in D : f[r] = v
    OBVIOUS
  <2> QED BY <2>1, <2>2, <2>3 DEF Surjection
<1> HIDE DEF m, D
<1>4. IsFiniteSet(m)
  BY <1>1, <1>3, FS_Surjection
<1> QED BY <1>1, <1>3, <1>4 DEF m, D

LEMMA NormalIs ==
    ASSUME NEW rows, IsFiniteSet(rows), NEW f, Scored(f, rows)
    PROVE  Q!Span(f) \in Int /\ \A r \in DOMAIN f : Q!Normal(f, r) \in Int
<1> DEFINE m == {f[r] : r \in DOMAIN f}
<1>1. m \in SUBSET Int /\ IsFiniteSet(m)
  BY ScoresAreFinite
<1>2. \A r \in DOMAIN f : f[r] \in Int /\ f[r] \in m
  BY DEF Scored
<1>3. Q!Span(f) = IF m = {} \/ Q!Max(m) = Q!Min(m) THEN 1 ELSE Q!Max(m) - Q!Min(m)
  BY DEF Q!Span
<1>4. \A r : Q!Normal(f, r) = IF Q!Max(m) = Q!Min(m) THEN 1 ELSE f[r] - Q!Min(m)
  BY DEF Q!Normal
<1> HIDE DEF m
<1>5. m # {} => Q!Max(m) \in Int /\ Q!Min(m) \in Int
  BY <1>1, LargestNumber, SmallestNumber
<1> QED BY <1>2, <1>3, <1>4, <1>5

LEMMA WeightedSumIs ==
    ASSUME NEW rows, IsFiniteSet(rows), NEW f, Scored(f, rows), NEW g, Scored(g, rows)
    PROVE  Scored(Q!WeightedSum(f, g), rows)
<1> DEFINE D == DOMAIN f \cup DOMAIN g
           w(r) == (IF r \in DOMAIN f THEN Q!Normal(f, r) * Q!Span(g) ELSE 0)
                   + (IF r \in DOMAIN g THEN Q!Normal(g, r) * Q!Span(f) ELSE 0)
<1>1. Q!Span(f) \in Int /\ \A r \in DOMAIN f : Q!Normal(f, r) \in Int
  BY NormalIs
<1>2. Q!Span(g) \in Int /\ \A r \in DOMAIN g : Q!Normal(g, r) \in Int
  BY NormalIs
<1>3. ASSUME NEW r \in D PROVE w(r) \in Int
  <2>1. r \in DOMAIN f => Q!Normal(f, r) * Q!Span(g) \in Int
    BY <1>1, <1>2
  <2>2. r \in DOMAIN g => Q!Normal(g, r) * Q!Span(f) \in Int
    BY <1>1, <1>2
  <2> QED BY <2>1, <2>2
<1>4. Q!WeightedSum(f, g) = [r \in D |-> w(r)] /\ D \in SUBSET rows
  BY DEF Q!WeightedSum, Scored
<1> HIDE DEF w, D
<1> QED BY <1>3, <1>4 DEF Scored

LEMMA KeyRankIs ==
    ASSUME NEW rows, IsFiniteSet(rows), NEW f, Scored(f, rows), NEW k
    PROVE  Q!KeyRank(f, k) \in Nat
<1> DEFINE before == {x \in DOMAIN f : f[x] > f[k] \/ (f[x] = f[k] /\ x < k)}
<1>1. before \in SUBSET DOMAIN f /\ IsFiniteSet(DOMAIN f)
  BY ScoresAreFinite
<1>2. Q!KeyRank(f, k) = 1 + Cardinality(before)
  BY QCardinality DEF Q!KeyRank
<1> HIDE DEF before
<1>3. Cardinality(before) \in Nat
  BY <1>1, FS_Subset, FS_CardinalityType
<1> QED BY <1>2, <1>3

LEMMA RankFusionIs ==
    ASSUME NEW rows, IsFiniteSet(rows), NEW f, Scored(f, rows), NEW g, Scored(g, rows)
    PROVE  Scored(Q!RankFusion(f, g), rows)
<1> DEFINE D == DOMAIN f \cup DOMAIN g
           w(r) == (IF r \in DOMAIN f THEN Q!Reciprocal(Q!KeyRank(f, r)) ELSE 0)
                   + (IF r \in DOMAIN g THEN Q!Reciprocal(Q!KeyRank(g, r)) ELSE 0)
<1>1. \A n \in Nat : Q!Reciprocal(n) \in Int
  BY DEF Q!Reciprocal
<1>2. \A r : Q!KeyRank(f, r) \in Nat
  BY KeyRankIs
<1>3. \A r : Q!KeyRank(g, r) \in Nat
  BY KeyRankIs
<1>4. \A r \in D : w(r) \in Int
  BY <1>1, <1>2, <1>3
<1>5. Q!RankFusion(f, g) = [r \in D |-> w(r)] /\ D \in SUBSET rows
  BY DEF Q!RankFusion, Scored
<1> HIDE DEF w, D
<1> QED BY <1>4, <1>5 DEF Scored

LEMMA HybridScoresIs ==
    ASSUME Q!NoneIsNoValue, NEW rows, Keyed(rows), NEW q,
           q.terms \in Q!Terms, q.vector \in Int, q.metric \in Q!Measures
    PROVE  Scored(Q!HybridScores(q, rows), rows)
<1> DEFINE bm25 == Q!BM25(q.terms, "or", rows)
           near == Q!VectorScores(q.metric, q.vector, rows)
           text == Q!ByKey(bm25)
           vec == Q!ByKey(near)
           fused == IF q.fusion = "rrf" THEN Q!RankFusion(text, vec) ELSE Q!WeightedSum(text, vec)
           last(k) == Q!LastWith(k, rows)
           D == {last(k) : k \in DOMAIN fused}
<1>1. rows \in SUBSET Q!RowSpace /\ IsFiniteSet(rows)
  BY DEF Keyed
<1>2. Scored(bm25, rows) /\ Scored(near, rows)
  BY <1>1, BM25Is, VectorScoresIs
<1>3. Q!HybridScores(q, rows) = [r \in D |-> fused[Q!Key(r)]]
  BY DEF Q!HybridScores
<1> HIDE DEF bm25, near
<1>4. IsFiniteSet(KeysOf(rows)) /\ Scored(text, KeysOf(rows)) /\ Scored(vec, KeysOf(rows))
  BY <1>2, ByKeyIs
<1> HIDE DEF text, vec
<1>5. Scored(fused, KeysOf(rows))
  BY <1>4, RankFusionIs, WeightedSumIs
<1> HIDE DEF fused
<1>6. \A k \in DOMAIN fused : last(k) \in rows /\ Q!Key(last(k)) = k /\ fused[k] \in Int
  <2> TAKE k \in DOMAIN fused
  <2>1. k \in KeysOf(rows) /\ fused[k] \in Int
    BY <1>5 DEF Scored
  <2>2. \E r \in rows : Q!Key(r) = k
    BY <2>1 DEF KeysOf
  <2> QED BY <2>1, <2>2, LastWithIs
<1> HIDE DEF last
<1>7. \A r \in D : r \in rows /\ fused[Q!Key(r)] \in Int
  BY <1>6
<1> HIDE DEF D
<1> QED BY <1>3, <1>7 DEF Scored

\* Every ranked query scores some of the rows with numbers.
LEMMA ScoresAre ==
    ASSUME Q!NoneIsNoValue, Q!SearchesAreRanked, NEW q \in RankedSearches, NEW rows, Keyed(rows)
    PROVE  Scored(Q!Scores(q, rows), rows)
<1>1. q \in Q!RankedQueries
  BY DEF Q!SearchesAreRanked
<1>2. CASE q.clause = "vector"
  <2>1. q.vector \in Q!Numbers /\ q.metric \in Q!Measures
    BY <1>1, <1>2 DEF Q!RankedQueries
  <2>2. Q!Scores(q, rows) = Q!FusedScores(q, rows)
    BY <1>2 DEF Q!Scores
  <2> QED BY <2>1, <2>2, FusedScoresIs DEF Keyed
<1>3. CASE q.clause = "text_search"
  <2>1. q.terms \in Q!Terms
    BY <1>1, <1>3 DEF Q!RankedQueries
  <2>2. Q!Scores(q, rows) = Q!TextScores(q, rows)
    BY <1>3 DEF Q!Scores
  <2> QED BY <2>1, <2>2, TextScoresIs
<1>4. CASE q.clause = "hybrid"
  <2>1. q.terms \in Q!Terms /\ q.vector \in Int /\ q.metric \in Q!Measures
    BY <1>1, <1>4 DEF Q!RankedQueries
  <2>2. Q!Scores(q, rows) = Q!HybridScores(q, rows)
    BY <1>4 DEF Q!Scores
  <2> QED BY <2>1, <2>2, HybridScoresIs
<1> QED BY <1>1, <1>2, <1>3, <1>4 DEF Q!RankedQueries

\* A count of terms is that of the row itself if no other row has its key.
LEMMA OwnCount ==
    ASSUME NEW q, NEW T, Keyed(T), NEW r \in T, Q!Alone(r, T), q.rank = "term_frequency"
    PROVE  /\ r \in DOMAIN Q!TextScores(q, T) <=> Q!Occurrences(r.words, q.terms) > 0
           /\ r \in DOMAIN Q!TextScores(q, T)
                => Q!TextScores(q, T)[r] = Q!Occurrences(r.words, q.terms)
<1> DEFINE tf == [x \in T |-> Q!Occurrences(x.words, q.terms)]
           text == Q!ByKey(tf)
           found == {k \in DOMAIN text : text[k] > 0}
           D == {x \in T : Q!Key(x) \in found}
<1>1. Q!TextScores(q, T) = [x \in D |-> text[Q!Key(x)]]
  <2>1. Q!ByKey(IF q.rank = "term_frequency" THEN tf ELSE Q!BM25(q.terms, q.operator, T)) = text
    OBVIOUS
  <2>2. {k \in DOMAIN text : q.rank = "term_frequency" => text[k] > 0} = found
    OBVIOUS
  <2> HIDE DEF text, found
  <2> QED BY <2>1, <2>2 DEF Q!TextScores
<1>2. text = [k \in KeysOf(T) |-> tf[Q!LastWith(k, T)]]
  BY DEF Q!ByKey, KeysOf
<1>3. Q!Key(r) \in KeysOf(T)
  BY DEF KeysOf
<1>4. Q!LastWith(Q!Key(r), T) = r
  <2>1. Q!LastWith(Q!Key(r), T) \in T /\ Q!Key(Q!LastWith(Q!Key(r), T)) = Q!Key(r)
    BY LastWithIs
  <2> QED BY <2>1 DEF Q!Alone
<1>5. tf[r] = Q!Occurrences(r.words, q.terms)
  OBVIOUS
<1> HIDE DEF tf, text
<1>6. Q!Key(r) \in DOMAIN text /\ text[Q!Key(r)] = Q!Occurrences(r.words, q.terms)
  BY <1>2, <1>3, <1>4, <1>5
<1>7. r \in D <=> Q!Occurrences(r.words, q.terms) > 0
  BY <1>6
<1> HIDE DEF D
<1> QED BY <1>1, <1>6, <1>7

\* The score a row has of its own is the same among other rows.
LEMMA OwnScoresStay ==
    ASSUME NEW q, Q!OwnScore(q), NEW R, Keyed(R), NEW S, Keyed(S), NEW r \in R, r \in S,
           Q!Alone(r, R), Q!Alone(r, S), r \in DOMAIN Q!Scores(q, R)
    PROVE  r \in DOMAIN Q!Scores(q, S) /\ Q!Scores(q, S)[r] = Q!Scores(q, R)[r]
<1>1. CASE q.clause = "vector"
  <2>1. \A T : Q!Scores(q, T) = [x \in {y \in T : VectorPart(q, y) # None \/ TextPart(q, y) # None} |-> OneScore(q, x)]
    <3> TAKE T
    <3>1. Q!Scores(q, T) = Q!FusedScores(q, T)
      BY <1>1 DEF Q!Scores
    <3> QED BY <3>1, FusedScoresAre
  <2> DEFINE D(T) == {y \in T : VectorPart(q, y) # None \/ TextPart(q, y) # None}
  <2>2. Q!Scores(q, R) = [x \in D(R) |-> OneScore(q, x)] /\ Q!Scores(q, S) = [x \in D(S) |-> OneScore(q, x)]
    BY <2>1
  <2>3. r \in D(R) => r \in D(S)
    OBVIOUS
  <2> HIDE DEF D
  <2> QED BY <2>2, <2>3
<1>2. CASE q.clause = "text_search" /\ q.rank = "term_frequency"
  <2>1. Q!Scores(q, R) = Q!TextScores(q, R) /\ Q!Scores(q, S) = Q!TextScores(q, S)
    BY <1>2 DEF Q!Scores
  <2>2. r \in DOMAIN Q!TextScores(q, R)
    BY <2>1
  <2>3. /\ Q!Occurrences(r.words, q.terms) > 0
        /\ Q!TextScores(q, R)[r] = Q!Occurrences(r.words, q.terms)
    BY <1>2, <2>2, OwnCount
  <2>4. r \in DOMAIN Q!TextScores(q, S) /\ Q!TextScores(q, S)[r] = Q!Occurrences(r.words, q.terms)
    BY <1>2, <2>3, OwnCount
  <2> QED BY <2>1, <2>3, <2>4
<1> QED BY <1>1, <1>2 DEF Q!OwnScore

-----------------------------------------------------------------------------
(* The rows of a table and their ranking.                                     *)

LEMMA RowsOf ==
    ASSUME Q!KeysAreNumbers, NEW t \in Q!TableSpace,
           NEW rows, rows = {t[i] : i \in {j \in RowIds : t[j] # None}}
    PROVE  Keyed(rows) /\ \A r \in rows : r.id \in RowIds /\ t[r.id] = r
<1> DEFINE keys == {i \in RowIds : t[i] # None}
           row == [i \in keys |-> t[i]]
<1>1. IsFiniteSet(keys)
  <2>1. IsFiniteSet(RowIds)
    BY QCardinality DEF Q!KeysAreNumbers
  <2> QED BY <2>1, FS_Subset
<1>2. \A i \in keys : t[i] \in Q!RowSpace /\ t[i].id = i
  BY DEF Q!TableSpace
<1>3. rows = {t[i] : i \in keys}
  OBVIOUS
<1>4. IsFiniteSet(rows)
  <2>1. row \in [keys -> rows]
    BY <1>3
  <2>2. \A r \in rows : \E i \in keys : row[i] = r
    BY <1>3
  <2> HIDE DEF row, keys
  <2>3. row \in Surjection(keys, rows)
    BY <2>1, <2>2 DEF Surjection
  <2> QED BY <1>1, <2>3, FS_Surjection
<1>5. \A r \in rows : r \in Q!RowSpace /\ r.id \in RowIds /\ t[r.id] = r
  <2> TAKE r \in rows
  <2>1. PICK i \in keys : r = t[i]
    BY <1>3
  <2> QED BY <1>2, <2>1
<1>6. \A i \in RowIds : i \in Int
  BY DEF Q!KeysAreNumbers
<1> HIDE DEF keys, row
<1>7. \A r, s \in rows : r.id = s.id => r = s
  <2> TAKE r, s \in rows
  <2>1. t[r.id] = r /\ t[s.id] = s
    BY <1>5
  <2> QED BY <2>1
<1> QED BY <1>4, <1>5, <1>6, <1>7 DEF Keyed

LEMMA RowsAre ==
    ASSUME Q!KeysAreNumbers, qTable \in Q!TableSpace
    PROVE  Keyed(Q!Rows) /\ \A r \in Q!Rows : r.id \in RowIds /\ qTable[r.id] = r
BY RowsOf DEF Q!Rows

\* Rows are ranked one before the other.
LEMMA BeforeIsOrder ==
    ASSUME NEW rows, Keyed(rows), NEW f, Scored(f, rows)
    PROVE  /\ \A r \in DOMAIN f : ~Q!Before(f, r, r)
           /\ \A r, s \in DOMAIN f : r # s => Q!Before(f, r, s) \/ Q!Before(f, s, r)
           /\ \A r, s, t \in DOMAIN f : Q!Before(f, r, s) /\ Q!Before(f, s, t) => Q!Before(f, r, t)
<1>1. \A r \in DOMAIN f : r.id \in Int /\ f[r] \in Int /\ Q!Key(r) \in Int
  BY KeyIs DEF Keyed, Scored
<1>2. \A r, s \in DOMAIN f : r # s => r.id # s.id
  BY DEF Keyed, Scored
<1>3. \A r \in DOMAIN f : ~Q!Before(f, r, r)
  BY <1>1 DEF Q!Before
<1>4. \A r, s \in DOMAIN f : r # s => Q!Before(f, r, s) \/ Q!Before(f, s, r)
  <2> TAKE r, s \in DOMAIN f
  <2> DEFINE a == f[r]
             b == f[s]
             k == Q!Key(r)
             l == Q!Key(s)
  <2>1. a \in Int /\ b \in Int /\ k \in Int /\ l \in Int /\ r.id \in Int /\ s.id \in Int
    BY <1>1
  <2>2. /\ Q!Before(f, r, s) <=> a > b \/ (a = b /\ k < l) \/ (a = b /\ k = l /\ r.id < s.id)
        /\ Q!Before(f, s, r) <=> b > a \/ (b = a /\ l < k) \/ (b = a /\ l = k /\ s.id < r.id)
    BY DEF Q!Before, Q!Tied
  <2>3. r # s => r.id # s.id
    BY <1>2
  <2> HIDE DEF a, b, k, l
  <2> QED BY <2>1, <2>2, <2>3
<1>5. \A r, s, t \in DOMAIN f : Q!Before(f, r, s) /\ Q!Before(f, s, t) => Q!Before(f, r, t)
  <2> TAKE r, s, t \in DOMAIN f
  <2> DEFINE a == f[r]
             b == f[s]
             c == f[t]
             k == Q!Key(r)
             l == Q!Key(s)
             m == Q!Key(t)
  <2>1. /\ a \in Int /\ b \in Int /\ c \in Int /\ k \in Int /\ l \in Int /\ m \in Int
        /\ r.id \in Int /\ s.id \in Int /\ t.id \in Int
    BY <1>1
  <2>2. /\ Q!Before(f, r, s) <=> a > b \/ (a = b /\ k < l) \/ (a = b /\ k = l /\ r.id < s.id)
        /\ Q!Before(f, s, t) <=> b > c \/ (b = c /\ l < m) \/ (b = c /\ l = m /\ s.id < t.id)
        /\ Q!Before(f, r, t) <=> a > c \/ (a = c /\ k < m) \/ (a = c /\ k = m /\ r.id < t.id)
    BY DEF Q!Before, Q!Tied
  <2> HIDE DEF a, b, c, k, l, m
  <2> QED BY <2>1, <2>2
<1> QED BY <1>3, <1>4, <1>5

LEMMA RankOfIs ==
    ASSUME NEW rows, IsFiniteSet(rows), NEW f, Scored(f, rows), NEW r
    PROVE  Q!RankOf(f, r) = 1 + Cardinality({x \in DOMAIN f : Q!Before(f, x, r)})
BY QCardinality DEF Q!RankOf

LEMMA RanksAre ==
    ASSUME NEW rows, Keyed(rows), NEW f, Scored(f, rows)
    PROVE  /\ Cardinality(DOMAIN f) \in Nat
           /\ \A r \in DOMAIN f : Q!RankOf(f, r) \in 1..Cardinality(DOMAIN f)
           /\ \A r, s \in DOMAIN f : Q!RankOf(f, r) < Q!RankOf(f, s) <=> Q!Before(f, r, s)
           /\ \A r, s \in DOMAIN f : Q!RankOf(f, r) = Q!RankOf(f, s) => r = s
           /\ \A i \in 1..Cardinality(DOMAIN f) : \E r \in DOMAIN f : Q!RankOf(f, r) = i
<1> DEFINE D == DOMAIN f
           n == Cardinality(D)
           before(r) == {x \in D : Q!Before(f, x, r)}
           rank(r) == Q!RankOf(f, r)
           place == [r \in D |-> rank(r)]
<1>1. IsFiniteSet(D) /\ n \in Nat
  <2>1. IsFiniteSet(D)
    BY ScoresAreFinite DEF Keyed
  <2> QED BY <2>1, FS_CardinalityType
<1>2. /\ \A r \in D : ~Q!Before(f, r, r)
      /\ \A r, s \in D : r # s => Q!Before(f, r, s) \/ Q!Before(f, s, r)
      /\ \A r, s, t \in D : Q!Before(f, r, s) /\ Q!Before(f, s, t) => Q!Before(f, r, t)
  BY BeforeIsOrder
<1>3. \A r : rank(r) = 1 + Cardinality(before(r))
  BY RankOfIs DEF Keyed
<1> HIDE DEF rank
<1>4. \A r \in D : IsFiniteSet(before(r)) /\ Cardinality(before(r)) \in Nat /\ rank(r) \in 1..n
  <2> TAKE r \in D
  <2>1. before(r) \in SUBSET D /\ r \notin before(r)
    BY <1>2
  <2>2. rank(r) = 1 + Cardinality(before(r))
    BY <1>3
  <2> HIDE DEF before
  <2>3. IsFiniteSet(before(r)) /\ Cardinality(before(r)) <= n /\ (Cardinality(before(r)) = n => before(r) = D)
    BY <1>1, <2>1, FS_Subset
  <2>4. Cardinality(before(r)) \in Nat
    BY <2>3, FS_CardinalityType
  <2> HIDE DEF n
  <2> QED BY <1>1, <2>1, <2>2, <2>3, <2>4
<1>5. \A r, s \in D : Q!Before(f, r, s) => rank(r) < rank(s)
  <2> SUFFICES ASSUME NEW r \in D, NEW s \in D, Q!Before(f, r, s) PROVE rank(r) < rank(s)
    OBVIOUS
  <2>1. before(r) \in SUBSET before(s) /\ r \in before(s) /\ r \notin before(r)
    BY <1>2
  <2>2. rank(r) = 1 + Cardinality(before(r)) /\ rank(s) = 1 + Cardinality(before(s))
    BY <1>3
  <2>3. IsFiniteSet(before(s)) /\ Cardinality(before(r)) \in Nat /\ Cardinality(before(s)) \in Nat
    BY <1>4
  <2> HIDE DEF before
  <2>4. Cardinality(before(r)) <= Cardinality(before(s)) /\ (Cardinality(before(r)) = Cardinality(before(s)) => before(r) = before(s))
    BY <2>1, <2>3, FS_Subset
  <2> QED BY <2>1, <2>2, <2>3, <2>4
<1>6. \A r, s \in D : (rank(r) = rank(s) => r = s) /\ (rank(r) < rank(s) <=> Q!Before(f, r, s))
  <2> TAKE r, s \in D
  <2>1. rank(r) \in Int /\ rank(s) \in Int
    <3> HIDE DEF before, D, n
    <3> QED BY <1>1, <1>4
  <2>2. (Q!Before(f, r, s) => rank(r) < rank(s)) /\ (Q!Before(f, s, r) => rank(s) < rank(r))
    BY <1>5
  <2>3. r = s \/ Q!Before(f, r, s) \/ Q!Before(f, s, r)
    BY <1>2
  <2> HIDE DEF D
  <2> QED BY <2>1, <2>2, <2>3
<1>7. \A r \in D : rank(r) \in 1..n
  BY <1>4
<1>8. place \in Injection(D, 1..n)
  <2>1. place \in [D -> 1..n]
    BY <1>7
  <2>2. \A r, s \in D : place[r] = place[s] => r = s
    BY <1>6
  <2> HIDE DEF place
  <2> QED BY <2>1, <2>2 DEF Injection, IsInjective
<1>9. IsFiniteSet(1..n) /\ Cardinality(1..n) = n
  <2> HIDE DEF n
  <2> QED BY <1>1, FS_Interval
<1>10. place \in Surjection(D, 1..n)
  <2> HIDE DEF place
  <2>1. Cardinality(D) = Cardinality(1..n) <=> place \in Surjection(D, 1..n)
    BY <1>1, <1>8, <1>9, FS_Injection
  <2> QED BY <1>9, <2>1 DEF n
<1>11. \A i \in 1..n : \E r \in D : rank(r) = i
  <2> TAKE i \in 1..n
  <2>1. \E r \in D : place[r] = i
    BY <1>10 DEF Surjection
  <2> QED BY <2>1
<1> QED BY <1>1, <1>6, <1>7, <1>11 DEF rank

LEMMA RankingIs ==
    ASSUME NEW rows, Keyed(rows), NEW f, Scored(f, rows)
    PROVE  /\ Q!Ranking(f) \in Seq(DOMAIN f) /\ Len(Q!Ranking(f)) \in Nat
           /\ \A i \in 1..Len(Q!Ranking(f)) : Q!Ranking(f)[i] \in DOMAIN f /\ Q!RankOf(f, Q!Ranking(f)[i]) = i
           /\ \A r \in DOMAIN f : /\ Q!RankOf(f, r) \in 1..Len(Q!Ranking(f))
                                 /\ Q!Ranking(f)[Q!RankOf(f, r)] = r
<1> DEFINE D == DOMAIN f
           n == Cardinality(D)
           rank(r) == Q!RankOf(f, r)
           R == Q!Ranking(f)
<1>1. n \in Nat /\ \A r \in D : rank(r) \in 1..n
  BY RanksAre
<1>2. \A r, s \in D : rank(r) = rank(s) => r = s
  BY RanksAre
<1>3. \A i \in 1..n : \E r \in D : rank(r) = i
  BY RanksAre
<1>4. R = [i \in 1..n |-> CHOOSE r \in D : rank(r) = i]
  BY QCardinality DEF Q!Ranking
<1> HIDE DEF n, R, rank, D
<1>5. \A i \in 1..n : R[i] \in D /\ rank(R[i]) = i
  <2> TAKE i \in 1..n
  <2>1. R[i] = CHOOSE r \in D : rank(r) = i
    BY <1>4
  <2>2. \E r \in D : rank(r) = i
    BY <1>3
  <2> QED BY <2>1, <2>2
<1>6. R \in Seq(D) /\ Len(R) = n
  BY <1>1, <1>4, <1>5
<1>7. \A r \in D : R[rank(r)] = r
  BY <1>1, <1>2, <1>5
<1> QED BY <1>1, <1>5, <1>6, <1>7 DEF R, rank, D

-----------------------------------------------------------------------------
(* Pages.                                                                     *)

\* The rows still to come behind a token.
Ahead(f, cursor, r) ==
    \/ cursor = None
    \/ f[r] < cursor.score
    \/ f[r] = cursor.score /\ Q!Key(r) > cursor.key

LEMMA StartIs ==
    ASSUME NEW rows, Keyed(rows), NEW f, Scored(f, rows), Q!KeysAreNumbers,
           NEW cursor \in Q!Tokens \cup {None}
    PROVE  /\ Q!Start(f, Q!Ranking(f), cursor) \in 1..(Len(Q!Ranking(f)) + 1)
           /\ \A i \in 1..Len(Q!Ranking(f)) :
                  i >= Q!Start(f, Q!Ranking(f), cursor) <=> Ahead(f, cursor, Q!Ranking(f)[i])
<1> DEFINE R == Q!Ranking(f)
           n == Len(R)
           start == Q!Start(f, R, cursor)
           behind == {i \in 1..n : \/ f[R[i]] < cursor.score
                                   \/ (f[R[i]] = cursor.score /\ Q!Key(R[i]) > cursor.key)}
<1>1. n \in Nat /\ \A i \in 1..n : R[i] \in DOMAIN f /\ Q!RankOf(f, R[i]) = i
  BY RankingIs
<1>2. \A r \in DOMAIN f : Q!Key(r) \in Int /\ f[r] \in Int
  BY KeyIs DEF Scored
<1>3. start = IF cursor = None THEN 1 ELSE IF behind = {} THEN n + 1 ELSE Q!Min(behind)
  BY DEF Q!Start
<1>4. \A i, j \in 1..n : i < j => Q!Before(f, R[i], R[j])
  <2> TAKE i, j \in 1..n
  <2>1. R[i] \in DOMAIN f /\ R[j] \in DOMAIN f /\ Q!RankOf(f, R[i]) = i /\ Q!RankOf(f, R[j]) = j
    BY <1>1
  <2> HIDE DEF R
  <2> QED BY <2>1, RanksAre
<1> HIDE DEF R, n, start
<1>5. CASE cursor = None
  <2>1. start = 1
    BY <1>3, <1>5
  <2> QED BY <1>1, <1>5, <2>1 DEF Ahead, R, n, start
<1>6. CASE cursor # None
  <2>1. cursor.score \in Int /\ cursor.key \in Int
    <3>1. cursor \in Q!Tokens
      BY <1>6
    <3> QED BY <3>1 DEF Q!Tokens
  <2>2. \A i \in 1..n : i \in behind <=> Ahead(f, cursor, R[i])
    BY <1>6 DEF Ahead
  <2>3. \A i, j \in 1..n : i < j /\ i \in behind => j \in behind
    <3> SUFFICES ASSUME NEW i \in 1..n, NEW j \in 1..n, i < j, i \in behind PROVE j \in behind
      OBVIOUS
    <3>1. Q!Before(f, R[i], R[j])
      BY <1>4
    <3>2. Q!Key(R[i]) \in Int /\ Q!Key(R[j]) \in Int /\ f[R[i]] \in Int /\ f[R[j]] \in Int
      BY <1>1, <1>2
    <3>3. f[R[i]] < cursor.score \/ (f[R[i]] = cursor.score /\ Q!Key(R[i]) > cursor.key)
      OBVIOUS
    <3>4. f[R[i]] > f[R[j]] \/ (f[R[i]] = f[R[j]] /\ Q!Key(R[i]) <= Q!Key(R[j]))
      BY <3>1, <3>2 DEF Q!Before, Q!Tied
    <3>5. f[R[j]] < cursor.score \/ (f[R[j]] = cursor.score /\ Q!Key(R[j]) > cursor.key)
      BY <2>1, <3>2, <3>3, <3>4
    <3> QED BY <3>5
  <2>4. behind \in SUBSET (1..n) /\ IsFiniteSet(1..n)
    <3>1. behind \in SUBSET (1..n)
      OBVIOUS
    <3> HIDE DEF behind
    <3> QED BY <1>1, <3>1, FS_Interval
  <2> HIDE DEF behind
  <2>5. CASE behind = {}
    <3>1. start = n + 1
      BY <1>3, <1>6, <2>5
    <3>2. \A i \in 1..n : ~Ahead(f, cursor, R[i])
      BY <2>2, <2>5
    <3> QED BY <1>1, <3>1, <3>2 DEF R, n, start
  <2>6. CASE behind # {}
    <3>1. IsFiniteSet(behind)
      BY <2>4, FS_Subset
    <3>2. behind \in SUBSET Int
      BY <1>1, <2>4
    <3>3. start \in behind /\ \A i \in behind : start <= i
      BY <1>3, <1>6, <2>6, <3>1, <3>2, SmallestNumber
    <3>4. start \in 1..n
      BY <2>4, <3>3
    <3>5. \A i \in 1..n : i >= start <=> i \in behind
      <4> TAKE i \in 1..n
      <4>1. i \in Int /\ start \in Int
        BY <1>1, <3>4
      <4>2. i \in behind => i >= start
        BY <3>3, <4>1
      <4>3. i = start => i \in behind
        BY <3>3
      <4>4. start < i => i \in behind
        BY <2>3, <3>3, <3>4
      <4> QED BY <4>1, <4>2, <4>3, <4>4
    <3>6. \A i \in 1..n : i >= start <=> Ahead(f, cursor, R[i])
      BY <2>2, <3>5
    <3>7. start \in 1..(n + 1)
      BY <1>1, <3>4
    <3> QED BY <3>6, <3>7 DEF R, n, start
  <2> QED BY <2>5, <2>6
<1> QED BY <1>5, <1>6

\* What is ahead of the token of a row is ranked behind the row, and what is ranked
\* behind the row is ahead of its token or tied with the row.
LEMMA AheadOfToken ==
    ASSUME Q!NoneIsNoValue, NEW rows, Keyed(rows), NEW f, Scored(f, rows), NEW q \in RankedSearches,
           NEW s \in DOMAIN f
    PROVE  /\ Q!Token(f, s, q) \in Q!Tokens /\ Q!Token(f, s, q) # None /\ Q!Token(f, s, q).query = q
           /\ \A r \in DOMAIN f : Ahead(f, Q!Token(f, s, q), r) => Q!RankOf(f, s) < Q!RankOf(f, r)
           /\ \A r \in DOMAIN f : Q!RankOf(f, s) < Q!RankOf(f, r)
                                   => Ahead(f, Q!Token(f, s, q), r) \/ Q!Tied(f, s, r)
           /\ \A r \in DOMAIN f : Q!Alone(r, rows) =>
                  (Ahead(f, Q!Token(f, s, q), r) <=> Q!RankOf(f, s) < Q!RankOf(f, r))
<1> DEFINE t == Q!Token(f, s, q)
<1>1. t = [score |-> f[s], key |-> Q!Key(s), query |-> q]
  BY DEF Q!Token
<1>2. \A r \in DOMAIN f : r \in rows /\ f[r] \in Int /\ Q!Key(r) \in Int
  BY KeyIs DEF Scored
<1>3. t \in Q!Tokens /\ t.score = f[s] /\ t.key = Q!Key(s) /\ t.query = q
  BY <1>1, <1>2 DEF Q!Tokens
<1> HIDE DEF t
<1>4. t # None
  BY <1>3 DEF Q!NoneIsNoValue
<1>5. \A r \in DOMAIN f : Q!RankOf(f, s) < Q!RankOf(f, r) <=> Q!Before(f, s, r)
  BY RanksAre
<1>6. \A r \in DOMAIN f : ~Q!Before(f, r, r)
  BY BeforeIsOrder
<1>7. ASSUME NEW r \in DOMAIN f
      PROVE  /\ Ahead(f, t, r) => Q!Before(f, s, r)
             /\ Q!Before(f, s, r) => Ahead(f, t, r) \/ Q!Tied(f, s, r)
             /\ Q!Alone(r, rows) /\ Q!Tied(f, s, r) => ~Q!Before(f, s, r)
  <2> DEFINE a == f[s]
             b == f[r]
             k == Q!Key(s)
             l == Q!Key(r)
  <2>1. a \in Int /\ b \in Int /\ k \in Int /\ l \in Int
    BY <1>2
  <2>2. Ahead(f, t, r) <=> b < a \/ (b = a /\ l > k)
    BY <1>3, <1>4 DEF Ahead
  <2>3. /\ Q!Before(f, s, r) <=> a > b \/ (a = b /\ k < l) \/ (Q!Tied(f, s, r) /\ s.id < r.id)
        /\ Q!Tied(f, s, r) <=> a = b /\ k = l
    BY DEF Q!Before, Q!Tied
  <2>4. Q!Alone(r, rows) /\ Q!Tied(f, s, r) => s = r
    BY <1>2 DEF Q!Alone, Q!Tied
  <2> HIDE DEF a, b, k, l
  <2>5. Ahead(f, t, r) => Q!Before(f, s, r)
    BY <2>1, <2>2, <2>3
  <2>6. Q!Before(f, s, r) => Ahead(f, t, r) \/ Q!Tied(f, s, r)
    BY <2>1, <2>2, <2>3
  <2> QED BY <1>6, <2>4, <2>5, <2>6
<1> QED BY <1>3, <1>4, <1>5, <1>7 DEF t

LEMMA PageIs ==
    ASSUME Q!NoneIsNoValue, Q!KeysAreNumbers, NEW rows, Keyed(rows), NEW f, Scored(f, rows),
           NEW q, NEW cursor \in Q!Tokens \cup {None}, cursor # None => cursor.query = q,
           NEW size \in Nat \ {0},
           NEW R, R = Q!Ranking(f), NEW start, start = Q!Start(f, R, cursor),
           NEW page, page = Q!PageOf(q, f, R, cursor, size)
    PROVE  /\ page.first = start
           /\ page.rows \in Seq(DOMAIN f)
           /\ Len(page.rows) = IF start + size <= Len(R) + 1 THEN size ELSE Len(R) + 1 - start
           /\ \A k \in 1..Len(page.rows) : start + k - 1 \in 1..Len(R) /\ page.rows[k] = R[start + k - 1]
           /\ start + size <= Len(R) =>
                  start + size - 1 \in 1..Len(R) /\ page.next = Q!Token(f, R[start + size - 1], q)
           /\ ~(start + size <= Len(R)) => page.next = None
<1> DEFINE n == Len(R)
           rest == SubSeq(R, start, n)
           taken == Q!Take(rest, size)
<1>1. R \in Seq(DOMAIN f) /\ n \in Nat
  BY RankingIs
<1>2. start \in 1..(n + 1)
  BY StartIs
<1>3. page = [rows |-> taken, first |-> start,
              next |-> IF start + size <= n THEN Q!Token(f, Q!Last(taken), q) ELSE None]
  BY DEF Q!PageOf
<1>4. /\ rest \in Seq(DOMAIN f) /\ Len(rest) = n + 1 - start
      /\ \A k \in 1..(n + 1 - start) : rest[k] = R[start + k - 1]
  <2>1. /\ SubSeq(R, start, n) = [k \in 1..(n - start + 1) |-> R[k + start - 1]]
    BY <1>1, <1>2
  <2> DEFINE m == n + 1 - start
  <2>2. m \in Nat /\ n - start + 1 = m
    BY <1>1, <1>2
  <2>3. \A k \in 1..m : k + start - 1 \in 1..n /\ k + start - 1 = start + k - 1
    BY <1>1, <1>2
  <2>4. rest = [k \in 1..m |-> R[k + start - 1]]
    BY <2>1, <2>2
  <2> HIDE DEF m, rest
  <2>5. \A k \in 1..m : rest[k] = R[start + k - 1] /\ rest[k] \in DOMAIN f
    BY <1>1, <2>3, <2>4
  <2>6. rest \in Seq(DOMAIN f) /\ Len(rest) = m
    BY <2>2, <2>4, <2>5
  <2> QED BY <2>5, <2>6 DEF m
<1> DEFINE l == IF start + size <= n + 1 THEN size ELSE n + 1 - start
<1> HIDE DEF rest
<1>5. size # None
  BY DEF Q!NoneIsNoValue
<1>6. taken \in Seq(DOMAIN f) /\ Len(taken) = l /\ \A k \in 1..l : taken[k] = rest[k]
  <2>1. taken = IF size >= Len(rest) THEN rest ELSE SubSeq(rest, 1, size)
    BY <1>5 DEF Q!Take
  <2> HIDE DEF taken
  <2>2. CASE size >= n + 1 - start
    <3>1. taken = rest
      BY <1>4, <2>1, <2>2
    <3>2. l = n + 1 - start
      BY <1>1, <1>2, <2>2
    <3> HIDE DEF l, n
    <3> QED BY <1>4, <3>1, <3>2
  <2>3. CASE ~(size >= n + 1 - start)
    <3>1. taken = SubSeq(rest, 1, size)
      BY <1>4, <2>1, <2>3
    <3>2. l = size /\ size \in 1..(n + 1 - start) /\ n + 1 - start \in Nat
      BY <1>1, <1>2, <2>3
    <3> HIDE DEF l
    <3>3. size <= Len(rest) /\ Len(rest) \in Nat
      BY <1>4, <3>2
    <3>4. taken = [k \in 1..size |-> rest[k]]
      BY <1>4, <3>1, <3>3
    <3>5. \A k \in 1..size : rest[k] \in DOMAIN f
      BY <1>4, <3>2, <3>3
    <3> QED BY <3>2, <3>4, <3>5
  <2> QED BY <2>2, <2>3
<1>7. l \in Nat /\ l <= n + 1 - start
  BY <1>1, <1>2
<1>8. \A k \in 1..l : start + k - 1 \in 1..n /\ taken[k] = R[start + k - 1]
  <2> TAKE k \in 1..l
  <2>1. k \in 1..(n + 1 - start)
    BY <1>1, <1>2, <1>7
  <2>2. start + k - 1 \in 1..n
    BY <1>1, <1>2, <2>1
  <2> QED BY <1>4, <1>6, <2>1, <2>2
<1>9. start + size <= n => start + size - 1 \in 1..n /\ Q!Last(taken) = R[start + size - 1]
  <2> SUFFICES ASSUME start + size <= n PROVE start + size - 1 \in 1..n /\ Q!Last(taken) = R[start + size - 1]
    OBVIOUS
  <2>1. l = size /\ l \in 1..l /\ start + size - 1 \in 1..n
    BY <1>1, <1>2
  <2>2. Q!Last(taken) = taken[l]
    BY <1>6 DEF Q!Last
  <2> HIDE DEF l, taken
  <2>3. taken[l] = R[start + l - 1]
    BY <1>8, <2>1
  <2> QED BY <2>1, <2>2, <2>3
<1> HIDE DEF taken
<1> QED BY <1>3, <1>6, <1>8, <1>9

-----------------------------------------------------------------------------
(* The invariant of a paged search.                                           *)

Delivered == [row : Q!RowSpace, rank : Nat \ {0}]
Searching ==
    [query : RankedSearches \cup {None}, cursor : Q!Tokens \cup {None}, size : PageSizes \cup {0},
     out : Seq(Delivered), fixed : SUBSET Q!RowSpace, quiet : BOOLEAN, state : {"none", "open", "ended"}]

\* A search that has begun is for a query, and its token is one of that query.
AskedFor(s) ==
    s.state # "none" => /\ s.query \in RankedSearches /\ s.size \in PageSizes
                        /\ s.cursor # None => s.cursor.query = s.query

\* Where a row with key i was delivered.
Seen(out, i) == {k \in 1..Len(out) : out[k].row.id = i}

\* The searches whose rows stay where they were.
Steady(s) == Q!OwnScore(s.query) \/ s.quiet

\* A row that stays was delivered once if the token is past it, and else not yet.
Follows(s, rows) ==
    s.state = "open" /\ Steady(s) =>
        \A r \in s.fixed :
            /\ r \in DOMAIN Q!Scores(s.query, rows)
            /\ Cardinality(Seen(s.out, r.id)) =
                   IF Ahead(Q!Scores(s.query, rows), s.cursor, r) THEN 0 ELSE 1
Followed(s) ==
    s.state = "ended" /\ Steady(s) => \A r \in s.fixed : Cardinality(Seen(s.out, r.id)) = 1

\* The rows of a search that share their key with no other.
Kept(rows) == {r \in rows : Q!Alone(r, rows)}

\* What was delivered is of the ranking and in its order, on full pages of size rows,
\* and the ranks up to n that were passed over are of rows tied with the last of a page.
RankedRows(out, R) ==
    /\ \A k \in 1..Len(out) : out[k].rank \in 1..Len(R) /\ out[k].row = R[out[k].rank]
    /\ \A k, l \in 1..Len(out) : k < l => out[k].rank < out[l].rank
FullPage(k, size) == \E m \in 1..k : k = m * size
Covered(out, f, R, size, n) ==
    \A i \in 1..n :
        \/ \E k \in 1..Len(out) : out[k].rank = i
        \/ \E k \in 1..Len(out) :
             FullPage(k, size) /\ out[k].rank < i /\ Q!Tied(f, out[k].row, R[i])

\* Undisturbed, what was delivered covers the front of the ranking, and the token is of
\* its last row.
FrontOf(s, f, R) ==
    /\ RankedRows(s.out, R)
    /\ s.state = "ended" => Covered(s.out, f, R, s.size, Len(R))
    /\ s.state = "open" /\ s.cursor = None => Len(s.out) = 0
    /\ s.state = "open" /\ s.cursor # None =>
           /\ Len(s.out) > 0 /\ FullPage(Len(s.out), s.size)
           /\ s.out[Len(s.out)].rank < Len(R)
           /\ Covered(s.out, f, R, s.size, s.out[Len(s.out)].rank)
           /\ s.cursor = Q!Token(f, R[s.out[Len(s.out)].rank], s.query)
Shows(s, rows) ==
    s.state # "none" /\ s.quiet => FrontOf(s, Q!Scores(s.query, rows), Q!Ranking(Q!Scores(s.query, rows)))

PageInv ==
    /\ qTable \in Q!TableSpace /\ qWrites \in 0..RowWrites
    /\ qSearch \in Searching /\ AskedFor(qSearch) /\ qSearch.fixed \in SUBSET Kept(Q!Rows)
    /\ Follows(qSearch, Q!Rows) /\ Followed(qSearch) /\ Shows(qSearch, Q!Rows)

LEMMA SeenIsFinite ==
    ASSUME NEW out \in Seq(Delivered), NEW i
    PROVE  IsFiniteSet(Seen(out, i)) /\ Cardinality(Seen(out, i)) \in Nat
<1>1. Len(out) \in Nat /\ IsFiniteSet(1..Len(out))
  BY FS_Interval
<1>2. Seen(out, i) \in SUBSET (1..Len(out))
  BY DEF Seen
<1>3. IsFiniteSet(Seen(out, i))
  BY <1>1, <1>2, FS_Subset
<1> QED BY <1>3, FS_CardinalityType

\* A row that comes on a page once is delivered once more.
LEMMA SeenGrows ==
    ASSUME NEW out \in Seq(Delivered), NEW new \in Seq(Delivered), NEW i
    PROVE  /\ (\A k \in 1..Len(new) : new[k].row.id # i) => Seen(out \o new, i) = Seen(out, i)
           /\ \A j \in 1..Len(new) :
                  (\A k \in 1..Len(new) : new[k].row.id = i <=> k = j)
                      => Seen(out \o new, i) = Seen(out, i) \cup {Len(out) + j}
<1> DEFINE all == out \o new
           m == Len(out)
           n == Len(new)
<1>1. m \in Nat /\ n \in Nat /\ Len(all) = m + n
  OBVIOUS
<1>2. \A k \in 1..(m + n) : all[k] = IF k <= m THEN out[k] ELSE new[k - m]
  OBVIOUS
<1>3. Seen(all, i) = {k \in 1..(m + n) : all[k].row.id = i}
  BY <1>1 DEF Seen
<1>4. Seen(out, i) = {k \in 1..m : out[k].row.id = i}
  BY DEF Seen
<1> HIDE DEF all, m, n
<1>5. \A k : k \in Seen(all, i) <=> k \in Seen(out, i) \/ (k \in (m + 1)..(m + n) /\ new[k - m].row.id = i)
  <2> TAKE k
  <2>1. k \in 1..m => (k \in Seen(all, i) <=> k \in Seen(out, i))
    BY <1>1, <1>2, <1>3, <1>4
  <2>2. k \in (m + 1)..(m + n) => (k \in Seen(all, i) <=> new[k - m].row.id = i)
    BY <1>1, <1>2, <1>3
  <2>3. k \in 1..(m + n) <=> k \in 1..m \/ k \in (m + 1)..(m + n)
    BY <1>1
  <2>4. k \in (m + 1)..(m + n) => k \notin 1..m
    BY <1>1
  <2> QED BY <1>3, <1>4, <2>1, <2>2, <2>3, <2>4
<1>6. \A k : k \in (m + 1)..(m + n) => k - m \in 1..n
  BY <1>1
<1>7. (\A k \in 1..n : new[k].row.id # i) => Seen(all, i) = Seen(out, i)
  BY <1>5, <1>6
<1>8. ASSUME NEW j \in 1..n, \A k \in 1..n : new[k].row.id = i <=> k = j
      PROVE  Seen(all, i) = Seen(out, i) \cup {m + j}
  <2>1. \A k : k \in (m + 1)..(m + n) => (new[k - m].row.id = i <=> k = m + j)
    BY <1>1, <1>6, <1>8
  <2>2. m + j \in (m + 1)..(m + n)
    BY <1>1
  <2> QED BY <1>5, <2>1, <2>2
<1> QED BY <1>7, <1>8 DEF all, m, n

\* What a page does to a search.
Turned(s, page) ==
    [s EXCEPT !.out = @ \o [i \in 1..Len(page.rows) |->
                              [row |-> page.rows[i], rank |-> page.first + i - 1]],
              !.cursor = page.next,
              !.state = IF page.next = None THEN "ended" ELSE "open"]

\* The rows of a page, and what follows them.
TurnedBy(rows, s, f, R, page, start, new) ==
    /\ Scored(f, rows) /\ s.query \in RankedSearches /\ s.size \in Nat \ {0}
    /\ start \in 1..(Len(R) + 1)
    /\ new \in Seq(Delivered)
    /\ Len(new) = IF start + s.size <= Len(R) + 1 THEN s.size ELSE Len(R) + 1 - start
    /\ \A k \in 1..Len(new) : /\ start + k - 1 \in 1..Len(R)
                              /\ new[k] = [row |-> R[start + k - 1], rank |-> start + k - 1]
    /\ start + s.size <= Len(R) =>
           /\ start + s.size - 1 \in 1..Len(R)
           /\ page.next = Q!Token(f, R[start + s.size - 1], s.query)
    /\ ~(start + s.size <= Len(R)) => page.next = None
    /\ Turned(s, page) = [s EXCEPT !.out = s.out \o new, !.cursor = page.next,
                                   !.state = IF page.next = None THEN "ended" ELSE "open"]

LEMMA TurnedIs ==
    ASSUME Q!NoneIsNoValue, Q!KeysAreNumbers, Q!SearchesAreRanked, NEW rows, Keyed(rows),
           NEW s \in Searching, AskedFor(s), s.state = "open",
           NEW f, f = Q!Scores(s.query, rows), NEW R, R = Q!Ranking(f),
           NEW page, page = Q!PageOf(s.query, f, R, s.cursor, s.size),
           NEW start, start = Q!Start(f, R, s.cursor),
           NEW new, new = [i \in 1..Len(page.rows) |-> [row |-> page.rows[i], rank |-> page.first + i - 1]]
    PROVE  TurnedBy(rows, s, f, R, page, start, new)
<1>1. s.query \in RankedSearches /\ s.size \in Nat \ {0} /\ (s.cursor # None => s.cursor.query = s.query)
  BY DEF AskedFor, Q!SearchesAreRanked
<1>2. s.cursor \in Q!Tokens \cup {None}
  BY DEF Searching
<1>3. Scored(f, rows)
  BY <1>1, ScoresAre
<1>4. /\ page.first = start
      /\ page.rows \in Seq(DOMAIN f)
      /\ Len(page.rows) = IF start + s.size <= Len(R) + 1 THEN s.size ELSE Len(R) + 1 - start
      /\ \A k \in 1..Len(page.rows) : start + k - 1 \in 1..Len(R) /\ page.rows[k] = R[start + k - 1]
      /\ start + s.size <= Len(R) =>
             start + s.size - 1 \in 1..Len(R) /\ page.next = Q!Token(f, R[start + s.size - 1], s.query)
      /\ ~(start + s.size <= Len(R)) => page.next = None
  <2> DEFINE size == s.size
             cursor == s.cursor
             q == s.query
  <2>1. size \in Nat \ {0} /\ cursor \in Q!Tokens \cup {None} /\ (cursor # None => cursor.query = q)
    BY <1>1, <1>2
  <2>2. page = Q!PageOf(q, f, R, cursor, size) /\ start = Q!Start(f, R, cursor)
    OBVIOUS
  <2> HIDE DEF size, cursor, q
  <2>3. /\ page.first = start
        /\ page.rows \in Seq(DOMAIN f)
        /\ Len(page.rows) = IF start + size <= Len(R) + 1 THEN size ELSE Len(R) + 1 - start
        /\ \A k \in 1..Len(page.rows) : start + k - 1 \in 1..Len(R) /\ page.rows[k] = R[start + k - 1]
        /\ start + size <= Len(R) =>
               start + size - 1 \in 1..Len(R) /\ page.next = Q!Token(f, R[start + size - 1], q)
        /\ ~(start + size <= Len(R)) => page.next = None
    BY <1>3, <2>1, <2>2, PageIs
  <2> QED BY <2>3 DEF size, q
<1>5. start \in 1..(Len(R) + 1)
  BY <1>2, <1>3, StartIs
<1>6. Len(R) \in Nat /\ Len(page.rows) \in Nat
  BY <1>3, <1>4, RankingIs
<1>7. \A k \in 1..Len(page.rows) : new[k] = [row |-> R[start + k - 1], rank |-> start + k - 1]
  BY <1>4
<1>8. new \in Seq(Delivered) /\ Len(new) = Len(page.rows)
  <2>1. \A k \in 1..Len(page.rows) : new[k] \in Delivered
    <3> TAKE k \in 1..Len(page.rows)
    <3>1. page.rows[k] \in Q!RowSpace
      BY <1>3, <1>4 DEF Scored, Keyed
    <3>2. start + k - 1 \in Nat \ {0}
      BY <1>4, <1>6
    <3> QED BY <1>4, <1>7, <3>1, <3>2 DEF Delivered
  <2> DEFINE L == Len(page.rows)
             g(k) == [row |-> page.rows[k], rank |-> page.first + k - 1]
  <2>2. new = [k \in 1..L |-> g(k)] /\ L \in Nat
    BY <1>6
  <2>3. \A k \in 1..L : g(k) \in Delivered
    BY <2>1
  <2> HIDE DEF g, L
  <2>4. new \in Seq(Delivered) /\ Len(new) = L
    BY <2>2, <2>3
  <2> QED BY <2>4 DEF L
<1>9. Turned(s, page) = [s EXCEPT !.out = s.out \o new, !.cursor = page.next,
                                  !.state = IF page.next = None THEN "ended" ELSE "open"]
  BY DEF Turned, Searching
<1>10. /\ Len(new) = IF start + s.size <= Len(R) + 1 THEN s.size ELSE Len(R) + 1 - start
       /\ \A k \in 1..Len(new) : /\ start + k - 1 \in 1..Len(R)
                                 /\ new[k] = [row |-> R[start + k - 1], rank |-> start + k - 1]
  BY <1>4, <1>7, <1>8
<1> QED BY <1>1, <1>3, <1>4, <1>5, <1>8, <1>9, <1>10 DEF TurnedBy

LEMMA TurnedFollows ==
    ASSUME Q!NoneIsNoValue, Q!KeysAreNumbers, Q!SearchesAreRanked, NEW rows, Keyed(rows),
           NEW s \in Searching, AskedFor(s), s.state = "open", Follows(s, rows),
           s.fixed \in SUBSET Kept(rows),
           NEW page, page = Q!PageOf(s.query, Q!Scores(s.query, rows), Q!Ranking(Q!Scores(s.query, rows)),
                                     s.cursor, s.size)
    PROVE  Follows(Turned(s, page), rows) /\ Followed(Turned(s, page))
<1> DEFINE f == Q!Scores(s.query, rows)
           R == Q!Ranking(f)
           n == Len(R)
           start == Q!Start(f, R, s.cursor)
           size == s.size
           new == [i \in 1..Len(page.rows) |-> [row |-> page.rows[i], rank |-> page.first + i - 1]]
           t == Turned(s, page)
           out == s.out
<1>0. /\ f = Q!Scores(s.query, rows) /\ R = Q!Ranking(f) /\ n = Len(R)
      /\ start = Q!Start(f, R, s.cursor) /\ size = s.size
      /\ new = [i \in 1..Len(page.rows) |-> [row |-> page.rows[i], rank |-> page.first + i - 1]]
      /\ t = Turned(s, page) /\ out = s.out
      /\ page = Q!PageOf(s.query, f, R, s.cursor, s.size)
  OBVIOUS
<1> HIDE DEF f, R, n, start, size, new, t, out
<1>a. TurnedBy(rows, s, f, R, page, start, new)
  BY <1>0, TurnedIs
<1>1. /\ Scored(f, rows) /\ s.query \in RankedSearches /\ size \in Nat \ {0}
      /\ start \in 1..(n + 1)
      /\ new \in Seq(Delivered)
      /\ Len(new) = IF start + size <= n + 1 THEN size ELSE n + 1 - start
      /\ \A k \in 1..Len(new) : /\ start + k - 1 \in 1..n
                                /\ new[k] = [row |-> R[start + k - 1], rank |-> start + k - 1]
      /\ start + size <= n =>
             /\ start + size - 1 \in 1..n
             /\ page.next = Q!Token(f, R[start + size - 1], s.query)
      /\ ~(start + size <= n) => page.next = None
      /\ t = [s EXCEPT !.out = out \o new, !.cursor = page.next,
                       !.state = IF page.next = None THEN "ended" ELSE "open"]
  BY <1>0, <1>a DEF TurnedBy
<1>b. \A k \in 1..Len(new) : start + k - 1 \in 1..n /\ new[k].row = R[start + k - 1]
  <2> TAKE k \in 1..Len(new)
  <2>1. start + k - 1 \in 1..n /\ new[k] = [row |-> R[start + k - 1], rank |-> start + k - 1]
    BY <1>1
  <2> QED BY <2>1
<1>2. /\ n \in Nat
      /\ \A i \in 1..n : R[i] \in DOMAIN f /\ Q!RankOf(f, R[i]) = i
      /\ \A r \in DOMAIN f : Q!RankOf(f, r) \in 1..n /\ R[Q!RankOf(f, r)] = r
  BY <1>0, <1>1, RankingIs
<1>3. \A i \in 1..n : i >= start <=> Ahead(f, s.cursor, R[i])
  BY <1>0, <1>1, StartIs DEF Searching
<1>4. start + size <= n =>
          /\ page.next # None
          /\ \A r \in DOMAIN f : Q!Alone(r, rows) =>
                 (Ahead(f, page.next, r) <=> start + size - 1 < Q!RankOf(f, r))
  <2> SUFFICES ASSUME start + size <= n
               PROVE  /\ page.next # None
                      /\ \A r \in DOMAIN f : Q!Alone(r, rows) =>
                             (Ahead(f, page.next, r) <=> start + size - 1 < Q!RankOf(f, r))
    OBVIOUS
  <2> DEFINE last == R[start + size - 1]
             q == s.query
  <2>1. last \in DOMAIN f /\ Q!RankOf(f, last) = start + size - 1 /\ page.next = Q!Token(f, last, q) /\ q \in RankedSearches
    BY <1>1, <1>2
  <2> HIDE DEF last, q
  <2> QED BY <1>1, <2>1, AheadOfToken
<1>5. /\ t.out = out \o new /\ t.cursor = page.next /\ t.query = s.query /\ t.fixed = s.fixed
      /\ t.quiet = s.quiet /\ t.state = IF page.next = None THEN "ended" ELSE "open"
  BY <1>1, <1>0 DEF Searching
<1>6. out \in Seq(Delivered)
  BY <1>0 DEF Searching
<1>7. ASSUME Steady(s), NEW r \in s.fixed
      PROVE  /\ r \in DOMAIN f
             /\ Cardinality(Seen(out \o new, r.id)) =
                    IF start + size <= n /\ Ahead(f, page.next, r) THEN 0 ELSE 1
  <2> DEFINE p == Q!RankOf(f, r)
             m == Len(new)
             id == r.id
             Ah == Ahead(f, s.cursor, r)
  <2>1. r \in DOMAIN f /\ Q!Alone(r, rows) /\ Cardinality(Seen(out, id)) = IF Ah THEN 0 ELSE 1
    BY <1>0, <1>7 DEF Follows, Kept
  <2>2. p \in 1..n /\ R[p] = r /\ (p >= start <=> Ah)
    <3>1. p \in 1..n /\ R[p] = r
      BY <1>2, <2>1
    <3> HIDE DEF p
    <3> QED BY <1>3, <3>1
  <2>3. \A k \in 1..m : new[k].row.id = id <=> start + k - 1 = p
    <3> TAKE k \in 1..m
    <3>1. start + k - 1 \in 1..n /\ new[k].row = R[start + k - 1]
      BY <1>b
    <3>2. R[start + k - 1] \in DOMAIN f /\ Q!RankOf(f, R[start + k - 1]) = start + k - 1
      BY <1>2, <3>1
    <3>3. R[start + k - 1].id = r.id <=> R[start + k - 1] = r
      BY <1>1, <2>1, <3>2 DEF Keyed, Scored
    <3>4. start + k - 1 = p => R[start + k - 1] = r
      BY <2>2
    <3> QED BY <3>1, <3>2, <3>3, <3>4
  <2>4. IsFiniteSet(Seen(out, id))
    BY <1>6, SeenIsFinite
  <2>5. m = IF start + size <= n + 1 THEN size ELSE n + 1 - start
    BY <1>1
  <2>6. size \in Nat \ {0} /\ start \in 1..(n + 1) /\ n \in Nat
    BY <1>1, <1>2
  <2>7. new \in Seq(Delivered)
    BY <1>1
  <2>8. /\ (\A k \in 1..m : new[k].row.id # id) => Seen(out \o new, id) = Seen(out, id)
        /\ \A j \in 1..m :
               (\A k \in 1..m : new[k].row.id = id <=> k = j)
                   => Seen(out \o new, id) = Seen(out, id) \cup {Len(out) + j}
    <3> HIDE DEF id
    <3> QED BY <1>6, <2>7, SeenGrows DEF m
  <2>9. start + size <= n => (Ahead(f, page.next, r) <=> start + size - 1 < p)
    BY <1>4, <2>1
  <2> HIDE DEF p, m, id, Ah
  <2>10. CASE ~Ah
    <3>1. p < start /\ \A k \in 1..m : start + k - 1 # p
      BY <2>2, <2>5, <2>6, <2>10
    <3>2. Seen(out \o new, id) = Seen(out, id)
      BY <2>3, <2>8, <3>1
    <3>3. ~(start + size <= n /\ Ahead(f, page.next, r))
      BY <2>2, <2>6, <2>9, <3>1
    <3> QED BY <2>1, <2>10, <3>2, <3>3 DEF id
  <2>11. CASE Ah /\ p <= start + m - 1
    <3> DEFINE j == p - start + 1
    <3>1. j \in 1..m /\ \A k \in 1..m : start + k - 1 = p <=> k = j
      BY <2>2, <2>5, <2>6, <2>11
    <3> HIDE DEF j
    <3>2. Seen(out \o new, id) = Seen(out, id) \cup {Len(out) + j}
      BY <2>3, <2>8, <3>1
    <3>3. Seen(out, id) = {}
      BY <2>1, <2>4, <2>11, FS_EmptySet
    <3>4. Cardinality(Seen(out \o new, id)) = 1
      BY <3>2, <3>3, FS_Singleton
    <3>5. ~(start + size <= n /\ Ahead(f, page.next, r))
      BY <2>2, <2>5, <2>6, <2>9, <2>11
    <3> QED BY <2>1, <3>4, <3>5 DEF id
  <2>12. CASE Ah /\ ~(p <= start + m - 1)
    <3>1. \A k \in 1..m : start + k - 1 # p
      BY <2>2, <2>5, <2>6, <2>12
    <3>2. Seen(out \o new, id) = Seen(out, id)
      BY <2>3, <2>8, <3>1
    <3>3. start + size <= n /\ start + size - 1 < p
      BY <2>2, <2>5, <2>6, <2>12
    <3> QED BY <2>1, <2>9, <2>12, <3>2, <3>3 DEF id
  <2> QED BY <2>10, <2>11, <2>12
<1>8. Steady(t) => Steady(s)
  BY <1>5 DEF Steady
<1>9. Follows(t, rows)
  <2> SUFFICES ASSUME t.state = "open", Steady(t), NEW r \in t.fixed
               PROVE  /\ r \in DOMAIN Q!Scores(t.query, rows)
                      /\ Cardinality(Seen(t.out, r.id)) =
                             IF Ahead(Q!Scores(t.query, rows), t.cursor, r) THEN 0 ELSE 1
    BY DEF Follows
  <2>1. start + size <= n
    BY <1>1, <1>5
  <2>2. r \in DOMAIN f /\ Cardinality(Seen(out \o new, r.id)) = IF start + size <= n /\ Ahead(f, page.next, r) THEN 0 ELSE 1
    BY <1>5, <1>7, <1>8
  <2> QED BY <1>0, <1>5, <2>1, <2>2
<1>10. Followed(t)
  <2> SUFFICES ASSUME t.state = "ended", Steady(t), NEW r \in t.fixed
               PROVE  Cardinality(Seen(t.out, r.id)) = 1
    BY DEF Followed
  <2>1. ~(start + size <= n)
    BY <1>4, <1>5
  <2>2. Cardinality(Seen(out \o new, r.id)) = IF start + size <= n /\ Ahead(f, page.next, r) THEN 0 ELSE 1
    BY <1>5, <1>7, <1>8
  <2> QED BY <1>5, <2>1, <2>2
<1> QED BY <1>0, <1>9, <1>10

LEMMA TurnedShows ==
    ASSUME Q!NoneIsNoValue, Q!KeysAreNumbers, Q!SearchesAreRanked, NEW rows, Keyed(rows),
           NEW s \in Searching, AskedFor(s), s.state = "open", Shows(s, rows),
           NEW page, page = Q!PageOf(s.query, Q!Scores(s.query, rows), Q!Ranking(Q!Scores(s.query, rows)),
                                     s.cursor, s.size)
    PROVE  Shows(Turned(s, page), rows) /\ Turned(s, page) \in Searching /\ AskedFor(Turned(s, page))
<1> DEFINE f == Q!Scores(s.query, rows)
           R == Q!Ranking(f)
           n == Len(R)
           start == Q!Start(f, R, s.cursor)
           size == s.size
           new == [i \in 1..Len(page.rows) |-> [row |-> page.rows[i], rank |-> page.first + i - 1]]
           t == Turned(s, page)
           out == s.out
<1>0. /\ f = Q!Scores(s.query, rows) /\ R = Q!Ranking(f) /\ n = Len(R)
      /\ start = Q!Start(f, R, s.cursor) /\ size = s.size
      /\ new = [i \in 1..Len(page.rows) |-> [row |-> page.rows[i], rank |-> page.first + i - 1]]
      /\ t = Turned(s, page) /\ out = s.out
      /\ page = Q!PageOf(s.query, f, R, s.cursor, s.size)
  OBVIOUS
<1> HIDE DEF f, R, n, start, size, new, t, out
<1>a. TurnedBy(rows, s, f, R, page, start, new)
  BY <1>0, TurnedIs
<1>1. /\ Scored(f, rows) /\ s.query \in RankedSearches /\ size \in Nat \ {0}
      /\ start \in 1..(n + 1)
      /\ new \in Seq(Delivered)
      /\ Len(new) = IF start + size <= n + 1 THEN size ELSE n + 1 - start
      /\ start + size <= n =>
             /\ start + size - 1 \in 1..n
             /\ page.next = Q!Token(f, R[start + size - 1], s.query)
      /\ ~(start + size <= n) => page.next = None
      /\ t = [s EXCEPT !.out = out \o new, !.cursor = page.next,
                       !.state = IF page.next = None THEN "ended" ELSE "open"]
  BY <1>0, <1>a DEF TurnedBy
<1>b. \A k \in 1..Len(new) : /\ start + k - 1 \in 1..n
                            /\ new[k] = [row |-> R[start + k - 1], rank |-> start + k - 1]
  BY <1>0, <1>a DEF TurnedBy
<1>2. /\ n \in Nat
      /\ \A i \in 1..n : R[i] \in DOMAIN f /\ Q!RankOf(f, R[i]) = i
  BY <1>0, <1>1, RankingIs
<1>3. \A i \in 1..n : i >= start <=> Ahead(f, s.cursor, R[i])
  BY <1>0, <1>1, StartIs DEF Searching
<1>4. \A i \in 1..n : /\ Q!Token(f, R[i], s.query) \in Q!Tokens /\ Q!Token(f, R[i], s.query) # None
                      /\ Q!Token(f, R[i], s.query).query = s.query
                      /\ \A j \in 1..n : Ahead(f, Q!Token(f, R[i], s.query), R[j]) => i < j
                      /\ \A j \in 1..n : i < j => \/ Ahead(f, Q!Token(f, R[i], s.query), R[j])
                                                  \/ Q!Tied(f, R[i], R[j])
  <2> TAKE i \in 1..n
  <2> DEFINE q == s.query
             r == R[i]
  <2>1. q \in RankedSearches /\ r \in DOMAIN f /\ Q!RankOf(f, r) = i
    BY <1>1, <1>2
  <2> HIDE DEF q, r
  <2>2. /\ Q!Token(f, r, q) \in Q!Tokens /\ Q!Token(f, r, q) # None /\ Q!Token(f, r, q).query = q
        /\ \A x \in DOMAIN f : Ahead(f, Q!Token(f, r, q), x) => Q!RankOf(f, r) < Q!RankOf(f, x)
        /\ \A x \in DOMAIN f : Q!RankOf(f, r) < Q!RankOf(f, x)
                                => Ahead(f, Q!Token(f, r, q), x) \/ Q!Tied(f, r, x)
    BY <1>1, <2>1, AheadOfToken
  <2>3. \A j \in 1..n : Ahead(f, Q!Token(f, r, q), R[j]) => i < j
    BY <1>2, <2>1, <2>2
  <2>4. \A j \in 1..n : i < j => Ahead(f, Q!Token(f, r, q), R[j]) \/ Q!Tied(f, r, R[j])
    BY <1>2, <2>1, <2>2
  <2> QED BY <2>2, <2>3, <2>4 DEF q, r
<1>5. /\ t.out = out \o new /\ t.cursor = page.next /\ t.query = s.query /\ t.fixed = s.fixed
      /\ t.quiet = s.quiet /\ t.state = IF page.next = None THEN "ended" ELSE "open"
      /\ t.size = s.size
  BY <1>1, <1>0 DEF Searching
<1>6. out \in Seq(Delivered)
  BY <1>0 DEF Searching
<1>7. /\ page.next \in Q!Tokens \cup {None} /\ (page.next # None => page.next.query = s.query)
      /\ (page.next # None <=> start + size <= n)
  BY <1>1, <1>4
<1>8. t \in Searching /\ AskedFor(t)
  <2>1. out \o new \in Seq(Delivered)
    BY <1>1, <1>6
  <2>2. t \in Searching
    <3> DEFINE state == IF page.next = None THEN "ended" ELSE "open"
    <3>1. state \in {"none", "open", "ended"}
      OBVIOUS
    <3>2. t = [s EXCEPT !.out = out \o new, !.cursor = page.next, !.state = state]
      BY <1>1
    <3> HIDE DEF state
    <3> QED BY <1>7, <2>1, <3>1, <3>2 DEF Searching
  <2>3. s.query \in RankedSearches /\ s.size \in PageSizes
    BY DEF AskedFor
  <2> QED BY <1>5, <1>7, <2>2, <2>3 DEF AskedFor
<1>9. Shows(t, rows)
  <2> SUFFICES ASSUME s.quiet PROVE FrontOf(t, f, R)
    BY <1>0, <1>5 DEF Shows
  <2> DEFINE l == Len(out)
             m == Len(new)
             top == IF l = 0 THEN 0 ELSE out[l].rank
             all == out \o new
  <2>1. FrontOf(s, f, R)
    BY <1>0 DEF Shows
  <2>2. l \in Nat /\ m \in Nat /\ size \in Nat \ {0} /\ n \in Nat
    BY <1>1, <1>2, <1>6
  <2>3. /\ \A k \in 1..l : out[k].rank \in 1..n /\ out[k].row = R[out[k].rank]
        /\ \A k, j \in 1..l : k < j => out[k].rank < out[j].rank
    BY <1>0, <2>1 DEF FrontOf, RankedRows
  <2>4. l > 0 => /\ s.cursor # None /\ FullPage(l, size) /\ out[l].rank < n
                 /\ Covered(out, f, R, size, out[l].rank) /\ s.cursor = Q!Token(f, R[out[l].rank], s.query)
    BY <1>0, <2>1, <2>2 DEF FrontOf
  <2>5. l = 0 => s.cursor = None
    BY <1>0, <2>1, <2>2 DEF FrontOf
  <2> HIDE DEF l, m
  <2>6. /\ top \in 0..n /\ top < start
        /\ \A i \in 1..n : top < i /\ i < start => l > 0 /\ Q!Tied(f, out[l].row, R[i])
    <3>1. CASE l = 0
      <4>1. start = 1 /\ top = 0
        BY <1>0, <2>5, <3>1 DEF Q!Start
      <4> QED BY <2>2, <4>1
    <3>2. CASE l > 0
      <4>1. l \in 1..l /\ top = out[l].rank
        BY <2>2, <3>2
      <4>2. top \in 1..n /\ out[l].row = R[top] /\ s.cursor = Q!Token(f, R[top], s.query)
        BY <2>3, <2>4, <3>2, <4>1
      <4> HIDE DEF top
      <4>3. \A i \in 1..n : i >= start => top < i
        BY <1>3, <1>4, <4>2
      <4>4. top < start
        BY <1>1, <2>2, <4>2, <4>3
      <4>5. ASSUME NEW i \in 1..n, top < i, i < start PROVE Q!Tied(f, out[l].row, R[i])
        <5>1. ~(i >= start)
          BY <1>1, <2>2, <4>5
        <5>2. ~Ahead(f, Q!Token(f, R[top], s.query), R[i])
          BY <1>3, <4>2, <5>1
        <5> QED BY <1>4, <4>2, <4>5, <5>2
      <4>6. top \in 0..n
        BY <2>2, <4>2
      <4> QED BY <3>2, <4>4, <4>5, <4>6
    <3> QED BY <2>2, <3>1, <3>2
  <2>7. \A k \in 1..l : out[k].rank <= top
    <3> TAKE k \in 1..l
    <3>1. l \in 1..l /\ l > 0 /\ (k = l \/ k < l)
      BY <2>2
    <3>2. out[k].rank <= out[l].rank
      BY <2>3, <3>1
    <3> QED BY <3>1, <3>2
  <2>8. /\ Len(all) = l + m
        /\ \A k \in 1..(l + m) : all[k] = IF k <= l THEN out[k] ELSE new[k - l]
    <3>1. out \in Seq(Delivered) /\ new \in Seq(Delivered)
      BY <1>1, <1>6
    <3> QED BY <3>1 DEF l, m
  <2>9. t.out = all
    BY <1>5
  <2>10. \A k \in 1..m : start + k - 1 \in 1..n /\ new[k].rank = start + k - 1 /\ new[k].row = R[start + k - 1]
    <3> TAKE k \in 1..m
    <3>1. new[k] = [row |-> R[start + k - 1], rank |-> start + k - 1] /\ start + k - 1 \in 1..n
      BY <1>b DEF m
    <3> QED BY <3>1
  <2> HIDE DEF all, top
  <2>11. \A k \in 1..(l + m) : \/ k \in 1..l /\ all[k] = out[k] /\ all[k].rank <= top
                               \/ k - l \in 1..m /\ all[k] = new[k - l] /\ all[k].rank = start + (k - l) - 1
    <3> TAKE k \in 1..(l + m)
    <3>1. CASE k <= l
      <4>1. k \in 1..l
        BY <2>2, <3>1
      <4> QED BY <2>7, <2>8, <3>1, <4>1
    <3>2. CASE ~(k <= l)
      <4>1. k - l \in 1..m
        BY <2>2, <3>2
      <4>2. all[k] = new[k - l]
        BY <2>8, <3>2
      <4> QED BY <2>10, <4>1, <4>2
    <3> QED BY <3>1, <3>2
  <2>12. RankedRows(all, R)
    <3>1. \A k \in 1..(l + m) : all[k].rank \in 1..n /\ all[k].row = R[all[k].rank]
      <4> TAKE k \in 1..(l + m)
      <4>1. CASE k \in 1..l /\ all[k] = out[k]
        BY <2>3, <4>1
      <4>2. CASE k - l \in 1..m /\ all[k] = new[k - l]
        <5> DEFINE j == k - l
        <5>1. j \in 1..m /\ all[k] = new[j]
          BY <4>2
        <5> HIDE DEF j
        <5> QED BY <2>10, <5>1
      <4> QED BY <2>11, <4>1, <4>2
    <3>2. ASSUME NEW k \in 1..(l + m), NEW j \in 1..(l + m), k < j PROVE all[k].rank < all[j].rank
      <4>1. start \in Int /\ top \in Int /\ k \in Int /\ j \in Int
        BY <1>1, <2>2, <2>6
      <4>2. CASE j \in 1..l /\ all[j] = out[j]
        <5>1. k \in 1..l
          BY <2>2, <3>2, <4>2
        <5>2. all[k] = out[k]
          BY <2>2, <2>8, <5>1
        <5> QED BY <2>3, <3>2, <4>2, <5>1, <5>2
      <4>3. CASE j - l \in 1..m /\ all[j].rank = start + (j - l) - 1
        <5>1. CASE k \in 1..l /\ all[k].rank <= top
          <6>1. all[k].rank \in Int
            BY <2>2, <3>1
          <6>2. start <= all[j].rank
            BY <2>2, <4>1, <4>3
          <6> QED BY <2>2, <2>6, <4>1, <4>3, <5>1, <6>1, <6>2
        <5>2. CASE all[k].rank = start + (k - l) - 1
          BY <2>2, <3>2, <4>1, <4>3, <5>2
        <5> QED BY <2>11, <5>1, <5>2
      <4> QED BY <2>11, <4>2, <4>3
    <3> QED BY <1>0, <2>8, <3>1, <3>2 DEF RankedRows
  <2>13. ASSUME NEW i \in 1..n, i <= start + m - 1
         PROVE  \/ \E k \in 1..Len(all) : all[k].rank = i
                \/ \E k \in 1..Len(all) :
                     FullPage(k, size) /\ all[k].rank < i /\ Q!Tied(f, all[k].row, R[i])
    <3>1. \A k \in 1..l : k \in 1..Len(all) /\ all[k] = out[k]
      BY <2>2, <2>8
    <3>2. start \in Int /\ top \in Int
      BY <1>1, <2>2, <2>6
    <3>3. CASE i <= top
      <4>1. l > 0 /\ top = out[l].rank /\ i \in 1..out[l].rank
        <5>1. top # 0
          BY <3>2, <3>3
        <5>2. l # 0 /\ top = out[l].rank
          BY <5>1 DEF top
        <5> QED BY <2>2, <3>2, <3>3, <5>2
      <4>2. Covered(out, f, R, size, out[l].rank)
        BY <2>4, <4>1
      <4>3. \/ \E k \in 1..l : out[k].rank = i
            \/ \E k \in 1..l : FullPage(k, size) /\ out[k].rank < i /\ Q!Tied(f, out[k].row, R[i])
        BY <4>1, <4>2 DEF Covered, l
      <4> QED BY <3>1, <4>3
    <3>4. CASE top < i /\ i < start
      <4>1. l > 0 /\ Q!Tied(f, out[l].row, R[i])
        BY <2>6, <3>4
      <4>2. l \in 1..l /\ out[l].rank = top /\ FullPage(l, size)
        BY <2>2, <2>4, <4>1 DEF top
      <4> QED BY <3>1, <3>4, <4>1, <4>2
    <3>5. CASE start <= i
      <4> DEFINE j == i - start + 1
                 k == l + j
      <4>1. j \in 1..m /\ k \in 1..(l + m) /\ ~(k <= l) /\ k - l = j /\ start + j - 1 = i
        BY <2>2, <2>13, <3>2, <3>5
      <4> HIDE DEF j, k
      <4>2. all[k] = new[j]
        BY <2>8, <4>1
      <4>3. all[k].rank = i
        BY <2>10, <4>1, <4>2
      <4> QED BY <2>8, <4>1, <4>3
    <3> QED BY <3>2, <3>3, <3>4, <3>5
  <2>14. CASE start + size <= n
    <3>1. t.state = "open" /\ t.cursor # None /\ m = size /\ Len(all) = l + size
      BY <1>1, <1>2, <1>5, <1>7, <2>8, <2>14 DEF m
    <3>2. all[l + size].rank = start + size - 1
      <4>1. l + size \in 1..(l + m) /\ l + size \notin 1..l /\ (l + size) - l = size
        BY <2>2, <3>1
      <4> DEFINE k == l + size
      <4>2. k \in 1..(l + m) /\ k \notin 1..l /\ k - l = size
        BY <4>1
      <4> HIDE DEF k
      <4>3. all[k].rank = start + (k - l) - 1
        BY <2>11, <4>2
      <4> QED BY <4>2, <4>3 DEF k
    <3>3. start + size - 1 < n /\ Covered(all, f, R, size, start + size - 1)
      <4>1. start + size - 1 < n
        BY <1>1, <2>2, <2>14
      <4>2. \A i \in 1..(start + size - 1) : i \in 1..n /\ i <= start + m - 1
        BY <1>1, <2>2, <2>14, <3>1
      <4> QED BY <2>13, <4>1, <4>2 DEF Covered
    <3>4. FullPage(l + size, size)
      <4>1. CASE l = 0
        <5>1. 1 \in 1..(l + size) /\ l + size = 1 * size
          BY <2>2, <4>1
        <5> QED BY <5>1 DEF FullPage
      <4>2. CASE l > 0
        <5>1. PICK a \in 1..l : l = a * size
          BY <2>4, <4>2 DEF FullPage
        <5>2. a \in Int /\ (a + 1) * size = a * size + size
          BY <2>2, <5>1
        <5>3. a + 1 \in 1..(l + size)
          BY <2>2, <5>1
        <5> QED BY <5>1, <5>2, <5>3 DEF FullPage
      <4> QED BY <2>2, <4>1, <4>2
    <3>5. t.cursor = Q!Token(f, R[start + size - 1], t.query)
      BY <1>1, <1>5, <2>14
    <3>6. Len(all) > 0
      BY <2>2, <3>1
    <3>7. t.size = size
      BY <1>0, <1>5
    <3> QED BY <1>0, <2>9, <2>12, <3>1, <3>2, <3>3, <3>4, <3>5, <3>6, <3>7 DEF FrontOf
  <2>15. CASE ~(start + size <= n)
    <3>1. t.state = "ended"
      BY <1>5, <1>7, <2>15
    <3>2. m = n + 1 - start
      <4>1. start + size <= n + 1 => size = n + 1 - start
        BY <1>1, <1>2, <2>15
      <4> QED BY <1>1, <4>1 DEF m
    <3>3. \A i \in 1..n : i <= start + m - 1
      BY <1>1, <2>2, <3>2
    <3>4. Covered(all, f, R, size, n)
      BY <2>13, <3>3 DEF Covered
    <3>5. t.size = size
      BY <1>0, <1>5
    <3> QED BY <1>0, <2>9, <2>12, <3>1, <3>4, <3>5 DEF FrontOf
  <2> QED BY <2>14, <2>15
<1> QED BY <1>0, <1>8, <1>9

LEMMA PageKeeps ==
    ASSUME Q!NoneIsNoValue, Q!KeysAreNumbers, Q!SearchesAreRanked, PageInv, Q!Page
    PROVE  PageInv'
<1> DEFINE rows == Q!Rows
           page == Q!PageOf(qSearch.query, Q!Scores(qSearch.query, rows), Q!Ranking(Q!Scores(qSearch.query, rows)),
                            qSearch.cursor, qSearch.size)
<1>1. qSearch' = Turned(qSearch, page) /\ qTable' = qTable /\ qWrites' = qWrites /\ qSearch.state = "open"
  BY DEF Q!Page, Turned
<1>2. /\ Keyed(rows) /\ qSearch \in Searching /\ AskedFor(qSearch)
      /\ qSearch.fixed \in SUBSET Kept(rows)
      /\ Follows(qSearch, rows) /\ Shows(qSearch, rows)
  BY RowsAre DEF PageInv
<1>3. Follows(qSearch', rows) /\ Followed(qSearch')
  <2> HIDE DEF rows
  <2>1. Follows(Turned(qSearch, page), rows) /\ Followed(Turned(qSearch, page))
    BY <1>1, <1>2, TurnedFollows
  <2> QED BY <1>1, <2>1
<1>4. Shows(qSearch', rows) /\ qSearch' \in Searching /\ AskedFor(qSearch')
  <2> HIDE DEF rows
  <2>1. Shows(Turned(qSearch, page), rows) /\ Turned(qSearch, page) \in Searching /\ AskedFor(Turned(qSearch, page))
    BY <1>1, <1>2, TurnedShows
  <2> QED BY <1>1, <2>1
<1>5. qSearch'.fixed = qSearch.fixed
  BY <1>1, <1>2 DEF Turned, Searching
<1>6. Q!Rows' = rows
  BY <1>1 DEF Q!Rows
<1> HIDE DEF rows, page
<1> QED BY <1>1, <1>2, <1>3, <1>4, <1>5, <1>6 DEF PageInv

LEMMA PagesInit == Q!KeysAreNumbers /\ Q!TablesAreTables /\ Q!Init => PageInv
<1> SUFFICES ASSUME Q!KeysAreNumbers, Q!TablesAreTables, Q!Init PROVE PageInv
  OBVIOUS
<1>1. qTable \in Q!TableSpace /\ qWrites \in 0..RowWrites
  BY DEF Q!Init, Q!TablesAreTables, Q!KeysAreNumbers
<1>2. qSearch = [query |-> None, cursor |-> None, size |-> 0, out |-> <<>>,
                 fixed |-> {}, quiet |-> TRUE, state |-> "none"]
  BY DEF Q!Init, Q!NoSearch
<1>3. <<>> \in Seq(Delivered)
  OBVIOUS
<1>4. qSearch \in Searching
  BY <1>2, <1>3 DEF Searching
<1>5. qSearch.state = "none" /\ qSearch.fixed = {}
  BY <1>2
<1> QED BY <1>1, <1>4, <1>5 DEF PageInv, AskedFor, Follows, Followed, Shows

LEMMA BeginKeeps ==
    ASSUME Q!NoneIsNoValue, Q!KeysAreNumbers, Q!SearchesAreRanked, PageInv, Q!Begin
    PROVE  PageInv'
<1>1. PICK q \in RankedSearches, size \in PageSizes :
          qSearch' = [Q!NoSearch EXCEPT !.query = q, !.size = size, !.state = "open",
                                        !.fixed = {r \in DOMAIN Q!Scores(q, Q!Rows) : Q!Alone(r, Q!Rows)}]
  BY DEF Q!Begin
<1>2. qTable' = qTable /\ qWrites' = qWrites
  BY DEF Q!Begin
<1> DEFINE rows == Q!Rows
           f == Q!Scores(q, rows)
           fixed == {r \in DOMAIN f : Q!Alone(r, rows)}
           s == qSearch'
<1>3. s = [query |-> q, cursor |-> None, size |-> size, out |-> <<>>,
           fixed |-> fixed, quiet |-> TRUE, state |-> "open"]
  BY <1>1 DEF Q!NoSearch
<1>4. Keyed(rows)
  BY RowsAre DEF PageInv
<1>5. Scored(f, rows)
  BY <1>4, ScoresAre
<1>6. Q!Rows' = rows
  BY <1>2 DEF Q!Rows
<1> HIDE DEF rows, f, s
<1>7. fixed \in SUBSET DOMAIN f /\ fixed \in SUBSET Kept(rows) /\ fixed \in SUBSET Q!RowSpace
  BY <1>4, <1>5 DEF Keyed, Scored, Kept
<1> HIDE DEF fixed
<1>8. s \in Searching
  <2>1. <<>> \in Seq(Delivered)
    OBVIOUS
  <2> QED BY <1>3, <1>7, <2>1 DEF Searching
<1>9. /\ s.query = q /\ s.size = size /\ s.cursor = None /\ s.out = <<>> /\ s.fixed = fixed
      /\ s.state = "open"
  BY <1>3
<1>10. f = Q!Scores(q, rows)
  BY DEF f
<1>11. AskedFor(s) /\ Followed(s)
  BY <1>9 DEF AskedFor, Followed
<1>12. Follows(s, rows)
  <2> SUFFICES ASSUME NEW r \in s.fixed
               PROVE  /\ r \in DOMAIN Q!Scores(s.query, rows)
                      /\ Cardinality(Seen(s.out, r.id)) =
                             IF Ahead(Q!Scores(s.query, rows), s.cursor, r) THEN 0 ELSE 1
    BY DEF Follows
  <2>1. Seen(s.out, r.id) = {}
    BY <1>9 DEF Seen
  <2>2. Ahead(Q!Scores(s.query, rows), s.cursor, r)
    BY <1>9 DEF Ahead
  <2> QED BY <1>7, <1>9, <1>10, <2>1, <2>2, FS_EmptySet
<1>13. Shows(s, rows)
  <2>1. s.out = <<>> /\ Len(s.out) = 0
    BY <1>9
  <2>2. FrontOf(s, f, Q!Ranking(f))
    BY <1>9, <2>1 DEF FrontOf, RankedRows
  <2> QED BY <1>9, <1>10, <2>2 DEF Shows
<1>14. s.fixed \in SUBSET Kept(rows)
  BY <1>7, <1>9
<1>15. s = qSearch'
  BY DEF s
<1>16. qTable' \in Q!TableSpace /\ qWrites' \in 0..RowWrites
  BY <1>2 DEF PageInv
<1> QED BY <1>6, <1>8, <1>11, <1>12, <1>13, <1>14, <1>15, <1>16 DEF PageInv

LEMMA WrittenIs ==
    ASSUME Q!TablesAreTables, NEW i \in RowIds, NEW new \in {Q!Row(i, c) : c \in Contents} \cup {None},
           NEW t \in Q!TableSpace
    PROVE  [t EXCEPT ![i] = new] \in Q!TableSpace
<1>1. new # None => new \in Q!RowSpace /\ new.id = i
  <2> SUFFICES ASSUME new # None PROVE new \in Q!RowSpace /\ new.id = i
    OBVIOUS
  <2>1. PICK c \in Contents : new = Q!Row(i, c)
    OBVIOUS
  <2>2. /\ c.words \in Seq(Words) /\ c.vec \in Q!Numbers /\ c.grp \in Q!Numbers /\ c.boss \in Q!Numbers
    BY DEF Q!TablesAreTables
  <2> QED BY <2>1, <2>2 DEF Q!Row, Q!RowSpace
<1> QED BY <1>1 DEF Q!TableSpace

LEMMA WriteKeepsPages ==
    ASSUME Q!NoneIsNoValue, Q!KeysAreNumbers, Q!SearchesAreRanked, Q!TablesAreTables, PageInv, Q!Write
    PROVE  PageInv'
<1>1. PICK i \in RowIds : \E new \in {Q!Row(i, c) : c \in Contents} \cup {None} :
          /\ qTable' = [qTable EXCEPT ![i] = new]
          /\ qSearch' = [qSearch EXCEPT !.quiet = FALSE,
                                        !.fixed = {r \in @ : r.id # i /\ Q!Alone(r, Q!Rows')}]
  BY DEF Q!Write
<1>2. PICK new \in {Q!Row(i, c) : c \in Contents} \cup {None} :
          /\ qTable' = [qTable EXCEPT ![i] = new]
          /\ qSearch' = [qSearch EXCEPT !.quiet = FALSE,
                                        !.fixed = {r \in @ : r.id # i /\ Q!Alone(r, Q!Rows')}]
  BY <1>1
<1>3. qWrites' \in 0..RowWrites /\ qSearch.state \in {"none", "open"}
  BY DEF Q!Write, PageInv, Q!KeysAreNumbers
<1>4. qTable \in Q!TableSpace /\ qTable' \in Q!TableSpace
  BY <1>2, WrittenIs DEF PageInv
<1> DEFINE s == qSearch
           t == qSearch'
           rows == Q!Rows
           R2 == Q!Rows'
<1>5. s \in Searching /\ s.fixed \in SUBSET Kept(rows) /\ AskedFor(s) /\ Follows(s, rows)
  BY DEF PageInv
<1>6. /\ t.query = s.query /\ t.size = s.size /\ t.cursor = s.cursor /\ t.out = s.out
      /\ t.state = s.state /\ t.quiet = FALSE /\ t.fixed = {r \in s.fixed : r.id # i /\ Q!Alone(r, R2)}
  BY <1>2, <1>5 DEF Searching
<1>7. t \in Searching
  BY <1>2, <1>5 DEF Searching
<1>8. \A r \in rows : r.id \in RowIds /\ qTable[r.id] = r /\ r \in Q!RowSpace
  BY RowsAre DEF PageInv, Keyed
<1>9. R2 = {qTable'[j] : j \in {k \in RowIds : qTable'[k] # None}}
  BY DEF Q!Rows
<1>10. \A r \in rows : r # None
  BY <1>8 DEF Q!NoneIsNoValue
<1>11. \A r \in rows : r.id # i => r \in R2
  <2> SUFFICES ASSUME NEW r \in rows, r.id # i PROVE r \in R2
    OBVIOUS
  <2>1. qTable'[r.id] = r /\ r.id \in RowIds /\ r # None
    BY <1>2, <1>4, <1>8, <1>10 DEF Q!TableSpace
  <2> HIDE DEF R2, rows
  <2> QED BY <1>9, <2>1
<1>a. Keyed(rows) /\ Keyed(R2)
  <2>1. Keyed(rows)
    BY <1>4, RowsAre
  <2>2. Keyed(R2)
    BY <1>4, <1>9, RowsOf
  <2> QED BY <2>1, <2>2
<1> HIDE DEF s, t, rows, R2
<1>12. t.fixed \in SUBSET Kept(R2) /\ t.fixed \in SUBSET s.fixed
  BY <1>5, <1>6, <1>11 DEF Kept
<1>13. AskedFor(t) /\ Followed(t) /\ Shows(t, R2)
  BY <1>3, <1>5, <1>6 DEF AskedFor, Followed, Shows, s
<1>14. Follows(t, R2)
  <2> SUFFICES ASSUME t.state = "open", Steady(t), NEW r \in t.fixed
               PROVE  /\ r \in DOMAIN Q!Scores(t.query, R2)
                      /\ Cardinality(Seen(t.out, r.id)) =
                             IF Ahead(Q!Scores(t.query, R2), t.cursor, r) THEN 0 ELSE 1
    BY DEF Follows
  <2>1. Q!OwnScore(s.query) /\ Steady(s) /\ s.state = "open" /\ r \in s.fixed /\ r \in Kept(rows) /\ r \in Kept(R2)
    BY <1>5, <1>6, <1>12 DEF Steady
  <2> DEFINE f == Q!Scores(s.query, rows)
             g == Q!Scores(s.query, R2)
             q == s.query
  <2>2. r \in DOMAIN f /\ Cardinality(Seen(s.out, r.id)) = IF Ahead(f, s.cursor, r) THEN 0 ELSE 1
    BY <1>5, <2>1 DEF Follows
  <2>3. r \in DOMAIN g /\ g[r] = f[r]
    <3>1. f = Q!Scores(q, rows) /\ g = Q!Scores(q, R2) /\ Q!OwnScore(q)
      BY <2>1
    <3> HIDE DEF f, g, q
    <3>2. r \in DOMAIN Q!Scores(q, rows)
      BY <2>2, <3>1
    <3>3. r \in DOMAIN Q!Scores(q, R2) /\ Q!Scores(q, R2)[r] = Q!Scores(q, rows)[r]
      <4>1. r \in rows /\ r \in R2 /\ Q!Alone(r, rows) /\ Q!Alone(r, R2)
        BY <2>1 DEF Kept
      <4> QED BY <1>a, <3>1, <3>2, <4>1, OwnScoresStay
    <3> QED BY <3>1, <3>3
  <2>4. g = Q!Scores(t.query, R2) /\ t.cursor = s.cursor /\ t.out = s.out
    BY <1>6
  <2> HIDE DEF f, g
  <2>5. Ahead(g, s.cursor, r) <=> Ahead(f, s.cursor, r)
    BY <2>3 DEF Ahead
  <2> QED BY <2>2, <2>3, <2>4, <2>5
<1>15. t = qSearch' /\ R2 = Q!Rows'
  BY DEF t, R2
<1> QED BY <1>3, <1>4, <1>7, <1>12, <1>13, <1>14, <1>15 DEF PageInv

LEMMA RestKeepsPages == PageInv /\ UNCHANGED Q!vars => PageInv'
<1> SUFFICES ASSUME PageInv, UNCHANGED Q!vars PROVE PageInv'
  OBVIOUS
<1>1. qTable' = qTable /\ qWrites' = qWrites /\ qSearch' = qSearch
  BY DEF Q!vars
<1>2. Q!Rows' = Q!Rows
  BY <1>1 DEF Q!Rows
<1> QED BY <1>1, <1>2 DEF PageInv

LEMMA FixedRowsHold == PageInv => Q!PagesDeliverFixedRows
<1>1. \A i : Q!Times(i) = Cardinality(Seen(qSearch.out, i))
  BY QCardinality DEF Q!Times, Q!Count, Seen
<1> QED BY <1>1 DEF Q!PagesDeliverFixedRows, PageInv, Followed, Steady

LEMMA QuietPagesHold == PageInv => Q!QuietPagesAreRanking
<1> SUFFICES ASSUME PageInv, qSearch.state = "ended", qSearch.quiet,
                    NEW f, f = Q!Scores(qSearch.query, Q!Rows), NEW R, R = Q!Ranking(f),
                    NEW places, places = 1..Len(qSearch.out)
             PROVE  /\ \A k \in places : qSearch.out[k].row = R[qSearch.out[k].rank]
                    /\ \A k, l \in places : k < l => qSearch.out[k].rank < qSearch.out[l].rank
                    /\ \A i \in 1..Len(R) :
                         \/ \E k \in places : qSearch.out[k].rank = i
                         \/ \E k \in places : /\ Q!EndsPage(k) /\ qSearch.out[k].rank < i
                                              /\ Q!Tied(f, qSearch.out[k].row, R[i])
  BY DEF Q!QuietPagesAreRanking
<1>1. FrontOf(qSearch, f, R)
  BY DEF PageInv, Shows
<1>2. RankedRows(qSearch.out, R) /\ Covered(qSearch.out, f, R, qSearch.size, Len(R))
  BY <1>1 DEF FrontOf
<1>3. \A k : Q!EndsPage(k) <=> FullPage(k, qSearch.size)
  BY DEF Q!EndsPage, FullPage
<1>4. \A k \in places : qSearch.out[k].row = R[qSearch.out[k].rank]
  BY <1>2 DEF RankedRows
<1>5. \A k, l \in places : k < l => qSearch.out[k].rank < qSearch.out[l].rank
  BY <1>2 DEF RankedRows
<1>6. \A i \in 1..Len(R) :
          \/ \E k \in places : qSearch.out[k].rank = i
          \/ \E k \in places : /\ Q!EndsPage(k) /\ qSearch.out[k].rank < i
                               /\ Q!Tied(f, qSearch.out[k].row, R[i])
  BY <1>2, <1>3 DEF Covered
<1> QED BY <1>4, <1>5, <1>6

LEMMA TokensHold ==
    ASSUME Q!NoneIsNoValue, Q!KeysAreNumbers, Q!SearchesAreRanked, PageInv PROVE Q!TokenLeadsOn
<1> SUFFICES ASSUME qSearch.state = "open", qSearch.cursor # None, qSearch.quiet,
                    NEW f, f = Q!Scores(qSearch.query, Q!Rows), NEW R, R = Q!Ranking(f)
             PROVE  /\ Q!Last(qSearch.out).rank < Len(R)
                    /\ \/ Q!PageOf(qSearch.query, f, R, qSearch.cursor, 1).rows # <<>>
                       \/ Q!Tied(f, Q!Last(qSearch.out).row, Q!Last(R))
  BY DEF Q!TokenLeadsOn
<1> DEFINE rows == Q!Rows
           cursor == qSearch.cursor
           q == qSearch.query
           start == Q!Start(f, R, cursor)
           page == Q!PageOf(q, f, R, cursor, 1)
           n == Len(R)
           out == qSearch.out
           last == Q!Last(out)
           top == last.rank
<1>1. Keyed(rows)
  BY RowsAre DEF PageInv
<1>2. q \in RankedSearches /\ cursor.query = q /\ cursor \in Q!Tokens
  BY DEF PageInv, AskedFor, Searching
<1>3. f = Q!Scores(q, rows)
  OBVIOUS
<1>4. FrontOf(qSearch, f, R)
  BY DEF PageInv, Shows
<1>5. last = out[Len(out)] /\ Q!Last(R) = R[n] /\ Len(out) \in 1..Len(out)
  <2>1. Len(out) > 0 /\ Len(out) \in Nat
    BY <1>4 DEF FrontOf, PageInv, Searching
  <2> QED BY <2>1 DEF Q!Last
<1>6. top \in 1..n /\ last.row = R[top] /\ top < n /\ cursor = Q!Token(f, R[top], q)
  BY <1>4, <1>5 DEF FrontOf, RankedRows
<1>7. page = Q!PageOf(q, f, R, cursor, 1) /\ start = Q!Start(f, R, cursor) /\ n = Len(R)
  OBVIOUS
<1> HIDE DEF rows, cursor, q, start, page, n, out, last, top
<1>8. Scored(f, rows)
  BY <1>1, <1>2, <1>3, ScoresAre
<1>9. n \in Nat /\ \A i \in 1..n : R[i] \in DOMAIN f /\ Q!RankOf(f, R[i]) = i
  BY <1>1, <1>7, <1>8, RankingIs
<1>10. n \in 1..n
  BY <1>6, <1>9
<1>11. Ahead(f, cursor, R[n]) \/ Q!Tied(f, R[top], R[n])
  <2> DEFINE r == R[top]
             x == R[n]
  <2>1. r \in DOMAIN f /\ x \in DOMAIN f /\ Q!RankOf(f, r) = top /\ Q!RankOf(f, x) = n
    BY <1>6, <1>9, <1>10
  <2>2. cursor = Q!Token(f, r, q)
    BY <1>6
  <2> HIDE DEF r, x
  <2>3. Q!RankOf(f, r) < Q!RankOf(f, x) => Ahead(f, Q!Token(f, r, q), x) \/ Q!Tied(f, r, x)
    BY <1>1, <1>2, <1>8, <2>1, AheadOfToken
  <2> QED BY <1>6, <2>1, <2>2, <2>3 DEF r, x
<1>12. start \in 1..(n + 1) /\ \A i \in 1..n : i >= start <=> Ahead(f, cursor, R[i])
  BY <1>1, <1>2, <1>7, <1>8, StartIs
<1>13. Len(page.rows) = IF start + 1 <= n + 1 THEN 1 ELSE n + 1 - start
  <2>1. 1 \in Nat \ {0}
    OBVIOUS
  <2> QED BY <1>1, <1>2, <1>7, <1>8, <2>1, PageIs
<1>14. CASE Ahead(f, cursor, R[n])
  <2>1. start \in 1..n
    BY <1>9, <1>10, <1>12, <1>14
  <2>2. Len(page.rows) = 1
    BY <1>9, <1>13, <2>1
  <2>3. page.rows # <<>>
    BY <2>2
  <2> QED BY <1>6, <2>3 DEF page, q, cursor, n, top, last, out
<1>15. CASE Q!Tied(f, R[top], R[n])
  BY <1>5, <1>6, <1>15 DEF n, top, last, out
<1> QED BY <1>11, <1>14, <1>15

-----------------------------------------------------------------------------
(* Lists.                                                                     *)

\* A strict total order of a set, as its pairs.
Ordering(S, before) ==
    /\ \A x \in S : <<x, x>> \notin before
    /\ \A x, y \in S : x # y => <<x, y>> \in before \/ <<y, x>> \in before
    /\ \A x, y, z \in S : <<x, y>> \in before /\ <<y, z>> \in before => <<x, z>> \in before

\* A list of the elements of a set.
Lists(s, S) ==
    /\ s \in [1..Cardinality(S) -> S] /\ Cardinality(S) \in Nat
    /\ \A x \in S : \E i \in 1..Cardinality(S) : s[i] = x

LEMMA InOrderIs ==
    ASSUME NEW S, IsFiniteSet(S), NEW before, Ordering(S, before)
    PROVE  /\ Lists(Q!InOrder(S, before), S)
           /\ \A i, j \in 1..Cardinality(S) :
                  i < j => <<Q!InOrder(S, before)[i], Q!InOrder(S, before)[j]>> \in before
<1> DEFINE n == Cardinality(S)
           below(x) == {y \in S : <<y, x>> \in before}
           rank(x) == 1 + Cardinality(below(x))
           place == [x \in S |-> rank(x)]
           L == Q!InOrder(S, before)
<1>1. n \in Nat
  BY FS_CardinalityType
<1>2. /\ \A x \in S : <<x, x>> \notin before
      /\ \A x, y \in S : x # y => <<x, y>> \in before \/ <<y, x>> \in before
      /\ \A x, y, z \in S : <<x, y>> \in before /\ <<y, z>> \in before => <<x, z>> \in before
  BY DEF Ordering
<1>3. \A x : rank(x) = 1 + Cardinality(below(x))
  OBVIOUS
<1> HIDE DEF rank
<1>4. \A x \in S : IsFiniteSet(below(x)) /\ Cardinality(below(x)) \in Nat /\ rank(x) \in 1..n
  <2> TAKE x \in S
  <2>1. below(x) \in SUBSET S /\ x \notin below(x)
    BY <1>2
  <2>2. rank(x) = 1 + Cardinality(below(x))
    BY <1>3
  <2> HIDE DEF below
  <2>3. IsFiniteSet(below(x)) /\ Cardinality(below(x)) <= n /\ (Cardinality(below(x)) = n => below(x) = S)
    BY <2>1, FS_Subset
  <2>4. Cardinality(below(x)) \in Nat
    BY <2>3, FS_CardinalityType
  <2> HIDE DEF n
  <2> QED BY <1>1, <2>1, <2>2, <2>3, <2>4
<1>5. \A x, y \in S : <<x, y>> \in before => rank(x) < rank(y)
  <2> SUFFICES ASSUME NEW x \in S, NEW y \in S, <<x, y>> \in before PROVE rank(x) < rank(y)
    OBVIOUS
  <2>1. below(x) \in SUBSET below(y) /\ x \in below(y) /\ x \notin below(x)
    BY <1>2
  <2>2. rank(x) = 1 + Cardinality(below(x)) /\ rank(y) = 1 + Cardinality(below(y))
    BY <1>3
  <2>3. IsFiniteSet(below(y)) /\ Cardinality(below(x)) \in Nat /\ Cardinality(below(y)) \in Nat
    BY <1>4
  <2> HIDE DEF below
  <2>4. Cardinality(below(x)) <= Cardinality(below(y)) /\ (Cardinality(below(x)) = Cardinality(below(y)) => below(x) = below(y))
    BY <2>1, <2>3, FS_Subset
  <2> QED BY <2>1, <2>2, <2>3, <2>4
<1>6. \A x \in S : rank(x) \in 1..n
  BY <1>4
<1>7. \A x, y \in S : (rank(x) = rank(y) => x = y) /\ (rank(x) < rank(y) => <<x, y>> \in before)
  <2> TAKE x, y \in S
  <2>1. rank(x) \in Int /\ rank(y) \in Int
    <3> HIDE DEF n
    <3> QED BY <1>1, <1>6
  <2>2. (<<x, y>> \in before => rank(x) < rank(y)) /\ (<<y, x>> \in before => rank(y) < rank(x))
    BY <1>5
  <2>3. x = y \/ <<x, y>> \in before \/ <<y, x>> \in before
    BY <1>2
  <2> QED BY <2>1, <2>2, <2>3
<1>8. place \in Injection(S, 1..n)
  <2>1. place \in [S -> 1..n]
    BY <1>6
  <2>2. \A x, y \in S : place[x] = place[y] => x = y
    BY <1>7
  <2> HIDE DEF place
  <2> QED BY <2>1, <2>2 DEF Injection, IsInjective
<1>9. IsFiniteSet(1..n) /\ Cardinality(1..n) = n
  <2> HIDE DEF n
  <2> QED BY <1>1, FS_Interval
<1>10. \A i \in 1..n : \E x \in S : rank(x) = i
  <2>1. place \in Surjection(S, 1..n)
    <3> HIDE DEF place
    <3>1. Cardinality(S) = Cardinality(1..n) <=> place \in Surjection(S, 1..n)
      BY <1>8, <1>9, FS_Injection
    <3> QED BY <1>9, <3>1 DEF n
  <2> TAKE i \in 1..n
  <2>2. \E x \in S : place[x] = i
    BY <2>1 DEF Surjection
  <2> QED BY <2>2
<1>11. L = [i \in 1..n |-> CHOOSE x \in S : Q!Cardinality(below(x)) = i - 1]
  <2>1. Q!Cardinality(S) = n
    BY QCardinality
  <2> QED BY <2>1 DEF Q!InOrder
<1> HIDE DEF L
<1>12. \A i \in 1..n : L[i] \in S /\ rank(L[i]) = i
  <2> TAKE i \in 1..n
  <2>1. L[i] = CHOOSE x \in S : Q!Cardinality(below(x)) = i - 1
    BY <1>11
  <2>2. PICK x \in S : rank(x) = i
    BY <1>10
  <2>3. Cardinality(below(x)) = i - 1
    <3>1. Cardinality(below(x)) \in Nat /\ rank(x) = 1 + Cardinality(below(x))
      BY <1>3, <1>4
    <3> HIDE DEF below, n
    <3> QED BY <1>1, <2>2, <3>1
  <2>a. \E y \in S : Q!Cardinality(below(y)) = i - 1
    BY <2>2, <2>3, QCardinality
  <2>b. L[i] \in S /\ Q!Cardinality(below(L[i])) = i - 1
    BY <2>1, <2>a
  <2>4. L[i] \in S /\ Cardinality(below(L[i])) = i - 1
    BY <2>b, QCardinality
  <2>5. rank(L[i]) = 1 + Cardinality(below(L[i]))
    BY <1>3
  <2> HIDE DEF below, n
  <2> QED BY <1>1, <2>4, <2>5
<1>13. L \in [1..n -> S]
  BY <1>11, <1>12
<1>14. \A x \in S : \E i \in 1..n : L[i] = x
  <2> TAKE x \in S
  <2>1. rank(x) \in 1..n
    BY <1>6
  <2>2. L[rank(x)] = x
    BY <1>7, <1>12, <2>1
  <2> QED BY <2>1, <2>2
<1>15. \A i, j \in 1..n : i < j => <<L[i], L[j]>> \in before
  BY <1>7, <1>12
<1> QED BY <1>1, <1>13, <1>14, <1>15 DEF Lists, L

\* A function defined by recursion over numbers, each value made from the one before.
Recursive(f, n, V, b, G) ==
    f \in [0..n -> V] /\ f[0] = b /\ \A k \in 1..n : f[k] = G[k][f[k - 1]]

LEMMA StepsExist ==
    ASSUME NEW n \in Nat, NEW V, NEW b \in V, NEW G \in [1..n -> [V -> V]]
    PROVE  \E f : Recursive(f, n, V, b, G)
<1> DEFINE Made(f, m) == f \in [0..m -> V] /\ f[0] = b /\ \A k \in 1..m : f[k] = G[k][f[k - 1]]
           Done == {m \in Nat : m <= n => \E f : Made(f, m)}
<1>1. 0 \in Done
  <2> DEFINE f == [k \in 0..0 |-> b]
  <2>1. Made(f, 0)
    OBVIOUS
  <2> QED BY <2>1
<1>2. ASSUME NEW m \in Done PROVE m + 1 \in Done
  <2>m. m \in Nat /\ (m <= n => \E f : Made(f, m))
    OBVIOUS
  <2> SUFFICES ASSUME m + 1 <= n PROVE \E f : Made(f, m + 1)
    <3> HIDE DEF Made
    <3> QED BY <2>m
  <2>1. PICK h : Made(h, m)
    BY <2>m
  <2>a. h \in [0..m -> V] /\ h[0] = b /\ \A k \in 1..m : h[k] = G[k][h[k - 1]]
    BY <2>1
  <2> DEFINE f == [k \in 0..(m + 1) |-> IF k <= m THEN h[k] ELSE G[m + 1][h[m]]]
  <2>2. G[m + 1] \in [V -> V] /\ h[m] \in V
    BY <2>a
  <2>3. f \in [0..(m + 1) -> V]
    BY <2>a, <2>2
  <2>4. f[0] = b
    BY <2>a
  <2>5. ASSUME NEW k \in 1..(m + 1) PROVE f[k] = G[k][f[k - 1]]
    <3>1. CASE k <= m
      <4>1. f[k] = h[k] /\ f[k - 1] = h[k - 1] /\ k \in 1..m
        BY <3>1
      <4> HIDE DEF f
      <4> QED BY <2>a, <4>1
    <3>2. CASE ~(k <= m)
      <4>1. k = m + 1
        BY <3>2
      <4>2. f[m + 1] = G[m + 1][h[m]] /\ f[m] = h[m]
        BY <2>m
      <4>3. k - 1 = m
        BY <2>m, <4>1
      <4> HIDE DEF f
      <4> QED BY <4>1, <4>2, <4>3
    <3> QED BY <3>1, <3>2
  <2> HIDE DEF f
  <2> QED BY <2>3, <2>4, <2>5
<1>3. Done \in SUBSET Nat
  OBVIOUS
<1>4. n \in Done
  <2> HIDE DEF Done
  <2> QED BY <1>1, <1>2, <1>3, AllNumbers
<1> QED BY <1>4 DEF Recursive

-----------------------------------------------------------------------------
(* Orders.                                                                    *)

LEMMA FieldIs ==
    ASSUME NEW rows, Keyed(rows), NEW field \in Q!Fields
    PROVE  \A r \in rows : r[field] \in Q!Numbers
<1> TAKE r \in rows
<1>1. r \in Q!RowSpace
  BY DEF Keyed
<1>2. r.id \in Q!Numbers
  BY DEF Keyed, Q!Numbers
<1>3. r.vec \in Q!Numbers /\ r.grp \in Q!Numbers /\ r.boss \in Q!Numbers
  BY <1>1 DEF Q!RowSpace
<1> QED BY <1>2, <1>3 DEF Q!Fields

LEMMA SortsBeforeIs ==
    ASSUME Q!NoneIsNoValue
    PROVE  /\ \A x \in Q!Numbers : ~Q!SortsBefore(x, x)
           /\ \A x, y \in Q!Numbers : x # y => Q!SortsBefore(x, y) \/ Q!SortsBefore(y, x)
           /\ \A x, y, z \in Q!Numbers : Q!SortsBefore(x, y) /\ Q!SortsBefore(y, z) => Q!SortsBefore(x, z)
<1>1. None \notin Int
  BY DEF Q!NoneIsNoValue
<1>2. \A x \in Q!Numbers : ~Q!SortsBefore(x, x)
  BY <1>1 DEF Q!SortsBefore, Q!Numbers
<1>3. \A x, y \in Q!Numbers : x # y => Q!SortsBefore(x, y) \/ Q!SortsBefore(y, x)
  BY <1>1 DEF Q!SortsBefore, Q!Numbers
<1>4. \A x, y, z \in Q!Numbers : Q!SortsBefore(x, y) /\ Q!SortsBefore(y, z) => Q!SortsBefore(x, z)
  BY <1>1 DEF Q!SortsBefore, Q!Numbers
<1> QED BY <1>2, <1>3, <1>4

\* A term puts rows in order, those that are the same for it apart.
LEMMA PrecedesIs ==
    ASSUME Q!NoneIsNoValue, NEW term \in Q!SortTerms, NEW rows, Keyed(rows)
    PROVE  /\ \A r, s \in rows : Q!Same(term, r, s) => ~Q!Precedes(term, r, s)
           /\ \A r, s \in rows : Q!Precedes(term, r, s) \/ Q!Precedes(term, s, r) \/ Q!Same(term, r, s)
           /\ \A r, s, t \in rows : Q!Precedes(term, r, s) /\ Q!Precedes(term, s, t) => Q!Precedes(term, r, t)
           /\ \A r, s, t \in rows : Q!Same(term, r, s) =>
                  /\ Q!Same(term, s, r)
                  /\ Q!Precedes(term, r, t) <=> Q!Precedes(term, s, t)
                  /\ Q!Precedes(term, t, r) <=> Q!Precedes(term, t, s)
                  /\ Q!Same(term, s, t) => Q!Same(term, r, t)
<1> DEFINE v(r) == r[term.field]
           up == term.direction # "desc"
<1>1. \A r \in rows : v(r) \in Q!Numbers
  BY FieldIs DEF Q!SortTerms
<1>2. \A r, s : /\ Q!Precedes(term, r, s) <=> IF up THEN Q!SortsBefore(v(r), v(s)) ELSE Q!SortsBefore(v(s), v(r))
                /\ Q!Same(term, r, s) <=> v(r) = v(s)
  BY DEF Q!Precedes, Q!Same
<1> HIDE DEF v, up
<1>3. \A r, s \in rows : Q!Same(term, r, s) => ~Q!Precedes(term, r, s)
  BY <1>1, <1>2, SortsBeforeIs
<1>4. \A r, s \in rows : Q!Precedes(term, r, s) \/ Q!Precedes(term, s, r) \/ Q!Same(term, r, s)
  BY <1>1, <1>2, SortsBeforeIs
<1>5. \A r, s, t \in rows : Q!Precedes(term, r, s) /\ Q!Precedes(term, s, t) => Q!Precedes(term, r, t)
  BY <1>1, <1>2, SortsBeforeIs
<1>6. \A r, s, t \in rows : Q!Same(term, r, s) =>
          /\ Q!Same(term, s, r)
          /\ Q!Precedes(term, r, t) <=> Q!Precedes(term, s, t)
          /\ Q!Precedes(term, t, r) <=> Q!Precedes(term, t, s)
          /\ Q!Same(term, s, t) => Q!Same(term, r, t)
  BY <1>2
<1> QED BY <1>3, <1>4, <1>5, <1>6

\* What a stable sort does: it moves rows to other places, in the order of the term
\* and else in the one they had.
Sorted(new, rows, n, term, order) ==
    /\ order \in [1..n -> 1..n]
    /\ new = [i \in 1..n |-> rows[order[i]]]
    /\ \A p \in 1..n : \E i \in 1..n : order[i] = p
    /\ \A i, j \in 1..n : i < j =>
           \/ Q!Precedes(term, rows[order[i]], rows[order[j]])
           \/ Q!Same(term, rows[order[i]], rows[order[j]]) /\ order[i] < order[j]

LEMMA StableSortIs ==
    ASSUME Q!NoneIsNoValue, NEW term \in Q!SortTerms, NEW S, Keyed(S), NEW n \in Nat, NEW rows \in [1..n -> S]
    PROVE  \E order : Sorted(Q!StableSort(rows, term), rows, n, term, order)
<1> DEFINE P == 1..n
           before == {p \in P \X P :
                          \/ Q!Precedes(term, rows[p[1]], rows[p[2]])
                          \/ ~Q!Precedes(term, rows[p[2]], rows[p[1]]) /\ p[1] < p[2]}
           order == Q!InOrder(P, before)
<1>1. Len(rows) = n
  OBVIOUS
<1>2. Q!StableSort(rows, term) = [i \in P |-> rows[order[i]]]
  BY <1>1 DEF Q!StableSort
<1>3. IsFiniteSet(P) /\ Cardinality(P) = n
  BY FS_Interval
<1>4. \A i \in P : i \in Int /\ rows[i] \in S
  OBVIOUS
<1>5. \A i, j \in P : <<i, j>> \in before <=>
          \/ Q!Precedes(term, rows[i], rows[j])
          \/ ~Q!Precedes(term, rows[j], rows[i]) /\ i < j
  OBVIOUS
<1> HIDE DEF P, before, order
<1>6. \A i, j \in P : <<i, j>> \in before <=>
          Q!Precedes(term, rows[i], rows[j]) \/ (Q!Same(term, rows[i], rows[j]) /\ i < j)
  <2> TAKE i, j \in P
  <2> DEFINE r == rows[i]
             s == rows[j]
  <2>1. r \in S /\ s \in S
    BY <1>4
  <2>2. <<i, j>> \in before <=> Q!Precedes(term, r, s) \/ (~Q!Precedes(term, s, r) /\ i < j)
    BY <1>5
  <2> HIDE DEF r, s
  <2>3. /\ Q!Same(term, r, s) => Q!Same(term, s, r)
        /\ Q!Same(term, s, r) => ~Q!Precedes(term, s, r)
        /\ Q!Precedes(term, r, s) \/ Q!Precedes(term, s, r) \/ Q!Same(term, r, s)
    BY <2>1, PrecedesIs
  <2>4. <<i, j>> \in before <=> Q!Precedes(term, r, s) \/ (Q!Same(term, r, s) /\ i < j)
    BY <2>2, <2>3
  <2> QED BY <2>4 DEF r, s
<1>7. Ordering(P, before)
  <2>1. ASSUME NEW i \in P PROVE <<i, i>> \notin before
    <3>1. Q!Same(term, rows[i], rows[i]) /\ ~(i < i)
      BY <1>4 DEF Q!Same
    <3> QED BY <1>4, <1>6, <3>1, PrecedesIs
  <2>2. ASSUME NEW i \in P, NEW j \in P, i # j PROVE <<i, j>> \in before \/ <<j, i>> \in before
    <3>1. i < j \/ j < i
      BY <1>4, <2>2
    <3> DEFINE r == rows[i]
               s == rows[j]
    <3>2. r \in S /\ s \in S
      BY <1>4
    <3>3. /\ <<i, j>> \in before <=> Q!Precedes(term, r, s) \/ (Q!Same(term, r, s) /\ i < j)
          /\ <<j, i>> \in before <=> Q!Precedes(term, s, r) \/ (Q!Same(term, s, r) /\ j < i)
      BY <1>6
    <3> HIDE DEF r, s
    <3>4. /\ Q!Precedes(term, r, s) \/ Q!Precedes(term, s, r) \/ Q!Same(term, r, s)
          /\ Q!Same(term, r, s) => Q!Same(term, s, r)
      BY <3>2, PrecedesIs
    <3> QED BY <3>1, <3>3, <3>4
  <2>3. ASSUME NEW i \in P, NEW j \in P, NEW k \in P, <<i, j>> \in before, <<j, k>> \in before
        PROVE  <<i, k>> \in before
    <3> DEFINE r == rows[i]
               s == rows[j]
               t == rows[k]
    <3>1. r \in S /\ s \in S /\ t \in S /\ i \in Int /\ j \in Int /\ k \in Int
      BY <1>4
    <3>2. /\ Q!Precedes(term, r, s) \/ (Q!Same(term, r, s) /\ i < j)
          /\ Q!Precedes(term, s, t) \/ (Q!Same(term, s, t) /\ j < k)
          /\ <<i, k>> \in before <=> Q!Precedes(term, r, t) \/ (Q!Same(term, r, t) /\ i < k)
      BY <1>6, <2>3
    <3> HIDE DEF r, s, t
    <3>3. /\ Q!Precedes(term, r, s) /\ Q!Precedes(term, s, t) => Q!Precedes(term, r, t)
          /\ Q!Same(term, r, s) => /\ Q!Precedes(term, r, t) <=> Q!Precedes(term, s, t)
                                   /\ Q!Same(term, s, t) => Q!Same(term, r, t)
          /\ Q!Same(term, s, t) => (Q!Precedes(term, r, s) <=> Q!Precedes(term, r, t))
      BY <3>1, PrecedesIs
    <3>4. i < j /\ j < k => i < k
      BY <3>1
    <3> QED BY <3>2, <3>3, <3>4
  <2> QED BY <2>1, <2>2, <2>3 DEF Ordering
<1>8. /\ Lists(order, P)
      /\ \A i, j \in 1..Cardinality(P) : i < j => <<order[i], order[j]>> \in before
  BY <1>3, <1>7, InOrderIs DEF order
<1>9. /\ order \in [P -> P]
      /\ \A p \in P : \E i \in P : order[i] = p
      /\ \A i, j \in P : i < j => <<order[i], order[j]>> \in before
  BY <1>3, <1>8 DEF Lists, P
<1>10. \A i, j \in P : i < j =>
           \/ Q!Precedes(term, rows[order[i]], rows[order[j]])
           \/ Q!Same(term, rows[order[i]], rows[order[j]]) /\ order[i] < order[j]
  BY <1>6, <1>9
<1>11. Sorted(Q!StableSort(rows, term), rows, n, term, order)
  BY <1>2, <1>9, <1>10 DEF Sorted, P
<1> QED BY <1>11

LEMMA ListedIs ==
    ASSUME NEW rows, Keyed(rows)
    PROVE  /\ Lists(Q!Listed(rows), rows)
           /\ \A i, j \in 1..Cardinality(rows) : i < j => Q!Listed(rows)[i].id < Q!Listed(rows)[j].id
<1> DEFINE before == {p \in rows \X rows : p[1].id < p[2].id}
           L == Q!Listed(rows)
<1>1. IsFiniteSet(rows) /\ \A r \in rows : r.id \in Int
  BY DEF Keyed
<1>2. \A r, s \in rows : <<r, s>> \in before <=> r.id < s.id
  OBVIOUS
<1>3. L = Q!InOrder(rows, before)
  BY DEF Q!Listed
<1> HIDE DEF before, L
<1>4. Ordering(rows, before)
  <2>1. \A r, s \in rows : r # s => r.id # s.id
    BY DEF Keyed
  <2>2. \A r \in rows : <<r, r>> \notin before
    BY <1>1, <1>2
  <2>3. \A r, s \in rows : r # s => <<r, s>> \in before \/ <<s, r>> \in before
    BY <1>1, <1>2, <2>1
  <2>4. \A r, s, t \in rows : <<r, s>> \in before /\ <<s, t>> \in before => <<r, t>> \in before
    BY <1>1, <1>2
  <2> QED BY <2>2, <2>3, <2>4 DEF Ordering
<1>5. Lists(L, rows) /\ \A i, j \in 1..Cardinality(rows) : i < j => <<L[i], L[j]>> \in before
  BY <1>1, <1>3, <1>4, InOrderIs
<1>6. \A i, j \in 1..Cardinality(rows) : i < j => L[i].id < L[j].id
  BY <1>2, <1>5 DEF Lists
<1> QED BY <1>5, <1>6 DEF L

\* One row comes before another by the terms from number a on, and else by its key.
ComesFirstFrom(a, sort, r, s) ==
    \/ \E m \in a..Len(sort) : /\ Q!Precedes(sort[m], r, s)
                               /\ \A l \in a..(m - 1) : Q!Same(sort[l], r, s)
    \/ r.id < s.id /\ \A l \in a..Len(sort) : Q!Same(sort[l], r, s)

Ordered(L, S, sort, a) ==
    /\ Lists(L, S)
    /\ \A i, j \in 1..Cardinality(S) : i < j => ComesFirstFrom(a, sort, L[i], L[j])

LEMMA SortGoesOn ==
    ASSUME Q!NoneIsNoValue, NEW S, Keyed(S), NEW sort \in Seq(Q!SortTerms),
           NEW a \in 1..Len(sort), NEW L, Ordered(L, S, sort, a + 1)
    PROVE  Ordered(Q!StableSort(L, sort[a]), S, sort, a)
<1> DEFINE n == Cardinality(S)
           term == sort[a]
           new == Q!StableSort(L, term)
<1>1. L \in [1..n -> S] /\ n \in Nat /\ \A x \in S : \E i \in 1..n : L[i] = x
  BY DEF Ordered, Lists
<1>2. term \in Q!SortTerms /\ a \in Int /\ Len(sort) \in Nat /\ a <= Len(sort)
  OBVIOUS
<1>3. \A i, j \in 1..n : i < j => ComesFirstFrom(a + 1, sort, L[i], L[j])
  BY DEF Ordered
<1>4. PICK order : Sorted(new, L, n, term, order)
  <2> HIDE DEF n, term
  <2> QED BY <1>1, <1>2, StableSortIs
<1>t. term = sort[a] /\ n = Cardinality(S)
  OBVIOUS
<1> HIDE DEF n, term, new
<1>5. /\ order \in [1..n -> 1..n]
      /\ new = [i \in 1..n |-> L[order[i]]]
      /\ \A p \in 1..n : \E i \in 1..n : order[i] = p
  BY <1>4 DEF Sorted
<1>6. new \in [1..n -> S]
  BY <1>1, <1>5
<1>7. \A x \in S : \E i \in 1..n : new[i] = x
  <2> TAKE x \in S
  <2>1. PICK p \in 1..n : L[p] = x
    BY <1>1
  <2>2. PICK i \in 1..n : order[i] = p
    BY <1>5
  <2>3. new[i] = x
    BY <1>5, <2>1, <2>2
  <2> QED BY <2>3
<1>8. ASSUME NEW i \in 1..n, NEW j \in 1..n, i < j
      PROVE  ComesFirstFrom(a, sort, new[i], new[j])
  <2> DEFINE p == order[i]
             q == order[j]
             r == new[i]
             s == new[j]
  <2>1. p \in 1..n /\ q \in 1..n /\ r = L[p] /\ s = L[q]
    BY <1>5
  <2>2. Q!Precedes(term, r, s) \/ (Q!Same(term, r, s) /\ p < q)
    BY <1>4, <1>8, <2>1 DEF Sorted
  <2>3. p < q => ComesFirstFrom(a + 1, sort, r, s)
    BY <1>3, <2>1
  <2> HIDE DEF p, q, r, s
  <2>4. ASSUME Q!Precedes(term, r, s) PROVE ComesFirstFrom(a, sort, r, s)
    <3>1. a \in a..Len(sort) /\ \A l \in a..(a - 1) : Q!Same(sort[l], r, s)
      BY <1>2
    <3> QED BY <1>t, <2>4, <3>1 DEF ComesFirstFrom
  <2>5. ASSUME Q!Same(term, r, s), p < q PROVE ComesFirstFrom(a, sort, r, s)
    <3>1. Q!Same(sort[a], r, s)
      BY <1>t, <2>5
    <3>2. CASE \E m \in (a + 1)..Len(sort) : /\ Q!Precedes(sort[m], r, s)
                                            /\ \A l \in (a + 1)..(m - 1) : Q!Same(sort[l], r, s)
      <4>1. PICK m \in (a + 1)..Len(sort) : /\ Q!Precedes(sort[m], r, s)
                                            /\ \A l \in (a + 1)..(m - 1) : Q!Same(sort[l], r, s)
        BY <3>2
      <4>2. m \in a..Len(sort)
        BY <1>2
      <4>3. \A l \in a..(m - 1) : l = a \/ l \in (a + 1)..(m - 1)
        BY <1>2
      <4>4. \A l \in a..(m - 1) : Q!Same(sort[l], r, s)
        BY <3>1, <4>1, <4>3
      <4> QED BY <4>1, <4>2, <4>4 DEF ComesFirstFrom
    <3>3. CASE r.id < s.id /\ \A l \in (a + 1)..Len(sort) : Q!Same(sort[l], r, s)
      <4>1. \A l \in a..Len(sort) : l = a \/ l \in (a + 1)..Len(sort)
        BY <1>2
      <4>2. \A l \in a..Len(sort) : Q!Same(sort[l], r, s)
        BY <3>1, <3>3, <4>1
      <4> QED BY <3>3, <4>2 DEF ComesFirstFrom
    <3> QED BY <2>3, <2>5, <3>2, <3>3 DEF ComesFirstFrom
  <2>6. ComesFirstFrom(a, sort, r, s)
    BY <2>2, <2>4, <2>5
  <2> QED BY <2>6 DEF r, s
<1>9. Lists(new, S) /\ \A i, j \in 1..n : i < j => ComesFirstFrom(a, sort, new[i], new[j])
  BY <1>1, <1>6, <1>7, <1>8 DEF Lists, n
<1> QED BY <1>9 DEF Ordered, n, new, term

Sorting(g, sort, rows) ==
    g = [k \in 0..Len(sort) |->
            IF k = 0 THEN rows ELSE Q!StableSort(g[k - 1], sort[Len(sort) + 1 - k])]

LEMMA SortingExists ==
    ASSUME Q!NoneIsNoValue, NEW S, Keyed(S), NEW n \in Nat, NEW sort \in Seq(Q!SortTerms),
           NEW rows \in [1..n -> S]
    PROVE  \E g : Sorting(g, sort, rows)
<1> DEFINE m == Len(sort)
           V == [1..n -> S]
           G == [k \in 1..m |-> [s \in V |-> Q!StableSort(s, sort[m + 1 - k])]]
<1>1. m \in Nat
  OBVIOUS
<1>2. ASSUME NEW k \in 1..m, NEW s \in V PROVE Q!StableSort(s, sort[m + 1 - k]) \in V
  <2>1. sort[m + 1 - k] \in Q!SortTerms
    OBVIOUS
  <2> DEFINE term == sort[m + 1 - k]
  <2>2. PICK order : Sorted(Q!StableSort(s, term), s, n, term, order)
    <3> HIDE DEF term
    <3> QED BY <1>2, <2>1, StableSortIs DEF term
  <2> HIDE DEF term
  <2>3. Q!StableSort(s, term) = [i \in 1..n |-> s[order[i]]] /\ order \in [1..n -> 1..n]
    BY <2>2 DEF Sorted
  <2>4. Q!StableSort(s, term) \in V
    BY <2>3
  <2> QED BY <2>4 DEF term
<1>3. G \in [1..m -> [V -> V]]
  BY <1>2
<1>4. \A k \in 1..m : \A s \in V : G[k][s] = Q!StableSort(s, sort[m + 1 - k])
  OBVIOUS
<1>5. rows \in V
  OBVIOUS
<1>a. m = Len(sort)
  OBVIOUS
<1> HIDE DEF m, V, G
<1>b. PICK f : Recursive(f, m, V, rows, G)
  BY <1>1, <1>3, <1>5, StepsExist
<1>6. f \in [0..m -> V] /\ f[0] = rows /\ \A k \in 1..m : f[k] = G[k][f[k - 1]]
  BY <1>b DEF Recursive
<1>7. \A k \in 0..m : f[k] = IF k = 0 THEN rows ELSE Q!StableSort(f[k - 1], sort[m + 1 - k])
  <2> TAKE k \in 0..m
  <2>1. k # 0 => k \in 1..m /\ f[k - 1] \in V
    BY <1>1, <1>6
  <2> QED BY <1>4, <1>6, <2>1
<1>8. f = [k \in 0..m |-> IF k = 0 THEN rows ELSE Q!StableSort(f[k - 1], sort[m + 1 - k])]
  BY <1>6, <1>7
<1> QED BY <1>8, <1>a DEF Sorting

\* Sorted stably by each term, the last one first, rows are in the order of the first
\* term they differ in.
LEMMA ApplyOrderIs ==
    ASSUME Q!NoneIsNoValue, NEW S, Keyed(S), NEW sort \in Seq(Q!SortTerms)
    PROVE  Ordered(Q!ApplyOrder(sort, Q!Listed(S)), S, sort, 1)
<1> DEFINE m == Len(sort)
           rows == Q!Listed(S)
           g == CHOOSE h : Sorting(h, sort, rows)
<1>1. m \in Nat
  OBVIOUS
<1>2. Lists(rows, S) /\ \A i, j \in 1..Cardinality(S) : i < j => rows[i].id < rows[j].id
  BY ListedIs
<1>a. m = Len(sort) /\ rows = Q!Listed(S)
  OBVIOUS
<1> HIDE DEF rows
<1>3. Sorting(g, sort, rows)
  <2>1. \E h : Sorting(h, sort, rows)
    BY <1>2, SortingExists DEF Lists
  <2> QED BY <2>1
<1>4. Q!ApplyOrder(sort, rows) = g[m]
  BY DEF Q!ApplyOrder, Sorting
<1> HIDE DEF g, m
<1>5. g[0] = rows /\ \A k \in 1..m : g[k] = Q!StableSort(g[k - 1], sort[m + 1 - k])
  <2>1. \A k \in 0..m : g[k] = IF k = 0 THEN rows ELSE Q!StableSort(g[k - 1], sort[m + 1 - k])
    BY <1>3, <1>a DEF Sorting
  <2>2. 0 \in 0..m /\ \A k \in 1..m : k \in 0..m /\ k # 0
    BY <1>1
  <2> QED BY <2>1, <2>2
<1> DEFINE Good == {k \in Nat : k <= m => Ordered(g[k], S, sort, m + 1 - k)}
<1>6. 0 \in Good
  <2>1. \A i, j \in 1..Cardinality(S) : i < j => ComesFirstFrom(m + 1, sort, rows[i], rows[j])
    <3>1. \A l \in (m + 1)..m : FALSE
      BY <1>1
    <3> QED BY <1>2, <1>a, <3>1 DEF ComesFirstFrom
  <2>2. Ordered(g[0], S, sort, m + 1)
    BY <1>2, <1>5, <2>1 DEF Ordered
  <2>3. m + 1 - 0 = m + 1
    BY <1>1
  <2> QED BY <2>2, <2>3
<1>7. ASSUME NEW k \in Good PROVE k + 1 \in Good
  <2>1. k \in Nat /\ (k <= m => Ordered(g[k], S, sort, m + 1 - k))
    OBVIOUS
  <2> SUFFICES ASSUME k + 1 <= m PROVE Ordered(g[k + 1], S, sort, m + 1 - (k + 1))
    BY <2>1
  <2> DEFINE a == m - k
  <2>2. a \in 1..Len(sort) /\ m + 1 - k = a + 1 /\ m + 1 - (k + 1) = a /\ k + 1 \in 1..m /\ k + 1 - 1 = k
    BY <1>1, <1>a, <2>1
  <2>3. g[k + 1] = Q!StableSort(g[k], sort[a])
    BY <1>5, <2>2
  <2>4. Ordered(g[k], S, sort, a + 1)
    BY <1>1, <2>1, <2>2
  <2> HIDE DEF a
  <2> QED BY <2>2, <2>3, <2>4, SortGoesOn
<1>8. m \in Good
  <2>1. Good \in SUBSET Nat
    OBVIOUS
  <2> HIDE DEF Good
  <2> QED BY <1>1, <1>6, <1>7, <2>1, AllNumbers
<1>9. Ordered(g[m], S, sort, 1)
  <2>1. Ordered(g[m], S, sort, m + 1 - m) /\ m + 1 - m = 1
    BY <1>1, <1>8
  <2> QED BY <2>1
<1> QED BY <1>4, <1>9 DEF rows

LEMMA ListsIs ==
    ASSUME NEW L, NEW S, Lists(L, S)
    PROVE  /\ L \in Seq(S) /\ Len(L) = Cardinality(S) /\ Len(L) \in Nat
           /\ Q!ToSet(L) = S
<1> DEFINE n == Cardinality(S)
<1>1. L \in [1..n -> S] /\ n \in Nat /\ \A x \in S : \E i \in 1..n : L[i] = x
  BY DEF Lists
<1> HIDE DEF n
<1>2. L \in Seq(S) /\ Len(L) = n /\ DOMAIN L = 1..n
  BY <1>1
<1>3. Q!ToSet(L) = S
  BY <1>1, <1>2 DEF Q!ToSet
<1> QED BY <1>1, <1>2, <1>3 DEF n

LEMMA TakeAll ==
    ASSUME NEW s PROVE Q!Take(s, None) = s
BY DEF Q!Take

LEMMA OrderHolds ==
    ASSUME Q!NoneIsNoValue, Q!KeysAreNumbers, Q!SortsAreTerms, qTable \in Q!TableSpace
    PROVE  Q!OrderIsLexicographic
<1> DEFINE S == Q!Rows
<1>1. Keyed(S)
  BY RowsAre
<1> SUFFICES ASSUME NEW sort \in Sorts, NEW rows, rows = Q!Select(sort, 0, None)
             PROVE  /\ Q!ToSet(rows) = S /\ Len(rows) = Q!Cardinality(S)
                    /\ \A i, j \in 1..Len(rows) : i < j => Q!ComesFirst(sort, rows[i], rows[j])
  BY DEF Q!OrderIsLexicographic
<1> DEFINE L == Q!ApplyOrder(sort, Q!Listed(S))
<1>2. sort \in Seq(Q!SortTerms)
  BY DEF Q!SortsAreTerms
<1>3. Ordered(L, S, sort, 1)
  <2> HIDE DEF S
  <2> QED BY <1>1, <1>2, ApplyOrderIs
<1>4. L \in Seq(S) /\ Len(L) = Cardinality(S) /\ Len(L) \in Nat /\ Q!ToSet(L) = S
  BY <1>3, ListsIs DEF Ordered
<1>5. rows = Q!Take(SubSeq(L, 0 + 1, Len(L)), None)
  BY DEF Q!Select
<1> HIDE DEF L, S
<1>6. rows = L
  <2>1. 0 + 1 = 1
    OBVIOUS
  <2>2. SubSeq(L, 0 + 1, Len(L)) = L
    BY <1>4, <2>1, SubSeqFull
  <2> QED BY <1>5, <2>2, TakeAll
<1>7. \A i, j \in 1..Len(rows) : i < j => ComesFirstFrom(1, sort, rows[i], rows[j])
  BY <1>3, <1>4, <1>6 DEF Ordered
<1>8. \A r, s : ComesFirstFrom(1, sort, r, s) => Q!ComesFirst(sort, r, s)
  BY DEF ComesFirstFrom, Q!ComesFirst
<1> QED BY <1>4, <1>6, <1>7, <1>8, QCardinality

LEMMA WindowsHold ==
    ASSUME Q!NoneIsNoValue, Q!KeysAreNumbers, Q!SortsAreTerms, qTable \in Q!TableSpace
    PROVE  Q!WindowsFit
<1> DEFINE S == Q!Rows
<1>1. Keyed(S)
  BY RowsAre
<1>a. Q!Cardinality(RowIds) \in Nat /\ None \notin Int
  BY QCardinality, FS_CardinalityType DEF Q!KeysAreNumbers, Q!NoneIsNoValue
<1> SUFFICES ASSUME NEW sort \in Sorts, NEW k \in 0..(Q!Cardinality(RowIds) + 1)
             PROVE  Q!Select(sort, 0, k) \o Q!Select(sort, k, None) = Q!Select(sort, 0, None)
  BY DEF Q!WindowsFit
<1> DEFINE L == Q!ApplyOrder(sort, Q!Listed(S))
           n == Len(L)
<1>2. sort \in Seq(Q!SortTerms)
  BY DEF Q!SortsAreTerms
<1>3. L \in Seq(S) /\ n \in Nat
  <2>1. Ordered(L, S, sort, 1)
    <3> HIDE DEF S
    <3> QED BY <1>1, <1>2, ApplyOrderIs
  <2> QED BY <2>1, ListsIs DEF Ordered
<1>4. \A m, l : Q!Select(sort, m, l) = Q!Take(SubSeq(L, m + 1, n), l)
  BY DEF Q!Select
<1>5. n = Len(L)
  OBVIOUS
<1>6. k \in Nat /\ k # None
  BY <1>a
<1> HIDE DEF L, S, n
<1>7. SubSeq(L, 1, n) = L /\ SubSeq(L, 0 + 1, n) = L
  <2>1. 0 + 1 = 1
    OBVIOUS
  <2> QED BY <1>3, <1>5, <2>1, SubSeqFull
<1>8. Q!Select(sort, 0, None) = L
  BY <1>4, <1>7, TakeAll
<1>9. Q!Select(sort, k, None) = SubSeq(L, k + 1, n)
  BY <1>4, TakeAll
<1>10. Q!Select(sort, 0, k) = IF k >= n THEN L ELSE SubSeq(L, 1, k)
  <2>1. Q!Select(sort, 0, k) = Q!Take(L, k)
    BY <1>4, <1>7
  <2> QED BY <1>5, <1>6, <2>1 DEF Q!Take
<1>11. CASE k >= n
  <2>1. SubSeq(L, k + 1, n) = <<>>
    BY <1>3, <1>6, <1>11, SubSeqEmpty
  <2>2. L \o <<>> = L
    BY <1>3
  <2> QED BY <1>8, <1>9, <1>10, <1>11, <2>1, <2>2
<1>12. CASE ~(k >= n)
  <2>1. 1 \in 1..(Len(L) + 1) /\ k \in (1 - 1)..Len(L) /\ n \in k..Len(L)
    BY <1>3, <1>5, <1>6, <1>12
  <2>2. SubSeq(L, 1, k) \o SubSeq(L, k + 1, n) = SubSeq(L, 1, n)
    BY <1>3, <2>1, ConcatAdjacentSubSeq
  <2> QED BY <1>7, <1>8, <1>9, <1>10, <1>12, <2>2
<1> QED BY <1>11, <1>12

-----------------------------------------------------------------------------
(* Links.                                                                     *)

LEMMA CollectionIs ==
    ASSUME Q!NoneIsNoValue, Q!KeysAreNumbers, Q!SortsAreTerms, qTable \in Q!TableSpace,
           NEW sort \in Sorts, NEW r
    PROVE  Q!ToSet(Q!IncludeCollection(r, sort, None)) = Q!Reports(r.id)
<1> DEFINE S == Q!Reports(r.id)
<1>1. S \in SUBSET Q!Rows
  BY DEF Q!Reports
<1>2. Keyed(S)
  <2> HIDE DEF S
  <2> QED BY <1>1, RowsAre, FS_Subset DEF Keyed
<1>3. sort \in Seq(Q!SortTerms)
  BY DEF Q!SortsAreTerms
<1> DEFINE L == Q!ApplyOrder(sort, Q!Listed(S))
<1>4. Ordered(L, S, sort, 1)
  <2> HIDE DEF S
  <2> QED BY <1>2, <1>3, ApplyOrderIs
<1>5. Q!ToSet(L) = S
  BY <1>4, ListsIs DEF Ordered
<1>6. Q!IncludeCollection(r, sort, None) = L
  BY TakeAll DEF Q!IncludeCollection
<1> QED BY <1>5, <1>6

LEMMA TraverseIs ==
    ASSUME NEW start, NEW one, NEW two
    PROVE  Q!Traverse(start, <<one, two>>, 2) = Q!Step(Q!Step(start, one), two)
<1> DEFINE steps == <<one, two>>
           Reached(g) == g = [k \in 0..Len(steps) |-> IF k = 0 THEN start ELSE Q!Step(g[k - 1], steps[k])]
           g == CHOOSE h : Reached(h)
           w == [k \in 0..2 |-> IF k = 0 THEN start
                                ELSE IF k = 1 THEN Q!Step(start, one) ELSE Q!Step(Q!Step(start, one), two)]
<1>1. Len(steps) = 2 /\ steps[1] = one /\ steps[2] = two
  OBVIOUS
<1> HIDE DEF steps
<1>2. Reached(w)
  <2>1. w[0] = start /\ w[1] = Q!Step(start, one) /\ w[2] = Q!Step(w[1], two)
    OBVIOUS
  <2>2. \A k \in 0..2 : k = 0 \/ k = 1 \/ k = 2
    OBVIOUS
  <2>3. \A k \in 0..2 : w[k] = IF k = 0 THEN start ELSE Q!Step(w[k - 1], steps[k])
    <3>1. 1 - 1 = 0 /\ 2 - 1 = 1
      OBVIOUS
    <3> HIDE DEF w
    <3> QED BY <1>1, <2>1, <2>2, <3>1
  <2>4. w = [k \in 0..2 |-> w[k]]
    OBVIOUS
  <2> HIDE DEF w
  <2> QED BY <1>1, <2>3, <2>4
<1>3. Reached(g)
  <2>1. \E h : Reached(h)
    BY <1>2
  <2> HIDE DEF Reached
  <2> QED BY <2>1
<1>4. Q!Traverse(start, steps, 2) = g[2]
  <2>1. ~(Len(steps) > 2)
    BY <1>1
  <2> QED BY <1>1, <2>1 DEF Q!Traverse
<1> HIDE DEF g
<1>5. g[0] = start /\ g[1] = Q!Step(g[0], one) /\ g[2] = Q!Step(g[1], two)
  BY <1>1, <1>3
<1> QED BY <1>4, <1>5 DEF steps

LEMMA LinksHold ==
    ASSUME Q!NoneIsNoValue, Q!KeysAreNumbers, Q!SortsAreTerms, qTable \in Q!TableSpace
    PROVE  Q!LinksAreInverse
<1> DEFINE S == Q!Rows
<1>1. /\ \A r \in S : r.id \in RowIds /\ qTable[r.id] = r /\ r # None
      /\ \A i \in RowIds : qTable[i] # None => qTable[i] \in S /\ qTable[i].id = i
  <2>1. \A r \in S : r.id \in RowIds /\ qTable[r.id] = r /\ r \in Q!RowSpace
    BY RowsAre DEF Keyed
  <2>2. \A i \in RowIds : qTable[i] # None => qTable[i] \in S /\ qTable[i].id = i
    BY DEF Q!Rows, Q!TableSpace
  <2> QED BY <2>1, <2>2 DEF Q!NoneIsNoValue
<1>2. \A i : Q!Stored(i) <=> i \in RowIds /\ qTable[i] # None
  BY DEF Q!Stored
<1>3. \A i : \A r : r \in Q!Reports(i) <=> r \in S /\ r.boss = i
  BY DEF Q!Reports
<1>4. \A rows : /\ Q!Step(rows, "boss") = {qTable[r.boss] : r \in {x \in rows : Q!Stored(x.boss)}}
                /\ Q!Step(rows, "reports") = {r \in S : \E x \in rows : r.boss = x.id}
  <2> TAKE rows
  <2>1. Q!Step(rows, "boss") = {qTable[r.boss] : r \in {x \in rows : Q!Stored(x.boss)}}
    BY DEF Q!Step
  <2>2. Q!Step(rows, "reports") = {r \in S : \E x \in rows : r.boss = x.id}
    BY DEF Q!Step
  <2> QED BY <2>1, <2>2
<1>5. \A r : Q!IncludeLink(r) = IF Q!Stored(r.boss) THEN qTable[r.boss] ELSE None
  BY DEF Q!IncludeLink
<1> HIDE DEF S
<1>6. ASSUME NEW r \in S, NEW sort \in Sorts, Q!IncludeLink(r) # None
      PROVE  r \in Q!ToSet(Q!IncludeCollection(Q!IncludeLink(r), sort, None))
  <2>1. Q!IncludeLink(r) = qTable[r.boss] /\ r.boss \in RowIds /\ qTable[r.boss] # None
    BY <1>2, <1>5, <1>6
  <2>2. r \in Q!Reports(Q!IncludeLink(r).id)
    BY <1>1, <1>3, <2>1
  <2> QED BY <2>2, CollectionIs
<1>7. ASSUME NEW r \in S, NEW sort \in Sorts,
             NEW t \in Q!ToSet(Q!IncludeCollection(r, sort, None))
      PROVE  Q!IncludeLink(t) = r
  <2>1. t \in Q!Reports(r.id)
    BY CollectionIs
  <2>2. t.boss = r.id
    BY <1>3, <2>1
  <2> QED BY <1>1, <1>2, <1>5, <2>2
<1>8. ASSUME NEW start \in SUBSET S
      PROVE  Q!Traverse(start, <<"reports", "boss">>, 2) = {r \in start : Q!Reports(r.id) # {}}
  <2> DEFINE down == Q!Step(start, "reports")
             back == Q!Step(down, "boss")
  <2>1. Q!Traverse(start, <<"reports", "boss">>, 2) = back
    BY TraverseIs
  <2>2. down = {r \in S : \E x \in start : r.boss = x.id}
    BY <1>4
  <2>3. back = {qTable[r.boss] : r \in {x \in down : Q!Stored(x.boss)}}
    BY <1>4
  <2> HIDE DEF down, back
  <2>4. ASSUME NEW t \in back PROVE t \in start /\ Q!Reports(t.id) # {}
    <3>1. PICK r \in down : Q!Stored(r.boss) /\ t = qTable[r.boss]
      BY <2>3
    <3>2. PICK x \in start : r.boss = x.id
      BY <2>2, <3>1
    <3>3. x \in S /\ r \in S
      BY <2>2
    <3>4. t = x
      BY <1>1, <3>1, <3>2, <3>3
    <3>5. r \in Q!Reports(t.id)
      BY <1>3, <3>2, <3>3, <3>4
    <3> QED BY <3>4, <3>5
  <2>5. ASSUME NEW t \in start, Q!Reports(t.id) # {} PROVE t \in back
    <3>1. PICK r \in Q!Reports(t.id) : TRUE
      BY <2>5
    <3>2. r \in S /\ r.boss = t.id /\ r \in down
      BY <1>3, <2>2
    <3>3. Q!Stored(r.boss) /\ qTable[r.boss] = t
      BY <1>1, <1>2, <3>2
    <3> QED BY <2>3, <3>2, <3>3
  <2>6. back = {r \in start : Q!Reports(r.id) # {}}
    BY <2>4, <2>5
  <2> QED BY <2>1, <2>6
<1>9. ASSUME NEW start \in SUBSET S
      PROVE  {r \in start : Q!IncludeLink(r) # None} \subseteq Q!Traverse(start, <<"boss", "reports">>, 2)
  <2> DEFINE up == Q!Step(start, "boss")
             back == Q!Step(up, "reports")
  <2>1. Q!Traverse(start, <<"boss", "reports">>, 2) = back
    BY TraverseIs
  <2>2. up = {qTable[r.boss] : r \in {x \in start : Q!Stored(x.boss)}}
    BY <1>4
  <2>3. back = {r \in S : \E x \in up : r.boss = x.id}
    BY <1>4
  <2> HIDE DEF up, back
  <2>4. ASSUME NEW r \in start, Q!IncludeLink(r) # None PROVE r \in back
    <3>1. Q!Stored(r.boss)
      BY <1>5, <2>4
    <3>2. qTable[r.boss] \in up
      BY <2>2, <3>1
    <3>3. qTable[r.boss].id = r.boss
      BY <1>1, <1>2, <3>1
    <3> QED BY <2>3, <3>2, <3>3
  <2> QED BY <2>1, <2>4
<1> QED BY <1>6, <1>7, <1>8, <1>9 DEF Q!LinksAreInverse, S

-----------------------------------------------------------------------------
(* Groups.                                                                    *)

LEMMA TakeTwice ==
    ASSUME None \notin Int, NEW V, NEW g \in Seq(V), NEW l \in Nat \ {0}, NEW k \in 1..l
    PROVE  Q!Take(Q!Take(g, l), k) = Q!Take(g, k)
<1> DEFINE n == Len(g)
           all == Q!Take(g, l)
<1>1. n \in Nat /\ k \in Nat \ {0} /\ k <= l /\ n = Len(g) /\ all = Q!Take(g, l)
  OBVIOUS
<1>2. \A s : /\ Q!Take(s, l) = IF l >= Len(s) THEN s ELSE SubSeq(s, 1, l)
             /\ Q!Take(s, k) = IF k >= Len(s) THEN s ELSE SubSeq(s, 1, k)
  BY DEF Q!Take
<1> HIDE DEF n, all
<1>3. CASE l >= n
  BY <1>1, <1>2, <1>3
<1>4. CASE ~(l >= n)
  <2>1. all = SubSeq(g, 1, l) /\ Q!Take(g, k) = SubSeq(g, 1, k)
    BY <1>1, <1>2, <1>4
  <2>2. \A i \in 1..l : g[i] \in V
    BY <1>1, <1>4
  <2>3. Len(all) = l
    <3>1. Len(SubSeq(g, 1, l)) = IF 1 <= l THEN l - 1 + 1 ELSE 0
      BY <2>2, SubSeqProperties
    <3> QED BY <2>1, <3>1
  <2>4. CASE k = l
    BY <1>1, <1>2, <2>1, <2>3, <2>4
  <2>5. CASE k # l
    <3>1. Q!Take(all, k) = SubSeq(all, 1, k)
      BY <1>1, <1>2, <2>3, <2>5
    <3>2. /\ 1 \in 1..Len(g) /\ l \in 1..Len(g) /\ 1 \in 1..(l - 1 + 1) /\ k \in 1..(l - 1 + 1)
          /\ 1 + 1 - 1 = 1 /\ 1 + k - 1 = k
      BY <1>1, <1>4
    <3>3. SubSeq(SubSeq(g, 1, l), 1, k) = SubSeq(g, 1 + 1 - 1, 1 + k - 1)
      BY <3>2, SubSeqOfSubSeq
    <3> QED BY <1>1, <2>1, <3>1, <3>2, <3>3
  <2> QED BY <2>4, <2>5
<1> QED BY <1>1, <1>3, <1>4

\* All groups of some rows by a field, the largest first.
Grouped(g, rows, field) ==
    /\ g \in Seq([key : Int, rows : SUBSET rows])
    /\ \A i \in 1..Len(g) : g[i].rows = {r \in rows : r[field] = g[i].key} /\ g[i].rows # {}
    /\ \A r \in rows : r[field] # None => \E i \in 1..Len(g) : g[i].key = r[field]
    /\ \A i, j \in 1..Len(g) :
           i < j => g[i].key # g[j].key /\ Cardinality(g[i].rows) >= Cardinality(g[j].rows)

GroupsOf(rows, field) ==
    LET values == {r[field] : r \in rows} \ {None}
        group(v) == {r \in rows : r[field] = v}
        size(v) == Cardinality(group(v))
        keys == Q!InOrder(values, {p \in values \X values :
                    size(p[1]) > size(p[2]) \/ (size(p[1]) = size(p[2]) /\ p[1] < p[2])})
    IN  [i \in 1..Len(keys) |-> [key |-> keys[i], rows |-> group(keys[i])]]

LEMMA GroupsAre ==
    ASSUME Q!NoneIsNoValue, NEW rows, Keyed(rows), NEW field \in Q!Fields
    PROVE  Grouped(GroupsOf(rows, field), rows, field)
<1> DEFINE values == {r[field] : r \in rows} \ {None}
           group(v) == {r \in rows : r[field] = v}
           size(v) == Cardinality(group(v))
           before == {p \in values \X values :
                    size(p[1]) > size(p[2]) \/ (size(p[1]) = size(p[2]) /\ p[1] < p[2])}
           keys == Q!InOrder(values, before)
           n == Cardinality(values)
           g == GroupsOf(rows, field)
<1>1. \A r \in rows : r[field] \in Int \cup {None}
  BY FieldIs DEF Q!Numbers
<1>2. values \in SUBSET Int
  BY <1>1
<1>3. IsFiniteSet(values)
  <2> DEFINE valued == {r \in rows : r[field] # None}
             value == [r \in valued |-> r[field]]
  <2>1. IsFiniteSet(valued)
    BY FS_Subset DEF Keyed
  <2>2. value \in Surjection(valued, values)
    <3>1. value \in [valued -> values]
      OBVIOUS
    <3>2. \A v \in values : \E r \in valued : value[r] = v
      OBVIOUS
    <3> QED BY <3>1, <3>2 DEF Surjection
  <2> HIDE DEF valued, value, values
  <2> QED BY <2>1, <2>2, FS_Surjection
<1>4. \A v : IsFiniteSet(group(v)) /\ size(v) \in Nat
  <2> TAKE v
  <2>1. IsFiniteSet(group(v))
    BY FS_Subset DEF Keyed
  <2> QED BY <2>1, FS_CardinalityType
<1>5. \A v, w \in values : <<v, w>> \in before <=> size(v) > size(w) \/ (size(v) = size(w) /\ v < w)
  OBVIOUS
<1>6. \A v \in values : \E r \in rows : r[field] = v /\ r \in group(v)
  OBVIOUS
<1>7. \A r \in rows : r[field] # None => r[field] \in values
  OBVIOUS
<1>8. g = [i \in 1..Len(keys) |-> [key |-> keys[i], rows |-> group(keys[i])]]
  BY DEF GroupsOf
<1>9. \A v : group(v) = {r \in rows : r[field] = v} /\ group(v) \in SUBSET rows /\ size(v) = Cardinality(group(v))
  OBVIOUS
<1> HIDE DEF values, group, size, before, g
<1>10. Ordering(values, before)
  <2>1. \A v \in values : v \in Int /\ size(v) \in Nat
    BY <1>2, <1>4
  <2>2. \A v \in values : <<v, v>> \notin before
    BY <1>5, <2>1
  <2>3. \A v, w \in values : v # w => <<v, w>> \in before \/ <<w, v>> \in before
    BY <1>5, <2>1
  <2>4. \A u, v, w \in values : <<u, v>> \in before /\ <<v, w>> \in before => <<u, w>> \in before
    BY <1>5, <2>1
  <2> QED BY <2>2, <2>3, <2>4 DEF Ordering
<1>11. Lists(keys, values) /\ \A i, j \in 1..n : i < j => <<keys[i], keys[j]>> \in before
  BY <1>3, <1>10, InOrderIs
<1> HIDE DEF keys
<1>12. /\ n \in Nat /\ Len(keys) = n /\ \A i \in 1..n : keys[i] \in values
       /\ \A v \in values : \E i \in 1..n : keys[i] = v
  BY <1>11, ListsIs DEF Lists
<1> HIDE DEF n
<1>13. /\ g = [i \in 1..n |-> [key |-> keys[i], rows |-> group(keys[i])]]
       /\ \A i \in 1..n : g[i].key = keys[i] /\ g[i].rows = group(keys[i])
  BY <1>8, <1>12
<1>14. g \in Seq([key : Int, rows : SUBSET rows]) /\ Len(g) = n
  <2>1. \A i \in 1..n : [key |-> keys[i], rows |-> group(keys[i])] \in [key : Int, rows : SUBSET rows]
    BY <1>2, <1>9, <1>12
  <2> QED BY <1>12, <1>13, <2>1
<1>15. \A i \in 1..n : g[i].rows = {r \in rows : r[field] = g[i].key} /\ g[i].rows # {}
  <2> TAKE i \in 1..n
  <2>1. g[i].rows = group(g[i].key) /\ g[i].key \in values
    BY <1>12, <1>13
  <2>2. group(g[i].key) # {}
    BY <1>6, <2>1
  <2> QED BY <1>9, <2>1, <2>2
<1>16. \A r \in rows : r[field] # None => \E i \in 1..n : g[i].key = r[field]
  BY <1>7, <1>12, <1>13
<1>17. \A i, j \in 1..n : i < j => g[i].key # g[j].key /\ Cardinality(g[i].rows) >= Cardinality(g[j].rows)
  <2> TAKE i, j \in 1..n
  <2> SUFFICES ASSUME i < j PROVE g[i].key # g[j].key /\ Cardinality(g[i].rows) >= Cardinality(g[j].rows)
    OBVIOUS
  <2> DEFINE v == keys[i]
             w == keys[j]
  <2>1. v \in values /\ w \in values /\ <<v, w>> \in before
    BY <1>11, <1>12
  <2>2. g[i].key = v /\ g[j].key = w /\ Cardinality(g[i].rows) = size(v) /\ Cardinality(g[j].rows) = size(w)
    BY <1>9, <1>13
  <2> HIDE DEF v, w
  <2>3. size(v) > size(w) \/ (size(v) = size(w) /\ v < w)
    BY <1>5, <2>1
  <2>4. v # w /\ size(v) >= size(w)
    BY <1>2, <1>4, <2>1, <2>3
  <2> QED BY <2>2, <2>4
<1> QED BY <1>14, <1>15, <1>16, <1>17 DEF Grouped, g

LEMMA GroupsIs ==
    ASSUME NEW rows, NEW field, NEW limit, NEW default
    PROVE  Q!Groups(rows, field, limit, default) =
               [groups |-> Q!Take(GroupsOf(rows, field), IF limit = 0 THEN default ELSE limit),
                total |-> Len(GroupsOf(rows, field))]
<1> DEFINE values == {r[field] : r \in rows} \ {None}
           group(v) == {r \in rows : r[field] = v}
           keys == Q!InOrder(values, {p \in values \X values :
                       Cardinality(group(p[1])) > Cardinality(group(p[2]))
                       \/ (Cardinality(group(p[1])) = Cardinality(group(p[2])) /\ p[1] < p[2])})
           qkeys == Q!InOrder(values, {p \in values \X values :
                       Q!Cardinality(group(p[1])) > Q!Cardinality(group(p[2]))
                       \/ (Q!Cardinality(group(p[1])) = Q!Cardinality(group(p[2])) /\ p[1] < p[2])})
<1>1. keys = qkeys
  <2>1. \A S : Q!Cardinality(S) = Cardinality(S)
    BY QCardinality
  <2> QED BY <2>1
<1>2. GroupsOf(rows, field) = [i \in 1..Len(keys) |-> [key |-> keys[i], rows |-> group(keys[i])]]
  BY DEF GroupsOf
<1>3. Q!Groups(rows, field, limit, default) =
          [groups |-> Q!Take([i \in 1..Len(qkeys) |-> [key |-> qkeys[i], rows |-> group(qkeys[i])]],
                             IF limit = 0 THEN default ELSE limit),
           total |-> Len(qkeys)]
  BY DEF Q!Groups
<1> HIDE DEF keys, qkeys
<1>4. Len(GroupsOf(rows, field)) = Len(keys)
  BY <1>2
<1> QED BY <1>1, <1>2, <1>3, <1>4

LEMMA MetricsMin ==
    ASSUME NEW rows, NEW field
    PROVE  Q!Metrics(rows, field).min =
               IF {r[field] : r \in {x \in rows : x[field] # None}} = {} THEN None
               ELSE Q!Min({r[field] : r \in {x \in rows : x[field] # None}})
BY DEF Q!Metrics

LEMMA MatchedIs ==
    ASSUME Q!KeysAreNumbers, Q!SearchesAreRanked, qTable \in Q!TableSpace,
           NEW q \in {None} \cup {x \in RankedSearches : x.clause = "text_search"}
    PROVE  Keyed(Q!Matched(q))
<1> DEFINE rows == Q!Rows
<1>1. Keyed(rows)
  BY RowsAre
<1>2. CASE q = None
  BY <1>1, <1>2 DEF Q!Matched
<1>3. CASE q # None
  <2>1. q \in Q!RankedQueries /\ q.clause = "text_search"
    BY <1>3 DEF Q!SearchesAreRanked
  <2>2. q.terms \in Q!Terms
    BY <2>1 DEF Q!RankedQueries
  <2>3. Q!Matched(q) = DOMAIN Q!TextScores(q, rows)
    BY <1>3 DEF Q!Matched
  <2> HIDE DEF rows
  <2>4. Q!Matched(q) \in SUBSET rows
    BY <1>1, <2>2, <2>3, TextScoresIs DEF Scored
  <2> QED BY <1>1, <2>4, FS_Subset DEF Keyed
<1> QED BY <1>2, <1>3

\* The least value of all rows is the least of one group.
LEMMA LeastIsInGroup ==
    ASSUME Q!NoneIsNoValue, NEW rows, Keyed(rows), NEW field \in Q!Fields,
           NEW g, Grouped(g, rows, field), Q!Metrics(rows, field).min # None
    PROVE  \E i \in 1..Len(g) : Q!Metrics(g[i].rows, field).min = Q!Metrics(rows, field).min
<1> DEFINE valued == {x \in rows : x[field] # None}
           values == {r[field] : r \in valued}
           value == [r \in valued |-> r[field]]
           min == Q!Metrics(rows, field).min
<1>1. values # {} /\ min = Q!Min(values)
  BY MetricsMin
<1>2. values \in SUBSET Int
  BY FieldIs DEF Q!Numbers
<1>3. IsFiniteSet(values)
  <2>1. IsFiniteSet(valued)
    BY FS_Subset DEF Keyed
  <2>2. value \in Surjection(valued, values)
    <3>1. value \in [valued -> values]
      OBVIOUS
    <3>2. \A v \in values : \E r \in valued : value[r] = v
      OBVIOUS
    <3> QED BY <3>1, <3>2 DEF Surjection
  <2> HIDE DEF valued, value, values
  <2> QED BY <2>1, <2>2, FS_Surjection
<1>4. min \in values
  <2> HIDE DEF values, min
  <2> QED BY <1>1, <1>2, <1>3, SmallestNumber
<1>5. PICK r \in rows : r[field] # None /\ r[field] = min
  BY <1>4
<1>6. PICK i \in 1..Len(g) : g[i].key = r[field]
  BY <1>5 DEF Grouped
<1>7. g[i].rows = {x \in rows : x[field] = min} /\ min # None /\ min \in Int
  BY <1>2, <1>4, <1>5, <1>6 DEF Grouped
<1>8. r \in g[i].rows
  BY <1>5, <1>7
<1> DEFINE ofGroup == {x[field] : x \in {y \in g[i].rows : y[field] # None}}
<1>9. ofGroup = {min}
  BY <1>5, <1>7, <1>8
<1>10. Q!Metrics(g[i].rows, field).min = IF ofGroup = {} THEN None ELSE Q!Min(ofGroup)
  BY MetricsMin
<1>11. Q!Min({min}) = min
  <2> DEFINE m == min
  <2>1. m \in Int
    BY <1>7
  <2> HIDE DEF m
  <2>2. {m} \in SUBSET Int /\ {m} # {} /\ IsFiniteSet({m})
    BY <2>1, FS_Singleton
  <2>3. Q!Min({m}) \in {m}
    BY <2>2, SmallestNumber
  <2>4. Q!Min({m}) = m
    BY <2>3
  <2> QED BY <2>4 DEF m
<1> HIDE DEF ofGroup, min
<1>12. Q!Metrics(g[i].rows, field).min = min
  BY <1>9, <1>10, <1>11
<1> QED BY <1>12 DEF min

LEMMA AggregateIs ==
    ASSUME Q!NoneIsNoValue, NEW hits, Keyed(hits), NEW field \in Q!Fields
    PROVE  Q!AddsUp(hits, field, Q!Aggregate(hits, field, 0), Q!Aggregate(hits, field, 1))
<1> DEFINE g == GroupsOf(hits, field)
           all == Q!Aggregate(hits, field, 0)
           cut == Q!Aggregate(hits, field, 1)
           groups == all.groups.groups
           V == [key : Int, rows : SUBSET hits]
<1>1. Grouped(g, hits, field)
  BY GroupsAre
<1>2. /\ all.groups = [groups |-> Q!Take(g, 50), total |-> Len(g)]
      /\ all.facet = [groups |-> Q!Take(g, 10), total |-> Len(g)]
      /\ all.all = Q!Metrics(hits, field)
      /\ cut.groups = [groups |-> Q!Take(g, 1), total |-> Len(g)]
  BY GroupsIs DEF Q!Aggregate
<1> HIDE DEF g, all, cut
<1>3. g \in Seq(V) /\ Len(g) \in Nat
  BY <1>1 DEF Grouped
<1>4. None \notin Int
  BY DEF Q!NoneIsNoValue
<1>5. groups = Q!Take(g, 50) /\ all.groups.total = Len(g) /\ all.facet.total = Len(g) /\ cut.groups.total = Len(g)
  BY <1>2
<1>6. all.facet.groups = Q!Take(groups, 10) /\ cut.groups.groups = Q!Take(groups, 1)
  <2>1. 50 \in Nat \ {0} /\ 10 \in 1..50 /\ 1 \in 1..50
    OBVIOUS
  <2> HIDE DEF V, groups
  <2> QED BY <1>2, <1>3, <1>4, <1>5, <2>1, TakeTwice
<1>7. /\ Len(groups) \in Nat /\ Len(groups) <= Len(g)
      /\ \A i \in 1..Len(groups) : groups[i] = g[i]
      /\ Len(g) <= 50 => groups = g
  <2>1. groups = IF 50 >= Len(g) THEN g ELSE SubSeq(g, 1, 50)
    BY <1>4, <1>5 DEF Q!Take
  <2>2. CASE 50 >= Len(g)
    <3>1. groups = g
      BY <2>1, <2>2
    <3> HIDE DEF groups
    <3> QED BY <1>3, <3>1
  <2>3. CASE ~(50 >= Len(g))
    <3>1. groups = SubSeq(g, 1, 50)
      BY <2>1, <2>3
    <3> HIDE DEF groups, V
    <3>2. \A i \in 1..50 : g[i] \in V
      BY <1>3, <2>3
    <3>3. /\ Len(groups) = IF 1 <= 50 THEN 50 - 1 + 1 ELSE 0
          /\ \A i \in 1..(50 - 1 + 1) : groups[i] = g[1 + i - 1]
      BY <3>1, <3>2, SubSeqProperties
    <3>4. Len(groups) = 50 /\ \A i \in 1..50 : groups[i] = g[1 + i - 1] /\ 1 + i - 1 = i
      BY <3>3
    <3> QED BY <1>3, <2>3, <3>4
  <2> QED BY <2>2, <2>3
<1> HIDE DEF groups, V
<1>8. \A i \in 1..Len(groups) : i \in 1..Len(g)
  BY <1>3, <1>7
<1>9. \A i \in 1..Len(groups) : groups[i].rows \in (SUBSET hits) \ {{}}
  BY <1>1, <1>7, <1>8 DEF Grouped
<1>10. \A i, j \in 1..Len(groups) : i < j => Q!Cardinality(groups[i].rows) >= Q!Cardinality(groups[j].rows)
  BY <1>1, <1>7, <1>8, QCardinality DEF Grouped
<1>11. ASSUME Len(g) <= 50, NEW r \in hits, r[field] # None
       PROVE  Q!Cardinality({i \in 1..Len(groups) : r \in groups[i].rows}) = 1
  <2>1. groups = g
    BY <1>7, <1>11
  <2>2. PICK k \in 1..Len(g) : g[k].key = r[field]
    BY <1>1, <1>11 DEF Grouped
  <2>3. \A i \in 1..Len(g) : r \in g[i].rows <=> i = k
    <3> TAKE i \in 1..Len(g)
    <3>1. r \in g[i].rows <=> r[field] = g[i].key
      BY <1>1, <1>11 DEF Grouped
    <3>2. i < k \/ k < i \/ i = k
      BY <1>3
    <3>3. g[i].key = g[k].key => i = k
      BY <1>1, <3>2 DEF Grouped
    <3> QED BY <2>2, <3>1, <3>3
  <2>4. {i \in 1..Len(groups) : r \in groups[i].rows} = {k}
    BY <2>1, <2>2, <2>3
  <2>5. Cardinality({k}) = 1
    BY FS_Singleton
  <2> QED BY <2>4, <2>5, QCardinality
<1>12. Len(g) <= 50 /\ all.all.min # None =>
           \E i \in 1..Len(groups) : Q!Metrics(groups[i].rows, field).min = all.all.min
  BY <1>1, <1>2, <1>7, LeastIsInGroup
<1>13. groups = all.groups.groups
  BY DEF groups
<1>14. Q!AddsUp(hits, field, all, cut)
  BY <1>5, <1>6, <1>9, <1>10, <1>11, <1>12, <1>13 DEF Q!AddsUp
<1> QED BY <1>14 DEF all, cut

LEMMA GroupsHold ==
    ASSUME Q!NoneIsNoValue, Q!KeysAreNumbers, Q!SearchesAreRanked, qTable \in Q!TableSpace
    PROVE  Q!GroupsAddUp
<1>1. ASSUME NEW field \in Q!Fields,
             NEW q \in {None} \cup {x \in RankedSearches : x.clause = "text_search"},
             NEW hits, hits = Q!Matched(q)
      PROVE  Q!AddsUp(hits, field, Q!Aggregate(hits, field, 0), Q!Aggregate(hits, field, 1))
  BY <1>1, MatchedIs, AggregateIs
<1> QED BY <1>1 DEF Q!GroupsAddUp

-----------------------------------------------------------------------------
(* All of it.                                                                 *)

LEMMA AnswersAreRight ==
    ASSUME Q!NoneIsNoValue, Q!KeysAreNumbers, Q!SearchesAreRanked, Q!SortsAreTerms, PageInv
    PROVE  QueriesAnswerRight
<1>1. Q!TypeOK
  BY DEF PageInv, Searching, Q!TypeOK
<1>2. qTable \in Q!TableSpace
  BY DEF PageInv
<1>3. Q!PagesDeliverFixedRows /\ Q!QuietPagesAreRanking /\ Q!TokenLeadsOn
  BY FixedRowsHold, QuietPagesHold, TokensHold
<1>4. Q!OrderIsLexicographic /\ Q!WindowsFit /\ Q!GroupsAddUp /\ Q!LinksAreInverse
  BY <1>2, OrderHolds, WindowsHold, GroupsHold, LinksHold
<1> QED BY <1>1, <1>3, <1>4 DEF QueriesAnswerRight, Q!QueriesAnswerRight

\* For any keys, texts, searches, page sizes, orders and number of writes in between:
\* the pages of a search that is paged to its end have shown every row that matched
\* from the start, was not written and shared its key with no other row once, and
\* undisturbed they are the ranking but for the rows tied in score and key with the last
\* row of a page (search_page); rows are in the order of the first term they differ in, windows fit
\* together, groups share the rows between them, and links and collections are inverse.
THEOREM QueriesAreAnswered ==
    ASSUME Q!NoneIsNoValue, Q!KeysAreNumbers, Q!SearchesAreRanked, Q!TablesAreTables, Q!SortsAreTerms
    PROVE  Q!Spec => []QueriesAnswerRight
<1>1. Q!Init => PageInv
  BY PagesInit
<1>2. PageInv /\ [Q!Next]_Q!vars => PageInv'
  <2> SUFFICES ASSUME PageInv, [Q!Next]_Q!vars PROVE PageInv'
    OBVIOUS
  <2>1. CASE Q!Begin
    BY <2>1, BeginKeeps
  <2>2. CASE Q!Page
    BY <2>2, PageKeeps
  <2>3. CASE Q!Write
    BY <2>3, WriteKeepsPages
  <2>4. CASE UNCHANGED Q!vars
    BY <2>4, RestKeepsPages
  <2> QED BY <2>1, <2>2, <2>3, <2>4 DEF Q!Next
<1>3. PageInv => QueriesAnswerRight
  BY AnswersAreRight
<1> QED BY <1>1, <1>2, <1>3, PTL DEF Q!Spec
=============================================================================

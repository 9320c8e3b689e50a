------------------------------- MODULE Stores --------------------------------
(* The databases behind the connector, of which a behaviour uses one: SQL      *)
(* (SQLTransactions for the transactions, SQLTable for the rows), Redis,       *)
(* MongoDB, one whose schema is migrated, a server that answers in frames, or  *)
(* one that keeps the rows of a model's instances.                             *)
(* The two callers of Redis and of MongoDB are the tasks Txs.                  *)
EXTENDS SQLTransactions

CONSTANTS Keys, Oids, Schemas, None,
          RowIds, MaxWrites,                   \* primary keys of SQLTable, writes to it
          Offsets, Limits, Batches,            \* streamed queries of it
          MaxPayload, MaxFrames, MaxConns,
          Contents, Lists                      \* what the fields of Models hold

VARIABLES part,                                \* what the behaviour uses
          rStore, rTask,                       \* RedisStore
          mUnique, mDocs, mSource, mTask,      \* MongoStore
          tDialect, tTable, tWrites, tLast, tStream,      \* SQLTable
          gOld, gNew, gPlan, gSchema, gDone, gPhase,      \* Migrations
          fCodec, fConfig, fConn, fCount, fSent, fWire, fBuffer, fOut,      \* Frames
          fStatus, fOver, fDamaged,
          oFields, oInst, oRow, oBack, oAsked, oPhase     \* Models

redisVars == <<rStore, rTask>>
mongoVars == <<mUnique, mDocs, mSource, mTask>>
tableVars == <<tDialect, tTable, tWrites, tLast, tStream>>
migrationVars == <<gOld, gNew, gPlan, gSchema, gDone, gPhase>>
frameVars == <<fCodec, fConfig, fConn, fCount, fSent, fWire, fBuffer, fOut, fStatus, fOver, fDamaged>>
modelVars == <<oFields, oInst, oRow, oBack, oAsked, oPhase>>

Redis == INSTANCE RedisStore WITH Tasks <- Txs, store <- rStore, task <- rTask
Mongo == INSTANCE MongoStore WITH Tasks <- Txs, unique <- mUnique, docs <- mDocs,
                                  source <- mSource, task <- mTask
Table == INSTANCE SQLTable WITH Keys <- RowIds, dialect <- tDialect, table <- tTable, writes <- tWrites,
                                last <- tLast, stream <- tStream
Plan == INSTANCE Migrations WITH old <- gOld, new <- gNew, plan <- gPlan, schema <- gSchema,
                                 done <- gDone, phase <- gPhase
Frame == INSTANCE Frames WITH codec <- fCodec, config <- fConfig, conn <- fConn, count <- fCount,
                              sent <- fSent, wire <- fWire, buffer <- fBuffer, out <- fOut,
                              status <- fStatus, over <- fOver, damaged <- fDamaged
Model == INSTANCE Models WITH fields <- oFields, inst <- oInst, row <- oRow, back <- oBack,
                              asked <- oAsked, phase <- oPhase

\* Rows of Redis are lost, mixed or missed only where a comment of RedisStore says so.
RedisKeepsRows == part = "redis" => Redis!TypeOK /\ Redis!RedisKeepsRows

\* Keys of MongoDB name one document, ids are derived from them, and upserts find
\* what they stored, but where MongoStore says otherwise.
MongoKeepsRows == part = "mongo" => Mongo!TypeOK /\ Mongo!MongoKeepsRows

\* Streams of a SQL table are the select they are of, but for rows that come or go, and
\* an insert stores every row it was given, keeps the one there, or fails and stores none.
StreamsAndInserts == part = "table" => Table!TypeOK /\ Table!StreamsAndInserts

\* Plans lead from the old schema to the new one and back, and one that is not
\* destructive keeps the data of the old one.
MigrationsAreSafe == part = "migrations" => Plan!TypeOK /\ Plan!MigrationsAreSafe

\* Frames are handed out in order, whole and as they were sent, up to the first that
\* this client cannot read, and what one connection leaves costs the next one frame.
FramesAreSafe == part = "frames" => Frame!FramesAreSafe

\* What is written, stored and read back through a model is what was meant.
ModelsRoundTrip == part = "models" => Model!TypeOK /\ Model!ModelsRoundTrip
=============================================================================

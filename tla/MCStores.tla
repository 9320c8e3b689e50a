------------------------------ MODULE MCStores ------------------------------
(* What stands between a model and a database: the SQL, Redis and MongoDB     *)
(* backends, models, migrations and frames.  A behaviour shows one part; the  *)
(* parts share no state, and the variables of the others rest.                *)
EXTENDS Stores, FiniteSets, TLC

partVars == <<part, redisVars, mongoVars, tableVars, modelVars, migrationVars, frameVars>>

\* One or no varying model 1, with the fields 3 and perhaps 4 and perhaps the
\* relationship 5, and perhaps a model 2.
Field(type, nullable, dim, default) ==
    [type |-> type, nullable |-> nullable, vector_dim |-> dim, has_default |-> default,
     index |-> FALSE, unique |-> FALSE, primary_key |-> FALSE, other |-> ""]
FieldChoices ==
    {Field("int", FALSE, None, FALSE), Field("int", TRUE, None, FALSE), Field("str", FALSE, None, TRUE),
     Field("vector", FALSE, 2, FALSE), [Field("vector", TRUE, 3, FALSE) EXCEPT !.other = "hnsw"],
     [Field("int", FALSE, None, FALSE) EXCEPT !.unique = TRUE],
     [Field("int", TRUE, None, FALSE) EXCEPT !.index = TRUE, !.unique = TRUE]}
Id == [Field("int", FALSE, None, FALSE) EXCEPT !.primary_key = TRUE]
RelChoices ==
    {<<>>} \cup {[r \in {5} |-> rel] :
        rel \in [target : {2}, kind : {"link", "collection"}, on_delete : {None}]
               \cup [target : {2}, kind : {"link"}, on_delete : {"cascade"}]}
FieldMaps == {[f \in {3} |-> Id]} \cup {[f \in {3, 4} |-> IF f = 3 THEN Id ELSE c] : c \in FieldChoices}
             \cup {[f \in {4} |-> c] : c \in {Id, Field("int", FALSE, None, FALSE)}}
Other == [fields |-> [f \in {3} |-> Id], rels |-> <<>>]
OneModel == {<<>>} \cup {[m \in {1} |-> [fields |-> fs, rels |-> rs]] : fs \in FieldMaps, rs \in RelChoices}
SampleSchemas == OneModel \cup {s @@ (2 :> Other) : s \in OneModel}
SampleLists == {<<>>, <<1>>, <<1, 2>>}

ASSUME NoneAssumption == Redis!NoneIsNoValue /\ Mongo!NoneIsNoValue /\ Table!NoneIsNoValue
ASSUME IdsAssumption == Mongo!IdsDiffer
ASSUME SchemasAssumption == Plan!SchemasAreSchemas
ASSUME RowsAssumption == Table!KeysAreNumbers /\ Table!WindowsAreLegal
ASSUME LimitsAssumption == Frame!LimitsAreLimits
ASSUME ModelsAssumption == Model!NoneIsNoValue /\ Model!ListsAreLists

\* Three of the four tasks run in one behaviour, in every combination.
ThreeRun == Cardinality({t \in Tasks : pc[t] # "new"}) <= 3

MCInit ==
    /\ part \in {"transactions", "redis", "mongo", "table", "models", "migrations", "frames"}
    /\ Init /\ (part # "transactions" => dialect = "sqlite")
    /\ IF part = "redis" THEN Redis!Init ELSE rStore = None /\ rTask = None
    /\ IF part = "mongo" THEN Mongo!Init
       ELSE mUnique = None /\ mDocs = None /\ mSource = None /\ mTask = None
    /\ IF part = "table" THEN Table!Init
       ELSE tDialect = None /\ tTable = None /\ tWrites = None /\ tLast = None /\ tStream = None
    /\ IF part = "models" THEN Model!Init
       ELSE oFields = None /\ oInst = None /\ oRow = None /\ oBack = None /\ oAsked = None /\ oPhase = None
    /\ IF part = "migrations" THEN Plan!Init
       ELSE gOld = None /\ gNew = None /\ gPlan = None /\ gSchema = None /\ gDone = None /\ gPhase = None
    /\ IF part = "frames" THEN Frame!Init
       ELSE /\ fCodec = None /\ fConfig = None /\ fConn = None /\ fCount = None /\ fSent = None
            /\ fWire = None /\ fBuffer = None /\ fOut = None /\ fStatus = None /\ fOver = None /\ fDamaged = None

\* The steps of one part leave the others alone.
Transactions == part = "transactions" /\ Next /\ ThreeRun' /\ UNCHANGED partVars
RedisCalls == part = "redis" /\ Redis!Next
              /\ UNCHANGED <<vars, part, mongoVars, tableVars, modelVars, migrationVars, frameVars>>
MongoCalls == part = "mongo" /\ Mongo!Next
              /\ UNCHANGED <<vars, part, redisVars, tableVars, modelVars, migrationVars, frameVars>>
SQLQueries == part = "table" /\ Table!Next
              /\ UNCHANGED <<vars, part, redisVars, mongoVars, modelVars, migrationVars, frameVars>>
Hydration  == part = "models" /\ Model!Next
              /\ UNCHANGED <<vars, part, redisVars, mongoVars, tableVars, migrationVars, frameVars>>
Migrating  == part = "migrations" /\ Plan!Next
              /\ UNCHANGED <<vars, part, redisVars, mongoVars, tableVars, modelVars, frameVars>>
Decoding   == part = "frames" /\ Frame!Next
              /\ UNCHANGED <<vars, part, redisVars, mongoVars, tableVars, modelVars, migrationVars>>

MCNext == \/ Transactions \/ RedisCalls \/ MongoCalls \/ SQLQueries
          \/ Hydration \/ Migrating \/ Decoding
MCSpec == MCInit /\ [][MCNext]_<<vars, partVars>>

Symmetric == Permutations(Txs) \cup Permutations(Upserts) \cup Permutations(Keys)
=============================================================================

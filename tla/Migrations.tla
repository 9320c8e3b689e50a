----------------------------- MODULE Migrations -----------------------------
(* Schema migrations (src/src/aura/schema/migrations.py): the diff of two     *)
(* schemas, its classification into safe and destructive changes, and the     *)
(* rollback plan.  The library only computes and prints a plan; applying its  *)
(* steps, and rolling them back when one goes wrong, is the work of its       *)
(* reader, who has both schemas at hand.                                      *)
(*                                                                            *)
(* A schema maps the names of its models to their fields and relationships.   *)
(* Names are numbers, so that they have an order.                             *)
EXTENDS Naturals, Sequences, SequencesExt, FiniteSets

CONSTANTS Schemas,      \* the schemas a database may have
          None          \* an absent attribute, an absent estimate

VARIABLES
    old, new,   \* the two schemas
    plan,       \* the MigrationPlan: changes, estimate and its status
    schema,     \* the schema of the database the plan is applied to
    done,       \* how many changes have been applied
    phase       \* "diffed", "applying", "applied", "rolling back" or "rolled back"

vars == <<old, new, plan, schema, done, phase>>

-----------------------------------------------------------------------------
(* Schemas.  other is what the diff does not compare: container, full_text,   *)
(* vector_index, alias and description.                                       *)

FieldSchema ==
    [type : STRING, nullable : BOOLEAN, vector_dim : {None} \cup Nat, has_default : BOOLEAN,
     index : BOOLEAN, unique : BOOLEAN, primary_key : BOOLEAN, other : STRING]
RelationshipSchema == [target : Nat, kind : {"link", "collection"}, on_delete : {None} \cup STRING]

\* A finite map from names.
Named(f) == f = [x \in DOMAIN f |-> f[x]] /\ DOMAIN f \in SUBSET Nat /\ IsFiniteSet(DOMAIN f)
IsModel(m) ==
    /\ m = [fields |-> m.fields, rels |-> m.rels] /\ Named(m.fields) /\ Named(m.rels)
    /\ \A f \in DOMAIN m.fields : m.fields[f] \in FieldSchema
    /\ \A r \in DOMAIN m.rels : m.rels[r] \in RelationshipSchema
IsSchema(s) == Named(s) /\ \A m \in DOMAIN s : IsModel(s[m])

SchemasAreSchemas == \A s \in Schemas : IsSchema(s)

-----------------------------------------------------------------------------
(* The diff.                                                                  *)

KindOrder == <<"add_model", "drop_model", "add_field", "alter_field", "drop_field", "add_index",
               "drop_index", "add_relationship", "alter_relationship", "drop_relationship">>
AttrOrder == <<"type", "vector_dim", "nullable", "index", "unique", "primary_key">>
AlterAttrs == {"type", "vector_dim", "nullable"}
IndexAttrs == {"index", "unique", "primary_key"}
Position(x, s) == CHOOSE i \in 1..Len(s) : s[i] = x

\* attr orders the changes of one kind to one field, as they are found.
Change(kind, model, target, attr, destructive) ==
    [kind |-> kind, model |-> model, target |-> target, attr |-> attr, destructive |-> destructive]

\* _field_changes.  Only a null that is no longer allowed, and not one that is
\* allowed now, is destructive; so is a constraint or index that is dropped.
FieldChanges(m, f, before, after) ==
    {Change("alter_field", m, f, a, a = "nullable" => before.nullable) :
        a \in {x \in AlterAttrs : before[x] # after[x]}}
    \cup {Change(IF after[a] THEN "add_index" ELSE "drop_index", m, f, a, before[a]) :
            a \in {x \in IndexAttrs : before[x] # after[x]}}

SameRelationship(before, after) == before.target = after.target /\ before.kind = after.kind

\* _model_changes
ModelChanges(m, before, after) ==
    LET fields == DOMAIN before.fields \cap DOMAIN after.fields
        rels == DOMAIN before.rels \cap DOMAIN after.rels
    IN  {Change("add_field", m, f, None, ~after.fields[f].nullable /\ ~after.fields[f].has_default) :
            f \in DOMAIN after.fields \ fields}
        \cup {Change("drop_field", m, f, None, TRUE) : f \in DOMAIN before.fields \ fields}
        \cup (UNION {FieldChanges(m, f, before.fields[f], after.fields[f]) : f \in fields})
        \cup {Change("add_relationship", m, r, None, FALSE) : r \in DOMAIN after.rels \ rels}
        \cup {Change("drop_relationship", m, r, None, TRUE) : r \in DOMAIN before.rels \ rels}
        \cup {Change("alter_relationship", m, r, None, TRUE) : r \in {x \in rels : ~SameRelationship(before.rels[x], after.rels[x])}}

Precedes(c, d) ==
    LET kind(x) == Position(x.kind, KindOrder)
    IN  \/ c.model < d.model
        \/ c.model = d.model /\ kind(c) < kind(d)
        \/ c.model = d.model /\ kind(c) = kind(d) /\ c.target < d.target
        \/ /\ c.model = d.model /\ kind(c) = kind(d) /\ c.target = d.target /\ c # d
           /\ Position(c.attr, AttrOrder) < Position(d.attr, AttrOrder)

Changes(before, after) ==
    LET both == DOMAIN before \cap DOMAIN after
    IN  {Change("add_model", m, m, None, FALSE) : m \in DOMAIN after \ both}
        \cup {Change("drop_model", m, m, None, TRUE) : m \in DOMAIN before \ both}
        \cup UNION {ModelChanges(m, before[m], after[m]) : m \in both}

\* changes.sort: each change has as many before it as precede it.
Sorted(changes) ==
    [i \in 1..Cardinality(changes) |->
        CHOOSE c \in changes : Cardinality({d \in changes : Precedes(d, c)}) = i - 1]

\* diff_schemas: the changes in a fixed order, with no estimate yet.
DiffSchemas(before, after) ==
    [changes |-> Sorted(Changes(before, after)), status |-> "local_only", estimate |-> None]

IsEmpty(p) == p.changes = <<>>
IsDestructive(p) == \E i \in 1..Len(p.changes) : p.changes[i].destructive
RequiresLiveClusterEstimate(p) == ~(IsEmpty(p) \/ p.status = "server_estimated")

\* rollback_plan: the undoing of each change, the last change first.
RollbackInOrder(p) == p.changes
RollbackPlan(p) == Reverse(p.changes)

-----------------------------------------------------------------------------
(* What a change and its rollback ask for.                                    *)

Without(f, x) == [y \in DOMAIN f \ {x} |-> f[y]]
With(f, x, v) == [y \in DOMAIN f \cup {x} |-> IF y = x THEN v ELSE f[y]]

\* The schema s with what the change c names as it is in the schema like.
Become(s, c, like) ==
    LET m == c.model
        f == c.target
    IN  CASE c.kind \in {"add_model", "drop_model"} ->
                IF m \in DOMAIN like THEN With(s, m, like[m]) ELSE Without(s, m)
          [] c.kind \in {"alter_field", "add_index", "drop_index"} ->
                [s EXCEPT ![m].fields[f][c.attr] = like[m].fields[f][c.attr]]
          [] c.kind \in {"add_field", "drop_field"} ->
                [s EXCEPT ![m].fields = IF f \in DOMAIN like[m].fields THEN With(@, f, like[m].fields[f])
                                        ELSE Without(@, f)]
          [] OTHER ->
                [s EXCEPT ![m].rels = IF f \in DOMAIN like[m].rels THEN With(@, f, like[m].rels[f])
                                      ELSE Without(@, f)]

ApplyStep ==
    /\ phase \in {"diffed", "applying"} /\ done < Len(plan.changes)
    /\ schema' = Become(schema, plan.changes[done + 1], new)
    /\ done' = done + 1
    /\ phase' = IF done' = Len(plan.changes) THEN "applied" ELSE "applying"
    /\ UNCHANGED <<old, new, plan>>

\* The steps of the rollback plan that undo what has been applied so far.
RollbackStep ==
    /\ phase \in {"applying", "applied", "rolling back"} /\ done > 0
    /\ schema' = Become(schema, RollbackPlan(plan)[Len(plan.changes) - done + 1], old)
    /\ done' = done - 1
    /\ phase' = IF done' = 0 THEN "rolled back" ELSE "rolling back"
    /\ UNCHANGED <<old, new, plan>>

\* with_server_estimate and mark_estimate_unavailable
Estimate ==
    /\ phase = "diffed"
    /\ \/ plan' = [plan EXCEPT !.status = "server_estimated", !.estimate = "estimate"]
       \/ plan' = [plan EXCEPT !.status = "unavailable", !.estimate = None]
    /\ UNCHANGED <<old, new, schema, done, phase>>

-----------------------------------------------------------------------------
Init ==
    /\ old \in Schemas /\ new \in Schemas
    /\ plan = DiffSchemas(old, new)
    /\ schema = old /\ done = 0 /\ phase = "diffed"

Next == ApplyStep \/ RollbackStep \/ Estimate

Spec == Init /\ [][Next]_vars

-----------------------------------------------------------------------------
\* The schemas agree in all the diff looks at.
SameField(f, g) == \A a \in AlterAttrs \cup IndexAttrs : f[a] = g[a]
Agree(s, t) ==
    /\ DOMAIN s = DOMAIN t
    /\ \A m \in DOMAIN s :
         /\ DOMAIN s[m].fields = DOMAIN t[m].fields /\ DOMAIN s[m].rels = DOMAIN t[m].rels
         /\ \A f \in DOMAIN s[m].fields : SameField(s[m].fields[f], t[m].fields[f])
         /\ \A r \in DOMAIN s[m].rels : SameRelationship(s[m].rels[r], t[m].rels[r])

TypeOK ==
    /\ done \in 0..Len(plan.changes)
    /\ plan.estimate # None => plan.status = "server_estimated"

\* The changes applied one after the other lead from the old schema to the new
\* one, and from wherever the reader stops the rest of the rollback plan leads
\* back; a plan is empty just when there is nothing to do.
PlanLeadsThere ==
    /\ phase = "applied" => Agree(schema, new)
    /\ phase = "rolled back" => schema = old
    /\ IsEmpty(plan) <=> Agree(old, new)
    /\ RequiresLiveClusterEstimate(plan) => plan.estimate = None /\ ~Agree(old, new)

\* Rows written under the old schema survive a plan that is not destructive: no
\* field, relationship or constraint is lost, no null or missing value refused.
SafePlanKeepsData ==
    ~IsDestructive(plan) =>
        \A m \in DOMAIN old :
            /\ m \in DOMAIN new
            /\ \A f \in DOMAIN old[m].fields :
                 /\ f \in DOMAIN new[m].fields
                 /\ new[m].fields[f].type = old[m].fields[f].type
                 /\ new[m].fields[f].vector_dim = old[m].fields[f].vector_dim
                 /\ old[m].fields[f].nullable => new[m].fields[f].nullable
                 /\ \A a \in IndexAttrs : old[m].fields[f][a] => new[m].fields[f][a]
            /\ \A f \in DOMAIN new[m].fields \ DOMAIN old[m].fields :
                 new[m].fields[f].nullable \/ new[m].fields[f].has_default
            /\ \A r \in DOMAIN old[m].rels : r \in DOMAIN new[m].rels /\ SameRelationship(old[m].rels[r], new[m].rels[r])

MigrationsAreSafe == PlanLeadsThere /\ SafePlanKeepsData
=============================================================================

------------------------------- MODULE Models -------------------------------
(* Models and their instances (src/src/aura/models.py, fields.py, vectors.py, *)
(* hydration/hydrator.py): a class is declared, an instance constructed from  *)
(* keyword arguments, serialized, stored as a row by a backend, read back     *)
(* with a projection or included relationships, and its attributes are read.  *)
(*                                                                            *)
(* A value is [t |-> its Python type, x |-> what it holds].  The text of a    *)
(* UUID, date or number is the value it was made of, tagged as a string.      *)
EXTENDS Naturals, Sequences, FiniteSets

CONSTANTS None,         \* Python's None, and an attribute that is not there
          Contents,     \* what a number, a text or any other scalar holds
          Lists         \* what a list or a vector holds

VARIABLES
    fields,     \* the class: name -> FieldInfo, once it is declared
    inst,       \* the instance constructed: its values and loaded relationships
    row,        \* the row stored for it
    back,       \* the instance read back
    asked,      \* what was asked for when it was read back
    phase

vars == <<fields, inst, row, back, asked, phase>>

V(t, x) == [t |-> t, x |-> x]
Null == V("none", 0)

Entry(key, x) == [k \in {key} |-> x]        \* a dictionary of one entry

Names == {"id", "a", "boss", "reports"}
Aliases == {"key", "v", "head"}
NoneIsNoValue ==
    None \notin Names \cup Aliases \cup {"nobody"} /\ \A c \in Contents : None # V("int", c)
ListsAreLists == Lists \in SUBSET Seq(Contents)

Error(e) == [error |-> e]
Failed(x) == "error" \in DOMAIN x

-----------------------------------------------------------------------------
(* Conversions.                                                               *)

Textual == {"UUID", "datetime", "date", "time", "Decimal"}

\* _to_jsonable
ToJsonable(v) ==
    CASE v.t \in {"none", "str", "int", "bool", "json"} -> v
      [] v.t \in Textual -> V("str", v)
      [] v.t = "bytes" -> V("dict", Entry("__bytes__", v))
      [] v.t = "enum" -> V("int", v.x)
      [] v.t = "Vector" -> V("list", v.x)
      [] v.t = "model" -> V("dict", Entry("id", v.x))
      [] v.t \in {"list", "set"} -> V("list", v.x)

\* coerce_scalar, on what a row holds; a "time" is left as text.
CoerceScalar(target, j) ==
    CASE j = Null \/ target = "any" -> j
      [] target = "bool" /\ j # Null -> V("bool", IF j.x = 0 THEN 0 ELSE 1)
      [] target \in Textual \ {"time", "Decimal"} /\ j.t = "str" -> j.x
      [] target = "Decimal" /\ j.t \in {"str", "int"} -> IF j.t = "str" THEN j.x ELSE V("Decimal", j.x)
      [] target = "bytes" /\ j.t = "dict" -> j.x["__bytes__"]
      [] target = "enum" -> V("enum", j.x)
      [] target = "str" /\ j.t = "int" -> V("str", j)
      [] OTHER -> j

-----------------------------------------------------------------------------
(* Classes: FieldInfo, AuraModelMeta.                                         *)

Info(kind, type) ==
    [kind |-> kind, type |-> type, nullable |-> FALSE, is_optional |-> FALSE, default |-> None, alias |-> None,
     primary_key |-> FALSE, dim |-> None]
IsRelationship(info) == info.kind \in {"link", "collection"}
IsRequired(info) == info.default = None /\ ~info.nullable /\ ~info.is_optional /\ ~IsRelationship(info)
StorageName(f) == IF fields[f].alias = None THEN f ELSE fields[f].alias

\* __post_init__, which sees what Field() was told and no Optional annotation, then
\* what the metaclass refuses.
DeclarationError(fs) ==
    \/ \E f \in DOMAIN fs : fs[f].primary_key /\ fs[f].nullable
    \/ Cardinality({f \in DOMAIN fs : fs[f].primary_key}) > 1

PrimaryKey == CHOOSE f \in DOMAIN fields : fields[f].primary_key

Scalars == {"int", "bool", "str", "enum", "bytes", "any"} \cup Textual
FieldChoices ==
    {Info("scalar", t) : t \in Scalars} \cup {Info("list", t) : t \in {"int", "UUID", "time"}} \cup {Info("dict", "any")}
    \cup {[Info("vector", "any") EXCEPT !.dim = d] : d \in {None, 2}}
Variants(info) ==
    {info, [info EXCEPT !.is_optional = TRUE], [info EXCEPT !.alias = "v"], [info EXCEPT !.primary_key = TRUE]}
    \cup IF info.type = "int" /\ info.kind = "scalar" THEN {[info EXCEPT !.default = V("int", c)] : c \in Contents} ELSE {}
Id == [Info("scalar", "int") EXCEPT !.primary_key = TRUE]
KeyChoices ==
    {Id, [Id EXCEPT !.alias = "key"], [Id EXCEPT !.nullable = TRUE], [Id EXCEPT !.is_optional = TRUE]}
LinkChoices == {Info("link", "model"), [Info("link", "model") EXCEPT !.alias = "head"]}

Class(id, a, boss) ==
    [f \in Names |-> CASE f = "id" -> id [] f = "a" -> a [] f = "boss" -> boss
                       [] f = "reports" -> Info("collection", "model")]
Classes ==
    {Class(id, a, boss) :
        id \in KeyChoices, a \in UNION {Variants(c) : c \in FieldChoices}, boss \in LinkChoices}

-----------------------------------------------------------------------------
(* Construction: AuraModel.__init__.                                          *)

\* _coerce_input and _coerce_model; a vector is checked against its dimension.
CoerceInput(info, v) ==
    CASE v = Null -> v
      [] v # Null /\ info.kind = "vector" ->
            IF v.t \notin {"list", "Vector"} \/ (info.dim # None /\ Len(v.x) # info.dim) THEN Error("validation")
            ELSE V("Vector", v.x)
      [] v # Null /\ info.kind = "link" ->
            CASE v.t = "model" -> v [] v.t = "dict" -> V("model", v.x["id"]) [] OTHER -> Error("validation")
      [] v # Null /\ info.kind = "list" -> V("list", v.x)
      [] OTHER -> v

\* A keyword names a field by its name or by its alias.
FieldOf(key) == IF key \in DOMAIN fields THEN key
                ELSE LET named == {f \in DOMAIN fields : fields[f].alias = key}
                     IN  IF named = {} THEN None ELSE CHOOSE f \in named : TRUE

Construct(data) ==
    LET given == [f \in {FieldOf(k) : k \in DOMAIN data} \ {None} |-> data[CHOOSE k \in DOMAIN data : FieldOf(k) = f]]
        values == [f \in {g \in DOMAIN fields : g \in DOMAIN given \/ ~IsRelationship(fields[g])} |->
                      IF f \in DOMAIN given THEN CoerceInput(fields[f], given[f])
                      ELSE IF fields[f].default # None THEN fields[f].default ELSE Null]
        missing == {f \in DOMAIN fields : IsRequired(fields[f]) /\ f \notin DOMAIN given}
    IN  IF missing # {} \/ (\E k \in DOMAIN data : FieldOf(k) = None) \/ \E f \in DOMAIN values : Failed(values[f])
        THEN Error("validation")
        ELSE [values |-> values, loaded |-> {f \in DOMAIN given : IsRelationship(fields[f])}]

Each(type, s) == [i \in 1..Len(s) |-> V(type, s[i])]
ValuesFor(info) ==
    CASE info.kind = "scalar" /\ info.type = "any" -> {V("json", c) : c \in Contents} \cup {Null}
      [] info.kind = "scalar" /\ info.type \notin {"any", "bool"} ->
            {V(info.type, c) : c \in Contents} \cup {Null}
      [] info.kind = "scalar" /\ info.type = "bool" -> {V("bool", 0), V("bool", 1)}
      [] info.kind = "list" -> {V(t, Each(info.type, s)) : t \in {"list", "set"}, s \in Lists}
      [] info.kind = "dict" -> {V("json", c) : c \in Contents}
      [] info.kind = "vector" -> {V(t, s) : t \in {"list", "Vector"}, s \in Lists} \cup {V("int", 1)}
      [] info.kind = "link" -> {V("model", c) : c \in Contents} \cup {V("dict", Entry("id", c)) : c \in Contents}
                               \cup {Null, V("int", 1)}

New ==
    /\ phase = "declared"
    /\ \E id \in ValuesFor(fields["id"]), a \in ValuesFor(fields["a"]), boss \in ValuesFor(fields["boss"]) :
       \E keys \in {{"id"}, {"a"}, {"id", StorageName("a")}, {"id", "a", StorageName("boss")},
                    {"id", "a", "nobody"}} :
       \E data \in {[k \in keys |-> CASE k = "id" -> id [] k \in {"a", StorageName("a")} -> a
                                      [] k \in {"boss", StorageName("boss")} -> boss [] OTHER -> Null]} :
         inst' = Construct(data)
    /\ phase' = IF Failed(inst') THEN "refused" ELSE "constructed"
    /\ UNCHANGED <<fields, row, back, asked>>

-----------------------------------------------------------------------------
(* Storage: to_dict of the instance, _normalize_row of the backend.           *)

ListJson(v) == V("list", [i \in 1..Len(v.x) |-> ToJsonable(v.x[i])])
ToDict ==
    LET names == {f \in DOMAIN inst.values : IsRelationship(fields[f]) => f \in inst.loaded}
    IN  [s \in {StorageName(f) : f \in names} |->
            LET f == CHOOSE g \in names : StorageName(g) = s
            IN  IF fields[f].kind = "list" /\ inst.values[f] # Null THEN ListJson(inst.values[f])
                ELSE ToJsonable(inst.values[f])]

\* The backend knows relationships by their names, not by their aliases: it
\* stores the key of the object a link names, and an object under an alias.
NormalizeRow(dict) ==
    [s \in DOMAIN dict |-> IF s \in DOMAIN fields /\ fields[s].kind = "link" /\ dict[s].t = "dict"
                           THEN V("int", dict[s].x["id"]) ELSE dict[s]]

Insert ==
    /\ phase = "constructed"
    /\ LET stored == NormalizeRow(ToDict)
       IN  IF PrimaryKey \in DOMAIN stored /\ stored[PrimaryKey] # Null
           THEN row' = stored /\ phase' = "stored"
           ELSE row' = row /\ phase' = "refused"
    /\ UNCHANGED <<fields, inst, back, asked>>

-----------------------------------------------------------------------------
(* Hydration.                                                                 *)

\* The row of a query: its projection, and the object of an included link.
Result(projection, include) ==
    [s \in DOMAIN row \cap (IF projection = {} THEN DOMAIN row ELSE projection \cup {PrimaryKey}) |->
        IF s = "boss" /\ include /\ row[s].t = "int" THEN V("dict", Entry("id", row[s].x)) ELSE row[s]]

\* _is_loaded_shape: a key is no object, a null is.
LoadedShape(j) == j = Null \/ j.t = "dict"

HydrateValue(info, j) ==
    CASE j = Null -> j
      [] j # Null /\ info.kind = "vector" -> V("Vector", j.x)
      [] j # Null /\ info.kind = "link" -> V("model", j.x["id"])
      [] j # Null /\ info.kind = "list" -> V("list", [i \in 1..Len(j.x) |-> CoerceScalar(info.type, j.x[i])])
      [] j # Null /\ info.kind = "dict" -> j
      [] j # Null /\ info.kind = "scalar" -> CoerceScalar(info.type, j)

HydrateRowFilling(result, partial) ==
    LET there == {f \in DOMAIN fields : StorageName(f) \in DOMAIN result
                     /\ (IsRelationship(fields[f]) => LoadedShape(result[StorageName(f)]))}
        filled == {f \in DOMAIN fields \ there : ~IsRelationship(fields[f])}
    IN  [values |-> [f \in there \cup filled |->
             IF f \in there THEN HydrateValue(fields[f], result[StorageName(f)])
             ELSE IF fields[f].default # None THEN fields[f].default ELSE Null],
         loaded |-> {f \in there : IsRelationship(fields[f])}]

\* hydrate_row: absent fields get their default only if the row is complete.
HydrateRow(result, partial) ==
    LET there == {f \in DOMAIN fields : StorageName(f) \in DOMAIN result
                     /\ (IsRelationship(fields[f]) => LoadedShape(result[StorageName(f)]))}
        filled == {f \in DOMAIN fields \ there : ~partial /\ ~IsRelationship(fields[f])}
    IN  IF \E f \in filled : IsRequired(fields[f]) THEN Error("validation")
        ELSE [values |-> [f \in there \cup filled |->
                 IF f \in there THEN HydrateValue(fields[f], result[StorageName(f)])
                 ELSE IF fields[f].default # None THEN fields[f].default ELSE Null],
              loaded |-> {f \in there : IsRelationship(fields[f])}]

Select ==
    /\ phase = "stored"
    /\ \E projection \in {{}, {"a"}, {"boss"}, {"head", "v"}}, include \in BOOLEAN :
         /\ asked' = [projection |-> projection, include |-> include]
         /\ back' = HydrateRow(Result(projection, include), projection # {})
    /\ phase' = "loaded"
    /\ UNCHANGED <<fields, inst, row>>

\* FieldDescriptor.__get__
Attribute(i, f) ==
    CASE IsRelationship(fields[f]) /\ f \notin i.loaded -> Error("not loaded")
      [] ~IsRelationship(fields[f]) /\ f \notin DOMAIN i.values -> Error("not selected")
      [] OTHER -> i.values[f]

Init ==
    /\ fields \in Classes
    /\ inst = None /\ row = None /\ back = None /\ asked = None
    /\ phase = IF DeclarationError(fields) THEN "refused" ELSE "declared"

Next == New \/ Insert \/ Select

Spec == Init /\ [][Next]_vars

-----------------------------------------------------------------------------
TypeOK == phase \in {"declared", "refused", "constructed", "stored", "loaded"}

\* A field read back in full has the value it was constructed with, whatever its
\* type: all but a time of day, which comes back as text.
FieldsReadBack ==
    phase = "loaded" /\ asked.projection = {} =>
        /\ ~Failed(back)
        /\ \A f \in DOMAIN fields :
             ~IsRelationship(fields[f]) /\ fields[f].type # "time" => Attribute(back, f) = Attribute(inst, f)

\* Nothing is made up: every attribute of an instance read back gives the value
\* constructed or refuses, and a field left out by the projection refuses.
NothingMadeUp ==
    phase = "loaded" =>
        /\ ~Failed(back)
        /\ \A f \in DOMAIN fields : fields[f].type # "time" =>
             Failed(Attribute(back, f)) \/ Attribute(back, f) = Attribute(inst, f)
        /\ asked.projection # {} => \A f \in DOMAIN fields :
             {f, StorageName(f)} \cap (asked.projection \cup {PrimaryKey}) = {} => Failed(Attribute(back, f))

\* A link is read back only if it was included or is null; under an alias the
\* whole object was stored, and it is read back without being asked for.
LinksLoadOnRequest ==
    phase = "loaded" /\ ~Failed(Attribute(back, "boss")) =>
        asked.include \/ Attribute(back, "boss") = Null \/ fields["boss"].alias # None

\* An instance has a value for every required field of its class, or None if
\* that was given.
InstancesComplete ==
    phase \in {"constructed", "stored", "loaded"} =>
        \A f \in DOMAIN fields : ~IsRelationship(fields[f]) => ~Failed(Attribute(inst, f))

ModelsRoundTrip == FieldsReadBack /\ NothingMadeUp /\ LinksLoadOnRequest /\ InstancesComplete
=============================================================================

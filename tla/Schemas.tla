---- MODULE Schemas ----
(***************************************************************************)
(* The schema repository and what is asked of it.  The schemas of a        *)
(* resource type are kept in a directory; `preload-schema` gathers the     *)
(* directory into a cache file, and the server loads either of the two.    *)
(* A loaded repository decides which reports are acceptable, and the       *)
(* consumer computes from it which tuples an update creates and deletes.   *)
(*                                                                         *)
(* A schema is lax or strict: it accepts an empty representation or not.   *)
(***************************************************************************)

CONSTANTS ResourceTypes,
          ReporterTypes,
          Values             \* non-empty strings a representation may hold

SchemaTexts == {"lax", "strict"}
Absent == "absent"

----
(* Loading *)

\* A directory's name is normal when normalising it changes nothing; the file
\* system tells upper from lower case.
Trees ==
  [ResourceTypes -> [dir : {Absent, "normal", "other"}, common : SchemaTexts \cup {Absent},
                     reporters : [ReporterTypes -> SchemaTexts \cup {Absent}]]]

LoadError == "error"

Present(f) == {x \in DOMAIN f : f[x] # Absent}
ResourceEntry(common, reporters) ==
  [schema |-> common, reporters |-> [r \in Present(reporters) |-> reporters[r]]]

\* A mistaken variant: a type without a reporter's schema is passed over before
\* its common schema is kept.
FromDir_ReportersOnly(tree) ==
  LET found == {t \in ResourceTypes : tree[t].dir = "normal" /\ Present(tree[t].reporters) # {}}
  IN  IF \E t \in found : tree[t].common = Absent
        THEN LoadError
        ELSE [t \in found |-> ResourceEntry(tree[t].common, tree[t].reporters)]

\* NewInMemorySchemaRepositoryFromDir forms every path from the normalised name;
\* CreateReporterSchema fails for a type without a common schema.
FromDir(tree) ==
  LET found == {t \in ResourceTypes : tree[t].dir = "normal"}
      complete == {t \in found : tree[t].common # Absent}
  IN  IF \E t \in found \ complete : Present(tree[t].reporters) # {}
        THEN LoadError
        ELSE [t \in complete |-> ResourceEntry(tree[t].common, tree[t].reporters)]

\* preloadSchemas forms the paths from the name as it is, the keys from the
\* normalised one.
Preload(tree) ==
  LET found == {t \in ResourceTypes : tree[t].dir # Absent}
      keys == {k \in found \X ReporterTypes : tree[k[1]].reporters[k[2]] # Absent}
  IN  [common |-> [t \in {u \in found : tree[u].common # Absent} |-> tree[t].common],
       reporter |-> [k \in keys |-> tree[k[1]].reporters[k[2]]]]

\* NewFromJsonBytes: a reporter's key of an unknown type is passed over.
FromJson(cache) ==
  [t \in DOMAIN cache.common |->
     [schema |-> cache.common[t],
      reporters |-> [r \in {q \in ReporterTypes : <<t, q>> \in DOMAIN cache.reporter} |->
                       cache.reporter[<<t, r>>]]]]

----
(* Validating a report *)

\* A representation is not sent, empty, or data that does or does not validate.
Representations == {"nil", "empty", "good", "bad"}

Validates(schema, representation) ==
  \/ representation = "good"
  \/ representation = "empty" /\ schema = "lax"

\* ValidateReportAgainstSchema.
Accepts(repository, type, reporter, reporterRep, commonRep) ==
  /\ type \in DOMAIN repository
  /\ reporter \in DOMAIN repository[type].reporters
  /\ reporterRep # "nil" => Validates(repository[type].reporters[reporter], reporterRep)
  /\ commonRep # "nil" => Validates(repository[type].schema, commonRep)

----
(* Calculating tuples *)

NotAString == "not a string"
Items == Values \cup {"", NotAString}

\* A field holds a list or one item; an absent field, and any field of a nil
\* representation, is as an empty list.
Contents ==
  [list : {TRUE}, items : SUBSET Items] \cup [list : {FALSE}, items : {{i} : i \in Items}]

RelationDef(field, relation, multiValued) ==
  [field |-> field, relation |-> relation, multiValued |-> multiValued]

serviceRelations ==
  {RelationDef("allowed_workspaces", "allowed_workspaces", TRUE),
   RelationDef("billing_account", "billing_account", TRUE),
   RelationDef("parent", "parent", FALSE)}

billingAccountRelations == {RelationDef("workspaces", "workspace", TRUE)}

StringField(rep, field) == IF rep[field].list THEN {} ELSE rep[field].items \cap Values

StringSliceField(rep, field) == IF rep[field].list THEN rep[field].items \ {NotAString} ELSE {}

RelationValues(def, rep) ==
  IF def.multiValued THEN StringSliceField(rep, def.field) ELSE StringField(rep, def.field)

\* A mistaken variant: every previous value is deleted, those that remain as well.
DiffRelationValues_DeletesAll(relation, current, previous) ==
  [create |-> {relation} \X (current \ previous), delete |-> {relation} \X previous]

DiffRelationValues(relation, current, previous) ==
  [create |-> {relation} \X (current \ previous), delete |-> {relation} \X (previous \ current)]

CalculateTuplesFromRelationDefs(defs, current, previous) ==
  LET diffs == {DiffRelationValues(d.relation, RelationValues(d, current),
                                   RelationValues(d, previous)) : d \in defs}
  IN  [create |-> UNION {d.create : d \in diffs}, delete |-> UNION {d.delete : d \in diffs}]

\* UpdateTuple of the consumer creates first and deletes afterwards.
UpdateTuple(tuples, diff) == (tuples \cup diff.create) \ diff.delete

----
(* Properties *)

\* A cache file in sync with its directory gives the server the same repository
\* as the directory itself, so that the same reports are accepted: for every
\* directory whose names are normal and whose types have a common schema.
LoadersAgree ==
  \A tree \in Trees :
    (\A t \in ResourceTypes :
       /\ tree[t].dir # "other"
       /\ tree[t].common = Absent => Present(tree[t].reporters) = {})
    => FromDir(tree) = FromJson(Preload(tree))

\* The tuples a representation stands for.
TuplesOf(defs, rep) == UNION {{d.relation} \X RelationValues(d, rep) : d \in defs}

DiffReaches(defs) ==
  \A current, previous \in [{d.field : d \in defs} -> Contents] :
    UpdateTuple(TuplesOf(defs, previous),
                CalculateTuplesFromRelationDefs(defs, current, previous))
      = TuplesOf(defs, current)

\* The creates and deletes of an update, applied in the consumer's order to the
\* tuples of the version before, leave exactly the tuples of the new version,
\* whatever either version holds in its fields.
UpdatesReachCurrent == DiffReaches(serviceRelations) /\ DiffReaches(billingAccountRelations)
====

---- MODULE RequestsProofs ----
(***************************************************************************)
(* Proofs about Requests, for any clients, any configurations the server   *)
(* accepts and any bound on the versions: which requests are answered,     *)
(* what read-only mode leaves alone, that SimpleRelationsRepository keeps  *)
(* the promise of model.RelationsRepository (RelationsStore), and that the *)
(* paths of a name (Names) meet for any strings; and about ReadAfterWrite, *)
(* the wait of a request for its own event, for any number of requests and *)
(* of events of other origins.                                             *)
(***************************************************************************)
EXTENDS Requests, ReadAfterWrite, WellFoundedInduction, TLAPS

\* Most leaves are first-order: Zenon is tried before the SMT solver.
USE ZenonT(5), SMTT(30)

LEMMA MinInSet ==
  ASSUME NEW S, S \subseteq Nat, S # {}
  PROVE  Min(S) \in S /\ \A v \in S : Min(S) <= v
<1> DEFINE R == OpToRel(<, Nat)
<1>1. IsWellFoundedOn(R, Nat)
  BY NatLessThanWellFounded, Zenon
<1>2. \A x, y \in Nat : x < y => <<x, y>> \in R
  BY DEF OpToRel
<1> HIDE DEF R
<1>3. PICK x \in S : \A y \in S : ~ (<<y, x>> \in R)
  BY <1>1, WFMin, Zenon
<1>4. \A y \in S : x <= y
  <2> TAKE y \in S
  <2>1. x \in Nat /\ y \in Nat
    OBVIOUS
  <2>2. ~(y < x)
    BY <1>2, <1>3, <2>1, Zenon
  <2> QED
    BY <2>1, <2>2
<1> QED
  BY <1>4, Zenon DEF Min

----
(* Names *)

\* What the constructors make of a string that is not blank.
IdOf(s) == TrimSpace(s)
NameOf(s) == ToLower(TrimSpace(s))
TypeOf(s) == ToLower(ReplaceSlash(TrimSpace(s)))

\* A string by its parts. No keeps the truth value out of the terms of a proof.
Spelled(w, u, l, b) == [word |-> w, upper |-> u, slash |-> l, blank |-> b]
No == FALSE

\* The conversions of a string given by its parts.
LEMMA OfParts ==
  /\ \A w, u, l, b : TrimSpace(Spelled(w, u, l, b)) = Spelled(w, u, l, No)
  /\ \A w, u, l, b : ToLower(Spelled(w, u, l, b)) = Spelled(w, No, l, b)
  /\ \A w, u, l, b : ReplaceSlash(Spelled(w, u, l, b)) = Spelled(w, u, No, b)
  /\ \A w, u, l, b : Spelled(w, u, l, b).word = w /\ Spelled(w, u, l, b).slash = l
<1>1. ASSUME NEW w, NEW u, NEW l, NEW b
      PROVE  TrimSpace(Spelled(w, u, l, b)) = Spelled(w, u, l, No)
  <2>1. [Spelled(w, u, l, b) EXCEPT !.blank = No] = Spelled(w, u, l, No)
    BY SMT DEF Spelled
  <2> QED
    BY <2>1, Zenon DEF TrimSpace, No
<1>2. ASSUME NEW w, NEW u, NEW l, NEW b
      PROVE  ToLower(Spelled(w, u, l, b)) = Spelled(w, No, l, b)
  <2>1. [Spelled(w, u, l, b) EXCEPT !.upper = No] = Spelled(w, No, l, b)
    BY SMT DEF Spelled
  <2> QED
    BY <2>1, Zenon DEF ToLower, No
<1>3. ASSUME NEW w, NEW u, NEW l, NEW b
      PROVE  ReplaceSlash(Spelled(w, u, l, b)) = Spelled(w, u, No, b)
  <2>1. [Spelled(w, u, l, b) EXCEPT !.slash = No] = Spelled(w, u, No, b)
    BY SMT DEF Spelled
  <2> QED
    BY <2>1, Zenon DEF ReplaceSlash, No
<1>4. ASSUME NEW w, NEW u, NEW l, NEW b
      PROVE  Spelled(w, u, l, b).word = w /\ Spelled(w, u, l, b).slash = l
  BY DEF Spelled
<1> QED
  BY <1>1, <1>2, <1>3, <1>4

\* The conversions keep the word, drop what they are for, and are idempotent.
LEMMA Conversions ==
  ASSUME NEW s, IsString(s)
  PROVE  /\ IdOf(s).word = s.word /\ NameOf(s).word = s.word /\ TypeOf(s).word = s.word
         /\ NameOf(s).slash = s.slash /\ TypeOf(s).slash = FALSE
         /\ IdOf(IdOf(s)) = IdOf(s) /\ NameOf(NameOf(s)) = NameOf(s) /\ TypeOf(TypeOf(s)) = TypeOf(s)
<1>1. PICK w, u, l, b : s = Spelled(w, u, l, b)
  BY DEF IsString, Spelled
<1>2. ASSUME NEW v, NEW c, NEW d, NEW e
      PROVE  /\ IdOf(Spelled(v, c, d, e)) = Spelled(v, c, d, No)
             /\ NameOf(Spelled(v, c, d, e)) = Spelled(v, No, d, No)
             /\ TypeOf(Spelled(v, c, d, e)) = Spelled(v, No, No, No)
  <2>1. /\ TrimSpace(Spelled(v, c, d, e)) = Spelled(v, c, d, No)
        /\ ToLower(Spelled(v, c, d, No)) = Spelled(v, No, d, No)
        /\ ReplaceSlash(Spelled(v, No, d, No)) = Spelled(v, No, No, No)
        /\ ReplaceSlash(Spelled(v, c, d, e)) = Spelled(v, c, No, e)
        /\ ReplaceSlash(Spelled(v, c, d, No)) = Spelled(v, c, No, No)
        /\ ToLower(Spelled(v, c, No, No)) = Spelled(v, No, No, No)
        /\ TrimSpace(Spelled(v, c, No, e)) = Spelled(v, c, No, No)
    BY OfParts, SMTT(30)
  <2> QED
    BY <2>1 DEF IdOf, NameOf, TypeOf
<1>3. IdOf(s) = Spelled(w, u, l, No)
  BY <1>1, <1>2
<1>4. NameOf(s) = Spelled(w, No, l, No)
  BY <1>1, <1>2, SMTT(30)
<1>5. TypeOf(s) = Spelled(w, No, No, No)
  BY <1>1, <1>2, SMTT(30)
<1>6. IdOf(IdOf(s)) = IdOf(s)
  BY <1>3, <1>2, SMTT(30)
<1>7. NameOf(NameOf(s)) = NameOf(s)
  BY <1>4, <1>2, SMTT(30)
<1>8. TypeOf(TypeOf(s)) = TypeOf(s)
  BY <1>5, <1>2, SMTT(30)
<1>9. /\ IdOf(s).word = w /\ NameOf(s).word = w /\ TypeOf(s).word = w /\ s.word = w
      /\ NameOf(s).slash = l /\ TypeOf(s).slash = No /\ s.slash = l
  BY <1>1, <1>3, <1>4, <1>5, OfParts, SMTT(30)
<1> QED
  BY <1>6, <1>7, <1>8, <1>9 DEF No

\* The constructors refuse the strings without a word.
LEMMA Constructors ==
  ASSUME NEW s, IsString(s)
  PROVE  /\ NewLocalResourceId(s) = IF s.word = "" THEN {} ELSE {IdOf(s)}
         /\ NewResourceType(s) = IF s.word = "" THEN {} ELSE {TypeOf(s)}
         /\ NewReporterType(s) = IF s.word = "" THEN {} ELSE {NameOf(s)}
         /\ NewReporterInstanceId(s) = IF s.word = "" THEN {} ELSE {NameOf(s)}
<1>1. TrimSpace(s).word = s.word
  BY Conversions DEF IdOf
<1> QED
  BY <1>1 DEF NewLocalResourceId, NewResourceType, NewReporterType, NewReporterInstanceId, IdOf, NameOf, TypeOf

\* A constructor gives back what it made.
LEMMA Reconstructed ==
  ASSUME NEW s, IsString(s)
  PROVE  /\ NewLocalResourceId(IdOf(s)) \subseteq {IdOf(s)}
         /\ NewResourceType(TypeOf(s)) \subseteq {TypeOf(s)}
         /\ NewReporterType(NameOf(s)) \subseteq {NameOf(s)}
BY Conversions DEF NewLocalResourceId, NewResourceType, NewReporterType, IdOf, NameOf, TypeOf

IsName(n) == IsString(n.id) /\ IsString(n.type) /\ IsString(n.reporter) /\ IsString(n.instance)

\* A report's key, a check's reference and a delete's key.
LEMMA ReportedKey ==
  ASSUME NEW n, IsName(n), NEW f, NEW g, NEW key \in ToReportResourceCommand(n, f, g)
  PROVE  key = Key(IdOf(n.id), TypeOf(n.type), NameOf(n.reporter), NameOf(n.instance))
<1>1. PICK id \in NewLocalResourceId(n.id), type \in NewResourceType(n.type),
           reporter \in NewReporterType(n.reporter), instance \in NewReporterInstanceId(n.instance) :
        key = Key(id, type, reporter, instance)
  BY SMTT(30) DEF ToReportResourceCommand
<1> QED
  BY <1>1, Constructors DEF IsName

\* A key that is asked for, with or without an instance.
LEMMA AskedKey ==
  ASSUME NEW m, IsName(m), NEW asked \in ReporterKeyFromResourceReference(m)
  PROVE  /\ m.id.word # ""
         /\ asked = Key(IdOf(m.id), TypeOf(m.type), NameOf(m.reporter), asked.instance)
         /\ m.instance = EmptyString => asked.instance = EmptyString
         /\ m.instance # EmptyString => /\ asked.instance = NameOf(m.instance)
                                        /\ asked.instance # EmptyString
<1>1. PICK id \in NewLocalResourceId(m.id), type \in NewResourceType(m.type),
           reporter \in NewReporterType(m.reporter), instance \in OptionalInstance(m.instance) :
        asked = Key(id, type, reporter, instance)
  BY SMTT(30) DEF ReporterKeyFromResourceReference
<1>2. m.id.word # "" /\ id = IdOf(m.id) /\ type = TypeOf(m.type) /\ reporter = NameOf(m.reporter)
  BY <1>1, Constructors DEF IsName
<1>3. asked.instance = instance
  BY <1>1 DEF Key
<1>4. m.instance = EmptyString => instance = EmptyString
  BY <1>1 DEF OptionalInstance
<1>5. m.instance # EmptyString => instance = NameOf(m.instance) /\ m.instance.word # ""
  BY <1>1, Constructors DEF OptionalInstance, IsName
<1>6. m.instance # EmptyString => instance.word # ""
  BY <1>5, Conversions DEF IsName
<1>7. EmptyString.word = ""
  BY DEF EmptyString
<1> QED
  BY <1>1, <1>2, <1>3, <1>4, <1>5, <1>6, <1>7

\* The reference of a check has the same parts.
LEMMA AskedReference ==
  ASSUME NEW m, IsName(m), NEW ref \in ResourceReferenceFromProto(m)
  PROVE  ref = Reference(IdOf(m.id), TypeOf(m.type), NameOf(m.reporter))
<1>1. PICK asked \in ReporterKeyFromResourceReference(m) : ref = Reference(asked.id, asked.type, asked.reporter)
  BY DEF ResourceReferenceFromProto
<1>2. asked = Key(IdOf(m.id), TypeOf(m.type), NameOf(m.reporter), asked.instance)
  BY AskedKey
<1> QED
  BY <1>1, <1>2 DEF Key

\* Two names are of the same resource exactly if their converted parts are equal.
LEMMA SameParts ==
  ASSUME NEW n, NEW m
  PROVE  SameResource(n, m) <=>
           IdOf(n.id) = IdOf(m.id) /\ TypeOf(n.type) = TypeOf(m.type) /\ NameOf(n.reporter) = NameOf(m.reporter)
BY DEF SameResource, SameButBlanks, SameType, SameButCase, IdOf, TypeOf, NameOf

\* The two parts of a type, joined.
LEMMA JoinedPair ==
  ASSUME NEW a, NEW b
  PROVE  <<a>> \o <<b>> = <<a, b>>
<1> DEFINE s == <<a>> \o <<b>>
           t == <<a, b>>
<1>1. <<a>> \in Seq({a, b}) /\ <<b>> \in Seq({a, b})
  OBVIOUS
<1>2. s \in Seq({a, b}) /\ Len(s) = 2
  BY <1>1
<1>3. s[1] = a /\ s[2] = b
  BY <1>1
<1>4. t \in Seq({a, b}) /\ Len(t) = 2 /\ t[1] = a /\ t[2] = b
  OBVIOUS
<1> HIDE DEF s, t
<1>5. s = t
  BY <1>2, <1>3, <1>4
<1> QED
  BY <1>5 DEF s, t

\* NamesAgree, for any names.
LEMMA NamesMeet ==
  ASSUME NEW N, NEW H, \A n \in N : IsName(n)
  PROVE  NamesAgree(N, H)
<1> SUFFICES ASSUME NEW n \in N, NEW f \in H, NEW g \in H, NEW key \in ToReportResourceCommand(n, f, g),
                    NEW m \in N
             PROVE  /\ \A ref \in ResourceReferenceFromProto(m) :
                         ObjectInStore(ref) = Replicated(key) <=> SameResource(n, m)
                    /\ \A asked \in ReporterKeyFromResourceReference(m) :
                         FindsRow(asked, key) <=>
                           SameResource(n, m) /\ (m.instance = EmptyString \/ SameButCase(n.instance, m.instance))
                    /\ \A list \in ToLookupObjectsCommand(m, m) : <<list[2], list[1]>> = Replicated(key)[1] =>
                         \A again \in ResourceReferenceFromProto(
                                         ToLookupObjectsResponse(FromLookup(Replicated(key), list[1], list[2]))) :
                           ObjectInStore(again) = Replicated(key)
                    /\ FromStore(Replicated(key)) = IF n.reporter.slash THEN {} ELSE {TupleObject(key)}
                    /\ \A ref \in RelationshipToRelationsTuple(m) :
                         ObjectInStore(ref) = Replicated(key) <=>
                           SameResource(n, m) /\ m.type = key.type /\ m.reporter = key.reporter
                    /\ \A filter \in FilterInStore(TupleFilterFromProto(m)) :
                         Matches(filter, Replicated(key)) <=>
                           m.id \in {EmptyString, key.id} /\ m.type = key.type /\ m.reporter = key.reporter
                    /\ \A asked \in ReporterKeyFromResourceReference(m) :
                         \A filter \in FilterInStore(TupleToFilter(TupleObject(asked))) :
                           Matches(filter, Replicated(key)) <=> SameResource(n, m)
                    /\ LET object == TupleObject(KeyOfEvent(key)) IN
                         /\ FromService(ObjectInService(object)) = object
                         /\ \A ref \in ResourceReferenceFromProto(m) :
                              ObjectInService(ref) = ObjectInService(object) <=> ObjectInStore(ref) = Replicated(key)
  BY SMTT(30) DEF NamesAgree
<1> DEFINE id == IdOf(n.id)
           type == TypeOf(n.type)
           reporter == NameOf(n.reporter)
           instance == NameOf(n.instance)
<1>1. IsName(n) /\ IsName(m)
  OBVIOUS
<1>2. key = Key(id, type, reporter, instance)
  BY <1>1, ReportedKey
<1> HIDE DEF id, type, reporter, instance
<1>3. key.id = id /\ key.type = type /\ key.reporter = reporter /\ key.instance = instance
  BY <1>2 DEF Key
<1>4. Replicated(key) = <<<<reporter, type>>, id>>
  BY <1>3 DEF Replicated, ObjectInStore, TupleObject, KeyOfEvent, Key, Reference
<1>5. SameResource(n, m) <=> id = IdOf(m.id) /\ type = TypeOf(m.type) /\ reporter = NameOf(m.reporter)
  BY SameParts DEF id, type, reporter
<1>6. ASSUME NEW ref \in ResourceReferenceFromProto(m)
      PROVE  ObjectInStore(ref) = Replicated(key) <=> SameResource(n, m)
  <2>1. ref = Reference(IdOf(m.id), TypeOf(m.type), NameOf(m.reporter))
    BY <1>1, AskedReference
  <2>2. ObjectInStore(ref) = <<<<NameOf(m.reporter), TypeOf(m.type)>>, IdOf(m.id)>>
    BY <2>1 DEF ObjectInStore, Reference
  <2> QED
    BY <1>4, <1>5, <2>2
<1>7. ASSUME NEW asked \in ReporterKeyFromResourceReference(m)
      PROVE  FindsRow(asked, key) <=>
               SameResource(n, m) /\ (m.instance = EmptyString \/ SameButCase(n.instance, m.instance))
  <2>1. /\ asked = Key(IdOf(m.id), TypeOf(m.type), NameOf(m.reporter), asked.instance)
        /\ m.instance = EmptyString => asked.instance = EmptyString
        /\ m.instance # EmptyString => asked.instance = NameOf(m.instance) /\ asked.instance # EmptyString
    BY <1>1, AskedKey
  <2>2. asked.id = IdOf(m.id) /\ asked.type = TypeOf(m.type) /\ asked.reporter = NameOf(m.reporter)
    BY <2>1 DEF Key
  <2>3. SameButCase(n.instance, m.instance) <=> instance = NameOf(m.instance)
    BY DEF SameButCase, instance, NameOf
  <2> QED
    BY <1>3, <1>5, <2>1, <2>2, <2>3 DEF FindsRow
<1>8. ASSUME NEW list \in ToLookupObjectsCommand(m, m), <<list[2], list[1]>> = Replicated(key)[1],
             NEW again \in ResourceReferenceFromProto(
                             ToLookupObjectsResponse(FromLookup(Replicated(key), list[1], list[2])))
      PROVE  ObjectInStore(again) = Replicated(key)
  <2>1. list[1] = type /\ list[2] = reporter
    BY <1>4, <1>8
  <2> DEFINE back == ToLookupObjectsResponse(FromLookup(Replicated(key), list[1], list[2]))
  <2>2. back.id = id /\ back.type = type /\ back.reporter = reporter
    BY <1>4, <2>1 DEF ToLookupObjectsResponse, FromLookup, Reference
  <2> HIDE DEF back
  <2>3. PICK i \in NewLocalResourceId(back.id), t \in NewResourceType(back.type), r \in NewReporterType(back.reporter) :
          again = Reference(i, t, r)
    <3>1. PICK asked \in ReporterKeyFromResourceReference(back) :
            again = Reference(asked.id, asked.type, asked.reporter)
      BY DEF ResourceReferenceFromProto, back
    <3>2. PICK i \in NewLocalResourceId(back.id), t \in NewResourceType(back.type),
               r \in NewReporterType(back.reporter), j \in OptionalInstance(back.instance) :
            asked = Key(i, t, r, j)
      BY SMTT(30) DEF ReporterKeyFromResourceReference
    <3>3. asked.id = i /\ asked.type = t /\ asked.reporter = r
      BY <3>2 DEF Key
    <3> QED
      BY <3>1, <3>3
  <2>4. i = id /\ t = type /\ r = reporter
    BY <1>1, <2>2, Reconstructed, SMTT(30) DEF IsName, id, type, reporter
  <2> QED
    BY <1>4, <2>3, <2>4 DEF ObjectInStore, Reference
<1>9. FromStore(Replicated(key)) = IF n.reporter.slash THEN {} ELSE {TupleObject(key)}
  <2>1. reporter.slash = n.reporter.slash /\ type.slash = FALSE
    BY <1>1, Conversions DEF IsName, reporter, type
  <2> QED
    BY <1>3, <1>4, <2>1 DEF FromStore, TupleObject
<1>10. ASSUME NEW ref \in RelationshipToRelationsTuple(m)
       PROVE  ObjectInStore(ref) = Replicated(key) <=>
                SameResource(n, m) /\ m.type = key.type /\ m.reporter = key.reporter
  <2>1. ref = Reference(IdOf(m.id), m.type, m.reporter)
    BY <1>1, Constructors DEF RelationshipToRelationsTuple, IsName
  <2>2. ObjectInStore(ref) = <<<<m.reporter, m.type>>, IdOf(m.id)>>
    BY <2>1 DEF ObjectInStore, Reference
  <2>3. TypeOf(type) = type /\ NameOf(reporter) = reporter
    BY <1>1, Conversions DEF IsName, type, reporter
  <2> QED
    BY <1>3, <1>4, <1>5, <2>2, <2>3
<1>11. ASSUME NEW filter \in FilterInStore(TupleFilterFromProto(m))
       PROVE  Matches(filter, Replicated(key)) <=>
                m.id \in {EmptyString, key.id} /\ m.type = key.type /\ m.reporter = key.reporter
  <2>1. /\ filter.type = <<m.reporter>> \o <<m.type>>
        /\ filter.id = IF <<m.id>> = <<EmptyString>> THEN <<>> ELSE <<m.id>>
    BY DEF FilterInStore, TupleFilterFromProto, TupleFilter
  <2>2. filter.type = <<m.reporter, m.type>>
    BY <2>1, JoinedPair
  <2>3. filter.type \in {<<>>, <<reporter, type>>} <=> m.type = type /\ m.reporter = reporter
    BY <2>2
  <2>4. filter.id \in {<<>>, <<id>>} <=> m.id \in {EmptyString, id}
    BY <2>1
  <2>5. Replicated(key)[1] = <<reporter, type>> /\ Replicated(key)[2] = id
    BY <1>4
  <2> QED
    BY <1>3, <2>3, <2>4, <2>5 DEF Matches
<1>12. ASSUME NEW asked \in ReporterKeyFromResourceReference(m),
              NEW filter \in FilterInStore(TupleToFilter(TupleObject(asked)))
       PROVE  Matches(filter, Replicated(key)) <=> SameResource(n, m)
  <2>1. asked = Key(IdOf(m.id), TypeOf(m.type), NameOf(m.reporter), asked.instance)
    BY <1>1, AskedKey
  <2>2. asked.id = IdOf(m.id) /\ asked.type = TypeOf(m.type) /\ asked.reporter = NameOf(m.reporter)
    BY <2>1 DEF Key
  <2>3. TupleObject(asked) = Reference(IdOf(m.id), TypeOf(m.type), NameOf(m.reporter))
    BY <2>2, Zenon DEF TupleObject
  <2>4. IdOf(m.id).word = m.id.word /\ m.id.word # ""
    BY <1>1, Conversions, AskedKey DEF IsName
  <2>5. EmptyString.word = ""
    BY DEF EmptyString
  <2>6. IdOf(m.id) # EmptyString
    BY <2>4, <2>5
  <2>7. /\ filter.type = <<NameOf(m.reporter)>> \o <<TypeOf(m.type)>>
        /\ filter.id = IF <<IdOf(m.id)>> = <<EmptyString>> THEN <<>> ELSE <<IdOf(m.id)>>
    BY <2>3 DEF FilterInStore, TupleToFilter, TupleFilter, Reference
  <2>8. filter.type = <<NameOf(m.reporter), TypeOf(m.type)>> /\ filter.id = <<IdOf(m.id)>>
    BY <2>6, <2>7, JoinedPair
  <2> QED
    BY <1>4, <1>5, <2>8 DEF Matches
<1>13. FromService(ObjectInService(TupleObject(KeyOfEvent(key)))) = TupleObject(KeyOfEvent(key))
  BY DEF FromService, ObjectInService, TupleObject, Reference
<1>14. ASSUME NEW ref \in ResourceReferenceFromProto(m)
       PROVE  ObjectInService(ref) = ObjectInService(TupleObject(KeyOfEvent(key)))
                <=> ObjectInStore(ref) = Replicated(key)
  BY DEF ObjectInService, ObjectInStore, Replicated
<1> QED
  BY <1>6, <1>7, <1>8, <1>9, <1>10, <1>11, <1>12, <1>13, <1>14

\* The paths of a resource's names meet: whatever strings the requests name their
\* resources by, a report, a delete, a check, a list and the tuple service come
\* to the same row and the same object exactly if they name the same resource.
THEOREM SpellingsAlwaysAgree == RequestsSpec => []SpellingsAgree
<1>1. NamesAgree(Spellings, Fields)
  BY SpellingsAssumption, NamesMeet DEF IsName
<1>2. SpellingsAgree
  BY <1>1 DEF SpellingsAgree
<1> QED
  BY <1>2, PTL

----
(* The repository *)

\* The history ends with the current tuples, and a snapshot is what the history
\* says of its version.
StoreInv ==
  /\ version \in 1 .. MaxRevisions
  /\ past \in Seq(SUBSET Tuples) /\ Len(past) = version /\ past[version] = tuples
  /\ DOMAIN snapshots \subseteq 1 .. version
  /\ \A v \in DOMAIN snapshots : snapshots[v] = past[v]
  /\ errors \in Faults \cup {{}}

\* The steps of the repository.
StoreStep ==
  \/ \E S \in SUBSET Tuples : Mutate(S)
  \/ Refuse \/ RetainCurrentSnapshot \/ Reset
  \/ \E versions : Keep(versions)
  \/ \E methods \in Faults \cup {{}} : SetErrors(methods)
  \/ \E asked \in SUBSET Tuples : ReadLatest(asked) \/ ListLatest(asked)
  \/ \E asked \in SUBSET Tuples, demand \in 0 .. MaxRevisions : CheckTuples(asked, demand)

LEMMA StoreSteps ==
  ASSUME StoreInv, [RequestsNext]_requestVars
  PROVE  StoreStep \/ UNCHANGED simpleVars
<1>1. tuples \in SUBSET Tuples
  BY SMTT(30) DEF StoreInv
<1>2. CASE UNCHANGED requestVars
  BY <1>2 DEF requestVars
<1>3. CASE TestCalls
  <2>1. CASE \E t \in Tuples : Grant(t)
    <3>1. PICK t \in Tuples : Mutate(tuples \cup {t})
      BY <2>1 DEF Grant
    <3> QED
      BY <1>1, <3>1 DEF StoreStep
  <2>2. CASE (\E v \in 1 .. version : ReleaseSnapshot(v)) \/ ClearSnapshots
    BY <2>2, Zenon DEF ReleaseSnapshot, ClearSnapshots, StoreStep
  <2> QED
    BY <1>3, <2>1, <2>2, Zenon DEF TestCalls, StoreStep
<1>4. ASSUME NEW c \in Clients, Arrive(c) \/ Process(c) PROVE StoreStep
  <2>1. CASE Refuse
    BY <2>1 DEF StoreStep
  <2>2. CASE CallCheck(c)
    <3>1. PICK asked \in SUBSET Tuples : ReadLatest(asked) \/ \E demand \in 0 .. MaxRevisions : CheckTuples(asked, demand)
      BY <2>2, Zenon DEF CallCheck
    <3> QED
      BY <3>1, Zenon DEF StoreStep
  <2>3. CASE CallTuples(c)
    <3>1. CASE \E S \in SUBSET Tuples : CreateTuples(S)
      <4>1. PICK S \in SUBSET Tuples : Mutate(tuples \cup S)
        BY <3>1, Zenon DEF CreateTuples
      <4> QED
        BY <1>1, <4>1 DEF StoreStep
    <3>2. CASE \E filter \in Filters : DeleteTuples(filter)
      <4>1. PICK filter \in Filters : Mutate(tuples \ filter)
        BY <3>2, Zenon DEF DeleteTuples
      <4> QED
        BY <1>1, <4>1 DEF StoreStep
    <3>3. CASE AcquireLock
      BY <2>1, <3>3 DEF AcquireLock
    <3> QED
      BY <2>3, <3>1, <3>2, <3>3, Zenon DEF CallTuples
  <2>4. CASE OpenStream(c)
    <3>1. PICK filter \in Filters : ListLatest(filter)
      BY <2>4, Zenon DEF OpenStream
    <3>2. filter \in SUBSET Tuples
      BY SimpleRelationsAssumption
    <3> QED
      BY <3>1, <3>2, Zenon DEF StoreStep
  <2>5. CASE Arrive(c)
    BY <2>1, <2>5, Zenon DEF Arrive, Untouched
  <2>6. CASE Validate(c)
    BY <2>1, <2>6, Zenon DEF Validate, Untouched
  <2>7. CASE Authenticate(c)
    BY <2>1, <2>7, Zenon DEF Authenticate, Untouched
  <2>8. CASE ReadOnly(c)
    BY <2>1, <2>8, Zenon DEF ReadOnly, Untouched
  <2>9. CASE Handle(c)
    BY <2>1, <2>9, Zenon DEF Handle, Untouched
  <2>10. CASE CallHealth(c)
    BY <2>1, <2>10, Zenon DEF CallHealth, Untouched
  <2>11. CASE CallResource(c)
    BY <2>1, <2>11, Zenon DEF CallResource, Untouched
  <2>12. CASE CallFails(c)
    BY <2>1, <2>12, Zenon DEF CallFails, Untouched
  <2>13. CASE StreamEntry(c)
    BY <2>1, <2>13, Zenon DEF StreamEntry, Untouched
  <2>14. CASE StreamEnds(c)
    BY <2>1, <2>14, Zenon DEF StreamEnds, Untouched
  <2> QED
    BY <1>4, <2>2, <2>3, <2>4, <2>5, <2>6, <2>7, <2>8, <2>9, <2>10, <2>11, <2>12, <2>13, <2>14, Zenon DEF Process
<1> QED
  BY <1>2, <1>3, <1>4, Zenon DEF RequestsNext

\* What getTuplesForToken returns is a revision, as fresh as the demand or the last.
LEMMA TuplesForTokenIsARevision ==
  ASSUME StoreInv, NEW demand \in 0 .. MaxRevisions
  PROVE  \E rev \in 1 .. version :
           TuplesForToken(demand) = past[rev] /\ (rev >= demand \/ rev = version)
<1> DEFINE fresh == {v \in DOMAIN snapshots \cup {version} : v >= demand}
<1>1. version \in Nat /\ version \in 1 .. version /\ past[version] = tuples
  BY SimpleRelationsAssumption, SMTT(30) DEF StoreInv
<1>2. CASE fresh = {} \/ Min(fresh) = version
  BY <1>1, <1>2 DEF TuplesForToken
<1>3. CASE fresh # {} /\ Min(fresh) # version
  <2>1. fresh \subseteq 1 .. version /\ fresh \subseteq Nat
    BY <1>1, SMTT(30) DEF StoreInv
  <2>2. Min(fresh) \in fresh
    BY <1>3, <2>1, MinInSet, Zenon
  <2>3. Min(fresh) \in DOMAIN snapshots /\ Min(fresh) >= demand /\ Min(fresh) \in 1 .. version
    BY <1>3, <2>1, <2>2
  <2>4. TuplesForToken(demand) = snapshots[Min(fresh)]
    BY <1>3 DEF TuplesForToken
  <2>5. snapshots[Min(fresh)] = past[Min(fresh)]
    BY <2>3 DEF StoreInv
  <2> QED
    BY <2>3, <2>4, <2>5, Zenon
<1> QED
  BY <1>2, <1>3

LEMMA MutateStep ==
  ASSUME StoreInv, NEW S \in SUBSET Tuples, Mutate(S)
  PROVE  StoreInv' /\ Store!Write
<1>1. /\ version < MaxRevisions /\ version' = version + 1 /\ tuples' = S /\ past' = Append(past, S)
      /\ UNCHANGED <<snapshots, errors>>
  BY DEF Mutate
<1>2. version \in Nat /\ past \in Seq(SUBSET Tuples) /\ Len(past) = version
  BY SMTT(30) DEF StoreInv
<1>3. /\ past' \in Seq(SUBSET Tuples) /\ Len(past') = version' /\ past'[version'] = S
      /\ \A v \in 1 .. version : past'[v] = past[v]
  BY <1>1, <1>2
<1>4. version' \in 1 .. MaxRevisions /\ 1 .. version \subseteq 1 .. version'
  BY <1>1, <1>2, SimpleRelationsAssumption
<1>5. DOMAIN snapshots' \subseteq 1 .. version' /\ \A v \in DOMAIN snapshots' : snapshots'[v] = past'[v]
  BY <1>1, <1>3, <1>4, Zenon DEF StoreInv
<1>6. StoreInv'
  BY <1>1, <1>3, <1>4, <1>5 DEF StoreInv
<1>7. answer' = [Store!NoAnswer EXCEPT !.token = Len(past) + 1]
  BY <1>2 DEF Mutate
<1>8. Store!Write
  BY <1>1, <1>7, Zenon DEF Store!Write
<1> QED
  BY <1>6, <1>8

LEMMA AnswerStep ==
  ASSUME StoreInv, NEW asked, NEW demand, NEW S, NEW token, Answer(asked, demand, S, token)
  PROVE  /\ StoreInv' /\ UNCHANGED past
         /\ answer' = [asked |-> asked, found |-> asked \cap S, demand |-> demand, token |-> token]
<1>1. UNCHANGED <<version, tuples, snapshots, errors, past>>
  BY DEF Answer
<1>2. StoreInv'
  BY <1>1 DEF StoreInv
<1> QED
  BY <1>1, <1>2 DEF Answer

LEMMA CheckStep ==
  ASSUME StoreInv, NEW asked \in SUBSET Tuples, NEW demand \in 0 .. MaxRevisions, NEW S,
         NEW rev \in 1 .. version, S = past[rev], rev >= demand \/ rev = version,
         Answer(asked, demand, S, version)
  PROVE  StoreInv' /\ Store!Check
<1>1. /\ StoreInv' /\ UNCHANGED past
      /\ answer' = [asked |-> asked, found |-> asked \cap past[rev], demand |-> demand, token |-> version]
  BY AnswerStep
<1>2. version = Len(past) /\ version \in 1 .. Len(past) /\ asked \cap past[rev] \in SUBSET Tuples
  BY SimpleRelationsAssumption, SMTT(30) DEF StoreInv
<1>3. answer' \in [asked : SUBSET Tuples, found : SUBSET Tuples, demand : 0 .. MaxRevisions, token : 1 .. Len(past)]
  BY <1>1, <1>2
<1>4. rev \in 1 .. answer'.token /\ answer'.demand = demand /\ answer'.found = answer'.asked \cap past[rev]
  BY <1>1
<1> QED
  BY <1>1, <1>2, <1>3, <1>4, Zenon DEF Store!Check

LEMMA ListStep ==
  ASSUME StoreInv, NEW asked \in SUBSET Tuples, ListLatest(asked)
  PROVE  StoreInv' /\ Store!List
<1>1. /\ StoreInv' /\ UNCHANGED past
      /\ answer' = [asked |-> asked, found |-> asked \cap tuples, demand |-> version, token |-> Store!NoToken]
  BY AnswerStep, Zenon DEF ListLatest
<1>2. version = Len(past) /\ past[version] = tuples
  BY DEF StoreInv
<1> QED
  BY <1>1, <1>2, Zenon DEF Store!List

LEMMA StoreStepRefines ==
  ASSUME StoreInv, StoreStep
  PROVE  StoreInv' /\ Store!StoreNext
<1>1. ASSUME NEW S \in SUBSET Tuples, Mutate(S) PROVE StoreInv' /\ Store!StoreNext
  BY <1>1, MutateStep, Zenon DEF Store!StoreNext
<1>2. CASE Refuse \/ \E methods \in Faults \cup {{}} : SetErrors(methods)
  <2>1. UNCHANGED <<version, tuples, snapshots, past>> /\ errors' \in Faults \cup {{}}
    BY <1>2 DEF Refuse, SetErrors, StoreInv
  <2>2. StoreInv'
    BY <2>1 DEF StoreInv
  <2>3. Store!Forget
    BY <1>2, Zenon DEF Refuse, SetErrors, Store!Forget
  <2> QED
    BY <2>2, <2>3 DEF Store!StoreNext
<1>3. CASE RetainCurrentSnapshot
  <2>1. UNCHANGED <<version, tuples, errors, past>>
    BY <1>3 DEF RetainCurrentSnapshot
  <2>2. /\ DOMAIN snapshots' \subseteq DOMAIN snapshots \cup {version}
        /\ \A v \in DOMAIN snapshots' : snapshots'[v] = IF v = version THEN tuples ELSE snapshots[v]
    BY <1>3 DEF RetainCurrentSnapshot
  <2>3. version \in 1 .. version /\ past[version] = tuples
    BY SimpleRelationsAssumption, SMTT(30) DEF StoreInv
  <2>4. DOMAIN snapshots' \subseteq 1 .. version /\ \A v \in DOMAIN snapshots' : snapshots'[v] = past[v]
    BY <2>2, <2>3 DEF StoreInv
  <2>5. StoreInv'
    BY <2>1, <2>4 DEF StoreInv
  <2>6. Store!Forget
    BY <1>3 DEF RetainCurrentSnapshot, Store!Forget
  <2> QED
    BY <2>5, <2>6 DEF Store!StoreNext
<1>4. ASSUME NEW versions, Keep(versions) PROVE StoreInv' /\ Store!StoreNext
  <2>1. UNCHANGED <<version, tuples, errors, past>>
    BY <1>4 DEF Keep
  <2>2. /\ DOMAIN snapshots' \subseteq DOMAIN snapshots
        /\ \A v \in DOMAIN snapshots' : snapshots'[v] = snapshots[v]
    BY <1>4 DEF Keep
  <2>3. StoreInv'
    BY <2>1, <2>2 DEF StoreInv
  <2>4. Store!Forget
    BY <1>4 DEF Keep, Store!Forget
  <2> QED
    BY <2>3, <2>4 DEF Store!StoreNext
<1>5. CASE Reset
  <2>1. StoreInv'
    BY <1>5, SimpleRelationsAssumption, SMTT(30) DEF Reset, StoreInv
  <2>2. Store!Empty
    BY <1>5 DEF Reset, Store!Empty
  <2> QED
    BY <2>1, <2>2 DEF Store!StoreNext
<1>6. ASSUME NEW asked \in SUBSET Tuples, ReadLatest(asked) PROVE StoreInv' /\ Store!StoreNext
  <2>1. version \in 0 .. MaxRevisions /\ version \in 1 .. version /\ past[version] = tuples
    BY SimpleRelationsAssumption, SMTT(30) DEF StoreInv
  <2> QED
    BY <1>6, <2>1, CheckStep, Zenon DEF ReadLatest, Store!StoreNext
<1>7. ASSUME NEW asked \in SUBSET Tuples, NEW demand \in 0 .. MaxRevisions, CheckTuples(asked, demand)
      PROVE  StoreInv' /\ Store!StoreNext
  BY <1>7, TuplesForTokenIsARevision, CheckStep, Zenon DEF CheckTuples, Store!StoreNext
<1>8. ASSUME NEW asked \in SUBSET Tuples, ListLatest(asked) PROVE StoreInv' /\ Store!StoreNext
  BY <1>8, ListStep, Zenon DEF Store!StoreNext
<1> QED
  BY <1>1, <1>2, <1>3, <1>4, <1>5, <1>6, <1>7, <1>8, Zenon DEF StoreStep

LEMMA StoreInductive ==
  ASSUME StoreInv, [RequestsNext]_requestVars
  PROVE  StoreInv' /\ [Store!StoreNext]_<<past, answer>>
<1>1. CASE UNCHANGED simpleVars
  <2>1. UNCHANGED <<version, tuples, snapshots, errors, past, answer>>
    BY <1>1, Zenon DEF simpleVars
  <2> QED
    BY <2>1 DEF StoreInv
<1> QED
  BY <1>1, StoreSteps, StoreStepRefines, Zenon

LEMMA StoreInitial == SimpleInit => StoreInv /\ Store!StoreInit
<1> SUFFICES ASSUME SimpleInit PROVE StoreInv /\ Store!StoreInit
  OBVIOUS
<1>1. StoreInv
  BY SimpleRelationsAssumption DEF SimpleInit, StoreInv
<1> QED
  BY <1>1 DEF SimpleInit, Store!StoreInit

\* Whatever is requested and whatever a test does in between, the in-memory
\* repository answers every call from one revision that is as fresh as the caller
\* demands, or from the last one, and its token is never older than its answer.
THEOREM SimpleRelationsIsARelationsStore == RequestsSpec => RelationsStoreSpec
<1>1. RequestsInit => StoreInv /\ Store!StoreInit
  BY StoreInitial DEF RequestsInit
<1>2. StoreInv /\ [RequestsNext]_requestVars => StoreInv' /\ [Store!StoreNext]_<<past, answer>>
  BY StoreInductive
<1>3. StoreInv /\ [RequestsNext]_requestVars => StoreInv' /\ [Store!StoreNext]_Store!storeVars
  BY <1>2 DEF Store!storeVars
<1> QED
  BY <1>1, <1>3, PTL DEF RequestsSpec, RelationsStoreSpec, Store!StoreSpec
----
(* The requests *)

\* The first of the server's authenticators to allow the credentials is of the type.
Vouched(server, protocol, credentials, type) ==
  \E i \in Allowing(server.chain, protocol, credentials) :
    /\ \A j \in Allowing(server.chain, protocol, credentials) : i <= j
    /\ AuthTypeOf(server.chain[i]) = type

Authenticated(q, server) == Vouched(server, q.protocol, q.credentials, q.authType)

\* The meta-authorizers, of a server.
Gate(q, server) ==
  IF q.op \in TupleService /\ ~server.allowUnauthenticated
    THEN /\ q.protocol = "grpc" /\ q.authType = "oidc" /\ q.client # ""
         /\ "*" \in server.allowlist \/ q.client \in server.allowlist
    ELSE SimpleMetaAuthorizer(q)

\* The request is past authentication: a stream meets validation afterwards.
PastAuthentication(q) ==
  \/ q.pc \in {"readOnly", "handle", "call", "stream"} \/ q.status = "OK"
  \/ q.pc = "validate" /\ q.op \in Streams

RequestOK(q, server) ==
  /\ q.pc # "done" => q.status = "none"
  /\ PastAuthentication(q) => q.op \in Health \/ Authenticated(q, server)
  /\ q.pc \in {"call", "stream"} \/ q.status = "OK" => q.op \in Health \/ Gate(q, server)
  /\ server.readOnly /\ q.pc \in {"handle", "call"} => q.op \notin Writes

RequestsInv ==
  /\ config \in Configurations
  /\ row \in BOOLEAN
  /\ req \in [Clients -> Request]
  /\ \A c \in Clients : RequestOK(req[c], config)

LEMMA GateIsMetaAuthorized == ASSUME NEW q PROVE MetaAuthorized(q) = Gate(q, config)
  BY DEF MetaAuthorized, Gate, WhitelistMetaAuthorizer

\* An Allow comes from one of the authenticators, with its type.
LEMMA VerdictIsOfAnAuthenticator ==
  ASSUME NEW server \in Configurations, NEW protocol \in Protocols, NEW r,
         FirstMatch(server.chain, protocol, r).decision = "Allow"
  PROVE  LET type == FirstMatch(server.chain, protocol, r).authType
         IN  /\ type \in EntryTypes
             /\ Vouched(server, protocol, r, type)
<1> DEFINE allowing == Allowing(server.chain, protocol, r)
           first == CHOOSE i \in allowing : \A j \in allowing : i <= j
<1>1. allowing # {} /\ FirstMatch(server.chain, protocol, r).authType = AuthTypeOf(server.chain[first])
  BY DEF FirstMatch
<1>2. allowing \subseteq Authenticators(server.chain, protocol)
  BY DEF Allowing
<1>3. DOMAIN server.chain \subseteq Nat /\ \A i \in DOMAIN server.chain : server.chain[i].type \in EntryTypes
  <2>1. server.chain \in Seq(ChainEntry)
    BY RequestsAssumption, Zenon
  <2>2. \A i \in DOMAIN server.chain : EntryCompletes(server.chain[i])
    BY RequestsAssumption DEF AuthnCompletes
  <2> QED
    BY <2>1, <2>2 DEF EntryCompletes
<1>4. allowing \subseteq Nat /\ Authenticators(server.chain, protocol) \subseteq DOMAIN server.chain
  BY <1>2, <1>3 DEF Authenticators
<1>5. first = Min(allowing)
  BY DEF Min
<1>6. first \in allowing
  BY <1>1, <1>4, <1>5, MinInSet, Zenon
<1>7. AuthTypeOf(server.chain[first]) \in EntryTypes
  BY <1>2, <1>3, <1>4, <1>6, Zenon DEF AuthTypeOf, EntryTypes
<1>8. \A j \in allowing : first <= j
  BY <1>1, <1>4, <1>5, MinInSet, Zenon
<1> QED
  BY <1>1, <1>6, <1>7, <1>8, Zenon DEF Vouched

\* One request moves; the server and the other requests stay as they are.
LEMMA OneRequestMoves ==
  ASSUME RequestsInv, NEW c \in Clients, NEW q, Continue(c, q), config' = config, row' \in BOOLEAN,
         q \in Request, RequestOK(q, config)
  PROVE  RequestsInv'
<1>1. req' = [req EXCEPT ![c] = q] /\ req \in [Clients -> Request]
  BY DEF Continue, RequestsInv
<1>2. req' \in [Clients -> Request]
  BY <1>1
<1>3. ASSUME NEW d \in Clients PROVE RequestOK(req'[d], config)
  <2>1. req'[d] = IF d = c THEN q ELSE req[d]
    BY <1>1
  <2> QED
    BY <2>1 DEF RequestsInv
<1>4. \A d \in Clients : RequestOK(req'[d], config')
  BY <1>3
<1> QED
  BY <1>2, <1>4 DEF RequestsInv

LEMMA NoRequestOK == NoRequest \in Request /\ \A server : RequestOK(NoRequest, server)
<1>1. NoCredentials \in Credentials
  BY Zenon DEF NoCredentials, Credentials
<1>2. NoRequest \in Request
  BY <1>1, Zenon DEF NoRequest, Request, Stages, Operations, Health, Protocols, ClientIDs, Statuses
<1>3. NoRequest.pc = "idle" /\ NoRequest.status = "none"
  BY Zenon DEF NoRequest
<1> QED
  BY <1>2, <1>3 DEF RequestOK, PastAuthentication

LEMMA Responded ==
  ASSUME NEW q \in Request, NEW server, RequestOK(q, server),
         NEW status \in Statuses, status = "OK" => q.pc \in {"call", "stream"}
  PROVE  Respond(q, status) \in Request /\ RequestOK(Respond(q, status), server)
<1>1. CASE status = "OK"
  <2> DEFINE r == [q EXCEPT !.pc = "done", !.status = status, !.pending = {}]
  <2>1. r \in Request /\ r.pc = "done" /\ r.status = status /\ r.credentials = q.credentials
        /\ r.op = q.op /\ r.protocol = q.protocol /\ r.authType = q.authType /\ r.client = q.client
    BY Zenon DEF Request, Stages
  <2>2. Respond(q, status) = r
    BY <1>1, Zenon DEF Respond
  <2> HIDE DEF r
  <2>3. q.pc \in {"call", "stream"} /\ (q.op \in Health \/ Authenticated(q, server)) /\ (q.op \in Health \/ Gate(q, server))
    BY <1>1 DEF RequestOK, PastAuthentication
  <2>4. Authenticated(r, server) = Authenticated(q, server)
    BY <2>1 DEF Authenticated
  <2>5. Gate(r, server) = Gate(q, server)
    BY <2>1 DEF Gate, SimpleMetaAuthorizer
  <2>6. RequestOK(r, server)
    BY <2>1, <2>3, <2>4, <2>5 DEF RequestOK, PastAuthentication
  <2> QED
    BY <2>1, <2>2, <2>6, Zenon
<1>2. CASE status # "OK"
  <2> DEFINE r == [NoRequest EXCEPT !.pc = "done", !.status = status]
  <2>1. r \in Request /\ r.pc = "done" /\ r.status = status
    BY NoRequestOK, Zenon DEF Request, Stages
  <2>2. Respond(q, status) = r
    BY <1>2, Zenon DEF Respond
  <2> HIDE DEF r
  <2>3. RequestOK(r, server)
    BY <1>2, <2>1 DEF RequestOK, PastAuthentication
  <2> QED
    BY <2>1, <2>2, <2>3, Zenon
<1> QED
  BY <1>1, <1>2

LEMMA Moved ==
  ASSUME NEW q \in Request, NEW server, RequestOK(q, server), q.pc # "done",
         NEW pc \in Stages \ {"done"},
         pc \in {"readOnly", "handle", "call", "stream"} \/ (pc = "validate" /\ q.op \in Streams)
           => q.op \in Health \/ Authenticated(q, server),
         pc \in {"call", "stream"} => q.op \in Health \/ Gate(q, server),
         server.readOnly /\ pc \in {"handle", "call"} => q.op \notin Writes
  PROVE  [q EXCEPT !.pc = pc] \in Request /\ RequestOK([q EXCEPT !.pc = pc], server)
<1> DEFINE r == [q EXCEPT !.pc = pc]
<1>1. r \in Request /\ r.pc = pc /\ r.status = q.status /\ r.credentials = q.credentials
      /\ r.op = q.op /\ r.protocol = q.protocol /\ r.authType = q.authType /\ r.client = q.client
  BY Zenon DEF Request
<1> HIDE DEF r
<1>2. r.status = "none"
  BY <1>1 DEF RequestOK
<1>3. Authenticated(r, server) = Authenticated(q, server)
  BY <1>1 DEF Authenticated
<1>4. Gate(r, server) = Gate(q, server)
  BY <1>1, Zenon DEF Gate, SimpleMetaAuthorizer
<1>5. RequestOK(r, server)
  BY <1>1, <1>2, <1>3, <1>4 DEF RequestOK, PastAuthentication
<1> QED
  BY <1>1, <1>5 DEF r

\* Authentication of a request that its chain allows.
LEMMA Admitted ==
  ASSUME NEW q \in Request, NEW server \in Configurations, RequestOK(q, server), q.pc = "authenticate",
         NEW type \in EntryTypes, NEW client \in ClientIDs, NEW pc \in {"validate", "readOnly"},
         NEW cred \in Credentials, Vouched(server, q.protocol, cred, type)
  PROVE  LET r == [q EXCEPT !.pc = pc, !.credentials = cred, !.authType = type, !.client = client]
         IN  r \in Request /\ RequestOK(r, server)
<1> DEFINE r == [q EXCEPT !.pc = pc, !.credentials = cred, !.authType = type, !.client = client]
<1>1. r \in Request /\ r.pc = pc /\ r.status = q.status /\ r.authType = type
      /\ r.protocol = q.protocol /\ r.credentials = cred
  BY Zenon DEF Request, Stages
<1> HIDE DEF r
<1>2. r.status = "none"
  BY <1>1 DEF RequestOK
<1>3. Authenticated(r, server)
  BY <1>1 DEF Authenticated
<1>4. RequestOK(r, server)
  BY <1>1, <1>2, <1>3 DEF RequestOK
<1> QED
  BY <1>1, <1>4 DEF r

LEMMA Streamed ==
  ASSUME NEW q \in Request, NEW server, RequestOK(q, server), q.pc \in {"call", "stream"},
         NEW pending \in SUBSET Tuples
  PROVE  LET r == [q EXCEPT !.pc = "stream", !.pending = pending]
         IN  r \in Request /\ RequestOK(r, server)
<1> DEFINE r == [q EXCEPT !.pc = "stream", !.pending = pending]
<1>1. r \in Request /\ r.pc = "stream" /\ r.status = q.status /\ r.credentials = q.credentials
      /\ r.op = q.op /\ r.protocol = q.protocol /\ r.authType = q.authType /\ r.client = q.client
  BY Zenon DEF Request, Stages
<1> HIDE DEF r
<1>2. r.status = "none" /\ (q.op \in Health \/ Authenticated(q, server)) /\ (q.op \in Health \/ Gate(q, server))
  BY <1>1 DEF RequestOK, PastAuthentication
<1>3. Authenticated(r, server) = Authenticated(q, server)
  BY <1>1 DEF Authenticated
<1>4. Gate(r, server) = Gate(q, server)
  BY <1>1 DEF Gate, SimpleMetaAuthorizer
<1>5. RequestOK(r, server)
  BY <1>1, <1>2, <1>3, <1>4 DEF RequestOK, PastAuthentication
<1> QED
  BY <1>1, <1>5 DEF r

LEMMA ArriveOK ==
  ASSUME NEW protocol \in Protocols, NEW op \in Operations, NEW server
  PROVE  LET r == [NoRequest EXCEPT !.op = op, !.protocol = protocol,
                     !.pc = IF op \in Streams THEN "authenticate" ELSE "validate"]
         IN  r \in Request /\ RequestOK(r, server)
<1> DEFINE pc == IF op \in Streams THEN "authenticate" ELSE "validate"
           r == [NoRequest EXCEPT !.op = op, !.protocol = protocol, !.pc = pc]
<1>1. r \in Request /\ r.pc = pc /\ r.op = op /\ r.status = "none"
  BY NoRequestOK, Zenon DEF NoRequest, Request, Stages
<1> HIDE DEF r
<1>2. RequestOK(r, server)
  BY <1>1 DEF RequestOK, PastAuthentication
<1> QED
  BY <1>1, <1>2 DEF r

LEMMA AuthenticateOK ==
  ASSUME RequestsInv, NEW c \in Clients, Authenticate(c)
  PROVE  \E r \in Request : Continue(c, r) /\ RequestOK(r, config)
<1> DEFINE q == req[c]
<1>1. q \in Request /\ RequestOK(q, config) /\ q.pc = "authenticate" /\ config \in Configurations
  BY Zenon DEF RequestsInv, Authenticate
<1>2. q.protocol \in Protocols
  BY <1>1 DEF Request
<1>3. CASE Whitelisted(q.op)
  <2>1. Continue(c, [q EXCEPT !.pc = "readOnly"]) /\ q.op \in Health
    BY <1>3, Zenon DEF Authenticate, Whitelisted
  <2> HIDE DEF q
  <2>2. [q EXCEPT !.pc = "readOnly"] \in Request /\ RequestOK([q EXCEPT !.pc = "readOnly"], config)
    BY <1>1, <2>1, Moved DEF Stages
  <2> QED
    BY <2>1, <2>2, Zenon
<1>4. CASE ~Whitelisted(q.op)
  <2>1. PICK cred \in Presented(q.op), client \in ClientIDs :
          LET verdict == FirstMatch(config.chain, q.protocol, cred)
          IN  IF verdict.decision # "Allow"
                THEN Continue(c, Respond(q, "Unauthenticated"))
                ELSE Continue(c, [q EXCEPT !.pc = IF q.op \in Streams THEN "validate" ELSE "readOnly",
                                           !.credentials = cred, !.authType = verdict.authType,
                                           !.client = IF verdict.authType = "oidc" THEN client ELSE ""])
    BY <1>4, Zenon DEF Authenticate, validateAuthDecision, ensureAuthzContext
  <2>2. cred \in Credentials
    BY Zenon DEF Presented
  <2> HIDE DEF q
  <2> DEFINE verdict == FirstMatch(config.chain, q.protocol, cred)
  <2>3. CASE verdict.decision # "Allow"
    <3>1. Respond(q, "Unauthenticated") \in Request /\ RequestOK(Respond(q, "Unauthenticated"), config)
      BY <1>1, Responded DEF Statuses
    <3> QED
      BY <2>1, <2>3, <3>1, Zenon
  <2>4. CASE verdict.decision = "Allow"
    <3> DEFINE pc == IF q.op \in Streams THEN "validate" ELSE "readOnly"
               id == IF verdict.authType = "oidc" THEN client ELSE ""
               r == [q EXCEPT !.pc = pc, !.credentials = cred, !.authType = verdict.authType, !.client = id]
    <3>1. verdict.authType \in EntryTypes /\ Vouched(config, q.protocol, cred, verdict.authType)
      BY <1>1, <1>2, <2>4, VerdictIsOfAnAuthenticator, Zenon
    <3>2. pc \in {"validate", "readOnly"} /\ id \in ClientIDs
      BY Zenon DEF ClientIDs
    <3>3. Continue(c, r)
      BY <2>1, <2>4, Zenon
    <3> HIDE DEF pc, id, verdict
    <3>4. r \in Request /\ RequestOK(r, config)
      BY <1>1, <2>2, <3>1, <3>2, Admitted, Zenon
    <3> QED
      BY <3>3, <3>4, Zenon
  <2> QED
    BY <2>3, <2>4, Zenon
<1> QED
  BY <1>3, <1>4, Zenon

LEMMA MapErrorOK == ASSUME NEW cause PROVE MapError(cause) \in Statuses \ {"none", "OK"}
  BY DEF MapError, Statuses

LEMMA HandleOK ==
  ASSUME RequestsInv, NEW c \in Clients, Validate(c) \/ ReadOnly(c) \/ Handle(c)
  PROVE  \E r \in Request : Continue(c, r) /\ RequestOK(r, config)
<1> DEFINE q == req[c]
           to(pc) == [q EXCEPT !.pc = pc]
<1>1. q \in Request /\ RequestOK(q, config) /\ q.pc \in {"validate", "readOnly", "handle"}
  BY Zenon DEF RequestsInv, Validate, ReadOnly, Handle
<1>2. \A status \in Statuses \ {"OK"} :
        Respond(q, status) \in Request /\ RequestOK(Respond(q, status), config)
  BY <1>1, Responded, Zenon
<1>3. q.op \in Operations /\ (q.op \in Streams => q.op \notin Writes)
  BY <1>1 DEF Request, Streams, Writes
<1>4. CASE Validate(c)
  <2>1. \/ q.op \in Streams /\ Continue(c, to("handle"))
        \/ q.op \notin Streams /\ Continue(c, to("authenticate"))
        \/ Continue(c, Respond(q, "InvalidArgument"))
    BY <1>4, Zenon DEF Validate
  <2>2. q.pc = "validate"
    BY <1>4 DEF Validate
  <2>3. "InvalidArgument" \in Statuses \ {"OK"} /\ "handle" \in Stages \ {"done"} /\ "authenticate" \in Stages \ {"done"}
    BY DEF Statuses, Stages
  <2> HIDE DEF q
  <2>4. q.op \in Streams => q.op \in Health \/ Authenticated(q, config)
    BY <1>1, <2>2 DEF RequestOK, PastAuthentication
  <2>5. q.op \in Streams => to("handle") \in Request /\ RequestOK(to("handle"), config)
    BY <1>1, <1>3, <2>2, <2>3, <2>4, Moved
  <2>6. q.op \notin Streams => to("authenticate") \in Request /\ RequestOK(to("authenticate"), config)
    BY <1>1, <2>2, <2>3, Moved
  <2> HIDE DEF to
  <2> QED
    BY <1>2, <2>1, <2>3, <2>5, <2>6, Zenon
<1>5. CASE ReadOnly(c)
  <2>1. \/ config.readOnly /\ q.op \in Writes /\ Continue(c, Respond(q, "Unavailable"))
        \/ ~(config.readOnly /\ q.op \in Writes) /\ Continue(c, to("handle"))
    BY <1>5, Zenon DEF ReadOnly, IsWriteEndpoint
  <2>2. q.pc = "readOnly"
    BY <1>5 DEF ReadOnly
  <2>3. "Unavailable" \in Statuses \ {"OK"} /\ "handle" \in Stages \ {"done"}
    BY DEF Statuses, Stages
  <2> HIDE DEF q
  <2>4. q.op \in Health \/ Authenticated(q, config)
    BY <1>1, <2>2 DEF RequestOK, PastAuthentication
  <2>5. ~(config.readOnly /\ q.op \in Writes) => to("handle") \in Request /\ RequestOK(to("handle"), config)
    BY <1>1, <2>2, <2>3, <2>4, Moved
  <2> HIDE DEF to
  <2> QED
    BY <1>2, <2>1, <2>3, <2>5, Zenon
<1>6. CASE Handle(c)
  <2>1. \/ \E cause : Continue(c, Respond(q, MapError(cause)))
        \/ (q.op \in Health \/ MetaAuthorized(q)) /\ Continue(c, to("call"))
    BY <1>6, Zenon DEF Handle
  <2>2. q.pc = "handle"
    BY <1>6, Zenon DEF Handle
  <2>3. "call" \in Stages \ {"done"} /\ \A cause : MapError(cause) \in Statuses \ {"OK"}
    BY MapErrorOK DEF Stages
  <2>4. MetaAuthorized(q) = Gate(q, config)
    BY GateIsMetaAuthorized
  <2> HIDE DEF q
  <2>5. (q.op \in Health \/ Authenticated(q, config)) /\ (config.readOnly => q.op \notin Writes)
    BY <1>1, <2>2 DEF RequestOK, PastAuthentication
  <2>6. q.op \in Health \/ MetaAuthorized(q) => to("call") \in Request /\ RequestOK(to("call"), config)
    BY <1>1, <2>2, <2>3, <2>4, <2>5, Moved
  <2> HIDE DEF to
  <2> QED
    BY <1>2, <2>1, <2>3, <2>6, Zenon
<1> QED
  BY <1>4, <1>5, <1>6, Zenon

LEMMA CallOK ==
  ASSUME RequestsInv, NEW c \in Clients,
         \/ CallHealth(c) \/ CallResource(c) \/ CallCheck(c) \/ CallTuples(c) \/ CallFails(c)
         \/ OpenStream(c) \/ StreamEntry(c) \/ StreamEnds(c)
  PROVE  \E r \in Request : Continue(c, r) /\ RequestOK(r, config)
<1> DEFINE q == req[c]
<1>1. q \in Request /\ RequestOK(q, config) /\ q.pc \in {"call", "stream"}
  <2>1. req[c].pc \in {"call", "stream"}
    BY Zenon DEF CallHealth, CallResource, CallCheck, CallTuples, CallFails, OpenStream, StreamEntry, StreamEnds
  <2> QED
    BY <2>1 DEF RequestsInv
<1>2. \A status \in Statuses : Respond(q, status) \in Request /\ RequestOK(Respond(q, status), config)
  BY <1>1, Responded, Zenon
<1>3. "OK" \in Statuses /\ "Unavailable" \in Statuses /\ \A cause : MapError(cause) \in Statuses
  BY MapErrorOK DEF Statuses
<1>4. CASE CallHealth(c) \/ CallCheck(c) \/ CallTuples(c)
  <2>1. Continue(c, Respond(q, "OK"))
    BY <1>4, Zenon DEF CallHealth, CallCheck, CallTuples
  <2> QED
    BY <1>2, <1>3, <2>1, Zenon
<1>5. CASE CallResource(c)
  <2>1. Continue(c, Respond(q, "OK")) \/ \E cause : Continue(c, Respond(q, MapError(cause)))
    BY <1>5, Zenon DEF CallResource
  <2> QED
    BY <1>2, <1>3, <2>1, Zenon
<1>6. CASE CallFails(c)
  <2>1. \E cause : Continue(c, Respond(q, MapError(cause)))
    BY <1>6, Zenon DEF CallFails
  <2> QED
    BY <1>2, <1>3, <2>1, Zenon
<1>7. CASE StreamEnds(c)
  <2>1. Continue(c, Respond(q, "OK")) \/ Continue(c, Respond(q, "Unavailable"))
    BY <1>7, Zenon DEF StreamEnds
  <2> QED
    BY <1>2, <1>3, <2>1, Zenon
<1>8. CASE OpenStream(c)
  <2>1. PICK filter \in Filters : Continue(c, [q EXCEPT !.pc = "stream", !.pending = filter \cap tuples])
    BY <1>8, Zenon DEF OpenStream
  <2>2. filter \cap tuples \in SUBSET Tuples
    BY SimpleRelationsAssumption
  <2> QED
    BY <1>1, <2>1, <2>2, Streamed, Zenon
<1>9. CASE StreamEntry(c)
  <2>1. PICK t : Continue(c, [q EXCEPT !.pending = q.pending \ {t}])
    BY <1>9, Zenon DEF StreamEntry
  <2>2. q.pc = "stream"
    BY <1>9, Zenon DEF StreamEntry
  <2> HIDE DEF q
  <2>3. q.pending \ {t} \in SUBSET Tuples
    BY <1>1 DEF Request
  <2>4. [q EXCEPT !.pending = q.pending \ {t}] = [q EXCEPT !.pc = "stream", !.pending = q.pending \ {t}]
    BY <1>1, <2>2, Zenon DEF Request
  <2> QED
    BY <1>1, <2>1, <2>3, <2>4, Streamed, Zenon
<1> QED
  BY <1>4, <1>5, <1>6, <1>7, <1>8, <1>9, Zenon

\* The row changes at a report or a delete alone, and a server in read-only mode
\* calls neither.
LEMMA RowStep ==
  ASSUME RequestsInv, [RequestsNext]_requestVars
  PROVE  config' = config /\ row' \in BOOLEAN /\ (config.readOnly => row' = row)
<1>1. row \in BOOLEAN
  BY DEF RequestsInv
<1>2. CASE UNCHANGED <<config, row>>
  BY <1>1, <1>2
<1>3. ASSUME NEW c \in Clients, CallResource(c)
      PROVE  config' = config /\ row' \in BOOLEAN /\ (config.readOnly => row' = row)
  <2>1. config' = config /\ row' \in {TRUE, FALSE, row}
    BY <1>3, Zenon DEF CallResource
  <2>2. req[c].pc = "call" /\ req[c].op \in Writes /\ RequestOK(req[c], config)
    BY <1>3, Zenon DEF CallResource, RequestsInv
  <2>3. ~config.readOnly
    <3> DEFINE q == req[c]
    <3> HIDE DEF q
    <3>1. q.pc = "call" /\ q.op \in Writes /\ RequestOK(q, config)
      BY <2>2 DEF q
    <3> QED
      BY <3>1 DEF RequestOK
  <2> QED
    BY <1>1, <2>1, <2>3, Zenon
<1>4. ASSUME NEW c \in Clients,
             \/ Arrive(c) \/ Validate(c) \/ Authenticate(c) \/ ReadOnly(c) \/ Handle(c)
             \/ CallHealth(c) \/ CallCheck(c) \/ CallTuples(c) \/ CallFails(c)
             \/ OpenStream(c) \/ StreamEntry(c) \/ StreamEnds(c)
      PROVE  UNCHANGED <<config, row>>
  BY <1>4, Zenon DEF Arrive, Validate, Authenticate, ReadOnly, Handle, CallHealth, CallCheck, CallTuples,
     CallFails, OpenStream, StreamEntry, StreamEnds
<1>5. CASE UNCHANGED requestVars
  BY <1>2, <1>5, Zenon DEF requestVars
<1> QED
  BY <1>2, <1>3, <1>4, <1>5, Zenon DEF RequestsNext, Process

LEMMA RequestsStep ==
  ASSUME RequestsInv, [RequestsNext]_requestVars
  PROVE  RequestsInv'
<1>1. config' = config /\ row' \in BOOLEAN
  BY RowStep
<1>2. CASE UNCHANGED req
  BY <1>1, <1>2 DEF RequestsInv
<1>3. ASSUME NEW c \in Clients, \E r \in Request : Continue(c, r) /\ RequestOK(r, config)
      PROVE  RequestsInv'
  BY <1>1, <1>3, OneRequestMoves, Zenon
<1>4. ASSUME NEW c \in Clients, Arrive(c) PROVE RequestsInv'
  <2>1. PICK protocol \in Protocols : \E op \in Served(protocol) :
          Continue(c, [NoRequest EXCEPT !.op = op, !.protocol = protocol,
                         !.pc = IF op \in Streams THEN "authenticate" ELSE "validate"])
    BY <1>4, Zenon DEF Arrive
  <2>2. Served(protocol) \subseteq Operations
    BY DEF Served
  <2> QED
    BY <1>3, <2>1, <2>2, ArriveOK, Zenon
<1>5. ASSUME NEW c \in Clients, Process(c) PROVE RequestsInv'
  BY <1>3, <1>5, AuthenticateOK, HandleOK, CallOK, Zenon DEF Process
<1>6. CASE UNCHANGED requestVars
  BY <1>2, <1>6, Zenon DEF requestVars
<1> QED
  BY <1>2, <1>4, <1>5, <1>6, Zenon DEF RequestsNext

LEMMA RequestsInitial == RequestsInit => RequestsInv
  BY NoRequestOK DEF RequestsInit, RequestsInv

\* For any clients and configurations: nothing gets past the gate of the usecases
\* that the meta-authorizers did not let through, or whose credentials no enabled
\* authenticator allowed; and the claims it carries are those of the first that did.
THEOREM OnlyTheAdmittedAreAnswered == RequestsSpec => []AnsweredOnlyIfAdmitted
<1>1. RequestsInv => AnsweredOnlyIfAdmitted
  <2> SUFFICES ASSUME RequestsInv, NEW c \in Clients,
                      req[c].pc \in {"call", "stream"} \/ req[c].status = "OK", req[c].op \notin Health
               PROVE  /\ Vouched(config, req[c].protocol, req[c].credentials, req[c].authType)
                      /\ req[c].protocol = "http" <=> req[c].op = "CheckSelf"
                      /\ req[c].protocol = "http" => req[c].authType = "x-rh-identity"
                      /\ req[c].op \in TupleService /\ ~config.allowUnauthenticated =>
                           req[c].authType = "oidc" /\ config.allowlist \cap {"*", req[c].client} # {}
    BY Zenon DEF AnsweredOnlyIfAdmitted, Vouched
  <2> DEFINE q == req[c]
  <2>1. q \in Request /\ RequestOK(q, config)
    BY DEF RequestsInv
  <2>2. (q.pc \in {"call", "stream"} \/ q.status = "OK") /\ q.op \notin Health
    OBVIOUS
  <2> HIDE DEF q
  <2>3. Authenticated(q, config) /\ Gate(q, config)
    BY <2>1, <2>2 DEF RequestOK, PastAuthentication
  <2>4. q.protocol \in {"http", "grpc"}
    BY <2>1 DEF Request, Protocols
  <2>5. /\ q.protocol = "http" <=> q.op = "CheckSelf"
        /\ q.protocol = "http" => q.authType = "x-rh-identity"
    BY <2>3, <2>4, Zenon DEF Gate, SimpleMetaAuthorizer, TupleService
  <2>6. q.op \in TupleService /\ ~config.allowUnauthenticated =>
          q.authType = "oidc" /\ config.allowlist \cap {"*", q.client} # {}
    BY <2>3, Zenon DEF Gate
  <2>7. Vouched(config, q.protocol, q.credentials, q.authType)
    BY <2>3, Zenon DEF Authenticated
  <2> QED
    BY <2>5, <2>6, <2>7, Zenon DEF q
<1>2. RequestsInv /\ [RequestsNext]_requestVars => RequestsInv'
  BY RequestsStep
<1> QED
  BY <1>1, <1>2, RequestsInitial, PTL DEF RequestsSpec

\* For any clients: a server in read-only mode leaves the resources as they are.
THEOREM ReadOnlyModeKeepsResources == RequestsSpec => ReadOnlyKeepsResources
<1>1. RequestsInv /\ [RequestsNext]_requestVars => RequestsInv'
  BY RequestsStep
<1>2. RequestsInv /\ [RequestsNext]_requestVars => [config.readOnly => row' = row]_requestVars
  BY RowStep
<1> QED
  BY <1>1, <1>2, RequestsInitial, PTL DEF RequestsSpec, ReadOnlyKeepsResources

\* The stages, statuses and results of the requests, and the versions, snapshots
\* and tuples of the repository have their types.
THEOREM RequestsAreWellTyped == RequestsSpec => []RequestsTypeOK
<1>1. StoreInv /\ RequestsInv => RequestsTypeOK
  <2> SUFFICES ASSUME StoreInv, RequestsInv PROVE RequestsTypeOK
    OBVIOUS
  <2>1. version \in 1 .. MaxRevisions /\ version \in 1 .. version /\ 1 .. version \subseteq 1 .. MaxRevisions
    BY SimpleRelationsAssumption, SMTT(30) DEF StoreInv
  <2>2. \A v \in 1 .. version : past[v] \in SUBSET Tuples
    BY SMTT(30) DEF StoreInv
  <2>3. SimpleTypeOK
    BY <2>1, <2>2 DEF StoreInv, SimpleTypeOK
  <2> QED
    BY <2>3 DEF RequestsInv, RequestsTypeOK
<1>2. RequestsInit => StoreInv /\ RequestsInv
  BY StoreInitial, RequestsInitial DEF RequestsInit
<1>3. StoreInv /\ RequestsInv /\ [RequestsNext]_requestVars => StoreInv' /\ RequestsInv'
  BY StoreInductive, RequestsStep
<1> QED
  BY <1>1, <1>2, <1>3, PTL DEF RequestsSpec

----
(* ReadAfterWrite: the subscriptions *)

RpcType == rpc \in [Requests -> {"idle"} \cup Waiting \cup Answered]

SubsInv == RpcType /\ SubscriptionsMatch

LEMMA ReturnUnsubscribes ==
  ASSUME SubsInv, NEW r \in Requests, NEW outcome \in Answered, Return(r, outcome)
  PROVE  SubsInv'
  BY DEF SubsInv, RpcType, SubscriptionsMatch, Return, Waiting, Answered

LEMMA SubsStep == SubsInv /\ [Next]_vars => SubsInv'
<1> SUFFICES ASSUME SubsInv, [Next]_vars PROVE SubsInv'
  OBVIOUS
<1>1. ASSUME NEW r \in Requests, Subscribe(r) \/ Commit(r) \/ EnterWait(r) PROVE SubsInv'
  BY <1>1, SMTT(30) DEF Subscribe, Commit, EnterWait, SubsInv, RpcType, SubscriptionsMatch, Waiting, Answered
<1>2. ASSUME NEW r \in Requests, ReturnEarly(r) \/ SkipWait(r) \/ Timeout(r) PROVE SubsInv'
  BY <1>2, ReturnUnsubscribes, Zenon DEF ReturnEarly, SkipWait, Timeout, Answered
<1>3. ASSUME NEW r \in Requests, TakeNotification(r) PROVE SubsInv'
  <2>1. CASE Return(r, "notified")
    BY <2>1, ReturnUnsubscribes DEF Answered
  <2>2. CASE UNCHANGED <<rpc, subs>>
    BY <2>2 DEF SubsInv, RpcType, SubscriptionsMatch
  <2> QED
    BY <1>3, <2>1, <2>2, Zenon DEF TakeNotification
<1>4. CASE UNCHANGED <<rpc, subs>>
  BY <1>4 DEF SubsInv, RpcType, SubscriptionsMatch
<1>5. ASSUME NEW t \in Others, CommitOther(t) PROVE UNCHANGED <<rpc, subs>>
  BY <1>5 DEF CommitOther
<1>6. Notify \/ Distribute \/ BreakerTimeout \/ LoseConnection \/ UNCHANGED vars => UNCHANGED <<rpc, subs>>
  BY DEF Notify, ProcessMessage, TokenUpdateFails, Lock, ensureConnected, Connect, Exec, Distribute, BreakerTimeout, LoseConnection, handlerVars, vars
<1> QED
  BY <1>1, <1>2, <1>3, <1>4, <1>5, <1>6 DEF Next, HandlerStep

\* On every path out of a report, the early returns, the breaker's refusals and
\* the deadline included, the handler's subscription is gone when it answers.
THEOREM SubscriptionsAlwaysMatch == Spec => []SubscriptionsMatch
<1>1. Init => SubsInv
  BY DEF Init, SubsInv, RpcType, SubscriptionsMatch, Waiting
<1>2. SubsInv => SubscriptionsMatch
  BY DEF SubsInv
<1> QED
  BY <1>1, <1>2, SubsStep, PTL DEF Spec

----
(* The notifications *)

\* The ids of the events whose tuples and token are written.
ReplicatedIds == {log[i] : i \in 1 .. processed}

LogType == log \in Seq(Ids) /\ processed \in 0 .. Len(log)

\* Only ids of replicated events are sent, on the wire, or in a channel.
SentInv ==
  /\ sending \in ReplicatedIds \cup {NoTxId}
  /\ npc \in {"ensure", "ensuring", "exec"} => sending \in ReplicatedIds
  /\ wire \in Seq(ReplicatedIds)
  /\ chan \in [Requests -> Seq(ReplicatedIds)]

NotifiedInv == LogType /\ SentInv /\ RpcType /\ \A r \in Requests : rpc[r] = "notified" => r \in ReplicatedIds

LEMMA SeqMonotone ==
  ASSUME NEW S, NEW T, S \subseteq T, NEW s \in Seq(S) PROVE s \in Seq(T)
  OBVIOUS

LEMMA AppendSeq ==
  ASSUME NEW S, NEW s \in Seq(S), NEW e \in S PROVE Append(s, e) \in Seq(S)
  OBVIOUS

LEMMA HeadTail ==
  ASSUME NEW S, NEW s \in Seq(S), s # <<>> PROVE Head(s) \in S /\ Tail(s) \in Seq(S)
  OBVIOUS

LEMMA LogGrows ==
  ASSUME LogType, NEW t \in Ids, log' = Append(log, t), processed' = processed
  PROVE  LogType' /\ ReplicatedIds' = ReplicatedIds
<1>1. /\ log' \in Seq(Ids) /\ Len(log') = Len(log) + 1 /\ Len(log) \in Nat
      /\ \A i \in 1 .. Len(log) : log'[i] = log[i]
  BY DEF LogType
<1>2. processed \in 0 .. Len(log)
  BY DEF LogType
<1>3. \A i \in 1 .. processed : log'[i] = log[i]
  BY <1>1, <1>2
<1> QED
  BY <1>1, <1>2, <1>3 DEF LogType, ReplicatedIds

\* A handler answers, or goes on, and the rest is as it was.
LEMMA HandlerReturns ==
  ASSUME NotifiedInv, NEW r \in Requests, NEW outcome \in Answered, outcome = "notified" => r \in ReplicatedIds,
         Return(r, outcome), UNCHANGED <<log, wire, notifierVars>>
  PROVE  NotifiedInv'
<1>1. LogType' /\ ReplicatedIds' = ReplicatedIds
  BY DEF NotifiedInv, LogType, ReplicatedIds, notifierVars
<1>2. RpcType' /\ \A s \in Requests : rpc'[s] = "notified" => s \in ReplicatedIds
  BY DEF NotifiedInv, RpcType, Return, Answered
<1>3. SentInv'
  BY <1>1, SMTT(30) DEF NotifiedInv, SentInv, Return, notifierVars
<1> QED
  BY <1>1, <1>2, <1>3 DEF NotifiedInv

\* A step of a handler, or of another origin, that only moves its control or
\* appends to the log.
LEMMA HandlerMoves ==
  ASSUME NotifiedInv, RpcType', \A r \in Requests : rpc'[r] = "notified" => rpc[r] = "notified",
         UNCHANGED <<chan, wire, notifierVars>>, log' = log \/ \E t \in Ids : log' = Append(log, t)
  PROVE  NotifiedInv'
<1>1. processed' = processed /\ sending' = sending /\ npc' = npc /\ wire' = wire /\ chan' = chan
  BY DEF notifierVars
<1>2. LogType' /\ ReplicatedIds' = ReplicatedIds
  <2>1. CASE log' = log
    BY <1>1, <2>1 DEF NotifiedInv, LogType, ReplicatedIds
  <2>2. ASSUME NEW t \in Ids, log' = Append(log, t) PROVE LogType' /\ ReplicatedIds' = ReplicatedIds
    BY <1>1, <2>2, LogGrows DEF NotifiedInv
  <2> QED
    BY <2>1, <2>2
<1>3. SentInv'
  BY <1>1, <1>2 DEF NotifiedInv, SentInv
<1>4. \A r \in Requests : rpc'[r] = "notified" => r \in ReplicatedIds'
  BY <1>2 DEF NotifiedInv
<1> QED
  BY <1>2, <1>3, <1>4 DEF NotifiedInv

LEMMA NotifierStep == ASSUME NotifiedInv, Notify PROVE NotifiedInv'
<1>1. LogType /\ SentInv /\ RpcType
  BY DEF NotifiedInv
<1>2. CASE ProcessMessage
  <2>1. /\ processed \in Nat /\ processed + 1 \in 1 .. Len(log) /\ processed' = processed + 1
        /\ sending' = log[processed + 1] /\ npc' = "ensure" /\ UNCHANGED <<handlerVars, wire>>
    BY <1>1, <1>2 DEF ProcessMessage, LogType
  <2>2. LogType'
    BY <1>1, <2>1 DEF LogType, handlerVars
  <2>3. ReplicatedIds \subseteq ReplicatedIds' /\ sending' \in ReplicatedIds'
    BY <2>1 DEF ReplicatedIds, handlerVars
  <2>4. wire' \in Seq(ReplicatedIds') /\ chan' \in [Requests -> Seq(ReplicatedIds')]
    <3>1. \A s \in Seq(ReplicatedIds) : s \in Seq(ReplicatedIds')
      BY <2>3, SeqMonotone
    <3>2. wire' = wire /\ chan' = chan
      BY <2>1 DEF handlerVars
    <3> QED
      BY <1>1, <3>1, <3>2 DEF SentInv
  <2>5. SentInv'
    BY <2>1, <2>3, <2>4 DEF SentInv
  <2>6. RpcType' /\ \A r \in Requests : rpc'[r] = "notified" => r \in ReplicatedIds'
    BY <2>1, <2>3 DEF NotifiedInv, RpcType, handlerVars
  <2> QED
    BY <2>2, <2>5, <2>6 DEF NotifiedInv
<1>3. CASE TokenUpdateFails
  <2>1. /\ processed \in Nat /\ processed + 1 \in 1 .. Len(log) /\ processed' = processed + 1
        /\ npc = "idle" /\ npc' = "idle" /\ UNCHANGED <<handlerVars, wire, sending>>
    BY <1>1, <1>3 DEF TokenUpdateFails, LogType
  <2>2. LogType'
    BY <1>1, <2>1 DEF LogType, handlerVars
  <2>3. ReplicatedIds \subseteq ReplicatedIds'
    BY <2>1, SMTT(30) DEF ReplicatedIds, handlerVars
  <2>4. wire' \in Seq(ReplicatedIds') /\ chan' \in [Requests -> Seq(ReplicatedIds')]
    <3>1. \A s \in Seq(ReplicatedIds) : s \in Seq(ReplicatedIds')
      BY <2>3, SeqMonotone
    <3>2. wire' = wire /\ chan' = chan
      BY <2>1 DEF handlerVars
    <3> QED
      BY <1>1, <3>1, <3>2 DEF SentInv
  <2>5. SentInv'
    BY <1>1, <2>1, <2>3, <2>4 DEF SentInv
  <2>6. RpcType' /\ \A r \in Requests : rpc'[r] = "notified" => r \in ReplicatedIds'
    BY <2>1, <2>3 DEF NotifiedInv, RpcType, handlerVars
  <2> QED
    BY <2>2, <2>5, <2>6 DEF NotifiedInv
<1>4. ASSUME UNCHANGED <<handlerVars, processed>>, SentInv' PROVE NotifiedInv'
  BY <1>4 DEF NotifiedInv, LogType, RpcType, ReplicatedIds, handlerVars
<1>5. CASE Lock \/ ensureConnected \/ Connect
  <2>1. /\ UNCHANGED <<handlerVars, processed, sending, wire>> /\ ReplicatedIds' = ReplicatedIds
        /\ npc' \in {"ensure", "ensuring", "exec"} => sending \in ReplicatedIds
    BY <1>1, <1>5 DEF Lock, ensureConnected, Connect, SentInv, ReplicatedIds, handlerVars
  <2> QED
    BY <1>1, <1>4, <2>1 DEF SentInv, handlerVars
<1>6. CASE Exec
  <2>1. /\ UNCHANGED <<handlerVars, processed>> /\ ReplicatedIds' = ReplicatedIds /\ npc' = "idle" /\ sending' = NoTxId
        /\ sending \in ReplicatedIds /\ wire' \in {wire, Append(wire, sending)}
    BY <1>1, <1>6 DEF Exec, SentInv, ReplicatedIds, handlerVars
  <2>2. wire' \in Seq(ReplicatedIds)
    BY <1>1, <2>1, AppendSeq DEF SentInv
  <2> QED
    BY <1>1, <1>4, <2>1, <2>2 DEF SentInv, handlerVars
<1> QED
  BY <1>2, <1>3, <1>5, <1>6 DEF Notify

LEMMA NotifiedStep == NotifiedInv /\ [Next]_vars => NotifiedInv'
<1> SUFFICES ASSUME NotifiedInv, [Next]_vars PROVE NotifiedInv'
  OBVIOUS
<1>1. ASSUME NEW r \in Requests, Subscribe(r) \/ Commit(r) \/ EnterWait(r) PROVE NotifiedInv'
  <2>1. /\ UNCHANGED <<chan, wire, notifierVars>> /\ log' \in {log, Append(log, r)} /\ r \in Ids
        /\ \E w \in Waiting : rpc' = [rpc EXCEPT ![r] = w]
    BY <1>1 DEF Subscribe, Commit, EnterWait, Waiting, Ids
  <2>2. RpcType' /\ \A s \in Requests : rpc'[s] = "notified" => rpc[s] = "notified"
    BY <2>1 DEF NotifiedInv, RpcType, Waiting
  <2> QED
    BY <2>1, <2>2, HandlerMoves
<1>2. ASSUME NEW r \in Requests, ReturnEarly(r) \/ SkipWait(r) \/ Timeout(r) PROVE NotifiedInv'
  <2>1. UNCHANGED <<log, wire, notifierVars>> /\ \E a \in Answered \ {"notified"} : Return(r, a)
    BY <1>2, Zenon DEF ReturnEarly, SkipWait, Timeout, Answered
  <2> QED
    BY <2>1, HandlerReturns
<1>3. ASSUME NEW r \in Requests, TakeNotification(r) PROVE NotifiedInv'
  <2>1. chan[r] \in Seq(ReplicatedIds) /\ chan[r] # <<>> /\ UNCHANGED <<log, wire, notifierVars>>
    BY <1>3 DEF TakeNotification, NotifiedInv, SentInv
  <2>2. Head(chan[r]) \in ReplicatedIds /\ Tail(chan[r]) \in Seq(ReplicatedIds)
    BY <2>1, HeadTail
  <2>3. CASE Head(chan[r]) = r
    <3>1. Return(r, "notified") /\ "notified" \in Answered
      BY <1>3, <2>3 DEF TakeNotification, Answered
    <3> QED
      BY <2>1, <2>2, <2>3, <3>1, HandlerReturns
  <2>4. CASE Head(chan[r]) # r
    <3>1. chan' = [chan EXCEPT ![r] = Tail(chan[r])] /\ UNCHANGED rpc
      BY <1>3, <2>4 DEF TakeNotification
    <3>2. LogType' /\ ReplicatedIds' = ReplicatedIds /\ RpcType'
      BY <2>1, <3>1 DEF NotifiedInv, LogType, ReplicatedIds, RpcType, notifierVars
    <3>3. SentInv'
      BY <2>1, <2>2, <3>1, <3>2 DEF NotifiedInv, SentInv, notifierVars
    <3> QED
      BY <3>1, <3>2, <3>3 DEF NotifiedInv
  <2> QED
    BY <2>3, <2>4
<1>4. ASSUME NEW t \in Others, CommitOther(t) PROVE NotifiedInv'
  <2>1. UNCHANGED <<rpc, chan, wire, notifierVars>> /\ log' = Append(log, t) /\ t \in Ids
    BY <1>4 DEF CommitOther, Ids
  <2>2. RpcType' /\ \A s \in Requests : rpc'[s] = "notified" => rpc[s] = "notified"
    BY <2>1 DEF NotifiedInv, RpcType
  <2> QED
    BY <2>1, <2>2, HandlerMoves
<1>5. CASE Distribute
  <2>1. wire \in Seq(ReplicatedIds) /\ wire # <<>>
    BY <1>5 DEF Distribute, NotifiedInv, SentInv
  <2>2. Head(wire) \in ReplicatedIds /\ Tail(wire) \in Seq(ReplicatedIds)
    BY <2>1, HeadTail
  <2>3. LogType' /\ ReplicatedIds' = ReplicatedIds /\ RpcType' /\ UNCHANGED <<rpc, notifierVars>>
    BY <1>5 DEF Distribute, NotifiedInv, LogType, ReplicatedIds, RpcType, notifierVars
  <2>4. chan' \in [Requests -> Seq(ReplicatedIds)]
    <3>1. \A r \in Requests : chan[r] \in Seq(ReplicatedIds) /\ Append(chan[r], Head(wire)) \in Seq(ReplicatedIds)
      BY <2>2, AppendSeq DEF NotifiedInv, SentInv
    <3> QED
      BY <1>5, <3>1 DEF Distribute
  <2>5. SentInv'
    BY <1>5, <2>2, <2>3, <2>4 DEF Distribute, NotifiedInv, SentInv, notifierVars
  <2> QED
    BY <2>3, <2>5 DEF NotifiedInv
<1>6. CASE BreakerTimeout \/ LoseConnection \/ UNCHANGED vars
  <2>1. UNCHANGED <<rpc, chan, log, wire, processed, npc, sending>>
    BY <1>6 DEF BreakerTimeout, LoseConnection, vars, handlerVars, notifierVars
  <2> QED
    BY <2>1 DEF NotifiedInv, LogType, SentInv, RpcType, ReplicatedIds
<1> QED
  BY <1>1, <1>2, <1>3, <1>4, <1>5, <1>6, NotifierStep, Zenon DEF Next, HandlerStep

\* A handler that answers as notified does so after its own event's tuples and
\* token were written, however notifications of other events fill, overtake or
\* are dropped from its channel and whenever the notifier's connection is lost.
THEOREM NotifiedMeansReplicated == Spec => []NotifiedIsReplicated
<1>1. Init => NotifiedInv
  BY SMTT(30) DEF Init, NotifiedInv, LogType, SentInv, RpcType, ReplicatedIds
<1>2. NotifiedInv => NotifiedIsReplicated
  BY DEF NotifiedInv, NotifiedIsReplicated, ReplicatedIds
<1> QED
  BY <1>1, <1>2, NotifiedStep, PTL DEF Spec

----
(* The breaker *)

BreakerType ==
  breaker \in [state : {"closed", "open", "half-open"}, generation : Nat, requests : Nat, failures : Nat]

Probes(r) == rpc[r] = "waiting" /\ admitted[r] = breaker.generation

\* No request was admitted by a later generation than the breaker's own, and
\* a half-open breaker that has counted no request has admitted none.
ProbeInv ==
  /\ BreakerType /\ RpcType
  /\ admitted \in [Requests -> Nat]
  /\ \A r \in Requests : admitted[r] <= breaker.generation
  /\ breaker.state = "half-open" /\ breaker.requests = 0 => \A r \in Requests : ~Probes(r)
  /\ breaker.state = "half-open" => \A r, s \in Requests : Probes(r) /\ Probes(s) => r = s

\* A breaker that enters a generation has admitted none of the requests.
LEMMA NewGenerationProbes ==
  ASSUME ProbeInv, NEW state \in {"closed", "open", "half-open"}, breaker' = NewGeneration(state),
         RpcType', UNCHANGED admitted
  PROVE  ProbeInv'
<1>1. /\ breaker.generation \in Nat /\ BreakerType'
      /\ breaker'.generation = breaker.generation + 1
  BY SMTT(30) DEF ProbeInv, BreakerType, NewGeneration
<1>2. \A r \in Requests : admitted'[r] \in Nat /\ admitted'[r] < breaker'.generation
  BY <1>1 DEF ProbeInv
<1>3. \A r \in Requests : ~Probes(r)'
  BY <1>1, <1>2 DEF Probes
<1> QED
  BY <1>1, <1>2, <1>3 DEF ProbeInv

LEMMA SameGenerationProbes ==
  ASSUME ProbeInv, BreakerType', RpcType', UNCHANGED admitted,
         breaker'.generation = breaker.generation, breaker'.state = breaker.state, breaker'.requests = breaker.requests,
         \A r \in Requests : rpc'[r] = "waiting" => rpc[r] = "waiting"
  PROVE  ProbeInv'
<1>1. \A r \in Requests : Probes(r)' => Probes(r)
  BY DEF Probes
<1> QED
  BY <1>1 DEF ProbeInv

LEMMA AfterRequestProbes ==
  ASSUME ProbeInv, NEW r \in Requests, NEW outcome \in Answered, Return(r, outcome),
         NEW success \in BOOLEAN, AfterRequest(r, success), UNCHANGED admitted
  PROVE  ProbeInv'
<1>1. RpcType' /\ \A s \in Requests : rpc'[s] = "waiting" => rpc[s] = "waiting"
  BY DEF Return, ProbeInv, RpcType, Answered
<1>2. \/ \E state \in {"closed", "open", "half-open"} : breaker' = NewGeneration(state)
      \/ \E n \in Nat : breaker' = [breaker EXCEPT !.failures = n]
  <2>1. breaker.failures \in Nat /\ breaker.failures + 1 \in Nat /\ 0 \in Nat
    BY SMTT(30) DEF ProbeInv, BreakerType
  <2>2. breaker = [breaker EXCEPT !.failures = breaker.failures]
    BY DEF ProbeInv, BreakerType
  <2> QED
    BY <2>1, <2>2, Zenon DEF AfterRequest
<1>3. ASSUME NEW n \in Nat, breaker' = [breaker EXCEPT !.failures = n]
      PROVE  BreakerType' /\ breaker'.generation = breaker.generation /\ breaker'.state = breaker.state
             /\ breaker'.requests = breaker.requests
  BY <1>3 DEF ProbeInv, BreakerType
<1> QED
  BY <1>1, <1>2, <1>3, NewGenerationProbes, SameGenerationProbes

LEMMA ProbeStep == ProbeInv /\ [Next]_vars => ProbeInv'
<1> SUFFICES ASSUME ProbeInv, [Next]_vars PROVE ProbeInv'
  OBVIOUS
<1>1. ASSUME UNCHANGED <<breaker, admitted>>, RpcType', \A r \in Requests : rpc'[r] = "waiting" => rpc[r] = "waiting"
      PROVE  ProbeInv'
  BY <1>1, SameGenerationProbes DEF ProbeInv, BreakerType
<1>2. ASSUME NEW r \in Requests, Subscribe(r) \/ Commit(r) \/ ReturnEarly(r) \/ SkipWait(r) PROVE ProbeInv'
  <2>1. /\ UNCHANGED <<breaker, admitted>>
        /\ \E w \in {"subscribed", "committed", "failed", "skipped"} : rpc' = [rpc EXCEPT ![r] = w]
    BY <1>2 DEF Subscribe, Commit, ReturnEarly, SkipWait, Return
  <2> QED
    BY <1>1, <2>1 DEF ProbeInv, RpcType, Waiting, Answered
<1>3. ASSUME NEW r \in Requests, EnterWait(r) PROVE ProbeInv'
  <2>1. /\ breaker.state = "closed" \/ (breaker.state = "half-open" /\ breaker.requests = 0)
        /\ RpcType' /\ BreakerType' /\ admitted' \in [Requests -> Nat]
        /\ breaker'.generation = breaker.generation /\ breaker'.state = breaker.state
        /\ breaker.state = "half-open" => breaker'.requests = 1
    BY <1>3, SMTT(30) DEF EnterWait, Admits, ProbeInv, BreakerType, RpcType, Waiting
  <2>2. \A s \in Requests : admitted'[s] <= breaker'.generation
    BY <1>3, <2>1, SMTT(30) DEF EnterWait, ProbeInv, BreakerType
  <2>3. \A s \in Requests : s # r => Probes(s)' = Probes(s)
    BY <1>3, <2>1 DEF EnterWait, Probes, ProbeInv, RpcType
  <2> QED
    BY <2>1, <2>2, <2>3, SMTT(30) DEF ProbeInv
<1>4. ASSUME NEW r \in Requests, Timeout(r) PROVE ProbeInv'
  BY <1>4, AfterRequestProbes, Zenon DEF Timeout, Answered
<1>5. ASSUME NEW r \in Requests, TakeNotification(r) PROVE ProbeInv'
  <2>1. CASE Head(chan[r]) = r
    BY <1>5, <2>1, AfterRequestProbes, Zenon DEF TakeNotification, Answered
  <2>2. CASE Head(chan[r]) # r
    BY <1>1, <1>5, <2>2 DEF TakeNotification, ProbeInv, RpcType
  <2> QED
    BY <2>1, <2>2
<1>6. CASE BreakerTimeout
  BY <1>6, NewGenerationProbes DEF BreakerTimeout, ProbeInv, RpcType
<1>7. CASE UNCHANGED <<rpc, breaker, admitted>>
  BY <1>1, <1>7 DEF ProbeInv, RpcType
<1>8. ASSUME NEW t \in Others, CommitOther(t) PROVE UNCHANGED <<rpc, breaker, admitted>>
  BY <1>8 DEF CommitOther
<1>9. Notify \/ Distribute \/ LoseConnection \/ UNCHANGED vars => UNCHANGED <<rpc, breaker, admitted>>
  BY DEF Notify, ProcessMessage, TokenUpdateFails, Lock, ensureConnected, Connect, Exec, Distribute, LoseConnection, handlerVars, vars
<1> QED
  BY <1>2, <1>3, <1>4, <1>5, <1>6, <1>7, <1>8, <1>9, Zenon DEF Next, HandlerStep

\* While the breaker probes, at most one report blocks on its notification:
\* results of earlier generations, whenever they arrive, admit no second one.
THEOREM OneProbeAtATime == Spec => []OneProbe
<1>1. Init => ProbeInv
  BY SMTT(30) DEF Init, ProbeInv, BreakerType, RpcType, Probes
<1>2. ProbeInv => OneProbe
  BY DEF ProbeInv, OneProbe, Probes
<1> QED
  BY <1>1, <1>2, ProbeStep, PTL DEF Spec
====

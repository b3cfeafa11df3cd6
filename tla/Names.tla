---- MODULE Names ----
(***************************************************************************)
(* The names of a resource on their way to and from the tuple store.  The  *)
(* same resource is named in reports, deletes, checks, lists and tuples,   *)
(* and each path converts the names in its own way: the constructors trim, *)
(* lower-case and replace; what is stored, sent through the outbox or read *)
(* back from the tuple store is taken as it is.                            *)
(*                                                                         *)
(* A string is known by its word and by how the word is spelled.  A        *)
(* conversion gives the set of its results: empty if it returns an error.  *)
(***************************************************************************)
EXTENDS Sequences

\* The word is "" in the empty string and in blank ones.
IsString(s) ==
  /\ s = [word |-> s.word, upper |-> s.upper, slash |-> s.slash, blank |-> s.blank]
  /\ s.upper \in BOOLEAN /\ s.slash \in BOOLEAN /\ s.blank \in BOOLEAN
  /\ s.word = "" => ~s.upper /\ ~s.slash

EmptyString == [word |-> "", upper |-> FALSE, slash |-> FALSE, blank |-> FALSE]

TrimSpace(s) == [s EXCEPT !.blank = FALSE]
ToLower(s) == [s EXCEPT !.upper = FALSE]

\* strings.ReplaceAll(s, "/", "_").
ReplaceSlash(s) == [s EXCEPT !.slash = FALSE]

\* A mistaken variant: the type is not lower-cased.
NewResourceType_KeepsCase(s) ==
  IF TrimSpace(s).word = "" THEN {} ELSE {ReplaceSlash(TrimSpace(s))}

NewResourceType(s) ==
  IF TrimSpace(s).word = "" THEN {} ELSE {ToLower(ReplaceSlash(TrimSpace(s)))}

NewReporterType(s) == IF TrimSpace(s).word = "" THEN {} ELSE {ToLower(TrimSpace(s))}

NewReporterInstanceId(s) == IF TrimSpace(s).word = "" THEN {} ELSE {ToLower(TrimSpace(s))}

NewLocalResourceId(s) == IF TrimSpace(s).word = "" THEN {} ELSE {TrimSpace(s)}

\* NewApiHref, NewConsoleHref and NewReporterVersion trim and refuse likewise.
NewURI(s) == IF TrimSpace(s).word = "" THEN {} ELSE {TrimSpace(s)}

NewLockId(s) == IF TrimSpace(s).word = "" THEN {} ELSE {TrimSpace(s)}
NewLockToken(s) == IF TrimSpace(s).word = "" THEN {} ELSE {TrimSpace(s)}

----
(* From the requests; a name is [id, type, reporter, instance] *)

\* NewReporterResourceKey: the row of the resource, and the key in its events.
Key(id, type, reporter, instance) ==
  [id |-> id, type |-> type, reporter |-> reporter, instance |-> instance]

\* NewResourceReference: what the relations repository is asked about.
Reference(id, type, reporter) == [id |-> id, type |-> type, reporter |-> reporter]

\* The instance may be absent, and is then empty in the key.
OptionalInstance(s) == IF s = EmptyString THEN {EmptyString} ELSE NewReporterInstanceId(s)

\* The console href and the reporter version may be absent likewise.
OptionalURI(s) == IF s = EmptyString THEN {EmptyString} ELSE NewURI(s)

ToReportResourceCommand(n, apiHref, consoleHref) ==
  {Key(id, type, reporter, instance) :
     id \in NewLocalResourceId(n.id), type \in NewResourceType(n.type),
     reporter \in NewReporterType(n.reporter), instance \in NewReporterInstanceId(n.instance),
     api \in NewURI(apiHref), console \in OptionalURI(consoleHref)}

\* reporterKeyFromResourceReference: a delete.
ReporterKeyFromResourceReference(n) ==
  {Key(id, type, reporter, instance) :
     id \in NewLocalResourceId(n.id), type \in NewResourceType(n.type),
     reporter \in NewReporterType(n.reporter), instance \in OptionalInstance(n.instance)}

\* resourceReferenceFromProto: the object of a check, or of a list of subjects.
\* The instance is converted and then not looked at by the repositories.
ResourceReferenceFromProto(n) ==
  {Reference(key.id, key.type, key.reporter) : key \in ReporterKeyFromResourceReference(n)}

\* subjectReferenceFromProto does not look at the instance.
SubjectReferenceFromProto(n) ==
  {Reference(id, type, reporter) :
     id \in NewLocalResourceId(n.id), type \in NewResourceType(n.type), reporter \in NewReporterType(n.reporter)}

\* ToLookupObjectsCommand: the types of a list, and its subject.
ToLookupObjectsCommand(n, subject) ==
  {<<type, reporter, ref>> : type \in NewResourceType(n.type), reporter \in NewReporterType(n.reporter),
                             ref \in SubjectReferenceFromProto(subject)}

\* ToLookupSubjectsCommand: the object, and the types of its subjects.
ToLookupSubjectsCommand(n, subject) ==
  {<<ref, type, reporter>> : ref \in ResourceReferenceFromProto(n),
                             type \in NewResourceType(subject.type), reporter \in NewReporterType(subject.reporter)}

\* relationshipToRelationsTuple: the ids are checked, the types taken as given.
RelationshipToRelationsTuple(n) ==
  {Reference(id, n.type, n.reporter) : id \in NewLocalResourceId(n.id)}

\* fencingCheckFromProto; a request need not have a fencing check.
FencingCheckFromProto(fencing) ==
  IF fencing = <<>> THEN {<<>>}
  ELSE {<<id, token>> : id \in NewLockId(fencing[1]), token \in NewLockToken(fencing[2])}

----
(* In the store, and back *)

\* buildReporterResourceKeyQuery: a key without instance finds any.
FindsRow(key, row) ==
  /\ row.id = key.id /\ row.type = key.type /\ row.reporter = key.reporter
  /\ key.instance # EmptyString => row.instance = key.instance

\* The outbox event and the message carry the key as JSON: MarshalJSON, then
\* UnmarshalJSON, which deserializes each field as it is.
KeyOfEvent(key) == Key(key.id, key.type, key.reporter, key.instance)

\* NewRelationTupleForSubject: the object has no instance.
TupleObject(key) == Reference(key.id, key.type, key.reporter)

\* resourceReferenceToSpiceDBType: the reporter and the type, joined by a slash.
\* The pair is kept, so pairs whose joined texts are the same are told apart here.
ObjectInStore(ref) == <<<<ref.reporter, ref.type>>, ref.id>>

\* spiceDBTypeToResourceReference splits the type at its slashes.
FromStore(object) ==
  IF object[1][1].slash \/ object[1][2].slash THEN {}
  ELSE {Reference(object[2], object[1][2], object[1][1])}

\* The stream of a lookup: the store gives the id, the request gave the types.
FromLookup(object, type, reporter) == Reference(object[2], type, reporter)

\* A filter's field is a sequence, empty if the field is not set. The consumer
\* sets them all from a tuple (tupleToFilter); the tuple service takes what it is
\* given (tupleFilterFromProto).
TupleFilter(id, type, reporter) == [id |-> id, type |-> type, reporter |-> reporter]
TupleToFilter(ref) == TupleFilter(<<ref.id>>, <<ref.type>>, <<ref.reporter>>)
TupleFilterFromProto(n) == TupleFilter(<<n.id>>, <<n.type>>, <<n.reporter>>)

\* tupleFilterToSpiceDBFilter wants both types or neither; an empty id is unset.
FilterInStore(filter) ==
  IF Len(filter.type) # Len(filter.reporter) THEN {}
  ELSE {[type |-> filter.reporter \o filter.type, id |-> IF filter.id = <<EmptyString>> THEN <<>> ELSE filter.id]}

\* The store's own matching (external).
Matches(filter, object) == filter.type \in {<<>>, object[1]} /\ filter.id \in {<<>>, <<object[2]>>}

\* resourceReferenceToV1Beta1: the relations service has a field for each.
ObjectInService(ref) == [namespace |-> ref.reporter, name |-> ref.type, id |-> ref.id]
FromService(object) == Reference(object.id, object.name, object.namespace)

\* ToLookupObjectsResponse: what a list returns names no instance.
ToLookupObjectsResponse(ref) ==
  [id |-> ref.id, type |-> ref.type, reporter |-> ref.reporter, instance |-> EmptyString]

----
(* Properties *)

SameButBlanks(s, t) == TrimSpace(s) = TrimSpace(t)
SameButCase(s, t) == ToLower(TrimSpace(s)) = ToLower(TrimSpace(t))
SameType(s, t) == ToLower(ReplaceSlash(TrimSpace(s))) = ToLower(ReplaceSlash(TrimSpace(t)))

SameResource(n, m) ==
  SameButBlanks(n.id, m.id) /\ SameType(n.type, m.type) /\ SameButCase(n.reporter, m.reporter)

\* The object of the tuples that the consumer writes for a row.
Replicated(key) == ObjectInStore(TupleObject(KeyOfEvent(key)))

\* However the same resource is spelled, the paths meet, and no two resources are
\* taken for each other: for a report with the names n and a request with m,
\*  - a check or a list of subjects of m asks for the object that the consumer
\*    writes for n exactly if they name the same resource, of any instance;
\*  - a delete of m finds the row of n exactly if moreover the instance is the
\*    same or left out;
\*  - an object that a list returns can be asked for, as it is, by the next check;
\*  - the tuples of n can be read back unless the reporter type has a slash;
\*  - a tuple that the tuple service is given for m is the consumer's only with
\*    the types spelled as they are stored, and a filter only with the id as well;
\*  - the filter that the consumer deletes with selects its own objects alone;
\*  - the relations service tells the same objects apart, and gives back every one.
NamesAgree(N, H) ==
  \A n \in N : \A key \in UNION {ToReportResourceCommand(n, f, g) : f, g \in H} : \A m \in N :
    /\ \A ref \in ResourceReferenceFromProto(m) :
         ObjectInStore(ref) = Replicated(key) <=> SameResource(n, m)
    /\ \A asked \in ReporterKeyFromResourceReference(m) :
         FindsRow(asked, key) <=>
           SameResource(n, m) /\ (m.instance = EmptyString \/ SameButCase(n.instance, m.instance))
    /\ \A list \in ToLookupObjectsCommand(m, m) : <<list[2], list[1]>> = Replicated(key)[1] =>
         \A again \in ResourceReferenceFromProto(
                         ToLookupObjectsResponse(FromLookup(Replicated(key), list[1], list[2]))) :
           ObjectInStore(again) = Replicated(key)
    /\ FromStore(Replicated(key)) = IF n.reporter.slash THEN {} ELSE {TupleObject(key)}
    /\ \A ref \in RelationshipToRelationsTuple(m) :
         ObjectInStore(ref) = Replicated(key) <=>
           SameResource(n, m) /\ m.type = key.type /\ m.reporter = key.reporter
    /\ \A filter \in FilterInStore(TupleFilterFromProto(m)) :
         Matches(filter, Replicated(key)) <=>
           m.id \in {EmptyString, key.id} /\ m.type = key.type /\ m.reporter = key.reporter
    /\ \A asked \in ReporterKeyFromResourceReference(m) : \A filter \in FilterInStore(TupleToFilter(TupleObject(asked))) :
         Matches(filter, Replicated(key)) <=> SameResource(n, m)
    /\ LET object == TupleObject(KeyOfEvent(key)) IN
         /\ FromService(ObjectInService(object)) = object
         /\ \A ref \in ResourceReferenceFromProto(m) :
              ObjectInService(ref) = ObjectInService(object) <=> ObjectInStore(ref) = Replicated(key)
====

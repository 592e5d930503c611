---------------------------- MODULE SchemaReleases ----------------------------
(***************************************************************************)
(* The registry of one tool's schemas, the releases of its versions to     *)
(* environments, and the admission of a schema in an environment.          *)
(* PostgresSchemaState (shared) counts and hashes both tables in manifests *)
(* that every operation verifies under lock; ManagedStore has the chain of *)
(* releases only.                                                          *)
(*                                                                         *)
(* Every operation is a step: the shared ones lock the manifests first,    *)
(* and the local ones run to their end in the only server that has the     *)
(* file open.  All but the local registerSchema are one transaction; that  *)
(* one commits row by row, and what a dead server did not write stays      *)
(* missing.  The hash of a schema is the schema, the hash of a release     *)
(* the sequence of releases it was chained from.  A call that is repeated  *)
(* returns what is there and is left out, as are the local statistics.     *)
(***************************************************************************)
EXTENDS SchemaDrift, Sequences, SequencesExt

CONSTANTS
  Versions,
  Schemas,
  Environments

ASSUME RegistryAssumption == \A s \in Schemas : IsSchema(s)

VARIABLES
  environments,      \* sg_schema_environments: enforcement by name
  tool_schemas,      \* sg_tool_schemas in the order of their id
  schema_manifest,   \* the rows that were ever registered: count and set hash
  releases,          \* sg_schema_releases in the order of their sequence
  release_manifest,  \* their count and the last hash
  schema_alerts,     \* alerts that were recorded with a change
  promoted,          \* by environment: what was released, a history variable
  releases_lost      \* somebody lost or damaged a row, a history variable

registryVars == <<environments, tool_schemas, schema_manifest, releases,
                  release_manifest, schema_alerts, promoted, releases_lost>>

Rows(s) == {s[i] : i \in DOMAIN s}
-----------------------------------------------------------------------------
(* assertSchema.                                                           *)
Undamaged(s) == s.schema = s.hash

(* verifySchemasWith: the rows are those the manifest hashed.              *)
SchemasVerify == Rows(tool_schemas) = schema_manifest

(* assertReleaseSource, schemaReleaseSourceValid.                          *)
SourceValid(r) ==
  \E s \in Rows(tool_schemas) :
    s.id = r.id /\ s.version = r.version /\ s.hash = r.hash /\ Undamaged(s)

(* Mutant of ChainIntact: every record for itself.                         *)
ChainOfSources == \A i \in DOMAIN releases : SourceValid(releases[i])

(* verifyWith, verifySchemaReleaseHistory.                                 *)
ChainIntact ==
  \A i \in DOMAIN releases :
    /\ SourceValid(releases[i])
    /\ releases[i].previous_hash =
         IF i = 1 THEN <<>> ELSE releases[i - 1].record_hash

Tip == IF releases = <<>> THEN <<>> ELSE Last(releases).record_hash

ReleasesVerify(shared) ==
  /\ ChainIntact
  /\ shared => /\ Len(releases) = release_manifest.count
               /\ Tip = release_manifest.tip

HistoryVerifies(shared) == (shared => SchemasVerify) /\ ReleasesVerify(shared)
-----------------------------------------------------------------------------
(* insertAlert: in the transaction of the change, but for the local        *)
(* registration.                                                           *)
Raise(alert) == schema_alerts' = schema_alerts \cup {alert}

(* A change is compared with the schema that was registered last.          *)
BreaksTheLast(schema) ==
  /\ tool_schemas # <<>>
  /\ Compatibility(Last(tool_schemas).schema, schema) = "breaking"

(* registerSchema: a version is registered once.  The local one commits    *)
(* the row before the alert; a server that dies between them leaves the    *)
(* alert out for good, since a registration that is repeated returns what  *)
(* is there.                                                               *)
RegisterSchema(shared, version, schema) ==
  LET row == [id |-> Cardinality(schema_manifest) + 1, version |-> version,
              hash |-> schema, schema |-> schema]
  IN  /\ shared => SchemasVerify
      /\ \A s \in Rows(tool_schemas) : s.version # version
      /\ tool_schemas' = Append(tool_schemas, row)
      /\ schema_manifest' = schema_manifest \cup {row}
      /\ \/ BreaksTheLast(schema) /\ Raise(<<"breaking_schema_drift", row.id>>)
         \/ (BreaksTheLast(schema) => ~shared) /\ UNCHANGED schema_alerts
      /\ UNCHANGED <<environments, releases, release_manifest, promoted,
                     releases_lost>>

(* Mutant of ReleasesIn: the environment is left out of the WHERE clause.  *)
ReleasesAnywhere(e) == DOMAIN releases

ReleasesIn(e) == {i \in DOMAIN releases : releases[i].environment = e}

(* Mutant of Newest: ORDER BY sequence without DESC.                       *)
Oldest(e) == releases[Min(ReleasesIn(e))]

(* ORDER BY sequence DESC LIMIT 1.                                         *)
Newest(e) == releases[Max(ReleasesIn(e))]

(* What a promotion means for the callers of the current release.          *)
Judgement(e, candidate) ==
  IF ReleasesIn(e) = {} THEN "initial"
  ELSE Compatibility(Newest(e).hash, candidate.hash)

Release(e, candidate) ==
  [environment |-> e, id |-> candidate.id, version |-> candidate.version,
   hash |-> candidate.hash, compatibility |-> Judgement(e, candidate),
   previous_hash |-> Tip, record_hash |-> Append(Tip, <<e, candidate.id>>)]

(* promoteSchemaRelease: forward or back to any registered version.  What  *)
(* breaks callers of the current release needs evidence of a review.       *)
PromoteSchemaRelease(shared, e, candidate, reviewed) ==
  LET release == Release(e, candidate)
      breaking == release.compatibility = "breaking"
  IN  /\ HistoryVerifies(shared)
      /\ environments[e] # "absent"
      /\ Undamaged(candidate)
      /\ ReleasesIn(e) # {} => Newest(e).id # candidate.id
      /\ breaking => reviewed
      /\ releases' = Append(releases, release)
      /\ release_manifest' =
           [count |-> release_manifest.count + 1, tip |-> release.record_hash]
      /\ promoted' = [promoted EXCEPT ![e] = Append(@,
           [schema |-> candidate.schema, reviewed |-> reviewed /\ breaking])]
      /\ Raise(<<"schema_promoted", release.record_hash>>)
      /\ UNCHANGED <<environments, tool_schemas, schema_manifest, releases_lost>>

CreateEnvironment(e) ==
  /\ environments[e] = "absent"
  /\ environments' = [environments EXCEPT ![e] = "observe"]
  /\ UNCHANGED <<tool_schemas, schema_manifest, releases, release_manifest,
                 schema_alerts, promoted, releases_lost>>

(* updateEnvironmentSchemaEnforcement.                                     *)
UpdateEnforcement(e, mode) ==
  /\ environments[e] \notin {"absent", mode}
  /\ environments' = [environments EXCEPT ![e] = mode]
  /\ Raise(<<"schema_enforcement_changed", e>>)
  /\ UNCHANGED <<tool_schemas, schema_manifest, releases, release_manifest,
                 promoted, releases_lost>>

(* The newest release of the environment, with its source.                 *)
CurrentRelease(e, schema) ==
  /\ ReleasesIn(e) # {}
  /\ SourceValid(Newest(e))
  /\ Newest(e).hash = schema

(* schemaAdmission, one snapshot.                                          *)
SchemaAdmission(shared, e, schema) ==
  /\ shared => SchemasVerify
  /\ environments[e] # "absent"
  /\ environments[e] = "enforce" =>
       /\ shared => ReleasesVerify(shared)
       /\ CurrentRelease(e, schema)

(* Somebody deletes a release, deletes a schema that was not released (a   *)
(* released one is referenced), or overwrites a schema.                    *)
LoseRelease ==
  /\ \/ \E i \in DOMAIN releases :
          releases' = RemoveAt(releases, i) /\ UNCHANGED tool_schemas
     \/ \E i \in DOMAIN tool_schemas :
          /\ \A r \in Rows(releases) : r.id # tool_schemas[i].id
          /\ tool_schemas' = RemoveAt(tool_schemas, i) /\ UNCHANGED releases
     \/ \E i \in DOMAIN tool_schemas :
          /\ tool_schemas[i].schema # Empty
          /\ tool_schemas' = [tool_schemas EXCEPT ![i].schema = Empty]
          /\ UNCHANGED releases
  /\ releases_lost' = TRUE
  /\ UNCHANGED <<environments, schema_manifest, release_manifest, schema_alerts,
                 promoted>>

(* bootstrapTenant.                                                        *)
RegistryInit(created) ==
  /\ environments = [e \in Environments |->
       IF e \in created THEN "observe" ELSE "absent"]
  /\ tool_schemas = <<>> /\ schema_manifest = {}
  /\ releases = <<>> /\ release_manifest = [count |-> 0, tip |-> <<>>]
  /\ schema_alerts = {}
  /\ promoted = [e \in Environments |-> <<>>]
  /\ releases_lost = FALSE
-----------------------------------------------------------------------------
(* Properties.                                                             *)

(* The verification of the shared store fails if and only if a registered  *)
(* schema or a release was lost or damaged.  The local one fails exactly   *)
(* if a schema that was released is damaged, or a release is missing that  *)
(* one that is left was chained after: it cannot tell a loss at the tail.  *)
ReleaseLossIsNoticed(shared) ==
  IF shared THEN HistoryVerifies(shared) <=> ~releases_lost
  ELSE HistoryVerifies(shared) <=>
         \A r \in Rows(releases) :
           /\ \A s \in Rows(tool_schemas) : s.id = r.id => Undamaged(s)
           /\ IsPrefix(r.record_hash, [i \in DOMAIN releases |->
                         <<releases[i].environment, releases[i].id>>])

(* A release that nobody reviewed keeps accepting every call that the one  *)
(* before it in its environment accepted, also when releases of other      *)
(* environments or a release back to an older version come in between.     *)
(* Three cases are left out: the local store has lost rows; the change was *)
(* classified as undecided; or it declares a further optional property of  *)
(* an object that was open (Comparable), for which it does not hold, see   *)
(* ProvenCompatible below.                                                 *)
UnreviewedKeepsCalls(shared, allArguments) ==
  \A e \in Environments : \A i \in 2..Len(promoted[e]) :
    LET old == promoted[e][i - 1]  new == promoted[e][i]
    IN  /\ ~new.reviewed
        /\ shared \/ ~releases_lost
        /\ Compatibility(old.schema, new.schema) # "review"
        /\ Comparable(old.schema, new.schema)
        => \A arguments \in allArguments :
             Accepts(old.schema, arguments) => Accepts(new.schema, arguments)

(* docs/DECISIONS.md says that a change without a proven rule is never     *)
(* silently backward compatible: what is released with that judgement, and *)
(* without a review, accepts every call that was accepted before.          *)
ProvenCompatible(shared, allArguments) ==
  \A e \in Environments : \A i \in 2..Len(promoted[e]) :
    LET old == promoted[e][i - 1]  new == promoted[e][i]
    IN  /\ ~new.reviewed
        /\ shared \/ ~releases_lost
        /\ Compatibility(old.schema, new.schema) = "backward_compatible"
        => \A arguments \in allArguments :
             Accepts(old.schema, arguments) => Accepts(new.schema, arguments)
=============================================================================

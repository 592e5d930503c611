----------------------------- MODULE ManagedTools -----------------------------
(***************************************************************************)
(* From a tool that an MCP server offers to its execution: GuardedMcpClient *)
(* keeps the schemas it was told of, reports their drift to the            *)
(* application, and asks the managed server to validate every call with    *)
(* the schema it keeps; the managed server admits the schema in the        *)
(* environment the caller names, from the registry of SchemaReleases.      *)
(*                                                                         *)
(* A caller is one listTools() or callTool() of the application; all of    *)
(* them share one client.  A caller that gets an error takes no further    *)
(* step.  The arguments are left to Accepts.                               *)
(***************************************************************************)
EXTENDS SchemaReleases

CONSTANTS
  Callers,
  none,       \* no schema: the tool is not offered, or not known
  Anywhere,   \* the call names no environment
  Arguments,  \* what callers may pass to the tool
  Scenarios   \* bounds: the schemas there are, and how often things happen

Bounds ==
  [schemas : SUBSET Schemas, offered : SUBSET Schemas, sharing : SUBSET BOOLEAN,
   registrations : Nat, promotions : Nat, policies : Nat, losses : Nat,
   offers : Nat, lists : Nat, calls : Nat]

ASSUME ToolsAssumption ==
  /\ none \notin Schemas /\ Anywhere \notin Environments
  /\ \A arguments \in Arguments : AreArguments(arguments)
  /\ Scenarios \subseteq Bounds

VARIABLES
  shared,     \* the registry is in PostgreSQL
  offered,    \* the schema the MCP server has for the tool
  declared,   \* GuardedMcpClient.schemas
  agreed,     \* schemas onDrift was called for without throwing, and the first
  callers,    \* where every listTools() or callTool() is
  bounds

toolVars == <<offered, declared, agreed>>
vars == <<registryVars, toolVars, shared, callers, bounds>>

At(c, pc) == callers[c].pc = pc
Goto(c, pc) == callers' = [callers EXCEPT ![c].pc = pc]
Spend(what) == bounds[what] > 0 /\ bounds' = [bounds EXCEPT ![what] = @ - 1]
-----------------------------------------------------------------------------
(* The MCP server is deployed anew, or drops the tool.                     *)
Offer(s) ==
  /\ offered # s /\ offered' = s
  /\ Spend("offers")
  /\ UNCHANGED <<registryVars, declared, agreed, shared, callers>>

ListTools(c) ==
  /\ At(c, "idle")
  /\ Goto(c, "listing")
  /\ Spend("lists")
  /\ UNCHANGED <<registryVars, toolVars, shared>>

(* The client asks for the list once if it does not know the tool.         *)
CallTool(c, e) ==
  /\ At(c, "idle")
  /\ callers' = [callers EXCEPT
       ![c].pc = IF declared = none THEN "listing" ELSE "validating",
       ![c].calling = TRUE, ![c].environment = e, ![c].schema = declared]
  /\ Spend("calls")
  /\ UNCHANGED <<registryVars, toolVars, shared>>

AnswerList(c) ==
  /\ At(c, "listing")
  /\ callers' = [callers EXCEPT ![c].pc = "listed", ![c].schema = offered]
  /\ UNCHANGED <<registryVars, toolVars, shared, bounds>>

Store(s) == declared' = s /\ agreed' = agreed \cup {s}
Drifted(s) == declared # none /\ declared # s

(* Mutant of ReceiveList: the schema is stored before onDrift is awaited.  *)
ReceiveListAtOnce(c) ==
  LET s == callers[c].schema
  IN  /\ At(c, "listed")
      /\ Goto(c, IF s # none /\ Drifted(s) THEN "reporting" ELSE "refreshed")
      /\ declared' = IF s = none THEN declared ELSE s
      /\ agreed' = IF s = none \/ Drifted(s) THEN agreed ELSE agreed \cup {s}
      /\ UNCHANGED <<registryVars, offered, shared, bounds>>

(* A tool that is not in the list stays known; one that is new or has not  *)
(* changed is stored at once; a drift is reported first.                   *)
ReceiveList(c) ==
  LET s == callers[c].schema
  IN  /\ At(c, "listed")
      /\ IF s # none /\ Drifted(s)
         THEN Goto(c, "reporting") /\ UNCHANGED <<declared, agreed>>
         ELSE /\ Goto(c, "refreshed")
              /\ IF s = none THEN UNCHANGED <<declared, agreed>> ELSE Store(s)
      /\ UNCHANGED <<registryVars, offered, shared, bounds>>

(* onDrift returned; if it throws, so does listTools() or callTool().      *)
DriftAgreed(c) ==
  /\ At(c, "reporting")
  /\ Store(callers[c].schema)
  /\ Goto(c, "refreshed")
  /\ UNCHANGED <<registryVars, offered, shared, bounds>>

(* callTool() goes on with what is known now.                              *)
Resume(c) ==
  /\ At(c, "refreshed") /\ callers[c].calling /\ declared # none
  /\ callers' = [callers EXCEPT ![c].pc = "validating", ![c].schema = declared]
  /\ UNCHANGED <<registryVars, toolVars, shared, bounds>>

(* POST /v1/validate accepts the call.  For the properties, a caller       *)
(* remembers whether its schema is the release of the environment, as the  *)
(* history of the promotions has it.                                       *)
Released(e, s) ==
  \/ environments[e] = "observe"
  \/ promoted[e] # <<>> /\ Last(promoted[e]).schema = s

Validate(c) ==
  LET e == callers[c].environment  s == callers[c].schema
  IN  /\ At(c, "validating")
      /\ e # Anywhere => SchemaAdmission(shared, e, s)
      /\ callers' = [callers EXCEPT ![c].pc = "accepted",
                                ![c].released = e = Anywhere \/ Released(e, s)]
      /\ UNCHANGED <<registryVars, toolVars, shared, bounds>>

Execute(c) ==
  /\ At(c, "accepted")
  /\ Goto(c, "executed")
  /\ UNCHANGED <<registryVars, toolVars, shared, bounds>>

ClientNext ==
  \/ \E s \in bounds.schemas \cup {none} : Offer(s)
  \/ \E c \in Callers :
       \/ ListTools(c) \/ AnswerList(c) \/ ReceiveList(c) \/ DriftAgreed(c)
       \/ \E e \in Environments \cup {Anywhere} : CallTool(c, e)
       \/ Resume(c) \/ Validate(c) \/ Execute(c)
-----------------------------------------------------------------------------
(* The names of versions are arbitrary, so which is next is no matter.     *)
Unnamed == {v \in Versions : \A s \in schema_manifest : s.version # v}
Fresh == CHOOSE v \in Unnamed : TRUE

RegistryNext ==
  /\ \/ /\ Spend("registrations") /\ Unnamed # {}
        /\ \E s \in bounds.schemas : RegisterSchema(shared, Fresh, s)
     \/ /\ Spend("promotions")
        /\ \E e \in Environments, candidate \in Rows(tool_schemas),
              reviewed \in BOOLEAN :
             PromoteSchemaRelease(shared, e, candidate, reviewed)
     \/ /\ Spend("policies")
        /\ \E e \in Environments : \/ CreateEnvironment(e)
                                   \/ \E mode \in {"observe", "enforce"} :
                                        UpdateEnforcement(e, mode)
     \/ Spend("losses") /\ LoseRelease
  /\ UNCHANGED <<toolVars, shared, callers>>

Init ==
  /\ bounds \in Scenarios
  /\ shared \in bounds.sharing
  /\ \E e \in Environments : RegistryInit({e})
  /\ offered \in bounds.offered
  /\ declared = none /\ agreed = {}
  /\ callers = [c \in Callers |->
       [pc |-> "idle", calling |-> FALSE, environment |-> Anywhere,
        schema |-> none, released |-> FALSE]]

Next == ClientNext \/ RegistryNext
Spec == Init /\ [][Next]_vars
-----------------------------------------------------------------------------
(* Properties.                                                             *)

(* A call that is accepted or executed in an environment that enforces     *)
(* releases was declared with the schema that was the last one promoted to *)
(* that environment at the moment it was admitted: whatever the MCP server *)
(* offers, the client still keeps and the registry has lost, but for a     *)
(* local registry that lost its newest release and admits the one before.  *)
AdmittedWasReleased ==
  \A c \in Callers :
    callers[c].pc \in {"accepted", "executed"} /\ (shared \/ ~releases_lost)
      => callers[c].released

(* No call is validated or executed with a schema whose drift the          *)
(* application was not told of, or refused, however lists overlap.         *)
RefusedDriftIsNotUsed ==
  \A c \in Callers :
    callers[c].pc \in {"validating", "accepted", "executed"}
      => callers[c].schema \in agreed

(* ReleaseLossIsNoticed of SchemaReleases in this deployment.              *)
LostReleaseIsNoticed == ReleaseLossIsNoticed(shared)

(* A release that nobody reviewed keeps accepting every call there is that *)
(* the one before it in its environment accepted, but for the three cases  *)
(* that UnreviewedKeepsCalls of SchemaReleases names: local loss, a change *)
(* that was classified as undecided, and an optional property declared on  *)
(* an object that was open.                                                *)
UnreviewedReleaseKeepsCalls == UnreviewedKeepsCalls(shared, Arguments)

(* What docs/DECISIONS.md promises of a change that is classified as       *)
(* backward compatible (ProvenCompatible of SchemaReleases), with no case  *)
(* left out but local loss: no call that was accepted is refused.          *)
BackwardCompatibleIsProven == ProvenCompatible(shared, Arguments)
-----------------------------------------------------------------------------
(* The inductive invariant.                                                *)

SchemaRow ==
  [id : Nat, version : Versions, hash : Schemas, schema : Schemas \cup {Empty}]
Hash == Seq(Environments \X Nat)
ReleaseRow ==
  [environment : Environments, id : Nat, version : Versions, hash : Schemas,
   compatibility : {"initial", "identical", "breaking", "review", "backward_compatible"},
   previous_hash : Hash, record_hash : Hash]
Caller ==
  [pc : {"idle", "listing", "listed", "reporting", "refreshed", "validating",
         "accepted", "executed"},
   calling : BOOLEAN, environment : Environments \cup {Anywhere},
   schema : Schemas \cup {none}, released : BOOLEAN]

RegistryTypeOK ==
  /\ environments \in [Environments -> {"absent", "observe", "enforce"}]
  /\ tool_schemas \in Seq(SchemaRow) /\ schema_manifest \subseteq SchemaRow
  /\ IsFiniteSet(schema_manifest)
  /\ releases \in Seq(ReleaseRow) /\ release_manifest \in [count : Nat, tip : Hash]
  /\ promoted \in [Environments -> Seq([schema : Schemas, reviewed : BOOLEAN])]
  /\ releases_lost \in BOOLEAN /\ shared \in BOOLEAN

ClientTypeOK ==
  /\ offered \in Schemas \cup {none} /\ declared \in Schemas \cup {none}
  /\ callers \in [Callers -> Caller]

TypeOK == RegistryTypeOK /\ ClientTypeOK /\ bounds \in Bounds

(* A row has its number for itself and is damaged only by being emptied,   *)
(* and a release is of a row that is there.                                *)
RowsInv ==
  /\ \A s \in schema_manifest : s.id <= Cardinality(schema_manifest) /\ Undamaged(s)
  /\ \A i \in DOMAIN tool_schemas :
       /\ tool_schemas[i].id <= Cardinality(schema_manifest)
       /\ tool_schemas[i].schema \in {tool_schemas[i].hash, Empty}
       /\ \A j \in DOMAIN tool_schemas : tool_schemas[i].id = tool_schemas[j].id => i = j
  /\ \A r \in Rows(releases) : \E s \in Rows(tool_schemas) :
       s.id = r.id /\ s.version = r.version /\ s.hash = r.hash

(* A hash is at least as long as the chain that is left before it, and     *)
(* grows by at least one from every release to the next.                   *)
HashesInv ==
  \A i \in DOMAIN releases :
    /\ releases[i].record_hash =
         Append(releases[i].previous_hash, <<releases[i].environment, releases[i].id>>)
    /\ Len(releases[i].record_hash) >= i
    /\ \A j \in i..Len(releases) :
         Len(releases[j].record_hash) - Len(releases[i].record_hash) >= j - i

(* What is lost stays missing: nothing that the shared store does without  *)
(* verifying brings it back.                                               *)
LossInv ==
  /\ Len(releases) <= release_manifest.count
  /\ ~releases_lost => HistoryVerifies(TRUE)
  /\ shared /\ releases_lost =>
       \/ ~(schema_manifest \subseteq Rows(tool_schemas))
       \/ Len(releases) < release_manifest.count

(* The table and the history of the promotions agree on the current        *)
(* release, and what nobody reviewed broke nothing.                        *)
PromotedInv ==
  \A e \in Environments :
    /\ ~releases_lost =>
         /\ ReleasesIn(e) = {} <=> promoted[e] = <<>>
         /\ promoted[e] # <<>> => Newest(e).hash = Last(promoted[e]).schema
    /\ shared \/ ~releases_lost =>
         \A i \in 2..Len(promoted[e]) :
           promoted[e][i].reviewed
             \/ Compatibility(promoted[e][i - 1].schema, promoted[e][i].schema) # "breaking"

CallersInv ==
  /\ declared # none => declared \in agreed
  /\ RefusedDriftIsNotUsed /\ AdmittedWasReleased

IInv == TypeOK /\ RowsInv /\ HashesInv /\ LossInv /\ PromotedInv /\ CallersInv
=============================================================================

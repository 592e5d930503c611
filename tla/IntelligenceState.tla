--------------------------- MODULE IntelligenceState ---------------------------
(***************************************************************************)
(* What a tenant's failures, conformance runs and published rulesets leave *)
(* behind: in PostgresIntelligenceState three chains that one manifest     *)
(* counts and ends, in ManagedStore three plain tables.                    *)
(*                                                                         *)
(* A record hash is the sequence of what was chained so far.  Provider,    *)
(* framework and signatures are data; clusters and compatibility matrices  *)
(* are computed from the rows and change nothing.  A run or ruleset that   *)
(* is there is returned again and is left out.                             *)
(***************************************************************************)
EXTENDS Integers, Sequences, SequencesExt

VARIABLES
  histories,              \* by kind: the rows, in the order of their sequence
  intelligence_manifest,  \* by kind: how many there are, and the last hash
  intelligence_lost       \* a row was deleted, a history variable

intelligenceVars == <<histories, intelligence_manifest, intelligence_lost>>

Kinds == {"observation", "conformance", "ruleset"}

Row(id, previous) ==
  [id |-> id, previous_hash |-> previous, record_hash |-> Append(previous, id)]
Kept(kind) == {histories[kind][i].id : i \in DOMAIN histories[kind]}

(* verifyWith: all three chains.                                           *)
HistoryIntact(kind) ==
  LET rows == histories[kind]
      previous(i) == IF i = 1 THEN <<>> ELSE rows[i - 1].record_hash
  IN  /\ Len(rows) = intelligence_manifest[kind].count
      /\ \A i \in DOMAIN rows : rows[i].previous_hash = previous(i)
      /\ previous(Len(rows) + 1) = intelligence_manifest[kind].tip

IntelligenceVerifies == \A kind \in Kinds : HistoryIntact(kind)

(* The new row is chained to the manifest's tip; updateManifest.           *)
Chain(kind, id) ==
  LET row == Row(id, intelligence_manifest[kind].tip)
  IN  /\ histories' = [histories EXCEPT ![kind] = Append(@, row)]
      /\ intelligence_manifest' = [intelligence_manifest EXCEPT ![kind] =
           [count |-> @.count + 1, tip |-> row.record_hash]]
      /\ UNCHANGED intelligence_lost

(* recordObservationWithClient, recordFailureCluster: a decision without a *)
(* failure is not observed.                                                *)
RecordObservation(shared, id, decision) ==
  IF decision = "valid" THEN UNCHANGED intelligenceVars
  ELSE (shared => IntelligenceVerifies) /\ Chain("observation", id)

RecordConformanceRun(shared, report) ==
  /\ shared => IntelligenceVerifies
  /\ report \notin Kept("conformance")
  /\ Chain("conformance", report)

PublishRuleset(shared, version) ==
  /\ shared => IntelligenceVerifies
  /\ version \notin Kept("ruleset")
  /\ Chain("ruleset", version)

(* Somebody deletes a row.                                                 *)
LoseIntelligence ==
  \E kind \in Kinds : \E i \in DOMAIN histories[kind] :
    /\ histories' = [histories EXCEPT ![kind] = RemoveAt(@, i)]
    /\ intelligence_lost' = TRUE
    /\ UNCHANGED intelligence_manifest

IntelligenceInit ==
  /\ histories = [kind \in Kinds |-> <<>>]
  /\ intelligence_manifest = [kind \in Kinds |-> [count |-> 0, tip |-> <<>>]]
  /\ intelligence_lost = FALSE
-----------------------------------------------------------------------------
(* Properties.                                                             *)

(* A deleted observation, run or ruleset is noticed in the shared store,   *)
(* whatever is recorded afterwards, and nothing else looks like one.       *)
IntelligenceLossIsNoticed(shared) ==
  shared => (IntelligenceVerifies <=> ~intelligence_lost)
-----------------------------------------------------------------------------
(* The inductive invariant.                                                *)

IntelligenceTypeOK(ids) ==
  /\ histories \in
       [Kinds -> Seq([id : ids, previous_hash : Seq(ids), record_hash : Seq(ids)])]
  /\ intelligence_manifest \in [Kinds -> [count : Nat, tip : Seq(ids)]]
  /\ intelligence_lost \in BOOLEAN

(* A chain that has lost a row stays shorter than its count.               *)
IntelligenceInv(ids) ==
  /\ IntelligenceTypeOK(ids)
  /\ \A kind \in Kinds : Len(histories[kind]) <= intelligence_manifest[kind].count
  /\ IF intelligence_lost
     THEN \E kind \in Kinds : Len(histories[kind]) < intelligence_manifest[kind].count
     ELSE IntelligenceVerifies
=============================================================================

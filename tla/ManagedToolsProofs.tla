------------------------- MODULE ManagedToolsProofs -------------------------
(***************************************************************************)
(* What holds of the schema registry and its callers for every number of   *)
(* versions, environments, schemas, releases, callers and losses.          *)
(***************************************************************************)
EXTENDS ManagedTools, CountingProofs

-----------------------------------------------------------------------------
(* The keywords: a judgement that is neither breaking nor undecided.       *)
LEMMA TypesSound ==
  ASSUME NEW before, NEW after, NEW type,
         "breaking" \notin Types(before, after),
         before # {} => type \in before, after # {}
  PROVE  type \in after
BY DEF Types, Judged, When

LEMMA EnumSound ==
  ASSUME NEW before, NEW after, AtMostOne(before), AtMostOne(after),
         "breaking" \notin Enum(before, after),
         NEW v, \A values \in before : v \in values
  PROVE  \A values \in after : v \in values
<1>1. CASE before = {} \/ after = {}
  BY <1>1 DEF Enum, Judged, When
<1>2. CASE before # {} /\ after # {}
  <2>1. PICK old, new : before = {old} /\ after = {new}
    BY <1>2 DEF AtMostOne
  <2>2. UNION before = old /\ UNION after = new
    BY <2>1
  <2>3. old \subseteq new
    BY <1>2, <2>2 DEF Enum, When
  <2> QED
    BY <2>1, <2>3
<1> QED
  BY <1>1, <1>2

LEMMA PatternSound ==
  ASSUME NEW before, NEW after,
         "breaking" \notin Pattern(before, after),
         "review" \notin Pattern(before, after)
  PROVE  after = {} \/ after = before
BY DEF Pattern, Judged, When

LEMMA ConstSound ==
  ASSUME NEW before, NEW after, "breaking" \notin Const(before, after)
  PROVE  after = {} \/ after = before
BY DEF Const, Judged, When

LEMMA MinimumSound ==
  ASSUME NEW before \in SUBSET Int, NEW after \in SUBSET Int,
         AtMostOne(before), AtMostOne(after),
         "breaking" \notin Numeric(before, after, TRUE),
         NEW n \in Int, \A m \in before : n >= m
  PROVE  \A m \in after : n >= m
<1>1. before = after \/ after = {} \/ \E l \in before, r \in after : r < l
  BY DEF Numeric, Judged, When
<1> QED
  BY <1>1 DEF AtMostOne

LEMMA MaximumSound ==
  ASSUME NEW before \in SUBSET Int, NEW after \in SUBSET Int,
         AtMostOne(before), AtMostOne(after),
         "breaking" \notin Numeric(before, after, FALSE),
         NEW n \in Int, \A m \in before : n <= m
  PROVE  \A m \in after : n <= m
<1>1. before = after \/ after = {} \/ \E l \in before, r \in after : r > l
  BY DEF Numeric, Judged, When
<1> QED
  BY <1>1 DEF AtMostOne

(* What divides a divisor of n divides n.                                  *)
LEMMA DividesTransitively ==
  ASSUME NEW n \in Int, NEW l \in Nat \ {0}, NEW r \in Nat \ {0},
         n % l = 0, l % r = 0
  PROVE  n % r = 0
<1>1. PICK q \in Int : n = l * q
  <2>1. n = l * (n \div l) + (n % l) /\ n \div l \in Int
    OBVIOUS
  <2> QED
    BY <2>1
<1>2. PICK p \in Int : l = r * p
  <2>1. l = r * (l \div r) + (l % r) /\ l \div r \in Int
    OBVIOUS
  <2> QED
    BY <2>1
<1>3. n = r * (p * q)
  BY <1>1, <1>2
<1>4. p * q \in Int
  OBVIOUS
<1>5. \A k \in Int : (r * k) % r = 0
  OBVIOUS
<1> QED
  BY <1>3, <1>4, <1>5

LEMMA MultipleOfSound ==
  ASSUME NEW before \in SUBSET (Nat \ {0}), NEW after \in SUBSET (Nat \ {0}),
         AtMostOne(before), AtMostOne(after),
         "breaking" \notin MultipleOf(before, after),
         "review" \notin MultipleOf(before, after),
         NEW n \in Int, \A m \in before : n % m = 0
  PROVE  \A m \in after : n % m = 0
<1>1. CASE before = {} \/ after = {} \/ before = after
  BY <1>1 DEF MultipleOf, Judged, When
<1>2. CASE before # {} /\ after # {} /\ before # after
  <2> DEFINE judged(l, r) == IF r % l = 0 THEN {"breaking"}
                             ELSE IF l % r = 0 THEN {"non_breaking"} ELSE {"review"}
  <2>1. PICK l \in before, r \in after : TRUE
    BY <1>2
  <2>2. before = {l} /\ after = {r}
    BY <2>1 DEF AtMostOne
  <2>3. MultipleOf(before, after) = UNION {judged(x, y) : x \in before, y \in after}
    BY <1>2, SMT DEF MultipleOf
  <2>4. judged(l, r) \subseteq MultipleOf(before, after)
    <3> HIDE DEF judged
    <3> QED
      BY <2>1, <2>3
  <2>5. l % r = 0
    BY <2>4
  <2>6. l \in Nat \ {0} /\ r \in Nat \ {0} /\ n % l = 0
    BY <2>1
  <2>7. n % r = 0
    BY <2>5, <2>6, DividesTransitively
  <2> QED
    BY <2>2, <2>7
<1> QED
  BY <1>1, <1>2

(* A scalar that the old schema of a property accepted.                    *)
LEMMA KeywordsSound ==
  ASSUME NEW before, NEW after, IsScalarSchema(before), IsScalarSchema(after),
         before.kind = "object", after.kind = "object",
         "breaking" \notin Keywords(before, after),
         "review" \notin Keywords(before, after),
         NEW v, v.type = "integer" => v.n \in Int,
         AcceptsScalar(before, v)
  PROVE  AcceptsScalar(after, v)
<1> USE DEF IsScalarSchema
<1>1. after.type # {} => v.type \in after.type
  BY TypesSound DEF Keywords, AcceptsScalar
<1>2. \A values \in after.enum : v \in values
  <2>1. "breaking" \notin Enum(before.enum, after.enum)
    BY DEF Keywords
  <2>2. \A values \in before.enum : v \in values
    BY DEF AcceptsScalar
  <2>3. AtMostOne(before.enum) /\ AtMostOne(after.enum)
    OBVIOUS
  <2> QED
    BY <2>1, <2>2, <2>3, EnumSound
<1>3. \A values \in after.pattern : v \in values
  BY PatternSound DEF Keywords, AcceptsScalar
<1>4. \A c \in after.const : v = c
  BY ConstSound DEF Keywords, AcceptsScalar
<1>5. ASSUME v.type = "integer"
      PROVE  /\ \A m \in after.minimum : v.n >= m
             /\ \A m \in after.maximum : v.n <= m
             /\ \A m \in after.multipleOf : v.n % m = 0
  <2>1. \A m \in after.minimum : v.n >= m
    BY <1>5, MinimumSound DEF Keywords, AcceptsScalar
  <2>2. \A m \in after.maximum : v.n <= m
    BY <1>5, MaximumSound DEF Keywords, AcceptsScalar
  <2>3. \A m \in after.multipleOf : v.n % m = 0
    <3>1. /\ "breaking" \notin MultipleOf(before.multipleOf, after.multipleOf)
          /\ "review" \notin MultipleOf(before.multipleOf, after.multipleOf)
      BY DEF Keywords
    <3>2. \A m \in before.multipleOf : v.n % m = 0
      BY <1>5 DEF AcceptsScalar
    <3> QED
      BY <1>5, <3>1, <3>2, MultipleOfSound
  <2> QED
    BY <2>1, <2>2, <2>3
<1> QED
  BY <1>1, <1>2, <1>3, <1>4, <1>5 DEF AcceptsScalar

LEMMA ScalarsSound ==
  ASSUME NEW before, NEW after, IsScalarSchema(before), IsScalarSchema(after),
         "breaking" \notin Scalars(before, after),
         "review" \notin Scalars(before, after),
         NEW v, v.type = "integer" => v.n \in Int,
         AcceptsScalar(before, v)
  PROVE  AcceptsScalar(after, v)
<1>1. CASE before.kind = "object" /\ after.kind = "object"
  <2>1. Scalars(before, after) = Keywords(before, after)
    BY <1>1 DEF Scalars
  <2> QED
    BY <1>1, <2>1, KeywordsSound
<1>2. CASE ~(before.kind = "object" /\ after.kind = "object")
  <2>1. "breaking" \notin Booleans(before, after)
    BY <1>2 DEF Scalars
  <2>2. \/ before.kind = after.kind
        \/ before.kind # "all" /\ (after.kind = "all" \/ before.kind = "none")
    BY <2>1 DEF Booleans, Judged, When
  <2>3. before.kind # "none"
    BY DEF AcceptsScalar
  <2>4. after.kind = "all"
    BY <1>2, <2>2, <2>3 DEF IsScalarSchema, AcceptsScalar
  <2> QED
    BY <2>4 DEF AcceptsScalar
<1> QED
  BY <1>1, <1>2

(* The arguments of a call that the old schema of the tool accepted.       *)
LEMMA ObjectsSound ==
  ASSUME NEW before, NEW after, IsSchema(before), IsSchema(after),
         before.kind = "object", after.kind = "object",
         "breaking" \notin Compare(before, after),
         "review" \notin Compare(before, after),
         Comparable(before, after),
         NEW arguments, AreArguments(arguments), Accepts(before, arguments)
  PROVE  Accepts(after, arguments)
<1> DEFINE old == DOMAIN before.properties
           new == DOMAIN after.properties
           given == DOMAIN arguments
<1>1. Compare(before, after) =
        Keywords(before, after) \cup Structure(before, after)
  BY DEF Compare
<1>2. "breaking" \notin Structure(before, after) /\ "review" \notin Structure(before, after)
  BY <1>1
<1>3. after.type # {} => "object" \in after.type
  <2>1. "breaking" \notin Types(before.type, after.type)
    BY <1>1 DEF Keywords
  <2>2. before.type # {} => "object" \in before.type
    BY DEF Accepts
  <2> QED
    BY <2>1, <2>2, TypesSound
<1>4. after.required \subseteq given
  <2>1. after.required \subseteq before.required
    BY <1>2 DEF Structure, When
  <2> QED
    BY <2>1 DEF Accepts
<1>5. "breaking" \notin Properties(before, after) /\ "review" \notin Properties(before, after)
  BY <1>2 DEF Structure
<1>6. old \subseteq new
  BY <1>5 DEF Properties, When
<1>7. before.closed = after.closed \/ before.closed
  BY <1>2 DEF Structure, Judged, When
<1>8. after.closed => given \subseteq new
  BY <1>6, <1>7 DEF Accepts, IsSchema
<1>9. ASSUME NEW k \in given \cap new
      PROVE  AcceptsScalar(after.properties[k], arguments[k])
  <2>1. k \in old
    BY <1>6, <1>9 DEF Comparable, Accepts
  <2>2. Scalars(before.properties[k], after.properties[k]) \subseteq Properties(before, after)
    BY <2>1, <1>9 DEF Properties
  <2>3. AcceptsScalar(before.properties[k], arguments[k])
    BY <2>1, <1>9 DEF Accepts
  <2>4. arguments[k].type = "integer" => arguments[k].n \in Int
    BY <1>9 DEF AreArguments
  <2>5. IsScalarSchema(before.properties[k]) /\ IsScalarSchema(after.properties[k])
    BY <2>1, <1>9 DEF IsSchema
  <2> QED
    BY <1>5, <2>2, <2>3, <2>4, <2>5, ScalarsSound
<1> QED
  BY <1>3, <1>4, <1>8, <1>9 DEF Accepts

(* A change that is classified as neither breaking nor undecided is none,  *)
(* or only widens what is accepted.                                        *)
THEOREM ClassificationIsSound ==
  ASSUME NEW before, NEW after, IsSchema(before), IsSchema(after),
         Compatibility(before, after) \notin {"breaking", "review"},
         Comparable(before, after),
         NEW arguments, AreArguments(arguments), Accepts(before, arguments)
  PROVE  Accepts(after, arguments)
<1>1. CASE before = after
  BY <1>1
<1>2. CASE before # after
  <2>1. "breaking" \notin Compare(before, after) /\ "review" \notin Compare(before, after)
    BY <1>2 DEF Compatibility
  <2>2. CASE before.kind = "object" /\ after.kind = "object"
    BY <2>1, <2>2, ObjectsSound
  <2>3. CASE ~(before.kind = "object" /\ after.kind = "object")
    <3>1. "breaking" \notin Booleans(before, after)
      BY <2>1, <2>3 DEF Compare
    <3>2. \/ before.kind = after.kind
          \/ before.kind # "all" /\ (after.kind = "all" \/ before.kind = "none")
      BY <3>1 DEF Booleans, Judged, When
    <3>3. before.kind \in {"object", "all"}
      BY DEF Accepts
    <3>4. after.kind = "all"
      BY <2>3, <3>2, <3>3 DEF IsSchema, IsScalarSchema
    <3> QED
      BY <3>4 DEF Accepts
  <2> QED
    BY <2>2, <2>3
<1> QED
  BY <1>1, <1>2
-----------------------------------------------------------------------------
(* The callers and their client.                                           *)

LEMMA SpendType ==
  ASSUME NEW what \in {"registrations", "promotions", "policies", "losses",
                       "offers", "lists", "calls"},
         bounds \in Bounds, Spend(what)
  PROVE  bounds' \in Bounds
<1> DEFINE spent(n) == [bounds EXCEPT ![n] = @ - 1]
<1>1. bounds[what] > 0 /\ bounds' = spent(what)
  BY DEF Spend
<1>2. CASE what = "registrations"
  <2>1. spent("registrations") \in Bounds
    BY <1>1, <1>2 DEF Bounds
  <2> QED
    BY <1>1, <1>2, <2>1
<1>3. CASE what = "promotions"
  <2>1. spent("promotions") \in Bounds
    BY <1>1, <1>3 DEF Bounds
  <2> QED
    BY <1>1, <1>3, <2>1
<1>4. CASE what = "policies"
  <2>1. spent("policies") \in Bounds
    BY <1>1, <1>4 DEF Bounds
  <2> QED
    BY <1>1, <1>4, <2>1
<1>5. CASE what = "losses"
  <2>1. spent("losses") \in Bounds
    BY <1>1, <1>5 DEF Bounds
  <2> QED
    BY <1>1, <1>5, <2>1
<1>6. CASE what = "offers"
  <2>1. spent("offers") \in Bounds
    BY <1>1, <1>6 DEF Bounds
  <2> QED
    BY <1>1, <1>6, <2>1
<1>7. CASE what = "lists"
  <2>1. spent("lists") \in Bounds
    BY <1>1, <1>7 DEF Bounds
  <2> QED
    BY <1>1, <1>7, <2>1
<1>8. CASE what = "calls"
  <2>1. spent("calls") \in Bounds
    BY <1>1, <1>8 DEF Bounds
  <2> QED
    BY <1>1, <1>8, <2>1
<1> QED
  BY <1>2, <1>3, <1>4, <1>5, <1>6, <1>7, <1>8

(* A step that leaves the registry alone leaves what is known of it.       *)
LEMMA RegistryUntouched ==
  ASSUME RegistryTypeOK, RowsInv, HashesInv, LossInv, PromotedInv,
         UNCHANGED registryVars, UNCHANGED shared
  PROVE  (RegistryTypeOK /\ RowsInv /\ HashesInv /\ LossInv /\ PromotedInv)'
<1> USE DEF registryVars
<1>1. RegistryTypeOK'
  BY DEF RegistryTypeOK
<1>2. RowsInv'
  BY DEF RowsInv, Rows, Undamaged
<1>3. HashesInv'
  BY DEF HashesInv
<1>4. LossInv'
  BY DEF LossInv, Rows, HistoryVerifies, SchemasVerify, ReleasesVerify, ChainIntact,
         SourceValid, Undamaged, Tip
<1>5. PromotedInv'
  BY DEF PromotedInv, ReleasesIn, Newest
<1> QED
  BY <1>1, <1>2, <1>3, <1>4, <1>5

(* A step of a caller keeps what holds of all of them if it holds of the   *)
(* caller's new state.                                                     *)
LEMMA CallerStep ==
  ASSUME ClientTypeOK, CallersInv, NEW c \in Callers, NEW r \in Caller,
         callers' = [callers EXCEPT ![c] = r],
         agreed \subseteq agreed',
         offered' = offered, declared' \in Schemas \cup {none},
         declared' # none => declared' \in agreed',
         UNCHANGED <<shared, releases_lost>>,
         r.pc \in {"validating", "accepted", "executed"} => r.schema \in agreed',
         r.pc \in {"accepted", "executed"} /\ (shared \/ ~releases_lost) => r.released
  PROVE  ClientTypeOK' /\ CallersInv'
<1>1. callers'[c] = r /\ \A x \in Callers : x # c => callers'[x] = callers[x]
  BY DEF ClientTypeOK
<1>2. ClientTypeOK'
  BY DEF ClientTypeOK
<1>3. RefusedDriftIsNotUsed'
  BY <1>1 DEF CallersInv, RefusedDriftIsNotUsed
<1>4. AdmittedWasReleased'
  BY <1>1 DEF CallersInv, AdmittedWasReleased
<1> QED
  BY <1>2, <1>3, <1>4 DEF CallersInv

LEMMA GotoIsStep ==
  ASSUME ClientTypeOK, NEW c \in Callers, NEW pc, Goto(c, pc)
  PROVE  callers' = [callers EXCEPT ![c] = [callers[c] EXCEPT !.pc = pc]]
BY DEF Goto

LEMMA CallToolInv ==
  ASSUME ClientTypeOK, CallersInv, bounds \in Bounds,
         NEW c \in Callers, NEW e \in Environments \cup {Anywhere}, CallTool(c, e)
  PROVE  ClientTypeOK' /\ CallersInv' /\ bounds' \in Bounds
<1> DEFINE r == [callers[c] EXCEPT !.pc = IF declared = none THEN "listing" ELSE "validating",
                   !.calling = TRUE, !.environment = e, !.schema = declared]
<1>1. callers[c] \in Caller /\ declared \in Schemas \cup {none}
  BY DEF ClientTypeOK
<1>2. r \in Caller
  BY <1>1 DEF Caller
<1>3. /\ r.pc = IF declared = none THEN "listing" ELSE "validating"
      /\ r.schema = declared
  BY <1>1 DEF Caller
<1>4. callers' = [callers EXCEPT ![c] = r]
  BY DEF CallTool
<1>5. /\ agreed' = agreed /\ offered' = offered /\ declared' = declared
      /\ UNCHANGED <<shared, releases_lost>>
  BY DEF CallTool, toolVars, registryVars
<1>6. declared # none => declared \in agreed
  BY DEF CallersInv
<1>7. /\ r.pc \in {"validating", "accepted", "executed"} => r.schema \in agreed'
      /\ ~(r.pc \in {"accepted", "executed"})
  BY <1>3, <1>5, <1>6
<1>8. declared' \in Schemas \cup {none} /\ (declared' # none => declared' \in agreed')
  BY <1>1, <1>5, <1>6
<1>9. bounds' \in Bounds
  BY SpendType DEF CallTool
<1> HIDE DEF r
<1> QED
  BY <1>2, <1>4, <1>5, <1>7, <1>8, <1>9, CallerStep

(* The steps that only move a caller on.                                   *)
LEMMA MoveOn ==
  ASSUME ClientTypeOK, CallersInv, NEW c \in Callers,
         NEW pc \in {"listing", "reporting", "refreshed"}, Goto(c, pc),
         UNCHANGED <<registryVars, toolVars, shared>>
  PROVE  ClientTypeOK' /\ CallersInv'
<1> DEFINE r == [callers[c] EXCEPT !.pc = pc]
<1>1. callers[c] \in Caller /\ declared \in Schemas \cup {none}
  BY DEF ClientTypeOK
<1>2. r \in Caller /\ r.pc = pc
  BY <1>1 DEF Caller
<1>3. callers' = [callers EXCEPT ![c] = r]
  BY GotoIsStep
<1>4. /\ agreed' = agreed /\ offered' = offered /\ declared' = declared
      /\ UNCHANGED <<shared, releases_lost>>
  BY DEF toolVars, registryVars
<1>5. declared' \in Schemas \cup {none} /\ (declared' # none => declared' \in agreed')
  BY <1>1, <1>4 DEF CallersInv
<1>6. ~(r.pc \in {"validating", "accepted", "executed"})
  BY <1>2
<1> HIDE DEF r
<1> QED
  BY <1>2, <1>3, <1>4, <1>5, <1>6, CallerStep

(* Storing a schema records that it was agreed to.                         *)
LEMMA StoreInv ==
  ASSUME ClientTypeOK, CallersInv, NEW c \in Callers,
         Goto(c, "refreshed"), Store(callers[c].schema),
         UNCHANGED <<registryVars, offered, shared>>
  PROVE  ClientTypeOK' /\ CallersInv'
<1> DEFINE r == [callers[c] EXCEPT !.pc = "refreshed"]
<1>1. callers[c] \in Caller
  BY DEF ClientTypeOK
<1>2. r \in Caller /\ r.pc = "refreshed" /\ callers[c].schema \in Schemas \cup {none}
  BY <1>1 DEF Caller
<1>3. callers' = [callers EXCEPT ![c] = r]
  BY GotoIsStep
<1>4. /\ agreed \subseteq agreed' /\ offered' = offered
      /\ declared' = callers[c].schema /\ declared' \in agreed'
      /\ UNCHANGED <<shared, releases_lost>>
  BY DEF Store, registryVars
<1>5. declared' \in Schemas \cup {none}
  BY <1>2, <1>4
<1>6. ~(r.pc \in {"validating", "accepted", "executed"})
  BY <1>2
<1> HIDE DEF r
<1> QED
  BY <1>2, <1>3, <1>4, <1>5, <1>6, CallerStep

LEMMA ReceiveListInv ==
  ASSUME ClientTypeOK, CallersInv, NEW c \in Callers, ReceiveList(c)
  PROVE  ClientTypeOK' /\ CallersInv'
<1> DEFINE s == callers[c].schema
<1>1. CASE s # none /\ Drifted(s)
  BY <1>1, MoveOn DEF ReceiveList, toolVars
<1>2. CASE ~(s # none /\ Drifted(s)) /\ s = none
  BY <1>2, MoveOn DEF ReceiveList, toolVars
<1>3. CASE ~(s # none /\ Drifted(s)) /\ s # none
  BY <1>3, StoreInv DEF ReceiveList
<1> QED
  BY <1>1, <1>2, <1>3

LEMMA AnswerListInv ==
  ASSUME ClientTypeOK, CallersInv, NEW c \in Callers, AnswerList(c)
  PROVE  ClientTypeOK' /\ CallersInv'
<1> DEFINE r == [callers[c] EXCEPT !.pc = "listed", !.schema = offered]
<1>1. /\ callers[c] \in Caller /\ declared \in Schemas \cup {none}
      /\ offered \in Schemas \cup {none}
  BY DEF ClientTypeOK
<1>2. r \in Caller /\ r.pc = "listed"
  BY <1>1 DEF Caller
<1>3. callers' = [callers EXCEPT ![c] = r]
  BY DEF AnswerList
<1>4. /\ agreed' = agreed /\ offered' = offered /\ declared' = declared
      /\ UNCHANGED <<shared, releases_lost>>
  BY DEF AnswerList, toolVars, registryVars
<1>5. declared' \in Schemas \cup {none} /\ (declared' # none => declared' \in agreed')
  BY <1>1, <1>4 DEF CallersInv
<1>6. ~(r.pc \in {"validating", "accepted", "executed"})
  BY <1>2
<1> HIDE DEF r
<1> QED
  BY <1>2, <1>3, <1>4, <1>5, <1>6, CallerStep

LEMMA ResumeInv ==
  ASSUME ClientTypeOK, CallersInv, NEW c \in Callers, Resume(c)
  PROVE  ClientTypeOK' /\ CallersInv'
<1> DEFINE r == [callers[c] EXCEPT !.pc = "validating", !.schema = declared]
<1>1. callers[c] \in Caller /\ declared \in Schemas \cup {none}
  BY DEF ClientTypeOK
<1>2. r \in Caller /\ r.pc = "validating" /\ r.schema = declared
  BY <1>1 DEF Caller
<1>3. callers' = [callers EXCEPT ![c] = r]
  BY DEF Resume
<1>4. /\ agreed' = agreed /\ offered' = offered /\ declared' = declared
      /\ UNCHANGED <<shared, releases_lost>>
  BY DEF Resume, toolVars, registryVars
<1>5. declared \in agreed
  BY DEF Resume, CallersInv
<1>6. declared' \in Schemas \cup {none} /\ (declared' # none => declared' \in agreed')
  BY <1>1, <1>4, <1>5
<1>7. r.schema \in agreed' /\ ~(r.pc \in {"accepted", "executed"})
  BY <1>2, <1>4, <1>5
<1> HIDE DEF r
<1> QED
  BY <1>2, <1>3, <1>4, <1>6, <1>7, CallerStep

(* What the environment admits is its release, as long as nothing is lost  *)
(* that the history does not show.                                         *)
LEMMA AdmissionIsReleased ==
  ASSUME RegistryTypeOK, LossInv, PromotedInv,
         NEW e \in Environments, NEW s, SchemaAdmission(shared, e, s),
         shared \/ ~releases_lost
  PROVE  Released(e, s)
<1>1. environments[e] \in {"observe", "enforce"}
  BY DEF RegistryTypeOK, SchemaAdmission
<1>2. CASE environments[e] = "observe"
  BY <1>2 DEF Released
<1>3. CASE environments[e] = "enforce"
  <2>1. CurrentRelease(e, s) /\ (shared => SchemasVerify /\ ReleasesVerify(TRUE))
    BY <1>3 DEF SchemaAdmission
  <2>2. ~releases_lost
    <3>1. SUFFICES ASSUME shared, releases_lost PROVE FALSE
      BY DEF RegistryTypeOK
    <3>2. /\ schema_manifest \subseteq Rows(tool_schemas)
          /\ Len(releases) = release_manifest.count
      BY <2>1, <3>1 DEF SchemasVerify, ReleasesVerify
    <3>3. Len(releases) \in Nat
      BY DEF RegistryTypeOK
    <3> QED
      BY <3>1, <3>2, <3>3 DEF LossInv
  <2>3. ReleasesIn(e) # {} /\ Newest(e).hash = s
    BY <2>1 DEF CurrentRelease
  <2>4. promoted[e] # <<>> /\ Last(promoted[e]).schema = s
    BY <2>2, <2>3 DEF PromotedInv
  <2> QED
    BY <2>4 DEF Released
<1> QED
  BY <1>1, <1>2, <1>3

LEMMA ValidateInv ==
  ASSUME TypeOK, LossInv, PromotedInv, CallersInv, NEW c \in Callers, Validate(c)
  PROVE  ClientTypeOK' /\ CallersInv'
<1> DEFINE e == callers[c].environment
           s == callers[c].schema
           released == e = Anywhere \/ Released(e, s)
           r == [callers[c] EXCEPT !.pc = "accepted", !.released = released]
<1>1. callers[c] \in Caller /\ declared \in Schemas \cup {none} /\ callers[c].pc = "validating"
  BY DEF TypeOK, ClientTypeOK, Validate, At
<1>2. released \in BOOLEAN
  BY DEF Released
<1>3. callers' = [callers EXCEPT ![c] = r]
  BY DEF Validate
<1>4. /\ agreed' = agreed /\ offered' = offered /\ declared' = declared
      /\ UNCHANGED <<shared, releases_lost>>
  BY DEF Validate, toolVars, registryVars
<1>5. s \in agreed /\ (declared # none => declared \in agreed)
  BY <1>1 DEF CallersInv, RefusedDriftIsNotUsed
<1>6. shared \/ ~releases_lost => released
  <2>1. SUFFICES ASSUME shared \/ ~releases_lost, e # Anywhere PROVE Released(e, s)
    OBVIOUS
  <2>2. e \in Environments
    BY <1>1, <2>1 DEF Caller
  <2>3. SchemaAdmission(shared, e, s)
    BY <2>1 DEF Validate
  <2> QED
    BY <2>1, <2>2, <2>3, AdmissionIsReleased DEF TypeOK
<1> HIDE DEF released
<1>7. r \in Caller /\ r.pc = "accepted" /\ r.schema = s /\ r.released = released
  BY <1>1, <1>2 DEF Caller
<1>8. declared' \in Schemas \cup {none} /\ (declared' # none => declared' \in agreed')
  BY <1>1, <1>4, <1>5
<1>9. r.schema \in agreed' /\ (shared \/ ~releases_lost => r.released)
  BY <1>4, <1>5, <1>6, <1>7
<1> HIDE DEF r
<1> QED
  BY <1>3, <1>4, <1>7, <1>8, <1>9, CallerStep DEF TypeOK

LEMMA ExecuteInv ==
  ASSUME ClientTypeOK, CallersInv, NEW c \in Callers, Execute(c)
  PROVE  ClientTypeOK' /\ CallersInv'
<1> DEFINE r == [callers[c] EXCEPT !.pc = "executed"]
<1>1. callers[c] \in Caller /\ declared \in Schemas \cup {none} /\ callers[c].pc = "accepted"
  BY DEF ClientTypeOK, Execute, At
<1>2. /\ r \in Caller /\ r.pc = "executed"
      /\ r.schema = callers[c].schema /\ r.released = callers[c].released
  BY <1>1 DEF Caller
<1>3. callers' = [callers EXCEPT ![c] = r]
  BY GotoIsStep DEF Execute
<1>4. /\ agreed' = agreed /\ offered' = offered /\ declared' = declared
      /\ UNCHANGED <<shared, releases_lost>>
  BY DEF Execute, toolVars, registryVars
<1>5. declared' \in Schemas \cup {none} /\ (declared' # none => declared' \in agreed')
  BY <1>1, <1>4 DEF CallersInv
<1>6. r.schema \in agreed' /\ (shared \/ ~releases_lost => r.released)
  BY <1>1, <1>2, <1>4 DEF CallersInv, RefusedDriftIsNotUsed, AdmittedWasReleased
<1> HIDE DEF r
<1> QED
  BY <1>2, <1>3, <1>4, <1>5, <1>6, CallerStep

LEMMA OfferInv ==
  ASSUME TypeOK, CallersInv, NEW s \in bounds.schemas \cup {none}, Offer(s)
  PROVE  ClientTypeOK' /\ CallersInv' /\ bounds' \in Bounds
<1>1. bounds.schemas \subseteq Schemas
  BY DEF TypeOK, Bounds
<1>2. /\ offered' = s /\ UNCHANGED <<declared, agreed, callers, shared, releases_lost>>
  BY DEF Offer, registryVars
<1>3. ClientTypeOK'
  BY <1>1, <1>2 DEF TypeOK, ClientTypeOK
<1>4. CallersInv'
  BY <1>2 DEF CallersInv, RefusedDriftIsNotUsed, AdmittedWasReleased
<1>5. bounds' \in Bounds
  BY SpendType DEF Offer, TypeOK
<1> QED
  BY <1>3, <1>4, <1>5

LEMMA ClientIInv == ASSUME IInv, ClientNext PROVE IInv'
<1> USE DEF IInv, TypeOK
<1>1. RegistryTypeOK' /\ RowsInv' /\ HashesInv' /\ LossInv' /\ PromotedInv'
  <2>1. UNCHANGED registryVars /\ UNCHANGED shared
    BY DEF ClientNext, Offer, ListTools, CallTool, AnswerList, ReceiveList, DriftAgreed,
           Resume, Validate, Execute
  <2> QED
    BY <2>1, RegistryUntouched
<1> DEFINE Kept == ClientTypeOK' /\ CallersInv' /\ bounds' \in Bounds
<1>2. Kept
  <2>1. ASSUME NEW s \in bounds.schemas \cup {none}, Offer(s) PROVE Kept
    BY <2>1, OfferInv
  <2>2. ASSUME NEW c \in Callers, ListTools(c) PROVE Kept
    BY <2>2, MoveOn, SpendType DEF ListTools
  <2>3. ASSUME NEW c \in Callers, AnswerList(c) PROVE Kept
    BY <2>3, AnswerListInv DEF AnswerList
  <2>4. ASSUME NEW c \in Callers, ReceiveList(c) PROVE Kept
    BY <2>4, ReceiveListInv DEF ReceiveList
  <2>5. ASSUME NEW c \in Callers, DriftAgreed(c) PROVE Kept
    BY <2>5, StoreInv DEF DriftAgreed
  <2>6. ASSUME NEW c \in Callers, NEW e \in Environments \cup {Anywhere}, CallTool(c, e)
        PROVE  Kept
    BY <2>6, CallToolInv
  <2>7. ASSUME NEW c \in Callers, Resume(c) PROVE Kept
    BY <2>7, ResumeInv DEF Resume
  <2>8. ASSUME NEW c \in Callers, Validate(c) PROVE Kept
    BY <2>8, ValidateInv DEF Validate
  <2>9. ASSUME NEW c \in Callers, Execute(c) PROVE Kept
    BY <2>9, ExecuteInv DEF Execute
  <2> HIDE DEF Kept
  <2> QED
    BY <2>1, <2>2, <2>3, <2>4, <2>5, <2>6, <2>7, <2>8, <2>9 DEF ClientNext
<1> QED
  BY <1>1, <1>2
-----------------------------------------------------------------------------
(* The registry.                                                           *)

(* A row more, an environment more: a release keeps its source.            *)
LEMMA SourceKept ==
  ASSUME Rows(tool_schemas) \subseteq Rows(tool_schemas)', NEW r, SourceValid(r)
  PROVE  SourceValid(r)'
BY DEF SourceValid

LEMMA RegisterInv ==
  ASSUME IInv, NEW s \in Schemas, Unnamed # {}, RegisterSchema(shared, Fresh, s),
         UNCHANGED shared
  PROVE  (RegistryTypeOK /\ RowsInv /\ HashesInv /\ LossInv /\ PromotedInv)'
<1> DEFINE n == Cardinality(schema_manifest)
           row == [id |-> n + 1, version |-> Fresh, hash |-> s, schema |-> s]
<1> USE DEF IInv, TypeOK
<1>1. /\ n \in Nat /\ tool_schemas \in Seq(SchemaRow) /\ Len(tool_schemas) \in Nat
      /\ schema_manifest \in SUBSET SchemaRow
  BY FS_CardinalityType DEF RegistryTypeOK
<1>2. Fresh \in Versions
  BY DEF Fresh, Unnamed
<1>3. row \in SchemaRow /\ row.id = n + 1 /\ Undamaged(row)
  BY <1>1, <1>2 DEF SchemaRow, Undamaged
<1>4. /\ tool_schemas' = Append(tool_schemas, row)
      /\ schema_manifest' = schema_manifest \cup {row}
      /\ UNCHANGED <<environments, releases, release_manifest, promoted, releases_lost>>
      /\ shared => SchemasVerify
  BY DEF RegisterSchema
<1>5. row \notin schema_manifest
  BY <1>1, <1>3 DEF RowsInv
<1>6. IsFiniteSet(schema_manifest') /\ Cardinality(schema_manifest') = n + 1
  BY <1>4, <1>5, FS_AddElement DEF RegistryTypeOK
<1> HIDE DEF n, row
<1>7. /\ tool_schemas' \in Seq(SchemaRow) /\ Len(tool_schemas') = Len(tool_schemas) + 1
      /\ tool_schemas'[Len(tool_schemas) + 1] = row
      /\ \A i \in DOMAIN tool_schemas : tool_schemas'[i] = tool_schemas[i]
      /\ DOMAIN tool_schemas' = DOMAIN tool_schemas \cup {Len(tool_schemas) + 1}
  BY <1>1, <1>3, <1>4, AppendProperties
<1>8. Rows(tool_schemas)' = Rows(tool_schemas) \cup {row}
  BY <1>7 DEF Rows
<1>9. RegistryTypeOK'
  BY <1>3, <1>4, <1>6, <1>7 DEF RegistryTypeOK
<1>10. RowsInv'
  <2>1. \A x \in schema_manifest' : x.id <= n + 1 /\ Undamaged(x)
    BY <1>1, <1>3, <1>4 DEF RowsInv, n, SchemaRow
  <2>2. ASSUME NEW i \in DOMAIN tool_schemas
        PROVE  /\ tool_schemas[i].id <= n /\ tool_schemas[i].id \in Nat
               /\ tool_schemas[i].schema \in {tool_schemas[i].hash, Empty}
    <3>1. tool_schemas[i] \in SchemaRow
      BY <1>1
    <3> QED
      BY <3>1 DEF RowsInv, n, SchemaRow
  <2>3. \A i \in DOMAIN tool_schemas' :
          /\ tool_schemas'[i].id <= n + 1
          /\ tool_schemas'[i].schema \in {tool_schemas'[i].hash, Empty}
    BY <1>1, <1>3, <1>7, <2>2 DEF Undamaged
  <2>4. ASSUME NEW i \in DOMAIN tool_schemas', NEW j \in DOMAIN tool_schemas',
               tool_schemas'[i].id = tool_schemas'[j].id
        PROVE  i = j
    <3>1. CASE i \in DOMAIN tool_schemas /\ j \in DOMAIN tool_schemas
      BY <1>7, <2>4, <3>1 DEF RowsInv
    <3>2. CASE ~(i \in DOMAIN tool_schemas /\ j \in DOMAIN tool_schemas)
      BY <1>1, <1>3, <1>7, <2>2, <2>4, <3>2
    <3> QED
      BY <3>1, <3>2
  <2>5. \A r \in Rows(releases)' : \E x \in Rows(tool_schemas)' :
          x.id = r.id /\ x.version = r.version /\ x.hash = r.hash
    BY <1>4, <1>8 DEF RowsInv, Rows
  <2> QED
    BY <1>6, <2>1, <2>3, <2>4, <2>5 DEF RowsInv, Undamaged
<1>11. HashesInv'
  BY <1>4 DEF HashesInv
<1>12. LossInv'
  <2>1. ASSUME ~releases_lost PROVE HistoryVerifies(TRUE)'
    <3>1. HistoryVerifies(TRUE)
      BY <2>1 DEF LossInv
    <3>2. SchemasVerify'
      BY <1>4, <1>8, <3>1 DEF HistoryVerifies, SchemasVerify
    <3>3. ChainIntact'
      BY <1>4, <1>8, <3>1, SourceKept DEF HistoryVerifies, ReleasesVerify, ChainIntact
    <3>4. ReleasesVerify(TRUE)'
      BY <1>4, <3>1, <3>3 DEF HistoryVerifies, ReleasesVerify, Tip
    <3> QED
      BY <3>2, <3>4 DEF HistoryVerifies
  <2>2. ASSUME shared, releases_lost PROVE Len(releases) < release_manifest.count
    BY <1>4, <2>2 DEF LossInv, SchemasVerify
  <2> QED
    BY <1>4, <2>1, <2>2 DEF LossInv
<1>13. PromotedInv'
  BY <1>4 DEF PromotedInv, ReleasesIn, Newest
<1> QED
  BY <1>9, <1>10, <1>11, <1>12, <1>13

LEMMA PromotedKept ==
  ASSUME PromotedInv, UNCHANGED <<releases, promoted, releases_lost, shared>>
  PROVE  PromotedInv'
BY DEF PromotedInv, ReleasesIn, Newest

LEMMA PolicyInv ==
  ASSUME IInv, NEW e \in Environments, UNCHANGED shared,
         \/ CreateEnvironment(e)
         \/ \E mode \in {"observe", "enforce"} : UpdateEnforcement(e, mode)
  PROVE  (RegistryTypeOK /\ RowsInv /\ HashesInv /\ LossInv /\ PromotedInv)'
<1> USE DEF IInv, TypeOK
<1>1. /\ UNCHANGED <<tool_schemas, schema_manifest, releases, release_manifest,
                     promoted, releases_lost, shared>>
      /\ environments' \in [Environments -> {"absent", "observe", "enforce"}]
  BY DEF CreateEnvironment, UpdateEnforcement, RegistryTypeOK
<1>2. RegistryTypeOK'
  BY <1>1 DEF RegistryTypeOK
<1>3. RowsInv'
  BY <1>1 DEF RowsInv, Rows, Undamaged
<1>4. HashesInv'
  BY <1>1 DEF HashesInv
<1>5. LossInv'
  BY <1>1 DEF LossInv, Rows, HistoryVerifies, SchemasVerify, ReleasesVerify, ChainIntact,
         SourceValid, Undamaged, Tip
<1>6. PromotedInv'
  BY <1>1, PromotedKept
<1> QED
  BY <1>2, <1>3, <1>4, <1>5, <1>6

(* The shared store that verifies has lost nothing.                        *)
LEMMA VerifiedIsComplete ==
  ASSUME RegistryTypeOK, LossInv, shared, HistoryVerifies(TRUE)
  PROVE  ~releases_lost
<1>1. Len(releases) = release_manifest.count /\ schema_manifest \subseteq Rows(tool_schemas)
  BY DEF HistoryVerifies, SchemasVerify, ReleasesVerify
<1>2. Len(releases) \in Nat
  BY DEF RegistryTypeOK
<1> QED
  BY <1>1, <1>2 DEF LossInv

LEMMA ReleasesInBounded ==
  ASSUME RegistryTypeOK, NEW e, ReleasesIn(e) # {}
  PROVE  /\ Max(ReleasesIn(e)) \in ReleasesIn(e)
         /\ Max(ReleasesIn(e)) \in 1..Len(releases)
         /\ \A i \in ReleasesIn(e) : i <= Max(ReleasesIn(e))
<1>1. Len(releases) \in Nat /\ DOMAIN releases = 1..Len(releases)
  BY DEF RegistryTypeOK
<1>2. /\ ReleasesIn(e) \in SUBSET Nat
      /\ \A x \in ReleasesIn(e) : x <= Len(releases) /\ x \in 1..Len(releases)
  BY <1>1 DEF ReleasesIn
<1> QED
  BY <1>1, <1>2, MaxIsGreatest

LEMMA PromoteInv ==
  ASSUME IInv, NEW e \in Environments, NEW candidate \in Rows(tool_schemas),
         NEW reviewed \in BOOLEAN,
         PromoteSchemaRelease(shared, e, candidate, reviewed), UNCHANGED shared
  PROVE  (RegistryTypeOK /\ RowsInv /\ HashesInv /\ LossInv /\ PromotedInv)'
<1> DEFINE n == Len(releases)
           breaking == Judgement(e, candidate) = "breaking"
           p == [schema |-> candidate.schema, reviewed |-> reviewed /\ breaking]
           release == Release(e, candidate)
<1> USE DEF IInv, TypeOK
<1>1. /\ releases \in Seq(ReleaseRow) /\ n \in Nat /\ DOMAIN releases = 1..n
      /\ candidate \in SchemaRow
  BY DEF RegistryTypeOK, Rows
<1>2. Tip \in Hash /\ (n = 0 => Tip = <<>>) /\ (n > 0 => Tip = releases[n].record_hash)
  <2>1. CASE n = 0
    <3>1. releases = <<>>
      BY <1>1, <2>1
    <3> QED
      BY <2>1, <3>1 DEF Tip, Hash
  <2>2. CASE n > 0
    <3>1. releases # <<>> /\ releases[n] \in ReleaseRow
      BY <1>1, <2>2
    <3> QED
      BY <2>2, <3>1 DEF Tip, Last, ReleaseRow
  <2> QED
    BY <1>1, <2>1, <2>2
<1>3. Judgement(e, candidate)
        \in {"initial", "identical", "breaking", "review", "backward_compatible"}
  <2>1. CASE ReleasesIn(e) = {}
    BY <2>1 DEF Judgement
  <2>2. CASE ReleasesIn(e) # {}
    BY <2>2 DEF Judgement, Compatibility
  <2> QED
    BY <2>1, <2>2
<1>4. Append(Tip, <<e, candidate.id>>) \in Hash
  BY <1>1, <1>2 DEF Hash, SchemaRow
<1>5. /\ release \in ReleaseRow
      /\ release.environment = e /\ release.id = candidate.id
      /\ release.version = candidate.version /\ release.hash = candidate.hash
      /\ release.compatibility = Judgement(e, candidate)
      /\ release.previous_hash = Tip
      /\ release.record_hash = Append(Tip, <<e, candidate.id>>)
  BY <1>1, <1>2, <1>3, <1>4 DEF Release, ReleaseRow, SchemaRow
<1>6. /\ HistoryVerifies(shared) /\ Undamaged(candidate)
      /\ releases' = Append(releases, release)
      /\ release_manifest' = [count |-> release_manifest.count + 1,
                              tip |-> release.record_hash]
      /\ promoted' = [promoted EXCEPT ![e] = Append(@, p)]
      /\ breaking => reviewed
      /\ UNCHANGED <<environments, tool_schemas, schema_manifest, releases_lost>>
  BY <1>5 DEF PromoteSchemaRelease
<1>7. candidate.schema = candidate.hash /\ candidate.schema \in Schemas
  BY <1>1, <1>6 DEF Undamaged, SchemaRow
<1> HIDE DEF release
<1>8. /\ releases' \in Seq(ReleaseRow) /\ Len(releases') = n + 1
      /\ releases'[n + 1] = release
      /\ \A i \in 1..n : releases'[i] = releases[i]
      /\ DOMAIN releases' = 1..(n + 1) /\ releases' # <<>>
  BY <1>1, <1>5, <1>6, AppendProperties
<1>9. Rows(releases)' = Rows(releases) \cup {release}
  BY <1>1, <1>8 DEF Rows
<1> HIDE DEF n
<1>10. p \in [schema : Schemas, reviewed : BOOLEAN] /\ p.schema = candidate.hash
        /\ p.reviewed = (reviewed /\ breaking)
  BY <1>7 DEF breaking
<1> HIDE DEF p, breaking
<1>11. RegistryTypeOK'
  <2>1. promoted' \in [Environments -> Seq([schema : Schemas, reviewed : BOOLEAN])]
    <3>1. promoted[e] \in Seq([schema : Schemas, reviewed : BOOLEAN])
      BY DEF RegistryTypeOK
    <3>2. Append(promoted[e], p) \in Seq([schema : Schemas, reviewed : BOOLEAN])
      BY <1>10, <3>1, AppendProperties
    <3> QED
      BY <1>6, <3>2 DEF RegistryTypeOK
  <2>2. release_manifest' \in [count : Nat, tip : Hash]
    BY <1>4, <1>5, <1>6 DEF RegistryTypeOK
  <2> QED
    BY <1>6, <1>8, <2>1, <2>2 DEF RegistryTypeOK
<1>12. RowsInv'
  <2>1. \A r \in Rows(releases)' : \E x \in Rows(tool_schemas)' :
          x.id = r.id /\ x.version = r.version /\ x.hash = r.hash
    <3>1. Rows(tool_schemas)' = Rows(tool_schemas)
      BY <1>6 DEF Rows
    <3> QED
      BY <1>5, <1>9, <3>1 DEF RowsInv
  <2> QED
    BY <1>6, <2>1 DEF RowsInv, Undamaged
<1>13. HashesInv'
  <2>1. Len(release.record_hash) = Len(Tip) + 1 /\ Len(Tip) \in Nat
    BY <1>2, <1>5 DEF Hash
  <2>2. ASSUME NEW i \in 1..n
        PROVE  Len(releases[i].record_hash) \in Nat
    <3>1. releases[i] \in ReleaseRow
      BY <1>1 DEF n
    <3> QED
      BY <3>1 DEF ReleaseRow, Hash
  <2>3. Len(Tip) >= n
    <3>1. CASE n = 0
      BY <2>1, <3>1
    <3>2. CASE n > 0
      <4>1. n \in DOMAIN releases
        BY <1>1, <3>2 DEF n
      <4>2. Len(releases[n].record_hash) >= n
        BY <4>1 DEF HashesInv
      <4> QED
        BY <1>2, <3>2, <4>2
    <3>3. n \in Nat
      BY <1>1 DEF n
    <3> QED
      BY <3>1, <3>2, <3>3
  <2>4. ASSUME NEW i \in 1..n PROVE Len(Tip) - Len(releases[i].record_hash) >= n - i
    <3>1. n > 0 /\ n \in i..Len(releases) /\ i \in DOMAIN releases
      BY <1>1 DEF n
    <3> QED
      BY <1>2, <3>1 DEF HashesInv, n
  <2>5. n \in Nat /\ DOMAIN releases = 1..n /\ Len(releases) = n
    BY <1>1 DEF n
  <2>6. ASSUME NEW i \in 1..(n + 1)
        PROVE  /\ releases'[i].record_hash = Append(releases'[i].previous_hash,
                    <<releases'[i].environment, releases'[i].id>>)
               /\ Len(releases'[i].record_hash) >= i
    <3>1. CASE i \in 1..n
      BY <1>8, <2>5, <3>1 DEF HashesInv
    <3>2. CASE i = n + 1
      <4>1. releases'[i] = release
        BY <1>8, <3>2
      <4>2. Len(Tip) + 1 >= n + 1
        BY <2>1, <2>3, <2>5
      <4> QED
        BY <1>5, <2>1, <3>2, <4>1, <4>2
    <3> QED
      BY <2>5, <3>1, <3>2
  <2>7. ASSUME NEW i \in 1..(n + 1), NEW j \in i..(n + 1)
        PROVE  Len(releases'[j].record_hash) - Len(releases'[i].record_hash) >= j - i
    <3>1. CASE j \in 1..n
      <4>1. i \in DOMAIN releases /\ j \in i..Len(releases)
        BY <2>5, <3>1
      <4>2. releases'[i] = releases[i] /\ releases'[j] = releases[j]
        BY <1>8, <2>5, <3>1
      <4> QED
        BY <4>1, <4>2 DEF HashesInv
    <3>2. CASE i \in 1..n /\ j = n + 1
      <4>1. releases'[j] = release /\ releases'[i] = releases[i]
        BY <1>8, <3>2
      <4>2. Len(Tip) - Len(releases[i].record_hash) >= n - i /\ Len(releases[i].record_hash) \in Nat
        BY <2>2, <2>4, <3>2
      <4> DEFINE last == Len(Tip)
                 len == Len(releases[i].record_hash)
      <4>3. last \in Nat /\ len \in Nat /\ last - len >= n - i /\ i \in Nat /\ n \in Nat
        BY <2>1, <2>5, <4>2
      <4> HIDE DEF last, len
      <4>4. (last + 1) - len >= (n + 1) - i
        BY <4>3
      <4> QED
        BY <2>1, <3>2, <4>1, <4>4 DEF last, len
    <3>3. CASE i = j
      <4>1. Len(releases'[i].record_hash) \in Nat
        <5>1. releases'[i] \in ReleaseRow
          BY <1>8
        <5> QED
          BY <5>1 DEF ReleaseRow, Hash
      <4> QED
        BY <3>3, <4>1
    <3>4. j \in 1..n \/ (i \in 1..n /\ j = n + 1) \/ i = j
      BY <2>5
    <3> QED
      BY <3>1, <3>2, <3>3, <3>4
  <2>8. DOMAIN releases' = 1..(n + 1) /\ Len(releases') = n + 1
    BY <1>8
  <2> QED
    BY <2>6, <2>7, <2>8 DEF HashesInv
<1>14. LossInv'
  <2>1. n + 1 <= release_manifest.count + 1
    BY <1>1 DEF LossInv, n, RegistryTypeOK
  <2>2. ASSUME shared PROVE ~releases_lost
    BY <1>6, <2>2, VerifiedIsComplete
  <2>3. ASSUME ~releases_lost PROVE HistoryVerifies(TRUE)'
    <3>1. HistoryVerifies(TRUE)
      BY <2>3 DEF LossInv
    <3>2. SchemasVerify'
      BY <1>6, <3>1 DEF HistoryVerifies, SchemasVerify, Rows
    <3>3. \E x \in Rows(tool_schemas) :
            /\ x.id = release.id /\ x.version = release.version
            /\ x.hash = release.hash /\ Undamaged(x)
      BY <1>5, <1>6
    <3>4. ASSUME NEW i \in 1..n
          PROVE  \E x \in Rows(tool_schemas) :
                   /\ x.id = releases'[i].id /\ x.version = releases'[i].version
                   /\ x.hash = releases'[i].hash /\ Undamaged(x)
      <4>1. SourceValid(releases[i]) /\ releases'[i] = releases[i]
        BY <1>1, <1>8, <3>1 DEF HistoryVerifies, ReleasesVerify, ChainIntact, n
      <4> QED
        BY <4>1 DEF SourceValid
    <3>5. ASSUME NEW i \in DOMAIN releases'
          PROVE  releases'[i].previous_hash =
                   IF i = 1 THEN <<>> ELSE releases'[i - 1].record_hash
      <4>1. CASE i \in 1..n
        <5>1. releases[i].previous_hash = IF i = 1 THEN <<>> ELSE releases[i - 1].record_hash
          BY <1>1, <3>1, <4>1 DEF HistoryVerifies, ReleasesVerify, ChainIntact, n
        <5>2. releases'[i] = releases[i] /\ (i # 1 => releases'[i - 1] = releases[i - 1])
          BY <1>1, <1>8, <4>1 DEF n
        <5> QED
          BY <5>1, <5>2
      <4>2. CASE i = n + 1
        <5>1. releases'[i].previous_hash = Tip
          BY <1>5, <1>8, <4>2
        <5>2. CASE n = 0
          BY <1>2, <4>2, <5>1, <5>2 DEF n
        <5>3. CASE n > 0
          <6>1. i # 1 /\ i - 1 = n /\ releases'[n] = releases[n]
            BY <1>1, <1>8, <4>2, <5>3 DEF n
          <6> QED
            BY <1>2, <5>1, <5>3, <6>1 DEF n
        <5> QED
          BY <1>1, <5>2, <5>3 DEF n
      <4> QED
        BY <1>1, <1>8, <4>1, <4>2 DEF n
    <3>6. \A i \in DOMAIN releases' : \E x \in Rows(tool_schemas) :
            /\ x.id = releases'[i].id /\ x.version = releases'[i].version
            /\ x.hash = releases'[i].hash /\ Undamaged(x)
      <4>1. \A i \in DOMAIN releases' : i \in 1..n \/ i = n + 1
        BY <1>1, <1>8 DEF n
      <4> QED
        BY <1>8, <3>3, <3>4, <4>1
    <3>7. ChainIntact'
      <4>1. Rows(tool_schemas)' = Rows(tool_schemas)
        BY <1>6 DEF Rows
      <4> QED
        BY <3>5, <3>6, <4>1 DEF ChainIntact, SourceValid, Undamaged
    <3>8. Tip' = release.record_hash /\ Len(releases') = release_manifest'.count
      <4>1. Len(releases) = release_manifest.count
        BY <3>1 DEF HistoryVerifies, ReleasesVerify
      <4>2. Tip' = releases'[n + 1].record_hash
        BY <1>8 DEF Tip, Last
      <4> QED
        BY <1>6, <1>8, <4>1, <4>2 DEF n
    <3>9. ReleasesVerify(TRUE)'
      BY <1>6, <3>7, <3>8 DEF ReleasesVerify
    <3> QED
      BY <3>2, <3>9 DEF HistoryVerifies
  <2>4. Len(releases') <= release_manifest'.count
    BY <1>6, <1>8, <2>1
  <2> QED
    BY <1>6, <2>2, <2>3, <2>4 DEF LossInv
<1>15. PromotedInv'
  <2>1. ASSUME shared \/ ~releases_lost PROVE ~releases_lost
    BY <1>6, <2>1, VerifiedIsComplete DEF RegistryTypeOK
  <2>2. \A f \in Environments : promoted'[f] = IF f = e THEN Append(promoted[e], p) ELSE promoted[f]
    BY <1>6 DEF RegistryTypeOK
  <2> DEFINE old == promoted[e]
             new == Append(old, p)
  <2>3. /\ Len(old) \in Nat /\ Len(new) = Len(old) + 1 /\ new # <<>>
        /\ \A i \in 1..Len(old) : new[i] = old[i]
        /\ new[Len(old) + 1] = p
        /\ old = <<>> <=> Len(old) = 0
    <3>1. old \in Seq([schema : Schemas, reviewed : BOOLEAN])
      BY DEF RegistryTypeOK
    <3> HIDE DEF old
    <3> QED
      BY <1>10, <3>1, AppendProperties
  <2> HIDE DEF old, new
  <2>4. n \in Nat /\ DOMAIN releases = 1..n
    BY <1>1 DEF n
  <2> DEFINE own(f) == {i \in DOMAIN releases' : releases'[i].environment = f}
  <2>5. own(e) = ReleasesIn(e) \cup {n + 1} /\ \A f \in Environments \ {e} : own(f) = ReleasesIn(f)
    BY <1>5, <1>8, <2>4 DEF ReleasesIn
  <2>6. Max(own(e)) = n + 1
    <3>1. \A i \in own(e) : i \in Int /\ i <= n + 1
      BY <1>8, <2>4
    <3>2. n + 1 \in own(e)
      BY <2>5
    <3> HIDE DEF own
    <3>3. own(e) \in SUBSET Int
      BY <3>1
    <3> QED
      BY <3>1, <3>2, <3>3, MaxIs
  <2>7. ASSUME ~releases_lost, NEW f \in Environments
        PROVE  /\ own(f) = {} <=> promoted'[f] = <<>>
               /\ promoted'[f] # <<>> => releases'[Max(own(f))].hash = Last(promoted'[f]).schema
    <3>1. CASE f = e
      <4>1. promoted'[f] # <<>> /\ Last(promoted'[f]) = p
        BY <2>2, <2>3, <3>1 DEF Last, new, old
      <4>2. releases'[Max(own(f))] = release /\ own(f) # {}
        BY <1>8, <2>5, <2>6, <3>1
      <4> QED
        BY <1>5, <1>10, <4>1, <4>2
    <3>2. CASE f # e
      <4>1. promoted'[f] = promoted[f] /\ own(f) = ReleasesIn(f)
        BY <2>2, <2>5, <3>2
      <4>2. /\ ReleasesIn(f) = {} <=> promoted[f] = <<>>
            /\ promoted[f] # <<>> => Newest(f).hash = Last(promoted[f]).schema
        BY <2>7 DEF PromotedInv
      <4>3. ASSUME promoted[f] # <<>> PROVE releases'[Max(ReleasesIn(f))] = Newest(f)
        <5>1. Max(ReleasesIn(f)) \in 1..n
          BY <4>2, <4>3, ReleasesInBounded DEF n
        <5> QED
          BY <1>8, <5>1 DEF Newest
      <4> QED
        BY <4>1, <4>2, <4>3
    <3> QED
      BY <3>1, <3>2
  <2>8. ASSUME ~releases_lost, NEW f \in Environments, NEW i \in 2..Len(promoted'[f])
        PROVE  \/ promoted'[f][i].reviewed
               \/ Compatibility(promoted'[f][i - 1].schema, promoted'[f][i].schema) # "breaking"
    <3>1. CASE f # e
      BY <2>2, <2>8, <3>1 DEF PromotedInv
    <3>0. f = e => promoted'[f] = new
      BY <2>2 DEF new, old
    <3>2. CASE f = e /\ i \in 2..Len(old)
      <4>1. i \in 1..Len(old) /\ i - 1 \in 1..Len(old)
        BY <2>3, <3>2
      <4>2. promoted'[f][i] = promoted[e][i] /\ promoted'[f][i - 1] = promoted[e][i - 1]
        BY <2>3, <3>0, <3>2, <4>1 DEF old
      <4> QED
        BY <2>8, <3>2, <4>2 DEF PromotedInv, old
    <3>3. CASE f = e /\ i = Len(old) + 1
      <4>0. i - 1 = Len(old) /\ Len(old) \in 1..Len(old)
        BY <2>3, <3>3
      <4>1. promoted'[f][i] = p
        BY <2>3, <3>0, <3>3
      <4>2. promoted'[f][i - 1] = Last(promoted[e]) /\ promoted[e] # <<>>
        BY <2>3, <3>0, <3>3, <4>0 DEF Last, old
      <4>3. ReleasesIn(e) # {} /\ Newest(e).hash = Last(promoted[e]).schema
        BY <2>8, <4>2 DEF PromotedInv
      <4>4. Judgement(e, candidate) = Compatibility(Last(promoted[e]).schema, candidate.hash)
        BY <4>3 DEF Judgement
      <4> QED
        BY <1>6, <1>10, <4>1, <4>2, <4>4 DEF breaking
    <3>4. f = e => i \in 2..Len(old) \/ i = Len(old) + 1
      BY <2>3, <2>8, <3>0
    <3> QED
      BY <3>1, <3>2, <3>3, <3>4
  <2> QED
    BY <1>6, <2>1, <2>7, <2>8 DEF PromotedInv, ReleasesIn, Newest
<1> QED
  BY <1>11, <1>12, <1>13, <1>14, <1>15

(* A loss that shows in one of the two tables.                             *)
LEMMA LossShows ==
  ASSUME RegistryTypeOK, LossInv, PromotedInv, releases_lost' = TRUE,
         UNCHANGED <<shared, promoted, schema_manifest, release_manifest>>,
         Len(releases') <= Len(releases),
         \/ Len(releases') < Len(releases)
         \/ ~(schema_manifest \subseteq Rows(tool_schemas)')
         \/ ~shared,
         schema_manifest \subseteq Rows(tool_schemas)'
           => schema_manifest \subseteq Rows(tool_schemas),
         Len(releases') \in Nat
  PROVE  LossInv' /\ PromotedInv'
<1>1. Len(releases) \in Nat /\ release_manifest.count \in Nat
  BY DEF RegistryTypeOK
<1>2. LossInv'
  <2>1. Len(releases') <= release_manifest'.count
    BY <1>1 DEF LossInv
  <2>2. shared => \/ ~(schema_manifest \subseteq Rows(tool_schemas)')
                  \/ Len(releases') < release_manifest.count
    BY <1>1 DEF LossInv
  <2> QED
    BY <2>1, <2>2 DEF LossInv
<1>3. PromotedInv'
  BY DEF PromotedInv
<1> QED
  BY <1>2, <1>3

(* A release is deleted.                                                   *)
LEMMA LoseReleaseRowInv ==
  ASSUME IInv, NEW i \in DOMAIN releases, releases' = RemoveAt(releases, i),
         releases_lost' = TRUE,
         UNCHANGED <<environments, tool_schemas, schema_manifest, release_manifest,
                     promoted, shared>>
  PROVE  (RegistryTypeOK /\ RowsInv /\ HashesInv /\ LossInv /\ PromotedInv)'
<1> USE DEF IInv, TypeOK
<1> DEFINE n == Len(releases)
<1>1. releases \in Seq(ReleaseRow) /\ n \in Nat /\ DOMAIN releases = 1..n /\ i \in 1..n
  BY DEF RegistryTypeOK
<1>2. /\ releases' \in Seq(ReleaseRow) /\ Len(releases') = n - 1
      /\ \A j \in 1..(n - 1) : releases'[j] = IF j < i THEN releases[j] ELSE releases[j + 1]
  BY <1>1, Deleted DEF RemoveAt
<1>3. DOMAIN releases' = 1..(n - 1) /\ n - 1 \in Nat
  BY <1>1, <1>2
<1> HIDE DEF n
<1>4. RegistryTypeOK'
  BY <1>2 DEF RegistryTypeOK
<1>5. RowsInv'
  <2>1. ASSUME NEW j \in 1..(n - 1)
        PROVE  \E k \in DOMAIN releases : releases'[j] = releases[k]
    BY <1>1, <1>2
  <2>2. \A r \in Rows(releases)' : r \in Rows(releases)
    BY <1>3, <2>1 DEF Rows
  <2>3. Rows(tool_schemas)' = Rows(tool_schemas)
    BY DEF Rows
  <2> QED
    BY <2>2, <2>3 DEF RowsInv, Undamaged
<1>6. HashesInv'
  <2> DEFINE at(j) == IF j < i THEN j ELSE j + 1
             len(j) == Len(releases[j].record_hash)
  <2>1. ASSUME NEW j \in 1..(n - 1)
        PROVE  /\ at(j) \in 1..n /\ at(j) >= j
               /\ releases'[j] = releases[at(j)]
               /\ len(at(j)) \in Nat /\ len(at(j)) >= at(j)
               /\ releases[at(j)].record_hash = Append(releases[at(j)].previous_hash,
                    <<releases[at(j)].environment, releases[at(j)].id>>)
    <3>1. at(j) \in 1..n /\ at(j) >= j /\ releases'[j] = releases[at(j)]
      BY <1>1, <1>2
    <3> HIDE DEF at
    <3>2. releases[at(j)] \in ReleaseRow
      BY <1>1, <3>1
    <3>3. len(at(j)) \in Nat
      BY <3>2 DEF ReleaseRow, Hash
    <3> QED
      BY <1>1, <3>1, <3>3 DEF HashesInv
  <2>2. ASSUME NEW j \in 1..(n - 1), NEW k \in j..(n - 1)
        PROVE  len(at(k)) - len(at(j)) >= k - j
    <3>1. /\ k \in 1..(n - 1) /\ at(j) \in 1..n /\ at(k) \in at(j)..n
          /\ at(k) - at(j) >= k - j
      BY <1>1
    <3> HIDE DEF at
    <3>2. len(at(k)) - len(at(j)) >= at(k) - at(j)
      BY <1>1, <3>1 DEF HashesInv, n
    <3>3. len(at(k)) \in Nat /\ len(at(j)) \in Nat
      BY <2>1, <3>1
    <3> HIDE DEF len
    <3> QED
      BY <1>1, <3>1, <3>2, <3>3
  <2> HIDE DEF at
  <2>3. \A j \in DOMAIN releases' :
          /\ releases'[j].record_hash = Append(releases'[j].previous_hash,
               <<releases'[j].environment, releases'[j].id>>)
          /\ Len(releases'[j].record_hash) >= j
    <3>1. SUFFICES ASSUME NEW j \in 1..(n - 1)
                   PROVE  /\ releases'[j].record_hash = Append(releases'[j].previous_hash,
                               <<releases'[j].environment, releases'[j].id>>)
                          /\ Len(releases'[j].record_hash) >= j
      BY <1>3
    <3>2. len(at(j)) >= j
      <4> HIDE DEF len
      <4> QED
        BY <1>1, <2>1
    <3> QED
      BY <2>1, <3>2
  <2>4. ASSUME NEW j \in DOMAIN releases', NEW k \in j..Len(releases')
        PROVE  Len(releases'[k].record_hash) - Len(releases'[j].record_hash) >= k - j
    <3>1. j \in 1..(n - 1) /\ k \in j..(n - 1) /\ k \in 1..(n - 1)
      BY <1>1, <1>2, <1>3
    <3> QED
      BY <2>1, <2>2, <3>1
  <2> QED
    BY <2>3, <2>4 DEF HashesInv
<1>7. LossInv' /\ PromotedInv'
  <2>1. Rows(tool_schemas)' = Rows(tool_schemas)
    BY DEF Rows
  <2>2. Len(releases') < Len(releases) /\ Len(releases') \in Nat /\ Len(releases') <= Len(releases)
    BY <1>1, <1>2 DEF n
  <2> QED
    BY <2>1, <2>2, LossShows
<1> QED
  BY <1>4, <1>5, <1>6, <1>7

(* A schema that no release refers to is deleted.                          *)
LEMMA LoseSchemaInv ==
  ASSUME IInv, NEW i \in DOMAIN tool_schemas,
         \A r \in Rows(releases) : r.id # tool_schemas[i].id,
         tool_schemas' = RemoveAt(tool_schemas, i), releases_lost' = TRUE,
         UNCHANGED <<environments, releases, schema_manifest, release_manifest,
                     promoted, shared>>
  PROVE  (RegistryTypeOK /\ RowsInv /\ HashesInv /\ LossInv /\ PromotedInv)'
<1> USE DEF IInv, TypeOK
<1> DEFINE n == Len(tool_schemas)
           at(j) == IF j < i THEN j ELSE j + 1
<1>1. /\ tool_schemas \in Seq(SchemaRow) /\ n \in Nat
      /\ DOMAIN tool_schemas = 1..n /\ i \in 1..n
  BY DEF RegistryTypeOK
<1>2. /\ tool_schemas' \in Seq(SchemaRow) /\ Len(tool_schemas') = n - 1
      /\ \A j \in 1..(n - 1) : tool_schemas'[j] = tool_schemas[at(j)]
  BY <1>1, Deleted DEF RemoveAt
<1>3. /\ DOMAIN tool_schemas' = 1..(n - 1)
      /\ \A j \in 1..(n - 1) : at(j) \in 1..n /\ at(j) # i
      /\ \A j, k \in 1..(n - 1) : at(j) = at(k) => j = k
      /\ \A k \in 1..n : k # i => \E j \in 1..(n - 1) : k = at(j)
  <2>1. DOMAIN tool_schemas' = 1..(n - 1)
    BY <1>1, <1>2
  <2>2. ASSUME NEW k \in 1..n, k # i PROVE \E j \in 1..(n - 1) : k = at(j)
    <3>1. CASE k < i
      BY <1>1, <3>1
    <3>2. CASE k > i
      <4>1. k - 1 \in 1..(n - 1) /\ k = at(k - 1)
        BY <1>1, <3>2
      <4> QED
        BY <4>1
    <3> QED
      BY <1>1, <2>2, <3>1, <3>2
  <2> QED
    BY <1>1, <2>1, <2>2
<1> HIDE DEF n, at
<1>4. RegistryTypeOK'
  BY <1>2 DEF RegistryTypeOK
<1>5. \A j, k \in DOMAIN tool_schemas : tool_schemas[j].id = tool_schemas[k].id => j = k
  BY DEF RowsInv
<1>6. Rows(tool_schemas)' = Rows(tool_schemas) \ {tool_schemas[i]}
  <2>1. \A j \in DOMAIN tool_schemas' :
          tool_schemas'[j] \in Rows(tool_schemas) /\ tool_schemas'[j] # tool_schemas[i]
    BY <1>1, <1>2, <1>3, <1>5 DEF Rows
  <2>2. \A k \in DOMAIN tool_schemas : k # i =>
          \E j \in DOMAIN tool_schemas' : tool_schemas'[j] = tool_schemas[k]
    BY <1>1, <1>2, <1>3
  <2> QED
    BY <2>1, <2>2 DEF Rows
<1>7. RowsInv'
  <2>1. \A r \in Rows(releases)' : \E s \in Rows(tool_schemas)' :
          s.id = r.id /\ s.version = r.version /\ s.hash = r.hash
    <3>1. Rows(releases)' = Rows(releases)
      BY DEF Rows
    <3> QED
      BY <1>6, <3>1 DEF RowsInv
  <2>2. \A j \in DOMAIN tool_schemas' :
          /\ tool_schemas'[j].id <= Cardinality(schema_manifest)
          /\ tool_schemas'[j].schema \in {tool_schemas'[j].hash, Empty}
    BY <1>1, <1>2, <1>3 DEF RowsInv
  <2>3. \A j, k \in DOMAIN tool_schemas' : tool_schemas'[j].id = tool_schemas'[k].id => j = k
    BY <1>1, <1>2, <1>3, <1>5
  <2> QED
    BY <2>1, <2>2, <2>3 DEF RowsInv, Undamaged
<1>8. HashesInv'
  BY DEF HashesInv
<1>9. LossInv' /\ PromotedInv'
  <2>1. Len(releases') = Len(releases) /\ Len(releases) \in Nat
    BY DEF RegistryTypeOK
  <2>2. ASSUME schema_manifest \subseteq Rows(tool_schemas)', shared
        PROVE  Len(releases) < release_manifest.count
    <3>1. schema_manifest \subseteq Rows(tool_schemas) /\ tool_schemas[i] \notin schema_manifest
      BY <1>6, <2>2
    <3>2. tool_schemas[i] \in Rows(tool_schemas)
      BY DEF Rows
    <3>3. releases_lost
      BY <3>1, <3>2 DEF LossInv, HistoryVerifies, SchemasVerify, RegistryTypeOK
    <3> QED
      BY <2>2, <3>1, <3>3 DEF LossInv
  <2>3. LossInv'
    BY <2>1, <2>2 DEF LossInv
  <2>4. PromotedInv'
    BY DEF PromotedInv
  <2> QED
    BY <2>3, <2>4
<1> QED
  BY <1>4, <1>7, <1>8, <1>9

(* A schema is overwritten with the empty one.                             *)
LEMMA DamageSchemaInv ==
  ASSUME IInv, NEW i \in DOMAIN tool_schemas, tool_schemas[i].schema # Empty,
         tool_schemas' = [tool_schemas EXCEPT ![i].schema = Empty], releases_lost' = TRUE,
         UNCHANGED <<environments, releases, schema_manifest, release_manifest,
                     promoted, shared>>
  PROVE  (RegistryTypeOK /\ RowsInv /\ HashesInv /\ LossInv /\ PromotedInv)'
<1> USE DEF IInv, TypeOK
<1> DEFINE row == tool_schemas[i]
           damaged == [row EXCEPT !.schema = Empty]
<1>1. tool_schemas \in Seq(SchemaRow) /\ row \in SchemaRow
  BY DEF RegistryTypeOK
<1>2. /\ damaged \in SchemaRow /\ damaged.schema = Empty
      /\ damaged.id = row.id /\ damaged.version = row.version /\ damaged.hash = row.hash
  BY <1>1 DEF SchemaRow
<1>3. tool_schemas' = [tool_schemas EXCEPT ![i] = damaged]
  OBVIOUS
<1>4. row.hash # Empty /\ damaged # row
  BY <1>2 DEF RowsInv
<1> HIDE DEF damaged
<1>5. /\ tool_schemas' \in Seq(SchemaRow) /\ DOMAIN tool_schemas' = DOMAIN tool_schemas
      /\ tool_schemas'[i] = damaged
      /\ \A j \in DOMAIN tool_schemas : j # i => tool_schemas'[j] = tool_schemas[j]
  BY <1>1, <1>2, <1>3
<1>6. RegistryTypeOK'
  BY <1>5 DEF RegistryTypeOK
<1>7. \A j \in DOMAIN tool_schemas : /\ tool_schemas'[j].id = tool_schemas[j].id
                                     /\ tool_schemas'[j].version = tool_schemas[j].version
                                     /\ tool_schemas'[j].hash = tool_schemas[j].hash
  BY <1>2, <1>5
<1>8. RowsInv'
  <2>1. ASSUME NEW r \in Rows(releases)
        PROVE  \E s \in Rows(tool_schemas)' :
                 s.id = r.id /\ s.version = r.version /\ s.hash = r.hash
    <3>1. PICK j \in DOMAIN tool_schemas :
            /\ tool_schemas[j].id = r.id /\ tool_schemas[j].version = r.version
            /\ tool_schemas[j].hash = r.hash
      BY DEF RowsInv, Rows
    <3>2. tool_schemas'[j] \in Rows(tool_schemas)'
      BY <1>5 DEF Rows
    <3> QED
      BY <1>7, <3>1, <3>2
  <2>2. \A j \in DOMAIN tool_schemas' :
          /\ tool_schemas'[j].id <= Cardinality(schema_manifest)
          /\ tool_schemas'[j].schema \in {tool_schemas'[j].hash, Empty}
          /\ \A k \in DOMAIN tool_schemas' : tool_schemas'[j].id = tool_schemas'[k].id => j = k
    BY <1>2, <1>5, <1>7 DEF RowsInv
  <2>3. Rows(releases)' = Rows(releases)
    BY DEF Rows
  <2> QED
    BY <2>1, <2>2, <2>3 DEF RowsInv, Undamaged
<1>9. HashesInv'
  BY DEF HashesInv
<1>10. damaged \notin schema_manifest
  BY <1>2, <1>4 DEF RowsInv, Undamaged
<1>11. /\ row \notin Rows(tool_schemas)'
       /\ schema_manifest \subseteq Rows(tool_schemas)' => schema_manifest \subseteq Rows(tool_schemas)
  <2>1. \A j \in DOMAIN tool_schemas' : tool_schemas'[j] # row
    BY <1>4, <1>5 DEF RowsInv
  <2>2. \A j \in DOMAIN tool_schemas' :
          tool_schemas'[j] \in schema_manifest => tool_schemas'[j] \in Rows(tool_schemas)
    BY <1>5, <1>10 DEF Rows
  <2> QED
    BY <2>1, <2>2 DEF Rows
<1>12. LossInv' /\ PromotedInv'
  <2>1. Len(releases') = Len(releases) /\ Len(releases) \in Nat
    BY DEF RegistryTypeOK
  <2>2. ASSUME schema_manifest \subseteq Rows(tool_schemas)', shared
        PROVE  Len(releases) < release_manifest.count
    <3>1. schema_manifest \subseteq Rows(tool_schemas) /\ row \notin schema_manifest
      BY <1>11, <2>2
    <3>2. row \in Rows(tool_schemas)
      BY DEF Rows
    <3>3. releases_lost
      BY <3>1, <3>2 DEF LossInv, HistoryVerifies, SchemasVerify, RegistryTypeOK
    <3> QED
      BY <2>2, <3>1, <3>3 DEF LossInv
  <2>3. LossInv'
    BY <2>1, <2>2 DEF LossInv
  <2>4. PromotedInv'
    BY DEF PromotedInv
  <2> QED
    BY <2>3, <2>4
<1> QED
  BY <1>6, <1>8, <1>9, <1>12

LEMMA RegistryIInv == ASSUME IInv, RegistryNext PROVE IInv'
<1> DEFINE Kept == (RegistryTypeOK /\ RowsInv /\ HashesInv /\ LossInv /\ PromotedInv)'
<1>1. UNCHANGED <<offered, declared, agreed, callers, shared>>
  BY DEF RegistryNext, toolVars
<1>2. bounds' \in Bounds
  BY SpendType DEF RegistryNext, IInv, TypeOK
<1>3. Kept
  <2>1. ASSUME NEW s \in bounds.schemas, Unnamed # {}, RegisterSchema(shared, Fresh, s)
        PROVE  Kept
    <3>1. s \in Schemas
      BY DEF IInv, TypeOK, Bounds
    <3> QED
      BY <1>1, <2>1, <3>1, RegisterInv
  <2>2. ASSUME NEW e \in Environments, NEW candidate \in Rows(tool_schemas),
               NEW reviewed \in BOOLEAN,
               PromoteSchemaRelease(shared, e, candidate, reviewed)
        PROVE  Kept
    BY <1>1, <2>2, PromoteInv
  <2>3. ASSUME NEW e \in Environments,
               \/ CreateEnvironment(e)
               \/ \E mode \in {"observe", "enforce"} : UpdateEnforcement(e, mode)
        PROVE  Kept
    BY <1>1, <2>3, PolicyInv
  <2>4. ASSUME LoseRelease PROVE Kept
    <3>1. /\ releases_lost' = TRUE
          /\ UNCHANGED <<environments, schema_manifest, release_manifest, promoted, shared>>
      BY <1>1, <2>4 DEF LoseRelease
    <3>2. ASSUME NEW i \in DOMAIN releases, releases' = RemoveAt(releases, i),
                 UNCHANGED tool_schemas
          PROVE  Kept
      BY <3>1, <3>2, LoseReleaseRowInv
    <3>3. ASSUME NEW i \in DOMAIN tool_schemas,
                 \A r \in Rows(releases) : r.id # tool_schemas[i].id,
                 tool_schemas' = RemoveAt(tool_schemas, i), UNCHANGED releases
          PROVE  Kept
      BY <3>1, <3>3, LoseSchemaInv
    <3>4. ASSUME NEW i \in DOMAIN tool_schemas, tool_schemas[i].schema # Empty,
                 tool_schemas' = [tool_schemas EXCEPT ![i].schema = Empty],
                 UNCHANGED releases
          PROVE  Kept
      BY <3>1, <3>4, DamageSchemaInv
    <3> HIDE DEF Kept
    <3> QED
      BY <2>4, <3>2, <3>3, <3>4 DEF LoseRelease
  <2> HIDE DEF Kept
  <2> QED
    BY <2>1, <2>2, <2>3, <2>4 DEF RegistryNext
<1>4. ClientTypeOK'
  BY <1>1 DEF IInv, TypeOK, ClientTypeOK
<1>5. CallersInv'
  <2>1. releases_lost => releases_lost'
    BY DEF RegistryNext, RegisterSchema, PromoteSchemaRelease, CreateEnvironment,
           UpdateEnforcement, LoseRelease
  <2> QED
    BY <1>1, <2>1 DEF IInv, CallersInv, RefusedDriftIsNotUsed, AdmittedWasReleased
<1> QED
  BY <1>2, <1>3, <1>4, <1>5 DEF IInv, TypeOK
-----------------------------------------------------------------------------
(* The invariant.                                                          *)
LEMMA InitIInv == ASSUME Init PROVE IInv
<1> USE DEF Init
<1>1. bounds \in Bounds /\ shared \in BOOLEAN /\ offered \in Schemas \cup {none}
  <2>1. bounds \in Bounds
    BY ToolsAssumption
  <2> QED
    BY <2>1 DEF Bounds
<1>2. PICK e \in Environments : RegistryInit({e})
  OBVIOUS
<1> USE DEF RegistryInit
<1>3. /\ tool_schemas = <<>> /\ schema_manifest = {} /\ releases = <<>>
      /\ release_manifest = [count |-> 0, tip |-> <<>>]
      /\ promoted = [x \in Environments |-> <<>>] /\ releases_lost = FALSE
      /\ environments \in [Environments -> {"absent", "observe", "enforce"}]
  BY <1>2
<1>4. RegistryTypeOK
  <2>1. IsFiniteSet(schema_manifest)
    BY <1>3, FS_EmptySet
  <2>2. release_manifest \in [count : Nat, tip : Hash]
    BY <1>3 DEF Hash
  <2>3. promoted \in [Environments -> Seq([schema : Schemas, reviewed : BOOLEAN])]
    BY <1>3
  <2>4. tool_schemas \in Seq(SchemaRow) /\ releases \in Seq(ReleaseRow)
    BY <1>3
  <2>5. schema_manifest \subseteq SchemaRow /\ releases_lost \in BOOLEAN
    BY <1>3
  <2> QED
    BY <1>1, <1>3, <2>1, <2>2, <2>3, <2>4, <2>5 DEF RegistryTypeOK
<1>5. ClientTypeOK
  BY <1>1 DEF ClientTypeOK, Caller
<1>6. RowsInv /\ HashesInv /\ CallersInv
  BY <1>3 DEF RowsInv, HashesInv, CallersInv, Rows, RefusedDriftIsNotUsed,
              AdmittedWasReleased
<1>7. LossInv
  BY <1>3 DEF LossInv, HistoryVerifies, ReleasesVerify, SchemasVerify, ChainIntact, Tip, Rows
<1>8. PromotedInv
  BY <1>3 DEF PromotedInv, ReleasesIn
<1> QED
  BY <1>1, <1>4, <1>5, <1>6, <1>7, <1>8 DEF IInv, TypeOK

LEMMA NextIInv == ASSUME IInv, [Next]_vars PROVE IInv'
<1>1. CASE ClientNext
  BY <1>1, ClientIInv
<1>2. CASE RegistryNext
  BY <1>2, RegistryIInv
<1>3. CASE UNCHANGED vars
  <2>1. RegistryTypeOK' /\ RowsInv' /\ HashesInv' /\ LossInv' /\ PromotedInv'
    <3>1. UNCHANGED registryVars /\ UNCHANGED shared
      BY <1>3 DEF vars
    <3> QED
      BY <3>1, RegistryUntouched DEF IInv, TypeOK
  <2>2. ClientTypeOK' /\ CallersInv' /\ bounds' \in Bounds
    BY <1>3 DEF vars, registryVars, toolVars, IInv, TypeOK, ClientTypeOK, CallersInv,
                RefusedDriftIsNotUsed, AdmittedWasReleased
  <2> QED
    BY <2>1, <2>2 DEF IInv, TypeOK
<1> QED
  BY <1>1, <1>2, <1>3 DEF Next

(* The registry, the client and every call under way fit together in all   *)
(* reachable states, in either deployment.                                 *)
THEOREM ToolsInvariant == Spec => []IInv
<1> QED
  BY InitIInv, NextIInv, PTL DEF Spec

(* However lists, drift reports and calls overlap, no call is validated or *)
(* executed with a schema that onDrift was not called for or threw on.     *)
THEOREM RefusedDriftIsNeverUsed == Spec => []RefusedDriftIsNotUsed
<1>1. IInv => RefusedDriftIsNotUsed
  BY DEF IInv, CallersInv
<1> QED
  BY <1>1, ToolsInvariant, PTL

(* An admitted call had the schema that was promoted last to its           *)
(* environment, but for a local registry that has lost its newest release. *)
THEOREM AdmittedWasAlwaysReleased == Spec => []AdmittedWasReleased
<1>1. IInv => AdmittedWasReleased
  BY DEF IInv, CallersInv
<1> QED
  BY <1>1, ToolsInvariant, PTL

LEMMA PromotedAreSound == ASSUME IInv PROVE UnreviewedReleaseKeepsCalls
<1> SUFFICES ASSUME NEW e \in Environments, NEW i \in 2..Len(promoted[e]),
                    ~promoted[e][i].reviewed, shared \/ ~releases_lost,
                    Compatibility(promoted[e][i - 1].schema, promoted[e][i].schema) # "review",
                    Comparable(promoted[e][i - 1].schema, promoted[e][i].schema),
                    NEW arguments \in Arguments,
                    Accepts(promoted[e][i - 1].schema, arguments)
             PROVE  Accepts(promoted[e][i].schema, arguments)
  BY DEF UnreviewedReleaseKeepsCalls, UnreviewedKeepsCalls
<1>1. promoted[e][i - 1].schema \in Schemas /\ promoted[e][i].schema \in Schemas
  <2>1. promoted[e] \in Seq([schema : Schemas, reviewed : BOOLEAN])
    BY DEF IInv, TypeOK, RegistryTypeOK
  <2>2. Len(promoted[e]) \in Nat /\ DOMAIN promoted[e] = 1..Len(promoted[e])
    BY <2>1
  <2>3. i - 1 \in DOMAIN promoted[e] /\ i \in DOMAIN promoted[e]
    BY <2>2
  <2>4. /\ promoted[e][i - 1] \in [schema : Schemas, reviewed : BOOLEAN]
        /\ promoted[e][i] \in [schema : Schemas, reviewed : BOOLEAN]
    BY <2>1, <2>3, ElementOfSeq, <2>2
  <2> QED
    BY <2>4
<1>2. Compatibility(promoted[e][i - 1].schema, promoted[e][i].schema) # "breaking"
  BY DEF IInv, PromotedInv
<1> QED
  BY <1>1, <1>2, ClassificationIsSound, RegistryAssumption, ToolsAssumption

(* What was promoted without a review accepts every call that the release  *)
(* before it in its environment accepted, but for undecided changes, an    *)
(* optional property declared on an open object, and local loss.           *)
THEOREM PromotionsKeepCalls == Spec => []UnreviewedReleaseKeepsCalls
<1> QED
  BY PromotedAreSound, ToolsInvariant, PTL
-----------------------------------------------------------------------------
(* What the local chain can tell.                                          *)

LEMMA PrefixGrows ==
  ASSUME NEW S, NEW s \in Seq(S), NEW i \in 1..Len(s)
  PROVE  /\ SubSeq(s, 1, i) \in Seq(S) /\ Len(SubSeq(s, 1, i)) = i
         /\ SubSeq(s, 1, i - 1) \in Seq(S)
         /\ SubSeq(s, 1, i) = Append(SubSeq(s, 1, i - 1), s[i])
<1>1. /\ i \in Nat /\ Len(s) \in Nat /\ i - 1 \in Nat /\ i - 1 <= Len(s)
      /\ DOMAIN s = 1..Len(s)
  OBVIOUS
<1>2. \A j \in 1..Len(s) : s[j] \in S
  OBVIOUS
<1>3. \A j \in 1..i : s[j] \in S
  BY <1>1, <1>2
<1>4. \A j \in 1..(i - 1) : s[j] \in S
  BY <1>1, <1>2
<1>5. /\ SubSeq(s, 1, i) \in Seq(S) /\ Len(SubSeq(s, 1, i)) = i
      /\ \A j \in 1..i : SubSeq(s, 1, i)[j] = s[j]
  <2>1. 1 <= i /\ i - 1 + 1 = i /\ \A j \in 1..i : 1 + j - 1 = j
    BY <1>1
  <2> QED
    BY <1>3, <2>1, SubSeqProperties
<1>6. /\ SubSeq(s, 1, i - 1) \in Seq(S) /\ Len(SubSeq(s, 1, i - 1)) = i - 1
      /\ \A j \in 1..(i - 1) : SubSeq(s, 1, i - 1)[j] = s[j]
  <2>1. i - 1 \in Int /\ (1 <= i - 1 => i - 1 - 1 + 1 = i - 1) /\ (~(1 <= i - 1) => i - 1 = 0)
    BY <1>1
  <2>2. \A j \in 1..(i - 1 - 1 + 1) : 1 + j - 1 = j
    BY <1>1
  <2>3. i - 1 - 1 + 1 = i - 1
    BY <1>1
  <2> QED
    BY <1>4, <2>1, <2>2, <2>3, SubSeqProperties
<1> DEFINE front == SubSeq(s, 1, i - 1)  grown == Append(front, s[i])
<1> HIDE DEF front
<1>7. s[i] \in S /\ front \in Seq(S) /\ Len(front) = i - 1
  BY <1>2, <1>6 DEF front
<1>8. /\ grown \in Seq(S) /\ Len(grown) = i /\ grown[i] = s[i]
      /\ \A j \in 1..(i - 1) : grown[j] = front[j]
  <2>1. Len(front) + 1 = i
    BY <1>1, <1>7
  <2> QED
    BY <1>7, <2>1, AppendProperties
<1> HIDE DEF grown
<1>9. \A j \in 1..i : grown[j] = SubSeq(s, 1, i)[j]
  BY <1>1, <1>5, <1>6, <1>8 DEF front
<1>10. SubSeq(s, 1, i) = grown
  BY <1>5, <1>8, <1>9, SeqEqual
<1> QED
  BY <1>5, <1>6, <1>10 DEF grown, front

(* A source is damaged exactly if its row is.                              *)
LEMMA SourceIsItsRow ==
  ASSUME RowsInv, RegistryTypeOK, NEW r \in Rows(releases)
  PROVE  SourceValid(r) <=> \A s \in Rows(tool_schemas) : s.id = r.id => Undamaged(s)
<1>1. PICK s \in Rows(tool_schemas) :
        s.id = r.id /\ s.version = r.version /\ s.hash = r.hash
  BY DEF RowsInv
<1>2. \A t \in Rows(tool_schemas) : t.id = r.id => t = s
  BY <1>1 DEF RowsInv, Rows
<1> QED
  BY <1>1, <1>2 DEF SourceValid

(* The records are chained exactly if each is a prefix of what is there.   *)
LEMMA ChainIsPrefixes ==
  ASSUME RegistryTypeOK, HashesInv, NEW pairs,
         pairs = [i \in DOMAIN releases |-> <<releases[i].environment, releases[i].id>>]
  PROVE  (\A i \in DOMAIN releases :
            releases[i].previous_hash = IF i = 1 THEN <<>> ELSE releases[i - 1].record_hash)
           <=> \A i \in DOMAIN releases : IsPrefix(releases[i].record_hash, pairs)
<1> DEFINE n == Len(releases)
           Pair == Environments \X Nat
           hash(i) == releases[i].record_hash
           previous(i) == releases[i].previous_hash
           upTo(i) == SubSeq(pairs, 1, i)
<1>1. n \in Nat /\ DOMAIN releases = 1..n
  BY DEF RegistryTypeOK
<1>2. \A i \in 1..n : /\ hash(i) \in Seq(Pair) /\ previous(i) \in Seq(Pair)
                      /\ <<releases[i].environment, releases[i].id>> \in Pair
  <2>1. \A i \in 1..n : releases[i] \in ReleaseRow
    BY <1>1, ElementOfSeq DEF RegistryTypeOK
  <2> QED
    BY <2>1 DEF ReleaseRow, Hash
<1>3. /\ pairs \in Seq(Pair) /\ Len(pairs) = n
      /\ \A i \in 1..n : pairs[i] = <<releases[i].environment, releases[i].id>>
  BY <1>1, <1>2
<1>4. \A i \in 1..n : /\ upTo(i) \in Seq(Pair) /\ Len(upTo(i)) = i
                      /\ upTo(i - 1) \in Seq(Pair)
                      /\ upTo(i) = Append(upTo(i - 1), pairs[i])
  BY <1>3, PrefixGrows
<1>5. \A i \in 1..n : /\ hash(i) = Append(previous(i), pairs[i])
                      /\ Len(hash(i)) \in Nat /\ Len(hash(i)) >= i
                      /\ Len(hash(n)) - Len(hash(i)) >= n - i
  <2> SUFFICES ASSUME NEW i \in 1..n
               PROVE  /\ hash(i) = Append(previous(i), pairs[i])
                      /\ Len(hash(i)) \in Nat /\ Len(hash(i)) >= i
                      /\ Len(hash(n)) - Len(hash(i)) >= n - i
    OBVIOUS
  <2>1. hash(i) = Append(previous(i), pairs[i]) /\ Len(hash(i)) >= i
    BY <1>1, <1>3 DEF HashesInv
  <2>2. Len(hash(i)) \in Nat
    BY <1>2, LenProperties
  <2>3. n \in i..Len(releases)
    BY <1>1
  <2>4. \A j \in i..Len(releases) : Len(hash(j)) - Len(hash(i)) >= j - i
    BY <1>1 DEF HashesInv
  <2> QED
    BY <2>1, <2>2, <2>3, <2>4
<1>6. upTo(0) = <<>>
  BY SubSeqEmpty
<1> DEFINE Chained == \A i \in 1..n : previous(i) = IF i = 1 THEN <<>> ELSE hash(i - 1)
           Begun == \A i \in 1..n : IsPrefix(hash(i), pairs)
           Complete == \A i \in 1..n : hash(i) = upTo(i)
<1> HIDE DEF hash, previous, upTo, n
<1>7. Chained => Complete
  <2> DEFINE broken == {i \in 1..n : hash(i) # upTo(i)}
  <2> SUFFICES ASSUME Chained, broken # {} PROVE FALSE
    OBVIOUS
  <2>1. PICK i \in broken : \A j \in broken : i <= j
    <3>1. broken \in SUBSET Nat
      BY <1>1
    <3> HIDE DEF broken
    <3> QED
      BY <3>1, LeastElement
  <2>2. i \in 1..n /\ hash(i) # upTo(i)
    OBVIOUS
  <2>3. previous(i) = upTo(i - 1)
    <3>1. CASE i = 1
      BY <1>6, <2>2, <3>1
    <3>2. CASE i # 1
      <4>1. i - 1 \in 1..n /\ i - 1 \notin broken
        BY <1>1, <2>1, <2>2, <3>2
      <4> QED
        BY <2>2, <3>2, <4>1
    <3> QED
      BY <3>1, <3>2
  <2> QED
    BY <1>4, <1>5, <2>2, <2>3
<1>8. Complete => Begun
  <2> SUFFICES ASSUME Complete, NEW i \in 1..n PROVE IsPrefix(hash(i), pairs)
    OBVIOUS
  <2>1. hash(i) = upTo(i) /\ Len(hash(i)) = i /\ hash(i) \in Seq(Pair)
    BY <1>2, <1>4
  <2>2. SubSeq(hash(i), 1, Len(hash(i))) = hash(i)
    BY <2>1, SubSeqFull
  <2>3. i <= Len(pairs)
    BY <1>1, <1>3
  <2>4. SubSeq(pairs, 1, Len(hash(i))) = hash(i)
    BY <2>1 DEF upTo
  <2> QED
    BY <2>1, <2>2, <2>3, <2>4 DEF IsPrefix
<1>9. Begun => Complete
  <2> SUFFICES ASSUME Begun, NEW i \in 1..n PROVE hash(i) = upTo(i)
    OBVIOUS
  <2>1. n \in 1..n /\ n \in Nat /\ i \in Nat
    BY <1>1
  <2>2. Len(hash(n)) <= n
    BY <1>3, <2>1 DEF IsPrefix
  <2>3. Len(hash(i)) = i
    <3>1. /\ Len(hash(i)) \in Nat /\ Len(hash(i)) >= i /\ Len(hash(n)) \in Nat
          /\ Len(hash(n)) - Len(hash(i)) >= n - i
      BY <1>5, <2>1
    <3> QED
      BY <2>1, <2>2, <3>1
  <2>4. SubSeq(hash(i), 1, i) = upTo(i)
    BY <2>3 DEF IsPrefix, upTo
  <2> QED
    BY <1>2, <2>3, <2>4, SubSeqFull
<1>10. Complete => Chained
  <2> SUFFICES ASSUME Complete, NEW i \in 1..n
               PROVE previous(i) = IF i = 1 THEN <<>> ELSE hash(i - 1)
    OBVIOUS
  <2>1. previous(i) = upTo(i - 1)
    <3>1. Append(previous(i), pairs[i]) = Append(upTo(i - 1), pairs[i])
      BY <1>4, <1>5
    <3>2. /\ previous(i) \in Seq(Pair) /\ upTo(i - 1) \in Seq(Pair) /\ pairs[i] \in Pair
      BY <1>2, <1>3, <1>4
    <3> DEFINE p == previous(i)  q == upTo(i - 1)  x == pairs[i]
    <3>3. p \in Seq(Pair) /\ q \in Seq(Pair) /\ x \in Pair /\ Append(p, x) = Append(q, x)
      BY <3>1, <3>2
    <3> HIDE DEF p, q, x, Pair
    <3>4. p = q
      BY <3>3, AppendInjective
    <3> QED
      BY <3>4 DEF p, q
  <2>2. CASE i = 1
    BY <1>6, <2>1, <2>2
  <2>3. CASE i # 1
    <3>1. i - 1 \in 1..n
      BY <1>1, <2>3
    <3> QED
      BY <2>1, <2>3, <3>1
  <2> QED
    BY <2>2, <2>3
<1> QED
  BY <1>1, <1>7, <1>8, <1>9, <1>10 DEF hash, previous

LEMMA LossShowsItself == ASSUME IInv PROVE LostReleaseIsNoticed
<1> USE DEF IInv, TypeOK
<1>1. CASE shared
  <2>1. HistoryVerifies(TRUE) => ~releases_lost
    BY <1>1, VerifiedIsComplete
  <2>2. ~releases_lost => HistoryVerifies(TRUE)
    BY DEF LossInv
  <2>3. shared = TRUE
    BY <1>1 DEF RegistryTypeOK
  <2> QED
    BY <1>1, <2>1, <2>2, <2>3 DEF LostReleaseIsNoticed, ReleaseLossIsNoticed
<1>2. CASE ~shared
  <2> DEFINE pairs == [i \in DOMAIN releases |->
                         <<releases[i].environment, releases[i].id>>]
             Chained == \A i \in DOMAIN releases : releases[i].previous_hash =
                          IF i = 1 THEN <<>> ELSE releases[i - 1].record_hash
             Valid(r) == \A s \in Rows(tool_schemas) : s.id = r.id => Undamaged(s)
             Prefix(r) == IsPrefix(r.record_hash, pairs)
  <2>1. Chained <=> \A i \in DOMAIN releases : Prefix(releases[i])
    BY ChainIsPrefixes
  <2>2. \A i \in DOMAIN releases : SourceValid(releases[i]) <=> Valid(releases[i])
    BY SourceIsItsRow DEF Rows
  <2>3. HistoryVerifies(shared) <=>
          Chained /\ \A i \in DOMAIN releases : SourceValid(releases[i])
    BY <1>2 DEF HistoryVerifies, ReleasesVerify, ChainIntact
  <2>4. LostReleaseIsNoticed <=>
          (HistoryVerifies(shared) <=> \A r \in Rows(releases) : Valid(r) /\ Prefix(r))
    BY <1>2 DEF LostReleaseIsNoticed, ReleaseLossIsNoticed
  <2> HIDE DEF Chained, Valid, Prefix
  <2>5. (\A r \in Rows(releases) : Valid(r) /\ Prefix(r)) <=>
          \A i \in DOMAIN releases : Valid(releases[i]) /\ Prefix(releases[i])
    BY DEF Rows
  <2> QED
    BY <2>1, <2>2, <2>3, <2>4, <2>5
<1> QED
  BY <1>1, <1>2

(* The shared registry verifies exactly as long as nothing was lost; the   *)
(* local one refuses exactly the damaged sources and the records whose     *)
(* predecessors are not all there.                                         *)
THEOREM LossAlwaysShows == Spec => []LostReleaseIsNoticed
<1> QED
  BY LossShowsItself, ToolsInvariant, PTL
=============================================================================

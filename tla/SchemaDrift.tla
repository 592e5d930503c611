----------------------------- MODULE SchemaDrift -----------------------------
(***************************************************************************)
(* detectSchemaDrift: what a change of a tool's JSON schema means for the  *)
(* calls that were accepted so far.                                        *)
(*                                                                         *)
(* A schema is a record of its keywords; a keyword that is absent is the   *)
(* empty set, one that is there the set of its value.  The keywords of a   *)
(* kind stand for one another: minimum for all lower bounds, maximum for   *)
(* all upper ones, other for every keyword without a rule, note for every  *)
(* annotation; a pattern is the set of what it matches.  The properties of *)
(* an object are schemas of scalars: the code applies the same rules at    *)
(* every depth.                                                            *)
(***************************************************************************)
EXTENDS Integers, FiniteSets

(* The schema {}: no keyword at all.                                       *)
Empty == [kind |-> "object", type |-> {}, enum |-> {}, const |-> {},
          minimum |-> {}, maximum |-> {}, multipleOf |-> {}, pattern |-> {},
          other |-> {}, note |-> {}, required |-> {}, properties |-> <<>>, closed |-> FALSE]

(* true and false are schemas too.                                         *)
Everything == [Empty EXCEPT !.kind = "all"]
Nothing == [Empty EXCEPT !.kind = "none"]

(* A keyword has one value at most, the bounds are numbers, and a multiple *)
(* is positive: what a JSON object and the meta-schema admit.              *)
AtMostOne(keyword) == \A x, y \in keyword : x = y

IsScalarSchema(s) ==
  /\ s.kind \in {"object", "all", "none"}
  /\ AtMostOne(s.enum) /\ AtMostOne(s.pattern)
  /\ AtMostOne(s.minimum) /\ s.minimum \subseteq Int
  /\ AtMostOne(s.maximum) /\ s.maximum \subseteq Int
  /\ AtMostOne(s.multipleOf) /\ s.multipleOf \subseteq Nat \ {0}

IsSchema(s) ==
  /\ IsScalarSchema(s) /\ s.closed \in BOOLEAN
  /\ \A k \in DOMAIN s.properties : IsScalarSchema(s.properties[k])
-----------------------------------------------------------------------------
(* Every rule yields the judgements of the changes it finds.               *)

When(condition, judgement) == IF condition THEN {judgement} ELSE {}
Judged(changed, relaxed) ==
  When(changed, IF relaxed THEN "non_breaking" ELSE "breaking")

(* Mutant of Types: a type that is dropped is as good as one that is added. *)
TypesEitherWay(before, after) ==
  Judged(before # after,
         before # {} /\ (after \subseteq before \/ before \subseteq after))

Types(before, after) ==
  Judged(before # after,
         before # {} /\ (after = {} \/ before \subseteq after))

(* An enum that loses a value and gains another is both.                   *)
Enum(before, after) ==
  IF before = {} \/ after = {} THEN Judged(before # after, after = {})
  ELSE LET old == UNION before  new == UNION after
       IN  When(~(old \subseteq new), "breaking")
             \cup When(~(new \subseteq old), "non_breaking")

Const(before, after) == Judged(before # after, after = {})

Numeric(before, after, higherIsTighter) ==
  Judged(before # after,
         \/ after = {}
         \/ \E l \in before, r \in after :
              IF higherIsTighter THEN r < l ELSE r > l)

MultipleOf(before, after) ==
  IF before = {} \/ after = {} \/ before = after
  THEN Judged(before # after, after = {})
  ELSE UNION {IF r % l = 0 THEN {"breaking"}
              ELSE IF l % r = 0 THEN {"non_breaking"} ELSE {"review"}
              : l \in before, r \in after}

Pattern(before, after) ==
  IF before = {} \/ after = {} THEN Judged(before # after, after = {})
  ELSE When(before # after, "review")

Keywords(before, after) ==
  Types(before.type, after.type)
    \cup Enum(before.enum, after.enum)
    \cup Const(before.const, after.const)
    \cup Numeric(before.minimum, after.minimum, TRUE)
    \cup Numeric(before.maximum, after.maximum, FALSE)
    \cup MultipleOf(before.multipleOf, after.multipleOf)
    \cup Pattern(before.pattern, after.pattern)
    \cup When(before.other # after.other, "review")
    \cup When(before.note # after.note, "non_breaking")

Booleans(before, after) ==
  Judged(before.kind # after.kind,
         before.kind # "all" /\ (after.kind = "all" \/ before.kind = "none"))

Scalars(before, after) ==
  IF "object" \in {before.kind} \cap {after.kind} THEN Keywords(before, after)
  ELSE Booleans(before, after)

Properties(before, after) ==
  LET old == DOMAIN before.properties  new == DOMAIN after.properties
  IN  When(old \ new # {}, IF before.closed THEN "breaking" ELSE "review")
        \cup When((new \ old) \cap after.required # {}, "breaking")
        \cup When((new \ old) \ after.required # {}, "non_breaking")
        \cup UNION {Scalars(before.properties[k], after.properties[k]) :
                    k \in old \cap new}

Structure(before, after) ==
  When(~(after.required \subseteq before.required), "breaking")
    \cup When(~(before.required \subseteq after.required), "non_breaking")
    \cup Properties(before, after)
    \cup Judged(before.closed # after.closed, before.closed)

Compare(before, after) ==
  IF "object" \in {before.kind} \cap {after.kind}
  THEN Keywords(before, after) \cup Structure(before, after)
  ELSE Booleans(before, after)

Compatibility(before, after) ==
  LET changes == Compare(before, after)
  IN  CASE before = after -> "identical"
        [] before # after /\ "breaking" \in changes -> "breaking"
        [] before # after /\ "breaking" \notin changes
             /\ ("review" \in changes \/ changes = {}) -> "review"
        [] OTHER -> "backward_compatible"
-----------------------------------------------------------------------------
(* What a schema accepts, by the JSON Schema standard: a scalar is a       *)
(* record of its type and a number, arguments are a function on names.     *)
(* A keyword without a rule may accept anything.                           *)

AreArguments(arguments) ==
  \A k \in DOMAIN arguments :
    arguments[k].type = "integer" => arguments[k].n \in Int

AcceptsScalar(s, v) ==
  \/ s.kind = "all"
  \/ /\ s.kind = "object"
     /\ s.type # {} => v.type \in s.type
     /\ \A values \in s.enum \cup s.pattern : v \in values
     /\ \A c \in s.const : v = c
     /\ v.type = "integer" =>
          /\ \A m \in s.minimum : v.n >= m
          /\ \A m \in s.maximum : v.n <= m
          /\ \A m \in s.multipleOf : v.n % m = 0

Accepts(s, arguments) ==
  \/ s.kind = "all"
  \/ /\ s.kind = "object"
     /\ s.type # {} => "object" \in s.type
     /\ s.required \subseteq DOMAIN arguments
     /\ s.closed => DOMAIN arguments \subseteq DOMAIN s.properties
     /\ \A k \in DOMAIN arguments \cap DOMAIN s.properties :
          AcceptsScalar(s.properties[k], arguments[k])

(* An optional property that is declared later is taken for a widening,    *)
(* which it is only if undeclared properties were refused before.          *)
Comparable(before, after) ==
  \/ before.kind # "object" \/ after.kind # "object" \/ before.closed
  \/ DOMAIN after.properties \subseteq DOMAIN before.properties
=============================================================================

--------------------------- MODULE ManagedTools_MC ---------------------------
(* Bounded instances of ManagedTools: a behaviour is about what a change   *)
(* means, about releases to two environments, or about calls.              *)
EXTENDS ManagedTools

Integer(n) == [type |-> "integer", n |-> n]
String(n) == [type |-> "string", n |-> n]
Values == {Integer(0), Integer(1), Integer(2), Integer(4), String(0), String(1)}

(* Calls with the arguments a and b.                                       *)
MC_Arguments ==
  {<<>>} \cup {("a" :> v) : v \in Values}
    \cup {("b" :> w) : w \in {Integer(0), String(0)}}
    \cup {("a" :> v @@ "b" :> w) : v \in Values, w \in {Integer(0), String(0)}}

Of(property) ==
  [Empty EXCEPT !.type = {"object"}, !.properties = ("a" :> property), !.closed = TRUE]
An(type) == [Empty EXCEPT !.type = type]

(* One schema at least for every keyword that has a rule, and changes of   *)
(* it that widen, narrow, or do both.                                      *)
Constrained ==
  {Of(p) : p \in {Everything, Nothing, Empty, An({"integer"}), An({"string"}),
     An({"integer", "string"}),
     [An({"integer"}) EXCEPT !.minimum = {1}], [An({"integer"}) EXCEPT !.minimum = {2}],
     [An({"integer"}) EXCEPT !.maximum = {1}], [An({"integer"}) EXCEPT !.maximum = {2}],
     [An({"integer"}) EXCEPT !.multipleOf = {2}], [An({"integer"}) EXCEPT !.multipleOf = {4}],
     [An({"integer"}) EXCEPT !.multipleOf = {3}],
     [Empty EXCEPT !.enum = {{Integer(1), Integer(2)}}],
     [Empty EXCEPT !.enum = {{Integer(1), String(1)}}], [Empty EXCEPT !.enum = {{Integer(1)}}],
     [Empty EXCEPT !.const = {Integer(1)}], [Empty EXCEPT !.const = {String(1)}],
     [Empty EXCEPT !.pattern = {{String(1)}}], [Empty EXCEPT !.other = {"format"}],
     [Empty EXCEPT !.note = {"title"}]}}

(* The shape of the object: what is required, known and left open.         *)
Open == [Of(An({"integer"})) EXCEPT !.closed = FALSE]
Required == [Of(An({"integer"})) EXCEPT !.required = {"a"}]
Both == [Of(An({"integer"})) EXCEPT
           !.properties = ("a" :> An({"integer"}) @@ "b" :> An({"string"}))]
Shapes == {Everything, Nothing, Empty, Of(An({"integer"})), Open, Required, Both,
           [Both EXCEPT !.required = {"b"}], [Both EXCEPT !.closed = FALSE]}

MC_Schemas == Constrained \cup Shapes

Idle ==
  [schemas |-> {Required, Both}, offered |-> {Required}, sharing |-> BOOLEAN,
   registrations |-> 0, promotions |-> 0, policies |-> 0, losses |-> 0, offers |-> 0,
   lists |-> 0, calls |-> 0]

Classified == {[Idle EXCEPT !.schemas = ss, !.sharing = {TRUE}, !.registrations = 2,
                            !.promotions = 2] : ss \in {Constrained, Shapes}}

Released3 == [Idle EXCEPT !.schemas = {Required, Both, Open}, !.registrations = 3,
                          !.promotions = 3, !.policies = 1, !.losses = 1]

Called == [Idle EXCEPT !.registrations = 2, !.promotions = 2, !.policies = 2,
                       !.losses = 1, !.calls = 1, !.offers = 1]

Listed == [Idle EXCEPT !.offers = 2, !.lists = 2, !.calls = 1]

MC_Scenarios == Classified \cup {Released3, Called, Listed}

(* Releases of the schemas of Shapes to one environment or two.            *)
MC_Shapes == {[Idle EXCEPT !.schemas = Shapes, !.sharing = {TRUE},
                           !.registrations = 2, !.promotions = 2]}

MC_Symmetry ==
  {p @@ q : p \in Permutations(Callers), q \in Permutations(Environments)}
=============================================================================

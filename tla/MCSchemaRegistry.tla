-------------------------- MODULE MCSchemaRegistry --------------------------
(* Schemas with two properties for SchemaRegistry, for TLC.                    *)
EXTENDS SchemaRegistry

LeafOf(types, enum) == [form |-> "object", types |-> types, enum |-> enum]
Integer == LeafOf({"integer"}, NoEnum)
Untyped == LeafOf({}, NoEnum)
Wide    == LeafOf({"number", "string"}, NoEnum)
Listed  == LeafOf({"integer"}, {"1"})

Open(leaf)   == [leaf |-> leaf, required |-> {}, closed |-> FALSE]
Strict(leaf) == [leaf |-> leaf, required |-> {}, closed |-> TRUE]

\* The second narrows two types of the first.
MCContents == {Open([p \in {"a"} |-> Wide]), Strict([p \in {"a", "b"} |-> Integer])}
MCCandidates ==
  {[leaf |-> leaf, required |-> required, closed |-> closed] :
     leaf \in UNION {[P -> {Integer, Untyped, Wide, Listed, Anything, Nothing}] : P \in SUBSET Props},
     required \in SUBSET Props, closed \in BOOLEAN}

\* A property that is always there to be accepted, and one that may not be there.
MCBooleans == {Open([p \in {"a"} |-> Anything]), Open([p \in {"a"} |-> Nothing])}
=============================================================================

------------------------- MODULE SchemaCompatibility -------------------------
(***************************************************************************)
(* CheckBackwardCompatibility (modules/schema/compatibility.go): the        *)
(* field-level comparison of a published JSON Schema with a candidate, and  *)
(* the acceptance of instances (modules/schema/validator.go) it is judged   *)
(* by.                                                                      *)
(*                                                                          *)
(* A schema describes an object.  It has a set of properties, each an       *)
(* object with a set of types (none: any type) and an enum, or one of the   *)
(* schemas true and false; a set of required properties; and `closed'       *)
(* stands for every constraint outside type, enum, required and             *)
(* properties, here additionalProperties: false.  Properties are scalars,   *)
(* so compareSchema's recursion goes one level deep.  A report is meant to  *)
(* have at most twelve changes, which sort.Slice orders by insertion, that  *)
(* is without exchanging equals.                                            *)
(***************************************************************************)
EXTENDS Integers, FiniteSets

CONSTANTS
  Props   \* names of properties

Types   == {"integer", "number", "string"}
Values  == {"1", "2", "2.5", "text"}
NoEnum  == Values \cup {"any"}  \* a schema without an enum takes any value

TypesOf(value) == IF value = "text" THEN {"string"}
                  ELSE IF value = "2.5" THEN {"number"} ELSE {"integer", "number"}

\* The property schemas true and false, which are no objects.
Anything == [form |-> "boolean", types |-> {}, enum |-> NoEnum]
Nothing  == [form |-> "boolean", types |-> {}, enum |-> {}]
Leaf == [form : {"object"}, types : SUBSET Types, enum : (SUBSET Values) \cup {NoEnum}]
        \cup {Anything, Nothing}

\* A schema: what it declares of each property it has.
Schema == [leaf : UNION {[P -> Leaf] : P \in SUBSET Props}, required : SUBSET Props,
           closed : BOOLEAN]

Properties(s) == DOMAIN s.leaf

-----------------------------------------------------------------------------
(* Changes that the comparison finds: the messages it has for a path and a   *)
(* kind.                                                                     *)

AddChanges(path, kind, messages) ==
  IF messages = {} THEN {} ELSE {[path |-> path, kind |-> kind, messages |-> messages]}
AddChange(path, kind, condition) == AddChanges(path, kind, IF condition THEN {kind} ELSE {})

\* Types of the published schema that the candidate takes.
Accepted(type, types) == type \in types \/ (type = "integer" /\ "number" \in types)

\* One message for each type that is no longer accepted.
CompareTypes(path, old, new) ==
  LET before == IF old.types = {} THEN {"any"} ELSE old.types
  IN  AddChanges(path, "type-narrowed",
        {type \in before : new.types # {} /\ ~Accepted(type, new.types)})

\* Mutant: a candidate that adds an enum is not looked at.
CompareEnumIfOld(path, old, new) ==
  AddChanges(path, "enum-narrowed",
    IF old.enum = NoEnum \/ new.enum = NoEnum THEN {} ELSE old.enum \ new.enum)

\* One message for each value that is no longer in the enum.
CompareEnum(path, old, new) ==
  LET before == IF old.enum = NoEnum THEN {"any"} ELSE old.enum
  IN  AddChanges(path, "enum-narrowed", IF new.enum = NoEnum THEN {} ELSE before \ new.enum)

CompareOtherConstraints(old, new) ==
  AddChange("$", "constraint-changed", old.closed # new.closed)

\* compareSchema of the two property schemas, when both are objects.
CompareLeaf(p, old, new) ==
  IF old.form = "object" /\ new.form = "object"
  THEN CompareTypes(p, old, new) \cup CompareEnum(p, old, new) ELSE {}

CompareProperty(p, old, new) ==
  IF p \notin Properties(new) THEN AddChange(p, "property-removed", TRUE)
  ELSE CompareLeaf(p, old.leaf[p], new.leaf[p])

CompareSchema(old, new) ==
  CompareOtherConstraints(old, new)
  \cup (UNION {AddChange(p, "required-added", TRUE) : p \in new.required \ old.required})
  \cup (UNION {CompareProperty(p, old, new) : p \in Properties(old)})

\* The orders in which a list may hold the messages.
Orders(messages) ==
  {o \in [1 .. Cardinality(messages) -> messages] : \A m \in messages : \E i \in DOMAIN o : o[i] = m}

\* Changes are listed by path and kind.  Within one path and kind, removed enum
\* values keep the order of the enum; types come as Go iterates over a map.
MessageOrders(change) ==
  IF change.kind = "enum-narrowed" THEN {CHOOSE o \in Orders(change.messages) : TRUE}
  ELSE Orders(change.messages)

\* CheckBackwardCompatibility: the reports it may give, and whether they are empty.
Reports(old, new) ==
  LET changes == CompareSchema(old, new)
  IN  {r \in [changes -> UNION {MessageOrders(c) : c \in changes}] :
         \A c \in changes : r[c] \in MessageOrders(c)}
Compatible(old, new) == CompareSchema(old, new) = {}

-----------------------------------------------------------------------------
(* Validator.ValidateJSON.                                                   *)

Instances == UNION {[P -> Values] : P \in SUBSET Props}

AcceptsValue(leaf, value) ==
  /\ leaf.types = {} \/ TypesOf(value) \cap leaf.types # {}
  /\ value \in leaf.enum

Accepts(s, instance) ==
  /\ s.required \subseteq DOMAIN instance
  /\ s.closed => DOMAIN instance \subseteq Properties(s)
  /\ \A p \in DOMAIN instance \cap Properties(s) : AcceptsValue(s.leaf[p], instance[p])

Preserves(old, new) ==
  \A instance \in Instances : Accepts(old, instance) => Accepts(new, instance)

\* Whether an open schema is given properties it did not declare: an instance
\* that already carried such a field is then held to the candidate's type, and
\* the report does not say so.
DeclaresMore(old, new) == ~old.closed /\ ~(Properties(new) \subseteq Properties(old))

\* Whether a property schema that is true or false, in one of the two versions,
\* becomes another one: nothing compares it.
LeavesUncompared(old, new) ==
  \E p \in Properties(old) \cap Properties(new) :
    /\ "boolean" \in {old.leaf[p].form, new.leaf[p].form}
    /\ old.leaf[p] \notin {Nothing, new.leaf[p]} /\ new.leaf[p] # Anything
=============================================================================

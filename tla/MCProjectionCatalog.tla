------------------------- MODULE MCProjectionCatalog -------------------------
(* ProjectionCatalog for TLC, from two initial catalogs: an empty one that two  *)
(* callers fill ("control"), and one in use that one caller changes while a     *)
(* node runs ("runtime"); and the associations that the node's handlers write   *)
(* ("association").                                                             *)
EXTENDS ProjectionCatalog, Association

CONSTANTS
  c1, c2,
  RuntimeCalls   \* bound: requests while the node runs
VARIABLE part
allVars == <<part, vars, associationVars>>

Source(workspace, source, type, mode, allow) ==
  [tenant |-> "t", workspace |-> workspace, source |-> source, type |-> type,
   mode |-> mode, allow |-> {<<"t", w>> : w \in allow}]
Mapping(workspace, mapping, source, type, fields, holds) ==
  [tenant |-> "t", workspace |-> workspace, mapping |-> mapping, source |-> source,
   type |-> type, schema |-> "d", fields |-> fields,
   fixture |-> [tenant |-> "t", workspace |-> workspace, source |-> source, type |-> type,
                holds |-> holds]]
Event(id, workspace, source, type, holds) ==
  [id |-> id, tenant |-> "t", workspace |-> workspace, source |-> source, type |-> type,
   holds |-> holds]

\* A payload with a value at one path.
At1(path, value) == [p \in {path} |-> value]
Number == At1("p", "number")
Text   == At1("p", "text")

Flat == [t \in {<<"a">>} |-> "p"]
Nested == [t \in {<<"a">>, <<"a", "b">>} |-> "p"]

Approver1 == Source("w1", "approver", "e", "metadata", {})
Approver1Listed == Source("w1", "approver", "e", "allowlist", {"w1"})
Approver1Nowhere == Source("w1", "approver", "e", "allowlist", {})
Approver2 == Source("w2", "approver", "e", "allowlist", {"w2"})
Approver3 == Source("w3", "approver", "e", "allowlist", {"w2"})
Fluxion   == Source("w2", "fluxion", "summary", "metadata", {})
Ledger    == Source("w1", "ledger", "e", "metadata", {})
First     == Mapping("w1", "m1", "approver", "e", Flat, Number)
Twin      == Mapping("w1", "m2", "approver", "e", Nested, Number)
Unmapped  == Mapping("w2", "m1", "approver", "e", Flat, Text)
Second    == Mapping("w2", "m1", "approver", "e", Flat, Number)
Third     == Mapping("w3", "m1", "approver", "e", Flat, Number)
Reserved  == Mapping("w2", "m2", "fluxion", "summary", Flat, Number)
Stranded  == Mapping("w1", "m3", "ledger", "e", Flat, Number)

MCSources  == {Approver1, Approver1Listed, Approver1Nowhere, Approver2, Approver3, Fluxion, Ledger}
MCMappings == {First, Twin, Unmapped, Second, Third, Reserved, Stranded}

\* The target schema requires a number at `a', of any size.
MCDeclared == {<<"a">>, <<"a", "b">>}
MCTaken == {d \in UNION {[T -> {"number", "huge", "text"}] : T \in SUBSET MCDeclared} :
              <<"a">> \in DOMAIN d /\ d[<<"a">>] # "text"}
MCDefinitions == [s \in {"d"} |-> [declares |-> MCDeclared, takes |-> MCTaken]]
MCBuiltIn == {<<"fluxion", "summary">>}

\* Events that have the value of the fixtures, another, none, or one too large.
MCEvents == {Event(1, "w1", "approver", "e", Number), Event(2, "w2", "approver", "e", Text),
             Event(3, "w2", "fluxion", "summary", Number),
             Event(4, "w3", "approver", "e", At1("q", "number")),
             Event(5, "w1", "approver", "e", At1("p", "huge"))}

\* Three versions, and a second event of version 2 with another payload.
Approval(version, id, payload) == [version |-> version, id |-> id, payload |-> payload]
MCApprovals == {Approval(1, "a", "p"), Approval(2, "b", "p"), Approval(2, "c", "q"),
                Approval(3, "d", "p")}

\* A catalog in use: with one mapping, with two that are both built, and with two
\* that no generation can hold.
InUse == {{First}, {First, Second}, {First, Twin}}

Init ==
  /\ AssociationInit
  /\ \/ part \in {"control", "association"} /\ InitFrom({}, {})
     \/ part = "runtime" /\ \E m \in InUse : InitFrom(MCSources \ {Approver1Listed, Approver1Nowhere}, m)
  /\ part # "association" => kind = "project" /\ sequential

\* What callers send: two keys and a mapping in the empty catalog; one key, every
\* mapping and no request that must fail in the one in use.
Requested(q) ==
  IF part = "control" THEN q.input \in {Approver1, Approver1Listed, Approver1Nowhere, Ledger, First}
  ELSE /\ q.key = "k1" /\ q.input \in MCMappings /\ calls' <= RuntimeCalls
       /\ q.expected = mappings[MappingKey(q.input)].revision

\* A node reads only what a transaction writes, so it runs between the calls.  An
\* event is routed by the node's state alone, so events come in one order.
Catalog ==
  /\ \/ part = "control" /\ Control
     \/ part = "runtime" /\ ((UNCHANGED faults /\ Call(c1)) \/ (Runtime /\ call[c1] = Idle))
  /\ \A c \in Callers : call'[c] # Idle => Requested(call'[c].request)
  /\ \A d, e \in Events : d.id < e.id /\ landed[d] = Pending => landed'[e] = Pending
Next ==
  /\ UNCHANGED part
  /\ \/ Catalog /\ UNCHANGED associationVars
     \/ part = "association" /\ AssociationNext /\ UNCHANGED vars
Spec == Init /\ [][Next]_allVars /\ RuntimeFairness

\* Every registration, receipt, result and association has the shape the code gives it.
TypeOK == CatalogTypeOK /\ AssociationTypeOK
=============================================================================

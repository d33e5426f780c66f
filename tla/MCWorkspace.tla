----------------------------- MODULE MCWorkspace -----------------------------
(* The schemas of a workspace, its definitions, the reading of its records, the    *)
(* snapshots taken of them and the onboarding of connectors, for TLC.  They share  *)
(* no variable, so a behaviour of the instance is about one of them: `part' says   *)
(* which.                                                                          *)
EXTENDS MCSchemaRegistry, Workspace, RecordQuery, WorkflowBinding, ConnectorOnboarding, TLC

VARIABLE part
vars == <<part, registryVars, wvars, qvars, bvars, ovars>>

\* Documents have numbers of one digit.
MCDocNumbers == {n \in Literals : Len(n.digits) = 1}

\* Workspace: two entry lists with an overriding, an inactive and a second tag.
MCLower(t) == IF t = "A" THEN "a" ELSE t
Entry(group, active) == [group |-> group, active |-> active]
MCEntries == {[t \in {"A", "b"} |-> Entry("g", TRUE)], [t \in {"a"} |-> Entry("h", FALSE)]}
MCTagLists == {{"a"}, {"A", "a"}, {"a", "b"}, {"b"}}

\* Views, indexes and dictionaries depend on tables and not on each other.
Operations ==
  [views |-> {"workspace", "table", "view", "update"}, indexes |-> {"table", "index"},
   tags |-> {"table", "save"}]
WorkspaceStep ==
  /\ part \in DOMAIN Operations
  /\ WorkspaceNext
  /\ \A c \in Users : work'[c] # IdleWork => work'[c].request.op \in Operations[part]

\* RecordQuery: every order of one field, and filters that an absent field meets or not.
Sort(field, direction) == [field |-> field, direction |-> direction]
Filter(operator, value, values) == [operator |-> operator, value |-> value, values |-> values]
View(sorts, filter, columns) == [sorts |-> sorts, filter |-> filter, columns |-> columns]
MCInitialViews ==
  {View(s[1], s[2], <<"data.value", "secret">>) :
     s \in {<<<<>>, Filter("lt", 2, {})>>,
            <<<<Sort("value", "asc")>>, Filter("none", 0, {})>>,
            <<<<Sort("value", "desc")>>, Filter("none", 0, {})>>,
            <<<<Sort("value", "desc")>>, Filter("in", 0, {1, Absent})>>}}
MCLaterViews ==
  {View(<<Sort("id", "desc")>>, Filter("gte", 2, {}), <<"id">>),
   View(<<Sort("value", "desc")>>, Filter("ne", 1, {}), <<"id">>)}

\* WorkflowBinding: the record before and after an event that leaves its version
\* alone, and after a rebuild has mapped that event anew; two rivals for one
\* operation, and another operation.
Source(version, data) == [schema |-> "s", record |-> 1, source |-> version, data |-> data]
MCSourceRecords == {Source(1, "p"), Source(2, "q"), Source(2, "r")}
Binding(operation, version, purpose) ==
  [operation |-> operation, schema |-> "s", record |-> 1, source |-> version, purpose |-> purpose]
MCSnapshotRequests ==
  {Binding("o", 2, "x"), Binding("o", 0, "x"), Binding("o", 2, "y"), Binding("n", 0, "x"),
   [Binding("n", 0, "x") EXCEPT !.record = 2], [Binding("n", 0, "x") EXCEPT !.schema = "t"]}

\* ConnectorOnboarding: two owners, and an operator with the subject of one of them.
Member(issuer, subject, role) == [issuer |-> issuer, subject |-> subject, role |-> role]
MCPrincipals == {Member("i", "a", "OWNER"), Member("j", "a", "OPERATOR"), Member("i", "c", "OWNER")}

Init ==
  /\ part \in DOMAIN Operations \cup {"schemas", "records", "snapshots", "connectors"}
  /\ RegistryInit /\ WorkspaceInit /\ QueryInit /\ BindingInit /\ OnboardingInit
  /\ part # "schemas" => defs = [v \in Versions |-> IF v \in Seeded THEN Published(AnyContent)
                                                  ELSE NoDefinition]
  /\ part # "records" => DOMAIN records = {} /\ view = CHOOSE v \in InitialViews : TRUE
Next ==
  /\ UNCHANGED part
  /\ \/ part = "schemas" /\ RegistryNext /\ UNCHANGED <<wvars, qvars, bvars, ovars>>
     \/ WorkspaceStep /\ UNCHANGED <<registryVars, qvars, bvars, ovars>>
     \/ part = "records" /\ QueryNext /\ UNCHANGED <<registryVars, wvars, bvars, ovars>>
     \/ part = "snapshots" /\ BindingNext /\ UNCHANGED <<registryVars, wvars, qvars, ovars>>
     \/ part = "connectors" /\ OnboardingNext /\ UNCHANGED <<registryVars, wvars, qvars, bvars>>
Spec == Init /\ [][Next]_vars

\* The callers of every part are one set of model values, and so are ids and keys.
Symmetry == Permutations(Users) \cup Permutations(Ids)

\* Every document, request, page and record has the shape the code gives it.
TypeOK == RegistryTypeOK /\ WorkspaceTypeOK /\ QueryTypeOK /\ BindingTypeOK
          /\ OnboardingTypeOK
=============================================================================

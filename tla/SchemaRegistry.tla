---------------------------- MODULE SchemaRegistry ----------------------------
(***************************************************************************)
(* The schema registry (modules/schema): drafts, their publication, and     *)
(* migration plans between two versions, with the idempotency receipts and  *)
(* the audit entries that join each transaction.                            *)
(*                                                                          *)
(* One tenant, workspace and schema id, whose versions are created as       *)
(* drafts.  A request has passed authentication, membership and compilation *)
(* of its schema; the name of a version is part of its content.  A hash is  *)
(* what it is a hash of.  Nothing in the code approves or runs a plan, so a *)
(* plan is DRAFT or CANCELLED.                                              *)
(***************************************************************************)
EXTENDS SchemaCompatibility, CanonicalJSON

CONSTANTS
  Versions,     \* version numbers of the schema
  Contents,     \* schemas that callers write
  Candidates,   \* schemas that callers only compare
  Callers,      \* requests handled concurrently
  Keys,         \* idempotency keys
  Seeded,       \* versions created and published before the behaviour starts
  MaxRevision,  \* bound: revisions of one version
  MaxPlans,     \* bound: migration plans
  MaxCalls,     \* bound: requests of one behaviour
  MaxFaults     \* bound: failed or unacknowledged commits

ASSUME RegistryAssumption ==
  /\ Versions \subseteq Nat \ {0} /\ Seeded \subseteq Versions /\ IsFiniteSet(Seeded)
  /\ Contents \subseteq Schema /\ Candidates \subseteq Schema
  /\ MaxRevision \in Nat /\ MaxPlans \in Nat /\ MaxCalls \in Nat /\ MaxFaults \in Nat

VARIABLES
  defs,      \* defs[v]: the definition of version v, or NoDefinition
  plans,     \* migration plans
  receipts,  \* schema and migration receipts
  audited,   \* audit entries written
  call,      \* call[w]: step, request and what was read for it
  calls, faults

storeVars == <<defs, plans, receipts, audited>>
registryVars == <<storeVars, call, calls, faults>>

NoHash == {}          \* no content hash yet
NoReport == <<>>      \* no change
HashOf(content) == {content}
AnyContent == CHOOSE c \in Contents : TRUE
NoDefinition == [status |-> "NONE", revision |-> 0, content |-> AnyContent, hash |-> NoHash]
Definitions ==
  [status : {"NONE", "DRAFT", "PUBLISHED"}, revision : 0 .. MaxRevision, content : Contents,
   hash : {NoHash} \cup {HashOf(c) : c \in Contents}]

Least(m, n) == IF m < n THEN m ELSE n
PlanIds == 1 .. MaxPlans

\* A request: `number' is the version it is about, the `from' of a plan, or the
\* id of the plan to cancel; `to' is the target of a plan.
NoRequest == [op |-> "none", key |-> "none", number |-> 0, to |-> 0, content |-> AnyContent,
              expected |-> 0]
Idle == [step |-> "idle", request |-> NoRequest, from |-> NoDefinition, to |-> NoDefinition,
         report |-> NoReport, plan |-> {}]

\* What creating and publishing the seeded versions has left.
Published(content) ==
  [status |-> "PUBLISHED", revision |-> 2, content |-> content, hash |-> HashOf(content)]
SeedReceipt(op, v) ==
  [key |-> <<"seed", v>>, hash |-> [op |-> op, number |-> v, to |-> 0, content |-> AnyContent,
                                   expected |-> 0, report |-> NoReport]]

RegistryInit ==
  /\ \E content \in Contents :
       defs = [v \in Versions |-> IF v \in Seeded THEN Published(content) ELSE NoDefinition]
  /\ receipts = {SeedReceipt("create", v) : v \in Seeded}
                \cup {SeedReceipt("publish", v) : v \in Seeded}
  /\ plans = {} /\ audited = Cardinality(receipts)
  /\ call = [w \in Callers |-> Idle]
  /\ calls = 0 /\ faults = 0

-----------------------------------------------------------------------------
(* What a caller sends.  A revision or version comes from an answer the      *)
(* caller was given (the ETag); fields an operation does not use are fixed.  *)

CreateRequests ==
  [op : {"create"}, key : Keys, number : Versions, to : {0}, content : Contents, expected : {0}]

UpdateRequests ==
  UNION {[op : {"update"}, key : Keys, number : {v}, to : {0}, content : Contents,
          expected : 1 .. Least(defs[v].revision, MaxRevision - 2)] : v \in Versions}

PublishRequests ==
  UNION {[op : {"publish"}, key : Keys, number : {v}, to : {0}, content : {AnyContent},
          expected : 1 .. defs[v].revision] : v \in Versions}

PlanRequests ==
  {q \in [op : {"plan"}, key : Keys, number : Versions, to : Versions, content : {AnyContent},
          expected : {0}] : q.number < q.to}

CancelRequests ==
  UNION {[op : {"cancel"}, key : Keys, number : {p.id}, to : {0}, content : {AnyContent},
          expected : 1 .. p.version] : p \in plans}

\* draftHash, publishHash, migrationPlanRequestHash (which covers the report)
\* and migrationCancelRequestHash.
Hash(w) ==
  LET q == call[w].request
  IN  [op |-> q.op, number |-> q.number, to |-> q.to, content |-> q.content,
       expected |-> q.expected, report |-> call[w].report]

-----------------------------------------------------------------------------
Request(w) == call[w].request
At(w, step) == call[w].step = step
Go(w, step) == call' = [call EXCEPT ![w].step = step]
Answer(w)   == call' = [call EXCEPT ![w] = Idle]

First(op) == CASE op = "plan" -> "from" [] op = "cancel" -> "plan" [] OTHER -> "receipt"

Begin(w) ==
  /\ At(w, "idle") /\ calls < MaxCalls
  /\ calls' = calls + 1
  /\ \E q \in CreateRequests \cup UpdateRequests \cup PublishRequests
              \cup PlanRequests \cup CancelRequests :
       call' = [call EXCEPT ![w].request = q, ![w].step = First(q.op)]
  /\ UNCHANGED <<storeVars, faults>>

\* MigrationService.Create reads the two versions one after the other: the
\* source must be published, the target must exist.
FindFrom(w) ==
  LET from == defs[Request(w).number]
  IN
  /\ At(w, "from")
  /\ IF from.status # "PUBLISHED" THEN Answer(w)
     ELSE call' = [call EXCEPT ![w].step = "to", ![w].from = from]
  /\ UNCHANGED <<storeVars, calls, faults>>

\* The two are compared, in whatever order the report comes.
FindTo(w) ==
  LET to == defs[Request(w).to]
  IN
  /\ At(w, "to")
  /\ \/ to.status = "NONE" /\ Answer(w)
     \/ /\ to.status # "NONE"
        /\ \E report \in Reports(call[w].from.content, to.content) :
             call' = [call EXCEPT ![w].step = "receipt", ![w].to = to, ![w].report = report]
  /\ UNCHANGED <<storeVars, calls, faults>>

\* Cancel reads the plan.
FindPlan(w) ==
  /\ At(w, "plan")
  /\ call' = [call EXCEPT ![w].step = "receipt", ![w].plan = {p \in plans : p.id = Request(w).number}]
  /\ UNCHANGED <<storeVars, calls, faults>>

Found(w) == {e \in receipts : e.hash.op = Request(w).op /\ e.key = Request(w).key}

\* A receipt answers the request: its result if the hash is the same, a
\* conflict otherwise, also when a repeated comparison gave another order.
ReplayReceipt(w) ==
  /\ At(w, "receipt") /\ Found(w) # {}
  /\ Answer(w)
  /\ UNCHANGED <<storeVars, calls, faults>>

NoReceipt(w) ==
  /\ At(w, "receipt") /\ Found(w) = {} /\ Request(w).op # "cancel"
  /\ Go(w, CASE Request(w).op = "create" -> "commit"
             [] Request(w).op = "plan"   -> "fingerprint"
             [] OTHER                    -> "read")
  /\ UNCHANGED <<storeVars, calls, faults>>

Fingerprint(from, to, report) == [from |-> from, to |-> to, report |-> report]

\* FindMigrationPlanByFingerprint: an equivalent plan is the answer, whatever
\* its status, and leaves no receipt.
FindFingerprint(w) ==
  LET print == Fingerprint(Request(w).number, Request(w).to, Hash(w).report)
  IN
  /\ At(w, "fingerprint")
  /\ IF \E p \in plans : p.print = print THEN Answer(w) ELSE Go(w, "commit")
  /\ UNCHANGED <<storeVars, calls, faults>>

\* Registry.Get for an update or a publication: neither touches a version that
\* is not a draft.
ReadDraft(w) ==
  LET existing == defs[Request(w).number]
  IN
  /\ At(w, "read") /\ Request(w).op \in {"update", "publish"}
  /\ IF existing.status # "DRAFT" THEN Answer(w)
     ELSE call' = [call EXCEPT ![w].step = "commit", ![w].from = existing]
  /\ UNCHANGED <<storeVars, calls, faults>>

\* Status a cancelled plan goes to; CANCEL_REQUESTED and CANCELLED are answered
\* as they are, SUCCEEDED and FAILED refused.
NextStatus(status) == IF status \in {"DRAFT", "APPROVED"} THEN "CANCELLED"
                      ELSE IF status = "RUNNING" THEN "CANCEL_REQUESTED" ELSE "NONE"

CheckPlan(w) ==
  /\ At(w, "receipt") /\ Found(w) = {} /\ Request(w).op = "cancel"
  /\ IF \E p \in call[w].plan : p.version = Request(w).expected /\ NextStatus(p.status) # "NONE"
     THEN Go(w, "commit") ELSE Answer(w)
  /\ UNCHANGED <<storeVars, calls, faults>>

-----------------------------------------------------------------------------
(* The repository's writes.                                                  *)

Create(w) ==
  LET q == Request(w)
  IN
  /\ q.op = "create" /\ defs[q.number].status = "NONE"
  /\ defs' = [defs EXCEPT ![q.number] =
                [status |-> "DRAFT", revision |-> 1, content |-> q.content, hash |-> NoHash]]
  /\ UNCHANGED plans

\* Mutant: the update does not ask for a draft.
UpdateAnyStatus(w) ==
  LET q == Request(w)
  IN
  /\ q.op = "update" /\ q.expected <= defs[q.number].revision
  /\ defs[q.number].revision < MaxRevision
  /\ defs' = [defs EXCEPT ![q.number].content = q.content, ![q.number].revision = @ + 1]
  /\ UNCHANGED plans

UpdateDraft(w) ==
  LET q == Request(w)
  IN
  /\ q.op = "update"
  /\ defs[q.number].status = "DRAFT" /\ defs[q.number].revision = q.expected
  /\ defs' = [defs EXCEPT ![q.number].content = q.content, ![q.number].revision = @ + 1]
  /\ UNCHANGED plans

\* Mutant: the publication does not ask for the revision that was read.
PublishAnyRevision(w) ==
  LET q == Request(w)
  IN
  /\ q.op = "publish" /\ defs[q.number].status = "DRAFT"
  /\ defs' = [defs EXCEPT ![q.number].status = "PUBLISHED", ![q.number].revision = @ + 1,
                          ![q.number].hash = HashOf(call[w].from.content)]
  /\ UNCHANGED plans

\* The content hash is of what was read before the transaction.
PublishDefinition(w) ==
  LET q == Request(w)
  IN
  /\ q.op = "publish"
  /\ defs[q.number].status = "DRAFT" /\ defs[q.number].revision = q.expected
  /\ defs' = [defs EXCEPT ![q.number].status = "PUBLISHED", ![q.number].revision = @ + 1,
                          ![q.number].hash = HashOf(call[w].from.content)]
  /\ UNCHANGED plans

\* The plan keeps the report of the comparison (and, for the properties, the
\* status its target had).
CreateMigrationPlan(w) ==
  LET q == Request(w)
      print == Fingerprint(q.number, q.to, Hash(w).report)
  IN
  /\ q.op = "plan" /\ Cardinality(plans) < MaxPlans
  /\ \A p \in plans : p.print # print
  /\ plans' = plans \cup
       {[id |-> Cardinality(plans) + 1, print |-> print, against |-> call[w].to.status,
         status |-> "DRAFT", version |-> 1]}
  /\ UNCHANGED defs

UpdateMigrationPlan(w) ==
  LET q == Request(w)
      matching == {p \in plans : p.id = q.number /\ p.version = q.expected}
  IN
  /\ q.op = "cancel" /\ matching # {}
  /\ plans' = (plans \ matching) \cup
       {[p EXCEPT !.status = NextStatus(p.status), !.version = @ + 1] : p \in matching}
  /\ UNCHANGED defs

\* Mutant: receipts without their unique index.
CompleteAgain(w) ==
  /\ audited' = audited + 1
  /\ receipts' = receipts \cup {[key |-> Request(w).key, hash |-> Hash(w)]}

\* Service.complete: audit entry and receipt join the transaction, which a
\* taken key aborts.
Complete(w) ==
  /\ Found(w) = {}
  /\ audited' = audited + 1
  /\ receipts' = receipts \cup {[key |-> Request(w).key, hash |-> Hash(w)]}

Write(w) ==
  \/ Create(w) \/ UpdateDraft(w) \/ PublishDefinition(w)
  \/ CreateMigrationPlan(w) \/ UpdateMigrationPlan(w)

\* inTransaction.
Transaction(w) == At(w, "commit") /\ Write(w) /\ Complete(w)

Commit(w) ==
  /\ Transaction(w)
  /\ Answer(w)
  /\ UNCHANGED <<calls, faults>>

\* The commit reaches MongoDB and its answer is lost: the caller repeats the
\* request.
CommitUnacknowledged(w) ==
  /\ faults < MaxFaults /\ faults' = faults + 1
  /\ Transaction(w)
  /\ call' = [call EXCEPT ![w] = [Idle EXCEPT !.request = Request(w), !.step = First(Request(w).op)]]
  /\ UNCHANGED calls

\* The write matches nothing or the key is taken: SCHEMA_ALREADY_EXISTS, a
\* stale revision or version, SCHEMA_IMMUTABLE, MIGRATION_PLAN_EXISTS.
Refused(w) ==
  LET q == Request(w)
  IN  \/ Found(w) # {}
      \/ q.op = "create" /\ defs[q.number].status # "NONE"
      \/ /\ q.op \in {"update", "publish"}
         /\ defs[q.number].status # "DRAFT" \/ defs[q.number].revision # q.expected
      \/ q.op = "plan" /\ \E p \in plans : p.print = Fingerprint(q.number, q.to, Hash(w).report)
      \/ q.op = "cancel" /\ \A p \in plans : p.id = q.number => p.version # q.expected

\* The transaction has no effect: its write is refused, or MongoDB fails.
Abort(w) ==
  /\ At(w, "commit")
  /\ \/ Refused(w) /\ UNCHANGED faults
     \/ faults < MaxFaults /\ faults' = faults + 1
  /\ Answer(w)
  /\ UNCHANGED <<storeVars, calls>>

RegistryNext ==
  \E w \in Callers :
    \/ Begin(w) \/ FindFrom(w) \/ FindTo(w) \/ FindPlan(w) \/ ReplayReceipt(w)
    \/ NoReceipt(w) \/ CheckPlan(w) \/ FindFingerprint(w) \/ ReadDraft(w)
    \/ Commit(w) \/ CommitUnacknowledged(w) \/ Abort(w)

RegistrySpec == RegistryInit /\ [][RegistryNext]_registryVars

-----------------------------------------------------------------------------
(* Properties.                                                               *)

\* A definition that is not a draft has its content hash (Definition.Validate).
RegistryTypeOK ==
  /\ defs \in [Versions -> Definitions]
  /\ \A v \in Versions : defs[v].status = "PUBLISHED" <=> defs[v].hash # NoHash
  /\ \A p \in plans : p.id \in PlanIds /\ p.status \in {"DRAFT", "CANCELLED"} /\ p.version \in 1 .. 2
  /\ \A w \in Callers :
       call[w].step \in {"idle", "from", "to", "plan", "receipt", "fingerprint", "read", "commit"}

\* The content hash of a published version is the hash of the content it has, though
\* it was computed from a read outside the transaction and whatever updates read the
\* version while it was a draft; and it tells contents apart and nothing else: it is
\* taken of a canonical text that two documents share exactly when they mean the same.
HashIdentifiesContent ==
  \A v \in Versions :
    /\ defs[v].status = "PUBLISHED" => defs[v].hash = HashOf(defs[v].content)
    /\ defs[v].hash # NoHash => NumbersAreFaithful /\ DocumentsAreFaithful

ReceiptsOf(ops, number) == {e \in receipts : e.hash.op \in ops /\ e.hash.number = number}

\* Every change has one receipt and every receipt stands for one change: a
\* version has as many receipts as revisions, a plan as many as versions, and a
\* key is taken once per operation, under repetition, lost answers and races.
EachChangeHasOneReceipt ==
  /\ \A e, f \in receipts : e.hash.op = f.hash.op /\ e.key = f.key => e = f
  /\ \A v \in Versions :
       Cardinality(ReceiptsOf({"create", "update", "publish"}, v)) = defs[v].revision
  /\ \A p \in plans : Cardinality(ReceiptsOf({"cancel"}, p.id)) = p.version - 1
  /\ audited = Cardinality(receipts)

SourceOf(p) == defs[p.print.from].content
TargetOf(p) == defs[p.print.to].content
Judged(p) == p.against = "PUBLISHED"  \* the target can no longer change

\* There is one plan per version pair and report, and a plan between published
\* versions has a report that comparing them now may give: its source was published
\* when it was read and its conclusion cannot go stale unless the target was a draft.
PlansMatchPublished ==
  /\ \A p, q \in plans : p.print = q.print => p = q
  /\ \A p \in plans :
       /\ defs[p.print.from].status = "PUBLISHED"
       /\ Judged(p) => p.print.report \in Reports(SourceOf(p), TargetOf(p))

\* Two published versions have one migration plan: a repeated request for it returns
\* the plan there is (docs/phase-2-migration-design.md).
OnePlanPerPair ==
  \A p, q \in plans :
    Judged(p) /\ Judged(q) /\ p.print.from = q.print.from /\ p.print.to = q.print.to => p = q

\* A plan whose report is empty leads to a version that accepts every instance its
\* source accepts (the comment on CheckBackwardCompatibility), undeclared properties
\* of an open version aside.
PlansKeepInstances ==
  \A p \in plans :
    Judged(p) /\ p.print.report = NoReport /\ ~DeclaresMore(SourceOf(p), TargetOf(p))
      => Preserves(SourceOf(p), TargetOf(p))

\* For schemas: Compatible implies that no accepted instance is refused.
ReportsAreSound ==
  \A old \in Contents, new \in Candidates :
    Compatible(old, new) /\ ~DeclaresMore(old, new) /\ ~LeavesUncompared(old, new)
      => Preserves(old, new)

\* A candidate that compareCompatibility reports compatible with a published version
\* accepts every instance that version accepts, unless it declares a property that the
\* open version left undeclared, or a property schema that is true or false, which
\* nothing compares, has become another one.
CompatibleIsSafe ==
  \A v \in Versions : defs[v].status = "PUBLISHED" => ReportsAreSound
=============================================================================

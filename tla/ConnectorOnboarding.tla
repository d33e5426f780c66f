------------------------ MODULE ConnectorOnboarding ------------------------
(***************************************************************************)
(* Onboarding of a connector (modules/connector/onboarding.go): an owner     *)
(* submits a manifest with its evidence, an operator or another owner        *)
(* reviews it, a third person enables it.  The records live in the memory of *)
(* one process, under a mutex; the audit entry of a change is appended to    *)
(* Mongo after the mutex is released.                                        *)
(*                                                                          *)
(* One connector key in one workspace; manifests have passed their checks,    *)
(* and `pass' says whether the evidence holds every check that Enable asks    *)
(* for.  (The HTTP upload records none of them: there, Enable never passes.)  *)
(* The audit log holds the entries of the current process: the earlier ones  *)
(* are never touched again.                                                  *)
(***************************************************************************)
EXTENDS Naturals, FiniteSets

CONSTANTS
  Principals,        \* members of the workspace: [issuer, subject, role]
  MaxOpen,           \* bound: requests under way or in preparation
  MaxStoreRestarts,  \* bound: restarts of the process
  MaxAppendFaults    \* bound: audit appends that fail

ASSUME OnboardingAssumption ==
  MaxOpen \in Nat /\ MaxStoreRestarts \in Nat /\ MaxAppendFaults \in Nat

VARIABLES
  onboarding,   \* the record of the connector ({} or one)
  openRequests, \* what callers are doing: a record they were shown, or an append to come
  trail,        \* audit entries: [by, record]
  transitions,  \* ghost: [by, record] of every change the process made
  storeRestarts, appendFaults

ovars == <<onboarding, openRequests, trail, transitions, storeRestarts, appendFaults>>

Nobody == "nobody"
Statuses == {"DRAFT", "IN_REVIEW", "APPROVED", "REJECTED", "ENABLED", "DISABLED"}

OnboardingInit ==
  /\ onboarding = {} /\ openRequests = {} /\ trail = {} /\ transitions = {}
  /\ storeRestarts = 0 /\ appendFaults = 0

\* roleAllows, for active members.
Allows(p, action) ==
  \/ p.role = "OWNER"
  \/ p.role = "OPERATOR" /\ action = "review"

IdentityKey(p) == <<p.issuer, p.subject>>

\* A caller reads the record before it decides, and sends the revision it was shown.
Look(p) ==
  /\ Cardinality(openRequests) < MaxOpen
  /\ \E e \in onboarding :
       openRequests' = openRequests \cup
         {[step |-> "shown", by |-> p, record |-> e]}
  /\ UNCHANGED <<onboarding, trail, transitions, storeRestarts, appendFaults>>

\* The record is stored and the mutex released, with the audit entry still to come.
Store(p, old, new) ==
  /\ onboarding' = {new}
  /\ openRequests' = (openRequests \ old) \cup
       {[step |-> "append", by |-> p, record |-> new]}
  /\ transitions' = transitions \cup {[by |-> p, record |-> new]}
  /\ UNCHANGED <<trail, storeRestarts, appendFaults>>

Submit(p, pass) ==
  /\ Allows(p, "onboard")
  /\ Cardinality(openRequests) < MaxOpen
  /\ onboarding = {}
  /\ Store(p, {}, [status |-> "DRAFT", revision |-> 1, submitter |-> IdentityKey(p),
                   reviewer |-> Nobody, approver |-> Nobody, pass |-> pass])

RevisionMatches(r, e) == e.revision = r.record.revision

\* transition: `new' is the record that the checks of the operation let through.
Move(r, action, status, e, new) ==
  /\ r.step = "shown" /\ Allows(r.by, action)
  /\ RevisionMatches(r, e)
  /\ Store(r.by, {r}, [new EXCEPT !.status = status, !.revision = @ + 1])

SubmitForReview(r) ==
  \E e \in onboarding : e.status = "DRAFT" /\ Move(r, "onboard", "IN_REVIEW", e, e)

\* The submitter is told apart by issuer and subject, the reviewer by subject.
Review(r) ==
  \E e \in onboarding, status \in {"APPROVED", "REJECTED"} :
    /\ e.status = "IN_REVIEW" /\ e.submitter # IdentityKey(r.by)
    /\ Move(r, "review", status, e, [e EXCEPT !.reviewer = r.by.subject])

\* Mutant: the reviewer may enable what it has reviewed.
EnableByReviewer(r) ==
  \E e \in onboarding :
    /\ e.status = "APPROVED" /\ e.submitter # IdentityKey(r.by) /\ e.pass
    /\ Move(r, "approve", "ENABLED", e, [e EXCEPT !.approver = r.by.subject])

Enable(r) ==
  \E e \in onboarding :
    /\ e.status = "APPROVED"
    /\ e.submitter # IdentityKey(r.by) /\ e.reviewer # r.by.subject
    /\ e.pass
    /\ Move(r, "approve", "ENABLED", e, [e EXCEPT !.approver = r.by.subject])

Disable(r) ==
  \E e \in onboarding : e.status = "ENABLED" /\ Move(r, "approve", "DISABLED", e, e)

\* The caller gives up, or its request is refused: nothing is stored.
GiveUp(r) ==
  /\ r.step = "shown"
  /\ openRequests' = openRequests \ {r}
  /\ UNCHANGED <<onboarding, trail, transitions, storeRestarts, appendFaults>>

\* Mutant: the entry is made from the record as it is by then.
EntryOfNow(r) == [by |-> r.by, record |-> CHOOSE e \in onboarding : TRUE]

OnboardingEntry(r) == [by |-> r.by, record |-> r.record]

AppendOnboarding(r) ==
  /\ r.step = "append"
  /\ trail' = trail \cup {OnboardingEntry(r)}
  /\ openRequests' = openRequests \ {r}
  /\ UNCHANGED <<onboarding, transitions, storeRestarts, appendFaults>>

\* The append fails, possibly after the entry was written: the caller sees an error
\* and the change stands.
AppendFails(r) ==
  /\ r.step = "append"
  /\ appendFaults < MaxAppendFaults /\ appendFaults' = appendFaults + 1
  /\ trail' \in {trail, trail \cup {OnboardingEntry(r)}}
  /\ openRequests' = openRequests \ {r}
  /\ UNCHANGED <<onboarding, transitions, storeRestarts>>

\* The process stops; callers keep what they were shown.
StoreRestarts ==
  /\ storeRestarts < MaxStoreRestarts /\ storeRestarts' = storeRestarts + 1
  /\ openRequests' = {r \in openRequests : r.step = "shown"}
  /\ onboarding' = {} /\ trail' = {} /\ transitions' = {}
  /\ UNCHANGED appendFaults

OnboardingNext ==
  \/ \E p \in Principals : Look(p) \/ \E pass \in BOOLEAN : Submit(p, pass)
  \/ \E r \in openRequests :
       \/ SubmitForReview(r) \/ Review(r) \/ Enable(r) \/ Disable(r) \/ GiveUp(r)
       \/ AppendOnboarding(r) \/ AppendFails(r)
  \/ StoreRestarts

OnboardingSpec == OnboardingInit /\ [][OnboardingNext]_ovars

-----------------------------------------------------------------------------
\* One record at most, in a status of the workflow, and openRequests of members.
OnboardingTypeOK ==
  /\ \A e \in onboarding : e.status \in Statuses /\ e.revision \in 1 .. 5 /\ e.pass \in BOOLEAN
  /\ \A e, other \in onboarding : e = other
  /\ \A r \in openRequests : r.step \in {"shown", "append"} /\ r.by \in Principals

Did(status) == {c \in transitions : c.record.status = status}

\* A connector that is or was enabled was submitted, reviewed and enabled by three
\* members, none acting twice, and its evidence passed (Review, Enable).
ThreePeople ==
  \A e \in onboarding : e.status \in {"ENABLED", "DISABLED"} =>
    /\ e.pass
    /\ \E s \in Did("DRAFT"), r \in Did("APPROVED"), a \in Did("ENABLED") :
         /\ IdentityKey(s.by) # IdentityKey(r.by)
         /\ IdentityKey(a.by) \notin {IdentityKey(s.by), IdentityKey(r.by)}
         /\ e.submitter = IdentityKey(s.by)
         /\ e.reviewer = r.by.subject /\ e.approver = a.by.subject

\* The audit log tells what happened, one entry per change by whoever made it, though
\* entries are appended after the record may have moved on; only a failed or
\* outstanding append leaves a change without one.
AuditTellsChanges ==
  /\ \A t \in trail : \E c \in transitions : c.by = t.by /\ c.record = t.record
  /\ \A t, u \in trail : t.record.revision = u.record.revision => t = u
  /\ Cardinality({c \in transitions : [by |-> c.by, record |-> c.record] \notin trail})
       <= appendFaults + Cardinality({r \in openRequests : r.step = "append"})
=============================================================================

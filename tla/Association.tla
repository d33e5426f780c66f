----------------------------- MODULE Association -----------------------------
(***************************************************************************)
(* The typed associations (modules/projection/association.go,              *)
(* settlement_association.go, tender_association.go): one document per     *)
(* relation, written from the events of one aggregate.  Apply reads the    *)
(* document, decides, and replaces it under a filter on its source         *)
(* version, all outside a transaction; several handlers may do so at once. *)
(*                                                                         *)
(* Only the project association has a writer: SummaryProjector.Handle      *)
(* applies the event to it and then to the projection, whose own order of  *)
(* versions (ProjectionPipeline) decides whether the event is settled or   *)
(* delivered again.  The other kinds are applied by whoever holds events.  *)
(***************************************************************************)
EXTENDS Naturals

CONSTANTS
  AssociationKinds,   \* of "project", "settlement" and "tender"
  Handlers,           \* concurrent handlers of the aggregate's events
  ApprovalEvents,     \* events of the aggregate: [version, id, payload]
  MaxDeliveries,      \* bound: deliveries of one behaviour
  MaxWriteFaults      \* bound: failing writes and stops

ASSUME AssociationAssumption ==
  /\ AssociationKinds \subseteq {"project", "settlement", "tender"}
  /\ \A e \in ApprovalEvents : e.version \in Nat \ {0} /\ e.id # ""
  /\ MaxDeliveries \in Nat /\ MaxWriteFaults \in Nat

VARIABLES
  kind,        \* which of the three repositories
  sequential,  \* whether handlings of the aggregate never overlap
  association, \* the documents: none, or one
  handling,    \* handling[h]: what h is doing ({} or one)
  projected,   \* version of the projection's checkpoint
  settled,     \* events the projector has acknowledged
  deliveries, writeFaults

associationVars == <<kind, sequential, association, handling, projected, settled,
                     deliveries, writeFaults>>

NoEvent == [id |-> "", payload |-> ""]
Sign(e) == [id |-> e.id, payload |-> e.payload]

\* associationFromEvent; `holds' is the version whose content the document shows.
FromEvent(e) ==
  [source |-> e.version, observed |-> e.version, state |-> "CURRENT",
   last |-> Sign(e), holds |-> e.version]

\* The first event seen is inserted, without a source version when it is not the first.
Candidate(e) ==
  IF e.version > 1
  THEN [FromEvent(e) EXCEPT !.source = 0, !.state = "GAP", !.last = NoEvent]
  ELSE FromEvent(e)

-----------------------------------------------------------------------------
(* applyAssociationEvent, applySettlementAssociation, applyTenderAssociation. *)

\* Mutant: a conflict does not stop later versions.
RefusesNothing(doc, e) == FALSE

\* Only the project association stops at a conflict.
Refuses(doc, e) ==
  kind = "project" /\ doc.state = "CONFLICT" /\ e.version > doc.source

\* The same version with another id and payload.
Disputes(doc, e) ==
  /\ e.version = doc.source
  /\ e.payload # doc.last.payload /\ e.id # doc.last.id
Disputed(doc) == [doc EXCEPT !.state = "CONFLICT"]

\* A version beyond the next one is only noted.
Skips(doc, e) == e.version > doc.source + 1 /\ e.version > doc.observed
Noted(doc, e) == [doc EXCEPT !.observed = e.version, !.state = "GAP"]

\* The next version replaces the document; a gap may remain behind it.
Continues(doc, e) == e.version = doc.source + 1
Filled(doc, e) ==
  [FromEvent(e) EXCEPT
     !.observed = IF doc.observed > e.version THEN doc.observed ELSE e.version,
     !.state = IF doc.observed > e.version THEN "GAP" ELSE "CURRENT"]

\* What the document becomes; anything else leaves it alone.
Changes(doc, e) == Disputes(doc, e) \/ Skips(doc, e) \/ Continues(doc, e)
Applied(doc, e) ==
  IF Disputes(doc, e) THEN Disputed(doc) ELSE IF Skips(doc, e) THEN Noted(doc, e) ELSE Filled(doc, e)

-----------------------------------------------------------------------------
(* Apply, one action per access to the collection. *)

AssociationInit ==
  /\ kind \in AssociationKinds
  /\ sequential \in BOOLEAN
  /\ association = {}
  /\ handling = [h \in Handlers |-> {}]
  /\ projected = 0 /\ settled = {}
  /\ deliveries = 0 /\ writeFaults = 0

Now(h, work) == handling' = [handling EXCEPT ![h] = {work}]
Leave(h) == handling' = [handling EXCEPT ![h] = {}]
Doing(h, step, e) == \E work \in handling[h] : work.step = step /\ work.event = e

\* Apply has returned without an error; after one, the event is delivered again.
Accept(h, e) == Now(h, [step |-> "project", event |-> e, read |-> {}])

\* Handle gets an event that the inbox does not show as applied.
Receive(h, e) ==
  /\ handling[h] = {} /\ e \notin settled
  /\ sequential => \A g \in Handlers : handling[g] = {}
  /\ deliveries < MaxDeliveries /\ deliveries' = deliveries + 1
  /\ Now(h, [step |-> "find", event |-> e, read |-> {}])
  /\ UNCHANGED <<kind, sequential, association, projected, settled, writeFaults>>

\* Mutant: the writer's refusal is taken for an acceptance.
FindRefusesSilently(h, e) ==
  /\ Doing(h, "find", e)
  /\ \/ association = {} /\ Now(h, [step |-> "insert", event |-> e, read |-> {}])
     \/ \E doc \in association :
          \/ ~Refuses(doc, e) /\ Changes(doc, e)
             /\ Now(h, [step |-> "replace", event |-> e, read |-> {doc}])
          \/ (Refuses(doc, e) \/ ~Changes(doc, e)) /\ Accept(h, e)
  /\ UNCHANGED <<kind, sequential, association, projected, settled, deliveries, writeFaults>>

\* FindOne, and the decision on what it returned.
FindDocument(h, e) ==
  /\ Doing(h, "find", e)
  /\ \/ association = {} /\ Now(h, [step |-> "insert", event |-> e, read |-> {}])
     \/ \E doc \in association :
          \/ Refuses(doc, e) /\ Leave(h)
          \/ ~Refuses(doc, e) /\ Changes(doc, e)
             /\ Now(h, [step |-> "replace", event |-> e, read |-> {doc}])
          \/ ~Refuses(doc, e) /\ ~Changes(doc, e) /\ Accept(h, e)
  /\ UNCHANGED <<kind, sequential, association, projected, settled, deliveries, writeFaults>>

\* InsertOne; a duplicate key starts Apply over.
Insert(h, e) ==
  /\ Doing(h, "insert", e)
  /\ \/ association = {} /\ association' = {Candidate(e)} /\ Accept(h, e)
     \/ association # {} /\ UNCHANGED association
        /\ Now(h, [step |-> "find", event |-> e, read |-> {}])
  /\ UNCHANGED <<kind, sequential, projected, settled, deliveries, writeFaults>>

\* ReplaceOne with the source version of the document read.
Replace(h, e) ==
  /\ Doing(h, "replace", e)
  /\ \E work \in handling[h] : \E doc \in work.read : \E held \in association :
       \/ held.source = doc.source /\ association' = {Applied(doc, e)} /\ Accept(h, e)
       \/ held.source # doc.source /\ UNCHANGED association /\ Leave(h)
  /\ UNCHANGED <<kind, sequential, projected, settled, deliveries, writeFaults>>

\* The projection's transaction: the next version is applied, an older one is
\* settled without effect, one beyond the next is delivered again.
Project(h, e) ==
  /\ Doing(h, "project", e)
  /\ \/ /\ kind = "project" /\ e.version <= projected + 1
        /\ projected' = IF e.version = projected + 1 THEN e.version ELSE projected
        /\ settled' = settled \cup {e}
     \/ /\ kind # "project" \/ e.version > projected + 1
        /\ UNCHANGED <<projected, settled>>
  /\ Leave(h)
  /\ UNCHANGED <<kind, sequential, association, deliveries, writeFaults>>

\* A stop, or an access that fails: the event is delivered again.
Interrupt(h) ==
  /\ handling[h] # {}
  /\ writeFaults < MaxWriteFaults /\ writeFaults' = writeFaults + 1
  /\ Leave(h)
  /\ UNCHANGED <<kind, sequential, association, projected, settled, deliveries>>

AssociationNext ==
  \E h \in Handlers :
    \/ \E e \in ApprovalEvents :
         \/ Receive(h, e) \/ FindDocument(h, e) \/ Insert(h, e) \/ Replace(h, e) \/ Project(h, e)
    \/ Interrupt(h)

AssociationSpec == AssociationInit /\ [][AssociationNext]_associationVars

-----------------------------------------------------------------------------
Documents ==
  [source : Nat, observed : Nat, state : {"CURRENT", "GAP", "CONFLICT"},
   last : {NoEvent} \cup {Sign(e) : e \in ApprovalEvents}, holds : Nat]

\* A document is what Validate accepts, and there is one at most.
AssociationTypeOK ==
  /\ kind \in AssociationKinds /\ sequential \in BOOLEAN
  /\ \A doc \in association : doc \in Documents
  /\ \A doc, other \in association : doc = other
  /\ \A h \in Handlers : \A work \in handling[h] :
       /\ work.step \in {"find", "insert", "replace", "project"}
       /\ work.event \in ApprovalEvents
       /\ work.read \subseteq Documents
  /\ projected \in Nat /\ settled \subseteq ApprovalEvents
  /\ deliveries \in Nat /\ writeFaults \in Nat

\* For a document: its state, versions and content agree.
Honest(doc) ==
  /\ doc.observed >= doc.source
  /\ doc.state = "CURRENT" => doc.observed = doc.source
  /\ doc.state = "GAP" => doc.observed > doc.source
  /\ doc.source > 0 => doc.holds = doc.source /\ doc.last # NoEvent

\* The state a reader sees tells the truth about the versions, also after writers
\* have overwritten each other: CURRENT has nothing beyond it and GAP has, and the
\* content is of the version the document claims to have reached.
StateIsHonest == \A doc \in association : Honest(doc)

MovesForward ==
  \A doc \in association : \E new \in association' : new.source >= doc.source

\* Handlers that race, each with what it read earlier, never put an older version
\* in front of readers, and the document never goes away.
SourceNeverMovesBack == [][MovesForward]_associationVars

\* A write forgets a later version that was noted, or the conflict.
Loses(doc, new) ==
  \/ new.observed < doc.observed
  \/ kind = "project" /\ doc.state = "CONFLICT" /\ new.state # "CONFLICT"
LosesOnlyToStaleRead ==
  \A doc \in association, new \in association' :
    Loses(doc, new) =>
      \E h \in Handlers : \E work \in handling[h] :
        work.step = "replace" /\ handling'[h] # handling[h] /\ work.read # {doc}

\* The filter leaves room for two writers at one source version: then, and only
\* then, a note of a later version, or the conflict at which the project
\* association stops, is lost.
OnlyStaleReadsLose == [][LosesOnlyToStaleRead]_associationVars

\* When the handlings of an aggregate do not overlap, an approval that has reached
\* the projection is in the association, whatever the order of deliveries, faults
\* and conflicts.  (When they do, an event may be applied to the association
\* before and to the projection after its predecessor: it is settled and the
\* association stays in GAP.)
AssociationKeepsUp ==
  sequential /\ projected > 0 => \E doc \in association : doc.source >= projected
=============================================================================

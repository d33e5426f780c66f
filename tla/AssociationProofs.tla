-------------------------- MODULE AssociationProofs --------------------------
(* Proofs about Association, for any kinds, handlers and events, and any number *)
(* of deliveries and failures.                                                  *)
EXTENDS Association, TLAPS

\* What a handler holds: an event, and at a replacement the document it has read,
\* which the event changes and does not run into a conflict with.
Working(work) ==
  /\ work.event \in ApprovalEvents
  /\ work.step \in {"find", "insert", "replace", "project"}
  /\ \A doc, other \in work.read : doc = other
  /\ \A doc \in work.read :
       /\ doc \in Documents /\ Honest(doc)
       /\ Changes(doc, work.event) /\ ~Refuses(doc, work.event)

OneEach ==
  /\ handling = [h \in Handlers |-> handling[h]]
  /\ \A h \in Handlers : \A work, other \in handling[h] : work = other
  /\ \A h \in Handlers : \A work \in handling[h] : Working(work)

OneDocument ==
  /\ \A doc \in association : doc \in Documents
  /\ \A doc, other \in association : doc = other

Counts == projected \in Nat /\ settled \subseteq ApprovalEvents

AssociationInv == Counts /\ OneEach /\ OneDocument /\ StateIsHonest

-----------------------------------------------------------------------------
Signs == {NoEvent} \cup {Sign(e) : e \in ApprovalEvents}

\* An event has a version and an id.
LEMMA EventWell ==
  ASSUME NEW e \in ApprovalEvents
  PROVE  /\ e.version \in Nat /\ e.version > 0
         /\ Sign(e) # NoEvent /\ Sign(e) \in Signs
  <1>1. e.version \in Nat \ {0}
    BY AssociationAssumption
  <1>2. e.id # ""
    BY AssociationAssumption
  <1>3. Sign(e).id = e.id /\ NoEvent.id = ""
    BY DEF Sign, NoEvent
  <1>4. Sign(e) # NoEvent
    BY <1>2, <1>3
  <1>5. Sign(e) \in Signs
    BY DEF Signs
  <1> QED
    BY <1>1, <1>4, <1>5

\* A document from its fields.
LEMMA DocumentFrom ==
  ASSUME NEW source \in Nat, NEW observed \in Nat, NEW state \in {"CURRENT", "GAP", "CONFLICT"},
         NEW last \in Signs, NEW holds \in Nat,
         NEW doc, doc = [source |-> source, observed |-> observed, state |-> state,
                         last |-> last, holds |-> holds]
  PROVE  /\ doc \in Documents
         /\ doc.source = source /\ doc.observed = observed /\ doc.state = state
         /\ doc.last = last /\ doc.holds = holds
  BY DEF Documents, Signs

\* A document made of an event that comes first.
LEMMA CandidateWell ==
  ASSUME NEW e \in ApprovalEvents
  PROVE  /\ Candidate(e) \in Documents /\ Honest(Candidate(e))
         /\ e.version = 1 => Candidate(e).source = 1
  <1>1. e.version \in Nat /\ e.version > 0
    BY EventWell
  <1>2. Sign(e) # NoEvent /\ Sign(e) \in Signs /\ NoEvent \in Signs
    BY EventWell DEF Signs
  <1> DEFINE doc == Candidate(e)
  <1>3. CASE e.version > 1
    <2>1. doc = [source |-> 0, observed |-> e.version, state |-> "GAP", last |-> NoEvent,
                 holds |-> e.version]
      BY <1>3 DEF Candidate, FromEvent
    <2>2. /\ doc \in Documents /\ doc.source = 0 /\ doc.observed = e.version
          /\ doc.state = "GAP"
      BY <1>1, <1>2, <2>1, DocumentFrom
    <2> QED
      BY <1>1, <1>3, <2>2 DEF Honest
  <1>4. CASE ~(e.version > 1)
    <2>1. doc = [source |-> e.version, observed |-> e.version, state |-> "CURRENT",
                 last |-> Sign(e), holds |-> e.version]
      BY <1>4 DEF Candidate, FromEvent
    <2>2. /\ doc \in Documents /\ doc.source = e.version /\ doc.observed = e.version
          /\ doc.state = "CURRENT" /\ doc.last = Sign(e) /\ doc.holds = e.version
      BY <1>1, <1>2, <2>1, DocumentFrom
    <2> QED
      BY <1>1, <1>2, <1>4, <2>2 DEF Honest
  <1> QED
    BY <1>3, <1>4

\* Whatever an event changes, the document stays honest, its versions do not go
\* back, and the next version is reached.
LEMMA AppliedWell ==
  ASSUME NEW doc \in Documents, Honest(doc), NEW e \in ApprovalEvents, Changes(doc, e)
  PROVE  /\ Applied(doc, e) \in Documents /\ Honest(Applied(doc, e))
         /\ Applied(doc, e).source >= doc.source
         /\ Applied(doc, e).observed >= doc.observed
         /\ e.version = doc.source + 1 => Applied(doc, e).source = e.version
         /\ Applied(doc, e).state # "CONFLICT" => e.version > doc.source
  <1>1. e.version \in Nat /\ e.version > 0
    BY EventWell
  <1>2. Sign(e) # NoEvent /\ Sign(e) \in Signs
    BY EventWell
  <1>3. /\ doc.source \in Nat /\ doc.observed \in Nat /\ doc.last \in Signs /\ doc.holds \in Nat
        /\ doc.state \in {"CURRENT", "GAP", "CONFLICT"}
        /\ doc = [source |-> doc.source, observed |-> doc.observed, state |-> doc.state,
                  last |-> doc.last, holds |-> doc.holds]
    BY DEF Documents, Signs
  <1> DEFINE new == Applied(doc, e)
  <1>4. CASE Disputes(doc, e)
    <2>1. new = [source |-> doc.source, observed |-> doc.observed, state |-> "CONFLICT",
                 last |-> doc.last, holds |-> doc.holds]
      BY <1>3, <1>4 DEF Applied, Disputed
    <2>2. /\ new \in Documents /\ new.source = doc.source /\ new.observed = doc.observed
          /\ new.state = "CONFLICT" /\ new.last = doc.last /\ new.holds = doc.holds
      BY <1>3, <2>1, DocumentFrom
    <2>3. e.version = doc.source
      BY <1>4 DEF Disputes
    <2> HIDE DEF new
    <2>4. Honest(new)
      BY <2>2 DEF Honest
    <2> QED
      BY <1>1, <1>3, <2>2, <2>3, <2>4 DEF new
  <1>5. CASE ~Disputes(doc, e) /\ Skips(doc, e)
    <2>1. new = [source |-> doc.source, observed |-> e.version, state |-> "GAP",
                 last |-> doc.last, holds |-> doc.holds]
      BY <1>3, <1>5 DEF Applied, Noted
    <2>2. /\ new \in Documents /\ new.source = doc.source /\ new.observed = e.version
          /\ new.state = "GAP" /\ new.last = doc.last /\ new.holds = doc.holds
      BY <1>1, <1>3, <2>1, DocumentFrom
    <2>3. e.version > doc.source + 1 /\ e.version > doc.observed
      BY <1>5 DEF Skips
    <2> HIDE DEF new
    <2>4. Honest(new)
      BY <1>1, <1>3, <2>2, <2>3 DEF Honest
    <2> QED
      BY <1>1, <1>3, <2>2, <2>3, <2>4 DEF new
  <1>6. CASE ~Disputes(doc, e) /\ ~Skips(doc, e)
    <2>1. new = Filled(doc, e) /\ e.version = doc.source + 1
      BY <1>6 DEF Applied, Changes, Continues
    <2> DEFINE top == IF doc.observed > e.version THEN doc.observed ELSE e.version
               state == IF doc.observed > e.version THEN "GAP" ELSE "CURRENT"
    <2>2. new = [source |-> e.version, observed |-> top, state |-> state, last |-> Sign(e),
                 holds |-> e.version]
      BY <2>1 DEF Filled, FromEvent
    <2>3. top \in Nat /\ state \in {"CURRENT", "GAP", "CONFLICT"}
      BY <1>1, <1>3
    <2>4. /\ new \in Documents /\ new.source = e.version /\ new.observed = top
          /\ new.state = state /\ new.last = Sign(e) /\ new.holds = e.version
      <3> HIDE DEF top, state
      <3> QED
        BY <1>1, <1>2, <2>2, <2>3, DocumentFrom
    <2> HIDE DEF new
    <2>5. Honest(new)
      BY <1>1, <1>2, <1>3, <2>4 DEF Honest
    <2> QED
      BY <1>1, <1>3, <2>1, <2>4, <2>5 DEF new
  <1> QED
    BY <1>4, <1>5, <1>6

\* A step that leaves one handler with nothing, or with work that is in order.
LEMMA HandlerStep ==
  ASSUME OneEach, NEW h \in Handlers, NEW works, kind' = kind,
         handling' = [handling EXCEPT ![h] = works],
         \A work, other \in works : work = other, \A work \in works : Working(work)
  PROVE  OneEach'
  <1>1. handling' = [g \in Handlers |-> handling'[g]]
    BY DEF OneEach
  <1>2. ASSUME NEW g \in Handlers
        PROVE  /\ \A work, other \in handling'[g] : work = other
               /\ \A work \in handling'[g] : Working(work)
    <2>1. CASE g = h
      BY <2>1 DEF OneEach
    <2>2. CASE g # h
      BY <2>2 DEF OneEach
    <2> QED
      BY <2>1, <2>2
  <1>3. \A work : Working(work) => Working(work)'
    BY DEF Working, Documents, Honest, Changes, Disputes, Skips, Continues, Refuses, NoEvent, Sign
  <1> QED
    BY <1>1, <1>2, <1>3 DEF OneEach

\* The ways a handler goes on without a document in hand.
LEMMA PlainStep ==
  ASSUME OneEach, NEW h \in Handlers, kind' = kind,
         \/ Leave(h)
         \/ \E e \in ApprovalEvents, step \in {"find", "insert", "project"} :
              Now(h, [step |-> step, event |-> e, read |-> {}])
  PROVE  OneEach'
  <1>1. CASE Leave(h)
    BY <1>1, HandlerStep DEF Leave
  <1>2. ASSUME NEW e \in ApprovalEvents, NEW step \in {"find", "insert", "project"},
               Now(h, [step |-> step, event |-> e, read |-> {}])
        PROVE  OneEach'
    <2> DEFINE work == [step |-> step, event |-> e, read |-> {}]
    <2>1. Working(work)
      BY DEF Working
    <2>2. handling' = [handling EXCEPT ![h] = {work}]
      BY <1>2 DEF Now
    <2> HIDE DEF work
    <2> QED
      BY <2>1, <2>2, HandlerStep
  <1> QED
    BY <1>1, <1>2

\* The work a handler is at.
LEMMA DoingWork ==
  ASSUME OneEach, NEW h \in Handlers, NEW e, NEW step, Doing(h, step, e),
         NEW work \in handling[h]
  PROVE  work.step = step /\ work.event = e /\ Working(work)
  BY DEF OneEach, Doing

\* What may happen to the document in a step: a first insertion, or a replacement
\* of what the event changes, when the document held has the source version read.
Inserted(e) == association = {} /\ association' = {Candidate(e)}
Replaced(h, e) ==
  \E work \in handling[h] : \E doc \in work.read, held \in association :
    /\ work.step = "replace" /\ work.read = {doc} /\ held.source = doc.source
    /\ doc \in Documents /\ Honest(doc) /\ Changes(doc, e) /\ ~Refuses(doc, e)
    /\ association' = {Applied(doc, e)}

\* Replace replaces in this way, or not at all.
LEMMA ReplaceFacts ==
  ASSUME AssociationInv, NEW h \in Handlers, NEW e \in ApprovalEvents, Replace(h, e)
  PROVE  \/ UNCHANGED association /\ Leave(h)
         \/ Replaced(h, e) /\ Accept(h, e)
  <1>1. PICK work \in handling[h] : \E doc \in work.read : \E held \in association :
          \/ held.source = doc.source /\ association' = {Applied(doc, e)} /\ Accept(h, e)
          \/ held.source # doc.source /\ UNCHANGED association /\ Leave(h)
    BY DEF Replace
  <1>2. PICK doc \in work.read : \E held \in association :
          \/ held.source = doc.source /\ association' = {Applied(doc, e)} /\ Accept(h, e)
          \/ held.source # doc.source /\ UNCHANGED association /\ Leave(h)
    BY <1>1
  <1>3. work.step = "replace" /\ work.event = e /\ Working(work)
    BY DoingWork DEF Replace, AssociationInv
  <1>4. work.read = {doc} /\ doc \in Documents /\ Honest(doc) /\ Changes(doc, e) /\ ~Refuses(doc, e)
    BY <1>2, <1>3 DEF Working
  <1> QED
    BY <1>2, <1>3, <1>4 DEF Replaced

\* In a step the document is left alone, inserted or replaced.
LEMMA DocumentStep ==
  ASSUME AssociationInv, [AssociationNext]_associationVars
  PROVE  \/ UNCHANGED association
         \/ \E e \in ApprovalEvents : Inserted(e)
         \/ \E h \in Handlers, e \in ApprovalEvents : Replaced(h, e) /\ Accept(h, e)
  <1>1. CASE UNCHANGED associationVars
    BY <1>1 DEF associationVars
  <1>2. ASSUME NEW h \in Handlers, NEW e \in ApprovalEvents, Insert(h, e)
        PROVE  UNCHANGED association \/ Inserted(e)
    BY <1>2 DEF Insert, Inserted
  <1>3. ASSUME NEW h \in Handlers, NEW e \in ApprovalEvents, Replace(h, e)
        PROVE  UNCHANGED association \/ (Replaced(h, e) /\ Accept(h, e))
    BY <1>3, ReplaceFacts
  <1>4. ASSUME NEW h \in Handlers, NEW e \in ApprovalEvents,
               Receive(h, e) \/ FindDocument(h, e) \/ Project(h, e) \/ Interrupt(h)
        PROVE  UNCHANGED association
    BY <1>4 DEF Receive, FindDocument, Project, Interrupt
  <1>5. ASSUME NEW h \in Handlers, Interrupt(h) PROVE UNCHANGED association
    BY <1>5 DEF Interrupt
  <1> QED
    BY <1>1, <1>2, <1>3, <1>4, <1>5 DEF AssociationNext

\* The document, if there is one, stays one and honest.
LEMMA DocumentKept ==
  ASSUME AssociationInv, [AssociationNext]_associationVars
  PROVE  OneDocument' /\ StateIsHonest'
  <1> USE DEF AssociationInv
  <1>1. CASE UNCHANGED association
    BY <1>1 DEF OneDocument, StateIsHonest, Documents, Honest, NoEvent, Sign
  <1>2. ASSUME NEW new \in Documents, Honest(new), association' = {new}
        PROVE  OneDocument' /\ StateIsHonest'
    BY <1>2 DEF OneDocument, StateIsHonest, Documents, Honest, NoEvent, Sign
  <1>3. ASSUME NEW e \in ApprovalEvents, Inserted(e) PROVE OneDocument' /\ StateIsHonest'
    BY <1>2, <1>3, CandidateWell DEF Inserted
  <1>4. ASSUME NEW h \in Handlers, NEW e \in ApprovalEvents, Replaced(h, e)
        PROVE  OneDocument' /\ StateIsHonest'
    BY <1>2, <1>4, AppliedWell DEF Replaced
  <1> QED
    BY <1>1, <1>3, <1>4, DocumentStep

\* Every handler keeps its work in order.
LEMMA HandlersKept ==
  ASSUME AssociationInv, [AssociationNext]_associationVars
  PROVE  OneEach'
  <1> USE DEF AssociationInv
  <1>1. CASE UNCHANGED associationVars
    BY <1>1 DEF associationVars, OneEach, Working, Documents, Honest, Changes, Disputes, Skips,
                Continues, Refuses, NoEvent, Sign
  <1>2. ASSUME NEW h \in Handlers, NEW e \in ApprovalEvents,
               Receive(h, e) \/ Insert(h, e) \/ Replace(h, e) \/ Project(h, e)
        PROVE  OneEach'
    <2>1. kind' = kind
      BY <1>2 DEF Receive, Insert, Replace, Project
    <2>2. \/ Leave(h)
          \/ \E step \in {"find", "insert", "project"} :
               Now(h, [step |-> step, event |-> e, read |-> {}])
      BY <1>2 DEF Receive, Insert, Replace, Project, Accept
    <2> QED
      BY <2>1, <2>2, PlainStep
  <1>3. ASSUME NEW h \in Handlers, NEW e \in ApprovalEvents, FindDocument(h, e)
        PROVE  OneEach'
    <2>1. kind' = kind
      BY <1>3 DEF FindDocument
    <2>2. ASSUME NEW doc \in association, ~Refuses(doc, e), Changes(doc, e),
                 Now(h, [step |-> "replace", event |-> e, read |-> {doc}])
          PROVE  OneEach'
      <3> DEFINE work == [step |-> "replace", event |-> e, read |-> {doc}]
      <3>1. Working(work)
        BY <2>2 DEF Working, OneDocument, StateIsHonest
      <3>2. handling' = [handling EXCEPT ![h] = {work}]
        BY <2>2 DEF Now
      <3> HIDE DEF work
      <3> QED
        BY <2>1, <3>1, <3>2, HandlerStep
    <2>3. CASE Leave(h) \/ Accept(h, e) \/ Now(h, [step |-> "insert", event |-> e, read |-> {}])
      BY <2>1, <2>3, PlainStep DEF Accept
    <2> QED
      BY <1>3, <2>2, <2>3 DEF FindDocument
  <1>4. ASSUME NEW h \in Handlers, Interrupt(h) PROVE OneEach'
    BY <1>4, PlainStep DEF Interrupt
  <1> QED
    BY <1>1, <1>2, <1>3, <1>4 DEF AssociationNext

\* One step keeps the invariant.
LEMMA AssociationStep ==
  ASSUME AssociationInv, [AssociationNext]_associationVars
  PROVE  AssociationInv'
  <1>1. Counts'
    <2>1. \A e \in ApprovalEvents : e.version \in Nat
      BY EventWell
    <2> QED
      BY <2>1 DEF AssociationInv, Counts, AssociationNext, associationVars, Receive, FindDocument, Insert,
             Replace, Project, Interrupt
  <1> QED
    BY <1>1, DocumentKept, HandlersKept DEF AssociationInv

\* The invariant holds in every reachable state.
THEOREM AssociationInvariant == AssociationSpec => []AssociationInv
  <1>1. AssociationInit => AssociationInv
    BY DEF AssociationInit, AssociationInv, Counts, OneEach, OneDocument, StateIsHonest
  <1> QED
    BY <1>1, AssociationStep, PTL DEF AssociationSpec

\* Whatever handlers race with what they have read, the state of an association
\* tells the truth about its versions and its content (Apply and the decision of
\* applyAssociationEvent and its two sisters).
THEOREM StatesAreHonest == AssociationSpec => []StateIsHonest
  <1>1. AssociationInv => StateIsHonest
    BY DEF AssociationInv
  <1> QED
    BY <1>1, AssociationInvariant, PTL

-----------------------------------------------------------------------------
\* Every step moves the document forward.
LEMMA ForwardStep ==
  ASSUME AssociationInv, [AssociationNext]_associationVars
  PROVE  MovesForward
  <1> USE DEF AssociationInv
  <1>1. \A doc \in association : doc.source \in Nat
    BY DEF OneDocument, Documents
  <1>2. CASE UNCHANGED association
    BY <1>1, <1>2 DEF MovesForward
  <1>3. ASSUME NEW e \in ApprovalEvents, Inserted(e) PROVE MovesForward
    BY <1>3 DEF Inserted, MovesForward
  <1>4. ASSUME NEW h \in Handlers, NEW e \in ApprovalEvents, Replaced(h, e)
        PROVE  MovesForward
    BY <1>4, AppliedWell DEF Replaced, OneDocument, MovesForward
  <1> QED
    BY <1>2, <1>3, <1>4, DocumentStep

\* No interleaving puts an older version in front of readers.
THEOREM SourcesMoveForward == AssociationSpec => SourceNeverMovesBack
  <1>1. AssociationInv /\ [AssociationNext]_associationVars => [MovesForward]_associationVars
    BY ForwardStep
  <1> QED
    BY <1>1, AssociationInvariant, PTL DEF AssociationSpec, SourceNeverMovesBack

\* Only a replacement of another document than the one held loses something.
LEMMA LossStep ==
  ASSUME AssociationInv, [AssociationNext]_associationVars
  PROVE  LosesOnlyToStaleRead
  <1> USE DEF AssociationInv
  <1> SUFFICES ASSUME NEW doc \in association, NEW new \in association', Loses(doc, new)
               PROVE  \E h \in Handlers : \E work \in handling[h] :
                        work.step = "replace" /\ handling'[h] # handling[h] /\ work.read # {doc}
    BY DEF LosesOnlyToStaleRead
  <1>1. doc.observed \in Nat /\ doc \in Documents /\ Honest(doc)
    BY DEF OneDocument, Documents, StateIsHonest
  <1>2. association' # association
    BY <1>1 DEF OneDocument, Loses
  <1>3. PICK h \in Handlers, e \in ApprovalEvents : Replaced(h, e) /\ Accept(h, e)
    BY <1>2, DocumentStep DEF Inserted
  <1>4. PICK work \in handling[h] : \E read \in work.read :
          /\ work.step = "replace" /\ work.read = {read}
          /\ read \in Documents /\ Honest(read) /\ Changes(read, e) /\ ~Refuses(read, e)
          /\ association' = {Applied(read, e)}
    BY <1>3 DEF Replaced
  <1>5. PICK read \in work.read :
          /\ work.read = {read}
          /\ read \in Documents /\ Honest(read) /\ Changes(read, e) /\ ~Refuses(read, e)
          /\ association' = {Applied(read, e)}
    BY <1>4
  <1>6. handling'[h] # handling[h]
    <2>1. [step |-> "project", event |-> e, read |-> {}].step = "project"
      OBVIOUS
    <2>2. \A w \in handling'[h] : w.step = "project"
      BY <1>3, <2>1 DEF Accept, Now, OneEach
    <2> QED
      BY <1>4, <2>2
  <1>7. read # doc
    <2> SUFFICES ASSUME read = doc PROVE FALSE
      OBVIOUS
    <2>1. new = Applied(doc, e)
      BY <1>5
    <2>2. new.observed >= doc.observed /\ new \in Documents
          /\ (new.state # "CONFLICT" => e.version > doc.source)
      BY <1>1, <1>5, <2>1, AppliedWell
    <2>3. ~(new.observed < doc.observed)
      BY <1>1, <2>2 DEF Documents
    <2>4. kind = "project" /\ doc.state = "CONFLICT" /\ new.state # "CONFLICT"
      BY <2>3 DEF Loses
    <2> QED
      BY <1>5, <2>2, <2>4 DEF Refuses
  <1> QED
    BY <1>4, <1>5, <1>6, <1>7

\* The filter of the replacement is the only gap: whatever is lost is lost to a
\* handler that replaces with a document it read before another one wrote.
THEOREM LossesAreStaleReads == AssociationSpec => OnlyStaleReadsLose
  <1>1. AssociationInv /\ [AssociationNext]_associationVars => [LosesOnlyToStaleRead]_associationVars
    BY LossStep
  <1> QED
    BY <1>1, AssociationInvariant, PTL DEF AssociationSpec, OnlyStaleReadsLose

-----------------------------------------------------------------------------
(* AssociationKeepsUp.  When handlings do not overlap, nothing comes between the *)
(* association and the projection of an event.                                   *)

Alone ==
  sequential => \A g, h \in Handlers : handling[g] # {} /\ handling[h] # {} => g = h

\* An event that the projection would apply or settle is in the association.
Reached(e) == e.version <= projected + 1 => \E doc \in association : doc.source >= e.version
AcceptedIsReached ==
  sequential => \A h \in Handlers : \A work \in handling[h] :
                  work.step = "project" => Reached(work.event)

SequentialInv == Alone /\ AcceptedIsReached /\ AssociationKeepsUp

\* In a step one handler acts, and it is the only one at work or starts alone.
Acts(h) ==
  /\ \E works : handling' = [handling EXCEPT ![h] = works]
  /\ \A g \in Handlers : handling[g] # {} => g = h

\* The acting handler acts alone.
LEMMA ActsAlone ==
  ASSUME AssociationInv, Alone, sequential, NEW h \in Handlers,
         Interrupt(h) \/ \E e \in ApprovalEvents :
           \/ Receive(h, e) \/ FindDocument(h, e) \/ Insert(h, e) \/ Replace(h, e) \/ Project(h, e)
  PROVE  Acts(h) /\ sequential' = sequential
  <1>1. sequential' = sequential
    BY DEF Interrupt, Receive, FindDocument, Insert, Replace, Project
  <1>2. \E works : handling' = [handling EXCEPT ![h] = works]
    BY DEF Interrupt, Receive, FindDocument, Insert, Replace, Project, Now, Leave, Accept
  <1>3. handling[h] # {} \/ \A g \in Handlers : handling[g] = {}
    BY DEF Interrupt, Receive, FindDocument, Insert, Replace, Project, Doing
  <1> QED
    BY <1>1, <1>2, <1>3 DEF Acts, Alone

\* Then the others stay at rest.
LEMMA OthersRest ==
  ASSUME OneEach, NEW h \in Handlers, Acts(h)
  PROVE  Alone' /\ \A g \in Handlers : g # h => handling'[g] = {}
  BY DEF OneEach, Acts, Alone

\* Accepting an event, for each of the three ways to do so.
LEMMA FoundReached ==
  ASSUME AssociationInv, AssociationKeepsUp, sequential,
         NEW e \in ApprovalEvents, NEW doc \in association, ~Changes(doc, e)
  PROVE  Reached(e)
  <1>1. e.version \in Nat /\ doc.source \in Nat /\ projected \in Nat /\ doc.source >= projected
    BY EventWell DEF AssociationInv, OneDocument, Documents, Counts, AssociationKeepsUp
  <1>2. e.version # doc.source + 1
    BY DEF Changes, Continues
  <1> QED
    BY <1>1, <1>2 DEF Reached

\* By inserting it.
LEMMA InsertedReached ==
  ASSUME AssociationInv, AssociationKeepsUp, sequential, projected' = projected,
         NEW e \in ApprovalEvents, Inserted(e)
  PROVE  Reached(e)'
  <1>1. e.version \in Nat /\ e.version > 0 /\ projected = 0
    BY EventWell DEF AssociationInv, Counts, AssociationKeepsUp, Inserted
  <1>2. e.version = 1 => Candidate(e).source = 1
    BY CandidateWell
  <1> QED
    BY <1>1, <1>2 DEF Reached, Inserted

\* By replacing the document.
LEMMA ReplacedReached ==
  ASSUME AssociationInv, AssociationKeepsUp, sequential, projected' = projected,
         NEW h \in Handlers, NEW e \in ApprovalEvents, Replaced(h, e)
  PROVE  Reached(e)'
  <1>1. PICK work \in handling[h] : \E doc \in work.read, held \in association :
          /\ held.source = doc.source /\ doc \in Documents /\ Honest(doc) /\ Changes(doc, e)
          /\ association' = {Applied(doc, e)}
    BY DEF Replaced
  <1>2. PICK doc \in Documents, held \in association :
          /\ held.source = doc.source /\ Honest(doc) /\ Changes(doc, e)
          /\ association' = {Applied(doc, e)}
    BY <1>1
  <1>3. e.version \in Nat /\ doc.source \in Nat /\ projected \in Nat /\ doc.source >= projected
    BY <1>2, EventWell DEF AssociationInv, OneDocument, Documents, Counts, AssociationKeepsUp
  <1>4. /\ Applied(doc, e) \in Documents /\ Applied(doc, e).source >= doc.source
        /\ e.version = doc.source + 1 => Applied(doc, e).source = e.version
    BY <1>2, AppliedWell
  <1>5. Applied(doc, e).source \in Nat
    BY <1>4 DEF Documents
  <1> QED
    BY <1>2, <1>3, <1>4, <1>5 DEF Reached

\* The version the projection has reached stays in the association.
LEMMA KeepsUpStep ==
  ASSUME AssociationInv, SequentialInv, [AssociationNext]_associationVars
  PROVE  AssociationKeepsUp'
  <1> USE DEF AssociationInv
  <1>1. sequential' = sequential
    BY DEF AssociationNext, associationVars, Interrupt, Receive, FindDocument, Insert, Replace, Project
  <1>2. /\ \A doc \in association : doc.source \in Nat
        /\ \A doc \in association' : doc.source \in Nat
        /\ projected \in Nat
    BY DocumentKept DEF OneDocument, Documents, Counts
  <1>3. CASE projected' = projected
    BY <1>1, <1>2, <1>3, ForwardStep DEF MovesForward, SequentialInv, AssociationKeepsUp
  <1>4. CASE projected' # projected
    <2>1. PICK h \in Handlers, e \in ApprovalEvents : Project(h, e)
      BY <1>4 DEF AssociationNext, associationVars, Interrupt, Receive, FindDocument, Insert, Replace
    <2>2. e.version = projected + 1 /\ projected' = e.version /\ association' = association
      BY <1>4, <2>1 DEF Project
    <2>3. sequential => Reached(e)
      BY <2>1 DEF Project, Doing, SequentialInv, AcceptedIsReached
    <2> QED
      BY <1>1, <1>2, <2>2, <2>3 DEF Reached, AssociationKeepsUp
  <1> QED
    BY <1>3, <1>4

\* What is accepted is reached, when the accepting handler is the only one.
LEMMA AcceptStep ==
  ASSUME AssociationInv, SequentialInv, sequential, NEW h \in Handlers, Acts(h),
         sequential' = sequential,
         \A work \in handling'[h] : work.step = "project" => Reached(work.event)'
  PROVE  AcceptedIsReached' /\ Alone'
  BY OthersRest DEF AssociationInv, AcceptedIsReached, Reached

\* One step keeps it.
LEMMA SequentialStep ==
  ASSUME AssociationInv, SequentialInv, [AssociationNext]_associationVars
  PROVE  SequentialInv'
  <1>1. AssociationKeepsUp'
    BY KeepsUpStep
  <1>2. CASE UNCHANGED associationVars
    BY <1>1, <1>2 DEF associationVars, SequentialInv, Alone, AcceptedIsReached, Reached
  <1>3. CASE ~sequential /\ AssociationNext
    <2>1. sequential' = sequential
      BY <1>3 DEF AssociationNext, Interrupt, Receive, FindDocument, Insert, Replace, Project
    <2> QED
      BY <1>1, <1>3, <2>1 DEF SequentialInv, Alone, AcceptedIsReached
  <1>4. ASSUME sequential, NEW h \in Handlers,
               \/ Interrupt(h)
               \/ \E e \in ApprovalEvents :
                    \/ Receive(h, e) \/ FindDocument(h, e) \/ Insert(h, e) \/ Replace(h, e)
                    \/ Project(h, e)
        PROVE  AcceptedIsReached' /\ Alone'
    <2>1. Acts(h) /\ sequential' = sequential
      BY <1>4, ActsAlone DEF SequentialInv
    <2> SUFFICES ASSUME NEW work \in handling'[h], work.step = "project"
                 PROVE  Reached(work.event)'
      BY <1>4, <2>1, AcceptStep
    <2>2. ASSUME Leave(h) PROVE FALSE
      BY <2>2 DEF Leave, AssociationInv, OneEach
    <2>3. ASSUME NEW e, NEW step, NEW read, Now(h, [step |-> step, event |-> e, read |-> read])
          PROVE  step = "project" /\ work.event = e
      <3>1. work = [step |-> step, event |-> e, read |-> read]
        BY <2>3 DEF Now, AssociationInv, OneEach
      <3> QED
        BY <3>1
    <2>4. ASSUME NEW e \in ApprovalEvents, FindDocument(h, e) PROVE Reached(work.event)'
      <3>1. ~Now(h, [step |-> "insert", event |-> e, read |-> {}])
        BY <2>3
      <3>2. \A doc : ~Now(h, [step |-> "replace", event |-> e, read |-> {doc}])
        BY <2>3
      <3>3. PICK doc \in association : ~Changes(doc, e) /\ Accept(h, e)
        BY <2>2, <2>4, <3>1, <3>2 DEF FindDocument
      <3>4. work.event = e /\ Reached(e)
        BY <1>4, <2>3, <3>3, FoundReached DEF Accept, SequentialInv
      <3> QED
        BY <2>4, <3>4 DEF FindDocument, Reached
    <2>5. ASSUME NEW e \in ApprovalEvents, Insert(h, e) PROVE Reached(work.event)'
      <3>1. Inserted(e) /\ Accept(h, e) /\ projected' = projected
        BY <2>3, <2>5 DEF Insert, Inserted
      <3>2. work.event = e
        BY <2>3, <3>1 DEF Accept
      <3> QED
        BY <1>4, <3>1, <3>2, InsertedReached DEF SequentialInv
    <2>6. ASSUME NEW e \in ApprovalEvents, Replace(h, e) PROVE Reached(work.event)'
      <3>1. Replaced(h, e) /\ Accept(h, e)
        BY <2>2, <2>6, ReplaceFacts
      <3>2. work.event = e /\ projected' = projected
        BY <2>3, <2>6, <3>1 DEF Accept, Replace
      <3> QED
        BY <1>4, <3>1, <3>2, ReplacedReached DEF SequentialInv
    <2>7. ASSUME NEW e \in ApprovalEvents, Receive(h, e) PROVE FALSE
      BY <2>3, <2>7 DEF Receive
    <2>8. ASSUME NEW e \in ApprovalEvents, Project(h, e) PROVE FALSE
      BY <2>2, <2>8 DEF Project
    <2>9. ASSUME Interrupt(h) PROVE FALSE
      BY <2>2, <2>9 DEF Interrupt
    <2> QED
      BY <1>4, <2>4, <2>5, <2>6, <2>7, <2>8, <2>9
  <1>5. CASE sequential /\ AssociationNext
    BY <1>1, <1>4, <1>5 DEF AssociationNext, SequentialInv
  <1> QED
    BY <1>2, <1>3, <1>5

\* An approval that has reached the projection is in its association when the
\* handlings of its aggregate do not overlap, for any order of deliveries, any
\* interruption and any conflict (SummaryProjector.Handle, Apply).
THEOREM AssociationsKeepUp == AssociationSpec => []AssociationKeepsUp
  <1>1. AssociationInit => SequentialInv
    BY DEF AssociationInit, SequentialInv, Alone, AcceptedIsReached, AssociationKeepsUp
  <1>2. AssociationInv /\ SequentialInv /\ [AssociationNext]_associationVars => SequentialInv'
    BY SequentialStep
  <1>3. SequentialInv => AssociationKeepsUp
    BY DEF SequentialInv
  <1> QED
    BY <1>1, <1>2, <1>3, AssociationInvariant, PTL DEF AssociationSpec
=============================================================================

-------------------------- MODULE OrderedProjection --------------------------
(***************************************************************************)
(* What a read model promises its readers, whatever the transport does:    *)
(* per aggregate, the accepted events are versions 1, 2, 3, ... with no    *)
(* hole and no repetition, and the record shown is always the one of the   *)
(* last accepted event.  ProjectionPipeline implements this module.        *)
(***************************************************************************)
EXTENDS Naturals, Sequences

CONSTANTS Messages,    \* what owners may publish
          Aggregates,
          AggregateOf(_), \* the aggregate a message is about
          VersionOf(_),   \* the aggregateVersion it carries
          Acceptable(_)   \* it passes the contract

VARIABLES log,   \* log[a]: the messages accepted for a, in order
          shown  \* shown[a]: the messages whose content a reader sees ({} or one)

ovars == <<log, shown>>

OInit == /\ log = [a \in Aggregates |-> << >>]
         /\ shown = [a \in Aggregates |-> {}]

Accept(m) ==
  LET a == AggregateOf(m) IN
    /\ Acceptable(m)
    /\ VersionOf(m) = Len(log[a]) + 1
    /\ log' = [log EXCEPT ![a] = Append(@, m)]
    /\ shown' = [shown EXCEPT ![a] = {m}]

ONext == \E m \in Messages : Accept(m)

OSpec == OInit /\ [][ONext]_ovars
=============================================================================

------------------------ MODULE MCProjectionPipeline ------------------------
(* ProjectionPipeline for TLC.  A behaviour delivers the messages of one of      *)
(* three streams, and `part' says which.                                         *)
EXTENDS ProjectionPipeline, TLC

CONSTANTS w1, w2, a1, h1, h2
VARIABLE part

Msg(id, version, hash, verdict, approval) ==
  [id |-> id, aggregate |-> a1, version |-> version, hash |-> hash,
   verdict |-> verdict, approval |-> approval]

\* Three consecutive versions of one aggregate, the second an approval; another
\* payload under the id of v1; a rival, another event of the same version, which is
\* stale once v1 is applied; and one message for each place where the handler
\* refuses an event.
EnvAll == [m \in Messages |->
  CASE m = "v1"        -> Msg("e1", 1, h1, "valid", FALSE)
    [] m = "v2"        -> Msg("e2", 2, h1, "valid", TRUE)
    [] m = "v3"        -> Msg("e3", 3, h1, "valid", FALSE)
    [] m = "other"     -> Msg("e1", 1, h2, "valid", FALSE)
    [] m = "rival"     -> Msg("e3", 1, h2, "valid", FALSE)
    [] m = "unsound"   -> Msg("e4", 2, h1, "contract", FALSE)
    [] m = "unrelated" -> Msg("e5", 2, h1, "association", TRUE)
    [] m = "disputed"  -> Msg("e6", 2, h1, "conflict", TRUE)]

\* Only the ordered stream is fetched two messages at a time.
Streams == [ordered |-> {"v1", "v2", "v3"},
            rivals |-> {"v1", "rival", "v2", "unrelated"},
            payloads |-> {"v1", "other", "unsound", "disputed"}]
Published ==
  /\ \A m \in Messages \ Streams[part] : srv'[m] = "new"
  /\ part # "ordered" => \A w \in Workers : Cardinality(batch'[w]) <= 1

PartInit == Init /\ part \in DOMAIN Streams
PartNext == Next /\ Published /\ UNCHANGED part
PartSpec == PartInit /\ [][PartNext]_<<vars, part>>
PartFairSpec == PartSpec /\ Fairness

Workers2 == Permutations({w1, w2})
=============================================================================

------------------------------ MODULE RecordFeed ------------------------------
(***************************************************************************)
(* The record change feed (modules/records/feed.go): an in-process broker   *)
(* with a bounded history, a bounded buffer per subscriber, and the SSE     *)
(* handler that admits connections, replays what a reconnecting client has  *)
(* missed and then streams live changes.                                    *)
(*                                                                          *)
(* One tenant and workspace; a scope is a table.  All clients are one       *)
(* principal, so a connection key is a table too.  What a client does with  *)
(* the stream (it keeps the last event id, fetches a record it is told of,  *)
(* reconnects with Last-Event-ID or starts afresh) is external.  Event ids  *)
(* are 64 bits wide in the code and never wrap within a behaviour.          *)
(***************************************************************************)
EXTENDS Integers, Sequences, FiniteSets

CONSTANTS
  Records,        \* record ids of the table the clients watch
  Clients,        \* SSE clients
  HistoryLimit,   \* RecordFeed.historyLimit
  SubscriberBuf,  \* RecordFeed.subscriberBuf and FeedHTTPOptions.BufferSize
  MaxConnections, \* FeedHTTPOptions.MaxConnections
  MaxPerScope,    \* FeedHTTPOptions.MaxConnectionsPerScope
  Projected,      \* source events the projector applies to another table
  MaxEvents,      \* bound: changes published by one process
  MaxReconnects,  \* bound: connections a client opens
  MaxRestarts     \* bound: restarts of the process

ASSUME FeedAssumption ==
  /\ HistoryLimit \in Nat \ {0} /\ SubscriberBuf \in Nat \ {0}
  /\ MaxConnections \in Nat \ {0} /\ MaxPerScope \in Nat \ {0}
  /\ MaxEvents \in Nat /\ MaxReconnects \in Nat /\ MaxRestarts \in Nat

Watched == "records"     \* the table the clients watch
Other   == "projection"  \* a table whose changes the projector publishes

VARIABLES
  \* the broker
  history,      \* retained changes, oldest first, each with its id
  nextID,       \* id of the newest change
  dedup,        \* DedupKeys of retained changes
  subscribers,  \* clients whose subscriber is registered
  queue,        \* queue[c]: the subscriber's events channel
  room,         \* room[c]: capacity of that channel
  \* the handler
  pc,           \* where the request of a client stands
  replay,       \* replay[c]: what is left of subscription.Replay
  connections,  \* admitted connections
  byScope,      \* admitted connections of the watched table
  \* the clients
  cursor,       \* last event id a client was sent (0: none)
  since,        \* id of the newest change when the client subscribed afresh
  known,        \* known[c][r]: version of r the client last read
  synced,       \* whether the client has read the table since it started afresh
  epoch,        \* the process that issued the client's cursor
  opened,       \* connections the client has opened
  \* the process, and every change it has published (for the properties)
  process,
  log

brokerVars  == <<history, nextID, dedup, subscribers, queue, room, log>>
handlerVars == <<pc, replay, connections, byScope>>
clientVars  == <<cursor, since, known, synced, epoch, opened>>
feedVars    == <<brokerVars, handlerVars, clientVars, process>>

FeedInit ==
  /\ history = <<>> /\ nextID = 0 /\ dedup = {} /\ subscribers = {}
  /\ queue = [c \in Clients |-> <<>>]
  /\ room = [c \in Clients |-> SubscriberBuf]
  /\ pc = [c \in Clients |-> "off"]
  /\ replay = [c \in Clients |-> <<>>]
  /\ connections = 0 /\ byScope = 0
  /\ cursor = [c \in Clients |-> 0]
  /\ since = [c \in Clients |-> 0]
  /\ known = [c \in Clients |-> [r \in Records |-> 0]]
  /\ synced = [c \in Clients |-> FALSE]
  /\ epoch = [c \in Clients |-> 0]
  /\ opened = [c \in Clients |-> 0]
  /\ process = 0
  /\ log = <<>>

-----------------------------------------------------------------------------
(* RecordFeed.Publish, under feed.mu.                                        *)

Full(c) == Len(queue[c]) >= room[c]

\* The changes retained once change is appended.
Retained(change) ==
  IF Len(history) = HistoryLimit THEN Append(Tail(history), change)
  ELSE Append(history, change)

\* DedupKeys remembered once change is appended.
RetainedKeys(change) ==
  (IF Len(history) = HistoryLimit THEN dedup \ {Head(history).key} ELSE dedup)
  \cup {change.key}

\* Fan-out: a matching subscriber is sent the change, or dropped if its
\* channel is full.
Deliverable(change) == {c \in subscribers : change.table = Watched}

RecordChange(key, table, record) ==
  [id |-> nextID + 1, key |-> key, table |-> table, record |-> record]

Publish(key, table, record) ==
  LET change == RecordChange(key, table, record)
  IN  IF key \in dedup
      THEN UNCHANGED brokerVars
      ELSE /\ nextID' = nextID + 1
           /\ history' = Retained(change)
           /\ dedup' = RetainedKeys(change)
           /\ queue' = [c \in Clients |->
                          IF c \in Deliverable(change) /\ ~Full(c)
                          THEN Append(queue[c], change) ELSE queue[c]]
           /\ subscribers' = subscribers \ {c \in Deliverable(change) : Full(c)}
           /\ log' = Append(log, change)
           /\ UNCHANGED room

\* The projector announces an event it has applied to another table
\* (MongoProjectionRepository.ApplyProjection).
ProjectionPublish ==
  /\ nextID < MaxEvents
  /\ \E event \in Projected :
       Publish(<<"projection", event>>, Other, "none")
  /\ UNCHANGED <<handlerVars, clientVars, process>>

-----------------------------------------------------------------------------
(* The SSE handler (FeedHTTPHandler.ServeHTTP).                              *)

\* The request is well formed and authorised; the handler counts it in, or
\* answers FEED_CONNECTION_LIMIT and changes nothing.
Connect(c) ==
  /\ pc[c] = "off" /\ opened[c] < MaxReconnects
  /\ connections < MaxConnections /\ byScope < MaxPerScope
  /\ connections' = connections + 1 /\ byScope' = byScope + 1
  /\ pc' = [pc EXCEPT ![c] = "admitted"]
  /\ opened' = [opened EXCEPT ![c] = @ + 1]
  /\ UNCHANGED <<brokerVars, replay, cursor, since, known, synced, epoch, process>>

\* Mutant: a cursor one change too old is accepted.
CursorExpiredLate(afterID) ==
  afterID > 0 /\ history # <<>> /\ afterID < history[1].id - 2

\* Subscribe refuses a cursor that precedes the retained window.
CursorExpired(afterID) ==
  afterID > 0 /\ history # <<>> /\ afterID < history[1].id - 1

\* Whether a client with the cursor has missed the change.
Missed(afterID, change) == change.id > afterID /\ change.table = Watched

\* The loop over the retained changes; a client without a cursor missed none.
Replay(afterID) ==
  LET missed[i \in 0 .. Len(history)] ==
        IF i = 0 THEN <<>>
        ELSE IF Missed(afterID, history[i]) THEN Append(missed[i - 1], history[i])
        ELSE missed[i - 1]
  IN  IF afterID = 0 THEN <<>> ELSE missed[Len(history)]

\* Capacity of the subscriber's channel.
Capacity(missed) ==
  LET wanted == IF SubscriberBuf < Len(missed) + 1 THEN Len(missed) + 1 ELSE SubscriberBuf
  IN  IF wanted > HistoryLimit + SubscriberBuf THEN HistoryLimit + SubscriberBuf ELSE wanted

\* The deferred functions: the subscription is closed and the slot returned.
Release(c) ==
  /\ connections' = connections - 1 /\ byScope' = byScope - 1
  /\ pc' = [pc EXCEPT ![c] = "off"]

Subscribe(c) ==
  LET missed == Replay(cursor[c])
  IN
  /\ pc[c] = "admitted"
  /\ ~CursorExpired(cursor[c])
  /\ replay' = [replay EXCEPT ![c] = missed]
  /\ queue' = [queue EXCEPT ![c] = <<>>]
  /\ room' = [room EXCEPT ![c] = Capacity(missed)]
  /\ subscribers' = subscribers \cup {c}
  /\ pc' = [pc EXCEPT ![c] = "streaming"]
  /\ since' = [since EXCEPT ![c] = IF cursor[c] = 0 THEN nextID ELSE @]
  /\ epoch' = [epoch EXCEPT ![c] = IF cursor[c] = 0 THEN process ELSE @]
  /\ synced' = [synced EXCEPT ![c] = @ /\ cursor[c] > 0]
  /\ UNCHANGED <<history, nextID, dedup, log, connections, byScope, cursor, known, opened,
                 process>>

\* Mutant: the early return keeps its slot.
RefuseAndKeepSlot(c) ==
  /\ pc[c] = "admitted"
  /\ CursorExpired(cursor[c])
  /\ pc' = [pc EXCEPT ![c] = "off"]
  /\ cursor' = [cursor EXCEPT ![c] = 0]
  /\ synced' = [synced EXCEPT ![c] = FALSE]
  /\ UNCHANGED <<brokerVars, replay, connections, byScope, since, known, epoch, opened, process>>

\* CURSOR_RESET_REQUIRED: the client forgets its cursor.
RefuseCursor(c) ==
  /\ pc[c] = "admitted"
  /\ CursorExpired(cursor[c])
  /\ Release(c)
  /\ cursor' = [cursor EXCEPT ![c] = 0]
  /\ synced' = [synced EXCEPT ![c] = FALSE]
  /\ UNCHANGED <<brokerVars, replay, since, known, epoch, opened, process>>

\* The client is sent a change and reads the record it names.
Receive(c, change, content) ==
  /\ cursor' = [cursor EXCEPT ![c] = change.id]
  /\ known' = [known EXCEPT ![c][change.record] = content[change.record]]

WriteReplay(c, content) ==
  /\ pc[c] = "streaming" /\ replay[c] # <<>>
  /\ Receive(c, Head(replay[c]), content)
  /\ replay' = [replay EXCEPT ![c] = Tail(@)]
  /\ UNCHANGED <<brokerVars, pc, connections, byScope, since, synced, epoch, opened, process>>

\* A closed channel still yields what was buffered in it.
WriteLive(c, content) ==
  /\ pc[c] = "streaming" /\ replay[c] = <<>> /\ queue[c] # <<>>
  /\ Receive(c, Head(queue[c]), content)
  /\ queue' = [queue EXCEPT ![c] = Tail(@)]
  /\ UNCHANGED <<history, nextID, dedup, subscribers, room, log, handlerVars, since, synced,
                 epoch, opened, process>>

\* The stream ends: the client went away, a write failed, membership was
\* revoked, an event is too large, or the subscriber was dropped (Done is
\* ready whatever is left in the channel).
Disconnect(c) ==
  /\ pc[c] = "streaming"
  /\ Release(c)
  /\ subscribers' = subscribers \ {c}
  /\ queue' = [queue EXCEPT ![c] = <<>>]
  /\ replay' = [replay EXCEPT ![c] = <<>>]
  /\ UNCHANGED <<history, nextID, dedup, room, log, clientVars, process>>

-----------------------------------------------------------------------------
(* The clients.                                                              *)

\* A client that has just subscribed afresh reads the table.
Query(c, content) ==
  /\ pc[c] = "streaming" /\ ~synced[c]
  /\ known' = [known EXCEPT ![c] = content]
  /\ synced' = [synced EXCEPT ![c] = TRUE]
  /\ UNCHANGED <<brokerVars, handlerVars, cursor, since, epoch, opened, process>>

\* A client reloads: it forgets its cursor.
StartAfresh(c) ==
  /\ pc[c] = "off" /\ cursor[c] > 0
  /\ cursor' = [cursor EXCEPT ![c] = 0]
  /\ synced' = [synced EXCEPT ![c] = FALSE]
  /\ UNCHANGED <<brokerVars, handlerVars, since, known, epoch, opened, process>>

\* The process stops: broker, handlers and connections are gone and ids start
\* from 1 again (NewRecordFeed).
FeedRestart ==
  /\ process < MaxRestarts
  /\ process' = process + 1
  /\ history' = <<>> /\ nextID' = 0 /\ dedup' = {} /\ subscribers' = {} /\ log' = <<>>
  /\ queue' = [c \in Clients |-> <<>>]
  /\ replay' = [c \in Clients |-> <<>>]
  /\ pc' = [c \in Clients |-> "off"]
  /\ connections' = 0 /\ byScope' = 0
  /\ UNCHANGED <<room, clientVars>>

FeedStep(content) ==
  \/ ProjectionPublish
  \/ \E c \in Clients :
       \/ Connect(c) \/ Subscribe(c) \/ RefuseCursor(c)
       \/ WriteReplay(c, content) \/ WriteLive(c, content) \/ Disconnect(c)
       \/ Query(c, content) \/ StartAfresh(c)

-----------------------------------------------------------------------------
(* Properties.                                                               *)

Elements(s) == {s[i] : i \in DOMAIN s}
Ascending(s) == \A i, j \in DOMAIN s : i < j => s[i].id < s[j].id

\* The changes of the watched table with ids from n + 1 to m.
Published(n, m) ==
  {change \in Elements(log) : Missed(n, change) /\ change.id <= m}

\* The change up to which a client has been served.
Position(c) == IF cursor[c] = 0 THEN since[c] ELSE cursor[c]

\* What the handler still holds for the client.
Pending(c) == replay[c] \o queue[c]

\* While a client streams, what it is still to be sent is exactly the published
\* changes of its table that follow its last one, in order and each once: no hole
\* between replay and live, none after a reconnection, none behind changes of
\* other tables.  A client dropped for being slow holds them up to some change.
\* (For a cursor that this process issued.)
StreamIsContiguous ==
  \A c \in Clients : pc[c] = "streaming" /\ epoch[c] = process =>
    /\ Ascending(Pending(c))
    /\ \E m \in Position(c) .. nextID :
         /\ Elements(Pending(c)) = Published(Position(c), m)
         /\ c \in subscribers => m = nextID

\* The limits hold and nothing leaks: as many slots are taken as there are
\* requests under way, on every path out of the handler, and a registered
\* subscriber belongs to a stream.
SlotsAreReturned ==
  /\ connections = Cardinality({c \in Clients : pc[c] # "off"})
  /\ byScope = connections
  /\ connections <= MaxConnections /\ byScope <= MaxPerScope
  /\ \A c \in subscribers : pc[c] = "streaming"

=============================================================================

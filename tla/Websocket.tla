------------------------------ MODULE Websocket ------------------------------
(***************************************************************************)
(* The websocket service (services/websocket): a consume loop fans every   *)
(* record of earthquakes.enriched and earthquakes.alerts out to the        *)
(* bounded channels of the clients whose filter matches; a task per client *)
(* moves them from its channel to its socket; the main task drains it all  *)
(* on shutdown.                                                            *)
(*                                                                         *)
(* Records are numbered from 1 in the order of the (one) partition, a      *)
(* filter is the set of records it matches, and a client is a connection:  *)
(* it is never used twice.  A process may be given a record more than      *)
(* once: what goes to the clients are its deliveries, numbered from 1.     *)
(***************************************************************************)
EXTENDS Integers, Sequences, FiniteSets

CONSTANTS
    Client,
    Filter,       \* subscription filters, each the set of records it matches
    Unusable,     \* tombstones, undecodable records, records with a magnitude that is not finite
    Capacity,     \* client_channel_capacity
    MaxLog, MaxStops, MaxRejoins, MaxSubscriptions   \* bounds

ASSUME WebsocketAssumption ==
    /\ Filter \subseteq SUBSET (1..MaxLog) /\ Unusable \subseteq 1..MaxLog
    /\ Capacity \in Nat \ {0}
    /\ {MaxLog, MaxStops, MaxRejoins, MaxSubscriptions} \subseteq Nat

VARIABLES
    len,         \* records on the topic
    committed,   \* the group's committed offset, or NoOffset before the first commit
    stored,      \* the stored offset, which the timer commits
    position,    \* the record the stream yielded last, or goes on after
    yielded,     \* the record of each delivery of this process
    rejoined,    \* <<deliveries before, position after>> of each rejoin of this process
    rejoins,     \* lost sessions so far
    loop,        \* the consume loop: "stream", "fanout", "stopped"
    todo,        \* clients of the snapshot still to be sent the delivery in hand
    main,        \* "down", "serving", "draining", "joined", "closed"
    accepting,   \* the accept loop takes connections
    shutdown,    \* the value of the watch channel
    task,        \* where each client's task is
    registered,  \* the keys of the hub's map
    filter,      \* the filter of each registered client
    chan,        \* each client's channel
    hand,        \* the delivery a task is sending
    sent,        \* deliveries the socket of each registered client was sent
    due,         \* deliveries whose snapshot had the client as a match
    dropped,     \* of these, those that found the channel full or closed
    handled,     \* records that were fanned out or skipped as unusable
    skipped,     \* records a start without committed offset passed over
    stops,       \* crashes and shutdown signals so far
    subscriptions

stream == <<position, yielded, rejoined, rejoins>>
offsets == <<len, committed, stored, stream>>
consumer == <<offsets, loop, todo, handled, skipped, due, dropped>>
mains == <<main, accepting, shutdown>>
clients == <<task, registered, filter, hand, sent>>
vars == <<consumer, mains, clients, chan, stops, subscriptions>>

NoOffset == -1
NoDelivery == 0
Close == -1      \* ServerMessage::Close

\* The delivery in hand of the consume loop, the last.
Latest == Len(yielded)

Up == main # "down"

\* The states in which a task owns the receiver of its channel.
Alive == {"welcome", "loop", "send", "closing"}

TypeOK ==
    /\ len \in 0..MaxLog
    /\ {committed, stored} \subseteq NoOffset..len /\ position \in 0..len
    /\ yielded \in Seq(1..len) /\ rejoined \subseteq (0..Latest) \X (0..len)
    /\ loop \in {"stream", "fanout", "stopped"} /\ todo \subseteq Client
    /\ main \in {"down", "serving", "draining", "joined", "closed"}
    /\ accepting \in BOOLEAN /\ shutdown \in BOOLEAN
    /\ task \in [Client -> {"none", "handshake", "done"} \cup Alive]
    /\ registered \subseteq Client
    /\ filter \in [Client -> Filter \cup {{}}]
    /\ \A c \in Client :
         /\ chan[c] \in Seq(Nat \cup {Close}) /\ Len(chan[c]) <= Capacity
         /\ hand[c] \in Nat /\ (hand[c] # NoDelivery <=> task[c] = "send")
         /\ sent[c] \in Seq(Nat) /\ due[c] \subseteq Nat /\ dropped[c] \subseteq due[c]
    /\ handled \subseteq 1..len /\ skipped \subseteq 1..len
    /\ stops \in Nat /\ subscriptions \in Nat /\ rejoins \in Nat

Init ==
    /\ len = 0 /\ committed = NoOffset /\ stored = NoOffset
    /\ position = 0 /\ yielded = <<>> /\ rejoined = {} /\ rejoins = 0
    /\ loop = "stopped" /\ todo = {}
    /\ main = "down" /\ accepting = FALSE /\ shutdown = FALSE
    /\ task = [c \in Client |-> "none"] /\ registered = {} /\ filter = [c \in Client |-> {}]
    /\ chan = [c \in Client |-> <<>>] /\ hand = [c \in Client |-> NoDelivery]
    /\ sent = [c \in Client |-> <<>>] /\ due = [c \in Client |-> {}] /\ dropped = due
    /\ handled = {} /\ skipped = {} /\ stops = 0 /\ subscriptions = 0

-----------------------------------------------------------------------------
(* Start and shutdown: the main task and the accept loop *)

\* The group assigns the partition: the stream goes on at the committed offset;
\* auto.offset.reset = latest applies while there is none.
Assign ==
    /\ position' = IF committed = NoOffset THEN len ELSE committed
    /\ stored' = NoOffset
    /\ skipped' = skipped \cup (1..position' \ handled)

Start ==
    /\ main = "down"
    /\ main' = "serving" /\ accepting' = TRUE /\ shutdown' = FALSE
    /\ loop' = "stream" /\ todo' = {}
    /\ Assign /\ yielded' = <<>> /\ rejoined' = {}
    /\ UNCHANGED <<len, committed, rejoins, handled, due, dropped, clients, chan, stops,
                   subscriptions>>

Signal ==
    /\ main = "serving" /\ stops < MaxStops
    /\ main' = "draining" /\ shutdown' = TRUE /\ stops' = stops + 1
    /\ UNCHANGED <<consumer, accepting, clients, chan, subscriptions>>

AcceptStops ==
    /\ accepting /\ shutdown
    /\ accepting' = FALSE
    /\ UNCHANGED <<consumer, main, shutdown, clients, chan, stops, subscriptions>>

Ended(c) == task[c] \in {"none", "done"}

\* Mutant of Joined: the client tasks are detached.
JoinedNotAwaited ==
    /\ main = "draining" /\ ~accepting
    /\ main' = "joined"
    /\ UNCHANGED <<consumer, accepting, shutdown, clients, chan, stops, subscriptions>>

\* join_next until every client task has ended; then accept_handle resolves.
Joined ==
    /\ main = "draining" /\ ~accepting /\ \A c \in Client : Ended(c)
    /\ main' = "joined"
    /\ UNCHANGED <<consumer, accepting, shutdown, clients, chan, stops, subscriptions>>

CloseAll ==
    /\ main = "joined"
    /\ main' = "closed"
    /\ chan' = [c \in Client |-> IF c \in registered /\ Len(chan[c]) < Capacity
                                   THEN Append(chan[c], Close) ELSE chan[c]]
    /\ UNCHANGED <<consumer, accepting, shutdown, clients, stops, subscriptions>>

\* The last Arc of the consumer is dropped: its close commits what is stored.
Exit ==
    /\ main = "closed" /\ loop = "stopped"
    /\ main' = "down"
    /\ committed' = IF stored > committed THEN stored ELSE committed
    /\ UNCHANGED <<len, stored, stream, loop, todo, handled, skipped, due, dropped,
                   accepting, shutdown, clients, chan, stops, subscriptions>>

-----------------------------------------------------------------------------
(* The consume loop and the hub *)

\* The shutdown branch of the select is the first.
Yields(r) == Up /\ loop = "stream" /\ ~shutdown /\ r = position + 1 /\ r <= len

\* Its offset is stored all the same.
SkipUnusable(r) ==
    /\ Yields(r) /\ r \in Unusable
    /\ position' = r /\ yielded' = Append(yielded, r)
    /\ stored' = r /\ handled' = handled \cup {r}
    /\ UNCHANGED <<len, committed, rejoined, rejoins, loop, todo, skipped, due, dropped,
                   mains, clients, chan, stops, subscriptions>>

\* The snapshot of the clients, with their matches, is taken under the read lock.
Receive(r) ==
    /\ Yields(r) /\ r \notin Unusable
    /\ position' = r /\ yielded' = Append(yielded, r) /\ loop' = "fanout"
    /\ todo' = {c \in registered : r \in filter[c]}
    /\ due' = [c \in Client |-> IF c \in todo' THEN due[c] \cup {Latest'} ELSE due[c]]
    /\ UNCHANGED <<len, committed, stored, rejoined, rejoins, handled, skipped, dropped, mains,
                   clients, chan, stops, subscriptions>>

\* Mutant of TrySend: a full channel loses its oldest entry.
TrySendOverwriting(c) ==
    /\ Up /\ loop = "fanout" /\ c \in todo
    /\ todo' = todo \ {c}
    /\ chan' = [chan EXCEPT ![c] = IF Len(@) < Capacity THEN Append(@, Latest)
                                                        ELSE Append(Tail(@), Latest)]
    /\ UNCHANGED <<offsets, loop, handled, skipped, due, dropped, mains, clients,
                   stops, subscriptions>>

\* Mutant of TrySend: a full channel is waited for.
TrySendBlocking(c) ==
    /\ Up /\ loop = "fanout" /\ c \in todo
    /\ task[c] \in Alive => Len(chan[c]) < Capacity
    /\ todo' = todo \ {c}
    /\ IF task[c] \in Alive
         THEN chan' = [chan EXCEPT ![c] = Append(@, Latest)] /\ UNCHANGED dropped
         ELSE /\ dropped' = [dropped EXCEPT ![c] = @ \cup {Latest}]
              /\ UNCHANGED chan
    /\ UNCHANGED <<offsets, loop, handled, skipped, due, mains, clients, stops, subscriptions>>

TrySend(c) ==
    /\ Up /\ loop = "fanout" /\ c \in todo
    /\ todo' = todo \ {c}
    /\ IF task[c] \in Alive /\ Len(chan[c]) < Capacity
         THEN chan' = [chan EXCEPT ![c] = Append(@, Latest)] /\ UNCHANGED dropped
         ELSE /\ dropped' = [dropped EXCEPT ![c] = @ \cup {Latest}]
              /\ UNCHANGED chan
    /\ UNCHANGED <<offsets, loop, handled, skipped, due, mains, clients, stops, subscriptions>>

\* The offset is stored whatever became of the record, a rejoin included.
FanoutEnds ==
    /\ Up /\ loop = "fanout" /\ todo = {}
    /\ loop' = "stream" /\ stored' = yielded[Latest]
    /\ handled' = handled \cup {yielded[Latest]}
    /\ UNCHANGED <<len, committed, stream, todo, skipped, due, dropped, mains, clients,
                   chan, stops, subscriptions>>

ConsumerStops ==
    /\ Up /\ loop = "stream" /\ shutdown
    /\ loop' = "stopped"
    /\ UNCHANGED <<offsets, todo, handled, skipped, due, dropped, mains, clients, chan,
                   stops, subscriptions>>

\* Mutant of AutoCommit: enable.auto.offset.store is left on.
AutoCommitPosition ==
    /\ Up /\ position > committed
    /\ committed' = position
    /\ UNCHANGED <<len, stored, stream, loop, todo, handled, skipped, due, dropped,
                   mains, clients, chan, stops, subscriptions>>

\* The library's timer: an offset that is not beyond the committed one is not sent.
AutoCommit ==
    /\ Up /\ stored > committed
    /\ committed' = stored
    /\ UNCHANGED <<len, stored, stream, loop, todo, handled, skipped, due, dropped,
                   mains, clients, chan, stops, subscriptions>>

-----------------------------------------------------------------------------
(* A client's task: handle_connection *)

Unchanged == UNCHANGED <<consumer, mains, stops>>

Accept(c) ==
    /\ accepting /\ ~shutdown /\ task[c] = "none"
    /\ task' = [task EXCEPT ![c] = "handshake"]
    /\ Unchanged /\ UNCHANGED <<registered, filter, hand, sent, chan, subscriptions>>

\* Hub::remove and the end of the task; its receiver goes with it.
Leave(c) ==
    /\ task' = [task EXCEPT ![c] = "done"]
    /\ registered' = registered \ {c} /\ filter' = [filter EXCEPT ![c] = {}]
    /\ sent' = [sent EXCEPT ![c] = <<>>]
    /\ chan' = [chan EXCEPT ![c] = <<>>]
    /\ hand' = [hand EXCEPT ![c] = NoDelivery]

Handshake(c) ==
    /\ task[c] = "handshake"
    /\ \/ /\ task' = [task EXCEPT ![c] = "welcome"]
          /\ registered' = registered \cup {c}
          /\ \E f \in Filter : filter' = [filter EXCEPT ![c] = f]
       \/ task' = [task EXCEPT ![c] = "done"] /\ UNCHANGED <<registered, filter>>
    /\ Unchanged /\ UNCHANGED <<hand, sent, chan, subscriptions>>

\* After the welcome message the flag is read once more.
Welcome(c) ==
    /\ task[c] = "welcome"
    /\ \/ /\ task' = [task EXCEPT ![c] = IF shutdown THEN "closing" ELSE "loop"]
          /\ UNCHANGED <<registered, filter, sent, chan, hand>>
       \/ Leave(c)
    /\ Unchanged /\ UNCHANGED subscriptions

\* Mutant of SeeShutdown: the shutdown branch is missing from the select.
SeeNothing(c) == FALSE

SeeShutdown(c) ==
    /\ task[c] = "loop" /\ shutdown
    /\ task' = [task EXCEPT ![c] = "closing"]
    /\ Unchanged /\ UNCHANGED <<registered, filter, hand, sent, chan, subscriptions>>

TakeMessage(c) ==
    /\ task[c] = "loop" /\ ~shutdown /\ chan[c] # <<>>
    /\ chan' = [chan EXCEPT ![c] = Tail(@)]
    /\ IF Head(chan[c]) = Close
         THEN task' = [task EXCEPT ![c] = "closing"] /\ UNCHANGED hand
         ELSE /\ task' = [task EXCEPT ![c] = "send"]
              /\ hand' = [hand EXCEPT ![c] = Head(chan[c])]
    /\ Unchanged /\ UNCHANGED <<registered, filter, sent, subscriptions>>

\* ws_write.send returns when the socket has taken the message, or with an error.
Send(c) ==
    /\ task[c] = "send"
    /\ \/ /\ task' = [task EXCEPT ![c] = "loop"]
          /\ sent' = [sent EXCEPT ![c] = Append(@, hand[c])]
          /\ hand' = [hand EXCEPT ![c] = NoDelivery]
          /\ UNCHANGED <<registered, filter, chan>>
       \/ Leave(c)
    /\ Unchanged /\ UNCHANGED subscriptions

\* The close frame; whether it could be sent does not matter.
SendClose(c) ==
    /\ task[c] = "closing"
    /\ Leave(c)
    /\ Unchanged /\ UNCHANGED subscriptions

\* The socket's stream ends, fails or has a close frame.  The select is biased:
\* it is looked at while the channel is empty.
Disconnect(c) ==
    /\ task[c] = "loop" /\ ~shutdown /\ chan[c] = <<>>
    /\ Leave(c)
    /\ Unchanged /\ UNCHANGED subscriptions

Subscribe(c) ==
    /\ task[c] = "loop" /\ ~shutdown /\ chan[c] = <<>> /\ subscriptions < MaxSubscriptions
    /\ \E f \in Filter \ {filter[c]} : filter' = [filter EXCEPT ![c] = f]
    /\ subscriptions' = subscriptions + 1
    /\ Unchanged /\ UNCHANGED <<task, registered, hand, sent, chan>>

-----------------------------------------------------------------------------
(* The environment *)

Publish ==
    /\ len < MaxLog
    /\ len' = len + 1
    /\ UNCHANGED <<committed, stored, stream, loop, todo, handled, skipped, due, dropped,
                   mains, clients, chan, stops, subscriptions>>

\* The broker heard no heartbeat for session.timeout.ms: the consumer joins its
\* group again, in the live process and below the connections and a fan-out that
\* is under way.
Rejoin ==
    /\ Up /\ loop # "stopped" /\ rejoins < MaxRejoins
    /\ rejoins' = rejoins + 1
    /\ Assign /\ rejoined' = rejoined \cup {<<Latest, position'>>}
    /\ UNCHANGED <<len, committed, yielded, loop, todo, handled, due, dropped, mains, clients,
                   chan, stops, subscriptions>>

\* SIGKILL; the connections break.
Crash ==
    /\ Up /\ stops < MaxStops
    /\ stops' = stops + 1
    /\ main' = "down" /\ accepting' = FALSE /\ loop' = "stopped" /\ todo' = {}
    /\ task' = [c \in Client |-> IF task[c] = "none" THEN "none" ELSE "done"]
    /\ registered' = {} /\ filter' = [c \in Client |-> {}]
    /\ chan' = [c \in Client |-> <<>>]
    /\ hand' = [c \in Client |-> NoDelivery] /\ sent' = [c \in Client |-> <<>>]
    /\ UNCHANGED <<offsets, handled, skipped, due, dropped, shutdown, subscriptions>>

-----------------------------------------------------------------------------

ConsumeLoop ==
    \/ FanoutEnds \/ ConsumerStops
    \/ \E r \in 1..MaxLog : SkipUnusable(r) \/ Receive(r)
    \/ \E c \in Client : TrySend(c)

\* What the server's tasks do on their own.
Server ==
    \/ Start \/ AcceptStops \/ Joined \/ CloseAll \/ Exit \/ ConsumeLoop
    \/ \E c \in Client : SeeShutdown(c) \/ TakeMessage(c)

\* What takes the peer's part in a conversation.
Peer(c) == Handshake(c) \/ Welcome(c) \/ Send(c) \/ SendClose(c)

Environment ==
    \/ Publish \/ Signal \/ Crash \/ Rejoin \/ AutoCommit
    \/ \E c \in Client : Accept(c) \/ Disconnect(c) \/ Subscribe(c)

Next == Server \/ (\E c \in Client : Peer(c)) \/ Environment

(* The runtime polls every task that is ready; the container is restarted.  *)
(* A peer need not do its part: the awaits of Peer have no timeout.         *)
ServerFairness ==
    /\ WF_vars(Start) /\ WF_vars(AcceptStops) /\ WF_vars(Joined) /\ WF_vars(CloseAll)
    /\ WF_vars(Exit)
    /\ WF_vars(ConsumeLoop)
    /\ \A c \in Client : WF_vars(SeeShutdown(c) \/ TakeMessage(c))

Spec == Init /\ [][Next]_vars /\ ServerFairness

-----------------------------------------------------------------------------
(* Properties *)

Elements(s) == {s[i] : i \in DOMAIN s}

Rising(s) == \A i, j \in DOMAIN s : i < j => s[i] < s[j]

Waiting(c) == IF hand[c] = NoDelivery THEN chan[c] ELSE <<hand[c]>> \o chan[c]

\* A session was lost between deliveries i and j, and no commit had covered the
\* record of j then.
Reassigned(i, j) == \E b \in rejoined : i <= b[1] /\ b[1] < j /\ b[2] < yielded[j]

\* A connected client gets the deliveries that matched its filter, each once and
\* in order: what it was sent and what waits for it is all that was due to it
\* except what the hub counted as dropped, over filter changes during a fan-out,
\* slow sockets, full channels and rejoins.  A record comes again, or after a
\* later one, only when the consumer lost its session in between and had not
\* committed it (ADR-0001 leaves such duplicates to the client).
ClientGetsItsStream ==
    \A c \in registered \ todo :
        /\ Elements(sent[c] \o Waiting(c)) = due[c] \ dropped[c]
        /\ Rising(sent[c] \o Waiting(c))
        /\ \A i, j \in due[c] \ dropped[c] :
             i < j /\ yielded[j] <= yielded[i] => Reassigned(i, j)

\* main.rs:197-201: the accept loop joins all client tasks, so that none can
\* register after it returns; and until then the registered clients are those
\* with a task that serves them: no exit path leaves one behind in the hub.
NoClientAfterJoin ==
    /\ main \in {"joined", "closed"} => registered = {}
    /\ \A c \in Client : c \in registered <=> task[c] \in Alive

\* A committed offset covers only records that were fanned out, were unusable,
\* or that an assignment without a committed offset passed over.
ALO == INSTANCE AtLeastOnce WITH
         Partition <- {1}, len <- <<len>>,
         settled <- {<<1, r - 1>> : r \in handled \cup skipped},
         committed <- <<IF committed = NoOffset THEN 0 ELSE committed>>

ImplementsAtLeastOnce == ALO!Spec

\* The task waits for its peer: for the handshake, or for room in the socket.
Stalled(c) == task[c] \in {"handshake", "welcome", "send", "closing"}

\* A shutdown signal ends the process, join, close and commit following each
\* other, unless a task waits for its peer for good: a task that does not is
\* never what the shutdown waits for (main.rs:191-213, handler.rs).
ShutdownCompletes == (\A c \in Client : []<>(~Stalled(c))) => []<>(~(shutdown /\ Up))

\* Clients that do not read hold up nobody else: every record is fanned out, or
\* passed over by an assignment, unless a shutdown is never done.
EventuallyFannedOut == []<>(~shutdown) => []<>(1..len \subseteq handled \cup skipped)
=============================================================================

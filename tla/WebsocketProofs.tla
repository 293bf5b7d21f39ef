-------------------------- MODULE WebsocketProofs --------------------------
(***************************************************************************)
(* What a client of the websocket service is sent, and what a shutdown     *)
(* leaves behind, for all clients, filters, channel capacities and bounds. *)
(*                                                                         *)
(* The registered clients are those with a task that owns a receiver, and  *)
(* once the main task has joined them there is none.  For each of them the *)
(* deliveries sent and waiting are rising and all that was due, but for    *)
(* the dropped and the one the fan-out has still to send; and a record     *)
(* goes back in the deliveries only where a session was lost.              *)
(***************************************************************************)
EXTENDS MCWebsocket, FiniteSetTheorems, SequenceTheorems, TLAPS

(* The whole next-state relation, unfolded.                                *)
LEMMA Steps ==
    ASSUME [Next]_vars
    PROVE  \/ Start \/ Signal \/ AcceptStops \/ Joined \/ CloseAll \/ Exit
           \/ FanoutEnds \/ ConsumerStops \/ AutoCommit \/ Publish \/ Crash \/ Rejoin
           \/ \E r \in 1..MaxLog : SkipUnusable(r)
           \/ \E r \in 1..MaxLog : Receive(r)
           \/ \E c \in Client : TrySend(c)
           \/ \E c \in Client : Accept(c)
           \/ \E c \in Client : Handshake(c)
           \/ \E c \in Client : Welcome(c)
           \/ \E c \in Client : SeeShutdown(c)
           \/ \E c \in Client : TakeMessage(c)
           \/ \E c \in Client : Send(c)
           \/ \E c \in Client : SendClose(c)
           \/ \E c \in Client : Disconnect(c)
           \/ \E c \in Client : Subscribe(c)
           \/ UNCHANGED vars
  BY DEF Next, Server, ConsumeLoop, Peer, Environment

-----------------------------------------------------------------------------
(* The hub and the shutdown *)

HubInv ==
    /\ main \in {"down", "serving", "draining", "joined", "closed"}
    /\ accepting \in BOOLEAN
    /\ task \in [Client -> {"none", "handshake", "done"} \cup Alive]
    /\ registered \subseteq Client
    /\ \A c \in Client : c \in registered <=> task[c] \in Alive
    /\ main \in {"down", "joined", "closed"} => accepting = FALSE /\ \A c \in Client : Ended(c)

LEMMA InitHub == Init => HubInv
  BY DEF Init, HubInv, Alive, Ended

\* A step of a client's task: only a task that has not ended takes one.
LEMMA TaskStep ==
    ASSUME HubInv, NEW c \in Client, UNCHANGED mains,
           \/ Accept(c) \/ Handshake(c) \/ Welcome(c) \/ SeeShutdown(c)
           \/ TakeMessage(c) \/ Send(c) \/ SendClose(c) \/ Disconnect(c) \/ Subscribe(c)
    PROVE  HubInv'
  <1>1. main \notin {"down", "joined", "closed"}
    BY DEF HubInv, Ended, Alive, Accept, Handshake, Welcome, SeeShutdown, TakeMessage, Send, SendClose,
           Disconnect, Subscribe
  <1>2. \/ UNCHANGED <<task, registered>>
        \/ \E t \in {"handshake", "done"} :
             task' = [task EXCEPT ![c] = t] /\ registered' = registered \ {c}
        \/ task[c] = "none" /\ task' = [task EXCEPT ![c] = "handshake"] /\ UNCHANGED registered
        \/ task[c] = "handshake" /\ task' = [task EXCEPT ![c] = "done"] /\ UNCHANGED registered
        \/ \E t \in Alive : task' = [task EXCEPT ![c] = t] /\ registered' = registered \cup {c}
        \/ \E t \in Alive : task[c] \in Alive /\ task' = [task EXCEPT ![c] = t] /\ UNCHANGED registered
    BY DEF HubInv, Alive, Accept, Handshake, Welcome, SeeShutdown, TakeMessage, Send, SendClose,
           Disconnect, Subscribe, Leave
  <1>3. UNCHANGED <<main, accepting>>
    BY DEF mains
  <1> QED BY <1>1, <1>2, <1>3 DEF HubInv, Alive, Ended

LEMMA NextHub ==
    ASSUME HubInv, [Next]_vars
    PROVE  HubInv'
  <1>1. CASE Start
    BY <1>1 DEF Start, HubInv, clients, Ended
  <1>2. CASE Signal
    BY <1>2 DEF Signal, HubInv, clients, Ended
  <1>3. CASE AcceptStops
    BY <1>3 DEF AcceptStops, HubInv, clients, Ended
  <1>4. CASE Joined
    BY <1>4 DEF Joined, HubInv, clients, Ended
  <1>5. CASE CloseAll
    BY <1>5 DEF CloseAll, HubInv, clients, Ended
  <1>6. CASE Exit
    BY <1>6 DEF Exit, HubInv, clients, Ended
  <1>7. CASE Crash
    BY <1>7 DEF Crash, HubInv, Alive, Ended
  <1>8. CASE UNCHANGED <<mains, clients>>
    BY <1>8 DEF mains, clients, HubInv, Ended
  <1>9. ASSUME NEW c \in Client,
               \/ Accept(c) \/ Handshake(c) \/ Welcome(c) \/ SeeShutdown(c)
               \/ TakeMessage(c) \/ Send(c) \/ SendClose(c) \/ Disconnect(c) \/ Subscribe(c)
        PROVE  HubInv'
    <2>1. UNCHANGED mains
      BY <1>9 DEF Accept, Handshake, Welcome, SeeShutdown, TakeMessage, Send, SendClose, Disconnect, Subscribe, Unchanged
    <2> QED BY <1>9, <2>1, TaskStep
  <1>10. CASE FanoutEnds \/ ConsumerStops \/ AutoCommit \/ Publish \/ Rejoin
    BY <1>10, <1>8 DEF FanoutEnds, ConsumerStops, AutoCommit, Publish, Rejoin
  <1>11. ASSUME NEW r \in 1..MaxLog, SkipUnusable(r) \/ Receive(r) PROVE HubInv'
    BY <1>11, <1>8 DEF SkipUnusable, Receive
  <1>12. ASSUME NEW c \in Client, TrySend(c) PROVE HubInv'
    BY <1>12, <1>8 DEF TrySend
  <1>13. CASE UNCHANGED vars
    BY <1>13, <1>8 DEF vars
  <1> QED BY Steps, <1>1, <1>2, <1>3, <1>4, <1>5, <1>6, <1>7, <1>9, <1>10, <1>11, <1>12, <1>13

LEMMA HubInvariant == Spec => []HubInv
  <1>1. Init => HubInv
    BY InitHub
  <1>2. HubInv /\ [Next]_vars => HubInv'
    BY NextHub
  <1> QED BY <1>1, <1>2, PTL DEF Spec

\* No client registers once the accept loop has joined their tasks, and no exit
\* path of a task leaves its client in the hub (main.rs:197-201).
THEOREM NoClientAfterJoinCorrect == Spec => []NoClientAfterJoin
  <1>1. HubInv => NoClientAfterJoin
    BY DEF HubInv, NoClientAfterJoin, Ended, Alive
  <1> QED BY <1>1, HubInvariant, PTL

-----------------------------------------------------------------------------
(* Sequences *)

LEMMA TakeKeeps ==
    ASSUME NEW s \in Seq(Int), NEW t \in Seq(Int), t # <<>>
    PROVE  /\ Head(t) \in Int /\ Tail(t) \in Seq(Int)
           /\ s \o (<<Head(t)>> \o Tail(t)) = s \o t
  <1>1. <<Head(t)>> \o Tail(t) = t
    OBVIOUS
  <1> QED BY <1>1

LEMMA SendKeeps ==
    ASSUME NEW s \in Seq(Int), NEW t \in Seq(Int), NEW h \in Int
    PROVE  Append(s, h) \o t = s \o (<<h>> \o t)
  OBVIOUS

LEMMA AppendLast ==
    ASSUME NEW s \in Seq(Int), NEW t \in Seq(Int), NEW r \in Int
    PROVE  s \o Append(t, r) = Append(s \o t, r)
  OBVIOUS

LEMMA AppendRises ==
    ASSUME NEW w \in Seq(Int), NEW r \in Int, Rising(w), \A x \in Elements(w) : x < r
    PROVE  Rising(Append(w, r)) /\ Elements(Append(w, r)) = Elements(w) \cup {r}
  <1>1. /\ Len(w) \in Nat /\ DOMAIN w = 1..Len(w)
        /\ DOMAIN Append(w, r) = 1..(Len(w) + 1)
        /\ Append(w, r)[Len(w) + 1] = r
        /\ \A i \in 1..Len(w) : Append(w, r)[i] = w[i] /\ w[i] < r
    BY DEF Elements
  <1>2. Rising(Append(w, r))
    BY <1>1 DEF Rising
  <1>3. ASSUME NEW x PROVE x \in Elements(Append(w, r)) <=> x \in Elements(w) \cup {r}
    BY <1>1 DEF Elements
  <1> QED BY <1>2, <1>3

LEMMA FirstIsRecord ==
    ASSUME NEW s \in Seq(Int), NEW t \in Seq(Int), t # <<>>
    PROVE  Head(t) \in Elements(s \o t)
  <1>1. Len(s) + 1 \in DOMAIN (s \o t) /\ (s \o t)[Len(s) + 1] = Head(t)
    OBVIOUS
  <1> QED BY <1>1 DEF Elements

-----------------------------------------------------------------------------
(* The streams *)

StreamTypes ==
    /\ len \in Nat /\ position \in Nat /\ yielded \in Seq(Nat) /\ Latest \in Nat
    /\ committed \in Nat \cup {NoOffset} /\ stored \in Nat \cup {NoOffset}
    /\ loop \in {"stream", "fanout", "stopped"} /\ todo \subseteq Client
    /\ loop = "fanout" => Latest # 0
    /\ chan \in [Client -> Seq(Int)] /\ sent \in [Client -> Seq(Int)] /\ hand \in [Client -> Int]
    /\ due \in [Client -> SUBSET Nat] /\ dropped \in [Client -> SUBSET Nat]

\* A client that the hub has not seen yet.
Fresh(c) ==
    /\ due[c] = {} /\ dropped[c] = {} /\ c \notin todo
    /\ sent[c] = <<>> /\ chan[c] = <<>> /\ hand[c] = NoDelivery

Passed(c) == sent[c] \o Waiting(c)

\* The delivery that the fan-out has still to send to the client.
Owed(c) == IF c \in todo THEN {Latest} ELSE {}

Stream(c) ==
    /\ due[c] \subseteq 1..Latest /\ dropped[c] \subseteq due[c]
    /\ Owed(c) \subseteq due[c] \ dropped[c]
    /\ Rising(Passed(c))
    /\ Elements(Passed(c)) = (due[c] \ dropped[c]) \ Owed(c)

StreamInv ==
    /\ HubInv /\ StreamTypes
    /\ loop # "fanout" => todo = {}
    /\ \A c \in Client : hand[c] # NoDelivery <=> task[c] = "send"
    /\ \A c \in Client : task[c] \in {"none", "handshake"} => Fresh(c)
    /\ \A c \in registered : Stream(c)

LEMMA InitStream == Init => StreamInv
  <1> SUFFICES ASSUME Init PROVE StreamInv
    OBVIOUS
  <1>1. HubInv
    BY InitHub
  <1>2. StreamTypes
    BY DEF Init, StreamTypes, NoOffset, NoDelivery, Latest
  <1> QED BY <1>1, <1>2 DEF Init, StreamInv, Fresh, NoDelivery

LEMMA ExceptKeeps ==
    ASSUME NEW S, NEW f \in [Client -> S], NEW c \in Client, NEW v \in S
    PROVE  [f EXCEPT ![c] = v] \in [Client -> S]
  OBVIOUS

LEMMA LeaveTypes ==
    ASSUME StreamTypes, NEW c \in Client, Leave(c)
    PROVE  /\ chan' \in [Client -> Seq(Int)] /\ hand' \in [Client -> Int]
           /\ sent' \in [Client -> Seq(Int)]
  <1>1. <<>> \in Seq(Int) /\ NoDelivery \in Int
    BY DEF NoDelivery
  <1> QED BY <1>1, ExceptKeeps DEF Leave, StreamTypes

LEMMA StreamTypesStep ==
    ASSUME HubInv, StreamTypes, [Next]_vars
    PROVE  StreamTypes'
  <1> USE DEF StreamTypes, stream, Latest
  <1>1. CASE Start
    BY <1>1 DEF Start, Assign, clients, NoOffset
  <1>2. CASE Signal \/ AcceptStops \/ Joined
    BY <1>2 DEF Signal, AcceptStops, Joined, clients, consumer, offsets
  <1>3. CASE CloseAll
    BY <1>3 DEF CloseAll, clients, consumer, offsets, Close
  <1>4. CASE Exit
    BY <1>4 DEF Exit, clients
  <1>5. CASE FanoutEnds
    BY <1>5 DEF FanoutEnds, clients
  <1>6. CASE ConsumerStops \/ AutoCommit
    BY <1>6 DEF ConsumerStops, AutoCommit, clients, offsets
  <1>7. CASE Publish
    BY <1>7 DEF Publish, clients
  <1>8. CASE Crash
    BY <1>8 DEF Crash, offsets, NoDelivery
  <1>9. ASSUME NEW r \in 1..MaxLog, SkipUnusable(r) PROVE StreamTypes'
    BY <1>9 DEF SkipUnusable, clients
  <1>10. ASSUME NEW r \in 1..MaxLog, Receive(r) PROVE StreamTypes'
    <2>1. todo' \subseteq Client
      BY <1>10 DEF Receive, HubInv
    <2>2. due' \in [Client -> SUBSET Nat]
      <3> DEFINE new(c) == IF c \in todo' THEN due[c] \cup {Latest'} ELSE due[c]
      <3>0. Latest' \in Nat
        BY <1>10 DEF Receive
      <3>1. \A c \in Client : new(c) \in SUBSET Nat
        BY <3>0
      <3>2. due' = [c \in Client |-> new(c)]
        BY <1>10 DEF Receive
      <3> HIDE DEF new
      <3> QED BY <3>1, <3>2
    <2>3. /\ position' = r /\ loop' = "fanout" /\ yielded' \in Seq(Nat) /\ Latest' = Latest + 1
          /\ UNCHANGED <<len, committed, stored, dropped, chan, sent, hand>>
      BY <1>10 DEF Receive, clients
    <2> QED BY <2>1, <2>2, <2>3
  <1>11. ASSUME NEW c \in Client, TrySend(c) PROVE StreamTypes'
    <2>1. CASE task[c] \in Alive /\ Len(chan[c]) < Capacity
      <3>1. Append(chan[c], Latest) \in Seq(Int)
        OBVIOUS
      <3>2. chan' = [chan EXCEPT ![c] = Append(chan[c], Latest)] /\ dropped' = dropped
        BY <1>11, <2>1 DEF TrySend
      <3>3. chan' \in [Client -> Seq(Int)]
        BY <3>1, <3>2, ExceptKeeps
      <3> QED BY <1>11, <3>2, <3>3 DEF TrySend, clients, offsets
    <2>2. CASE ~(task[c] \in Alive /\ Len(chan[c]) < Capacity)
      <3>1. dropped[c] \cup {Latest} \in SUBSET Nat
        OBVIOUS
      <3>2. dropped' = [dropped EXCEPT ![c] = dropped[c] \cup {Latest}] /\ chan' = chan
        BY <1>11, <2>2 DEF TrySend
      <3>3. dropped' \in [Client -> SUBSET Nat]
        BY <3>1, <3>2, ExceptKeeps
      <3> QED BY <1>11, <3>2, <3>3 DEF TrySend, clients, offsets
    <2> QED BY <2>1, <2>2
  <1>12. ASSUME NEW c \in Client,
                Accept(c) \/ Handshake(c) \/ SeeShutdown(c) \/ Subscribe(c)
         PROVE  StreamTypes'
    BY <1>12 DEF Accept, Handshake, SeeShutdown, Subscribe, Unchanged, consumer, offsets
  <1>13. ASSUME NEW c \in Client, Welcome(c) \/ SendClose(c) \/ Disconnect(c)
         PROVE  StreamTypes'
    <2>1. CASE UNCHANGED <<chan, hand, sent>>
      BY <1>13, <2>1 DEF Welcome, SendClose, Disconnect, Leave, Unchanged, consumer, offsets
    <2>2. CASE Leave(c)
      BY <1>13, <2>2, LeaveTypes DEF Welcome, SendClose, Disconnect, Unchanged, consumer, offsets
    <2> QED BY <1>13, <2>1, <2>2 DEF Welcome, SendClose, Disconnect
  <1>14. ASSUME NEW c \in Client, TakeMessage(c) PROVE StreamTypes'
    <2>1. Head(chan[c]) \in Int /\ Tail(chan[c]) \in Seq(Int)
      BY <1>14, TakeKeeps DEF TakeMessage
    <2> QED BY <1>14, <2>1 DEF TakeMessage, Unchanged, consumer, offsets
  <1>15. ASSUME NEW c \in Client, Send(c) PROVE StreamTypes'
    <2>1. CASE Leave(c)
      BY <1>15, <2>1, LeaveTypes DEF Send, Unchanged, consumer, offsets
    <2>2. CASE ~Leave(c)
      <3>1. /\ sent' = [sent EXCEPT ![c] = Append(sent[c], hand[c])]
            /\ hand' = [hand EXCEPT ![c] = NoDelivery] /\ UNCHANGED chan
        BY <1>15, <2>2 DEF Send
      <3>2. Append(sent[c], hand[c]) \in Seq(Int) /\ NoDelivery \in Int
        BY DEF NoDelivery
      <3>3. sent' \in [Client -> Seq(Int)] /\ hand' \in [Client -> Int]
        BY <3>1, <3>2, ExceptKeeps
      <3> QED BY <1>15, <3>1, <3>3 DEF Send, Unchanged, consumer, offsets
    <2> QED BY <2>1, <2>2
  <1>16. CASE UNCHANGED vars
    BY <1>16 DEF vars, consumer, offsets, clients
  <1>17. CASE Rejoin
    BY <1>17 DEF Rejoin, Assign, clients, NoOffset
  <1> QED BY Steps, <1>1, <1>2, <1>3, <1>4, <1>5, <1>6, <1>7, <1>8, <1>9, <1>10, <1>11, <1>12,
             <1>13, <1>14, <1>15, <1>16, <1>17

\* A client that a step does not concern.
LEMMA StreamStays ==
    ASSUME NEW c \in registered, Stream(c), StreamTypes, registered \subseteq Client,
           due'[c] = due[c], dropped'[c] = dropped[c], sent'[c] = sent[c],
           chan'[c] = chan[c], hand'[c] = hand[c],
           c \in todo' <=> c \in todo, Latest <= Latest', Latest' \in Nat,
           c \in todo => Latest' = Latest
    PROVE  Stream(c)'
  <1>1. Passed(c)' = Passed(c) /\ Owed(c)' = Owed(c)
    BY DEF Passed, Waiting, Owed
  <1>2. 1..Latest \subseteq 1..Latest'
    BY DEF StreamTypes
  <1>3. due[c]' = due[c] /\ dropped[c]' = dropped[c]
    OBVIOUS
  <1>4. Rising(Passed(c))' /\ Elements(Passed(c))' = Elements(Passed(c))
    BY <1>1 DEF Stream, Rising, Elements
  <1> QED BY <1>1, <1>2, <1>3, <1>4 DEF Stream

\* The same with a stream that was rearranged only.
LEMMA StreamMoves ==
    ASSUME NEW c \in registered, Stream(c), due' = due, dropped' = dropped,
           todo' = todo, Latest' = Latest, Passed(c)' = Passed(c)
    PROVE  Stream(c)'
  <1>1. Rising(Passed(c))' /\ Elements(Passed(c))' = Elements(Passed(c)) /\ Owed(c)' = Owed(c)
    BY DEF Stream, Rising, Elements, Owed
  <1> QED BY <1>1 DEF Stream

LEMMA TakeMessageStream ==
    ASSUME StreamInv, NEW c \in Client, TakeMessage(c)
    PROVE  /\ Passed(c)' = Passed(c) /\ Head(chan[c]) # Close /\ c \in registered
           /\ hand'[c] # NoDelivery /\ task'[c] = "send"
  <1>0. /\ c \in registered /\ Stream(c) /\ StreamTypes /\ task[c] = "loop" /\ hand[c] = NoDelivery
        /\ chan[c] # <<>> /\ task \in [Client -> {"none", "handshake", "done"} \cup Alive]
    BY DEF StreamInv, HubInv, TakeMessage, Alive
  <1>1. chan[c] \in Seq(Int) /\ sent[c] \in Seq(Int) /\ Latest \in Nat
    BY <1>0 DEF StreamTypes
  <1>2. Passed(c) = sent[c] \o chan[c]
    BY <1>0 DEF Passed, Waiting
  <1>3. Head(chan[c]) \in 1..Latest
    <2>1. Head(chan[c]) \in Elements(sent[c] \o chan[c])
      BY <1>0, <1>1, FirstIsRecord
    <2> QED BY <2>1, <1>0, <1>2 DEF Stream
  <1>4. Head(chan[c]) # Close /\ Head(chan[c]) # NoDelivery
    BY <1>3, <1>1 DEF Close, NoDelivery
  <1>5. /\ sent' = sent /\ chan' = [chan EXCEPT ![c] = Tail(chan[c])]
        /\ hand' = [hand EXCEPT ![c] = Head(chan[c])] /\ task' = [task EXCEPT ![c] = "send"]
    BY <1>4 DEF TakeMessage
  <1>6. sent'[c] = sent[c] /\ chan'[c] = Tail(chan[c]) /\ hand'[c] = Head(chan[c]) /\ task'[c] = "send"
    BY <1>0, <1>5 DEF StreamTypes
  <1>7. Passed(c)' = sent[c] \o (<<Head(chan[c])>> \o Tail(chan[c]))
    BY <1>6, <1>4 DEF Passed, Waiting
  <1> QED BY <1>0, <1>1, <1>2, <1>4, <1>6, <1>7, TakeKeeps

LEMMA SendStream ==
    ASSUME StreamInv, NEW c \in Client, Send(c), c \in registered'
    PROVE  /\ Passed(c)' = Passed(c) /\ c \in registered
           /\ hand'[c] = NoDelivery /\ task'[c] = "loop"
  <1>0. /\ c \in registered /\ StreamTypes /\ hand[c] # NoDelivery
        /\ task \in [Client -> {"none", "handshake", "done"} \cup Alive]
    BY DEF StreamInv, HubInv, Send, Alive
  <1>1. chan[c] \in Seq(Int) /\ sent[c] \in Seq(Int) /\ hand[c] \in Int
    BY <1>0 DEF StreamTypes
  <1>2. /\ task' = [task EXCEPT ![c] = "loop"] /\ sent' = [sent EXCEPT ![c] = Append(@, hand[c])]
        /\ hand' = [hand EXCEPT ![c] = NoDelivery] /\ chan' = chan
    BY DEF Send, Leave
  <1>3. task'[c] = "loop" /\ sent'[c] = Append(sent[c], hand[c]) /\ hand'[c] = NoDelivery /\ chan'[c] = chan[c]
    BY <1>0, <1>2 DEF StreamTypes
  <1>4. Passed(c) = sent[c] \o (<<hand[c]>> \o chan[c])
    BY <1>0 DEF Passed, Waiting
  <1>5. Passed(c)' = Append(sent[c], hand[c]) \o chan[c]
    BY <1>3 DEF Passed, Waiting
  <1> QED BY <1>0, <1>1, <1>3, <1>4, <1>5, SendKeeps

LEMMA TrySendStream ==
    ASSUME StreamInv, NEW c \in Client, TrySend(c), c \in registered
    PROVE  Stream(c)'
  <1>0. /\ Stream(c) /\ StreamTypes /\ c \in todo /\ task[c] \in Alive
        /\ due' = due /\ Latest' = Latest /\ sent' = sent /\ hand' = hand
        /\ todo' = todo \ {c}
    BY DEF StreamInv, HubInv, TrySend, offsets, stream, clients, Latest
  <1>1. /\ chan[c] \in Seq(Int) /\ sent[c] \in Seq(Int) /\ hand[c] \in Int /\ Latest \in Nat
        /\ Passed(c) \in Seq(Int)
    BY <1>0 DEF StreamTypes, Passed, Waiting
  <1>2. /\ due[c] \subseteq 1..Latest /\ Latest \in due[c] \ dropped[c]
        /\ Rising(Passed(c)) /\ Elements(Passed(c)) = (due[c] \ dropped[c]) \ {Latest}
        /\ Owed(c)' = {}
    BY <1>0 DEF Stream, Owed
  <1>3. CASE Len(chan[c]) < Capacity
    <2>1. chan'[c] = Append(chan[c], Latest) /\ dropped' = dropped
      BY <1>0, <1>3 DEF TrySend, StreamTypes
    <2>2. Passed(c)' = Append(Passed(c), Latest)
      <3>1. CASE hand[c] = NoDelivery
        <4>1. Passed(c) = sent[c] \o chan[c] /\ Passed(c)' = sent[c] \o Append(chan[c], Latest)
          BY <2>1, <3>1, <1>0 DEF Passed, Waiting
        <4>2. sent[c] \in Seq(Int) /\ chan[c] \in Seq(Int) /\ Latest \in Int
          BY <1>1
        <4>3. sent[c] \o Append(chan[c], Latest) = Append(sent[c] \o chan[c], Latest)
          BY <4>2, AppendLast
        <4> QED BY <4>1, <4>3
      <3>2. CASE hand[c] # NoDelivery
        <4>1. /\ Passed(c) = sent[c] \o (<<hand[c]>> \o chan[c])
              /\ Passed(c)' = sent[c] \o (<<hand[c]>> \o Append(chan[c], Latest))
          BY <2>1, <3>2, <1>0 DEF Passed, Waiting
        <4>2. /\ sent[c] \in Seq(Int) /\ chan[c] \in Seq(Int) /\ Latest \in Int
              /\ <<hand[c]>> \in Seq(Int) /\ <<hand[c]>> \o chan[c] \in Seq(Int)
          BY <1>1
        <4>3. <<hand[c]>> \o Append(chan[c], Latest) = Append(<<hand[c]>> \o chan[c], Latest)
          BY <4>2, AppendLast
        <4>4. sent[c] \o Append(<<hand[c]>> \o chan[c], Latest)
                = Append(sent[c] \o (<<hand[c]>> \o chan[c]), Latest)
          BY <4>2, AppendLast
        <4> QED BY <4>1, <4>3, <4>4
      <3> QED BY <3>1, <3>2
    <2>3. \A x \in Elements(Passed(c)) : x < Latest
      BY <1>1, <1>2
    <2>4. /\ Rising(Append(Passed(c), Latest))
          /\ Elements(Append(Passed(c), Latest)) = Elements(Passed(c)) \cup {Latest}
      BY <1>1, <1>2, <2>3, AppendRises
    <2>5. /\ Rising(Passed(c))'
          /\ Elements(Passed(c))' = Elements(Passed(c)) \cup {Latest}
      BY <2>2, <2>4 DEF Rising, Elements
    <2> QED BY <1>0, <1>2, <2>1, <2>5 DEF Stream
  <1>4. CASE ~(Len(chan[c]) < Capacity)
    <2>1. dropped'[c] = dropped[c] \cup {Latest} /\ chan' = chan
      BY <1>0, <1>4 DEF TrySend, StreamTypes
    <2>2. Passed(c)' = Passed(c)
      BY <2>1, <1>0 DEF Passed, Waiting
    <2>3. Rising(Passed(c))' /\ Elements(Passed(c))' = Elements(Passed(c))
      BY <1>2, <2>2 DEF Rising, Elements
    <2> QED BY <1>0, <1>2, <2>1, <2>3 DEF Stream
  <1> QED BY <1>3, <1>4

LEMMA ReceiveStream ==
    ASSUME StreamInv, NEW r \in 1..MaxLog, Receive(r), NEW c \in registered
    PROVE  Stream(c)'
  <1>0. /\ Stream(c) /\ StreamTypes /\ c \notin todo /\ c \in Client
        /\ Latest' = Latest + 1
        /\ UNCHANGED <<dropped, sent, chan, hand>>
    BY DEF StreamInv, StreamTypes, HubInv, Receive, Yields, clients, Latest
  <1>1. /\ due'[c] = IF c \in todo' THEN due[c] \cup {Latest'} ELSE due[c]
        /\ due'[c] = due[c] \cup Owed(c)'
    BY <1>0 DEF Receive, StreamTypes, Owed
  <1>2. Passed(c)' = Passed(c) /\ Rising(Passed(c))' /\ Elements(Passed(c))' = Elements(Passed(c))
    BY <1>0 DEF Passed, Waiting, Rising, Elements, Stream
  <1>3. /\ due[c] \subseteq 1..Latest /\ Owed(c) = {} /\ Latest \in Nat
        /\ Elements(Passed(c)) = due[c] \ dropped[c]
    BY <1>0 DEF Stream, Owed, StreamTypes
  <1>4. Latest' \notin due[c] /\ Latest' \notin dropped[c] /\ due'[c] \subseteq 1..Latest' /\ Owed(c)' \subseteq {Latest'}
    <2>1. Latest' \notin due[c]
      BY <1>0, <1>3
    <2>2. Latest' \notin dropped[c]
      BY <1>0, <2>1 DEF Stream
    <2> QED BY <2>1, <2>2, <1>0, <1>1, <1>3 DEF Owed
  <1> QED BY <1>0, <1>1, <1>2, <1>3, <1>4 DEF Stream

LEMMA FreshStays ==
    ASSUME NEW c, Fresh(c), due'[c] = due[c], dropped'[c] = dropped[c], sent'[c] = sent[c],
           chan'[c] = chan[c], hand'[c] = hand[c], c \notin todo'
    PROVE  Fresh(c)'
  BY DEF Fresh

LEMMA NextStream ==
    ASSUME StreamInv, [Next]_vars
    PROVE  StreamInv'
  <1> DEFINE Streams == \A c \in registered : Stream(c)
             Hands == \A c \in Client : hand[c] # NoDelivery <=> task[c] = "send"
             Unseen == \A c \in Client : task[c] \in {"none", "handshake"} => Fresh(c)
             Fanned == loop # "fanout" => todo = {}
             Rest == Streams /\ Hands /\ Unseen /\ Fanned
  <1>0. HubInv /\ HubInv' /\ StreamTypes /\ StreamTypes' /\ Streams /\ Hands /\ Unseen /\ Fanned
    BY NextHub, StreamTypesStep DEF StreamInv
  <1>t. /\ registered \subseteq Client /\ task \in [Client -> {"none", "handshake", "done"} \cup Alive]
        /\ \A c \in Client : c \in registered <=> task[c] \in Alive
        /\ Latest \in Nat /\ Latest' \in Nat
    BY <1>0 DEF HubInv, StreamTypes
  \* Nobody is registered when the service starts or has ended.
  <1>1. ASSUME Start \/ CloseAll \/ Exit PROVE Rest'
    <2>1. registered = {} /\ registered' = {} /\ UNCHANGED <<task, hand, sent, due, dropped>>
      BY <1>1, <1>0 DEF Start, CloseAll, Exit, HubInv, Ended, Alive, clients, consumer
    <2>2. chan' = chan
      <3>1. CASE CloseAll
        BY <3>1, <2>1, <1>0 DEF CloseAll, StreamTypes
      <3> QED BY <1>1, <3>1 DEF Start, Exit
    <2>3. Fanned' /\ todo' \subseteq todo
      BY <1>1, <1>0 DEF Start, CloseAll, Exit, consumer
    <2>4. Streams' /\ Hands'
      BY <1>0, <2>1
    <2>5. ASSUME NEW c \in Client, task'[c] \in {"none", "handshake"} PROVE Fresh(c)'
      <3>1. Fresh(c)
        BY <1>0, <2>1, <2>5
      <3> QED BY <2>1, <2>2, <2>3, <3>1 DEF Fresh
    <2> QED BY <2>3, <2>4, <2>5
  <1>2. ASSUME Crash PROVE Rest'
    <2>1. /\ registered' = {} /\ todo' = {} /\ UNCHANGED <<due, dropped>>
          /\ \A c \in Client : chan'[c] = <<>> /\ hand'[c] = NoDelivery /\ task'[c] \in {"none", "done"}
          /\ \A c \in Client : sent'[c] = <<>>
          /\ \A c \in Client : task'[c] = "none" => task[c] = "none"
      BY <1>2 DEF Crash
    <2>2. Streams' /\ Hands' /\ Fanned'
      BY <2>1
    <2>3. ASSUME NEW c \in Client, task'[c] \in {"none", "handshake"} PROVE Fresh(c)'
      <3>1. Fresh(c)
        BY <1>0, <2>1, <2>3
      <3> QED BY <2>1, <3>1 DEF Fresh
    <2> QED BY <2>2, <2>3
  <1>3. ASSUME UNCHANGED <<registered, todo, task, hand, sent, chan, due, dropped>>,
               Latest' = Latest \/ (todo = {} /\ Latest <= Latest'), Fanned'
        PROVE  Rest'
    <2>1. ASSUME NEW c \in registered PROVE Stream(c)'
      BY <1>0, <1>3, <1>t, StreamStays
    <2>2. ASSUME NEW c \in Client, Fresh(c) PROVE Fresh(c)'
      BY <1>3, <2>2 DEF Fresh
    <2>3. Streams'
      BY <1>3, <2>1
    <2>4. Unseen'
      BY <1>0, <1>3, <2>2
    <2> QED BY <1>0, <1>3, <2>3, <2>4
  <1>4. ASSUME Signal \/ AcceptStops \/ Joined PROVE Rest'
    BY <1>0, <1>3, <1>4 DEF Signal, AcceptStops, Joined, consumer, offsets, stream, clients, Latest
  <1>5. ASSUME AutoCommit \/ Publish \/ Rejoin PROVE Rest'
    <2>1. /\ UNCHANGED <<registered, todo, task, hand, sent, chan, due, dropped, loop>>
          /\ Latest' = Latest
      BY <1>5 DEF AutoCommit, Publish, Rejoin, clients, stream, Latest
    <2> QED BY <1>0, <1>3, <2>1
  <1>6. ASSUME FanoutEnds \/ ConsumerStops PROVE Rest'
    <2>1. /\ UNCHANGED <<registered, todo, task, hand, sent, chan, due, dropped, Latest>>
          /\ loop' # "fanout" /\ todo = {}
      BY <1>0, <1>6 DEF FanoutEnds, ConsumerStops, clients, offsets, stream, Latest
    <2> QED BY <1>3, <2>1
  <1>7. ASSUME NEW r \in 1..MaxLog, SkipUnusable(r) PROVE Rest'
    <2>1. /\ UNCHANGED <<registered, todo, task, hand, sent, chan, due, dropped, loop>>
          /\ loop' # "fanout" /\ todo = {} /\ Latest <= Latest'
      BY <1>0, <1>7, <1>t DEF SkipUnusable, Yields, clients, StreamTypes, Latest
    <2> QED BY <1>3, <2>1
  <1>8. ASSUME NEW r \in 1..MaxLog, Receive(r) PROVE Rest'
    <2>1. /\ UNCHANGED <<registered, task, hand, sent, chan, dropped>> /\ loop' = "fanout"
          /\ todo' \subseteq registered
          /\ \A c \in Client : c \notin registered => due'[c] = due[c]
      BY <1>8, <1>0 DEF Receive, clients, StreamTypes
    <2>2. Streams'
      BY <1>8, <2>1, ReceiveStream
    <2>3. Unseen'
      BY <1>0, <1>t, <2>1 DEF Fresh, Alive
    <2> QED BY <1>0, <2>1, <2>2, <2>3
  <1>9. ASSUME NEW d \in Client, TrySend(d) PROVE Rest'
    <2>1. /\ UNCHANGED <<registered, task, hand, sent, due, Latest, loop>> /\ loop = "fanout"
          /\ d \in todo /\ todo' = todo \ {d}
          /\ \A c \in Client \ {d} : chan'[c] = chan[c] /\ dropped'[c] = dropped[c]
      BY <1>9, <1>0 DEF TrySend, clients, offsets, stream, StreamTypes, Latest
    <2>2. ASSUME NEW c \in registered PROVE Stream(c)'
      <3>1. CASE c = d
        BY <3>1, <1>9, TrySendStream
      <3>2. CASE c # d
        BY <3>2, <1>0, <1>t, <2>1, StreamStays
      <3> QED BY <3>1, <3>2
    <2>3. Unseen'
      BY <1>0, <1>t, <2>1 DEF Fresh
    <2> QED BY <1>0, <2>1, <2>2, <2>3
  <1>10. ASSUME NEW d \in Client,
                \/ Accept(d) \/ Handshake(d) \/ Welcome(d) \/ SeeShutdown(d)
                \/ TakeMessage(d) \/ Send(d) \/ SendClose(d) \/ Disconnect(d) \/ Subscribe(d)
         PROVE  Rest'
    <2>1. /\ UNCHANGED <<todo, loop, due, dropped, Latest>>
          /\ \A c \in Client \ {d} : /\ task'[c] = task[c] /\ hand'[c] = hand[c] /\ sent'[c] = sent[c]
                                     /\ chan'[c] = chan[c] /\ (c \in registered' <=> c \in registered)
      BY <1>0, <1>10, <1>t
      DEF Accept, Handshake, Welcome, SeeShutdown, TakeMessage, Send, SendClose, Disconnect, Subscribe,
          Leave, Unchanged, consumer, offsets, stream, StreamTypes, Latest
    <2>2. ASSUME NEW c \in registered', c # d PROVE Stream(c)'
      BY <1>0, <1>t, <2>1, <2>2, StreamStays DEF HubInv
    <2>3. ASSUME d \in registered' PROVE Stream(d)'
      <3>1. CASE TakeMessage(d)
        BY <3>1, <1>0, <2>1, TakeMessageStream, StreamMoves
      <3>2. CASE Send(d)
        BY <3>2, <1>0, <2>1, <2>3, SendStream, StreamMoves
      <3>3. CASE Handshake(d)
        <4>1. Fresh(d) /\ UNCHANGED <<hand, sent, chan>>
          BY <1>0, <3>3 DEF Handshake
        <4>2. Passed(d)' = <<>> /\ due'[d] = {} /\ dropped'[d] = {} /\ d \notin todo'
          BY <4>1, <2>1 DEF Fresh, Passed, Waiting
        <4> QED BY <4>2 DEF Stream, Owed, Rising, Elements
      <3>4. CASE ~(TakeMessage(d) \/ Send(d) \/ Handshake(d))
        <4>1. UNCHANGED <<hand, sent, chan>> /\ d \in registered
          BY <1>10, <1>t, <2>3, <3>4
          DEF Accept, Welcome, SeeShutdown, SendClose, Disconnect, Subscribe, Leave
        <4>2. Passed(d)' = Passed(d)
          BY <4>1 DEF Passed, Waiting
        <4> QED BY <1>0, <4>1, <4>2, <2>1, StreamMoves
      <3> QED BY <3>1, <3>2, <3>3, <3>4
    <2>4. (hand'[d] # NoDelivery <=> task'[d] = "send") /\ (task'[d] \in {"none", "handshake"} => Fresh(d)')
      <3>1. CASE TakeMessage(d)
        BY <3>1, TakeMessageStream
      <3>2. CASE Send(d)
        <4>1. CASE d \in registered'
          BY <3>2, <4>1, SendStream
        <4>2. CASE d \notin registered'
          <5>1. task'[d] = "done" /\ hand'[d] = NoDelivery
            BY <1>0, <1>t, <3>2, <4>2 DEF Send, Leave, StreamTypes, Alive
          <5> QED BY <5>1
        <4> QED BY <4>1, <4>2
      <3>3. CASE Accept(d) \/ Handshake(d) \/ SeeShutdown(d) \/ Subscribe(d)
        <4>1. UNCHANGED <<hand, sent, chan>> /\ hand[d] = NoDelivery /\ task'[d] # "send"
          BY <1>0, <1>t, <3>3 DEF Accept, Handshake, SeeShutdown, Subscribe
        <4>2. task'[d] \in {"none", "handshake"} => task[d] \in {"none", "handshake"}
          BY <1>t, <3>3 DEF Accept, Handshake, SeeShutdown, Subscribe
        <4>3. task'[d] \in {"none", "handshake"} => Fresh(d)'
          BY <1>0, <2>1, <4>1, <4>2 DEF Fresh
        <4> QED BY <4>1, <4>3
      <3>4. CASE Welcome(d) \/ SendClose(d) \/ Disconnect(d)
        <4>1. hand[d] = NoDelivery /\ task'[d] \in {"closing", "loop", "done"}
          BY <1>0, <1>t, <3>4 DEF Welcome, SendClose, Disconnect, Leave
        <4>2. hand'[d] = NoDelivery
          BY <1>0, <3>4, <4>1 DEF Welcome, SendClose, Disconnect, Leave, StreamTypes
        <4> QED BY <4>1, <4>2
      <3> QED BY <1>10, <3>1, <3>2, <3>3, <3>4
    <2>5. Hands'
      BY <1>0, <2>1, <2>4
    <2>6. Unseen'
      <3>1. \A c \in Client \ {d} : task'[c] \in {"none", "handshake"} => Fresh(c)'
        BY <1>0, <2>1 DEF Fresh
      <3> QED BY <2>4, <3>1
    <2> QED BY <1>0, <2>1, <2>2, <2>3, <2>5, <2>6
  <1>11. ASSUME UNCHANGED vars PROVE Rest'
    BY <1>0, <1>3, <1>11 DEF vars, consumer, offsets, stream, clients, Latest
  <1> HIDE DEF Rest
  <1>12. Rest'
    BY Steps, <1>1, <1>2, <1>4, <1>5, <1>6, <1>7, <1>8, <1>9, <1>10, <1>11
  <1> QED BY <1>0, <1>12 DEF StreamInv, Rest

LEMMA StreamInvariant == Spec => []StreamInv
  <1>1. Init => StreamInv
    BY InitStream
  <1>2. StreamInv /\ [Next]_vars => StreamInv'
    BY NextStream
  <1> QED BY <1>1, <1>2, PTL DEF Spec

\* The deliveries and the position: a record that is not beyond an earlier one,
\* or not beyond the position, has a rejoin after it.
OrderInv ==
    /\ yielded \in Seq(Nat) /\ position \in Nat
    /\ rejoined \subseteq (0..Latest) \X Nat
    /\ \A i \in 1..Latest : \/ yielded[i] <= position
                            \/ \E b \in rejoined : i <= b[1] /\ b[2] <= position
    /\ \A i, j \in 1..Latest : i < j /\ yielded[j] <= yielded[i] => Reassigned(i, j)

LEMMA InitOrder == Init => OrderInv
  BY DEF Init, OrderInv, Latest

\* One more delivery, of the record after the position.
LEMMA DeliveryOrder ==
    ASSUME OrderInv, Latest' = Latest + 1, yielded' \in Seq(Nat), position' = position + 1,
           yielded'[Latest + 1] = position + 1, \A i \in 1..Latest : yielded'[i] = yielded[i],
           UNCHANGED rejoined
    PROVE  OrderInv'
  <1>1. /\ Latest \in Nat /\ Latest' = Latest + 1 /\ yielded' \in Seq(Nat)
        /\ yielded'[Latest + 1] = position + 1 /\ position \in Nat /\ position' = position + 1
        /\ \A i \in 1..Latest : yielded'[i] = yielded[i] /\ yielded[i] \in Nat
    BY DEF OrderInv, Latest
  <1>2. rejoined' \subseteq (0..Latest') \X Nat /\ \A b \in rejoined : b[1] \in 0..Latest /\ b[2] \in Nat
    BY <1>1 DEF OrderInv
  <1>3. ASSUME NEW i \in 1..(Latest + 1)
        PROVE  yielded'[i] <= position' \/ \E b \in rejoined' : i <= b[1] /\ b[2] <= position'
    <2>1. CASE i = Latest + 1
      <3>1. yielded'[i] = position'
        BY <1>1, <2>1
      <3> QED BY <1>1, <3>1
    <2>2. CASE i \in 1..Latest
      <3>1. CASE yielded[i] <= position
        BY <1>1, <2>2, <3>1
      <3>2. CASE ~(yielded[i] <= position)
        <4>1. PICK b \in rejoined : i <= b[1] /\ b[2] <= position
          BY <2>2, <3>2 DEF OrderInv
        <4>2. b[2] <= position'
          BY <1>1, <1>2, <4>1
        <4> QED BY <4>1, <4>2
      <3> QED BY <3>1, <3>2
    <2> QED BY <1>1, <2>1, <2>2
  <1>4. ASSUME NEW i \in 1..(Latest + 1), NEW j \in 1..(Latest + 1), i < j, yielded'[j] <= yielded'[i]
        PROVE  Reassigned(i, j)'
    <2>1. i \in 1..Latest
      BY <1>1, <1>4
    <2>2. CASE j = Latest + 1
      <3>1. ~(yielded[i] <= position)
        <4>1. yielded'[j] = position + 1 /\ yielded'[i] = yielded[i] /\ yielded[i] \in Nat
          BY <1>1, <2>1, <2>2
        <4> QED BY <1>1, <1>4, <4>1
      <3>2. PICK b \in rejoined : i <= b[1] /\ b[2] <= position
        BY <2>1, <3>1 DEF OrderInv
      <3>3. b[1] < j
        BY <1>1, <1>2, <2>2, <3>2
      <3>4. b[2] < yielded'[j]
        BY <1>1, <1>2, <2>2, <3>2
      <3> QED BY <3>2, <3>3, <3>4 DEF Reassigned
    <2>3. CASE j \in 1..Latest
      <3>1. Reassigned(i, j)
        BY <1>1, <1>4, <2>1, <2>3 DEF OrderInv
      <3> QED BY <1>1, <2>3, <3>1 DEF Reassigned
    <2> QED BY <1>1, <2>2, <2>3
  <1>5. position' \in Nat
    BY <1>1
  <1> QED BY <1>1, <1>2, <1>3, <1>4, <1>5 DEF OrderInv

LEMMA NextOrder ==
    ASSUME OrderInv, StreamTypes, [Next]_vars
    PROVE  OrderInv'
  <1>1. CASE Start
    <2>1. yielded' = <<>> /\ rejoined' = {} /\ position' \in Nat
      BY <1>1 DEF Start, Assign, StreamTypes, NoOffset
    <2> QED BY <2>1 DEF OrderInv, Latest
  <1>2. CASE Rejoin
    <2>1. /\ yielded' = yielded /\ Latest' = Latest /\ position' \in Nat /\ Latest \in Nat
          /\ rejoined' = rejoined \cup {<<Latest, position'>>}
      BY <1>2 DEF Rejoin, Assign, StreamTypes, NoOffset, Latest
    <2>2. \A i \in 1..Latest : i <= <<Latest, position'>>[1] /\ <<Latest, position'>>[2] <= position'
      BY <2>1
    <2>3. \A i, j \in 1..Latest : Reassigned(i, j) => Reassigned(i, j)'
      BY <2>1 DEF Reassigned
    <2>4. rejoined' \subseteq (0..Latest') \X Nat
      BY <2>1 DEF OrderInv
    <2> QED BY <2>1, <2>2, <2>3, <2>4 DEF OrderInv
  <1>3. ASSUME NEW r \in 1..MaxLog, SkipUnusable(r) \/ Receive(r) PROVE OrderInv'
    <2>1. /\ r \in Nat /\ r = position + 1 /\ position' = r /\ yielded' = Append(yielded, r)
          /\ UNCHANGED rejoined
      BY <1>3 DEF SkipUnusable, Receive, Yields
    <2>2. /\ Latest' = Latest + 1 /\ yielded' \in Seq(Nat) /\ yielded'[Latest + 1] = r
          /\ \A i \in 1..Latest : yielded'[i] = yielded[i]
      BY <2>1 DEF OrderInv, Latest
    <2> QED BY <2>1, <2>2, DeliveryOrder
  <1>4. ASSUME UNCHANGED stream PROVE OrderInv'
    BY <1>4 DEF OrderInv, Reassigned, Latest, stream
  <1>5. ASSUME Signal \/ AcceptStops \/ Joined \/ CloseAll \/ Exit \/ FanoutEnds \/ ConsumerStops
               \/ AutoCommit \/ Publish \/ Crash \/ UNCHANGED vars
        PROVE  OrderInv'
    BY <1>4, <1>5 DEF Signal, AcceptStops, Joined, CloseAll, Exit, FanoutEnds, ConsumerStops, AutoCommit,
                      Publish, Crash, vars, consumer, offsets
  <1>6. ASSUME NEW c \in Client, TrySend(c) PROVE OrderInv'
    BY <1>4, <1>6 DEF TrySend, offsets
  <1>7. ASSUME NEW c \in Client,
               \/ Accept(c) \/ Handshake(c) \/ Welcome(c) \/ SeeShutdown(c)
               \/ TakeMessage(c) \/ Send(c) \/ SendClose(c) \/ Disconnect(c) \/ Subscribe(c)
        PROVE  OrderInv'
    <2>1. UNCHANGED consumer
      BY <1>7 DEF Accept, Handshake, Welcome, SeeShutdown, TakeMessage, Send, SendClose, Disconnect, Subscribe, Unchanged
    <2> QED BY <1>4, <2>1 DEF consumer, offsets
  <1> QED BY Steps, <1>1, <1>2, <1>3, <1>5, <1>6, <1>7

LEMMA OrderInvariant == Spec => []OrderInv
  <1>1. Init => OrderInv
    BY InitOrder
  <1>2. OrderInv /\ StreamInv /\ [Next]_vars => OrderInv'
    BY NextOrder DEF StreamInv
  <1> QED BY <1>1, <1>2, StreamInvariant, PTL DEF Spec

\* A client is sent the deliveries that matched its filter, once and in order,
\* but for what the hub counted as dropped (hub.rs, handler.rs), and a record
\* comes back to it only after a lost session, uncommitted.
THEOREM ClientGetsItsStreamCorrect == Spec => []ClientGetsItsStream
  <1>1. ASSUME StreamInv, OrderInv PROVE ClientGetsItsStream
    <2> SUFFICES ASSUME NEW c \in registered \ todo
                 PROVE  /\ Elements(Passed(c)) = due[c] \ dropped[c]
                        /\ Rising(Passed(c))
                        /\ \A i, j \in due[c] \ dropped[c] :
                             i < j /\ yielded[j] <= yielded[i] => Reassigned(i, j)
      BY DEF ClientGetsItsStream, Passed
    <2>1. Stream(c) /\ Owed(c) = {}
      BY <1>1 DEF StreamInv, Owed
    <2>2. due[c] \subseteq 1..Latest
      BY <2>1 DEF Stream
    <2> QED BY <1>1, <2>1, <2>2 DEF Stream, OrderInv
  <1> QED BY <1>1, StreamInvariant, OrderInvariant, PTL

-----------------------------------------------------------------------------
(* The offsets *)

Settled(r) == r \in handled \cup skipped

\* What is behind the committed and the stored offset is settled, and so is what
\* is behind the position and the record in hand, but for that record.
OffsetsInv ==
    /\ len \in Nat /\ position \in 0..len /\ yielded \in Seq(1..len)
    /\ committed \in NoOffset..len /\ stored \in NoOffset..len
    /\ loop \in {"stream", "fanout", "stopped"}
    /\ loop = "fanout" => Latest # 0
    /\ handled \cup skipped \subseteq 1..len
    /\ \A r \in 1..committed : Settled(r)
    /\ \A r \in 1..stored : Settled(r)
    /\ stored # NoOffset => 1 <= stored
    /\ Up => /\ \A r \in 1..position : Settled(r) \/ (loop = "fanout" /\ r = yielded[Latest])
             /\ loop = "fanout" => \A r \in 1..(yielded[Latest] - 1) : Settled(r)

LEMMA InitOffsets == Init => OffsetsInv
  BY DEF Init, OffsetsInv, NoOffset, Up

\* One more delivery, of the record after the position.
LEMMA DeliveryOffsets ==
    ASSUME OffsetsInv, NEW r \in 1..len, r = position + 1, yielded' = Append(yielded, r)
    PROVE  /\ yielded' \in Seq(1..len) /\ Latest' # 0 /\ yielded'[Latest'] = r
  BY DEF OffsetsInv, Latest

LEMMA NextOffsets ==
    ASSUME OffsetsInv, [Next]_vars
    PROVE  OffsetsInv' /\ handled \subseteq handled' /\ skipped \subseteq skipped'
  <1> USE DEF OffsetsInv, Settled, NoOffset
  <1> DEFINE Goal == OffsetsInv' /\ handled \subseteq handled' /\ skipped \subseteq skipped'
  <1>1. ASSUME Assign, UNCHANGED <<len, committed, handled>>
        PROVE  /\ position' \in 0..len /\ stored' = NoOffset /\ skipped \subseteq skipped'
               /\ (handled \cup skipped)' \subseteq 1..len
               /\ \A r \in 1..position' : Settled(r)'
               /\ \A r \in 1..committed' : Settled(r)'
    <2>1. /\ position' = IF committed = NoOffset THEN len ELSE committed
          /\ skipped' = skipped \cup (1..position' \ handled) /\ stored' = NoOffset
      BY <1>1 DEF Assign
    <2>2. position' \in 0..len
      BY <2>1
    <2>3. (handled \cup skipped)' \subseteq 1..len
      BY <1>1, <2>1, <2>2
    <2> QED BY <1>1, <2>1, <2>2, <2>3
  <1>2. CASE Start
    <2>1. /\ Assign /\ UNCHANGED <<len, committed, handled>> /\ loop' = "stream" /\ yielded' = <<>>
      BY <1>2 DEF Start
    <2>2. yielded' \in Seq(1..len') /\ loop' # "fanout"
      BY <2>1
    <2> QED BY <1>1, <2>1, <2>2
  <1>3. CASE Rejoin
    <2>1. /\ Assign /\ UNCHANGED <<len, committed, handled, loop, yielded, main>> /\ Latest' = Latest
      BY <1>3 DEF Rejoin, mains, Latest
    <2>2. Up /\ loop' = "fanout" => \A r \in 1..(yielded'[Latest'] - 1) : Settled(r)'
      BY <1>1, <2>1
    <2> QED BY <1>1, <2>1, <2>2 DEF Up
  <1>4. CASE Exit
    <2>1. /\ committed' \in {committed, stored} /\ main' = "down"
          /\ UNCHANGED <<len, stored, position, yielded, loop, handled, skipped>> /\ Latest' = Latest
      BY <1>4 DEF Exit, stream, Latest
    <2>2. \A r \in 1..committed' : Settled(r)'
      BY <2>1
    <2> QED BY <2>1, <2>2 DEF Up
  <1>5. CASE FanoutEnds
    <2> DEFINE h == yielded[Latest]
    <2>1. /\ Up /\ loop = "fanout" /\ loop' = "stream" /\ stored' = h /\ handled' = handled \cup {h}
          /\ UNCHANGED <<len, committed, position, yielded, skipped, main>>
      BY <1>5 DEF FanoutEnds, stream, mains
    <2>2. h \in 1..len
      BY <2>1 DEF Latest
    <2>3. \A r \in 1..h : r \in 1..(h - 1) \/ r = h
      BY <2>2
    <2> HIDE DEF h
    <2>4. \A r \in 1..stored' : Settled(r)'
      BY <2>1, <2>3 DEF h
    <2>5. \A r \in 1..position' : Settled(r)'
      BY <2>1 DEF h
    <2> QED BY <2>1, <2>2, <2>4, <2>5
  <1>6. CASE ConsumerStops
    <2>1. /\ loop = "stream" /\ loop' = "stopped" /\ UNCHANGED <<offsets, handled, skipped, main>>
      BY <1>6 DEF ConsumerStops, mains
    <2> QED BY <2>1 DEF offsets, stream, Up, Latest
  <1>7. CASE AutoCommit
    <2>1. committed' = stored /\ UNCHANGED <<len, stored, stream, loop, handled, skipped, main>>
      BY <1>7 DEF AutoCommit, mains
    <2> QED BY <2>1 DEF stream, Up, Latest
  <1>8. CASE Publish
    <2>1. len' = len + 1 /\ UNCHANGED <<committed, stored, stream, loop, handled, skipped, main>>
      BY <1>8 DEF Publish, mains
    <2>2. yielded' \in Seq(1..len')
      BY <2>1 DEF stream
    <2> QED BY <2>1, <2>2 DEF stream, Up, Latest
  <1>9. CASE Crash
    BY <1>9 DEF Crash, Up, offsets, stream
  <1>10. ASSUME NEW r \in 1..MaxLog, SkipUnusable(r) PROVE Goal
    <2>1. /\ Up /\ loop = "stream" /\ r = position + 1 /\ r \in 1..len /\ position' = r /\ stored' = r
          /\ yielded' = Append(yielded, r) /\ handled' = handled \cup {r}
          /\ UNCHANGED <<len, committed, loop, skipped, main>>
      BY <1>10 DEF SkipUnusable, Yields, mains
    <2>2. \A x \in 1..r : x \in 1..position \/ x = r
      BY <2>1
    <2>3. \A x \in 1..r : Settled(x)'
      BY <2>1, <2>2
    <2>4. yielded' \in Seq(1..len')
      BY <2>1, DeliveryOffsets
    <2> QED BY <2>1, <2>3, <2>4 DEF Up
  <1>11. ASSUME NEW r \in 1..MaxLog, Receive(r) PROVE Goal
    <2>1. /\ Up /\ loop = "stream" /\ r = position + 1 /\ r \in 1..len /\ position' = r
          /\ loop' = "fanout" /\ UNCHANGED <<len, committed, stored, handled, skipped, main>>
      BY <1>11 DEF Receive, Yields, mains
    <2>2. yielded' \in Seq(1..len') /\ Latest' # 0 /\ yielded'[Latest'] = r
      <3>1. yielded' = Append(yielded, r)
        BY <1>11 DEF Receive
      <3> QED BY <2>1, <3>1, DeliveryOffsets
    <2>3. \A x \in 1..r : x \in 1..position \/ x = r
      BY <2>1
    <2>4. \A x \in 1..(r - 1) : x \in 1..position
      BY <2>1
    <2> QED BY <2>1, <2>2, <2>3, <2>4 DEF Up
  <1>12. ASSUME UNCHANGED <<offsets, loop, handled, skipped>>, Up' => Up PROVE Goal
    BY <1>12 DEF offsets, stream, Up, Latest
  <1>13. ASSUME Signal \/ AcceptStops \/ Joined \/ CloseAll PROVE Goal
    BY <1>12, <1>13 DEF Signal, AcceptStops, Joined, CloseAll, Up, consumer
  <1>14. ASSUME NEW c \in Client, TrySend(c) PROVE Goal
    BY <1>12, <1>14 DEF TrySend, mains, Up
  <1>15. ASSUME NEW c \in Client,
                \/ Accept(c) \/ Handshake(c) \/ Welcome(c) \/ SeeShutdown(c)
                \/ TakeMessage(c) \/ Send(c) \/ SendClose(c) \/ Disconnect(c) \/ Subscribe(c)
         PROVE  Goal
    <2>1. UNCHANGED <<consumer, mains>>
      BY <1>15 DEF Accept, Handshake, Welcome, SeeShutdown, TakeMessage, Send, SendClose, Disconnect, Subscribe, Unchanged
    <2> QED BY <1>12, <2>1 DEF consumer, mains, Up
  <1>16. ASSUME UNCHANGED vars PROVE Goal
    BY <1>12, <1>16 DEF vars, consumer, mains, Up
  <1> HIDE DEF OffsetsInv
  <1> QED BY Steps, <1>2, <1>3, <1>4, <1>5, <1>6, <1>7, <1>8, <1>9, <1>10, <1>11, <1>13, <1>14, <1>15, <1>16

LEMMA OffsetsInvariant == Spec => []OffsetsInv
  <1>1. Init => OffsetsInv
    BY InitOffsets
  <1>2. OffsetsInv /\ [Next]_vars => OffsetsInv'
    BY NextOffsets
  <1> QED BY <1>1, <1>2, PTL DEF Spec

\* The one partition, its settled records and its committed offset.
SettledSet == {<<1, r - 1>> : r \in handled \cup skipped}

Offset == IF committed = NoOffset THEN 0 ELSE committed

LEMMA InitImplements == Init => ALO!Init
  <1> SUFFICES ASSUME Init PROVE ALO!Init
    OBVIOUS
  <1>1. <<len>> = [p \in {1} |-> 0] /\ <<Offset>> = [p \in {1} |-> 0]
    BY DEF Init, Offset
  <1>2. SettledSet = {}
    BY DEF Init, SettledSet
  <1> QED BY <1>1, <1>2 DEF ALO!Init, SettledSet, Offset

LEMMA StepImplements ==
    ASSUME OffsetsInv, [Next]_vars
    PROVE  [ALO!Next]_(ALO!vars)
  <1>0. /\ OffsetsInv' /\ SettledSet \subseteq SettledSet'
        /\ len \in Nat /\ len' \in Nat /\ Offset \in Nat
    BY NextOffsets DEF OffsetsInv, SettledSet, Offset, NoOffset
  <1>1. ALO!Records = {1} \X (0..(len - 1)) /\ ALO!Records' = {1} \X (0..(len' - 1))
    BY DEF ALO!Records
  <1>2. SettledSet \subseteq ALO!Records /\ SettledSet' \subseteq ALO!Records'
    <2>1. \A r \in handled \cup skipped : r - 1 \in 0..(len - 1)
      BY <1>0 DEF OffsetsInv
    <2>2. \A r \in handled' \cup skipped' : r - 1 \in 0..(len' - 1)
      BY <1>0 DEF OffsetsInv
    <2> QED BY <2>1, <2>2, <1>1 DEF SettledSet
  <1>3. CASE UNCHANGED <<len, committed>>
    <2>1. SettledSet' \subseteq ALO!Records
      BY <1>1, <1>2, <1>3
    <2> QED BY <1>0, <1>3, <2>1 DEF ALO!Next, ALO!Settle, SettledSet
  <1>4. CASE Publish
    <2>1. len' = len + 1 /\ committed' = committed
      BY <1>4 DEF Publish
    <2>2. <<len'>> = [<<len>> EXCEPT ![1] = @ + 1]
      BY <2>1
    <2> QED BY <1>0, <1>2, <2>1, <2>2 DEF ALO!Next, ALO!AppendRecord, SettledSet
  <1>5. ASSUME AutoCommit \/ Exit, committed' # committed PROVE ALO!Next
    <2>1. /\ committed' = stored /\ stored > committed
          /\ UNCHANGED <<len, handled, skipped>>
      BY <1>5 DEF AutoCommit, Exit
    <2>2. /\ Offset' = stored /\ stored \in (Offset + 1)..len
          /\ \A r \in 1..stored : Settled(r)
      BY <1>0, <2>1 DEF OffsetsInv, Offset, NoOffset
    <2>3. \A o \in 0..(stored - 1) : <<1, o>> \in SettledSet
      <3> TAKE o \in 0..(stored - 1)
      <3>1. o + 1 \in 1..stored /\ o = (o + 1) - 1
        BY <2>2, <1>0
      <3>2. Settled(o + 1)
        BY <3>1, <2>2
      <3> QED BY <3>1, <3>2 DEF Settled, SettledSet
    <2>4. <<Offset>>' = [<<Offset>> EXCEPT ![1] = stored] /\ <<Offset>>[1] = Offset /\ <<len>>[1] = len
      BY <2>2
    <2> QED BY <2>1, <2>2, <2>3, <2>4 DEF ALO!Next, ALO!Commit, SettledSet, Offset
  <1>6. \/ UNCHANGED <<len, committed>> \/ Publish
        \/ (AutoCommit \/ Exit) /\ committed' # committed
    BY Steps
    DEF Start, Rejoin, Signal, AcceptStops, Joined, CloseAll, Exit, FanoutEnds, ConsumerStops, AutoCommit, Crash,
        SkipUnusable, Receive, TrySend, Accept, Handshake, Welcome, SeeShutdown, TakeMessage, Send,
        SendClose, Disconnect, Subscribe, Unchanged, vars, consumer, offsets
  <1> QED BY <1>3, <1>4, <1>5, <1>6

\* What a committed offset covers was fanned out, was unusable, or was passed
\* over by an assignment without a committed offset.
THEOREM ImplementsAtLeastOnceCorrect == Spec => ImplementsAtLeastOnce
  <1>1. Init => ALO!Init
    BY InitImplements
  <1>2. OffsetsInv /\ [Next]_vars => [ALO!Next]_(ALO!vars)
    BY StepImplements
  <1> QED BY <1>1, <1>2, OffsetsInvariant, PTL DEF Spec, ImplementsAtLeastOnce, ALO!Spec

-----------------------------------------------------------------------------
(* The filters (module Filters).  Whatever the order of its pairs, a query *)
(* string that says what a setting says is read as that setting: after     *)
(* each pair, the fields that have been named have their value.            *)

KeyText == Bound \cup {"min_magnitude", "source_networks"}

\* What the pairs of a query string for s can be.
Sayings(s) ==
    {[key |-> b, value |-> s.bounds[b]] : b \in {b \in Bound : s.bounds[b] # Unset}}
    \cup {[key |-> b, value |-> NoNumber] : b \in Bound}
    \cup {[key |-> "min_magnitude", value |-> x] : x \in {s.min} \ {Unset}}
    \cup {[key |-> "source_networks", value |-> s.networks]}

\* The keys among the first n pairs, but for the ones without a value.
Named(pairs, n) == {pairs[k].key : k \in {k \in 1..n : \/ pairs[k].value # NoNumber
                                                      \/ pairs[k].key = "source_networks"}}

\* The filter that names these fields of s.
Reading(s, keys) ==
    [min |-> IF "min_magnitude" \in keys THEN s.min ELSE Default,
     bounds |-> [b \in Bound |-> IF b \in keys THEN Validated(b, s.bounds[b]) ELSE Unset],
     networks |-> IF "source_networks" \in keys THEN Listed(s.networks) ELSE {}]

LEMMA SayingsAre ==
    ASSUME NEW s \in Setting, NEW p \in Sayings(s)
    PROVE  \/ p.key \in Bound /\ p.value = NoNumber
           \/ p.key \in Bound /\ p.value = s.bounds[p.key] /\ p.value # NoNumber
           \/ p.key = "min_magnitude" /\ p.value = s.min /\ p.value # NoNumber
           \/ p.key = "source_networks" /\ p.value = s.networks
  <1>1. NoNumber \notin Int /\ s.min \in Int \cup {Unset} /\ s.bounds \in [Bound -> Int \cup {Unset}]
    BY FiltersAssumption
  <1>2. CASE \E b \in Bound : s.bounds[b] # Unset /\ p = [key |-> b, value |-> s.bounds[b]]
    BY <1>1, <1>2
  <1>3. CASE \E b \in Bound : p = [key |-> b, value |-> NoNumber]
    BY <1>3
  <1>4. CASE p = [key |-> "min_magnitude", value |-> s.min] /\ s.min # Unset
    BY <1>1, <1>4
  <1>5. CASE p = [key |-> "source_networks", value |-> s.networks]
    BY <1>5
  <1> QED
    BY <1>2, <1>3, <1>4, <1>5 DEF Sayings

\* One more pair.
LEMMA ReadingGrows ==
    ASSUME NEW s \in Setting, NEW p \in Sayings(s), NEW keys
    PROVE  Apply(Reading(s, keys), p) =
             Reading(s, IF p.value # NoNumber \/ p.key = "source_networks" THEN keys \cup {p.key} ELSE keys)
  <1>0. /\ "min_magnitude" \notin Bound /\ "source_networks" \notin Bound
    BY DEF Bound
  <1>1. CASE p.key \in Bound /\ p.value = NoNumber
    BY <1>0, <1>1 DEF Apply
  <1>2. CASE p.key \in Bound /\ p.value = s.bounds[p.key] /\ p.value # NoNumber
    <2>1. Apply(Reading(s, keys), p) = [Reading(s, keys) EXCEPT !.bounds[p.key] = Validated(p.key, p.value)]
      BY <1>0, <1>2 DEF Apply
    <2> QED
      BY <1>0, <1>2, <2>1 DEF Reading
  <1>3. CASE p.key = "min_magnitude" /\ p.value = s.min /\ p.value # NoNumber
    <2>1. Apply(Reading(s, keys), p) = [Reading(s, keys) EXCEPT !.min = p.value]
      BY <1>0, <1>3 DEF Apply
    <2> QED
      BY <1>0, <1>3, <2>1 DEF Reading
  <1>4. CASE p.key = "source_networks" /\ p.value = s.networks
    <2>1. Apply(Reading(s, keys), p) = [Reading(s, keys) EXCEPT !.networks = Listed(p.value)]
      BY <1>0, <1>4 DEF Apply
    <2> QED
      BY <1>0, <1>4, <2>1 DEF Reading
  <1> QED
    BY <1>1, <1>2, <1>3, <1>4, SayingsAre

\* A function of 0..n that follows a recursion is the only one: the loop.
LEMMA LoopReads ==
    ASSUME NEW s \in Setting, NEW pairs \in Seq(Sayings(s))
    PROVE  FromQuery(pairs) = Reading(s, Named(pairs, Len(pairs)))
  <1> DEFINE N == Len(pairs)
             g == [n \in 0..N |-> Reading(s, Named(pairs, n))]
             Follows(f) == f = [n \in 0..N |-> IF n = 0 THEN NoFilter ELSE Apply(f[n - 1], pairs[n])]
             h == Loop(pairs)
  <1>1. N \in Nat /\ \A n \in 1..N : pairs[n] \in Sayings(s)
    OBVIOUS
  <1>2. Reading(s, Named(pairs, 0)) = NoFilter
    <2>1. Named(pairs, 0) = {}
      BY DEF Named
    <2> QED
      BY <2>1 DEF Reading, NoFilter
  <1>3. ASSUME NEW n \in 1..N
        PROVE  Reading(s, Named(pairs, n)) = Apply(Reading(s, Named(pairs, n - 1)), pairs[n])
    <2> DEFINE p == pairs[n]
    <2>1. p \in Sayings(s)
      BY <1>1
    <2>2. Named(pairs, n) = IF p.value # NoNumber \/ p.key = "source_networks"
                              THEN Named(pairs, n - 1) \cup {p.key} ELSE Named(pairs, n - 1)
      <3>1. \A k \in 1..n : k \in 1..(n - 1) \/ k = n
        BY <1>1
      <3>2. 1..(n - 1) \subseteq 1..n /\ n \in 1..n
        BY <1>1
      <3> QED
        BY <3>1, <3>2 DEF Named
    <2> DEFINE K == Named(pairs, n - 1)
    <2> HIDE DEF K, p
    <2>3. Apply(Reading(s, K), p) =
            Reading(s, IF p.value # NoNumber \/ p.key = "source_networks" THEN K \cup {p.key} ELSE K)
      BY <2>1, ReadingGrows
    <2> QED
      BY <2>2, <2>3 DEF K, p
  <1>4. Follows(g)
    <2> SUFFICES ASSUME NEW n \in 0..N
                 PROVE  g[n] = IF n = 0 THEN NoFilter ELSE Apply(g[n - 1], pairs[n])
      OBVIOUS
    <2>1. n # 0 => n - 1 \in 0..N /\ n \in 1..N
      BY <1>1
    <2> QED
      BY <1>2, <1>3, <2>1
  <1>5. Follows(h)
    BY <1>4 DEF Loop
  <1> HIDE DEF h, g, N
  <1>6. \A n \in 0..N : h[n] = g[n]
    <2> SUFFICES ASSUME NEW n \in 0..N, h[n] # g[n] PROVE FALSE
      OBVIOUS
    <2> DEFINE R == {rs \in Nat \X Nat : rs[1] < rs[2]}
               T == {k \in 0..N : h[k] # g[k]}
    <2>1. IsWellFoundedOn(R, Nat)
      BY NatLessThanWellFounded DEF OpToRel
    <2>2. T \subseteq Nat /\ T # {}
      BY <1>1
    <2>3. PICK x \in T : \A y \in T : ~(<<y, x>> \in R)
      BY <2>1, <2>2, WFMin, Zenon
    <2>4. x \in 0..N /\ h[x] # g[x] /\ x \in Nat
      BY <1>1
    <2>6. ASSUME NEW y \in 0..N, y < x PROVE h[y] = g[y]
      <3>1. <<y, x>> \in R
        BY <1>1, <2>4, <2>6
      <3> QED
        BY <2>3, <3>1
    <2>5. x # 0 => x - 1 \in 0..N /\ x - 1 < x
      BY <1>1, <2>4
    <2> QED
      BY <1>4, <1>5, <2>4, <2>5, <2>6
  <1> QED
    BY <1>1, <1>6 DEF FromQuery, h, g, N

\* The bounds a setting gives, in some order.
LEMMA GivenInOrder ==
    ASSUME NEW G \in SUBSET Bound
    PROVE  /\ Cardinality(G) \in Nat /\ SetToSeq(G) \in [1..Cardinality(G) -> G]
           /\ \A b \in G : \E i \in 1..Cardinality(G) : SetToSeq(G)[i] = b
  <1>1. IsFiniteSet(Bound)
    <2>1. IsFiniteSet({"lat_min"})
      BY FS_Singleton
    <2>2. IsFiniteSet({"lat_min"} \cup {"lat_max"})
      BY <2>1, FS_AddElement
    <2>3. IsFiniteSet({"lat_min"} \cup {"lat_max"} \cup {"lon_min"})
      BY <2>2, FS_AddElement
    <2>4. IsFiniteSet({"lat_min"} \cup {"lat_max"} \cup {"lon_min"} \cup {"lon_max"})
      BY <2>3, FS_AddElement
    <2>5. Bound = {"lat_min"} \cup {"lat_max"} \cup {"lon_min"} \cup {"lon_max"}
      BY DEF Bound
    <2> QED
      BY <2>4, <2>5
  <1>2. IsFiniteSet(G)
    BY <1>1, FS_Subset
  <1> DEFINE c == Cardinality(G)
             f == SetToSeq(G)
  <1>3. c \in Nat
    BY <1>2, FS_CardinalityType
  <1>4. IsFiniteSet(1..c) /\ Cardinality(1..c) = c
    BY <1>3, FS_Interval
  <1>5. \E u \in [1..c -> G] : IsInjective(u)
    <2>1. ExistsBijection(1..c, G)
      BY <1>2, <1>4, FS_SameCardinalityBij
    <2> QED
      BY <2>1 DEF ExistsBijection, Bijection, Injection
  <1>6. f \in [1..c -> G] /\ IsInjective(f)
    BY <1>5 DEF SetToSeq
  <1> HIDE DEF c, f
  <1>7. f \in Surjection(1..c, G)
    <2>1. f \in Injection(1..c, G)
      BY <1>6 DEF Injection
    <2>2. Cardinality(1..c) = Cardinality(G)
      BY <1>4 DEF c
    <2> QED
      BY <1>2, <2>1, <2>2, FS_Injection
  <1>8. \A b \in G : \E i \in 1..c : f[i] = b
    BY <1>7 DEF Surjection
  <1> QED
    BY <1>3, <1>6, <1>8 DEF c, f

Says(pairs, p) == \E k \in 1..Len(pairs) : pairs[k] = p

\* One text after the other says what each of them says.
LEMMA BothSaid ==
    ASSUME NEW S, NEW u \in Seq(S), NEW v \in Seq(S)
    PROVE  u \o v \in Seq(S) /\ \A p : Says(u, p) \/ Says(v, p) => Says(u \o v, p)
  <1>1. /\ u \o v \in Seq(S) /\ Len(u \o v) = Len(u) + Len(v) /\ Len(u) \in Nat /\ Len(v) \in Nat
        /\ \A i \in 1..Len(u) + Len(v) : (u \o v)[i] = IF i <= Len(u) THEN u[i] ELSE v[i - Len(u)]
    BY ConcatProperties
  <1>2. ASSUME NEW k \in 1..Len(u) PROVE k \in 1..Len(u \o v) /\ (u \o v)[k] = u[k]
    BY <1>1
  <1>3. ASSUME NEW k \in 1..Len(v)
        PROVE  k + Len(u) \in 1..Len(u \o v) /\ (u \o v)[k + Len(u)] = v[k]
    BY <1>1
  <1> QED
    BY <1>1, <1>2, <1>3 DEF Says

LEMMA PairsSay ==
    ASSUME NEW s \in Setting
    PROVE  /\ Pairs(s) \in Seq(Sayings(s))
           /\ \A b \in Bound : s.bounds[b] # Unset => Says(Pairs(s), [key |-> b, value |-> s.bounds[b]])
           /\ s.min # Unset => Says(Pairs(s), [key |-> "min_magnitude", value |-> s.min])
           /\ ~(s.networks \subseteq {Empty}) => Says(Pairs(s), [key |-> "source_networks", value |-> s.networks])
  <1> DEFINE S == Sayings(s)
             given == {b \in Bound : s.bounds[b] # Unset}
             texts == [i \in 1..Cardinality(given) |->
                         [key |-> SetToSeq(given)[i], value |-> s.bounds[SetToSeq(given)[i]]]]
             wrong == <<[key |-> "lat_min", value |-> NoNumber]>>
             min == IF s.min = Unset THEN <<>> ELSE <<[key |-> "min_magnitude", value |-> s.min]>>
             names == IF s.networks \subseteq {Empty} THEN <<>>
                                         ELSE <<[key |-> "source_networks", value |-> s.networks]>>
             one == texts \o wrong
             two == one \o min
             all == two \o names
  <1>1. Pairs(s) = all
    BY DEF Pairs
  <1>2. /\ Cardinality(given) \in Nat /\ SetToSeq(given) \in [1..Cardinality(given) -> given]
        /\ \A b \in given : \E i \in 1..Cardinality(given) : SetToSeq(given)[i] = b
    BY GivenInOrder
  <1>3. texts \in Seq(S) /\ Len(texts) = Cardinality(given)
    <2>1. \A i \in 1..Cardinality(given) : texts[i] \in S
      BY <1>2 DEF Sayings
    <2> DEFINE c == Cardinality(given)
    <2>2. c \in Nat /\ texts = [i \in 1..c |-> texts[i]]
      BY <1>2
    <2> HIDE DEF S, given
    <2>3. \A i \in 1..c : texts[i] \in S
      BY <2>1
    <2> HIDE DEF c, texts
    <2>4. texts \in Seq(S) /\ Len(texts) = c
      BY <2>2, <2>3
    <2> QED
      BY <2>4 DEF c
  <1>4. wrong \in Seq(S) /\ min \in Seq(S) /\ names \in Seq(S)
    <2>1. [key |-> "lat_min", value |-> NoNumber] \in S
      BY DEF Sayings, Bound
    <2>2. s.min # Unset => [key |-> "min_magnitude", value |-> s.min] \in S
      BY DEF Sayings
    <2>3. [key |-> "source_networks", value |-> s.networks] \in S
      BY DEF Sayings
    <2> HIDE DEF S
    <2> QED
      BY <2>1, <2>2, <2>3
  <1>5. \A b \in given : Says(texts, [key |-> b, value |-> s.bounds[b]])
    BY <1>2, <1>3 DEF Says
  <1>6. s.min # Unset => Says(min, [key |-> "min_magnitude", value |-> s.min])
    <2> SUFFICES ASSUME s.min # Unset PROVE Says(min, [key |-> "min_magnitude", value |-> s.min])
      OBVIOUS
    <2>1. Len(min) = 1 /\ min[1] = [key |-> "min_magnitude", value |-> s.min]
      OBVIOUS
    <2> QED
      BY <2>1 DEF Says
  <1>7. ~(s.networks \subseteq {Empty}) => Says(names, [key |-> "source_networks", value |-> s.networks])
    <2> SUFFICES ASSUME ~(s.networks \subseteq {Empty})
                 PROVE  Says(names, [key |-> "source_networks", value |-> s.networks])
      OBVIOUS
    <2>1. Len(names) = 1 /\ names[1] = [key |-> "source_networks", value |-> s.networks]
      OBVIOUS
    <2> QED
      BY <2>1 DEF Says
  <1> HIDE DEF S, texts, wrong, min, names
  <1>8. one \in Seq(S) /\ \A p : Says(texts, p) => Says(one, p)
    BY <1>3, <1>4, BothSaid, Zenon
  <1> HIDE DEF one
  <1>9. two \in Seq(S) /\ \A p : Says(one, p) \/ Says(min, p) => Says(two, p)
    BY <1>4, <1>8, BothSaid, Zenon
  <1> HIDE DEF two
  <1>10. all \in Seq(S) /\ \A p : Says(two, p) \/ Says(names, p) => Says(all, p)
    BY <1>4, <1>9, BothSaid, Zenon
  <1> HIDE DEF all
  <1>11. \A b \in Bound : s.bounds[b] # Unset => Says(all, [key |-> b, value |-> s.bounds[b]])
    BY <1>5, <1>8, <1>9, <1>10
  <1> QED
    BY <1>1, <1>6, <1>7, <1>9, <1>10, <1>11 DEF S

\* The list of the query string has the plain names of the message, and only
\* them when there are no others.
LEMMA NamesListed ==
    ASSUME NEW N, N \subseteq Name
    PROVE  /\ \A n \in N : PlainName(n) => UpperOf[n] \in Listed(N)
           /\ (\A n \in N : PlainName(n)) => Listed(N) = Upper(N)
           /\ N \subseteq {Empty} => Listed(N) = {}
  <1> USE NamesAssumption
  <1>1. ASSUME NEW n \in N, PlainName(n) PROVE UpperOf[n] \in Listed(N)
    <2>1. n \in UNION {SplitOf[k] : k \in N} /\ TrimOf[n] = n /\ UpperOf[n] # Empty
      BY <1>1 DEF PlainName
    <2> QED BY <2>1 DEF Listed
  <1>2. ASSUME \A n \in N : PlainName(n) PROVE Listed(N) \subseteq Upper(N)
    <2> SUFFICES ASSUME NEW n \in N, NEW p \in SplitOf[n] PROVE UpperOf[TrimOf[p]] \in Upper(N)
      BY DEF Listed
    <2>1. p = n /\ TrimOf[n] = n
      BY <1>2 DEF PlainName
    <2> QED BY <2>1 DEF Upper
  <1>3. ASSUME N \subseteq {Empty} PROVE Listed(N) = {}
    <2> SUFFICES ASSUME NEW n \in N, NEW p \in SplitOf[n] PROVE UpperOf[TrimOf[p]] = Empty
      BY DEF Listed
    <2>1. n = Empty /\ p = Empty
      BY <1>3
    <2> QED BY <2>1
  <1>4. ASSUME \A n \in N : PlainName(n) PROVE Upper(N) \subseteq Listed(N)
    BY <1>1, <1>4 DEF Upper
  <1> QED BY <1>1, <1>2, <1>3, <1>4

\* from_query and the subscribe message (handler.rs) build the same bounds of the
\* same setting, and the same magnitude when it names one.
LEMMA QueryReadsSetting ==
    ASSUME NEW s \in Setting
    PROVE  /\ FromQuery(Pairs(s)).bounds = FromSubscribe(s).bounds
           /\ FromQuery(Pairs(s)).networks = Listed(s.networks)
           /\ s.min # Unset => FromQuery(Pairs(s)).min = FromSubscribe(s).min
           /\ s.min = Unset => FromQuery(Pairs(s)).min = Default /\ FromSubscribe(s).min = 0
  <1> DEFINE pairs == Pairs(s)
             keys == Named(pairs, Len(pairs))
  <1>1. pairs \in Seq(Sayings(s)) /\ FromQuery(pairs) = Reading(s, keys)
    BY PairsSay, LoopReads
  <1>2. NoNumber \notin Int /\ Unset \notin Int /\ s.min \in Int \cup {Unset}
        /\ s.bounds \in [Bound -> Int \cup {Unset}]
    BY FiltersAssumption
  <1>3. \A p : Says(pairs, p) /\ (p.value # NoNumber \/ p.key = "source_networks") => p.key \in keys
    BY DEF Says, Named
  <1>4. ASSUME NEW k \in 1..Len(pairs), pairs[k].value # NoNumber \/ pairs[k].key = "source_networks"
        PROVE  /\ pairs[k].key \in Bound => s.bounds[pairs[k].key] # Unset
               /\ pairs[k].key = "min_magnitude" => s.min # Unset
    <2>1. pairs[k] \in Sayings(s)
      BY <1>1
    <2> QED
      BY <1>4, <2>1 DEF Sayings, Bound
  <1>5. \A b \in Bound : b \in keys <=> s.bounds[b] # Unset
    <2>1. ASSUME NEW b \in Bound, s.bounds[b] # Unset PROVE b \in keys
      <3> DEFINE p == [key |-> b, value |-> s.bounds[b]]
      <3>1. Says(pairs, p) /\ p.key = b /\ p.value # NoNumber
        BY <1>2, <2>1, PairsSay
      <3> HIDE DEF p, keys, pairs
      <3> QED
        BY <1>3, <3>1
    <2>2. ASSUME NEW b \in Bound, b \in keys PROVE s.bounds[b] # Unset
      BY <1>4, <2>2 DEF Named
    <2> QED
      BY <2>1, <2>2
  <1>6. "min_magnitude" \in keys <=> s.min # Unset
    <2>1. s.min # Unset => "min_magnitude" \in keys
      <3> DEFINE p == [key |-> "min_magnitude", value |-> s.min]
      <3>1. s.min # Unset => Says(pairs, p) /\ p.key = "min_magnitude" /\ p.value # NoNumber
        BY <1>2, PairsSay
      <3> HIDE DEF p, keys, pairs
      <3> QED
        BY <1>3, <3>1
    <2>2. "min_magnitude" \in keys => s.min # Unset
      BY <1>4 DEF Named
    <2> QED
      BY <2>1, <2>2
  <1>7. ~(s.networks \subseteq {Empty}) => "source_networks" \in keys
    <2> DEFINE p == [key |-> "source_networks", value |-> s.networks]
    <2>1. ~(s.networks \subseteq {Empty}) => Says(pairs, p) /\ p.key = "source_networks"
      BY PairsSay
    <2> HIDE DEF p, keys, pairs
    <2> QED
      BY <1>3, <2>1
  <1> HIDE DEF keys, pairs
  <1>8. Reading(s, keys).bounds = FromSubscribe(s).bounds
    BY <1>5 DEF Reading, FromSubscribe
  <1>9. Reading(s, keys).networks = Listed(s.networks)
    <2>1. s.networks \subseteq {Empty} => Listed(s.networks) = {}
      BY FiltersAssumption, NamesListed
    <2> QED BY <1>7, <2>1 DEF Reading
  <1>10. /\ s.min # Unset => Reading(s, keys).min = s.min /\ FromSubscribe(s).min = s.min
         /\ s.min = Unset => Reading(s, keys).min = Default /\ FromSubscribe(s).min = 0
    BY <1>6 DEF Reading, FromSubscribe
  <1> QED
    BY <1>1, <1>8, <1>9, <1>10 DEF pairs

\* A client that sends its settings in a subscribe message is sent nothing that
\* it would not be sent with them in the query string, and all of it when the
\* names of the networks are plain; and of each event it is sent the alert.
THEOREM FiltersAgreeCorrect == FiltersAgree
  <1> SUFFICES ASSUME NEW s \in Setting, NEW e \in Located
               PROVE  LET q == FromQuery(Pairs(s))
                          m == FromSubscribe(s)
                      IN  /\ s.min # Unset \/ Default = 0 =>
                               /\ MatchesEnriched(m, e) => MatchesEnriched(q, e)
                               /\ (\A n \in s.networks : PlainName(n)) =>
                                    (MatchesEnriched(q, e) => MatchesEnriched(m, e))
                          /\ MatchesEnriched(m, e) => MatchesAlert(m, e)
                          /\ MatchesEnriched(q, e) => MatchesAlert(q, e)
    BY DEF FiltersAgree
  <1> DEFINE q == FromQuery(Pairs(s))
             m == FromSubscribe(s)
  <1>1. q.bounds = m.bounds /\ q.networks = Listed(s.networks) /\ m.networks = Upper(s.networks)
    BY QueryReadsSetting DEF FromSubscribe
  <1>2. s.min # Unset \/ Default = 0 => q.min = m.min
    BY QueryReadsSetting
  <1> HIDE DEF q, m
  <1>3. s.networks \subseteq Name /\ e.network \in Name /\ PlainName(e.network)
    BY FiltersAssumption
  <1>4. UpperOf[e.network] \in Upper(s.networks) => UpperOf[e.network] \in Listed(s.networks)
    <2> SUFFICES ASSUME NEW n \in s.networks, UpperOf[e.network] = UpperOf[n]
                 PROVE  UpperOf[n] \in Listed(s.networks)
      BY DEF Upper
    <2>1. PlainName(n)
      BY <1>3, NamesAssumption
    <2> QED BY <1>3, <2>1, NamesListed
  <1>5. (\A n \in s.networks : PlainName(n)) => q.networks = m.networks
    BY <1>1, <1>3, NamesListed
  <1>6. s.networks = {} => q.networks = {}
    BY <1>1, <1>3, NamesListed
  <1>7. m.networks # {} <=> s.networks # {}
    BY <1>1 DEF Upper
  <1>8. WithinBbox(q, e) <=> WithinBbox(m, e)
    BY <1>1 DEF WithinBbox
  <1>9. q.min = m.min /\ MatchesEnriched(m, e) => MatchesEnriched(q, e)
    BY <1>1, <1>4, <1>6, <1>7, <1>8 DEF MatchesEnriched
  <1>10. q.min = m.min /\ q.networks = m.networks /\ MatchesEnriched(q, e) => MatchesEnriched(m, e)
    BY <1>8 DEF MatchesEnriched
  <1>11. \A f : MatchesEnriched(f, e) => MatchesAlert(f, e)
    BY DEF MatchesEnriched, MatchesAlert
  <1> QED
    BY <1>2, <1>5, <1>9, <1>10, <1>11 DEF q, m

\* And so in every state of the websocket service's run.
THEOREM QueryAndMessageAgreeCorrect == Spec => []QueryAndMessageAgree
  <1>1. QueryAndMessageAgree
    BY FiltersAgreeCorrect DEF QueryAndMessageAgree
  <1> QED
    BY <1>1, PTL
=============================================================================

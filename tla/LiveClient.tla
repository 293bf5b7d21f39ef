----------------------------- MODULE LiveClient -----------------------------
(***************************************************************************)
(* The live page of the frontend (AppShell and useWebSocket): it asks the  *)
(* API once for the newest events, receives the messages of the websocket  *)
(* service from then on, keeps the last one in a state that an effect      *)
(* folds into two lists, and reconnects 5 s after a connection closed.     *)
(*                                                                         *)
(* The environment is the websocket service: it hands messages to an open  *)
(* connection, in any order and as often as it likes, which covers what    *)
(* two topics and a redelivery can do (Websocket has what they do), and    *)
(* its restart ends the connection.                                        *)
(***************************************************************************)
EXTENDS Integers, Sequences, FiniteSets

CONSTANTS
    Event,        \* source_ids, numbers in the order of event_time
    FirstPage,     \* page_size of the first request
    MaxEvents, MaxAlerts,   \* lengths of the two lists
    Capacity,     \* messages on their way to the browser
    Nothing,
    MaxSent, MaxFailures   \* bounds

\* The messages of earthquakes.enriched and earthquakes.alerts.
Message == [type : {"earthquake", "alert"}, id : Event]

\* AppShell asks for 100 events and keeps 200.
ASSUME LiveClientAssumption ==
    /\ Event \subseteq Nat /\ IsFiniteSet(Event) /\ Nothing \notin Message
    /\ {FirstPage, MaxEvents, MaxAlerts, Capacity} \subseteq Nat \ {0} /\ FirstPage <= MaxEvents
    /\ {MaxSent, MaxFailures} \subseteq Nat

Item == [id : Event, live : BOOLEAN, alert : BOOLEAN]

VARIABLES
    link,       \* the service has the connection as a client
    inbox,      \* messages on their way to the browser
    status,     \* status of useWebSocket
    timer,      \* the reconnect timer is set
    pending,    \* a lastMessage whose effect has not run, or Nothing
    fetch,      \* the first request
    answer,     \* the ids it was answered with
    events, alerts,   \* the two lists
    received,   \* messages the browser was given
    excused,    \* of these, the ones with a reason not to be in their list
    sent,       \* messages the service has sent
    failures

socket == <<link, inbox, status, timer>>
page == <<pending, fetch, answer, events, alerts, received, excused>>
liveVars == <<socket, page, sent, failures>>

LiveTypeOK ==
    /\ link \in BOOLEAN /\ timer \in BOOLEAN
    /\ inbox \in Seq(Message) /\ Len(inbox) <= Capacity
    /\ status \in {"disconnected", "connecting", "connected"}
    /\ pending \in Message \cup {Nothing}
    /\ fetch \in {"sent", "answered", "done"} /\ answer \in Seq(Event)
    /\ events \in Seq(Item) /\ alerts \in Seq(Event)
    /\ received \subseteq Message /\ excused \subseteq received
    /\ sent \in Nat /\ failures \in Nat

LiveInit ==
    /\ link = FALSE /\ inbox = <<>> /\ status = "connecting" /\ timer = FALSE
    /\ pending = Nothing /\ fetch = "sent" /\ answer = <<>> /\ events = <<>> /\ alerts = <<>>
    /\ received = {} /\ excused = {}
    /\ sent = 0 /\ failures = 0

Shown(list) == {list[k].id : k \in DOMAIN list}

Prefix(list, n) == SubSeq(list, 1, IF Len(list) < n THEN Len(list) ELSE n)

Failure == failures < MaxFailures /\ failures' = failures + 1

-----------------------------------------------------------------------------
(* The websocket service *)

Send(m) ==
    /\ link /\ Len(inbox) < Capacity /\ sent < MaxSent
    /\ inbox' = Append(inbox, m) /\ sent' = sent + 1
    /\ UNCHANGED <<link, status, timer, page, failures>>

\* A restart, or the network: what was on its way arrives or not.
Cut ==
    /\ link /\ Failure
    /\ link' = FALSE
    /\ \E n \in 0..Len(inbox) : inbox' = SubSeq(inbox, 1, n)
    /\ UNCHANGED <<status, timer, page, sent>>

-----------------------------------------------------------------------------
(* useWebSocket *)

OnOpen ==
    /\ status = "connecting" /\ ~link
    /\ link' = TRUE /\ status' = "connected"
    /\ UNCHANGED <<inbox, timer, page, sent, failures>>

\* Mutant of OnClose: no timer is set.
OnCloseOnly ==
    /\ \/ status = "connected" /\ ~link /\ inbox = <<>> /\ UNCHANGED failures
       \/ status = "connecting" /\ Failure
    /\ status' = "disconnected"
    /\ UNCHANGED <<link, inbox, timer, page, sent>>

\* The connection has ended, or could not be made: onerror closes it too.
OnClose ==
    /\ \/ status = "connected" /\ ~link /\ inbox = <<>> /\ UNCHANGED failures
       \/ status = "connecting" /\ Failure
    /\ status' = "disconnected" /\ timer' = TRUE
    /\ UNCHANGED <<link, inbox, page, sent>>

Connect ==
    /\ timer
    /\ timer' = FALSE /\ status' = "connecting"
    /\ UNCHANGED <<link, inbox, page, sent, failures>>

\* A message that comes before the effect of the one before has run takes its
\* place: React renders the last state only.
OnMessage ==
    /\ inbox # <<>>
    /\ pending' = Head(inbox) /\ inbox' = Tail(inbox)
    /\ received' = received \cup {Head(inbox)}
    /\ excused' = IF pending = Nothing THEN excused ELSE excused \cup {pending}
    /\ UNCHANGED <<link, status, timer, fetch, answer, events, alerts, sent, failures>>

-----------------------------------------------------------------------------
(* AppShell *)

\* Mutant of Listed: the old row of the event stays.
ListedAgain(i) == Prefix(<<[id |-> i, live |-> TRUE, alert |-> FALSE]>> \o events, MaxEvents)

Others(i) == {k \in DOMAIN events : events[k].id # i}

\* The element of S, a set of numbers, with n elements below it.
Ranked(S, n) == CHOOSE k \in S : Cardinality({j \in S : j < k}) = n

\* The rows of the other events, in their order.
Rest(i) == [n \in 1..Cardinality(Others(i)) |-> events[Ranked(Others(i), n - 1)]]

\* The event goes to the front, its old row away, and with it a mark of alert.
Listed(i) == Prefix(<<[id |-> i, live |-> TRUE, alert |-> FALSE]>> \o Rest(i), MaxEvents)

\* Mutant of Marked: only the rows of the alert are kept.
MarkedOnly(i) == LET Same(e) == e.id = i IN SelectSeq(events, Same)

Marked(i) ==
    [k \in DOMAIN events |->
        IF events[k].id = i THEN [events[k] EXCEPT !.alert = TRUE] ELSE events[k]]

EventMessages(ids) == received \cap [type : {"earthquake"}, id : ids]

\* The effect on lastMessage.  A list that is full loses its last entry.
ShowEvent ==
    /\ pending # Nothing /\ pending.type = "earthquake"
    /\ events' = Listed(pending.id) /\ pending' = Nothing
    /\ excused' = IF Len(events) = MaxEvents /\ pending.id \notin Shown(events)
                    THEN excused \cup EventMessages({events[MaxEvents].id}) ELSE excused
    /\ UNCHANGED <<socket, fetch, answer, alerts, received, sent, failures>>

ShowAlert ==
    /\ pending # Nothing /\ pending.type = "alert"
    /\ events' = Marked(pending.id) /\ alerts' = Prefix(<<pending.id>> \o alerts, MaxAlerts)
    /\ pending' = Nothing
    /\ excused' = IF Len(alerts) = MaxAlerts
                    THEN excused \cup {[type |-> "alert", id |-> alerts[MaxAlerts]]} ELSE excused
    /\ UNCHANGED <<socket, fetch, answer, received, sent, failures>>

\* What GET /v1/events says of a table: the newest events, the newest first.
Newest(S) ==
    LET size == Cardinality(S)
    IN  [n \in 1..(IF size < FirstPage THEN size ELSE FirstPage) |-> Ranked(S, size - n)]

Answer ==
    /\ fetch = "sent" /\ fetch' = "answered"
    /\ \E table \in SUBSET Event : answer' = Newest(table)
    /\ UNCHANGED <<socket, pending, events, alerts, received, excused, sent, failures>>

\* The list becomes the answer, whatever was received in the meantime.
Loaded ==
    /\ fetch = "answered"
    /\ events' = [k \in DOMAIN answer |-> [id |-> answer[k], live |-> FALSE, alert |-> FALSE]]
    /\ excused' = excused \cup EventMessages(Shown(events) \ Shown(events'))
    /\ fetch' = "done" /\ answer' = <<>>
    /\ UNCHANGED <<socket, pending, alerts, received, sent, failures>>

\* One of the two requests fails: the list stays as it is, nothing is asked again.
LoadFails ==
    /\ fetch # "done" /\ Failure
    /\ fetch' = "done" /\ answer' = <<>>
    /\ UNCHANGED <<socket, pending, events, alerts, received, excused, sent>>

-----------------------------------------------------------------------------

Browser ==
    \/ OnOpen \/ OnClose \/ Connect \/ OnMessage
    \/ ShowEvent \/ ShowAlert \/ Answer \/ Loaded \/ LoadFails

LiveNext == Browser \/ Cut \/ \E m \in Message : Send(m)

(* The browser runs its handlers and timers.                               *)
LiveFairness == WF_liveVars(OnOpen) /\ WF_liveVars(OnClose) /\ WF_liveVars(Connect) /\ WF_liveVars(OnMessage)
            /\ WF_liveVars(ShowEvent \/ ShowAlert) /\ WF_liveVars(Loaded)

LiveSpec == LiveInit /\ [][LiveNext]_liveVars /\ LiveFairness

-----------------------------------------------------------------------------
(* Properties *)

\* ADR-0001 relies on the frontend to deduplicate what a restart of the service
\* repeats: whatever is redelivered, answered late or revised, the list of
\* events, which React keys by source_id, has one row of an event.
RowsAreUnique ==
    /\ \A j, k \in DOMAIN events : events[j].id = events[k].id => j = k
    /\ Len(events) <= MaxEvents

\* Each message passes through one state before it reaches a list: what the
\* browser was given is on the page, unless another message took its place
\* before the effect had run, the answer of the first request replaced the
\* list, or the list was full.
MissingHasAReason ==
    \A m \in received \ excused :
        \/ m = pending
        \/ m.type = "earthquake" /\ m.id \in Shown(events)
        \/ m.type = "alert" /\ \E k \in DOMAIN alerts : alerts[k] = m.id

\* A connection that ends, fails to open, or is cut by a restart of the service
\* is followed by another one.
Reconnects == ~link ~> link
=============================================================================

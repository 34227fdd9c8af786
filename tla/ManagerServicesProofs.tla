----------------------- MODULE ManagerServicesProofs ------------------------
(*****************************************************************************)
(* What the parts of the service manager promise beside the lifecycle of     *)
(* services, for every number of connections, clients and runs: the event    *)
(* bus, socket activation, the shutdown and the count of OOM kills.          *)
(*****************************************************************************)
EXTENDS EventBus, SocketActivation, ManagerRun, OomWatch, TLAPS

-----------------------------------------------------------------------------
(*****************************************************************************)
(* EventBus. No event is sent on a closed channel, every subscriber          *)
(* receives events in order, and the disk status that is shown was           *)
(* announced.                                                                *)
(*                                                                           *)
(* The first rests on where a handler is: a connection is on the list only   *)
(* between Subscribe and the first half of cancel, and its channel is        *)
(* closed only after the second. The second rests on what waits in the       *)
(* channel: what was received, followed by what waits, ascends and lies      *)
(* between the event before the subscription and the last one published.     *)
(*****************************************************************************)

\* Where a handler of /events is.
Places == {"none", "scan", "stream", "encode", "cancel", "close", "returned"}

\* The types of events.
EventTypes == {"client", "disk.warn", "disk.critical"}

\* A connection on the list is served, and the channel of one that is not is closed.
ListInv ==
    /\ handler \in [Conn -> Places]
    /\ subs \in SUBSET Conn /\ closed \in SUBSET Conn
    /\ \A c \in subs : handler[c] \in {"stream", "encode", "cancel"}
    /\ \A c \in closed : handler[c] = "returned"
    /\ ~panicked

\* The types of the events and the channels.
QueueType ==
    /\ events \in Seq(EventTypes)
    /\ joined \in [Conn -> Nat]
    /\ chan \in [Conn -> Seq(Nat)]
    /\ received \in [Conn -> Seq(Nat)]

\* Nothing waits or was received before the subscription.
Fresh == \A c \in Conn : handler[c] \in {"none", "scan"} => chan[c] = <<>> /\ received[c] = <<>>

\* Events lie after the subscription, and ascend.
Within(c, s) == \A i \in DOMAIN s[c] : joined[c] < s[c][i] /\ s[c][i] <= Len(events)
Ascends(s) == \A i, j \in DOMAIN s : i < j => s[i] < s[j]

\* What connection c received, followed by what waits for it, ascends.
OrderOf(c) ==
    /\ joined[c] <= Len(events)
    /\ Within(c, chan) /\ Within(c, received)
    /\ Ascends(chan[c]) /\ Ascends(received[c])
    /\ \A i \in DOMAIN received[c], j \in DOMAIN chan[c] : received[c][i] < chan[c][j]

\* The inductive invariant of the bus.
BusInv == ListInv /\ QueueType /\ Fresh /\ \A c \in Conn : OrderOf(c)

-----------------------------------------------------------------------------
\* Before the first connection there is nothing.
LEMMA BusInitInv == BusInit => BusInv
  <1> SUFFICES ASSUME BusInit
               PROVE  BusInv
    OBVIOUS
  <1>1. ~panicked
    BY Zenon DEF BusInit
  <1>2. ListInv
    BY <1>1 DEF BusInit, ListInv, Places
  <1>3. QueueType /\ Fresh
    BY DEF BusInit, QueueType, Fresh
  <1>4. ASSUME NEW c \in Conn
        PROVE  OrderOf(c)
    <2>1. joined[c] = 0 /\ chan[c] = <<>> /\ received[c] = <<>> /\ Len(events) = 0
      BY DEF BusInit
    <2>2. DOMAIN chan[c] = {} /\ DOMAIN received[c] = {}
      BY <2>1
    <2> QED
      BY <2>1, <2>2 DEF OrderOf, Within, Ascends
  <1> QED
    BY <1>2, <1>3, <1>4 DEF BusInv

\* A step of one handler that leaves the queues and the events alone.
LEMMA HandlerMoves ==
    ASSUME BusInv, UNCHANGED <<chan, received, joined, events>>, ListInv',
           \A c \in Conn : handler'[c] \in {"none", "scan"} => handler[c] \in {"none", "scan"}
    PROVE  BusInv'
  <1>1. QueueType' /\ Fresh'
    BY DEF BusInv, QueueType, Fresh
  <1>2. \A c \in Conn : OrderOf(c)'
    BY DEF BusInv, OrderOf, Within, Ascends
  <1> QED
    BY <1>1, <1>2 DEF BusInv

\* An event is newer than all that was published, and goes to connections on
\* the list only.
LEMMA PublishKeeps ==
    ASSUME BusInv, NEW type \in EventTypes, PublishEvent(type),
           UNCHANGED <<subs, closed, received, joined>>,
           handler' \in [Conn -> Places],
           \A c \in Conn : \/ handler'[c] = handler[c]
                           \/ handler[c] = "scan" /\ handler'[c] = "returned"
    PROVE  BusInv'
  <1>1. ListInv'
    <2>1. subs \cap closed = {}
      BY DEF BusInv, ListInv
    <2>2. ~panicked'
      BY Zenon, <2>1 DEF PublishEvent, BusInv, ListInv
    <2>3. /\ subs' \in SUBSET Conn /\ closed' \in SUBSET Conn
          /\ \A c \in subs' : handler'[c] \in {"stream", "encode", "cancel"}
          /\ \A c \in closed' : handler'[c] = "returned"
      BY DEF BusInv, ListInv
    <2> QED
      BY <2>2, <2>3 DEF ListInv
  <1>2. events' \in Seq(EventTypes) /\ Len(events') = Len(events) + 1 /\ Len(events) \in Nat
    BY DEF PublishEvent, BusInv, QueueType
  <1>3. chan' \in [Conn -> Seq(Nat)]
    BY <1>2 DEF PublishEvent, BusInv, QueueType
  <1>4. \A c \in Conn : \/ chan'[c] = chan[c]
                        \/ c \in subs /\ chan'[c] = Append(chan[c], Len(events) + 1)
    BY DEF PublishEvent
  <1>5. QueueType'
    BY <1>2, <1>3 DEF BusInv, QueueType
  <1>6. Fresh'
    BY <1>4 DEF BusInv, ListInv, Fresh
  <1>7. ASSUME NEW c \in Conn
        PROVE  OrderOf(c)'
    <2>1. /\ chan[c] \in Seq(Nat) /\ received[c] \in Seq(Nat) /\ joined[c] \in Nat
          /\ OrderOf(c)
      BY DEF BusInv, QueueType
    <2>2. CASE chan'[c] = chan[c]
      BY SMTT(30), <1>2, <2>1, <2>2 DEF OrderOf, Within, Ascends
    <2>3. CASE chan'[c] = Append(chan[c], Len(events) + 1)
      <3>1. /\ \A i \in DOMAIN chan'[c] : \/ i \in DOMAIN chan[c] /\ chan'[c][i] = chan[c][i]
                                          \/ chan'[c][i] = Len(events) + 1 /\ i = Len(chan[c]) + 1
            /\ Len(chan[c]) \in Nat /\ DOMAIN chan[c] = 1..Len(chan[c])
            /\ \A i \in DOMAIN chan[c] : chan[c][i] \in Nat
            /\ \A i \in DOMAIN received[c] : received[c][i] \in Nat
            /\ DOMAIN chan'[c] = 1..Len(chan[c]) + 1
        BY <1>2, <2>1, <2>3
      <3>2. Within(c, chan)' /\ Within(c, received)' /\ (joined[c] <= Len(events))'
        <4>1. ASSUME NEW i \in DOMAIN chan'[c]
              PROVE  joined[c] < chan'[c][i] /\ chan'[c][i] <= Len(events) + 1
          <5>1. CASE i \in DOMAIN chan[c] /\ chan'[c][i] = chan[c][i]
            BY <1>2, <2>1, <3>1, <5>1 DEF OrderOf, Within
          <5>2. CASE chan'[c][i] = Len(events) + 1
            BY <1>2, <2>1, <5>2 DEF OrderOf
          <5> QED
            BY <3>1, <5>1, <5>2
        <4>2. ASSUME NEW i \in DOMAIN received[c]
              PROVE  joined[c] < received[c][i] /\ received[c][i] <= Len(events) + 1
          BY <1>2, <2>1, <3>1 DEF OrderOf, Within
        <4>3. joined[c] <= Len(events) + 1
          BY <1>2, <2>1 DEF OrderOf
        <4> QED
          BY <1>2, <4>1, <4>2, <4>3 DEF Within
      <3>3. Ascends(chan[c])'
        <4> SUFFICES ASSUME NEW i \in DOMAIN chan'[c], NEW j \in DOMAIN chan'[c], i < j
                     PROVE  chan'[c][i] < chan'[c][j]
          BY DEF Ascends
        <4>1. i \in DOMAIN chan[c] /\ chan'[c][i] = chan[c][i]
          BY <3>1
        <4>2. chan[c][i] <= Len(events)
          BY <2>1, <4>1 DEF OrderOf, Within
        <4>3. CASE j \in DOMAIN chan[c] /\ chan'[c][j] = chan[c][j]
          BY <2>1, <4>1, <4>3 DEF OrderOf, Ascends
        <4>4. CASE chan'[c][j] = Len(events) + 1
          BY <1>2, <3>1, <4>1, <4>2, <4>4
        <4> QED
          BY <3>1, <4>3, <4>4
      <3>4. Ascends(received[c])'
        BY <2>1 DEF OrderOf, Ascends
      <3>5. ASSUME NEW i \in DOMAIN received[c], NEW j \in DOMAIN chan'[c]
            PROVE  received[c][i] < chan'[c][j]
        <4>1. received[c][i] <= Len(events) /\ received[c][i] \in Nat
          BY <2>1, <3>1 DEF OrderOf, Within
        <4>2. CASE j \in DOMAIN chan[c] /\ chan'[c][j] = chan[c][j]
          BY <2>1, <4>2 DEF OrderOf
        <4>3. CASE chan'[c][j] = Len(events) + 1
          BY <1>2, <4>1, <4>3
        <4> QED
          BY Zenon, <3>1, <4>2, <4>3
      <3> QED
        BY <3>2, <3>3, <3>4, <3>5 DEF OrderOf
    <2> QED
      BY <1>4, <2>2, <2>3
  <1> QED
    BY <1>1, <1>5, <1>6, <1>7 DEF BusInv

\* The event taken is the oldest that waits: it is newer than all received.
LEMMA TakeKeeps ==
    ASSUME BusInv, NEW c \in Conn, TakeEvent(c)
    PROVE  BusInv'
  <1>1. /\ chan[c] \in Seq(Nat) /\ received[c] \in Seq(Nat) /\ joined[c] \in Nat
        /\ chan[c] # <<>> /\ OrderOf(c) /\ handler[c] = "stream" /\ Len(events) \in Nat
    BY DEF BusInv, QueueType, TakeEvent
  <1>2. /\ chan'[c] = Tail(chan[c]) /\ received'[c] = Append(received[c], Head(chan[c]))
        /\ handler'[c] = "encode"
        /\ \A d \in Conn \ {c} : /\ chan'[d] = chan[d] /\ received'[d] = received[d]
                                 /\ handler'[d] = handler[d]
        /\ UNCHANGED <<subs, closed, joined, events, panicked>>
    BY DEF BusInv, ListInv, QueueType, TakeEvent
  <1>3. ListInv'
    BY <1>1, <1>2 DEF BusInv, ListInv, TakeEvent, Places
  <1>4. Head(chan[c]) \in Nat /\ Head(chan[c]) = chan[c][1] /\ 1 \in DOMAIN chan[c]
    BY <1>1
  <1>5. chan'[c] \in Seq(Nat) /\ received'[c] \in Seq(Nat)
    BY <1>1, <1>2, <1>4
  <1>6. QueueType'
    BY <1>2, <1>5 DEF BusInv, QueueType, TakeEvent
  <1>7. Fresh'
    BY <1>2 DEF BusInv, Fresh
  <1>8. /\ \A i \in DOMAIN chan'[c] :
              i + 1 \in DOMAIN chan[c] /\ i + 1 > 1 /\ chan'[c][i] = chan[c][i + 1]
        /\ \A i, j \in DOMAIN chan'[c] : i < j => i + 1 < j + 1
    BY SMTT(30), <1>1, <1>2, <1>5
  <1>9. \A i \in DOMAIN received'[c] :
           \/ i \in DOMAIN received[c] /\ received'[c][i] = received[c][i]
           \/ received'[c][i] = chan[c][1] /\ i = Len(received[c]) + 1
    BY <1>1, <1>2, <1>4
  <1>10. OrderOf(c)'
    <2>1. Within(c, chan)' /\ Within(c, received)' /\ (joined[c] <= Len(events))'
      BY SMTT(30), <1>1, <1>2, <1>4, <1>8, <1>9 DEF OrderOf, Within
    <2>2. Ascends(chan[c])'
      BY <1>1, <1>8 DEF OrderOf, Ascends
    <2>3. Ascends(received[c])'
      <3> SUFFICES ASSUME NEW i \in DOMAIN received'[c], NEW j \in DOMAIN received'[c], i < j
                   PROVE  received'[c][i] < received'[c][j]
        BY DEF Ascends
      <3>1. DOMAIN received'[c] = 1..Len(received[c]) + 1 /\ Len(received[c]) \in Nat
        BY <1>1, <1>2, <1>4
      <3>2. i \in DOMAIN received[c] /\ received'[c][i] = received[c][i]
        BY <1>9, <3>1
      <3> QED
        BY Zenon, <1>1, <1>4, <1>9, <3>2 DEF OrderOf, Ascends
    <2>4. \A i \in DOMAIN received'[c], j \in DOMAIN chan'[c] : received'[c][i] < chan'[c][j]
      BY Zenon, <1>1, <1>4, <1>8, <1>9 DEF OrderOf, Ascends
    <2> QED
      BY SMTT(30), <2>1, <2>2, <2>3, <2>4 DEF OrderOf
  <1>11. ASSUME NEW d \in Conn \ {c}
         PROVE  OrderOf(d)'
    BY <1>2 DEF BusInv, OrderOf, Within, Ascends
  <1> QED
    BY <1>3, <1>6, <1>7, <1>10, <1>11 DEF BusInv

\* A connection subscribes with nothing waiting and nothing received.
LEMMA SubscribeKeeps ==
    ASSUME BusInv, NEW c \in Conn, Subscribe(c)
    PROVE  BusInv'
  <1>1. /\ handler[c] = "scan" /\ chan[c] = <<>> /\ received[c] = <<>>
        /\ Len(events) \in Nat
    BY DEF BusInv, QueueType, Fresh, Subscribe
  <1>2. /\ handler'[c] = "stream" /\ joined'[c] = Len(events)
        /\ \A d \in Conn \ {c} : handler'[d] = handler[d] /\ joined'[d] = joined[d]
        /\ UNCHANGED <<chan, closed, received, events, panicked>> /\ subs' = subs \cup {c}
    BY Zenon DEF BusInv, ListInv, QueueType, Subscribe
  <1>3. ListInv'
    BY <1>1, <1>2 DEF BusInv, ListInv, Subscribe, Places
  <1>4. QueueType'
    BY <1>1, <1>2 DEF BusInv, QueueType, Subscribe
  <1>5. Fresh'
    BY Zenon, <1>2 DEF BusInv, Fresh
  <1>6. OrderOf(c)'
    BY <1>1, <1>2 DEF OrderOf, Within, Ascends
  <1>7. ASSUME NEW d \in Conn \ {c}
        PROVE  OrderOf(d)'
    BY <1>2 DEF BusInv, OrderOf, Within, Ascends
  <1> QED
    BY <1>3, <1>4, <1>5, <1>6, <1>7 DEF BusInv

\* Each step of the bus, of the disk monitor or of a handler keeps the invariant.
LEMMA BusStep == BusInv /\ [BusNext]_busVars => BusInv'
  <1> SUFFICES ASSUME BusInv, [BusNext]_busVars
               PROVE  BusInv'
    OBVIOUS
  <1>1. CASE ManagerStops \/ UNCHANGED busVars
    <2>1. UNCHANGED <<subs, chan, closed, handler, received, joined, events, panicked>>
      BY <1>1 DEF ManagerStops, busVars
    <2> QED
      BY <2>1, HandlerMoves DEF BusInv, ListInv
  <1>2. ASSUME NEW next \in Levels, Poll(next)
        PROVE  BusInv'
    <2>1. CASE UNCHANGED <<subs, chan, closed, handler, received, joined, events, panicked>>
      BY <2>1, HandlerMoves DEF BusInv, ListInv
    <2>2. ASSUME NEW type \in {"disk.warn", "disk.critical"}, PublishEvent(type),
                 UNCHANGED <<subs, connVars>>
          PROVE  BusInv'
      BY <2>2, PublishKeeps DEF connVars, BusInv, ListInv, EventTypes
    <2>3. \/ UNCHANGED <<subs, chan, events, panicked, connVars>>
          \/ \E type \in {"disk.warn", "disk.critical"} :
                PublishEvent(type) /\ UNCHANGED <<subs, connVars>>
      BY <1>2 DEF Poll
    <2> QED
      BY Zenon, <2>1, <2>2, <2>3 DEF connVars
  <1>3. ASSUME NEW c \in Conn, ClientPublishes(c)
        PROVE  BusInv'
    <2>1. handler \in [Conn -> Places]
      BY DEF BusInv, ListInv
    <2>2. /\ handler' \in [Conn -> Places] /\ PublishEvent("client")
          /\ UNCHANGED <<subs, closed, received, joined>>
          /\ \A d \in Conn : \/ handler'[d] = handler[d]
                             \/ handler[d] = "scan" /\ handler'[d] = "returned"
      BY <1>3, <2>1 DEF ClientPublishes, Places
    <2> QED
      BY <2>2, PublishKeeps DEF EventTypes
  <1>4. ASSUME NEW c \in Conn, Subscribe(c)
        PROVE  BusInv'
    BY <1>4, SubscribeKeeps
  <1>5. ASSUME NEW c \in Conn, TakeEvent(c)
        PROVE  BusInv'
    BY Zenon, <1>5, TakeKeeps
  <1>6. ASSUME NEW c \in Conn, AcceptConn(c) \/ ScanFails(c)
        PROVE  BusInv'
    <2>1. ListInv'
      BY <1>6 DEF AcceptConn, ScanFails, BusInv, ListInv, Places
    <2> QED
      BY <1>6, <2>1, HandlerMoves DEF AcceptConn, ScanFails, BusInv, ListInv
  <1>7. ASSUME NEW c \in Conn, Encode(c) \/ StreamDone(c)
        PROVE  BusInv'
    <2>1. ListInv'
      BY <1>7 DEF Encode, StreamDone, BusInv, ListInv, Places
    <2> QED
      BY <1>7, <2>1, HandlerMoves DEF Encode, StreamDone, BusInv, ListInv
  <1>8. ASSUME NEW c \in Conn, Unsubscribe(c) \/ CloseChannel(c)
        PROVE  BusInv'
    <2>1. ListInv'
      BY <1>8 DEF Unsubscribe, CloseChannel, BusInv, ListInv, Places
    <2> QED
      BY <1>8, <2>1, HandlerMoves DEF Unsubscribe, CloseChannel, BusInv, ListInv
  <1>9. ASSUME NEW c \in Conn, NEW p \in {"reads", "stalled", "gone"}, PeerChanges(c, p)
        PROVE  BusInv'
    BY <1>9, HandlerMoves DEF PeerChanges, BusInv, ListInv
  <1> QED
    BY SMTT(30), <1>1, <1>2, <1>3, <1>4, <1>5, <1>6, <1>7, <1>8, <1>9
       DEF BusNext, HandlerSteps

-----------------------------------------------------------------------------
\* The invariant of the bus holds throughout.
LEMMA BusAlways == BusSpec => []BusInv
  BY BusInitInv, BusStep, PTL DEF BusSpec

\* No event is ever sent on a channel that cancel has closed, for any number of
\* connections (eventbus.go, Subscribe's cancel and PublishEvent).
THEOREM NeverSendsOnClosed == BusSpec => []NoSendOnClosed
  <1>1. BusInv => NoSendOnClosed
    BY DEF BusInv, ListInv, NoSendOnClosed
  <1> QED
    BY BusAlways, <1>1, PTL

\* A subscriber receives events in the order they were published, none twice and
\* none from before its subscription, for any capacity of its channel.
THEOREM ReceivesInOrder == BusSpec => []ReceivedInOrder
  <1>1. ASSUME BusInv
        PROVE  ReceivedInOrder
    <2> SUFFICES ASSUME NEW c \in Conn
                 PROVE  /\ \A i \in 1 .. Len(received[c]) - 1 : received[c][i] < received[c][i + 1]
                        /\ \A i \in DOMAIN received[c] : received[c][i] > joined[c]
      BY DEF ReceivedInOrder
    <2>1. received[c] \in Seq(Nat) /\ joined[c] \in Nat /\ OrderOf(c)
      BY <1>1 DEF BusInv, QueueType
    <2>2. \A i \in 1 .. Len(received[c]) - 1 :
             i \in DOMAIN received[c] /\ i + 1 \in DOMAIN received[c] /\ i < i + 1
      BY <2>1
    <2> QED
      BY <2>1, <2>2 DEF OrderOf, Within, Ascends
  <1> QED
    BY BusAlways, <1>1, PTL

\* Subscribers that come and go while events are published break neither the bus
\* nor the order in which anyone receives them.
THEOREM DeliverySound == BusSpec => []DeliveryIsSound
  <1>1. NoSendOnClosed /\ ReceivedInOrder => DeliveryIsSound
    BY Zenon DEF DeliveryIsSound
  <1> QED
    BY NeverSendsOnClosed, ReceivesInOrder, <1>1, PTL

-----------------------------------------------------------------------------
\* The status is a class of usage, and the last disk event announced it.
AnnouncedInv == BusInv /\ diskStatus \in Levels /\ StatusWasAnnounced

\* A publication that leaves the status alone is a client's, and one that changes
\* it announces it.
LEMMA AnnouncedStep == AnnouncedInv /\ [BusNext]_busVars => AnnouncedInv'
  <1> SUFFICES ASSUME AnnouncedInv, [BusNext]_busVars
               PROVE  diskStatus' \in Levels /\ StatusWasAnnounced'
    BY BusStep DEF AnnouncedInv
  <1>1. events \in Seq(EventTypes) /\ diskStatus \in Levels /\ StatusWasAnnounced
    BY DEF AnnouncedInv, BusInv, QueueType
  <1>2. CASE UNCHANGED <<events, diskStatus>>
    BY Zenon, <1>1, <1>2 DEF StatusWasAnnounced
  <1>3. ASSUME NEW type \in EventTypes, PublishEvent(type)
        PROVE  /\ DOMAIN events' = DOMAIN events \cup {Len(events) + 1}
               /\ events'[Len(events) + 1] = type
               /\ \A i \in DOMAIN events : events'[i] = events[i] /\ i < Len(events) + 1
               /\ DOMAIN events \subseteq Int
    BY <1>1, <1>3 DEF PublishEvent
  <1>4. ASSUME NEW c \in Conn, ClientPublishes(c)
        PROVE  diskStatus' \in Levels /\ StatusWasAnnounced'
    <2>1. PublishEvent("client") /\ diskStatus' = diskStatus /\ "client" \in EventTypes
      BY <1>4 DEF ClientPublishes, EventTypes
    <2> QED
      BY <1>1, <1>3, <2>1 DEF StatusWasAnnounced
  <1>5. ASSUME NEW next \in Levels, Poll(next)
        PROVE  diskStatus' \in Levels /\ StatusWasAnnounced'
    <2>1. CASE next = "ok"
      BY <1>5, <2>1 DEF Poll, StatusWasAnnounced
    <2>2. CASE next # "ok" /\ diskStatus = next
      BY <1>1, <1>5, <2>2 DEF Poll, StatusWasAnnounced
    <2>3. CASE next # "ok" /\ diskStatus # next
      <3>1. /\ diskStatus' = next /\ next \in {"warn", "critical"}
            /\ PublishEvent(IF next = "warn" THEN "disk.warn" ELSE "disk.critical")
        BY <1>5, <2>3 DEF Poll, Levels
      <3> QED
        BY <1>3, <3>1 DEF StatusWasAnnounced, EventTypes
    <2> QED
      BY <2>1, <2>2, <2>3
  <1> QED
    BY <1>2, <1>4, <1>5
       DEF BusNext, HandlerSteps, busVars, ManagerStops, AcceptConn, Subscribe,
        ScanFails, TakeEvent, Encode, StreamDone, Unsubscribe, CloseChannel, PeerChanges

\* The status the disk monitor reports, other than "ok", is the one its last event
\* announced, whatever clients publish meanwhile (diskmon.go, poll).
THEOREM AnnouncesStatus == BusSpec => []StatusWasAnnounced
  <1>1. BusInit => AnnouncedInv
    BY BusInitInv DEF BusInit, AnnouncedInv, StatusWasAnnounced, Levels
  <1>2. AnnouncedInv => StatusWasAnnounced
    BY DEF AnnouncedInv
  <1> QED
    BY <1>1, <1>2, AnnouncedStep, PTL DEF BusSpec

-----------------------------------------------------------------------------
(*****************************************************************************)
(* SocketActivation. The manager does not accept on a socket beside the      *)
(* run it has registered. The invariant adds that a run is cancelled only    *)
(* when it is no longer up, and which run each position of the loop and of   *)
(* a stop names.                                                             *)
(*****************************************************************************)

\* The runs launched so far are the first k, and a connection in the queue or just
\* accepted has its run left.
LaunchedInOrder ==
    \E k \in 0 .. connects :
        /\ \A r \in Runs : task[r] = "none" <=> r > k
        /\ pending \/ act.pc = "launch" => k + 1 <= connects
        /\ pending /\ act.pc = "launch" => k + 2 <= connects

\* What is true of each run: it is cancelled only when it is no longer up, its
\* process lives between Start and the Wait that reaps it.
SocketRunOk(r) ==
    /\ r \in ctxDone => ~Up(r) /\ task[r] # "none"
    /\ r \in hasCmd => task[r] \in {"wait", "done"}
    /\ r \in alive => r \in unwaited /\ task[r] \notin {"none", "begin"}

\* The run that a position of the activation loop or of a stop names.
NamedRuns ==
    /\ procs # 0 => task[procs] # "none"
    /\ act.pc = "waiting" => act.r # 0 /\ procs \in {0, act.r}
    /\ act.pc \in {"register", "look", "waiting"} => act.r # 0 /\ task[act.r] # "none"
    /\ act.pc = "look" => procs \in {0, act.r}
    /\ \A s \in Stoppers : stop[s].pc = "wait" => stop[s].r \in hasCmd

\* Outside the wait the registered run is no longer up.
RegisteredIsDown ==
    act.pc \in {"accept", "launch", "register"} /\ ~down /\ procs # 0 => ~Up(procs)

\* The inductive invariant of the activation loop.
SocketInv ==
    /\ SocketTypeOK /\ LaunchedInOrder /\ NamedRuns /\ RegisteredIsDown
    /\ \A r \in Runs : SocketRunOk(r)

\* The type invariant but for its Boolean variables.
SocketData ==
    /\ connects \in 0 .. MaxConnects
    /\ age \in 0 .. IdleTimeout /\ use \in 0 .. IdleTimeout
    /\ act \in [pc : {"accept", "launch", "register", "look", "waiting", "off"},
                r : Runs \cup {0}]
    /\ task \in [Runs -> {"none", "begin", "started", "wait", "done"}]
    /\ alive \subseteq Runs /\ unwaited \subseteq Runs
    /\ hasCmd \subseteq Runs /\ ctxDone \subseteq Runs
    /\ procs \in Runs \cup {0}
    /\ status \in States
    /\ stop \in [Stoppers -> [pc : {"none", "signal", "wait", "finish"},
                              r : Runs \cup {0}]]

\* The type invariant is that of the data and that of the two Boolean variables.
LEMMA SocketTypeParts ==
    SocketTypeOK <=> SocketData /\ pending \in BOOLEAN /\ down \in BOOLEAN
  BY DEF SocketTypeOK, SocketData

-----------------------------------------------------------------------------
\* Before the first connection no run is launched.
LEMMA SocketInitInv == SocketInit => SocketInv
  <1> SUFFICES ASSUME SocketInit
               PROVE  SocketInv
    OBVIOUS
  <1>1. SocketTypeOK
    <2>1. SocketData
      BY SocketConfig DEF SocketInit, SocketData, States, NoStop, Stoppers
    <2>2. pending \in BOOLEAN /\ down \in BOOLEAN
      BY Zenon DEF SocketInit
    <2> QED
      BY Zenon, <2>1, <2>2, SocketTypeParts
  <1>2. LaunchedInOrder
    <2>1. ~pending /\ connects = 0 /\ act.pc = "accept" /\ \A r \in Runs : task[r] = "none" /\ r > 0
      BY SocketConfig DEF SocketInit, Runs
    <2> QED
      BY <2>1 DEF LaunchedInOrder
  <1>3. NamedRuns /\ RegisteredIsDown /\ \A r \in Runs : SocketRunOk(r)
    BY DEF SocketInit, NamedRuns, RegisteredIsDown, SocketRunOk, NoStop, Up
  <1> QED
    BY <1>1, <1>2, <1>3 DEF SocketInv

\* moveState gives one of the states.
LEMMA MovedInStates ==
    ASSUME NEW from \in States, NEW to \in States
    PROVE  Moved(from, to) \in States
  BY DEF Moved

\* An accepted connection has its run: Launch takes the first that was not launched.
LEMMA LaunchTakesNext ==
    ASSUME SocketInv, Launch
    PROVE  \E k \in 0 .. connects :
              /\ k + 1 \in Runs /\ task[k + 1] = "none"
              /\ \A r \in Runs : task[r] = "none" <=> r > k
              /\ k + 1 <= connects /\ (pending => k + 2 <= connects)
              /\ task' = [task EXCEPT ![k + 1] = "begin"]
              /\ act' = [pc |-> "register", r |-> k + 1]
  <1>1. act.pc = "launch" /\ connects \in 0 .. MaxConnects /\ MaxConnects \in Nat
    BY SocketConfig DEF Launch, SocketInv, SocketTypeOK
  <1>2. PICK k \in 0 .. connects :
           /\ \A r \in Runs : task[r] = "none" <=> r > k
           /\ k + 1 <= connects /\ (pending => k + 2 <= connects)
    BY <1>1 DEF SocketInv, LaunchedInOrder
  <1>3. k + 1 \in Runs /\ task[k + 1] = "none"
    BY <1>1, <1>2 DEF Runs
  <1> DEFINE IsNext(q) == task[q] = "none" /\ \A p \in 1 .. q - 1 : task[p] # "none"
  <1>4. \A p \in 1 .. k : p \in Runs /\ task[p] # "none"
    BY <1>1, <1>2 DEF Runs
  <1>5. IsNext(k + 1)
    BY <1>3, <1>4
  <1>6. \A q \in Runs : IsNext(q) => q = k + 1
    <2> SUFFICES ASSUME NEW q \in Runs, IsNext(q)
                 PROVE  q = k + 1
      OBVIOUS
    <2>1. q \in Nat /\ q > k
      BY <1>2 DEF Runs
    <2>2. ~(k + 1 \in 1 .. q - 1)
      BY <1>3
    <2> QED
      BY <2>1, <2>2
  <1>7. (CHOOSE q \in Runs : IsNext(q)) = k + 1
    BY Zenon, <1>3, <1>5, <1>6
  <1> QED
    BY Zenon, <1>2, <1>3, <1>7 DEF Launch

\* Every step keeps the types of the data.
LEMMA SocketDataStep == SocketInv /\ [SocketNext]_socketVars => SocketData'
  <1> SUFFICES ASSUME SocketInv, [SocketNext]_socketVars
               PROVE  SocketData'
    OBVIOUS
  <1>0. SocketData /\ IdleTimeout \in Nat /\ MaxConnects \in Nat
    BY Zenon, SocketConfig, SocketTypeParts DEF SocketInv
  <1> USE <1>0 DEF SocketData, client, runState
  <1>1. CASE UNCHANGED socketVars
    BY Zenon, <1>1 DEF socketVars
  <1>2. CASE Connect \/ ServiceAccepts \/ Tick \/ Shutdown
    BY <1>2 DEF Connect, ServiceAccepts, Tick, Shutdown
  <1>3. ASSUME NEW r \in Runs, ProcessExits(r) \/ CtxKills(r)
        PROVE  SocketData'
    BY Zenon, <1>3 DEF ProcessExits, CtxKills
  <1>4. ASSUME NEW r \in Runs, RunStep(r)
        PROVE  SocketData'
    <2>1. status' \in States
      BY <1>4, MovedInStates DEF RunStep, Start, StartFails, Publish, Exits, States
    <2> QED
      BY Zenon, <1>4, <2>1 DEF RunStep, Start, StartFails, Publish, Exits
  <1>5. CASE Accept \/ AcceptCancelled \/ Register \/ LookUp \/ RunStopped
    BY <1>5 DEF Accept, AcceptCancelled, Register, LookUp, RunStopped
  <1>6. CASE Launch
    BY Zenon, <1>6, LaunchTakesNext DEF Launch
  <1>7. CASE IdleFires \/ StopService
    <2>1. Moved(status, "stopping") \in States
      BY Zenon, MovedInStates DEF States
    <2> QED
      BY <1>7, <2>1 DEF IdleFires, StopService, BeginStop, Stoppers
  <1>8. CASE IdleFinishes \/ CtlFinishes
    <2>1. Moved(status, "inactive") \in States
      BY Zenon, MovedInStates DEF States
    <2> QED
      BY <1>8, <2>1 DEF IdleFinishes, CtlFinishes, NoStop, Stoppers
  <1>9. ASSUME NEW s \in Stoppers, StopStep(s)
        PROVE  SocketData'
    <2>1. CASE StopNoProcess(s) \/ StopSignals(s)
      BY <1>9, <2>1 DEF StopNoProcess, StopSignals
    <2>2. CASE StopFindsExited(s)
      BY <1>9, <2>2 DEF StopFindsExited
    <2>3. CASE StopReaps(s)
      BY <1>9, <2>3 DEF StopReaps
    <2>4. CASE StopExpires(s)
      <3>1. stop[s].r \in hasCmd
        BY <2>4 DEF StopExpires, SocketInv, NamedRuns
      <3> QED
        BY <1>9, <2>4, <3>1 DEF StopExpires
    <2> QED
      BY <1>9, <2>1, <2>2, <2>3, <2>4 DEF StopStep
  <1> QED
    BY <1>1, <1>2, <1>3, <1>4, <1>5, <1>6, <1>7, <1>8, <1>9 DEF SocketNext, Activation

\* Every step keeps the type invariant.
LEMMA SocketTypeStep == SocketInv /\ [SocketNext]_socketVars => SocketTypeOK'
  <1> SUFFICES ASSUME SocketInv, [SocketNext]_socketVars
               PROVE  pending' \in BOOLEAN /\ down' \in BOOLEAN
    BY SocketDataStep DEF SocketTypeOK, SocketData
  <1>1. pending \in BOOLEAN /\ down \in BOOLEAN
    BY SocketTypeParts DEF SocketInv
  <1>2. pending' = TRUE \/ pending' = FALSE \/ pending' = pending
    BY Zenon DEF SocketNext, Activation, Connect, ServiceAccepts, Tick, Shutdown,
        ProcessExits, CtxKills, Accept, AcceptCancelled, Launch, Register, LookUp, RunStopped,
        RunStep, Start, StartFails, Publish, Exits, IdleFires, StopService, IdleFinishes,
        CtlFinishes, StopStep, StopNoProcess, StopSignals, StopFindsExited, StopReaps,
        StopExpires, client, socketVars
  <1>3. down' = TRUE \/ down' = down
    BY Zenon DEF SocketNext, Activation, Connect, ServiceAccepts, Tick, Shutdown,
        ProcessExits, CtxKills, Accept, AcceptCancelled, Launch, Register, LookUp, RunStopped,
        RunStep, Start, StartFails, Publish, Exits, IdleFires, StopService, IdleFinishes,
        CtlFinishes, StopStep, StopNoProcess, StopSignals, StopFindsExited, StopReaps,
        StopExpires, socketVars
  <1> QED
    BY Zenon, <1>1, <1>2, <1>3

\* Connections come one at a time, and each starts at most one run.
LEMMA LaunchedStep == SocketInv /\ [SocketNext]_socketVars => LaunchedInOrder'
  <1> SUFFICES ASSUME SocketInv, [SocketNext]_socketVars
               PROVE  LaunchedInOrder'
    OBVIOUS
  <1>0. /\ SocketTypeOK /\ connects \in Nat /\ pending \in BOOLEAN /\ Runs \subseteq Nat
    BY SocketConfig DEF SocketInv, SocketTypeOK, Runs
  <1>1. PICK k \in 0 .. connects :
           /\ \A r \in Runs : task[r] = "none" <=> r > k
           /\ pending \/ act.pc = "launch" => k + 1 <= connects
           /\ pending /\ act.pc = "launch" => k + 2 <= connects
    BY DEF SocketInv, LaunchedInOrder
  <1>2. CASE /\ UNCHANGED <<connects, pending>>
             /\ \A r \in Runs : task'[r] = "none" <=> task[r] = "none"
             /\ act'.pc = "launch" => act.pc = "launch"
    BY Zenon, <1>0, <1>1, <1>2 DEF LaunchedInOrder
  <1>3. CASE Connect
    BY <1>0, <1>1, <1>3 DEF Connect, runState, LaunchedInOrder
  <1>4. CASE ServiceAccepts
    BY Zenon, <1>0, <1>1, <1>4 DEF ServiceAccepts, runState, LaunchedInOrder
  <1>5. CASE Accept
    BY <1>0, <1>1, <1>5 DEF Accept, runState, LaunchedInOrder, SocketTypeOK
  <1>6. CASE Launch
    <2>1. PICK n \in 0 .. connects :
              /\ n + 1 \in Runs /\ task[n + 1] = "none"
              /\ \A r \in Runs : task[r] = "none" <=> r > n
              /\ n + 1 <= connects /\ (pending => n + 2 <= connects)
              /\ task' = [task EXCEPT ![n + 1] = "begin"]
              /\ act' = [pc |-> "register", r |-> n + 1]
      BY <1>6, LaunchTakesNext
    <2>2. connects' = connects /\ (pending' <=> pending)
      BY Zenon, <1>6 DEF Launch, client
    <2>3. \A r \in Runs : task'[r] = "none" <=> r > n + 1
      BY <1>0, <2>1 DEF SocketTypeOK
    <2>4. n + 1 \in 0 .. connects /\ (pending => (n + 1) + 1 <= connects)
      BY <1>0, <2>1
    <2>5. act'.pc # "launch"
      BY Zenon, <2>1
    <2> QED
      BY Zenon, <2>2, <2>3, <2>4, <2>5 DEF LaunchedInOrder
  <1>7. ASSUME NEW r \in Runs, RunStep(r)
        PROVE  LaunchedInOrder'
    BY <1>0, <1>2, <1>7
       DEF RunStep, Start, StartFails, Publish, Exits, client, SocketTypeOK
  <1>8. CASE AcceptCancelled \/ Register \/ LookUp \/ RunStopped
    BY <1>0, <1>2, <1>8
       DEF AcceptCancelled, Register, LookUp, RunStopped, client, runState,
       SocketTypeOK
  <1> QED
    BY Zenon, <1>0, <1>2, <1>3, <1>4, <1>5, <1>6, <1>7, <1>8
       DEF SocketNext, Activation, Tick,
       Shutdown,
        ProcessExits, CtxKills, IdleFires, StopService, IdleFinishes, CtlFinishes, StopStep,
        StopNoProcess, StopSignals, StopFindsExited, StopReaps, StopExpires, client, runState, socketVars

\* A run is cancelled only once it is no longer up.
LEMMA SocketRunsStep == SocketInv /\ [SocketNext]_socketVars => \A q \in Runs : SocketRunOk(q)'
  <1> SUFFICES ASSUME SocketInv, [SocketNext]_socketVars, NEW q \in Runs
               PROVE  SocketRunOk(q)'
    OBVIOUS
  <1>0. SocketData /\ NamedRuns /\ SocketRunOk(q)
    BY SocketTypeParts DEF SocketInv
  <1>1. CASE UNCHANGED runState
    BY Zenon, <1>0, <1>1 DEF runState, SocketRunOk, Up
  <1>2. ASSUME NEW r \in Runs, ProcessExits(r) \/ CtxKills(r)
        PROVE  SocketRunOk(q)'
    BY Zenon, <1>0, <1>2 DEF ProcessExits, CtxKills, SocketRunOk, Up
  <1>3. ASSUME NEW r \in Runs, Start(r)
        PROVE  SocketRunOk(q)'
    BY Zenon, <1>0, <1>3 DEF Start, Done, SocketRunOk, Up, SocketData
  <1>4. ASSUME NEW r \in Runs, StartFails(r) \/ Publish(r) \/ Exits(r)
        PROVE  SocketRunOk(q)'
    BY Zenon, <1>0, <1>4 DEF StartFails, Publish, Exits, SocketRunOk, Up, SocketData
  <1>5. CASE Launch
    <2>1. PICK k \in 0 .. connects :
              /\ k + 1 \in Runs /\ task[k + 1] = "none"
              /\ task' = [task EXCEPT ![k + 1] = "begin"]
      BY <1>5, LaunchTakesNext
    <2>2. UNCHANGED <<alive, unwaited, hasCmd, ctxDone>>
      BY <1>5 DEF Launch
    <2> QED
      BY <1>0, <2>1, <2>2 DEF SocketRunOk, Up, SocketData
  <1>6. ASSUME NEW s \in Stoppers, StopFindsExited(s) \/ StopReaps(s) \/ StopExpires(s)
        PROVE  SocketRunOk(q)'
    BY Zenon, <1>0, <1>6
       DEF StopFindsExited, StopReaps, StopExpires, SocketRunOk, NamedRuns, Up
  <1> QED
    BY <1>1, <1>2, <1>3, <1>4, <1>5, <1>6 DEF SocketNext, Activation, Connect,
       ServiceAccepts, Tick,
        Shutdown, Accept, AcceptCancelled, Register, LookUp, RunStopped, RunStep, IdleFires,
        StopService, IdleFinishes, CtlFinishes, StopStep, StopNoProcess, StopSignals, runState,
        socketVars

\* The activation loop waits for the run it registered, and leaves the wait when
\* that run is no longer up.
LEMMA SocketAwaitStep ==
    SocketInv /\ [SocketNext]_socketVars => NamedRuns' /\ RegisteredIsDown'
  <1> SUFFICES ASSUME SocketInv, [SocketNext]_socketVars
               PROVE  NamedRuns' /\ RegisteredIsDown'
    OBVIOUS
  <1>0. SocketData /\ NamedRuns /\ RegisteredIsDown /\ \A r \in Runs : SocketRunOk(r)
    BY SocketTypeParts DEF SocketInv
  <1>1. 0 \notin Runs
    BY DEF Runs
  <1>2. CASE Connect \/ ServiceAccepts \/ Tick \/ Shutdown \/ UNCHANGED socketVars
    BY Zenon, <1>0, <1>2
       DEF Connect, ServiceAccepts, Tick, Shutdown, socketVars, client, runState,
        NamedRuns, RegisteredIsDown, Up
  <1>3. ASSUME NEW r \in Runs, ProcessExits(r) \/ CtxKills(r)
        PROVE  NamedRuns' /\ RegisteredIsDown'
    BY Zenon, <1>0, <1>3
       DEF ProcessExits, CtxKills, client, NamedRuns, RegisteredIsDown, Up
  <1>4. ASSUME NEW r \in Runs, RunStep(r)
        PROVE  NamedRuns' /\ RegisteredIsDown'
    <2>1. /\ UNCHANGED <<act, procs, stop, down>> /\ hasCmd \subseteq hasCmd'
          /\ \A q \in Runs : task[q] # "none" => task'[q] # "none"
      BY Zenon, <1>0, <1>4 DEF RunStep, Start, StartFails, Publish, Exits, SocketData
    <2>2. NamedRuns'
      BY Zenon, <1>0, <1>1, <2>1 DEF NamedRuns, SocketData
    <2>3. \A q \in Runs : Up(q)' => Up(q)
      BY <1>0, <1>4 DEF RunStep, Start, StartFails, Publish, Exits, SocketData, Up
    <2> QED
      BY Zenon, <1>0, <2>1, <2>2, <2>3 DEF RegisteredIsDown, SocketData
  <1>5. CASE Accept \/ AcceptCancelled
    BY <1>0, <1>5 DEF Accept, AcceptCancelled, client, runState, NamedRuns,
       RegisteredIsDown, Up,
        SocketData
  <1>6. CASE Launch
    <2>1. PICK k \in 0 .. connects :
              /\ k + 1 \in Runs /\ task[k + 1] = "none"
              /\ task' = [task EXCEPT ![k + 1] = "begin"]
              /\ act' = [pc |-> "register", r |-> k + 1]
      BY Zenon, <1>6, LaunchTakesNext
    <2>2. UNCHANGED <<procs, stop, hasCmd, alive, down>> /\ act.pc = "launch"
      BY Zenon, <1>6 DEF Launch
    <2>3. NamedRuns'
      BY Zenon, <1>0, <1>1, <2>1, <2>2 DEF NamedRuns, SocketData
    <2>4. RegisteredIsDown'
      BY <1>0, <1>1, <2>1, <2>2 DEF NamedRuns, RegisteredIsDown, SocketData, Up
    <2> QED
      BY Zenon, <2>3, <2>4
  <1>7. CASE Register \/ LookUp
    BY <1>0, <1>1, <1>7
       DEF Register, LookUp, client, runState, NamedRuns, RegisteredIsDown, Up,
        SocketData
  <1>8. CASE RunStopped
    BY Zenon, <1>0, <1>1, <1>8
       DEF RunStopped, Done, client, runState, NamedRuns, RegisteredIsDown, Up,
        SocketData, SocketRunOk
  <1>9. CASE IdleFires \/ StopService \/ IdleFinishes \/ CtlFinishes
    BY <1>0, <1>9
       DEF IdleFires, StopService, BeginStop, IdleFinishes, CtlFinishes, NoStop,
       client,
        runState, NamedRuns, RegisteredIsDown, Up, SocketData, Stoppers
  <1>10. ASSUME NEW s \in Stoppers, StopStep(s)
         PROVE  NamedRuns' /\ RegisteredIsDown'
    <2>1. /\ UNCHANGED <<act, procs, task, hasCmd, down>> /\ alive' \subseteq alive
          /\ \A t \in Stoppers : stop'[t].pc = "wait" => stop'[t].r \in hasCmd
      BY <1>0, <1>10
         DEF StopStep, StopNoProcess, StopSignals, StopFindsExited, StopReaps,
          StopExpires, runState, SocketData, NamedRuns
    <2> QED
      BY Zenon, <1>0, <2>1 DEF NamedRuns, RegisteredIsDown, Up
  <1> QED
    BY <1>2, <1>3, <1>4, <1>5, <1>6, <1>7, <1>8, <1>9, <1>10 DEF SocketNext, Activation

\* The invariant holds at all times.
LEMMA SocketAlways == SocketSpec => []SocketInv
  <1>1. SocketInv /\ [SocketNext]_socketVars => SocketInv'
    BY SocketTypeStep, LaunchedStep, SocketRunsStep, SocketAwaitStep DEF SocketInv
  <1> QED
    BY SocketInitInv, <1>1, PTL DEF SocketSpec

\* The manager never accepts on the socket beside the run that m.procs holds, for
\* any idle timeout and any number of connections, whatever stops and crashes
\* happen (manager.go, socketActivate and waitRunStopped).
THEOREM AwaitsRegistered == SocketSpec => []RegisteredIsAwaited
  <1>1. SocketInv => RegisteredIsAwaited
    BY DEF SocketInv, RegisteredIsDown, RegisteredIsAwaited, Runs
  <1> QED
    BY SocketAlways, <1>1, PTL

\* The type invariant of the activation loop, its runs and its stops.
THEOREM SocketTyped == SocketSpec => []SocketTypeOK
  <1>1. SocketInv => SocketTypeOK
    BY DEF SocketInv
  <1> QED
    BY SocketAlways, <1>1, PTL

-----------------------------------------------------------------------------
(*****************************************************************************)
(* ManagerRun. The first trigger decides what happens to the machine. The    *)
(* invariant says where the first mode is until Run receives it: in the      *)
(* one slot of shutdownCh, which deliverShutdown never replaces;             *)
(* afterwards it is Run's mode, and what else lands in the slot is never     *)
(* received.                                                                 *)
(*****************************************************************************)

\* The ways Run ends, and its phases before and after the mode is received.
Modes == {"normal", "poweroff", "reboot"}
Before == {"boot", "setup", "serving", "waiting"}
After == {"stopping", "stopped", "flushed", "acted", "halted"}

\* The first mode is in the slot of shutdownCh, or it is the mode of Run.
FirstIsKept ==
    IF mode = NoMode
    THEN \/ first = NoMode /\ shutdownCh = <<>>
         \/ first \in Modes /\ shutdownCh = <<first>>
    ELSE mode = first

\* Run has a mode once it has received one.
PhaseInv ==
    /\ run \in Before \cup After \cup {"exited"}
    /\ mode \in Modes \cup {NoMode}
    /\ run \in Before => mode = NoMode
    /\ run \in After => mode # NoMode

\* The machine does what the mode says.
PowerInv ==
    /\ power \in {"on", "off", "rebooting"}
    /\ power = "off" => mode = "poweroff"
    /\ power = "rebooting" => mode = "reboot"

\* The inductive invariant of Run.
ManagerInv == FirstIsKept /\ PhaseInv /\ PowerInv

\* Nothing has been triggered before the manager boots.
LEMMA ManagerInitInv == ManagerInit => ManagerInv
  BY Zenon
     DEF ManagerInit, ManagerInv, FirstIsKept, PhaseInv, PowerInv, Before, After,
         Modes, NoMode

\* A trigger does not displace the one before it.
LEMMA DeliverKeeps ==
    ASSUME ManagerInv, NEW m \in Modes, deliverShutdown(m), UNCHANGED <<run, mode, power>>
    PROVE  ManagerInv'
  <1>1. m # NoMode /\ <<m>> # <<>>
    BY DEF Modes, NoMode
  <1>2. FirstIsKept'
    BY <1>1 DEF ManagerInv, FirstIsKept, PhaseInv, deliverShutdown, Modes, NoMode
  <1> QED
    BY <1>2 DEF ManagerInv, PhaseInv, PowerInv

\* Each step of the manager, of a trigger or of a client keeps the invariant.
LEMMA ManagerStep == ManagerInv /\ [ManagerNext]_managerVars => ManagerInv'
  <1> SUFFICES ASSUME ManagerInv, [ManagerNext]_managerVars
               PROVE  ManagerInv'
    OBVIOUS
  <1> USE DEF ManagerInv, FirstIsKept, PhaseInv, PowerInv, Before, After
  <1>1. CASE BootFails \/ Boot \/ Serve \/ AllStarted
    BY Zenon, <1>1 DEF BootFails, Boot, Serve, AllStarted
  <1>2. CASE ReceiveMode
    <2>1. mode = NoMode /\ shutdownCh = <<first>> /\ first \in Modes
      BY Zenon, <1>2 DEF ReceiveMode
    <2>2. mode' = first /\ UNCHANGED <<first, power>> /\ run' = "stopping"
      BY <1>2, <2>1 DEF ReceiveMode
    <2>3. first # NoMode /\ power = "on"
      BY Zenon, <2>1 DEF Modes, NoMode
    <2> QED
      BY Zenon, <2>1, <2>2, <2>3
  <1>3. CASE ShutdownSelect \/ CloseJournal \/ Return
    BY Zenon, <1>3 DEF ShutdownSelect, CloseJournal, Return
  <1>4. CASE PowerAction
    BY Zenon, <1>4 DEF PowerAction, Modes, NoMode
  <1>5. CASE ShutdownPlan
    BY Zenon, <1>5 DEF ShutdownPlan
  <1>6. ASSUME NEW s \in {"TERM", "PWR"}, SendSignal(s)
        PROVE  ManagerInv'
    BY Zenon, <1>6 DEF SendSignal
  <1>7. ASSUME NEW s \in {"TERM", "PWR"}, SignalReceived(s)
        PROVE  ManagerInv'
    <2>1. (IF s = "TERM" THEN "normal" ELSE "poweroff") \in Modes
      BY Zenon DEF Modes
    <2> QED
      BY Zenon, <1>7, <2>1, DeliverKeeps DEF SignalReceived
  <1>8. ASSUME NEW c \in Client, NEW cmd \in Commands, Send(c, cmd)
        PROVE  ManagerInv'
    BY <1>8 DEF Send
  <1>9. ASSUME NEW c \in Client, Dispatch(c)
        PROVE  ManagerInv'
    <2>1. CASE UNCHANGED <<run, mode, power, shutdownCh, first>>
      BY Zenon, <2>1
    <2>2. ASSUME ctl[c].cmd \in {"poweroff", "reboot"}, deliverShutdown(ctl[c].cmd),
                 UNCHANGED <<run, mode, power>>
          PROVE  ManagerInv'
      BY <2>2, DeliverKeeps DEF Modes
    <2> QED
      BY Zenon, <1>9, <2>1, <2>2 DEF Dispatch
  <1>10. ASSUME NEW c \in Client, Answer(c) \/ SendFails(c)
         PROVE  ManagerInv'
    BY Zenon, <1>10 DEF Answer, SendFails
  <1>11. CASE UNCHANGED managerVars
    BY <1>11 DEF managerVars
  <1> QED
    BY Zenon, <1>1, <1>2, <1>3, <1>4, <1>5, <1>6, <1>7, <1>8, <1>9, <1>10, <1>11
       DEF ManagerNext, MainStep

\* The trigger that comes first decides what happens to the machine, whatever
\* arrives while the services stop (run.go, deliverShutdown and the select).
THEOREM FirstWins == ManagerSpec => []FirstTriggerWins
  <1>1. ManagerInv => FirstTriggerWins
    BY DEF ManagerInv, FirstIsKept, PhaseInv, PowerInv, FirstTriggerWins, NoMode, Modes
  <1> QED
    BY ManagerInitInv, ManagerStep, <1>1, PTL DEF ManagerSpec

-----------------------------------------------------------------------------
(*****************************************************************************)
(* OomWatch. The governor counts by differences of a counter that starts     *)
(* again when its cgroup is created again.                                   *)
(*****************************************************************************)

\* What the governor may still publish, its count being behind the counter's, is
\* never more than the kills it has not published.
GovernorInv ==
    /\ oomKill \in Nat /\ govLast \in Nat /\ kills \in Nat /\ published \in Nat /\ recreated \in BOOLEAN
    /\ published + (oomKill - govLast) <= kills
    /\ GovernorCountsOnce

\* The governor publishes no kill twice, however often the cgroup it reads is deleted
\* and created again; and until the first deletion after a kill it has published
\* exactly what it has read.
THEOREM GovernorCounts == OomSpec => []GovernorCountsOnce
  <1>1. OomInit => GovernorInv
    <2> SUFFICES ASSUME OomInit
                 PROVE  GovernorInv
      OBVIOUS
    <2>1. oomKill = 0 /\ govLast = 0 /\ kills = 0 /\ published = 0 /\ recreated \in BOOLEAN
      BY Zenon DEF OomInit
    <2> QED
      BY <2>1 DEF GovernorInv, GovernorCountsOnce
  <1>2. GovernorInv /\ [OomNext]_oomVars => GovernorInv'
    <2> SUFFICES ASSUME GovernorInv, [OomNext]_oomVars
                 PROVE  GovernorInv'
      OBVIOUS
    <2> USE DEF GovernorInv, GovernorCountsOnce
    <2>1. CASE LaunchLoop \/ SpawnFails \/ Spawn \/ ProcessExit \/ Restarts \/ StopRun
      BY Zenon, <2>1 DEF LaunchLoop, SpawnFails, Spawn, ProcessExit, Restarts, StopRun
    <2>2. CASE OomKill
      BY <2>2 DEF OomKill
    <2>3. CASE LoopReturns
      <3>1. /\ oomKill' = 0 /\ UNCHANGED <<govLast, kills, published>>
            /\ recreated' = (recreated \/ oomKill > 0)
        BY <2>3 DEF LoopReturns
      <3>2. recreated' \in BOOLEAN /\ (~recreated' => ~recreated)
        BY <3>1
      <3> QED
        BY <3>1, <3>2
    <2>4. CASE GovernorPoll
      BY <2>4 DEF GovernorPoll
    <2>5. ASSUME NEW i \in DOMAIN watchers, WatchTick(i)
          PROVE  GovernorInv'
      BY Zenon, <2>5 DEF WatchTick
    <2>6. CASE UNCHANGED oomVars
      BY <2>6 DEF oomVars
    <2> QED
      BY Zenon, <2>1, <2>2, <2>3, <2>4, <2>5, <2>6 DEF OomNext
  <1>3. GovernorInv => GovernorCountsOnce
    BY DEF GovernorInv
  <1> QED
    BY <1>1, <1>2, <1>3, PTL DEF OomSpec
=============================================================================

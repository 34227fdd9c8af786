------------------------------ MODULE EventBus ------------------------------
(***************************************************************************)
(* The event bus, its socket server and the disk monitor that publishes on *)
(* it (src/services/internal/eventbus, diskmon; nura-manager run.go).      *)
(* Publish holds the lock of the bus while it sends to every subscriber    *)
(* without blocking; cancel takes a subscriber off the list under the lock *)
(* and closes its channel after releasing it.                              *)
(*                                                                         *)
(* Events are numbered in the order they are published.                    *)
(***************************************************************************)
EXTENDS Integers, Sequences

CONSTANTS
    Conn,       \* connections to the event socket
    BufSize,    \* capacity of a subscriber's channel
    MaxEvents   \* bound on the events published

ASSUME BusAssumption == BufSize \in Nat \ {0} /\ MaxEvents \in Nat

VARIABLES
    subs,       \* Bus.subs, whose order makes no difference
    chan,       \* conn -> events in its channel
    closed,     \* the channels that are closed
    handler,    \* conn -> where its handleConn is
    peer,       \* conn -> "reads", "stalled" (keeps the connection, reads nothing), "gone"
    received,   \* conn -> events taken for it from its channel, in order
    joined,     \* history: conn -> events published before it subscribed
    events,     \* the types of the events published so far
    panicked,   \* a send on a closed channel
    done,       \* the manager's context is cancelled
    diskStatus      \* Monitor.diskStatus

busVars == <<subs, chan, closed, handler, peer, received, joined, events, panicked, done, diskStatus>>
connVars == <<closed, handler, peer, received, joined, done>>

Levels == {"ok", "warn", "critical"}

BusInit ==
    /\ subs = {}
    /\ chan = [c \in Conn |-> <<>>]
    /\ closed = {}
    /\ handler = [c \in Conn |-> "none"]
    /\ peer = [c \in Conn |-> "reads"]
    /\ received = [c \in Conn |-> <<>>]
    /\ joined = [c \in Conn |-> 0]
    /\ events = <<>>
    /\ panicked = FALSE
    /\ done = FALSE
    /\ diskStatus = "ok"

\* PublishEvent: a full channel drops the event.
PublishEvent(type) ==
    /\ Len(events) < MaxEvents
    /\ events' = Append(events, type)
    /\ chan' = [c \in Conn |->
                  IF c \in subs \ closed /\ Len(chan[c]) < BufSize
                  THEN Append(chan[c], Len(events) + 1) ELSE chan[c]]
    /\ panicked' = (panicked \/ subs \cap closed # {})

-----------------------------------------------------------------------------
\* A plausible slip: only leaving "ok" counts as a transition, so that a rise
\* from "warn" to "critical" is not announced.
MutPoll(next) ==
    /\ ~done
    /\ diskStatus' = next
    /\ \/ /\ diskStatus # "ok" \/ next = "ok"
          /\ UNCHANGED <<subs, chan, events, panicked, connVars>>
       \/ /\ diskStatus = "ok" /\ next # "ok"
          /\ PublishEvent(IF next = "warn" THEN "disk.warn" ELSE "disk.critical")
          /\ UNCHANGED <<subs, connVars>>

\* Monitor.poll with the callbacks of run.go, for the class next of the usage
\* it reads: entering "warn" or "critical" publishes, recovery does not.
\* What Reclaim frees shows in the class of a later poll.
Poll(next) ==
    /\ ~done
    /\ diskStatus' = next
    /\ \/ /\ diskStatus = next \/ next = "ok"
          /\ UNCHANGED <<subs, chan, events, panicked, connVars>>
       \/ /\ diskStatus # next /\ next # "ok"
          /\ PublishEvent(IF next = "warn" THEN "disk.warn" ELSE "disk.critical")
          /\ UNCHANGED <<subs, connVars>>

-----------------------------------------------------------------------------
AcceptConn(c) ==
    /\ handler[c] = "none" /\ ~done
    /\ handler' = [handler EXCEPT ![c] = "scan"]
    /\ UNCHANGED <<subs, chan, closed, peer, received, joined, events, panicked, done, diskStatus>>

\* The first line is an event to publish,
ClientPublishes(c) ==
    /\ handler[c] = "scan"
    /\ PublishEvent("client")
    /\ handler' = [handler EXCEPT ![c] = "returned"]
    /\ UNCHANGED <<subs, closed, peer, received, joined, done, diskStatus>>

\* or a subscription;
Subscribe(c) ==
    /\ handler[c] = "scan"
    /\ subs' = subs \cup {c}
    /\ joined' = [joined EXCEPT ![c] = Len(events)]
    /\ handler' = [handler EXCEPT ![c] = "stream"]
    /\ UNCHANGED <<chan, closed, peer, received, events, panicked, done, diskStatus>>

\* or there is none within five seconds, or it does not parse.
ScanFails(c) ==
    /\ handler[c] = "scan"
    /\ handler' = [handler EXCEPT ![c] = "returned"]
    /\ UNCHANGED <<subs, chan, closed, peer, received, joined, events, panicked, done, diskStatus>>

\* The select of serveSubscriber takes an event
TakeEvent(c) ==
    /\ handler[c] = "stream" /\ chan[c] # <<>>
    /\ chan' = [chan EXCEPT ![c] = Tail(@)]
    /\ received' = [received EXCEPT ![c] = Append(@, Head(chan[c]))]
    /\ handler' = [handler EXCEPT ![c] = "encode"]
    /\ UNCHANGED <<subs, closed, peer, joined, events, panicked, done, diskStatus>>

\* and Encode writes it: it blocks while the peer stalls.
Encode(c) ==
    /\ handler[c] = "encode" /\ peer[c] # "stalled"
    /\ handler' = [handler EXCEPT ![c] = IF peer[c] = "reads" THEN "stream" ELSE "cancel"]
    /\ UNCHANGED <<subs, chan, closed, peer, received, joined, events, panicked, done, diskStatus>>

\* A plausible slip: the end of the context breaks out of the select only, and
\* the loop goes on.
MutStreamDone(c) == handler[c] = "stream" /\ done /\ UNCHANGED busVars

StreamDone(c) ==
    /\ handler[c] = "stream" /\ done
    /\ handler' = [handler EXCEPT ![c] = "cancel"]
    /\ UNCHANGED <<subs, chan, closed, peer, received, joined, events, panicked, done, diskStatus>>

\* A plausible slip: the channel is closed without being taken off the list.
MutUnsubscribe(c) ==
    /\ handler[c] = "cancel"
    /\ handler' = [handler EXCEPT ![c] = "close"]
    /\ UNCHANGED <<subs, chan, closed, peer, received, joined, events, panicked, done, diskStatus>>

Unsubscribe(c) ==
    /\ handler[c] = "cancel"
    /\ subs' = subs \ {c}
    /\ handler' = [handler EXCEPT ![c] = "close"]
    /\ UNCHANGED <<chan, closed, peer, received, joined, events, panicked, done, diskStatus>>

CloseChannel(c) ==
    /\ handler[c] = "close"
    /\ closed' = closed \cup {c}
    /\ handler' = [handler EXCEPT ![c] = "returned"]
    /\ UNCHANGED <<subs, chan, peer, received, joined, events, panicked, done, diskStatus>>

PeerChanges(c, p) ==
    /\ handler[c] \in {"stream", "encode"}
    /\ peer[c] # "gone" /\ peer[c] # p
    /\ peer' = [peer EXCEPT ![c] = p]
    /\ UNCHANGED <<subs, chan, closed, handler, received, joined, events, panicked, done, diskStatus>>

ManagerStops ==
    /\ ~done
    /\ done' = TRUE
    /\ UNCHANGED <<subs, chan, closed, handler, peer, received, joined, events, panicked, diskStatus>>

HandlerSteps(c) ==
    ClientPublishes(c) \/ Subscribe(c) \/ ScanFails(c) \/ TakeEvent(c) \/ Encode(c) \/ Unsubscribe(c) \/ CloseChannel(c)

BusNext ==
    \/ ManagerStops
    \/ \E next \in Levels : Poll(next)
    \/ \E c \in Conn : \/ AcceptConn(c) \/ HandlerSteps(c) \/ StreamDone(c)
                       \/ \E p \in {"reads", "stalled", "gone"} : PeerChanges(c, p)

\* Handlers are goroutines; the select of serveSubscriber takes ctx.Done
\* sooner or later when both of its cases stay ready.
BusFairness == \A c \in Conn : WF_busVars(HandlerSteps(c)) /\ SF_busVars(StreamDone(c))
BusSpec == BusInit /\ [][BusNext]_busVars /\ BusFairness

-----------------------------------------------------------------------------
\* No event is ever sent on a channel that cancel has closed
\* (eventbus.go:76-88, 104-114): the order of its two halves and the lock of
\* PublishEvent see to it.
NoSendOnClosed == ~panicked

\* A subscriber receives events in the order they were published, none twice
\* and none from before its subscription, however many were dropped.
ReceivedInOrder ==
    \A c \in Conn :
        /\ \A i \in 1 .. Len(received[c]) - 1 : received[c][i] < received[c][i + 1]
        /\ \A i \in DOMAIN received[c] : received[c][i] > joined[c]

\* The two together: subscribers that come and go while events are published
\* break neither the bus nor the order (eventbus.go:74-114).
DeliveryIsSound == NoSendOnClosed /\ ReceivedInOrder

\* The diskStatus the monitor reports is the one its last disk event announced,
\* unless it is back to "ok", of which no subscriber is told
\* (diskmon.go:115-164, run.go:185-208).
StatusWasAnnounced ==
    diskStatus # "ok" =>
        \E i \in DOMAIN events :
            /\ events[i] = (IF diskStatus = "warn" THEN "disk.warn" ELSE "disk.critical")
            /\ \A j \in DOMAIN events : j > i => events[j] = "client"

\* When the manager stops, the handler of every connection returns, unless its
\* peer stops reading: Encode has no deadline (server.go:103-124).
HandlersReturn ==
    \A c \in Conn :
        (done /\ handler[c] # "none") ~> (handler[c] = "returned" \/ peer[c] = "stalled")
=============================================================================

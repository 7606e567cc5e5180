------------------------------- MODULE Broker -------------------------------
(***************************************************************************)
(* The consuming side of BrokerService in packages/broker-sdk: one service  *)
(* with one subscription, its three queues at RabbitMQ, the handlers it      *)
(* runs, and the loop that reconnects it.                                   *)
(*                                                                         *)
(* A handler remembers the channel and the delivery tag its message came    *)
(* with, but ack, nack and sendToQueue go to this.channel, whichever that is *)
(* when the handler ends.  RabbitMQ closes a channel first and the service   *)
(* is told later: frames sent in between are lost.  Time is not modelled, so *)
(* the delays of the retry queue and of the reconnect are left out.          *)
(***************************************************************************)
EXTENDS Naturals, FiniteSets

CONSTANTS
    Messages,           \* events routed to the subscription's queue
    Malformed,          \* those whose payload is not JSON
    MaxRetryAttempts,   \* MAX_RETRY_ATTEMPTS
    Prefetch,           \* unacknowledged deliveries RabbitMQ allows a channel
    MaxChannels,        \* bound: channels ever opened
    MaxFaults,          \* bound: connections lost, crashes, shutdowns and failed connects
    None                \* this.channel is undefined

ASSUME MalformedAssumption == Malformed \subseteq Messages
ASSUME LimitsAssumption == {MaxRetryAttempts, Prefetch, MaxChannels, MaxFaults} \subseteq Nat
ASSUME NoneAssumption == None \notin Nat

Channels == 1..MaxChannels

\* A message with its x-bumpa-retry-count header.
Copies == [msg : Messages, count : 0..MaxRetryAttempts]

VARIABLES
    published,  \* messages the broker has routed to the queue
    queue,      \* how many of each copy are in <queue>
    retry,      \* how many of each copy are in <queue>.retry
    dlq,        \* copies in <queue>.dlq
    unacked,    \* deliveries RabbitMQ has no answer to
    open,       \* channels open at RabbitMQ
    half,       \* connections still open although their channel is closed
    consuming,  \* channels channel.consume has been called on
    last,       \* the newest channel
    tags,       \* deliveries made so far on each channel
    notices,    \* connections whose close events have not reached the service
    channel,    \* this.channel
    connector,  \* the reconnect loop: idle, or where it is; down after onModuleDestroy
    running,    \* deliveries whose handler has not ended
    handled,    \* history: messages some handler has succeeded on
    failures,   \* history: handler runs that threw, per message
    crossed,    \* history: an answer has gone to a channel it does not belong to
    faults      \* history: faults so far

queues == <<queue, retry, dlq, unacked>>
channels == <<open, half, consuming, last, tags, notices>>
service == <<channel, connector, running>>
history == <<handled, failures, crossed, faults>>
vars == <<published, queue, retry, dlq, unacked, open, half, consuming, last, tags, notices,
          channel, connector, running, handled, failures, crossed, faults>>

Delivery == [copy : Copies, chan : Channels, tag : Nat]

TypeOK ==
    /\ published \in SUBSET Messages
    /\ queue \in [Copies -> Nat]
    /\ retry \in [Copies -> Nat]
    /\ dlq \in SUBSET Copies
    /\ unacked \in SUBSET Delivery
    /\ \A c \in Channels : Cardinality({u \in unacked : u.chan = c}) <= Prefetch
    /\ open \in SUBSET Channels
    /\ half \in SUBSET Channels
    /\ consuming \in SUBSET Channels
    /\ last \in 0..MaxChannels
    /\ tags \in [Channels -> Nat]
    /\ notices \in SUBSET Channels
    /\ channel \in Channels \cup {None}
    /\ connector \in {"idle", "timer", "connecting", "binding", "down"}
    /\ running \in SUBSET Delivery
    /\ handled \in SUBSET Messages
    /\ failures \in [Messages -> Nat]
    /\ crossed \in BOOLEAN
    /\ faults \in Nat

\* The queues exist and the process is about to connect for the first time.
Init ==
    /\ published = {}
    /\ queue = [x \in Copies |-> 0]
    /\ retry = [x \in Copies |-> 0]
    /\ dlq = {}
    /\ unacked = {}
    /\ open = {}
    /\ half = {}
    /\ consuming = {}
    /\ last = 0
    /\ tags = [c \in Channels |-> 0]
    /\ notices = {}
    /\ channel = None
    /\ connector = "timer"
    /\ running = {}
    /\ handled = {}
    /\ failures = [m \in Messages |-> 0]
    /\ crossed = FALSE
    /\ faults = 0

Fault ==
    /\ faults < MaxFaults
    /\ faults' = faults + 1

-----------------------------------------------------------------------------
(* RabbitMQ. *)

\* Another service's publish: the topic exchange routes the event to the queue.
Publish(m) ==
    /\ m \notin published
    /\ published' = published \cup {m}
    /\ queue' = [queue EXCEPT ![[msg |-> m, count |-> 0]] = @ + 1]
    /\ UNCHANGED <<retry, dlq, unacked, channels, service, history>>

\* channel.prefetch(10)
PrefetchAllows(c) == Cardinality({u \in unacked : u.chan = c}) < Prefetch

\* A copy goes to a consumer, whose callback starts handleMessage.  The null message of a
\* consumer that RabbitMQ itself cancels (its queue was deleted) is left out.
Deliver(x, c) ==
    LET d == [copy |-> x, chan |-> c, tag |-> tags[c] + 1] IN
    /\ c \in open \cap consuming
    /\ queue[x] > 0
    /\ PrefetchAllows(c)
    /\ queue' = [queue EXCEPT ![x] = @ - 1]
    /\ unacked' = unacked \cup {d}
    /\ running' = running \cup {d}
    /\ tags' = [tags EXCEPT ![c] = @ + 1]
    /\ UNCHANGED <<published, retry, dlq, open, half, consuming, last, notices, channel, connector, history>>

\* The expiration of a copy in <queue>.retry: it is dead-lettered to <queue>.
Expire(x) ==
    /\ retry[x] > 0
    /\ retry' = [retry EXCEPT ![x] = @ - 1]
    /\ queue' = [queue EXCEPT ![x] = @ + 1]
    /\ UNCHANGED <<published, dlq, unacked, channels, service, history>>

\* What was not answered on the channels of C is in the queue again.
Requeue(C) ==
    /\ unacked' = {u \in unacked : u.chan \notin C}
    /\ queue' = [x \in Copies |-> queue[x] + Cardinality({u \in unacked : u.chan \in C /\ u.copy = x})]

\* The connection of channel c is lost.
ConnectionLost(c) ==
    /\ open' = open \ {c}
    /\ half' = half \ {c}
    /\ notices' = notices \cup {c}
    /\ Requeue({c})

Disconnect(c) ==
    /\ c \in open \cup half
    /\ Fault
    /\ ConnectionLost(c)
    /\ UNCHANGED <<published, retry, dlq, consuming, last, tags, service, handled, failures, crossed>>

-----------------------------------------------------------------------------
(* handleMessage *)

\* The delivery an answer with the tag of d on this.channel is taken for.
Meant(d) == {u \in unacked : u.chan = channel /\ u.tag = d.tag}

\* safeAck (dead = FALSE) and safeNack (dead = TRUE): without a channel, or on one
\* that is closed already, they do nothing; a tag the channel does not know closes it
\* (PRECONDITION_FAILED) and leaves its connection open.
Answer(d, dead) ==
    /\ crossed' = (crossed \/ (channel \in open /\ channel # d.chan))
    /\ \/ /\ channel \notin open
          /\ UNCHANGED <<queue, dlq, unacked, open, half, notices>>
       \/ /\ channel \in open
          /\ Meant(d) # {}
          /\ unacked' = unacked \ Meant(d)
          /\ dlq' = IF dead THEN dlq \cup {u.copy : u \in Meant(d)} ELSE dlq
          /\ UNCHANGED <<queue, open, half, notices>>
       \/ /\ channel \in open
          /\ Meant(d) = {}
          /\ open' = open \ {channel}
          /\ half' = half \cup {channel}
          /\ notices' = notices \cup {channel}
          /\ Requeue({channel})
          /\ UNCHANGED dlq

Ends(d) == running' = running \ {d}

\* JSON.parse throws: no retry.
ParseFails(d) ==
    /\ d \in running
    /\ d.copy.msg \in Malformed
    /\ Answer(d, TRUE)
    /\ Ends(d)
    /\ UNCHANGED <<published, retry, consuming, last, tags, channel, connector, handled, failures, faults>>

Succeeds(d) ==
    /\ d \in running
    /\ d.copy.msg \notin Malformed
    /\ handled' = handled \cup {d.copy.msg}
    /\ Answer(d, FALSE)
    /\ Ends(d)
    /\ UNCHANGED <<published, retry, consuming, last, tags, channel, connector, failures, faults>>

\* Mutant of OutOfRetries: the attempt that just failed is counted too.
OutOfRetries_Early(x) == x.count + 1 >= MaxRetryAttempts

OutOfRetries(x) == x.count >= MaxRetryAttempts

\* The handler's promise is rejected.
Rejects(d) ==
    /\ d \in running
    /\ d.copy.msg \notin Malformed
    /\ failures' = [failures EXCEPT ![d.copy.msg] = @ + 1]
    /\ Ends(d)

\* The final attempt fails.
DeadLetters(d) ==
    /\ Rejects(d)
    /\ OutOfRetries(d.copy)
    /\ Answer(d, TRUE)
    /\ UNCHANGED <<published, retry, consuming, last, tags, channel, connector, handled, faults>>

\* Mutant of SendToRetry: the copy is not sent.
SendToRetry_Lost(x) == UNCHANGED retry

\* scheduleRedelivery: sendToQueue reaches RabbitMQ if this.channel is open there.
SendToRetry(x) ==
    IF channel \in open
    THEN retry' = [retry EXCEPT ![[x EXCEPT !.count = @ + 1]] = @ + 1]
    ELSE UNCHANGED retry

\* An earlier attempt fails: send a copy to the retry queue, then ack.
SchedulesRetry(d) ==
    /\ Rejects(d)
    /\ ~OutOfRetries(d.copy)
    /\ SendToRetry(d.copy)
    /\ Answer(d, FALSE)
    /\ UNCHANGED <<published, consuming, last, tags, channel, connector, handled, faults>>

\* The same, but the connection is lost between the two frames.
LosesAckOfRetry(d) ==
    /\ Rejects(d)
    /\ ~OutOfRetries(d.copy)
    /\ channel \in open
    /\ Fault
    /\ SendToRetry(d.copy)
    /\ ConnectionLost(channel)
    /\ UNCHANGED <<published, dlq, consuming, last, tags, channel, connector, handled, crossed>>

HandlerEnds(d) == ParseFails(d) \/ Succeeds(d) \/ DeadLetters(d) \/ SchedulesRetry(d)

-----------------------------------------------------------------------------
(* The connection. *)

\* handleConnectionIssue, for an event of any connection, and scheduleReconnect, which
\* leaves a reconnect that is under way alone.
HandleConnectionIssue(c) ==
    /\ c \in notices
    /\ notices' = notices \ {c}
    /\ IF connector = "down"
       THEN UNCHANGED <<channel, connector>>
       ELSE /\ channel' = None
            /\ connector' = IF connector = "idle" THEN "timer" ELSE connector
    /\ UNCHANGED <<published, queues, open, half, consuming, last, tags, running, history>>

\* The reconnect timer fires, or a new process boots.
TimerFires ==
    /\ connector = "timer"
    /\ connector' = "connecting"
    /\ UNCHANGED <<published, queues, channels, channel, running, history>>

\* connectAndSetup up to this.channel = channel.
Connect ==
    /\ connector = "connecting"
    /\ last < MaxChannels
    /\ last' = last + 1
    /\ open' = open \cup {last + 1}
    /\ channel' = last + 1
    /\ connector' = "binding"
    /\ UNCHANGED <<published, queues, half, consuming, tags, notices, running, history>>

\* Mutant of Finally: a reconnect that fails is the last one.
Finally_GivesUp == connector' = "idle"

\* .finally: without a channel, scheduleReconnect.
Finally == connector' = IF channel = None THEN "timer" ELSE "idle"

ConnectFails ==
    /\ connector = "connecting"
    /\ Fault
    /\ Finally
    /\ UNCHANGED <<published, queues, channels, channel, running, handled, failures, crossed>>

\* Mutant of Bind: the subscriptions are not replayed.
Bind_NoReplay ==
    /\ connector = "binding"
    /\ last \in open
    /\ Finally
    /\ UNCHANGED <<published, queues, channels, channel, running, history>>

\* bindAndConsume succeeds; it holds on to the channel it began with even if
\* this.channel has been cleared since.
Bind ==
    /\ connector = "binding"
    /\ last \in open
    /\ consuming' = consuming \cup {last}
    /\ Finally
    /\ UNCHANGED <<published, queues, open, half, last, tags, notices, channel, running, history>>

\* bindAndConsume throws: this.channel has been cleared.
BindFails ==
    /\ connector = "binding"
    /\ channel = None
    /\ Finally
    /\ UNCHANGED <<published, queues, channels, channel, running, history>>

\* onModuleDestroy: the channel and the connection are closed.
OnModuleDestroy ==
    /\ connector # "down"
    /\ Fault
    /\ connector' = "down"
    /\ channel' = None
    /\ open' = open \ {channel}
    /\ Requeue({channel})
    /\ UNCHANGED <<published, retry, dlq, half, consuming, last, tags, notices, running, handled, failures, crossed>>

\* The process ends, its sockets with it, and another one is started.
Restart ==
    /\ running' = {}
    /\ channel' = None
    /\ connector' = "timer"
    /\ open' = {}
    /\ half' = {}
    /\ notices' = {}
    /\ Requeue(open)
    /\ UNCHANGED <<published, retry, dlq, consuming, last, tags, handled, failures, crossed>>

\* After onModuleDestroy.
Exit ==
    /\ connector = "down"
    /\ Restart
    /\ UNCHANGED faults

Crash ==
    /\ Fault
    /\ Restart

Reconnecting == TimerFires \/ Connect \/ Bind \/ BindFails \/ Exit

Next ==
    \/ \E m \in Messages : Publish(m)
    \/ \E x \in Copies : Expire(x) \/ \E c \in Channels : Deliver(x, c)
    \/ \E d \in running : HandlerEnds(d) \/ LosesAckOfRetry(d)
    \/ \E c \in Channels : Disconnect(c) \/ HandleConnectionIssue(c)
    \/ Reconnecting \/ ConnectFails
    \/ OnModuleDestroy \/ Crash

Spec == Init /\ [][Next]_vars

\* Handlers end, events and timers fire, RabbitMQ delivers and expires.
FairSpec ==
    /\ Spec
    /\ WF_vars(Reconnecting)
    /\ WF_vars(\E c \in Channels : HandleConnectionIssue(c))
    /\ WF_vars(\E d \in running : HandlerEnds(d))
    /\ WF_vars(\E x \in Copies : Expire(x))
    /\ WF_vars(\E x \in Copies, c \in Channels : Deliver(x, c))

-----------------------------------------------------------------------------
(* Properties. *)

Waiting(m) == \E x \in Copies : x.msg = m /\ (queue[x] > 0 \/ retry[x] > 0 \/ x \in dlq)

InFlight(m) == \E u \in unacked : u.copy.msg = m

\* A message no handler has succeeded on is in one of the three queues or unanswered,
\* through reconnects, crashes and retries whose ack is lost, as long as no handler
\* outlives its channel and answers on the next one.
LostOnlyByCrossedAnswer ==
    crossed \/ \A m \in published : m \in handled \/ Waiting(m) \/ InFlight(m)

\* A well-formed message reaches the dead-letter queue only after its handler failed
\* MAX_RETRY_ATTEMPTS + 1 times: the header is never ahead of the failures, although
\* copies multiply when an ack is lost.
DeadLettersHadTheirRuns ==
    crossed \/ \A x \in dlq : x.msg \in Malformed \/ failures[x.msg] > MaxRetryAttempts

\* Whenever the reconnect loop rests, the service consumes on an open channel or is
\* about to hear that it does not, whatever events of older connections come between.
ConsumptionIsRestored ==
    connector = "idle" =>
        /\ channel # None
        /\ channel \in open \cap consuming \/ channel \in notices

\* Every message is handled or dead-lettered in the end, unless an answer crossed.
EveryMessageSettles ==
    \A m \in Messages : m \in published ~> m \in handled \/ (\E x \in dlq : x.msg = m) \/ crossed
=============================================================================

---------------------------- MODULE BrokerProofs ----------------------------
(***************************************************************************)
(* Proofs about Broker for any number of messages, retries, channels and    *)
(* faults.  The argument has three parts: deliveries keep distinct tags, so  *)
(* an answer on the delivery's own channel is taken for that delivery;       *)
(* closing a channel puts back what was not answered on it; and the retry    *)
(* header of a copy never exceeds the failures of its message.               *)
(***************************************************************************)
EXTENDS Broker, FiniteSetTheorems, TLAPS

\* RabbitMQ has given out finitely many deliveries, numbered per channel, and a
\* handler's (channel, tag) pair names its own delivery and no other.
TagsInv ==
    /\ IsFiniteSet(unacked)
    /\ \A d \in unacked \cup running : d.tag <= tags[d.chan]
    /\ \A u \in unacked, d \in running : u.chan = d.chan /\ u.tag = d.tag => u = d

\* The retry header of any copy is at most the failures of its message.
CountInv ==
    /\ \A x \in Copies : queue[x] > 0 \/ retry[x] > 0 => x.count <= failures[x.msg]
    /\ \A d \in unacked \cup running : d.copy.count <= failures[d.copy.msg]

\* Where this.channel is, depending on the reconnect loop.
ConnectorInv ==
    /\ connector \in {"timer", "connecting"} => channel = None
    /\ connector = "binding" => channel = None \/ (channel = last /\ last \in open \cup notices)

QueueInv == TypeOK /\ TagsInv

-----------------------------------------------------------------------------
\* Closing channels moves what was not answered on them back to the queue, and adds
\* nothing to it that was not unanswered.
LEMMA RequeueFacts ==
    ASSUME QueueInv, NEW C, Requeue(C)
    PROVE  /\ queue' \in [Copies -> Nat]
           /\ unacked' \subseteq unacked
           /\ \A u \in unacked : u.chan \in C => queue'[u.copy] > 0
           /\ \A u \in unacked : u.chan \notin C => u \in unacked'
           /\ \A x \in Copies : queue[x] > 0 => queue'[x] > 0
           /\ \A x \in Copies : queue'[x] > 0 => queue[x] > 0 \/ \E u \in unacked : u.copy = x
  <1> DEFINE Back(x) == {u \in unacked : u.chan \in C /\ u.copy = x}
  <1>1. /\ IsFiniteSet(unacked) /\ queue \in [Copies -> Nat] /\ unacked \subseteq Delivery
        /\ queue' = [x \in Copies |-> queue[x] + Cardinality(Back(x))]
        /\ unacked' = {u \in unacked : u.chan \notin C}
    BY DEF QueueInv, TypeOK, TagsInv, Requeue
  <1>2. ASSUME NEW x \in Copies
        PROVE  /\ Cardinality(Back(x)) \in Nat
               /\ Cardinality(Back(x)) = 0 <=> Back(x) = {}
    <2>1. Back(x) \subseteq unacked
      OBVIOUS
    <2>2. IsFiniteSet(Back(x))
      BY <1>1, <2>1, FS_Subset
    <2> QED
      BY <2>2, FS_CardinalityType, FS_EmptySet
  <1> HIDE DEF Back
  <1>3. queue' \in [Copies -> Nat] /\ \A x \in Copies : queue[x] > 0 => queue'[x] > 0
    BY <1>1, <1>2
  <1>4. ASSUME NEW u \in unacked, u.chan \in C
        PROVE  queue'[u.copy] > 0
    <2>1. u.copy \in Copies /\ u \in Back(u.copy)
      BY <1>1, <1>4 DEF Back, Delivery
    <2> QED
      BY <2>1, <1>1, <1>2
  <1>5. ASSUME NEW x \in Copies, queue'[x] > 0, ~(queue[x] > 0)
        PROVE  \E u \in unacked : u.copy = x
    <2>1. Back(x) # {}
      BY <1>1, <1>2, <1>5
    <2> QED
      BY <2>1 DEF Back
  <1> QED
    BY <1>1, <1>3, <1>4, <1>5

\* What an ack or a nack does: it takes away its own delivery unless it crosses,
\* dead-letters it if it is a nack, and otherwise loses nothing.
LEMMA AnswerFacts ==
    ASSUME QueueInv, NEW d \in running, NEW dead \in BOOLEAN, Answer(d, dead)
    PROVE  /\ queue' \in [Copies -> Nat]
           /\ unacked' \subseteq unacked
           /\ dlq \subseteq dlq' /\ dlq' \subseteq Copies
           /\ open' \subseteq open /\ half' \subseteq Channels /\ notices' \subseteq Channels
           /\ open \subseteq open' \cup {channel} /\ notices \subseteq notices'
           /\ channel \in open => channel \in open' \cup notices'
           /\ crossed' \in BOOLEAN /\ (crossed => crossed')
           /\ \A x \in Copies : queue[x] > 0 => queue'[x] > 0
           /\ \A x \in Copies : queue'[x] > 0 => queue[x] > 0 \/ \E u \in unacked : u.copy = x
           /\ ~crossed' =>
                /\ \A u \in unacked \ unacked' :
                     \/ queue'[u.copy] > 0
                     \/ channel \in open /\ u = d /\ (dead => u.copy \in dlq')
                /\ \A x \in dlq' \ dlq : dead /\ x = d.copy
  <1>1. /\ queue \in [Copies -> Nat] /\ unacked \subseteq Delivery /\ dlq \subseteq Copies
        /\ open \subseteq Channels /\ half \subseteq Channels /\ notices \subseteq Channels
        /\ crossed \in BOOLEAN
    BY DEF QueueInv, TypeOK
  <1>2. crossed' = (crossed \/ (channel \in open /\ channel # d.chan))
    BY DEF Answer
  <1>3. CASE channel \notin open /\ UNCHANGED <<queue, dlq, unacked, open, half, notices>>
    BY <1>1, <1>2, <1>3
  <1>4. CASE /\ channel \in open
             /\ unacked' = unacked \ Meant(d)
             /\ dlq' = IF dead THEN dlq \cup {u.copy : u \in Meant(d)} ELSE dlq
             /\ UNCHANGED <<queue, open, half, notices>>
    <2>1. Meant(d) \subseteq unacked
      BY DEF Meant
    <2>2. ~crossed' => \A u \in Meant(d) : u = d
      BY <1>2, <1>4 DEF Meant, QueueInv, TagsInv
    <2>3. \A u \in unacked : u.copy \in Copies
      BY <1>1 DEF Delivery
    <2> QED
      BY <1>1, <1>2, <1>4, <2>1, <2>2, <2>3
  <1>5. CASE /\ channel \in open
             /\ open' = open \ {channel}
             /\ half' = half \cup {channel}
             /\ notices' = notices \cup {channel}
             /\ Requeue({channel})
             /\ UNCHANGED dlq
    <2>1. \A u \in unacked \ unacked' : queue'[u.copy] > 0
      BY <1>5, RequeueFacts
    <2> QED
      BY <1>1, <1>2, <1>5, <2>1, RequeueFacts
  <1> QED
    BY <1>3, <1>4, <1>5 DEF Answer

-----------------------------------------------------------------------------
(* The type invariant and the tags. *)

\* Fewer unanswered deliveries stay finite, numbered and within the prefetch.
LEMMA FewerUnacked ==
    ASSUME QueueInv, unacked' \subseteq unacked
    PROVE  /\ unacked' \in SUBSET Delivery
           /\ IsFiniteSet(unacked')
           /\ \A c \in Channels : Cardinality({u \in unacked' : u.chan = c}) <= Prefetch
  <1>1. IsFiniteSet(unacked) /\ unacked \subseteq Delivery
    BY DEF QueueInv, TagsInv, TypeOK
  <1>2. ASSUME NEW c \in Channels
        PROVE  Cardinality({u \in unacked' : u.chan = c}) <= Prefetch
    <2> DEFINE On(S) == {u \in S : u.chan = c}
    <2>1. On(unacked') \in SUBSET On(unacked) /\ On(unacked) \in SUBSET unacked
      OBVIOUS
    <2>2. Cardinality(On(unacked)) <= Prefetch
      BY DEF QueueInv, TypeOK
    <2> HIDE DEF On
    <2>3. IsFiniteSet(On(unacked))
      BY <1>1, <2>1, FS_Subset
    <2>4. /\ Cardinality(On(unacked')) <= Cardinality(On(unacked))
          /\ IsFiniteSet(On(unacked'))
      BY <2>1, <2>3, FS_Subset
    <2>5. Cardinality(On(unacked)) \in Nat /\ Cardinality(On(unacked')) \in Nat /\ Prefetch \in Nat
      BY <2>3, <2>4, FS_CardinalityType, LimitsAssumption
    <2>6. Cardinality(On(unacked')) <= Prefetch
      BY <2>2, <2>4, <2>5
    <2> QED
      BY <2>6 DEF On
  <1> QED
    BY <1>1, <1>2, FS_Subset

\* The unanswered deliveries of a step that neither delivers nor numbers anything.
LEMMA NoDelivery ==
    ASSUME QueueInv, unacked' \subseteq unacked, running' \subseteq running, UNCHANGED tags
    PROVE  TagsInv' /\ unacked' \in SUBSET Delivery /\ running' \in SUBSET Delivery
           /\ \A c \in Channels : Cardinality({u \in unacked' : u.chan = c}) <= Prefetch
  <1>1. TagsInv'
    BY FewerUnacked DEF QueueInv, TagsInv
  <1>2. running' \in SUBSET Delivery
    BY DEF QueueInv, TypeOK
  <1> QED
    BY <1>1, <1>2, FewerUnacked

\* A new process has the types.
LEMMA QueueInit == Init => QueueInv
  <1> SUFFICES ASSUME Init PROVE QueueInv
    OBVIOUS
  <1>1. TagsInv
    BY FS_EmptySet DEF Init, TagsInv
  <1>2. \A c \in Channels : Cardinality({u \in unacked : u.chan = c}) <= Prefetch
    <2>1. \A c \in Channels : {u \in unacked : u.chan = c} = {}
      BY DEF Init
    <2> QED
      BY <2>1, FS_EmptySet, LimitsAssumption
  <1>3. last \in 0..MaxChannels
    BY LimitsAssumption DEF Init
  <1>4. TypeOK
    BY <1>2, <1>3 DEF Init, TypeOK
  <1> QED
    BY <1>1, <1>4 DEF QueueInv

\* A delivery takes the next tag of its channel.
LEMMA DeliverKeepsTags ==
    ASSUME QueueInv, NEW x \in Copies, NEW c \in Channels, Deliver(x, c)
    PROVE  QueueInv'
  <1> DEFINE d == [copy |-> x, chan |-> c, tag |-> tags[c] + 1]
  <1>1. /\ IsFiniteSet(unacked) /\ unacked \subseteq Delivery /\ running \subseteq Delivery
        /\ tags \in [Channels -> Nat] /\ queue \in [Copies -> Nat]
    BY DEF QueueInv, TypeOK, TagsInv
  <1>2. /\ d \in Delivery /\ unacked' = unacked \cup {d} /\ running' = running \cup {d}
        /\ tags' = [tags EXCEPT ![c] = @ + 1]
        /\ d.chan = c /\ d.tag = tags[c] + 1
    BY <1>1 DEF Deliver, Delivery
  <1>3. IsFiniteSet(unacked')
    BY <1>1, <1>2, FS_AddElement
  <1>4. /\ \A e \in unacked \cup running : e.chan \in Channels /\ e.tag \in Nat
        /\ \A e \in unacked \cup running : e.tag <= tags[e.chan]
        /\ \A u \in unacked, e \in running : u.chan = e.chan /\ u.tag = e.tag => u = e
    BY <1>1 DEF QueueInv, TagsInv, Delivery
  <1> HIDE DEF d
  <1>5. \A e \in unacked' \cup running' : e.tag <= tags'[e.chan]
    BY <1>1, <1>2, <1>4
  <1>6. \A e \in unacked \cup running : e.chan = d.chan => e.tag # d.tag
    BY <1>1, <1>2, <1>4
  <1>7. \A u \in unacked', e \in running' : u.chan = e.chan /\ u.tag = e.tag => u = e
    BY <1>2, <1>4, <1>6
  <1>8. ASSUME NEW b \in Channels
        PROVE  Cardinality({u \in unacked' : u.chan = b}) <= Prefetch
    <2> DEFINE On(S) == {u \in S : u.chan = b}
    <2>1. /\ Cardinality(On(unacked)) <= Prefetch
          /\ b = c => Cardinality(On(unacked)) < Prefetch
      BY DEF QueueInv, TypeOK, Deliver, PrefetchAllows
    <2>2. IsFiniteSet(On(unacked))
      <3>1. On(unacked) \in SUBSET unacked
        OBVIOUS
      <3> QED
        BY <3>1, <1>1, FS_Subset
    <2>3. /\ b # c => On(unacked') = On(unacked)
          /\ b = c => On(unacked') = On(unacked) \cup {d}
      BY <1>2
    <2> HIDE DEF On
    <2>4. /\ Cardinality(On(unacked)) \in Nat /\ Prefetch \in Nat
          /\ \/ Cardinality(On(unacked) \cup {d}) = Cardinality(On(unacked))
             \/ Cardinality(On(unacked) \cup {d}) = Cardinality(On(unacked)) + 1
      BY <2>2, FS_CardinalityType, FS_AddElement, LimitsAssumption
    <2>5. CASE b = c
      <3>1. Cardinality(On(unacked')) = Cardinality(On(unacked) \cup {d})
        BY <2>3, <2>5
      <3>2. Cardinality(On(unacked')) <= Prefetch
        BY <2>1, <2>4, <2>5, <3>1
      <3> QED
        BY <3>2 DEF On
    <2>6. CASE b # c
      <3>1. Cardinality(On(unacked')) <= Prefetch
        BY <2>1, <2>3, <2>6
      <3> QED
        BY <3>1 DEF On
    <2> QED
      BY <2>5, <2>6
  <1>9. queue' \in [Copies -> Nat] /\ tags' \in [Channels -> Nat]
    BY <1>1, <1>2 DEF Deliver
  <1>10. TypeOK'
    BY <1>1, <1>2, <1>8, <1>9 DEF QueueInv, TypeOK, Deliver, history
  <1> QED
    BY <1>3, <1>5, <1>7, <1>10 DEF QueueInv, TagsInv

\* scheduleRedelivery adds one copy whose header is one higher.
LEMMA RetryFacts ==
    ASSUME QueueInv, NEW x \in Copies, ~OutOfRetries(x), SendToRetry(x)
    PROVE  /\ retry' \in [Copies -> Nat]
           /\ \A y \in Copies : retry[y] > 0 => retry'[y] > 0
           /\ \E z \in Copies :
                /\ z.msg = x.msg /\ z.count = x.count + 1
                /\ channel \in open => retry'[z] > 0
                /\ \A y \in Copies : retry'[y] > 0 => retry[y] > 0 \/ y = z
  <1> DEFINE z == [x EXCEPT !.count = @ + 1]
  <1>1. z \in Copies /\ z.msg = x.msg /\ z.count = x.count + 1
    BY LimitsAssumption DEF Copies, OutOfRetries
  <1>2. retry \in [Copies -> Nat]
    BY DEF QueueInv, TypeOK
  <1>3. \/ channel \in open /\ retry' = [retry EXCEPT ![z] = @ + 1]
        \/ channel \notin open /\ retry' = retry
    BY DEF SendToRetry
  <1> HIDE DEF z
  <1> QED
    BY <1>1, <1>2, <1>3

\* Every step keeps the types and the tags.
LEMMA QueueStep == QueueInv /\ [Next]_vars => QueueInv'
  <1> SUFFICES ASSUME QueueInv, [Next]_vars PROVE QueueInv'
    OBVIOUS
  <1> USE DEF queues, channels, service, history
  <1>0. CASE UNCHANGED vars
    BY <1>0 DEF vars, QueueInv, TypeOK, TagsInv
  <1>1. ASSUME NEW m \in Messages, Publish(m) PROVE QueueInv'
    <2>1. [msg |-> m, count |-> 0] \in Copies
      BY LimitsAssumption DEF Copies
    <2> QED
      BY <1>1, <2>1, NoDelivery DEF Publish, QueueInv, TypeOK
  <1>2. ASSUME NEW x \in Copies, Expire(x) PROVE QueueInv'
    BY <1>2, NoDelivery DEF Expire, QueueInv, TypeOK
  <1>3. ASSUME NEW x \in Copies, NEW c \in Channels, Deliver(x, c) PROVE QueueInv'
    BY <1>3, DeliverKeepsTags
  <1>4. ASSUME NEW d \in running, HandlerEnds(d) PROVE QueueInv'
    <2>1. d.copy \in Copies /\ d.copy.msg \in Messages
      BY DEF QueueInv, TypeOK, Delivery, Copies
    <2>2. CASE ParseFails(d)
      BY <2>2, AnswerFacts, NoDelivery DEF ParseFails, Ends, QueueInv, TypeOK
    <2>3. CASE Succeeds(d)
      BY <2>1, <2>3, AnswerFacts, NoDelivery DEF Succeeds, Ends, QueueInv, TypeOK
    <2>4. Rejects(d) => failures' \in [Messages -> Nat] /\ running' \subseteq running
      BY <2>1 DEF Rejects, Ends, QueueInv, TypeOK
    <2>5. CASE DeadLetters(d)
      <3>1. failures' \in [Messages -> Nat] /\ running' \subseteq running
        BY <2>5, <2>4 DEF DeadLetters
      <3> QED
        BY <2>5, <3>1, AnswerFacts, NoDelivery DEF DeadLetters, QueueInv, TypeOK
    <2>6. CASE SchedulesRetry(d)
      <3>1. retry' \in [Copies -> Nat]
        BY <2>1, <2>6, RetryFacts DEF SchedulesRetry
      <3>2. failures' \in [Messages -> Nat] /\ running' \subseteq running
        BY <2>6, <2>4 DEF SchedulesRetry
      <3> QED
        BY <2>6, <3>1, <3>2, AnswerFacts, NoDelivery DEF SchedulesRetry, QueueInv, TypeOK
    <2> QED
      BY <1>4, <2>2, <2>3, <2>5, <2>6 DEF HandlerEnds
  <1>5. ASSUME NEW d \in running, LosesAckOfRetry(d) PROVE QueueInv'
    <2>1. d.copy \in Copies /\ d.copy.msg \in Messages /\ channel \in Channels
      BY <1>5 DEF QueueInv, TypeOK, Delivery, Copies, LosesAckOfRetry
    <2>2. retry' \in [Copies -> Nat]
      BY <2>1, <1>5, RetryFacts DEF LosesAckOfRetry
    <2>3. queue' \in [Copies -> Nat] /\ unacked' \subseteq unacked
      BY <1>5, RequeueFacts DEF LosesAckOfRetry, ConnectionLost
    <2> QED
      BY <1>5, <2>1, <2>2, <2>3, NoDelivery
      DEF LosesAckOfRetry, ConnectionLost, Rejects, Ends, Fault, QueueInv, TypeOK
  <1>6. ASSUME NEW c \in Channels, Disconnect(c) PROVE QueueInv'
    <2>1. queue' \in [Copies -> Nat] /\ unacked' \subseteq unacked
      BY <1>6, RequeueFacts DEF Disconnect, ConnectionLost
    <2> QED
      BY <1>6, <2>1, NoDelivery DEF Disconnect, ConnectionLost, Fault, QueueInv, TypeOK
  <1>7. ASSUME NEW c \in Channels, HandleConnectionIssue(c) PROVE QueueInv'
    BY <1>7, NoDelivery DEF HandleConnectionIssue, QueueInv, TypeOK
  <1>8. CASE TimerFires
    BY <1>8, NoDelivery DEF TimerFires, QueueInv, TypeOK
  <1>9. CASE Connect
    <2>1. last + 1 \in Channels /\ last + 1 \in 0..MaxChannels
      BY <1>9, LimitsAssumption DEF Connect, QueueInv, TypeOK, Channels
    <2> QED
      BY <1>9, <2>1, NoDelivery DEF Connect, QueueInv, TypeOK
  <1>10. CASE Bind
    <2>1. last \in Channels
      BY <1>10 DEF Bind, QueueInv, TypeOK
    <2> QED
      BY <1>10, <2>1, NoDelivery DEF Bind, Finally, QueueInv, TypeOK
  <1>11. CASE BindFails
    BY <1>11, NoDelivery DEF BindFails, Finally, QueueInv, TypeOK
  <1>12. CASE ConnectFails
    BY <1>12, NoDelivery DEF ConnectFails, Finally, Fault, QueueInv, TypeOK
  <1>13. CASE OnModuleDestroy
    <2>1. queue' \in [Copies -> Nat] /\ unacked' \subseteq unacked
      BY <1>13, RequeueFacts DEF OnModuleDestroy
    <2> QED
      BY <1>13, <2>1, NoDelivery DEF OnModuleDestroy, Fault, QueueInv, TypeOK
  <1>14. CASE Exit \/ Crash
    <2>1. queue' \in [Copies -> Nat] /\ unacked' \subseteq unacked
      BY <1>14, RequeueFacts DEF Exit, Crash, Restart
    <2>2. faults' \in Nat
      BY <1>14 DEF Exit, Crash, Fault, QueueInv, TypeOK
    <2> QED
      BY <1>14, <2>1, <2>2, NoDelivery DEF Exit, Crash, Restart, QueueInv, TypeOK
  <1> QED
    BY <1>0, <1>1, <1>2, <1>3, <1>4, <1>5, <1>6, <1>7, <1>8, <1>9, <1>10, <1>11, <1>12, <1>13, <1>14
    DEF Next, Reconnecting

\* Types and ranges: the retry header never exceeds MAX_RETRY_ATTEMPTS and no channel
\* has more unanswered deliveries than its prefetch, however often it is closed.
THEOREM TypeCorrect == Spec => []TypeOK
  <1>1. QueueInv => TypeOK
    BY DEF QueueInv
  <1> QED
    BY QueueInit, QueueStep, <1>1, PTL DEF Spec

-----------------------------------------------------------------------------
(* The reconnect loop. *)

Restored == ConsumptionIsRestored /\ ConnectorInv

\* Every step keeps the reconnect loop and this.channel in agreement.  An event of an
\* old connection may clear a good channel, but then the loop is at work.
LEMMA RestoredStep == QueueInv /\ Restored /\ [Next]_vars => Restored'
  <1> SUFFICES ASSUME QueueInv, Restored, [Next]_vars PROVE Restored'
    OBVIOUS
  <1> USE DEF queues, channels, service, history, Restored, ConsumptionIsRestored, ConnectorInv
  <1>1. open \subseteq Channels /\ None \notin Channels /\ channel \in Channels \cup {None}
    BY NoneAssumption DEF QueueInv, TypeOK, Channels
  <1>2. CASE UNCHANGED <<channel, connector, open, consuming, last, notices>>
    BY <1>2
  <1>3. ASSUME NEW d \in running, HandlerEnds(d) PROVE Restored'
    <2>1. PICK dead \in BOOLEAN : Answer(d, dead)
      BY <1>3 DEF HandlerEnds, ParseFails, Succeeds, DeadLetters, SchedulesRetry
    <2>2. UNCHANGED <<channel, connector, consuming, last>>
      BY <1>3 DEF HandlerEnds, ParseFails, Succeeds, DeadLetters, SchedulesRetry
    <2>3. notices \subseteq notices' /\ (channel \in open => channel \in open' \cup notices')
      BY <2>1, AnswerFacts
    <2> QED
      BY <2>2, <2>3
  <1>4. ASSUME NEW d \in running, LosesAckOfRetry(d) PROVE Restored'
    BY <1>4 DEF LosesAckOfRetry, ConnectionLost
  <1>5. ASSUME NEW c \in Channels, Disconnect(c) PROVE Restored'
    BY <1>5 DEF Disconnect, ConnectionLost
  <1>6. ASSUME NEW c \in Channels, HandleConnectionIssue(c) PROVE Restored'
    BY <1>6 DEF HandleConnectionIssue
  <1>7. CASE TimerFires
    BY <1>7 DEF TimerFires
  <1>8. CASE Connect
    BY <1>8 DEF Connect
  <1>9. CASE Bind
    BY <1>1, <1>9 DEF Bind, Finally
  <1>10. CASE BindFails
    BY <1>10 DEF BindFails, Finally
  <1>11. CASE ConnectFails
    BY <1>11 DEF ConnectFails, Finally
  <1>12. CASE OnModuleDestroy
    BY <1>12 DEF OnModuleDestroy
  <1>13. CASE Exit \/ Crash
    BY <1>13 DEF Exit, Crash, Restart
  <1>14. ASSUME NEW m \in Messages, Publish(m) PROVE Restored'
    BY <1>2, <1>14 DEF Publish
  <1>15. ASSUME NEW x \in Copies, Expire(x) PROVE Restored'
    BY <1>2, <1>15 DEF Expire
  <1>16. ASSUME NEW x \in Copies, NEW c \in Channels, Deliver(x, c) PROVE Restored'
    BY <1>2, <1>16 DEF Deliver
  <1>17. CASE UNCHANGED vars
    BY <1>2, <1>17 DEF vars
  <1> QED
    BY <1>3, <1>4, <1>5, <1>6, <1>7, <1>8, <1>9, <1>10, <1>11, <1>12, <1>13, <1>14, <1>15, <1>16, <1>17
    DEF Next, Reconnecting

\* A service whose reconnect loop rests consumes, or is about to hear that it does not.
THEOREM ReconnectIsReliable == Spec => []ConsumptionIsRestored
  <1>1. Init => Restored
    BY DEF Init, Restored, ConsumptionIsRestored, ConnectorInv
  <1>2. Restored => ConsumptionIsRestored
    BY DEF Restored
  <1> QED
    BY QueueInit, QueueStep, RestoredStep, <1>1, <1>2, PTL DEF Spec

-----------------------------------------------------------------------------
(* The retry header. *)

\* What a step that only moves copies may do: every copy it leaves in the queue or
\* unanswered was in the queue, in the retry queue or unanswered before.
LEMMA MovedCopies ==
    ASSUME QueueInv, CountInv, UNCHANGED <<retry, failures>>,
           unacked' \subseteq unacked, running' \subseteq running,
           \A x \in Copies : queue'[x] > 0 => queue[x] > 0 \/ \E u \in unacked : u.copy = x
    PROVE  CountInv'
  BY DEF CountInv

\* Every step keeps the header of each copy within its message's failures.
LEMMA CountStep == QueueInv /\ CountInv /\ [Next]_vars => CountInv'
  <1> SUFFICES ASSUME QueueInv, CountInv, [Next]_vars PROVE CountInv'
    OBVIOUS
  <1> USE DEF queues, channels, service, history
  <1>1. /\ queue \in [Copies -> Nat] /\ retry \in [Copies -> Nat] /\ failures \in [Messages -> Nat]
        /\ \A d \in unacked \cup running : d.copy \in Copies
        /\ \A x \in Copies : x.msg \in Messages /\ x.count \in Nat
    BY LimitsAssumption DEF QueueInv, TypeOK, Delivery, Copies
  <1>2. CASE UNCHANGED <<queue, retry, unacked, running, failures>>
    BY <1>2 DEF CountInv
  <1>3. ASSUME NEW m \in Messages, Publish(m) PROVE CountInv'
    <2> DEFINE x == [msg |-> m, count |-> 0]
    <2>1. x \in Copies /\ x.msg = m /\ x.count = 0
      BY LimitsAssumption DEF Copies
    <2>2. /\ queue' = [queue EXCEPT ![x] = @ + 1]
          /\ UNCHANGED <<retry, unacked, running, failures>>
      BY <1>3 DEF Publish
    <2> HIDE DEF x
    <2> QED
      BY <1>1, <2>1, <2>2 DEF CountInv
  <1>4. ASSUME NEW x \in Copies, Expire(x) PROVE CountInv'
    BY <1>1, <1>4 DEF Expire, CountInv
  <1>5. ASSUME NEW x \in Copies, NEW c \in Channels, Deliver(x, c) PROVE CountInv'
    <2>1. PICK d : d.copy = x /\ unacked' = unacked \cup {d} /\ running' = running \cup {d}
      BY <1>5 DEF Deliver
    <2> QED
      BY <1>1, <1>5, <2>1 DEF Deliver, CountInv
  <1>6. ASSUME NEW d \in running, HandlerEnds(d) PROVE CountInv'
    <2>1. PICK dead \in BOOLEAN : Answer(d, dead)
      BY <1>6 DEF HandlerEnds, ParseFails, Succeeds, DeadLetters, SchedulesRetry
    <2>2. /\ unacked' \subseteq unacked
          /\ \A x \in Copies : queue'[x] > 0 => queue[x] > 0 \/ \E u \in unacked : u.copy = x
      BY <2>1, AnswerFacts
    <2>3. running' \subseteq running
      BY <1>6 DEF HandlerEnds, ParseFails, Succeeds, DeadLetters, SchedulesRetry, Rejects, Ends
    <2>4. CASE ParseFails(d) \/ Succeeds(d)
      BY <2>2, <2>3, <2>4, MovedCopies DEF ParseFails, Succeeds
    <2>5. CASE DeadLetters(d) \/ SchedulesRetry(d)
      <3>1. /\ \A m \in Messages : failures[m] <= failures'[m]
            /\ failures'[d.copy.msg] = failures[d.copy.msg] + 1
            /\ failures' \in [Messages -> Nat]
        <4>1. failures' = [failures EXCEPT ![d.copy.msg] = @ + 1]
          BY <2>5 DEF DeadLetters, SchedulesRetry, Rejects
        <4> QED
          BY <1>1, <4>1
      <3>2. d.copy.count <= failures[d.copy.msg]
        BY DEF CountInv
      <3>3. \A x \in Copies : retry'[x] > 0 =>
                retry[x] > 0 \/ (x.msg = d.copy.msg /\ x.count = d.copy.count + 1)
        <4>1. CASE DeadLetters(d)
          BY <4>1 DEF DeadLetters
        <4>2. CASE SchedulesRetry(d)
          BY <1>1, <4>2, RetryFacts DEF SchedulesRetry
        <4> QED
          BY <2>5, <4>1, <4>2
      <3>4. \A x \in Copies : queue[x] > 0 \/ retry[x] > 0 \/ (\E u \in unacked : u.copy = x)
                              => x.count <= failures'[x.msg]
        BY <1>1, <3>1 DEF CountInv
      <3>5. \A x \in Copies : queue'[x] > 0 \/ retry'[x] > 0 => x.count <= failures'[x.msg]
        BY <1>1, <2>2, <3>1, <3>2, <3>3, <3>4
      <3>6. \A e \in unacked' \cup running' : e.copy.count <= failures'[e.copy.msg]
        BY <1>1, <2>2, <2>3, <3>1 DEF CountInv
      <3> QED
        BY <3>5, <3>6 DEF CountInv
    <2> QED
      BY <1>6, <2>4, <2>5 DEF HandlerEnds
  <1>7. ASSUME NEW d \in running, LosesAckOfRetry(d) PROVE CountInv'
    <2>1. /\ unacked' \subseteq unacked
          /\ \A x \in Copies : queue'[x] > 0 => queue[x] > 0 \/ \E u \in unacked : u.copy = x
      BY <1>7, RequeueFacts DEF LosesAckOfRetry, ConnectionLost
    <2>2. /\ \A m \in Messages : failures[m] <= failures'[m]
          /\ failures'[d.copy.msg] = failures[d.copy.msg] + 1
          /\ failures' \in [Messages -> Nat]
          /\ running' \subseteq running
      BY <1>1, <1>7 DEF LosesAckOfRetry, Rejects, Ends
    <2>3. d.copy.count <= failures[d.copy.msg]
      BY DEF CountInv
    <2>4. \A x \in Copies : retry'[x] > 0 =>
              retry[x] > 0 \/ (x.msg = d.copy.msg /\ x.count = d.copy.count + 1)
      BY <1>1, <1>7, RetryFacts DEF LosesAckOfRetry
    <2> QED
      BY <1>1, <2>1, <2>2, <2>3, <2>4 DEF CountInv
  <1>8. ASSUME NEW c \in Channels, Disconnect(c) PROVE CountInv'
    BY <1>8, RequeueFacts, MovedCopies DEF Disconnect, ConnectionLost
  <1>9. CASE OnModuleDestroy
    BY <1>9, RequeueFacts, MovedCopies DEF OnModuleDestroy
  <1>10. CASE Exit \/ Crash
    <2>1. Requeue(open) /\ running' \subseteq running /\ UNCHANGED <<retry, failures>>
      BY <1>10 DEF Exit, Crash, Restart
    <2> QED
      BY <2>1, RequeueFacts, MovedCopies
  <1>11. CASE \/ \E c \in Channels : HandleConnectionIssue(c)
              \/ TimerFires \/ Connect \/ Bind \/ BindFails \/ ConnectFails
    BY <1>2, <1>11 DEF HandleConnectionIssue, TimerFires, Connect, Bind, BindFails, ConnectFails
  <1>12. CASE UNCHANGED vars
    BY <1>2, <1>12 DEF vars
  <1> QED
    BY <1>3, <1>4, <1>5, <1>6, <1>7, <1>8, <1>9, <1>10, <1>11, <1>12 DEF Next, Reconnecting

-----------------------------------------------------------------------------
(* No message is lost, and none is given up early. *)

Kept == LostOnlyByCrossedAnswer /\ DeadLettersHadTheirRuns

\* A step that keeps the three queues and gives every unanswered delivery it takes
\* away back to one of them loses nothing.
LEMMA NothingLost ==
    ASSUME QueueInv, Kept, UNCHANGED published,
           \A x \in Copies : queue[x] > 0 => queue'[x] > 0,
           \A x \in Copies : retry[x] > 0 => retry'[x] > 0,
           dlq \subseteq dlq', handled \subseteq handled', crossed => crossed',
           \A u \in unacked \ unacked' :
               crossed' \/ u.copy.msg \in handled' \/ Waiting(u.copy.msg)'
    PROVE  LostOnlyByCrossedAnswer'
  <1> SUFFICES ASSUME ~crossed', NEW m \in published, m \notin handled'
               PROVE  (Waiting(m) \/ InFlight(m))'
    BY DEF LostOnlyByCrossedAnswer
  <1>1. Waiting(m) \/ InFlight(m)
    BY DEF Kept, LostOnlyByCrossedAnswer
  <1>2. CASE Waiting(m)
    BY <1>2 DEF Waiting
  <1>3. CASE InFlight(m)
    <2>1. PICK u \in unacked : u.copy.msg = m
      BY <1>3 DEF InFlight
    <2>2. CASE u \in unacked'
      BY <2>1, <2>2 DEF InFlight
    <2>3. CASE u \notin unacked'
      BY <2>1, <2>3
    <2> QED
      BY <2>2, <2>3
  <1> QED
    BY <1>1, <1>2, <1>3

\* Every step keeps the unhandled messages and the runs behind every dead letter.
LEMMA KeptStep == QueueInv /\ CountInv /\ Kept /\ [Next]_vars => Kept'
  <1> SUFFICES ASSUME QueueInv, CountInv, Kept, [Next]_vars PROVE Kept'
    OBVIOUS
  <1> USE DEF queues, channels, service, history
  <1>1. /\ queue \in [Copies -> Nat] /\ retry \in [Copies -> Nat] /\ failures \in [Messages -> Nat]
        /\ \A d \in unacked \cup running : d.copy \in Copies
        /\ \A x \in Copies : x.msg \in Messages /\ x.count \in Nat
        /\ dlq \subseteq Copies /\ published \subseteq Messages
    BY LimitsAssumption DEF QueueInv, TypeOK, Delivery, Copies
  <1>2. \A d \in running : d \in unacked \cup running /\ d.copy.msg \in Messages
    BY <1>1
  <1>3. CASE UNCHANGED <<published, queue, retry, dlq, unacked, handled, failures, crossed>>
    BY <1>3 DEF Kept, LostOnlyByCrossedAnswer, DeadLettersHadTheirRuns, Waiting, InFlight
  \* Steps that close channels and do nothing else.
  <1>4. ASSUME NEW C, Requeue(C), UNCHANGED <<published, retry, dlq, handled, failures, crossed>>
        PROVE  Kept'
    <2>1. \A u \in unacked \ unacked' : Waiting(u.copy.msg)'
      BY <1>1, <1>4, RequeueFacts DEF Waiting
    <2>2. LostOnlyByCrossedAnswer'
      BY <1>4, <2>1, RequeueFacts, NothingLost
    <2> QED
      BY <1>4, <2>2 DEF Kept, DeadLettersHadTheirRuns
  <1>5. ASSUME NEW m \in Messages, Publish(m) PROVE Kept'
    <2> DEFINE x == [msg |-> m, count |-> 0]
    <2>1. x \in Copies /\ x.msg = m
      BY LimitsAssumption DEF Copies
    <2>2. queue' = [queue EXCEPT ![x] = @ + 1]
      BY <1>5 DEF Publish
    <2>3. UNCHANGED <<retry, dlq, unacked, handled, failures, crossed>> /\ published' = published \cup {m}
      BY <1>5 DEF Publish
    <2> HIDE DEF x
    <2>4. queue'[x] > 0 /\ \A y \in Copies : queue[y] > 0 => queue'[y] > 0
      BY <1>1, <2>1, <2>2
    <2>5. Waiting(m)'
      BY <2>1, <2>4 DEF Waiting
    <2>6. \A n \in published : Waiting(n) \/ InFlight(n) => (Waiting(n) \/ InFlight(n))'
      BY <2>3, <2>4 DEF Waiting, InFlight
    <2> QED
      BY <2>3, <2>5, <2>6 DEF Kept, LostOnlyByCrossedAnswer, DeadLettersHadTheirRuns
  <1>6. ASSUME NEW x \in Copies, Expire(x) PROVE Kept'
    <2>1. /\ queue'[x] > 0 /\ \A y \in Copies : queue[y] > 0 => queue'[y] > 0
          /\ \A y \in Copies : y # x => retry'[y] = retry[y]
          /\ UNCHANGED <<published, dlq, unacked, handled, failures, crossed>>
      BY <1>1, <1>6 DEF Expire
    <2>2. \A n \in published : Waiting(n) \/ InFlight(n) => (Waiting(n) \/ InFlight(n))'
      BY <2>1 DEF Waiting, InFlight
    <2> QED
      BY <2>1, <2>2 DEF Kept, LostOnlyByCrossedAnswer, DeadLettersHadTheirRuns
  <1>7. ASSUME NEW x \in Copies, NEW c \in Channels, Deliver(x, c) PROVE Kept'
    <2>1. PICK d : d.copy = x /\ unacked' = unacked \cup {d}
      BY <1>7 DEF Deliver
    <2>2. /\ \A y \in Copies : y # x => queue'[y] = queue[y]
          /\ UNCHANGED <<published, retry, dlq, handled, failures, crossed>>
      BY <1>1, <1>7 DEF Deliver
    <2>3. \A n \in published : Waiting(n) \/ InFlight(n) => (Waiting(n) \/ InFlight(n))'
      BY <2>1, <2>2 DEF Waiting, InFlight
    <2> QED
      BY <2>2, <2>3 DEF Kept, LostOnlyByCrossedAnswer, DeadLettersHadTheirRuns
  <1>8. ASSUME NEW d \in running, HandlerEnds(d) PROVE Kept'
    <2>1. CASE ParseFails(d)
      <3>1. Answer(d, TRUE) /\ UNCHANGED <<published, retry, handled, failures>> /\ d.copy.msg \in Malformed
        BY <2>1 DEF ParseFails
      <3>2. \A u \in unacked \ unacked' : crossed' \/ Waiting(u.copy.msg)'
        BY <1>1, <3>1, AnswerFacts DEF Waiting
      <3>3. LostOnlyByCrossedAnswer'
        BY <3>1, <3>2, AnswerFacts, NothingLost
      <3>4. DeadLettersHadTheirRuns'
        BY <3>1, AnswerFacts DEF Kept, DeadLettersHadTheirRuns
      <3> QED
        BY <3>3, <3>4 DEF Kept
    <2>2. CASE Succeeds(d)
      <3>1. /\ Answer(d, FALSE) /\ UNCHANGED <<published, retry, failures>>
            /\ handled' = handled \cup {d.copy.msg}
        BY <2>2 DEF Succeeds
      <3>2. \A u \in unacked \ unacked' : crossed' \/ u.copy.msg \in handled' \/ Waiting(u.copy.msg)'
        BY <1>1, <3>1, AnswerFacts DEF Waiting
      <3>3. LostOnlyByCrossedAnswer'
        BY <3>1, <3>2, AnswerFacts, NothingLost
      <3>4. DeadLettersHadTheirRuns'
        BY <3>1, AnswerFacts DEF Kept, DeadLettersHadTheirRuns
      <3> QED
        BY <3>3, <3>4 DEF Kept
    <2>3. CASE DeadLetters(d)
      <3>1. /\ Answer(d, TRUE) /\ UNCHANGED <<published, retry, handled>>
            /\ d.copy.count >= MaxRetryAttempts
            /\ failures' = [failures EXCEPT ![d.copy.msg] = @ + 1]
        BY <2>3 DEF DeadLetters, Rejects, OutOfRetries
      <3>2. \A u \in unacked \ unacked' : crossed' \/ Waiting(u.copy.msg)'
        BY <1>1, <3>1, AnswerFacts DEF Waiting
      <3>3. LostOnlyByCrossedAnswer'
        BY <3>1, <3>2, AnswerFacts, NothingLost
      <3>4. failures'[d.copy.msg] > MaxRetryAttempts /\ \A n \in Messages : failures[n] <= failures'[n]
        BY <1>1, <1>2, <3>1, LimitsAssumption DEF CountInv
      <3>5. failures' \in [Messages -> Nat]
        BY <1>1, <1>2, <3>1
      <3>6. DeadLettersHadTheirRuns'
        <4>1. (crossed => crossed') /\ (~crossed' => \A x \in dlq' \ dlq : x = d.copy)
          BY <3>1, AnswerFacts
        <4>2. ~crossed => \A x \in dlq : x.msg \in Malformed \/ failures'[x.msg] > MaxRetryAttempts
          BY <1>1, <3>4, <3>5, LimitsAssumption DEF Kept, DeadLettersHadTheirRuns
        <4> QED
          BY <3>4, <4>1, <4>2 DEF DeadLettersHadTheirRuns
      <3> QED
        BY <3>3, <3>6 DEF Kept
    <2>4. CASE SchedulesRetry(d)
      <3>1. /\ Answer(d, FALSE) /\ UNCHANGED <<published, handled>>
            /\ ~OutOfRetries(d.copy) /\ SendToRetry(d.copy)
            /\ failures' = [failures EXCEPT ![d.copy.msg] = @ + 1]
        BY <2>4 DEF SchedulesRetry, Rejects
      <3>2. /\ \A y \in Copies : retry[y] > 0 => retry'[y] > 0
            /\ channel \in open => Waiting(d.copy.msg)'
        BY <1>1, <3>1, RetryFacts DEF Waiting
      <3>3. \A u \in unacked \ unacked' : crossed' \/ Waiting(u.copy.msg)'
        <4>1. \A u \in unacked \ unacked' : crossed' \/ queue'[u.copy] > 0 \/ (channel \in open /\ u = d)
          BY <3>1, AnswerFacts
        <4> QED
          BY <1>1, <3>2, <4>1 DEF Waiting
      <3>4. LostOnlyByCrossedAnswer'
        BY <3>1, <3>2, <3>3, AnswerFacts, NothingLost
      <3>5. (crossed => crossed') /\ (~crossed' => dlq' \subseteq dlq)
        BY <3>1, AnswerFacts
      <3>6. DeadLettersHadTheirRuns'
        BY <1>1, <3>1, <3>5, LimitsAssumption DEF Kept, DeadLettersHadTheirRuns
      <3> QED
        BY <3>4, <3>6 DEF Kept
    <2> QED
      BY <1>8, <2>1, <2>2, <2>3, <2>4 DEF HandlerEnds
  <1>9. ASSUME NEW d \in running, LosesAckOfRetry(d) PROVE Kept'
    <2>1. /\ Requeue({channel}) /\ UNCHANGED <<published, handled, dlq, crossed>>
          /\ ~OutOfRetries(d.copy) /\ SendToRetry(d.copy)
          /\ failures' = [failures EXCEPT ![d.copy.msg] = @ + 1]
      BY <1>9 DEF LosesAckOfRetry, Rejects, ConnectionLost
    <2>2. \A y \in Copies : retry[y] > 0 => retry'[y] > 0
      BY <1>1, <2>1, RetryFacts
    <2>3. \A u \in unacked \ unacked' : Waiting(u.copy.msg)'
      BY <1>1, <2>1, RequeueFacts DEF Waiting
    <2>4. LostOnlyByCrossedAnswer'
      BY <2>1, <2>2, <2>3, RequeueFacts, NothingLost
    <2>5. DeadLettersHadTheirRuns'
      BY <1>1, <2>1, LimitsAssumption DEF Kept, DeadLettersHadTheirRuns
    <2> QED
      BY <2>4, <2>5 DEF Kept
  <1>10. ASSUME NEW c \in Channels, Disconnect(c) PROVE Kept'
    BY <1>4, <1>10 DEF Disconnect, ConnectionLost
  <1>11. CASE OnModuleDestroy
    BY <1>4, <1>11 DEF OnModuleDestroy
  <1>12. CASE Exit \/ Crash
    <2>1. Requeue(open) /\ UNCHANGED <<published, retry, dlq, handled, failures, crossed>>
      BY <1>12 DEF Exit, Crash, Restart
    <2> QED
      BY <1>4, <2>1
  <1>13. CASE \/ \E c \in Channels : HandleConnectionIssue(c)
              \/ TimerFires \/ Connect \/ Bind \/ BindFails \/ ConnectFails
    BY <1>3, <1>13 DEF HandleConnectionIssue, TimerFires, Connect, Bind, BindFails, ConnectFails
  <1>14. CASE UNCHANGED vars
    BY <1>3, <1>14 DEF vars
  <1> QED
    BY <1>5, <1>6, <1>7, <1>8, <1>9, <1>10, <1>11, <1>12, <1>13, <1>14 DEF Next, Reconnecting

\* The inductive invariant holds throughout.
LEMMA InductiveInvariant == Spec => [](QueueInv /\ CountInv /\ Kept)
  <1>1. Init => CountInv /\ Kept
    BY DEF Init, CountInv, Kept, LostOnlyByCrossedAnswer, DeadLettersHadTheirRuns
  <1> QED
    BY QueueInit, QueueStep, CountStep, KeptStep, <1>1, PTL DEF Spec

\* RabbitMQ holds every message that no handler has succeeded on, unless an answer
\* went to a channel it does not belong to.
THEOREM MessagesAreKept == Spec => []LostOnlyByCrossedAnswer
  <1>1. Kept => LostOnlyByCrossedAnswer
    BY DEF Kept
  <1> QED
    BY InductiveInvariant, <1>1, PTL

\* A well-formed message is dead-lettered only after MAX_RETRY_ATTEMPTS + 1 failed runs.
THEOREM DeadLettersAreEarned == Spec => []DeadLettersHadTheirRuns
  <1>1. Kept => DeadLettersHadTheirRuns
    BY DEF Kept
  <1> QED
    BY InductiveInvariant, <1>1, PTL
=============================================================================

---------------------------- MODULE RedisBusProofs ----------------------------
(* Proofs about the Redis transport, for any readers, channels, publish queues *)
(* and numbers of messages and failures: the read worker never sends to a      *)
(* closed channel, a channel the write worker no longer looks at is subscribed *)
(* as it should be, and a reader gets messages in the order of publication.    *)
EXTENDS RedisBus, SequenceTheorems, TLAPS

-----------------------------------------------------------------------------
(* The lists hold the readers that are between subscribe and unsubscribe, each *)
(* once, in the list of its own channel.                                       *)
Listed ==
    \A k \in Kinds, c \in Channels :
        /\ \A i \in DOMAIN lists[k][c] :
              /\ subPc[lists[k][c][i]] \in {"open", "canceled"}
              /\ setup[lists[k][c][i]].kind = k
              /\ setup[lists[k][c][i]].channel = c
        /\ \A i, j \in DOMAIN lists[k][c] : lists[k][c][i] = lists[k][c][j] => i = j

(* The readers still to be written to have not been removed, since the lock is *)
(* held, and each is to be written to once.                                    *)
Held ==
    /\ \A i \in DOMAIN writes : subPc[writes[i]] \in {"open", "canceled"}
    /\ \A i, j \in DOMAIN writes : writes[i] = writes[j] => i = j
    /\ \A s \in msgClosed : subPc[s] = "closed"
    /\ NoPanic

(* The batch in every phase of a round: what it says was wanted when it was    *)
(* made, and what its commands have done so far.                               *)
Batch ==
    /\ wPc \in {"wait", "drain"} => toSub = {} /\ toUnsub = {} /\ failed = {}
    /\ wPc = "subscribe" => failed = {}
    /\ wPc = "unsubscribe" => "unsubscribe" \notin failed
    /\ toSub \cap current = {}
    /\ toUnsub \subseteq current
    /\ \A c \in toSub \ dirty : Wanted(c)
    /\ \A c \in toUnsub \ dirty : ~Wanted(c)
    /\ current \ toUnsub \subseteq redis
    /\ (wPc \in {"subscribe", "unsubscribe"} \/ "unsubscribe" \in failed) => toUnsub \subseteq redis
    /\ (wPc \in {"unsubscribe", "run"} /\ "subscribe" \notin failed) => toSub \subseteq redis

-----------------------------------------------------------------------------
(* Where a message is: with a publish queue, or anywhere before the dispatch;  *)
(* and where its number is once a reader has it.                               *)
Queued(b, m) ==
    \/ \E i \in DOMAIN batch[b] : batch[b][i] = m
    \/ \E i \in DOMAIN messages[b] : messages[b][i] = m

Upstream(m) == (\E i \in DOMAIN net : net[i] = m) \/ (\E b \in Buckets : Queued(b, m))

Reached(s, n) ==
    \/ \E i \in DOMAIN got[s] : got[s][i] = n
    \/ \E i \in DOMAIN msgChan[s] : msgChan[s][i] = n
    \/ n = writing /\ \E i \in DOMAIN writes : writes[i] = s

(* A publish queue holds the messages of its own channels, in order.           *)
QueueOrder ==
    \A b \in Buckets :
        /\ \A i \in DOMAIN batch[b] : Bucket[batch[b][i].channel] = b
        /\ \A i \in DOMAIN messages[b] : Bucket[messages[b][i].channel] = b
        /\ \A i, j \in DOMAIN batch[b] : i < j => batch[b][i].id < batch[b][j].id
        /\ \A i, j \in DOMAIN messages[b] : i < j => messages[b][i].id < messages[b][j].id
        /\ \A i \in DOMAIN batch[b], j \in DOMAIN messages[b] : batch[b][i].id < messages[b][j].id

(* The messages of a channel come from Redis in order, before those that are   *)
(* with the publish queues.                                                    *)
NetOrder ==
    /\ \A i, j \in DOMAIN net : i < j /\ net[i].channel = net[j].channel => net[i].id < net[j].id
    /\ \A i \in DOMAIN net, b \in Buckets, m \in Msg :
          Queued(b, m) /\ m.channel = net[i].channel => net[i].id < m.id

(* What a reader has comes before what its channel still brings.               *)
Passed ==
    \A s \in Subs, n \in 1..MaxMessages : Reached(s, n) =>
        /\ n <= published
        /\ \A m \in Msg : Upstream(m) /\ m.channel = setup[s].channel => n < m.id

ReaderOrder ==
    /\ \A s \in Subs :
          /\ \A i, j \in DOMAIN msgChan[s] : i < j => msgChan[s][i] < msgChan[s][j]
          /\ \A i \in DOMAIN got[s], j \in DOMAIN msgChan[s] : got[s][i] < msgChan[s][j]
    /\ \A k \in DOMAIN writes :
          /\ \A i \in DOMAIN got[writes[k]] : got[writes[k]][i] < writing
          /\ \A i \in DOMAIN msgChan[writes[k]] : msgChan[writes[k]][i] < writing

Order ==
    /\ QueueOrder
    /\ NetOrder
    /\ \A m \in Msg : Upstream(m) => m.id <= published
    /\ Passed
    /\ ReaderOrder
    /\ InOrder

RedisInv ==
    /\ TypeOK
    /\ Listed
    /\ Held
    /\ Batch
    /\ SettledIsSubscribed
    /\ Order

-----------------------------------------------------------------------------
(* Taking from the front of a queue and adding to its end, index by index.     *)
LEMMA Taken ==
  ASSUME NEW S, NEW q \in Seq(S), q # <<>>
  PROVE  /\ Len(q) \in Nat \ {0}
         /\ DOMAIN q = 1..Len(q)
         /\ 1 \in DOMAIN q
         /\ Head(q) = q[1]
         /\ Head(q) \in S
         /\ Tail(q) \in Seq(S)
         /\ Len(Tail(q)) = Len(q) - 1
         /\ DOMAIN Tail(q) = 1..(Len(q) - 1)
         /\ \A j \in DOMAIN Tail(q) : j + 1 \in DOMAIN q /\ Tail(q)[j] = q[j + 1]
<1>1. Len(q) \in Nat \ {0} /\ DOMAIN q = 1..Len(q)
  BY EmptySeq, LenProperties
<1>2. Tail(q) \in Seq(S) /\ Len(Tail(q)) = Len(q) - 1 /\ Head(q) \in S
      /\ \A j \in 1..Len(Tail(q)) : Tail(q)[j] = q[j + 1]
  BY HeadTailProperties
<1>3. Head(q) = q[1]
  OBVIOUS
<1>4. DOMAIN Tail(q) = 1..(Len(q) - 1)
  BY <1>2, LenProperties
<1> QED
  BY <1>1, <1>2, <1>3, <1>4

(* The elements of a sequence.                                               *)
LEMMA Elements ==
  ASSUME NEW S, NEW q \in Seq(S)
  PROVE  \A i \in DOMAIN q : q[i] \in S
  OBVIOUS

(* Adding to the end of a sequence, index by index.                          *)
LEMMA Added ==
  ASSUME NEW S, NEW q \in Seq(S), NEW e \in S
  PROVE  /\ Append(q, e) \in Seq(S)
         /\ Len(q) \in Nat
         /\ DOMAIN q = 1..Len(q)
         /\ DOMAIN Append(q, e) = 1..(Len(q) + 1)
         /\ \A j \in DOMAIN q : Append(q, e)[j] = q[j]
         /\ Append(q, e)[Len(q) + 1] = e
  OBVIOUS

(* What slices.Delete leaves: the other elements, in their order.              *)
LEMMA Removed ==
  ASSUME NEW S, NEW q \in Seq(S), NEW i \in DOMAIN q
  PROVE  /\ RemoveAt(q, i) \in Seq(S)
         /\ DOMAIN RemoveAt(q, i) = 1..(Len(q) - 1)
         /\ \A j \in DOMAIN RemoveAt(q, i) :
               RemoveAt(q, i)[j] = IF j < i THEN q[j] ELSE q[j + 1]
<1>1. i \in 1..Len(q) /\ Len(q) \in Nat
  OBVIOUS
<1> DEFINE a == SubSeq(q, 1, i - 1)
           b == SubSeq(q, i + 1, Len(q))
<1>2. a \in Seq(S) /\ Len(a) = i - 1 /\ \A j \in 1..(i - 1) : a[j] = q[j]
  BY <1>1
<1>3. b \in Seq(S) /\ Len(b) = Len(q) - i /\ \A j \in 1..(Len(q) - i) : b[j] = q[i + j]
  BY <1>1
<1> HIDE DEF a, b
<1>4. /\ a \o b \in Seq(S)
      /\ Len(a \o b) = Len(q) - 1
      /\ DOMAIN (a \o b) = 1..(Len(q) - 1)
      /\ \A j \in DOMAIN (a \o b) : (a \o b)[j] = IF j <= Len(a) THEN a[j] ELSE b[j - Len(a)]
  BY <1>1, <1>2, <1>3
<1>5. ASSUME NEW j \in DOMAIN (a \o b)
      PROVE  (a \o b)[j] = IF j < i THEN q[j] ELSE q[j + 1]
  <2>1. j \in 1..(Len(q) - 1) /\ (a \o b)[j] = IF j <= i - 1 THEN a[j] ELSE b[j - (i - 1)]
    BY <1>2, <1>4
  <2>2. CASE j < i
    BY <1>1, <1>2, <2>1, <2>2
  <2>3. CASE ~(j < i)
    <3>0. \A l, m, n \in Nat : m \in 1..l /\ n \in 1..(l - 1) /\ ~(n < m) =>
             n - (m - 1) \in 1..(l - m) /\ m + (n - (m - 1)) = n + 1 /\ ~(n <= m - 1)
      OBVIOUS
    <3>1. j - (i - 1) \in 1..(Len(q) - i) /\ i + (j - (i - 1)) = j + 1 /\ ~(j <= i - 1)
      <4>1. i \in Nat /\ j \in Nat /\ j \in 1..(Len(q) - 1)
        BY <1>1, <2>1
      <4> QED
        BY <1>1, <2>3, <3>0, <4>1
    <3> QED
      BY <1>3, <2>1, <2>3, <3>1
  <2> QED
    BY <2>2, <2>3
<1> QED
  BY <1>4, <1>5 DEF RemoveAt, a, b

-----------------------------------------------------------------------------
(* What SetList does with a list in place of the one of a reader.              *)
LEMMA SetListFacts ==
  ASSUME TypeOK, NEW s \in Subs, NEW list \in Seq(Subs), SetList(s, list)
  PROVE  /\ setup[s].kind \in Kinds
         /\ setup[s].channel \in Channels
         /\ lists' \in [Kinds -> [Channels -> Seq(Subs)]]
         /\ next' \in [Kinds -> [Channels -> Nat]]
         /\ dirty' \subseteq Channels
         /\ dirty \subseteq dirty'
         /\ ops' \in Nat
         /\ wakeup' \in BOOLEAN
         /\ \A k \in Kinds, c \in Channels :
               lists'[k][c] = IF k = setup[s].kind /\ c = setup[s].channel
                              THEN list ELSE lists[k][c]
         /\ \A c \in Channels \ dirty' : Wanted(c)' <=> Wanted(c)
<1>1. setup[s].kind \in Kinds /\ setup[s].channel \in Channels
  BY RedisAssumption DEF TypeOK
<1> DEFINE kk == setup[s].kind
           cc == setup[s].channel
<1>2. /\ lists' = [lists EXCEPT ![kk][cc] = list]
      /\ next' = [next EXCEPT ![kk][cc] = IF list = <<>> THEN 0 ELSE @]
      /\ dirty' = IF lists[kk][cc] = <<>> \/ list = <<>> THEN dirty \cup {cc} ELSE dirty
      /\ ops' = IF lists[kk][cc] = <<>> \/ list = <<>> THEN ops + 1 ELSE ops
      /\ wakeup' = (wakeup \/ (lists[kk][cc] = <<>> \/ list = <<>>))
  BY DEF SetList
<1>3. kk \in Kinds /\ cc \in Channels
  BY <1>1
<1> HIDE DEF kk, cc
<1>4. lists' \in [Kinds -> [Channels -> Seq(Subs)]]
  BY <1>2, <1>3 DEF TypeOK
<1>5. \A k \in Kinds, c \in Channels :
         lists'[k][c] = IF k = kk /\ c = cc THEN list ELSE lists[k][c]
  BY <1>2, <1>3 DEF TypeOK
<1>6. next' \in [Kinds -> [Channels -> Nat]]
  BY <1>2, <1>3 DEF TypeOK
<1>7. dirty' \subseteq Channels /\ dirty \subseteq dirty' /\ ops' \in Nat
  BY <1>2, <1>3 DEF TypeOK
<1>8. wakeup' \in BOOLEAN
  BY <1>2
<1>9. ASSUME NEW c \in Channels \ dirty'
      PROVE  Wanted(c)' <=> Wanted(c)
  <2>1. c # cc \/ (lists[kk][cc] # <<>> /\ list # <<>>)
    BY <1>2, <1>9
  <2>2. \A k \in Kinds : lists'[k][c] = <<>> <=> lists[k][c] = <<>>
    BY <1>5, <2>1
  <2> QED
    BY <2>2 DEF Wanted
<1> QED
  BY <1>1, <1>4, <1>5, <1>6, <1>7, <1>8, <1>9 DEF kk, cc

(* The two operations that change a list.                                      *)
LEMMA SubscribeFacts ==
  ASSUME TypeOK, NEW s \in Subs, Subscribe(s) \/ Unsubscribe(s)
  PROVE  \E list \in Seq(Subs) : SetList(s, list)
<1>1. setup[s].kind \in Kinds /\ setup[s].channel \in Channels
  BY RedisAssumption DEF TypeOK
<1>2. ListOf(s) \in Seq(Subs)
  BY <1>1 DEF TypeOK, ListOf
<1>3. CASE Subscribe(s)
  <2>1. Append(ListOf(s), s) \in Seq(Subs)
    BY <1>2
  <2> QED
    BY <1>3, <2>1 DEF Subscribe
<1>4. CASE Unsubscribe(s)
  <2>1. PICK i \in DOMAIN ListOf(s) : SetList(s, RemoveAt(ListOf(s), i))
    BY <1>4 DEF Unsubscribe, Delete
  <2> QED
    BY <1>2, <2>1, Removed
<1> QED
  BY <1>3, <1>4

-----------------------------------------------------------------------------
(* Types: the initial states, and the steps of each goroutine.               *)
LEMMA TypeInit ==
  ASSUME Init
  PROVE  TypeOK
<1>1. \A S : <<>> \in Seq(S) /\ Len(<<>>) = 0
  OBVIOUS
<1>2. /\ lists \in [Kinds -> [Channels -> Seq(Subs)]]
      /\ next \in [Kinds -> [Channels -> Nat]]
  BY <1>1 DEF Init
<1>3. /\ msgChan \in [Subs -> Seq(1..MaxMessages)]
      /\ \A s \in Subs : Len(msgChan[s]) <= Size
      /\ got \in [Subs -> Seq(1..MaxMessages)]
  BY <1>1, RedisAssumption DEF Init
<1>4. /\ messages \in [Buckets -> Seq(Msg)]
      /\ batch \in [Buckets -> Seq(Msg)]
      /\ pPc \in [Buckets -> {"wait", "take", "exec"}]
  BY <1>1 DEF Init
<1>5. net \in Seq(Msg) /\ writes \in Seq(Subs) /\ writes = <<>>
  BY <1>1 DEF Init
<1>6. /\ writing \in 0..MaxMessages /\ published \in 0..MaxMessages
      /\ failures \in 0..MaxFailures /\ ops \in Nat
  BY RedisAssumption DEF Init
<1> QED
  BY <1>2, <1>3, <1>4, <1>5, <1>6 DEF Init, TypeOK

(* A step that fails counts it, within the bound.                            *)
LEMMA FailuresBounded ==
  ASSUME TypeOK, Fails \/ UNCHANGED failures
  PROVE  failures' \in 0..MaxFailures
<1>1. failures \in 0..MaxFailures
  BY DEF TypeOK
<1>2. MaxFailures \in Nat
  BY RedisAssumption
<1> QED
  BY <1>1, <1>2 DEF Fails

(* Types, for the steps of a reader.                                         *)
LEMMA TypeSub ==
  ASSUME TypeOK, NEW s \in Subs, Subscribe(s) \/ CallClose(s) \/ CloseStep(s) \/ Read(s)
  PROVE  TypeOK'
<1>1. CASE Subscribe(s) \/ Unsubscribe(s)
  <2>1. PICK list \in Seq(Subs) : SetList(s, list)
    BY <1>1, SubscribeFacts
  <2>2. /\ lists' \in [Kinds -> [Channels -> Seq(Subs)]]
        /\ next' \in [Kinds -> [Channels -> Nat]]
        /\ dirty' \subseteq Channels
        /\ ops' \in Nat
        /\ wakeup' \in BOOLEAN
    BY <2>1, SetListFacts
  <2> QED
    BY <1>1, <2>2 DEF Subscribe, Unsubscribe, Life, TypeOK, reconcileVars, readVars, publishVars
<1>2. CASE CallClose(s)
  BY <1>2 DEF CallClose, Life, TypeOK, reconcileVars, readVars, publishVars
<1>3. CASE CloseReader(s)
  BY <1>3 DEF CloseReader, Life, TypeOK, reconcileVars, publishVars
<1>4. CASE Read(s)
  <2>1. /\ msgChan[s] \in Seq(1..MaxMessages) /\ msgChan[s] # <<>>
        /\ Tail(msgChan[s]) \in Seq(1..MaxMessages)
        /\ Len(Tail(msgChan[s])) <= Size
        /\ Head(msgChan[s]) \in 1..MaxMessages
    <3>1. msgChan[s] \in Seq(1..MaxMessages) /\ msgChan[s] # <<>> /\ Len(msgChan[s]) <= Size
      BY <1>4 DEF Read, TypeOK
    <3>2. /\ Len(msgChan[s]) \in Nat
          /\ Tail(msgChan[s]) \in Seq(1..MaxMessages)
          /\ Len(Tail(msgChan[s])) = Len(msgChan[s]) - 1
          /\ Head(msgChan[s]) \in 1..MaxMessages
      BY <3>1, Taken, Zenon
    <3>3. Size \in Nat
      BY RedisAssumption
    <3> QED
      BY <3>1, <3>2, <3>3
  <2>2. msgChan' = [msgChan EXCEPT ![s] = Tail(msgChan[s])]
    BY <1>4 DEF Read
  <2>3. msgChan' \in [Subs -> Seq(1..MaxMessages)] /\ \A t \in Subs : Len(msgChan'[t]) <= Size
    BY <2>1, <2>2 DEF TypeOK
  <2>4. got' \in [Subs -> Seq(1..MaxMessages)]
    <3>1. Append(got[s], Head(msgChan[s])) \in Seq(1..MaxMessages)
      BY <2>1 DEF TypeOK
    <3> QED
      BY <1>4, <3>1 DEF Read, TypeOK
  <2> QED
    BY <1>4, <2>3, <2>4 DEF Read, TypeOK, subVars, reconcileVars, publishVars
<1> QED
  BY <1>1, <1>2, <1>3, <1>4 DEF CloseStep

(* Types, for the rounds of the write worker.                                *)
LEMMA TypeWrite ==
  ASSUME TypeOK, WriteWorker
  PROVE  TypeOK'
<1>1. CASE Wake \/ Drain
  <2>1. ops' \in Nat
    BY <1>1 DEF Wake, Drain, TypeOK
  <2> QED
    BY <1>1, <2>1 DEF Wake, Drain, Worker, TypeOK, readVars, publishVars
<1>2. CASE Reconcile
  <2>1. Again \subseteq Channels /\ Applied \subseteq Channels
    BY DEF Again, Applied, TypeOK
  <2> QED
    BY <1>2, <2>1 DEF Reconcile, NextBatch, TypeOK, readVars, publishVars
<1>3. CASE PsSubscribe \/ PsUnsubscribe
  <2>1. failures' \in 0..MaxFailures
    BY <1>3, FailuresBounded DEF PsSubscribe, PsUnsubscribe
  <2> QED
    BY <1>3, <2>1 DEF PsSubscribe, PsUnsubscribe, Worker, TypeOK, subVars, readVars, publishVars
<1> QED
  BY <1>1, <1>2, <1>3 DEF WriteWorker

(* Types, for Publish.                                                       *)
LEMMA TypePublish ==
  ASSUME TypeOK, NEW c \in Publishable, Publish(c)
  PROVE  TypeOK'
<1>1. c \in Channels /\ Bucket[c] \in Buckets /\ published + 1 \in 1..MaxMessages
  BY RedisAssumption DEF Publish, TypeOK
<1>2. [channel |-> c, id |-> published + 1] \in Msg
  BY <1>1 DEF Msg
<1>3. Append(messages[Bucket[c]], [channel |-> c, id |-> published + 1]) \in Seq(Msg)
  BY <1>1, <1>2 DEF TypeOK
<1>4. messages' \in [Buckets -> Seq(Msg)] /\ pubWakeup' \subseteq Buckets
      /\ published' \in 0..MaxMessages
  BY <1>1, <1>3 DEF Publish, Enqueue, TypeOK
<1>5. UNCHANGED <<setup, subVars, reconcileVars, net, readVars, pPc, batch, failures>>
  BY DEF Publish
<1> QED
  BY <1>4, <1>5 DEF TypeOK, subVars, reconcileVars, readVars

(* Types, for the worker of a publish queue.                                 *)
LEMMA TypePublishWorker ==
  ASSUME TypeOK, NEW b \in Buckets, PublishWorker(b)
  PROVE  TypeOK'
<1>1. messages[b] \in Seq(Msg) /\ batch[b] \in Seq(Msg) /\ <<>> \in Seq(Msg)
  BY DEF TypeOK
<1>2. CASE WakePublisher(b)
  BY <1>2 DEF WakePublisher, TypeOK, subVars, reconcileVars, readVars
<1>3. CASE TakeMessages(b)
  BY <1>1, <1>3 DEF TakeMessages, TypeOK, subVars, reconcileVars, readVars
<1>4. CASE ExecCommand(b)
  <2>1. Tail(batch[b]) \in Seq(Msg) /\ Append(net, Head(batch[b])) \in Seq(Msg)
    BY <1>1, <1>4 DEF ExecCommand, TypeOK
  <2> QED
    BY <1>4, <2>1 DEF ExecCommand, TypeOK, subVars, reconcileVars, readVars
<1>5. CASE ExecReturns(b)
  <2>1. failures' \in 0..MaxFailures
    BY <1>5, FailuresBounded DEF ExecReturns
  <2> QED
    BY <1>1, <1>5, <2>1 DEF ExecReturns, TypeOK, subVars, reconcileVars, readVars
<1> QED
  BY <1>2, <1>3, <1>4, <1>5 DEF PublishWorker

(* What a dispatch writes to: readers of the channel, as many as its list, and *)
(* one member of its queue.                                                    *)
LEMMA DispatchFacts ==
  ASSUME TypeOK, Receive
  PROVE  /\ Head(net) \in Msg
         /\ writes' \in Seq(Subs)
         /\ next' \in [Kinds -> [Channels -> Nat]]
         /\ \/ writes' = lists["subs"][Head(net).channel]
            \/ \E i \in DOMAIN lists["queues"][Head(net).channel] :
                  writes' = Append(lists["subs"][Head(net).channel],
                                   lists["queues"][Head(net).channel][i])
<1> DEFINE c == Head(net).channel
<1>1. Head(net) \in Msg /\ c \in Channels /\ Dispatch(c)
  <2>1. Head(net) \in Msg
    BY Taken DEF Receive, TypeOK
  <2> QED
    BY <2>1 DEF Receive, Msg
<1> HIDE DEF c
<1>2. /\ lists["subs"][c] \in Seq(Subs)
      /\ lists["queues"][c] \in Seq(Subs)
      /\ next["queues"][c] \in Nat
      /\ "queues" \in Kinds
  BY <1>1 DEF TypeOK, Kinds
<1>3. CASE lists["queues"][c] = <<>>
  BY <1>1, <1>2, <1>3 DEF Dispatch, TypeOK, c
<1>4. CASE lists["queues"][c] # <<>>
  <2>1. Turn(c) + 1 \in DOMAIN lists["queues"][c] /\ Turn(c) + 1 \in Nat
    BY <1>2, <1>4 DEF Turn
  <2>2. lists["queues"][c][Turn(c) + 1] \in Subs
    BY <1>2, <2>1
  <2>3. writes' = Append(lists["subs"][c], lists["queues"][c][Turn(c) + 1])
    BY <1>1, <1>4 DEF Dispatch
  <2>4. next' \in [Kinds -> [Channels -> Nat]]
    <3>1. next' = [next EXCEPT !["queues"][c] = Turn(c) + 1]
      BY <1>1, <1>4 DEF Dispatch
    <3> QED
      BY <1>1, <1>2, <2>1, <3>1 DEF TypeOK
  <2>5. writes' \in Seq(Subs)
    BY <1>2, <2>2, <2>3
  <2> QED
    BY <1>1, <2>1, <2>3, <2>4, <2>5 DEF c
<1> QED
  BY <1>3, <1>4

(* Types, for the read worker.                                               *)
LEMMA TypeRead ==
  ASSUME TypeOK, ReadWorker \/ ReceiveFails
  PROVE  TypeOK'
<1>1. CASE Receive
  <2>1. Tail(net) \in Seq(Msg) /\ Head(net).id \in 1..MaxMessages
    <3>1. Tail(net) \in Seq(Msg) /\ Head(net) \in Msg
      BY <1>1, Taken DEF Receive, TypeOK
    <3> QED
      BY <3>1, RedisAssumption DEF Msg
  <2>2. writing' \in 0..MaxMessages /\ writing' # 0
    BY <1>1, <2>1, RedisAssumption DEF Receive
  <2>3. net' \in Seq(Msg)
    BY <1>1, <2>1 DEF Receive
  <2>4. writes' \in Seq(Subs) /\ next' \in [Kinds -> [Channels -> Nat]]
    BY <1>1, DispatchFacts
  <2> QED
    BY <1>1, <2>2, <2>3, <2>4 DEF Receive, TypeOK, reconcileVars, publishVars
<1>2. CASE Write \/ Skip
  <2>1. writes # <<>> /\ writes' = Tail(writes) /\ UNCHANGED writing
    BY <1>2 DEF Write, Skip
  <2>2. writes' \in Seq(Subs) /\ Head(writes) \in Subs
    BY <2>1, Taken DEF TypeOK
  <2>3. CASE Skip
    BY <2>1, <2>2, <2>3 DEF Skip, TypeOK, subVars, reconcileVars, publishVars
  <2>4. CASE Write
    <3>1. PICK s \in Subs : s = Head(writes)
      BY <2>2
    <3>2. /\ s \in msgClosed \/ Len(msgChan[s]) < Size
          /\ msgChan' = [msgChan EXCEPT ![s] = IF s \in msgClosed THEN @ ELSE Append(@, writing)]
          /\ panicked' = (panicked \/ s \in msgClosed)
      BY <2>4, <3>1 DEF Write
    <3>3. panicked' \in BOOLEAN
      BY <3>2
    <3>4. writing \in 1..MaxMessages
      BY <2>1, RedisAssumption DEF TypeOK
    <3>5. msgChan[s] \in Seq(1..MaxMessages) /\ Len(msgChan[s]) <= Size /\ Size \in Nat
      BY RedisAssumption DEF TypeOK
    <3>6. s \notin msgClosed => /\ Append(msgChan[s], writing) \in Seq(1..MaxMessages)
                               /\ Len(Append(msgChan[s], writing)) <= Size
      BY <3>2, <3>4, <3>5
    <3>7. /\ msgChan' \in [Subs -> Seq(1..MaxMessages)]
          /\ \A t \in Subs : Len(msgChan'[t]) <= Size
      BY <3>2, <3>5, <3>6 DEF TypeOK
    <3> QED
      BY <2>1, <2>2, <2>4, <3>3, <3>7 DEF Write, TypeOK, subVars, reconcileVars, publishVars
  <2> QED
    BY <1>2, <2>3, <2>4
<1>3. CASE ReceiveFails
  <2>1. failures' \in 0..MaxFailures /\ net' \in Seq(Msg)
    BY <1>3, FailuresBounded DEF ReceiveFails
  <2> QED
    BY <1>3, <2>1 DEF ReceiveFails, TypeOK, subVars, reconcileVars, readVars, publishVars
<1> QED
  BY <1>1, <1>2, <1>3 DEF ReadWorker

-----------------------------------------------------------------------------
(* The lists and the readers in hand.                                          *)
ListVars == <<setup, subPc, lists, writes, msgClosed, panicked>>

(* Steps that leave the lists, the readers and the writes alone.             *)
LEMMA SameLists ==
  ASSUME Listed, Held, UNCHANGED ListVars
  PROVE  Listed' /\ Held'
  BY DEF Listed, Held, NoPanic, ListVars

(* Subscribe appends a reader that is in no list.                            *)
LEMMA ListSubscribe ==
  ASSUME TypeOK, Listed, Held, NEW s \in Subs, Subscribe(s)
  PROVE  Listed' /\ Held'
<1> DEFINE list == Append(ListOf(s), s)
<1>1. /\ subPc[s] = "idle" /\ subPc' = [subPc EXCEPT ![s] = "open"]
      /\ writes = <<>> /\ SetList(s, list)
      /\ UNCHANGED <<setup, writes, msgClosed, panicked>>
  BY DEF Subscribe, Life, MuFree, readVars
<1>2. setup[s].kind \in Kinds /\ setup[s].channel \in Channels
  BY RedisAssumption DEF TypeOK
<1>3. ListOf(s) \in Seq(Subs) /\ ListOf(s) = lists[setup[s].kind][setup[s].channel]
  BY <1>2 DEF TypeOK, ListOf
<1>4. /\ list \in Seq(Subs)
      /\ DOMAIN list = 1..(Len(ListOf(s)) + 1)
      /\ DOMAIN ListOf(s) = 1..Len(ListOf(s))
      /\ Len(ListOf(s)) \in Nat
      /\ \A j \in DOMAIN ListOf(s) : list[j] = ListOf(s)[j]
      /\ list[Len(ListOf(s)) + 1] = s
  <2>1. PICK q \in Seq(Subs) : q = ListOf(s)
    BY <1>3
  <2>2. /\ Append(q, s) \in Seq(Subs)
        /\ Len(q) \in Nat
        /\ DOMAIN q = 1..Len(q)
        /\ DOMAIN Append(q, s) = 1..(Len(q) + 1)
        /\ \A j \in DOMAIN q : Append(q, s)[j] = q[j]
        /\ Append(q, s)[Len(q) + 1] = s
    BY Added
  <2> QED
    BY <2>1, <2>2
<1> HIDE DEF list
<1>5. \A k \in Kinds, c \in Channels :
         lists'[k][c] = IF k = setup[s].kind /\ c = setup[s].channel THEN list ELSE lists[k][c]
  BY <1>1, <1>4, SetListFacts
<1>6. \A t \in Subs : subPc'[t] = IF t = s THEN "open" ELSE subPc[t]
  BY <1>1 DEF TypeOK
<1>7. Listed'
  <2> SUFFICES ASSUME NEW k \in Kinds, NEW c \in Channels
               PROVE  /\ \A i \in DOMAIN lists'[k][c] :
                            /\ subPc'[lists'[k][c][i]] \in {"open", "canceled"}
                            /\ setup'[lists'[k][c][i]].kind = k
                            /\ setup'[lists'[k][c][i]].channel = c
                      /\ \A i, j \in DOMAIN lists'[k][c] :
                            lists'[k][c][i] = lists'[k][c][j] => i = j
    BY DEF Listed
  <2>1. \A i \in DOMAIN lists[k][c] : lists[k][c][i] \in Subs /\ lists[k][c][i] # s
    <3>1. \A i \in DOMAIN lists[k][c] : lists[k][c][i] \in Subs
      BY DEF TypeOK
    <3> QED
      BY <1>1, <3>1 DEF Listed
  <2>2. CASE k = setup[s].kind /\ c = setup[s].channel
    <3>1. lists'[k][c] = list /\ lists[k][c] = ListOf(s)
      BY <1>3, <1>5, <2>2
    <3>2. \A i \in DOMAIN list :
             \/ i = Len(ListOf(s)) + 1 /\ list[i] = s
             \/ i \in DOMAIN ListOf(s) /\ list[i] = ListOf(s)[i] /\ list[i] \in Subs /\ list[i] # s
      BY <1>4, <2>1, <3>1
    <3>3. \A i \in DOMAIN list : subPc'[list[i]] \in {"open", "canceled"}
      BY <1>6, <3>1, <3>2 DEF Listed
    <3>4. \A i \in DOMAIN list : setup[list[i]].kind = k /\ setup[list[i]].channel = c
      BY <2>2, <3>1, <3>2 DEF Listed
    <3>5. \A i, j \in DOMAIN list : list[i] = list[j] => i = j
      BY <3>1, <3>2 DEF Listed
    <3> QED
      BY <1>1, <3>1, <3>3, <3>4, <3>5
  <2>3. CASE ~(k = setup[s].kind /\ c = setup[s].channel)
    <3>1. lists'[k][c] = lists[k][c]
      BY <1>5, <2>3
    <3> QED
      BY <1>1, <1>6, <2>1, <3>1 DEF Listed
  <2> QED
    BY <2>2, <2>3
<1>8. Held'
  BY <1>1, <1>6 DEF Held, NoPanic, TypeOK
<1> QED
  BY <1>7, <1>8

(* Unsubscribe removes the one entry of the reader, when nothing is written. *)
LEMMA ListUnsubscribe ==
  ASSUME TypeOK, Listed, Held, NEW s \in Subs, Unsubscribe(s)
  PROVE  Listed' /\ Held'
<1>1. /\ subPc[s] = "canceled" /\ subPc' = [subPc EXCEPT ![s] = "removed"]
      /\ writes = <<>>
      /\ UNCHANGED <<setup, writes, msgClosed, panicked>>
  BY DEF Unsubscribe, Life, MuFree, readVars
<1>2. PICK n \in DOMAIN ListOf(s) :
         ListOf(s)[n] = s /\ SetList(s, RemoveAt(ListOf(s), n))
  BY DEF Unsubscribe, Delete
<1>3. setup[s].kind \in Kinds /\ setup[s].channel \in Channels
  BY RedisAssumption DEF TypeOK
<1>4. ListOf(s) \in Seq(Subs) /\ ListOf(s) = lists[setup[s].kind][setup[s].channel]
  BY <1>3 DEF TypeOK, ListOf
<1> DEFINE list == RemoveAt(ListOf(s), n)
<1>5. /\ list \in Seq(Subs)
      /\ DOMAIN list = 1..(Len(ListOf(s)) - 1)
      /\ \A j \in DOMAIN list : list[j] = IF j < n THEN ListOf(s)[j] ELSE ListOf(s)[j + 1]
  BY <1>4, Removed
<1>6. Len(ListOf(s)) \in Nat /\ DOMAIN ListOf(s) = 1..Len(ListOf(s)) /\ n \in 1..Len(ListOf(s))
  BY <1>4
<1>7. \A k \in Kinds, c \in Channels :
         lists'[k][c] = IF k = setup[s].kind /\ c = setup[s].channel THEN list ELSE lists[k][c]
  BY <1>2, <1>5, SetListFacts
<1> HIDE DEF list
<1>8. \A t \in Subs : subPc'[t] = IF t = s THEN "removed" ELSE subPc[t]
  BY <1>1 DEF TypeOK
<1>9. Listed'
  <2> SUFFICES ASSUME NEW k \in Kinds, NEW c \in Channels
               PROVE  /\ \A i \in DOMAIN lists'[k][c] :
                            /\ subPc'[lists'[k][c][i]] \in {"open", "canceled"}
                            /\ setup'[lists'[k][c][i]].kind = k
                            /\ setup'[lists'[k][c][i]].channel = c
                      /\ \A i, j \in DOMAIN lists'[k][c] :
                            lists'[k][c][i] = lists'[k][c][j] => i = j
    BY DEF Listed
  <2>1. CASE k = setup[s].kind /\ c = setup[s].channel
    <3>1. lists'[k][c] = list /\ lists[k][c] = ListOf(s)
      BY <1>4, <1>7, <2>1
    <3>2. \A i, j \in DOMAIN ListOf(s) : ListOf(s)[i] = ListOf(s)[j] => i = j
      BY <3>1 DEF Listed
    <3>3. ASSUME NEW i \in DOMAIN list
          PROVE  \E j \in DOMAIN ListOf(s) :
                    list[i] = ListOf(s)[j] /\ j # n /\ (j = i \/ j = i + 1) /\ (j = i <=> i < n)
      <4>1. CASE i < n
        BY <1>5, <1>6, <4>1
      <4>2. CASE ~(i < n)
        <5>1. i + 1 \in DOMAIN ListOf(s) /\ i + 1 # n /\ list[i] = ListOf(s)[i + 1]
          BY <1>5, <1>6, <4>2
        <5> QED
          BY <1>5, <4>2, <5>1
      <4> QED
        BY <4>1, <4>2
    <3>4. \A i \in DOMAIN list : \E j \in DOMAIN ListOf(s) :
             list[i] = ListOf(s)[j] /\ list[i] \in Subs /\ list[i] # s
      <4> TAKE i \in DOMAIN list
      <4>1. PICK j \in DOMAIN ListOf(s) : list[i] = ListOf(s)[j] /\ j # n
        BY <3>3
      <4>2. ListOf(s)[j] \in Subs
        BY <1>4, Elements
      <4>3. ListOf(s)[j] # s
        BY <1>2, <3>2, <4>1
      <4> WITNESS j \in DOMAIN ListOf(s)
      <4> QED
        BY <4>1, <4>2, <4>3
    <3>5. \A i \in DOMAIN list : subPc'[list[i]] \in {"open", "canceled"}
      BY <1>8, <3>1, <3>4 DEF Listed
    <3>6. \A i \in DOMAIN list : setup[list[i]].kind = k /\ setup[list[i]].channel = c
      BY <3>1, <3>4 DEF Listed
    <3>7. \A i, j \in DOMAIN list : list[i] = list[j] => i = j
      <4> SUFFICES ASSUME NEW i \in DOMAIN list, NEW j \in DOMAIN list, list[i] = list[j]
                   PROVE  i = j
        OBVIOUS
      <4>1. PICK x \in DOMAIN ListOf(s) :
               list[i] = ListOf(s)[x] /\ x # n /\ (x = i \/ x = i + 1) /\ (x = i <=> i < n)
        BY <3>3
      <4>2. PICK y \in DOMAIN ListOf(s) :
               list[j] = ListOf(s)[y] /\ y # n /\ (y = j \/ y = j + 1) /\ (y = j <=> j < n)
        BY <3>3
      <4>3. x = y
        BY <3>2, <4>1, <4>2
      <4> QED
        BY <1>5, <1>6, <4>1, <4>2, <4>3
    <3> QED
      BY <1>1, <3>1, <3>5, <3>6, <3>7
  <2>2. CASE ~(k = setup[s].kind /\ c = setup[s].channel)
    <3>1. lists'[k][c] = lists[k][c]
      BY <1>7, <2>2
    <3>2. \A i \in DOMAIN lists[k][c] : lists[k][c][i] \in Subs /\ lists[k][c][i] # s
      <4>1. lists[k][c] \in Seq(Subs)
        BY DEF TypeOK
      <4>2. \A i \in DOMAIN lists[k][c] : lists[k][c][i] # s
        BY <2>2 DEF Listed
      <4> QED
        BY <4>1, <4>2, Elements
    <3> QED
      BY <1>1, <1>8, <3>1, <3>2 DEF Listed
  <2> QED
    BY <2>1, <2>2
<1>10. Held'
  BY <1>1, <1>8 DEF Held, NoPanic, TypeOK
<1> QED
  BY <1>9, <1>10

(* Close before and after it unsubscribes.                                     *)
LEMMA ListClose ==
  ASSUME TypeOK, Listed, Held, NEW s \in Subs, CallClose(s) \/ CloseReader(s)
  PROVE  Listed' /\ Held'
<1>1. UNCHANGED <<setup, lists, writes, panicked>>
  BY DEF CallClose, CloseReader, readVars
<1>2. /\ \A t \in Subs : subPc[t] \in {"open", "canceled"} => subPc'[t] \in {"open", "canceled"}
      /\ \A t \in msgClosed' : subPc'[t] = "closed"
  <2>1. CASE CallClose(s)
    BY <2>1 DEF CallClose, Life, TypeOK, Held, readVars
  <2>2. CASE CloseReader(s)
    BY <2>2 DEF CloseReader, Life, TypeOK, Held
  <2> QED
    BY <2>1, <2>2
<1>3. \A k \in Kinds, c \in Channels : \A i \in DOMAIN lists[k][c] : lists[k][c][i] \in Subs
  BY DEF TypeOK
<1>4. \A i \in DOMAIN writes : writes[i] \in Subs
  BY DEF TypeOK
<1>5. Listed'
  BY <1>1, <1>2, <1>3 DEF Listed
<1> QED
  BY <1>1, <1>2, <1>4, <1>5 DEF Held, NoPanic

(* A dispatch takes readers from the lists; a write takes the first of them.   *)
LEMMA ListReceive ==
  ASSUME TypeOK, Listed, Held, Receive
  PROVE  /\ Listed' /\ Held'
         /\ \A i \in DOMAIN writes' : setup[writes'[i]].channel = Head(net).channel
<1> DEFINE c == Head(net).channel
           l == lists["subs"][c]
<1>1. UNCHANGED <<setup, subPc, lists, msgClosed, panicked>> /\ c \in Channels
  BY DispatchFacts DEF Receive, Msg
<1>2. Listed'
  BY <1>1 DEF Listed
<1>3. /\ "subs" \in Kinds /\ "queues" \in Kinds
      /\ l \in Seq(Subs) /\ lists["queues"][c] \in Seq(Subs)
  BY <1>1 DEF TypeOK, Kinds
<1>4. /\ \A i \in DOMAIN l : /\ subPc[l[i]] \in {"open", "canceled"}
                             /\ setup[l[i]].kind = "subs"
                             /\ setup[l[i]].channel = c
      /\ \A i, j \in DOMAIN l : l[i] = l[j] => i = j
  BY <1>1, <1>3 DEF Listed
<1>5. CASE writes' = l
  BY <1>1, <1>2, <1>4, <1>5 DEF Held, NoPanic
<1>6. ASSUME NEW n \in DOMAIN lists["queues"][c], writes' = Append(l, lists["queues"][c][n])
      PROVE  /\ Held'
             /\ \A i \in DOMAIN writes' : setup[writes'[i]].channel = c
  <2>1. PICK q \in Subs : q = lists["queues"][c][n]
    BY <1>3
  <2>2. subPc[q] \in {"open", "canceled"} /\ setup[q].kind = "queues" /\ setup[q].channel = c
    BY <1>1, <1>3, <2>1 DEF Listed
  <2> HIDE DEF l
  <2>3. \A i \in DOMAIN writes' : \/ i \in DOMAIN l /\ writes'[i] = l[i]
                                  \/ i = Len(l) + 1 /\ writes'[i] = q
    BY <1>3, <1>6, <2>1, Added
  <2>4. \A i, j \in DOMAIN writes' : writes'[i] = writes'[j] => i = j
    BY <1>4, <2>2, <2>3
  <2> QED
    BY <1>1, <1>4, <2>2, <2>3, <2>4 DEF Held, NoPanic
<1> QED
  BY <1>2, <1>4, <1>5, <1>6, DispatchFacts

(* A write, or a skipped one, takes the reader off the readers to write to.  *)
LEMMA ListWrite ==
  ASSUME TypeOK, Listed, Held, Write \/ Skip
  PROVE  Listed' /\ Held'
<1>1. /\ UNCHANGED <<setup, subPc, lists, msgClosed>>
      /\ writes # <<>> /\ writes' = Tail(writes) /\ writes \in Seq(Subs)
  BY DEF Write, Skip, TypeOK, subVars
<1>2. /\ 1 \in DOMAIN writes /\ Head(writes) = writes[1]
      /\ DOMAIN writes = 1..Len(writes) /\ Len(writes) \in Nat
      /\ DOMAIN writes' = 1..(Len(writes) - 1)
      /\ \A j \in DOMAIN writes' : j + 1 \in DOMAIN writes /\ writes'[j] = writes[j + 1]
  BY <1>1, Taken
<1>3. Head(writes) \notin msgClosed
  BY <1>2 DEF Held
<1>4. NoPanic'
  BY <1>3 DEF Write, Skip, Held, NoPanic
<1>5. Listed'
  BY <1>1 DEF Listed
<1>6. \A i, j \in DOMAIN writes' : writes'[i] = writes'[j] => i = j
  <2> SUFFICES ASSUME NEW i \in DOMAIN writes', NEW j \in DOMAIN writes', writes'[i] = writes'[j]
               PROVE  i = j
    OBVIOUS
  <2>1. i + 1 = j + 1
    BY <1>2 DEF Held
  <2> QED
    BY <1>2, <2>1
<1> QED
  BY <1>1, <1>2, <1>4, <1>5, <1>6 DEF Held

-----------------------------------------------------------------------------
(* The batch and the channels that are settled.                                *)
BatchVars == <<lists, dirty, reconcileVars>>

(* Steps that leave the lists, the marks and the batch alone.                *)
LEMMA SameBatch ==
  ASSUME Batch, SettledIsSubscribed, UNCHANGED BatchVars
  PROVE  Batch' /\ SettledIsSubscribed'
  BY DEF Batch, SettledIsSubscribed, Wanted, BatchVars, reconcileVars

(* A list that appears or goes makes its channel dirty, and the others are     *)
(* wanted as before.                                                           *)
LEMMA BatchSubscribe ==
  ASSUME TypeOK, Batch, SettledIsSubscribed, NEW s \in Subs, Subscribe(s) \/ Unsubscribe(s)
  PROVE  Batch' /\ SettledIsSubscribed'
<1>1. UNCHANGED <<current, wPc, toSub, toUnsub, failed, redis>>
  BY DEF Subscribe, Unsubscribe, reconcileVars
<1>2. dirty \subseteq dirty' /\ \A c \in Channels \ dirty' : Wanted(c)' <=> Wanted(c)
  BY SubscribeFacts, SetListFacts
<1>3. toSub \subseteq Channels /\ toUnsub \subseteq Channels
  BY DEF TypeOK
<1>4. Batch'
  BY <1>1, <1>2, <1>3 DEF Batch
<1> QED
  BY <1>1, <1>2, <1>4 DEF SettledIsSubscribed

(* The critical section: what the commands have done is accounted for, and the *)
(* dirty channels are looked at.                                               *)
LEMMA BatchReconcile ==
  ASSUME TypeOK, Batch, SettledIsSubscribed, Reconcile
  PROVE  Batch' /\ SettledIsSubscribed'
<1> DEFINE d == dirty \cup Again
<1>1. /\ wPc = "run"
      /\ current' = Applied
      /\ toSub' = {c \in d : c \notin Applied /\ Wanted(c)}
      /\ toUnsub' = {c \in d : c \in Applied /\ ~Wanted(c)}
      /\ failed' = {}
      /\ dirty' = {}
      /\ wPc' = IF d = {} THEN "drain" ELSE "subscribe"
      /\ UNCHANGED <<lists, redis>>
  BY DEF Reconcile, NextBatch
<1>2. \A c : Wanted(c)' <=> Wanted(c)
  BY <1>1 DEF Wanted
<1>3. \A c \in Applied : c \in redis
  <2> SUFFICES ASSUME NEW c \in Applied
               PROVE  c \in redis
    OBVIOUS
  <2>1. CASE c \in toSub \ Again
    <3>1. "subscribe" \notin failed
      BY <2>1 DEF Again
    <3> QED
      BY <1>1, <2>1, <3>1 DEF Batch
  <2>2. CASE c \in current \ toUnsub
    BY <2>2 DEF Batch
  <2>3. CASE c \in toUnsub /\ c \in Again
    <3>1. c \notin toSub
      BY <2>3 DEF Batch
    <3>2. "unsubscribe" \in failed
      BY <2>3, <3>1 DEF Again
    <3> QED
      BY <2>3, <3>2 DEF Batch
  <2> QED
    BY <2>1, <2>2, <2>3 DEF Applied
<1>4. Batch'
  BY <1>1, <1>2, <1>3 DEF Batch
<1>5. SettledIsSubscribed'
  <2> SUFFICES ASSUME NEW c \in Channels, c \notin toSub', c \notin toUnsub'
               PROVE  (c \in Applied <=> Wanted(c)) /\ (c \in Applied => c \in redis)
    BY <1>1, <1>2 DEF SettledIsSubscribed
  <2>1. CASE c \in d
    BY <1>1, <1>3, <2>1
  <2>2. CASE c \notin d /\ c \in toSub
    <3>1. c \in Applied
      BY <2>2 DEF Applied, Batch
    <3> QED
      BY <1>3, <2>2, <3>1 DEF Batch
  <2>3. CASE c \notin d /\ c \in toUnsub
    <3>1. c \notin Applied
      BY <2>3 DEF Applied
    <3> QED
      BY <2>3, <3>1 DEF Batch
  <2>4. CASE c \notin d /\ c \notin toSub /\ c \notin toUnsub
    <3>1. c \in Applied <=> c \in current
      BY <2>4 DEF Applied
    <3> QED
      BY <1>3, <2>4, <3>1 DEF SettledIsSubscribed
  <2> QED
    BY <2>1, <2>2, <2>3, <2>4
<1> QED
  BY <1>4, <1>5

(* A round of the write worker leaves what it settled as it is wanted.       *)
LEMMA BatchWrite ==
  ASSUME TypeOK, Batch, SettledIsSubscribed, WriteWorker
  PROVE  Batch' /\ SettledIsSubscribed'
<1>1. CASE Wake \/ Drain
  BY <1>1 DEF Wake, Drain, Worker, Batch, SettledIsSubscribed, Wanted
<1>2. CASE Reconcile
  BY <1>2, BatchReconcile
<1>3. CASE PsSubscribe \/ PsUnsubscribe
  <2>1. UNCHANGED <<lists, dirty, current, toSub, toUnsub>>
    BY <1>3 DEF PsSubscribe, PsUnsubscribe, subVars
  <2>2. \A c : Wanted(c)' <=> Wanted(c)
    BY <2>1 DEF Wanted
  <2>3. CASE PsSubscribe
    <3>1. /\ wPc = "subscribe" /\ wPc' = "unsubscribe" /\ redis \subseteq redis'
          /\ failed = {}
          /\ \/ redis' = redis \cup toSub /\ failed' = {}
             \/ failed' = {"subscribe"}
      BY <2>3 DEF PsSubscribe, Worker, Batch
    <3> QED
      BY <2>1, <2>2, <3>1 DEF Batch, SettledIsSubscribed
  <2>4. CASE PsUnsubscribe
    <3>1. /\ wPc = "unsubscribe" /\ wPc' = "run"
          /\ \/ redis' = redis \ toUnsub /\ failed' = failed
             \/ redis' = redis /\ failed' = failed \cup {"unsubscribe"}
          /\ "unsubscribe" \notin failed
      BY <2>4 DEF PsUnsubscribe, Worker, Batch
    <3>2. toSub \cap toUnsub = {}
      BY DEF Batch
    <3>3. CASE redis' = redis \ toUnsub /\ failed' = failed
      BY <2>1, <2>2, <3>1, <3>2, <3>3 DEF Batch, SettledIsSubscribed
    <3>4. CASE redis' = redis /\ failed' = failed \cup {"unsubscribe"}
      BY <2>1, <2>2, <3>1, <3>4 DEF Batch, SettledIsSubscribed
    <3> QED
      BY <3>1, <3>3, <3>4
  <2> QED
    BY <1>3, <2>3, <2>4
<1> QED
  BY <1>1, <1>2, <1>3 DEF WriteWorker

-----------------------------------------------------------------------------
(* The way of a message.                                                       *)
OrderVars == <<setup, net, messages, batch, published, got, msgChan, writes, writing>>

(* Steps that move no message.                                               *)
LEMMA SameOrder ==
  ASSUME Order, UNCHANGED OrderVars
  PROVE  Order'
  BY DEF Order, QueueOrder, NetOrder, Passed, ReaderOrder, InOrder, Queued, Upstream, Reached,
         OrderVars

(* The readers' side is as before when nothing reaches a reader and nothing    *)
(* new is on the way to one.                                                   *)
LEMMA SamePassed ==
  ASSUME Order, UNCHANGED <<setup, published, got, msgChan, writes, writing>>,
         \A m \in Msg : Upstream(m)' => Upstream(m)
  PROVE  /\ \A m \in Msg : Upstream(m)' => m.id <= published'
         /\ Passed' /\ ReaderOrder' /\ InOrder'
<1>1. \A s \in Subs, n \in 1..MaxMessages : Reached(s, n)' => Reached(s, n)
  BY DEF Reached
<1>2. Passed'
  BY <1>1 DEF Order, Passed
<1>3. ReaderOrder' /\ InOrder'
  BY DEF Order, ReaderOrder, InOrder
<1> QED
  BY <1>2, <1>3 DEF Order

(* Publish: the number is the highest so far, and its queue puts it last.      *)
LEMMA OrderPublish ==
  ASSUME TypeOK, Order, NEW c \in Publishable, Publish(c)
  PROVE  Order'
<1>1. PICK b \in Buckets : b = Bucket[c]
  BY RedisAssumption
<1>2. PICK m \in Msg : m = [channel |-> c, id |-> published + 1]
  <2>1. c \in Channels /\ published + 1 \in 1..MaxMessages
    BY RedisAssumption DEF Publish, TypeOK
  <2> QED
    BY <2>1 DEF Msg
<1>3. m.channel = c /\ m.id = published + 1 /\ published \in Nat
  BY <1>2 DEF TypeOK
<1>4. /\ messages' = [messages EXCEPT ![b] = Append(messages[b], m)]
      /\ published' = published + 1
      /\ UNCHANGED <<setup, net, batch, got, msgChan, writes, writing>>
  BY <1>1, <1>2 DEF Publish, Enqueue, readVars
<1>5. /\ messages[b] \in Seq(Msg)
      /\ messages'[b] = Append(messages[b], m)
      /\ \A x \in Buckets \ {b} : messages'[x] = messages[x]
  BY <1>4 DEF TypeOK
<1>6. /\ Len(messages[b]) \in Nat
      /\ DOMAIN messages[b] = 1..Len(messages[b])
      /\ DOMAIN messages'[b] = 1..(Len(messages[b]) + 1)
      /\ \A j \in DOMAIN messages[b] : messages'[b][j] = messages[b][j]
      /\ messages'[b][Len(messages[b]) + 1] = m
  BY <1>5, Added
<1>7. \A x \in Buckets, y \in Msg : Queued(x, y)' => Queued(x, y) \/ (x = b /\ y = m)
  BY <1>4, <1>5, <1>6 DEF Queued
<1>8. \A y \in Msg : Upstream(y)' => Upstream(y) \/ y = m
  BY <1>4, <1>7 DEF Upstream
<1>9. \A x \in Buckets, y \in Msg : Queued(x, y) => y.id <= published
  BY DEF Order, Upstream
<1>10. \A x \in Buckets : batch[x] \in Seq(Msg) /\ messages[x] \in Seq(Msg)
  BY DEF TypeOK
<1>11. \A x \in Buckets : /\ \A i \in DOMAIN batch[x] : batch[x][i] \in Msg /\ batch[x][i].id <= published
                          /\ \A i \in DOMAIN messages[x] :
                                messages[x][i] \in Msg /\ messages[x][i].id <= published
  BY <1>9, <1>10 DEF Queued
<1>12. \A y \in Msg : y.id \in Nat
  BY DEF Msg
<1>13. QueueOrder'
  <2> SUFFICES ASSUME NEW x \in Buckets
               PROVE  /\ \A i \in DOMAIN batch[x] : Bucket[batch[x][i].channel] = x
                      /\ \A i \in DOMAIN messages'[x] : Bucket[messages'[x][i].channel] = x
                      /\ \A i, j \in DOMAIN batch[x] : i < j => batch[x][i].id < batch[x][j].id
                      /\ \A i, j \in DOMAIN messages'[x] :
                            i < j => messages'[x][i].id < messages'[x][j].id
                      /\ \A i \in DOMAIN batch[x], j \in DOMAIN messages'[x] :
                            batch[x][i].id < messages'[x][j].id
    BY <1>4 DEF QueueOrder
  <2>1. CASE x # b
    BY <1>5, <2>1 DEF Order, QueueOrder
  <2>2. CASE x = b
    <3>1. \A i \in DOMAIN messages'[b] :
             \/ i = Len(messages[b]) + 1 /\ messages'[b][i] = m
             \/ i \in DOMAIN messages[b] /\ messages'[b][i] = messages[b][i]
                /\ i < Len(messages[b]) + 1
      BY <1>6
    <3>2. \A i \in DOMAIN messages'[b] : Bucket[messages'[b][i].channel] = b
      BY <1>1, <1>3, <3>1 DEF Order, QueueOrder
    <3>3. \A i, j \in DOMAIN messages'[b] : i < j => messages'[b][i].id < messages'[b][j].id
      <4> SUFFICES ASSUME NEW i \in DOMAIN messages'[b], NEW j \in DOMAIN messages'[b], i < j
                   PROVE  messages'[b][i].id < messages'[b][j].id
        OBVIOUS
      <4>1. i \in DOMAIN messages[b] /\ messages'[b][i] = messages[b][i]
        BY <1>6, <3>1
      <4>2. CASE j \in DOMAIN messages[b]
        BY <3>1, <4>1, <4>2, <1>6 DEF Order, QueueOrder
      <4>3. CASE messages'[b][j] = m
        BY <1>3, <1>11, <1>12, <4>1, <4>3
      <4> QED
        BY <3>1, <4>2, <4>3
    <3>4. \A i \in DOMAIN batch[b], j \in DOMAIN messages'[b] : batch[b][i].id < messages'[b][j].id
      BY <1>3, <1>11, <1>12, <3>1 DEF Order, QueueOrder
    <3> QED
      BY <2>2, <3>2, <3>3, <3>4 DEF Order, QueueOrder
  <2> QED
    BY <2>1, <2>2
<1>14. \A i \in DOMAIN net : net[i] \in Msg /\ net[i].id <= published
  <2>1. \A i \in DOMAIN net : net[i] \in Msg
    BY DEF TypeOK
  <2> QED
    BY <2>1 DEF Order, Upstream
<1>15. NetOrder'
  <2>1. ASSUME NEW i \in DOMAIN net, NEW x \in Buckets, NEW y \in Msg, Queued(x, y)',
               y.channel = net[i].channel
        PROVE  net[i].id < y.id
    <3>1. CASE Queued(x, y)
      BY <2>1, <3>1 DEF Order, NetOrder
    <3>2. CASE y = m
      BY <1>3, <1>12, <1>14, <3>2
    <3> QED
      BY <1>7, <2>1, <3>1, <3>2
  <2> QED
    BY <1>4, <2>1 DEF Order, NetOrder
<1>16. \A y \in Msg : Upstream(y)' => y.id <= published'
  BY <1>3, <1>4, <1>8, <1>12 DEF Order
<1>17. Passed'
  <2>1. \A s \in Subs, n \in 1..MaxMessages : Reached(s, n)' => Reached(s, n)
    BY <1>4 DEF Reached
  <2> SUFFICES ASSUME NEW s \in Subs, NEW n \in 1..MaxMessages, Reached(s, n)
               PROVE  /\ n <= published + 1
                      /\ \A y \in Msg : Upstream(y)' /\ y.channel = setup[s].channel => n < y.id
    BY <1>4, <2>1 DEF Passed
  <2>2. n <= published
    BY DEF Order, Passed
  <2> QED
    BY <1>3, <1>8, <2>2 DEF Order, Passed
<1>18. ReaderOrder' /\ InOrder'
  BY <1>4 DEF Order, ReaderOrder, InOrder
<1> QED
  BY <1>13, <1>15, <1>16, <1>17, <1>18 DEF Order

(* The worker of a publish queue: everything it has goes into the pipeline, in *)
(* order, and what Redis executes first comes first.                           *)
LEMMA OrderTake ==
  ASSUME TypeOK, Order, NEW b \in Buckets, TakeMessages(b)
  PROVE  Order'
<1>1. /\ batch' = [batch EXCEPT ![b] = messages[b]]
      /\ messages' = [messages EXCEPT ![b] = <<>>]
      /\ UNCHANGED <<setup, net, published, got, msgChan, writes, writing>>
  BY DEF TakeMessages, readVars
<1>2. /\ batch'[b] = messages[b] /\ messages'[b] = <<>>
      /\ \A x \in Buckets \ {b} : batch'[x] = batch[x] /\ messages'[x] = messages[x]
  BY <1>1 DEF TypeOK
<1>3. \A x \in Buckets, m \in Msg : Queued(x, m)' => Queued(x, m)
  BY <1>2 DEF Queued
<1>4. QueueOrder'
  BY <1>2 DEF Order, QueueOrder
<1>5. NetOrder'
  BY <1>1, <1>3 DEF Order, NetOrder
<1>6. \A m \in Msg : Upstream(m)' => Upstream(m)
  BY <1>1, <1>3 DEF Upstream
<1> QED
  BY <1>1, <1>4, <1>5, <1>6, SamePassed DEF Order

(* The end of a pipeline drops what is left of its batch.                    *)
LEMMA OrderReturns ==
  ASSUME TypeOK, Order, NEW b \in Buckets, ExecReturns(b)
  PROVE  Order'
<1>1. /\ batch' = [batch EXCEPT ![b] = <<>>]
      /\ UNCHANGED <<setup, net, messages, published, got, msgChan, writes, writing>>
  BY DEF ExecReturns, readVars
<1>2. batch'[b] = <<>> /\ \A x \in Buckets \ {b} : batch'[x] = batch[x]
  BY <1>1 DEF TypeOK
<1>3. \A x \in Buckets, m \in Msg : Queued(x, m)' => Queued(x, m)
  BY <1>1, <1>2 DEF Queued
<1>4. QueueOrder'
  BY <1>1, <1>2 DEF Order, QueueOrder
<1>5. NetOrder'
  BY <1>1, <1>3 DEF Order, NetOrder
<1>6. \A m \in Msg : Upstream(m)' => Upstream(m)
  BY <1>1, <1>3 DEF Upstream
<1> QED
  BY <1>1, <1>4, <1>5, <1>6, SamePassed DEF Order

(* A command of the pipeline passes the first message of the batch on.       *)
LEMMA OrderExec ==
  ASSUME TypeOK, Order, NEW b \in Buckets, ExecCommand(b)
  PROVE  Order'
<1>1. /\ batch[b] # <<>> /\ batch[b] \in Seq(Msg)
      /\ batch' = [batch EXCEPT ![b] = Tail(batch[b])]
      /\ net' = net \/ net' = Append(net, Head(batch[b]))
      /\ UNCHANGED <<setup, messages, published, got, msgChan, writes, writing>>
  BY DEF ExecCommand, readVars, TypeOK
<1>2. PICK h \in Msg : h = Head(batch[b]) /\ h = batch[b][1]
  BY <1>1, Taken
<1>3. batch'[b] = Tail(batch[b]) /\ \A x \in Buckets \ {b} : batch'[x] = batch[x]
  BY <1>1 DEF TypeOK
<1>4. /\ 1 \in DOMAIN batch[b]
      /\ Len(batch[b]) \in Nat
      /\ DOMAIN batch'[b] = 1..(Len(batch[b]) - 1)
      /\ \A j \in DOMAIN batch'[b] : j + 1 \in DOMAIN batch[b] /\ batch'[b][j] = batch[b][j + 1]
  <2>1. PICK q \in Seq(Msg) : q = batch[b] /\ q # <<>>
    BY <1>1
  <2>2. /\ 1 \in DOMAIN q
        /\ Len(q) \in Nat
        /\ DOMAIN Tail(q) = 1..(Len(q) - 1)
        /\ \A j \in DOMAIN Tail(q) : j + 1 \in DOMAIN q /\ Tail(q)[j] = q[j + 1]
    BY <2>1, Taken
  <2> QED
    BY <1>3, <2>1, <2>2
<1>5. \A x \in Buckets, m \in Msg : Queued(x, m)' => Queued(x, m)
  BY <1>1, <1>3, <1>4 DEF Queued
<1>6. QueueOrder'
  <2> SUFFICES ASSUME NEW x \in Buckets
               PROVE  /\ \A i \in DOMAIN batch'[x] : Bucket[batch'[x][i].channel] = x
                      /\ \A i \in DOMAIN messages[x] : Bucket[messages[x][i].channel] = x
                      /\ \A i, j \in DOMAIN batch'[x] : i < j => batch'[x][i].id < batch'[x][j].id
                      /\ \A i, j \in DOMAIN messages[x] :
                            i < j => messages[x][i].id < messages[x][j].id
                      /\ \A i \in DOMAIN batch'[x], j \in DOMAIN messages[x] :
                            batch'[x][i].id < messages[x][j].id
    BY <1>1 DEF QueueOrder
  <2>1. CASE x # b
    BY <1>3, <2>1 DEF Order, QueueOrder
  <2>2. CASE x = b
    <3>1. \A i, j \in DOMAIN batch'[b] : i < j => batch'[b][i].id < batch'[b][j].id
      <4>1. \A i, j \in DOMAIN batch'[b] : i < j => i + 1 < j + 1
        BY <1>4
      <4> QED
        BY <1>4, <4>1 DEF Order, QueueOrder
    <3>2. \A i \in DOMAIN batch'[b] : Bucket[batch'[b][i].channel] = b
      BY <1>4 DEF Order, QueueOrder
    <3>3. \A i \in DOMAIN batch'[b], j \in DOMAIN messages[b] : batch'[b][i].id < messages[b][j].id
      BY <1>4 DEF Order, QueueOrder
    <3> QED
      BY <2>2, <3>1, <3>2, <3>3 DEF Order, QueueOrder
  <2> QED
    BY <2>1, <2>2
<1>7. \A i \in DOMAIN net : net[i].channel = h.channel => net[i].id < h.id
  <2>1. Queued(b, h)
    BY <1>2, <1>4 DEF Queued
  <2> QED
    BY <2>1 DEF Order, NetOrder
<1>8. ASSUME NEW x \in Buckets, NEW m \in Msg, Queued(x, m)', m.channel = h.channel
      PROVE  h.id < m.id
  <2>1. Bucket[h.channel] = b
    BY <1>2, <1>4 DEF Order, QueueOrder
  <2>2. Bucket[m.channel] = x
    BY <1>5, <1>8 DEF Order, QueueOrder, Queued
  <2>3. x = b
    BY <1>8, <2>1, <2>2
  <2>4. CASE \E i \in DOMAIN batch'[b] : batch'[b][i] = m
    <3>1. PICK i \in DOMAIN batch'[b] : batch'[b][i] = m
      BY <2>4
    <3>2. i + 1 \in DOMAIN batch[b] /\ batch[b][i + 1] = m /\ 1 < i + 1
      BY <1>4, <3>1
    <3> QED
      BY <1>2, <1>4, <3>2 DEF Order, QueueOrder
  <2>5. CASE \E i \in DOMAIN messages[b] : messages[b][i] = m
    BY <1>2, <1>4, <2>5 DEF Order, QueueOrder
  <2> QED
    BY <1>1, <1>8, <2>3, <2>4, <2>5 DEF Queued
<1>9. net \in Seq(Msg)
  BY DEF TypeOK
<1>10. \A i \in DOMAIN net' : \/ i \in DOMAIN net /\ net'[i] = net[i]
                              \/ i = Len(net) + 1 /\ net'[i] = h /\ net' # net
  BY <1>1, <1>2, <1>9, Added
<1>11. NetOrder'
  <2>1. ASSUME NEW i \in DOMAIN net', NEW j \in DOMAIN net', i < j,
               net'[i].channel = net'[j].channel
        PROVE  net'[i].id < net'[j].id
    <3>1. i \in DOMAIN net /\ net'[i] = net[i]
      BY <1>1, <1>9, <1>10, <2>1
    <3>2. CASE j \in DOMAIN net /\ net'[j] = net[j]
      BY <2>1, <3>1, <3>2 DEF Order, NetOrder
    <3>3. CASE net'[j] = h
      BY <1>7, <2>1, <3>1, <3>3
    <3> QED
      BY <1>10, <3>2, <3>3
  <2>2. ASSUME NEW i \in DOMAIN net', NEW x \in Buckets, NEW m \in Msg, Queued(x, m)',
               m.channel = net'[i].channel
        PROVE  net'[i].id < m.id
    <3>1. CASE i \in DOMAIN net /\ net'[i] = net[i]
      BY <1>5, <2>2, <3>1 DEF Order, NetOrder
    <3>2. CASE net'[i] = h
      BY <1>8, <2>2, <3>2
    <3> QED
      BY <1>10, <3>1, <3>2
  <2> QED
    BY <2>1, <2>2 DEF NetOrder
<1>12. \A m \in Msg : Upstream(m)' => Upstream(m)
  <2>1. Upstream(h)
    BY <1>2, <1>4 DEF Upstream, Queued
  <2> QED
    BY <1>5, <1>10, <2>1 DEF Upstream
<1> QED
  BY <1>1, <1>6, <1>11, <1>12, SamePassed DEF Order

(* A failed receive loses what is on the connection, which keeps its order.  *)
LEMMA OrderFails ==
  ASSUME TypeOK, Order, ReceiveFails
  PROVE  Order'
<1>1. /\ net' = <<>>
      /\ UNCHANGED <<setup, messages, batch, published, got, msgChan, writes, writing>>
  BY DEF ReceiveFails, readVars, publishVars
<1>2. \A x \in Buckets, m \in Msg : Queued(x, m)' => Queued(x, m)
  BY <1>1 DEF Queued
<1>3. QueueOrder' /\ NetOrder'
  BY <1>1 DEF Order, QueueOrder, NetOrder
<1>4. \A m \in Msg : Upstream(m)' => Upstream(m)
  BY <1>1, <1>2 DEF Upstream
<1> QED
  BY <1>1, <1>3, <1>4, SamePassed DEF Order

(* The dispatch: the first message of its channel comes after what the readers *)
(* of the channel have, and before what is on the way.                         *)
LEMMA OrderReceive ==
  ASSUME TypeOK, Listed, Held, Order, Receive
  PROVE  Order'
<1>1. /\ net # <<>> /\ net \in Seq(Msg) /\ net' = Tail(net)
      /\ writes = <<>> /\ writing' = Head(net).id
      /\ UNCHANGED <<setup, messages, batch, published, got, msgChan>>
  BY DEF Receive, TypeOK, MuFree, publishVars
<1>2. PICK h \in Msg : h = Head(net) /\ h = net[1]
  BY <1>1, Taken
<1>3. /\ 1 \in DOMAIN net
      /\ Len(net) \in Nat
      /\ DOMAIN net' = 1..(Len(net) - 1)
      /\ \A j \in DOMAIN net' : j + 1 \in DOMAIN net /\ net'[j] = net[j + 1]
  BY <1>1, Taken
<1>4. \A i \in DOMAIN writes' : writes'[i] \in Subs /\ setup[writes'[i]].channel = h.channel
  BY <1>2, DispatchFacts, ListReceive
<1>5. \A x \in Buckets, m \in Msg : Queued(x, m)' <=> Queued(x, m)
  BY <1>1 DEF Queued
<1>6. Upstream(h) /\ \A m \in Msg : Upstream(m)' => Upstream(m)
  BY <1>1, <1>2, <1>3, <1>5 DEF Upstream
<1>7. h.id \in 1..MaxMessages /\ h.id <= published
  BY <1>6 DEF Order, Msg
<1>8. ASSUME NEW m \in Msg, Upstream(m)', m.channel = h.channel
      PROVE  h.id < m.id
  <2>1. CASE \E i \in DOMAIN net' : net'[i] = m
    <3>1. PICK i \in DOMAIN net' : net'[i] = m
      BY <2>1
    <3>2. i + 1 \in DOMAIN net /\ net[i + 1] = m /\ 1 < i + 1
      BY <1>3, <3>1
    <3> QED
      BY <1>2, <1>3, <1>8, <3>2 DEF Order, NetOrder
  <2>2. CASE \E x \in Buckets : Queued(x, m)
    BY <1>2, <1>3, <1>8, <2>2 DEF Order, NetOrder
  <2> QED
    BY <1>5, <1>8, <2>1, <2>2 DEF Upstream
<1>9. QueueOrder'
  BY <1>1 DEF Order, QueueOrder
<1>10. NetOrder'
  <2>1. ASSUME NEW i \in DOMAIN net', NEW j \in DOMAIN net', i < j,
               net'[i].channel = net'[j].channel
        PROVE  net'[i].id < net'[j].id
    <3>1. i + 1 < j + 1
      BY <1>3, <2>1
    <3> QED
      BY <1>3, <2>1, <3>1 DEF Order, NetOrder
  <2>2. ASSUME NEW i \in DOMAIN net', NEW x \in Buckets, NEW m \in Msg, Queued(x, m)',
               m.channel = net'[i].channel
        PROVE  net'[i].id < m.id
    BY <1>3, <1>5, <2>2 DEF Order, NetOrder
  <2> QED
    BY <2>1, <2>2 DEF NetOrder
<1>11. \A m \in Msg : Upstream(m)' => m.id <= published'
  BY <1>1, <1>6 DEF Order
<1>12. ASSUME NEW s \in Subs, NEW n \in 1..MaxMessages, Reached(s, n)'
       PROVE  Reached(s, n) \/ (n = h.id /\ setup[s].channel = h.channel)
  BY <1>1, <1>2, <1>4, <1>12 DEF Reached
<1>13. Passed'
  <2> SUFFICES ASSUME NEW s \in Subs, NEW n \in 1..MaxMessages, Reached(s, n)'
               PROVE  /\ n <= published
                      /\ \A m \in Msg : Upstream(m)' /\ m.channel = setup[s].channel => n < m.id
    BY <1>1 DEF Passed
  <2>1. CASE Reached(s, n)
    BY <1>6, <2>1 DEF Order, Passed
  <2>2. CASE n = h.id /\ setup[s].channel = h.channel
    BY <1>7, <1>8, <2>2
  <2> QED
    BY <1>12, <2>1, <2>2
<1>14. ReaderOrder'
  <2>1. ASSUME NEW k \in DOMAIN writes', NEW s \in Subs, s = writes'[k]
        PROVE  /\ \A i \in DOMAIN got[s] : got[s][i] < h.id
               /\ \A i \in DOMAIN msgChan[s] : msgChan[s][i] < h.id
    <3>1. PICK g \in Seq(1..MaxMessages), q \in Seq(1..MaxMessages) : g = got[s] /\ q = msgChan[s]
      BY DEF TypeOK
    <3>2. \A n \in 1..MaxMessages : Reached(s, n) => n < h.id
      BY <1>4, <1>6, <2>1 DEF Order, Passed
    <3>3. /\ \A i \in DOMAIN got[s] : got[s][i] \in 1..MaxMessages
          /\ \A i \in DOMAIN msgChan[s] : msgChan[s][i] \in 1..MaxMessages
      <4>1. \A i \in DOMAIN g : g[i] \in 1..MaxMessages
        BY Elements, Zenon
      <4>2. \A i \in DOMAIN q : q[i] \in 1..MaxMessages
        BY Elements, Zenon
      <4> QED
        BY <3>1, <4>1, <4>2
    <3> QED
      BY <3>2, <3>3 DEF Reached
  <2> QED
    BY <1>1, <1>2, <1>4, <2>1 DEF Order, ReaderOrder
<1>15. InOrder'
  BY <1>1 DEF Order, InOrder
<1> QED
  BY <1>9, <1>10, <1>11, <1>13, <1>14, <1>15 DEF Order

(* What is on the way is as before when only the readers' side changes.        *)
LEMMA SameUpstream ==
  ASSUME Order, UNCHANGED <<setup, net, messages, batch, published>>,
         \A s \in Subs, n \in 1..MaxMessages : Reached(s, n)' => Reached(s, n)
  PROVE  /\ QueueOrder' /\ NetOrder'
         /\ \A m \in Msg : Upstream(m)' => m.id <= published'
         /\ Passed'
<1>1. \A x \in Buckets, m \in Msg : Queued(x, m)' <=> Queued(x, m)
  BY DEF Queued
<1>2. \A m \in Msg : Upstream(m)' <=> Upstream(m)
  BY <1>1 DEF Upstream
<1>3. QueueOrder'
  BY DEF Order, QueueOrder
<1>4. NetOrder'
  BY <1>1 DEF Order, NetOrder
<1> QED
  BY <1>2, <1>3, <1>4 DEF Order, Passed

(* A write moves the message in hand to the end of the reader's channel, and   *)
(* the reader is not among those still to be written to.                       *)
LEMMA OrderWrite ==
  ASSUME TypeOK, Held, Order, Write \/ Skip
  PROVE  Order'
<1>1. /\ writes # <<>> /\ writes' = Tail(writes) /\ writes \in Seq(Subs)
      /\ UNCHANGED <<setup, net, messages, batch, published, got, writing>>
  BY DEF Write, Skip, TypeOK, publishVars
<1>2. PICK r \in Subs : r = Head(writes) /\ r = writes[1]
  BY <1>1, Taken
<1>3. /\ 1 \in DOMAIN writes
      /\ Len(writes) \in Nat
      /\ DOMAIN writes' = 1..(Len(writes) - 1)
      /\ \A j \in DOMAIN writes' : j + 1 \in DOMAIN writes /\ writes'[j] = writes[j + 1]
  BY <1>1, Taken
<1>4. \A j \in DOMAIN writes' : writes'[j] # r
  <2>1. \A j \in DOMAIN writes' : j + 1 # 1
    BY <1>3
  <2> QED
    BY <1>2, <1>3, <2>1 DEF Held
<1>5. /\ writing \in 1..MaxMessages
      /\ msgChan[r] \in Seq(1..MaxMessages)
      /\ got[r] \in Seq(1..MaxMessages)
  BY <1>1, RedisAssumption DEF TypeOK
<1>6. /\ \A t \in Subs \ {r} : msgChan'[t] = msgChan[t]
      /\ msgChan'[r] = msgChan[r] \/ msgChan'[r] = Append(msgChan[r], writing)
  <2>1. CASE Skip
    BY <2>1 DEF Skip
  <2>2. CASE Write
    <3>1. msgChan' = [msgChan EXCEPT ![r] = IF r \in msgClosed THEN @ ELSE Append(@, writing)]
      BY <1>2, <2>2 DEF Write
    <3>2. msgChan' = [msgChan EXCEPT ![r] = msgChan[r]]
          \/ msgChan' = [msgChan EXCEPT ![r] = Append(msgChan[r], writing)]
      BY <3>1
    <3> QED
      BY <3>2 DEF TypeOK
  <2> QED
    BY <2>1, <2>2
<1>7. \A i \in DOMAIN msgChan'[r] :
         \/ i \in DOMAIN msgChan[r] /\ msgChan'[r][i] = msgChan[r][i]
         \/ i = Len(msgChan[r]) + 1 /\ msgChan'[r][i] = writing /\ msgChan'[r] # msgChan[r]
  <2>1. PICK q \in Seq(1..MaxMessages) : q = msgChan[r]
    BY <1>5
  <2>2. \A i \in DOMAIN Append(q, writing) :
           \/ i \in DOMAIN q /\ Append(q, writing)[i] = q[i]
           \/ i = Len(q) + 1 /\ Append(q, writing)[i] = writing /\ Append(q, writing) # q
    BY <1>5, Added
  <2> QED
    BY <1>6, <2>1, <2>2
<1>8. /\ \A i \in DOMAIN got[r] : got[r][i] < writing
      /\ \A i \in DOMAIN msgChan[r] : msgChan[r][i] < writing
  BY <1>2, <1>3 DEF Order, ReaderOrder
<1>9. ASSUME NEW s \in Subs, NEW n \in 1..MaxMessages, Reached(s, n)'
      PROVE  Reached(s, n)
  <2>1. CASE s = r
    BY <1>1, <1>2, <1>3, <1>4, <1>7, <1>9, <2>1 DEF Reached
  <2>2. CASE s # r
    BY <1>1, <1>3, <1>6, <1>9, <2>2 DEF Reached
  <2> QED
    BY <2>1, <2>2
<1>10. ReaderOrder'
  <2>1. ASSUME NEW s \in Subs
        PROVE  /\ \A i, j \in DOMAIN msgChan'[s] : i < j => msgChan'[s][i] < msgChan'[s][j]
               /\ \A i \in DOMAIN got[s], j \in DOMAIN msgChan'[s] : got[s][i] < msgChan'[s][j]
    <3>1. CASE s # r
      BY <1>6, <3>1 DEF Order, ReaderOrder
    <3>2. CASE s = r
      <4>1. ASSUME NEW i \in DOMAIN msgChan'[r], NEW j \in DOMAIN msgChan'[r], i < j
            PROVE  msgChan'[r][i] < msgChan'[r][j]
        <5>1. i \in DOMAIN msgChan[r] /\ msgChan'[r][i] = msgChan[r][i]
          <6>1. \A k \in DOMAIN msgChan[r] : k < Len(msgChan[r]) + 1 /\ k \in Nat
            BY <1>5
          <6>2. Len(msgChan[r]) \in Nat
            BY <1>5
          <6> QED
            BY <1>7, <4>1, <6>1, <6>2
        <5>2. CASE j \in DOMAIN msgChan[r] /\ msgChan'[r][j] = msgChan[r][j]
          BY <4>1, <5>1, <5>2 DEF Order, ReaderOrder
        <5>3. CASE msgChan'[r][j] = writing
          BY <1>8, <5>1, <5>3
        <5> QED
          BY <1>7, <5>2, <5>3
      <4>2. \A i \in DOMAIN got[r], j \in DOMAIN msgChan'[r] : got[r][i] < msgChan'[r][j]
        BY <1>7, <1>8 DEF Order, ReaderOrder
      <4> QED
        BY <3>2, <4>1, <4>2
    <3> QED
      BY <3>1, <3>2
  <2>2. ASSUME NEW k \in DOMAIN writes', NEW s \in Subs, s = writes'[k]
        PROVE  /\ \A i \in DOMAIN got[s] : got[s][i] < writing
               /\ \A i \in DOMAIN msgChan'[s] : msgChan'[s][i] < writing
    <3>1. s # r /\ k + 1 \in DOMAIN writes /\ writes[k + 1] = s
      BY <1>3, <1>4, <2>2
    <3>2. msgChan'[s] = msgChan[s]
      BY <1>6, <3>1
    <3> QED
      BY <3>1, <3>2 DEF Order, ReaderOrder
  <2>3. \A k \in DOMAIN writes' : writes'[k] \in Subs
    BY <1>1, <1>3
  <2> QED
    BY <1>1, <2>1, <2>2, <2>3 DEF ReaderOrder
<1>11. InOrder'
  BY <1>1 DEF Order, InOrder
<1> QED
  BY <1>1, <1>9, <1>10, <1>11, SameUpstream DEF Order

(* Read takes the first message of the channel.                                *)
LEMMA OrderRead ==
  ASSUME TypeOK, Order, NEW r \in Subs, Read(r)
  PROVE  Order'
<1>1. /\ msgChan[r] # <<>>
      /\ msgChan' = [msgChan EXCEPT ![r] = Tail(msgChan[r])]
      /\ got' = got \/ got' = [got EXCEPT ![r] = Append(got[r], Head(msgChan[r]))]
      /\ UNCHANGED <<setup, net, messages, batch, published, writes, writing>>
  BY DEF Read, publishVars
<1>2. PICK q \in Seq(1..MaxMessages) : q = msgChan[r] /\ q # <<>>
  BY <1>1 DEF TypeOK
<1>3. PICK g \in Seq(1..MaxMessages) : g = got[r]
  BY DEF TypeOK
<1>4. /\ 1 \in DOMAIN q /\ Head(q) = q[1] /\ Head(q) \in 1..MaxMessages
      /\ Len(q) \in Nat
      /\ DOMAIN q = 1..Len(q)
      /\ DOMAIN Tail(q) = 1..(Len(q) - 1)
      /\ \A j \in DOMAIN Tail(q) : j + 1 \in DOMAIN q /\ Tail(q)[j] = q[j + 1]
  BY <1>2, Taken
<1>5. /\ got'[r] = g \/ got'[r] = Append(g, Head(q))
      /\ \A t \in Subs \ {r} : msgChan'[t] = msgChan[t] /\ got'[t] = got[t]
  BY <1>1, <1>2, <1>3 DEF TypeOK
<1>6. msgChan'[r] = Tail(q)
  BY <1>1, <1>2 DEF TypeOK
<1>7. \A i \in DOMAIN got'[r] : \/ i \in DOMAIN g /\ got'[r][i] = g[i]
                                \/ i = Len(g) + 1 /\ got'[r][i] = q[1]
  <2>1. CASE got'[r] = g
    BY <2>1
  <2>2. CASE got'[r] = Append(g, Head(q))
    <3>1. /\ Len(g) \in Nat /\ DOMAIN g = 1..Len(g)
          /\ DOMAIN Append(g, Head(q)) = 1..(Len(g) + 1)
          /\ \A j \in DOMAIN g : Append(g, Head(q))[j] = g[j]
          /\ Append(g, Head(q))[Len(g) + 1] = Head(q)
      BY <1>4, Added
    <3>2. ASSUME NEW i \in 1..(Len(g) + 1), i # Len(g) + 1 PROVE i \in DOMAIN g
      BY <3>1, <3>2
    <3> QED
      BY <1>4, <2>2, <3>1, <3>2
  <2> QED
    BY <1>5, <2>1, <2>2
<1>8. /\ \A i, j \in DOMAIN q : i < j => q[i] < q[j]
      /\ \A i \in DOMAIN g, j \in DOMAIN q : g[i] < q[j]
      /\ \A i, j \in DOMAIN g : i < j => g[i] < g[j]
  BY <1>2, <1>3 DEF Order, ReaderOrder, InOrder
<1>9. \A j \in DOMAIN Tail(q) : q[1] < Tail(q)[j]
  <2>1. \A j \in DOMAIN Tail(q) : 1 < j + 1
    BY <1>4
  <2> QED
    BY <1>4, <1>8, <2>1
<1>10. ASSUME NEW s \in Subs, NEW n \in 1..MaxMessages, Reached(s, n)'
       PROVE  Reached(s, n)
  <2>1. CASE s = r
    BY <1>1, <1>2, <1>3, <1>4, <1>6, <1>7, <1>10, <2>1 DEF Reached
  <2>2. CASE s # r
    BY <1>1, <1>5, <1>10, <2>2 DEF Reached
  <2> QED
    BY <2>1, <2>2
<1>11. \A i, j \in DOMAIN got'[r] : i < j => got'[r][i] < got'[r][j]
  <2> SUFFICES ASSUME NEW i \in DOMAIN got'[r], NEW j \in DOMAIN got'[r], i < j
               PROVE  got'[r][i] < got'[r][j]
    OBVIOUS
  <2>1. DOMAIN g = 1..Len(g) /\ Len(g) \in Nat
    OBVIOUS
  <2>2. i \in DOMAIN g /\ got'[r][i] = g[i]
    BY <1>7, <2>1
  <2>3. CASE j \in DOMAIN g /\ got'[r][j] = g[j]
    BY <1>8, <2>2, <2>3
  <2>4. CASE got'[r][j] = q[1]
    BY <1>4, <1>8, <2>2, <2>4
  <2> QED
    BY <1>7, <2>3, <2>4
<1>12. InOrder'
  BY <1>5, <1>11 DEF Order, InOrder
<1>13. ReaderOrder'
  <2>1. /\ \A i, j \in DOMAIN msgChan'[r] : i < j => msgChan'[r][i] < msgChan'[r][j]
        /\ \A i \in DOMAIN got'[r], j \in DOMAIN msgChan'[r] : got'[r][i] < msgChan'[r][j]
    <3>1. \A i, j \in DOMAIN Tail(q) : i < j => i + 1 < j + 1
      BY <1>4
    <3>2. \A i, j \in DOMAIN Tail(q) : i < j => Tail(q)[i] < Tail(q)[j]
      BY <1>4, <1>8, <3>1
    <3>3. \A i \in DOMAIN got'[r], j \in DOMAIN Tail(q) : got'[r][i] < Tail(q)[j]
      BY <1>4, <1>7, <1>8, <1>9
    <3> QED
      BY <1>6, <3>2, <3>3
  <2>2. ASSUME NEW k \in DOMAIN writes, writes[k] = r
        PROVE  /\ \A i \in DOMAIN got'[r] : got'[r][i] < writing
               /\ \A i \in DOMAIN msgChan'[r] : msgChan'[r][i] < writing
    <3>1. /\ \A i \in DOMAIN g : g[i] < writing
          /\ \A i \in DOMAIN q : q[i] < writing
      BY <1>2, <1>3, <2>2 DEF Order, ReaderOrder
    <3> QED
      BY <1>4, <1>6, <1>7, <3>1
  <2>3. \A k \in DOMAIN writes : writes[k] \in Subs
    BY DEF TypeOK
  <2>4. ASSUME NEW k \in DOMAIN writes, writes[k] # r
        PROVE  /\ \A i \in DOMAIN got'[writes[k]] : got'[writes[k]][i] < writing
               /\ \A i \in DOMAIN msgChan'[writes[k]] : msgChan'[writes[k]][i] < writing
    BY <1>5, <2>3, <2>4 DEF Order, ReaderOrder
  <2>5. \A s \in Subs \ {r} :
           /\ \A i, j \in DOMAIN msgChan'[s] : i < j => msgChan'[s][i] < msgChan'[s][j]
           /\ \A i \in DOMAIN got'[s], j \in DOMAIN msgChan'[s] : got'[s][i] < msgChan'[s][j]
    BY <1>5 DEF Order, ReaderOrder
  <2> QED
    BY <1>1, <2>1, <2>2, <2>4, <2>5 DEF ReaderOrder
<1> QED
  BY <1>1, <1>10, <1>12, <1>13, SameUpstream DEF Order

-----------------------------------------------------------------------------
(* Initially there are no readers in lists and no messages.                  *)
LEMMA InitInv ==
  ASSUME Init
  PROVE  RedisInv
<1>1. TypeOK
  BY TypeInit
<1>2. Listed
  BY DEF Init, Listed
<1>3. Held
  BY DEF Init, Held, NoPanic
<1>4. Batch /\ SettledIsSubscribed
  BY DEF Init, Batch, SettledIsSubscribed, Wanted
<1>5. /\ \A b \in Buckets : DOMAIN batch[b] = {} /\ DOMAIN messages[b] = {}
      /\ DOMAIN net = {} /\ DOMAIN writes = {}
      /\ \A s \in Subs : DOMAIN got[s] = {} /\ DOMAIN msgChan[s] = {}
  BY DEF Init
<1>6. /\ \A m : ~Upstream(m)
      /\ \A s \in Subs : \A n : ~Reached(s, n)
  BY <1>5 DEF Upstream, Queued, Reached
<1>7. Order
  BY <1>5, <1>6 DEF Order, QueueOrder, NetOrder, Passed, ReaderOrder, InOrder
<1> QED
  BY <1>1, <1>2, <1>3, <1>4, <1>7 DEF RedisInv

(* Every step keeps the invariant, part by part.                             *)
LEMMA NextInv ==
  ASSUME RedisInv, [Next]_vars
  PROVE  RedisInv'
<1> USE DEF RedisInv
<1>1. ASSUME NEW s \in Subs, Subscribe(s) \/ Unsubscribe(s)
      PROVE  RedisInv'
  <2>1. TypeOK'
    BY <1>1, TypeSub DEF CloseStep
  <2>2. Listed' /\ Held'
    BY <1>1, ListSubscribe, ListUnsubscribe
  <2>3. Batch' /\ SettledIsSubscribed'
    BY <1>1, BatchSubscribe
  <2>4. UNCHANGED OrderVars
    BY <1>1 DEF Subscribe, Unsubscribe, OrderVars, readVars, publishVars
  <2> QED
    BY <2>1, <2>2, <2>3, <2>4, SameOrder
<1>2. ASSUME NEW s \in Subs, CallClose(s) \/ CloseReader(s)
      PROVE  RedisInv'
  <2>1. TypeOK'
    BY <1>2, TypeSub DEF CloseStep
  <2>2. Listed' /\ Held'
    BY <1>2, ListClose
  <2>3. UNCHANGED BatchVars /\ UNCHANGED OrderVars
    BY <1>2 DEF CallClose, CloseReader, BatchVars, OrderVars, readVars, publishVars
  <2> QED
    BY <2>1, <2>2, <2>3, SameBatch, SameOrder
<1>3. ASSUME NEW s \in Subs, Read(s)
      PROVE  RedisInv'
  <2>1. TypeOK'
    BY <1>3, TypeSub
  <2>2. UNCHANGED ListVars /\ UNCHANGED BatchVars
    BY <1>3 DEF Read, ListVars, BatchVars, subVars
  <2> QED
    BY <1>3, <2>1, <2>2, SameLists, SameBatch, OrderRead
<1>4. CASE WriteWorker
  <2>1. TypeOK'
    BY <1>4, TypeWrite
  <2>2. UNCHANGED ListVars /\ UNCHANGED OrderVars
    BY <1>4 DEF WriteWorker, Wake, Drain, Reconcile, PsSubscribe, PsUnsubscribe, ListVars,
                OrderVars, subVars, readVars, publishVars
  <2> QED
    BY <1>4, <2>1, <2>2, SameLists, BatchWrite, SameOrder
<1>5. ASSUME NEW c \in Publishable, Publish(c)
      PROVE  RedisInv'
  <2>1. TypeOK'
    BY <1>5, TypePublish
  <2>2. UNCHANGED ListVars /\ UNCHANGED BatchVars
    BY <1>5 DEF Publish, ListVars, BatchVars, subVars, readVars
  <2> QED
    BY <1>5, <2>1, <2>2, SameLists, SameBatch, OrderPublish
<1>6. ASSUME NEW b \in Buckets, PublishWorker(b)
      PROVE  RedisInv'
  <2>1. TypeOK'
    BY <1>6, TypePublishWorker
  <2>2. UNCHANGED ListVars /\ UNCHANGED BatchVars
    BY <1>6 DEF PublishWorker, WakePublisher, TakeMessages, ExecCommand, ExecReturns, ListVars,
                BatchVars, subVars, readVars
  <2>3. Order'
    <3>1. CASE WakePublisher(b)
      BY <3>1, SameOrder DEF WakePublisher, OrderVars, readVars
    <3> QED
      BY <1>6, <3>1, OrderTake, OrderExec, OrderReturns DEF PublishWorker
  <2> QED
    BY <2>1, <2>2, <2>3, SameLists, SameBatch
<1>7. CASE ReadWorker
  <2>1. TypeOK'
    BY <1>7, TypeRead
  <2>2. UNCHANGED BatchVars
    BY <1>7 DEF ReadWorker, Receive, Write, Skip, BatchVars, subVars
  <2>3. Listed' /\ Held'
    BY <1>7, ListReceive, ListWrite DEF ReadWorker
  <2>4. Order'
    BY <1>7, OrderReceive, OrderWrite DEF ReadWorker
  <2> QED
    BY <2>1, <2>2, <2>3, <2>4, SameBatch
<1>8. CASE ReceiveFails
  <2>1. TypeOK'
    BY <1>8, TypeRead
  <2>2. UNCHANGED ListVars /\ UNCHANGED BatchVars
    BY <1>8 DEF ReceiveFails, ListVars, BatchVars, subVars, readVars
  <2> QED
    BY <1>8, <2>1, <2>2, SameLists, SameBatch, OrderFails
<1>9. CASE UNCHANGED vars
  <2>1. TypeOK'
    BY <1>9 DEF TypeOK, vars, subVars, reconcileVars, readVars, publishVars
  <2>2. UNCHANGED ListVars /\ UNCHANGED BatchVars /\ UNCHANGED OrderVars
    BY <1>9 DEF vars, subVars, readVars, publishVars, ListVars, BatchVars, OrderVars
  <2> QED
    BY <2>1, <2>2, SameLists, SameBatch, SameOrder
<1> QED
  BY <1>1, <1>2, <1>3, <1>4, <1>5, <1>6, <1>7, <1>8, <1>9 DEF Next, CloseStep

(* The parts of the invariant hold in every reachable state.                   *)
THEOREM RedisInvariance == Spec => []RedisInv
  BY InitInv, NextInv, PTL DEF Spec

(* The read worker never sends to a channel that Close has closed              *)
(* (pkg/bus/redisbus/redisbus.go, dispatch and Close).                         *)
THEOREM NeverPanics == Spec => []NoPanic
<1>1. RedisInv => NoPanic
  BY DEF RedisInv, Held
<1> QED
  BY <1>1, RedisInvariance, PTL

(* A channel the write worker no longer looks at is subscribed at Redis when   *)
(* it has readers, whatever commands failed and whoever came or went meanwhile *)
(* (pkg/bus/redisbus/redisbus.go, run).                                        *)
THEOREM SettledStaysRight == Spec => []SettledIsSubscribed
<1>1. RedisInv => SettledIsSubscribed
  BY DEF RedisInv
<1> QED
  BY <1>1, RedisInvariance, PTL

(* A reader gets the messages of its channel in the order of publication, each *)
(* at most once, through queue, pipeline, Redis and dispatch                   *)
(* (pkg/bus/redisbus/redisbus.go, worker, dispatch and Read).                  *)
THEOREM ReadersInOrder == Spec => []InOrder
<1>1. RedisInv => InOrder
  BY DEF RedisInv, Order
<1> QED
  BY <1>1, RedisInvariance, PTL

-----------------------------------------------------------------------------
(* No wake-up is lost. A dirty channel has an operation queued or one running, *)
(* a queued operation has a token or a worker that is awake, and so has a      *)
(* message of a publish queue.                                                 *)
Tokens ==
    /\ dirty # {} => ops # 0 \/ wPc \in {"run", "subscribe", "unsubscribe"}
    /\ ops # 0 /\ wPc = "wait" => wakeup
    /\ \A b \in Buckets : messages[b] # <<>> => b \in pubWakeup \/ pPc[b] = "take"

(* Every step keeps the tokens.                                                *)
LEMMA StepTokens == RedisInv /\ Tokens /\ [Next]_vars => Tokens'
<1> SUFFICES ASSUME RedisInv, Tokens, [Next]_vars PROVE Tokens'
  OBVIOUS
<1> USE DEF Tokens
<1>0. /\ ops \in Nat /\ pPc \in [Buckets -> {"wait", "take", "exec"}]
      /\ messages \in [Buckets -> Seq(Msg)] /\ pubWakeup \subseteq Buckets
  BY DEF RedisInv, TypeOK
<1>1. ASSUME UNCHANGED <<dirty, ops, wPc, wakeup, messages, pubWakeup, pPc>> PROVE Tokens'
  BY <1>1
<1>2. ASSUME NEW s \in Subs, Subscribe(s) \/ Unsubscribe(s) PROVE Tokens'
  <2>1. PICK list \in Seq(Subs) : SetList(s, list)
    BY <1>2, SubscribeFacts DEF RedisInv
  <2>2. UNCHANGED <<wPc, messages, pubWakeup, pPc>>
    BY <1>2 DEF Subscribe, Unsubscribe, reconcileVars, publishVars
  <2>3. \/ UNCHANGED <<dirty, ops>> /\ (wakeup => wakeup')
        \/ ops' = ops + 1 /\ wakeup'
    BY <2>1 DEF SetList
  <2>4. ops' # 0 \/ UNCHANGED <<dirty, ops>>
    BY <1>0, <2>3
  <2> QED
    BY <2>2, <2>3, <2>4
<1>3. ASSUME NEW s \in Subs, CallClose(s) \/ CloseReader(s) \/ Read(s) PROVE Tokens'
  BY <1>1, <1>3 DEF CallClose, CloseReader, Read, subVars, reconcileVars, publishVars
<1>4. CASE Wake \/ Drain
  BY <1>0, <1>4 DEF Wake, Drain, Worker, publishVars
<1>5. CASE Reconcile
  BY <1>5 DEF Reconcile, publishVars
<1>6. CASE PsSubscribe \/ PsUnsubscribe
  BY <1>6 DEF PsSubscribe, PsUnsubscribe, Worker, subVars, publishVars
<1>7. ASSUME NEW c \in Publishable, Publish(c) PROVE Tokens'
  <2>1. /\ messages' = [messages EXCEPT ![Bucket[c]] = Append(@, [channel |-> c, id |-> published + 1])]
        /\ pubWakeup' = pubWakeup \cup {Bucket[c]} /\ UNCHANGED <<dirty, ops, wPc, wakeup, pPc>>
    BY <1>7 DEF Publish, Enqueue, subVars, reconcileVars
  <2>2. \A b \in Buckets : b # Bucket[c] => messages'[b] = messages[b]
    BY <1>0, <2>1
  <2> QED
    BY <2>1, <2>2
<1>8. ASSUME NEW b \in Buckets, WakePublisher(b) PROVE Tokens'
  BY <1>0, <1>8 DEF WakePublisher, subVars, reconcileVars
<1>9. ASSUME NEW b \in Buckets, TakeMessages(b) PROVE Tokens'
  BY <1>0, <1>9 DEF TakeMessages, subVars, reconcileVars
<1>10. ASSUME NEW b \in Buckets, ExecCommand(b) PROVE Tokens'
  BY <1>1, <1>10 DEF ExecCommand, subVars, reconcileVars
<1>11. ASSUME NEW b \in Buckets, ExecReturns(b) PROVE Tokens'
  BY <1>0, <1>11 DEF ExecReturns, subVars, reconcileVars
<1>12. CASE ReadWorker \/ ReceiveFails
  BY <1>1, <1>12 DEF ReadWorker, ReceiveFails, Receive, Write, Skip, subVars, reconcileVars, publishVars
<1>13. CASE UNCHANGED vars
  BY <1>1, <1>13 DEF vars, subVars, reconcileVars, publishVars
<1> QED
  BY <1>2, <1>3, <1>4, <1>5, <1>6, <1>7, <1>8, <1>9, <1>10, <1>11, <1>12, <1>13
  DEF Next, CloseStep, WriteWorker, PublishWorker

(* What is left when no fair step can be taken. The read worker could only     *)
(* wait, with the lock, for a full reader that is not closed, and that one is  *)
(* read.                                                                       *)
LEMMA NothingLeft ==
  ASSUME RedisInv, Tokens, ~CanGoOn
  PROVE  Settled
<1>1. writes = <<>>
  <2> SUFFICES ASSUME writes # <<>> PROVE FALSE
    OBVIOUS
  <2>1. writes \in Seq(Subs)
    BY DEF RedisInv, TypeOK
  <2>2. Head(writes) \in Subs
    BY <2>1, Taken
  <2>3. ~Done(Head(writes)) /\ ~(Len(msgChan[Head(writes)]) < Size)
    BY DEF CanGoOn
  <2>4. msgChan[Head(writes)] # <<>>
    BY <2>3, RedisAssumption
  <2> QED
    BY <2>2, <2>3, <2>4 DEF CanGoOn
<1>2. wPc = "wait" /\ ~wakeup /\ net = <<>>
  BY <1>1 DEF CanGoOn, MuFree, RedisInv, TypeOK
<1>3. dirty = {} /\ toSub = {} /\ toUnsub = {}
  BY <1>2 DEF Tokens, RedisInv, Batch
<1>4. ASSUME NEW c \in Channels, Wanted(c) PROVE c \in redis
  BY <1>3, <1>4 DEF RedisInv, SettledIsSubscribed
<1>5. ASSUME NEW s \in Subs, Done(s) PROVE subPc[s] = "closed"
  BY <1>1, <1>5 DEF CanGoOn, MuFree, Done
<1>6. ASSUME NEW b \in Buckets PROVE messages[b] = <<>> /\ batch[b] = <<>>
  BY DEF CanGoOn, Tokens
<1> QED
  BY <1>2, <1>4, <1>5, <1>6 DEF Settled

(* If open readers are read, the workers and Close can go on until every       *)
(* channel with a reader is subscribed, every Close has returned and           *)
(* everything published is out (redisbus.go, reconcile, dispatch, Enqueue and  *)
(* the three workers).                                                         *)
(* That a step whose guard holds can be taken, the other half of NothingStuck, *)
(* is left to TLC.                                                             *)
THEOREM GoesOnOrSettled == Spec => [](CanGoOn \/ Settled)
<1>1. Init => Tokens
  BY DEF Init, Tokens
<1>2. RedisInv /\ Tokens => CanGoOn \/ Settled
  BY NothingLeft
<1> QED
  BY <1>1, <1>2, StepTokens, RedisInvariance, PTL DEF Spec

=============================================================================

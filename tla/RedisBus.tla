------------------------------- MODULE RedisBus -------------------------------
(* The Redis transport of one process (pkg/bus/redisbus/redisbus.go): readers  *)
(* that are opened and closed, the write worker that reconciles the channels   *)
(* subscribed at Redis with the ones that have readers, the read worker that   *)
(* dispatches under the transport's lock, and the publish queues.              *)
(*                                                                             *)
(* Redis is external: a set of channels subscribed on the connection, and the  *)
(* messages on their way to the read worker. A command may fail. A Subscribe   *)
(* that fails may have been carried out; an Unsubscribe that fails has not.    *)
(*                                                                             *)
(* The lock r.mu is held across steps only by the read worker, while it has    *)
(* readers to write to.                                                        *)
EXTENDS Integers, Sequences, SequencesExt, FiniteSets

CONSTANTS Subs,       \* readers, each opened and closed at most once
          Channels,
          Publishable,\* bound: the ones messages are published to
          Setups,     \* which channel each reader is on, and in which way
          Buckets,    \* publish queues
          Bucket,     \* the hash of a channel, as the queue it selects
          Size,       \* channel size of a reader
          MaxMessages,\* bound: messages published
          MaxFailures \* bound: failures of Redis

Kinds == {"subs", "queues"}

ASSUME RedisAssumption ==
    /\ Setups \subseteq [Subs -> [kind : Kinds, channel : Channels]]
    /\ Publishable \subseteq Channels
    /\ Bucket \in [Channels -> Buckets]
    /\ Size \in Nat \ {0}
    /\ MaxMessages \in Nat /\ MaxFailures \in Nat

VARIABLES setup,     \* the way and the channel of each reader
          subPc,     \* where each reader is in its life
          lists,     \* r.subs and r.queues; a channel without a list has <<>>
          next,      \* next of each list
          dirty,     \* r.dirtyChannels
          current,   \* r.currentChannels
          ops,       \* number of operations in r.ops
          wakeup,    \* r.wakeup holds a token
          wPc,       \* what the write worker does
          toSub, toUnsub, \* the batch it reconciles
          failed,    \* which of its two commands failed
          redis,     \* channels the connection is subscribed to at Redis
          net,       \* messages from Redis to the read worker
          writes,    \* readers the read worker still has to write to
          writing,   \* the message it writes
          msgChan,   \* messages in each reader's channel
          msgClosed, \* readers whose channel is closed
          got,       \* history: what Read has returned
          messages,  \* messages of each publish queue
          pubWakeup, \* publish queues with a token in wakeup
          pPc,       \* what the worker of each publish queue does
          batch,     \* messages of its pipeline
          published, \* number of messages published so far; messages are numbered
          failures,  \* number of failures so far
          panicked   \* a closed channel was sent to

subVars == <<subPc, lists, next, dirty, ops, wakeup>>
reconcileVars == <<current, wPc, toSub, toUnsub, failed, redis>>
readVars == <<writes, writing, msgChan, msgClosed, got, panicked>>
publishVars == <<messages, pubWakeup, pPc, batch, published>>
vars == <<setup, subVars, reconcileVars, net, readVars, publishVars, failures>>

Msg == [channel : Channels, id : 1..MaxMessages]

TypeOK ==
    /\ setup \in Setups
    /\ subPc \in [Subs -> {"idle", "open", "canceled", "removed", "closed"}]
    /\ lists \in [Kinds -> [Channels -> Seq(Subs)]]
    /\ next \in [Kinds -> [Channels -> Nat]]
    /\ dirty \subseteq Channels /\ current \subseteq Channels /\ redis \subseteq Channels
    /\ ops \in Nat /\ wakeup \in BOOLEAN
    /\ wPc \in {"wait", "drain", "run", "subscribe", "unsubscribe"}
    /\ toSub \subseteq Channels /\ toUnsub \subseteq Channels
    /\ failed \subseteq {"subscribe", "unsubscribe"}
    /\ net \in Seq(Msg)
    /\ writes \in Seq(Subs) /\ writing \in 0..MaxMessages
    /\ writes # <<>> => writing # 0
    /\ msgChan \in [Subs -> Seq(1..MaxMessages)]
    /\ \A s \in Subs : Len(msgChan[s]) <= Size
    /\ msgClosed \subseteq Subs
    /\ got \in [Subs -> Seq(1..MaxMessages)]
    /\ messages \in [Buckets -> Seq(Msg)] /\ batch \in [Buckets -> Seq(Msg)]
    /\ pubWakeup \subseteq Buckets
    /\ pPc \in [Buckets -> {"wait", "take", "exec"}]
    /\ published \in 0..MaxMessages /\ failures \in 0..MaxFailures
    /\ panicked \in BOOLEAN

Init ==
    /\ setup \in Setups
    /\ subPc = [s \in Subs |-> "idle"]
    /\ lists = [k \in Kinds |-> [c \in Channels |-> <<>>]]
    /\ next = [k \in Kinds |-> [c \in Channels |-> 0]]
    /\ dirty = {} /\ current = {} /\ redis = {}
    /\ ops = 0 /\ wakeup = FALSE
    /\ wPc = "wait" /\ toSub = {} /\ toUnsub = {} /\ failed = {}
    /\ net = <<>> /\ writes = <<>> /\ writing = 0
    /\ msgChan = [s \in Subs |-> <<>>]
    /\ msgClosed = {}
    /\ got = [s \in Subs |-> <<>>]
    /\ messages = [b \in Buckets |-> <<>>] /\ batch = [b \in Buckets |-> <<>>]
    /\ pubWakeup = {}
    /\ pPc = [b \in Buckets |-> "wait"]
    /\ published = 0 /\ failures = 0
    /\ panicked = FALSE

(* Nobody holds r.mu.                                                          *)
MuFree == writes = <<>>

Wanted(c) == \E k \in Kinds : lists[k][c] # <<>>

Fails == failures < MaxFailures /\ failures' = failures + 1

-----------------------------------------------------------------------------
(* subscribe, and Close: cancel, unsubscribe, close(msgChan). A list that      *)
(* appears or goes makes its channel dirty and wakes the write worker.         *)
SetList(s, list) ==
    LET k == setup[s].kind
        c == setup[s].channel
        changes == lists[k][c] = <<>> \/ list = <<>>
    IN  /\ lists' = [lists EXCEPT ![k][c] = list]
        /\ next' = [next EXCEPT ![k][c] = IF list = <<>> THEN 0 ELSE @]
        /\ dirty' = IF changes THEN dirty \cup {c} ELSE dirty
        /\ ops' = IF changes THEN ops + 1 ELSE ops
        /\ wakeup' = (wakeup \/ changes)

ListOf(s) == lists[setup[s].kind][setup[s].channel]

Life(s, from, to) == subPc[s] = from /\ subPc' = [subPc EXCEPT ![s] = to]

Subscribe(s) ==
    /\ Life(s, "idle", "open")
    /\ MuFree
    /\ SetList(s, Append(ListOf(s), s))
    /\ UNCHANGED <<setup, reconcileVars, net, readVars, publishVars, failures>>

CallClose(s) ==
    /\ Life(s, "open", "canceled")
    /\ UNCHANGED <<setup, lists, next, dirty, ops, wakeup, reconcileVars, net, readVars,
                   publishVars, failures>>

(* The index is found: a reader is in its list until here.                     *)
Delete(s) ==
    \E i \in DOMAIN ListOf(s) : ListOf(s)[i] = s /\ SetList(s, RemoveAt(ListOf(s), i))

MutUnsubscribe(s) ==
    /\ Life(s, "canceled", "removed")
    /\ Delete(s)
    /\ UNCHANGED <<setup, reconcileVars, net, readVars, publishVars, failures>>

Unsubscribe(s) ==
    /\ Life(s, "canceled", "removed")
    /\ MuFree
    /\ Delete(s)
    /\ UNCHANGED <<setup, reconcileVars, net, readVars, publishVars, failures>>

CloseReader(s) ==
    /\ Life(s, "removed", "closed")
    /\ msgClosed' = msgClosed \cup {s}
    /\ UNCHANGED <<setup, lists, next, dirty, ops, wakeup, reconcileVars, net, writes, writing,
                   msgChan, got, panicked, publishVars, failures>>

Done(s) == subPc[s] \in {"canceled", "removed", "closed"}

-----------------------------------------------------------------------------
(* The write worker: wait for the token, then run every operation there is.    *)
Worker(from, to) == wPc = from /\ wPc' = to

Wake ==
    /\ Worker("wait", "drain")
    /\ wakeup
    /\ wakeup' = FALSE
    /\ UNCHANGED <<setup, subPc, lists, next, dirty, ops, current, toSub, toUnsub, failed,
                   redis, net, readVars, publishVars, failures>>

Drain ==
    /\ \/ Worker("drain", "run") /\ ops > 0 /\ ops' = ops - 1
       \/ Worker("drain", "wait") /\ ops = 0 /\ UNCHANGED ops
    /\ UNCHANGED <<setup, subPc, lists, next, dirty, wakeup, current, toSub, toUnsub, failed,
                   redis, net, readVars, publishVars, failures>>

(* The critical section of run, from the second Lock of a round, or the first  *)
(* one with an empty batch, to the Unlock: the last batch is accounted for,    *)
(* and the next one is made of the channels that are dirty now.                *)
Again == (IF "subscribe" \in failed THEN toSub ELSE {})
         \cup (IF "unsubscribe" \in failed THEN toUnsub ELSE {})

Applied == (current \cup (toSub \ Again)) \ (toUnsub \ Again)

NextBatch(d) ==
    /\ current' = Applied
    /\ toSub' = {c \in d : c \notin Applied /\ Wanted(c)}
    /\ toUnsub' = {c \in d : c \in Applied /\ ~Wanted(c)}
    /\ failed' = {}

MutReconcileForgets ==
    /\ wPc = "run"
    /\ MuFree
    /\ NextBatch(dirty)
    /\ dirty' = {}
    /\ wPc' = IF dirty = {} THEN "drain" ELSE "subscribe"
    /\ UNCHANGED <<setup, subPc, lists, next, ops, wakeup, redis, net, readVars, publishVars,
                   failures>>

Reconcile ==
    LET d == dirty \cup Again
    IN  /\ wPc = "run"
        /\ MuFree
        /\ NextBatch(d)
        /\ dirty' = {}
        /\ wPc' = IF d = {} THEN "drain" ELSE "subscribe"
        /\ UNCHANGED <<setup, subPc, lists, next, ops, wakeup, redis, net, readVars,
                       publishVars, failures>>

(* The two commands, without the lock; none is sent for an empty set.          *)
PsSubscribe ==
    /\ Worker("subscribe", "unsubscribe")
    /\ \/ redis' = redis \cup toSub /\ UNCHANGED <<failed, failures>>
       \/ /\ toSub # {} /\ Fails
          /\ failed' = failed \cup {"subscribe"}
          /\ redis' \in {redis, redis \cup toSub}
    /\ UNCHANGED <<setup, subVars, current, toSub, toUnsub, net, readVars, publishVars>>

(* Assumed of the Redis client: an Unsubscribe that fails was not carried out. *)
PsUnsubscribe ==
    /\ Worker("unsubscribe", "run")
    /\ \/ redis' = redis \ toUnsub /\ UNCHANGED <<failed, failures>>
       \/ /\ toUnsub # {} /\ Fails
          /\ failed' = failed \cup {"unsubscribe"}
          /\ UNCHANGED redis
    /\ UNCHANGED <<setup, subVars, current, toSub, toUnsub, net, readVars, publishVars>>

-----------------------------------------------------------------------------
(* The publish queues: Enqueue, and the worker that takes what there is and    *)
(* sends it as one pipeline. Redis executes its commands one after the other.  *)
MutEnqueue(b, msg) ==
    /\ messages' = [messages EXCEPT ![b] = <<msg>> \o @]
    /\ pubWakeup' = pubWakeup \cup {b}

Enqueue(b, msg) ==
    /\ messages' = [messages EXCEPT ![b] = Append(@, msg)]
    /\ pubWakeup' = pubWakeup \cup {b}

Publish(c) ==
    /\ published < MaxMessages
    /\ published' = published + 1
    /\ Enqueue(Bucket[c], [channel |-> c, id |-> published + 1])
    /\ UNCHANGED <<setup, subVars, reconcileVars, net, readVars, pPc, batch, failures>>

WakePublisher(b) ==
    /\ pPc[b] = "wait"
    /\ b \in pubWakeup
    /\ pubWakeup' = pubWakeup \ {b}
    /\ pPc' = [pPc EXCEPT ![b] = "take"]
    /\ UNCHANGED <<setup, subVars, reconcileVars, net, readVars, messages, batch, published,
                   failures>>

TakeMessages(b) ==
    /\ pPc[b] = "take"
    /\ batch' = [batch EXCEPT ![b] = messages[b]]
    /\ messages' = [messages EXCEPT ![b] = <<>>]
    /\ pPc' = [pPc EXCEPT ![b] = "exec"]
    /\ UNCHANGED <<setup, subVars, reconcileVars, net, readVars, pubWakeup, published,
                   failures>>

ExecCommand(b) ==
    /\ batch[b] # <<>>
    /\ batch' = [batch EXCEPT ![b] = Tail(@)]
    /\ net' = IF Head(batch[b]).channel \in redis THEN Append(net, Head(batch[b])) ELSE net
    /\ UNCHANGED <<setup, subVars, reconcileVars, readVars, messages, pubWakeup, pPc,
                   published, failures>>

(* Exec returns; when it fails what has not been executed is dropped.          *)
ExecReturns(b) ==
    /\ pPc[b] = "exec"
    /\ \/ batch[b] = <<>> /\ UNCHANGED failures
       \/ batch[b] # <<>> /\ Fails
    /\ batch' = [batch EXCEPT ![b] = <<>>]
    /\ pPc' = [pPc EXCEPT ![b] = "wait"]
    /\ UNCHANGED <<setup, subVars, reconcileVars, net, readVars, messages, pubWakeup,
                   published>>

-----------------------------------------------------------------------------
(* The read worker. A failed receive loses what was on the connection; it is   *)
(* tried again, and the client library subscribes again to the same channels.  *)
ReceiveFails ==
    /\ net # <<>>
    /\ Fails
    /\ net' = <<>>
    /\ UNCHANGED <<setup, subVars, reconcileVars, readVars, publishVars>>

(* dispatch to every reader of the channel, then dispatchQueue to the member   *)
(* whose turn it is, all under the lock.                                       *)
Turn(c) ==
    IF next["queues"][c] >= Len(lists["queues"][c]) THEN 0 ELSE next["queues"][c]

Dispatch(c) ==
    LET q == lists["queues"][c]
    IN  \/ /\ q = <<>>
           /\ writes' = lists["subs"][c]
           /\ UNCHANGED next
        \/ /\ q # <<>>
           /\ writes' = Append(lists["subs"][c], q[Turn(c) + 1])
           /\ next' = [next EXCEPT !["queues"][c] = Turn(c) + 1]

Receive ==
    /\ net # <<>>
    /\ MuFree
    /\ Dispatch(Head(net).channel)
    /\ writing' = Head(net).id
    /\ net' = Tail(net)
    /\ UNCHANGED <<setup, subPc, lists, dirty, ops, wakeup, reconcileVars, msgChan, msgClosed,
                   got, panicked, publishVars, failures>>

(* write: a send with room, or the reader's context is done.                   *)
Write ==
    /\ writes # <<>>
    /\ LET s == Head(writes)
       IN  /\ s \in msgClosed \/ Len(msgChan[s]) < Size
           /\ msgChan' = [msgChan EXCEPT ![s] = IF s \in msgClosed THEN @
                                                ELSE Append(@, writing)]
           /\ panicked' = (panicked \/ s \in msgClosed)
    /\ writes' = Tail(writes)
    /\ UNCHANGED <<setup, subVars, reconcileVars, net, writing, msgClosed, got,
                   publishVars, failures>>

MutSkip == FALSE /\ UNCHANGED vars

Skip ==
    /\ writes # <<>>
    /\ Done(Head(writes))
    /\ writes' = Tail(writes)
    /\ UNCHANGED <<setup, subVars, reconcileVars, net, writing, msgChan, msgClosed, got,
                   panicked, publishVars, failures>>

-----------------------------------------------------------------------------
(* Read: a message of a queue is returned only if SetNX locks its hash.        *)
Read(s) ==
    /\ msgChan[s] # <<>>
    /\ msgChan' = [msgChan EXCEPT ![s] = Tail(@)]
    /\ \/ got' = [got EXCEPT ![s] = Append(@, Head(msgChan[s]))]
       \/ setup[s].kind = "queues" /\ UNCHANGED got   \* another process has the lock, or
                                                      \* the command failed
    /\ UNCHANGED <<setup, subVars, reconcileVars, net, writes, writing, msgClosed, panicked,
                   publishVars, failures>>

-----------------------------------------------------------------------------
CloseStep(s) == Unsubscribe(s) \/ CloseReader(s)

WriteWorker == Wake \/ Drain \/ Reconcile \/ PsSubscribe \/ PsUnsubscribe

PublishWorker(b) == WakePublisher(b) \/ TakeMessages(b) \/ ExecCommand(b) \/ ExecReturns(b)

ReadWorker == Receive \/ Write \/ Skip

Next ==
    \/ \E s \in Subs : Subscribe(s) \/ CallClose(s) \/ CloseStep(s) \/ Read(s)
    \/ \E c \in Publishable : Publish(c)
    \/ \E b \in Buckets : PublishWorker(b)
    \/ WriteWorker \/ ReadWorker \/ ReceiveFails

Spec == Init /\ [][Next]_vars

(* What happens without anyone's doing: a worker or a Close goes on, or the    *)
(* application reads a reader it has not closed.                               *)
FairStep ==
    \/ WriteWorker \/ ReadWorker
    \/ \E b \in Buckets : PublishWorker(b)
    \/ \E s \in Subs : CloseStep(s) \/ (~Done(s) /\ Read(s))

-----------------------------------------------------------------------------
(* The read worker never sends to a channel that Close has closed: Close takes *)
(* the lock to unsubscribe before it closes, and a dispatch keeps the lock.    *)
NoPanic == ~panicked

(* A channel that is not dirty and not in the batch is settled: subscribed at  *)
(* Redis and known to be if it has readers, known not to be if it has none.    *)
(* Nothing else makes the write worker look at it again, so one that is wrong  *)
(* here stays wrong, whatever changed while the commands ran or failed. It is  *)
(* assumed of the Redis client that an Unsubscribe that fails was not carried  *)
(* out: its channels stay in currentChannels, and a reader that comes back     *)
(* meanwhile would not be subscribed again.                                    *)
SettledIsSubscribed ==
    \A c \in Channels \ (dirty \cup toSub \cup toUnsub) :
        /\ c \in current <=> Wanted(c)
        /\ c \in current => c \in redis

(* A reader gets messages in the order they were published and none twice,     *)
(* through the publish queue, its pipelines, Redis and the dispatch.           *)
InOrder ==
    \A s \in Subs : \A i, j \in DOMAIN got[s] : i < j => got[s][i] < got[s][j]

(* Something can happen by itself, as the guards of fair steps have it.        *)
CanGoOn ==
    \/ wPc = "wait" /\ wakeup
    \/ wPc \in {"drain", "subscribe", "unsubscribe"}
    \/ MuFree /\ (wPc = "run" \/ net # <<>>)
    \/ writes # <<>> /\ (Done(Head(writes)) \/ Len(msgChan[Head(writes)]) < Size)
    \/ \E b \in Buckets : pPc[b] # "wait" \/ b \in pubWakeup \/ batch[b] # <<>>
    \/ \E s \in Subs :
        \/ subPc[s] = "canceled" /\ MuFree
        \/ subPc[s] = "removed"
        \/ ~Done(s) /\ msgChan[s] # <<>>

(* The channels that have readers are subscribed, whatever failed on the way   *)
(* (a failed Unsubscribe is assumed not to have been carried out);             *)
(* every Close has returned, though the read worker holds the lock it needs    *)
(* while it writes to a reader that is full; and everything published has gone *)
(* out: no token of the workers' wake-up channels, which hold one, is lost.    *)
Settled ==
    /\ \A c \in Channels : Wanted(c) => c \in redis
    /\ \A s \in Subs : Done(s) => subPc[s] = "closed"
    /\ \A b \in Buckets : messages[b] = <<>> /\ batch[b] = <<>>
    /\ net = <<>>

(* Nothing gets stuck: either a step can be taken that needs nobody's doing,   *)
(* or everything has been done.                                                *)
NothingStuck == (CanGoOn => ENABLED FairStep) /\ (~CanGoOn => Settled)

=============================================================================

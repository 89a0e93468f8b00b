------------------------------- MODULE LocalBus -------------------------------
(* One channel of the in-process bus (pkg/bus/localbus/localbus.go) with the   *)
(* subscriptions on top of it (pkg/bus/subscription.go): publishers that       *)
(* dispatch under a list's lock, subscribers that come and go, the forwarding  *)
(* goroutine of each subscription, and the application that reads it.          *)
(*                                                                             *)
(* Locks. The transport's lock is held across steps only by a subscriber that  *)
(* waits for a list's lock; lOwner names it. A publisher holds the lock of a   *)
(* list while it writes, which blocks on a full channel. A writer that waits   *)
(* for a list keeps new readers out, as Go's RWMutex does.                     *)
EXTENDS Integers, Sequences, SequencesExt, FiniteSets

CONSTANTS Subs,       \* subscriptions, each opened and closed at most once
          KindSet,    \* which may use Subscribe ("subs"), which SubscribeQueue ("queues")
          Publishers,
          Count,      \* bound: messages each publisher publishes
          Size,       \* channel size
          None        \* no subscription, no list

Kinds == {"subs", "queues"}

ASSUME BusAssumption ==
    /\ KindSet \subseteq [Subs -> Kinds]
    /\ IsFiniteSet(Subs)
    /\ Size \in Nat \ {0}
    /\ Count \in [Publishers -> Nat]
    /\ None \notin Subs \cup Nat

VARIABLES kind,     \* how each subscription is made
          lOwner,   \* subscriber that holds the transport's lock, or None
          mapped,   \* l.subs and l.queues: the list of the channel, or None
          created,  \* number of lists created so far; lists are numbered
          slots,    \* sl.subs of each list
          next,     \* sl.next
          subCount, \* sl.subCount
          subPc,    \* where each subscription is in its life
          list,     \* the list it is in
          index,    \* its index there
          msgChan,  \* number of messages in its reader's channel
          msgClosed,\* subscriptions whose reader's channel is closed
          fwd,      \* subscriptions whose forwarding goroutine holds a message
          fwdExit,  \* subscriptions whose forwarding goroutine has returned
          pubPc,    \* where each publisher is
          todo,     \* lists it still has to dispatch to
          writes,   \* subscriptions it still has to write to under the lock, by index
          published,\* number of messages it has published
          known,    \* history: subscriptions open when this publication began
          got,      \* history: subscriptions that took its message
          panicked  \* a closed channel was closed or sent to

listVars == <<lOwner, mapped, created, slots, next, subCount>>
lifeVars == <<kind, subPc, list, index>>
pubVars == <<pubPc, todo, writes, published, known, got>>
chanVars == <<msgChan, msgClosed, panicked>>
fwdVars == <<fwd, fwdExit>>
busVars == <<listVars, lifeVars, pubVars, chanVars, fwdVars>>

Lists == 1..Cardinality(Subs)

BusTypeOK ==
    /\ kind \in KindSet
    /\ lOwner \in Subs \cup {None}
    /\ mapped \in [Kinds -> Lists \cup {None}]
    /\ created \in 0..Cardinality(Subs)
    /\ slots \in [Lists -> Seq(Subs \cup {None})]
    /\ next \in [Lists -> Nat]
    /\ subCount \in [Lists -> Nat]
    /\ subPc \in [Subs -> {"idle", "subscribing", "open", "canceled", "unsub",
                           "removed", "wait", "closed"}]
    /\ list \in [Subs -> Lists \cup {None}]
    /\ index \in [Subs -> Nat]
    /\ msgChan \in [Subs -> 0..Size]
    /\ msgClosed \subseteq Subs
    /\ fwd \subseteq Subs
    /\ fwdExit \subseteq Subs
    /\ pubPc \in [Publishers -> {"idle", "dispatch", "write"}]
    /\ todo \in [Publishers -> Seq(Lists)]
    /\ writes \in [Publishers -> SUBSET Subs]
    /\ published \in [Publishers -> Nat]
    /\ known \in [Publishers -> SUBSET Subs]
    /\ got \in [Publishers -> SUBSET Subs]
    /\ panicked \in BOOLEAN

BusInit ==
    /\ kind \in KindSet
    /\ lOwner = None
    /\ mapped = [k \in Kinds |-> None]
    /\ created = 0
    /\ slots = [g \in Lists |-> <<>>]
    /\ next = [g \in Lists |-> 0]
    /\ subCount = [g \in Lists |-> 0]
    /\ subPc = [s \in Subs |-> "idle"]
    /\ list = [s \in Subs |-> None]
    /\ index = [s \in Subs |-> 0]
    /\ msgChan = [s \in Subs |-> 0]
    /\ msgClosed = {}
    /\ fwd = {}
    /\ fwdExit = {}
    /\ pubPc = [p \in Publishers |-> "idle"]
    /\ todo = [p \in Publishers |-> <<>>]
    /\ writes = [p \in Publishers |-> {}]
    /\ published = [p \in Publishers |-> 0]
    /\ known = [p \in Publishers |-> {}]
    /\ got = [p \in Publishers |-> {}]
    /\ panicked = FALSE

(* Publishers that hold the lock of list g, and whether a subscriber waits.    *)
Holders(g) == {p \in Publishers : pubPc[p] = "write" /\ Head(todo[p]) = g}

WriterWaits(g) == lOwner # None /\ list[lOwner] = g

-----------------------------------------------------------------------------
(* subscribe, and create under the list's lock.                                *)
BeginSubscribe(s) ==
    LET g == IF mapped[kind[s]] = None THEN created + 1 ELSE mapped[kind[s]]
    IN  /\ subPc[s] = "idle"
        /\ lOwner = None
        /\ lOwner' = s
        /\ mapped' = [mapped EXCEPT ![kind[s]] = g]
        /\ created' = IF g > created THEN g ELSE created
        /\ subPc' = [subPc EXCEPT ![s] = "subscribing"]
        /\ list' = [list EXCEPT ![s] = g]
        /\ UNCHANGED <<slots, next, subCount, kind, index, pubVars, chanVars, fwdVars>>

(* The first free index, or a new one.                                         *)
FreeIndex(g, i) ==
    /\ \A j \in 1..(i - 1) : slots[g][j] # None
    /\ i <= Len(slots[g]) => slots[g][i] = None

FinishSubscribe(s) ==
    LET g == list[s]
    IN  /\ subPc[s] = "subscribing"
        /\ Holders(g) = {}
        /\ subCount' = [subCount EXCEPT ![g] = @ + 1]
        /\ \E i \in 1..(Len(slots[g]) + 1) :
            /\ FreeIndex(g, i)
            /\ slots' = [slots EXCEPT ![g] =
                            IF i > Len(@) THEN Append(@, s) ELSE [@ EXCEPT ![i] = s]]
            /\ index' = [index EXCEPT ![s] = i]
        /\ lOwner' = None
        /\ subPc' = [subPc EXCEPT ![s] = "open"]
        /\ UNCHANGED <<mapped, created, next, kind, list, pubVars, chanVars, fwdVars>>

-----------------------------------------------------------------------------
(* Close of a subscription: close(done) and cancel, onClose under both locks,  *)
(* close(msgChan), then the wait for the forwarding goroutine.                 *)
Closing(s) == subPc[s] \in {"canceled", "unsub", "removed", "wait", "closed"}

Life(s, from, to) == subPc[s] = from /\ subPc' = [subPc EXCEPT ![s] = to]

CallClose(s) ==
    /\ Life(s, "open", "canceled")
    /\ UNCHANGED <<listVars, kind, list, index, pubVars, chanVars, fwdVars>>

LockTransport(s) ==
    /\ Life(s, "canceled", "unsub")
    /\ lOwner = None
    /\ lOwner' = s
    /\ UNCHANGED <<mapped, created, slots, next, subCount, kind, list, index, pubVars, chanVars,
                   fwdVars>>

(* onUnsubscribe: the slot is freed, and an empty list leaves the map.         *)
MutUnsubscribeUnlocked(s) ==
    LET g == list[s]
    IN  /\ Life(s, "unsub", "removed")
        /\ lOwner' = None
        /\ slots' = [slots EXCEPT ![g][index[s]] = None]
        /\ subCount' = [subCount EXCEPT ![g] = @ - 1]
        /\ mapped' = [mapped EXCEPT ![kind[s]] = IF subCount[g] = 1 THEN None ELSE @]
        /\ UNCHANGED <<created, next, kind, list, index, pubVars, chanVars, fwdVars>>

Unsubscribe(s) ==
    LET g == list[s]
    IN  /\ Life(s, "unsub", "removed")
        /\ Holders(g) = {}
        /\ lOwner' = None
        /\ slots' = [slots EXCEPT ![g][index[s]] = None]
        /\ subCount' = [subCount EXCEPT ![g] = @ - 1]
        /\ mapped' = [mapped EXCEPT ![kind[s]] = IF subCount[g] = 1 THEN None ELSE @]
        /\ UNCHANGED <<created, next, kind, list, index, pubVars, chanVars, fwdVars>>

CloseReader(s) ==
    /\ Life(s, "removed", "wait")
    /\ msgClosed' = msgClosed \cup {s}
    /\ panicked' = (panicked \/ s \in msgClosed)
    /\ UNCHANGED <<listVars, kind, list, index, pubVars, msgChan, fwdVars>>

CloseReturns(s) ==
    /\ Life(s, "wait", "closed")
    /\ s \in fwdExit
    /\ UNCHANGED <<listVars, kind, list, index, pubVars, chanVars, fwdVars>>

-----------------------------------------------------------------------------
(* Publish: the lists are looked up under the transport's read lock, then each *)
(* is dispatched to.                                                           *)
Found(k) == IF mapped[k] = None THEN <<>> ELSE <<mapped[k]>>

LookedUp == Found("subs") \o Found("queues")

(* The publication of a message is over.                                       *)
PublishDone(p) ==
    /\ pubPc' = [pubPc EXCEPT ![p] = "idle"]
    /\ published' = [published EXCEPT ![p] = @ + 1]
    /\ known' = [known EXCEPT ![p] = {}]
    /\ got' = [got EXCEPT ![p] = {}]

Publish(p) ==
    /\ pubPc[p] = "idle"
    /\ published[p] < Count[p]
    /\ lOwner = None
    /\ todo' = [todo EXCEPT ![p] = LookedUp]
    /\ IF LookedUp = <<>>
       THEN PublishDone(p)
       ELSE /\ pubPc' = [pubPc EXCEPT ![p] = "dispatch"]
            /\ known' = [known EXCEPT ![p] = {s \in Subs : subPc[s] = "open"}]
            /\ UNCHANGED <<published, got>>
    /\ UNCHANGED <<writes, listVars, lifeVars, chanVars, fwdVars>>

(* dispatch: all subscriptions of the list, or the next one of a queue, after  *)
(* the last one served and around the end of the slice.                        *)
QueueList(g) == \E s \in Subs : list[s] = g /\ kind[s] = "queues"

Live(g) == {i \in DOMAIN slots[g] : slots[g][i] # None}

Start(g) == IF next[g] >= Len(slots[g]) THEN 0 ELSE next[g]

(* How many slots the round-robin passes before it is at index i.              *)
Distance(g, i) == (i - 1 + Len(slots[g]) - Start(g)) % Len(slots[g])

MutDispatch(p) ==
    LET g == Head(todo[p])
    IN  /\ pubPc[p] = "dispatch"
        /\ ~WriterWaits(g)
        /\ pubPc' = [pubPc EXCEPT ![p] = "write"]
        /\ writes' = [writes EXCEPT ![p] = {slots[g][i] : i \in Live(g)}]
        /\ UNCHANGED <<todo, published, known, got, listVars, lifeVars, chanVars, fwdVars>>

Dispatch(p) ==
    LET g == Head(todo[p])
    IN  /\ pubPc[p] = "dispatch"
        /\ ~WriterWaits(g)
        /\ pubPc' = [pubPc EXCEPT ![p] = "write"]
        /\ \/ /\ ~QueueList(g)
              /\ writes' = [writes EXCEPT ![p] = {slots[g][i] : i \in Live(g)}]
              /\ UNCHANGED next
           \/ /\ QueueList(g)
              /\ Holders(g) = {}
              /\ \/ /\ Live(g) = {}
                    /\ writes' = [writes EXCEPT ![p] = {}]
                    /\ next' = [next EXCEPT ![g] = Start(g) + 1]
                 \/ \E i \in Live(g) :
                    /\ \A j \in Live(g) : Distance(g, i) <= Distance(g, j)
                    /\ writes' = [writes EXCEPT ![p] = {slots[g][i]}]
                    /\ next' = [next EXCEPT ![g] = i]
        /\ UNCHANGED <<todo, published, known, got, lOwner, mapped, created, slots, subCount>>
        /\ UNCHANGED <<lifeVars, chanVars, fwdVars>>

(* write: room in the channel, or the subscription's context is done.          *)
Earliest(p, s) == s \in writes[p] /\ \A t \in writes[p] : index[s] <= index[t]

Write(p) ==
    /\ pubPc[p] = "write"
    /\ \E s \in Subs :
        /\ Earliest(p, s)
        /\ s \in msgClosed \/ msgChan[s] < Size
        /\ msgChan' = [msgChan EXCEPT ![s] = IF s \in msgClosed THEN @ ELSE @ + 1]
        /\ writes' = [writes EXCEPT ![p] = @ \ {s}]
        /\ got' = [got EXCEPT ![p] = @ \cup {s}]
        /\ panicked' = (panicked \/ s \in msgClosed)
    /\ UNCHANGED <<msgClosed, pubPc, todo, published, known, listVars, lifeVars, fwdVars>>

MutSkipNever(p) == FALSE /\ UNCHANGED busVars

Skip(p) ==
    /\ pubPc[p] = "write"
    /\ \E s \in Subs :
        /\ Earliest(p, s)
        /\ Closing(s)
        /\ writes' = [writes EXCEPT ![p] = @ \ {s}]
    /\ UNCHANGED <<pubPc, todo, published, known, got, listVars, lifeVars, chanVars, fwdVars>>

(* The list's lock is released.                                                *)
Unlock(p) ==
    /\ pubPc[p] = "write"
    /\ writes[p] = {}
    /\ todo' = [todo EXCEPT ![p] = Tail(@)]
    /\ IF Len(todo[p]) = 1
       THEN PublishDone(p)
       ELSE pubPc' = [pubPc EXCEPT ![p] = "dispatch"] /\ UNCHANGED <<published, known, got>>
    /\ UNCHANGED <<writes, listVars, lifeVars, chanVars, fwdVars>>

-----------------------------------------------------------------------------
(* forward: read, decode, hand over or stop.                                   *)
Forward(s) ==
    /\ s \notin fwdExit \cup fwd
    /\ msgChan[s] > 0
    /\ msgChan' = [msgChan EXCEPT ![s] = @ - 1]
    /\ \/ fwd' = fwd \cup {s}
       \/ UNCHANGED fwd   \* it does not decode
    /\ UNCHANGED <<msgClosed, panicked, fwdExit, listVars, lifeVars, pubVars>>

(* The application takes the message. The buffer of the channel in between     *)
(* only lets the goroutine run ahead of it.                                    *)
HandOver(s) ==
    /\ s \in fwd \ fwdExit
    /\ fwd' = fwd \ {s}
    /\ UNCHANGED <<fwdExit, listVars, lifeVars, pubVars, chanVars>>

Stop(s) ==
    /\ s \notin fwdExit
    /\ \/ s \in fwd /\ Closing(s)
       \/ s \notin fwd /\ msgChan[s] = 0 /\ s \in msgClosed
    /\ fwdExit' = fwdExit \cup {s}
    /\ UNCHANGED <<fwd, listVars, lifeVars, pubVars, chanVars>>

-----------------------------------------------------------------------------
LifeStep(s) ==
    FinishSubscribe(s) \/ LockTransport(s) \/ Unsubscribe(s) \/ CloseReader(s) \/ CloseReturns(s)

PublishStep(p) == Publish(p) \/ Dispatch(p) \/ Write(p) \/ Skip(p) \/ Unlock(p)

ForwardStep(s) == Forward(s) \/ Stop(s)

BusNext ==
    \/ \E s \in Subs : BeginSubscribe(s) \/ CallClose(s) \/ LifeStep(s) \/ ForwardStep(s)
                       \/ HandOver(s)
    \/ \E p \in Publishers : PublishStep(p)

BusSpec == BusInit /\ [][BusNext]_busVars

(* Goroutines that can run do, and an application reads its subscription until *)
(* it closes it.                                                               *)
Fairness ==
    /\ \A s \in Subs :
        /\ WF_busVars(LifeStep(s))
        /\ WF_busVars(ForwardStep(s))
        /\ WF_busVars(~Closing(s) /\ HandOver(s))
    /\ \A p \in Publishers : WF_busVars(PublishStep(p))

FairBusSpec == BusSpec /\ Fairness

-----------------------------------------------------------------------------
(* No publisher sends to a reader's channel that its Close has closed, and no  *)
(* channel is closed twice, however publishing and closing interleave.         *)
NoPanic == ~panicked

Members == {s \in Subs : kind[s] = "queues"}

(* README.md: "Subscribe delivers each message to every subscriber" and        *)
(* "SubscribeQueue delivers it to exactly one member of the group". When       *)
(* Publish returns, each subscription that was open when it began and still is *)
(* has the message, even if others came and went meanwhile, their indices were *)
(* reused or their list was dropped from the map; of a group never two members *)
(* have it, and one at least if the group had a member and none closed.        *)
DeliversAsSubscribed ==
    [][\A p \in Publishers : published'[p] > published[p] =>
          /\ \A s \in known[p] : kind[s] = "subs" /\ subPc[s] = "open" => s \in got[p]
          /\ Cardinality(got[p] \cap Members) <= 1
          /\ (known[p] \cap Members # {} /\ \A s \in Members : ~Closing(s)) =>
                got[p] \cap Members # {}]_busVars

(* Every Publish and every Close returns, and when a Close does the forwarding *)
(* goroutine has ended, also for a subscription whose application has stopped  *)
(* reading: no order of the locks leaves everybody waiting.                    *)
CallsReturn ==
    /\ \A s \in Subs : Closing(s) ~> subPc[s] = "closed"
    /\ \A p \in Publishers : pubPc[p] # "idle" ~> pubPc[p] = "idle"

=============================================================================

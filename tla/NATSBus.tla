------------------------------- MODULE NATSBus -------------------------------
(* The NATS transport of one process (pkg/bus/natsbus/natsbus.go). Channels    *)
(* with a Local part share one NATS subscription per subject: a router, which  *)
(* hands a message to the subscriptions of its Local part. Routed is a set of  *)
(* subscriptions to one such subject; a router is named after the subscription *)
(* that created it. A channel without a Local part (Plain) has a NATS          *)
(* subscription of its own, written here as a router with one route. NATS      *)
(* calls back one message at a time per NATS subscription; Unsubscribe does    *)
(* not wait for a callback that is running.                                    *)
EXTENDS Naturals, FiniteSets

CONSTANTS Routed, Plain, \* subscriptions, each made and closed at most once
          LocalOf,       \* Local part of each routed subscription's channel
          QueueSubs,     \* those made by SubscribeQueue
          Messages,      \* messages, each published at most once
          Dests,         \* Local parts and plain subscriptions to publish to
          ChannelSize,   \* capacity of msgChan
          None           \* no subscription

Subs == Routed \cup Plain

ASSUME NATSAssumption ==
    /\ Routed \cap Plain = {} /\ QueueSubs \subseteq Subs
    /\ None \notin Subs \cup Dests /\ ChannelSize \in Nat \ {0}

VARIABLES pc,       \* where each subscription is in its life
          mu,       \* who holds the transport's lock
          entry,    \* routers[subject]
          routerOf, \* the router of each subscription
          routes,   \* subscriptions in the routes of each router
          nats,     \* the NATS subscription of each router: none, live or gone
          pending,  \* messages that NATS holds for each router
          writing,  \* the message whose callback is running, if any
          todo,     \* the subscriptions it has yet to be written to
          buf,      \* contents of each msgChan
          got,      \* history: messages that were written to each msgChan
          dest,     \* what each message was published to, None before
          due       \* history: who was open, with a live router, at publication

lifeVars == <<pc, mu, entry, routerOf, routes>>
msgVars == <<writing, todo, buf, got>>
pubVars == <<dest, due>>
vars == <<lifeVars, nats, pending, msgVars, pubVars>>

TypeOK ==
    /\ pc \in [Subs -> {"idle", "joining", "creating", "open", "canceled", "leaving",
                        "unrouted", "closed", "failed", "mismatch"}]
    /\ mu \in Subs \cup {None} /\ entry \in Subs \cup {None}
    /\ routerOf \in [Subs -> Subs \cup {None}]
    /\ routes \in [Subs -> SUBSET Subs]
    /\ nats \in [Subs -> {"none", "live", "gone"}]
    /\ \A f \in {pending, writing, buf, got} : f \in [Subs -> SUBSET Messages]
    /\ todo \in [Subs -> SUBSET Subs]
    /\ dest \in [Messages -> Dests \cup {None}]
    /\ due \in [Messages -> SUBSET Subs]

Init ==
    /\ pc = [s \in Subs |-> "idle"]
    /\ mu = None /\ entry = None
    /\ routerOf = [s \in Subs |-> IF s \in Plain THEN s ELSE None]
    /\ routes = [s \in Subs |-> {}]
    /\ nats = [s \in Subs |-> "none"]
    /\ pending = routes /\ writing = routes /\ todo = routes /\ buf = routes /\ got = routes
    /\ dest = [m \in Messages |-> None]
    /\ due = [m \in Messages |-> {}]

Goto(s, to) == pc' = [pc EXCEPT ![s] = to]

(* The router's lock is held while its callback writes.                        *)
RouterFree(r) == todo[r] = {}

IsQueue(s) == s \in QueueSubs

-----------------------------------------------------------------------------
(* subscribeRouter: the router is looked up or made under the transport's lock *)
Lookup(s) ==
    /\ pc[s] = "idle" /\ s \in Routed
    /\ mu = None
    /\ IF entry # None /\ IsQueue(entry) # IsQueue(s)
       THEN Goto(s, "mismatch") /\ UNCHANGED <<mu, entry, routerOf>>
       ELSE /\ mu' = s
            /\ entry' = IF entry = None THEN s ELSE entry
            /\ routerOf' = [routerOf EXCEPT ![s] = entry']
            /\ Goto(s, "joining")
    /\ UNCHANGED <<routes, nats, pending, msgVars, pubVars>>

(* ... which is held while open waits for the router's own.                    *)
Join(s) ==
    /\ pc[s] = "joining"
    /\ RouterFree(routerOf[s])
    /\ routes' = [routes EXCEPT ![routerOf[s]] = @ \cup {s}]
    /\ mu' = None
    /\ Goto(s, IF routerOf[s] = s THEN "creating" ELSE "open")
    /\ UNCHANGED <<entry, routerOf, nats, pending, msgVars, pubVars>>

Create(s) ==
    /\ pc[s] = "creating"
    /\ nats' = [nats EXCEPT ![s] = "live"]
    /\ Goto(s, "open")
    /\ UNCHANGED <<mu, entry, routerOf, routes, pending, msgVars, pubVars>>

(* The entry goes and the error is returned; the route stays in the router.    *)
CreateFails(s) ==
    /\ pc[s] = "creating"
    /\ mu = None
    /\ entry' = None
    /\ Goto(s, "failed")
    /\ UNCHANGED <<mu, routerOf, routes, nats, pending, msgVars, pubVars>>

(* subscribe and SubscribeInbox; one that fails leaves nothing behind.         *)
SubscribePlain(s) ==
    /\ pc[s] = "idle" /\ s \in Plain
    /\ nats' = [nats EXCEPT ![s] = "live"]
    /\ routes' = [routes EXCEPT ![s] = {s}]
    /\ Goto(s, "open")
    /\ UNCHANGED <<mu, entry, routerOf, pending, msgVars, pubVars>>

-----------------------------------------------------------------------------
(* Close: cancel first, so that a write to this subscription gives up; ...     *)
CallClose(s) ==
    /\ pc[s] = "open"
    /\ Goto(s, "canceled")
    /\ UNCHANGED <<mu, entry, routerOf, routes, nats, pending, msgVars, pubVars>>

(* ... unsubscribeRouter locks the transport, and holds it while ...           *)
LockTransport(s) ==
    /\ pc[s] = "canceled" /\ s \in Routed
    /\ mu = None
    /\ mu' = s
    /\ Goto(s, "leaving")
    /\ UNCHANGED <<entry, routerOf, routes, nats, pending, msgVars, pubVars>>

(* ... close takes the route out under the router's lock. The last one to go   *)
(* ends the NATS subscription and the entry.                                   *)
Remove(s, keep) ==
    LET r == routerOf[s]
        last == routes[r] = {s}
    IN  /\ routes' = [routes EXCEPT ![r] = @ \ {s}]
        /\ nats' = [nats EXCEPT ![r] = IF last THEN "gone" ELSE @]
        /\ entry' = IF last /\ ~keep THEN None ELSE entry
        /\ mu' = None
        /\ Goto(s, "unrouted")
        /\ UNCHANGED <<routerOf, pending, msgVars, pubVars>>

MutLeaveUnlocked(s) == pc[s] = "leaving" /\ Remove(s, FALSE)

MutLeaveKeepsEntry(s) ==
    /\ pc[s] = "leaving"
    /\ RouterFree(routerOf[s])
    /\ Remove(s, TRUE)

Leave(s) ==
    /\ pc[s] = "leaving"
    /\ RouterFree(routerOf[s])
    /\ Remove(s, FALSE)

(* ... and msgChan is closed.                                                  *)
CloseChan(s) ==
    /\ pc[s] = "unrouted"
    /\ Goto(s, "closed")
    /\ UNCHANGED <<mu, entry, routerOf, routes, nats, pending, msgVars, pubVars>>

(* A plain subscription leaves msgChan open.                                   *)
UnsubscribePlain(s) ==
    /\ pc[s] = "canceled" /\ s \in Plain
    /\ nats' = [nats EXCEPT ![s] = "gone"]
    /\ Goto(s, "closed")
    /\ UNCHANGED <<mu, entry, routerOf, routes, pending, msgVars, pubVars>>

-----------------------------------------------------------------------------
(* Publish and PublishWithReply: NATS takes the message for every router that  *)
(* is live then; of a queue group, another process may be the one to get it.   *)
Address(s) == IF s \in Routed THEN LocalOf[s] ELSE s

Publish(m, d) ==
    LET Live == {r \in IF d \in Plain THEN {d} ELSE Routed : nats[r] = "live"}
    IN  /\ dest[m] = None
        /\ dest' = [dest EXCEPT ![m] = d]
        /\ \E R \in {Live, {r \in Live : ~IsQueue(r)}} :
            /\ pending' = [r \in Subs |-> pending[r] \cup (IF r \in R THEN {m} ELSE {})]
            /\ due' = [due EXCEPT ![m] = {s \in Subs : /\ pc[s] = "open" /\ Address(s) = d
                                                       /\ routerOf[s] \in R}]
        /\ UNCHANGED <<lifeVars, nats, msgVars>>

(* A callback starts. What does not decode, is for a Local part that has no    *)
(* subscription, or is empty and no report of an unanswered request to an      *)
(* inbox, is for nobody.                                                       *)
DecodeLocalChannel(m) == dest[m]

Targets(r, m) == {s \in routes[r] : Address(s) = DecodeLocalChannel(m)}

Callback(r) ==
    /\ RouterFree(r)
    /\ \E m \in pending[r] :
        /\ pending' = [pending EXCEPT ![r] = @ \ {m}]
        /\ todo' = [todo EXCEPT ![r] = Targets(r, m)]
        /\ writing' = [writing EXCEPT ![r] = IF Targets(r, m) = {} THEN {} ELSE {m}]
    /\ UNCHANGED <<lifeVars, nats, buf, got, pubVars>>

Wrote(r, s) ==
    /\ todo' = [todo EXCEPT ![r] = @ \ {s}]
    /\ writing' = [writing EXCEPT ![r] = IF todo[r] = {s} THEN {} ELSE @]

(* write: room in msgChan, or the subscription's context is done.              *)
Write(r, s) ==
    /\ s \in todo[r]
    /\ Cardinality(buf[s]) < ChannelSize
    /\ buf' = [buf EXCEPT ![s] = @ \cup writing[r]]
    /\ got' = [got EXCEPT ![s] = @ \cup writing[r]]
    /\ Wrote(r, s)
    /\ UNCHANGED <<lifeVars, nats, pending, pubVars>>

MutDone(s) == pc[s] = "closed"

Done(s) == pc[s] \in {"canceled", "leaving", "unrouted", "closed"}

MutSkip(r, s) ==
    /\ s \in todo[r]
    /\ Done(s) \/ Cardinality(buf[s]) = ChannelSize
    /\ Wrote(r, s)
    /\ UNCHANGED <<lifeVars, nats, pending, buf, got, pubVars>>

Skip(r, s) ==
    /\ s \in todo[r]
    /\ Done(s)
    /\ Wrote(r, s)
    /\ UNCHANGED <<lifeVars, nats, pending, buf, got, pubVars>>

(* The reads of a routed and of a plain subscription, by the goroutine of      *)
(* bus.Subscription, which may go on while Close is under way.                 *)
Take(s) ==
    /\ pc[s] \in {"open", "canceled", "leaving", "unrouted"}
    /\ \E m \in buf[s] : buf' = [buf EXCEPT ![s] = @ \ {m}]
    /\ UNCHANGED <<lifeVars, nats, pending, writing, todo, got, pubVars>>

Read(s) == s \in Routed /\ Take(s)

ReadInbox(s) == s \in Plain /\ Take(s)

-----------------------------------------------------------------------------
SubStep(s) ==
    \/ Join(s) \/ Create(s) \/ CreateFails(s)
    \/ LockTransport(s) \/ Leave(s) \/ CloseChan(s) \/ UnsubscribePlain(s)

CallbackStep(r) == Callback(r) \/ \E s \in Subs : Write(r, s) \/ Skip(r, s)

Next ==
    \/ \E s \in Subs : Lookup(s) \/ SubscribePlain(s) \/ CallClose(s) \/ SubStep(s)
                     \/ Read(s) \/ ReadInbox(s)
    \/ \E r \in Subs : CallbackStep(r)
    \/ \E m \in Messages, d \in Dests : Publish(m, d)

Spec == Init /\ [][Next]_vars

(* What happens without anyone's doing: reading does not stop before Close.    *)
FairStep ==
    \E s \in Subs : SubStep(s) \/ CallbackStep(s) \/ (pc[s] = "open" /\ (Read(s) \/ ReadInbox(s)))

-----------------------------------------------------------------------------
(* No step panics: nothing is written to a closed msgChan, whatever callback   *)
(* is running when a subscription closes; the last route never ends a NATS     *)
(* subscription that was not made; and a failed creation finds its own router  *)
(* under its subject, never a later one.                                       *)
NoPanic ==
    /\ \A r \in Subs : \A s \in todo[r] \cap Routed : pc[s] # "closed"
    /\ \A s \in Routed : (pc[s] = "leaving" /\ routes[routerOf[s]] = {s}) => nats[routerOf[s]] = "live"
    /\ \A s \in Routed : pc[s] = "creating" => entry = s

(* A subscription that was returned to its caller has a NATS subscription      *)
(* behind it, while others of its subject come and go, and no second one, so   *)
(* nothing arrives twice. The exception is one that joined a router whose      *)
(* creation was, or is still, to fail: it stays deaf.                          *)
OpenIsReachable ==
    /\ \A s \in Subs : pc[s] = "open" =>
        LET r == routerOf[s]
        IN  /\ s \in routes[r]
            /\ nats[r] = "live" \/ (r # s /\ pc[r] \in {"creating", "failed"})
    /\ \A r, q \in Routed : (nats[r] = "live" /\ nats[q] = "live") => r = q

(* A message that was published while a subscription was open reaches it, once *)
(* its callback is through, unless the subscription was closed meanwhile: a    *)
(* full channel delays it, and so do the other routes.                         *)
EverySubscriberGetsIt ==
    \A m \in Messages : \A s \in due[m] :
        pc[s] = "open" =>
            \/ m \in got[s] \cup pending[routerOf[s]]
            \/ m \in writing[routerOf[s]] /\ s \in todo[routerOf[s]]

(* Something can happen by itself, as the guards of fair steps have it.        *)
CanGoOn ==
    \E s \in Subs :
        \/ pc[s] \in {"creating", "unrouted"}
        \/ pc[s] \in {"joining", "leaving"} /\ RouterFree(routerOf[s])
        \/ pc[s] = "canceled" /\ (s \in Plain \/ mu = None)
        \/ RouterFree(s) /\ pending[s] # {}
        \/ \E q \in todo[s] : Done(q) \/ Cardinality(buf[q]) < ChannelSize
        \/ pc[s] = "open" /\ buf[s] # {}

(* Every Subscribe and Close has returned and every callback has, also the one *)
(* that was writing to a full channel when its owner stopped reading to close  *)
(* it.                                                                         *)
Settled ==
    /\ \A s \in Subs : pc[s] \in {"idle", "open", "closed", "failed", "mismatch"}
    /\ \A r \in Subs : todo[r] = {} /\ pending[r] = {}

(* Nothing gets stuck, if owners read the subscriptions they have open: either *)
(* a step can be taken that needs nobody's doing, or everything has been done. *)
(* (A subscription that is open and never read holds up its router's lock, and *)
(* through it everyone at the transport's.)                                    *)
NothingStuck == (CanGoOn => ENABLED FairStep) /\ (~CanGoOn => Settled)

-----------------------------------------------------------------------------
(* README.md: "`SubscribeQueue` delivers it to exactly one member of the       *)
(* group." No message is written to two queue subscriptions of one channel.    *)
QueueDeliversOnce ==
    \A m \in Messages : \A s, o \in QueueSubs :
        (m \in got[s] /\ m \in got[o] /\ Address(s) = Address(o)) => s = o

=============================================================================

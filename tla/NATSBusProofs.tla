---------------------------- MODULE NATSBusProofs ----------------------------
(* Proofs about the NATS transport, for any number of subscriptions, Local     *)
(* parts, messages and any channel size: no step panics, what is open has the  *)
(* one live NATS subscription of its subject behind it unless it joined one    *)
(* that failed, and no open subscription misses a message.                     *)
EXTENDS NATSBus, FiniteSetTheorems, TLAPS

-----------------------------------------------------------------------------
(* The transport's lock, and the life of a plain subscription.                 *)
Locked ==
    /\ \A s \in Subs : pc[s] \in {"joining", "leaving"} <=> mu = s
    /\ \A s \in Plain :
        /\ pc[s] \in {"idle", "open", "canceled", "closed"}
        /\ routerOf[s] = s
        /\ pc[s] # "idle" => s \in routes[s]
        /\ pc[s] \in {"open", "canceled"} => nats[s] = "live"

(* A routed subscription is in the routes of its own router, from Join to      *)
(* Leave, and one whose creation failed stays there.                           *)
Routes ==
    /\ \A s, r \in Subs : s \in routes[r] => routerOf[s] = r
    /\ \A s \in Routed :
        /\ pc[s] \in {"creating", "open", "canceled", "leaving", "failed"} =>
              s \in routes[routerOf[s]]
        /\ pc[s] \in {"idle", "joining", "unrouted", "closed", "mismatch"} =>
              \A r \in Subs : s \notin routes[r]

(* A router belongs to the subscription that made it; others join it only      *)
(* after that one has.                                                         *)
Routers ==
    \A s \in Routed :
        /\ pc[s] \in {"idle", "mismatch"} => routerOf[s] = None
        /\ pc[s] \notin {"idle", "mismatch"} =>
              routerOf[s] \in Routed /\ routerOf[routerOf[s]] = routerOf[s]
        /\ pc[s] \in {"idle", "joining", "mismatch"} => \A q \in Subs \ {s} : routerOf[q] # s
        /\ pc[s] = "joining" => entry = routerOf[s]
        /\ pc[s] = "creating" => entry = s /\ routerOf[s] = s

(* The router with routes has a live NATS subscription, or its maker has yet   *)
(* to make it or failed to; the live one is the one under the subject.         *)
Reachable ==
    /\ \A s \in Routed :
        /\ pc[s] \in {"idle", "joining", "creating", "failed", "mismatch"} => nats[s] = "none"
        /\ nats[s] = "live" => entry = s
        /\ routes[s] # {} => nats[s] = "live" \/ pc[s] \in {"creating", "failed"}
    /\ entry # None =>
        /\ entry \in Routed /\ routerOf[entry] = entry
        /\ pc[entry] \notin {"idle", "mismatch", "failed"}
        /\ nats[entry] = "live" \/ pc[entry] \in {"joining", "creating"}

(* A callback writes to routes that cannot leave meanwhile, and what is due to *)
(* an open subscription is written, being written or yet to be taken.          *)
Delivered ==
    /\ \A r \in Subs : todo[r] \subseteq routes[r]
    /\ \A m \in Messages : \A s \in due[m] :
        pc[s] \in {"open", "canceled", "leaving", "unrouted", "closed"} /\ dest[m] = Address(s)

NATSInv ==
    TypeOK /\ Locked /\ Routes /\ Routers /\ Reachable /\ Delivered /\ EverySubscriberGetsIt

-----------------------------------------------------------------------------
(* The types, variable by variable.                                            *)
LEMMA Types ==
  TypeOK <=>
    /\ pc \in [Subs -> {"idle", "joining", "creating", "open", "canceled", "leaving",
                        "unrouted", "closed", "failed", "mismatch"}]
    /\ mu \in Subs \cup {None} /\ entry \in Subs \cup {None}
    /\ routerOf \in [Subs -> Subs \cup {None}]
    /\ routes \in [Subs -> SUBSET Subs]
    /\ nats \in [Subs -> {"none", "live", "gone"}]
    /\ pending \in [Subs -> SUBSET Messages] /\ writing \in [Subs -> SUBSET Messages]
    /\ buf \in [Subs -> SUBSET Messages] /\ got \in [Subs -> SUBSET Messages]
    /\ todo \in [Subs -> SUBSET Subs]
    /\ dest \in [Messages -> Dests \cup {None}]
    /\ due \in [Messages -> SUBSET Subs]
  BY DEF TypeOK

(* Nothing is subscribed or published yet.                                     *)
LEMMA InitNATS == Init => NATSInv
<1> SUFFICES ASSUME Init PROVE NATSInv
  OBVIOUS
<1>1. Routed \cap Plain = {} /\ None \notin Subs
  BY NATSAssumption
<1>2. TypeOK
  BY Types DEF Init, Subs
<1>3. Locked
  BY <1>1 DEF Init, Locked, Subs
<1>4. Routes /\ Routers /\ Reachable
  BY <1>1 DEF Init, Routes, Routers, Reachable, Subs
<1>5. Delivered /\ EverySubscriberGetsIt
  BY DEF Init, Delivered, EverySubscriberGetsIt
<1> QED
  BY <1>2, <1>3, <1>4, <1>5 DEF NATSInv

-----------------------------------------------------------------------------
(* A step in the life of a subscription that opens none by its way back, keeps *)
(* its router and takes no route from a router whose callback is running,      *)
(* leaves what is due as it was.                                               *)
LEMMA LifeKeeps ==
  ASSUME NATSInv, UNCHANGED <<pending, msgVars, pubVars>>,
         \A s \in Subs :
            pc[s] \in {"open", "canceled", "leaving", "unrouted", "closed"} =>
                /\ pc'[s] \in {"open", "canceled", "leaving", "unrouted", "closed"}
                /\ pc'[s] = "open" => pc[s] = "open"
                /\ routerOf'[s] = routerOf[s],
         \A r \in Subs : todo[r] # {} => routes[r] \subseteq routes'[r]
  PROVE  Delivered' /\ EverySubscriberGetsIt'
<1> USE DEF NATSInv, msgVars, pubVars
<1>1. \A m \in Messages : \A s \in due[m] : s \in Subs
  BY Types
<1>2. Delivered'
  BY <1>1 DEF Delivered, Address
<1>3. EverySubscriberGetsIt'
  BY <1>1 DEF Delivered, EverySubscriberGetsIt
<1> QED
  BY <1>2, <1>3

(* The router is looked up or made.                                            *)
LEMMA LookupInv ==
  ASSUME NATSInv, NEW s \in Subs, Lookup(s)
  PROVE  NATSInv'
<1> USE DEF NATSInv
<1>1. /\ s \in Routed /\ pc[s] = "idle" /\ mu = None /\ s \notin Plain /\ None \notin Subs
      /\ Routed \subseteq Subs /\ Plain \subseteq Subs
  BY NATSAssumption DEF Lookup, Subs
<1>2. UNCHANGED <<routes, nats, pending, msgVars, pubVars>>
  BY DEF Lookup
<1>3. CASE entry # None /\ IsQueue(entry) # IsQueue(s)
  <2>1. pc' = [pc EXCEPT ![s] = "mismatch"] /\ UNCHANGED <<mu, entry, routerOf>>
    BY <1>3 DEF Lookup, Goto
  <2>2. TypeOK'
    BY <1>2, <2>1, Types DEF msgVars, pubVars, TypeOK
  <2>3. \A q \in Subs : pc'[q] = IF q = s THEN "mismatch" ELSE pc[q]
    BY <2>1, Types
  <2>4. Locked' /\ Routes'
    BY <1>1, <1>2, <2>1, <2>3 DEF Locked, Routes
  <2>5. Routers' /\ Reachable'
    BY <1>1, <1>2, <2>1, <2>3, Types DEF Routers, Reachable
  <2>6. Delivered' /\ EverySubscriberGetsIt'
    BY <1>1, <1>2, <2>1, <2>3, LifeKeeps
  <2> QED BY <2>2, <2>4, <2>5, <2>6
<1>4. CASE ~(entry # None /\ IsQueue(entry) # IsQueue(s))
  <2> DEFINE r == IF entry = None THEN s ELSE entry
  <2>1. /\ mu' = s /\ entry' = r /\ routerOf' = [routerOf EXCEPT ![s] = r]
        /\ pc' = [pc EXCEPT ![s] = "joining"]
    BY <1>4 DEF Lookup, Goto
  <2>2. r \in Routed /\ (r = s \/ (r = entry /\ r # s /\ routerOf[r] = r
                                   /\ pc[r] \notin {"idle", "mismatch", "failed", "joining"}))
    BY <1>1 DEF Reachable, Locked
  <2>2a. entry # None => r = entry
    OBVIOUS
  <2>2b. entry = None => r = s
    OBVIOUS
  <2> HIDE DEF r
  <2>3. TypeOK'
    BY <1>1, <1>2, <2>1, <2>2, Types DEF msgVars, pubVars, TypeOK
  <2>4. \A q \in Subs : /\ pc'[q] = IF q = s THEN "joining" ELSE pc[q]
                        /\ routerOf'[q] = IF q = s THEN r ELSE routerOf[q]
    BY <2>1, Types
  <2>5. Locked'
    BY <1>1, <1>2, <2>1, <2>4 DEF Locked
  <2>6. Routes'
    BY <1>1, <1>2, <2>4 DEF Routes
  <2>7. \A q \in Subs : q # s => pc[q] # "joining" /\ routerOf[q] # s
    BY <1>1 DEF Locked, Routers
  <2>8. Routers'
    <3> SUFFICES ASSUME NEW q \in Routed
                 PROVE  /\ pc'[q] \in {"idle", "mismatch"} => routerOf'[q] = None
                        /\ pc'[q] \notin {"idle", "mismatch"} =>
                              routerOf'[q] \in Routed /\ routerOf'[routerOf'[q]] = routerOf'[q]
                        /\ pc'[q] \in {"idle", "joining", "mismatch"} =>
                              \A z \in Subs \ {q} : routerOf'[z] # q
                        /\ pc'[q] = "joining" => entry' = routerOf'[q]
                        /\ pc'[q] = "creating" => entry' = q /\ routerOf'[q] = q
      BY DEF Routers
    <3>1. CASE q = s
      BY <3>1, <1>1, <2>1, <2>2, <2>4, <2>7 DEF Routers
    <3>2. CASE q # s
      <4>1. q \in Subs /\ pc'[q] = pc[q] /\ routerOf'[q] = routerOf[q] /\ pc[q] # "joining"
        BY <3>2, <1>1, <2>4, <2>7
      <4>2. pc[q] = "creating" => entry' = q
        BY <2>1, <2>2a, <1>1 DEF Routers
      <4>3. pc[q] \in {"idle", "mismatch"} => r # q
        BY <2>2, <3>2
      <4> QED
        BY <1>1, <2>4, <2>7, <3>2, <4>1, <4>2, <4>3 DEF Routers
    <3> QED BY <3>1, <3>2
  <2>9. Reachable'
    BY <1>1, <1>2, <2>1, <2>2, <2>2a, <2>2b, <2>4 DEF Reachable
  <2>10. Delivered' /\ EverySubscriberGetsIt'
    BY <1>1, <1>2, <2>4, LifeKeeps
  <2> QED BY <2>3, <2>5, <2>6, <2>8, <2>9, <2>10
<1> QED
  BY <1>3, <1>4

(* The route is added, and the lock released.                                  *)
LEMMA JoinInv ==
  ASSUME NATSInv, NEW s \in Subs, Join(s)
  PROVE  NATSInv'
<1> USE DEF NATSInv
<1> DEFINE r == routerOf[s]
           to == IF r = s THEN "creating" ELSE "open"
<1>1. /\ s \in Routed /\ s \notin Plain /\ None \notin Subs /\ pc[s] = "joining" /\ mu = s
      /\ Routed \subseteq Subs /\ Plain \subseteq Subs /\ Routed \cap Plain = {}
  BY NATSAssumption DEF Join, Subs, Locked
<1>2. /\ pc' = [pc EXCEPT ![s] = to] /\ mu' = None /\ routes' = [routes EXCEPT ![r] = @ \cup {s}]
      /\ UNCHANGED <<entry, routerOf, nats, pending, msgVars, pubVars>> /\ todo[r] = {}
  BY DEF Join, Goto, RouterFree
<1>3. /\ r \in Routed /\ entry = r /\ routerOf[r] = r
      /\ nats[r] = "live" \/ r = s \/ pc[r] = "creating"
  BY <1>1 DEF Routers, Reachable, Locked
<1>4. to \in {"creating", "open"} /\ (to = "creating" <=> r = s)
  OBVIOUS
<1>5. /\ \A q \in Subs : pc'[q] = IF q = s THEN to ELSE pc[q]
      /\ \A q \in Subs : routes'[q] = IF q = r THEN routes[q] \cup {s} ELSE routes[q]
  BY <1>2, Types
<1>6. \A q \in Subs \ {s} : pc[q] \notin {"joining", "leaving"}
  BY <1>1 DEF Locked
<1>6a. routerOf[s] = r
  OBVIOUS
<1> HIDE DEF r, to
<1>7. TypeOK'
  BY <1>1, <1>2, <1>3, <1>4, Types DEF msgVars, pubVars, TypeOK
<1>8. Locked'
  BY <1>1, <1>2, <1>3, <1>4, <1>5, <1>6 DEF Locked
<1>9. Routes'
  BY <1>1, <1>2, <1>3, <1>4, <1>5, <1>6a DEF Routes
<1>10. Routers'
  BY <1>1, <1>2, <1>3, <1>4, <1>5, <1>6a DEF Routers
<1>11. Reachable'
  BY <1>1, <1>2, <1>3, <1>4, <1>5 DEF Reachable
<1>12. Delivered' /\ EverySubscriberGetsIt'
  BY <1>1, <1>2, <1>5, LifeKeeps
<1> QED
  BY <1>7, <1>8, <1>9, <1>10, <1>11, <1>12

(* The NATS subscription is made, or is not and the router is forgotten.       *)
LEMMA CreateInv ==
  ASSUME NATSInv, NEW s \in Subs, Create(s) \/ CreateFails(s)
  PROVE  NATSInv'
<1> USE DEF NATSInv
<1>1. /\ s \in Routed /\ s \notin Plain /\ None \notin Subs /\ pc[s] = "creating"
      /\ Routed \subseteq Subs /\ Plain \subseteq Subs /\ Routed \cap Plain = {}
  BY NATSAssumption DEF Create, CreateFails, Subs, Locked
<1>2. entry = s /\ routerOf[s] = s /\ s \in routes[s]
  BY <1>1 DEF Routers, Routes
<1>3. CASE Create(s)
  <2>1. /\ pc' = [pc EXCEPT ![s] = "open"] /\ nats' = [nats EXCEPT ![s] = "live"]
        /\ UNCHANGED <<mu, entry, routerOf, routes, pending, msgVars, pubVars>>
    BY <1>3 DEF Create, Goto
  <2>2. /\ \A q \in Subs : pc'[q] = IF q = s THEN "open" ELSE pc[q]
        /\ \A q \in Subs : nats'[q] = IF q = s THEN "live" ELSE nats[q]
    BY <2>1, Types
  <2>3. TypeOK'
    BY <2>1, Types DEF msgVars, pubVars, TypeOK
  <2>4. Locked' /\ Routes'
    BY <1>1, <1>2, <2>1, <2>2 DEF Locked, Routes
  <2>5. Routers' /\ Reachable'
    BY <1>1, <1>2, <2>1, <2>2 DEF Routers, Reachable
  <2>6. Delivered' /\ EverySubscriberGetsIt'
    BY <1>1, <2>1, <2>2, LifeKeeps
  <2> QED BY <2>3, <2>4, <2>5, <2>6
<1>4. CASE CreateFails(s)
  <2>1. /\ pc' = [pc EXCEPT ![s] = "failed"] /\ entry' = None /\ mu = None
        /\ UNCHANGED <<mu, routerOf, routes, nats, pending, msgVars, pubVars>>
    BY <1>4 DEF CreateFails, Goto
  <2>2. \A q \in Subs : pc'[q] = IF q = s THEN "failed" ELSE pc[q]
    BY <2>1, Types
  <2>3. TypeOK'
    BY <2>1, Types DEF msgVars, pubVars, TypeOK
  <2>4. Locked' /\ Routes'
    BY <1>1, <1>2, <2>1, <2>2 DEF Locked, Routes
  <2>5. \A q \in Routed : pc[q] # "joining" /\ (pc[q] = "creating" => q = s)
                          /\ (nats[q] # "live")
    BY <1>1, <1>2, <2>1 DEF Locked, Routers, Reachable
  <2>6. Routers'
    BY <1>1, <1>2, <2>1, <2>2, <2>5 DEF Routers
  <2>7. Reachable'
    BY <1>1, <1>2, <2>1, <2>2, <2>5 DEF Reachable
  <2>8. Delivered' /\ EverySubscriberGetsIt'
    BY <1>1, <2>1, <2>2, LifeKeeps
  <2> QED BY <2>3, <2>4, <2>6, <2>7, <2>8
<1> QED
  BY <1>3, <1>4

(* A subscription of its own, made and ended.                                  *)
LEMMA PlainInv ==
  ASSUME NATSInv, NEW s \in Subs, SubscribePlain(s) \/ UnsubscribePlain(s)
  PROVE  NATSInv'
<1> USE DEF NATSInv
<1>1. /\ s \in Plain /\ s \notin Routed /\ None \notin Subs
      /\ Routed \subseteq Subs /\ Plain \subseteq Subs /\ Routed \cap Plain = {}
  BY NATSAssumption DEF SubscribePlain, UnsubscribePlain, Subs
<1>2. routerOf[s] = s /\ \A q \in Subs : q # s => s \notin routes[q]
  BY <1>1 DEF Locked, Routes
<1>3. CASE SubscribePlain(s)
  <2>1. /\ pc' = [pc EXCEPT ![s] = "open"] /\ nats' = [nats EXCEPT ![s] = "live"]
        /\ pc[s] = "idle" /\ routes' = [routes EXCEPT ![s] = {s}]
        /\ UNCHANGED <<mu, entry, routerOf, pending, msgVars, pubVars>>
    BY <1>3 DEF SubscribePlain, Goto
  <2>2. /\ \A q \in Subs : pc'[q] = IF q = s THEN "open" ELSE pc[q]
        /\ \A q \in Subs : nats'[q] = IF q = s THEN "live" ELSE nats[q]
        /\ \A q \in Subs : routes'[q] = IF q = s THEN {s} ELSE routes[q]
    BY <2>1, Types
  <2>3. TypeOK'
    BY <2>1, Types DEF msgVars, pubVars, TypeOK
  <2>4a. Locked'
    BY <1>1, <1>2, <2>1, <2>2 DEF Locked
  <2>4b. Routes'
    <3>1. \A q \in Routed : routerOf[q] # s
      BY <1>1 DEF Routers
    <3> QED
      BY <1>1, <1>2, <2>1, <2>2, <3>1 DEF Routes
  <2>4. Locked' /\ Routes'
    BY <2>4a, <2>4b
  <2>5. Routers' /\ Reachable'
    BY <1>1, <1>2, <2>1, <2>2, Types DEF Routers, Reachable
  <2>6. routes[s] \subseteq {s}
    <3> SUFFICES ASSUME NEW q \in routes[s] PROVE q = s
      OBVIOUS
    <3>1. q \in Subs /\ routerOf[q] = s
      BY Types DEF Routes
    <3>2. q \in Routed => routerOf[q] \in Routed \cup {None}
      BY DEF Routers
    <3> QED
      BY <1>1, <3>1, <3>2 DEF Locked, Subs
  <2>7. Delivered' /\ EverySubscriberGetsIt'
    BY <1>1, <2>1, <2>2, <2>6, LifeKeeps
  <2> QED BY <2>3, <2>4, <2>5, <2>7
<1>4. CASE UnsubscribePlain(s)
  <2>1. /\ pc' = [pc EXCEPT ![s] = "closed"] /\ nats' = [nats EXCEPT ![s] = "gone"]
        /\ pc[s] = "canceled"
        /\ UNCHANGED <<mu, entry, routerOf, routes, pending, msgVars, pubVars>>
    BY <1>4 DEF UnsubscribePlain, Goto
  <2>2. /\ \A q \in Subs : pc'[q] = IF q = s THEN "closed" ELSE pc[q]
        /\ \A q \in Subs : nats'[q] = IF q = s THEN "gone" ELSE nats[q]
    BY <2>1, Types
  <2>3. TypeOK'
    BY <2>1, Types DEF msgVars, pubVars, TypeOK
  <2>4. Locked' /\ Routes'
    BY <1>1, <1>2, <2>1, <2>2 DEF Locked, Routes
  <2>5. Routers' /\ Reachable'
    BY <1>1, <1>2, <2>1, <2>2, Types DEF Routers, Reachable
  <2>6. Delivered' /\ EverySubscriberGetsIt'
    BY <1>1, <2>1, <2>2, LifeKeeps
  <2> QED BY <2>3, <2>4, <2>5, <2>6
<1> QED
  BY <1>3, <1>4

(* The steps of Close before and after the route is taken out.                 *)
LEMMA CloseInv ==
  ASSUME NATSInv, NEW s \in Subs, CallClose(s) \/ LockTransport(s) \/ CloseChan(s)
  PROVE  NATSInv'
<1> USE DEF NATSInv
<1>1. /\ None \notin Subs /\ Subs = Routed \cup Plain
      /\ Routed \subseteq Subs /\ Plain \subseteq Subs /\ Routed \cap Plain = {}
  BY NATSAssumption DEF Subs
<1>2. PICK to \in {"canceled", "leaving", "closed"} :
        /\ pc' = [pc EXCEPT ![s] = to]
        /\ to = "canceled" => pc[s] = "open" /\ mu' = mu
        /\ to = "leaving" => pc[s] = "canceled" /\ s \in Routed /\ mu = None /\ mu' = s
        /\ to = "closed" => pc[s] = "unrouted" /\ mu' = mu
        /\ UNCHANGED <<entry, routerOf, routes, nats, pending, msgVars, pubVars>>
  BY DEF CallClose, LockTransport, CloseChan, Goto
<1>3. \A q \in Subs : pc'[q] = IF q = s THEN to ELSE pc[q]
  BY <1>2, Types
<1>4. TypeOK'
  BY <1>2, Types DEF msgVars, pubVars, TypeOK
<1>5. Locked'
  BY <1>1, <1>2, <1>3 DEF Locked
<1>6. Routes'
  BY <1>1, <1>2, <1>3 DEF Routes, Locked
<1>7. Routers'
  BY <1>1, <1>2, <1>3 DEF Routers
<1>8. Reachable'
  BY <1>1, <1>2, <1>3 DEF Reachable
<1>9. Delivered' /\ EverySubscriberGetsIt'
  BY <1>1, <1>2, <1>3, LifeKeeps
<1> QED
  BY <1>4, <1>5, <1>6, <1>7, <1>8, <1>9

(* The route is taken out, with the router when it was the last.               *)
LEMMA LeaveInv ==
  ASSUME NATSInv, NEW s \in Subs, Leave(s)
  PROVE  NATSInv'
<1> USE DEF NATSInv
<1> DEFINE r == routerOf[s]
           last == routes[r] = {s}
<1>1. /\ s \in Routed /\ s \notin Plain /\ None \notin Subs /\ pc[s] = "leaving" /\ mu = s
      /\ Routed \subseteq Subs /\ Plain \subseteq Subs /\ Routed \cap Plain = {}
  BY NATSAssumption DEF Leave, Subs, Locked
<1>2. /\ pc' = [pc EXCEPT ![s] = "unrouted"] /\ mu' = None
      /\ routes' = [routes EXCEPT ![r] = @ \ {s}]
      /\ nats' = [nats EXCEPT ![r] = IF last THEN "gone" ELSE @]
      /\ entry' = IF last THEN None ELSE entry
      /\ UNCHANGED <<routerOf, pending, msgVars, pubVars>> /\ todo[r] = {}
  BY DEF Leave, Remove, Goto, RouterFree
<1>3. r \in Routed /\ routerOf[r] = r /\ s \in routes[r] /\ routerOf[s] = r
  BY <1>1 DEF Routers, Routes
<1>4. \A q \in Subs \ {s} : pc[q] \notin {"joining", "leaving"}
  BY <1>1 DEF Locked
<1>5. last => nats[r] = "live" /\ entry = r /\ pc[r] \notin {"creating", "failed"}
  <2> SUFFICES ASSUME last PROVE nats[r] = "live" /\ entry = r /\ pc[r] \notin {"creating", "failed"}
    OBVIOUS
  <2>1. pc[r] \notin {"creating", "failed"}
    BY <1>1, <1>3 DEF Routes
  <2> QED
    BY <1>3, <2>1 DEF Reachable
<1>6. /\ \A q \in Subs : pc'[q] = IF q = s THEN "unrouted" ELSE pc[q]
      /\ \A q \in Subs : routes'[q] = IF q = r THEN routes[q] \ {s} ELSE routes[q]
      /\ \A q \in Subs : nats'[q] = IF q = r /\ last THEN "gone" ELSE nats[q]
  BY <1>2, Types
<1>7. (last => routes'[r] = {}) /\ last \in BOOLEAN
  BY <1>1, <1>3, <1>6
<1> HIDE DEF r, last
<1>8. TypeOK'
  BY <1>1, <1>2, <1>3, Types DEF msgVars, pubVars, TypeOK
<1>9. Locked'
  BY <1>1, <1>2, <1>3, <1>4, <1>6 DEF Locked
<1>10. Routes'
  <2>0. /\ \A t, q \in Subs : t \in routes'[q] <=> t \in routes[q] /\ ~(t = s /\ q = r)
        /\ routerOf' = routerOf
    BY <1>2, <1>6
  <2>1. \A t, q \in Subs : t \in routes'[q] => routerOf'[t] = q
    BY <2>0 DEF Routes
  <2>2. ASSUME NEW t \in Routed, pc'[t] \in {"creating", "open", "canceled", "leaving", "failed"}
        PROVE  t \in routes'[routerOf'[t]]
    <3>1. t # s /\ t \in Subs /\ pc'[t] = pc[t]
      BY <1>1, <1>6, <2>2
    <3>2. t \in routes[routerOf[t]]
      BY <2>2, <3>1 DEF Routes
    <3>3. routerOf[t] \in Subs
      BY <1>1, <2>2, <3>1 DEF Routers
    <3> QED
      BY <2>0, <3>1, <3>2, <3>3
  <2>3. ASSUME NEW t \in Routed, NEW q \in Subs,
               pc'[t] \in {"idle", "joining", "unrouted", "closed", "mismatch"}
        PROVE  t \notin routes'[q]
    <3>1. CASE t = s
      <4>1. s \in routes[q] => routerOf[s] = q
        BY DEF Routes
      <4> QED
        BY <1>3, <2>0, <3>1, <4>1
    <3>2. CASE t # s
      <4>1. t \in Subs /\ pc'[t] = pc[t]
        BY <1>1, <1>6, <3>2
      <4>2. t \notin routes[q]
        BY <2>3, <4>1 DEF Routes
      <4> QED
        BY <2>0, <4>1, <4>2
    <3> QED
      BY <3>1, <3>2
  <2> QED
    BY <2>1, <2>2, <2>3 DEF Routes
<1>11. Routers'
  BY <1>1, <1>2, <1>3, <1>4, <1>5, <1>6 DEF Routers
<1>12. Reachable'
  <2>1. CASE last
    BY <1>1, <1>2, <1>3, <1>5, <1>6, <1>7, <2>1 DEF Reachable
  <2>2. CASE ~last
    BY <1>1, <1>2, <1>3, <1>6, <1>4, <2>2 DEF Reachable
  <2> QED BY <2>1, <2>2
<1>13. Delivered' /\ EverySubscriberGetsIt'
  BY <1>1, <1>2, <1>6, LifeKeeps
<1> QED
  BY <1>8, <1>9, <1>10, <1>11, <1>12, <1>13

-----------------------------------------------------------------------------
(* Messages do not touch the subscriptions.                                    *)
LEMMA LifeUntouched ==
  ASSUME NATSInv, UNCHANGED <<lifeVars, nats>>
  PROVE  Locked' /\ Routes' /\ Routers' /\ Reachable'
  BY DEF NATSInv, lifeVars, Locked, Routes, Routers, Reachable

(* A message is given to live routers and becomes due at those open behind.    *)
LEMMA PublishInv ==
  ASSUME NATSInv, NEW m \in Messages, NEW d \in Dests, Publish(m, d)
  PROVE  NATSInv'
<1> USE DEF NATSInv
<1>1. PICK R : /\ pending' = [r \in Subs |-> pending[r] \cup (IF r \in R THEN {m} ELSE {})]
               /\ due' = [due EXCEPT ![m] = {s \in Subs : /\ pc[s] = "open" /\ Address(s) = d
                                                          /\ routerOf[s] \in R}]
  BY DEF Publish
<1>2. /\ dest[m] = None /\ dest' = [dest EXCEPT ![m] = d] /\ UNCHANGED <<lifeVars, nats, msgVars>>
  BY DEF Publish
<1>3. TypeOK'
  BY <1>1, <1>2, Types DEF lifeVars, msgVars, TypeOK
<1>4. Locked' /\ Routes' /\ Routers' /\ Reachable'
  BY <1>2, LifeUntouched
<1>5. /\ \A n \in Messages : n # m => due'[n] = due[n] /\ dest'[n] = dest[n]
      /\ dest'[m] = d
      /\ \A s \in due'[m] : s \in Subs /\ pc[s] = "open" /\ Address(s) = d /\ routerOf[s] \in R
  BY <1>1, <1>2, Types
<1>6. Delivered'
  BY <1>2, <1>5 DEF Delivered, lifeVars, msgVars, Address
<1>7. ASSUME NEW n \in Messages, NEW s \in due'[n], pc[s] = "open"
      PROVE  \/ n \in got[s] \cup pending'[routerOf[s]]
             \/ n \in writing[routerOf[s]] /\ s \in todo[routerOf[s]]
  <2>1. s \in Subs
    BY <1>3, <1>7 DEF TypeOK
  <2>2. routerOf[s] \in Subs
    BY <1>7, <2>1, NATSAssumption DEF Locked, Routers, Subs
  <2>3. CASE n = m
    BY <2>2, <2>3, <1>1, <1>5, <1>7
  <2>4. CASE n # m
    <3>1. s \in due[n]
      BY <2>4, <1>5, <1>7
    <3> QED
      BY <3>1, <2>2, <1>1, <1>7 DEF EverySubscriberGetsIt
  <2> QED BY <2>3, <2>4
<1>8. EverySubscriberGetsIt'
  BY <1>2, <1>7 DEF EverySubscriberGetsIt, lifeVars, msgVars
<1> QED
  BY <1>3, <1>4, <1>6, <1>8

(* A router has one callback at a time, for one message, written to each of    *)
(* the routes of its Local part in turn.                                       *)
LEMMA CallbackInv ==
  ASSUME NATSInv, NEW r \in Subs, CallbackStep(r)
  PROVE  NATSInv'
<1> USE DEF NATSInv
<1>0. \A n \in Messages : \A q \in due[n] :
         /\ q \in Subs /\ dest[n] = Address(q)
         /\ pc[q] = "open" => routerOf[q] \in Subs /\ q \in routes[routerOf[q]]
  BY Types, NATSAssumption DEF Locked, Routers, Routes, Delivered, Subs
<1>1. CASE Callback(r)
  <2>1. PICK m \in pending[r] :
          /\ pending' = [pending EXCEPT ![r] = @ \ {m}]
          /\ todo' = [todo EXCEPT ![r] = Targets(r, m)]
          /\ writing' = [writing EXCEPT ![r] = IF Targets(r, m) = {} THEN {} ELSE {m}]
    BY <1>1 DEF Callback
  <2>2. todo[r] = {} /\ UNCHANGED <<lifeVars, nats, buf, got, pubVars>> /\ m \in Messages
    BY <1>1, <2>1, Types DEF Callback, RouterFree
  <2>3. Targets(r, m) \subseteq routes[r] /\ Targets(r, m) \subseteq Subs
    BY Types DEF Targets
  <2>4. TypeOK'
    BY <2>1, <2>2, <2>3, Types DEF lifeVars, pubVars, TypeOK
  <2>5. /\ \A q \in Subs : pending'[q] = IF q = r THEN pending[q] \ {m} ELSE pending[q]
        /\ \A q \in Subs : todo'[q] = IF q = r THEN Targets(r, m) ELSE todo[q]
        /\ \A q \in Subs \ {r} : writing'[q] = writing[q]
        /\ Targets(r, m) # {} => m \in writing'[r]
    BY <2>1, Types
  <2>6. Delivered'
    BY <2>2, <2>3, <2>5 DEF Delivered, lifeVars, pubVars, Address
  <2>7. ASSUME NEW n \in Messages, NEW s \in due[n], pc[s] = "open"
        PROVE  \/ n \in got[s] \cup pending'[routerOf[s]]
               \/ n \in writing'[routerOf[s]] /\ s \in todo'[routerOf[s]]
    <3>1. s \in Subs /\ routerOf[s] \in Subs /\ s \in routes[routerOf[s]] /\ dest[n] = Address(s)
      BY <1>0, <2>7
    <3>2. \/ n \in got[s] \cup pending[routerOf[s]]
          \/ n \in writing[routerOf[s]] /\ s \in todo[routerOf[s]]
      BY <2>7 DEF EverySubscriberGetsIt
    <3>3. CASE routerOf[s] # r
      BY <2>5, <3>1, <3>2, <3>3
    <3>4. CASE routerOf[s] = r /\ n # m
      BY <2>2, <2>5, <3>2, <3>4
    <3>5. CASE routerOf[s] = r /\ n = m
      <4>1. s \in Targets(r, m)
        BY <3>1, <3>5 DEF Targets, DecodeLocalChannel
      <4> QED
        BY <4>1, <2>5, <3>5
    <3> QED
      BY <3>3, <3>4, <3>5
  <2>8. EverySubscriberGetsIt'
    BY <2>2, <2>7 DEF EverySubscriberGetsIt, lifeVars, pubVars
  <2> QED
    BY <2>2, <2>4, <2>6, <2>8, LifeUntouched
<1>2. ASSUME NEW s \in Subs, Wrote(r, s), s \in todo[r],
             UNCHANGED <<lifeVars, nats, pending, pubVars>>,
             buf' \in [Subs -> SUBSET Messages], got' \in [Subs -> SUBSET Messages],
             \A q \in Subs : got[q] \subseteq got'[q],
             pc[s] # "open" \/ writing[r] \subseteq got'[s]
      PROVE  NATSInv'
  <2>1. /\ todo' = [todo EXCEPT ![r] = @ \ {s}]
        /\ writing' = [writing EXCEPT ![r] = IF todo[r] = {s} THEN {} ELSE @]
    BY <1>2 DEF Wrote
  <2>2. TypeOK'
    BY <1>2, <2>1, Types DEF lifeVars, pubVars, TypeOK
  <2>3. /\ \A q \in Subs : todo'[q] = IF q = r THEN todo[q] \ {s} ELSE todo[q]
        /\ \A q \in Subs : q # r \/ todo[r] # {s} => writing'[q] = writing[q]
    BY <2>1, Types
  <2>4. Delivered'
    <3>1. \A q \in Subs : todo'[q] \subseteq routes'[q]
      BY <1>2, <2>3 DEF Delivered, lifeVars
    <3>2. UNCHANGED <<pc, dest, due>>
      BY <1>2 DEF lifeVars, pubVars
    <3> QED
      BY <3>1, <3>2 DEF Delivered, Address
  <2>5. ASSUME NEW n \in Messages, NEW q \in due[n], pc[q] = "open"
        PROVE  \/ n \in got'[q] \cup pending[routerOf[q]]
               \/ n \in writing'[routerOf[q]] /\ q \in todo'[routerOf[q]]
    <3>1. q \in Subs /\ routerOf[q] \in Subs
      BY <1>0, <2>5
    <3>2. \/ n \in got[q] \cup pending[routerOf[q]]
          \/ n \in writing[routerOf[q]] /\ q \in todo[routerOf[q]]
      BY <2>5 DEF EverySubscriberGetsIt
    <3>3. CASE q = s /\ routerOf[q] = r
      BY <1>2, <2>5, <3>1, <3>2, <3>3
    <3>4. CASE q # s \/ routerOf[q] # r
      <4>1. got[q] \subseteq got'[q]
        BY <1>2, <3>1
      <4>2. CASE routerOf[q] # r
        BY <2>3, <3>1, <3>2, <4>1, <4>2
      <4>3. CASE routerOf[q] = r /\ q # s
        <5>1. q \in todo[r] => todo[r] # {s} /\ q \in todo'[r]
          BY <2>3, <4>3
        <5> QED
          BY <2>3, <3>2, <4>1, <4>3, <5>1
      <4> QED BY <3>4, <4>2, <4>3
    <3> QED
      BY <3>3, <3>4
  <2>6. EverySubscriberGetsIt'
    BY <1>2, <2>5 DEF EverySubscriberGetsIt, lifeVars, pubVars
  <2> QED
    BY <1>2, <2>2, <2>4, <2>6, LifeUntouched
<1>3. ASSUME NEW s \in Subs, Write(r, s) PROVE NATSInv'
  <2>1. /\ s \in todo[r] /\ Wrote(r, s) /\ UNCHANGED <<lifeVars, nats, pending, pubVars>>
        /\ buf' = [buf EXCEPT ![s] = @ \cup writing[r]]
        /\ got' = [got EXCEPT ![s] = @ \cup writing[r]]
    BY <1>3 DEF Write
  <2>2. /\ buf' \in [Subs -> SUBSET Messages] /\ got' \in [Subs -> SUBSET Messages]
        /\ \A q \in Subs : got[q] \subseteq got'[q]
        /\ writing[r] \subseteq got'[s]
    BY <2>1, Types
  <2> QED
    BY <1>2, <2>1, <2>2
<1>4. ASSUME NEW s \in Subs, Skip(r, s) PROVE NATSInv'
  <2>1. /\ s \in todo[r] /\ Wrote(r, s) /\ UNCHANGED <<lifeVars, nats, pending, pubVars>>
        /\ buf' = buf /\ got' = got /\ pc[s] # "open"
    BY <1>4 DEF Skip, Done
  <2>2. buf' \in [Subs -> SUBSET Messages] /\ got' \in [Subs -> SUBSET Messages]
    BY <2>1, Types
  <2> QED
    BY <1>2, <2>1, <2>2
<1> QED
  BY <1>1, <1>3, <1>4 DEF CallbackStep

(* The owner reads.                                                            *)
LEMMA ReadInv ==
  ASSUME NATSInv, NEW s \in Subs, Read(s) \/ ReadInbox(s)
  PROVE  NATSInv'
<1> USE DEF NATSInv
<1>1. /\ \E m \in buf[s] : buf' = [buf EXCEPT ![s] = @ \ {m}]
      /\ UNCHANGED <<lifeVars, nats, pending, writing, todo, got, pubVars>>
  BY DEF Read, ReadInbox, Take
<1>2. TypeOK'
  BY <1>1, Types DEF lifeVars, pubVars, TypeOK
<1>3. Delivered' /\ EverySubscriberGetsIt'
  BY <1>1 DEF Delivered, EverySubscriberGetsIt, Address, lifeVars, pubVars
<1> QED
  BY <1>1, <1>2, <1>3, LifeUntouched

-----------------------------------------------------------------------------
(* Every step keeps the invariant.                                             *)
LEMMA StepNATS == NATSInv /\ [Next]_vars => NATSInv'
<1> SUFFICES ASSUME NATSInv, [Next]_vars PROVE NATSInv'
  OBVIOUS
<1>1. CASE UNCHANGED vars
  <2>1. TypeOK' /\ Delivered' /\ EverySubscriberGetsIt'
    BY <1>1 DEF NATSInv, vars, lifeVars, msgVars, pubVars, TypeOK, Delivered,
                EverySubscriberGetsIt, Address
  <2> QED
    BY <1>1, <2>1, LifeUntouched DEF NATSInv, vars
<1>2. ASSUME NEW s \in Subs, Lookup(s) \/ SubscribePlain(s) \/ CallClose(s) \/ SubStep(s)
                             \/ Read(s) \/ ReadInbox(s)
      PROVE  NATSInv'
  BY <1>2, LookupInv, JoinInv, CreateInv, PlainInv, CloseInv, LeaveInv, ReadInv DEF SubStep
<1>3. ASSUME NEW r \in Subs, CallbackStep(r) PROVE NATSInv'
  BY <1>3, CallbackInv
<1>4. ASSUME NEW m \in Messages, NEW d \in Dests, Publish(m, d) PROVE NATSInv'
  BY <1>4, PublishInv
<1> QED
  BY <1>1, <1>2, <1>3, <1>4 DEF Next

(* The invariant holds of every reachable state.                               *)
THEOREM NATSInvariance == Spec => []NATSInv
  BY InitNATS, StepNATS, PTL DEF Spec

(* No callback writes to a closed channel, no router ends a NATS subscription  *)
(* it never had, and a failed creation removes its own router (natsbus.go,     *)
(* subscribeRouter, unsubscribeRouter and natsRouter).                         *)
THEOREM NeverPanics == Spec => []NoPanic
<1>1. NATSInv => NoPanic
  <2> SUFFICES ASSUME NATSInv PROVE NoPanic
    OBVIOUS
  <2>0. Routed \subseteq Subs
    BY DEF Subs
  <2>1. ASSUME NEW r \in Subs, NEW s \in todo[r] \cap Routed PROVE pc[s] # "closed"
    BY <2>1 DEF NATSInv, Delivered, Routes
  <2>2. ASSUME NEW s \in Routed, pc[s] = "leaving", routes[routerOf[s]] = {s}
        PROVE  nats[routerOf[s]] = "live"
    <3>1. routerOf[s] \in Routed /\ routerOf[routerOf[s]] = routerOf[s]
      BY <2>2 DEF NATSInv, Routers
    <3>2. pc[routerOf[s]] \in {"creating", "failed"} => routerOf[s] \in routes[routerOf[s]]
      BY <3>1 DEF NATSInv, Routes
    <3> QED
      BY <2>2, <3>1, <3>2 DEF NATSInv, Reachable
  <2>3. \A s \in Routed : pc[s] = "creating" => entry = s
    BY DEF NATSInv, Routers
  <2> QED
    BY <2>1, <2>2, <2>3 DEF NoPanic
<1> QED
  BY <1>1, NATSInvariance, PTL

(* An open subscription is in the routes of a router with a live NATS          *)
(* subscription, the only one of its subject, unless it joined a router whose  *)
(* creation fails (natsbus.go, subscribeRouter).                               *)
THEOREM OpenReachable == Spec => []OpenIsReachable
<1>1. NATSInv => OpenIsReachable
  <2> SUFFICES ASSUME NATSInv PROVE OpenIsReachable
    OBVIOUS
  <2>1. ASSUME NEW s \in Subs, pc[s] = "open"
        PROVE  /\ s \in routes[routerOf[s]]
               /\ \/ nats[routerOf[s]] = "live"
                  \/ routerOf[s] # s /\ pc[routerOf[s]] \in {"creating", "failed"}
    <3>1. CASE s \in Plain
      BY <2>1, <3>1 DEF NATSInv, Locked
    <3>2. CASE s \in Routed
      <4>1. s \in routes[routerOf[s]] /\ routerOf[s] \in Routed
        BY <2>1, <3>2 DEF NATSInv, Routes, Routers
      <4> QED
        BY <2>1, <4>1 DEF NATSInv, Reachable
    <3> QED
      BY <3>1, <3>2 DEF Subs
  <2>2. \A r, q \in Routed : (nats[r] = "live" /\ nats[q] = "live") => r = q
    BY DEF NATSInv, Reachable
  <2> QED
    BY <2>1, <2>2 DEF OpenIsReachable
<1> QED
  BY <1>1, NATSInvariance, PTL

(* What was published to an open subscription is written to it, unless it is   *)
(* closed first (natsbus.go, natsRouter.write).                                *)
THEOREM SubscriberGetsIt == Spec => []EverySubscriberGetsIt
<1>1. NATSInv => EverySubscriberGetsIt
  BY DEF NATSInv
<1> QED
  BY <1>1, NATSInvariance, PTL

-----------------------------------------------------------------------------
(* A router that never had a NATS subscription has no messages, and one whose  *)
(* creation failed never had one.                                              *)
Heard ==
    /\ \A r \in Subs : nats[r] = "none" => pending[r] = {} /\ todo[r] = {}
    /\ \A s \in Plain : pc[s] = "idle" => nats[s] = "none"
    /\ \A s \in Routed : pc[s] = "failed" => routerOf[s] = s

(* Messages come to routers that are live, and callbacks from messages.        *)
LEMMA StepHeard == NATSInv /\ Heard /\ [Next]_vars => Heard'
<1> SUFFICES ASSUME NATSInv, Heard, [Next]_vars PROVE Heard'
  OBVIOUS
<1> USE DEF Heard
<1>0. /\ Routed \cap Plain = {} /\ Routed \subseteq Subs /\ Plain \subseteq Subs
      /\ pc \in [Subs -> {"idle", "joining", "creating", "open", "canceled", "leaving",
                          "unrouted", "closed", "failed", "mismatch"}]
      /\ routerOf \in [Subs -> Subs \cup {None}] /\ nats \in [Subs -> {"none", "live", "gone"}]
      /\ pending \in [Subs -> SUBSET Messages] /\ todo \in [Subs -> SUBSET Subs]
  BY NATSAssumption, Types DEF NATSInv, Subs
<1>1. ASSUME UNCHANGED <<pending, todo>>,
             \A r \in Subs :
                /\ nats'[r] = "none" => nats[r] = "none"
                /\ pc'[r] = "idle" => pc[r] = "idle" /\ nats'[r] = nats[r]
                /\ pc'[r] = "failed" => routerOf'[r] = routerOf[r] /\ pc[r] \in {"failed", "creating"}
      PROVE  Heard'
  <2>1. \A r \in Subs : nats'[r] = "none" => pending'[r] = {} /\ todo'[r] = {}
    BY <1>1
  <2>2. \A s \in Plain : pc'[s] = "idle" => nats'[s] = "none"
    BY <1>0, <1>1
  <2>3. ASSUME NEW s \in Routed, pc'[s] = "failed" PROVE routerOf'[s] = s
    <3>1. pc[s] = "creating" => routerOf[s] = s
      BY DEF NATSInv, Routers
    <3>2. routerOf'[s] = routerOf[s] /\ pc[s] \in {"failed", "creating"}
      BY <1>0, <1>1, <2>3
    <3> QED
      BY <3>1, <3>2
  <2> QED
    BY <2>1, <2>2, <2>3
<1>2. ASSUME NEW s \in Subs, Lookup(s) PROVE Heard'
  <2>1. UNCHANGED <<nats, pending, todo>> /\ \E x \in {"mismatch", "joining"} : pc' = [pc EXCEPT ![s] = x]
    BY <1>2 DEF Lookup, Goto, msgVars
  <2>2. \A q \in Subs : q # s => routerOf'[q] = routerOf[q]
    BY <1>0, <1>2 DEF Lookup
  <2> QED
    BY <1>0, <1>1, <2>1, <2>2
<1>3. ASSUME NEW s \in Subs, Join(s) \/ Create(s) \/ CreateFails(s) \/ CallClose(s)
                             \/ LockTransport(s) \/ CloseChan(s)
      PROVE  Heard'
  <2>1. UNCHANGED <<routerOf, pending, todo>> /\ (UNCHANGED nats \/ nats' = [nats EXCEPT ![s] = "live"])
    BY <1>3 DEF Join, Create, CreateFails, CallClose, LockTransport, CloseChan, msgVars
  <2>2. \E x \in {"creating", "open", "failed", "canceled", "leaving", "closed"} :
           pc' = [pc EXCEPT ![s] = x] /\ (x = "failed" => pc[s] = "creating")
    BY <1>3 DEF Join, Create, CreateFails, CallClose, LockTransport, CloseChan, Goto
  <2>3. \A q \in Subs : (pc'[q] = "idle" => q # s) /\ (q # s => pc'[q] = pc[q] /\ nats'[q] = nats[q])
    BY <1>0, <2>1, <2>2
  <2>4. pc'[s] = "failed" => pc[s] = "creating"
    BY <1>0, <2>2
  <2>5. \A q \in Subs : nats'[q] = "none" => nats[q] = "none"
    BY <1>0, <2>1
  <2> QED
    BY <1>1, <2>1, <2>3, <2>4, <2>5
<1>4. ASSUME NEW s \in Subs, SubscribePlain(s) \/ UnsubscribePlain(s) PROVE Heard'
  <2>1. UNCHANGED <<routerOf, pending, todo>>
    BY <1>4 DEF SubscribePlain, UnsubscribePlain, msgVars
  <2>2. /\ \E x \in {"live", "gone"} : nats' = [nats EXCEPT ![s] = x]
        /\ \E x \in {"open", "closed"} : pc' = [pc EXCEPT ![s] = x]
    BY <1>4 DEF SubscribePlain, UnsubscribePlain, Goto
  <2> QED
    BY <1>0, <1>1, <2>1, <2>2
<1>5. ASSUME NEW s \in Subs, Leave(s) PROVE Heard'
  <2>1. /\ UNCHANGED <<routerOf, pending, todo>> /\ pc' = [pc EXCEPT ![s] = "unrouted"]
        /\ pc[s] = "leaving"
    BY <1>5 DEF Leave, Remove, Goto, msgVars
  <2>2. nats' = [nats EXCEPT ![routerOf[s]] = "gone"] \/ UNCHANGED nats
    BY <1>0, <1>5 DEF Leave, Remove
  <2>3. s \in Routed /\ routerOf[s] \in Routed
    BY <2>1 DEF NATSInv, Locked, Routers, Subs
  <2> QED
    BY <1>0, <2>1, <2>2, <2>3
<1>6. ASSUME NEW m \in Messages, NEW d \in Dests, Publish(m, d) PROVE Heard'
  <2>1. UNCHANGED <<pc, routerOf, nats, todo>>
    BY <1>6 DEF Publish, lifeVars, msgVars
  <2>2. \A r \in Subs : nats[r] # "live" => pending'[r] = pending[r]
    BY <1>0, <1>6 DEF Publish
  <2> QED
    BY <1>0, <2>1, <2>2
<1>7. ASSUME NEW r \in Subs, CallbackStep(r) PROVE Heard'
  <2>1. UNCHANGED <<pc, routerOf, nats>>
    BY <1>7 DEF CallbackStep, Callback, Write, Skip, lifeVars
  <2>2. CASE Callback(r)
    <3>1. pending[r] # {} /\ \A q \in Subs : q # r => pending'[q] = pending[q] /\ todo'[q] = todo[q]
      BY <1>0, <2>2 DEF Callback
    <3> QED
      BY <1>0, <2>1, <3>1
  <2>3. ASSUME NEW s \in Subs, Write(r, s) \/ Skip(r, s) PROVE Heard'
    <3>1. s \in todo[r] /\ UNCHANGED pending /\ todo' = [todo EXCEPT ![r] = @ \ {s}]
      BY <2>3 DEF Write, Skip, Wrote
    <3> QED
      BY <1>0, <2>1, <3>1
  <2> QED
    BY <1>7, <2>2, <2>3 DEF CallbackStep
<1>8. ASSUME NEW s \in Subs, Read(s) \/ ReadInbox(s) PROVE Heard'
  BY <1>1, <1>8 DEF Read, ReadInbox, Take, lifeVars
<1>9. CASE UNCHANGED vars
  BY <1>1, <1>9 DEF vars, lifeVars, msgVars
<1> QED
  BY <1>2, <1>3, <1>4, <1>5, <1>6, <1>7, <1>8, <1>9 DEF Next, SubStep

(* What is left when no fair step can be taken. A callback could only wait for *)
(* a full channel, whose owner would read it.                                  *)
LEMMA NothingLeft ==
  ASSUME NATSInv, Heard, ~CanGoOn
  PROVE  Settled
<1> USE DEF NATSInv
<1>1. ASSUME NEW r \in Subs PROVE todo[r] = {}
  <2> SUFFICES ASSUME NEW s \in todo[r] PROVE FALSE
    OBVIOUS
  <2>1. s \in Subs /\ s \in routes[r] /\ routerOf[s] = r /\ nats[r] # "none"
    BY Types DEF Delivered, Routes, Heard
  <2>2. ~Done(s) /\ ~(Cardinality(buf[s]) < ChannelSize)
    BY DEF CanGoOn
  <2>3. buf[s] # {}
    BY <2>2, FS_EmptySet, NATSAssumption
  <2>4. pc[s] \notin {"open", "creating", "unrouted", "canceled", "leaving", "closed"}
    BY <2>1, <2>2, <2>3 DEF CanGoOn, Done
  <2>5. pc[s] \in {"idle", "joining", "failed", "mismatch"}
    BY <2>1, <2>4, Types
  <2>6. CASE s \in Routed
    BY <2>1, <2>5, <2>6 DEF Routes, Reachable, Heard
  <2>7. CASE s \in Plain
    BY <2>1, <2>5, <2>7 DEF Locked, Heard
  <2> QED
    BY <2>1, <2>6, <2>7 DEF Subs
<1>2. ASSUME NEW r \in Subs PROVE pending[r] = {}
  BY <1>1 DEF CanGoOn, RouterFree
<1>3. ASSUME NEW s \in Subs PROVE pc[s] \notin {"creating", "unrouted", "joining", "leaving"}
  <2>1. CASE pc[s] \in {"joining", "leaving"}
    <3>1. routerOf[s] \in Subs
      BY <2>1 DEF Locked, Routers, Subs
    <3> QED
      BY <1>1, <2>1, <3>1 DEF CanGoOn, RouterFree
  <2> QED
    BY <2>1 DEF CanGoOn
<1>4. mu = None
  BY <1>3, Types DEF Locked
<1>5. ASSUME NEW s \in Subs PROVE pc[s] # "canceled"
  BY <1>4 DEF CanGoOn
<1>6. ASSUME NEW s \in Subs PROVE pc[s] \in {"idle", "open", "closed", "failed", "mismatch"}
  BY <1>3, <1>5, Types
<1> QED
  BY <1>1, <1>2, <1>6 DEF Settled

(* If open subscriptions are read, Subscribe, Close and the callbacks can go   *)
(* on until all have returned and every message was taken: the two locks and   *)
(* the full channels never close a circle (natsbus.go, subscribeRouter,        *)
(* unsubscribeRouter and the router's open, close and write).                  *)
(* That a step whose guard holds can be taken, the other half of NothingStuck, *)
(* is left to TLC.                                                             *)
THEOREM GoesOnOrSettled == Spec => [](CanGoOn \/ Settled)
<1>1. Init => Heard
  BY NATSAssumption DEF Init, Heard, Subs
<1>2. NATSInv /\ Heard => CanGoOn \/ Settled
  BY NothingLeft
<1> QED
  BY <1>1, <1>2, StepHeard, NATSInvariance, PTL DEF Spec

=============================================================================

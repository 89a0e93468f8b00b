---------------------------- MODULE MultiRPCProofs ----------------------------
(* Proofs about MultiRPC, for every set of servers and requests and every size *)
(* of the channels: what a call takes is its caller's, and the dispatcher      *)
(* waits for a call only if it was flooded.                                    *)
EXTENDS MultiRPC, FiniteSetTheorems, TLAPS

-----------------------------------------------------------------------------
(* What the responses taken became. Recv is the only place that holds one.     *)
(* A call that was not made has no goroutine, and one with none has no entry.  *)
Emptied ==
    \A r \in Requests : /\ worker[r] # "recv" => holding[r] = {}
                        /\ sendPc[r] = "idle" => worker[r] = "none"
                        /\ worker[r] \in {"none", "exited"} => r \notin registered

(* Where they are, and where they are lost.                                    *)
Accounted ==
    \A r \in Requests :
        /\ taken[r] = delivered[r] \cup outer[r] \cup holding[r] \cup dropped[r]
        /\ dropped[r] # {} => closed

DeliverInv == TypeOK /\ Emptied /\ Accounted

(* The parts of a task.                                                        *)
LEMMA TaskParts ==
  ASSUME NEW t \in Tasks
  PROVE  t[1] \in Servers /\ t[2] \in Requests /\ t[3] \in Copies /\ t = <<t[1], t[2], t[3]>>
  BY DEF Tasks

(* The parts of a response.                                                    *)
LEMMA ResponseParts ==
  ASSUME NEW m \in Responses
  PROVE  m.task[1] \in Servers \cup {NoServer} /\ m.task[2] \in Requests
  BY DEF Responses

(* The initial states satisfy the invariant.                                   *)
LEMMA InitDeliver == Init => DeliverInv
<1> SUFFICES ASSUME Init PROVE DeliverInv
  OBVIOUS
<1>1. NetTypeOK /\ HandlerTypeOK
  BY DEF Init, NetInit, HandlerInit, NetTypeOK, HandlerTypeOK, TaskStates
<1>2. ClientTypeOK
  BY DEF Init, ClientTypeOK, ChanTypeOK
<1>3. Emptied /\ Accounted
  BY DEF Init, Emptied, Accounted
<1> QED
  BY <1>1, <1>2, <1>3 DEF DeliverInv, TypeOK

(* Every step of the client keeps it: a response leaves inner for holding, and *)
(* holding for outer, or for dropped once the client has closed.               *)
LEMMA ClientDelivers ==
  ASSUME DeliverInv, ClientNext, UNCHANGED handlerVars
  PROVE  DeliverInv'
<1>0. HandlerTypeOK' /\ NetTypeOK /\ ClientTypeOK
  BY DEF DeliverInv, TypeOK, HandlerTypeOK, handlerVars
<1> USE DEF ClientTypeOK, ChanTypeOK, NetTypeOK, callVars, chanVars, dispVars, netVars
<1>1. ASSUME NetTypeOK', ClientTypeOK', UNCHANGED <<worker, registered, holding, taken, delivered, outer, dropped>>,
             closed => closed',
             \A r \in Requests : sendPc'[r] = "idle" => sendPc[r] = "idle"
      PROVE  DeliverInv'
  <2>1. TypeOK'
    BY <1>0, <1>1 DEF TypeOK
  <2> QED
    BY <1>1, <2>1 DEF DeliverInv, Emptied, Accounted
<1>2. ASSUME NEW r \in Requests, Send(r) PROVE DeliverInv'
  <2>1. NetTypeOK' /\ ClientTypeOK'
    BY <1>0, <1>2 DEF Send
  <2>2. Emptied'
    BY <1>0, <1>2 DEF Send, DeliverInv, Emptied
  <2>3. Accounted'
    BY <1>2 DEF Send, DeliverInv, Accounted
  <2> QED
    BY <1>0, <2>1, <2>2, <2>3 DEF DeliverInv, TypeOK
<1>3. ASSUME NEW r \in Requests, Publish(r) PROVE DeliverInv'
  <2>1. reqNet' \subseteq Tasks
    BY <1>0, <1>3 DEF Publish, PublishRequestTo, Receivers, Tasks
  <2>2. Unanswered(r) \subseteq Responses
    BY DEF Unanswered, Responses
  <2>3. NetTypeOK'
    BY <1>0, <1>3, <2>1, <2>2 DEF Publish, PublishRequestTo
  <2>4. ClientTypeOK'
    BY <1>0, <1>3 DEF Publish
  <2> QED
    BY <1>0, <1>1, <1>3, <2>3, <2>4 DEF Publish
<1>4. ASSUME NEW r \in Requests, PublishFails(r) \/ Cancel(r) PROVE DeliverInv'
  <2>1. NetTypeOK' /\ ClientTypeOK'
    BY <1>0, <1>4 DEF PublishFails, Cancel
  <2> QED
    BY <1>0, <1>1, <1>4, <2>1 DEF PublishFails, Cancel
<1>5. ASSUME NEW r \in Requests, TakeResponse(r) PROVE DeliverInv'
  <2>1. PICK m \in inner[r] :
          /\ inner' = [inner EXCEPT ![r] = @ \ {m}]
          /\ holding' = [holding EXCEPT ![r] = {m}]
          /\ taken' = [taken EXCEPT ![r] = @ \cup {m}]
    BY <1>5 DEF TakeResponse
  <2>2. /\ worker[r] = "select" /\ worker' = [worker EXCEPT ![r] = "recv"]
        /\ UNCHANGED <<sendPc, registered, outer, delivered, dropped, closed>>
    BY <1>5 DEF TakeResponse
  <2>3. m \in Responses
    BY <1>0
  <2>4. ChanTypeOK'
    BY <1>0, <2>1, <2>2, <2>3
  <2>5. NetTypeOK' /\ ClientTypeOK'
    BY <1>0, <1>5, <2>2, <2>4 DEF TakeResponse
  <2>6. Emptied'
    BY <1>0, <2>1, <2>2 DEF DeliverInv, Emptied
  <2>7. Accounted'
    <3> SUFFICES ASSUME NEW p \in Requests
                 PROVE  /\ taken'[p] = delivered[p] \cup outer[p] \cup holding'[p] \cup dropped[p]
                        /\ dropped[p] # {} => closed
      BY <2>2 DEF Accounted
    <3>1. /\ taken[p] = delivered[p] \cup outer[p] \cup holding[p] \cup dropped[p]
          /\ dropped[p] # {} => closed
      BY DEF DeliverInv, Accounted
    <3>2. CASE p = r
      <4>1. holding[r] = {}
        BY <2>2 DEF DeliverInv, Emptied
      <4> QED
        BY <1>0, <2>1, <3>1, <3>2, <4>1
    <3>3. CASE p # r
      BY <1>0, <2>1, <3>1, <3>3
    <3> QED
      BY <3>2, <3>3
  <2> QED
    BY <1>0, <2>5, <2>6, <2>7 DEF DeliverInv, TypeOK
<1>6. ASSUME NEW r \in Requests, Recv(r) PROVE DeliverInv'
  <2>1. /\ worker' = [worker EXCEPT ![r] = "select"]
        /\ holding' = [holding EXCEPT ![r] = {}]
        /\ worker[r] = "recv" /\ UNCHANGED <<sendPc, registered, inner, taken, delivered, closed>>
    BY <1>6 DEF Recv
  <2>2. \/ outer' = [outer EXCEPT ![r] = @ \cup holding[r]] /\ UNCHANGED dropped
        \/ closed /\ dropped' = [dropped EXCEPT ![r] = @ \cup holding[r]] /\ UNCHANGED outer
    BY <1>6 DEF Recv
  <2>3. ChanTypeOK'
    BY <1>0, <2>1, <2>2
  <2>4. NetTypeOK' /\ ClientTypeOK'
    BY <1>0, <1>6, <2>1, <2>3 DEF Recv
  <2>5. Emptied'
    BY <1>0, <2>1 DEF DeliverInv, Emptied
  <2>6. Accounted'
    <3> SUFFICES ASSUME NEW p \in Requests
                 PROVE  /\ taken[p] = delivered[p] \cup outer'[p] \cup holding'[p] \cup dropped'[p]
                        /\ dropped'[p] # {} => closed
      BY <2>1 DEF Accounted
    <3>1. /\ taken[p] = delivered[p] \cup outer[p] \cup holding[p] \cup dropped[p]
          /\ dropped[p] # {} => closed
      BY DEF DeliverInv, Accounted
    <3> QED
      BY <1>0, <2>1, <2>2, <3>1
  <2> QED
    BY <1>0, <2>4, <2>5, <2>6 DEF DeliverInv, TypeOK
<1>7. ASSUME NEW r \in Requests, End(r) PROVE DeliverInv'
  <2>1. NetTypeOK' /\ ClientTypeOK'
    BY <1>0, <1>7 DEF End
  <2>2. Emptied'
    BY <1>0, <1>7 DEF End, DeliverInv, Emptied
  <2>3. Accounted'
    BY <1>7 DEF End, DeliverInv, Accounted
  <2> QED
    BY <1>0, <2>1, <2>2, <2>3 DEF DeliverInv, TypeOK
<1>8. ASSUME NEW r \in Requests, CallerReads(r) PROVE DeliverInv'
  <2>1. PICK m \in outer[r] :
          /\ outer' = [outer EXCEPT ![r] = @ \ {m}]
          /\ delivered' = [delivered EXCEPT ![r] = @ \cup {m}]
    BY <1>8 DEF CallerReads
  <2>2. UNCHANGED <<sendPc, worker, registered, inner, holding, taken, dropped, closed>>
    BY <1>8 DEF CallerReads
  <2>3. ChanTypeOK'
    BY <1>0, <2>1, <2>2
  <2>4. NetTypeOK' /\ ClientTypeOK'
    BY <1>0, <1>8, <2>3 DEF CallerReads
  <2>5. Emptied'
    BY <2>2 DEF DeliverInv, Emptied
  <2>6. Accounted'
    <3> SUFFICES ASSUME NEW p \in Requests
                 PROVE  taken[p] = delivered'[p] \cup outer'[p] \cup holding[p] \cup dropped[p]
      BY <2>2 DEF DeliverInv, Accounted
    <3>1. taken[p] = delivered[p] \cup outer[p] \cup holding[p] \cup dropped[p]
      BY DEF DeliverInv, Accounted
    <3> QED
      BY <1>0, <2>1, <3>1
  <2> QED
    BY <1>0, <2>4, <2>5, <2>6 DEF DeliverInv, TypeOK
<1>9. CASE Route
  <2>1. NetTypeOK' /\ ClientTypeOK'
    BY <1>0, <1>9 DEF Route
  <2> QED
    BY <1>1, <1>9, <2>1 DEF Route
<1>10. CASE SendResponse
  <2>1. PICK m \in sendingRes : inner' = [inner EXCEPT ![m.task[2]] = @ \cup {m}]
    BY <1>10 DEF SendResponse
  <2>2. m \in Responses /\ m.task[2] \in Requests
    BY <1>0, ResponseParts
  <2>3. /\ UNCHANGED <<netVars, callVars, worker, registered, holding, outer, taken, delivered, dropped,
                       canceled, closed, dispExit>>
        /\ sendingRes' = {}
    BY <1>10 DEF SendResponse
  <2>4. inner' \in [Requests -> SUBSET Responses]
    BY <1>0, <2>1, <2>2
  <2>5. ChanTypeOK'
    BY <1>0, <2>3, <2>4
  <2>6. NetTypeOK' /\ ClientTypeOK'
    BY <1>0, <2>3, <2>5
  <2> QED
    BY <1>1, <2>3, <2>6
<1>11. CASE DispatcherReturns \/ CloseClient
  <2>1. NetTypeOK' /\ ClientTypeOK'
    BY <1>0, <1>11 DEF DispatcherReturns, CloseClient
  <2> QED
    BY <1>1, <1>11, <2>1 DEF DispatcherReturns, CloseClient
<1> QED
  BY <1>2, <1>3, <1>4, <1>5, <1>6, <1>7, <1>8, <1>9, <1>10, <1>11
  DEF ClientNext, CallStep, DispatchStep

(* Every step of a server keeps the state well typed.                          *)
LEMMA HandlerType ==
  ASSUME NetTypeOK, HandlerTypeOK, HandlerNext
  PROVE  NetTypeOK' /\ HandlerTypeOK'
<1> USE HandlerAssumption DEF NetTypeOK, HandlerTypeOK, netVars
<1>1. ASSUME NEW t \in Tasks, TakeRequest(t) PROVE NetTypeOK' /\ HandlerTypeOK'
  BY <1>1 DEF TakeRequest, TaskStates
<1>2. ASSUME NEW s \in Servers, Drain(s) \/ LoopReturns(s) PROVE NetTypeOK' /\ HandlerTypeOK'
  BY <1>2 DEF Drain, LoopReturns
<1>3. ASSUME NEW g \in grantNet, TakeGrant(g) PROVE NetTypeOK' /\ HandlerTypeOK'
  <2>1. g \in Grants /\ g.to \in Servers /\ g.req \in Requests
    BY DEF Grants
  <2>2. routing' \in [Servers -> SUBSET Routed]
    BY <1>3, <2>1 DEF TakeGrant, Routed
  <2> QED
    BY <1>3, <2>2 DEF TakeGrant
<1>4. ASSUME NEW s \in Servers, SendGrant(s) PROVE NetTypeOK' /\ HandlerTypeOK'
  <2>1. PICK m \in routing[s] :
          claimChan' = [claimChan EXCEPT ![<<s, m.grant.req, m.chan>>] = {m.grant}]
    BY <1>4 DEF SendGrant
  <2>2. claimChan' \in [Tasks -> SUBSET Grants]
    <3>1. m.grant \in Grants
      BY DEF Routed
    <3> QED
      BY <2>1, <3>1
  <2> QED
    BY <1>4, <2>2 DEF SendGrant
<1>5. ASSUME NEW t \in Tasks, RejectMalformed(t) \/ Respond(t)
      PROVE  NetTypeOK' /\ HandlerTypeOK'
  <2>1. ASSUME NEW e \in BOOLEAN
        PROVE  [task: {t}, isErr: {e}, copy: Copies] \subseteq Responses
    BY DEF Responses, Tasks
  <2>2. resNet' \subseteq Responses
    BY <1>5, <2>1 DEF RejectMalformed, Respond, PublishResponse
  <2> QED
    BY <1>5, <2>2 DEF RejectMalformed, Respond, Advance, TaskStates
<1>6. ASSUME NEW t \in Tasks,
             RunUnclaimed(t) \/ Decline(t) \/ BidFails(t) \/ ClaimTimesOut(t) \/ Decide(t) \/
             LeaveClaim(t)
      PROVE  NetTypeOK' /\ HandlerTypeOK'
  BY <1>6
  DEF RunUnclaimed, Decline, BidFails, ClaimTimesOut, Decide, LeaveClaim, Advance, TaskStates
<1>7. ASSUME NEW t \in Tasks, RegisterClaim(t) PROVE NetTypeOK' /\ HandlerTypeOK'
  BY <1>7, TaskParts DEF RegisterClaim, Advance, TaskStates
<1>8. ASSUME NEW t \in Tasks, Bid(t) PROVE NetTypeOK' /\ HandlerTypeOK'
  <2>1. bidNet' \subseteq Bids
    BY <1>8 DEF Bid, PublishBid, Bids
  <2> QED
    BY <1>8, <2>1 DEF Bid, Advance, TaskStates
<1>9. ASSUME NEW s \in Servers, NEW force \in BOOLEAN, BeginClose(s, force) \/ CloseStep(s)
      PROVE  NetTypeOK' /\ HandlerTypeOK'
  BY <1>9 DEF BeginClose, CloseStep, FinishGraceful, FinishForced
<1> QED
  BY <1>1, <1>2, <1>3, <1>4, <1>5, <1>6, <1>7, <1>8, <1>9
  DEF HandlerNext, TaskStep, LoopStep

(* Every reachable state satisfies the invariant.                              *)
THEOREM DeliverInvariance == Spec => []DeliverInv
<1>1. ASSUME DeliverInv, [Next]_vars PROVE DeliverInv'
  <2>1. CASE ClientNext /\ UNCHANGED handlerVars
    BY <1>1, <2>1, ClientDelivers
  <2>2. ASSUME UNCHANGED clientVars, NetTypeOK' /\ HandlerTypeOK' PROVE DeliverInv'
    <3>1. ClientTypeOK'
      BY <1>1, <2>2
      DEF DeliverInv, TypeOK, ClientTypeOK, ChanTypeOK, clientVars, callVars, chanVars, dispVars
    <3>2. Emptied' /\ Accounted'
      BY <1>1, <2>2
      DEF DeliverInv, Emptied, Accounted, clientVars, callVars, chanVars, dispVars
    <3> QED
      BY <2>2, <3>1, <3>2 DEF DeliverInv, TypeOK
  <2>3. CASE HandlerNext /\ UNCHANGED clientVars
    BY <1>1, <2>2, <2>3, HandlerType DEF DeliverInv, TypeOK
  <2>4. ASSUME NEW r \in Requests, Tick(r) PROVE DeliverInv'
    BY <1>1, <2>2, <2>4
    DEF DeliverInv, TypeOK, Tick, Expire, NetTypeOK, HandlerTypeOK, handlerVars
  <2>5. CASE UNCHANGED vars
    BY <1>1, <2>2, <2>5
    DEF DeliverInv, TypeOK, vars, netVars, NetTypeOK, HandlerTypeOK, handlerVars
  <2> QED
    BY <1>1, <2>1, <2>3, <2>4, <2>5 DEF Next
<1> QED
  BY <1>1, InitDeliver, PTL DEF Spec

-----------------------------------------------------------------------------
(* Why the dispatcher waits. A full channel holds as many responses as it has  *)
(* room for; that they are the answers of as many servers, none of them twice  *)
(* and none also with the dispatcher, is a fact about the way they came.       *)

(* The bus delivers at most once.                                              *)
OneCopy == \E c : Copies = {c}

Answered(t) == task[t] \in {"responded", "ended"}

Seen(t) == t \in reqNet \/ task[t] # "none"

Unsent(r) == sendPc[r] \in {"idle", "publish"}

(* A task begins when its request is taken, which is published once.           *)
Fresh ==
    \A t \in Tasks :
        /\ t \in reqNet => task[t] = "none"
        /\ Unsent(t[2]) => ~Seen(t)

(* The server of a response has answered. The one without a server stands in   *)
(* for a request that was published to nobody.                                 *)
Backed(m) ==
    \/ /\ m.task[1] = NoServer /\ ~Unsent(m.task[2])
       /\ \A t \in Tasks : t[2] = m.task[2] => ~Seen(t)
    \/ m.task \in Tasks /\ Answered(m.task)

(* What a call has got: in its channel, or taken from there.                   *)
Got(r) == inner[r] \cup taken[r]

(* A response is in one place: in flight, with the dispatcher, in the channel  *)
(* of its call or taken by the call.                                           *)
ResInFlight ==
    \A m \in resNet :
        /\ Backed(m)
        /\ \A n \in resNet : n.task = m.task => n = m
        /\ \A n \in sendingRes : n.task # m.task
        /\ \A r \in Requests : \A n \in Got(r) : n.task # m.task

ResSending ==
    \A m \in sendingRes :
        /\ Backed(m)
        /\ \A n \in Got(m.task[2]) : n.task # m.task

ResHeld ==
    \A r \in Requests :
        /\ inner[r] \cap taken[r] = {}
        /\ \A m \in Got(r) :
            /\ Backed(m) /\ m.task[2] = r
            /\ \A n \in Got(r) : n.task = m.task => n = m

ResponsesOnce == ResInFlight /\ ResSending /\ ResHeld

BlockInv == Fresh /\ ResponsesOnce

(* Initially nothing is anywhere.                                              *)
LEMMA InitBlock == Init => BlockInv
  BY DEF Init, NetInit, HandlerInit, BlockInv, Fresh, Seen, ResponsesOnce, ResInFlight,
         ResSending, ResHeld, Got

(* Where responses are.                                                        *)
LEMMA Places ==
  ASSUME TypeOK
  PROVE  /\ resNet \subseteq Responses /\ sendingRes \subseteq Responses
         /\ inner \in [Requests -> SUBSET Responses] /\ taken \in [Requests -> SUBSET Responses]
         /\ \A r \in Requests : Got(r) \subseteq Responses
<1>1. /\ resNet \subseteq Responses /\ sendingRes \subseteq Responses
      /\ inner \in [Requests -> SUBSET Responses] /\ taken \in [Requests -> SUBSET Responses]
  BY DEF TypeOK, NetTypeOK, ClientTypeOK, ChanTypeOK
<1> QED
  BY <1>1 DEF Got

(* A step that moves no response keeps each in its place.                      *)
LEMMA ResponsesStay ==
  ASSUME TypeOK, ResponsesOnce, \A n \in Responses : Backed(n) => Backed(n)',
         UNCHANGED <<resNet, sendingRes, inner, taken>>
  PROVE  ResponsesOnce'
<1>1. \A r \in Requests : Got(r)' = Got(r)
  BY DEF Got
<1>2. ResInFlight' /\ ResSending'
  BY <1>1, Places, ResponseParts DEF ResponsesOnce, ResInFlight, ResSending
<1>3. ResHeld'
  BY <1>1, Places DEF ResponsesOnce, ResHeld
<1> QED
  BY <1>2, <1>3 DEF ResponsesOnce

(* A response that is published when what it says becomes true is the first.   *)
LEMMA ResponseAdded ==
  ASSUME TypeOK, ResponsesOnce, \A n \in Responses : Backed(n) => Backed(n)',
         NEW m \in Responses, ~Backed(m), Backed(m)', resNet' \subseteq resNet \cup {m},
         UNCHANGED <<sendingRes, inner, taken>>
  PROVE  ResponsesOnce'
<1>1. \A r \in Requests : Got(r)' = Got(r)
  BY DEF Got
<1>2. ASSUME NEW n, Backed(n) PROVE n.task # m.task
  BY <1>2 DEF Backed
<1>3. ResInFlight'
  <2> SUFFICES ASSUME NEW k \in resNet'
               PROVE  /\ Backed(k)'
                      /\ \A n \in resNet' : n.task = k.task => n = k
                      /\ \A n \in sendingRes : n.task # k.task
                      /\ \A r \in Requests : \A n \in Got(r) : n.task # k.task
    BY <1>1 DEF ResInFlight
  <2>1. CASE k = m
    BY <1>2, <2>1 DEF ResponsesOnce, ResInFlight, ResSending, ResHeld
  <2>2. CASE k \in resNet
    BY <1>2, <2>2, Places DEF ResponsesOnce, ResInFlight
  <2> QED
    BY <2>1, <2>2
<1>4. ResSending' /\ ResHeld'
  BY <1>1, Places, ResponseParts DEF ResponsesOnce, ResSending, ResHeld
<1> QED
  BY <1>3, <1>4 DEF ResponsesOnce

(* A step of the client publishes a request once, and moves a response on to   *)
(* the next place.                                                             *)
LEMMA ClientBlocks ==
  ASSUME OneCopy, TypeOK, BlockInv, ClientNext, UNCHANGED handlerVars
  PROVE  BlockInv'
<1>0. task' = task
  BY DEF handlerVars
<1>1. /\ resNet \subseteq Responses /\ sendingRes \subseteq Responses /\ reqNet \subseteq Tasks
      /\ inner \in [Requests -> SUBSET Responses] /\ taken \in [Requests -> SUBSET Responses]
      /\ sendPc \in [Requests -> {"idle", "publish", "sent", "failed"}]
      /\ \A r \in Requests : Got(r) \subseteq Responses
  BY Places DEF TypeOK, NetTypeOK, ClientTypeOK
<1> USE DEF callVars, chanVars, dispVars, netVars
<1>2. ASSUME UNCHANGED reqNet, \A r \in Requests : Unsent(r)' => Unsent(r)
      PROVE  Fresh' /\ \A n \in Responses : Backed(n) => Backed(n)'
  <2>1. \A t : Seen(t)' <=> Seen(t)
    BY <1>0, <1>2 DEF Seen
  <2>2. Fresh'
    BY <1>0, <1>2, <2>1, TaskParts DEF BlockInv, Fresh
  <2>3. ASSUME NEW n \in Responses, Backed(n) PROVE Backed(n)'
    BY <1>0, <1>2, <2>1, <2>3, ResponseParts DEF Backed, Answered
  <2> QED
    BY <2>2, <2>3
<1>3. ASSUME UNCHANGED <<reqNet, resNet, sendingRes, inner, taken>>,
             \A r \in Requests : Unsent(r)' => Unsent(r)
      PROVE  BlockInv'
  BY <1>2, <1>3, ResponsesStay DEF BlockInv
<1>4. ASSUME NEW r \in Requests, Publish(r) PROVE BlockInv'
  <2>1. /\ sendPc[r] = "publish" /\ sendPc' = [sendPc EXCEPT ![r] = "sent"]
        /\ UNCHANGED <<sendingRes, inner, taken>>
    BY <1>4 DEF Publish
  <2>2. Unsent(r) /\ ~Unsent(r)' /\ \A p \in Requests : p # r => (Unsent(p)' <=> Unsent(p))
    BY <1>1, <2>1 DEF Unsent
  <2>3. \A t \in Tasks : t[2] = r => ~Seen(t)
    BY <2>2 DEF BlockInv, Fresh
  <2>4. \A t \in reqNet' : t \in reqNet \/ t[2] = r
    BY <1>4 DEF Publish, PublishRequestTo, Receivers
  <2>5. Fresh'
    BY <1>0, <2>2, <2>3, <2>4, TaskParts DEF BlockInv, Fresh, Seen
  <2>6. ASSUME NEW n \in Responses, Backed(n) PROVE Backed(n)'
    <3>1. n.task[2] \in Requests
      BY ResponseParts
    <3>2. CASE n.task \in Tasks /\ Answered(n.task)
      BY <1>0, <3>2 DEF Backed, Answered
    <3>3. CASE /\ n.task[1] = NoServer /\ ~Unsent(n.task[2])
               /\ \A t \in Tasks : t[2] = n.task[2] => ~Seen(t)
      <4>1. n.task[2] # r
        BY <2>2, <3>3
      <4>2. \A t \in Tasks : t[2] = n.task[2] => ~Seen(t)'
        BY <1>0, <2>4, <3>3, <4>1 DEF Seen
      <4> QED
        BY <2>2, <3>1, <3>3, <4>1, <4>2 DEF Backed
    <3> QED
      BY <2>6, <3>2, <3>3 DEF Backed
  <2>7. CASE UNCHANGED resNet
    BY <2>1, <2>5, <2>6, <2>7, ResponsesStay DEF BlockInv
  <2>8. CASE resNet' # resNet
    <3>1. resNet' = resNet \cup Unanswered(r) /\ UNCHANGED reqNet
      BY <1>4, <2>8 DEF Publish, PublishRequestTo
    <3>2. PICK c : Copies = {c}
      BY DEF OneCopy
    <3> DEFINE m == [task |-> <<NoServer, r, c>>, isErr |-> FALSE, copy |-> c]
    <3>3. Unanswered(r) \subseteq {m} /\ m \in Responses
      <4>1. m \in Responses
        BY <3>2 DEF Responses
      <4>2. ASSUME NEW n \in Unanswered(r) PROVE n = m
        <5>1. /\ n \in [task : {NoServer} \X {r} \X {c}, isErr : {FALSE}, copy : {c}]
              /\ n.task \in {NoServer} \X {r} \X {c}
          BY <3>2 DEF Unanswered
        <5>2. n.task = <<NoServer, r, c>>
          BY <5>1
        <5> QED
          BY <5>1, <5>2
      <4> QED
        BY <4>1, <4>2
    <3>4. m.task[1] = NoServer /\ m.task[2] = r /\ m.task \notin Tasks
      BY SelectionAssumption DEF Tasks
    <3> HIDE DEF m
    <3>5. ~Backed(m)
      BY <2>2, <3>4 DEF Backed
    <3>6. Backed(m)'
      BY <1>0, <2>2, <2>3, <3>1, <3>4 DEF Backed, Seen
    <3> QED
      BY <2>1, <2>5, <2>6, <3>1, <3>3, <3>5, <3>6, ResponseAdded DEF BlockInv
  <2> QED
    BY <2>7, <2>8
<1>5. ASSUME NEW r \in Requests, Send(r) \/ PublishFails(r) PROVE BlockInv'
  BY <1>1, <1>3, <1>5 DEF Send, PublishFails, Unsent
<1>6. ASSUME NEW r \in Requests, TakeResponse(r) PROVE BlockInv'
  <2>1. UNCHANGED <<sendPc, reqNet, resNet, sendingRes>>
    BY <1>6 DEF TakeResponse
  <2>2. \A p \in Requests : Got(p)' = Got(p) /\ (inner[p] \cap taken[p] = {} => inner'[p] \cap taken'[p] = {})
    <3>1. PICK m \in inner[r] :
            /\ inner' = [inner EXCEPT ![r] = @ \ {m}]
            /\ taken' = [taken EXCEPT ![r] = @ \cup {m}]
      BY <1>6 DEF TakeResponse
    <3> QED
      BY <1>1, <3>1 DEF Got
  <2>3. Fresh' /\ \A n \in Responses : Backed(n) => Backed(n)'
    BY <1>2, <2>1 DEF Unsent
  <2>4. ResInFlight'
    BY <1>1, <2>1, <2>2, <2>3 DEF BlockInv, ResponsesOnce, ResInFlight
  <2>5. ResSending'
    BY <1>1, <2>1, <2>2, <2>3, ResponseParts DEF BlockInv, ResponsesOnce, ResSending
  <2>6. ResHeld'
    BY <1>1, <2>2, <2>3 DEF BlockInv, ResponsesOnce, ResHeld
  <2> QED
    BY <2>3, <2>4, <2>5, <2>6 DEF BlockInv, ResponsesOnce
<1>7. ASSUME NEW r \in Requests, Recv(r) \/ End(r) \/ CallerReads(r) \/ Cancel(r)
      PROVE  BlockInv'
  BY <1>3, <1>7 DEF Recv, End, CallerReads, Cancel, Unsent
<1>8. CASE Route
  <2>1. PICK m \in resNet : resNet' = resNet \ {m} /\ sendingRes' \subseteq {m}
    BY <1>8 DEF Route
  <2>2. /\ sendingRes = {} /\ UNCHANGED <<sendPc, reqNet, inner, taken>>
        /\ \A p \in Requests : Got(p)' = Got(p)
    BY <1>8 DEF Route, Got
  <2>3. Fresh' /\ \A n \in Responses : Backed(n) => Backed(n)'
    BY <1>2, <2>2 DEF Unsent
  <2>4. ResInFlight'
    BY <1>1, <2>1, <2>2, <2>3 DEF BlockInv, ResponsesOnce, ResInFlight
  <2>5. ResSending'
    BY <1>1, <2>1, <2>2, <2>3, ResponseParts
    DEF BlockInv, ResponsesOnce, ResSending, ResInFlight
  <2>6. ResHeld'
    BY <1>1, <2>2, <2>3 DEF BlockInv, ResponsesOnce, ResHeld
  <2> QED
    BY <2>3, <2>4, <2>5, <2>6 DEF BlockInv, ResponsesOnce
<1>9. CASE SendResponse
  <2>1. PICK m \in sendingRes : inner' = [inner EXCEPT ![m.task[2]] = @ \cup {m}]
    BY <1>9 DEF SendResponse
  <2>2. sendingRes' = {} /\ UNCHANGED <<sendPc, reqNet, resNet, taken>>
    BY <1>9 DEF SendResponse
  <2>3. m \in Responses /\ m.task[2] \in Requests
    BY <1>1, ResponseParts
  <2>4. \A p \in Requests :
          /\ \A n \in inner'[p] : n \in inner[p] \/ (n = m /\ p = m.task[2])
          /\ \A n \in Got(p)' : n \in Got(p) \/ (n = m /\ p = m.task[2])
    BY <1>1, <2>1, <2>2, <2>3 DEF Got
  <2>5. Fresh' /\ \A n \in Responses : Backed(n) => Backed(n)'
    BY <1>2, <2>2 DEF Unsent
  <2>6. ResInFlight'
    BY <1>1, <2>2, <2>4, <2>5 DEF BlockInv, ResponsesOnce, ResInFlight
  <2>7. ResSending'
    BY <2>2 DEF ResSending
  <2>8. ResHeld'
    <3>1. \A p \in Requests : inner'[p] \cap taken'[p] = {}
      BY <2>2, <2>4 DEF BlockInv, ResponsesOnce, ResHeld, ResSending, Got
    <3> QED
      BY <1>1, <2>3, <2>4, <2>5, <3>1 DEF BlockInv, ResponsesOnce, ResHeld, ResSending
  <2> QED
    BY <2>5, <2>6, <2>7, <2>8 DEF BlockInv, ResponsesOnce
<1>10. CASE DispatcherReturns \/ CloseClient
  BY <1>3, <1>10 DEF DispatcherReturns, CloseClient, Unsent
<1> QED
  BY <1>4, <1>5, <1>6, <1>7, <1>8, <1>9, <1>10 DEF ClientNext, CallStep, DispatchStep

(* A step of a server answers once for each request it took.                   *)
LEMMA HandlerBlocks ==
  ASSUME OneCopy, TypeOK, BlockInv, HandlerNext, UNCHANGED clientVars
  PROVE  BlockInv'
<1>0. UNCHANGED <<sendPc, sendingRes, inner, taken>> /\ \A r : Unsent(r)' <=> Unsent(r)
  BY DEF clientVars, callVars, chanVars, dispVars, Unsent
<1>1. task \in [Tasks -> TaskStates] /\ reqNet \subseteq Tasks
  BY DEF TypeOK, NetTypeOK, HandlerTypeOK
<1> USE DEF netVars
<1>2. ASSUME UNCHANGED <<task, resNet>>, reqNet' \subseteq reqNet PROVE BlockInv'
  <2>1. \A t : Seen(t)' => Seen(t)
    BY <1>2 DEF Seen
  <2>2. Fresh'
    BY <1>0, <1>2, <2>1 DEF BlockInv, Fresh
  <2>3. ASSUME NEW n \in Responses, Backed(n) PROVE Backed(n)'
    BY <1>0, <1>2, <2>1, <2>3 DEF Backed, Answered
  <2> QED
    BY <1>0, <1>2, <2>2, <2>3, ResponsesStay DEF BlockInv
<1>3. ASSUME NEW t \in Tasks, NEW x, task' = [task EXCEPT ![t] = x], ~Answered(t), Seen(t),
             reqNet' \subseteq reqNet, t \notin reqNet'
      PROVE  Fresh' /\ \A n \in Responses : Backed(n) => Backed(n)'
  <2>1. \A u \in Tasks : u # t => (task'[u] = task[u] /\ (Seen(u)' => Seen(u)))
    BY <1>1, <1>3 DEF Seen
  <2>2. Fresh'
    BY <1>0, <1>3, <2>1 DEF BlockInv, Fresh
  <2>3. ASSUME NEW n \in Responses, Backed(n) PROVE Backed(n)'
    <3>1. CASE n.task \in Tasks /\ Answered(n.task)
      BY <1>3, <2>1, <3>1 DEF Backed, Answered
    <3>2. CASE /\ n.task[1] = NoServer /\ ~Unsent(n.task[2])
               /\ \A u \in Tasks : u[2] = n.task[2] => ~Seen(u)
      BY <1>0, <1>3, <2>1, <3>2 DEF Backed
    <3> QED
      BY <2>3, <3>1, <3>2 DEF Backed
  <2> QED
    BY <2>2, <2>3
<1>4. ASSUME NEW t \in Tasks, TakeRequest(t) PROVE BlockInv'
  <2>1. /\ t \in reqNet /\ reqNet' = reqNet \ {t} /\ UNCHANGED resNet
        /\ \E x : task' = [task EXCEPT ![t] = x]
    BY <1>4 DEF TakeRequest
  <2>2. ~Answered(t) /\ Seen(t)
    BY <2>1 DEF BlockInv, Fresh, Answered, Seen
  <2>3. Fresh' /\ \A n \in Responses : Backed(n) => Backed(n)'
    BY <1>3, <2>1, <2>2
  <2> QED
    BY <1>0, <2>1, <2>3, ResponsesStay DEF BlockInv
<1>5. ASSUME NEW t \in Tasks, TaskStep(t)
      PROVE  Fresh' /\ \A n \in Responses : Backed(n) => Backed(n)'
  <2>1. /\ task[t] \notin {"none", "responded", "ended"} /\ UNCHANGED reqNet
        /\ \E x : task' = [task EXCEPT ![t] = x]
    BY <1>5
    DEF TaskStep, RejectMalformed, RunUnclaimed, Decline, RegisterClaim, Bid, BidFails,
        Decide, ClaimTimesOut, LeaveClaim, Respond, Advance
  <2>2. ~Answered(t) /\ Seen(t) /\ t \notin reqNet'
    BY <2>1 DEF BlockInv, Fresh, Answered, Seen
  <2> QED
    BY <1>3, <2>1, <2>2
<1>6. ASSUME NEW t \in Tasks, RejectMalformed(t) \/ Respond(t) PROVE BlockInv'
  <2>1. Fresh' /\ \A n \in Responses : Backed(n) => Backed(n)'
    BY <1>5, <1>6 DEF TaskStep
  <2>2. PICK e \in BOOLEAN : PublishResponse(t, e)
    BY <1>6 DEF RejectMalformed, Respond
  <2>3. PICK c : Copies = {c}
    BY DEF OneCopy
  <2> DEFINE m == [task |-> t, isErr |-> e, copy |-> c]
  <2>4. m \in Responses
    BY <2>3 DEF Responses, Tasks
  <2>5. resNet' \subseteq resNet \cup {m}
    BY <2>2, <2>3 DEF PublishResponse
  <2>6. m.task = t /\ t[1] # NoServer
    BY TaskParts, SelectionAssumption
  <2> HIDE DEF m
  <2>7. ~Answered(t) /\ Answered(t)'
    BY <1>1, <1>6 DEF RejectMalformed, Respond, Advance, Answered
  <2>8. ~Backed(m) /\ Backed(m)'
    BY <2>6, <2>7 DEF Backed
  <2> QED
    BY <1>0, <2>1, <2>4, <2>5, <2>8, ResponseAdded DEF BlockInv
<1>7. ASSUME NEW t \in Tasks, TaskStep(t), UNCHANGED resNet PROVE BlockInv'
  BY <1>0, <1>5, <1>7, ResponsesStay DEF BlockInv
<1>8. ASSUME NEW t \in Tasks, TaskStep(t) PROVE BlockInv'
  <2>1. UNCHANGED resNet \/ RejectMalformed(t) \/ Respond(t)
    BY <1>8
    DEF TaskStep, RunUnclaimed, Decline, RegisterClaim, Bid, BidFails, Decide,
        ClaimTimesOut, LeaveClaim
  <2> QED
    BY <1>6, <1>7, <1>8, <2>1
<1>9. ASSUME NEW g \in grantNet, TakeGrant(g) PROVE BlockInv'
  BY <1>2, <1>9 DEF TakeGrant
<1>10. ASSUME NEW s \in Servers, NEW force \in BOOLEAN,
              LoopStep(s) \/ CloseStep(s) \/ BeginClose(s, force)
       PROVE  BlockInv'
  BY <1>2, <1>10
  DEF LoopStep, CloseStep, Drain, SendGrant, LoopReturns, FinishGraceful, FinishForced,
      BeginClose
<1> QED
  BY <1>4, <1>8, <1>9, <1>10 DEF HandlerNext

(* Responses of as many servers as there are responses: when the channel is    *)
(* full, the response that waits for room is from one more.                    *)
LEMMA FullIsFlooded ==
  ASSUME OneCopy, IsFiniteSet(Servers), TypeOK, BlockInv, NEW m \in sendingRes,
         ~InnerRoom(m.task[2])
  PROVE  Flooded(m.task[2])
<1>1. m \in Responses /\ m.task[2] \in Requests
  BY ResponseParts DEF TypeOK, ClientTypeOK
<1>2. PICK r \in Requests : r = m.task[2]
  BY <1>1
<1>3. PICK c : Copies = {c}
  BY DEF OneCopy
<1> DEFINE S == inner[r] \cup {m}
           T == {t \in Tasks : t[2] = r /\ task[t] \in {"responded", "ended"}}
           f == [n \in S |-> n.task]
           g == [t \in T |-> t[1]]
<1>4. /\ Backed(m) /\ \A n \in inner[r] : n.task # m.task
      /\ \A n \in inner[r] : Backed(n) /\ n.task[2] = r
      /\ \A n, k \in inner[r] : n.task = k.task => n = k
  BY <1>2 DEF BlockInv, ResponsesOnce, ResSending, ResHeld, Got
<1>5. /\ S \subseteq Responses /\ m \notin inner[r]
      /\ \A n \in S : Backed(n) /\ n.task[2] = r
      /\ \A n, k \in S : n.task = k.task => n = k
  BY <1>1, <1>2, <1>4 DEF TypeOK, ClientTypeOK, ChanTypeOK
<1>6. g \in Injection(T, Servers)
  <2>1. \A t \in T : t \in Servers \X Requests \X {c} /\ t[2] = r
    BY <1>3 DEF Tasks
  <2>2. \A t \in T : t[1] \in Servers /\ t = <<t[1], r, c>>
    BY <2>1
  <2>3. g \in [T -> Servers] /\ \A t, u \in T : g[t] = g[u] => t = u
    BY <2>2
  <2> QED
    BY <2>3 DEF Injection, IsInjective
<1>7. IsFiniteSet(T)
  <2> HIDE DEF T, g
  <2> QED
    BY <1>6, FS_Injection
<1>8. inner[r] # {}
  <2>1. CASE inner[r] = {}
    BY <1>2, <2>1, FS_EmptySet, MultiAssumption DEF InnerRoom, HasRoom
  <2> QED
    BY <2>1
<1>9. \A n \in S : n.task \in T
  <2>1. ASSUME NEW n \in S PROVE n.task \in Tasks /\ Answered(n.task)
    <3>1. CASE n.task \in Tasks /\ Answered(n.task)
      BY <3>1
    <3>2. CASE /\ n.task[1] = NoServer
               /\ \A t \in Tasks : t[2] = n.task[2] => ~Seen(t)
      <4>1. ASSUME NEW k \in S PROVE k.task = <<NoServer, r, c>>
        <5>1. ~(k.task \in Tasks /\ Answered(k.task))
          BY <1>5, <3>2 DEF Answered, Seen
        <5>2. k.task[1] = NoServer /\ k.task[2] = r
          BY <1>5, <5>1 DEF Backed
        <5>3. k.task \in (Servers \cup {NoServer}) \X Requests \X {c}
          BY <1>3, <1>5 DEF Responses
        <5> QED
          BY <5>2, <5>3
      <4> QED
        BY <1>4, <1>8, <4>1
    <3> QED
      BY <1>5, <3>1, <3>2 DEF Backed
  <2> QED
    BY <1>5, <2>1 DEF Answered
<1>10. f \in Injection(S, T)
  <2>1. f \in [S -> T] /\ \A n, k \in S : f[n] = f[k] => n = k
    BY <1>5, <1>9
  <2> QED
    BY <2>1 DEF Injection, IsInjective
<1> HIDE DEF S, T, f, g
<1>11. IsFiniteSet(S) /\ Cardinality(S) <= Cardinality(T)
  BY <1>7, <1>10, FS_Injection
<1>12. IsFiniteSet(inner[r]) /\ Cardinality(S) = Cardinality(inner[r]) + 1
  <2>1. IsFiniteSet(inner[r])
    BY <1>11, FS_Subset DEF S
  <2> QED
    BY <1>5, <2>1, FS_AddElement DEF S
<1>13. ~(Cardinality(inner[r]) < ChannelSize)
  BY <1>2 DEF InnerRoom, HasRoom
<1>14. /\ Cardinality(inner[r]) \in Nat /\ Cardinality(T) \in Nat /\ Cardinality(S) \in Nat
       /\ ChannelSize \in Nat
  BY <1>7, <1>11, <1>12, FS_CardinalityType, MultiAssumption
<1>15. Cardinality(T) > ChannelSize
  BY <1>11, <1>12, <1>13, <1>14
<1> QED
  BY <1>2, <1>15 DEF Flooded, T

(* On a bus that delivers at most once, every response is in one place.        *)
THEOREM BlockInvariance ==
  ASSUME OneCopy
  PROVE  Spec => []BlockInv
<1>1. ASSUME DeliverInv, BlockInv, [Next]_vars PROVE BlockInv'
  <2>1. CASE ClientNext /\ UNCHANGED handlerVars
    BY <1>1, <2>1, ClientBlocks DEF DeliverInv
  <2>2. CASE HandlerNext /\ UNCHANGED clientVars
    BY <1>1, <2>2, HandlerBlocks DEF DeliverInv
  <2>3. CASE UNCHANGED <<reqNet, resNet, clientVars, handlerVars>>
    <3>1. UNCHANGED <<reqNet, resNet, sendPc, sendingRes, inner, taken, task>>
      BY <2>3 DEF clientVars, callVars, chanVars, dispVars, handlerVars
    <3>2. Fresh'
      BY <1>1, <3>1 DEF BlockInv, Fresh, Seen, Unsent
    <3>3. \A n : Backed(n) => Backed(n)'
      BY <3>1 DEF Backed, Answered, Seen, Unsent
    <3> QED
      BY <1>1, <3>1, <3>2, <3>3, ResponsesStay DEF BlockInv, DeliverInv
  <2> QED
    BY <1>1, <2>1, <2>2, <2>3 DEF Next, Tick, Expire, vars, netVars
<1> QED
  BY <1>1, InitBlock, DeliverInvariance, PTL DEF Spec

(* On a bus that delivers at most once, the dispatcher waits for a multi call  *)
(* only if more servers have answered it than its channel holds: not because   *)
(* the call ended, its caller does not read, or one answer was passed on twice.*)
THEOREM OnlyFloodsBlock ==
  ASSUME OneCopy, IsFiniteSet(Servers)
  PROVE  Spec => []BlockedMeansFlooded
<1>1. DeliverInv /\ BlockInv => BlockedMeansFlooded
  BY FullIsFlooded DEF DeliverInv, BlockedMeansFlooded
<1> QED
  BY <1>1, BlockInvariance, DeliverInvariance, PTL

-----------------------------------------------------------------------------
(* A response that a call takes is new to it, and from then on it is in Recv,  *)
(* in the caller's channel, read or dropped, one at a time.                    *)
Once ==
    \A r \in Requests :
        /\ delivered[r] \cap (outer[r] \cup holding[r] \cup dropped[r]) = {}
        /\ outer[r] \cap (holding[r] \cup dropped[r]) = {}
        /\ holding[r] \cap dropped[r] = {}

(* Every step keeps the places apart.                                          *)
LEMMA StepOnce ==
  ASSUME DeliverInv, BlockInv, Once, [Next]_vars
  PROVE  Once'
<1>0. /\ inner \in [Requests -> SUBSET Responses] /\ holding \in [Requests -> SUBSET Responses]
      /\ outer \in [Requests -> SUBSET Responses] /\ delivered \in [Requests -> SUBSET Responses]
      /\ dropped \in [Requests -> SUBSET Responses]
  BY DEF DeliverInv, TypeOK, ClientTypeOK, ChanTypeOK
<1>1. CASE UNCHANGED <<holding, outer, delivered, dropped>>
  BY <1>1 DEF Once
<1>2. ASSUME NEW r \in Requests, TakeResponse(r) PROVE Once'
  <2>1. PICK m \in inner[r] : holding' = [holding EXCEPT ![r] = {m}]
    BY <1>2 DEF TakeResponse
  <2>2. UNCHANGED <<outer, delivered, dropped>>
    BY <1>2 DEF TakeResponse
  <2>3. m \notin taken[r]
    BY DEF BlockInv, ResponsesOnce, ResHeld
  <2>4. m \notin delivered[r] \cup outer[r] \cup dropped[r]
    BY <2>3 DEF DeliverInv, Accounted
  <2> QED
    BY <1>0, <2>1, <2>2, <2>4 DEF Once
<1>3. ASSUME NEW r \in Requests, Recv(r) PROVE Once'
  <2>1. /\ holding' = [holding EXCEPT ![r] = {}] /\ UNCHANGED delivered
        /\ \/ outer' = [outer EXCEPT ![r] = @ \cup holding[r]] /\ UNCHANGED dropped
           \/ dropped' = [dropped EXCEPT ![r] = @ \cup holding[r]] /\ UNCHANGED outer
    BY <1>3 DEF Recv
  <2> QED
    BY <1>0, <2>1 DEF Once
<1>4. ASSUME NEW r \in Requests, CallerReads(r) PROVE Once'
  <2>1. PICK m \in outer[r] :
          /\ outer' = [outer EXCEPT ![r] = @ \ {m}]
          /\ delivered' = [delivered EXCEPT ![r] = @ \cup {m}]
    BY <1>4 DEF CallerReads
  <2>2. UNCHANGED <<holding, dropped>>
    BY <1>4 DEF CallerReads
  <2> QED
    BY <1>0, <2>1, <2>2 DEF Once
<1>5. CASE ClientNext
  <2>1. ASSUME NEW r \in Requests, Send(r) \/ Publish(r) \/ PublishFails(r) \/ End(r) \/ Cancel(r)
        PROVE  UNCHANGED <<holding, outer, delivered, dropped>>
    BY <2>1 DEF Send, Publish, PublishFails, End, Cancel, chanVars
  <2>2. Route \/ DispatchStep \/ CloseClient => UNCHANGED <<holding, outer, delivered, dropped>>
    BY DEF Route, DispatchStep, SendResponse, DispatcherReturns, CloseClient, chanVars
  <2> QED
    BY <1>1, <1>2, <1>3, <1>4, <1>5, <2>1, <2>2 DEF ClientNext, CallStep
<1>6. CASE UNCHANGED clientVars
  BY <1>1, <1>6 DEF clientVars, chanVars
<1> QED
  BY <1>5, <1>6 DEF Next, Tick, vars

(* What the goroutine of a call took the caller has read, finds in its channel *)
(* or is about to, each once: nothing is dropped between the two channels,     *)
(* whatever ends the call, but what was in Recv when or after the client       *)
(* closed (multi.go, handleResponses and Recv).                                *)
THEOREM NothingDropped ==
  ASSUME OneCopy
  PROVE  Spec => []TakenIsDelivered
<1>1. Init => Once
  BY DEF Init, Once
<1>2. DeliverInv /\ Once => TakenIsDelivered
  BY DEF DeliverInv, Accounted, Once, TakenIsDelivered
<1> QED
  BY <1>1, <1>2, StepOnce, BlockInvariance, DeliverInvariance, PTL DEF Spec

-----------------------------------------------------------------------------
(* When no step of the client is left to take and the clock has reached every  *)
(* request, what may still wait is a call whose caller does not read.          *)
LEMMA NothingLeft ==
  ASSUME DeliverInv, BlockedMeansFlooded, ~CanGoOn
  PROVE  Settled
<1>1. ASSUME NEW r \in Requests
      PROVE  /\ sendPc[r] # "publish"
             /\ (r \in readers \/ closed) => worker[r] \in {"none", "exited"} /\ r \notin registered
  <2>1. sendPc[r] # "publish"
    BY DEF CanGoOn
  <2>2. CASE worker[r] = "select"
    <3>1. sendPc[r] # "idle"
      BY <2>2 DEF DeliverInv, Emptied
    <3> QED
      BY <2>2, <3>1 DEF CanGoOn
  <2>3. CASE worker[r] = "recv" /\ (r \in readers \/ closed)
    <3>1. ~HasRoom(outer[r]) /\ ~closed
      BY <2>3 DEF CanGoOn
    <3>2. outer[r] # {}
      BY <3>1, FS_EmptySet, MultiAssumption DEF HasRoom
    <3> QED
      BY <2>3, <3>1, <3>2 DEF CanGoOn
  <2>4. CASE worker[r] \in {"none", "exited"}
    BY <2>1, <2>4 DEF DeliverInv, Emptied
  <2>5. worker[r] \in {"none", "select", "recv", "exited"}
    BY DEF DeliverInv, TypeOK, ClientTypeOK
  <2> QED
    BY <2>1, <2>2, <2>3, <2>4, <2>5
<1>2. (\E m \in sendingRes : Flooded(m.task[2])) \/ (sendingRes = {} /\ (closed => dispExit))
  BY DEF CanGoOn, BlockedMeansFlooded
<1> QED
  BY <1>1, <1>2 DEF Settled

(* On a bus that delivers at most once, a client with a multi call can go on   *)
(* by itself until every call that can end has ended and the dispatcher is     *)
(* free (multi.go, Send, handleResponses and Close; routeResponse).            *)
(* That a step whose guard holds can be taken, the other half of NothingStuck, *)
(* is left to TLC.                                                             *)
THEOREM GoesOnOrSettled ==
  ASSUME OneCopy, IsFiniteSet(Servers)
  PROVE  Spec => [](CanGoOn \/ Settled)
<1>1. DeliverInv /\ BlockedMeansFlooded => CanGoOn \/ Settled
  BY NothingLeft
<1> QED
  BY <1>1, DeliverInvariance, OnlyFloodsBlock, PTL

=============================================================================

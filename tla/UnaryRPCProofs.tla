---------------------------- MODULE UnaryRPCProofs ----------------------------
(* Proofs about UnaryRPC, for every set of servers, requests and scores, every *)
(* number of copies the bus makes and every choice of the options.             *)
EXTENDS UnaryRPC, FiniteSetTheorems, TLAPS

-----------------------------------------------------------------------------
(* The operators of Selection stay within their types.                         *)

(* The locals of selectServerUntil start well typed.                           *)
LEMMA SelInitType == SelInit \in SelState
  BY DEF SelInit, SelState

(* Consuming a claim keeps them so.                                            *)
LEMMA OnClaimType ==
  ASSUME NEW st \in SelState, NEW claim \in Claim, NEW o \in SelectionOpts
  PROVE  OnClaim(st, claim, o) \in SelState
<1>1. claim.affinity \in Int /\ claim.server \in Servers
  BY SelectionAssumption DEF Claim
<1>2. Append(st.claims, claim) \in Seq(Claim)
  BY DEF SelState
<1> DEFINE better == ~o.selectionFunc /\ claim.affinity > st.affinity
           claims2 == IF o.selectionFunc THEN Append(st.claims, claim) ELSE st.claims
           server2 == IF better THEN claim.server ELSE st.serverID
           affinity2 == IF better THEN claim.affinity ELSE st.affinity
           shorted2 == st.shorted \/ o.shortCircuit
           counted == [st EXCEPT !.claimCount = @ + 1]
           kept == [counted EXCEPT !.claims = claims2, !.serverID = server2,
                                   !.affinity = affinity2, !.shorted = shorted2]
<1>3. claims2 \in Seq(Claim) /\ server2 \in Servers \cup {NoServer} /\ affinity2 \in Int
  BY <1>1, <1>2 DEF SelState
<1>4. shorted2 \in BOOLEAN
  OBVIOUS
<1>5. OnClaim(st, claim, o) = IF ~MeetsMinimum(claim, o) THEN counted ELSE kept
  BY Zenon DEF OnClaim
<1>6. counted \in SelState
  BY DEF SelState
<1>7. kept \in SelState
  <2> HIDE DEF claims2, server2, affinity2, shorted2, counted
  <2> QED
    BY <1>3, <1>4, <1>6 DEF SelState
<1> HIDE DEF counted, kept
<1> QED
  BY <1>5, <1>6, <1>7

(* So does an error response.                                                  *)
LEMMA OnErrorType ==
  ASSUME NEW st \in SelState PROVE OnErrorResponse(st) \in SelState
  BY DEF OnErrorResponse, SelState

SelFailures == {"selectionError", "responseError", "noServers", "noResponse"}

(* The selection ends with a server or with one of its four errors.            *)
LEMMA OnDoneType ==
  ASSUME NEW st \in SelState, NEW o \in SelectionOpts, NEW d \in OnDone(st, o)
  PROVE  \/ d.kind = "grant" /\ d.server \in Servers
         \/ d.kind \in SelFailures /\ d.kind # "grant"
<1>1. ASSUME NEW i \in DOMAIN st.claims PROVE st.claims[i].server \in Servers
  <2>1. st.claims \in Seq(Claim)
    BY DEF SelState
  <2>2. st.claims[i] \in Claim
    BY <2>1
  <2> QED
    BY <2>2 DEF Claim
<1>2. CASE o.selectionFunc
  <2>1. d \in {Failing("selectionError")} \cup
              {Granting(st.claims[i].server) : i \in DOMAIN st.claims}
    BY <1>2 DEF OnDone
  <2> QED
    BY <2>1, <1>1 DEF Granting, Failing, SelFailures
<1>3. CASE ~o.selectionFunc
  BY <1>3 DEF OnDone, Granting, Failing, SelState, SelFailures
<1> QED
  BY <1>2, <1>3

(* The parts of a bid.                                                         *)
LEMMA BidParts ==
  ASSUME NEW b \in Bids
  PROVE  b.task[1] \in Servers /\ b.task[2] \in Requests /\ ClaimOf(b) \in Claim
  BY DEF Bids, Tasks, ClaimOf, Claim

(* The parts of a response.                                                    *)
LEMMA ResponseParts ==
  ASSUME NEW m \in Responses
  PROVE  m.task[1] \in Servers \cup {NoServer} /\ m.task[2] \in Requests
  BY DEF Responses

-----------------------------------------------------------------------------
(* Type correctness.                                                           *)

CallPcs == {"idle", "publish", "select", "grant", "wait", "return", "done"}

(* The initial states are well typed.                                          *)
LEMMA InitType == Init => TypeOK
<1> SUFFICES ASSUME Init PROVE TypeOK
  OBVIOUS
<1>1. NetTypeOK
  BY DEF Init, NetInit, NetTypeOK
<1>2. ClientTypeOK
  <2>1. NoResult \in Results
    BY DEF NoResult, Results, ResultKinds
  <2>2. result \in [Requests -> Results] /\ sel \in [Requests -> SelState]
    BY <2>1, SelInitType DEF Init, ClientInit
  <2>3. bidChan \in [Requests -> Seq(Bids)]
    BY DEF Init, ClientInit
  <2> QED
    BY <2>2, <2>3 DEF Init, ClientInit, ClientTypeOK
<1>3. HandlerTypeOK
  BY DEF Init, HandlerInit, HandlerTypeOK, TaskStates
<1> QED
  BY <1>1, <1>2, <1>3 DEF TypeOK

(* A call that is about to publish a grant has chosen a server: without it the *)
(* messages in flight would not be grants.                                     *)
GrantHasChoice == \A r \in Requests : callPc[r] = "grant" => choice[r] \in Servers

(* Every step of the client keeps the state well typed.                        *)
LEMMA ClientType ==
  ASSUME TypeOK, GrantHasChoice, ClientNext, UNCHANGED handlerVars PROVE TypeOK'
<1> USE ClientAssumption
<1>0. HandlerTypeOK'
  BY DEF TypeOK, HandlerTypeOK, handlerVars
<1>1. ASSUME NEW r \in Requests, CallRefused(r) PROVE TypeOK'
  BY <1>0, <1>1
  DEF TypeOK, NetTypeOK, ClientTypeOK, CallRefused, Goto, netVars, chanVars,
      dispVars, Results, ResultKinds
<1>2. ASSUME NEW r \in Requests, Call(r) PROVE TypeOK'
  BY <1>0, <1>2
  DEF TypeOK, NetTypeOK, ClientTypeOK, Call, Goto, netVars, dispVars
<1>3. ASSUME NEW r \in Requests, PublishRequest(r) PROVE TypeOK'
  <2>1. reqNet' \subseteq Tasks
    BY <1>3 DEF TypeOK, NetTypeOK, PublishRequest, PublishRequestTo, Receivers, Tasks
  <2>2. Unanswered(r) \subseteq Responses
    BY DEF Unanswered, Responses
  <2>3. resNet' \subseteq Responses
    BY <1>3, <2>2 DEF TypeOK, NetTypeOK, PublishRequest, PublishRequestTo
  <2> QED
    BY <1>0, <1>3, <2>1, <2>3
    DEF TypeOK, NetTypeOK, ClientTypeOK, PublishRequest, Goto, chanVars, dispVars
<1>4. ASSUME NEW r \in Requests, SelectDone(r) PROVE TypeOK'
  <2>1. sel[r] \in SelState /\ opts[r] \in SelectionOpts
    BY DEF TypeOK, ClientTypeOK
  <2>2. PICK d \in OnDone(sel[r], opts[r]) :
          \/ d.kind = "grant" /\ Choose(r, d.server) /\ UNCHANGED result
          \/ d.kind # "grant" /\ Finish(r, d.kind, NoServer) /\ UNCHANGED choice
    BY <1>4 DEF SelectDone
  <2>3. \/ d.kind = "grant" /\ d.server \in Servers
        \/ d.kind \in SelFailures /\ d.kind # "grant"
    BY <2>1, OnDoneType
  <2>4. CASE d.kind = "grant"
    BY <1>0, <1>4, <2>2, <2>3, <2>4, SelInitType, ZenonT(60)
    DEF TypeOK, NetTypeOK, ClientTypeOK, SelectDone, Choose, Goto, netVars,
        chanVars, dispVars
  <2>5. CASE d.kind # "grant"
    <3>1. [kind |-> d.kind, server |-> NoServer] \in Results
      BY <2>3, <2>5 DEF Results, ResultKinds, SelFailures
    <3>2. result' \in [Requests -> Results] /\ callPc' \in [Requests -> CallPcs]
      <4>1. /\ result \in [Requests -> Results] /\ callPc \in [Requests -> CallPcs]
            /\ result' = [result EXCEPT ![r] = [kind |-> d.kind, server |-> NoServer]]
            /\ callPc' = [callPc EXCEPT ![r] = "return"]
        <5>1. result \in [Requests -> Results] /\ callPc \in [Requests -> CallPcs]
          BY DEF TypeOK, ClientTypeOK, CallPcs
        <5>2. Finish(r, d.kind, NoServer)
          BY <2>2, <2>5
        <5> QED
          BY <5>1, <5>2 DEF Finish, Goto
      <4> QED
        BY <3>1, <4>1 DEF CallPcs
    <3> QED
      BY <1>0, <1>4, <2>2, <2>5, <3>2, SelInitType, ZenonT(60)
      DEF TypeOK, NetTypeOK, ClientTypeOK, SelectDone, netVars, chanVars, dispVars,
          CallPcs
  <2> QED
    BY <2>4, <2>5
<1>5. ASSUME NEW r \in Requests, SelectClaim(r) PROVE TypeOK'
  <2> DEFINE claim == ClaimOf(Head(bidChan[r]))
  <2>1. bidChan[r] \in Seq(Bids) /\ bidChan[r] # <<>>
    BY <1>5 DEF TypeOK, ClientTypeOK, SelectClaim
  <2>2. Head(bidChan[r]) \in Bids /\ Tail(bidChan[r]) \in Seq(Bids)
    BY <2>1
  <2>3. claim \in Claim /\ claim.server \in Servers
    BY <2>2, BidParts DEF Claim
  <2>4. OnClaim(sel[r], claim, opts[r]) \in SelState
    BY <2>3, OnClaimType DEF TypeOK, ClientTypeOK
  <2>5. bidChan' \in [Requests -> Seq(Bids)]
    BY <1>5, <2>2 DEF TypeOK, ClientTypeOK, SelectClaim
  <2> HIDE DEF claim
  <2>6. sel' \in [Requests -> SelState]
    BY <1>5, <2>4, SelInitType DEF TypeOK, ClientTypeOK, SelectClaim, claim
  <2>7. /\ choice' \in [Requests -> Servers \cup {NoServer}]
        /\ callPc' \in [Requests -> CallPcs]
    BY <1>5, <2>3 DEF TypeOK, ClientTypeOK, SelectClaim, Choose, Goto, claim, CallPcs
  <2> QED
    BY <1>0, <1>5, <2>5, <2>6, <2>7
    DEF TypeOK, NetTypeOK, ClientTypeOK, SelectClaim, netVars, dispVars, CallPcs
<1>6. ASSUME NEW r \in Requests, NEW m \in Responses, Answer(r, m)
      PROVE  callPc' \in [Requests -> CallPcs] /\ result' \in [Requests -> Results]
  <2>1. m.task[1] \in Servers \cup {NoServer}
    BY ResponseParts
  <2>2. PICK k \in ResultKinds : Finish(r, k, m.task[1])
    BY <1>6 DEF Answer, Meanings, ResultKinds
  <2> QED
    BY <2>1, <2>2 DEF Finish, Goto, TypeOK, ClientTypeOK, CallPcs, Results
<1>7. ASSUME NEW r \in Requests, SelectResponse(r) PROVE TypeOK'
  <2>1. PICK m \in resChan[r] :
          \/ /\ m.isErr
             /\ sel' = [sel EXCEPT ![r] = OnErrorResponse(@)]
             /\ UNCHANGED <<callPc, result>>
          \/ /\ ~m.isErr
             /\ Answer(r, m)
             /\ sel' = [sel EXCEPT ![r] = SelInit]
    BY <1>7 DEF SelectResponse
  <2>2. m \in Responses
    BY DEF TypeOK, ClientTypeOK
  <2>3. callPc' \in [Requests -> CallPcs] /\ result' \in [Requests -> Results]
    <3>1. CASE Answer(r, m)
      BY <2>2, <3>1, <1>6
    <3>2. CASE UNCHANGED <<callPc, result>>
      BY <3>2 DEF TypeOK, ClientTypeOK, CallPcs
    <3> QED
      BY <2>1, <3>1, <3>2
  <2>4. OnErrorResponse(sel[r]) \in SelState
    BY OnErrorType DEF TypeOK, ClientTypeOK
  <2>5. \E x \in SelState : sel' = [sel EXCEPT ![r] = x]
    BY <2>1, <2>4, SelInitType
  <2>6. sel' \in [Requests -> SelState]
    BY <2>5 DEF TypeOK, ClientTypeOK
  <2> QED
    BY <1>0, <1>7, <2>3, <2>6, ZenonT(60)
    DEF TypeOK, NetTypeOK, ClientTypeOK, SelectResponse, netVars, dispVars, CallPcs
<1>8. ASSUME NEW r \in Requests, WaitResponse(r) PROVE TypeOK'
  <2>1. callPc' \in [Requests -> CallPcs] /\ result' \in [Requests -> Results]
    BY <1>8, <1>6 DEF WaitResponse, TypeOK, ClientTypeOK
  <2> QED
    BY <1>0, <1>8, <2>1, ZenonT(60)
    DEF TypeOK, NetTypeOK, ClientTypeOK, WaitResponse, netVars, dispVars, CallPcs
<1>9. ASSUME NEW r \in Requests, PublishFails(r) \/ GrantFails(r) PROVE TypeOK'
  <2>1. [kind |-> "internal", server |-> NoServer] \in Results
    BY DEF Results, ResultKinds
  <2>2. Finish(r, "internal", NoServer)
    BY <1>9 DEF PublishFails, GrantFails
  <2>3. UNCHANGED <<opts, ctx, sel, selDone, choice, netVars, chanVars, dispVars>>
    BY <1>9 DEF PublishFails, GrantFails
  <2>4. result' \in [Requests -> Results]
    BY <2>1, <2>2 DEF TypeOK, ClientTypeOK, Finish
  <2>5. callPc' \in [Requests -> CallPcs]
    BY <2>2 DEF TypeOK, ClientTypeOK, Finish, Goto, CallPcs
  <2> QED
    BY <1>0, <2>3, <2>4, <2>5
    DEF TypeOK, NetTypeOK, ClientTypeOK, netVars, chanVars, dispVars, CallPcs
<1>10. ASSUME NEW r \in Requests, Grant(r) PROVE TypeOK'
  <2>1. grantNet' \subseteq Grants
    BY <1>10 DEF TypeOK, NetTypeOK, GrantHasChoice, Grant, PublishGrant, Grants
  <2> QED
    BY <1>0, <1>10, <2>1
    DEF TypeOK, NetTypeOK, ClientTypeOK, Grant, Goto, chanVars, dispVars
<1>11. ASSUME NEW r \in Requests, WaitBid(r) PROVE TypeOK'
  <2>1. bidChan[r] \in Seq(Bids) /\ bidChan[r] # <<>>
    BY <1>11 DEF TypeOK, ClientTypeOK, WaitBid
  <2>2. Head(bidChan[r]) \in Bids /\ Tail(bidChan[r]) \in Seq(Bids)
    BY <2>1
  <2>3. Head(bidChan[r]).task[1] \in Servers
    BY <2>2, BidParts
  <2> QED
    BY <1>0, <1>11, <2>2, <2>3
    DEF TypeOK, NetTypeOK, ClientTypeOK, WaitBid, Choose, Goto, netVars, dispVars
<1>12. ASSUME NEW r \in Requests, WaitDone(r) PROVE TypeOK'
  BY <1>0, <1>12
  DEF TypeOK, NetTypeOK, ClientTypeOK, WaitDone, Finish, Goto, Results, ResultKinds,
      netVars, chanVars, dispVars
<1>13. ASSUME NEW r \in Requests, ClosedReturns(r) PROVE TypeOK'
  BY <1>0, <1>13, SelInitType
  DEF TypeOK, NetTypeOK, ClientTypeOK, ClosedReturns, Finish, Goto, Results,
      ResultKinds, netVars, chanVars, dispVars
<1>14. ASSUME NEW r \in Requests, Return(r) PROVE TypeOK'
  BY <1>0, <1>14
  DEF TypeOK, NetTypeOK, ClientTypeOK, Return, Goto, netVars, dispVars
<1>15. ASSUME NEW r \in Requests, SelectionTimer(r) PROVE TypeOK'
  BY <1>0, <1>15
  DEF TypeOK, NetTypeOK, ClientTypeOK, SelectionTimer, netVars, chanVars, dispVars
<1>16. ASSUME NEW r \in Requests, NEW why \in {"canceled", "timedOut"}, ContextEnds(r, why)
       PROVE  TypeOK'
  BY <1>0, <1>16
  DEF TypeOK, NetTypeOK, ClientTypeOK, ContextEnds, netVars, chanVars, dispVars
<1>17. ASSUME NEW b \in bidNet, RouteClaim(b) PROVE TypeOK'
  BY <1>0, <1>17
  DEF TypeOK, NetTypeOK, ClientTypeOK, RouteClaim, callVars, chanVars
<1>18. ASSUME NEW m \in resNet, RouteResponse(m) PROVE TypeOK'
  BY <1>0, <1>18
  DEF TypeOK, NetTypeOK, ClientTypeOK, RouteResponse, callVars, chanVars
<1>19. CASE SendClaim
  <2>1. PICK b \in sendingBid : bidChan' = [bidChan EXCEPT ![b.task[2]] = Append(@, b)]
    BY <1>19 DEF SendClaim
  <2>2. b \in Bids /\ b.task[2] \in Requests
    BY BidParts DEF TypeOK, ClientTypeOK
  <2>3. bidChan' \in [Requests -> Seq(Bids)]
    BY <2>1, <2>2 DEF TypeOK, ClientTypeOK
  <2> QED
    BY <1>0, <1>19, <2>3 DEF TypeOK, NetTypeOK, ClientTypeOK, SendClaim, callVars, netVars
<1>20. CASE SendResponse
  <2>1. PICK m \in sendingRes : resChan' = [resChan EXCEPT ![m.task[2]] = {m}]
    BY <1>20 DEF SendResponse
  <2>2. m \in Responses /\ m.task[2] \in Requests
    BY ResponseParts DEF TypeOK, ClientTypeOK
  <2>3. resChan' \in [Requests -> SUBSET Responses]
    BY <2>1, <2>2 DEF TypeOK, ClientTypeOK
  <2> QED
    BY <1>0, <1>20, <2>3
    DEF TypeOK, NetTypeOK, ClientTypeOK, SendResponse, callVars, netVars
<1>21. CASE DispatcherReturns \/ CloseClient
  BY <1>0, <1>21
  DEF TypeOK, NetTypeOK, ClientTypeOK, DispatcherReturns, CloseClient, callVars,
      netVars, chanVars
<1> QED
  BY <1>1, <1>2, <1>3, <1>4, <1>5, <1>7, <1>8, <1>9, <1>10, <1>11, <1>12, <1>13,
     <1>14, <1>15, <1>16, <1>17, <1>18, <1>19, <1>20, <1>21
  DEF ClientNext, CallStep, DispatchStep

(* Every step of a server keeps the state well typed.                          *)
LEMMA HandlerType ==
  ASSUME TypeOK, HandlerNext, UNCHANGED clientVars PROVE TypeOK'
<1>0. ClientTypeOK'
  BY DEF TypeOK, ClientTypeOK, clientVars, callVars, chanVars, dispVars
<1> USE HandlerAssumption DEF TypeOK, NetTypeOK, HandlerTypeOK
<1>1. ASSUME NEW t \in Tasks, TakeRequest(t) PROVE TypeOK'
  BY <1>0, <1>1 DEF TakeRequest, TaskStates
<1>2. ASSUME NEW s \in Servers, Drain(s) PROVE TypeOK'
  BY <1>0, <1>2 DEF Drain, netVars
<1>3. ASSUME NEW g \in grantNet, TakeGrant(g) PROVE TypeOK'
  <2>1. g \in Grants /\ g.to \in Servers /\ g.req \in Requests
    BY DEF Grants
  <2>2. claims[<<g.to, g.req>>] \in Copies \cup {NoCopy}
    BY <2>1
  <2>3. routing' \in [Servers -> SUBSET Routed]
    BY <1>3, <2>1, <2>2 DEF TakeGrant, Routed
  <2> QED
    BY <1>0, <1>3, <2>3 DEF TakeGrant
<1>4. ASSUME NEW s \in Servers, SendGrant(s) PROVE TypeOK'
  <2>1. PICK m \in routing[s] :
          claimChan' = [claimChan EXCEPT ![<<s, m.grant.req, m.chan>>] = {m.grant}]
    BY <1>4 DEF SendGrant
  <2>2. m.grant \in Grants
    BY DEF Routed
  <2>3. claimChan' \in [Tasks -> SUBSET Grants]
    BY <2>1, <2>2
  <2> QED
    BY <1>0, <1>4, <2>3 DEF SendGrant, netVars
<1>5. ASSUME NEW s \in Servers, LoopReturns(s) PROVE TypeOK'
  BY <1>0, <1>5 DEF LoopReturns, netVars
<1>6. ASSUME NEW t \in Tasks, RejectMalformed(t) \/ Respond(t) PROVE TypeOK'
  <2>1. ASSUME NEW e \in BOOLEAN
        PROVE  [task: {t}, isErr: {e}, copy: Copies] \subseteq Responses
    BY DEF Responses, Tasks
  <2>2. resNet' \subseteq Responses
    BY <1>6, <2>1 DEF RejectMalformed, Respond, PublishResponse
  <2> QED
    BY <1>0, <1>6, <2>2 DEF RejectMalformed, Respond, Advance, TaskStates
<1>7. ASSUME NEW t \in Tasks, RunUnclaimed(t) \/ Decline(t) \/ BidFails(t) \/ ClaimTimesOut(t)
      PROVE TypeOK'
  BY <1>0, <1>7
  DEF RunUnclaimed, Decline, BidFails, ClaimTimesOut, Advance, TaskStates, netVars
<1>8. ASSUME NEW t \in Tasks, RegisterClaim(t) PROVE TypeOK'
  <2>1. t[3] \in Copies
    BY DEF Tasks
  <2> QED
    BY <1>0, <1>8, <2>1 DEF RegisterClaim, Advance, TaskStates, netVars
<1>9. ASSUME NEW t \in Tasks, Bid(t) PROVE TypeOK'
  <2>1. bidNet' \subseteq Bids
    BY <1>9 DEF Bid, PublishBid, Bids
  <2> QED
    BY <1>0, <1>9, <2>1 DEF Bid, Advance, TaskStates
<1>10. ASSUME NEW t \in Tasks, Decide(t) PROVE TypeOK'
  BY <1>0, <1>10 DEF Decide, Advance, TaskStates, netVars
<1>11. ASSUME NEW t \in Tasks, LeaveClaim(t) PROVE TypeOK'
  BY <1>0, <1>11 DEF LeaveClaim, Advance, TaskStates, netVars
<1>12. ASSUME NEW s \in Servers, NEW force \in BOOLEAN, BeginClose(s, force) PROVE TypeOK'
  BY <1>0, <1>12 DEF BeginClose
<1>13. ASSUME NEW s \in Servers, FinishGraceful(s) \/ FinishForced(s) PROVE TypeOK'
  BY <1>0, <1>13 DEF FinishGraceful, FinishForced, netVars
<1> QED
  BY <1>1, <1>2, <1>3, <1>4, <1>5, <1>6, <1>7, <1>8, <1>9, <1>10, <1>11, <1>12, <1>13
  DEF HandlerNext, TaskStep, LoopStep, CloseStep

-----------------------------------------------------------------------------
(* The inductive invariant. SingleServer is not inductive: nothing in it says  *)
(* that the grants still in flight, in the hands of a run loop or in a task's  *)
(* channel all name the server that the caller chose, nor that a caller        *)
(* chooses once.                                                               *)

(* A call that has not ended its selection has chosen nobody.                  *)
ChoiceOpen ==
    \A r \in Requests : callPc[r] \in {"idle", "publish", "select"} => choice[r] = NoServer

GrantsAgree == \A g \in grantNet : g.server = choice[g.req]

RoutedAgree ==
    \A s \in Servers : \A m \in routing[s] : m.grant.server = choice[m.grant.req]

ChansAgree ==
    \A t \in Tasks : \A g \in claimChan[t] : g.req = t[2] /\ g.server = choice[t[2]]

GrantedChosen ==
    \A t \in Tasks : (task[t] = "granted" \/ Ran(t)) /\ NeedsClaim(t[1])
                        => choice[t[2]] = t[1]

Seen(t) == t \in reqNet \/ task[t] # "none"

(* The bus hands a queue request to one server, when it is published.          *)
QueueOnce ==
    Queue => /\ \A t \in Tasks : callPc[t[2]] \in {"idle", "publish"} => ~Seen(t)
             /\ \A t, u \in Tasks : (Seen(t) /\ Seen(u) /\ t[2] = u[2]) => t[1] = u[1]

ChoiceInv == ChoiceOpen /\ GrantHasChoice

AgreeInv == GrantsAgree /\ RoutedAgree /\ ChansAgree /\ GrantedChosen

IInv == TypeOK /\ ChoiceInv /\ AgreeInv /\ QueueOnce

(* The parts of a task.                                                        *)
LEMMA TaskParts ==
  ASSUME NEW t \in Tasks
  PROVE  t[1] \in Servers /\ t[2] \in Requests /\ t[3] \in Copies /\ t = <<t[1], t[2], t[3]>>
  BY DEF Tasks

(* The parts of a grant, which always names a server.                          *)
LEMMA GrantParts ==
  ASSUME NEW g \in Grants
  PROVE  g.to \in Servers /\ g.req \in Requests /\ g.server \in Servers /\ g.server # NoServer
  BY SelectionAssumption DEF Grants

(* Initially nobody has chosen and nothing is in flight.                       *)
LEMMA InitInv == Init => IInv
<1> SUFFICES ASSUME Init PROVE IInv
  OBVIOUS
<1>1. TypeOK
  BY InitType
<1>2. ChoiceInv
  BY DEF Init, ClientInit, ChoiceInv, ChoiceOpen, GrantHasChoice
<1>3. AgreeInv
  BY DEF Init, NetInit, HandlerInit, AgreeInv, GrantsAgree, RoutedAgree, ChansAgree,
         GrantedChosen, Ran
<1>4. QueueOnce
  BY DEF Init, NetInit, HandlerInit, QueueOnce, Seen
<1> QED
  BY <1>1, <1>2, <1>3, <1>4 DEF IInv

(* What a step of the client may do to the choices and to the grants in        *)
(* flight: a choice is made once, and a grant is published for it.             *)
ChoosesOnce ==
    /\ ChoiceInv'
    /\ \A r \in Requests : choice[r] # NoServer => choice'[r] = choice[r]
    /\ \A g \in grantNet' : g \in grantNet \/ g.server = choice'[g.req]

(* Only Choose makes a choice, for a call that selects or waits for a bid.     *)
LEMMA ClientChoice == ASSUME TypeOK, ChoiceInv, ClientNext PROVE ChoosesOnce
<1>1. callPc \in [Requests -> CallPcs] /\ choice \in [Requests -> Servers \cup {NoServer}]
  BY DEF TypeOK, ClientTypeOK, CallPcs
<1>2. ASSUME UNCHANGED <<choice, grantNet>>, NEW r \in Requests, NEW pc \in CallPcs,
             callPc' = [callPc EXCEPT ![r] = pc], pc # "grant",
             pc = "select" => callPc[r] \in {"publish", "select"},
             pc \notin {"idle", "publish"} \/ choice[r] = NoServer
      PROVE  ChoosesOnce
  BY <1>1, <1>2 DEF CallPcs, ChoosesOnce, ChoiceInv, ChoiceOpen, GrantHasChoice
<1>3. ASSUME UNCHANGED <<callPc, choice, grantNet>> PROVE ChoosesOnce
  BY <1>3 DEF ChoosesOnce, ChoiceInv, ChoiceOpen, GrantHasChoice
<1>4. ASSUME NEW r \in Requests, choice[r] = NoServer, NEW s \in Servers, Choose(r, s),
             UNCHANGED grantNet
      PROVE  ChoosesOnce
  BY <1>1, <1>4 DEF Choose, Goto, CallPcs, ChoosesOnce,
     ChoiceInv, ChoiceOpen, GrantHasChoice
<1>5. ASSUME NEW r \in Requests, CallRefused(r) PROVE ChoosesOnce
  BY <1>5, <1>2 DEF CallRefused, Goto, CallPcs, netVars
<1>6. ASSUME NEW r \in Requests, Call(r) PROVE ChoosesOnce
  BY <1>6, <1>2 DEF Call, Goto, CallPcs, netVars, ChoiceInv, ChoiceOpen
<1>7. ASSUME NEW r \in Requests, PublishRequest(r) PROVE ChoosesOnce
  BY <1>7, <1>2 DEF PublishRequest, Goto, CallPcs
<1>8. ASSUME NEW r \in Requests, NEW k, NEW s, Finish(r, k, s), UNCHANGED <<choice, grantNet>>
      PROVE  ChoosesOnce
  BY <1>8, <1>2 DEF Finish, Goto, CallPcs
<1>9. ASSUME NEW r \in Requests, PublishFails(r) \/ GrantFails(r) \/ WaitDone(r) \/ ClosedReturns(r)
      PROVE  ChoosesOnce
  BY <1>9, <1>8 DEF PublishFails, GrantFails, WaitDone, ClosedReturns, netVars
<1>10. ASSUME NEW r \in Requests, SelectDone(r) PROVE ChoosesOnce
  <2>1. sel[r] \in SelState /\ opts[r] \in SelectionOpts /\ choice[r] = NoServer
    BY <1>10, ClientAssumption
    DEF TypeOK, ClientTypeOK, SelectDone, ChoiceInv, ChoiceOpen
  <2>2. PICK d \in OnDone(sel[r], opts[r]) :
          \/ d.kind = "grant" /\ Choose(r, d.server) /\ UNCHANGED result
          \/ d.kind # "grant" /\ Finish(r, d.kind, NoServer) /\ UNCHANGED choice
    BY <1>10 DEF SelectDone
  <2>3. UNCHANGED grantNet
    BY <1>10 DEF SelectDone, netVars
  <2>4. CASE d.kind = "grant"
    <3>1. d.server \in Servers
      BY <2>1, <2>4, OnDoneType
    <3> QED
      BY <2>1, <2>2, <2>3, <2>4, <3>1, <1>4
  <2>5. CASE d.kind # "grant"
    BY <2>2, <2>3, <2>5, <1>8
  <2> QED
    BY <2>4, <2>5
<1>11. ASSUME NEW r \in Requests, SelectClaim(r) PROVE ChoosesOnce
  <2>1. bidChan[r] \in Seq(Bids) /\ bidChan[r] # <<>> /\ choice[r] = NoServer
    BY <1>11 DEF TypeOK, ClientTypeOK, SelectClaim, ChoiceInv, ChoiceOpen
  <2>2. Head(bidChan[r]) \in Bids
    BY <2>1
  <2>3. ClaimOf(Head(bidChan[r])).server \in Servers
    BY <2>2, BidParts DEF Claim
  <2>4. UNCHANGED grantNet
    BY <1>11 DEF SelectClaim, netVars
  <2>5. CASE Choose(r, ClaimOf(Head(bidChan[r])).server)
    BY <2>1, <2>3, <2>4, <2>5, <1>4
  <2>6. CASE UNCHANGED <<callPc, choice>>
    BY <2>4, <2>6, <1>3
  <2> QED
    BY <1>11, <2>5, <2>6 DEF SelectClaim
<1>12. ASSUME NEW r \in Requests, NEW m, Answer(r, m), UNCHANGED <<choice, grantNet>>
       PROVE  ChoosesOnce
  BY <1>12, <1>8 DEF Answer
<1>13. ASSUME NEW r \in Requests, SelectResponse(r) \/ WaitResponse(r) PROVE ChoosesOnce
  BY <1>13, <1>12, <1>3 DEF SelectResponse, WaitResponse, netVars
<1>14. ASSUME NEW r \in Requests, Grant(r) PROVE ChoosesOnce
  <2>1. \A g \in grantNet' : g \in grantNet \/ (g.req = r /\ g.server = choice[r])
    BY <1>14 DEF Grant, PublishGrant
  <2>2. choice' = choice
    BY <1>14 DEF Grant
  <2>3. ChoiceInv'
    BY <1>14, <1>1 DEF Grant, Goto, CallPcs, ChoiceInv, ChoiceOpen, GrantHasChoice
  <2> QED
    BY <2>1, <2>2, <2>3 DEF ChoosesOnce
<1>15. ASSUME NEW r \in Requests, WaitBid(r) PROVE ChoosesOnce
  <2>1. bidChan[r] \in Seq(Bids) /\ bidChan[r] # <<>>
    BY <1>15 DEF TypeOK, ClientTypeOK, WaitBid
  <2>2. Head(bidChan[r]) \in Bids
    BY <2>1
  <2>3. Head(bidChan[r]).task[1] \in Servers
    BY <2>2, BidParts
  <2> QED
    BY <1>15, <2>3, <1>4 DEF WaitBid, netVars
<1>16. ASSUME NEW r \in Requests, Return(r) PROVE ChoosesOnce
  BY <1>16, <1>2 DEF Return, Goto, CallPcs, netVars
<1>17. ASSUME NEW r \in Requests, SelectionTimer(r) PROVE ChoosesOnce
  BY <1>17, <1>3 DEF SelectionTimer, netVars
<1>18. ASSUME NEW r \in Requests, NEW why \in {"canceled", "timedOut"}, ContextEnds(r, why)
       PROVE  ChoosesOnce
  BY <1>18, <1>3 DEF ContextEnds, netVars
<1>19. ASSUME NEW b \in bidNet, RouteClaim(b) PROVE ChoosesOnce
  BY <1>19, <1>3 DEF RouteClaim, callVars
<1>20. ASSUME NEW m \in resNet, RouteResponse(m) PROVE ChoosesOnce
  BY <1>20, <1>3 DEF RouteResponse, callVars
<1>21. CASE SendClaim \/ SendResponse \/ DispatcherReturns \/ CloseClient
  BY <1>21, <1>3
  DEF SendClaim, SendResponse, DispatcherReturns, CloseClient, callVars, netVars
<1> QED
  BY <1>5, <1>6, <1>7, <1>9, <1>10, <1>11, <1>13, <1>14, <1>15, <1>16, <1>17, <1>18,
     <1>19, <1>20, <1>21
  DEF ClientNext, CallStep, DispatchStep

(* A step of the client keeps every grant, wherever it is, and every task that *)
(* was granted in agreement with the choices.                                  *)
LEMMA ClientAgree ==
  ASSUME IInv, ClientNext, UNCHANGED handlerVars
  PROVE  ChoiceInv' /\ AgreeInv'
<1> USE DEF IInv
<1>1. /\ ChoiceInv'
      /\ \A r \in Requests : choice[r] # NoServer => choice'[r] = choice[r]
      /\ \A g \in grantNet' : g \in grantNet \/ g.server = choice'[g.req]
  BY ClientChoice DEF ChoosesOnce
<1>2. GrantsAgree'
  BY <1>1, GrantParts DEF AgreeInv, GrantsAgree, TypeOK, NetTypeOK
<1>3. RoutedAgree'
  <2> SUFFICES ASSUME NEW s \in Servers, NEW m \in routing[s]
               PROVE  m.grant.server = choice'[m.grant.req]
    BY DEF RoutedAgree, handlerVars
  <2>1. m.grant \in Grants
    BY DEF TypeOK, HandlerTypeOK, Routed
  <2> QED
    BY <1>1, <2>1, GrantParts DEF AgreeInv, RoutedAgree
<1>4. ChansAgree'
  <2> SUFFICES ASSUME NEW t \in Tasks, NEW g \in claimChan[t]
               PROVE  g.req = t[2] /\ g.server = choice'[t[2]]
    BY DEF ChansAgree, handlerVars
  <2>1. g \in Grants
    BY DEF TypeOK, HandlerTypeOK
  <2> QED
    BY <1>1, <2>1, GrantParts, TaskParts DEF AgreeInv, ChansAgree
<1>5. GrantedChosen'
  <2> SUFFICES ASSUME NEW t \in Tasks, task[t] = "granted" \/ Ran(t), NeedsClaim(t[1])
               PROVE  choice'[t[2]] = t[1]
    BY DEF GrantedChosen, handlerVars, Ran
  <2> QED
    BY <1>1, TaskParts, SelectionAssumption DEF AgreeInv, GrantedChosen
<1> QED
  BY <1>1, <1>2, <1>3, <1>4, <1>5 DEF AgreeInv

(* A step of a server moves a grant from the bus to its run loop and from      *)
(* there to the channel of a task for the same request, unchanged, and a task  *)
(* is granted only by one that names its server.                               *)
LEMMA HandlerAgree ==
  ASSUME IInv, HandlerNext, UNCHANGED clientVars
  PROVE  ChoiceInv' /\ AgreeInv'
<1> USE DEF IInv
<1>0. UNCHANGED <<callPc, choice>>
  BY DEF clientVars, callVars
<1>1. ChoiceInv'
  BY <1>0 DEF ChoiceInv, ChoiceOpen, GrantHasChoice
<1> USE DEF AgreeInv
<1>2. ASSUME UNCHANGED <<grantNet, routing, claimChan>>, NEW t \in Tasks, NEW x,
             task' = [task EXCEPT ![t] = x],
             x \in {"granted", "running", "responded"} /\ NeedsClaim(t[1]) => choice[t[2]] = t[1]
      PROVE  AgreeInv'
  <2>1. GrantedChosen'
    BY <1>0, <1>2 DEF GrantedChosen, Ran, TypeOK, HandlerTypeOK
  <2> QED
    BY <1>0, <1>2, <2>1 DEF GrantsAgree, RoutedAgree, ChansAgree
<1>3. ASSUME UNCHANGED <<grantNet, routing, claimChan, task>> PROVE AgreeInv'
  BY <1>0, <1>3 DEF GrantsAgree, RoutedAgree, ChansAgree, GrantedChosen, Ran
<1>4. ASSUME NEW t \in Tasks, TakeRequest(t) PROVE AgreeInv'
  <2>1. PICK x \in {"ended", "started"} : task' = [task EXCEPT ![t] = x]
    BY <1>4 DEF TakeRequest
  <2> QED
    BY <1>4, <2>1, <1>2 DEF TakeRequest
<1>5. ASSUME NEW g \in grantNet, TakeGrant(g) PROVE AgreeInv'
  <2>1. g \in Grants
    BY DEF TypeOK, NetTypeOK
  <2>2. RoutedAgree'
    BY <1>0, <1>5, <2>1, GrantParts
    DEF TakeGrant, RoutedAgree, GrantsAgree, TypeOK, HandlerTypeOK
  <2> QED
    BY <1>0, <1>5, <2>2 DEF TakeGrant, GrantsAgree, ChansAgree, GrantedChosen, Ran
<1>6. ASSUME NEW s \in Servers, SendGrant(s) PROVE AgreeInv'
  <2>1. PICK m \in routing[s] :
          claimChan' = [claimChan EXCEPT ![<<s, m.grant.req, m.chan>>] = {m.grant}]
    BY <1>6 DEF SendGrant
  <2>2. ChansAgree'
    BY <1>0, <2>1 DEF ChansAgree, RoutedAgree, TypeOK, HandlerTypeOK
  <2>3. RoutedAgree'
    BY <1>0, <1>6 DEF SendGrant, RoutedAgree, TypeOK, HandlerTypeOK
  <2> QED
    BY <1>0, <1>6, <2>2, <2>3 DEF SendGrant, GrantsAgree, GrantedChosen, Ran, netVars
<1>7. ASSUME NEW t \in Tasks, RejectMalformed(t) \/ Decline(t) \/ RegisterClaim(t) \/ Bid(t)
                              \/ BidFails(t) \/ ClaimTimesOut(t) \/ RunUnclaimed(t)
      PROVE  AgreeInv'
  BY <1>7, <1>2
  DEF RejectMalformed, Decline, RegisterClaim, Bid, BidFails, ClaimTimesOut,
      RunUnclaimed, Advance, netVars
<1>8. ASSUME NEW t \in Tasks, Decide(t) PROVE AgreeInv'
  <2>1. PICK g \in claimChan[t] : Advance(t, IF g.server = t[1] THEN "granted" ELSE "lost")
    BY <1>8 DEF Decide
  <2>2. g.server = choice[t[2]]
    BY DEF ChansAgree
  <2>3. GrantedChosen'
    BY <1>0, <2>1, <2>2 DEF Advance, GrantedChosen, Ran, TypeOK, HandlerTypeOK
  <2>4. ChansAgree'
    BY <1>0, <1>8 DEF Decide, ChansAgree, TypeOK, HandlerTypeOK
  <2> QED
    BY <1>0, <1>8, <2>3, <2>4 DEF Decide, GrantsAgree, RoutedAgree, netVars
<1>9. ASSUME NEW t \in Tasks, LeaveClaim(t) \/ Respond(t) PROVE AgreeInv'
  BY <1>9, <1>2 DEF LeaveClaim, Respond, Advance, GrantedChosen, Ran, netVars
<1>10. ASSUME NEW s \in Servers, NEW force \in BOOLEAN,
              Drain(s) \/ LoopReturns(s) \/ CloseStep(s) \/ BeginClose(s, force)
       PROVE  AgreeInv'
  BY <1>10, <1>3
  DEF Drain, LoopReturns, CloseStep, FinishGraceful, FinishForced, BeginClose, netVars
<1>11. AgreeInv'
  BY <1>4, <1>5, <1>6, <1>7, <1>8, <1>9, <1>10 DEF HandlerNext, TaskStep, LoopStep
<1> QED
  BY <1>1, <1>11

(* Only the publication of a request puts it in flight, to one server if the   *)
(* RPC is a queue, and a task starts only on a request in flight to it.        *)
LEMMA QueueStep ==
  ASSUME TypeOK, QueueOnce, Next
  PROVE  QueueOnce'
<1> SUFFICES ASSUME Queue PROVE QueueOnce'
  BY NetAssumption DEF QueueOnce
<1>1. ASSUME \A t \in Tasks : Seen(t)' => Seen(t),
             \A r \in Requests : callPc'[r] \in {"idle", "publish"} =>
                                     callPc[r] \in {"idle", "publish"}
      PROVE  QueueOnce'
  BY <1>1, TaskParts DEF QueueOnce
<1>2. ASSUME NEW r \in Requests, PublishRequest(r), UNCHANGED handlerVars PROVE QueueOnce'
  <2>1. \/ reqNet' = reqNet
        \/ \E s \in Servers : reqNet' = reqNet \cup ({s} \X {r} \X Copies)
    BY <1>2 DEF PublishRequest, PublishRequestTo, Receivers, TypeOK, NetTypeOK
  <2>2. callPc' = [callPc EXCEPT ![r] = "wait"] /\ callPc[r] = "publish" /\ task' = task
    BY <1>2 DEF PublishRequest, Goto, Selects, handlerVars
  <2>3. CASE reqNet' = reqNet
    BY <1>1, <2>2, <2>3 DEF Seen, TypeOK, ClientTypeOK
  <2>4. ASSUME NEW s \in Servers, reqNet' = reqNet \cup ({s} \X {r} \X Copies)
        PROVE  QueueOnce'
    <3>1. \A t \in Tasks : t[2] = r => ~Seen(t)
      BY <2>2 DEF QueueOnce
    <3>2. \A t \in Tasks : Seen(t)' => Seen(t) \/ (t[1] = s /\ t[2] = r)
      BY <2>2, <2>4 DEF Seen
    <3>3. \A q \in Requests : callPc'[q] \in {"idle", "publish"} =>
                q # r /\ callPc[q] \in {"idle", "publish"}
      BY <2>2 DEF TypeOK, ClientTypeOK
    <3> QED
      BY <3>1, <3>2, <3>3, TaskParts DEF QueueOnce
  <2> QED
    BY <2>1, <2>3, <2>4
<1>3. ASSUME NEW r \in Requests, NEW pc, Goto(r, pc),
             pc \notin {"idle", "publish"} \/ callPc[r] = "idle", UNCHANGED <<reqNet, task>>
      PROVE  QueueOnce'
  BY <1>1, <1>3 DEF Goto, Seen, TypeOK, ClientTypeOK
<1>4. ASSUME UNCHANGED <<reqNet, task, callPc>> PROVE QueueOnce'
  BY <1>1, <1>4 DEF Seen
<1>5. CASE ClientNext /\ UNCHANGED handlerVars
  <2> USE DEF netVars, handlerVars
  <2>1. ASSUME NEW r \in Requests, CallRefused(r) \/ Call(r) \/ Return(r) PROVE QueueOnce'
    BY <1>5, <2>1, <1>3 DEF CallRefused, Call, Return
  <2>2. ASSUME NEW r \in Requests, NEW k, NEW s, Finish(r, k, s), UNCHANGED reqNet
        PROVE  QueueOnce'
    BY <1>5, <2>2, <1>3 DEF Finish
  <2>3. ASSUME NEW r \in Requests, NEW s, Choose(r, s), UNCHANGED reqNet PROVE QueueOnce'
    BY <1>5, <2>3, <1>3 DEF Choose
  <2>4. ASSUME NEW r \in Requests,
               PublishFails(r) \/ GrantFails(r) \/ WaitDone(r) \/ ClosedReturns(r)
        PROVE  QueueOnce'
    BY <2>2, <2>4 DEF PublishFails, GrantFails, WaitDone, ClosedReturns
  <2>5. ASSUME NEW r \in Requests, SelectDone(r) PROVE QueueOnce'
    BY <2>2, <2>3, <2>5 DEF SelectDone
  <2>6. ASSUME NEW r \in Requests, SelectClaim(r) \/ WaitBid(r) PROVE QueueOnce'
    BY <1>4, <1>5, <2>3, <2>6 DEF SelectClaim, WaitBid
  <2>7. ASSUME NEW r \in Requests, SelectResponse(r) \/ WaitResponse(r) PROVE QueueOnce'
    BY <1>4, <1>5, <2>2, <2>7 DEF SelectResponse, WaitResponse, Answer
  <2>8. ASSUME NEW r \in Requests, Grant(r) PROVE QueueOnce'
    BY <1>3, <1>5, <2>8 DEF Grant
  <2>9. ASSUME NEW r \in Requests, SelectionTimer(r) PROVE QueueOnce'
    BY <1>4, <1>5, <2>9 DEF SelectionTimer
  <2>10. ASSUME NEW r \in Requests, NEW why \in {"canceled", "timedOut"}, ContextEnds(r, why)
         PROVE  QueueOnce'
    BY <1>4, <1>5, <2>10 DEF ContextEnds
  <2>11. ASSUME NEW b \in bidNet, RouteClaim(b) PROVE QueueOnce'
    BY <1>4, <1>5, <2>11 DEF RouteClaim, callVars
  <2>12. ASSUME NEW m \in resNet, RouteResponse(m) PROVE QueueOnce'
    BY <1>4, <1>5, <2>12 DEF RouteResponse, callVars
  <2>13. CASE SendClaim \/ SendResponse \/ DispatcherReturns \/ CloseClient
    BY <1>4, <1>5, <2>13 DEF SendClaim, SendResponse, DispatcherReturns, CloseClient, callVars
  <2> QED
    BY <1>2, <1>5, <2>1, <2>4, <2>5, <2>6, <2>7, <2>8, <2>9, <2>10, <2>11, <2>12, <2>13
    DEF ClientNext, CallStep, DispatchStep
<1>6. CASE HandlerNext /\ UNCHANGED clientVars
  <2>1. callPc' = callPc
    BY <1>6 DEF clientVars, callVars
  <2>2. ASSUME NEW t \in Tasks, NEW x, task' = [task EXCEPT ![t] = x], Seen(t),
               reqNet' \subseteq reqNet
        PROVE  QueueOnce'
    BY <1>1, <2>1, <2>2 DEF Seen, TypeOK, HandlerTypeOK
  <2>3. ASSUME UNCHANGED task, reqNet' \subseteq reqNet PROVE QueueOnce'
    BY <1>1, <2>1, <2>3 DEF Seen
  <2>4. ASSUME NEW t \in Tasks, TakeRequest(t) PROVE QueueOnce'
    BY <2>2, <2>4 DEF TakeRequest, Seen
  <2>5. ASSUME NEW t \in Tasks, TaskStep(t) PROVE QueueOnce'
    <3>1. task[t] # "none" /\ reqNet' = reqNet /\ \E x : Advance(t, x)
      BY <2>5
      DEF TaskStep, RejectMalformed, RunUnclaimed, Decline, RegisterClaim, Bid, BidFails,
          Decide, ClaimTimesOut, LeaveClaim, Respond, netVars
    <3> QED
      BY <2>2, <3>1 DEF Advance, Seen
  <2>6. ASSUME NEW g \in grantNet, TakeGrant(g) PROVE QueueOnce'
    BY <2>3, <2>6 DEF TakeGrant
  <2>7. ASSUME NEW s \in Servers, LoopStep(s) \/ CloseStep(s) PROVE QueueOnce'
    BY <2>3, <2>7
    DEF LoopStep, CloseStep, Drain, SendGrant, LoopReturns, FinishGraceful,
        FinishForced, netVars
  <2>8. ASSUME NEW s \in Servers, NEW force \in BOOLEAN, BeginClose(s, force) PROVE QueueOnce'
    BY <2>3, <2>8 DEF BeginClose
  <2> QED
    BY <1>6, <2>4, <2>5, <2>6, <2>7, <2>8 DEF HandlerNext
<1>7. ASSUME NEW r \in Requests, Tick(r) PROVE QueueOnce'
  BY <1>4, <1>7 DEF Tick, Expire, clientVars, callVars, handlerVars
<1> QED
  BY <1>5, <1>6, <1>7 DEF Next

(* Every step keeps the inductive invariant.                                   *)
LEMMA NextInv == IInv /\ [Next]_vars => IInv'
<1> SUFFICES ASSUME IInv, [Next]_vars PROVE IInv'
  OBVIOUS
<1>1. CASE ClientNext /\ UNCHANGED handlerVars
  BY <1>1, ClientType, ClientAgree, QueueStep DEF IInv, ChoiceInv, Next
<1>2. CASE HandlerNext /\ UNCHANGED clientVars
  BY <1>2, HandlerType, HandlerAgree, QueueStep DEF IInv, Next
<1>3. ASSUME NEW r \in Requests, Tick(r) PROVE IInv'
  <2>1. TypeOK'
    BY <1>3
    DEF IInv, Tick, Expire, clientVars, handlerVars, callVars, chanVars, dispVars,
        TypeOK, NetTypeOK, ClientTypeOK, HandlerTypeOK
  <2>2. ChoiceInv' /\ AgreeInv'
    BY <1>3
    DEF IInv, Tick, Expire, clientVars, handlerVars, callVars, ChoiceInv, ChoiceOpen,
        GrantHasChoice, AgreeInv, GrantsAgree, RoutedAgree, ChansAgree, GrantedChosen, Ran
  <2>3. QueueOnce'
    BY <1>3, QueueStep DEF IInv, Next
  <2> QED
    BY <2>1, <2>2, <2>3 DEF IInv
<1>4. CASE UNCHANGED vars
  <2>1. TypeOK'
    BY <1>4
    DEF IInv, vars, netVars, clientVars, handlerVars, callVars, chanVars, dispVars,
        TypeOK, NetTypeOK, ClientTypeOK, HandlerTypeOK
  <2>2. ChoiceInv' /\ AgreeInv' /\ QueueOnce'
    BY <1>4
    DEF IInv, vars, netVars, clientVars, handlerVars, callVars, ChoiceInv, ChoiceOpen,
        GrantHasChoice, AgreeInv, GrantsAgree, RoutedAgree, ChansAgree, GrantedChosen,
        Ran, QueueOnce, Seen
  <2> QED
    BY <2>1, <2>2 DEF IInv
<1> QED
  BY <1>1, <1>2, <1>3, <1>4 DEF Next

(* Every reachable state satisfies it.                                         *)
THEOREM Invariance == Spec => []IInv
<1> QED
  BY InitInv, NextInv, PTL DEF Spec

(* The state is always well typed: every message, channel entry and map entry  *)
(* of the client and of the servers is one that the code can put there.        *)
THEOREM TypeCorrect == Spec => []TypeOK
<1>1. IInv => TypeOK
  BY DEF IInv
<1> QED
  BY <1>1, Invariance, PTL

(* A server that needs a claim runs the handler only if the caller chose it.   *)
THEOREM ChosenServerRuns == Spec => []OnlyChosenRuns
<1>1. IInv => OnlyChosenRuns
  BY DEF IInv, AgreeInv, GrantedChosen, OnlyChosenRuns
<1> QED
  BY <1>1, Invariance, PTL

(* A request that needs a claim runs on one server at most, for any number of  *)
(* servers, requests and duplicates, and whether the claim is negotiated or    *)
(* the queue made it.                                                          *)
THEOREM AtMostOneServer == Spec => []SingleServer
<1>1. IInv => SingleServer
  <2> SUFFICES ASSUME IInv, RequireClaim, NEW t \in Tasks, NEW u \in Tasks,
                      Ran(t), Ran(u), t[2] = u[2]
               PROVE  t[1] = u[1]
    BY NetAssumption DEF SingleServer
  <2>1. CASE Queue
    <3>1. Seen(t) /\ Seen(u)
      BY DEF Ran, Seen
    <3> QED
      BY <2>1, <3>1 DEF IInv, QueueOnce
  <2>2. CASE ~Queue
    BY <2>2 DEF IInv, AgreeInv, GrantedChosen, NeedsClaim
  <2> QED
    BY <2>1, <2>2
<1> QED
  BY <1>1, Invariance, PTL

(* A caller grants one server and never another.                               *)
THEOREM OneGrant == Spec => ChoiceIsFinal
<1>1. ASSUME IInv, [Next]_vars
      PROVE  [\A r \in Requests : choice[r] # NoServer => choice'[r] = choice[r]]_vars
  <2>1. CASE ClientNext
    BY <1>1, <2>1, ClientChoice DEF IInv, ChoosesOnce
  <2>2. CASE UNCHANGED clientVars
    BY <2>2 DEF clientVars, callVars
  <2> QED
    BY <1>1, <2>1, <2>2 DEF Next, Tick, vars
<1> QED
  BY <1>1, Invariance, PTL DEF Spec, ChoiceIsFinal

-----------------------------------------------------------------------------
(* Graceful close. The quiet of a closed handler rests on two facts that reach *)
(* back in time: the run loop closed drained when nothing was left in the      *)
(* request channel of an ended subscription, and the close waited for that     *)
(* before it waited for the tasks.                                             *)
DrainedIsEmpty ==
    \A s \in drained : s \notin subscribed /\ \A t \in reqNet : t[1] # s

CompleteIsQuiet ==
    \A s \in Servers : closing[s] = "complete" =>
        s \in drained /\ \A t \in Tasks : t[1] = s => ~InFlight(t)

DrainInv == TypeOK /\ DrainedIsEmpty /\ CompleteIsQuiet

(* A step of the client can only publish a request, to subscribed servers.     *)
LEMMA ClientPublishes ==
  ASSUME ClientNext
  PROVE  UNCHANGED subscribed /\
         \A t \in reqNet' : t \in reqNet \/ t[1] \in subscribed
<1> USE DEF netVars
<1>1. ASSUME NEW r \in Requests, PublishRequest(r)
      PROVE  UNCHANGED subscribed /\ \A t \in reqNet' : t \in reqNet \/ t[1] \in subscribed
  BY <1>1 DEF PublishRequest, PublishRequestTo, Receivers
<1>2. ASSUME NEW r \in Requests,
             CallRefused(r) \/ Call(r) \/ SelectionTimer(r) \/ PublishFails(r) \/
             SelectDone(r) \/ SelectClaim(r) \/ SelectResponse(r) \/ Grant(r) \/
             GrantFails(r) \/ WaitResponse(r) \/ WaitBid(r) \/ WaitDone(r) \/
             ClosedReturns(r) \/ Return(r)
      PROVE  UNCHANGED <<subscribed, reqNet>>
  BY <1>2
  DEF CallRefused, Call, SelectionTimer, PublishFails, SelectDone, SelectClaim,
      SelectResponse, Grant, GrantFails, WaitResponse, WaitBid, WaitDone,
      ClosedReturns, Return
<1>3. ASSUME NEW r \in Requests, NEW why \in {"canceled", "timedOut"}, ContextEnds(r, why)
      PROVE  UNCHANGED <<subscribed, reqNet>>
  BY <1>3 DEF ContextEnds
<1>4. ASSUME NEW b \in bidNet, RouteClaim(b) PROVE UNCHANGED <<subscribed, reqNet>>
  BY <1>4 DEF RouteClaim
<1>5. ASSUME NEW m \in resNet, RouteResponse(m) PROVE UNCHANGED <<subscribed, reqNet>>
  BY <1>5 DEF RouteResponse
<1>6. CASE DispatchStep \/ CloseClient
  BY <1>6 DEF DispatchStep, SendClaim, SendResponse, DispatcherReturns, CloseClient
<1> QED
  BY <1>1, <1>2, <1>3, <1>4, <1>5, <1>6 DEF ClientNext, CallStep

(* A step of a server starts a task only on a request in flight to it, and     *)
(* moves only tasks that are in flight.                                        *)
LEMMA HandlerDrains ==
  ASSUME DrainInv, HandlerNext
  PROVE  DrainedIsEmpty' /\ CompleteIsQuiet'
<1> USE DEF DrainInv, DrainedIsEmpty, CompleteIsQuiet, InFlight, netVars
<1>0. /\ task \in [Tasks -> TaskStates] /\ DOMAIN closing = Servers
      /\ closing = [s \in Servers |-> closing[s]] /\ drained \subseteq Servers
  BY DEF TypeOK, HandlerTypeOK
<1>1. ASSUME NEW t \in Tasks, TakeRequest(t) PROVE DrainedIsEmpty' /\ CompleteIsQuiet'
  BY <1>0, <1>1, TaskParts DEF TakeRequest
<1>2. ASSUME NEW t \in Tasks, TaskStep(t) PROVE DrainedIsEmpty' /\ CompleteIsQuiet'
  <2>1. /\ task[t] \notin {"none", "responded", "ended"}
        /\ UNCHANGED <<subscribed, reqNet, drained, closing>>
        /\ \E x : Advance(t, x)
    BY <1>2
    DEF TaskStep, RejectMalformed, RunUnclaimed, Decline, RegisterClaim, Bid, BidFails,
        Decide, ClaimTimesOut, LeaveClaim, Respond
  <2> QED
    BY <1>0, <2>1, TaskParts DEF Advance
<1>3. ASSUME NEW g \in grantNet, TakeGrant(g) PROVE DrainedIsEmpty' /\ CompleteIsQuiet'
  BY <1>3 DEF TakeGrant
<1>4. ASSUME NEW s \in Servers, Drain(s) PROVE DrainedIsEmpty' /\ CompleteIsQuiet'
  BY <1>4 DEF Drain
<1>5. ASSUME NEW s \in Servers, SendGrant(s) \/ LoopReturns(s)
      PROVE  DrainedIsEmpty' /\ CompleteIsQuiet'
  BY <1>5 DEF SendGrant, LoopReturns
<1>6. ASSUME NEW s \in Servers, FinishGraceful(s) PROVE DrainedIsEmpty' /\ CompleteIsQuiet'
  BY <1>0, <1>6 DEF FinishGraceful, InFlightAt
<1>7. ASSUME NEW s \in Servers, FinishForced(s) PROVE DrainedIsEmpty' /\ CompleteIsQuiet'
  BY <1>0, <1>7 DEF FinishForced
<1>8. ASSUME NEW s \in Servers, NEW force \in BOOLEAN, BeginClose(s, force)
      PROVE  DrainedIsEmpty' /\ CompleteIsQuiet'
  BY <1>0, <1>8 DEF BeginClose
<1> QED
  BY <1>1, <1>2, <1>3, <1>4, <1>5, <1>6, <1>7, <1>8
  DEF HandlerNext, LoopStep, CloseStep

(* Once the graceful close of a handler has returned, no task of it is in      *)
(* flight and none will start, whatever the client and other servers do.       *)
THEOREM GracefulCloseWaits == Spec => []GracefulCloseIsQuiet
<1>1. Init => DrainInv
  BY InitType
  DEF Init, NetInit, HandlerInit, DrainInv, DrainedIsEmpty, CompleteIsQuiet
<1>2. ASSUME DrainInv, TypeOK', [Next]_vars PROVE DrainInv'
  <2>1. CASE ClientNext /\ UNCHANGED handlerVars
    BY <1>2, <2>1, ClientPublishes
    DEF DrainInv, DrainedIsEmpty, CompleteIsQuiet, InFlight, handlerVars
  <2>2. CASE HandlerNext /\ UNCHANGED clientVars
    BY <1>2, <2>2, HandlerDrains DEF DrainInv
  <2>3. CASE UNCHANGED <<subscribed, reqNet, handlerVars>>
    BY <1>2, <2>3 DEF DrainInv, DrainedIsEmpty, CompleteIsQuiet, InFlight, handlerVars
  <2> QED
    BY <1>2, <2>1, <2>2, <2>3 DEF Next, Tick, Expire, vars, netVars
<1>3. DrainInv => GracefulCloseIsQuiet
  BY DEF DrainInv, DrainedIsEmpty, CompleteIsQuiet, GracefulCloseIsQuiet, InFlightAt
<1> QED
  BY <1>1, <1>2, <1>3, TypeCorrect, PTL DEF Spec

-----------------------------------------------------------------------------
(* Results. The result that a caller is given is far from the server it speaks *)
(* of: each place a response passes through has to say whose it is.            *)

(* A request that was published to nobody.                                     *)
Unseen(r) ==
    /\ callPc[r] \notin {"idle", "publish"}
    /\ \A t \in Tasks : t[2] = r => ~Seen(t)

(* A response on its way stands for what its server did: an answer of the      *)
(* handler, or the refusal of a request that does not decode. The one that     *)
(* has no server stands in for a request that was published to nobody.         *)
Backed(m) ==
    \/ m.task[1] = NoServer /\ Unseen(m.task[2])
    \/ /\ m.task \in Tasks
       /\ task[m.task] \in (IF m.isErr THEN {"responded", "ended"} ELSE {"responded"})

ResponsesBacked ==
    /\ \A m \in resNet \cup sendingRes : Backed(m)
    /\ \A r \in Requests : \A m \in resChan[r] : m.task[2] = r /\ Backed(m)

(* A call that is still running has no result.                                 *)
ResultOpen ==
    \A r \in Requests : callPc[r] \notin {"return", "done"} => result[r] = NoResult

(* A task begins when its request is taken, which is published once.           *)
Fresh ==
    \A t \in Tasks :
        /\ t \in reqNet => task[t] = "none"
        /\ callPc[t[2]] \in {"idle", "publish"} => ~Seen(t)

(* What a caller of request r may be told, as a property of one result.        *)
Deserved(r, x) ==
    /\ x.kind \in {"ok", "malformed"} =>
        \E c \in Copies : <<x.server, r, c>> \in Tasks /\ task[<<x.server, r, c>>] = "responded"
    /\ x.kind = "err" =>
        \E c \in Copies : /\ <<x.server, r, c>> \in Tasks
                          /\ task[<<x.server, r, c>>] \in {"responded", "ended"}
    /\ x.kind = "unanswered" => Unseen(r)

AllDeserved == \A r \in Requests : Deserved(r, result[r])

AnswerInv == ResponsesBacked /\ ResultOpen /\ Fresh /\ AllDeserved

(* Initially nothing is in flight and nobody has a result.                     *)
LEMMA InitAnswer == Init => AnswerInv
  BY DEF Init, NetInit, ClientInit, HandlerInit, AnswerInv, ResponsesBacked, ResultOpen,
         Fresh, AllDeserved, Deserved, Seen, NoResult

-----------------------------------------------------------------------------
(* What a step of the client may do to the choices and the results: nothing,   *)
(* make one choice, or give one call its result.                               *)
Chooses ==
    /\ UNCHANGED result
    /\ \E r \in Requests, s \in Servers :
        /\ choice[r] = NoServer
        /\ choice' = [choice EXCEPT ![r] = s]
        /\ callPc[r] \notin {"return", "done"}
        /\ callPc' = [callPc EXCEPT ![r] = "grant"]

Concludes ==
    /\ UNCHANGED choice
    /\ \E r \in Requests, x \in Results :
        /\ result[r] = NoResult
        /\ Deserved(r, x)
        /\ result' = [result EXCEPT ![r] = x]
        /\ \E pc \in {"return", "done"} : callPc' = [callPc EXCEPT ![r] = pc]

Continues ==
    /\ UNCHANGED <<choice, result>>
    /\ \A r \in Requests : callPc[r] \in {"return", "done"} => callPc'[r] \in {"return", "done"}
    /\ \A r \in Requests : callPc'[r] \in {"return", "done"} => callPc[r] \in {"return", "done"}

(* Only a selection chooses, only Finish and a refusal give a result, and an   *)
(* answer is given from the response channel of the same call.                 *)
LEMMA ClientConcludes ==
  ASSUME TypeOK, ChoiceInv, AnswerInv, ClientNext
  PROVE  Chooses \/ Concludes \/ Continues
<1>1. /\ callPc \in [Requests -> CallPcs] /\ choice \in [Requests -> Servers \cup {NoServer}]
      /\ result \in [Requests -> Results] /\ resChan \in [Requests -> SUBSET Responses]
  BY DEF TypeOK, ClientTypeOK, CallPcs
<1>2. ASSUME NEW r \in Requests, callPc[r] \notin {"return", "done"}, NEW k \in ResultKinds,
             NEW s \in Servers \cup {NoServer}, Finish(r, k, s), UNCHANGED choice,
             Deserved(r, [kind |-> k, server |-> s])
      PROVE  Concludes
  BY <1>2 DEF Finish, Goto, Concludes, Results, AnswerInv, ResultOpen
<1>3. ASSUME NEW r \in Requests, callPc[r] \notin {"return", "done"}, NEW k \in ResultKinds,
             k \notin {"ok", "malformed", "err", "unanswered"},
             Finish(r, k, NoServer), UNCHANGED choice
      PROVE  Concludes
  BY <1>3, <1>2 DEF Deserved
<1>4. ASSUME NEW r \in Requests, choice[r] = NoServer, NEW s \in Servers, Choose(r, s),
             callPc[r] \notin {"return", "done"}, UNCHANGED result
      PROVE  Chooses
  BY <1>4 DEF Choose, Goto, Chooses
<1>5. ASSUME NEW r \in Requests, CallRefused(r) PROVE Concludes
  <2> DEFINE k == IF closed THEN "closed" ELSE "invalid"
             x == [kind |-> k, server |-> NoServer]
  <2>1. x \in Results /\ Deserved(r, x)
    BY DEF Results, ResultKinds, Deserved
  <2>2. /\ UNCHANGED choice /\ result[r] = NoResult
        /\ result' = [result EXCEPT ![r] = x] /\ callPc' = [callPc EXCEPT ![r] = "done"]
    BY <1>5 DEF CallRefused, Goto, AnswerInv, ResultOpen
  <2> HIDE DEF x
  <2> QED
    BY <2>1, <2>2 DEF Concludes
<1>6. ASSUME NEW r \in Requests, Call(r) \/ PublishRequest(r) \/ Grant(r) \/ Return(r)
      PROVE  Continues
  BY <1>1, <1>6 DEF Call, PublishRequest, Grant, Return, Goto, Continues, CallPcs
<1>7. ASSUME NEW r \in Requests, PublishFails(r) \/ GrantFails(r) \/ ClosedReturns(r)
      PROVE  Concludes
  BY <1>7, <1>3 DEF PublishFails, GrantFails, ClosedReturns, ResultKinds
<1>8. ASSUME NEW r \in Requests, WaitDone(r) PROVE Concludes
  <2>1. ctx[r] \in {"canceled", "timedOut"}
    BY <1>8 DEF WaitDone, TypeOK, ClientTypeOK
  <2> QED
    BY <1>8, <2>1, <1>3 DEF WaitDone, ResultKinds
<1>9. ASSUME NEW r \in Requests, SelectDone(r) PROVE Chooses \/ Concludes
  <2>1. sel[r] \in SelState /\ opts[r] \in SelectionOpts /\ choice[r] = NoServer
    BY <1>9, ClientAssumption
    DEF TypeOK, ClientTypeOK, SelectDone, ChoiceInv, ChoiceOpen
  <2>2. PICK d \in OnDone(sel[r], opts[r]) :
          \/ d.kind = "grant" /\ Choose(r, d.server) /\ UNCHANGED result
          \/ d.kind # "grant" /\ Finish(r, d.kind, NoServer) /\ UNCHANGED choice
    BY <1>9 DEF SelectDone
  <2>3. \/ d.kind = "grant" /\ d.server \in Servers
        \/ d.kind \in SelFailures /\ d.kind # "grant"
    BY <2>1, OnDoneType
  <2>4. CASE d.kind = "grant"
    BY <2>1, <2>2, <2>3, <2>4, <1>4, <1>9 DEF SelectDone
  <2>5. CASE d.kind # "grant"
    <3>1. /\ d.kind \in ResultKinds
          /\ d.kind \notin {"ok", "malformed", "err", "unanswered"}
      BY <2>3, <2>5 DEF SelFailures, ResultKinds
    <3>2. callPc[r] = "select"
      BY <1>9 DEF SelectDone
    <3> QED
      BY <2>2, <2>5, <3>1, <3>2, <1>3
  <2> QED
    BY <2>4, <2>5
<1>10. ASSUME NEW r \in Requests, SelectClaim(r) PROVE Chooses \/ Continues
  <2>1. bidChan[r] \in Seq(Bids) /\ bidChan[r] # <<>> /\ choice[r] = NoServer
    BY <1>10 DEF TypeOK, ClientTypeOK, SelectClaim, ChoiceInv, ChoiceOpen
  <2>2. Head(bidChan[r]) \in Bids
    BY <2>1
  <2>3. ClaimOf(Head(bidChan[r])).server \in Servers
    BY <2>2, BidParts DEF Claim
  <2>4. UNCHANGED result
    BY <1>10 DEF SelectClaim
  <2>5. CASE Choose(r, ClaimOf(Head(bidChan[r])).server)
    BY <2>1, <2>3, <2>4, <2>5, <1>4, <1>10 DEF SelectClaim
  <2>6. CASE UNCHANGED <<callPc, choice>>
    BY <2>4, <2>6 DEF Continues
  <2> QED
    BY <1>10, <2>5, <2>6 DEF SelectClaim
<1>11. ASSUME NEW r \in Requests, NEW m \in resChan[r], Answer(r, m), UNCHANGED choice,
              callPc[r] \notin {"return", "done"}
       PROVE  Concludes
  <2>1. /\ m \in Responses /\ m.task[1] \in Servers \cup {NoServer}
        /\ m.task[2] = r /\ Backed(m)
    BY <1>1, ResponseParts DEF AnswerInv, ResponsesBacked
  <2>2. CASE m.task[1] = NoServer
    <3>1. Deserved(r, [kind |-> "unanswered", server |-> NoServer])
      BY <2>1, <2>2, TaskParts, SelectionAssumption DEF Deserved, Backed
    <3> QED
      BY <1>11, <2>2, <3>1, <1>2 DEF Answer, Meanings, ResultKinds
  <2>3. CASE m.task[1] # NoServer
    <3>1. m.task = <<m.task[1], r, m.task[3]>> /\ m.task[3] \in Copies
      BY <2>1, <2>3, TaskParts DEF Backed
    <3>2. PICK k \in IF m.isErr THEN {"err"} ELSE {"ok", "malformed"} :
            Finish(r, k, m.task[1])
      BY <1>11, <2>3 DEF Answer, Meanings
    <3>3. Deserved(r, [kind |-> k, server |-> m.task[1]])
      BY <2>1, <2>3, <3>1 DEF Deserved, Backed
    <3>4. k \in ResultKinds
      BY DEF ResultKinds
    <3> QED
      BY <1>11, <1>2, <2>1, <3>2, <3>3, <3>4
  <2> QED
    BY <2>2, <2>3
<1>12. ASSUME NEW r \in Requests, SelectResponse(r) PROVE Concludes \/ Continues
  <2>1. PICK m \in resChan[r] : UNCHANGED <<callPc, result>> \/ Answer(r, m)
    BY <1>12 DEF SelectResponse
  <2>2. UNCHANGED choice /\ callPc[r] = "select"
    BY <1>12 DEF SelectResponse
  <2> QED
    BY <2>1, <2>2, <1>11 DEF Continues
<1>13. ASSUME NEW r \in Requests, WaitResponse(r) PROVE Concludes
  BY <1>13, <1>11 DEF WaitResponse
<1>14. ASSUME NEW r \in Requests, WaitBid(r) PROVE Chooses
  <2>1. bidChan[r] \in Seq(Bids) /\ bidChan[r] # <<>>
    BY <1>14 DEF TypeOK, ClientTypeOK, WaitBid
  <2>2. Head(bidChan[r]) \in Bids
    BY <2>1
  <2>3. Head(bidChan[r]).task[1] \in Servers
    BY <2>2, BidParts
  <2> QED
    BY <1>14, <2>3, <1>4 DEF WaitBid
<1>15. ASSUME NEW r \in Requests, SelectionTimer(r) PROVE Continues
  BY <1>15 DEF SelectionTimer, Continues
<1>16. ASSUME NEW r \in Requests, NEW why \in {"canceled", "timedOut"}, ContextEnds(r, why)
       PROVE  Continues
  BY <1>16 DEF ContextEnds, Continues
<1>17. ASSUME UNCHANGED callVars PROVE Continues
  BY <1>17 DEF callVars, Continues
<1>18. ASSUME NEW b \in bidNet, RouteClaim(b) PROVE Continues
  BY <1>17, <1>18 DEF RouteClaim
<1>19. ASSUME NEW m \in resNet, RouteResponse(m) PROVE Continues
  BY <1>17, <1>19 DEF RouteResponse
<1>20. CASE DispatchStep \/ CloseClient
  BY <1>17, <1>20 DEF DispatchStep, SendClaim, SendResponse, DispatcherReturns, CloseClient
<1> QED
  BY <1>5, <1>6, <1>7, <1>8, <1>9, <1>10, <1>12, <1>13, <1>14, <1>15, <1>16, <1>18, <1>19,
     <1>20
  DEF ClientNext, CallStep

(* What a step of the client may do to the requests and the responses that are *)
(* in flight: publish a request, and pass responses on to the call they are    *)
(* for. A response that it adds is the one for a request published to nobody.  *)
PublishesOnce ==
    \/ /\ UNCHANGED reqNet
       /\ \A r \in Requests : callPc'[r] \in {"idle", "publish"} =>
                                 callPc[r] \in {"idle", "publish"}
    \/ \E r \in Requests :
        /\ callPc[r] = "publish"
        /\ callPc'[r] \notin {"idle", "publish"}
        /\ \A q \in Requests : q # r => callPc'[q] = callPc[q]
        /\ \A t \in reqNet' : t \in reqNet \/ t[2] = r

PassesOn ==
    /\ \A m \in resNet' \cup sendingRes' :
        m \in resNet \cup sendingRes \/ (m.task[1] = NoServer /\ Unseen(m.task[2])')
    /\ \A r \in Requests : \A m \in resChan'[r] :
        m \in resChan[r] \/ (m \in sendingRes /\ m.task[2] = r)

(* Only PublishRequest puts a request in flight.                               *)
LEMMA ClientPublishesOnce ==
  ASSUME TypeOK, ClientNext
  PROVE  PublishesOnce
<1> USE DEF netVars
<1>1. callPc \in [Requests -> CallPcs]
  BY DEF TypeOK, ClientTypeOK, CallPcs
<1>2. ASSUME NEW r \in Requests, PublishRequest(r) PROVE PublishesOnce
  BY <1>1, <1>2
  DEF PublishRequest, PublishRequestTo, Receivers, Goto, PublishesOnce
<1>3. ASSUME NEW r \in Requests, NEW pc, Goto(r, pc), UNCHANGED reqNet,
             pc \notin {"idle", "publish"} \/ callPc[r] = "idle"
      PROVE  PublishesOnce
  BY <1>1, <1>3 DEF Goto, PublishesOnce
<1>4. ASSUME UNCHANGED <<callPc, reqNet>> PROVE PublishesOnce
  BY <1>4 DEF PublishesOnce
<1>5. ASSUME NEW r \in Requests, CallRefused(r) \/ Call(r) \/ Return(r) \/ Grant(r)
      PROVE  PublishesOnce
  BY <1>3, <1>5 DEF CallRefused, Call, Return, Grant
<1>6. ASSUME NEW r \in Requests, NEW k, NEW s, Finish(r, k, s), UNCHANGED reqNet
      PROVE  PublishesOnce
  BY <1>3, <1>6 DEF Finish
<1>7. ASSUME NEW r \in Requests, NEW s, Choose(r, s), UNCHANGED reqNet PROVE PublishesOnce
  BY <1>3, <1>7 DEF Choose
<1>8. ASSUME NEW r \in Requests,
             PublishFails(r) \/ GrantFails(r) \/ WaitDone(r) \/ ClosedReturns(r)
      PROVE  PublishesOnce
  BY <1>6, <1>8 DEF PublishFails, GrantFails, WaitDone, ClosedReturns
<1>9. ASSUME NEW r \in Requests, SelectDone(r) PROVE PublishesOnce
  BY <1>6, <1>7, <1>9 DEF SelectDone
<1>10. ASSUME NEW r \in Requests, SelectClaim(r) \/ WaitBid(r) PROVE PublishesOnce
  BY <1>4, <1>7, <1>10 DEF SelectClaim, WaitBid
<1>11. ASSUME NEW r \in Requests, SelectResponse(r) \/ WaitResponse(r) PROVE PublishesOnce
  BY <1>4, <1>6, <1>11 DEF SelectResponse, WaitResponse, Answer
<1>12. ASSUME NEW r \in Requests, SelectionTimer(r) PROVE PublishesOnce
  BY <1>4, <1>12 DEF SelectionTimer
<1>13. ASSUME NEW r \in Requests, NEW why \in {"canceled", "timedOut"}, ContextEnds(r, why)
       PROVE  PublishesOnce
  BY <1>4, <1>13 DEF ContextEnds
<1>14. ASSUME NEW b \in bidNet, RouteClaim(b) PROVE PublishesOnce
  BY <1>4, <1>14 DEF RouteClaim, callVars
<1>15. ASSUME NEW m \in resNet, RouteResponse(m) PROVE PublishesOnce
  BY <1>4, <1>15 DEF RouteResponse, callVars
<1>16. CASE DispatchStep \/ CloseClient
  BY <1>4, <1>16
  DEF DispatchStep, SendClaim, SendResponse, DispatcherReturns, CloseClient, callVars
<1> QED
  BY <1>2, <1>5, <1>8, <1>9, <1>10, <1>11, <1>12, <1>13, <1>14, <1>15, <1>16
  DEF ClientNext, CallStep

(* The dispatcher takes a response off the bus and sends it to the channel of  *)
(* its request, and a call takes it from there.                                *)
LEMMA ClientPassesOn ==
  ASSUME TypeOK, Fresh, ClientNext, UNCHANGED handlerVars
  PROVE  PassesOn
<1> USE DEF netVars, chanVars, dispVars
<1>1. resChan \in [Requests -> SUBSET Responses]
  BY DEF TypeOK, ClientTypeOK
<1>2. ASSUME UNCHANGED <<resNet, sendingRes, resChan>> PROVE PassesOn
  BY <1>2 DEF PassesOn
<1>3. ASSUME NEW r \in Requests, PublishRequest(r) PROVE PassesOn
  <2>0. ASSUME NEW m \in Unanswered(r) PROVE m.task[1] = NoServer /\ m.task[2] = r
    <3>1. m.task \in {NoServer} \X {r} \X Copies
      BY DEF Unanswered
    <3> QED
      BY <3>1
  <2>1. resNet' # resNet => Unseen(r)'
    <3>1. callPc'[r] \notin {"idle", "publish"} /\ \A t \in Tasks : t[2] = r => ~Seen(t)
      BY <1>3 DEF PublishRequest, Goto, Fresh, TypeOK, ClientTypeOK
    <3>2. resNet' # resNet => UNCHANGED <<reqNet, task>>
      BY <1>3 DEF PublishRequest, PublishRequestTo, handlerVars
    <3> QED
      BY <3>1, <3>2 DEF Unseen, Seen
  <2>2. \A m \in resNet' : m \in resNet \/ (m.task[1] = NoServer /\ m.task[2] = r)
    BY <1>3, <2>0 DEF PublishRequest, PublishRequestTo
  <2> QED
    BY <1>3, <2>1, <2>2 DEF PublishRequest, PassesOn
<1>4. ASSUME NEW r \in Requests,
             CallRefused(r) \/ Call(r) \/ SelectionTimer(r) \/ PublishFails(r) \/
             SelectDone(r) \/ SelectClaim(r) \/ Grant(r) \/ GrantFails(r) \/
             WaitBid(r) \/ WaitDone(r) \/ ClosedReturns(r) \/ Return(r)
      PROVE  PassesOn
  BY <1>2, <1>4
  DEF CallRefused, Call, SelectionTimer, PublishFails, SelectDone, SelectClaim,
      Grant, GrantFails, WaitBid, WaitDone, ClosedReturns, Return
<1>5. ASSUME NEW r \in Requests, SelectResponse(r) \/ WaitResponse(r) PROVE PassesOn
  BY <1>1, <1>5 DEF SelectResponse, WaitResponse, PassesOn
<1>6. ASSUME NEW r \in Requests, NEW why \in {"canceled", "timedOut"}, ContextEnds(r, why)
      PROVE  PassesOn
  BY <1>2, <1>6 DEF ContextEnds
<1>7. ASSUME NEW b \in bidNet, RouteClaim(b) PROVE PassesOn
  BY <1>2, <1>7 DEF RouteClaim
<1>8. ASSUME NEW m \in resNet, RouteResponse(m) PROVE PassesOn
  BY <1>8 DEF RouteResponse, PassesOn
<1>9. CASE SendResponse
  BY <1>1, <1>9 DEF SendResponse, PassesOn
<1>10. CASE SendClaim \/ DispatcherReturns \/ CloseClient
  BY <1>2, <1>10 DEF SendClaim, DispatcherReturns, CloseClient
<1> QED
  BY <1>3, <1>4, <1>5, <1>6, <1>7, <1>8, <1>9, <1>10
  DEF ClientNext, CallStep, DispatchStep

(* A step of the client keeps what the responses and the results stand for.    *)
LEMMA ClientAnswer ==
  ASSUME TypeOK, ChoiceInv, AnswerInv, ClientNext, UNCHANGED handlerVars
  PROVE  AnswerInv'
<1>1. task' = task
  BY DEF handlerVars
<1>0. ASSUME NEW r \in Requests, Unseen(r) PROVE Unseen(r)'
  BY <1>0, <1>1, ClientPublishesOnce DEF PublishesOnce, Unseen, Seen
<1>2. ResponsesBacked'
  <2>1. ASSUME NEW m \in Responses, Backed(m) PROVE Backed(m)'
    BY <1>0, <1>1, <2>1, ResponseParts DEF Backed
  <2>2. /\ resNet \cup sendingRes \subseteq Responses
        /\ \A r \in Requests : resChan[r] \subseteq Responses
    BY DEF TypeOK, NetTypeOK, ClientTypeOK
  <2>3. \A m \in resNet' \cup sendingRes' : Backed(m)'
    BY <2>1, <2>2, ClientPassesOn DEF PassesOn, AnswerInv, ResponsesBacked, Backed
  <2>4. \A r \in Requests : \A m \in resChan'[r] : m.task[2] = r /\ Backed(m)'
    BY <2>1, <2>2, ClientPassesOn DEF PassesOn, AnswerInv, ResponsesBacked
  <2> QED
    BY <2>3, <2>4 DEF ResponsesBacked
<1>3. Fresh'
  BY <1>1, ClientPublishesOnce, TaskParts DEF PublishesOnce, AnswerInv, Fresh, Seen
<1>4. ResultOpen' /\ AllDeserved'
  <2>0. callPc \in [Requests -> CallPcs] /\ result \in [Requests -> Results]
    BY DEF TypeOK, ClientTypeOK, CallPcs
  <2> USE DEF AnswerInv, ResultOpen, AllDeserved
  <2>4. ASSUME NEW r \in Requests, NEW x, Deserved(r, x) PROVE Deserved(r, x)'
    BY <1>0, <1>1, <2>4 DEF Deserved
  <2>1. CASE Chooses
    BY <2>0, <2>1, <2>4 DEF Chooses
  <2>2. CASE Continues
    BY <2>0, <2>2, <2>4 DEF Continues
  <2>3. CASE Concludes
    <3>1. PICK r \in Requests, x \in Results, pc \in {"return", "done"} :
            /\ Deserved(r, x)
            /\ result' = [result EXCEPT ![r] = x]
            /\ callPc' = [callPc EXCEPT ![r] = pc]
      BY <2>3 DEF Concludes
    <3>2. ResultOpen'
      BY <2>0, <3>1
    <3>3. ASSUME NEW q \in Requests PROVE Deserved(q, result[q])'
      BY <2>0, <2>4, <3>1
    <3> QED
      BY <3>2, <3>3
  <2> QED
    BY <2>1, <2>2, <2>3, ClientConcludes
<1> QED
  BY <1>2, <1>3, <1>4 DEF AnswerInv

-----------------------------------------------------------------------------
(* What a step of a server may do: a task that has responded or ended stays as *)
(* it is, because a task takes its request once, and a response that is        *)
(* published is that of its task.                                              *)
LEMMA HandlerAnswer ==
  ASSUME TypeOK, AnswerInv, HandlerNext, UNCHANGED clientVars
  PROVE  AnswerInv'
<1> USE DEF netVars
<1>0. /\ task \in [Tasks -> TaskStates]
      /\ UNCHANGED <<callPc, result, resChan, sendingRes>>
  BY DEF TypeOK, HandlerTypeOK, clientVars, callVars, chanVars, dispVars
<1>1. ASSUME \A t \in Tasks : task[t] \in {"responded", "ended"} => task'[t] = task[t],
             \A m \in resNet' : m \in resNet \/ Backed(m)',
             reqNet' \subseteq reqNet,
             \A t \in Tasks : t \in reqNet' => task'[t] = "none",
             \A t \in Tasks : Seen(t)' => Seen(t)
      PROVE  AnswerInv'
  <2>0. \A r : Unseen(r) => Unseen(r)'
    BY <1>0, <1>1 DEF Unseen
  <2>1. \A m : Backed(m) => Backed(m)'
    BY <1>1, <2>0 DEF Backed
  <2>2. ResponsesBacked'
    BY <1>0, <1>1, <2>1 DEF AnswerInv, ResponsesBacked
  <2>3. ResultOpen' /\ Fresh'
    BY <1>0, <1>1 DEF AnswerInv, ResultOpen, Fresh
  <2>4. ASSUME NEW r \in Requests PROVE Deserved(r, result[r])'
    BY <1>0, <1>1, <2>0 DEF AnswerInv, AllDeserved, Deserved
  <2> QED
    BY <2>2, <2>3, <2>4 DEF AnswerInv, AllDeserved
<1>2. ASSUME NEW t \in Tasks, TakeRequest(t) PROVE AnswerInv'
  <2>1. task[t] = "none" /\ Seen(t)
    BY <1>2 DEF TakeRequest, AnswerInv, Fresh, Seen
  <2> QED
    BY <1>0, <1>1, <1>2, <2>1 DEF TakeRequest, AnswerInv, Fresh, Seen
<1>3. ASSUME NEW t \in Tasks, TaskStep(t) PROVE AnswerInv'
  <2>1. /\ task[t] \notin {"none", "responded", "ended"}
        /\ UNCHANGED reqNet
        /\ \E x : Advance(t, x)
    BY <1>3
    DEF TaskStep, RejectMalformed, RunUnclaimed, Decline, RegisterClaim, Bid, BidFails,
        Decide, ClaimTimesOut, LeaveClaim, Respond
  <2>2. ASSUME NEW isErr \in BOOLEAN, PublishResponse(t, isErr), NEW m \in resNet'
        PROVE  m \in resNet \/ (m.task = t /\ m.isErr = isErr)
    BY <2>2 DEF PublishResponse
  <2>3. \A m \in resNet' : m \in resNet \/ Backed(m)'
    <3>1. CASE Respond(t)
      BY <1>0, <2>2, <3>1 DEF Respond, Advance, Backed
    <3>2. CASE RejectMalformed(t)
      BY <1>0, <2>2, <3>2 DEF RejectMalformed, Advance, Backed
    <3>3. CASE ~Respond(t) /\ ~RejectMalformed(t)
      BY <1>3, <3>3
      DEF TaskStep, RunUnclaimed, Decline, RegisterClaim, Bid, BidFails, Decide,
          ClaimTimesOut, LeaveClaim
    <3> QED
      BY <3>1, <3>2, <3>3
  <2>4. \A u \in Tasks : u # t => task'[u] = task[u]
    BY <1>0, <2>1 DEF Advance
  <2>5. t \notin reqNet
    BY <2>1 DEF AnswerInv, Fresh
  <2> QED
    BY <1>1, <2>1, <2>3, <2>4, <2>5 DEF AnswerInv, Fresh, Seen
<1>4. ASSUME UNCHANGED <<task, resNet>>, reqNet' \subseteq reqNet PROVE AnswerInv'
  BY <1>1, <1>4 DEF AnswerInv, Fresh, Seen
<1>5. ASSUME NEW g \in grantNet, TakeGrant(g) PROVE AnswerInv'
  BY <1>4, <1>5 DEF TakeGrant
<1>6. ASSUME NEW s \in Servers, LoopStep(s) \/ CloseStep(s) PROVE AnswerInv'
  BY <1>4, <1>6
  DEF LoopStep, CloseStep, Drain, SendGrant, LoopReturns, FinishGraceful, FinishForced
<1>7. ASSUME NEW s \in Servers, NEW force \in BOOLEAN, BeginClose(s, force) PROVE AnswerInv'
  BY <1>4, <1>7 DEF BeginClose
<1> QED
  BY <1>2, <1>3, <1>5, <1>6, <1>7 DEF HandlerNext

(* Every reachable state satisfies the invariant.                              *)
THEOREM AnswerInvariance == Spec => []AnswerInv
<1>1. ASSUME IInv, AnswerInv, [Next]_vars PROVE AnswerInv'
  <2>1. CASE ClientNext /\ UNCHANGED handlerVars
    BY <1>1, <2>1, ClientAnswer DEF IInv
  <2>2. CASE HandlerNext /\ UNCHANGED clientVars
    BY <1>1, <2>2, HandlerAnswer DEF IInv
  <2>3. CASE UNCHANGED <<reqNet, resNet, clientVars, handlerVars>>
    <3>1. UNCHANGED <<reqNet, resNet, callPc, result, resChan, sendingRes, task>>
      BY <2>3 DEF clientVars, callVars, chanVars, dispVars, handlerVars
    <3>2. \A r : Unseen(r) => Unseen(r)'
      BY <3>1 DEF Unseen, Seen
    <3>3. \A m : Backed(m) => Backed(m)'
      BY <3>1, <3>2 DEF Backed
    <3>4. ResponsesBacked'
      BY <1>1, <3>1, <3>3 DEF AnswerInv, ResponsesBacked
    <3>5. ResultOpen' /\ Fresh'
      BY <1>1, <3>1 DEF AnswerInv, ResultOpen, Fresh, Seen
    <3>6. AllDeserved'
      BY <1>1, <3>1, <3>2 DEF AnswerInv, AllDeserved, Deserved
    <3> QED
      BY <3>4, <3>5, <3>6 DEF AnswerInv
  <2> QED
    BY <1>1, <2>1, <2>2, <2>3 DEF Next, Tick, Expire, vars, netVars
<1> QED
  BY <1>1, InitAnswer, Invariance, PTL DEF Spec

(* What a caller is told is true of the servers: a success is that of a server *)
(* that ran the handler to the end for this request, an error response that of *)
(* a server that took it, and a request reported as received by nobody is      *)
(* taken by none, for any number of servers, requests and duplicates.          *)
THEOREM AnswersAreReal == Spec => []ResultIsTheServers
<1>1. AnswerInv => ResultIsTheServers
  BY DEF AnswerInv, AllDeserved, Deserved, Unseen, Seen, ResultIsTheServers
<1> QED
  BY <1>1, AnswerInvariance, PTL

-----------------------------------------------------------------------------
(* Refinement, of an RPC whose claims are negotiated.                          *)

(* A step of the client assigns a request, gives an answer, or is a stutter.   *)
LEMMA ClientAssigns ==
  ASSUME IInv, AnswerInv, ClientNext, UNCHANGED handlerVars
  PROVE  [A!Next]_A!vars
<1>0. /\ choice \in [Requests -> Servers \cup {NoServer}]
      /\ result \in [Requests -> Results]
  BY DEF IInv, TypeOK, ClientTypeOK
<1>1. UNCHANGED RanAt
  BY DEF RanAt, Ran, handlerVars
<1>2. CASE Chooses
  <2>1. UNCHANGED Succeeded
    BY <1>2 DEF Chooses, Succeeded
  <2> QED
    BY <1>1, <1>2, <2>1 DEF Chooses, A!Next, A!Assign
<1>3. CASE Continues
  BY <1>1, <1>3 DEF Continues, Succeeded, A!vars
<1>4. CASE Concludes
  <2>1. PICK r \in Requests, x \in Results :
          /\ result[r] = NoResult
          /\ Deserved(r, x)
          /\ result' = [result EXCEPT ![r] = x]
    BY <1>4 DEF Concludes
  <2>2. UNCHANGED choice
    BY <1>4 DEF Concludes
  <2>3. Succeeded[r] = NoServer
    BY <2>1 DEF Succeeded, NoResult
  <2>4. Succeeded' = [Succeeded EXCEPT ![r] = IF x.kind = "ok" THEN x.server ELSE NoServer]
    BY <1>0, <2>1 DEF Succeeded
  <2>5. CASE x.kind # "ok"
    <3>1. Succeeded' = Succeeded
      BY <2>3, <2>4, <2>5 DEF Succeeded
    <3> QED
      BY <1>1, <2>2, <3>1 DEF A!vars
  <2>6. CASE x.kind = "ok"
    <3>1. PICK c \in Copies : /\ <<x.server, r, c>> \in Tasks
                              /\ task[<<x.server, r, c>>] = "responded"
      BY <2>1, <2>6 DEF Deserved
    <3>2. x.server \in Servers /\ <<x.server, r>> \in RanAt
      BY <3>1, TaskParts DEF RanAt, Ran
    <3>3. Succeeded' = [Succeeded EXCEPT ![r] = x.server]
      BY <2>4, <2>6
    <3>4. A!Answer(r, x.server)
      BY <1>1, <2>2, <2>3, <3>2, <3>3 DEF A!Answer
    <3> QED
      BY <3>2, <3>4 DEF A!Next
  <2> QED
    BY <2>5, <2>6
<1> QED
  BY <1>2, <1>3, <1>4, ClientConcludes DEF IInv

(* A step of a server starts the handler of a request that is assigned to it,  *)
(* or is a stutter: every server of the RPC needs the claim.                   *)
LEMMA HandlerStarts ==
  ASSUME IInv, AnswerInv, RequireClaim, ~Queue, HandlerNext, UNCHANGED clientVars
  PROVE  [A!Next]_A!vars
<1>0. /\ task \in [Tasks -> TaskStates]
      /\ UNCHANGED <<choice, Succeeded>>
  BY DEF IInv, TypeOK, HandlerTypeOK, clientVars, callVars, Succeeded
<1>1. ASSUME NEW t \in Tasks, NEW x, task' = [task EXCEPT ![t] = x],
             x \in {"running", "responded"} <=> Ran(t)
      PROVE  UNCHANGED RanAt
  <2>1. \A u \in Tasks : Ran(u)' <=> Ran(u)
    BY <1>0, <1>1 DEF Ran
  <2> QED
    BY <2>1 DEF RanAt
<1>2. ASSUME NEW t \in Tasks, TaskStep(t) \/ TakeRequest(t), ~LeaveClaim(t)
      PROVE  UNCHANGED RanAt
  <2>1. CASE TakeRequest(t)
    <3>1. task[t] = "none"
      BY <2>1 DEF TakeRequest, AnswerInv, Fresh
    <3>2. PICK x \in {"ended", "started"} : task' = [task EXCEPT ![t] = x]
      BY <2>1 DEF TakeRequest
    <3> QED
      BY <1>1, <3>1, <3>2 DEF Ran
  <2>2. CASE TaskStep(t)
    <3>1. ~RunUnclaimed(t)
      BY DEF RunUnclaimed, NeedsClaim
    <3>2. CASE Decide(t)
      <4>1. PICK x \in {"granted", "lost"} : task' = [task EXCEPT ![t] = x]
        BY <3>2 DEF Decide, Advance
      <4> QED
        BY <1>1, <3>2, <4>1 DEF Decide, Ran
    <3>3. CASE ~Decide(t)
      BY <1>1, <1>2, <2>2, <3>1, <3>3
      DEF TaskStep, RejectMalformed, Decline, RegisterClaim, Bid, BidFails, ClaimTimesOut,
          Respond, Advance, Ran
    <3> QED
      BY <3>2, <3>3
  <2> QED
    BY <1>2, <2>1, <2>2
<1>3. ASSUME NEW t \in Tasks, LeaveClaim(t), task[t] = "granted" PROVE A!Next
  <2>1. choice[t[2]] = t[1]
    BY <1>3 DEF IInv, AgreeInv, GrantedChosen, NeedsClaim
  <2>2. task' = [task EXCEPT ![t] = "running"]
    BY <1>3 DEF LeaveClaim, Advance
  <2>3. \A u \in Tasks : Ran(u)' <=> Ran(u) \/ u = t
    BY <1>0, <2>2 DEF Ran
  <2>4. RanAt' = RanAt \cup {<<t[1], t[2]>>}
    BY <2>3 DEF RanAt
  <2> QED
    BY <1>0, <2>1, <2>4, TaskParts DEF A!Next, A!Start
<1>4. ASSUME NEW t \in Tasks, LeaveClaim(t), task[t] # "granted" PROVE UNCHANGED RanAt
  BY <1>1, <1>4 DEF LeaveClaim, Advance, Ran
<1>5. ASSUME UNCHANGED task PROVE UNCHANGED RanAt
  BY <1>5 DEF RanAt, Ran
<1>6. ASSUME NEW g \in grantNet, TakeGrant(g) PROVE UNCHANGED RanAt
  BY <1>5, <1>6 DEF TakeGrant
<1>7. ASSUME NEW s \in Servers, LoopStep(s) \/ CloseStep(s) PROVE UNCHANGED RanAt
  BY <1>5, <1>7
  DEF LoopStep, CloseStep, Drain, SendGrant, LoopReturns, FinishGraceful, FinishForced
<1>8. ASSUME NEW s \in Servers, NEW force \in BOOLEAN, BeginClose(s, force)
      PROVE  UNCHANGED RanAt
  BY <1>5, <1>8 DEF BeginClose
<1>9. A!Next \/ UNCHANGED RanAt
  BY <1>2, <1>3, <1>4, <1>6, <1>7, <1>8 DEF HandlerNext
<1> QED
  BY <1>0, <1>9 DEF A!vars

(* An RPC whose claims are negotiated assigns every request to one server at   *)
(* most and for good, runs it nowhere else, and gives its caller no success    *)
(* but one of a server that ran it, for any number of servers, requests and    *)
(* duplicates.                                                                 *)
THEOREM ClaimsAssign ==
  ASSUME RequireClaim, ~Queue
  PROVE  Spec => ImplementsAssignment
<1>1. Init => A!Init
  BY DEF Init, ClientInit, HandlerInit, A!Init, RanAt, Ran, Succeeded, NoResult
<1>2. ASSUME IInv, AnswerInv, [Next]_vars PROVE [A!Next]_A!vars
  <2>1. CASE ClientNext /\ UNCHANGED handlerVars
    BY <1>2, <2>1, ClientAssigns
  <2>2. CASE HandlerNext /\ UNCHANGED clientVars
    BY <1>2, <2>2, HandlerStarts
  <2>3. CASE UNCHANGED <<clientVars, handlerVars>>
    BY <2>3 DEF clientVars, callVars, handlerVars, A!vars, RanAt, Ran, Succeeded
  <2> QED
    BY <1>2, <2>1, <2>2, <2>3 DEF Next, Tick, vars
<1> QED
  BY <1>1, <1>2, Invariance, AnswerInvariance, PTL DEF Spec, ImplementsAssignment, A!Spec

-----------------------------------------------------------------------------
(* Claim channels never fill. Why a send finds room is spread over the system: *)
(* a task gets one answer because its caller grants once, and the channel of a *)
(* call holds one bid for each server because a task bids once.                *)

(* The bus delivers at most once.                                              *)
OneCopy == \E c : Copies = {c}

(* The caller has gone past its grant.                                         *)
PastGrant(r) == callPc[r] \in {"wait", "return", "done"}

(* The answer to a bid is in one place: in flight, in the hands of a run loop  *)
(* or in the channel of the task, and the caller has gone past its grant.      *)
GrantInFlight ==
    \A g \in grantNet :
        /\ PastGrant(g.req)
        /\ \A m \in routing[g.to] : m.grant.req # g.req
        /\ \A t \in Tasks : (t[1] = g.to /\ t[2] = g.req) => claimChan[t] = {}

GrantRouted ==
    \A s \in Servers : \A m \in routing[s] :
        /\ PastGrant(m.grant.req)
        /\ \A t \in Tasks : (t[1] = s /\ t[2] = m.grant.req) => claimChan[t] = {}

GrantHeld == \A t \in Tasks : claimChan[t] # {} => PastGrant(t[2])

GrantsOnce == GrantInFlight /\ GrantRouted /\ GrantHeld

(* The task has made its bid, or never will.                                   *)
HasBid(t) == task[t] \notin {"none", "started", "registered"}

(* A bid is in one place too: in flight, with the dispatcher or in the channel *)
(* of its call.                                                                *)
BidInFlight ==
    \A b \in bidNet :
        /\ HasBid(b.task)
        /\ \A d \in bidNet : d.task = b.task => d = b
        /\ \A d \in sendingBid : d.task # b.task
        /\ \A r \in Requests : \A i \in 1..Len(bidChan[r]) : bidChan[r][i].task # b.task

BidSending ==
    \A b \in sendingBid :
        /\ HasBid(b.task)
        /\ \A i \in 1..Len(bidChan[b.task[2]]) : bidChan[b.task[2]][i].task # b.task

BidHeld ==
    \A r \in Requests : \A i \in 1..Len(bidChan[r]) :
        /\ HasBid(bidChan[r][i].task) /\ bidChan[r][i].task[2] = r
        /\ \A j \in 1..Len(bidChan[r]) : j # i => bidChan[r][j].task # bidChan[r][i].task

BidsOnce == BidInFlight /\ BidSending /\ BidHeld

ClaimInv == GrantsOnce /\ BidsOnce

(* Initially no claim is anywhere.                                             *)
LEMMA InitClaim == Init => ClaimInv
<1> SUFFICES ASSUME Init PROVE ClaimInv
  OBVIOUS
<1>1. GrantsOnce
  BY DEF Init, NetInit, HandlerInit, GrantsOnce, GrantInFlight, GrantRouted, GrantHeld
<1>2. \A r \in Requests : 1..Len(bidChan[r]) = {}
  BY DEF Init, ClientInit
<1>3. BidsOnce
  BY <1>2 DEF Init, NetInit, ClientInit, BidsOnce, BidInFlight, BidSending, BidHeld
<1> QED
  BY <1>1, <1>3 DEF ClaimInv

(* What a step of the client may do to the calls and the grants in flight: a   *)
(* call that has gone past its grant may go back to one only if it has not     *)
(* granted, and a grant is published by a call that leaves its grant behind.   *)
GrantsOnceMore ==
    /\ \A r \in Requests : PastGrant(r) => PastGrant(r)' \/ choice[r] = NoServer
    /\ \A g \in grantNet' : g \in grantNet \/ (callPc[g.req] = "grant" /\ PastGrant(g.req)')

(* Only WaitBid goes back to a grant, and only Grant publishes one.            *)
LEMMA ClientGrants ==
  ASSUME TypeOK, ClientNext
  PROVE  GrantsOnceMore
<1> USE DEF netVars
<1>1. callPc \in [Requests -> CallPcs]
  BY DEF TypeOK, ClientTypeOK, CallPcs
<1>2. ASSUME NEW r \in Requests, NEW pc, Goto(r, pc), UNCHANGED grantNet,
             pc \in {"wait", "return", "done"} \/ ~PastGrant(r) \/ choice[r] = NoServer
      PROVE  GrantsOnceMore
  BY <1>1, <1>2 DEF Goto, GrantsOnceMore, PastGrant
<1>3. ASSUME UNCHANGED <<callPc, grantNet>> PROVE GrantsOnceMore
  BY <1>3 DEF GrantsOnceMore, PastGrant
<1>4. ASSUME NEW r \in Requests, NEW k, NEW s, Finish(r, k, s), UNCHANGED grantNet
      PROVE  GrantsOnceMore
  BY <1>2, <1>4 DEF Finish
<1>5. ASSUME NEW r \in Requests, CallRefused(r) \/ Call(r) \/ PublishRequest(r) \/ Return(r)
      PROVE  GrantsOnceMore
  BY <1>2, <1>5 DEF CallRefused, Call, PublishRequest, Return, PastGrant
<1>6. ASSUME NEW r \in Requests,
             PublishFails(r) \/ GrantFails(r) \/ WaitDone(r) \/ ClosedReturns(r)
      PROVE  GrantsOnceMore
  BY <1>4, <1>6 DEF PublishFails, GrantFails, WaitDone, ClosedReturns
<1>7. ASSUME NEW r \in Requests, SelectDone(r) PROVE GrantsOnceMore
  BY <1>2, <1>4, <1>7 DEF SelectDone, Choose, PastGrant
<1>8. ASSUME NEW r \in Requests, SelectClaim(r) PROVE GrantsOnceMore
  BY <1>2, <1>3, <1>8 DEF SelectClaim, Choose, PastGrant
<1>9. ASSUME NEW r \in Requests, WaitBid(r) PROVE GrantsOnceMore
  BY <1>2, <1>9 DEF WaitBid, Choose
<1>10. ASSUME NEW r \in Requests, SelectResponse(r) \/ WaitResponse(r) PROVE GrantsOnceMore
  BY <1>3, <1>4, <1>10 DEF SelectResponse, WaitResponse, Answer
<1>11. ASSUME NEW r \in Requests, Grant(r) PROVE GrantsOnceMore
  <2>1. \A g \in grantNet' : g \in grantNet \/ g.req = r
    BY <1>11 DEF Grant, PublishGrant
  <2>2. callPc[r] = "grant" /\ callPc' = [callPc EXCEPT ![r] = "wait"]
    BY <1>11 DEF Grant, Goto
  <2> QED
    BY <1>1, <2>1, <2>2 DEF GrantsOnceMore, PastGrant
<1>12. ASSUME NEW r \in Requests, SelectionTimer(r) PROVE GrantsOnceMore
  BY <1>3, <1>12 DEF SelectionTimer
<1>13. ASSUME NEW r \in Requests, NEW why \in {"canceled", "timedOut"}, ContextEnds(r, why)
       PROVE  GrantsOnceMore
  BY <1>3, <1>13 DEF ContextEnds
<1>14. ASSUME NEW b \in bidNet, RouteClaim(b) PROVE GrantsOnceMore
  BY <1>3, <1>14 DEF RouteClaim, callVars
<1>15. ASSUME NEW m \in resNet, RouteResponse(m) PROVE GrantsOnceMore
  BY <1>3, <1>15 DEF RouteResponse, callVars
<1>16. CASE DispatchStep \/ CloseClient
  BY <1>3, <1>16
  DEF DispatchStep, SendClaim, SendResponse, DispatcherReturns, CloseClient, callVars
<1> QED
  BY <1>5, <1>6, <1>7, <1>8, <1>9, <1>10, <1>11, <1>12, <1>13, <1>14, <1>15, <1>16
  DEF ClientNext, CallStep

(* A step of the client keeps every grant in one place: when one is published  *)
(* there is none, since the caller had not gone past it.                       *)
LEMMA ClientGrantsOnce ==
  ASSUME IInv, GrantsOnce, ClientNext, UNCHANGED handlerVars
  PROVE  GrantsOnce'
<1>0. UNCHANGED <<routing, claimChan>>
  BY DEF handlerVars
<1>1. /\ \A r \in Requests : PastGrant(r) => PastGrant(r)' \/ choice[r] = NoServer
      /\ \A g \in grantNet' : g \in grantNet \/ (callPc[g.req] = "grant" /\ PastGrant(g.req)')
  BY ClientGrants DEF IInv, GrantsOnceMore
<1>2. ASSUME NEW g \in grantNet PROVE PastGrant(g.req)'
  <2>1. g \in Grants
    BY DEF IInv, TypeOK, NetTypeOK
  <2>2. g.req \in Requests /\ choice[g.req] # NoServer
    BY <2>1, GrantParts DEF IInv, AgreeInv, GrantsAgree
  <2> QED
    BY <1>1, <2>2 DEF GrantsOnce, GrantInFlight
<1>3. ASSUME NEW s \in Servers, NEW m \in routing[s] PROVE PastGrant(m.grant.req)'
  <2>1. m.grant \in Grants
    BY DEF IInv, TypeOK, HandlerTypeOK, Routed
  <2>2. m.grant.req \in Requests /\ choice[m.grant.req] # NoServer
    BY <2>1, GrantParts DEF IInv, AgreeInv, RoutedAgree
  <2> QED
    BY <1>1, <2>2 DEF GrantsOnce, GrantRouted
<1>4. ASSUME NEW t \in Tasks, claimChan[t] # {} PROVE PastGrant(t[2])'
  <2>1. PICK g \in claimChan[t] : TRUE
    BY <1>4
  <2>2. g \in Grants
    BY DEF IInv, TypeOK, HandlerTypeOK
  <2>3. t[2] \in Requests /\ choice[t[2]] # NoServer
    BY <2>2, GrantParts, TaskParts DEF IInv, AgreeInv, ChansAgree
  <2> QED
    BY <1>1, <1>4, <2>3 DEF GrantsOnce, GrantHeld
<1>5. GrantInFlight'
  <2> SUFFICES ASSUME NEW g \in grantNet'
               PROVE  /\ PastGrant(g.req)'
                      /\ \A m \in routing[g.to] : m.grant.req # g.req
                      /\ \A t \in Tasks : (t[1] = g.to /\ t[2] = g.req) => claimChan[t] = {}
    BY <1>0 DEF GrantInFlight
  <2>1. CASE g \in grantNet
    BY <1>2, <2>1 DEF GrantsOnce, GrantInFlight
  <2>2. CASE callPc[g.req] = "grant" /\ PastGrant(g.req)'
    <3>0. g \in Grants
      BY ClientType DEF IInv, ChoiceInv, TypeOK, NetTypeOK
    <3>1. ~PastGrant(g.req) /\ g.to \in Servers
      BY <2>2, <3>0, GrantParts DEF PastGrant
    <3> QED
      BY <2>2, <3>1 DEF GrantsOnce, GrantRouted, GrantHeld
  <2> QED
    BY <1>1, <2>1, <2>2
<1>6. GrantRouted'
  BY <1>0, <1>3 DEF GrantsOnce, GrantRouted
<1>7. GrantHeld'
  BY <1>0, <1>4 DEF GrantHeld
<1> QED
  BY <1>5, <1>6, <1>7 DEF GrantsOnce

(* Of the grants in flight, one is to this server and for this request.        *)
LEMMA OneGrantEach ==
  ASSUME OneCopy, IInv, NEW g \in grantNet, NEW h \in grantNet, g.to = h.to, g.req = h.req
  PROVE  g = h
<1>1. PICK c : Copies = {c}
  BY DEF OneCopy
<1>2. /\ g \in [to: Servers, req: Requests, server: Servers, copy: {c}]
      /\ h \in [to: Servers, req: Requests, server: Servers, copy: {c}]
  BY <1>1 DEF IInv, TypeOK, NetTypeOK, Grants
<1>3. g.server = h.server /\ g.copy = h.copy
  BY <1>2 DEF IInv, AgreeInv, GrantsAgree
<1> QED
  BY <1>2, <1>3

(* A step of a server moves a grant on to the next place, which is empty.      *)
LEMMA HandlerGrantsOnce ==
  ASSUME OneCopy, IInv, GrantsOnce, HandlerNext, UNCHANGED clientVars
  PROVE  GrantsOnce'
<1>0. UNCHANGED callPc
  BY DEF clientVars, callVars
<1>1. \A r : PastGrant(r)' <=> PastGrant(r)
  BY <1>0 DEF PastGrant
<1>2. /\ routing \in [Servers -> SUBSET Routed] /\ claimChan \in [Tasks -> SUBSET Grants]
      /\ grantNet \subseteq Grants
  BY DEF IInv, TypeOK, NetTypeOK, HandlerTypeOK
<1> USE DEF GrantsOnce, netVars
<1>3. ASSUME UNCHANGED <<grantNet, routing, claimChan>> PROVE GrantsOnce'
  BY <1>1, <1>3 DEF GrantInFlight, GrantRouted, GrantHeld
<1>4. ASSUME NEW g \in grantNet, TakeGrant(g) PROVE GrantsOnce'
  <2>1. g \in Grants /\ g.to \in Servers
    BY <1>2, GrantParts
  <2>2. /\ grantNet' = grantNet \ {g} /\ UNCHANGED claimChan
        /\ \A s \in Servers : s # g.to => routing'[s] = routing[s]
        /\ \A m \in routing'[g.to] : m.grant = g
    BY <1>2, <1>4, <2>1 DEF TakeGrant
  <2>3. GrantInFlight'
    <3> SUFFICES ASSUME NEW h \in grantNet, h # g
                 PROVE  /\ PastGrant(h.req)
                        /\ \A m \in routing'[h.to] : m.grant.req # h.req
                        /\ \A t \in Tasks : (t[1] = h.to /\ t[2] = h.req) => claimChan[t] = {}
      BY <1>1, <2>2 DEF GrantInFlight
    <3>1. h.to \in Servers
      BY <1>2, GrantParts
    <3>2. h.to = g.to => h.req # g.req
      BY OneGrantEach
    <3> QED
      BY <2>2, <3>1, <3>2 DEF GrantInFlight
  <2>4. GrantRouted'
    <3> SUFFICES ASSUME NEW s \in Servers, NEW m \in routing'[s]
                 PROVE  /\ PastGrant(m.grant.req)
                        /\ \A t \in Tasks : (t[1] = s /\ t[2] = m.grant.req) => claimChan[t] = {}
      BY <1>1, <2>2 DEF GrantRouted
    <3>1. CASE s = g.to
      BY <2>2, <3>1 DEF GrantInFlight
    <3>2. CASE s # g.to
      BY <2>2, <3>2 DEF GrantRouted
    <3> QED
      BY <3>1, <3>2
  <2>5. GrantHeld'
    BY <1>1, <2>2 DEF GrantHeld
  <2> QED
    BY <2>3, <2>4, <2>5
<1>5. ASSUME NEW s \in Servers, SendGrant(s) PROVE GrantsOnce'
  <2>1. PICK m \in routing[s] :
          claimChan' = [claimChan EXCEPT ![<<s, m.grant.req, m.chan>>] = {m.grant}]
    BY <1>5 DEF SendGrant
  <2>2. routing' = [routing EXCEPT ![s] = {}] /\ UNCHANGED grantNet
    BY <1>5 DEF SendGrant
  <2>3. m \in Routed /\ m.grant \in Grants
    BY <1>2 DEF Routed
  <2>4. \A t \in Tasks : claimChan'[t] = claimChan[t] \/ (t[1] = s /\ t[2] = m.grant.req)
    BY <1>2, <2>1
  <2>5. GrantInFlight'
    <3> SUFFICES ASSUME NEW h \in grantNet
                 PROVE  /\ PastGrant(h.req)
                        /\ \A n \in routing'[h.to] : n.grant.req # h.req
                        /\ \A t \in Tasks : (t[1] = h.to /\ t[2] = h.req) => claimChan'[t] = {}
      BY <1>1, <2>2 DEF GrantInFlight
    <3>1. h.to \in Servers
      BY <1>2, GrantParts
    <3>2. h.to = s => h.req # m.grant.req
      BY DEF GrantInFlight
    <3>3. \A n \in routing'[h.to] : n \in routing[h.to]
      BY <1>2, <2>2, <3>1
    <3> QED
      BY <2>4, <3>2, <3>3 DEF GrantInFlight
  <2>6. GrantRouted'
    <3> SUFFICES ASSUME NEW u \in Servers, NEW n \in routing'[u]
                 PROVE  /\ PastGrant(n.grant.req)
                        /\ \A t \in Tasks : (t[1] = u /\ t[2] = n.grant.req) => claimChan'[t] = {}
      BY <1>1 DEF GrantRouted
    <3>1. u # s /\ n \in routing[u]
      BY <1>2, <2>2
    <3> QED
      BY <2>4, <3>1 DEF GrantRouted
  <2>7. GrantHeld'
    BY <1>1, <2>4 DEF GrantHeld, GrantRouted
  <2> QED
    BY <2>5, <2>6, <2>7
<1>6. ASSUME NEW t \in Tasks, Decide(t) PROVE GrantsOnce'
  <2>1. UNCHANGED <<grantNet, routing>> /\ \A u \in Tasks : claimChan'[u] \in {{}, claimChan[u]}
    BY <1>2, <1>6 DEF Decide
  <2> QED
    BY <1>1, <2>1 DEF GrantInFlight, GrantRouted, GrantHeld
<1>7. ASSUME NEW t \in Tasks, TakeRequest(t) PROVE GrantsOnce'
  BY <1>3, <1>7 DEF TakeRequest
<1>8. ASSUME NEW t \in Tasks, TaskStep(t) PROVE GrantsOnce'
  BY <1>3, <1>6, <1>8
  DEF TaskStep, RejectMalformed, RunUnclaimed, Decline, RegisterClaim, Bid, BidFails,
      ClaimTimesOut, LeaveClaim, Respond
<1>9. ASSUME NEW s \in Servers, NEW force \in BOOLEAN,
             Drain(s) \/ LoopReturns(s) \/ CloseStep(s) \/ BeginClose(s, force)
      PROVE  GrantsOnce'
  BY <1>3, <1>9
  DEF Drain, LoopReturns, CloseStep, FinishGraceful, FinishForced, BeginClose
<1> QED
  BY <1>4, <1>5, <1>7, <1>8, <1>9 DEF HandlerNext, LoopStep

(* A bid that leaves the front of a channel.                                   *)
LEMMA BidTaken ==
  ASSUME NEW q \in Seq(Bids), q # <<>>
  PROVE  /\ Tail(q) \in Seq(Bids)
         /\ \A i \in 1..Len(Tail(q)) : i + 1 \in 1..Len(q) /\ Tail(q)[i] = q[i + 1]
  OBVIOUS

(* A bid that joins the end of one.                                            *)
LEMMA BidAdded ==
  ASSUME NEW q \in Seq(Bids), NEW b \in Bids
  PROVE  /\ Append(q, b) \in Seq(Bids)
         /\ Len(Append(q, b)) = Len(q) + 1
         /\ \A i \in 1..(Len(q) + 1) :
               IF i = Len(q) + 1 THEN Append(q, b)[i] = b
               ELSE i \in 1..Len(q) /\ Append(q, b)[i] = q[i]
  OBVIOUS

(* A step of the client moves a bid on, from the bus to the dispatcher and to  *)
(* the channel of its call, or takes it from there.                            *)
LEMMA ClientBidsOnce ==
  ASSUME TypeOK, BidsOnce, ClientNext, UNCHANGED handlerVars
  PROVE  BidsOnce'
<1>0. \A t : HasBid(t)' <=> HasBid(t)
  BY DEF HasBid, handlerVars
<1>1. /\ bidChan \in [Requests -> Seq(Bids)] /\ bidNet \subseteq Bids
      /\ sendingBid \subseteq Bids
  BY DEF TypeOK, NetTypeOK, ClientTypeOK
<1> USE DEF BidsOnce, netVars, chanVars, dispVars
<1>2. ASSUME UNCHANGED <<bidNet, sendingBid, bidChan>> PROVE BidsOnce'
  BY <1>0, <1>2 DEF BidInFlight, BidSending, BidHeld
<1>3. ASSUME NEW r \in Requests, bidChan[r] # <<>>, UNCHANGED <<bidNet, sendingBid>>,
             bidChan' = [bidChan EXCEPT ![r] = Tail(@)]
      PROVE  BidsOnce'
  <2>1. \A p \in Requests : p # r => bidChan'[p] = bidChan[p]
    BY <1>1, <1>3
  <2>2. PICK q \in Seq(Bids) : q = bidChan[r] /\ q # <<>>
    BY <1>1, <1>3
  <2>3. bidChan'[r] = Tail(q)
    BY <1>1, <1>3, <2>2
  <2>4. \A p \in Requests : \A i \in 1..Len(bidChan'[p]) :
          \E k \in 1..Len(bidChan[p]) :
            /\ bidChan'[p][i] = bidChan[p][k]
            /\ k = IF p = r THEN i + 1 ELSE i
    <3> SUFFICES ASSUME NEW p \in Requests, NEW i \in 1..Len(bidChan'[p])
                 PROVE  \E k \in 1..Len(bidChan[p]) :
                          /\ bidChan'[p][i] = bidChan[p][k]
                          /\ k = IF p = r THEN i + 1 ELSE i
      OBVIOUS
    <3>1. CASE p = r
      <4>1. i \in 1..Len(Tail(q))
        BY <2>3, <3>1
      <4>2. i + 1 \in 1..Len(q) /\ Tail(q)[i] = q[i + 1]
        BY <2>2, <4>1, BidTaken
      <4> QED
        BY <2>2, <2>3, <3>1, <4>2
    <3>2. CASE p # r
      BY <2>1, <3>2
    <3> QED
      BY <3>1, <3>2
  <2>5. BidInFlight'
    BY <1>0, <1>3, <2>4 DEF BidInFlight
  <2>6. BidSending'
    <3> SUFFICES ASSUME NEW b \in sendingBid
                 PROVE  /\ HasBid(b.task)
                        /\ \A i \in 1..Len(bidChan'[b.task[2]]) :
                              bidChan'[b.task[2]][i].task # b.task
      BY <1>0, <1>3 DEF BidSending
    <3>1. b.task[2] \in Requests
      BY <1>1, BidParts
    <3>2. /\ HasBid(b.task)
          /\ \A i \in 1..Len(bidChan[b.task[2]]) : bidChan[b.task[2]][i].task # b.task
      BY DEF BidSending
    <3>3. ASSUME NEW i \in 1..Len(bidChan'[b.task[2]])
          PROVE  bidChan'[b.task[2]][i].task # b.task
      <4>1. PICK k \in 1..Len(bidChan[b.task[2]]) :
              bidChan'[b.task[2]][i] = bidChan[b.task[2]][k]
        BY <2>4, <3>1
      <4> QED
        BY <3>2, <4>1
    <3> QED
      BY <3>2, <3>3
  <2>7. BidHeld'
    <3> SUFFICES ASSUME NEW p \in Requests, NEW i \in 1..Len(bidChan'[p])
                 PROVE  /\ HasBid(bidChan'[p][i].task) /\ bidChan'[p][i].task[2] = p
                        /\ \A j \in 1..Len(bidChan'[p]) :
                              j # i => bidChan'[p][j].task # bidChan'[p][i].task
      BY <1>0 DEF BidHeld
    <3>1. PICK k \in 1..Len(bidChan[p]) :
            bidChan'[p][i] = bidChan[p][k] /\ k = IF p = r THEN i + 1 ELSE i
      BY <2>4
    <3>2. HasBid(bidChan'[p][i].task) /\ bidChan'[p][i].task[2] = p
      BY <3>1 DEF BidHeld
    <3>3. ASSUME NEW j \in 1..Len(bidChan'[p]), j # i
          PROVE  bidChan'[p][j].task # bidChan'[p][i].task
      <4>1. PICK l \in 1..Len(bidChan[p]) :
              bidChan'[p][j] = bidChan[p][l] /\ l = IF p = r THEN j + 1 ELSE j
        BY <2>4
      <4>2. i \in Int /\ j \in Int
        OBVIOUS
      <4>3. l # k
        BY <3>1, <3>3, <4>1, <4>2
      <4> QED
        BY <3>1, <4>1, <4>3 DEF BidHeld
    <3> QED
      BY <3>2, <3>3
  <2> QED
    BY <2>5, <2>6, <2>7
<1>4. ASSUME NEW b \in bidNet, RouteClaim(b) PROVE BidsOnce'
  <2>1. /\ bidNet' = bidNet \ {b} /\ sendingBid = {} /\ sendingBid' \subseteq {b}
        /\ UNCHANGED bidChan
    BY <1>4 DEF RouteClaim, AtDispatch
  <2>2. b.task[2] \in Requests
    BY <1>1, BidParts
  <2>3. BidInFlight'
    BY <1>0, <2>1 DEF BidInFlight
  <2>4. BidSending'
    BY <1>0, <2>1, <2>2 DEF BidInFlight, BidSending
  <2>5. BidHeld'
    BY <1>0, <2>1 DEF BidHeld
  <2> QED
    BY <2>3, <2>4, <2>5
<1>5. CASE SendClaim
  <2>1. PICK b \in sendingBid : bidChan' = [bidChan EXCEPT ![b.task[2]] = Append(@, b)]
    BY <1>5 DEF SendClaim
  <2>2. sendingBid' = {} /\ UNCHANGED bidNet
    BY <1>5 DEF SendClaim
  <2>3. b \in Bids /\ b.task[2] \in Requests
    BY <1>1, BidParts
  <2>4. PICK r \in Requests : r = b.task[2]
    BY <2>3
  <2>5. PICK q \in Seq(Bids) : q = bidChan[r]
    BY <1>1
  <2>6. bidChan'[r] = Append(q, b) /\ \A p \in Requests : p # r => bidChan'[p] = bidChan[p]
    BY <1>1, <2>1, <2>4, <2>5
  <2>7. ASSUME NEW p \in Requests, NEW i \in 1..Len(bidChan'[p])
        PROVE  \/ i \in 1..Len(bidChan[p]) /\ bidChan'[p][i] = bidChan[p][i]
               \/ p = r /\ i = Len(q) + 1 /\ bidChan'[p][i] = b
    BY <2>3, <2>5, <2>6, BidAdded
  <2>8. BidInFlight'
    <3> SUFFICES ASSUME NEW d \in bidNet, NEW p \in Requests, NEW i \in 1..Len(bidChan'[p])
                 PROVE  bidChan'[p][i].task # d.task
      BY <1>0, <2>2 DEF BidInFlight
    <3> QED
      BY <2>7 DEF BidInFlight
  <2>9. BidSending'
    BY <2>2 DEF BidSending
  <2>10. BidHeld'
    <3> SUFFICES ASSUME NEW p \in Requests, NEW i \in 1..Len(bidChan'[p])
                 PROVE  /\ HasBid(bidChan'[p][i].task) /\ bidChan'[p][i].task[2] = p
                        /\ \A j \in 1..Len(bidChan'[p]) :
                              j # i => bidChan'[p][j].task # bidChan'[p][i].task
      BY <1>0 DEF BidHeld
    <3>1. HasBid(b.task) /\ \A k \in 1..Len(bidChan[r]) : bidChan[r][k].task # b.task
      BY <2>4 DEF BidSending
    <3>2. HasBid(bidChan'[p][i].task) /\ bidChan'[p][i].task[2] = p
      BY <2>4, <2>7, <3>1 DEF BidHeld
    <3>3. ASSUME NEW j \in 1..Len(bidChan'[p]), j # i
          PROVE  bidChan'[p][j].task # bidChan'[p][i].task
      <4>1. \/ j \in 1..Len(bidChan[p]) /\ bidChan'[p][j] = bidChan[p][j]
            \/ p = r /\ j = Len(q) + 1 /\ bidChan'[p][j] = b
        BY <2>7
      <4>2. \/ i \in 1..Len(bidChan[p]) /\ bidChan'[p][i] = bidChan[p][i]
            \/ p = r /\ i = Len(q) + 1 /\ bidChan'[p][i] = b
        BY <2>7
      <4>3. CASE p = r /\ bidChan'[p][i] = b /\ i = Len(q) + 1
        BY <3>1, <3>3, <4>1, <4>3
      <4>4. CASE p = r /\ bidChan'[p][j] = b /\ j = Len(q) + 1
        BY <3>1, <3>3, <4>2, <4>4
      <4>5. CASE /\ i \in 1..Len(bidChan[p]) /\ bidChan'[p][i] = bidChan[p][i]
                 /\ j \in 1..Len(bidChan[p]) /\ bidChan'[p][j] = bidChan[p][j]
        BY <3>3, <4>5 DEF BidHeld
      <4> QED
        BY <4>1, <4>2, <4>3, <4>4, <4>5
    <3> QED
      BY <3>2, <3>3
  <2> QED
    BY <2>8, <2>9, <2>10
<1>6. ASSUME NEW r \in Requests, SelectClaim(r) \/ WaitBid(r) PROVE BidsOnce'
  BY <1>3, <1>6 DEF SelectClaim, WaitBid
<1>7. ASSUME NEW r \in Requests,
             CallRefused(r) \/ Call(r) \/ SelectionTimer(r) \/ PublishRequest(r) \/
             PublishFails(r) \/ SelectDone(r) \/ SelectResponse(r) \/ Grant(r) \/
             GrantFails(r) \/ WaitResponse(r) \/ WaitDone(r) \/ ClosedReturns(r) \/ Return(r)
      PROVE  BidsOnce'
  BY <1>2, <1>7
  DEF CallRefused, Call, SelectionTimer, PublishRequest, PublishFails, SelectDone,
      SelectResponse, Grant, GrantFails, WaitResponse, WaitDone, ClosedReturns, Return
<1>8. ASSUME NEW r \in Requests, NEW why \in {"canceled", "timedOut"}, ContextEnds(r, why)
      PROVE  BidsOnce'
  BY <1>2, <1>8 DEF ContextEnds
<1>9. ASSUME NEW m \in resNet, RouteResponse(m) PROVE BidsOnce'
  BY <1>2, <1>9 DEF RouteResponse
<1>10. CASE SendResponse \/ DispatcherReturns \/ CloseClient
  BY <1>2, <1>10 DEF SendResponse, DispatcherReturns, CloseClient
<1> QED
  BY <1>4, <1>5, <1>6, <1>7, <1>8, <1>9, <1>10 DEF ClientNext, CallStep, DispatchStep

(* A step of a server publishes the bid of a task that has made none, and no   *)
(* task goes back to where it bids.                                            *)
LEMMA HandlerBidsOnce ==
  ASSUME OneCopy, TypeOK, Fresh, BidsOnce, HandlerNext, UNCHANGED clientVars
  PROVE  BidsOnce'
<1>0. UNCHANGED <<sendingBid, bidChan>>
  BY DEF clientVars, chanVars, dispVars
<1>1. /\ task \in [Tasks -> TaskStates] /\ bidNet \subseteq Bids /\ sendingBid \subseteq Bids
      /\ bidChan \in [Requests -> Seq(Bids)]
  BY DEF TypeOK, NetTypeOK, ClientTypeOK, HandlerTypeOK
<1>2. /\ \A b \in bidNet \cup sendingBid : b.task \in Tasks
      /\ \A r \in Requests : \A i \in 1..Len(bidChan[r]) : bidChan[r][i].task \in Tasks
  <2>1. ASSUME NEW r \in Requests, NEW i \in 1..Len(bidChan[r]) PROVE bidChan[r][i] \in Bids
    <3>1. bidChan[r] \in Seq(Bids)
      BY <1>1
    <3> QED
      BY <3>1
  <2> QED
    BY <1>1, <2>1 DEF Bids
<1> USE DEF BidsOnce, netVars
<1>3. ASSUME UNCHANGED bidNet, \A t \in Tasks : HasBid(t) => HasBid(t)' PROVE BidsOnce'
  BY <1>0, <1>1, <1>2, <1>3 DEF BidInFlight, BidSending, BidHeld
<1>4. ASSUME NEW t \in Tasks, NEW x, task' = [task EXCEPT ![t] = x],
             ~HasBid(t) \/ x \notin {"none", "started", "registered"}
      PROVE  \A u \in Tasks : HasBid(u) => HasBid(u)'
  BY <1>1, <1>4 DEF HasBid
<1>5. ASSUME NEW t \in Tasks, TakeRequest(t) PROVE BidsOnce'
  <2>1. ~HasBid(t) /\ UNCHANGED bidNet /\ \E x : task' = [task EXCEPT ![t] = x]
    BY <1>5 DEF TakeRequest, Fresh, HasBid
  <2> QED
    BY <1>3, <1>4, <2>1
<1>6. ASSUME NEW t \in Tasks,
             RejectMalformed(t) \/ RunUnclaimed(t) \/ Decline(t) \/ RegisterClaim(t) \/
             BidFails(t) \/ Decide(t) \/ ClaimTimesOut(t) \/ LeaveClaim(t) \/ Respond(t)
      PROVE  BidsOnce'
  <2>1. /\ UNCHANGED bidNet
        /\ \E x : /\ task' = [task EXCEPT ![t] = x]
                  /\ ~HasBid(t) \/ x \notin {"none", "started", "registered"}
    <3>1. CASE RejectMalformed(t) \/ RunUnclaimed(t) \/ Decline(t)
      BY <3>1 DEF RejectMalformed, RunUnclaimed, Decline, Advance, HasBid
    <3>2. CASE RegisterClaim(t) \/ BidFails(t) \/ Decide(t)
      BY <3>2 DEF RegisterClaim, BidFails, Decide, Advance, HasBid
    <3>3. CASE ClaimTimesOut(t) \/ LeaveClaim(t) \/ Respond(t)
      BY <3>3 DEF ClaimTimesOut, LeaveClaim, Respond, Advance, HasBid
    <3> QED
      BY <1>6, <3>1, <3>2, <3>3
  <2> QED
    BY <1>3, <1>4, <2>1
<1>7. ASSUME NEW t \in Tasks, Bid(t) PROVE BidsOnce'
  <2>1. PICK a \in Affinities : PublishBid(t, a)
    BY <1>7 DEF Bid
  <2>2. PICK c : Copies = {c}
    BY DEF OneCopy
  <2>3. \A b \in bidNet' : b \in bidNet \/ b = [task |-> t, affinity |-> a, copy |-> c]
    BY <2>1, <2>2 DEF PublishBid
  <2>4. ~HasBid(t) /\ task' = [task EXCEPT ![t] = "waiting"]
    BY <1>7 DEF Bid, Advance, HasBid
  <2>5. HasBid(t)' /\ \A u \in Tasks : HasBid(u) => HasBid(u)'
    BY <1>1, <2>4 DEF HasBid
  <2>6. BidInFlight'
    BY <1>0, <1>2, <2>3, <2>4, <2>5 DEF BidInFlight, BidSending, BidHeld
  <2>7. BidSending' /\ BidHeld'
    BY <1>0, <1>2, <2>5 DEF BidSending, BidHeld
  <2> QED
    BY <2>6, <2>7
<1>8. ASSUME UNCHANGED <<bidNet, task>> PROVE BidsOnce'
  BY <1>3, <1>8 DEF HasBid
<1>9. ASSUME NEW g \in grantNet, TakeGrant(g) PROVE BidsOnce'
  BY <1>8, <1>9 DEF TakeGrant
<1>10. ASSUME NEW s \in Servers, NEW force \in BOOLEAN,
              LoopStep(s) \/ CloseStep(s) \/ BeginClose(s, force)
       PROVE  BidsOnce'
  BY <1>8, <1>10
  DEF LoopStep, CloseStep, Drain, SendGrant, LoopReturns, FinishGraceful, FinishForced,
      BeginClose
<1> QED
  BY <1>5, <1>6, <1>7, <1>9, <1>10 DEF HandlerNext, TaskStep

(* With a bid for each server at most, a channel that has room for a bid from  *)
(* each has room for the one the dispatcher is sending.                        *)
LEMMA RoomForBid ==
  ASSUME OneCopy, IsFiniteSet(Servers), Cardinality(Servers) <= ChannelSize,
         TypeOK, BidsOnce, NEW b \in sendingBid
  PROVE  Len(bidChan[b.task[2]]) < ChannelSize
<1>1. b \in Bids /\ b.task[2] \in Requests
  BY BidParts DEF TypeOK, ClientTypeOK
<1>2. PICK r \in Requests : r = b.task[2]
  BY <1>1
<1>3. PICK q \in Seq(Bids) : q = bidChan[r]
  BY DEF TypeOK, ClientTypeOK
<1>4. PICK c : Copies = {c}
  BY DEF OneCopy
<1> DEFINE all == Append(q, b)
           n == Len(q) + 1
           f == [i \in 1..n |-> all[i].task[1]]
<1>5. /\ Len(q) \in Nat /\ n \in Nat
      /\ \A i \in 1..n : IF i = n THEN all[i] = b ELSE i \in 1..Len(q) /\ all[i] = q[i]
  BY <1>1, BidAdded
<1>6. ASSUME NEW i \in 1..n PROVE all[i] \in Bids /\ all[i].task[2] = r
  <2>1. CASE i = n
    BY <1>1, <1>2, <1>5, <2>1
  <2>2. CASE i # n
    BY <1>3, <1>5, <2>2 DEF BidsOnce, BidHeld
  <2> QED
    BY <2>1, <2>2
<1>7. ASSUME NEW i \in 1..n, NEW j \in 1..n, i # j PROVE all[i].task # all[j].task
  <2>1. \A k \in 1..Len(q) : q[k].task # b.task
    BY <1>2, <1>3 DEF BidsOnce, BidSending
  <2>2. \A k, l \in 1..Len(q) : k # l => q[k].task # q[l].task
    BY <1>3 DEF BidsOnce, BidHeld
  <2> QED
    BY <1>5, <1>7, <2>1, <2>2
<1> HIDE DEF all, n
<1>8. ASSUME NEW i \in 1..n PROVE all[i].task = <<all[i].task[1], r, c>> /\ all[i].task[1] \in Servers
  <2>1. all[i].task \in Servers \X Requests \X {c} /\ all[i].task[2] = r
    BY <1>4, <1>6 DEF Bids, Tasks
  <2> QED
    BY <2>1
<1>9. f \in Injection(1..n, Servers)
  <2>1. f \in [1..n -> Servers]
    BY <1>8
  <2>2. ASSUME NEW i \in 1..n, NEW j \in 1..n, f[i] = f[j] PROVE i = j
    BY <1>7, <1>8, <2>2
  <2> QED
    BY <2>1, <2>2 DEF Injection, IsInjective
<1> HIDE DEF f
<1>10. Cardinality(1..n) <= Cardinality(Servers)
  BY <1>9, FS_Injection
<1>11. Cardinality(1..n) = n
  BY <1>5, FS_Interval DEF n
<1>12. Cardinality(Servers) \in Nat /\ ChannelSize \in Nat
  BY FS_CardinalityType, ClientAssumption
<1> QED
  BY <1>2, <1>3, <1>5, <1>10, <1>11, <1>12 DEF n

(* On a bus that delivers at most once, with room in the channel of a call for *)
(* a bid from every server, neither a run loop nor the dispatcher of a client  *)
(* ever waits for a claim channel: one slow or departed peer stops nobody.     *)
THEOREM NoClaimBlocks ==
  ASSUME OneCopy, IsFiniteSet(Servers), Cardinality(Servers) <= ChannelSize
  PROVE  Spec => []ClaimsNeverBlock
<1>1. ASSUME IInv, AnswerInv, ClaimInv, [Next]_vars PROVE ClaimInv'
  <2>1. CASE ClientNext /\ UNCHANGED handlerVars
    BY <1>1, <2>1, ClientGrantsOnce, ClientBidsOnce DEF IInv, ClaimInv
  <2>2. CASE HandlerNext /\ UNCHANGED clientVars
    BY <1>1, <2>2, HandlerGrantsOnce, HandlerBidsOnce DEF IInv, AnswerInv, ClaimInv
  <2>3. CASE UNCHANGED <<grantNet, bidNet, clientVars, handlerVars>>
    BY <1>1, <2>3
    DEF clientVars, callVars, chanVars, dispVars, handlerVars, ClaimInv, GrantsOnce,
        GrantInFlight, GrantRouted, GrantHeld, PastGrant, BidsOnce, BidInFlight,
        BidSending, BidHeld, HasBid
  <2> QED
    BY <1>1, <2>1, <2>2, <2>3 DEF Next, Tick, Expire, vars, netVars
<1>2. ASSUME IInv, ClaimInv PROVE ClaimsNeverBlock
  <2>1. ASSUME NEW s \in Servers, NEW m \in routing[s]
        PROVE  claimChan[<<s, m.grant.req, m.chan>>] = {}
    <3>1. m.grant.req \in Requests /\ m.chan \in Copies
      BY <1>2 DEF IInv, TypeOK, HandlerTypeOK, Routed, Grants
    <3>2. <<s, m.grant.req, m.chan>> \in Tasks
      BY <3>1 DEF Tasks
    <3> QED
      BY <1>2, <3>2 DEF ClaimInv, GrantsOnce, GrantRouted
  <2>2. ASSUME NEW b \in sendingBid PROVE Len(bidChan[b.task[2]]) < ChannelSize
    BY <1>2, RoomForBid DEF IInv, ClaimInv
  <2> QED
    BY <2>1, <2>2 DEF ClaimsNeverBlock
<1> QED
  BY <1>1, <1>2, InitClaim, Invariance, AnswerInvariance, PTL DEF Spec

=============================================================================

------------------------------ MODULE RPCHandler ------------------------------
(* rpcHandlerImpl (pkg/server/rpc.go) on every server: the run loop, one       *)
(* goroutine per request it takes (a task), claim negotiation, and graceful    *)
(* or forced close.                                                            *)
(*                                                                             *)
(* The run loop is one goroutine. It takes requests, and it routes each        *)
(* ClaimResponse to the channel that h.claims holds for the request: first the *)
(* lookup under the lock, then a send outside it that blocks while the channel *)
(* (capacity 1) is full. routing[s] holds what it is sending.                  *)
EXTENDS RPCNet

CONSTANTS NoCopy, \* no entry in h.claims
          Legacy, \* servers that predate Request.NoClaim and bid on a queue RPC
          Closable \* bound: the servers whose handler may be closed

ASSUME HandlerAssumption ==
    NoCopy \notin Copies /\ Legacy \subseteq Servers /\ Closable \subseteq Servers

VARIABLES task,      \* progress of each task
          claims,    \* h.claims: the task whose channel a request maps to
          claimChan, \* contents of each task's claimResponseChan
          routing,   \* what the run loop of each server is blocked sending
          loopExit,  \* servers whose run loop has returned
          drained,   \* servers whose drained channel is closed
          closing    \* progress of h.close on each server

handlerVars == <<task, claims, claimChan, routing, loopExit, drained, closing>>

(* "granted", "lost", "timedOut" and "failed" are the outcomes of claimRequest *)
(* before its deferred delete; "ended" is a task that ran no handler.          *)
TaskStates ==
    {"none", "started", "registered", "waiting", "granted", "lost", "timedOut",
     "failed", "running", "responded", "ended"}

Routed == [grant: Grants, chan: Copies]

HandlerTypeOK ==
    /\ task \in [Tasks -> TaskStates]
    /\ claims \in [Servers \X Requests -> Copies \cup {NoCopy}]
    /\ claimChan \in [Tasks -> SUBSET Grants]
    /\ routing \in [Servers -> SUBSET Routed]
    /\ loopExit \subseteq Servers
    /\ drained \subseteq Servers
    /\ closing \in [Servers -> {"open", "graceful", "forced", "complete", "killed"}]

HandlerInit ==
    /\ task = [t \in Tasks |-> "none"]
    /\ claims = [sr \in Servers \X Requests |-> NoCopy]
    /\ claimChan = [t \in Tasks |-> {}]
    /\ routing = [s \in Servers |-> {}]
    /\ loopExit = {}
    /\ drained = {}
    /\ closing = [s \in Servers |-> "open"]

(* h.handling counts the task.                                                 *)
InFlight(t) == task[t] \notin {"none", "responded", "ended"}

InFlightAt(s) == {t \in Tasks : t[1] = s /\ InFlight(t)}

(* The handler function of the service has been entered.                       *)
Ran(t) == task[t] \in {"running", "responded"}

(* The run loop is at its select.                                              *)
AtSelect(s) == routing[s] = {} /\ s \notin loopExit

-----------------------------------------------------------------------------
(* The run loop.                                                               *)

(* A request is taken; an expired one is dropped.                              *)
TakeRequest(t) ==
    /\ t \in reqNet
    /\ AtSelect(t[1])
    /\ reqNet' = reqNet \ {t}
    /\ task' = [task EXCEPT ![t] = IF t[2] \in expired THEN "ended" ELSE "started"]
    /\ UNCHANGED <<subscribed, bidNet, grantNet, resNet, expired>>
    /\ UNCHANGED <<claims, claimChan, routing, loopExit, drained, closing>>

(* The request channel is closed and empty.                                    *)
MutDrain(s) ==
    /\ s \notin subscribed
    /\ AtSelect(s)
    /\ \A t \in reqNet : t[1] # s
    /\ loopExit' = loopExit \cup {s}
    /\ UNCHANGED netVars
    /\ UNCHANGED <<task, claims, claimChan, routing, drained, closing>>

Drain(s) ==
    /\ s \notin subscribed
    /\ s \notin drained
    /\ AtSelect(s)
    /\ \A t \in reqNet : t[1] # s
    /\ drained' = drained \cup {s}
    /\ UNCHANGED netVars
    /\ UNCHANGED <<task, claims, claimChan, routing, loopExit, closing>>

(* A ClaimResponse is taken and its channel looked up.                         *)
TakeGrant(g) ==
    /\ g \in grantNet
    /\ AtSelect(g.to)
    /\ grantNet' = grantNet \ {g}
    /\ routing' = [routing EXCEPT ![g.to] =
                     IF claims[<<g.to, g.req>>] = NoCopy THEN {}
                     ELSE {[grant |-> g, chan |-> claims[<<g.to, g.req>>]]}]
    /\ UNCHANGED <<subscribed, reqNet, bidNet, resNet, expired>>
    /\ UNCHANGED <<task, claims, claimChan, loopExit, drained, closing>>

(* claimChan <- claim: the capacity of the channel is one.                     *)
SendGrant(s) ==
    /\ \E m \in routing[s] :
        LET t == <<s, m.grant.req, m.chan>>
        IN  /\ claimChan[t] = {}
            /\ claimChan' = [claimChan EXCEPT ![t] = {m.grant}]
    /\ routing' = [routing EXCEPT ![s] = {}]
    /\ UNCHANGED netVars
    /\ UNCHANGED <<task, claims, loopExit, drained, closing>>

LoopReturns(s) ==
    /\ AtSelect(s)
    /\ closing[s] \in {"complete", "killed"}
    /\ loopExit' = loopExit \cup {s}
    /\ UNCHANGED netVars
    /\ UNCHANGED <<task, claims, claimChan, routing, drained, closing>>

-----------------------------------------------------------------------------
(* handleRequest and claimRequest, one task.                                   *)

Advance(t, to) == task' = [task EXCEPT ![t] = to]

(* The payload does not decode: answered before any claim.                     *)
MutRejectMalformed(t) ==
    /\ task[t] = "started"
    /\ PublishResponse(t, FALSE)
    /\ Advance(t, "ended")
    /\ UNCHANGED <<subscribed, reqNet, bidNet, grantNet, expired>>
    /\ UNCHANGED <<claims, claimChan, routing, loopExit, drained, closing>>

RejectMalformed(t) ==
    /\ task[t] = "started"
    /\ PublishResponse(t, TRUE)
    /\ Advance(t, "ended")
    /\ UNCHANGED <<subscribed, reqNet, bidNet, grantNet, expired>>
    /\ UNCHANGED <<claims, claimChan, routing, loopExit, drained, closing>>

(* A request from this client carries NoClaim = Queue.                         *)
NeedsClaim(s) == RequireClaim /\ (Queue => s \in Legacy)

RunUnclaimed(t) ==
    /\ task[t] = "started"
    /\ ~NeedsClaim(t[1])
    /\ Advance(t, "running")
    /\ UNCHANGED netVars
    /\ UNCHANGED <<claims, claimChan, routing, loopExit, drained, closing>>

(* The affinity function declines. A queue RPC has none.                       *)
Decline(t) ==
    /\ task[t] = "started"
    /\ NeedsClaim(t[1])
    /\ ~Queue
    /\ \E a \in Affinities : a < 0
    /\ Advance(t, "ended")
    /\ UNCHANGED netVars
    /\ UNCHANGED <<claims, claimChan, routing, loopExit, drained, closing>>

RegisterClaim(t) ==
    /\ task[t] = "started"
    /\ NeedsClaim(t[1])
    /\ Advance(t, "registered")
    /\ claims' = [claims EXCEPT ![<<t[1], t[2]>>] = t[3]]
    /\ UNCHANGED netVars
    /\ UNCHANGED <<claimChan, routing, loopExit, drained, closing>>

Bid(t) ==
    /\ task[t] = "registered"
    /\ \E a \in Affinities : a >= 0 /\ PublishBid(t, a)
    /\ Advance(t, "waiting")
    /\ UNCHANGED <<subscribed, reqNet, grantNet, resNet, expired>>
    /\ UNCHANGED <<claims, claimChan, routing, loopExit, drained, closing>>

BidFails(t) ==
    /\ task[t] = "registered"
    /\ Advance(t, "failed")
    /\ UNCHANGED netVars
    /\ UNCHANGED <<claims, claimChan, routing, loopExit, drained, closing>>

(* The answer to the bid names this server or another.                         *)
MutDecide(t) ==
    /\ task[t] = "waiting"
    /\ claimChan[t] # {}
    /\ Advance(t, "granted")
    /\ claimChan' = [claimChan EXCEPT ![t] = {}]
    /\ UNCHANGED netVars
    /\ UNCHANGED <<claims, routing, loopExit, drained, closing>>

Decide(t) ==
    /\ task[t] = "waiting"
    /\ \E g \in claimChan[t] :
        Advance(t, IF g.server = t[1] THEN "granted" ELSE "lost")
    /\ claimChan' = [claimChan EXCEPT ![t] = {}]
    /\ UNCHANGED netVars
    /\ UNCHANGED <<claims, routing, loopExit, drained, closing>>

(* The timer set to the request's expiry fires first.                          *)
ClaimTimesOut(t) ==
    /\ task[t] = "waiting"
    /\ t[2] \in expired
    /\ Advance(t, "timedOut")
    /\ UNCHANGED netVars
    /\ UNCHANGED <<claims, claimChan, routing, loopExit, drained, closing>>

(* The deferred delete removes the entry of the request, whoever's it is.      *)
MutLeaveClaim(t) ==
    /\ task[t] \in {"granted", "lost", "timedOut", "failed"}
    /\ Advance(t, IF task[t] = "lost" THEN "ended" ELSE "running")
    /\ claims' = [claims EXCEPT ![<<t[1], t[2]>>] = NoCopy]
    /\ UNCHANGED netVars
    /\ UNCHANGED <<claimChan, routing, loopExit, drained, closing>>

LeaveClaim(t) ==
    /\ task[t] \in {"granted", "lost", "timedOut", "failed"}
    /\ Advance(t, IF task[t] = "granted" THEN "running" ELSE "ended")
    /\ claims' = [claims EXCEPT ![<<t[1], t[2]>>] = NoCopy]
    /\ UNCHANGED netVars
    /\ UNCHANGED <<claimChan, routing, loopExit, drained, closing>>

(* The handler returns and its result is published.                            *)
Respond(t) ==
    /\ task[t] = "running"
    /\ \E isErr \in BOOLEAN : PublishResponse(t, isErr)
    /\ Advance(t, "responded")
    /\ UNCHANGED <<subscribed, reqNet, bidNet, grantNet, expired>>
    /\ UNCHANGED <<claims, claimChan, routing, loopExit, drained, closing>>

-----------------------------------------------------------------------------
(* close(force), once.                                                         *)

(* requestSub.Close: the requests that its channel has buffered stay readable, *)
(* the others are dropped.                                                     *)
BeginClose(s, force) ==
    /\ closing[s] = "open"
    /\ s \in Closable
    /\ subscribed' = subscribed \ {s}
    /\ \E kept \in SUBSET {t \in reqNet : t[1] = s} :
        reqNet' = {t \in reqNet : t[1] # s} \cup kept
    /\ closing' = [closing EXCEPT ![s] = IF force THEN "forced" ELSE "graceful"]
    /\ UNCHANGED <<bidNet, grantNet, resNet, expired>>
    /\ UNCHANGED <<task, claims, claimChan, routing, loopExit, drained>>

(* <-drained and handling.Wait, then claimSub.Close and close(complete).       *)
MutFinishGraceful(s) ==
    /\ closing[s] = "graceful"
    /\ InFlightAt(s) = {}
    /\ closing' = [closing EXCEPT ![s] = "complete"]
    /\ UNCHANGED netVars
    /\ UNCHANGED <<task, claims, claimChan, routing, loopExit, drained>>

FinishGraceful(s) ==
    /\ closing[s] = "graceful"
    /\ s \in drained
    /\ InFlightAt(s) = {}
    /\ closing' = [closing EXCEPT ![s] = "complete"]
    /\ UNCHANGED netVars
    /\ UNCHANGED <<task, claims, claimChan, routing, loopExit, drained>>

FinishForced(s) ==
    /\ closing[s] = "forced"
    /\ closing' = [closing EXCEPT ![s] = "killed"]
    /\ UNCHANGED netVars
    /\ UNCHANGED <<task, claims, claimChan, routing, loopExit, drained>>

-----------------------------------------------------------------------------
TaskStep(t) ==
    \/ RejectMalformed(t) \/ RunUnclaimed(t) \/ Decline(t) \/ RegisterClaim(t)
    \/ Bid(t) \/ BidFails(t) \/ Decide(t) \/ ClaimTimesOut(t) \/ LeaveClaim(t)
    \/ Respond(t)

LoopStep(s) == Drain(s) \/ SendGrant(s) \/ LoopReturns(s)

CloseStep(s) == FinishGraceful(s) \/ FinishForced(s)

HandlerNext ==
    \/ \E t \in Tasks : TakeRequest(t) \/ TaskStep(t)
    \/ \E g \in grantNet : TakeGrant(g)
    \/ \E s \in Servers :
        \/ LoopStep(s) \/ CloseStep(s)
        \/ \E force \in BOOLEAN : BeginClose(s, force)

=============================================================================

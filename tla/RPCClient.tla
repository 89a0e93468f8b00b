------------------------------- MODULE RPCClient -------------------------------
(* A client making single-response calls: newRPC (pkg/client/rpc.go) for each  *)
(* request, and the dispatcher goroutine of NewRPCClient (pkg/client/client.go)*)
(* that all calls share. The dispatcher looks a message's channel up under the *)
(* client's lock and sends outside it, so it blocks while the channel is full. *)
EXTENDS RPCNet

CONSTANTS ChannelSize, \* capacity of a call's claim channel
          OptsSet,     \* selection options that callers use
          ClientCloses \* bound: whether the client may be closed

ASSUME ClientAssumption ==
    /\ ChannelSize \in Nat \ {0}
    /\ OptsSet \subseteq SelectionOpts
    /\ ClientCloses \in BOOLEAN

VARIABLES callPc,     \* where each call is in newRPC
          opts,       \* its selection options
          ctx,        \* its context: live, canceled or timedOut
          sel,        \* its locals in selectServerUntil
          selDone,    \* its selection timer has fired
          choice,     \* the server it grants, once decided
          result,     \* what it returned
          registered, \* entries of claimRequests and responseChannels
          bidChan,    \* contents of each call's claim channel
          resChan,    \* contents of each call's response channel, capacity 1
          sendingBid, \* the claim the dispatcher is sending
          sendingRes, \* the response the dispatcher is sending
          closed,     \* the closed fuse
          dispExit    \* the dispatcher has returned

callVars == <<callPc, opts, ctx, sel, selDone, choice, result>>
chanVars == <<registered, bidChan, resChan>>
dispVars == <<sendingBid, sendingRes, closed, dispExit>>
clientVars == <<callVars, chanVars, dispVars>>

ResultKinds ==
    {"none", "ok", "err", "unanswered", "timedOut", "canceled", "closed",
     "invalid", "internal", "malformed", "selectionError", "responseError",
     "noServers", "noResponse"}

Results == [kind: ResultKinds, server: Servers \cup {NoServer}]

NoResult == [kind |-> "none", server |-> NoServer]

ClientTypeOK ==
    /\ callPc \in [Requests -> {"idle", "publish", "select", "grant", "wait",
                                "return", "done"}]
    /\ opts \in [Requests -> OptsSet]
    /\ ctx \in [Requests -> {"live", "canceled", "timedOut"}]
    /\ sel \in [Requests -> SelState]
    /\ selDone \subseteq Requests
    /\ choice \in [Requests -> Servers \cup {NoServer}]
    /\ result \in [Requests -> Results]
    /\ registered \subseteq Requests
    /\ bidChan \in [Requests -> Seq(Bids)]
    /\ resChan \in [Requests -> SUBSET Responses]
    /\ sendingBid \subseteq Bids
    /\ sendingRes \subseteq Responses
    /\ closed \in BOOLEAN
    /\ dispExit \in BOOLEAN

ClientInit ==
    /\ callPc = [r \in Requests |-> "idle"]
    /\ opts \in [Requests -> OptsSet]
    /\ ctx = [r \in Requests |-> "live"]
    /\ sel = [r \in Requests |-> SelInit]
    /\ selDone = {}
    /\ choice = [r \in Requests |-> NoServer]
    /\ result = [r \in Requests |-> NoResult]
    /\ registered = {}
    /\ bidChan = [r \in Requests |-> <<>>]
    /\ resChan = [r \in Requests |-> {}]
    /\ sendingBid = {}
    /\ sendingRes = {}
    /\ closed = FALSE
    /\ dispExit = FALSE

Goto(r, pc) == callPc' = [callPc EXCEPT ![r] = pc]

(* The call has its result; its deferred calls are still to run.               *)
Finish(r, kind, server) ==
    /\ Goto(r, "return")
    /\ result' = [result EXCEPT ![r] = [kind |-> kind, server |-> server]]

-----------------------------------------------------------------------------
(* RequestSingle and newRPC.                                                   *)

(* "A queue rpc has one candidate, so there is nothing for these to select on" *)
SelectsOnQueue(r) ==
    Queue /\ (opts[r].selectionFunc \/ opts[r].min > 0 \/ opts[r].max > 0)

(* Refused before anything is registered.                                      *)
CallRefused(r) ==
    /\ callPc[r] = "idle"
    /\ closed \/ SelectsOnQueue(r)
    /\ Goto(r, "done")
    /\ result' = [result EXCEPT ![r] =
                    [kind |-> IF closed THEN "closed" ELSE "invalid",
                     server |-> NoServer]]
    /\ UNCHANGED <<opts, ctx, sel, selDone, choice, netVars, chanVars, dispVars>>

Call(r) ==
    /\ callPc[r] = "idle"
    /\ ~closed
    /\ ~SelectsOnQueue(r)
    /\ Goto(r, "publish")
    /\ registered' = registered \cup {r}
    /\ UNCHANGED <<opts, ctx, sel, selDone, choice, result, bidChan, resChan>>
    /\ UNCHANGED <<netVars, dispVars>>

Selects == RequireClaim /\ ~Queue

PublishRequest(r) ==
    /\ callPc[r] = "publish"
    /\ PublishRequestTo(r)
    /\ Goto(r, IF Selects THEN "select" ELSE "wait")
    /\ UNCHANGED <<subscribed, bidNet, grantNet, expired>>
    /\ UNCHANGED <<opts, ctx, sel, selDone, choice, result, chanVars, dispVars>>

PublishFails(r) ==
    /\ callPc[r] = "publish"
    /\ Finish(r, "internal", NoServer)
    /\ UNCHANGED <<opts, ctx, sel, selDone, choice, netVars, chanVars, dispVars>>

(* The caller's context ends. Its deadline is Timeout after the publication    *)
(* returned, or the caller's own, so it is never before the request's Expiry.  *)
ContextEnds(r, why) ==
    /\ callPc[r] \in {"select", "grant", "wait"}
    /\ ctx[r] = "live"
    /\ why = "timedOut" => r \in expired
    /\ ctx' = [ctx EXCEPT ![r] = why]
    /\ UNCHANGED <<callPc, opts, sel, selDone, choice, result>>
    /\ UNCHANGED <<netVars, chanVars, dispVars>>

(* AffinityTimeout, or ShortCircuitTimeout after the first eligible claim.     *)
SelectionTimer(r) ==
    /\ callPc[r] = "select"
    /\ r \notin selDone
    /\ opts[r].affinityTimeout \/ sel[r].shorted
    /\ selDone' = selDone \cup {r}
    /\ UNCHANGED <<callPc, opts, ctx, sel, choice, result>>
    /\ UNCHANGED <<netVars, chanVars, dispVars>>

(* The selection has chosen a server.                                          *)
Choose(r, server) ==
    /\ choice' = [choice EXCEPT ![r] = server]
    /\ Goto(r, "grant")

SelectDone(r) ==
    /\ callPc[r] = "select"
    /\ r \in selDone \/ ctx[r] # "live"
    /\ \E o \in OnDone(sel[r], opts[r]) :
        \/ o.kind = "grant" /\ Choose(r, o.server) /\ UNCHANGED result
        \/ o.kind # "grant" /\ Finish(r, o.kind, NoServer) /\ UNCHANGED choice
    /\ sel' = [sel EXCEPT ![r] = SelInit]
    /\ UNCHANGED <<opts, ctx, selDone, netVars, chanVars, dispVars>>

ClaimOf(bid) == [server |-> bid.task[1], affinity |-> bid.affinity]

SelectClaim(r) ==
    /\ callPc[r] = "select"
    /\ bidChan[r] # <<>>
    /\ bidChan' = [bidChan EXCEPT ![r] = Tail(@)]
    /\ LET claim == ClaimOf(Head(bidChan[r]))
       IN  \/ /\ AcceptsNow(claim, opts[r])
              /\ Choose(r, claim.server)
              /\ sel' = [sel EXCEPT ![r] = SelInit]
           \/ /\ ~AcceptsNow(claim, opts[r])
              /\ sel' = [sel EXCEPT ![r] = OnClaim(@, claim, opts[r])]
              /\ UNCHANGED <<callPc, choice>>
    /\ UNCHANGED <<opts, ctx, selDone, result, registered, resChan>>
    /\ UNCHANGED <<netVars, dispVars>>

(* What a response means to the caller. The payload of a success may fail to   *)
(* decode, which the caller sees as MalformedResponse.                         *)
Meanings(m) ==
    IF m.task[1] = NoServer THEN {"unanswered"}
    ELSE IF m.isErr THEN {"err"} ELSE {"ok", "malformed"}

Answer(r, m) == \E kind \in Meanings(m) : Finish(r, kind, m.task[1])

SelectResponse(r) ==
    /\ callPc[r] = "select"
    /\ \E m \in resChan[r] :
        \/ /\ m.isErr
           /\ sel' = [sel EXCEPT ![r] = OnErrorResponse(@)]
           /\ UNCHANGED <<callPc, result>>
        \/ /\ ~m.isErr
           /\ Answer(r, m)
           /\ sel' = [sel EXCEPT ![r] = SelInit]
    /\ resChan' = [resChan EXCEPT ![r] = {}]
    /\ UNCHANGED <<opts, ctx, selDone, choice, registered, bidChan>>
    /\ UNCHANGED <<netVars, dispVars>>

MutGrantRetried(r) ==
    /\ callPc[r] = "grant"
    /\ PublishGrant(r, choice[r])
    /\ Goto(r, "wait") \/ UNCHANGED callPc
    /\ UNCHANGED <<subscribed, reqNet, bidNet, resNet, expired>>
    /\ UNCHANGED <<opts, ctx, sel, selDone, choice, result, chanVars, dispVars>>

MutGrantReselects(r) ==
    /\ callPc[r] = "grant"
    /\ PublishGrant(r, choice[r])
    /\ Goto(r, "select")
    /\ UNCHANGED <<subscribed, reqNet, bidNet, resNet, expired>>
    /\ UNCHANGED <<opts, ctx, sel, selDone, choice, result, chanVars, dispVars>>

Grant(r) ==
    /\ callPc[r] = "grant"
    /\ PublishGrant(r, choice[r])
    /\ Goto(r, "wait")
    /\ UNCHANGED <<subscribed, reqNet, bidNet, resNet, expired>>
    /\ UNCHANGED <<opts, ctx, sel, selDone, choice, result, chanVars, dispVars>>

GrantFails(r) ==
    /\ callPc[r] = "grant"
    /\ Finish(r, "internal", NoServer)
    /\ UNCHANGED <<opts, ctx, sel, selDone, choice, netVars, chanVars, dispVars>>

WaitResponse(r) ==
    /\ callPc[r] = "wait"
    /\ \E m \in resChan[r] : Answer(r, m)
    /\ resChan' = [resChan EXCEPT ![r] = {}]
    /\ UNCHANGED <<opts, ctx, sel, selDone, choice, registered, bidChan>>
    /\ UNCHANGED <<netVars, dispVars>>

(* A server that predates NoClaim bids on a queue RPC: the first bid is        *)
(* granted and bids is set to nil.                                             *)
WaitBid(r) ==
    /\ callPc[r] = "wait"
    /\ Queue
    /\ choice[r] = NoServer
    /\ bidChan[r] # <<>>
    /\ bidChan' = [bidChan EXCEPT ![r] = Tail(@)]
    /\ Choose(r, Head(bidChan[r]).task[1])
    /\ UNCHANGED <<opts, ctx, sel, selDone, result, registered, resChan>>
    /\ UNCHANGED <<netVars, dispVars>>

WaitDone(r) ==
    /\ callPc[r] = "wait"
    /\ ctx[r] # "live"
    /\ Finish(r, ctx[r], NoServer)
    /\ UNCHANGED <<opts, ctx, sel, selDone, choice, netVars, chanVars, dispVars>>

(* The closed fuse ends a selection and a wait alike.                          *)
ClosedReturns(r) ==
    /\ callPc[r] \in {"select", "wait"}
    /\ closed
    /\ Finish(r, "closed", NoServer)
    /\ sel' = [sel EXCEPT ![r] = SelInit]
    /\ UNCHANGED <<opts, ctx, selDone, choice, netVars, chanVars, dispVars>>

(* The deferred deletes, then the return to the caller.                        *)
Return(r) ==
    /\ callPc[r] = "return"
    /\ Goto(r, "done")
    /\ registered' = registered \ {r}
    /\ UNCHANGED <<opts, ctx, sel, selDone, choice, result, bidChan, resChan>>
    /\ UNCHANGED <<netVars, dispVars>>

-----------------------------------------------------------------------------
(* The dispatcher.                                                             *)
AtDispatch == ~dispExit /\ sendingBid = {} /\ sendingRes = {}

RouteClaim(b) ==
    /\ b \in bidNet
    /\ AtDispatch
    /\ bidNet' = bidNet \ {b}
    /\ sendingBid' = IF RequireClaim /\ b.task[2] \in registered THEN {b} ELSE {}
    /\ UNCHANGED <<subscribed, reqNet, grantNet, resNet, expired>>
    /\ UNCHANGED <<callVars, chanVars, sendingRes, closed, dispExit>>

SendClaim ==
    /\ \E b \in sendingBid :
        /\ Len(bidChan[b.task[2]]) < ChannelSize
        /\ bidChan' = [bidChan EXCEPT ![b.task[2]] = Append(@, b)]
    /\ sendingBid' = {}
    /\ UNCHANGED <<netVars, callVars, registered, resChan>>
    /\ UNCHANGED <<sendingRes, closed, dispExit>>

RouteResponse(m) ==
    /\ m \in resNet
    /\ AtDispatch
    /\ resNet' = resNet \ {m}
    /\ sendingRes' = IF m.task[2] \in registered THEN {m} ELSE {}
    /\ UNCHANGED <<subscribed, reqNet, bidNet, grantNet, expired>>
    /\ UNCHANGED <<callVars, chanVars, sendingBid, closed, dispExit>>

MutSendResponseUnbuffered ==
    /\ \E m \in sendingRes :
        /\ callPc[m.task[2]] \in {"select", "wait"}
        /\ resChan[m.task[2]] = {}
        /\ resChan' = [resChan EXCEPT ![m.task[2]] = {m}]
    /\ sendingRes' = {}
    /\ UNCHANGED <<netVars, callVars, registered, bidChan>>
    /\ UNCHANGED <<sendingBid, closed, dispExit>>

SendResponse ==
    /\ \E m \in sendingRes :
        /\ resChan[m.task[2]] = {}
        /\ resChan' = [resChan EXCEPT ![m.task[2]] = {m}]
    /\ sendingRes' = {}
    /\ UNCHANGED <<netVars, callVars, registered, bidChan>>
    /\ UNCHANGED <<sendingBid, closed, dispExit>>

DispatcherReturns ==
    /\ closed
    /\ AtDispatch
    /\ dispExit' = TRUE
    /\ UNCHANGED <<netVars, callVars, chanVars, sendingBid, sendingRes, closed>>

(* Close breaks the fuse.                                                      *)
CloseClient ==
    /\ ClientCloses
    /\ ~closed
    /\ closed' = TRUE
    /\ UNCHANGED <<netVars, callVars, chanVars, sendingBid, sendingRes, dispExit>>

-----------------------------------------------------------------------------
CallStep(r) ==
    \/ PublishRequest(r) \/ PublishFails(r) \/ SelectDone(r) \/ SelectClaim(r)
    \/ SelectResponse(r) \/ Grant(r) \/ GrantFails(r) \/ WaitResponse(r)
    \/ WaitBid(r) \/ WaitDone(r) \/ ClosedReturns(r) \/ Return(r)

DispatchStep == SendClaim \/ SendResponse \/ DispatcherReturns

ClientNext ==
    \/ \E r \in Requests :
        \/ CallRefused(r) \/ Call(r) \/ CallStep(r) \/ SelectionTimer(r)
        \/ \E why \in {"canceled", "timedOut"} : ContextEnds(r, why)
    \/ \E b \in bidNet : RouteClaim(b)
    \/ \E m \in resNet : RouteResponse(m)
    \/ DispatchStep
    \/ CloseClient

=============================================================================

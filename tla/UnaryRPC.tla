------------------------------- MODULE UnaryRPC -------------------------------
(* Single-response RPCs end to end: one client (RPCClient) and the servers     *)
(* that registered the method (RPCHandler), over the bus and the clock of      *)
(* RPCNet. A request is published, servers bid, the client grants one of the   *)
(* bids to all, and the server it names runs the handler and responds.         *)
EXTENDS RPCClient, RPCHandler

vars == <<netVars, clientVars, handlerVars>>

Init == NetInit /\ ClientInit /\ HandlerInit

Tick(r) == Expire(r) /\ UNCHANGED <<clientVars, handlerVars>>

Next ==
    \/ ClientNext /\ UNCHANGED handlerVars
    \/ HandlerNext /\ UNCHANGED clientVars
    \/ \E r \in Requests : Tick(r)

(* Goroutines that can run do run: a call, a task, the dispatcher and a run    *)
(* loop at a ready send, h.close. The clock advances and timers fire. Taking a *)
(* message off the bus is fair only for the requests a closing subscription    *)
(* still buffers in the process; any other message may be lost. Nobody has to  *)
(* call, cancel or close.                                                      *)
Fairness ==
    /\ \A r \in Requests :
        /\ WF_vars(CallStep(r) /\ UNCHANGED handlerVars)
        /\ WF_vars(ContextEnds(r, "timedOut") /\ UNCHANGED handlerVars)
        /\ WF_vars(Tick(r))
    /\ WF_vars(DispatchStep /\ UNCHANGED handlerVars)
    /\ \A t \in Tasks :
        /\ WF_vars(TaskStep(t) /\ UNCHANGED clientVars)
        /\ WF_vars(t[1] \notin subscribed /\ TakeRequest(t) /\ UNCHANGED clientVars)
    /\ \A s \in Servers :
        /\ WF_vars(LoopStep(s) /\ UNCHANGED clientVars)
        /\ WF_vars(CloseStep(s) /\ UNCHANGED clientVars)

Spec == Init /\ [][Next]_vars

FairSpec == Spec /\ Fairness

TypeOK == NetTypeOK /\ ClientTypeOK /\ HandlerTypeOK

-----------------------------------------------------------------------------
(* Safety.                                                                     *)

(* However bids, grants, timeouts and closes interleave, at most one server    *)
(* enters the handler of a request that needs a claim, though every server     *)
(* that bid hears of the same grant: a task compares the server it names with  *)
(* its own, and a call makes one choice.                                       *)
SingleServer ==
    RequireClaim =>
        \A t, u \in Tasks : (Ran(t) /\ Ran(u) /\ t[2] = u[2]) => t[1] = u[1]

(* A server that needs a claim enters the handler only for a request whose     *)
(* caller chose it: not when its bid lost, timed out or failed to go out, and  *)
(* not on a grant meant for another.                                           *)
OnlyChosenRuns ==
    \A t \in Tasks : (Ran(t) /\ NeedsClaim(t[1])) => choice[t[2]] = t[1]

(* What a caller is told is true of the servers. A success, and a payload that *)
(* does not decode, come from a server that ran the handler to the end for     *)
(* this very request; an error response from one that took the request; and a  *)
(* report that nothing received the request means that no server takes it,     *)
(* then or later.                                                              *)
ResultIsTheServers ==
    \A r \in Requests :
        /\ result[r].kind \in {"ok", "malformed"} =>
            \E c \in Copies : task[<<result[r].server, r, c>>] = "responded"
        /\ result[r].kind = "err" =>
            \E c \in Copies : task[<<result[r].server, r, c>>] \in {"responded", "ended"}
        /\ result[r].kind = "unanswered" =>
            \A t \in Tasks : t[2] = r => task[t] = "none" /\ t \notin reqNet

(* A graceful close of a handler returns only once every request its run loop  *)
(* took has been handled, and no request is taken afterwards.                  *)
GracefulCloseIsQuiet ==
    \A s \in Servers : closing[s] = "complete" =>
        /\ InFlightAt(s) = {}
        /\ \A t \in reqNet : t[1] # s

(* On a bus that delivers at most once no goroutine that others depend on      *)
(* waits for a claim channel. A run loop finds room for the one answer that a  *)
(* task gets to its bid, even when the task has gone, and the dispatcher of    *)
(* the client finds room for a bid from each server.                           *)
ClaimsNeverBlock ==
    /\ \A s \in Servers : \A m \in routing[s] : claimChan[<<s, m.grant.req, m.chan>>] = {}
    /\ \A b \in sendingBid : Len(bidChan[b.task[2]]) < ChannelSize

-----------------------------------------------------------------------------
(* Once a call has decided which server to grant it never grants another.      *)
ChoiceIsFinal ==
    [][\A r \in Requests : choice[r] # NoServer => choice'[r] = choice[r]]_vars

(* Refinement.                                                                 *)
RanAt == {<<t[1], t[2]>> : t \in {u \in Tasks : Ran(u)}}

Succeeded == [r \in Requests |-> IF result[r].kind = "ok" THEN result[r].server ELSE NoServer]

A == INSTANCE Assignment WITH owner <- choice, started <- RanAt, answer <- Succeeded

(* Claim negotiation implements the assignment of each request to one server:  *)
(* a call never changes its choice once it has made it, whatever is lost,      *)
(* late or closed, no server runs a request that is not its own, and every     *)
(* success that a caller is given was some server's that ran the request.      *)
ImplementsAssignment == A!Spec

-----------------------------------------------------------------------------
(* Liveness.                                                                   *)

(* Every call returns, whether or not the bus loses its messages, servers      *)
(* close, or the dispatcher is busy.                                           *)
CallsReturn == \A r \in Requests : callPc[r] # "idle" ~> callPc[r] = "done"

(* Every task that a run loop starts ends, a graceful close returns, and the   *)
(* run loop of a closed handler exits.                                         *)
HandlersEnd ==
    /\ \A t \in Tasks : InFlight(t) ~> ~InFlight(t)
    /\ \A s \in Servers : closing[s] # "open" ~>
                            closing[s] \in {"complete", "killed"} /\ s \in loopExit

(* Nothing that others wait for hangs, over a bus that may lose anything.      *)
NothingHangs == CallsReturn /\ HandlersEnd

(* The dispatcher holds a second response for a call that has returned: the    *)
(* first one fills the channel, which nobody reads any more (client.go:187).   *)
DispatcherBlocked ==
    \E m \in sendingRes : callPc[m.task[2]] = "done" /\ resChan[m.task[2]] # {}

(* What happens by itself: the steps that Fairness names.                      *)
FairStep ==
    \/ \E r \in Requests : Tick(r)
    \/ /\ DispatchStep \/ \E r \in Requests : CallStep(r) \/ ContextEnds(r, "timedOut")
       /\ UNCHANGED handlerVars
    \/ /\ \/ \E t \in Tasks : TaskStep(t) \/ (t[1] \notin subscribed /\ TakeRequest(t))
          \/ \E s \in Servers : LoopStep(s) \/ CloseStep(s)
       /\ UNCHANGED clientVars

(* Every call has returned, no task is in flight, closes have returned and the *)
(* goroutines of what is closed have exited, but for a blocked dispatcher.     *)
Settled ==
    /\ \A r \in Requests : callPc[r] \in {"idle", "done"}
    /\ \A t \in Tasks : ~InFlight(t)
    /\ \A s \in Servers : closing[s] = "open" \/ (closing[s] \in {"complete", "killed"} /\ s \in loopExit)
    /\ closed => dispExit \/ DispatcherBlocked

(* Whenever nothing can happen by itself, everything has been done. No step    *)
(* can be undone, so that a behaviour has finitely many, and what happens by   *)
(* itself comes to such a state: out of the selection, with timers, lost bids  *)
(* and closes on either side, and after Close out of the dispatcher, unless    *)
(* two servers' answers to one request have blocked it for good.               *)
NothingStuck == Settled \/ ENABLED FairStep

=============================================================================

------------------------------- MODULE MultiRPC -------------------------------
(* Calls that every server may answer: multiRPC (pkg/client/multi.go) and the  *)
(* dispatcher goroutine of its client, against the handlers of the servers     *)
(* (module RPCHandler, for a method that needs no claim). A call returns a     *)
(* channel as soon as its request is published; a goroutine of the call moves  *)
(* responses from the channel that the dispatcher fills to the one the caller  *)
(* reads, until its timer fires or its context or the client ends.             *)
EXTENDS RPCHandler, FiniteSets

CONSTANT ChannelSize \* capacity of both channels of a call

ASSUME MultiAssumption ==
    /\ ChannelSize \in Nat \ {0}
    /\ ~RequireClaim

VARIABLES readers,    \* calls whose caller reads until the channel is closed
          sendPc,     \* where each RequestMulti is
          worker,     \* its handleResponses goroutine
          registered, \* entries of responseChannels
          inner,      \* contents of the channel the dispatcher fills
          holding,    \* the response that the goroutine is in Recv with
          outer,      \* contents of the channel the caller reads
          taken,      \* history: responses the goroutine took
          delivered,  \* history: responses the caller read
          dropped,    \* history: responses Recv gave up because the client closed
          canceled,   \* calls whose caller's context ended
          sendingRes, \* the response the dispatcher is sending
          closed,     \* the closed fuse
          dispExit    \* the dispatcher has returned

chanVars == <<registered, inner, holding, outer, taken, delivered, dropped>>
dispVars == <<sendingRes, closed, dispExit>>
callVars == <<readers, sendPc>>
clientVars == <<callVars, worker, chanVars, canceled, dispVars>>
vars == <<netVars, handlerVars, clientVars>>

ChanTypeOK ==
    /\ inner \in [Requests -> SUBSET Responses]
    /\ holding \in [Requests -> SUBSET Responses]
    /\ outer \in [Requests -> SUBSET Responses]
    /\ taken \in [Requests -> SUBSET Responses]
    /\ delivered \in [Requests -> SUBSET Responses]
    /\ dropped \in [Requests -> SUBSET Responses]

ClientTypeOK ==
    /\ readers \subseteq Requests
    /\ sendPc \in [Requests -> {"idle", "publish", "sent", "failed"}]
    /\ worker \in [Requests -> {"none", "select", "recv", "exited"}]
    /\ registered \subseteq Requests
    /\ ChanTypeOK
    /\ canceled \subseteq Requests
    /\ sendingRes \subseteq Responses
    /\ closed \in BOOLEAN /\ dispExit \in BOOLEAN

TypeOK == NetTypeOK /\ HandlerTypeOK /\ ClientTypeOK

Init ==
    /\ NetInit /\ HandlerInit
    /\ readers \in SUBSET Requests
    /\ sendPc = [r \in Requests |-> "idle"]
    /\ worker = [r \in Requests |-> "none"]
    /\ registered = {}
    /\ inner = [r \in Requests |-> {}]
    /\ holding = inner /\ outer = inner
    /\ taken = inner /\ delivered = inner /\ dropped = inner
    /\ canceled = {}
    /\ sendingRes = {} /\ closed = FALSE /\ dispExit = FALSE

HasRoom(chan) == Cardinality(chan) < ChannelSize

(* The channel made by Send, which the dispatcher fills.                       *)
MutInnerRoom(r) == worker[r] = "select" /\ inner[r] = {}

InnerRoom(r) == HasRoom(inner[r])

-----------------------------------------------------------------------------
(* RequestMulti and Send. A closed client refuses before anything is           *)
(* registered; a payload that does not serialize does too.                     *)
Send(r) ==
    /\ sendPc[r] = "idle"
    /\ \/ /\ sendPc' = [sendPc EXCEPT ![r] = "failed"]
          /\ UNCHANGED <<registered, worker>>
       \/ /\ ~closed
          /\ sendPc' = [sendPc EXCEPT ![r] = "publish"]
          /\ registered' = registered \cup {r}
          /\ worker' = [worker EXCEPT ![r] = "select"]
    /\ UNCHANGED <<netVars, readers, inner, holding, outer, taken, delivered, dropped, canceled, dispVars>>

Publish(r) ==
    /\ sendPc[r] = "publish"
    /\ PublishRequestTo(r)
    /\ sendPc' = [sendPc EXCEPT ![r] = "sent"]
    /\ UNCHANGED <<subscribed, bidNet, grantNet, expired>>
    /\ UNCHANGED <<readers, worker, chanVars, canceled, dispVars>>

(* The error is returned; the goroutine is left to its timer.                  *)
PublishFails(r) ==
    /\ sendPc[r] = "publish"
    /\ sendPc' = [sendPc EXCEPT ![r] = "failed"]
    /\ UNCHANGED <<netVars, readers, worker, chanVars, canceled, dispVars>>

-----------------------------------------------------------------------------
(* handleResponses.                                                            *)
TakeResponse(r) ==
    /\ worker[r] = "select"
    /\ \E m \in inner[r] :
        /\ inner' = [inner EXCEPT ![r] = @ \ {m}]
        /\ holding' = [holding EXCEPT ![r] = {m}]
        /\ taken' = [taken EXCEPT ![r] = @ \cup {m}]
    /\ worker' = [worker EXCEPT ![r] = "recv"]
    /\ UNCHANGED <<netVars, callVars, registered, outer, delivered, dropped, canceled, dispVars>>

(* Recv waits for room in the caller's channel, or for the client to close.    *)
MutRecv(r) ==
    /\ worker[r] = "recv"
    /\ outer' = [outer EXCEPT ![r] = IF HasRoom(@) THEN @ \cup holding[r] ELSE @]
    /\ holding' = [holding EXCEPT ![r] = {}]
    /\ worker' = [worker EXCEPT ![r] = "select"]
    /\ UNCHANGED <<netVars, callVars, registered, inner, taken, delivered, dropped, canceled, dispVars>>

Recv(r) ==
    /\ worker[r] = "recv"
    /\ \/ HasRoom(outer[r]) /\ outer' = [outer EXCEPT ![r] = @ \cup holding[r]] /\ UNCHANGED dropped
       \/ closed /\ dropped' = [dropped EXCEPT ![r] = @ \cup holding[r]] /\ UNCHANGED outer
    /\ holding' = [holding EXCEPT ![r] = {}]
    /\ worker' = [worker EXCEPT ![r] = "select"]
    /\ UNCHANGED <<netVars, callVars, registered, inner, taken, delivered, canceled, dispVars>>

(* The timer, the context or the client: Close deletes the entry and closes    *)
(* the caller's channel. What the dispatcher sent meanwhile is not looked at.  *)
MutEnd(r) ==
    /\ worker[r] = "select"
    /\ r \in canceled \/ closed
    /\ worker' = [worker EXCEPT ![r] = "exited"]
    /\ registered' = registered \ {r}
    /\ UNCHANGED <<netVars, callVars, inner, holding, outer, taken, delivered, dropped, canceled, dispVars>>

End(r) ==
    /\ worker[r] = "select"
    /\ r \in expired \/ r \in canceled \/ closed
    /\ worker' = [worker EXCEPT ![r] = "exited"]
    /\ registered' = registered \ {r}
    /\ UNCHANGED <<netVars, callVars, inner, holding, outer, taken, delivered, dropped, canceled, dispVars>>

(* The caller takes a response; a closed channel still gives what it buffers.  *)
CallerReads(r) ==
    /\ \E m \in outer[r] :
        /\ outer' = [outer EXCEPT ![r] = @ \ {m}]
        /\ delivered' = [delivered EXCEPT ![r] = @ \cup {m}]
    /\ UNCHANGED <<netVars, callVars, worker, registered, inner, holding, taken, dropped, canceled,
                   dispVars>>

-----------------------------------------------------------------------------
(* The dispatcher and routeResponse: lookup under the lock, then the send.     *)
Route ==
    /\ ~dispExit /\ sendingRes = {}
    /\ \E m \in resNet :
        /\ resNet' = resNet \ {m}
        /\ sendingRes' = IF m.task[2] \in registered THEN {m} ELSE {}
    /\ UNCHANGED <<subscribed, reqNet, bidNet, grantNet, expired>>
    /\ UNCHANGED <<callVars, worker, chanVars, canceled, closed, dispExit>>

SendResponse ==
    /\ \E m \in sendingRes :
        /\ InnerRoom(m.task[2])
        /\ inner' = [inner EXCEPT ![m.task[2]] = @ \cup {m}]
    /\ sendingRes' = {}
    /\ UNCHANGED <<netVars, callVars, worker, registered, holding, outer, taken, delivered, dropped,
                   canceled, closed, dispExit>>

DispatcherReturns ==
    /\ closed /\ ~dispExit /\ sendingRes = {}
    /\ dispExit' = TRUE
    /\ UNCHANGED <<netVars, callVars, worker, chanVars, canceled, sendingRes, closed>>

Cancel(r) ==
    /\ worker[r] \notin {"none", "exited"} /\ r \notin canceled
    /\ canceled' = canceled \cup {r}
    /\ UNCHANGED <<netVars, callVars, worker, chanVars, dispVars>>

CloseClient ==
    /\ ~closed
    /\ closed' = TRUE
    /\ UNCHANGED <<netVars, callVars, worker, chanVars, canceled, sendingRes, dispExit>>

Tick(r) == sendPc[r] # "idle" /\ Expire(r) /\ UNCHANGED <<handlerVars, clientVars>>

-----------------------------------------------------------------------------
CallStep(r) ==
    \/ Publish(r) \/ PublishFails(r) \/ TakeResponse(r) \/ Recv(r) \/ End(r)
    \/ r \in readers /\ CallerReads(r)

DispatchStep == SendResponse \/ DispatcherReturns

ClientNext ==
    \/ \E r \in Requests : Send(r) \/ CallStep(r) \/ Cancel(r)
    \/ Route \/ DispatchStep \/ CloseClient

Next ==
    \/ ClientNext /\ UNCHANGED handlerVars
    \/ HandlerNext /\ UNCHANGED clientVars
    \/ \E r \in Requests : Tick(r)

Spec == Init /\ [][Next]_vars

(* What happens without anyone's doing. Responses may be lost.                 *)
FairStep ==
    \/ (DispatchStep \/ \E r \in Requests : CallStep(r)) /\ UNCHANGED handlerVars
    \/ \E t \in Tasks : TaskStep(t) /\ UNCHANGED clientVars
    \/ \E r \in Requests : Tick(r)

-----------------------------------------------------------------------------
(* More servers answered the call than one of its channels holds.              *)
Flooded(r) ==
    Cardinality({t \in Tasks : t[2] = r /\ task[t] \in {"responded", "ended"}}) > ChannelSize

(* The responses that the call's goroutine took are the caller's, whatever     *)
(* ends the call: it has read them, or will find them in its channel, or Recv  *)
(* has yet to put them there. Each is in one of these places, so that none     *)
(* reaches the caller twice, and the only ones lost are those that were in     *)
(* Recv when, or after, the client closed.                                     *)
TakenIsDelivered ==
    \A r \in Requests :
        /\ taken[r] = delivered[r] \cup outer[r] \cup holding[r] \cup dropped[r]
        /\ delivered[r] \cap (outer[r] \cup holding[r] \cup dropped[r]) = {}
        /\ outer[r] \cap (holding[r] \cup dropped[r]) = {}
        /\ holding[r] \cap dropped[r] = {}
        /\ dropped[r] # {} => closed

(* The dispatcher, which every call of the client shares, waits for a multi    *)
(* call only if more servers answered it than its channel holds: not because   *)
(* the call has ended, and not because its caller does not read.               *)
BlockedMeansFlooded ==
    \A m \in sendingRes : ~InnerRoom(m.task[2]) => Flooded(m.task[2])

(* Something can happen by itself, as the guards of the client's fair steps    *)
(* and of the clock have it.                                                   *)
CanGoOn ==
    \/ \E r \in Requests :
        \/ sendPc[r] = "publish"
        \/ worker[r] = "select" /\ (inner[r] # {} \/ r \in expired \cup canceled \/ closed)
        \/ worker[r] = "recv" /\ (HasRoom(outer[r]) \/ closed)
        \/ r \in readers /\ outer[r] # {}
        \/ sendPc[r] # "idle" /\ r \notin expired
    \/ \E m \in sendingRes : InnerRoom(m.task[2])
    \/ closed /\ ~dispExit /\ sendingRes = {}

(* Every Send has returned; the call of a caller who reads, or of a closed     *)
(* client, has ended, its entry is gone and its channel closed, also when      *)
(* publishing the request failed; the dispatcher has returned after Close,     *)
(* unless a flooded call ended with its channel full and the dispatcher at the *)
(* send.                                                                       *)
Settled ==
    /\ \A r \in Requests :
        /\ sendPc[r] # "publish"
        /\ (r \in readers \/ closed) =>
              worker[r] \in {"none", "exited"} /\ r \notin registered
    /\ (\E m \in sendingRes : Flooded(m.task[2])) \/ (sendingRes = {} /\ (closed => dispExit))

(* Nothing gets stuck: either a step can be taken that needs nobody's doing,   *)
(* or everything has been done.                                                *)
NothingStuck == (CanGoOn => ENABLED FairStep) /\ (~CanGoOn => Settled)

=============================================================================

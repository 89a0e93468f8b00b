------------------------------ MODULE StreamOpen ------------------------------
(* Opening a stream and the life of a stream handler: OpenStream and           *)
(* runClientStream (pkg/client/stream.go) against streamHandler                *)
(* (pkg/server/stream.go) on every server. The exchange of messages on a       *)
(* stream that is open is the module Stream; here an end of a stream is open,  *)
(* closing (setClosed has run) or released (out of the adapter's map, context  *)
(* canceled, receive channel closed).                                          *)
(*                                                                             *)
(* A message in flight may be taken in any order or never. A message that its  *)
(* receiver drops (it has expired, or nothing waits for it) changes nothing,   *)
(* so it is one that is never taken, like one the bus loses.                   *)
EXTENDS FiniteSets

CONSTANTS Servers,  \* servers that registered the method
          Streams,  \* calls of OpenStream
          NoServer, \* the empty server id
          Closable  \* bound: the servers whose handler may be closed

ASSUME StreamOpenAssumption == NoServer \notin Servers /\ Closable \subseteq Servers

VARIABLES requireClaim, \* RequestInfo.RequireClaim of the method
          callPc,       \* where each OpenStream is, and the caller after it
          choice,       \* the server it grants
          bids,         \* contents of its claim channel
          acked,        \* streams whose ackChan is closed
          cEnd,         \* the client's end of each stream
          pump,         \* its runClientStream goroutine
          recvChan,     \* what the dispatcher handed to that goroutine
          canceled,     \* streams whose caller's context was canceled
          expired,      \* streams whose open has timed out: Expiry has passed
          fuse,         \* the client's closed fuse
          task,         \* progress of each handleOpenRequest
          answered,     \* tasks whose claimResponseChan holds the grant
          sEnd,         \* the server's end of each stream
          closing,      \* progress of streamHandler.close
          drain,        \* the goroutines close starts, one per open stream
          held,         \* history: streams open at a server when close began
          loopExit,     \* servers whose run loop has returned
          openNet, bidNet, grantNet, toClient, toServer \* messages in flight

callVars == <<requireClaim, callPc, choice, bids>>
endVars == <<acked, cEnd, pump, recvChan>>
envVars == <<canceled, expired, fuse>>
taskVars == <<task, answered, sEnd>>
closeVars == <<closing, drain, held, loopExit>>
netVars == <<openNet, bidNet, grantNet, toClient, toServer>>
vars == <<callVars, endVars, envVars, taskVars, closeVars, netVars>>

Tasks == Servers \X Streams

EndStates == {"none", "open", "closing", "released"}

TypeOK ==
    /\ requireClaim \in BOOLEAN
    /\ callPc \in [Streams -> {"idle", "publish", "select", "grant", "wait", "fail",
                               "release", "failed", "opened", "leaving", "left"}]
    /\ choice \in [Streams -> Servers \cup {NoServer}]
    /\ bids \in [Streams -> SUBSET Servers]
    /\ acked \subseteq Streams
    /\ cEnd \in [Streams -> EndStates]
    /\ pump \in [Streams -> {"none", "select", "closing", "exited"}]
    /\ recvChan \in [Streams -> SUBSET {"ack", "close"}]
    /\ canceled \subseteq Streams
    /\ expired \subseteq Streams
    /\ fuse \in BOOLEAN
    /\ task \in [Tasks -> {"none", "started", "waiting", "granted", "inserted", "running",
                           "closing", "releasing", "ended"}]
    /\ answered \subseteq Tasks
    /\ sEnd \in [Tasks -> EndStates]
    /\ closing \in [Servers -> {"open", "draining", "waiting", "complete"}]
    /\ drain \in [Tasks -> {"none", "called", "releasing", "done"}]
    /\ held \in [Servers -> SUBSET Streams]
    /\ loopExit \subseteq Servers
    /\ openNet \subseteq Tasks
    /\ bidNet \subseteq Tasks
    /\ grantNet \subseteq Tasks
    /\ toClient \subseteq Tasks \X {"ack", "close"}
    /\ toServer \subseteq Tasks

Init ==
    /\ requireClaim \in BOOLEAN
    /\ callPc = [r \in Streams |-> "idle"]
    /\ choice = [r \in Streams |-> NoServer]
    /\ bids = [r \in Streams |-> {}]
    /\ acked = {}
    /\ cEnd = [r \in Streams |-> "none"]
    /\ pump = [r \in Streams |-> "none"]
    /\ recvChan = [r \in Streams |-> {}]
    /\ canceled = {} /\ expired = {} /\ fuse = FALSE
    /\ task = [t \in Tasks |-> "none"]
    /\ answered = {}
    /\ sEnd = [t \in Tasks |-> "none"]
    /\ closing = [s \in Servers |-> "open"]
    /\ drain = [t \in Tasks |-> "none"]
    /\ held = [s \in Servers |-> {}]
    /\ loopExit = {}
    /\ openNet = {} /\ bidNet = {} /\ grantNet = {} /\ toClient = {} /\ toServer = {}

(* The adapter's map has an entry for the stream.                              *)
Mapped(end) == end \in {"open", "closing"}

-----------------------------------------------------------------------------
(* OpenStream.                                                                 *)
Goto(r, pc) == callPc' = [callPc EXCEPT ![r] = pc]

(* The claimRequests entry exists from Open to the deferred delete.            *)
Registered(r) == callPc[r] \notin {"idle", "failed", "opened", "leaving", "left"}

(* A closed client refuses before anything is registered.                      *)
Open(r) ==
    /\ callPc[r] = "idle"
    /\ Goto(r, IF fuse THEN "failed" ELSE "publish")
    /\ cEnd' = [cEnd EXCEPT ![r] = IF fuse THEN @ ELSE "open"]
    /\ pump' = [pump EXCEPT ![r] = IF fuse THEN @ ELSE "select"]
    /\ UNCHANGED <<requireClaim, choice, bids, acked, recvChan, envVars, taskVars,
                   closeVars, netVars>>

PublishOpen(r) ==
    /\ callPc[r] = "publish"
    /\ openNet' = openNet \cup (Servers \X {r})
    /\ Goto(r, IF requireClaim THEN "select" ELSE "wait")
    /\ UNCHANGED <<requireClaim, choice, bids, endVars, envVars, taskVars, closeVars>>
    /\ UNCHANGED <<bidNet, grantNet, toClient, toServer>>

(* selectServerUntil (module Selection) returns a server that bid.             *)
Select(r) ==
    /\ callPc[r] = "select"
    /\ \E s \in bids[r] : choice' = [choice EXCEPT ![r] = s]
    /\ bids' = [bids EXCEPT ![r] = {}]
    /\ Goto(r, "grant")
    /\ UNCHANGED <<requireClaim, endVars, envVars, taskVars, closeVars, netVars>>

Grant(r) ==
    /\ callPc[r] = "grant"
    /\ grantNet' = grantNet \cup (Servers \X {r})
    /\ Goto(r, "wait")
    /\ UNCHANGED <<requireClaim, choice, bids, endVars, envVars, taskVars, closeVars>>
    /\ UNCHANGED <<openNet, bidNet, toClient, toServer>>

Acked(r) ==
    /\ callPc[r] = "wait"
    /\ r \in acked
    /\ Goto(r, "opened")
    /\ UNCHANGED <<requireClaim, choice, bids, endVars, envVars, taskVars, closeVars, netVars>>

(* A publication fails, the selection ends without a server, or the wait for   *)
(* the acknowledgement ends with the context or the client.                    *)
OpenFails(r) ==
    /\ \/ callPc[r] \in {"publish", "select", "grant"}
       \/ callPc[r] = "wait" /\ (fuse \/ r \in canceled \cup expired)
    /\ Goto(r, "fail")
    /\ bids' = [bids EXCEPT ![r] = {}]
    /\ UNCHANGED <<requireClaim, choice, endVars, envVars, taskVars, closeVars, netVars>>

(* Close: setClosed, for which the first caller wins ...                       *)
ClientSetsClosed(r) == cEnd' = [cEnd EXCEPT ![r] = IF @ = "open" THEN "closing" ELSE @]

(* ... who sends the close message, waits for what is pending and releases.    *)
ClientReleases(r) ==
    /\ cEnd' = [cEnd EXCEPT ![r] = "released"]
    /\ toServer' = toServer \cup (Servers \X {r})

(* The failed call closes its stream, and so does a caller done with an open   *)
(* one.                                                                        *)
MutCallCloses(r) ==
    /\ callPc[r] \in {"fail", "opened"}
    /\ Goto(r, IF callPc[r] = "fail" THEN "failed" ELSE "left")
    /\ UNCHANGED <<requireClaim, choice, bids, endVars, envVars, taskVars, closeVars, netVars>>

CallCloses(r) ==
    /\ callPc[r] \in {"fail", "opened"}
    /\ ClientSetsClosed(r)
    /\ Goto(r, CASE callPc[r] = "fail" -> IF cEnd[r] = "open" THEN "release" ELSE "failed"
                 [] callPc[r] = "opened" -> IF cEnd[r] = "open" THEN "leaving" ELSE "left")
    /\ UNCHANGED <<requireClaim, choice, bids, acked, pump, recvChan, envVars, taskVars,
                   closeVars, netVars>>

CallReleases(r) ==
    /\ callPc[r] \in {"release", "leaving"}
    /\ ClientReleases(r)
    /\ Goto(r, IF callPc[r] = "release" THEN "failed" ELSE "left")
    /\ UNCHANGED <<requireClaim, choice, bids, acked, pump, recvChan, envVars, taskVars,
                   closeVars, openNet, bidNet, grantNet, toClient>>

-----------------------------------------------------------------------------
(* The client's dispatcher and runClientStream.                                *)
TakeBid(t) ==
    /\ t \in bidNet
    /\ callPc[t[2]] = "select"
    /\ bidNet' = bidNet \ {t}
    /\ bids' = [bids EXCEPT ![t[2]] = @ \cup {t[1]}]
    /\ UNCHANGED <<requireClaim, callPc, choice, endVars, envVars, taskVars, closeVars>>
    /\ UNCHANGED <<openNet, grantNet, toClient, toServer>>

(* A message goes to the stream's goroutine if streamChannels has the stream.  *)
Dispatch(p) ==
    LET r == p[1][2]
    IN  /\ p \in toClient
        /\ Mapped(cEnd[r]) /\ pump[r] = "select"
        /\ toClient' = toClient \ {p}
        /\ recvChan' = [recvChan EXCEPT ![r] = @ \cup {p[2]}]
        /\ UNCHANGED <<callVars, acked, cEnd, pump, envVars, taskVars, closeVars>>
        /\ UNCHANGED <<openNet, bidNet, grantNet, toServer>>

(* HandleStream of an acknowledgement, which carries the expiry of the open.   *)
PumpAck(r) ==
    /\ pump[r] = "select"
    /\ "ack" \in recvChan[r]
    /\ r \notin expired \cup acked
    /\ recvChan' = [recvChan EXCEPT ![r] = @ \ {"ack"}]
    /\ acked' = acked \cup {r}
    /\ UNCHANGED <<callVars, cEnd, pump, envVars, taskVars, closeVars, netVars>>

(* HandleStream of the peer's close releases at once.                          *)
PumpClose(r) ==
    /\ pump[r] = "select"
    /\ "close" \in recvChan[r]
    /\ cEnd[r] = "open"
    /\ recvChan' = [recvChan EXCEPT ![r] = @ \ {"close"}]
    /\ cEnd' = [cEnd EXCEPT ![r] = "released"]
    /\ UNCHANGED <<callVars, acked, pump, envVars, taskVars, closeVars, netVars>>

(* The stream's context, which ends with the caller's and with the release, or *)
(* the client ends: the goroutine closes the stream itself and returns.        *)
PumpEnds(r) ==
    /\ pump[r] = "select"
    /\ fuse \/ r \in canceled \/ cEnd[r] = "released"
    /\ ClientSetsClosed(r)
    /\ pump' = [pump EXCEPT ![r] = IF cEnd[r] = "open" THEN "closing" ELSE "exited"]
    /\ recvChan' = [recvChan EXCEPT ![r] = {}]
    /\ UNCHANGED <<callVars, acked, envVars, taskVars, closeVars, netVars>>

PumpReleases(r) ==
    /\ pump[r] = "closing"
    /\ ClientReleases(r)
    /\ pump' = [pump EXCEPT ![r] = "exited"]
    /\ UNCHANGED <<callVars, acked, recvChan, envVars, taskVars, closeVars>>
    /\ UNCHANGED <<openNet, bidNet, grantNet, toClient>>

Cancel(r) ==
    /\ callPc[r] # "idle" /\ r \notin canceled
    /\ canceled' = canceled \cup {r}
    /\ UNCHANGED <<callVars, endVars, expired, fuse, taskVars, closeVars, netVars>>

Tick(r) ==
    /\ callPc[r] # "idle" /\ r \notin expired
    /\ expired' = expired \cup {r}
    /\ UNCHANGED <<callVars, endVars, canceled, fuse, taskVars, closeVars, netVars>>

BreakFuse ==
    /\ ~fuse
    /\ fuse' = TRUE
    /\ UNCHANGED <<callVars, endVars, canceled, expired, taskVars, closeVars, netVars>>

-----------------------------------------------------------------------------
(* The run loop of a stream handler.                                           *)
Looping(s) == s \notin loopExit

(* An open request that has expired, or comes while draining, is not served.   *)
TakeOpen(t) ==
    /\ t \in openNet
    /\ Looping(t[1])
    /\ t[2] \notin expired
    /\ closing[t[1]] = "open"
    /\ openNet' = openNet \ {t}
    /\ task' = [task EXCEPT ![t] = "started"]
    /\ UNCHANGED <<callVars, endVars, envVars, answered, sEnd, closeVars>>
    /\ UNCHANGED <<bidNet, grantNet, toClient, toServer>>

(* A grant is sent to the channel that h.claims has for the request. It has    *)
(* room for one, and a call publishes one: on a bus that delivers at most once *)
(* the run loop does not wait here, though the task may have gone.             *)
TakeGrant(t) ==
    /\ t \in grantNet
    /\ Looping(t[1])
    /\ task[t] = "waiting"
    /\ t \notin answered
    /\ grantNet' = grantNet \ {t}
    /\ answered' = answered \cup {t}
    /\ UNCHANGED <<callVars, endVars, envVars, task, sEnd, closeVars>>
    /\ UNCHANGED <<openNet, bidNet, toClient, toServer>>

(* The peer's close, if the stream is in h.streams.                            *)
TakeClose(t) ==
    /\ t \in toServer
    /\ Looping(t[1])
    /\ sEnd[t] = "open"
    /\ toServer' = toServer \ {t}
    /\ sEnd' = [sEnd EXCEPT ![t] = "released"]
    /\ UNCHANGED <<callVars, endVars, envVars, task, answered, closeVars>>
    /\ UNCHANGED <<openNet, bidNet, grantNet, toClient>>

LoopReturns(s) ==
    /\ Looping(s)
    /\ closing[s] = "complete"
    /\ loopExit' = loopExit \cup {s}
    /\ UNCHANGED <<callVars, endVars, envVars, taskVars, closing, drain, held, netVars>>

-----------------------------------------------------------------------------
(* handleOpenRequest and claimRequest, one task.                               *)
Advance(t, to) == task' = [task EXCEPT ![t] = to]

(* No claim is needed, or the affinity function declines.                      *)
SkipClaim(t) ==
    /\ task[t] = "started"
    /\ Advance(t, IF requireClaim THEN "ended" ELSE "granted")
    /\ UNCHANGED <<callVars, endVars, envVars, answered, sEnd, closeVars, netVars>>

(* The claim channel is registered, then the bid published.                    *)
Bid(t) ==
    /\ task[t] = "started"
    /\ requireClaim
    /\ bidNet' = bidNet \cup {t}
    /\ Advance(t, "waiting")
    /\ UNCHANGED <<callVars, endVars, envVars, answered, sEnd, closeVars>>
    /\ UNCHANGED <<openNet, grantNet, toClient, toServer>>

MutDecide(t) ==
    /\ task[t] = "waiting"
    /\ t \in answered
    /\ Advance(t, "granted")
    /\ UNCHANGED <<callVars, endVars, envVars, answered, sEnd, closeVars, netVars>>

Decide(t) ==
    /\ task[t] = "waiting"
    /\ t \in answered
    /\ Advance(t, IF choice[t[2]] = t[1] THEN "granted" ELSE "ended")
    /\ answered' = answered \ {t}
    /\ UNCHANGED <<callVars, endVars, envVars, sEnd, closeVars, netVars>>

(* The bid could not be published, or the open expired first.                  *)
ClaimFails(t) ==
    /\ \/ task[t] = "started" /\ requireClaim
       \/ task[t] = "waiting" /\ t[2] \in expired
    /\ Advance(t, "ended")
    /\ answered' = answered \ {t}
    /\ UNCHANGED <<callVars, endVars, envVars, sEnd, closeVars, netVars>>

MutInsert(t) ==
    /\ task[t] = "granted"
    /\ toClient' = toClient \cup {<<t, "ack">>}
    /\ Advance(t, "inserted")
    /\ UNCHANGED <<callVars, endVars, envVars, answered, sEnd, closeVars>>
    /\ UNCHANGED <<openNet, bidNet, grantNet, toServer>>

Insert(t) ==
    /\ task[t] = "granted"
    /\ sEnd' = [sEnd EXCEPT ![t] = "open"]
    /\ Advance(t, "inserted")
    /\ UNCHANGED <<callVars, endVars, envVars, answered, closeVars, netVars>>

Ack(t) ==
    /\ task[t] = "inserted"
    /\ toClient' = toClient \cup {<<t, "ack">>}
    /\ Advance(t, "running")
    /\ UNCHANGED <<callVars, endVars, envVars, answered, sEnd, closeVars>>
    /\ UNCHANGED <<openNet, bidNet, grantNet, toServer>>

(* The acknowledgement could not be published, or the handler returned: Close  *)
(* is called. A handler that returns from a stream it hijacked leaves Close to *)
(* the stream's new owner, which is then what "running" stands for.            *)
TaskCloses(t) ==
    /\ task[t] \in {"inserted", "running"}
    /\ Advance(t, "closing")
    /\ UNCHANGED <<callVars, endVars, envVars, answered, sEnd, closeVars, netVars>>

ServerSetsClosed(t) == sEnd' = [sEnd EXCEPT ![t] = IF @ = "open" THEN "closing" ELSE @]

ServerReleases(t) ==
    /\ sEnd' = [sEnd EXCEPT ![t] = "released"]
    /\ toClient' = toClient \cup {<<t, "close">>}

TaskSetsClosed(t) ==
    /\ task[t] = "closing"
    /\ ServerSetsClosed(t)
    /\ Advance(t, IF sEnd[t] = "open" THEN "releasing" ELSE "ended")
    /\ UNCHANGED <<callVars, endVars, envVars, answered, closeVars, netVars>>

TaskReleases(t) ==
    /\ task[t] = "releasing"
    /\ ServerReleases(t)
    /\ Advance(t, "ended")
    /\ UNCHANGED <<callVars, endVars, envVars, answered, closeVars>>
    /\ UNCHANGED <<openNet, bidNet, grantNet, toServer>>

-----------------------------------------------------------------------------
(* close(force), once; force makes no difference.                              *)
HeldAt(s) == {r \in Streams : Mapped(sEnd[<<s, r>>])}

BeginClose(s) ==
    /\ closing[s] = "open"
    /\ s \in Closable
    /\ closing' = [closing EXCEPT ![s] = "draining"]
    /\ held' = [held EXCEPT ![s] = HeldAt(s)]
    /\ UNCHANGED <<callVars, endVars, envVars, taskVars, drain, loopExit, netVars>>

(* The streams in the map are copied and a goroutine started to close each.    *)
Snapshot(s) ==
    /\ closing[s] = "draining"
    /\ closing' = [closing EXCEPT ![s] = "waiting"]
    /\ drain' = [t \in Tasks |-> IF t[1] = s /\ t[2] \in HeldAt(s) THEN "called" ELSE drain[t]]
    /\ UNCHANGED <<callVars, endVars, envVars, taskVars, held, loopExit, netVars>>

DrainSetsClosed(t) ==
    /\ drain[t] = "called"
    /\ ServerSetsClosed(t)
    /\ drain' = [drain EXCEPT ![t] = IF sEnd[t] = "open" THEN "releasing" ELSE "done"]
    /\ UNCHANGED <<callVars, endVars, envVars, task, answered, closing, held, loopExit, netVars>>

DrainReleases(t) ==
    /\ drain[t] = "releasing"
    /\ ServerReleases(t)
    /\ drain' = [drain EXCEPT ![t] = "done"]
    /\ UNCHANGED <<callVars, endVars, envVars, task, answered, closing, held, loopExit>>
    /\ UNCHANGED <<openNet, bidNet, grantNet, toServer>>

(* wg.Wait, then the subscriptions are closed and complete is.                 *)
MutFinishClose(s) ==
    /\ closing[s] = "waiting"
    /\ closing' = [closing EXCEPT ![s] = "complete"]
    /\ UNCHANGED <<callVars, endVars, envVars, taskVars, drain, held, loopExit, netVars>>

FinishClose(s) ==
    /\ closing[s] = "waiting"
    /\ \A r \in Streams : drain[<<s, r>>] \in {"none", "done"}
    /\ closing' = [closing EXCEPT ![s] = "complete"]
    /\ UNCHANGED <<callVars, endVars, envVars, taskVars, drain, held, loopExit, netVars>>

-----------------------------------------------------------------------------
CallStep(r) ==
    \/ PublishOpen(r) \/ Select(r) \/ Grant(r) \/ Acked(r) \/ OpenFails(r)
    \/ (callPc[r] # "opened" /\ CallCloses(r)) \/ CallReleases(r)

PumpStep(r) == PumpAck(r) \/ PumpClose(r) \/ PumpEnds(r) \/ PumpReleases(r)

(* The steps of a task that nobody but the handler's author can hold up.       *)
TaskStep(t) ==
    \/ SkipClaim(t) \/ Bid(t) \/ Decide(t) \/ ClaimFails(t) \/ Insert(t) \/ Ack(t)
    \/ TaskSetsClosed(t) \/ TaskReleases(t)

CloseStep(s) ==
    \/ Snapshot(s) \/ FinishClose(s) \/ LoopReturns(s)
    \/ \E r \in Streams : DrainSetsClosed(<<s, r>>) \/ DrainReleases(<<s, r>>)

Next ==
    \/ \E r \in Streams : Open(r) \/ CallStep(r) \/ CallCloses(r) \/ PumpStep(r)
                          \/ Cancel(r) \/ Tick(r)
    \/ BreakFuse
    \/ \E t \in Tasks : TakeBid(t) \/ TakeOpen(t) \/ TakeGrant(t) \/ TakeClose(t)
                        \/ TaskStep(t) \/ TaskCloses(t)
    \/ \E p \in Tasks \X {"ack", "close"} : Dispatch(p)
    \/ \E s \in Servers : BeginClose(s) \/ CloseStep(s)

Spec == Init /\ [][Next]_vars

(* What happens without anyone's doing: goroutines that can run do, and the    *)
(* clock advances. Messages may be lost; a handler need not return; nobody has *)
(* to open, cancel or close.                                                   *)
FairStep ==
    \/ \E r \in Streams : CallStep(r) \/ PumpStep(r) \/ Tick(r)
    \/ \E t \in Tasks : TaskStep(t)
    \/ \E s \in Servers : CloseStep(s)

-----------------------------------------------------------------------------
(* Where a claim is needed, only the server that the caller chose ever holds   *)
(* an end of the stream: the losers of the claim, those whose claim timed out  *)
(* and those that took the open late run no handler. (The refinement below     *)
(* says it too.)                                                               *)
OnlyChosenServes ==
    requireClaim => \A t \in Tasks : sEnd[t] # "none" => choice[t[2]] = t[1]

(* An acknowledged stream is one that a server put in its map first, so what   *)
(* the caller sends next finds it there unless it has been closed since.       *)
AckedIsHeld == \A r \in acked : \E s \in Servers : sEnd[<<s, r>>] # "none"

(* When the close of a handler completes, every stream it held when the close  *)
(* began has been closed. (A stream whose open was being negotiated then may   *)
(* be inserted after the snapshot, and outlives the handler.)                  *)
CloseDrains ==
    \A s \in Servers : closing[s] = "complete" =>
        \A r \in held[s] : sEnd[<<s, r>>] \in {"closing", "released"}

(* Refinement: a stream is assigned by the choice, run by the server that      *)
(* inserts it and answered by the acknowledgement.                             *)
Served == {t \in Tasks : requireClaim /\ sEnd[t] # "none"}

AckedBy ==
    [r \in Streams |-> IF requireClaim /\ r \in acked THEN choice[r] ELSE NoServer]

A == INSTANCE Assignment WITH Requests <- Streams, owner <- choice, started <- Served,
                              answer <- AckedBy

(* The opening of a stream that needs a claim implements the assignment of     *)
(* each request to one server, like a unary call: the caller never changes its *)
(* choice, no other server ever inserts the stream, and the acknowledgement    *)
(* that opens it comes once and after its server has inserted it.              *)
ImplementsAssignment == A!Spec

(* Something can happen by itself, as the guards of fair steps have it.        *)
CanGoOn ==
    \/ \E r \in Streams :
        \/ callPc[r] \in {"publish", "select", "grant", "fail", "release", "leaving"}
        \/ callPc[r] = "wait" /\ (fuse \/ r \in acked \cup canceled \cup expired)
        \/ callPc[r] # "idle" /\ r \notin expired
        \/ pump[r] = "select" /\ (fuse \/ r \in canceled \/ cEnd[r] = "released")
        \/ pump[r] = "closing"
    \/ \E t \in Tasks :
        \/ task[t] \in {"started", "granted", "inserted", "closing", "releasing"}
        \/ task[t] = "waiting" /\ t[2] \in expired
        \/ drain[t] \in {"called", "releasing"}
    \/ \E s \in Servers :
        \/ closing[s] = "draining"
        \/ closing[s] = "waiting" /\ \A r \in Streams : drain[<<s, r>>] \in {"none", "done"}
        \/ closing[s] = "complete" /\ Looping(s)

(* OpenStream has returned, whatever was lost; if it failed, or the client or  *)
(* the caller's context ended, the client's end is released and its goroutine  *)
(* has returned; every open that a server took is served or given up; every    *)
(* close of a handler has completed and its run loop has returned.             *)
Settled ==
    /\ \A r \in Streams :
        /\ ~Registered(r)
        /\ cEnd[r] # "none" /\ (callPc[r] = "failed" \/ fuse \/ r \in canceled) =>
              cEnd[r] = "released" /\ pump[r] = "exited"
    /\ \A t \in Tasks : task[t] \in {"none", "running", "ended"}
    /\ \A s \in Servers : closing[s] = "open" \/ s \in loopExit

(* Nothing gets stuck: either a step can be taken that needs nobody's doing,   *)
(* or everything has been done. No action can be undone, so a behaviour in     *)
(* which what can happen by itself does happen ends with everything done.      *)
NothingStuck == (CanGoOn => ENABLED FairStep) /\ (~CanGoOn => Settled)

=============================================================================

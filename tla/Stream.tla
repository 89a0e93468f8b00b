-------------------------------- MODULE Stream --------------------------------
(* The two ends of one open stream (internal/stream/stream.go): acknowledged   *)
(* sends, receipt, and close from either end. At each end a single goroutine   *)
(* hands incoming messages to HandleStream: the run loop of the stream handler *)
(* on the server, runClientStream on the client. Application goroutines call   *)
(* Send and Close. The stream's pending group counts the sends and the receipt *)
(* in progress; Close waits for it before it closes the receive channel.       *)
(*                                                                             *)
(* Messages in flight may be taken in any order or never (lost, or dropped     *)
(* because their expiry has passed).                                           *)
EXTENDS Integers, FiniteSets

CONSTANTS Sends,        \* calls of Send, each with one message
          Senders,      \* bound: the ways to say at which end each is called
          ChannelSize,  \* capacity of an end's receive channel
          CallerCancels \* bound: whether the context given to OpenStream ends

Ends == {"client", "server"}

ASSUME StreamAssumption ==
    /\ Senders \subseteq [Sends -> Ends]
    /\ ChannelSize \in Nat \ {0}
    /\ CallerCancels \in BOOLEAN

VARIABLES sender,    \* the end each Send is called at
          send,      \* progress of each call of Send
          acks,      \* the acks maps: sends that wait for an acknowledgement
          acked,     \* sends whose ack channel is closed
          closed,    \* ends where setClosed has succeeded: closed, with an err
          ctxDone,   \* ends whose stream context is done
          canceled,  \* the context given to OpenStream has ended
          mapped,    \* ends where the adapter's map has the stream
          recvClosed,\* ends whose receive channel is closed
          panicked,  \* a closed channel was closed or sent to
          recvBuf,   \* contents of each end's receive channel
          accepted,  \* history: messages that entered a receive channel
          loop,      \* what each end's HandleStream goroutine is doing
          handling,  \* the message it handles, as a set of at most one
          net,       \* packets in flight
          inbox,     \* packets on the way from the map lookup to HandleStream
          closer,    \* progress of each goroutine that calls Close
          fuse       \* the client's closed fuse is broken

sendVars == <<sender, send, acks, acked>>
endVars == <<closed, ctxDone, canceled, mapped, recvClosed, panicked>>
recvVars == <<recvBuf, accepted, loop, handling>>
netVars == <<net, inbox>>
closeVars == <<closer, fuse>>
vars == <<sendVars, endVars, recvVars, netVars, closeVars>>

Peer(e) == IF e = "client" THEN "server" ELSE "client"

(* The bodies of internal.Stream a stream exchanges, with the end they go to.  *)
Message(m) == [body |-> "message", of |-> m, to |-> Peer(sender[m])]
AckOf(m) == [body |-> "ack", of |-> m, to |-> sender[m]]
CloseTo(e) == [body |-> "close", of |-> e, to |-> e]

Packets == {Message(m) : m \in Sends} \cup {AckOf(m) : m \in Sends}
           \cup {CloseTo(e) : e \in Ends}

(* Who calls Close at an end: the application (or the handler's return, or     *)
(* streamHandler.close), the goroutine HandleStream starts for a message that  *)
(* does not decode, and runClientStream itself.                                *)
Closers == {"app", "malformed", "loop"}

TypeOK ==
    /\ sender \in [Sends -> Ends]
    /\ send \in [Sends -> {"idle", "begun", "waiting", "ok", "timedOut", "closedErr",
                           "failed", "refused"}]
    /\ acks \subseteq Sends
    /\ acked \subseteq Sends
    /\ closed \subseteq Ends
    /\ ctxDone \subseteq Ends
    /\ canceled \in BOOLEAN
    /\ mapped \subseteq Ends
    /\ recvClosed \subseteq Ends
    /\ panicked \in BOOLEAN
    /\ recvBuf \in [Ends -> SUBSET Sends]
    /\ \A e \in Ends : Cardinality(recvBuf[e]) <= ChannelSize
    /\ accepted \subseteq Sends
    /\ loop \in [Ends -> {"select", "recv", "ack", "remoteClose", "closing", "exited"}]
    /\ handling \in [Ends -> SUBSET Sends]
    /\ net \subseteq Packets
    /\ inbox \in [Ends -> SUBSET Packets]
    /\ closer \in [Ends \X Closers ->
                    {"idle", "called", "sendClose", "wait", "finished", "lost"}]
    /\ fuse \in BOOLEAN

Init ==
    /\ sender \in Senders
    /\ send = [m \in Sends |-> "idle"]
    /\ acks = {}
    /\ acked = {}
    /\ closed = {}
    /\ ctxDone = {}
    /\ canceled = FALSE
    /\ mapped = Ends
    /\ recvClosed = {}
    /\ panicked = FALSE
    /\ recvBuf = [e \in Ends |-> {}]
    /\ accepted = {}
    /\ loop = [e \in Ends |-> "select"]
    /\ handling = [e \in Ends |-> {}]
    /\ net = {}
    /\ inbox = [e \in Ends |-> {}]
    /\ closer = [c \in Ends \X Closers |-> "idle"]
    /\ fuse = FALSE

(* The stream's pending WaitGroup.                                             *)
Pending(e) ==
    handling[e] \cup {m \in Sends : sender[m] = e /\ send[m] \in {"begun", "waiting"}}

-----------------------------------------------------------------------------
(* Send.                                                                       *)

(* addPending refuses once the stream is closed.                               *)
BeginSend(m) ==
    /\ send[m] = "idle"
    /\ send' = [send EXCEPT ![m] = IF sender[m] \in closed THEN "refused" ELSE "begun"]
    /\ UNCHANGED <<sender, acks, acked, endVars, recvVars, netVars, closeVars>>

(* The ack channel is registered, then the message is published.               *)
PublishMessage(m) ==
    /\ send[m] = "begun"
    /\ send' = [send EXCEPT ![m] = "waiting"]
    /\ acks' = acks \cup {m}
    /\ net' = net \cup {Message(m)}
    /\ UNCHANGED <<sender, acked, endVars, recvVars, inbox, closeVars>>

(* The call returns: its deferred delete and pending.Done run.                 *)
Leave(m, how) ==
    /\ send' = [send EXCEPT ![m] = how]
    /\ acks' = acks \ {m}
    /\ UNCHANGED <<sender, acked, endVars, recvVars, netVars, closeVars>>

PublishFails(m) == send[m] = "begun" /\ Leave(m, "failed")

SendAcked(m) == send[m] = "waiting" /\ m \in acked /\ Leave(m, "ok")

(* The deadline of this send passes.                                           *)
SendTimesOut(m) ==
    send[m] = "waiting" /\ sender[m] \notin ctxDone /\ Leave(m, "timedOut")

(* The stream's context is done: Send returns s.Err(), which is nil as long as *)
(* setClosed has not run.                                                      *)
SendInterrupted(m) ==
    /\ send[m] = "waiting"
    /\ sender[m] \in ctxDone
    /\ Leave(m, IF sender[m] \in closed THEN "closedErr" ELSE "ok")

-----------------------------------------------------------------------------
(* Delivery to an end: the server's run loop looks the stream up and calls     *)
(* HandleStream; the client's dispatcher looks it up and passes the packet on  *)
(* through a channel. A packet for a stream that is not in the map is dropped. *)
Room(e) ==
    IF e = "client"
    THEN Cardinality(inbox[e]) < ChannelSize
    ELSE inbox[e] = {} /\ loop[e] = "select"

Route(p) ==
    /\ p \in net
    /\ Room(p.to)
    /\ net' = net \ {p}
    /\ inbox' = [inbox EXCEPT ![p.to] = IF p.to \in mapped THEN @ \cup {p} ELSE @]
    /\ UNCHANGED <<sendVars, endVars, recvVars, closeVars>>

(* HandleStream begins with packet p, in the one goroutine of the end.         *)
Takes(p) ==
    /\ p \in inbox[p.to]
    /\ loop[p.to] = "select"
    /\ inbox' = [inbox EXCEPT ![p.to] = @ \ {p}]

HandleAck(m) ==
    /\ Takes(AckOf(m))
    /\ acked' = IF m \in acks THEN acked \cup {m} ELSE acked
    /\ acks' = acks \ {m}
    /\ UNCHANGED <<sender, send, endVars, recvVars, net, closeVars>>

(* A message: addPending, or nothing once closed.                              *)
HandleMessage(m) ==
    LET e == Peer(sender[m])
    IN  /\ Takes(Message(m))
        /\ handling' = [handling EXCEPT ![e] = IF e \in closed THEN @ ELSE {m}]
        /\ loop' = [loop EXCEPT ![e] = IF e \in closed THEN @ ELSE "recv"]
        /\ UNCHANGED <<sendVars, endVars, recvBuf, accepted, net, closeVars>>

(* HandleStream returns: pending.Done.                                         *)
Handled(e) ==
    /\ loop' = [loop EXCEPT ![e] = "select"]
    /\ handling' = [handling EXCEPT ![e] = {}]

(* The payload does not decode: a goroutine of its own closes the stream. One  *)
(* such goroutine stands for all of an end's.                                  *)
MutMalformed(e) ==
    /\ loop[e] = "recv"
    /\ closer' = [closer EXCEPT ![<<e, "loop">>] = IF @ = "idle" THEN "called" ELSE @]
    /\ loop' = [loop EXCEPT ![e] = "closing"]
    /\ UNCHANGED <<sendVars, endVars, recvBuf, accepted, handling, netVars, fuse>>

Malformed(e) ==
    /\ loop[e] = "recv"
    /\ closer' = [closer EXCEPT ![<<e, "malformed">>] = IF @ = "idle" THEN "called" ELSE @]
    /\ Handled(e)
    /\ UNCHANGED <<sendVars, endVars, recvBuf, accepted, netVars, fuse>>

(* Recv never blocks: it takes room in the channel or reports a slow consumer. *)
(* A select that sends to a closed channel panics, with room in it or without. *)
Recv(e) ==
    /\ loop[e] = "recv"
    /\ e \in recvClosed \/ Cardinality(recvBuf[e]) < ChannelSize
    /\ recvBuf' = [recvBuf EXCEPT ![e] = @ \cup handling[e]]
    /\ accepted' = accepted \cup handling[e]
    /\ panicked' = (panicked \/ e \in recvClosed)
    /\ loop' = [loop EXCEPT ![e] = "ack"]
    /\ UNCHANGED <<sendVars, closed, ctxDone, canceled, mapped, recvClosed, handling, netVars,
                   closeVars>>

MutSlowConsumer(e) ==
    /\ loop[e] = "recv"
    /\ e \notin recvClosed
    /\ Cardinality(recvBuf[e]) >= ChannelSize
    /\ loop' = [loop EXCEPT ![e] = "ack"]
    /\ UNCHANGED <<sendVars, endVars, recvBuf, accepted, handling, netVars, closeVars>>

SlowConsumer(e) ==
    /\ loop[e] = "recv"
    /\ e \notin recvClosed
    /\ Cardinality(recvBuf[e]) >= ChannelSize
    /\ Handled(e)
    /\ UNCHANGED <<sendVars, endVars, recvBuf, accepted, netVars, closeVars>>

Ack(e) ==
    /\ loop[e] = "ack"
    /\ net' = net \cup {AckOf(m) : m \in handling[e]}
    /\ Handled(e)
    /\ UNCHANGED <<sendVars, endVars, recvBuf, accepted, inbox, closeVars>>

(* adapter.Close, cancel and close(recvChan).                                  *)
Release(e) ==
    /\ mapped' = mapped \ {e}
    /\ ctxDone' = ctxDone \cup {e}
    /\ recvClosed' = recvClosed \cup {e}
    /\ panicked' = (panicked \/ e \in recvClosed)

(* The peer has closed: setClosed, then the release without waiting.           *)
HandleClose(e) ==
    /\ Takes(CloseTo(e))
    /\ closed' = closed \cup {e}
    /\ loop' = [loop EXCEPT ![e] = IF e \in closed THEN @ ELSE "remoteClose"]
    /\ UNCHANGED <<sendVars, ctxDone, canceled, mapped, recvClosed, panicked, recvBuf, accepted,
                   handling, net, closeVars>>

FinishRemoteClose(e) ==
    /\ loop[e] = "remoteClose"
    /\ Release(e)
    /\ loop' = [loop EXCEPT ![e] = "select"]
    /\ UNCHANGED <<sendVars, closed, canceled, recvBuf, accepted, handling, netVars, closeVars>>

(* The application takes a message from the channel.                           *)
Read(e) ==
    /\ \E m \in recvBuf[e] : recvBuf' = [recvBuf EXCEPT ![e] = @ \ {m}]
    /\ UNCHANGED <<sendVars, endVars, accepted, loop, handling, netVars, closeVars>>

-----------------------------------------------------------------------------
(* Close.                                                                      *)
CallClose(e) ==
    /\ closer[<<e, "app">>] = "idle"
    /\ closer' = [closer EXCEPT ![<<e, "app">>] = "called"]
    /\ UNCHANGED <<sendVars, endVars, recvVars, netVars, fuse>>

(* setClosed: the first one closes the stream, any other returns.              *)
MutSetClosed(e, k) ==
    /\ closer[<<e, k>>] = "called"
    /\ closed' = closed \cup {e}
    /\ closer' = [closer EXCEPT ![<<e, k>>] = "sendClose"]
    /\ UNCHANGED <<sendVars, ctxDone, canceled, mapped, recvClosed, panicked, recvVars, netVars,
                   fuse>>

SetClosed(e, k) ==
    /\ closer[<<e, k>>] = "called"
    /\ closed' = closed \cup {e}
    /\ closer' = [closer EXCEPT ![<<e, k>>] = IF e \in closed THEN "lost" ELSE "sendClose"]
    /\ UNCHANGED <<sendVars, ctxDone, canceled, mapped, recvClosed, panicked, recvVars, netVars,
                   fuse>>

SendClose(e, k) ==
    /\ closer[<<e, k>>] = "sendClose"
    /\ closer' = [closer EXCEPT ![<<e, k>>] = "wait"]
    /\ net' = net \cup {CloseTo(Peer(e))}
    /\ UNCHANGED <<sendVars, endVars, recvVars, inbox, fuse>>

(* pending.Wait, then the release.                                             *)
MutFinishClose(e, k) ==
    /\ closer[<<e, k>>] = "wait"
    /\ closer' = [closer EXCEPT ![<<e, k>>] = "finished"]
    /\ Release(e)
    /\ UNCHANGED <<sendVars, closed, canceled, recvVars, netVars, fuse>>

FinishClose(e, k) ==
    /\ closer[<<e, k>>] = "wait"
    /\ Pending(e) = {}
    /\ closer' = [closer EXCEPT ![<<e, k>>] = "finished"]
    /\ Release(e)
    /\ UNCHANGED <<sendVars, closed, canceled, recvVars, netVars, fuse>>

-----------------------------------------------------------------------------
(* runClientStream: when the stream's context or the client ends, the loop     *)
(* closes the stream itself and returns.                                       *)
BreakFuse ==
    /\ ~fuse
    /\ fuse' = TRUE
    /\ UNCHANGED <<sendVars, endVars, recvVars, netVars, closer>>

Cancel ==
    /\ CallerCancels
    /\ "client" \notin ctxDone
    /\ ctxDone' = ctxDone \cup {"client"}
    /\ canceled' = TRUE
    /\ UNCHANGED <<sendVars, closed, mapped, recvClosed, panicked, recvVars, netVars,
                   closeVars>>

LoopCloses ==
    /\ loop["client"] = "select"
    /\ fuse \/ "client" \in ctxDone
    /\ loop' = [loop EXCEPT !["client"] = "closing"]
    /\ closer' = [closer EXCEPT ![<<"client", "loop">>] = "called"]
    /\ UNCHANGED <<sendVars, endVars, recvBuf, accepted, handling, netVars, fuse>>

LoopReturns ==
    /\ loop["client"] = "closing"
    /\ closer[<<"client", "loop">>] \in {"finished", "lost"}
    /\ loop' = [loop EXCEPT !["client"] = "exited"]
    /\ UNCHANGED <<sendVars, endVars, recvBuf, accepted, handling, netVars, closeVars>>

-----------------------------------------------------------------------------
SendStep(m) ==
    \/ PublishMessage(m) \/ PublishFails(m) \/ SendAcked(m) \/ SendTimesOut(m)
    \/ SendInterrupted(m)

HandleStep(e) ==
    Malformed(e) \/ Recv(e) \/ SlowConsumer(e) \/ Ack(e) \/ FinishRemoteClose(e)

CloseStep(e, k) == SetClosed(e, k) \/ SendClose(e, k) \/ FinishClose(e, k)

Next ==
    \/ \E m \in Sends : BeginSend(m) \/ SendStep(m) \/ HandleAck(m) \/ HandleMessage(m)
    \/ \E p \in Packets : Route(p)
    \/ \E e \in Ends : HandleStep(e) \/ HandleClose(e) \/ Read(e) \/ CallClose(e)
    \/ \E e \in Ends, k \in Closers : CloseStep(e, k)
    \/ BreakFuse \/ Cancel \/ LoopCloses \/ LoopReturns

Spec == Init /\ [][Next]_vars

(* What happens without anyone's doing: goroutines that can run do, and the    *)
(* deadline of a send passes. Messages may be lost, and nobody has to send,    *)
(* read or close.                                                              *)
FairStep ==
    \/ \E m \in Sends : SendStep(m)
    \/ \E e \in Ends : HandleStep(e)
    \/ \E e \in Ends, k \in Closers : CloseStep(e, k)
    \/ LoopCloses \/ LoopReturns

-----------------------------------------------------------------------------
(* No channel is closed twice or sent to after it was closed, whichever of the *)
(* local closers, the peer's close and a receipt in progress come together.    *)
NoPanic == ~panicked

(* Send returns nil only for a message that entered the peer's receive         *)
(* channel, whatever was lost, expired, refused or closed meanwhile. README.md *)
(* says that Send "blocks until the message has been received". The exception  *)
(* is a Send at the client whose caller's context has ended: no close has set  *)
(* an error by then, and Send returns that error, nil.                         *)
SentMeansReceived ==
    \A m \in Sends :
        send[m] = "ok" => m \in accepted \/ (sender[m] = "client" /\ canceled)

(* When a Close that closed the stream returns, no send and no receipt of that *)
(* end is in progress, and none begins.                                        *)
CloseWaits ==
    \A e \in Ends, k \in Closers : closer[<<e, k>>] = "finished" => Pending(e) = {}

(* Something can happen by itself, as the guards of fair steps have it.        *)
CanGoOn ==
    \/ \E m \in Sends : send[m] \in {"begun", "waiting"}
    \/ \E e \in Ends : loop[e] \in {"recv", "ack", "remoteClose"}
    \/ \E e \in Ends, k \in Closers :
        \/ closer[<<e, k>>] \in {"called", "sendClose"}
        \/ closer[<<e, k>>] = "wait" /\ Pending(e) = {}
    \/ loop["client"] = "select" /\ (fuse \/ "client" \in ctxDone)
    \/ loop["client"] = "closing" /\ closer[<<"client", "loop">>] \in {"finished", "lost"}

(* Every Send and every Close has returned, also the Close caused by a message *)
(* that does not decode while the receipt of that message is itself pending; a *)
(* closed end, whoever closed it, is out of the adapter's map with its context *)
(* canceled and its receive channel closed; and a client stream that is        *)
(* closed, canceled or whose client is closed has no goroutine left.           *)
Settled ==
    /\ \A m \in Sends : send[m] \notin {"begun", "waiting"}
    /\ \A c \in Ends \X Closers : closer[c] \in {"idle", "finished", "lost"}
    /\ \A e \in closed : e \in recvClosed \cap ctxDone /\ e \notin mapped
    /\ fuse \/ "client" \in closed \cup ctxDone => loop["client"] = "exited"

(* Nothing gets stuck: either a step can be taken that needs nobody's doing,   *)
(* or everything has been done. No step can be undone, so a behaviour in which *)
(* what can happen by itself does happen ends with everything done.            *)
NothingStuck == (CanGoOn => ENABLED FairStep) /\ (~CanGoOn => Settled)

=============================================================================

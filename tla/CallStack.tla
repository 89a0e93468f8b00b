------------------------------ MODULE CallStack ------------------------------
(* One unary call through the layers around the request protocol of UnaryRPC:  *)
(* the context's metadata and the channel names, two nested retry interceptors *)
(* (the client's, Outer, and the request's, Inner), the payload's encoding,    *)
(* the server's chain of interceptors, and the error's way back. work holds    *)
(* the stage that the call is at and the data of that stage; what a later      *)
(* stage does not read is dropped.                                             *)
EXTENDS Channels, Errors, Payload

CONSTANTS Infos,           \* methods and topics that can be called
          Clients,         \* IDs of clients
          Keys,            \* metadata keys
          MaxContextOps,   \* bound on the calls that set metadata
          Bodies,          \* payloads
          BusOptsSet,      \* options of the publishing bus
          MaxSizes,        \* decompression caps of the receiving bus
          RetryOptsSet,    \* retry options of an interceptor
          Callers,         \* the timeout and deadline a caller may give, 0 for none
          ClientTimeout,   \* timeout of the client's options, 0 for none
          DefaultClientTimeout,
          AffinityTimeout, \* selection timeout, of which a cut short wait may be
          MaxTries,        \* bound on the attempts
          MaxChain,        \* bound on the interceptors of the server ...
          MaxNextCalls     \* ... and on how often each calls the next

Outer == 1
Inner == 2
Levels == {Outer, Inner}

ASSUME CallStackAssumption ==
    /\ \A o \in RetryOptsSet : o.max \in Nat /\ o.timeout \in Nat /\ o.backoff \in Nat
    /\ \A c \in Callers : c.timeout \in Nat /\ c.deadline \in Nat
    /\ DefaultClientTimeout \in Nat \ {0} /\ AffinityTimeout \in Nat \ {0}
    /\ ClientTimeout \in Nat /\ MaxChain \in Nat
    /\ MaxSizes \subseteq Nat /\ \A b \in Bodies : b.len \in Nat

VARIABLES work,     \* the stage of the call, with its data
          opt,      \* RetryOptions of each level
          caller,   \* the timeout and the deadline the caller gave
          loop,     \* local variables of each level's retry: attempt, timeout, start
          now,      \* the time
          canceled, \* the caller's context was canceled
          sent      \* history: the attempts, in order

callVars == <<opt, caller>>
stackVars == <<work, callVars, loop, now, canceled, sent>>

At(stage) == work.at = stage

NewLoop(o, start) == [attempt |-> 1, timeout |-> o.timeout, start |-> start]

StackInit ==
    /\ work = [at |-> "context", ctx |-> Unset, ops |-> <<>>]
    /\ opt = <<>> /\ caller = <<>> /\ loop = <<>>
    /\ now = 0 /\ canceled = FALSE /\ sent = <<>>

-----------------------------------------------------------------------------
(* The caller prepares its context. The value set is the number of the call.   *)
Op(name, key) == [name |-> name, key |-> key]

Apply(ctx, op, n) ==
    LET md == [k \in {op.key} |-> n]
    IN  CASE op.name = "reset" -> NewContextWithOutgoingMetadata(TRUE, NoPairs)
          [] op.name = "new" -> NewContextWithOutgoingMetadata(FALSE, md)
          [] op.name = "with" -> WithOutgoingMetadata(ctx, md)
          [] OTHER -> AppendMetadataToOutgoingContext(ctx, op.key, n)

SetMetadata(op) ==
    /\ At("context")
    /\ Len(work.ops) < MaxContextOps
    /\ LET n == Len(work.ops) + 1
       IN  work' = [work EXCEPT !.ctx = Apply(@, op, n), !.ops = Append(@, op)]
    /\ UNCHANGED <<callVars, loop, now, canceled, sent>>

(* RequestSingle, Join, and the server's Publish: the channels of the method   *)
(* and topic, and the caller's own, under which it is answered.                *)
NameChannels(i, c) ==
    /\ At("context")
    /\ work' = [at |-> "named", info |-> i, client |-> c]
    /\ UNCHANGED <<callVars, loop, now, canceled, sent>>

-----------------------------------------------------------------------------
(* Retry (pkg/middleware/retry.go). ChainClientInterceptors puts the client's  *)
(* interceptor around the one that WithRequestInterceptors added.              *)
Call(o, c) ==
    /\ At("named")
    /\ opt' = o /\ caller' = c
    /\ loop' = [L \in Levels |-> NewLoop(o[L], now)]
    /\ work' = [at |-> "attempt"]
    /\ UNCHANGED <<now, canceled, sent>>

HasDeadline == caller.deadline > 0

Done == canceled \/ (HasDeadline /\ now >= caller.deadline)

(* getRequestOpts: the client's timeout, or what is left of a deadline that is *)
(* sooner, or the default; then the options in order.                          *)
BaseTimeout ==
    LET left == caller.deadline - now
        base == IF HasDeadline /\ (ClientTimeout = 0 \/ ClientTimeout > left)
                THEN left ELSE ClientTimeout
    IN  IF base = 0 THEN DefaultClientTimeout ELSE base

(* An interceptor adds the timeout of its attempt unless the caller set one.   *)
WithTimeout(t) == IF t > 0 THEN <<t>> ELSE <<>>

TimeoutOptions ==
    IF caller.timeout > 0 THEN <<caller.timeout>>
    ELSE WithTimeout(loop[Outer].timeout) \o WithTimeout(loop[Inner].timeout)

Timeout == IF TimeoutOptions = <<>> THEN BaseTimeout ELSE Last(TimeoutOptions)

(* newRPC clamps the expiry to the caller's deadline.                          *)
Expiry ==
    IF HasDeadline /\ caller.deadline < now + Timeout THEN caller.deadline ELSE now + Timeout

(* The attempt is made.                                                        *)
Attempt ==
    /\ At("attempt")
    /\ Len(sent) < MaxTries
    /\ work' = [at |-> "sent", expiry |-> Expiry]
    /\ sent' = Append(sent, [at |-> now, timeout |-> Timeout, expiry |-> Expiry,
                             wait |-> 0, late |-> Done])
    /\ UNCHANGED <<callVars, loop, now, canceled>>

EndsWith(err, time) ==
    /\ work' = [at |-> "outcome", level |-> Inner, err |-> err]
    /\ now' = time
    /\ sent' = [sent EXCEPT ![Len(sent)].wait = err.wait]
    /\ UNCHANGED <<callVars, loop, canceled>>

(* It ends without a response: publishing fails, the wait for bids or for the  *)
(* response runs out, nothing is subscribed, or the call is called off.        *)
CutShort == {work.expiry - now, IF AffinityTimeout < work.expiry - now
                                THEN AffinityTimeout ELSE work.expiry - now}

Unserved ==
    /\ At("sent")
    /\ \/ EndsWith(NewError("internal"), now)
       \/ EndsWith(ErrRequestTimedOut, work.expiry)
       \/ \E wait \in CutShort : \/ EndsWith(ErrNoResponse, now + wait)
                                \/ EndsWith(NewNoSubscriberError(wait), now)
       \/ canceled /\ EndsWith(ErrRequestCanceled, now)
       \/ EndsWith(ErrClientClosed, now)

(* retry, when the attempt of level L has ended: give up, or go again with     *)
(* what getRetryWithBackoffParameters says.                                    *)
IsTimeout(err) ==
    ~HasCode(err) \/ GetErrorCode(err) \in {"deadline_exceeded", "unavailable"}

ShouldRetry(L, err) == IsTimeout(err) /\ loop[L].attempt # opt[L].max

Pass(L, err) ==
    IF L = Inner THEN [at |-> "outcome", level |-> Outer, err |-> err]
    ELSE [at |-> "returned", err |-> err]

(* The wait that the broker's report cut short, less the time that has passed. *)
MutWaitTime(L, err) == 0

WaitTime(L, err) ==
    LET elapsed == now - loop[L].start
    IN  IF err.kind = "noSubscriber" /\ err.wait > elapsed THEN err.wait - elapsed ELSE 0

Decide(L) ==
    /\ At("outcome") /\ work.level = L
    /\ IF work.err # NoErr /\ ShouldRetry(L, work.err)
       THEN /\ work' = [at |-> "waiting", level |-> L, wait |-> WaitTime(L, work.err)]
            /\ loop' = [loop EXCEPT ![L].attempt = @ + 1, ![L].timeout = @ + opt[L].backoff]
       ELSE work' = Pass(L, work.err) /\ UNCHANGED loop
    /\ UNCHANGED <<callVars, now, canceled, sent>>

(* The wait ends when the context does; else the next attempt begins, and with *)
(* it a loop of the level inside. When the timer and the context are both      *)
(* done, either may be taken.                                                  *)
WaitIsCut(L) ==
    /\ At("waiting") /\ work.level = L
    /\ LET ends == IF HasDeadline /\ caller.deadline > now THEN caller.deadline ELSE now
       IN  /\ canceled \/ (HasDeadline /\ ends <= now + work.wait)
           /\ now' = IF canceled THEN now ELSE ends
    /\ work' = Pass(L, ErrRequestCanceled)
    /\ UNCHANGED <<callVars, loop, canceled, sent>>

WaitEnds(L) ==
    /\ At("waiting") /\ work.level = L
    /\ work.wait = 0 => ~Done
    /\ HasDeadline => now + work.wait <= caller.deadline
    /\ now' = now + work.wait
    /\ loop' = [M \in Levels |->
                  IF M = L THEN [loop[M] EXCEPT !.start = now']
                  ELSE IF M > L THEN NewLoop(opt[M], now') ELSE loop[M]]
    /\ work' = [at |-> "attempt"]
    /\ UNCHANGED <<callVars, canceled, sent>>

CancelCaller ==
    /\ At("sent") \/ At("waiting")
    /\ ~canceled
    /\ canceled' = TRUE
    /\ UNCHANGED <<work, callVars, loop, now, sent>>

-----------------------------------------------------------------------------
(* The payload travels, as it was serialized here or by a later version that   *)
(* compresses in another way; what does not decode is dropped, and the call    *)
(* runs out of time.                                                           *)
Encode(body, o, maxSize) ==
    /\ At("sent") /\ now < work.expiry
    /\ \E wire \in {Serialize(body, o), [Serialize(body, o) EXCEPT !.compression = "other"]} :
        work' = [at |-> "wire", max |-> maxSize, wire |-> wire,
                 got |-> Deserialize(wire, maxSize), expiry |-> work.expiry]
    /\ UNCHANGED <<callVars, loop, now, canceled, sent>>

Dropped ==
    /\ At("wire") /\ ~work.got.ok
    /\ \/ EndsWith(ErrRequestTimedOut, work.expiry)
       \/ \E wait \in CutShort : EndsWith(ErrNoResponse, now + wait)

(* ChainServerInterceptors: n interceptors share the counter i; the stack has  *)
(* those that are running and how often each has called next.                  *)
Serve(n) ==
    /\ At("wire") /\ work.got.ok
    /\ work' = [at |-> "chain", n |-> n, i |-> 0, stack |-> <<>>, repeated |-> FALSE]
    /\ UNCHANGED <<callVars, loop, now, canceled, sent>>

Depth == Len(work.stack)
Called == [work.stack EXCEPT ![Depth].calls = @ + 1]
Repeats == work.repeated \/ (Depth > 0 /\ work.stack[Depth].calls > 0)
Enter(stack, k) == Append(stack, [k |-> k, calls |-> 0])

(* state.next, called first by the handler of the request, then by each.       *)
MutAdvance == IF work.i + 2 < work.n THEN work.i + 2 ELSE work.n - 1

Advance == work.i + 1

CallNext ==
    /\ At("chain") /\ work.n > 0
    /\ IF Depth = 0 THEN work.i = 0
       ELSE work.stack[Depth].k # work.n - 1 /\ work.stack[Depth].calls < MaxNextCalls
    /\ LET stack == IF Depth = 0 THEN <<>> ELSE Called
       IN  work' = IF work.i = work.n - 1
                   THEN [work EXCEPT !.stack = Enter(stack, work.i), !.repeated = Repeats]
                   ELSE [work EXCEPT !.i = Advance, !.repeated = Repeats,
                                     !.stack = Enter(stack, work.i)]
    /\ UNCHANGED <<callVars, loop, now, canceled, sent>>

(* The last of them calls the handler itself; without any, it is called alone. *)
RunHandler ==
    /\ At("chain")
    /\ IF work.n = 0 THEN TRUE
       ELSE /\ Depth > 0 /\ work.stack[Depth].k = work.n - 1
            /\ work.stack[Depth].calls < MaxNextCalls
    /\ work' = [work EXCEPT !.at = "handler",
                            !.stack = IF work.n = 0 THEN @ ELSE Called, !.repeated = Repeats]
    /\ UNCHANGED <<callVars, loop, now, canceled, sent>>

(* An interceptor, or the handler, returns to the one that called it.          *)
Return ==
    /\ (At("handler") /\ work.n > 0) \/ (At("chain") /\ Depth > 1)
    /\ work' = IF At("handler") THEN [work EXCEPT !.at = "chain"]
               ELSE [work EXCEPT !.stack = Front(@)]
    /\ UNCHANGED <<callVars, loop, now, canceled, sent>>

(* The first of them returns, with whatever error it pleases; so the response  *)
(* is sent, and decoded, before the request expires.                           *)
Reply(err) ==
    /\ (At("handler") /\ work.n = 0) \/ (At("chain") /\ Depth = 1)
    /\ work' = [at |-> "replied", err |-> err, got |-> Decode(SendResponse(err))]
    /\ UNCHANGED <<callVars, loop, now, canceled, sent>>

Replied == At("replied") /\ EndsWith(work.got, now)

StackNext ==
    \/ \E name \in {"reset", "new", "with", "append"}, key \in Keys : SetMetadata(Op(name, key))
    \/ \E i \in Infos, c \in Clients : NameChannels(i, c)
    \/ \E o \in [Levels -> RetryOptsSet], c \in Callers : Call(o, c)
    \/ Attempt \/ Unserved \/ CancelCaller
    \/ \E L \in Levels : Decide(L) \/ WaitIsCut(L) \/ WaitEnds(L)
    \/ \E body \in Bodies, o \in BusOptsSet, max \in MaxSizes : Encode(body, o, max)
    \/ Dropped
    \/ \E n \in 0..MaxChain : Serve(n)
    \/ CallNext \/ RunHandler \/ Return \/ Replied
    \/ \E err \in HandlerErrors \cup {NoErr, Recovered, Malformed} : Reply(err)

StackSpec == StackInit /\ [][StackNext]_stackVars

-----------------------------------------------------------------------------
(* Where Publish of a server sends, and what Join and JoinQueue listen to.     *)
PublishTo(i) == GetRPCChannel(i)
Join(i) == GetRPCChannel(i)
JoinQueue(i) == GetRPCChannel(i)

Names ==
    [i \in Infos |-> [REQ |-> GetRPCChannel(i), RCLAIM |-> GetClaimResponseChannel(i),
                      STR |-> GetStreamServerChannel(i)]]

Answers(service, c) ==
    [RES |-> ClientChannel(service, <<c>>, "RES"), CLAIM |-> ClientChannel(service, <<c>>, "CLAIM"),
     STR |-> ClientChannel(service, <<c>>, "STR")]

Inbox(service, c) == ClientChannel(service, PerRequestClientID(c, "*"), "RES")

Reaches(p, s) == ReachesByKey(p, s) \/ ReachesBySubject(p, s)

(* A message reaches the subscriptions of its own method, topic and purpose on *)
(* every transport, and no others, whatever characters the topic's parts hold  *)
(* (parts that are empty excepted); handlers of different topics have          *)
(* different keys; a publication reaches those who joined its topic; an answer *)
(* reaches its own client only, and the request can be read back from the      *)
(* subject of its own response channel.                                        *)
ChannelsAreIsolated ==
    At("named") =>
        LET i == work.info
            c == work.client
            answer(perRequest, channel) ==
                AnswerChannel(i.service, [clientID |-> c, requestID |-> "REQ_1",
                                          perRequestReply |-> perRequest], channel)
        IN  /\ \A j \in Infos : \A a, b \in {"REQ", "RCLAIM", "STR"} :
                LET p == Names[i][a]
                    s == Names[j][b]
                IN  IF i = j /\ a = b THEN ReachesByKey(p, s) /\ ReachesBySubject(p, s)
                    ELSE ~Reaches(p, s)
            /\ \A j \in Infos : \A s \in {Join(j), JoinQueue(j)} :
                IF i = j THEN ReachesByKey(PublishTo(i), s) /\ ReachesBySubject(PublishTo(i), s)
                ELSE ~Reaches(PublishTo(i), s)
            /\ \A j \in Infos : (GetHandlerKey(i) = GetHandlerKey(j) /\ i.service = j.service) => i = j
            /\ \A d \in Clients : \A a \in {"RES", "CLAIM"}, b \in {"RES", "CLAIM", "STR"} :
                LET p == answer(FALSE, a)
                    s == Answers(i.service, d)[b]
                IN  IF c = d /\ a = b THEN ReachesByKey(p, s) /\ ReachesBySubject(p, s)
                    ELSE ~Reaches(p, s)
            /\ \A d \in Clients : /\ ReachesBySubject(answer(TRUE, "CLAIM"), Inbox(i.service, d)) = (c = d)
                                  /\ ~ReachesBySubject(answer(FALSE, "RES"), Inbox(i.service, d))
            /\ PerRequestID(answer(TRUE, "RES").server) = <<"REQ_1">>
            /\ \A a \in {"REQ", "RCLAIM", "STR"}, b \in {"RES", "CLAIM", "STR"} :
                    ~Reaches(Names[i][a], Answers(i.service, c)[b])

(* The value a key has: the latest appended since the context's metadata was   *)
(* last replaced, or else the latest that was set.                             *)
Calls(names, key, from) ==
    {n \in DOMAIN work.ops : n >= from /\ work.ops[n].name \in names /\ work.ops[n].key = key}

ExpectedMetadata ==
    LET resets == {n \in DOMAIN work.ops : work.ops[n].name \in {"reset", "new"}}
        from == Max(resets \cup {0})
        latest(key) == LET A == Calls({"append"}, key, from)
                       IN  Max(IF A = {} THEN Calls({"with", "new"}, key, from) ELSE A)
        set == {key \in Keys : Calls({"append", "with", "new"}, key, from) # {}}
    IN  [key \in set |-> latest(key)]

(* No order of the calls that set metadata ends in a write to a nil map, and   *)
(* what is sent is the expected value of each key that was set: an appended    *)
(* value wins over one that is set later, unless all were replaced since.      *)
MetadataIsSafe == At("context") => ~Panics(work.ctx)
MetadataArrives == At("context") => OutgoingContextMetadata(work.ctx) = ExpectedMetadata

(* A payload arrives whole or, if it was compressed and is over the receiver's *)
(* cap, not at all, and no more than a byte over the cap is ever unpacked.     *)
PayloadArrives ==
    At("wire") =>
        LET len == work.wire.body.len
            fits == \/ work.wire.compression = "none"
                    \/ work.wire.compression = "gzip" /\ (work.max = 0 \/ len <= work.max)
        IN  /\ work.got.ok = fits
            /\ fits => work.got.len = len
            /\ work.got.len <= work.max + 1 \/ work.max = 0 \/ work.wire.compression = "none"

(* What the caller put in arrives, its metadata as its payload.                *)
ContentArrivesWhole == MetadataIsSafe /\ MetadataArrives /\ PayloadArrives

(* A code that does not survive the way through gRPC: it has none of its kind. *)
Coarsened == {"not_acceptable", "unprocessable_entity"}

(* An error of the handler that has a text and a code other than OK is an      *)
(* error at the client, with the code it had at the server, so that the retry  *)
(* interceptor decides as it would have there (any other error arrives as      *)
(* unknown and is not retried), and with an HTTP status of the same class,     *)
(* also when a gRPC gateway is in between, to which a Twirp one agrees; and    *)
(* only an error is one.                                                       *)
ErrorsSurvive ==
    At("replied") =>
        LET e == work.err
            d == work.got
            viaGRPC == ErrorCodeFromGRPC(ToGRPC(d.code))
        IN  /\ e = NoErr => d = NoErr
            /\ (e # NoErr /\ e.text /\ GetErrorCode(e) # OK) =>
                /\ d # NoErr
                /\ d.code = GetErrorCode(e)
                /\ IsTimeout(d) = (IsTimeout(e) /\ e.kind # "plain")
                /\ ToHTTP(d.code) \div 100 \in {4, 5}
                /\ d.code \notin Coarsened => ToHTTP(viaGRPC) \div 100 = ToHTTP(d.code) \div 100
                /\ ToTwirp(d.code) = ToGRPC(d.code) \/ ToTwirp(d.code) = "malformed"

(* README.md: "PSRPC errors are serialized by the PSRPC server implementation, *)
(* and unmarshalled (with the original error code) on the client". An error    *)
(* without a text is not: the client takes a response that has none for a      *)
(* success (client/rpc.go:219).                                                *)
ErrorKeepsCode ==
    (At("replied") /\ work.err.kind = "psrpc" /\ work.err.code # OK) =>
        work.got # NoErr /\ work.got.code = work.err.code

(* The handler runs inside every interceptor, in their order, and always       *)
(* inside the last, which is where WithServerRecovery belongs. An interceptor  *)
(* that calls next again is not given this: it reaches the last one at once.   *)
HandlerIsGuarded ==
    (At("handler") /\ work.n > 0) =>
        /\ work.stack[Depth].k = work.n - 1
        /\ ~work.repeated => [m \in 1..Depth |-> work.stack[m].k] = [m \in 1..work.n |-> m - 1]

(* Attempt k, by its place among the attempts of the two levels.               *)
AttemptOf(L, k) ==
    IF opt[Inner].max = 0 THEN IF L = Inner THEN k ELSE 1
    ELSE IF L = Inner THEN ((k - 1) % opt[Inner].max) + 1
    ELSE ((k - 1) \div opt[Inner].max) + 1

LevelTimeout(L, k) == opt[L].timeout + (AttemptOf(L, k) - 1) * opt[L].backoff

(* Retries are as configured. With both maxima set there are no more attempts  *)
(* than their product, and an error that can be retried is given up only after *)
(* that many; the timeout of an attempt is the caller's, or else the inner     *)
(* level's, or the outer's, grown by its backoff; no attempt outlives the      *)
(* caller's deadline; and the next one comes no sooner than the wait that the  *)
(* broker cut short and, without such a wait, never once the context is done.  *)
(* The exception is the last attempt of an inner loop of several: the outer    *)
(* level counts the earlier ones' time as time waited.                         *)
RetriesAreAsConfigured ==
    At("context") \/ At("named") \/
    LET tries == opt[Outer].max * opt[Inner].max
    IN  /\ tries > 0 => Len(sent) <= tries
        /\ (At("returned") /\ work.err # NoErr /\ IsTimeout(work.err)) =>
                tries > 0 /\ Len(sent) = tries
        /\ \A k \in DOMAIN sent :
            /\ caller.timeout > 0 => sent[k].timeout = caller.timeout
            /\ (caller.timeout = 0 /\ LevelTimeout(Inner, k) > 0) => sent[k].timeout = LevelTimeout(Inner, k)
            /\ (caller.timeout = 0 /\ LevelTimeout(Inner, k) = 0 /\ LevelTimeout(Outer, k) > 0) =>
                    sent[k].timeout = LevelTimeout(Outer, k)
            /\ HasDeadline => sent[k].expiry <= caller.deadline
            /\ k > 1 => LET p == sent[k - 1]
                        IN  /\ sent[k].at >= p.at + p.wait \/ (opt[Inner].max > 1 /\ AttemptOf(Inner, k) = 1)
                            /\ sent[k].late => p.wait > 0

=============================================================================

------------------------------ MODULE Channels ------------------------------
(* The names of channels (pkg/info/channels.go): how a service, a method, a    *)
(* topic and an ID become the key that Redis and the local bus match, and the  *)
(* subject and Local part that NATS matches. A string is a sequence of pieces: *)
(* one character each, or a word that no part of the code takes apart (a name, *)
(* a marker such as "REQ", the hex digits of an escape).                       *)
EXTENDS Naturals, Sequences, FiniteSets, SequencesExt

CONSTANTS Escapes \* characters outside channelChar, with their hex digits

(* appendSanitizedChannelPart: u+ and four digits, U+ and eight for a code     *)
(* point of more than 16 bits. The strings are valid UTF-8: range reads every  *)
(* byte that is not as U+FFFD, so names that differ in such bytes only are     *)
(* equal after it.                                                             *)
Escape(r) ==
    IF r \notin DOMAIN Escapes THEN <<r>>
    ELSE <<IF Escapes[r].wide THEN "U" ELSE "u", "+", Escapes[r].hex>>

MutSanitize(s) == s

Sanitize(s) == FlattenSeq([k \in DOMAIN s |-> Escape(s[k])])

(* appendChannelParts: a part is preceded by the delimiter if the part before  *)
(* it added something.                                                         *)
AppendParts(delim, parts) ==
    FoldLeft(LAMBDA acc, part :
                 [buf |-> acc.buf \o (IF acc.prefix THEN <<delim>> ELSE <<>>) \o part,
                  prefix |-> part # <<>>],
             [buf |-> <<>>, prefix |-> FALSE], parts).buf

FormatParts(delim, parts) ==
    AppendParts(delim, [k \in DOMAIN parts |-> Sanitize(parts[k])])

(* formatChannel; a topic is one part, whose own parts are joined first.       *)
FormatChannel(delim, before, topic, after) ==
    AppendParts(delim, [k \in DOMAIN before |-> Sanitize(before[k])]
                       \o <<FormatParts(delim, topic)>>
                       \o [k \in DOMAIN after |-> Sanitize(after[k])])

FormatLegacy(i, channel) ==
    FormatChannel("|", <<<<i.service>>, <<i.method>>>>, i.topic, <<<<channel>>>>)

FormatClientChannel(service, clientID, channel) ==
    <<"CLI", ".", service, ".">> \o clientID \o <<".", channel>>

FormatLocalChannel(method, channel) == <<method, ".", channel>>

FormatServerChannel(service, topic, queue) ==
    <<"SRV", ".", service>>
    \o FlattenSeq([k \in DOMAIN topic |->
                     IF topic[k] = <<>> THEN <<>> ELSE <<".">> \o Sanitize(topic[k])])
    \o (IF queue THEN <<".", "Q">> ELSE <<>>)

-----------------------------------------------------------------------------
Channel(legacy, server, local) == [legacy |-> legacy, server |-> server, local |-> local]

GetRPCChannel(i) ==
    Channel(FormatLegacy(i, "REQ"),
            FormatServerChannel(i.service, i.topic, i.queue), FormatLocalChannel(i.method, "REQ"))

GetClaimResponseChannel(i) ==
    Channel(FormatLegacy(i, "RCLAIM"),
            FormatServerChannel(i.service, i.topic, FALSE), FormatLocalChannel(i.method, "RCLAIM"))

GetStreamServerChannel(i) ==
    Channel(FormatLegacy(i, "STR"),
            FormatServerChannel(i.service, i.topic, FALSE), FormatLocalChannel(i.method, "STR"))

GetHandlerKey(i) == FormatChannel(".", <<<<i.method>>>>, i.topic, <<>>)

(* GetClaimRequestChannel, GetStreamChannel and GetResponseChannel.            *)
ClientChannel(service, clientID, channel) ==
    Channel(FormatParts("|", <<<<service>>, clientID, <<channel>>>>),
            FormatClientChannel(service, clientID, channel), <<>>)

PerRequestClientID(clientID, requestID) == <<clientID, ".", requestID>>

(* strings.Split at the dots.                                                  *)
Split(s) ==
    FoldLeft(LAMBDA acc, c : IF c = "." THEN Append(acc, <<>>)
                             ELSE [acc EXCEPT ![Len(acc)] = Append(@, c)],
             <<<<>>>>, s)

PerRequestID(channel) ==
    LET parts == Split(channel)
    IN  IF Len(parts) < 2 THEN <<>> ELSE parts[Len(parts) - 1]

(* answerChannel, for the channel it is given.                                 *)
AnswerChannel(service, ir, channel) ==
    IF ir.perRequestReply
    THEN ClientChannel(service, PerRequestClientID(ir.clientID, ir.requestID), "RES")
    ELSE ClientChannel(service, <<ir.clientID>>, channel)

-----------------------------------------------------------------------------
(* Does what is published to channel p reach a subscription to channel s? By   *)
(* key, as Redis and the local bus do; by subject, token by token, and by      *)
(* Local part, as NATS and its router do.                                      *)
SubjectMatches(subject, pattern) ==
    LET a == Split(subject)
        b == Split(pattern)
    IN  Len(a) = Len(b) /\ \A k \in DOMAIN a : b[k] = <<"*">> \/ a[k] = b[k]

ReachesByKey(p, s) == p.legacy = s.legacy

ReachesBySubject(p, s) == SubjectMatches(p.server, s.server) /\ p.local = s.local

=============================================================================

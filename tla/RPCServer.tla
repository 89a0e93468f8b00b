------------------------------ MODULE RPCServer ------------------------------
(* The handler registry of a server (pkg/server/server.go) with the grouped    *)
(* registration of pkg/server/registration.go: RegisterHandler and             *)
(* RegisterStreamHandler, DeregisterHandler, Close, the closeOnce of each      *)
(* handler and the onCompleted callback that takes it out of the map.          *)
(*                                                                             *)
(* Each group is one call of RegistererSlice.Register, later perhaps of        *)
(* Deregister; a single registration is a group of one. A handler is named by  *)
(* its group and position. What a handler does with a request is RPCHandler    *)
(* and Stream; here it is in flight or not.                                    *)
EXTENDS Integers, Sequences, FiniteSets

CONSTANTS Groups,     \* calls of RegistererSlice.Register
          Slice,      \* the keys each group registers, in order
          StreamKeys, \* keys registered with RegisterStreamHandler
          Calls,      \* calls of Close
          ForceCalls, \* the calls of Close with force
          Fuses,      \* how core.Fuse may behave, see Init
          None        \* no handler, no call

Keys == UNION {{Slice[g][i] : i \in DOMAIN Slice[g]} : g \in Groups}

Handlers == UNION {{<<g, i>> : i \in DOMAIN Slice[g]} : g \in Groups}

ASSUME ServerAssumption ==
    /\ \A g \in Groups : Slice[g] \in Seq(Keys) /\ Slice[g] # <<>>
    /\ IsFiniteSet(Groups)
    /\ StreamKeys \subseteq Keys
    /\ ForceCalls \subseteq Calls
    /\ Fuses \subseteq [breaksFirst : BOOLEAN, waits : BOOLEAN]
    /\ None \notin Handlers \cup Calls

VARIABLES handlers, \* s.handlers
          active,   \* s.active
          broken,   \* s.shutdown
          fuse,     \* how core.Fuse behaves
          owner,    \* the call of Close that runs the callback of s.shutdown.Once
          snapshot, \* the handlers that callback closes
          closePc,  \* where each call of Close is
          regPc,    \* where each group is
          pos,      \* the position it registers or deregisters
          limit,    \* the positions 1..limit[g] it has to deregister
          target,   \* the handler whose close it waits for
          state,    \* the life of each handler
          forced,   \* handlers whose close was called with force
          running,  \* handlers whose run loop was started
          drained,  \* handlers whose run loop has drained
          inFlight, \* RPC handlers with a request in flight
          raced,    \* history: keys that two calls found free and registered at once
          late      \* history: handlers registered beside Close, see CallClose

mapVars == <<handlers, active>>
onceVars == <<broken, fuse, owner, snapshot, closePc>>
groupVars == <<regPc, pos, limit, target>>
workVars == <<running, drained, inFlight>>
history == <<raced, late>>
vars == <<mapVars, onceVars, groupVars, state, forced, workVars, history>>

(* The places inside RegisterHandler: past the check of the shutdown fuse,     *)
(* past the check for a handler of the same key, and past the insertion.       *)
Making == {"absent", "made", "counted"}
Begun == {"checked"} \cup Making
Registering == Begun \cup {"mapped"}

TypeOK ==
    /\ handlers \in [Keys -> Handlers \cup {None}]
    /\ active \in 0..Cardinality(Handlers)
    /\ broken \in BOOLEAN
    /\ fuse \in Fuses
    /\ owner \in Calls \cup {None}
    /\ snapshot \subseteq Handlers
    /\ closePc \in [Calls -> {"idle", "once", "closing", "behind", "wait", "returned"}]
    /\ regPc \in [Groups -> Registering \cup {"next", "registered", "undo", "failed",
                                              "deregister", "gone"}]
    /\ pos \in [Groups -> Nat]
    /\ limit \in [Groups -> Nat]
    /\ target \in [Groups -> Handlers \cup {None}]
    /\ state \in [Handlers -> {"none", "made", "counted", "open", "closing", "done", "complete"}]
    /\ forced \subseteq Handlers
    /\ running \subseteq Handlers
    /\ drained \subseteq Handlers
    /\ inFlight \subseteq Handlers
    /\ raced \subseteq Keys
    /\ late \subseteq Handlers

(* core.Fuse is a library: whether Once breaks the fuse before or after the    *)
(* callback, and whether a second call of Once waits for the first, is left    *)
(* open.                                                                       *)
Init ==
    /\ handlers = [k \in Keys |-> None]
    /\ active = 0
    /\ broken = FALSE
    /\ fuse \in Fuses
    /\ owner = None
    /\ snapshot = {}
    /\ closePc = [c \in Calls |-> "idle"]
    /\ regPc = [g \in Groups |-> "next"]
    /\ pos = [g \in Groups |-> 1]
    /\ limit = [g \in Groups |-> 0]
    /\ target = [g \in Groups |-> None]
    /\ state = [h \in Handlers |-> "none"]
    /\ forced = {}
    /\ running = {}
    /\ drained = {}
    /\ inFlight = {}
    /\ raced = {}
    /\ late = {}

This(g) == <<g, pos[g]>>
KeyOf(h) == Slice[h[1]][h[2]]
Key(g) == Slice[g][pos[g]]

Reg(g, from, to) == regPc[g] = from /\ regPc' = [regPc EXCEPT ![g] = to]

InCallback == \E c \in Calls : closePc[c] \in {"once", "closing"}

-----------------------------------------------------------------------------
(* RegisterHandler, RegisterStreamHandler. A failure makes the group           *)
(* deregister what it registered before.                                       *)
Fail(g) ==
    /\ regPc' = [regPc EXCEPT ![g] = "undo"]
    /\ limit' = [limit EXCEPT ![g] = pos[g] - 1]
    /\ pos' = [pos EXCEPT ![g] = 1]

CheckShutdown(g) ==
    /\ regPc[g] = "next"
    /\ \/ broken /\ Fail(g) /\ UNCHANGED late
       \/ /\ ~broken
          /\ Reg(g, "next", "checked")
          /\ late' = IF InCallback THEN late \cup {This(g)} ELSE late
          /\ UNCHANGED <<pos, limit>>
    /\ UNCHANGED <<target, mapVars, onceVars, state, forced, workVars, raced>>

(* Two calls that both find a key free go on to insert a handler each.         *)
Race(g) ==
    raced' = IF \E o \in Groups \ {g} : regPc[o] \in Making /\ Key(o) = Key(g)
             THEN raced \cup {Key(g)} ELSE raced

MutCheckExists(g) ==
    /\ Reg(g, "checked", "absent")
    /\ Race(g)
    /\ UNCHANGED <<pos, limit, target, mapVars, onceVars, state, forced, workVars, late>>

CheckExists(g) ==
    /\ regPc[g] = "checked"
    /\ \/ handlers[Key(g)] # None /\ Fail(g) /\ UNCHANGED raced
       \/ /\ handlers[Key(g)] = None
          /\ Reg(g, "checked", "absent")
          /\ Race(g)
          /\ UNCHANGED <<pos, limit>>
    /\ UNCHANGED <<target, mapVars, onceVars, state, forced, workVars, late>>

(* newRPCHandler and newStreamRPCHandler subscribe, which may fail; they close *)
(* the subscription already made when the second one fails.                    *)
NewHandler(g) ==
    /\ Reg(g, "absent", "made")
    /\ state' = [state EXCEPT ![This(g)] = "made"]
    /\ UNCHANGED <<pos, limit, target, mapVars, onceVars, forced, workVars, history>>

NewHandlerFails(g) ==
    /\ regPc[g] = "absent"
    /\ Fail(g)
    /\ UNCHANGED <<target, mapVars, onceVars, state, forced, workVars, history>>

Count(g) ==
    /\ Reg(g, "made", "counted")
    /\ active' = active + 1
    /\ state' = [state EXCEPT ![This(g)] = "counted"]
    /\ UNCHANGED <<handlers, pos, limit, target, onceVars, forced, workVars, history>>

Insert(g) ==
    /\ Reg(g, "counted", "mapped")
    /\ handlers' = [handlers EXCEPT ![Key(g)] = This(g)]
    /\ state' = [state EXCEPT ![This(g)] = "open"]
    /\ UNCHANGED <<active, pos, limit, target, onceVars, forced, workVars, history>>

Run(g) ==
    /\ Reg(g, "mapped", IF pos[g] = Len(Slice[g]) THEN "registered" ELSE "next")
    /\ running' = running \cup {This(g)}
    /\ pos' = [pos EXCEPT ![g] = IF @ = Len(Slice[g]) THEN @ ELSE @ + 1]
    /\ UNCHANGED <<limit, target, mapVars, onceVars, state, forced, drained, inFlight, history>>

-----------------------------------------------------------------------------
(* close of a handler. closeOnce: the first caller decides whether it is       *)
(* forced, every other one waits.                                              *)
CloseHandler(h, force) ==
    IF state[h] = "open"
    THEN /\ state' = [state EXCEPT ![h] = "closing"]
         /\ forced' = IF force THEN forced \cup {h} ELSE forced
    ELSE UNCHANGED <<state, forced>>

IsStream(h) == KeyOf(h) \in StreamKeys

(* A graceful close of an RPC handler waits for the run loop to drain and for  *)
(* the requests in flight; a stream handler's does not.                        *)
MutMayComplete(h) == IsStream(h) \/ h \in forced \/ h \in drained

MayComplete(h) == IsStream(h) \/ h \in forced \/ (h \in drained /\ h \notin inFlight)

(* onCompleted: active.Done, then the entry leaves the map and complete closes. *)
ActiveDone(h) ==
    /\ state[h] = "closing"
    /\ MayComplete(h)
    /\ state' = [state EXCEPT ![h] = "done"]
    /\ active' = active - 1
    /\ UNCHANGED <<handlers, groupVars, onceVars, forced, workVars, history>>

Complete(h) ==
    /\ state[h] = "done"
    /\ state' = [state EXCEPT ![h] = "complete"]
    /\ handlers' = [handlers EXCEPT ![KeyOf(h)] = None]
    /\ UNCHANGED <<active, groupVars, onceVars, forced, workVars, history>>

(* Requests of an RPC handler, as far as its close waits for them: the run     *)
(* loop takes them until it finds its subscription closed.                     *)
TakeRequest(h) ==
    /\ ~IsStream(h)
    /\ h \in running \ (drained \cup inFlight)
    /\ state[h] \in {"open", "closing"}
    /\ inFlight' = inFlight \cup {h}
    /\ UNCHANGED <<mapVars, groupVars, onceVars, state, forced, running, drained, history>>

EndRequest(h) ==
    /\ h \in inFlight
    /\ inFlight' = inFlight \ {h}
    /\ UNCHANGED <<mapVars, groupVars, onceVars, state, forced, running, drained, history>>

MutDrain(h) == FALSE /\ UNCHANGED vars

Drain(h) ==
    /\ ~IsStream(h)
    /\ h \in running \ drained
    /\ state[h] = "closing"
    /\ drained' = drained \cup {h}
    /\ UNCHANGED <<mapVars, groupVars, onceVars, state, forced, running, inFlight, history>>

-----------------------------------------------------------------------------
(* Deregister of a group, and of the first limit[g] of it after a failure.     *)
CallDeregister(g) ==
    /\ Reg(g, "registered", "deregister")
    /\ limit' = [limit EXCEPT ![g] = Len(Slice[g])]
    /\ pos' = [pos EXCEPT ![g] = 1]
    /\ UNCHANGED <<target, mapVars, onceVars, state, forced, workVars, history>>

Deregistering(g) == regPc[g] \in {"undo", "deregister"}

(* DeregisterHandler of one key: the lookup, then the close.                   *)
DeregisterHandler(g) ==
    /\ Deregistering(g) /\ target[g] = None /\ pos[g] <= limit[g]
    /\ \/ /\ handlers[Key(g)] = None
          /\ pos' = [pos EXCEPT ![g] = @ + 1]
          /\ UNCHANGED <<target, state, forced>>
       \/ /\ handlers[Key(g)] # None
          /\ target' = [target EXCEPT ![g] = handlers[Key(g)]]
          /\ CloseHandler(handlers[Key(g)], TRUE)
          /\ UNCHANGED pos
    /\ UNCHANGED <<regPc, limit, mapVars, onceVars, workVars, history>>

HandlerClosed(g) ==
    /\ target[g] # None
    /\ state[target[g]] = "complete"
    /\ target' = [target EXCEPT ![g] = None]
    /\ pos' = [pos EXCEPT ![g] = @ + 1]
    /\ UNCHANGED <<regPc, limit, mapVars, onceVars, state, forced, workVars, history>>

Deregistered(g) ==
    /\ Deregistering(g) /\ pos[g] > limit[g]
    /\ regPc' = [regPc EXCEPT ![g] = IF @ = "undo" THEN "failed" ELSE "gone"]
    /\ UNCHANGED <<pos, limit, target, mapVars, onceVars, state, forced, workVars, history>>

-----------------------------------------------------------------------------
(* Close. The callback of Once closes the handlers it finds in the map, each   *)
(* in a goroutine; without force the call then waits for all of them. A        *)
(* registration past its check of the fuse goes on beside it: such a handler   *)
(* is noted as late.                                                           *)
AfterOnce(c) == IF c \in ForceCalls THEN "returned" ELSE "wait"

CallClose(c) ==
    /\ closePc[c] = "idle"
    /\ \/ /\ owner = None
          /\ owner' = c
          /\ closePc' = [closePc EXCEPT ![c] = "once"]
          /\ broken' = fuse.breaksFirst
          /\ late' = late \cup {This(g) : g \in {o \in Groups : regPc[o] \in Begun}}
       \/ /\ owner # None
          /\ closePc' = [closePc EXCEPT ![c] = IF fuse.waits THEN "behind" ELSE AfterOnce(c)]
          /\ UNCHANGED <<owner, broken, late>>
    /\ UNCHANGED <<fuse, snapshot, mapVars, groupVars, state, forced, workVars, raced>>

Snapshot(c) ==
    /\ closePc[c] = "once"
    /\ closePc' = [closePc EXCEPT ![c] = "closing"]
    /\ snapshot' = {handlers[k] : k \in Keys} \ {None}
    /\ UNCHANGED <<broken, fuse, owner, mapVars, groupVars, state, forced, workVars, history>>

CloseOne(h) ==
    /\ h \in snapshot
    /\ state[h] = "open"
    /\ CloseHandler(h, owner \in ForceCalls)
    /\ UNCHANGED <<mapVars, groupVars, onceVars, workVars, history>>

AllClosed(c) ==
    /\ closePc[c] = "closing"
    /\ \A h \in snapshot : state[h] = "complete"
    /\ broken' = TRUE
    /\ closePc' = [closePc EXCEPT ![c] = AfterOnce(c)]
    /\ UNCHANGED <<fuse, owner, snapshot, mapVars, groupVars, state, forced, workVars, history>>

NotFirst(c) ==
    /\ closePc[c] = "behind"
    /\ ~InCallback
    /\ closePc' = [closePc EXCEPT ![c] = AfterOnce(c)]
    /\ UNCHANGED <<broken, fuse, owner, snapshot, mapVars, groupVars, state, forced, workVars, history>>

ActiveWait(c) ==
    /\ closePc[c] = "wait"
    /\ active = 0
    /\ closePc' = [closePc EXCEPT ![c] = "returned"]
    /\ UNCHANGED <<broken, fuse, owner, snapshot, mapVars, groupVars, state, forced, workVars, history>>

-----------------------------------------------------------------------------
(* RegisterHandler and RegisterStreamHandler take the same steps.              *)
RegisterStep(g) ==
    \/ CheckShutdown(g) \/ CheckExists(g) \/ NewHandler(g) \/ NewHandlerFails(g)
    \/ Count(g) \/ Insert(g) \/ Run(g)

DeregisterStep(g) == DeregisterHandler(g) \/ HandlerClosed(g) \/ Deregistered(g)

CompleteStep(h) == ActiveDone(h) \/ Complete(h)

CloseStep(c) == Snapshot(c) \/ AllClosed(c) \/ NotFirst(c) \/ ActiveWait(c)

Next ==
    \/ \E g \in Groups : RegisterStep(g) \/ CallDeregister(g) \/ DeregisterStep(g)
    \/ \E h \in Handlers : CompleteStep(h) \/ TakeRequest(h) \/ EndRequest(h) \/ Drain(h)
                           \/ CloseOne(h)
    \/ \E c \in Calls : CallClose(c) \/ CloseStep(c)

Spec == Init /\ [][Next]_vars

-----------------------------------------------------------------------------
(* Deregister and Close find a handler through the map: every handler that     *)
(* serves requests is there under its key, and the count Close waits for is of *)
(* the handlers not yet completed. A handler that lost its entry to another    *)
(* one, or to the onCompleted of another one, could not be closed any more:    *)
(* that happens only under a key that two calls of RegisterHandler had found   *)
(* free at the same time. And a grouped registration that fails leaves nothing *)
(* behind under any other key: when it returns its error every handler it had  *)
(* registered has completed, though the server may be closing the same         *)
(* handlers meanwhile.                                                         *)
EveryHandlerIsMapped ==
    /\ \A h \in Handlers : state[h] \in {"open", "closing", "done"} =>
          handlers[KeyOf(h)] = h \/ KeyOf(h) \in raced
    /\ active = Cardinality({h \in Handlers : state[h] \in {"counted", "open", "closing"}})
    /\ \A g \in Groups : regPc[g] = "failed" =>
          \A i \in DOMAIN Slice[g] :
             state[<<g, i>>] \in {"none", "complete"} \/ KeyOf(<<g, i>>) \in raced

(* "Close and wait for pending RPCs to complete" (README.md, Shutdown): when a *)
(* graceful Close has returned, no handler is registered, and none will be but *)
(* by a RegisterHandler that had found the server open before Close broke its  *)
(* fuse; an RPC handler has no request in flight unless it was closed by force *)
(* or is such a late one.                                                      *)
ShutdownIsQuiet ==
    (\E c \in Calls \ ForceCalls : closePc[c] = "returned") =>
        \A h \in Handlers \ late :
            /\ state[h] \in {"none", "done", "complete"}
            /\ h \in inFlight => h \in forced

(* A request that never ends holds up a graceful close of its handler.         *)
HeldUp(h) == h \in inFlight /\ state[h] = "closing" /\ h \notin forced

(* A handler the callback of Close did not find, because it was registered     *)
(* beside Close or lost its entry to a registration at the same time.          *)
Missed(h) == state[h] = "open" /\ h \notin snapshot /\ (h \in late \/ KeyOf(h) \in raced)

(* A goroutine that can run does, by itself: that of a group, those that close *)
(* a handler, and that of a Close. A request takes as long as the handler of   *)
(* the application does, perhaps for ever.                                     *)
GroupStep(g) ==
    \/ (regPc[g] \in Registering \/ pos[g] > 1) /\ RegisterStep(g)
    \/ DeregisterStep(g)

FairStep ==
    \/ \E g \in Groups : GroupStep(g)
    \/ \E h \in Handlers : CompleteStep(h) \/ Drain(h) \/ CloseOne(h)
    \/ \E c \in Calls : CloseStep(c)

(* Every call of Close has returned, and every deregistration has, also one    *)
(* that waited for a handler that a graceful Close was closing. What can hold  *)
(* them up for ever is a request that never ends, for those that must wait for *)
(* it, and for a graceful Close a handler that its callback missed.            *)
Settled ==
    /\ \A c \in Calls :
        \/ closePc[c] \in {"idle", "returned"}
        \/ closePc[c] = "wait" /\ \E h \in Handlers : Missed(h)
        \/ \E h \in Handlers : HeldUp(h)
    /\ \A g \in Groups : Deregistering(g) => \E h \in Handlers : target[g] = h /\ HeldUp(h)

(* Close and Deregister do not wait for each other, nor for what never comes:  *)
(* whenever nothing can happen by itself, they have returned or are held up as *)
(* Settled says. Registrations, closes and completions are never undone and    *)
(* requests that come and go disable none of their steps for good, so that     *)
(* what happens by itself comes to such a state.                               *)
NothingStuck == Settled \/ ENABLED FairStep

=============================================================================

------------------------------ MODULE MCLocalBus ------------------------------
EXTENDS LocalBus

CONSTANTS s1, s2, p1

MCSubs == {s1, s2}

(* Two subscribers, two members of a queue, and one of each.                   *)
MCKindSet == {k \in [MCSubs -> Kinds] : k[s1] = "queues" => k[s2] = "queues"}

(* Enough to fill a subscription, which holds one message in its channel and   *)
(* one in its forwarder, and to block on it.                                   *)
MCCount == [p \in {p1} |-> 3]

=============================================================================

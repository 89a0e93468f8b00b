----------------------------- MODULE MCRPCServer -----------------------------
EXTENDS RPCServer

CONSTANTS g1, g2, k1, k2

(* A group of two methods, and a second registration of one of its keys.       *)
MCGroups == {g1, g2}

MCSlice == [g \in MCGroups |-> IF g = g1 THEN <<k1, k2>> ELSE <<k1>>]

(* A fuse like sync.Once, which breaks last and makes a second caller wait,    *)
(* and one that does neither.                                                  *)
MCFuses == {[breaksFirst |-> FALSE, waits |-> TRUE], [breaksFirst |-> TRUE, waits |-> FALSE]}

=============================================================================

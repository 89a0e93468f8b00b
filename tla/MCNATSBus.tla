------------------------------ MODULE MCNATSBus ------------------------------
EXTENDS NATSBus, TLC

CONSTANTS a, b, q, p, m1, m2

MCLocalOf == [s \in Routed |-> "SAME"]

MCDests == {"SAME", "UNKNOWN"} \cup Plain

(* The subscriptions a and b are alike, and so are the messages.               *)
MCSymmetry == Permutations({a, b}) \cup Permutations(Messages)

=============================================================================

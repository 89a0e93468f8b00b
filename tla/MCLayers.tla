------------------------------- MODULE MCLayers -------------------------------
(* One model of the two parts of a call that LayerProofs is about too: the     *)
(* layers around it and the selection inside it. They share no state, so a     *)
(* behaviour of the model is one of either part with the other at rest.        *)
EXTENDS MCCallStack, MCSelectionLoop

AnyOpts == CHOOSE o \in OptsSet : TRUE

LoopAtRest == opts = AnyOpts /\ LoopInit

Init == StackInit /\ LoopInit

Next ==
    \/ StackInit /\ LoopNext /\ UNCHANGED stackVars
    \/ LoopAtRest /\ StackNext /\ UNCHANGED loopVars

Spec == Init /\ [][Next]_<<stackVars, loopVars>>

=============================================================================

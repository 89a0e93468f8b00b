------------------------------ MODULE MCRedisBus ------------------------------
EXTENDS RedisBus

CONSTANTS s1, s2, a, b

MCSubs == {s1, s2}

MCChannels == {a, b}

On(k, c) == [kind |-> k, channel |-> c]

(* Two readers of one channel in different ways, two members of a queue, and   *)
(* one reader on each channel.                                                 *)
MCSetups ==
    {s1 :> p[1] @@ s2 :> p[2] : p \in {<<On("subs", a), On("queues", a)>>,
                                      <<On("queues", a), On("queues", a)>>,
                                      <<On("subs", a), On("subs", b)>>}}

(* Both channels hash to the same publish queue.                               *)
MCBucket == [c \in MCChannels |-> 0]

=============================================================================

----------------------------- MODULE MCCallStack -----------------------------
(* Model of CallStack: topics with characters that the escapes, the delimiters *)
(* and the wildcards are made of, payloads around the threshold and the cap,   *)
(* and retry options with and without a maximum, a timeout and a backoff.      *)
EXTENDS CallStack

MCEscapes == [c \in {".", "|", "*", ">", "+", "rocket"} |->
    CASE c = "." -> [wide |-> FALSE, hex |-> "002e"]
      [] c = "|" -> [wide |-> FALSE, hex |-> "007c"]
      [] c = "*" -> [wide |-> FALSE, hex |-> "002a"]
      [] c = ">" -> [wide |-> FALSE, hex |-> "003e"]
      [] c = "+" -> [wide |-> FALSE, hex |-> "002b"]
      [] OTHER -> [wide |-> TRUE, hex |-> "0001f680"]]

Parts == {<<"a">>, <<"u">>, <<"REQ">>, <<"Q">>, <<"*">>, <<">">>, <<"|">>, <<"rocket">>,
          <<".">>, <<"u", "+", "002e">>, <<"a", ".">>, <<"a", ".", "a">>, <<"a", "|", "a">>}

Topics == {<<>>} \cup {<<p>> : p \in Parts} \cup {<<p, q>> : p \in Parts, q \in {<<"a">>, <<".", "a">>, <<"Q">>}}

MCInfos ==
    {[service |-> "S", method |-> m, topic |-> t, queue |-> m = "N"] : m \in {"M", "N"}, t \in Topics}

MCBodies == [len : {3, 4, 5}, gz : {1}] \cup {[len |-> 1, gz |-> 3], [len |-> 4, gz |-> 4]}
MCBusOpts == {[quality |-> 0, threshold |-> 1], [quality |-> 1, threshold |-> 0]}
MCRetryOpts ==
    {[max |-> 1, timeout |-> 0, backoff |-> 0], [max |-> 2, timeout |-> 2, backoff |-> 1],
     [max |-> 0, timeout |-> 0, backoff |-> 1]}

MCCallers == {[timeout |-> 0, deadline |-> 0], [timeout |-> 2, deadline |-> 0], [timeout |-> 0, deadline |-> 4]}

=============================================================================

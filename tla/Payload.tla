------------------------------- MODULE Payload -------------------------------
(* What a message carries: the bytes of its payload through compression        *)
(* (pkg/bus/serialization.go, compression.go), of which only their number      *)
(* counts, and the metadata that a context collects (pkg/metadata).            *)
EXTENDS Naturals, Sequences, SequencesExt

CONSTANTS DefaultCompressionThreshold

(* getBusOpts: a threshold that is not set is the default one.                 *)
GetBusOpts(o) ==
    [o EXCEPT !.threshold = IF @ = 0 THEN DefaultCompressionThreshold ELSE @]

(* A body has len bytes, and gz of them when gzip has compressed it. compress  *)
(* gives up on small ones and on those that gzip expands.                      *)
Compresses(body, o) == o.quality > 0 /\ body.len >= o.threshold /\ body.gz < body.len

Serialize(body, opts) ==
    [body |-> body,
     compression |-> IF Compresses(body, GetBusOpts(opts)) THEN "gzip" ELSE "none"]

(* gunzip stops one byte past the cap, and by that byte tells a body that is   *)
(* too large from one that is just as large as it may be.                      *)
MutLimit(maxSize) == maxSize

Limit(maxSize) == maxSize + 1

Gunzip(len, maxSize) ==
    LET out == IF maxSize > 0 /\ len > Limit(maxSize) THEN Limit(maxSize) ELSE len
    IN  [ok |-> ~(maxSize > 0 /\ out > maxSize), len |-> out]

(* The cap is for what was compressed, and what a later version may have       *)
(* compressed in another way is an error.                                      *)
Decompress(len, compression, maxSize) ==
    CASE compression = "none" -> [ok |-> TRUE, len |-> len]
      [] compression = "gzip" -> Gunzip(len, maxSize)
      [] OTHER -> [ok |-> FALSE, len |-> 0]

Deserialize(wire, maxSize) == Decompress(wire.body.len, wire.compression, maxSize)

-----------------------------------------------------------------------------
(* Outgoing metadata of a context: a map, which may be nil and is when nothing *)
(* was set, and the pairs that were appended since.                            *)
NoPairs == [k \in {} |-> 0]
Unset == [isNil |-> TRUE, md |-> NoPairs, added |-> <<>>]

Overlay(base, top) ==
    [k \in DOMAIN base \cup DOMAIN top |-> IF k \in DOMAIN top THEN top[k] ELSE base[k]]

NewContextWithOutgoingMetadata(isNil, md) == [isNil |-> isNil, md |-> md, added |-> <<>>]

WithOutgoingMetadata(ctx, md) ==
    IF DOMAIN md = {} THEN ctx
    ELSE [ctx EXCEPT !.isNil = FALSE, !.md = IF ctx.isNil THEN md ELSE Overlay(@, md)]

AppendMetadataToOutgoingContext(ctx, key, value) ==
    IF ctx.isNil THEN [isNil |-> FALSE, md |-> NoPairs, added |-> <<<<key, value>>>>]
    ELSE [ctx EXCEPT !.added = Append(@, <<key, value>>)]

(* Writing to the clone of a nil map would be a panic.                         *)
Panics(ctx) == ctx.isNil /\ ctx.added # <<>>

OutgoingContextMetadata(ctx) ==
    FoldLeft(LAMBDA md, kv : Overlay(md, [k \in {kv[1]} |-> kv[2]]), ctx.md, ctx.added)

=============================================================================

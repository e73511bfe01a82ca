--------------------------- MODULE MCInferBatching ---------------------------
(* Small engines for TLC, and which calls their clients make.              *)
EXTENDS InferBatching

CONSTANTS whole, chunks, lora1, lora2

Lenient(n) == [maxBatch |-> n, strict |-> FALSE, mayRaise |-> FALSE]
Failing(n) == [maxBatch |-> n, strict |-> TRUE, mayRaise |-> TRUE]

Several == {Lenient(1), Lenient(2), Failing(2)}

(* Two configs, each used by one served model only. *)
OwnConfigs == {[config |-> whole, adapter |-> NoAdapter],
               [config |-> chunks, adapter |-> lora1]}
==============================================================================

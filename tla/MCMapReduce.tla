---------------------------- MODULE MCMapReduce ----------------------------
(* Inputs for model-checking map-reduce jobs.                              *)
EXTENDS MapReduce

(* Three inputs: two share a key, one emits a key twice, one is all alone. *)
Emits3 == << <<2, 1, 2>>, <<1>>, <<3>> >>
(* Two inputs with different keys; one input with two keys.                *)
Emits2 == << <<1>>, <<2>> >>
Emits1 == << <<1, 2>> >>
(* Nothing to map; nothing to reduce.                                      *)
NoInputs == << >>
NoPairs == << <<>> >>
=============================================================================

--------------------------- MODULE MCRolloutServer ---------------------------
(* Which faults TLC combines.                                              *)
EXTENDS RolloutServer

Some == {{}, {"crash"}, {"quiet"}, {"post"}, {"infer"}}
==============================================================================

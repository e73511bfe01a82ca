--------------------------- MODULE MCAsyncRollout ---------------------------
(* Small training jobs for TLC: which steps are followed by evaluations.   *)
EXTENDS AsyncRollout

EvalEachStep == [s \in 0..MaxStep |-> IF s = 0 THEN 0 ELSE 1]
EvalSomeSteps == [s \in 0..MaxStep |-> IF s \in {2, 3, 6} THEN 1 ELSE 0]
=============================================================================

------------------------------ MODULE Sublists -------------------------------
(* [x for x in s if x in S]: what SelectSeq of the Sequences module gives,  *)
(* as a recursive function, so that there can be proofs about it; t, for    *)
(* TLC evaluates s once then.                                               *)
EXTENDS Integers, Sequences

Those(s, S) ==
    [t \in {s} |->
        LET those[n \in 0..Len(t)] ==
                IF n = 0 THEN << >>
                ELSE IF t[n] \in S THEN Append(those[n - 1], t[n])
                ELSE those[n - 1]
        IN  those[Len(t)]][s]
==============================================================================

---------------------------- MODULE MCTrainData ------------------------------
(* Six samples for TLC.                                                     *)
EXTENDS TrainData

Lengths == <<2, 2, 1, 2, 1, 3>>

(* Best-fit decreasing: the longest sample first, into the fullest bin it   *)
(* fits in.                                                                 *)
BestFit(s) ==
    LET Space(bin) == PackingLength - Tokens(bin)
        Fits(bins, x) == {b \in DOMAIN bins : Length[x] <= Space(bins[b])}
        Best(bins, x) == CHOOSE b \in Fits(bins, x) :
            \A c \in Fits(bins, x) :
                Space(bins[b]) < Space(bins[c])
                \/ (Space(bins[b]) = Space(bins[c]) /\ b <= c)
        Put(bins, x) == IF Fits(bins, x) = {} THEN Append(bins, <<x>>)
                        ELSE [bins EXCEPT ![Best(bins, x)] = Append(@, x)]
        Longest(i, j) == \/ Length[s[i]] > Length[s[j]]
                         \/ Length[s[i]] = Length[s[j]] /\ i > j
        sorted == SortSeq([i \in DOMAIN s |-> i], Longest)
    IN  FoldLeft(Put, << >>, [i \in DOMAIN s |-> s[sorted[i]]])

(* A permutation that differs from epoch to epoch, when n + 1 is prime.     *)
Multiples(e, n) == [i \in 1..n |-> (i * (e + 1)) % (n + 1)]
==============================================================================

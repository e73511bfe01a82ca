----------------------------- MODULE BinPacking ------------------------------
(***************************************************************************)
(* The samples of a training set and calculate_matched_group, which both   *)
(* packing datasets call: it spreads encoded samples over packs of at most *)
(* packing_length tokens, and holds the last pack back while more samples  *)
(* are to come.                                                            *)
(*                                                                         *)
(* dataset/packing.py.                                                     *)
(***************************************************************************)
EXTENDS Integers, Sequences, FiniteSets, SequencesExt

CONSTANTS
    N,              \* the number of samples
    Length,         \* the tokens of each sample once encoded
    PackingLength,  \* packing_length
    Bins(_)         \* binpacking.to_constant_volume(samples, packing_length)

Samples == 1..N

ASSUME SampleAssumption ==
    /\ N \in Nat
    /\ PackingLength \in Nat
    /\ Length \in [Samples -> 1..PackingLength]

Held(s) == {s[i] : i \in DOMAIN s}
Distinct(s) == \A i, j \in DOMAIN s : s[i] = s[j] => i = j

(* The samples of a sequence of packs, and that none is there twice.       *)
Packed(packs) == UNION {Held(packs[i]) : i \in DOMAIN packs}
Once(packs) ==
    \A i, k \in DOMAIN packs : \A j \in DOMAIN packs[i], l \in DOMAIN packs[k] :
        packs[i][j] = packs[k][l] => i = k /\ j = l

(* No pack is longer than packing_length.                                  *)
Tokens(pack) == FoldSeq(LAMBDA x, sum : sum + Length[x], 0, pack)
Fit(packs) == \A i \in DOMAIN packs : Tokens(packs[i]) <= PackingLength

(* The library puts every sample into one pack, and fills none too much.   *)
Orders == UNION {[1..k -> Samples] : k \in 0..N}

ASSUME BinsAssumption ==
    \A s \in Orders :
        Distinct(s) => /\ Bins(s) \in Seq(Seq(Samples))
                       /\ Packed(Bins(s)) = Held(s)
                       /\ Once(Bins(s)) /\ Fit(Bins(s))

(* calculate_matched_group: the packs that are complete, and what waits.   *)
Matched(s, finished) ==
    IF s = << >> THEN [packs |-> << >>, rest |-> << >>]
    ELSE IF finished THEN [packs |-> Bins(s), rest |-> << >>]
    ELSE [packs |-> Front(Bins(s)), rest |-> Last(Bins(s))]

(* Both data sets call it round after round, and put what waits before the *)
(* samples of the next: the packs, and what waits, after each round.       *)
PackRounds(rounds) ==
    LET n == Len(rounds)
        after[r \in 0..n] ==
            IF r = 0 THEN [packs |-> << >>, rest |-> << >>]
            ELSE LET m == Matched(after[r - 1].rest \o rounds[r], r = n)
                 IN  [packs |-> after[r - 1].packs \o m.packs, rest |-> m.rest]
    IN  after
==============================================================================
